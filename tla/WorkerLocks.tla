----------------------------- MODULE WorkerLocks -----------------------------
(***************************************************************************)
(* Who runs a chain: _Worker._reconcile, _stop_runner and shutdown of      *)
(* apps/worker/main.py for one chain, and the Redis lease of               *)
(* core/worker/chain_lock.py that is meant to keep several worker          *)
(* processes apart.                                                        *)
(*                                                                         *)
(* In a worker three tasks interleave: the main loop (`at`), the shutdown  *)
(* that run_worker starts beside it (`exit`) and the lease renewal         *)
(* (`renew`).  One unit of time is one renewal interval; a Redis call      *)
(* that takes a unit or more is late and uses up the fault budget.         *)
(***************************************************************************)
EXTENDS Integers, FiniteSets

CONSTANTS
  Workers,     \* worker processes (slots: a restarted process has a new worker_id)
  LeaseTicks,  \* _LOCK_TTL_S in renewal intervals (30 s / 10 s)
  MaxEvents    \* bound: changes, crashes, SIGTERMs and failing or late calls together

ASSUME LocksAssumption ==
  /\ Workers # {} /\ IsFiniteSet(Workers)
  /\ LeaseTicks \in Nat \ {0}
  /\ MaxEvents \in Nat

VARIABLES
  config,  \* the newest snapshot: its version, and whether the chain is in snap.chains
  key,     \* the lock key in Redis: holder and units since it was set or renewed
  up,      \* per worker: the process runs
  starts,  \* per worker: how often it was started; identifies its worker_id
  seen,    \* per worker: version of the snapshot it works on or worked on last
  at,      \* per worker: where the main loop is
  runner,  \* per worker: its _runners entry and the task behind it
  lock,    \* per worker: the chain is in _locks
  renew,   \* per worker: state of the renewal task
  exit,    \* per worker: where shutdown() is
  crashes, signals, faults

vars == <<config, key, up, starts, seen, at, runner, lock, renew, exit, crashes, signals, faults>>
bounds == <<crashes, signals, faults>>

NoHolder == <<"none", 0>>
Id(w) == <<w, starts[w]>>
Holds(w) == key.holder = Id(w)
Free == [holder |-> NoHolder, age |-> 0]

TypeOK ==
  /\ config \in [version : 1..(MaxEvents + 1), enabled : BOOLEAN]
  /\ key \in [holder : (Workers \X (1..(MaxEvents + 1))) \cup {NoHolder},
              age : 0..(LeaseTicks - 1)]
  /\ up \in [Workers -> BOOLEAN]
  /\ starts \in [Workers -> 0..(MaxEvents + 1)]
  /\ seen \in [Workers -> 0..(MaxEvents + 1)]
  /\ at \in [Workers -> {"idle", "acquire", "holder", "start", "apply", "stop", "stopping",
                         "release", "delete", "failed"}]
  /\ runner \in [Workers -> {"none", "running", "dead", "stopping"}]
  /\ lock \in [Workers -> BOOLEAN]
  /\ renew \in [Workers -> {"off", "sleep", "due", "owned"}]
  /\ exit \in [Workers -> {"no", "drain", "stop", "stopping", "locks", "get", "del", "gone"}]
  /\ {crashes, signals, faults} \subseteq 0..MaxEvents
-----------------------------------------------------------------------------
Troubles == crashes + signals + faults
Events == (config.version - 1) + Troubles

Set(f, w, v) == f' = [f EXCEPT ![w] = v]

Fault ==
  /\ Events < MaxEvents
  /\ faults' = faults + 1
  /\ UNCHANGED <<crashes, signals>>

(* A change of the configuration reaches every worker as a new snapshot. *)
ConfigChange(enabled) ==
  /\ Events < MaxEvents
  /\ config' = [version |-> config.version + 1, enabled |-> enabled]
  /\ UNCHANGED <<key, up, starts, seen, at, runner, lock, renew, exit, bounds>>

(* A new process: fresh worker_id, empty tables. *)
Boot(w) ==
  /\ ~up[w]
  /\ Set(up, w, TRUE)
  /\ Set(starts, w, starts[w] + 1)
  /\ Set(seen, w, 0)
  /\ UNCHANGED <<config, key, at, runner, lock, renew, exit, bounds>>
-----------------------------------------------------------------------------
(* The main loop. *)

(* _reconcile's choice for the chain once a snapshot is dequeued. *)
Plan(w) ==
  CASE config.enabled /\ runner[w] = "none" -> "acquire"
    [] config.enabled /\ runner[w] # "none" -> "apply"
    [] ~config.enabled /\ runner[w] # "none" -> "stop"
    [] OTHER -> "idle"

Dequeue(w) ==
  /\ up[w] /\ at[w] = "idle" /\ exit[w] = "no"
  /\ seen[w] # config.version
  /\ Set(seen, w, config.version)
  /\ Set(at, w, Plan(w))
  /\ UNCHANGED <<config, key, up, starts, runner, lock, renew, exit, bounds>>

(* SET NX EX; the renewal task starts, and the lock is entered in _locks. *)
Acquire(w) ==
  /\ at[w] = "acquire"
  /\ IF key = Free
     THEN /\ key' = [holder |-> Id(w), age |-> 0]
          /\ Set(renew, w, "sleep") /\ Set(lock, w, TRUE) /\ Set(at, w, "start")
     ELSE Set(at, w, "holder") /\ UNCHANGED <<key, renew, lock>>
  /\ UNCHANGED <<config, up, starts, seen, runner, exit, bounds>>

(* The key exists: it may be this worker's own.  Otherwise the chain is    *)
(* left alone until the next snapshot.                                     *)
AcquireOther(w) ==
  /\ at[w] = "holder"
  /\ IF Holds(w)
     THEN Set(renew, w, "sleep") /\ Set(lock, w, TRUE) /\ Set(at, w, "start")
     ELSE Set(at, w, "idle") /\ UNCHANGED <<renew, lock>>
  /\ UNCHANGED <<config, key, up, starts, seen, runner, exit, bounds>>

StartRunner(w) ==
  /\ at[w] = "start"
  /\ Set(runner, w, "running")
  /\ Set(at, w, "idle")
  /\ UNCHANGED <<config, key, up, starts, seen, lock, renew, exit, bounds>>

MutantStartFails(w) ==
  /\ at[w] = "start"
  /\ Fault
  /\ Set(at, w, "idle")
  /\ Set(lock, w, FALSE)
  /\ UNCHANGED <<config, key, up, starts, seen, runner, renew, exit>>

(* runner.start raises: the lock is released and the chain skipped. *)
StartFails(w) ==
  /\ at[w] = "start"
  /\ Fault
  /\ Set(at, w, "release")
  /\ Set(renew, w, "off")
  /\ UNCHANGED <<config, key, up, starts, seen, runner, lock, exit>>

Apply(w) ==
  /\ at[w] = "apply"
  /\ Set(at, w, "idle")
  /\ UNCHANGED <<config, key, up, starts, seen, runner, lock, renew, exit, bounds>>

(* An exception leaves _reconcile and run(); run_worker shuts the worker   *)
(* down.  A runner.stop() that fails leaves the runner's task uncancelled. *)
MainLoopFails(w) ==
  /\ at[w] \in {"acquire", "holder", "apply", "stopping", "release", "delete"}
  /\ Fault
  /\ Set(at, w, "failed")
  /\ Set(exit, w, IF exit[w] = "no" THEN "drain" ELSE exit[w])
  /\ UNCHANGED <<config, key, up, starts, seen, runner, lock, renew>>

(* _stop_runner pops the entry and stops the runner; an entry that         *)
(* shutdown has popped before is a KeyError.                               *)
StopRunner(w) ==
  /\ at[w] = "stop"
  /\ IF runner[w] \in {"running", "dead"}
     THEN Set(at, w, "stopping") /\ Set(runner, w, "stopping") /\ UNCHANGED exit
     ELSE /\ Set(at, w, "failed")
          /\ Set(exit, w, IF exit[w] = "no" THEN "drain" ELSE exit[w])
          /\ UNCHANGED runner
  /\ UNCHANGED <<config, key, up, starts, seen, lock, renew, bounds>>

MutantEntryKept(w) ==
  /\ at[w] = "stopping"
  /\ Set(runner, w, "dead")
  /\ Set(lock, w, FALSE) /\ Set(renew, w, "off") /\ Set(at, w, "release")
  /\ UNCHANGED <<config, key, up, starts, seen, exit, bounds>>

(* Drained and cancelled; then _locks.pop(chain_id).release(). *)
RunnerStopped(w) ==
  /\ at[w] = "stopping"
  /\ Set(runner, w, "none")
  /\ IF lock[w]
     THEN Set(lock, w, FALSE) /\ Set(renew, w, "off") /\ Set(at, w, "release")
     ELSE Set(at, w, "idle") /\ UNCHANGED <<lock, renew>>
  /\ UNCHANGED <<config, key, up, starts, seen, exit, bounds>>

(* release(): GET, and DELETE only when the key is still this worker's. *)
ReleaseGet(w) ==
  /\ at[w] = "release"
  /\ IF Holds(w)
     THEN Set(at, w, "delete") /\ UNCHANGED lock
     ELSE Set(at, w, "idle") /\ Set(lock, w, FALSE)
  /\ UNCHANGED <<config, key, up, starts, seen, runner, renew, exit, bounds>>

ReleaseDelete(w) ==
  /\ at[w] = "delete"
  /\ key' = Free
  /\ Set(at, w, "idle") /\ Set(lock, w, FALSE)
  /\ UNCHANGED <<config, up, starts, seen, runner, renew, exit, bounds>>

(* The runner's task ends with an exception; nobody awaits it. *)
RunnerDies(w) ==
  /\ runner[w] = "running"
  /\ Fault
  /\ Set(runner, w, "dead")
  /\ UNCHANGED <<config, key, up, starts, seen, at, lock, renew, exit>>
-----------------------------------------------------------------------------
(* The renewal task. *)

RenewGet(w) ==
  /\ renew[w] = "due"
  /\ Set(renew, w, IF Holds(w) THEN "owned" ELSE "off")
  /\ UNCHANGED <<config, key, up, starts, seen, at, runner, lock, exit, bounds>>

MutantRenewExpire(w) ==
  /\ renew[w] = "owned"
  /\ Set(renew, w, "sleep")
  /\ UNCHANGED <<config, key, up, starts, seen, at, runner, lock, exit, bounds>>

(* EXPIRE restarts the lease of whoever holds the key now. *)
RenewExpire(w) ==
  /\ renew[w] = "owned"
  /\ key' = IF key = Free THEN key ELSE [key EXCEPT !.age = 0]
  /\ Set(renew, w, "sleep")
  /\ UNCHANGED <<config, up, starts, seen, at, runner, lock, exit, bounds>>

(* The exception is logged and the loop sleeps again. *)
RenewFails(w) ==
  /\ renew[w] \in {"due", "owned"}
  /\ Fault
  /\ Set(renew, w, "sleep")
  /\ UNCHANGED <<config, key, up, starts, seen, at, runner, lock, exit>>
-----------------------------------------------------------------------------
(* shutdown(), beside a main loop that may be anywhere in _reconcile. *)

Signal(w) ==
  /\ up[w] /\ exit[w] = "no"
  /\ Events < MaxEvents
  /\ signals' = signals + 1
  /\ Set(exit, w, "drain")
  /\ UNCHANGED <<config, key, up, starts, seen, at, runner, lock, renew, crashes, faults>>

(* list(self._runners), after the watchers are stopped. *)
ExitList(w) ==
  /\ exit[w] = "drain"
  /\ Set(exit, w, IF runner[w] \in {"running", "dead"} THEN "stop" ELSE "locks")
  /\ UNCHANGED <<config, key, up, starts, seen, at, runner, lock, renew, bounds>>

(* The gathered _stop_runner; when the main loop was faster the KeyError   *)
(* leaves shutdown, which then releases nothing.                           *)
ExitStop(w) ==
  /\ exit[w] = "stop"
  /\ IF runner[w] \in {"running", "dead"}
     THEN Set(exit, w, "stopping") /\ Set(runner, w, "stopping")
     ELSE Set(exit, w, "gone") /\ UNCHANGED runner
  /\ UNCHANGED <<config, key, up, starts, seen, at, lock, renew, bounds>>

ExitStopped(w) ==
  /\ exit[w] = "stopping"
  /\ Set(runner, w, "none")
  /\ Set(exit, w, "locks")
  /\ UNCHANGED <<config, key, up, starts, seen, at, lock, renew, bounds>>

ExitLocks(w) ==
  /\ exit[w] = "locks"
  /\ IF lock[w]
     THEN Set(exit, w, "get") /\ Set(renew, w, "off")
     ELSE Set(exit, w, "gone") /\ UNCHANGED renew
  /\ UNCHANGED <<config, key, up, starts, seen, at, runner, lock, bounds>>

ExitGet(w) ==
  /\ exit[w] = "get"
  /\ Set(exit, w, IF Holds(w) THEN "del" ELSE "gone")
  /\ UNCHANGED <<config, key, up, starts, seen, at, runner, lock, renew, bounds>>

ExitDelete(w) ==
  /\ exit[w] = "del"
  /\ key' = Free
  /\ Set(exit, w, "gone")
  /\ UNCHANGED <<config, up, starts, seen, at, runner, lock, renew, bounds>>

(* A failing release is swallowed; a failing runner.stop() leaves shutdown. *)
ExitFails(w) ==
  /\ exit[w] \in {"stopping", "get", "del"}
  /\ Fault
  /\ Set(exit, w, "gone")
  /\ UNCHANGED <<config, key, up, starts, seen, at, runner, lock, renew>>

Gone(w) ==
  /\ Set(up, w, FALSE)
  /\ Set(at, w, "idle") /\ Set(runner, w, "none")
  /\ Set(lock, w, FALSE) /\ Set(renew, w, "off") /\ Set(exit, w, "no")

(* Bus and database are disconnected, the main loop is cancelled. *)
ExitDone(w) ==
  /\ exit[w] = "gone"
  /\ Gone(w)
  /\ UNCHANGED <<config, key, starts, seen, bounds>>

Crash(w) ==
  /\ up[w]
  /\ Events < MaxEvents
  /\ crashes' = crashes + 1
  /\ Gone(w)
  /\ UNCHANGED <<config, key, starts, seen, signals, faults>>
-----------------------------------------------------------------------------
(* A Redis call of w that nothing but the network delays. *)
CallPending(w) ==
  renew[w] \in {"due", "owned"} \/ at[w] \in {"release", "delete"} \/ exit[w] \in {"get", "del"}

MutantExpired(age) == FALSE

(* Redis drops the key when the lease has run out. *)
Expired(age) == age >= LeaseTicks

(* One renewal interval passes. *)
Tick ==
  /\ \/ (\A w \in Workers : ~CallPending(w)) /\ UNCHANGED bounds
     \/ (\E w \in Workers : CallPending(w)) /\ Fault
  /\ key # Free \/ \E w \in Workers : renew[w] = "sleep"
  /\ key' = IF key = Free \/ Expired(key.age + 1) THEN Free
            ELSE [key EXCEPT !.age = IF @ + 1 < LeaseTicks THEN @ + 1 ELSE @]
  /\ renew' = [w \in Workers |-> IF renew[w] = "sleep" THEN "due" ELSE renew[w]]
  /\ UNCHANGED <<config, up, starts, seen, at, runner, lock, exit>>

Init ==
  /\ config = [version |-> 1, enabled |-> TRUE]
  /\ key = Free
  /\ up = [w \in Workers |-> FALSE]
  /\ starts = [w \in Workers |-> 0]
  /\ seen = [w \in Workers |-> 0]
  /\ at = [w \in Workers |-> "idle"]
  /\ runner = [w \in Workers |-> "none"]
  /\ lock = [w \in Workers |-> FALSE]
  /\ renew = [w \in Workers |-> "off"]
  /\ exit = [w \in Workers |-> "no"]
  /\ crashes = 0 /\ signals = 0 /\ faults = 0

Reconcile(w) ==
  \/ Dequeue(w) \/ Acquire(w) \/ AcquireOther(w) \/ StartRunner(w) \/ Apply(w)
  \/ StopRunner(w) \/ RunnerStopped(w) \/ ReleaseGet(w) \/ ReleaseDelete(w)

Renewal(w) == RenewGet(w) \/ RenewExpire(w)

Shutdown(w) ==
  \/ ExitList(w) \/ ExitStop(w) \/ ExitStopped(w) \/ ExitLocks(w)
  \/ ExitGet(w) \/ ExitDelete(w) \/ ExitDone(w)

Failure(w) ==
  \/ StartFails(w) \/ MainLoopFails(w) \/ RunnerDies(w) \/ RenewFails(w) \/ ExitFails(w)

Next ==
  \/ \E enabled \in BOOLEAN : ConfigChange(enabled)
  \/ \E w \in Workers : Boot(w) \/ Reconcile(w) \/ Renewal(w) \/ Shutdown(w) \/ Failure(w)
  \/ \E w \in Workers : Signal(w) \/ Crash(w)
  \/ Tick

(* Time passes, event loops run their ready tasks, and a supervisor starts *)
(* a worker that is down.                                                  *)
Fairness ==
  /\ WF_vars(Tick)
  /\ \A w \in Workers : WF_vars(Reconcile(w)) /\ WF_vars(Renewal(w)) /\ WF_vars(Shutdown(w))
                        /\ WF_vars(Boot(w))

Spec == Init /\ [][Next]_vars /\ Fairness
-----------------------------------------------------------------------------
(* As long as no worker is told to stop and at most one call fails or is   *)
(* late, a worker runs a chain only while it holds the chain's lease, so   *)
(* two of them never run it at once: the lease outlives a missed renewal,  *)
(* and release and renewal, each a GET followed by a write, never touch    *)
(* the lease of another worker.  (A second missed renewal lets the lease   *)
(* expire under the runner, and shutdown's release can delete the lease of *)
(* another worker.)                                                        *)
RunnerHoldsLease ==
  (signals = 0 /\ faults <= 1) => \A w \in Workers : runner[w] = "running" => Holds(w)

(* A worker that is not shutting down keeps a lease alive only for a chain *)
(* it has in _locks: no path of _reconcile leaves a renewal running for a  *)
(* chain it gave up, which would lock every other worker out for good.     *)
RenewalHasLock ==
  \A w \in Workers : (exit[w] = "no" /\ renew[w] # "off") => lock[w]

(* A lease whose process is gone disappears, after a graceful shutdown as  *)
(* well as after a crash.                                                  *)
OrphanLeaseExpires ==
  \A w \in Workers :
    (key.holder[1] = w /\ ~Holds(w)) ~> (key.holder[1] # w \/ Holds(w))

(* When no process stops and no call fails, an enabled chain is in the end *)
(* run by some worker, whatever the order in which the workers see the     *)
(* changes and release the lease.                                          *)
EnabledChainIsServed ==
  <>[](\/ Troubles > 0
       \/ config.enabled => \E w \in Workers : runner[w] = "running")
=============================================================================
