-------------------------- MODULE WorkerLocksProofs --------------------------
(***************************************************************************)
(* Proofs about WorkerLocks, for any number of workers, any number of      *)
(* restarts, failing calls and configuration changes.                      *)
(***************************************************************************)
EXTENDS WorkerLocks, TLAPS

(* What the arguments need of the types; the bounds of TypeOK play no part. *)
LockTypes ==
  /\ key \in [holder : (Workers \X Nat) \cup {NoHolder}, age : Nat]
  /\ up \in [Workers -> BOOLEAN]
  /\ starts \in [Workers -> Nat]
  /\ at \in [Workers -> {"idle", "acquire", "holder", "start", "apply", "stop", "stopping",
                         "release", "delete", "failed"}]
  /\ runner \in [Workers -> {"none", "running", "dead", "stopping"}]
  /\ lock \in [Workers -> BOOLEAN]
  /\ renew \in [Workers -> {"off", "sleep", "due", "owned"}]
  /\ exit \in [Workers -> {"no", "drain", "stop", "stopping", "locks", "get", "del", "gone"}]
  /\ faults \in Nat /\ signals \in Nat

(* The steps of one worker. *)
Step(w) == Boot(w) \/ Reconcile(w) \/ Renewal(w) \/ Shutdown(w) \/ Failure(w) \/ Signal(w) \/ Crash(w)

(* The types hold initially. *)
LEMMA TypesInit == Init => LockTypes
  BY DEF Init, LockTypes, Free, NoHolder

(* Every step keeps the types. *)
LEMMA TypesStep == LockTypes /\ [Next]_vars => LockTypes'
<1> SUFFICES ASSUME LockTypes, [Next]_vars PROVE LockTypes'
  OBVIOUS
<1> USE DEF LockTypes, Set, Fault, bounds
<1>1. ASSUME NEW w \in Workers, Boot(w) PROVE LockTypes'
  BY <1>1 DEF Boot
<1>2. ASSUME NEW w \in Workers, Reconcile(w) PROVE LockTypes'
  <2>1. CASE Dequeue(w)
    <3>1. Plan(w) \in {"acquire", "apply", "stop", "idle"}
      BY DEF Plan
    <3> QED  BY <2>1, <3>1 DEF Dequeue
  <2>2. CASE Acquire(w)
    <3>1. CASE key = Free
      <4>1. key' = [holder |-> <<w, starts[w]>>, age |-> 0]
        BY <2>2, <3>1 DEF Acquire, Id
      <4>2. key' \in [holder : (Workers \X Nat) \cup {NoHolder}, age : Nat]
        BY <4>1
      <4> QED  BY <2>2, <3>1, <4>2 DEF Acquire
    <3>2. CASE key # Free
      BY <2>2, <3>2 DEF Acquire
    <3> QED  BY <3>1, <3>2
  <2>3. CASE AcquireOther(w)
    BY <2>3 DEF AcquireOther
  <2>4. CASE StartRunner(w)
    BY <2>4 DEF StartRunner
  <2>5. CASE Apply(w)
    BY <2>5 DEF Apply
  <2>6. CASE StopRunner(w)
    BY <2>6 DEF StopRunner
  <2>7. CASE RunnerStopped(w)
    <3>1. CASE lock[w]
      BY <2>7, <3>1 DEF RunnerStopped
    <3>2. CASE ~lock[w]
      BY <2>7, <3>2 DEF RunnerStopped
    <3> QED  BY <3>1, <3>2
  <2>8. CASE ReleaseGet(w)
    BY <2>8 DEF ReleaseGet
  <2>9. CASE ReleaseDelete(w)
    BY <2>9 DEF ReleaseDelete, Free
  <2> QED  BY <1>2, <2>1, <2>2, <2>3, <2>4, <2>5, <2>6, <2>7, <2>8, <2>9 DEF Reconcile
<1>3. ASSUME NEW w \in Workers, Renewal(w) PROVE LockTypes'
  BY <1>3 DEF Renewal, RenewGet, RenewExpire
<1>4. ASSUME NEW w \in Workers, Shutdown(w) PROVE LockTypes'
  <2>1. CASE ExitDelete(w)
    BY <2>1 DEF ExitDelete, Free
  <2>2. CASE ExitDone(w)
    BY <2>2 DEF ExitDone, Gone
  <2>3. CASE ExitList(w) \/ ExitStop(w) \/ ExitStopped(w) \/ ExitLocks(w) \/ ExitGet(w)
    BY <2>3 DEF ExitList, ExitStop, ExitStopped, ExitLocks, ExitGet
  <2> QED  BY <1>4, <2>1, <2>2, <2>3 DEF Shutdown
<1>5. ASSUME NEW w \in Workers, Failure(w) PROVE LockTypes'
  BY <1>5 DEF Failure, StartFails, MainLoopFails, RunnerDies, RenewFails, ExitFails
<1>6. ASSUME NEW w \in Workers, Signal(w) \/ Crash(w) PROVE LockTypes'
  <2>1. CASE Signal(w)
    BY <2>1 DEF Signal
  <2>2. CASE Crash(w)
    <3>1. UNCHANGED <<key, starts, signals, faults>>
      BY <2>2 DEF Crash
    <3>2. Gone(w)
      BY <2>2 DEF Crash
    <3> QED  BY ONLY <3>1, <3>2, LockTypes, w \in Workers DEF Gone, Set, LockTypes
  <2> QED  BY <1>6, <2>1, <2>2
<1>7. ASSUME Tick PROVE LockTypes'
  <2>1. key' \in [holder : (Workers \X Nat) \cup {NoHolder}, age : Nat]
    <3> DEFINE n == IF key.age + 1 < LeaseTicks THEN key.age + 1 ELSE key.age
    <3>0. n \in Nat
      BY LocksAssumption DEF LocksAssumption
    <3>a. key' = Free \/ key' = [key EXCEPT !.age = n]
      BY <1>7 DEF Tick
    <3> HIDE DEF n
    <3>1. key' = Free \/ \E m \in Nat : key' = [key EXCEPT !.age = m]
      BY <3>0, <3>a
    <3>2. Free \in [holder : (Workers \X Nat) \cup {NoHolder}, age : Nat]
      BY DEF Free
    <3> QED  BY <3>1, <3>2
  <2>2. renew' \in [Workers -> {"off", "sleep", "due", "owned"}]
    BY <1>7 DEF Tick
  <2>3. faults' \in Nat /\ signals' \in Nat
    BY <1>7 DEF Tick
  <2>4. UNCHANGED <<up, starts, at, runner, lock, exit>>
    BY <1>7 DEF Tick
  <2> QED  BY ONLY <2>1, <2>2, <2>3, <2>4, LockTypes DEF LockTypes
<1>8. ASSUME NEW enabled \in BOOLEAN, ConfigChange(enabled) PROVE LockTypes'
  BY <1>8 DEF ConfigChange
<1>9. ASSUME UNCHANGED vars PROVE LockTypes'
  BY <1>9 DEF vars
<1> QED  BY <1>1, <1>2, <1>3, <1>4, <1>5, <1>6, <1>7, <1>8, <1>9 DEF Next
-----------------------------------------------------------------------------
(* A renewal runs only for a lock in _locks, and a release in _reconcile   *)
(* has cancelled the renewal before it drops the lock.                     *)
RenewInv ==
  \A w \in Workers :
    /\ renew[w] # "off" => lock[w]
    /\ at[w] \in {"release", "delete"} => renew[w] = "off"

(* RenewInv is inductive. *)
LEMMA RenewStep == LockTypes /\ RenewInv /\ [Next]_vars => RenewInv'
<1> SUFFICES ASSUME LockTypes, RenewInv, [Next]_vars PROVE RenewInv'
  OBVIOUS
<1> USE DEF LockTypes, RenewInv, Set, Fault, bounds
<1>1. ASSUME NEW w \in Workers, Boot(w) PROVE RenewInv'
  BY <1>1 DEF Boot
<1>2. ASSUME NEW w \in Workers, Reconcile(w) PROVE RenewInv'
  <2>1. CASE Dequeue(w)
    <3>1. Plan(w) \in {"acquire", "apply", "stop", "idle"}
      BY DEF Plan
    <3> QED  BY <2>1, <3>1 DEF Dequeue
  <2>2. CASE Acquire(w)
    BY <2>2 DEF Acquire
  <2>3. CASE AcquireOther(w)
    BY <2>3 DEF AcquireOther
  <2>4. CASE StartRunner(w) \/ Apply(w) \/ StopRunner(w)
    BY <2>4 DEF StartRunner, Apply, StopRunner
  <2>5. CASE RunnerStopped(w)
    BY <2>5 DEF RunnerStopped
  <2>6. CASE ReleaseGet(w) \/ ReleaseDelete(w)
    BY <2>6 DEF ReleaseGet, ReleaseDelete
  <2> QED  BY <1>2, <2>1, <2>2, <2>3, <2>4, <2>5, <2>6 DEF Reconcile
<1>3. ASSUME NEW w \in Workers, Renewal(w) PROVE RenewInv'
  BY <1>3 DEF Renewal, RenewGet, RenewExpire
<1>4. ASSUME NEW w \in Workers, Shutdown(w) PROVE RenewInv'
  <2>1. CASE ExitDone(w)
    BY <2>1 DEF ExitDone, Gone
  <2>2. CASE ExitList(w) \/ ExitStop(w) \/ ExitStopped(w) \/ ExitLocks(w) \/ ExitGet(w) \/ ExitDelete(w)
    BY <2>2 DEF ExitList, ExitStop, ExitStopped, ExitLocks, ExitGet, ExitDelete
  <2> QED  BY <1>4, <2>1, <2>2 DEF Shutdown
<1>5. ASSUME NEW w \in Workers, Failure(w) PROVE RenewInv'
  BY <1>5 DEF Failure, StartFails, MainLoopFails, RunnerDies, RenewFails, ExitFails
<1>6. ASSUME NEW w \in Workers, Signal(w) \/ Crash(w) PROVE RenewInv'
  BY <1>6 DEF Signal, Crash, Gone
<1>7. ASSUME Tick PROVE RenewInv'
  BY <1>7 DEF Tick
<1>8. ASSUME NEW enabled \in BOOLEAN, ConfigChange(enabled) PROVE RenewInv'
  BY <1>8 DEF ConfigChange
<1>9. ASSUME UNCHANGED vars PROVE RenewInv'
  BY <1>9 DEF vars
<1> QED  BY <1>1, <1>2, <1>3, <1>4, <1>5, <1>6, <1>7, <1>8, <1>9 DEF Next

(* A worker that is not shutting down renews the lease of a chain only     *)
(* while the chain is in _locks, however reconciling, failing starts,      *)
(* releases and renewals interleave.                                       *)
THEOREM RenewalCorrect == Spec => []RenewalHasLock
<1>1. Init => RenewInv
  BY DEF Init, RenewInv
<1>2. RenewInv => RenewalHasLock
  BY DEF RenewInv, RenewalHasLock
<1> QED  BY TypesInit, TypesStep, RenewStep, <1>1, <1>2, PTL DEF Spec
-----------------------------------------------------------------------------
(* The hypothesis of RunnerHoldsLease: nobody is told to stop, and at most *)
(* one call fails or is late.                                              *)
Calm == signals = 0 /\ faults <= 1

(* The lease is needed from the moment acquire() returns until the runner  *)
(* has been stopped, or shutdown goes on without waiting for it.           *)
Serving(w) ==
  \/ at[w] = "start"
  \/ runner[w] # "none" /\ exit[w] \notin {"locks", "get", "del", "gone"}

(* Redis keeps no lease without a holder, and no holder has a worker_id    *)
(* that was not given out yet.                                             *)
KeyInv ==
  /\ key.holder # NoHolder => key.holder[2] <= starts[key.holder[1]]
  /\ key.holder = NoHolder => key = Free

(* Where the three tasks of a worker can be at once.  Only a failure of    *)
(* the main loop starts a shutdown, and it uses up the one fault.          *)
Shape(w) ==
  /\ up[w] => starts[w] > 0
  /\ ~up[w] => at[w] = "idle" /\ runner[w] = "none" /\ renew[w] = "off" /\ exit[w] = "no"
  /\ exit[w] = "no" => at[w] # "failed"
  /\ exit[w] # "no" => at[w] = "failed" /\ faults = 1
  /\ at[w] \in {"apply", "stop"} => runner[w] \in {"running", "dead"}
  /\ at[w] \in {"acquire", "holder", "start", "release", "delete"} => runner[w] = "none"
  /\ at[w] = "stopping" \/ exit[w] = "stopping" => runner[w] = "stopping"
  /\ runner[w] = "stopping" => at[w] = "stopping" \/ exit[w] # "no"
  /\ exit[w] = "stop" => runner[w] \in {"running", "dead"}
  /\ exit[w] \in {"locks", "get", "del", "gone"} => runner[w] \in {"none", "stopping"}

(* The age of a lease in use: a renewal is due after one unit, and each    *)
(* fault costs it one unit more.                                           *)
Fresh(w) ==
  /\ renew[w] = "sleep" => key.age <= faults
  /\ key.age <= faults + 1

(* A worker that needs the lease has it, and its renewal runs; a DELETE    *)
(* that was decided on finds the worker's own lease; and a worker that has *)
(* let go of the chain has let go of the lease.                            *)
Lease(w) ==
  /\ Serving(w) => Holds(w) /\ lock[w] /\ renew[w] # "off" /\ Fresh(w)
  /\ (at[w] \in {"release", "delete"} /\ Holds(w)) => key.age <= faults + 1
  /\ (at[w] = "delete" \/ exit[w] = "del") => Holds(w)
  /\ (up[w] /\ at[w] \in {"idle", "acquire", "holder"} /\ runner[w] = "none") => ~Holds(w)

LeaseInv ==
  /\ LockTypes
  /\ KeyInv
  /\ Calm => \A w \in Workers : Shape(w) /\ Lease(w)

(* KeyInv is inductive. *)
LEMMA KeyStep == LockTypes /\ KeyInv /\ [Next]_vars => KeyInv'
<1> SUFFICES ASSUME LockTypes, KeyInv, [Next]_vars PROVE KeyInv'
  OBVIOUS
<1> USE DEF LockTypes, KeyInv, Set
<1>0. Free.holder = NoHolder
  BY DEF Free
<1>1. CASE key' = Free /\ UNCHANGED starts
  BY <1>0, <1>1
<1>2. CASE UNCHANGED <<key, starts>>
  BY <1>2 DEF Free
<1>3. ASSUME NEW w \in Workers, Boot(w) PROVE KeyInv'
  <2>1. key' = key /\ starts' = [starts EXCEPT ![w] = starts[w] + 1]
    BY <1>3 DEF Boot
  <2>2. \A v \in Workers : starts[v] <= starts'[v]
    BY <2>1
  <2>3. CASE key.holder = NoHolder
    BY <2>1, <2>3 DEF Free
  <2>4. CASE key.holder # NoHolder
    <3>1. key.holder \in Workers \X Nat
      BY <2>4
    <3>2. key.holder[1] \in Workers /\ key.holder[2] \in Nat
      BY <3>1
    <3>3. starts[key.holder[1]] \in Nat /\ starts'[key.holder[1]] \in Nat
      BY <2>1, <3>2
    <3>4. key.holder[2] <= starts'[key.holder[1]]
      BY <2>2, <2>4, <3>2, <3>3
    <3> QED  BY <2>1, <2>4, <3>4
  <2> QED  BY <2>3, <2>4
<1>4. ASSUME NEW w \in Workers, key' = [holder |-> Id(w), age |-> 0], starts' = starts
      PROVE  KeyInv'
  <2>1. key'.holder = <<w, starts[w]>>
    BY <1>4 DEF Id
  <2>2. key'.holder[1] = w /\ key'.holder[2] = starts[w]
    BY <2>1
  <2>3. CASE key'.holder = NoHolder
    BY <1>4, <2>3 DEF Free
  <2> QED  BY <1>4, <2>2, <2>3
<1>5. ASSUME NEW n \in Nat, key' = [key EXCEPT !.age = n], key # Free, starts' = starts
      PROVE  KeyInv'
  <2>1. key'.holder = key.holder
    BY <1>5
  <2> QED  BY <1>5, <2>1
<1>6. \/ key' = Free /\ UNCHANGED starts
      \/ UNCHANGED <<key, starts>>
      \/ \E w \in Workers : Boot(w)
      \/ \E w \in Workers : key' = [holder |-> Id(w), age |-> 0] /\ starts' = starts
      \/ \E n \in Nat : key' = [key EXCEPT !.age = n] /\ key # Free /\ starts' = starts
  <2>1. ASSUME NEW w \in Workers, Reconcile(w)
        PROVE  \/ starts' = starts /\ (key' = Free \/ key' = key)
               \/ key' = [holder |-> Id(w), age |-> 0] /\ starts' = starts
    BY <2>1 DEF Reconcile, Dequeue, Acquire, AcquireOther, StartRunner, Apply, StopRunner,
                RunnerStopped, ReleaseGet, ReleaseDelete
  <2>2. ASSUME NEW w \in Workers, Renewal(w)
        PROVE  starts' = starts /\ (key' = key \/ (key # Free /\ key' = [key EXCEPT !.age = 0]))
    <3>1. CASE RenewGet(w)
      <4>1. starts' = starts /\ key' = key
        BY <3>1 DEF RenewGet
      <4> QED  BY ONLY <4>1
    <3>2. CASE RenewExpire(w)
      <4>1. starts' = starts
        BY <3>2 DEF RenewExpire
      <4>2. key' = key \/ key' = [key EXCEPT !.age = 0]
        BY ONLY <3>2 DEF RenewExpire
      <4>3. key = Free => key' = key
        BY <3>2 DEF RenewExpire
      <4> QED  BY ONLY <4>1, <4>2, <4>3
    <3>3. RenewGet(w) \/ RenewExpire(w)
      BY <2>2 DEF Renewal
    <3> QED  BY ONLY <3>1, <3>2, <3>3
  <2>3. ASSUME NEW w \in Workers, Shutdown(w)
        PROVE  starts' = starts /\ (key' = key \/ key' = Free)
    BY <2>3 DEF Shutdown, ExitList, ExitStop, ExitStopped, ExitLocks, ExitGet, ExitDelete, ExitDone
  <2>4. ASSUME NEW w \in Workers, Failure(w) \/ Signal(w) \/ Crash(w)
        PROVE  UNCHANGED <<key, starts>>
    BY <2>4 DEF Failure, StartFails, MainLoopFails, RunnerDies, RenewFails, ExitFails,
                Signal, Crash
  <2>5. ASSUME Tick
        PROVE  /\ starts' = starts
               /\ key' = Free \/ \E n \in Nat : key # Free /\ key' = [key EXCEPT !.age = n]
    <3> DEFINE n == IF key.age + 1 < LeaseTicks THEN key.age + 1 ELSE key.age
    <3>1. n \in Nat
      BY LocksAssumption DEF LocksAssumption
    <3>2. starts' = starts /\ (key = Free => key' = Free)
      BY <2>5 DEF Tick
    <3>3. key' = Free \/ key' = [key EXCEPT !.age = n]
      BY <2>5 DEF Tick
    <3> HIDE DEF n
    <3> QED  BY ONLY <3>1, <3>2, <3>3
  <2>6. ASSUME NEW enabled \in BOOLEAN, ConfigChange(enabled) PROVE UNCHANGED <<key, starts>>
    BY <2>6 DEF ConfigChange
  <2>7. ASSUME UNCHANGED vars PROVE UNCHANGED <<key, starts>>
    BY <2>7 DEF vars
  <2>8. 0 \in Nat
    OBVIOUS
  <2> QED  BY <2>1, <2>2, <2>3, <2>4, <2>5, <2>6, <2>7, <2>8 DEF Next
<1> QED  BY <1>1, <1>2, <1>3, <1>4, <1>5, <1>6

(* A step that leaves the tasks of w alone and its lease, if it has one,   *)
(* no older keeps what the invariant says of w.                            *)
LEMMA OtherWorker ==
  ASSUME NEW w \in Workers, LockTypes, LockTypes', Shape(w), Lease(w), Calm',
         faults' \in {faults, faults + 1},
         up'[w] = up[w], starts'[w] = starts[w], at'[w] = at[w], runner'[w] = runner[w],
         lock'[w] = lock[w], renew'[w] = renew[w], exit'[w] = exit[w],
         up[w] => ((key'.holder = Id(w)) <=> Holds(w)),
         (up[w] /\ Holds(w)) => key'.age <= key.age
  PROVE  Shape(w)' /\ Lease(w)'
<1>0. /\ key.age \in Nat /\ key'.age \in Nat /\ faults \in Nat
      /\ starts[w] \in Nat /\ faults' \in Nat /\ faults' <= 1
  BY DEF LockTypes, Calm
<1>1. exit[w] # "no" => faults' = 1
  BY <1>0 DEF Shape
<1>2. Shape(w)'
  BY <1>1 DEF Shape
<1>3. CASE ~up[w]
  <2>1. ~Serving(w)' /\ ~up'[w] /\ at'[w] = "idle" /\ exit'[w] = "no"
    BY <1>3 DEF Shape, Serving
  <2> QED  BY <1>2, <2>1 DEF Lease
<1>4. CASE up[w]
  <2>1. Holds(w)' <=> Holds(w)
    BY <1>4 DEF Holds, Id
  <2>2. Serving(w)' <=> Serving(w)
    BY DEF Serving
  <2>3. Holds(w) /\ Fresh(w) => Fresh(w)'
    BY <1>0, <1>4 DEF Fresh
  <2>4. Holds(w) /\ key.age <= faults + 1 => key'.age <= faults' + 1
    BY <1>0, <1>4
  <2> QED  BY <1>2, <1>4, <2>1, <2>2, <2>3, <2>4 DEF Lease
<1> QED  BY <1>3, <1>4

(* Two workers never hold the lease at once, and a worker that runs has an *)
(* id that stands for a lease.                                             *)
LEMMA OneHolder ==
  ASSUME LockTypes, NEW v \in Workers, NEW w \in Workers, v # w
  PROVE  /\ ~(Holds(v) /\ Holds(w))
         /\ Id(v) # Id(w)
BY DEF Holds, Id

(* Nobody who runs holds the lease of a key that is free. *)
LEMMA FreeHeldByNone ==
  ASSUME LockTypes, NEW w \in Workers, starts[w] > 0
  PROVE  Free.holder # Id(w)
<1>1. starts[w] \in Nat /\ starts[w] # 0
  BY DEF LockTypes
<1> QED  BY <1>1 DEF Id, Free, NoHolder

(* The counters only grow. *)
LEMMA CalmBefore == LockTypes /\ [Next]_vars /\ Calm' => Calm
<1> SUFFICES ASSUME LockTypes, [Next]_vars, Calm' PROVE Calm
  OBVIOUS
<1>1. \/ UNCHANGED <<signals, faults>>
      \/ signals' = signals + 1 /\ faults' = faults
      \/ signals' = signals /\ faults' = faults + 1
  <2> USE DEF Fault, bounds
  <2>1. ASSUME NEW w \in Workers, Boot(w) \/ Reconcile(w) \/ Renewal(w) \/ Shutdown(w)
        PROVE  UNCHANGED <<signals, faults>>
    BY <2>1 DEF Boot, Reconcile, Dequeue, Acquire, AcquireOther, StartRunner, Apply, StopRunner,
        RunnerStopped, ReleaseGet, ReleaseDelete, Renewal, RenewGet, RenewExpire,
        Shutdown, ExitList, ExitStop, ExitStopped, ExitLocks, ExitGet, ExitDelete, ExitDone
  <2>2. ASSUME NEW w \in Workers, Failure(w)
        PROVE  signals' = signals /\ faults' = faults + 1
    BY <2>2 DEF Failure, StartFails, MainLoopFails, RunnerDies, RenewFails, ExitFails
  <2>3. ASSUME NEW w \in Workers, Signal(w) PROVE signals' = signals + 1 /\ faults' = faults
    BY <2>3 DEF Signal
  <2>4. ASSUME NEW w \in Workers, Crash(w) PROVE UNCHANGED <<signals, faults>>
    BY <2>4 DEF Crash
  <2>5. ASSUME Tick
        PROVE  UNCHANGED <<signals, faults>> \/ (signals' = signals /\ faults' = faults + 1)
    BY <2>5 DEF Tick
  <2>6. ASSUME NEW enabled \in BOOLEAN, ConfigChange(enabled) PROVE UNCHANGED <<signals, faults>>
    BY <2>6 DEF ConfigChange
  <2>7. ASSUME UNCHANGED vars PROVE UNCHANGED <<signals, faults>>
    BY <2>7 DEF vars
  <2> QED  BY <2>1, <2>2, <2>3, <2>4, <2>5, <2>6, <2>7 DEF Next
<1> QED  BY <1>1 DEF LockTypes, Calm

(* What the steps of v may do to the rest. *)
StepFrame(v) ==
  /\ \A w \in Workers \ {v} :
       /\ up'[w] = up[w] /\ starts'[w] = starts[w] /\ at'[w] = at[w] /\ runner'[w] = runner[w]
       /\ lock'[w] = lock[w] /\ renew'[w] = renew[w] /\ exit'[w] = exit[w]
  /\ faults' \in {faults, faults + 1}
  /\ \/ key' = key
     \/ key = Free /\ key'.holder = Id(v)
     \/ key' = Free /\ Holds(v)
     \/ key'.holder = key.holder /\ key'.age <= key.age

(* A worker's step leaves the tasks of the others alone, and writes the    *)
(* key only when it is free or its own, or to make the lease younger.      *)
LEMMA FrameStep ==
  ASSUME LeaseInv, LockTypes', Calm, NEW v \in Workers, Step(v)
  PROVE  StepFrame(v)
<1> USE DEF Set, Fault, bounds, Gone
<1>0. LockTypes /\ Shape(v) /\ Lease(v)
  BY DEF LeaseInv
<1>1. \A w \in Workers \ {v} :
       /\ up'[w] = up[w] /\ starts'[w] = starts[w] /\ at'[w] = at[w] /\ runner'[w] = runner[w]
       /\ lock'[w] = lock[w] /\ renew'[w] = renew[w] /\ exit'[w] = exit[w]
  <2>1. CASE Boot(v) \/ Renewal(v) \/ Signal(v) \/ Crash(v)
    BY <1>0, <2>1 DEF LockTypes, Boot, Renewal, RenewGet, RenewExpire, Signal, Crash
  <2>2. CASE Reconcile(v)
    BY <1>0, <2>2 DEF LockTypes, Reconcile, Dequeue, Acquire, AcquireOther, StartRunner, Apply,
        StopRunner, RunnerStopped, ReleaseGet, ReleaseDelete
  <2>3. CASE Shutdown(v)
    BY <1>0, <2>3 DEF LockTypes, Shutdown, ExitList, ExitStop, ExitStopped, ExitLocks, ExitGet,
        ExitDelete, ExitDone
  <2>4. CASE Failure(v)
    BY <1>0, <2>4 DEF LockTypes, Failure, StartFails, MainLoopFails, RunnerDies, RenewFails,
        ExitFails
  <2> QED  BY <2>1, <2>2, <2>3, <2>4 DEF Step
<1>2. faults' \in {faults, faults + 1}
  <2>1. CASE Failure(v) \/ Signal(v) \/ Crash(v)
    BY <2>1 DEF Failure, StartFails, MainLoopFails, RunnerDies, RenewFails, ExitFails,
                Signal, Crash
  <2>2. CASE Boot(v) \/ Reconcile(v) \/ Renewal(v) \/ Shutdown(v)
    BY <2>2 DEF Boot, Reconcile, Dequeue, Acquire, AcquireOther, StartRunner, Apply, StopRunner,
        RunnerStopped, ReleaseGet, ReleaseDelete, Renewal, RenewGet, RenewExpire,
        Shutdown, ExitList, ExitStop, ExitStopped, ExitLocks, ExitGet, ExitDelete, ExitDone
  <2> QED  BY <2>1, <2>2 DEF Step
<1>3. \/ key' = key
      \/ key = Free /\ key'.holder = Id(v)
      \/ key' = Free /\ Holds(v)
      \/ key'.holder = key.holder /\ key'.age <= key.age
  <2>1. CASE Reconcile(v)
    <3>1. CASE Acquire(v)
      BY <3>1 DEF Acquire
    <3>2. CASE ReleaseDelete(v)
      BY <1>0, <3>2 DEF ReleaseDelete, Lease
    <3>3. CASE ~Acquire(v) /\ ~ReleaseDelete(v)
      BY <2>1, <3>3 DEF Reconcile, Dequeue, AcquireOther, StartRunner, Apply, StopRunner,
          RunnerStopped, ReleaseGet
    <3> QED  BY <3>1, <3>2, <3>3
  <2>2. CASE Shutdown(v)
    <3>1. CASE ExitDelete(v)
      BY <1>0, <3>1 DEF ExitDelete, Lease
    <3>2. CASE ~ExitDelete(v)
      BY <2>2, <3>2 DEF Shutdown, ExitList, ExitStop, ExitStopped, ExitLocks, ExitGet, ExitDone
    <3> QED  BY <3>1, <3>2
  <2>3. CASE Renewal(v)
    <3>1. CASE RenewGet(v)
      BY <3>1 DEF RenewGet
    <3>2. CASE RenewExpire(v)
      <4>1. key' = key \/ key' = [key EXCEPT !.age = 0]
        BY ONLY <3>2 DEF RenewExpire
      <4>2. key \in [holder : (Workers \X Nat) \cup {NoHolder}, age : Nat]
        BY <1>0 DEF LockTypes
      <4>3. key' = key \/ (key'.holder = key.holder /\ key'.age = 0)
        BY ONLY <4>1, <4>2
      <4> QED  BY <4>2, <4>3
    <3> QED  BY <2>3, <3>1, <3>2 DEF Renewal
  <2>4. CASE Boot(v) \/ Failure(v) \/ Signal(v) \/ Crash(v)
    BY <2>4 DEF Boot, Failure, StartFails, MainLoopFails, RunnerDies, RenewFails,
                ExitFails, Signal, Crash
  <2> QED  BY <2>1, <2>2, <2>3, <2>4 DEF Step
<1> QED  BY <1>1, <1>2, <1>3 DEF StepFrame

(* A step of v keeps what the invariant says of every other worker. *)
LEMMA OthersStep ==
  ASSUME LeaseInv, LockTypes', Calm, Calm', NEW v \in Workers, Step(v),
         NEW w \in Workers, w # v
  PROVE  Shape(w)' /\ Lease(w)'
<1>0. LockTypes /\ Shape(w) /\ Lease(w)
  BY DEF LeaseInv
<1>1. StepFrame(v)
  BY FrameStep
<1>2. ~(Holds(v) /\ Holds(w)) /\ Id(v) # Id(w)
  BY <1>0, OneHolder
<1>3. ASSUME up[w]
      PROVE  ((key'.holder = Id(w)) <=> Holds(w)) /\ (Holds(w) => key'.age <= key.age)
  <2>1. Free.holder # Id(w)
    BY <1>0, <1>3, FreeHeldByNone DEF Shape
  <2>2. key.age \in Nat
    BY <1>0 DEF LockTypes
  <2> QED  BY <1>1, <1>2, <2>1, <2>2 DEF StepFrame, Holds
<1>4. /\ faults' \in {faults, faults + 1}
      /\ up'[w] = up[w] /\ starts'[w] = starts[w] /\ at'[w] = at[w] /\ runner'[w] = runner[w]
      /\ lock'[w] = lock[w] /\ renew'[w] = renew[w] /\ exit'[w] = exit[w]
  BY <1>1 DEF StepFrame
<1> QED  BY <1>0, <1>3, <1>4, OtherWorker

(* A step of _reconcile keeps what the invariant says of its worker. *)
LEMMA ReconcileStep ==
  ASSUME LeaseInv, LockTypes', Calm, Calm', NEW w \in Workers, Reconcile(w)
  PROVE  Shape(w)' /\ Lease(w)'
<1> USE DEF Set, bounds
<1>0. LockTypes /\ Shape(w) /\ Lease(w) /\ faults \in Nat /\ starts[w] \in Nat /\ key.age \in Nat
  BY DEF LeaseInv, LockTypes
<1>a. up[w] => Free.holder # Id(w)
  BY <1>0, FreeHeldByNone DEF Shape
<1>b. at[w] # "idle" => up[w]
  BY <1>0 DEF Shape
<1>1. CASE Dequeue(w)
  <2>1. /\ UNCHANGED <<key, up, starts, runner, lock, renew, exit, faults>>
        /\ up[w] /\ at[w] = "idle" /\ exit[w] = "no" /\ at' = [at EXCEPT ![w] = Plan(w)]
    BY <1>1 DEF Dequeue
  <2>2. \/ Plan(w) \in {"acquire", "idle"} /\ runner[w] = "none"
        \/ Plan(w) \in {"apply", "stop"} /\ runner[w] # "none"
        \/ Plan(w) = "idle"
    BY DEF Plan
  <2>3. at'[w] = Plan(w)
    BY <1>0, <2>1 DEF LockTypes
  <2>4. runner[w] \in {"none", "running", "dead"}
    BY <1>0, <2>1 DEF LockTypes, Shape
  <2>5. Shape(w)'
    BY <1>0, <2>1, <2>2, <2>3, <2>4 DEF Shape
  <2>6. Lease(w)'
    BY <1>0, <2>1, <2>2, <2>3, <2>4 DEF Lease, Serving, Fresh, Holds, Id
  <2> QED  BY <2>5, <2>6
<1>2. CASE Acquire(w)
  <2>1. /\ UNCHANGED <<up, starts, runner, exit, faults>>
        /\ at[w] = "acquire"
    BY <1>2 DEF Acquire
  <2>2. CASE key = Free
    <3>1. /\ key' = [holder |-> Id(w), age |-> 0]
          /\ renew'[w] = "sleep" /\ lock'[w] = TRUE /\ at'[w] = "start"
      BY <1>0, <1>2, <2>2 DEF Acquire, LockTypes
    <3>2. key'.holder = Id(w) /\ key'.age = 0
      BY <3>1
    <3>3. Holds(w)'
      BY <2>1, <3>2 DEF Holds, Id
    <3>4. Fresh(w)'
      BY <1>0, <2>1, <3>2 DEF Fresh
    <3>5. Shape(w)'
      BY <1>0, <2>1, <3>1 DEF Shape
    <3>6. Lease(w)'
      BY <1>0, <2>1, <3>1, <3>2, <3>3, <3>4 DEF Lease, Serving
    <3> QED  BY <3>5, <3>6
  <2>3. CASE key # Free
    <3>1. UNCHANGED <<key, renew, lock>> /\ at'[w] = "holder"
      BY <1>0, <1>2, <2>3 DEF Acquire, LockTypes
    <3>5. Shape(w)'
      BY <1>0, <2>1, <3>1 DEF Shape
    <3>6. Lease(w)'
      BY <1>0, <2>1, <3>1 DEF Lease, Serving, Holds, Id, Shape
    <3> QED  BY <3>5, <3>6
  <2> QED  BY <2>2, <2>3
<1>3. CASE AcquireOther(w)
  <2>1. UNCHANGED <<key, up, starts, runner, exit, faults>> /\ at[w] = "holder"
    BY <1>3 DEF AcquireOther
  <2>2. ~Holds(w)
    BY <1>0, <1>b, <2>1 DEF Lease, Shape
  <2>3. UNCHANGED <<renew, lock>> /\ at'[w] = "idle"
    BY <1>0, <1>3, <2>2 DEF AcquireOther, LockTypes
  <2>4. Shape(w)'
    BY <1>0, <2>1, <2>3 DEF Shape
  <2>5. Lease(w)'
    BY <1>0, <2>1, <2>2, <2>3 DEF Lease, Serving, Holds, Id, Shape
  <2> QED  BY <2>4, <2>5
<1>4. CASE StartRunner(w)
  <2>1. /\ UNCHANGED <<key, up, starts, lock, renew, exit, faults>>
        /\ at[w] = "start" /\ at'[w] = "idle" /\ runner'[w] = "running"
    BY <1>0, <1>4 DEF StartRunner, LockTypes
  <2>4. Shape(w)'
    BY <1>0, <2>1 DEF Shape
  <2>5. Lease(w)'
    BY <1>0, <2>1 DEF Lease, Serving, Fresh, Holds, Id, Shape
  <2> QED  BY <2>4, <2>5
<1>5. CASE Apply(w)
  <2>1. /\ UNCHANGED <<key, up, starts, runner, lock, renew, exit, faults>>
        /\ at[w] = "apply" /\ at'[w] = "idle"
    BY <1>0, <1>5 DEF Apply, LockTypes
  <2>4. Shape(w)'
    BY <1>0, <2>1 DEF Shape
  <2>5. Lease(w)'
    BY <1>0, <2>1 DEF Lease, Serving, Fresh, Holds, Id, Shape
  <2> QED  BY <2>4, <2>5
<1>6. CASE StopRunner(w)
  <2>0. at[w] = "stop" /\ runner[w] \in {"running", "dead"}
    BY <1>0, <1>6 DEF StopRunner, Shape
  <2>1. /\ UNCHANGED <<key, up, starts, lock, renew, exit, faults>>
        /\ at'[w] = "stopping" /\ runner'[w] = "stopping"
    BY <1>0, <1>6, <2>0 DEF StopRunner, LockTypes
  <2>4. Shape(w)'
    BY <1>0, <2>0, <2>1 DEF Shape
  <2>5. Lease(w)'
    BY <1>0, <2>0, <2>1 DEF Lease, Serving, Fresh, Holds, Id, Shape
  <2> QED  BY <2>4, <2>5
<1>7. CASE RunnerStopped(w)
  <2>0. at[w] = "stopping" /\ runner[w] = "stopping" /\ lock[w]
    BY <1>0, <1>7 DEF RunnerStopped, Shape, Lease, Serving
  <2>1. /\ UNCHANGED <<key, up, starts, exit, faults>>
        /\ at'[w] = "release" /\ runner'[w] = "none" /\ renew'[w] = "off"
    BY <1>0, <1>7, <2>0 DEF RunnerStopped, LockTypes
  <2>4. Shape(w)'
    BY <1>0, <2>0, <2>1 DEF Shape
  <2>5. Lease(w)'
    BY <1>0, <2>0, <2>1 DEF Lease, Serving, Fresh, Holds, Id, Shape
  <2> QED  BY <2>4, <2>5
<1>8. CASE ReleaseGet(w)
  <2>1. /\ UNCHANGED <<key, up, starts, runner, renew, exit, faults>>
        /\ at[w] = "release" /\ at'[w] = IF Holds(w) THEN "delete" ELSE "idle"
    BY <1>0, <1>8 DEF ReleaseGet, LockTypes
  <2>4. Shape(w)'
    BY <1>0, <2>1 DEF Shape
  <2>5. Lease(w)'
    BY <1>0, <2>1 DEF Lease, Serving, Fresh, Holds, Id, Shape
  <2> QED  BY <2>4, <2>5
<1>9. CASE ReleaseDelete(w)
  <2>1. /\ UNCHANGED <<up, starts, runner, renew, exit, faults>> /\ key' = Free
        /\ at[w] = "delete" /\ at'[w] = "idle"
    BY <1>0, <1>9 DEF ReleaseDelete, LockTypes
  <2>2. ~Holds(w)'
    BY <1>a, <1>b, <2>1 DEF Holds, Id
  <2>4. Shape(w)'
    BY <1>0, <2>1 DEF Shape
  <2>5. Lease(w)'
    BY <1>0, <2>1, <2>2 DEF Lease, Serving, Shape
  <2> QED  BY <2>4, <2>5
<1> QED  BY <1>1, <1>2, <1>3, <1>4, <1>5, <1>6, <1>7, <1>8, <1>9 DEF Reconcile

(* The renewal keeps it: the worker that needs the lease finds it. *)
LEMMA RenewalStep ==
  ASSUME LeaseInv, LockTypes', Calm, Calm', NEW w \in Workers, Renewal(w)
  PROVE  Shape(w)' /\ Lease(w)'
<1> USE DEF Set, bounds
<1>0. /\ LockTypes /\ Shape(w) /\ Lease(w) /\ faults \in Nat /\ key.age \in Nat
      /\ key \in [holder : (Workers \X Nat) \cup {NoHolder}, age : Nat]
  BY DEF LeaseInv, LockTypes
<1>1. CASE RenewGet(w)
  <2>1. /\ UNCHANGED <<key, up, starts, at, runner, lock, exit, faults>>
        /\ renew[w] = "due" /\ renew'[w] = IF Holds(w) THEN "owned" ELSE "off"
    BY <1>0, <1>1 DEF RenewGet, LockTypes
  <2>2. Shape(w)'
    BY <1>0, <2>1 DEF Shape
  <2>3. Lease(w)'
    BY <1>0, <2>1 DEF Lease, Serving, Fresh, Holds, Id
  <2> QED  BY <2>2, <2>3
<1>2. CASE RenewExpire(w)
  <2>1. /\ UNCHANGED <<up, starts, at, runner, lock, exit, faults>>
        /\ renew[w] = "owned" /\ renew'[w] = "sleep"
    BY <1>0, <1>2 DEF RenewExpire, LockTypes
  <2>2. key' = IF key = Free THEN key ELSE [key EXCEPT !.age = 0]
    BY <1>2 DEF RenewExpire
  <2>3. key'.holder = key.holder /\ key'.age = 0
    BY <1>0, <2>2 DEF Free
  <2>4. Shape(w)'
    BY <1>0, <2>1 DEF Shape
  <2>5. Lease(w)'
    BY <1>0, <2>1, <2>3 DEF Lease, Serving, Fresh, Holds, Id
  <2> QED  BY <2>4, <2>5
<1> QED  BY <1>1, <1>2 DEF Renewal

(* A failing step keeps it: the one fault that is allowed costs the lease  *)
(* one unit.                                                               *)
LEMMA FailureStep ==
  ASSUME LeaseInv, LockTypes', Calm, Calm', NEW w \in Workers, Failure(w)
  PROVE  Shape(w)' /\ Lease(w)'
<1> USE DEF Set
<1>0. LockTypes /\ Shape(w) /\ Lease(w) /\ faults \in Nat /\ key.age \in Nat
  BY DEF LeaseInv, LockTypes
<1>1. faults = 0 /\ faults' = 1
  BY <1>0 DEF Failure, StartFails, MainLoopFails, RunnerDies, RenewFails, ExitFails,
              Fault, Calm
<1>2. exit[w] = "no" /\ at[w] # "failed"
  BY <1>0, <1>1 DEF Shape
<1>3. CASE StartFails(w)
  <2>1. /\ UNCHANGED <<key, up, starts, runner, lock, exit>>
        /\ at[w] = "start" /\ at'[w] = "release" /\ renew'[w] = "off"
    BY <1>0, <1>3 DEF StartFails, LockTypes
  <2>2. Shape(w)'
    BY <1>0, <1>1, <1>2, <2>1 DEF Shape
  <2>3. Lease(w)'
    BY <1>0, <1>1, <1>2, <2>1 DEF Lease, Serving, Fresh, Holds, Id, Shape
  <2> QED  BY <2>2, <2>3
<1>4. CASE MainLoopFails(w)
  <2>1. /\ UNCHANGED <<key, up, starts, runner, lock, renew>>
        /\ at[w] \in {"acquire", "holder", "apply", "stopping", "release", "delete"}
        /\ at'[w] = "failed" /\ exit'[w] = "drain"
    BY <1>0, <1>2, <1>4 DEF MainLoopFails, LockTypes
  <2>2. Shape(w)'
    BY <1>0, <1>1, <1>2, <2>1 DEF Shape
  <2>3. Lease(w)'
    BY <1>0, <1>1, <1>2, <2>1 DEF Lease, Serving, Fresh, Holds, Id, Shape
  <2> QED  BY <2>2, <2>3
<1>5. CASE RunnerDies(w)
  <2>1. /\ UNCHANGED <<key, up, starts, at, lock, renew, exit>>
        /\ runner[w] = "running" /\ runner'[w] = "dead"
    BY <1>0, <1>5 DEF RunnerDies, LockTypes
  <2>2. Shape(w)'
    BY <1>0, <1>1, <1>2, <2>1 DEF Shape
  <2>3. Lease(w)'
    BY <1>0, <1>1, <1>2, <2>1 DEF Lease, Serving, Fresh, Holds, Id
  <2> QED  BY <2>2, <2>3
<1>6. CASE RenewFails(w)
  <2>1. /\ UNCHANGED <<key, up, starts, at, runner, lock, exit>>
        /\ renew[w] \in {"due", "owned"} /\ renew'[w] = "sleep"
    BY <1>0, <1>6 DEF RenewFails, LockTypes
  <2>2. Shape(w)'
    BY <1>0, <1>1, <1>2, <2>1 DEF Shape
  <2>3. Lease(w)'
    BY <1>0, <1>1, <1>2, <2>1 DEF Lease, Serving, Fresh, Holds, Id
  <2> QED  BY <2>2, <2>3
<1>7. ~ExitFails(w)
  BY <1>2 DEF ExitFails
<1> QED  BY <1>3, <1>4, <1>5, <1>6, <1>7 DEF Failure

(* The shutdown after a failed main loop keeps it. *)
LEMMA ShutdownStep ==
  ASSUME LeaseInv, LockTypes', Calm, Calm', NEW w \in Workers, Shutdown(w)
  PROVE  Shape(w)' /\ Lease(w)'
<1> USE DEF Set, bounds
<1>0. LockTypes /\ Shape(w) /\ Lease(w) /\ faults \in Nat /\ key.age \in Nat
  BY DEF LeaseInv, LockTypes
<1>1. exit[w] # "no" /\ at[w] = "failed" /\ faults = 1
  BY <1>0 DEF Shutdown, ExitList, ExitStop, ExitStopped, ExitLocks, ExitGet, ExitDelete, ExitDone,
              Shape
<1>2. CASE ExitList(w)
  <2>1. /\ UNCHANGED <<key, up, starts, at, runner, lock, renew, faults>> /\ exit[w] = "drain"
        /\ exit'[w] = IF runner[w] \in {"running", "dead"} THEN "stop" ELSE "locks"
    BY <1>0, <1>2 DEF ExitList, LockTypes
  <2>2. runner[w] \in {"none", "stopping", "running", "dead"}
    BY <1>0, <1>1, <2>1 DEF Shape, LockTypes
  <2>3. Shape(w)'
    BY <1>0, <1>1, <2>1, <2>2 DEF Shape
  <2>4. Lease(w)'
    BY <1>0, <1>1, <2>1 DEF Lease, Serving, Fresh, Holds, Id
  <2> QED  BY <2>3, <2>4
<1>3. CASE ExitStop(w)
  <2>0. exit[w] = "stop" /\ runner[w] \in {"running", "dead"}
    BY <1>0, <1>3 DEF ExitStop, Shape
  <2>1. /\ UNCHANGED <<key, up, starts, at, lock, renew, faults>>
        /\ exit'[w] = "stopping" /\ runner'[w] = "stopping"
    BY <1>0, <1>3, <2>0 DEF ExitStop, LockTypes
  <2>3. Shape(w)'
    BY <1>0, <1>1, <2>0, <2>1 DEF Shape
  <2>4. Lease(w)'
    BY <1>0, <1>1, <2>0, <2>1 DEF Lease, Serving, Fresh, Holds, Id
  <2> QED  BY <2>3, <2>4
<1>4. CASE ExitStopped(w)
  <2>1. /\ UNCHANGED <<key, up, starts, at, lock, renew, faults>> /\ exit[w] = "stopping"
        /\ exit'[w] = "locks" /\ runner'[w] = "none"
    BY <1>0, <1>4 DEF ExitStopped, LockTypes
  <2>3. Shape(w)'
    BY <1>0, <1>1, <2>1 DEF Shape
  <2>4. Lease(w)'
    BY <1>0, <1>1, <2>1 DEF Lease, Serving, Fresh, Holds, Id
  <2> QED  BY <2>3, <2>4
<1>5. CASE ExitLocks(w)
  <2>1. /\ UNCHANGED <<key, up, starts, at, runner, lock, faults>> /\ exit[w] = "locks"
        /\ exit'[w] \in {"get", "gone"}
    BY <1>0, <1>5 DEF ExitLocks, LockTypes
  <2>2. renew'[w] = renew[w] \/ renew'[w] = "off"
    BY <1>0, <1>5 DEF ExitLocks, LockTypes
  <2>3. Shape(w)'
    BY <1>0, <1>1, <2>1, <2>2 DEF Shape
  <2>4. Lease(w)'
    BY <1>0, <1>1, <2>1 DEF Lease, Serving, Holds, Id, Shape
  <2> QED  BY <2>3, <2>4
<1>6. CASE ExitGet(w)
  <2>1. /\ UNCHANGED <<key, up, starts, at, runner, lock, renew, faults>> /\ exit[w] = "get"
        /\ exit'[w] = IF Holds(w) THEN "del" ELSE "gone"
    BY <1>0, <1>6 DEF ExitGet, LockTypes
  <2>3. Shape(w)'
    BY <1>0, <1>1, <2>1 DEF Shape
  <2>4. Lease(w)'
    BY <1>0, <1>1, <2>1 DEF Lease, Serving, Holds, Id, Shape
  <2> QED  BY <2>3, <2>4
<1>7. CASE ExitDelete(w)
  <2>1. /\ UNCHANGED <<up, starts, at, runner, lock, renew, faults>> /\ exit[w] = "del"
        /\ exit'[w] = "gone"
    BY <1>0, <1>7 DEF ExitDelete, LockTypes
  <2>3. Shape(w)'
    BY <1>0, <1>1, <2>1 DEF Shape
  <2>4. Lease(w)'
    BY <1>0, <1>1, <2>1 DEF Lease, Serving, Shape
  <2> QED  BY <2>3, <2>4
<1>8. CASE ExitDone(w)
  <2>1. /\ up'[w] = FALSE /\ at'[w] = "idle" /\ runner'[w] = "none" /\ renew'[w] = "off"
        /\ exit'[w] = "no"
    BY <1>0, <1>8 DEF ExitDone, Gone, LockTypes
  <2> QED  BY <2>1 DEF Shape, Lease, Serving
<1> QED  BY <1>2, <1>3, <1>4, <1>5, <1>6, <1>7, <1>8 DEF Shutdown

(* A new process and a crash keep it: the id of a new process is nobody's  *)
(* lease.  A signal ends the calm.                                         *)
LEMMA ProcessStep ==
  ASSUME LeaseInv, LockTypes', Calm, Calm', NEW w \in Workers, Boot(w) \/ Signal(w) \/ Crash(w)
  PROVE  Shape(w)' /\ Lease(w)'
<1> USE DEF Set, bounds
<1>0. /\ LockTypes /\ KeyInv /\ Shape(w) /\ Lease(w) /\ faults \in Nat /\ starts[w] \in Nat
      /\ key.holder \in (Workers \X Nat) \cup {NoHolder}
  BY DEF LeaseInv, LockTypes
<1>1. CASE Boot(w)
  <2>1. /\ UNCHANGED <<key, at, runner, lock, renew, exit, faults>> /\ ~up[w]
        /\ up'[w] = TRUE /\ starts'[w] = starts[w] + 1
    BY <1>0, <1>1 DEF Boot, LockTypes
  <2>2. key.holder # <<w, starts[w] + 1>>
    <3>1. CASE key.holder = NoHolder
      BY <1>0, <3>1 DEF NoHolder
    <3>2. CASE key.holder # NoHolder
      <4>1. key.holder[2] <= starts[key.holder[1]]
        BY <1>0, <3>2 DEF KeyInv
      <4>2. SUFFICES ASSUME key.holder = <<w, starts[w] + 1>> PROVE FALSE
        OBVIOUS
      <4>3. key.holder[1] = w /\ key.holder[2] = starts[w] + 1
        BY <4>2
      <4> QED  BY <1>0, <4>1, <4>3
    <3> QED  BY <3>1, <3>2
  <2>3. ~Holds(w)'
    BY <2>1, <2>2 DEF Holds, Id
  <2>4. Shape(w)'
    BY <1>0, <2>1 DEF Shape
  <2>5. Lease(w)'
    BY <1>0, <2>1, <2>3 DEF Lease, Serving, Shape
  <2> QED  BY <2>4, <2>5
<1>2. ~Signal(w)
  BY DEF Signal, Calm
<1>3. CASE Crash(w)
  <2>1. /\ up'[w] = FALSE /\ at'[w] = "idle" /\ runner'[w] = "none" /\ renew'[w] = "off"
        /\ exit'[w] = "no"
    BY <1>0, <1>3 DEF Crash, Gone, LockTypes
  <2> QED  BY <2>1 DEF Shape, Lease, Serving
<1> QED  BY <1>1, <1>2, <1>3

(* A unit of time keeps it, when the lease lasts three units: without a    *)
(* call pending a lease in use is at most as old as the faults so far, and *)
(* a late call is the one fault.                                           *)
LEMMA TickStep ==
  ASSUME LeaseTicks >= 3, LeaseInv, LockTypes', Calm, Calm', Tick, NEW w \in Workers
  PROVE  Shape(w)' /\ Lease(w)'
<1>0. /\ LockTypes /\ Shape(w) /\ Lease(w) /\ faults \in Nat /\ key.age \in Nat
      /\ LeaseTicks \in Nat /\ faults <= 1 /\ faults' <= 1
      /\ key \in [holder : (Workers \X Nat) \cup {NoHolder}, age : Nat]
      /\ renew[w] \in {"off", "sleep", "due", "owned"}
  BY LocksAssumption DEF LeaseInv, LockTypes, Calm, LocksAssumption
<1>1. UNCHANGED <<up, starts, at, runner, lock, exit>>
  BY DEF Tick
<1>2. renew'[w] = IF renew[w] = "sleep" THEN "due" ELSE renew[w]
  BY DEF Tick
<1>3. \/ faults' = faults /\ ~CallPending(w)
      \/ faults' = faults + 1
  BY DEF Tick, Fault, bounds
<1>4. Shape(w)'
  BY <1>0, <1>1, <1>2, <1>3 DEF Shape, CallPending
<1>5. ASSUME Holds(w), key.age + 1 <= 2, up[w]
      PROVE  key'.holder = key.holder /\ key'.age = key.age + 1
  <2>1. key # Free
    BY <1>0, <1>5, FreeHeldByNone DEF Holds, Shape
  <2>2. ~Expired(key.age + 1) /\ key.age + 1 < LeaseTicks
    BY <1>0, <1>5 DEF Expired
  <2> DEFINE n == key.age + 1
  <2>3. key' = [key EXCEPT !.age = n]
    BY <2>1, <2>2 DEF Tick
  <2> HIDE DEF n
  <2>4. key'.holder = key.holder /\ key'.age = n
    BY ONLY <1>0, <2>3
  <2> QED  BY <2>4 DEF n
<1>6. key'.holder = key.holder \/ key'.holder = NoHolder
  <2> DEFINE n == IF key.age + 1 < LeaseTicks THEN key.age + 1 ELSE key.age
  <2>1. key' = Free \/ key' = [key EXCEPT !.age = n]
    BY DEF Tick
  <2> HIDE DEF n
  <2>2. Free.holder = NoHolder
    BY DEF Free
  <2>3. key' = [key EXCEPT !.age = n] => key'.holder = key.holder
    BY ONLY <1>0
  <2> QED  BY <2>1, <2>2, <2>3
<1>7. Serving(w) => Holds(w)' /\ lock'[w] /\ renew'[w] # "off" /\ Fresh(w)'
  <2> SUFFICES ASSUME Serving(w) PROVE Holds(w)' /\ lock'[w] /\ renew'[w] # "off" /\ Fresh(w)'
    OBVIOUS
  <2>1. Holds(w) /\ lock[w] /\ renew[w] # "off" /\ Fresh(w) /\ up[w]
    BY <1>0 DEF Lease, Shape, Serving
  <2>2. faults' = faults => renew[w] = "sleep"
    BY <1>0, <1>3, <2>1 DEF CallPending
  <2>3. key.age + 1 <= 2 /\ key.age + 1 <= faults' + 1
    BY <1>0, <1>3, <2>1, <2>2 DEF Fresh
  <2>4. key'.holder = key.holder /\ key'.age = key.age + 1
    BY <1>5, <2>1, <2>3
  <2>5. renew'[w] # "sleep" /\ renew'[w] # "off"
    BY <1>2, <2>1
  <2> QED  BY <1>1, <2>1, <2>3, <2>4, <2>5 DEF Holds, Id, Fresh
<1>8. at[w] \in {"release", "delete"} \/ exit[w] = "del" => faults = 0 /\ faults' = 1
  BY <1>0, <1>3 DEF CallPending
<1>9. exit[w] # "del"
  BY <1>0, <1>8 DEF Shape
<1>10. ASSUME at[w] \in {"release", "delete"}, Holds(w)
       PROVE  Holds(w)' /\ key'.age <= faults' + 1
  <2>1. key.age + 1 <= 2 /\ up[w]
    BY <1>0, <1>8, <1>10 DEF Lease, Shape
  <2>2. key'.holder = key.holder /\ key'.age = key.age + 1
    BY <1>5, <1>10, <2>1
  <2> QED  BY <1>1, <1>8, <1>10, <2>1, <2>2 DEF Holds, Id
<1>11. ASSUME up[w], ~Holds(w) PROVE ~Holds(w)'
  <2>1. NoHolder # Id(w)
    BY <1>0, <1>11, FreeHeldByNone DEF Shape, Free
  <2> QED  BY <1>1, <1>6, <1>11, <2>1 DEF Holds, Id
<1>12. Lease(w)'
  <2>1. Serving(w)' <=> Serving(w)
    BY <1>1 DEF Serving
  <2>2. Holds(w)' /\ at[w] \in {"release", "delete"} => Holds(w)
    BY <1>0, <1>11 DEF Shape
  <2> QED  BY <1>0, <1>1, <1>7, <1>9, <1>10, <1>11, <2>1, <2>2 DEF Lease
<1> QED  BY <1>4, <1>12

(* The inductive invariant. *)
LEMMA LeaseInvStep ==
  ASSUME LeaseTicks >= 3, LeaseInv, [Next]_vars
  PROVE  LeaseInv'
<1>0. LockTypes' /\ KeyInv'
  BY TypesStep, KeyStep DEF LeaseInv
<1>1. SUFFICES ASSUME Calm', NEW w \in Workers PROVE Shape(w)' /\ Lease(w)'
  BY <1>0 DEF LeaseInv, Calm
<1>2. Calm
  BY <1>1, CalmBefore DEF LeaseInv
<1>3. ASSUME NEW v \in Workers, Step(v) PROVE Shape(w)' /\ Lease(w)'
  <2>1. CASE w # v
    BY <1>0, <1>1, <1>2, <1>3, <2>1, OthersStep
  <2>2. CASE w = v
    <3>1. \/ Reconcile(w) \/ Renewal(w) \/ Failure(w) \/ Shutdown(w)
          \/ Boot(w) \/ Signal(w) \/ Crash(w)
      BY <1>3, <2>2 DEF Step
    <3> QED  BY <1>0, <1>1, <1>2, <3>1, ReconcileStep, RenewalStep, FailureStep, ShutdownStep,
                ProcessStep
  <2> QED  BY <2>1, <2>2
<1>4. CASE Tick
  BY <1>0, <1>1, <1>2, <1>4, TickStep
<1>5. CASE UNCHANGED vars \/ \E enabled \in BOOLEAN : ConfigChange(enabled)
  <2>1. UNCHANGED <<key, up, starts, at, runner, lock, renew, exit, faults>>
    BY <1>5 DEF vars, ConfigChange, bounds
  <2>2. Shape(w) /\ Lease(w)
    BY <1>2 DEF LeaseInv
  <2> QED  BY <2>1, <2>2 DEF Shape, Lease, Serving, Fresh, Holds, Id
<1> QED  BY <1>3, <1>4, <1>5 DEF Next, Step

(* A worker runs a chain only while it holds the chain's lease, so that    *)
(* two workers never run it at once: with a lease of at least three        *)
(* renewal intervals (_LOCK_TTL_S is three times _RENEW_INTERVAL_S), as    *)
(* long as nobody is told to stop and at most one call fails or is late.   *)
(* Crashes, restarts, changes of the configuration and the number of       *)
(* workers are not limited.                                                *)
THEOREM LeaseCorrect == LeaseTicks >= 3 => (Spec => []RunnerHoldsLease)
<1> SUFFICES ASSUME LeaseTicks >= 3 PROVE Spec => []RunnerHoldsLease
  OBVIOUS
<1>1. Init => LeaseInv
  <2> SUFFICES ASSUME Init PROVE LeaseInv
    OBVIOUS
  <2>1. LockTypes
    BY TypesInit
  <2>2. KeyInv
    BY DEF Init, KeyInv, Free
  <2>3. ASSUME NEW w \in Workers PROVE Shape(w) /\ Lease(w)
    BY DEF Init, Shape, Lease, Serving
  <2> QED  BY <2>1, <2>2, <2>3 DEF LeaseInv
<1>2. LeaseInv /\ [Next]_vars => LeaseInv'
  BY LeaseInvStep
<1>3. LeaseInv => RunnerHoldsLease
  <2> SUFFICES ASSUME LeaseInv, signals = 0, faults <= 1,
                      NEW w \in Workers, runner[w] = "running"
               PROVE  Holds(w)
    BY DEF RunnerHoldsLease
  <2> QED  BY DEF LeaseInv, Calm, Lease, Serving, Shape
<1> QED  BY <1>1, <1>2, <1>3, PTL DEF Spec
=============================================================================
