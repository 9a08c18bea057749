-------------------------------- MODULE Replay --------------------------------
(***************************************************************************)
(* Replay of a block range for one subscription: the request accepted by   *)
(* the web API (apps/web/routers/subscriptions.py), published on Redis,    *)
(* taken by the worker's ReplayWatcher and run as a task of its own beside *)
(* the live loop of the chain's runner (ChainRunner.replay), while runners *)
(* come and go and the worker shuts down.                                  *)
(*                                                                         *)
(* A block carries one event that the subscription matches.  With Solana   *)
(* there are no confirmations, no logs to fetch, and slots without a block.*)
(***************************************************************************)
EXTENDS Integers, FiniteSets

CONSTANTS
  Requests,       \* replay requests
  Runners,        \* the runner objects the worker makes for the chain
  Confirmations,  \* chain.confirmations
  NumChannels,    \* channels bound to the subscription
  MaxSpan,        \* settings.replay.max_replay_blocks
  MaxBlock,       \* bound: the chain's length
  MaxFaults,      \* bound: calls that fail
  NoRunner

ASSUME ReplayAssumption ==
  /\ Confirmations \in Nat
  /\ NumChannels \in Nat /\ MaxSpan \in Nat /\ MaxBlock \in Nat /\ MaxFaults \in Nat
  /\ NoRunner \notin Runners

VARIABLES
  kind,        \* the chain's: "evm" or "solana"
  skipped,     \* the slots without a block
  tip,         \* latest block (slot)
  worker,      \* "up", then the steps of shutdown
  registered,  \* the runner in _runners, or NoRunner
  unused,      \* runners not made yet
  stopped,     \* runners whose _stop is set
  closed,      \* those whose adapter is disconnected
  bus,         \* requests published and not taken yet
  job,         \* request -> its progress
  faults       \* bound

replayVars == <<kind, skipped, tip, worker, registered, unused, stopped, closed, bus, job, faults>>

NoJob == [phase |-> "new", runner |-> NoRunner, from |-> 0, to |-> 0, n |-> 0, open |-> 0, sent |-> {}]
Lesser(a, b) == IF a < b THEN a ELSE b
-----------------------------------------------------------------------------
Advance ==
  /\ tip < MaxBlock
  /\ tip' = tip + 1
  /\ UNCHANGED <<kind, skipped, worker, registered, unused, stopped, bus, job, faults, closed>>

(* _reconcile gives the chain a runner, or stops the one it has. *)
StartRunner ==
  /\ worker = "up" /\ registered = NoRunner
  /\ \E u \in unused : registered' = u /\ unused' = unused \ {u}
  /\ UNCHANGED <<kind, skipped, tip, worker, stopped, bus, job, faults, closed>>

(* ChainRunner.stop sets _stop, then drains and disconnects the adapter. *)
StopRunner ==
  /\ worker = "up" /\ registered # NoRunner
  /\ stopped' = stopped \cup {registered}
  /\ registered' = NoRunner
  /\ UNCHANGED <<kind, skipped, tip, worker, unused, bus, job, faults, closed>>

CloseAdapter ==
  /\ \E u \in stopped \ closed : closed' = closed \cup {u}
  /\ UNCHANGED <<kind, skipped, tip, worker, registered, unused, stopped, bus, job, faults>>

(* shutdown: the watchers, then the runners, then the bus and the database; *)
(* the end of the process cancels the tasks that are left.                  *)
StopWatcher ==
  /\ worker = "up"
  /\ worker' = "no_watcher"
  /\ bus' = {}
  /\ UNCHANGED <<kind, skipped, tip, registered, unused, stopped, job, faults, closed>>

StopRunners ==
  /\ worker = "no_watcher"
  /\ worker' = "no_runners"
  /\ stopped' = stopped \cup ({registered} \ {NoRunner})
  /\ registered' = NoRunner
  /\ UNCHANGED <<kind, skipped, tip, unused, bus, job, faults, closed>>

Disconnect ==
  /\ worker = "no_runners" /\ stopped = closed
  /\ worker' = "disconnected"
  /\ UNCHANGED <<kind, skipped, tip, registered, unused, stopped, bus, job, faults, closed>>

Running == {"starting", "tip", "loop", "logs", "dispatch", "closing"}

(* The cancellation runs the finally; notifier.start is not in its try.    *)
Cancelled(j) ==
  IF j.phase = "starting" THEN [j EXCEPT !.phase = "failed"]
  ELSE [j EXCEPT !.phase = "cancelled", !.open = 0]

Exit ==
  /\ worker = "disconnected"
  /\ worker' = "exited"
  /\ job' = [r \in Requests |-> IF job[r].phase \in Running THEN Cancelled(job[r]) ELSE job[r]]
  /\ UNCHANGED <<kind, skipped, tip, registered, unused, stopped, bus, faults, closed>>
-----------------------------------------------------------------------------
(* replay_subscription: the range is checked; a message nobody is          *)
(* subscribed for is gone.                                                 *)
Post(r) ==
  /\ job[r].phase = "new"
  /\ \E from \in 0..MaxBlock, to \in 0..MaxBlock :
       /\ to >= from /\ to - from + 1 <= MaxSpan
       /\ job' = [job EXCEPT ![r] = [@ EXCEPT !.phase = "accepted", !.from = from, !.to = to]]
  /\ bus' = IF worker = "up" THEN bus \cup {r} ELSE bus
  /\ UNCHANGED <<kind, skipped, tip, worker, registered, unused, stopped, faults, closed>>

(* _on_replay_request: dropped without a runner. *)
Routed(j) ==
  IF registered = NoRunner THEN [j EXCEPT !.phase = "dropped"]
  ELSE [j EXCEPT !.phase = "starting", !.runner = registered]

(* The watcher hands on one message after another. *)
Take(r) ==
  /\ worker = "up" /\ r \in bus
  /\ bus' = bus \ {r}
  /\ job' = [job EXCEPT ![r] = Routed(@)]
  /\ UNCHANGED <<kind, skipped, tip, worker, registered, unused, stopped, closed, faults>>

Step(r, next) ==
  /\ worker # "exited"
  /\ job' = [job EXCEPT ![r] = next]
  /\ UNCHANGED <<kind, skipped, tip, worker, registered, unused, stopped, bus, faults, closed>>

(* Notifier.start of the throwaway notifier, one channel after another. *)
StartChannel(r) ==
  /\ job[r].phase = "starting" /\ job[r].open < NumChannels
  /\ Step(r, [job[r] EXCEPT !.open = @ + 1])

Started(r) ==
  /\ job[r].phase = "starting" /\ job[r].open = NumChannels
  /\ Step(r, [job[r] EXCEPT !.phase = "tip"])

(* A Solana slot is read at the chain's commitment. *)
Confirmed == IF kind = "evm" THEN tip - Confirmations ELSE tip

MutantClamp(r) == Lesser(job[r].to, tip)

(* Only what is confirmed when the replay begins. *)
Clamp(r) == Lesser(job[r].to, Confirmed)

GetTip(r) ==
  /\ job[r].phase = "tip" /\ job[r].runner \notin closed
  /\ Step(r, IF Clamp(r) < job[r].from THEN [job[r] EXCEPT !.phase = "closing", !.to = Clamp(r)]
             ELSE [job[r] EXCEPT !.phase = "loop", !.to = Clamp(r), !.n = job[r].from])

MutantMore(r) == job[r].n < job[r].to

More(r) == job[r].n <= job[r].to

BlockDone(r) == [job[r] EXCEPT !.phase = "loop", !.n = @ + 1]

Going(r) == job[r].phase = "loop" /\ More(r) /\ job[r].runner \notin stopped

FetchBlock(r) ==
  /\ kind = "evm" /\ Going(r)
  /\ Step(r, [job[r] EXCEPT !.phase = "logs"])

(* A slot without a block is passed over. *)
FetchSlot(r) ==
  /\ kind = "solana" /\ Going(r)
  /\ Step(r, IF job[r].n \in skipped THEN BlockDone(r) ELSE [job[r] EXCEPT !.phase = "dispatch"])

FetchLogs(r) ==
  /\ job[r].phase = "logs" /\ job[r].runner \notin closed
  /\ Step(r, [job[r] EXCEPT !.phase = "dispatch"])

Dispatch(r) ==
  /\ job[r].phase = "dispatch"
  /\ Step(r, [BlockDone(r) EXCEPT !.sent = @ \cup {job[r].n}])

LoopDone(r) ==
  /\ job[r].phase = "loop" /\ ~Going(r)
  /\ Step(r, [job[r] EXCEPT !.phase = "closing"])

(* finally: the throwaway notifier is stopped. *)
StopNotifier(r) ==
  /\ job[r].phase = "closing"
  /\ Step(r, [job[r] EXCEPT !.phase = "done", !.open = 0])

MutantFailed(r) == BlockDone(r)

(* An exception inside the try ends the replay. *)
Failed(r) == [job[r] EXCEPT !.phase = "closing"]

(* Every call of a disconnected adapter fails ... *)
CallsClosed(r) ==
  /\ job[r].phase \in {"tip", "logs"} /\ job[r].runner \in closed
  /\ Step(r, Failed(r))

(* ... and any call to the node may. *)
CallFails(r) ==
  /\ worker # "exited"
  /\ job[r].phase \in {"tip", "logs"} \/ Going(r)
  /\ faults < MaxFaults
  /\ faults' = faults + 1
  /\ job' = [job EXCEPT ![r] = Failed(r)]
  /\ UNCHANGED <<kind, skipped, tip, worker, registered, unused, stopped, bus, closed>>

(* A channel fails to start: not in the try, nothing is stopped. *)
StartFails(r) ==
  /\ worker # "exited"
  /\ job[r].phase = "starting" /\ job[r].open < NumChannels
  /\ faults < MaxFaults
  /\ faults' = faults + 1
  /\ job' = [job EXCEPT ![r].phase = "failed"]
  /\ UNCHANGED <<kind, skipped, tip, worker, registered, unused, stopped, bus, closed>>

ReplayInit ==
  /\ \/ kind = "evm" /\ skipped = {}
     \/ kind = "solana" /\ skipped \in SUBSET (1..MaxBlock)
  /\ tip = 0
  /\ worker = "up"
  /\ registered = NoRunner
  /\ unused = Runners
  /\ stopped = {}
  /\ closed = {}
  /\ bus = {}
  /\ job = [r \in Requests |-> NoJob]
  /\ faults = 0

Task(r) ==
  \/ StartChannel(r) \/ Started(r) \/ GetTip(r) \/ FetchBlock(r) \/ FetchSlot(r)
  \/ FetchLogs(r) \/ Dispatch(r) \/ LoopDone(r) \/ StopNotifier(r) \/ CallsClosed(r)

Worker == StartRunner \/ StopRunner \/ CloseAdapter \/ StopWatcher \/ StopRunners \/ Disconnect \/ Exit

ReplayNext ==
  \/ Advance \/ Worker
  \/ \E r \in Requests : Post(r) \/ Take(r) \/ Task(r) \/ CallFails(r) \/ StartFails(r)

(* The event loop runs the watcher and every task that can go on. *)
Fairness == \A r \in Requests : WF_replayVars(Take(r)) /\ WF_replayVars(Task(r))

ReplaySpec == ReplayInit /\ [][ReplayNext]_replayVars /\ Fairness
-----------------------------------------------------------------------------
Job ==
  [phase : Running \cup {"new", "accepted", "dropped", "failed", "cancelled", "done"},
   runner : Runners \cup {NoRunner}, from : 0..MaxBlock, to : Int, n : Nat, open : Nat,
   sent : SUBSET Nat]

ReplayTypeOK ==
  /\ kind \in {"evm", "solana"} /\ skipped \subseteq 1..MaxBlock
  /\ tip \in 0..MaxBlock
  /\ worker \in {"up", "no_watcher", "no_runners", "disconnected", "exited"}
  /\ registered \in Runners \cup {NoRunner}
  /\ unused \subseteq Runners /\ stopped \subseteq Runners /\ closed \subseteq stopped
  /\ bus \subseteq Requests
  /\ faults \in 0..MaxFaults
  /\ job \in [Requests -> Job]

(* What has been replayed is, at every moment, the whole range up to the   *)
(* next block: a failing call or a stop cuts the end off and never leaves  *)
(* a hole.                                                                 *)
ReplayHasNoHoles ==
  \A r \in Requests : job[r].phase \notin {"new", "accepted"} =>
    job[r].sent = (job[r].from .. job[r].n - 1) \ skipped

(* A replay has no confirmation buffer: it sends only blocks that were     *)
(* confirmed when it began, whatever range was asked for, and only those   *)
(* of the range.                                                           *)
OnlyConfirmedBlocks ==
  \A r \in Requests : \A b \in job[r].sent : b \in job[r].from..job[r].to /\ b <= Confirmed

(* Live: a request taken by a runner that is not stopped is replayed to    *)
(* the end of its clamped range unless a call fails; and whatever fails,   *)
(* the channels of its throwaway notifier are stopped in the end.  (Not so *)
(* when one of them fails to start or the process ends meanwhile, which    *)
(* happens outside of the try: the channels started before stay open.)     *)
TakenIsReplayed ==
  \A r \in Requests :
    /\ job[r].phase = "starting" ~>
         \/ faults > 0 \/ job[r].runner \in stopped
         \/ job[r].phase = "done" /\ job[r].sent = (job[r].from..job[r].to) \ skipped
    /\ job[r].phase = "starting" ~>
         job[r].phase = "failed" \/ (job[r].phase \in {"done", "cancelled"} /\ job[r].open = 0)
=============================================================================
