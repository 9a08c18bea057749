----------------------------- MODULE SolanaRunner -----------------------------
(***************************************************************************)
(* apps/worker/chain_runner.py for a Solana chain with the adapter         *)
(* core/chains/solana.py: catch-up from the checkpoint over windows of     *)
(* slots, the live feed (polled or slotSubscribe), slot processing and the *)
(* checkpoint, with failing calls, errors in response bodies, graceful     *)
(* stop and crashes.  One action is the code between two awaits.           *)
(*                                                                         *)
(* The node distinguishes the newest processed slot, the newest slot at    *)
(* the commitment of the chain, and the newest finalized one.  A slot of   *)
(* Skipped has no block.                                                   *)
(***************************************************************************)
EXTENDS Integers, FiniteSetsExt

CONSTANTS
  MaxSlot,          \* bound: the last slot the node produces
  Skipped,          \* slots without a block
  FirstTip,         \* the node's slot when the model starts, finalized
  FirstCheckpoint,  \* the checkpoint row at that time, or NoSlot
  StartBlocks,      \* start_block of the enabled subscriptions
  RangeSlots,       \* slot_query_range_blocks
  MaxCatchup,       \* MAX_CATCHUP_BLOCKS
  MaxFaults,        \* bound: calls that fail
  MaxCrashes,       \* bound: process crashes
  MaxStops          \* bound: graceful stops

NoSlot == -1

SolanaAssumption ==
  /\ MaxSlot \in Nat /\ FirstTip \in 0..MaxSlot /\ Skipped \subseteq 1..MaxSlot
  /\ FirstCheckpoint \in {NoSlot} \cup 0..MaxSlot
  /\ StartBlocks \subseteq 0..MaxSlot
  /\ RangeSlots \in Nat \ {0} /\ MaxCatchup \in Nat \ {0}
  /\ MaxFaults \in Nat /\ MaxCrashes \in Nat /\ MaxStops \in Nat

VARIABLES
  node,       \* the node: slots processed, tip (at the chain's commitment), final
  cp,         \* the chain_checkpoints row
  phase,      \* where the runner's task is
  scan,       \* catch-up: first slot, next window, tip, what was final when it began, and
              \* (history) whether getBlocks answered with an error in the body
  job,        \* the slots being processed: mode and slots left
  feed,       \* the live feed: last_slot, the range being yielded, and with slotSubscribe
              \* whether the socket is open and the newest slot it has announced
  stopping,   \* "no", "draining" once _stop is set, "cleared" once the notifier has no channels
  attempted,  \* history: slots whose block was requested since start
  delivered,  \* history: slots whose matches were handed to live channels
  ws,         \* the chain has an rpc_ws
  faults, crashes, stops

bounds == <<ws, faults, crashes, stops>>
vars == <<node, cp, phase, scan, job, feed, stopping, attempted, delivered, bounds>>

Phases == {"down", "booted", "window", "slot", "fetched", "dispatched", "poll", "yield", "dead"}
NoScan == [from |-> 0, next |-> 0, to |-> -1, final |-> 0, refused |-> FALSE]
NoJob == [mode |-> "catchup", todo |-> {}]

MutantFirstFeed == [last |-> FirstTip, next |-> 0, to |-> -1, open |-> FALSE, heard |-> 0]

(* last_slot = 0 when the feed is opened. *)
FirstFeed == [last |-> 0, next |-> 0, to |-> -1, open |-> FALSE, heard |-> 0]

Stopped == stopping # "no"
-----------------------------------------------------------------------------
(* The node, and calls that fail (external). *)

(* A slot is announced to whoever is subscribed when it is processed, and  *)
(* never again.                                                            *)
Process ==
  /\ node.processed < MaxSlot
  /\ node' = [node EXCEPT !.processed = @ + 1]
  /\ feed' = IF feed.open THEN [feed EXCEPT !.heard = node'.processed] ELSE feed
  /\ UNCHANGED <<cp, phase, scan, job, stopping, attempted, delivered, bounds>>

Advance ==
  /\ \/ /\ node.tip < node.processed
        /\ node' = [node EXCEPT !.tip = @ + 1]
     \/ /\ node.final < node.tip
        /\ node' = [node EXCEPT !.final = @ + 1]
  /\ UNCHANGED <<cp, phase, scan, job, feed, stopping, attempted, delivered, bounds>>

Fault ==
  /\ faults < MaxFaults
  /\ faults' = faults + 1
  /\ UNCHANGED <<ws, crashes, stops>>
-----------------------------------------------------------------------------
(* Catch-up. *)

Start ==
  /\ phase = "down"
  /\ phase' = "booted"
  /\ UNCHANGED <<node, cp, scan, job, feed, stopping, attempted, delivered, bounds>>

Candidates == StartBlocks \cup ({cp} \ {NoSlot})

ResumeAfter ==
  IF node.tip - Min(Candidates) > MaxCatchup THEN node.tip - MaxCatchup ELSE Min(Candidates)

CatchupBegin ==
  /\ phase = "booted"
  /\ IF Candidates = {} \/ (Candidates # {} /\ node.tip <= Min(Candidates))
     THEN phase' = "poll" /\ UNCHANGED scan
     ELSE /\ phase' = "window"
          /\ scan' = [from |-> ResumeAfter + 1, next |-> ResumeAfter + 1,
                      to |-> node.tip, final |-> node.final, refused |-> FALSE]
  /\ UNCHANGED <<node, cp, job, feed, stopping, attempted, delivered, bounds>>

(* getSlot fails: no catch-up. *)
CatchupTipFails ==
  /\ phase = "booted"
  /\ Candidates # {}
  /\ Fault
  /\ phase' = "poll"
  /\ UNCHANGED <<node, cp, scan, job, feed, stopping, attempted, delivered>>

WindowEnd == Min({scan.next + RangeSlots - 1, scan.to})

WindowSlots == scan.next .. WindowEnd

MutantNextWindow == WindowEnd + 2

NextWindow == WindowEnd + 1

(* The window's slots are known to be valid; they are processed in order. *)
WindowOf(valid, refused) ==
  /\ phase = "window"
  /\ scan.next <= scan.to
  /\ job' = [mode |-> "catchup", todo |-> valid]
  /\ scan' = [scan EXCEPT !.next = NextWindow, !.refused = @ \/ refused]
  /\ phase' = "slot"
  /\ UNCHANGED <<node, cp, feed, stopping, attempted, delivered>>

(* getBlocks asks at commitment finalized, whatever the chain's is. *)
Window ==
  /\ WindowOf({s \in WindowSlots : s <= node.final} \ Skipped, FALSE)
  /\ UNCHANGED bounds

(* getBlocks raises: every slot of the window is tried. *)
WindowFails == Fault /\ WindowOf(WindowSlots, FALSE)

(* getBlocks answers {"error": ...}: result is missing and read as []. *)
WindowBodyError == Fault /\ WindowOf({}, TRUE)

(* The failure looks like a size limit and is raised. *)
WindowTooLarge ==
  /\ phase = "window"
  /\ scan.next <= scan.to
  /\ Fault
  /\ phase' = "dead"
  /\ UNCHANGED <<node, cp, scan, job, feed, stopping, attempted, delivered>>

WindowDone ==
  /\ phase = "slot" /\ job.mode = "catchup" /\ job.todo = {}
  /\ phase' = "window"
  /\ UNCHANGED <<node, cp, scan, job, feed, stopping, attempted, delivered, bounds>>

CatchupDone ==
  /\ \/ phase = "window" /\ scan.next > scan.to
     \/ phase = "slot" /\ job.mode = "catchup" /\ job.todo # {} /\ Stopped
  /\ phase' = "poll"
  /\ job' = NoJob
  /\ UNCHANGED <<node, cp, scan, feed, stopping, attempted, delivered, bounds>>
-----------------------------------------------------------------------------
(* One slot: _process_solana_slot. *)

Slot == Min(job.todo)

(* The slot is over; live slots come one at a time from the feed. *)
SlotOver ==
  /\ job' = [job EXCEPT !.todo = @ \ {Slot}]
  /\ phase' = IF job.mode = "catchup" THEN "slot" ELSE "yield"

(* An exception is tolerated in catch-up and ends the live loop. *)
SlotRaises == IF job.mode = "catchup" THEN SlotOver ELSE phase' = "dead" /\ UNCHANGED job

(* getBlock: null for a skipped slot, an error for one not yet available. *)
FetchSlot ==
  /\ phase = "slot" /\ job.todo # {}
  /\ job.mode = "catchup" => ~Stopped
  /\ attempted' = attempted \cup {Slot}
  /\ \/ Slot > node.tip /\ SlotRaises
     \/ Slot <= node.tip /\ Slot \in Skipped /\ SlotOver
     \/ Slot <= node.tip /\ Slot \notin Skipped /\ phase' = "fetched" /\ UNCHANGED job
  /\ UNCHANGED <<node, cp, scan, feed, stopping, delivered, bounds>>

FetchSlotFails ==
  /\ phase = "slot" /\ job.todo # {}
  /\ job.mode = "catchup" => ~Stopped
  /\ attempted' = attempted \cup {Slot}
  /\ Fault
  /\ SlotRaises
  /\ UNCHANGED <<node, cp, scan, feed, stopping, delivered>>

Dispatch ==
  /\ phase = "fetched"
  /\ delivered' = IF stopping = "cleared" THEN delivered ELSE delivered \cup {Slot}
  /\ phase' = "dispatched"
  /\ UNCHANGED <<node, cp, scan, job, feed, stopping, attempted, bounds>>

SaveCheckpoint ==
  /\ phase = "dispatched"
  /\ cp' = Slot
  /\ SlotOver
  /\ UNCHANGED <<node, scan, feed, stopping, attempted, delivered, bounds>>

SaveFails ==
  /\ phase = "dispatched"
  /\ Fault
  /\ SlotRaises
  /\ UNCHANGED <<node, cp, scan, feed, stopping, attempted, delivered>>
-----------------------------------------------------------------------------
(* The live loop. *)

(* getSlot answers with the slot at the commitment, whenever it is asked;  *)
(* slotSubscribe has announced what was processed since the connection.    *)
Reported == IF ws THEN feed.heard ELSE node.tip

(* websockets.connect and slotSubscribe. *)
SubscribeSlots ==
  /\ phase = "poll" /\ ws /\ ~feed.open
  /\ feed' = [feed EXCEPT !.open = TRUE]
  /\ UNCHANGED <<node, cp, phase, scan, job, stopping, attempted, delivered, bounds>>

Poll ==
  /\ phase = "poll"
  /\ Reported > feed.last
  /\ feed' = [feed EXCEPT !.next = feed.last + 1, !.to = Reported]
  /\ phase' = "yield"
  /\ UNCHANGED <<node, cp, scan, job, stopping, attempted, delivered, bounds>>

(* getSlot or the connection fails: another try after a pause. *)
PollFails ==
  /\ phase = "poll" /\ ~feed.open
  /\ Fault
  /\ UNCHANGED <<node, cp, phase, scan, job, feed, stopping, attempted, delivered>>

(* The socket closes, with what it has announced and nobody has read; the  *)
(* task finds out when it is back at reading.                              *)
SocketCloses ==
  /\ feed.open
  /\ Fault
  /\ feed' = [feed EXCEPT !.open = FALSE, !.heard = 0]
  /\ UNCHANGED <<node, cp, phase, scan, job, stopping, attempted, delivered>>

(* The next slot of the range. *)
Yield ==
  /\ phase = "yield" /\ feed.next <= feed.to /\ ~Stopped
  /\ job' = [mode |-> "live", todo |-> {feed.next}]
  /\ feed' = [feed EXCEPT !.next = @ + 1]
  /\ phase' = "slot"
  /\ UNCHANGED <<node, cp, scan, stopping, attempted, delivered, bounds>>

RangeDone ==
  /\ phase = "yield" /\ feed.next > feed.to
  /\ feed' = [feed EXCEPT !.last = feed.to]
  /\ phase' = "poll"
  /\ UNCHANGED <<node, cp, scan, job, stopping, attempted, delivered, bounds>>
-----------------------------------------------------------------------------
(* Stop, cancellation and crash; the supervisor starts the worker again. *)

Stop ==
  /\ phase \notin {"down", "dead"} /\ stopping = "no" /\ stops < MaxStops
  /\ stopping' = "draining"
  /\ stops' = stops + 1
  /\ UNCHANGED <<node, cp, phase, scan, job, feed, attempted, delivered, ws, faults, crashes>>

NotifierCleared ==
  /\ stopping = "draining"
  /\ stopping' = "cleared"
  /\ UNCHANGED <<node, cp, phase, scan, job, feed, attempted, delivered, bounds>>

ProcessEnds ==
  /\ phase' = "down"
  /\ scan' = NoScan /\ job' = NoJob /\ feed' = FirstFeed /\ stopping' = "no"
  /\ attempted' = {}

(* _stop_runner cancels the task after stop(), wherever it is. *)
Cancel ==
  /\ stopping = "cleared"
  /\ ProcessEnds
  /\ UNCHANGED <<node, cp, delivered, bounds>>

Crash ==
  /\ phase # "down" /\ crashes < MaxCrashes
  /\ crashes' = crashes + 1
  /\ ProcessEnds
  /\ UNCHANGED <<node, cp, delivered, ws, faults, stops>>

Init ==
  /\ node = [processed |-> FirstTip, tip |-> FirstTip, final |-> FirstTip]
  /\ cp = FirstCheckpoint
  /\ phase = "down"
  /\ scan = NoScan /\ job = NoJob /\ feed = FirstFeed /\ stopping = "no"
  /\ attempted = {} /\ delivered = {}
  /\ ws \in BOOLEAN
  /\ faults = 0 /\ crashes = 0 /\ stops = 0

Progress ==
  \/ Start \/ CatchupBegin \/ Window \/ WindowDone \/ CatchupDone
  \/ FetchSlot \/ Dispatch \/ SaveCheckpoint
  \/ SubscribeSlots \/ Poll \/ Yield \/ RangeDone
  \/ NotifierCleared \/ Cancel

Failure ==
  \/ CatchupTipFails \/ WindowFails \/ WindowBodyError \/ WindowTooLarge
  \/ FetchSlotFails \/ SaveFails \/ PollFails \/ SocketCloses
  \/ Crash

Next == Process \/ Advance \/ Progress \/ Failure \/ Stop

(* The event loop runs the task, and the node answers. *)
Spec == Init /\ [][Next]_vars /\ WF_vars(Progress)
-----------------------------------------------------------------------------
TypeOK ==
  /\ node \in [processed : 0..MaxSlot, tip : 0..MaxSlot, final : 0..MaxSlot]
  /\ cp \in {NoSlot} \cup 0..MaxSlot
  /\ phase \in Phases
  /\ scan \in [from : 0..MaxSlot, next : 0..(MaxSlot + 1), to : -1..MaxSlot, final : 0..MaxSlot,
               refused : BOOLEAN]
  /\ job \in [mode : {"catchup", "live"}, todo : SUBSET (1..MaxSlot)]
  /\ feed \in [last : 0..MaxSlot, next : 0..(MaxSlot + 1), to : -1..MaxSlot, open : BOOLEAN,
               heard : 0..MaxSlot]
  /\ stopping \in {"no", "draining", "cleared"}
  /\ attempted \subseteq 1..MaxSlot /\ delivered \subseteq 1..MaxSlot
  /\ ws \in BOOLEAN
  /\ faults \in 0..MaxFaults /\ crashes \in 0..MaxCrashes /\ stops \in 0..MaxStops

(* When the live loop takes over, catch-up has asked for every block that  *)
(* was final when it began, however its windows were cut and whichever of  *)
(* its calls failed: _get_blocks_classified falls back to every slot.  (An *)
(* error in the body of getBlocks is not seen as a failure, and the window *)
(* is passed over.)                                                        *)
CatchupAttemptsAll ==
  phase \in {"poll", "yield"} /\ ~Stopped /\ ~scan.refused =>
    (scan.from .. Min({scan.to, scan.final})) \ Skipped \subseteq attempted

(* Every block the node has at the chain's commitment is delivered in the  *)
(* end: slots that a failing call, the finalized-only getBlocks, a crash   *)
(* or a stop made catch-up miss are reached by the live feed, which begins *)
(* at slot 1.  Two exceptions: the task died, or the chain has an rpc_ws   *)
(* and no slot was processed since the socket was connected, for then      *)
(* nothing wakes the feed.                                                 *)
AllSlotsServed ==
  []<>(\/ phase = "dead"
       \/ ws /\ feed.heard # node.processed
       \/ (1..node.tip) \ Skipped \subseteq delivered)
=============================================================================
