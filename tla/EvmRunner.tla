------------------------------ MODULE EvmRunner ------------------------------
(***************************************************************************)
(* apps/worker/chain_runner.py for an EVM chain: start, catch-up from the  *)
(* checkpoint, the head feeds of core/chains/evm.py (polled, or announced  *)
(* through a WebSocket), the confirmation buffer, block processing, traces *)
(* and the checkpoint, with RPC failures, refused log ranges, reorgs       *)
(* between any two awaits, graceful stop and crashes.                      *)
(*                                                                         *)
(* One action is the code between two awaits.  A block is a header of the  *)
(* tree given by Number and Parent; the node answers a request for height  *)
(* n with the header at n on its canonical chain at that moment.           *)
(***************************************************************************)
EXTENDS Integers, Sequences, SequencesExt

CONSTANTS
  Headers, Number, Parent, Confirmations,  \* as in ConfirmationBuffer
  NoHeader,         \* None
  FirstTip,         \* the node's head when the model starts
  FirstCheckpoint,  \* the checkpoint row at that time, or NoHeader
  StartBlocks,      \* start_block of the enabled subscriptions
  LogRange,         \* ChainConfig.log_query_range_blocks
  TraceInternalCalls,  \* ChainConfig.trace_internal_calls
  MaxCatchup,       \* MAX_CATCHUP_BLOCKS
  MaxReorg,         \* deepest reorg of the node, in blocks undone
  MaxFaults,        \* bound: RPC and database calls that fail
  MaxCrashes,       \* bound: process crashes
  MaxStops          \* bound: graceful shutdowns

(* The node serves every block of its chain down to the genesis. *)
ASSUME TreeAssumption ==
  /\ Confirmations \in Nat /\ Number \in [Headers -> Nat] /\ DOMAIN Parent = Headers
  /\ \A h \in Headers : Number[h] > 0 => Parent[h] \in Headers
  /\ \A h \in Headers : Parent[h] \in Headers => Number[h] = Number[Parent[h]] + 1

ASSUME RunnerAssumption ==
  /\ FirstTip \in Headers
  /\ FirstCheckpoint \in Headers \cup {NoHeader}
  /\ NoHeader \notin Headers
  /\ StartBlocks \subseteq Nat /\ TraceInternalCalls \in BOOLEAN
  /\ LogRange \in Nat \ {0} /\ MaxCatchup \in Nat \ {0}
  /\ MaxReorg \in Nat /\ MaxFaults \in Nat /\ MaxCrashes \in Nat /\ MaxStops \in Nat

VARIABLES
  tip,        \* the node's canonical head
  cp,         \* the chain_checkpoints row: last block and its hash
  phase,      \* where the runner's task is
  scan,       \* catch-up: next height and safe_tip
  job,        \* the blocks being processed: mode, heights left, ranges whose logs are missing,
              \* the node's head when the logs of a height were read, the block in hand
  feed,       \* subscribe_heads: whether rpc_ws is set; _poll_heads: last, and the range being
              \* yielded; _subscribe_heads_ws: whether its handler runs, and its queue
  head,       \* the head _handle_evm_head was given
  prefetched, \* _prefetch_ancestors_for: how far down it got
  cache,      \* ... and what it collected
  bufferTip,  \* self._buffer_tip_hash
  stopping,   \* "no", "draining" once _stop is set, "cleared" once the notifier has no channels
  delivered,  \* history: blocks whose matches were handed to live channels
  faults, crashes, stops,                            \* bounds
  buf, walk, branch, confirmed, outcome, log         \* the ConfirmationBuffer

Buffer == INSTANCE ConfirmationBuffer WITH pc <- walk

bufferVars == <<buf, walk, branch, confirmed, outcome, log>>
bounds == <<faults, crashes, stops>>
handling == <<head, prefetched, cache, bufferTip>>
vars == <<tip, cp, phase, scan, job, feed, handling, stopping, delivered, bounds, bufferVars>>

Phases == {"down", "booted", "window", "logs", "poll", "feed", "prefetch", "handle", "walk",
           "confirmed", "block", "fetched", "tracing", "dispatched", "done", "dead"}

NoScan == [next |-> 0, to |-> -1]
NoJob == [mode |-> "live", todo |-> {}, ranges |-> <<>>, logs |-> <<>>, block |-> NoHeader]
NoFeed(rpcWs) ==
  [ws |-> rpcWs, last |-> -1, next |-> 0, to |-> -1, handler |-> FALSE, queue |-> <<>>]
Heights == {Number[h] : h \in Headers}

TypeOK ==
  /\ tip \in Headers
  /\ cp \in Headers \cup {NoHeader}
  /\ phase \in Phases
  /\ scan \in [next : Nat, to : Int]
  /\ job.mode \in {"catchup", "live"} /\ job.todo \subseteq Heights
  /\ job.ranges \in Seq(Heights \X Heights)
  /\ DOMAIN job.logs \subseteq Heights /\ \A n \in DOMAIN job.logs : job.logs[n] \in Headers
  /\ job.block \in Headers \cup {NoHeader}
  /\ feed \in [ws : BOOLEAN, last : Int, next : Nat, to : Int, handler : BOOLEAN, queue : Seq(Headers)]
  /\ head \in Headers \cup {NoHeader}
  /\ prefetched \in 0..(Confirmations + 1)
  /\ cache \subseteq Headers
  /\ bufferTip \in Headers \cup {NoHeader}
  /\ stopping \in {"no", "draining", "cleared"}
  /\ delivered \subseteq Headers
  /\ faults \in 0..MaxFaults /\ crashes \in 0..MaxCrashes /\ stops \in 0..MaxStops
  /\ Buffer!TypeOK
-----------------------------------------------------------------------------
(* The runner's loops look at this flag only. *)
Stopped == stopping # "no"

(* The node (external). *)

(* h and its ancestors. *)
ChainOf[h \in Headers] ==
  {h} \cup (IF Parent[h] \in Headers THEN ChainOf[Parent[h]] ELSE {})

(* eth_getBlockByNumber(n) while h is the canonical head. *)
BlockAt(h, n) == CHOOSE g \in ChainOf[h] : Number[g] = n

(* Blocks of the present chain that are not on the chain of h. *)
Undone(h) == ChainOf[tip] \ ChainOf[h]

(* The headers newHeads announces when h becomes the head, lowest first. *)
Announced(h) ==
  LET new == Cardinality(ChainOf[h] \ ChainOf[tip])
  IN  [i \in 1..new |-> BlockAt(h, Number[h] - new + i)]

NewTip(h) ==
  /\ Number[h] > Number[tip]
  /\ Cardinality(Undone(h)) <= MaxReorg
  /\ tip' = h
  /\ feed' = IF feed.handler THEN [feed EXCEPT !.queue = @ \o Announced(h)] ELSE feed
  /\ UNCHANGED <<cp, phase, scan, job, handling, stopping, delivered, bounds, bufferVars>>

(* A call of the runner fails: one unit of the fault budget. *)
Fault ==
  /\ faults < MaxFaults
  /\ faults' = faults + 1
  /\ UNCHANGED <<crashes, stops>>
-----------------------------------------------------------------------------
(* Start of the process. *)

FreshBuffer ==
  /\ buf' = <<>> /\ walk' = "idle" /\ branch' = <<>>
  /\ confirmed' = <<>> /\ outcome' = "none" /\ log' = <<>>

FreshRunner ==
  /\ scan' = NoScan /\ job' = NoJob /\ feed' = NoFeed(feed.ws)
  /\ head' = NoHeader /\ prefetched' = 0 /\ cache' = {} /\ bufferTip' = NoHeader
  /\ stopping' = "no"
  /\ FreshBuffer

Start ==
  /\ phase = "down"
  /\ phase' = "booted"
  /\ UNCHANGED <<tip, cp, scan, job, feed, handling, stopping, delivered, bounds, bufferVars>>

(* The heights catch-up may resume after. *)
Candidates == StartBlocks \cup (IF cp = NoHeader THEN {} ELSE {Number[cp]})

MutantSafeTip == Number[tip]

SafeTip == Number[tip] - Confirmations

(* min(candidates), or MAX_CATCHUP_BLOCKS below safe_tip when that is higher. *)
ResumeAfter ==
  IF SafeTip - Min(Candidates) > MaxCatchup THEN SafeTip - MaxCatchup ELSE Min(Candidates)

CatchupBegin ==
  /\ phase = "booted"
  /\ \/ /\ Candidates = {} \/ SafeTip <= Min(Candidates)
        /\ phase' = "poll"
        /\ UNCHANGED scan
     \/ /\ Candidates # {}
        /\ SafeTip > Min(Candidates)
        /\ phase' = "window"
        /\ scan' = [next |-> ResumeAfter + 1, to |-> SafeTip]
  /\ UNCHANGED <<tip, cp, job, feed, handling, stopping, delivered, bounds, bufferVars>>

(* get_latest_block_number raises: catch-up is skipped. *)
CatchupTipFails ==
  /\ phase = "booted"
  /\ Candidates # {}
  /\ Fault
  /\ phase' = "poll"
  /\ UNCHANGED <<tip, cp, scan, job, feed, handling, stopping, delivered, bufferVars>>

(* One window of catch-up: its logs are fetched first. *)
CatchupWindow ==
  /\ phase = "window"
  /\ scan.next <= scan.to
  /\ LET end == Min({scan.next + LogRange - 1, scan.to})
     IN  /\ job' = [NoJob EXCEPT !.mode = "catchup", !.todo = scan.next..end,
                                 !.ranges = <<<<scan.next, end>>>>]
         /\ scan' = [scan EXCEPT !.next = end + 1]
  /\ phase' = "logs"
  /\ UNCHANGED <<tip, cp, feed, handling, stopping, delivered, bounds, bufferVars>>

(* _fetch_logs_with_degrade: the logs of a range ... *)
FetchRange ==
  /\ phase = "logs"
  /\ LET r == Head(job.ranges)
     IN  job' = [job EXCEPT !.ranges = Tail(@),
                            !.logs = [n \in DOMAIN @ \cup (r[1]..r[2]) |->
                                        IF n \in r[1]..r[2] THEN tip ELSE @[n]]]
  /\ phase' = IF job'.ranges = <<>> THEN "block" ELSE "logs"
  /\ UNCHANGED <<tip, cp, scan, feed, handling, stopping, delivered, bounds, bufferVars>>

Halves(r) == LET mid == (r[1] + r[2]) \div 2 IN <<<<r[1], mid>>, <<mid + 1, r[2]>>>>

(* ... or of its halves, when the node refuses it as too large.  A single  *)
(* block that is refused fails the window.                                 *)
RangeTooLarge ==
  /\ phase = "logs"
  /\ Head(job.ranges)[1] < Head(job.ranges)[2]
  /\ job' = [job EXCEPT !.ranges = Halves(Head(@)) \o Tail(@)]
  /\ UNCHANGED <<tip, cp, phase, scan, feed, handling, stopping, delivered, bounds, bufferVars>>

CatchupDone ==
  /\ phase = "window"
  /\ scan.next > scan.to
  /\ phase' = "poll"
  /\ scan' = NoScan
  /\ UNCHANGED <<tip, cp, job, feed, handling, stopping, delivered, bounds, bufferVars>>

CatchupWindowFails ==
  /\ phase = "logs"
  /\ Fault
  /\ phase' = "poll"
  /\ scan' = NoScan /\ job' = NoJob
  /\ UNCHANGED <<tip, cp, feed, handling, stopping, delivered, bufferVars>>
-----------------------------------------------------------------------------
(* Processing of one block: logs, block, dispatch, checkpoint. *)

(* Blocks are processed in the order of their heights. *)
Current == Min(job.todo)

(* Live: the logs and the block are two concurrent requests; either answer *)
(* may be of the earlier state of the node.                                *)
FetchLogs ==
  /\ phase = "confirmed"
  /\ job.todo # {}
  /\ job' = [job EXCEPT !.logs = [n \in {Current} |-> tip]]
  /\ phase' = IF job.block = NoHeader THEN "block" ELSE "fetched"
  /\ UNCHANGED <<tip, cp, scan, feed, handling, stopping, delivered, bounds, bufferVars>>

FetchBlockFirst ==
  /\ phase = "confirmed"
  /\ job.todo # {} /\ job.block = NoHeader
  /\ job' = [job EXCEPT !.block = BlockAt(tip, Current)]
  /\ UNCHANGED <<tip, cp, phase, scan, feed, handling, stopping, delivered, bounds, bufferVars>>

MutantFetchBlock ==
  /\ phase = "block"
  /\ ~(Stopped /\ job.mode = "catchup")
  /\ job' = [job EXCEPT !.block = BlockAt(tip, Current)]
  /\ cp' = job'.block
  /\ phase' = "fetched"
  /\ UNCHANGED <<tip, scan, feed, handling, stopping, delivered, bounds, bufferVars>>

FetchBlock ==
  /\ phase = "block"
  /\ ~(Stopped /\ job.mode = "catchup")
  /\ job' = [job EXCEPT !.block = BlockAt(tip, Current)]
  /\ phase' = "fetched"
  /\ UNCHANGED <<tip, cp, scan, feed, handling, stopping, delivered, bounds, bufferVars>>

(* Catch-up looks at _stop before every block. *)
CatchupStopped ==
  /\ phase = "block"
  /\ Stopped /\ job.mode = "catchup"
  /\ phase' = "poll"
  /\ job' = NoJob
  /\ scan' = NoScan
  /\ UNCHANGED <<tip, cp, feed, handling, stopping, delivered, bounds, bufferVars>>

(* What a block gave goes to the notifier; one that was stopped has no     *)
(* channels left and skips it (notifier.channel_not_started).              *)
Deliver(blocks) ==
  delivered' = IF stopping = "cleared" THEN delivered ELSE delivered \cup blocks

(* A height whose logs are missing counts as a block without logs; such a  *)
(* block is not delivered, whatever else of it is.                         *)
Dispatch ==
  /\ phase = "fetched"
  /\ Deliver(IF Current \in DOMAIN job.logs
             THEN {job.block, BlockAt(job.logs[Current], Current)} ELSE {})
  /\ phase' = IF TraceInternalCalls THEN "tracing" ELSE "dispatched"
  /\ UNCHANGED <<tip, cp, scan, job, feed, handling, stopping, bounds, bufferVars>>

(* trace_block asks the node for the block once more, by its number. *)
TraceBlock ==
  /\ phase = "tracing"
  /\ Deliver(IF Current \in DOMAIN job.logs THEN {BlockAt(tip, Current)} ELSE {})
  /\ phase' = "dispatched"
  /\ UNCHANGED <<tip, cp, scan, job, feed, handling, stopping, bounds, bufferVars>>

(* The task goes on to the next height, the next window or the next head. *)
AfterBlock ==
  LET left == job.todo \ {Current}
  IN  /\ job' = IF left = {} THEN NoJob ELSE [job EXCEPT !.todo = left, !.block = NoHeader]
      /\ phase' = CASE job.mode = "live" /\ left = {} -> "feed"
                    [] job.mode = "live" /\ left # {} -> "confirmed"
                    [] job.mode = "catchup" /\ left = {} -> "window"
                    [] OTHER -> "block"

SaveCheckpoint ==
  /\ phase = "dispatched"
  /\ cp' = job.block
  /\ AfterBlock
  /\ UNCHANGED <<tip, scan, feed, handling, stopping, delivered, bounds, bufferVars>>

(* A failing call ends catch-up (break), but ends the task in the live loop. *)
BlockFails ==
  /\ phase \in {"confirmed", "block", "fetched", "tracing", "dispatched"}
  /\ job.todo # {}
  /\ Fault
  /\ phase' = IF job.mode = "catchup" THEN "poll" ELSE "dead"
  /\ job' = NoJob
  /\ scan' = NoScan
  /\ UNCHANGED <<tip, cp, feed, handling, stopping, delivered, bufferVars>>
-----------------------------------------------------------------------------
(* The head feeds: subscribe_heads polls, unless rpc_ws is set. *)

MutantPollTip ==
  /\ phase = "poll" /\ ~feed.ws
  /\ Number[tip] > feed.last + 1
  /\ feed' = [feed EXCEPT !.next = IF feed.last >= 0 THEN feed.last + 1 ELSE Number[tip],
                          !.to = Number[tip]]
  /\ phase' = "feed"
  /\ UNCHANGED <<tip, cp, scan, job, handling, stopping, delivered, bounds, bufferVars>>

(* A poll that sees a higher block; one that does not changes nothing. *)
PollTip ==
  /\ phase = "poll" /\ ~feed.ws
  /\ Number[tip] > feed.last
  /\ feed' = [feed EXCEPT !.next = IF feed.last >= 0 THEN feed.last + 1 ELSE Number[tip],
                          !.to = Number[tip]]
  /\ phase' = "feed"
  /\ UNCHANGED <<tip, cp, scan, job, handling, stopping, delivered, bounds, bufferVars>>

PollFails ==
  /\ phase = "poll"
  /\ Fault
  /\ phase' = "dead"
  /\ UNCHANGED <<tip, cp, scan, job, feed, handling, stopping, delivered, bufferVars>>

(* _subscribe_heads_ws: connected and subscribed, the handler's task is started. *)
SubscribeHeads ==
  /\ phase = "poll" /\ feed.ws
  /\ feed' = [feed EXCEPT !.handler = TRUE]
  /\ phase' = "feed"
  /\ UNCHANGED <<tip, cp, scan, job, handling, stopping, delivered, bounds, bufferVars>>

(* The connection is lost: the handler's task ends, and nobody looks at it. *)
HandlerDies ==
  /\ feed.handler
  /\ Fault
  /\ feed' = [feed EXCEPT !.handler = FALSE]
  /\ UNCHANGED <<tip, cp, phase, scan, job, handling, stopping, delivered, bufferVars>>

(* The next header goes to _handle_evm_head, which prefetches ancestors    *)
(* when the head does not follow the last one it accepted.                 *)
Yield(h) ==
  /\ head' = h
  /\ phase' = IF bufferTip # NoHeader /\ bufferTip # Parent[h] THEN "prefetch" ELSE "handle"
  /\ prefetched' = 0
  /\ cache' = {}
  /\ UNCHANGED <<tip, cp, scan, job, bufferTip, stopping, delivered, bounds, bufferVars>>

FetchHead ==
  /\ phase = "feed"
  /\ feed.next <= feed.to
  /\ ~Stopped
  /\ feed' = [feed EXCEPT !.next = feed.next + 1]
  /\ Yield(BlockAt(tip, feed.next))

QueuedHead ==
  /\ phase = "feed"
  /\ feed.queue # <<>>
  /\ ~Stopped
  /\ feed' = [feed EXCEPT !.queue = Tail(@)]
  /\ Yield(Head(feed.queue))

(* get_block raises: the rest of the range is given up, last is n all the same. *)
FetchHeadFails ==
  /\ phase = "feed"
  /\ feed.next <= feed.to
  /\ Fault
  /\ feed' = [feed EXCEPT !.last = feed.to]
  /\ phase' = "poll"
  /\ UNCHANGED <<tip, cp, scan, job, handling, stopping, delivered, bufferVars>>

FeedDone ==
  /\ phase = "feed" /\ ~feed.ws
  /\ feed.next > feed.to
  /\ feed' = [feed EXCEPT !.last = feed.to]
  /\ phase' = "poll"
  /\ UNCHANGED <<tip, cp, scan, job, handling, stopping, delivered, bounds, bufferVars>>

(* The live loop sees _stop at the next head and leaves; the task is done. *)
LiveStopped ==
  /\ phase = "feed"
  /\ Stopped
  /\ feed.next <= feed.to \/ feed.queue # <<>>
  /\ phase' = "done"
  /\ UNCHANGED <<tip, cp, scan, job, feed, handling, stopping, delivered, bounds, bufferVars>>
-----------------------------------------------------------------------------
(* _handle_evm_head. *)

PrefetchDepth == Confirmations + 1

PrefetchMore == prefetched < PrefetchDepth /\ Number[head] - (prefetched + 1) >= 0

PrefetchOne ==
  /\ phase = "prefetch"
  /\ PrefetchMore
  /\ cache' = cache \cup {BlockAt(tip, Number[head] - (prefetched + 1))}
  /\ prefetched' = prefetched + 1
  /\ UNCHANGED <<tip, cp, phase, scan, job, feed, head, bufferTip, stopping, delivered,
                 bounds, bufferVars>>

PrefetchDone ==
  /\ phase = "prefetch"
  /\ ~PrefetchMore
  /\ phase' = "handle"
  /\ UNCHANGED <<tip, cp, scan, job, feed, handling, stopping, delivered, bounds, bufferVars>>

PrefetchFails ==
  /\ phase = "prefetch"
  /\ PrefetchMore
  /\ Fault
  /\ phase' = "handle"
  /\ UNCHANGED <<tip, cp, scan, job, feed, handling, stopping, delivered, bufferVars>>

MutantHeadAccepted ==
  /\ bufferTip' = head
  /\ job' = [NoJob EXCEPT !.todo = IF outcome' = "reorg" THEN {}
                                   ELSE {Number[confirmed'[i]] : i \in DOMAIN confirmed'}]
  /\ phase' = IF job'.todo = {} THEN "feed" ELSE "confirmed"

(* handle_new_head returned: its confirmed headers are processed by number. *)
HeadAccepted ==
  /\ bufferTip' = head
  /\ job' = [NoJob EXCEPT !.todo = {Number[confirmed'[i]] : i \in DOMAIN confirmed'}]
  /\ phase' = IF job'.todo = {} THEN "feed" ELSE "confirmed"

HandleLinked ==
  /\ phase = "handle"
  /\ Buffer!AppendHead(head)
  /\ HeadAccepted
  /\ UNCHANGED <<tip, cp, scan, feed, head, prefetched, cache, stopping, delivered, bounds>>

HandleUnlinked ==
  /\ phase = "handle"
  /\ Buffer!StartWalk(head)
  /\ phase' = "walk"
  /\ UNCHANGED <<tip, cp, scan, job, feed, handling, stopping, delivered, bounds>>

WalkBack ==
  /\ phase = "walk"
  /\ Parent[Head(branch)] \in cache
  /\ Buffer!StepBack
  /\ UNCHANGED <<tip, cp, phase, scan, job, feed, handling, stopping, delivered, bounds>>

WalkReturns ==
  /\ phase = "walk"
  /\ Buffer!Rewind \/ Buffer!DeepReorg
  /\ HeadAccepted
  /\ UNCHANGED <<tip, cp, scan, feed, head, prefetched, cache, stopping, delivered, bounds>>

(* An ancestor that is not in the cache: KeyError leaves run(). *)
WalkRaises ==
  /\ phase = "walk"
  /\ Parent[Head(branch)] \notin cache
  /\ Buffer!ResolveRaises
  /\ phase' = "dead"
  /\ UNCHANGED <<tip, cp, scan, job, feed, handling, stopping, delivered, bounds>>
-----------------------------------------------------------------------------
(* ChainRunner.stop sets the flag, then awaits the notifier's stop, while  *)
(* the task is still running.                                              *)
Stop ==
  /\ phase # "down"
  /\ stopping = "no"
  /\ stops < MaxStops
  /\ stops' = stops + 1
  /\ stopping' = "draining"
  /\ UNCHANGED <<tip, cp, phase, scan, job, feed, handling, delivered, faults, crashes, bufferVars>>

(* Notifier.stop has stopped every channel and clears the table; the       *)
(* adapter is then disconnected, which is another await.                   *)
NotifierCleared ==
  /\ stopping = "draining"
  /\ stopping' = "cleared"
  /\ UNCHANGED <<tip, cp, phase, scan, job, feed, handling, delivered, bounds, bufferVars>>

(* _stop_runner cancels the task at its next await; the worker exits. *)
Cancel ==
  /\ stopping = "cleared"
  /\ phase' = "down"
  /\ FreshRunner
  /\ UNCHANGED <<tip, cp, delivered, bounds>>

(* The process dies; a supervisor starts it again. *)
Crash ==
  /\ phase # "down"
  /\ crashes < MaxCrashes
  /\ crashes' = crashes + 1
  /\ phase' = "down"
  /\ FreshRunner
  /\ UNCHANGED <<tip, cp, delivered, faults, stops>>
-----------------------------------------------------------------------------
Init ==
  /\ tip = FirstTip
  /\ cp = FirstCheckpoint
  /\ phase = "down"
  /\ scan = NoScan /\ job = NoJob /\ feed \in {NoFeed(rpcWs) : rpcWs \in BOOLEAN}
  /\ head = NoHeader /\ prefetched = 0 /\ cache = {} /\ bufferTip = NoHeader
  /\ stopping = "no"
  /\ delivered = {}
  /\ faults = 0 /\ crashes = 0 /\ stops = 0
  /\ Buffer!Init

CatchupStep == CatchupBegin \/ CatchupWindow \/ FetchRange \/ RangeTooLarge \/ CatchupDone
                 \/ CatchupStopped
BlockStep == FetchLogs \/ FetchBlockFirst \/ FetchBlock \/ Dispatch \/ TraceBlock \/ SaveCheckpoint
FeedStep == PollTip \/ FetchHead \/ FeedDone \/ SubscribeHeads \/ QueuedHead \/ LiveStopped
HeadStep == PrefetchOne \/ PrefetchDone \/ HandleLinked \/ HandleUnlinked
              \/ WalkBack \/ WalkReturns \/ WalkRaises

(* What the event loop runs when every call succeeds. *)
Progress == Start \/ CatchupStep \/ BlockStep \/ FeedStep \/ HeadStep \/ NotifierCleared \/ Cancel

Failure ==
  \/ CatchupTipFails \/ CatchupWindowFails \/ BlockFails
  \/ PollFails \/ FetchHeadFails \/ HandlerDies \/ PrefetchFails

Next ==
  \/ \E h \in Headers : NewTip(h)
  \/ Progress
  \/ Failure
  \/ Stop
  \/ Crash

Spec == Init /\ [][Next]_vars /\ WF_vars(Progress)
-----------------------------------------------------------------------------
(* With reorgs no deeper than `confirmations`, no subscriber is ever       *)
(* notified of a block (or of logs) that a later reorg removes, in         *)
(* catch-up or live, whatever the node does between the runner's awaits.   *)
DeliveredIsFinal == delivered \subseteq ChainOf[tip]

(* The checkpoint never points at a block whose notifications were not     *)
(* handed to the channels, wherever the process crashes.                   *)
CheckpointDelivered ==
  (cp # FirstCheckpoint /\ stops = 0) => cp \in delivered

(* Blocks up to the checkpoint row found at the start: an earlier process  *)
(* notified of them.                                                       *)
Inherited(h) == FirstCheckpoint # NoHeader /\ Number[h] <= Number[FirstCheckpoint]

(* Every header the buffer confirmed since it was last seeded, up to the   *)
(* checkpoint, was delivered: neither a reorg nor a skipped head makes the *)
(* live loop pass over a confirmed block.                                  *)
ConfirmedUpToCheckpointDelivered ==
  (cp # NoHeader /\ stops = 0) =>
    \A i \in DOMAIN log :
      (Number[log[i]] <= Number[cp] /\ \A n \in job.todo : n > Number[log[i]])
        => log[i] \in delivered \/ Inherited(log[i])

(* Once the chain stops growing and when no call fails, the runner has     *)
(* handled its head and every block that head confirms, also after a crash *)
(* or a stop, unless its task died.  (A WebSocket announces new heads      *)
(* only: nothing is handled before the first one after its subscription.)  *)
Handled == job.todo = {} /\ (bufferTip = tip \/ (feed.ws /\ bufferTip = NoHeader /\ feed.queue = <<>>))

FollowsTip == <>[](faults > 0 \/ phase = "dead" \/ Handled)

(* Design document, section 9: when the WebSocket is lost, the HTTP poll   *)
(* bridges the gap and no block is lost; the task comes to the tip anyway. *)
WsOutageBridged == feed.ws => <>[](phase = "dead" \/ Handled)

(* Design document, section 9.1: whatever is not drained is re-fetched and *)
(* re-notified from the checkpoint on the next start (at least once).      *)
AtLeastOnce ==
  cp # NoHeader =>
    \A n \in (Number[FirstCheckpoint] + 1)..Number[cp] :
      \E h \in delivered : Number[h] = n
=============================================================================
