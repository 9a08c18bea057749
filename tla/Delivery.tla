------------------------------ MODULE Delivery ------------------------------
(***************************************************************************)
(* From a processed block to the receivers: the part of chain_runner.py    *)
(* that dispatches a block's matches and saves the checkpoint, hot reload  *)
(* (ChainRunner.apply_snapshot), core/notifier/notifier.py, its retries    *)
(* (retry.py) as the HTTP channel (http.py) uses them, and the delivery    *)
(* record each send leaves behind (apps/worker/main.py).                   *)
(*                                                                         *)
(* Every block has one event that matches one subscription, which is bound *)
(* to every channel.  apply_snapshot replaces the notifier while the       *)
(* runner's task is between any two awaits of a block; the channels and    *)
(* the subscription are the same before and after it.                      *)
(***************************************************************************)
EXTENDS Integers, Sequences, FiniteSets

CONSTANTS
  Channels,        \* the bound channels, 1..n in the order of snap.channels
  MaxAttempts,     \* retry.max_attempts of a channel
  MaxConcurrency,  \* the notifier's semaphore
  MaxBlocks,       \* bound: blocks processed
  MaxReloads,      \* bound: snapshots applied
  MaxFaults        \* bound: delivery records that cannot be written

DeliveryAssumption ==
  /\ Cardinality(Channels) \in Nat /\ Channels = 1..Cardinality(Channels)
  /\ MaxAttempts \in Nat \ {0}
  /\ MaxConcurrency \in Nat \ {0}
  /\ MaxBlocks \in Nat /\ MaxReloads \in Nat /\ MaxFaults \in Nat

VARIABLES
  current,   \* self._notifier: number of the notifier
  table,     \* per notifier and channel: "absent" from _channels, "open", or "closed"
  reload,    \* where apply_snapshot is, and the next channel it stops or starts
  block,     \* the block in hand: number, state, and the notifier captured for it
  send,      \* per channel: state of the block's _send_one
  attempt,   \* per channel: attempts made by retry_with_backoff
  cp,        \* the checkpoint
  received,  \* history: <<block, channel>> the receiver has accepted
  record,    \* delivery_records: per block and channel, status and attempts
  torn,      \* history: blocks during which a reload was under way
  faults

vars == <<current, table, reload, block, send, attempt, cp, received, record, torn, faults>>

Notifiers == 0..MaxReloads
Blocks == 1..MaxBlocks
NoRecord == [status |-> "none", attempts |-> 0]
NoSend == [c \in Channels |-> "none"]
Zero == [c \in Channels |-> 0]

TypeOK ==
  /\ current \in Notifiers
  /\ table \in [Notifiers -> [Channels -> {"absent", "open", "closed"}]]
  /\ reload \in [state : {"idle", "stopping", "starting"}, next : Channels]
  /\ block \in [number : 0..MaxBlocks, state : {"none", "captured", "dispatched"},
                notifier : Notifiers]
  /\ send \in [Channels -> {"none", "skipped", "queued", "trying", "backoff", "sent", "failed",
                            "aborted", "done"}]
  /\ attempt \in [Channels -> 0..MaxAttempts]
  /\ cp \in 0..MaxBlocks
  /\ received \subseteq (Blocks \X Channels)
  /\ record \in [Blocks \X Channels -> [status : {"none", "success", "failed"},
                                        attempts : 0..MaxAttempts]]
  /\ torn \subseteq Blocks
  /\ faults \in 0..MaxFaults
-----------------------------------------------------------------------------
(* apply_snapshot: stop the old channels one by one, clear the table,      *)
(* create the new notifier, start its channels one by one.                 *)

LastChannel == Cardinality(Channels)
InHand == IF block.state = "none" THEN {} ELSE {block.number}

ReloadBegin ==
  /\ reload.state = "idle"
  /\ current < MaxReloads
  /\ reload' = [state |-> "stopping", next |-> 1]
  /\ torn' = torn \cup InHand
  /\ UNCHANGED <<current, table, block, send, attempt, cp, received, record, faults>>

StopChannel ==
  /\ reload.state = "stopping"
  /\ table[current][reload.next] = "open"
  /\ table' = [table EXCEPT ![current][reload.next] = "closed"]
  /\ reload' = [reload EXCEPT !.next = IF @ < LastChannel THEN @ + 1 ELSE @]
  /\ UNCHANGED <<current, block, send, attempt, cp, received, record, torn, faults>>

(* Every channel is stopped: clear(), and self._notifier is the new, empty one. *)
ReplaceNotifier ==
  /\ reload.state = "stopping"
  /\ \A c \in Channels : table[current][c] = "closed"
  /\ table' = [table EXCEPT ![current] = [c \in Channels |-> "absent"]]
  /\ current' = current + 1
  /\ reload' = [state |-> "starting", next |-> 1]
  /\ UNCHANGED <<block, send, attempt, cp, received, record, torn, faults>>

StartChannel ==
  /\ reload.state = "starting"
  /\ table' = [table EXCEPT ![current][reload.next] = "open"]
  /\ reload' = IF reload.next < LastChannel
               THEN [reload EXCEPT !.next = @ + 1]
               ELSE [state |-> "idle", next |-> 1]
  /\ UNCHANGED <<current, block, send, attempt, cp, received, record, torn, faults>>
-----------------------------------------------------------------------------
(* One block: capture matcher and notifier, fetch, dispatch, checkpoint. *)

(* The notifier is read without _snap_lock, before the awaits of the block. *)
Capture ==
  /\ block.state = "none"
  /\ cp < MaxBlocks
  /\ block' = [number |-> cp + 1, state |-> "captured", notifier |-> current]
  /\ torn' = IF reload.state = "idle" THEN torn ELSE torn \cup {cp + 1}
  /\ UNCHANGED <<current, table, reload, send, attempt, cp, received, record, faults>>

(* dispatch: a task per channel the captured notifier has in its table. *)
Dispatch ==
  /\ block.state = "captured"
  /\ block' = [block EXCEPT !.state = "dispatched"]
  /\ send' = [c \in Channels |-> IF table[block.notifier][c] = "absent" THEN "skipped"
                                 ELSE "queued"]
  /\ UNCHANGED <<current, table, reload, attempt, cp, received, record, torn, faults>>

MutantFinished == \E c \in Channels : send[c] \in {"skipped", "done"}

(* gather returns when every task has ended. *)
Finished == \A c \in Channels : send[c] \in {"skipped", "done"}

SaveCheckpoint ==
  /\ block.state = "dispatched"
  /\ Finished
  /\ cp' = block.number
  /\ block' = [block EXCEPT !.state = "none"]
  /\ send' = NoSend
  /\ UNCHANGED <<current, table, reload, attempt, received, record, torn, faults>>
-----------------------------------------------------------------------------
(* _send_one: the semaphore is held from the first attempt to the record. *)

Open(c) == table[block.notifier][c] = "open"
Busy == {c \in Channels : send[c] \in {"trying", "backoff", "sent", "failed", "aborted"}}

(* send() asserts that the client exists before it builds the request. *)
BeginSend(c) ==
  /\ send[c] = "queued"
  /\ Cardinality(Busy) < MaxConcurrency
  /\ send' = [send EXCEPT ![c] = IF Open(c) THEN "trying" ELSE "aborted"]
  /\ attempt' = [attempt EXCEPT ![c] = 1]
  /\ UNCHANGED <<current, table, reload, block, cp, received, record, torn, faults>>

Receive(c) == received' = received \cup {<<block.number, c>>}

(* A 2xx answer. *)
AttemptSucceeds(c) ==
  /\ send[c] = "trying"
  /\ Open(c)
  /\ Receive(c)
  /\ send' = [send EXCEPT ![c] = "sent"]
  /\ UNCHANGED <<current, table, reload, block, attempt, cp, record, torn, faults>>

MutantAfterError(c) == "backoff"

AfterError(c) == IF attempt[c] < MaxAttempts THEN "backoff" ELSE "failed"

(* 5xx, 408, 429, a network error, or a client closed under the request:   *)
(* the receiver may have accepted the payload all the same.                *)
AttemptFails(c) ==
  /\ send[c] = "trying"
  /\ Receive(c) \/ UNCHANGED received
  /\ send' = [send EXCEPT ![c] = AfterError(c)]
  /\ UNCHANGED <<current, table, reload, block, attempt, cp, record, torn, faults>>

(* Another 4xx: RetryAbort, which carries no attempt count. *)
AttemptAborts(c) ==
  /\ send[c] = "trying"
  /\ Open(c)
  /\ send' = [send EXCEPT ![c] = "aborted"]
  /\ UNCHANGED <<current, table, reload, block, attempt, cp, received, record, torn, faults>>

Retry(c) ==
  /\ send[c] = "backoff"
  /\ send' = [send EXCEPT ![c] = "trying"]
  /\ attempt' = [attempt EXCEPT ![c] = IF @ < MaxAttempts THEN @ + 1 ELSE @]
  /\ UNCHANGED <<current, table, reload, block, cp, received, record, torn, faults>>

(* What the callback is told: getattr(exc, "attempts", 1). *)
Outcome(c) ==
  [status |-> IF send[c] = "sent" THEN "success" ELSE "failed",
   attempts |-> IF send[c] = "failed" THEN MaxAttempts ELSE 1]

Ended(c) == send[c] \in {"sent", "failed", "aborted"}

(* on_success or on_failure writes one row ... *)
WriteRecord(c) ==
  /\ Ended(c)
  /\ record' = [record EXCEPT ![<<block.number, c>>] = Outcome(c)]
  /\ send' = [send EXCEPT ![c] = "done"] /\ attempt' = [attempt EXCEPT ![c] = 0]
  /\ UNCHANGED <<current, table, reload, block, cp, received, torn, faults>>

(* ... or fails, which is logged. *)
WriteRecordFails(c) ==
  /\ Ended(c)
  /\ faults < MaxFaults
  /\ faults' = faults + 1
  /\ send' = [send EXCEPT ![c] = "done"] /\ attempt' = [attempt EXCEPT ![c] = 0]
  /\ UNCHANGED <<current, table, reload, block, cp, received, record, torn>>
-----------------------------------------------------------------------------
Init ==
  /\ current = 0
  /\ table = [n \in Notifiers |-> [c \in Channels |-> IF n = 0 THEN "open" ELSE "absent"]]
  /\ reload = [state |-> "idle", next |-> 1]
  /\ block = [number |-> 0, state |-> "none", notifier |-> 0]
  /\ send = NoSend
  /\ attempt = Zero
  /\ cp = 0
  /\ received = {}
  /\ record = [p \in Blocks \X Channels |-> NoRecord]
  /\ torn = {}
  /\ faults = 0

BlockStep == Capture \/ Dispatch \/ SaveCheckpoint

Reload == StopChannel \/ ReplaceNotifier \/ StartChannel

Sending(c) ==
  \/ BeginSend(c) \/ AttemptSucceeds(c) \/ AttemptFails(c) \/ AttemptAborts(c)
  \/ Retry(c) \/ WriteRecord(c)

Progress == Reload \/ BlockStep \/ \E c \in Channels : Sending(c)

Next == ReloadBegin \/ Progress \/ \E c \in Channels : WriteRecordFails(c)

Spec == Init /\ [][Next]_vars
-----------------------------------------------------------------------------
Row(b, c) == record[<<b, c>>]
Accounted(b, c) ==
  Row(b, c).status = "failed" \/ (Row(b, c).status = "success" /\ <<b, c>> \in received)

(* The checkpoint passes a block only when each of its notifications was   *)
(* accepted by its receiver, or left a failed delivery record an operator  *)
(* can retry; and no delivery is shown as successful that its receiver did *)
(* not accept, also when the channel is closed under the send.  Excepted   *)
(* from the first are rows the database refused, and blocks during which a *)
(* snapshot was applied: apply_snapshot empties the notifier that such a   *)
(* block has captured, and its notifications are skipped.                  *)
CheckpointedIsAccounted ==
  /\ faults = 0 => \A b \in (1..cp) \ torn, c \in Channels : Accounted(b, c)
  /\ \A b \in Blocks, c \in Channels : Row(b, c).status = "success" => <<b, c>> \in received

(* No receiver, however it answers, and no reload holds up the chain: each *)
(* block is checkpointed in the end.                                       *)
BlocksComplete == <>(cp = MaxBlocks)

=============================================================================
