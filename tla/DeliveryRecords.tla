--------------------------- MODULE DeliveryRecords ---------------------------
(***************************************************************************)
(* The delivery_records table under its concurrent users: the worker's     *)
(* delivery callbacks and cleanup loop (apps/worker/main.py), and the      *)
(* retry, resolve and delete requests of the web API                       *)
(* (apps/web/routers/delivery_records.py), through DeliveryRecordRepo      *)
(* (core/config/repositories.py).  One action is one committed statement,  *)
(* or the send of a retry.  Rows are numbered in the order of created_at.  *)
(***************************************************************************)
EXTENDS Integers, FiniteSets

CONSTANTS
  Clients,      \* requests the web API handles at the same time
  MaxRows,      \* bound: rows the worker writes
  Keep,         \* delivery_records.max_success_rows
  Batch,        \* delivery_records.cleanup_batch_size
  MaxRequests,  \* bound: requests made
  MaxAttempts,  \* retry.max_attempts of the channels
  Answered,     \* rows of channels whose send returns once the payload is received
  None

(* The http, rabbitmq and mq channels wait for the receiver's answer.  The *)
(* Kafka producer only queues the payload, and stop drops what its flush   *)
(* leaves; a websocket publication has no receipt.                         *)
ASSUME RecordsAssumption ==
  /\ MaxRows \in Nat /\ Keep \in Nat /\ Batch \in Nat \ {0} /\ MaxRequests \in Nat
  /\ MaxAttempts \in Nat \ {0}

VARIABLES
  rows,      \* id -> [status, attempts], or None
  written,   \* how many rows were written
  request,   \* client -> [op, at, id, seen]: the request in hand and the row it read
  requests,  \* bound
  made,      \* history: id -> attempts the worker had made when it wrote the row
  failed,    \* history: id -> retries that ended in bump_attempt
  settled    \* history: rows whose retry was received or that an operator resolved

vars == <<rows, written, request, requests, made, failed, settled>>

Ids == 1..MaxRows
Row == [status : {"success", "failed", "resolved"}, attempts : Nat]

ASSUME NoneAssumption == None \notin Row

Idle == [op |-> "none", at |-> "idle", id |-> 0, seen |-> 0]

Success(t) == {i \in Ids : t[i] # None /\ t[i].status = "success"}
-----------------------------------------------------------------------------
(* The worker. *)

(* getattr(exc, "attempts", 1): RetryExhausted carries the attempts made;  *)
(* RetryAbort and a send that fails outside retry_with_backoff do not.     *)
AttemptsOf(status) == IF status = "success" THEN {1} ELSE {1, MaxAttempts}

(* _on_delivery_success and _on_delivery_failure. *)
Create(status) ==
  /\ written < MaxRows
  /\ written' = written + 1
  /\ \E n \in AttemptsOf(status) :
       /\ rows' = [rows EXCEPT ![written + 1] = [status |-> status, attempts |-> n]]
       /\ made' = [made EXCEPT ![written + 1] = n]
  /\ UNCHANGED <<request, requests, failed, settled>>

(* At offset n from the newest success row of t. *)
Offset(t, i) == Cardinality({j \in Success(t) : j > i})

MutantExcess(t) ==
  {i \in Ids : t[i] # None /\ Cardinality({j \in Ids : t[j] # None /\ j > i}) >= Keep}

MutantExcessLimit(t) == {i \in Success(t) : Offset(t, i) \in (Keep + 1) .. (Keep + Batch)}

(* ORDER BY created_at DESC OFFSET keep LIMIT batch, over success rows. *)
Excess(t) == {i \in Success(t) : Offset(t, i) \in Keep .. (Keep + Batch - 1)}

Cleanup ==
  /\ Excess(rows) # {}
  /\ rows' = [i \in Ids |-> IF i \in Excess(rows) THEN None ELSE rows[i]]
  /\ UNCHANGED <<written, request, requests, made, failed, settled>>
-----------------------------------------------------------------------------
(* The web API.  A request for a row that is not there ends with 404. *)

GetRow(c, op, id) ==
  /\ request[c] = Idle
  /\ rows[id] # None
  /\ requests < MaxRequests
  /\ requests' = requests + 1
  /\ request' = [request EXCEPT ![c] =
       [op |-> op, at |-> IF op = "retry" THEN "send" ELSE "write", id |-> id,
        seen |-> rows[id].attempts]]
  /\ UNCHANGED <<rows, written, made, failed, settled>>

(* The channel was deleted or has an unknown type: 404 or 400. *)
NoChannel(c) ==
  /\ request[c].at = "send"
  /\ request' = [request EXCEPT ![c] = Idle]
  /\ UNCHANGED <<rows, written, requests, made, failed, settled>>

(* start, send and stop of a channel made for the retry.  The payload is   *)
(* received, or not, or received although the call raises; a channel that  *)
(* waits for no answer also returns with nothing received.                 *)
Send(c, received, raises) ==
  /\ request[c].at = "send"
  /\ request[c].id \in Answered => received \/ raises
  /\ settled' = IF received THEN settled \cup {request[c].id} ELSE settled
  /\ request' = [request EXCEPT ![c].at = IF raises THEN "bump" ELSE "write"]
  /\ UNCHANGED <<rows, written, requests, made, failed>>

(* An UPDATE ... WHERE id = ... of a row that is gone changes nothing. *)
Updated(id, row) == IF rows[id] = None THEN rows ELSE [rows EXCEPT ![id] = row]

MutantBumped(c) ==
  Updated(request[c].id, [rows[request[c].id] EXCEPT !.attempts = request[c].seen + 1])

MutantBumpedResolved(c) ==
  Updated(request[c].id, [status |-> "resolved", attempts |-> rows[request[c].id].attempts + 1])

(* SET attempts = attempts + 1, computed by the database. *)
Bumped(c) ==
  Updated(request[c].id, [rows[request[c].id] EXCEPT !.attempts = @ + 1])

BumpAttempt(c) ==
  /\ request[c].at = "bump"
  /\ rows' = Bumped(c)
  /\ failed' = [failed EXCEPT ![request[c].id] = @ + 1]
  /\ request' = [request EXCEPT ![c] = Idle]
  /\ UNCHANGED <<written, requests, made, settled>>

Resolved(c) ==
  Updated(request[c].id, [rows[request[c].id] EXCEPT !.status = "resolved"])

(* The end of retry and of resolve. *)
MarkResolved(c) ==
  /\ request[c].at = "write" /\ request[c].op \in {"retry", "resolve"}
  /\ rows' = Resolved(c)
  /\ settled' = IF request[c].op = "resolve" THEN settled \cup {request[c].id} ELSE settled
  /\ request' = [request EXCEPT ![c] = Idle]
  /\ UNCHANGED <<written, requests, made, failed>>

Delete(c) ==
  /\ request[c].at = "write" /\ request[c].op = "delete"
  /\ rows' = [rows EXCEPT ![request[c].id] = None]
  /\ request' = [request EXCEPT ![c] = Idle]
  /\ UNCHANGED <<written, requests, made, failed, settled>>

Init ==
  /\ rows = [i \in Ids |-> None]
  /\ written = 0
  /\ request = [c \in Clients |-> Idle]
  /\ requests = 0
  /\ made = [i \in Ids |-> 0]
  /\ failed = [i \in Ids |-> 0]
  /\ settled = {}

Handler(c) ==
  \/ \E op \in {"retry", "resolve", "delete"}, id \in Ids : GetRow(c, op, id)
  \/ NoChannel(c)
  \/ \E received, raises \in BOOLEAN : Send(c, received, raises)
  \/ BumpAttempt(c) \/ MarkResolved(c) \/ Delete(c)

Next ==
  \/ \E status \in {"success", "failed"} : Create(status)
  \/ Cleanup
  \/ \E c \in Clients : Handler(c)

(* The cleanup loop wakes up every cleanup_interval_seconds. *)
Spec == Init /\ [][Next]_vars /\ WF_vars(Cleanup)
-----------------------------------------------------------------------------
TypeOK ==
  /\ rows \in [Ids -> Row \cup {None}]
  /\ written \in 0..MaxRows
  /\ request \in [Clients -> [op : {"none", "retry", "resolve", "delete"}, id : 0..MaxRows,
                              at : {"idle", "send", "bump", "write"}, seen : Nat]]
  /\ requests \in 0..MaxRequests
  /\ made \in [Ids -> Nat]
  /\ failed \in [Ids -> Nat]
  /\ settled \subseteq Ids

(* A row vanishes only when an operator deletes it or as a success row     *)
(* with at least Keep newer success rows: cleanup never takes a failed or  *)
(* resolved row, nor one of the newest, whatever requests change the rows  *)
(* between its passes.                                                     *)
OnlyOldSuccessRowsVanish ==
  [][\A i \in Ids : rows[i] # None /\ rows'[i] = None =>
       \/ \E c \in Clients : request[c].op = "delete" /\ request[c].id = i
       \/ rows[i].status = "success" /\ Offset(rows, i) >= Keep]_vars

(* Two retries of one row that fail at the same time are both counted, and *)
(* so is one that fails after the row was resolved: attempts is what the   *)
(* worker had made (one, or all its retries) and every failed retry since. *)
AttemptsCountRetries == \A i \in Ids : rows[i] # None => rows[i].attempts = made[i] + failed[i]

(* A row of a channel that waits for an answer is shown as resolved only   *)
(* if its payload was received in a retry or an operator said so; a retry  *)
(* that fails never resolves it, nor does one that loses a race with       *)
(* another.  A retry over Kafka or WebSocket resolves its row as soon as   *)
(* the payload is queued or published, so nothing is said of their rows.   *)
ResolvedIsSettled ==
  \A i \in Ids \cap Answered :
    rows[i] # None /\ rows[i].status = "resolved" => i \in settled

(* The table comes back under its cap however many success rows a burst    *)
(* left, a batch at a time.                                                *)
SuccessRowsCapped == []<>(Cardinality(Success(rows)) <= Keep)
=============================================================================
