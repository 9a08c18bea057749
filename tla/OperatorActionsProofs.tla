------------------------ MODULE OperatorActionsProofs ------------------------
(***************************************************************************)
(* Proofs about what operators set off while the worker runs: retries,     *)
(* resolutions and deletions of delivery records (DeliveryRecords), and    *)
(* replays (Replay).  The two parts do not use each other.                 *)
(***************************************************************************)
EXTENDS DeliveryRecords, Replay, TLAPS

(***************************************************************************)
(* The delivery_records table keeps its books for any number of rows,      *)
(* concurrent requests, cap and batch size.                                *)
(*                                                                         *)
(* What the properties need beyond themselves: ids are never reused, so a  *)
(* row not written yet has no retries against it (FreshIds), and a request *)
(* in hand is about a row that was written; a retry that is about to mark  *)
(* its row resolved over a channel that waits for an answer has had its    *)
(* payload received (RetryWasReceived).                                    *)
(***************************************************************************)

FreshIds ==
  /\ \A i \in Ids : i > written => rows[i] = None /\ failed[i] = 0
  /\ \A c \in Clients : request[c].at # "idle" => request[c].id \in 1..written

RetryWasReceived ==
  \A c \in Clients :
    /\ request[c].at \in {"send", "bump"} => request[c].op = "retry"
    /\ (request[c].at = "write" /\ request[c].op = "retry" /\ request[c].id \in Answered) =>
         request[c].id \in settled

TableInv == TypeOK /\ FreshIds /\ RetryWasReceived /\ AttemptsCountRetries /\ ResolvedIsSettled
-----------------------------------------------------------------------------
(* What bump_attempt and mark_resolved make of a row is a row. *)
LEMMA RowUpdates ==
  ASSUME NEW r \in Row
  PROVE  /\ [r EXCEPT !.attempts = @ + 1] \in Row
         /\ [r EXCEPT !.status = "resolved"] \in Row
  BY DEF Row

(* The table's types hold initially and every statement keeps them.        *)
LEMMA TypeStep == TypeOK /\ FreshIds /\ [Next]_vars => TypeOK'
<1> SUFFICES ASSUME TypeOK, FreshIds, [Next]_vars PROVE TypeOK'
  OBVIOUS
<1> USE RecordsAssumption DEF TypeOK, Ids, Row
<1>1. ASSUME NEW status \in {"success", "failed"}, Create(status) PROVE TypeOK'
  BY <1>1 DEF Create, AttemptsOf
<1>2. ASSUME Cleanup PROVE TypeOK'
  BY <1>2 DEF Cleanup
<1>3. ASSUME NEW c \in Clients, NEW op \in {"retry", "resolve", "delete"}, NEW id \in Ids,
             GetRow(c, op, id)
      PROVE  TypeOK'
  <2>1. UNCHANGED <<rows, written, made, failed, settled>> /\ requests' \in 0..MaxRequests
    BY <1>3 DEF GetRow
  <2> DEFINE at == IF op = "retry" THEN "send" ELSE "write"
             r == [op |-> op, at |-> at, id |-> id, seen |-> rows[id].attempts]
  <2>2. rows[id].attempts \in Nat /\ id \in 0..MaxRows /\ at \in {"send", "write"}
    BY <1>3 DEF GetRow
  <2>3. r \in [op : {"none", "retry", "resolve", "delete"}, id : 0..MaxRows,
               at : {"idle", "send", "bump", "write"}, seen : Nat]
    <3> HIDE DEF at
    <3> QED BY ONLY <2>2, op \in {"retry", "resolve", "delete"}
  <2>4. request' = [request EXCEPT ![c] = r]
    BY <1>3 DEF GetRow
  <2> HIDE DEF r
  <2> QED BY <2>1, <2>3, <2>4
<1>4. ASSUME NEW c \in Clients, NoChannel(c) PROVE TypeOK'
  BY <1>4 DEF NoChannel, Idle
<1>5. ASSUME NEW c \in Clients, NEW received \in BOOLEAN, NEW raises \in BOOLEAN,
             Send(c, received, raises)
      PROVE  TypeOK'
  <2>1. request[c].id \in Ids
    BY <1>5 DEF Send, FreshIds
  <2>2. settled' \subseteq Ids /\ UNCHANGED <<rows, written, requests, made, failed>>
    BY <1>5, <2>1 DEF Send
  <2>3. request' \in [Clients -> [op : {"none", "retry", "resolve", "delete"}, id : 0..MaxRows,
                                 at : {"idle", "send", "bump", "write"}, seen : Nat]]
    <3> DEFINE r == [request[c] EXCEPT !.at = IF raises THEN "bump" ELSE "write"]
    <3>1. request[c] \in [op : {"none", "retry", "resolve", "delete"}, id : 0..MaxRows,
                          at : {"idle", "send", "bump", "write"}, seen : Nat]
      OBVIOUS
    <3>2. r \in [op : {"none", "retry", "resolve", "delete"}, id : 0..MaxRows,
                 at : {"idle", "send", "bump", "write"}, seen : Nat]
      BY ONLY <3>1
    <3>3. request' = [request EXCEPT ![c] = r]
      BY <1>5 DEF Send
    <3> HIDE DEF r
    <3> QED BY <3>2, <3>3
  <2> QED BY <2>2, <2>3
<1>6. ASSUME NEW c \in Clients, BumpAttempt(c) PROVE TypeOK'
  <2>1. request[c].id \in Ids
    BY <1>6 DEF BumpAttempt, FreshIds
  <2>2. rows' \in [Ids -> Row \cup {None}]
    <3>1. CASE rows[request[c].id] = None
      BY <1>6, <3>1 DEF BumpAttempt, Bumped, Updated
    <3>2. CASE rows[request[c].id] \in Row
      <4>1. [rows[request[c].id] EXCEPT !.attempts = @ + 1] \in Row
        BY ONLY <3>2, RowUpdates
      <4> QED BY <1>6, <4>1, <2>1 DEF BumpAttempt, Bumped, Updated
    <3> QED BY <3>1, <3>2, <2>1
  <2> QED BY <1>6, <2>1, <2>2 DEF BumpAttempt, Idle
<1>7. ASSUME NEW c \in Clients, MarkResolved(c) PROVE TypeOK'
  <2>1. request[c].id \in Ids
    BY <1>7 DEF MarkResolved, FreshIds
  <2>2. rows' \in [Ids -> Row \cup {None}]
    <3>1. CASE rows[request[c].id] = None
      BY <1>7, <3>1 DEF MarkResolved, Resolved, Updated
    <3>2. CASE rows[request[c].id] \in Row
      <4>1. [rows[request[c].id] EXCEPT !.status = "resolved"] \in Row
        BY ONLY <3>2, RowUpdates
      <4> QED BY <1>7, <4>1, <2>1 DEF MarkResolved, Resolved, Updated
    <3> QED BY <3>1, <3>2, <2>1
  <2>3. request' \in [Clients -> [op : {"none", "retry", "resolve", "delete"}, id : 0..MaxRows,
                                  at : {"idle", "send", "bump", "write"}, seen : Nat]]
    BY <1>7 DEF MarkResolved, Idle
  <2>4. settled' \subseteq Ids
    BY <1>7, <2>1 DEF MarkResolved
  <2> QED BY <1>7, <2>2, <2>3, <2>4 DEF MarkResolved
<1>8. ASSUME NEW c \in Clients, Delete(c) PROVE TypeOK'
  BY <1>8 DEF Delete, Idle, FreshIds
<1>9. CASE UNCHANGED vars
  BY <1>9 DEF vars
<1> QED
  BY <1>1, <1>2, <1>3, <1>4, <1>5, <1>6, <1>7, <1>8, <1>9 DEF Next, Handler

(* The table is right at the start. *)
LEMMA TableInit == Init => TableInv
  BY RecordsAssumption DEF Init, TableInv, TypeOK, FreshIds, RetryWasReceived, Idle, Ids, Row,
     AttemptsCountRetries, ResolvedIsSettled

(* Ids stay fresh. *)
LEMMA FreshStep == TypeOK /\ FreshIds /\ [Next]_vars => FreshIds'
<1> SUFFICES ASSUME TypeOK, FreshIds, [Next]_vars PROVE FreshIds'
  OBVIOUS
<1> USE RecordsAssumption DEF TypeOK, FreshIds, Ids
<1>1. ASSUME NEW status \in {"success", "failed"}, Create(status) PROVE FreshIds'
  BY <1>1 DEF Create, AttemptsOf
<1>2. ASSUME Cleanup PROVE FreshIds'
  BY <1>2 DEF Cleanup
<1>3. ASSUME NEW c \in Clients, NEW op \in {"retry", "resolve", "delete"}, NEW id \in Ids,
             GetRow(c, op, id)
      PROVE  FreshIds'
  BY <1>3 DEF GetRow
<1>4. ASSUME NEW c \in Clients, NoChannel(c) PROVE FreshIds'
  BY <1>4 DEF NoChannel, Idle
<1>5. ASSUME NEW c \in Clients, NEW received \in BOOLEAN, NEW raises \in BOOLEAN,
             Send(c, received, raises)
      PROVE  FreshIds'
  BY <1>5 DEF Send
<1>6. ASSUME NEW c \in Clients, BumpAttempt(c) PROVE FreshIds'
  <2>1. request[c].id \in 1..written /\ written' = written
    BY <1>6 DEF BumpAttempt
  <2>2. ASSUME NEW i \in Ids, i > written PROVE rows'[i] = None /\ failed'[i] = 0
    <3>1. i # request[c].id /\ rows[i] = None /\ failed[i] = 0
      BY <2>1, <2>2
    <3>2. rows'[i] = rows[i]
      BY <1>6, <3>1 DEF BumpAttempt, Bumped, Updated
    <3>3. failed'[i] = failed[i]
      BY <1>6, <3>1 DEF BumpAttempt
    <3> QED BY <3>1, <3>2, <3>3
  <2>3. \A d \in Clients : request'[d].at # "idle" => request'[d] = request[d]
    BY <1>6 DEF BumpAttempt, Idle
  <2> QED BY <2>1, <2>2, <2>3
<1>7. ASSUME NEW c \in Clients, MarkResolved(c) PROVE FreshIds'
  BY <1>7 DEF MarkResolved, Resolved, Updated, Idle
<1>8. ASSUME NEW c \in Clients, Delete(c) PROVE FreshIds'
  BY <1>8 DEF Delete, Idle
<1>9. CASE UNCHANGED vars
  BY <1>9 DEF vars
<1> QED
  BY <1>1, <1>2, <1>3, <1>4, <1>5, <1>6, <1>7, <1>8, <1>9 DEF Next, Handler

(* One step of the worker or of a request keeps the counts and the         *)
(* settlement of every row.                                                *)
LEMMA TableStep == TableInv /\ [Next]_vars => TableInv'
<1> SUFFICES ASSUME TableInv, [Next]_vars
             PROVE  RetryWasReceived' /\ AttemptsCountRetries' /\ ResolvedIsSettled'
  BY TypeStep, FreshStep DEF TableInv
<1> DEFINE Good == RetryWasReceived /\ AttemptsCountRetries /\ ResolvedIsSettled
<1> USE RecordsAssumption
    DEF TableInv, TypeOK, FreshIds, Ids, Row, RetryWasReceived, AttemptsCountRetries, ResolvedIsSettled
<1>1. ASSUME NEW status \in {"success", "failed"}, Create(status) PROVE Good'
  BY <1>1 DEF Create, AttemptsOf
<1>2. ASSUME Cleanup PROVE Good'
  BY <1>2 DEF Cleanup
<1>3. ASSUME NEW c \in Clients, NEW op \in {"retry", "resolve", "delete"}, NEW id \in Ids,
             GetRow(c, op, id)
      PROVE  Good'
  BY <1>3 DEF GetRow
<1>4. ASSUME NEW c \in Clients, NoChannel(c) PROVE Good'
  BY <1>4 DEF NoChannel, Idle
<1>5. ASSUME NEW c \in Clients, NEW received \in BOOLEAN, NEW raises \in BOOLEAN,
             Send(c, received, raises)
      PROVE  Good'
  BY <1>5 DEF Send
<1>6. ASSUME NEW c \in Clients, BumpAttempt(c) PROVE Good'
  <2>1. RetryWasReceived' BY <1>6 DEF BumpAttempt, Idle
  <2>2. AttemptsCountRetries'
    <3>1. request[c].id \in Ids /\ made' = made
      BY <1>6 DEF BumpAttempt
    <3>2. failed' = [failed EXCEPT ![request[c].id] = @ + 1]
      BY <1>6 DEF BumpAttempt
    <3>3. \A i \in Ids : made[i] \in Nat /\ failed[i] \in Nat
      OBVIOUS
    <3>4. \A i \in Ids : i # request[c].id => rows'[i] = rows[i] /\ failed'[i] = failed[i]
      BY <1>6, <3>1, <3>2 DEF BumpAttempt, Bumped, Updated
    <3>5. failed'[request[c].id] = failed[request[c].id] + 1
      BY <3>1, <3>2
    <3>6. rows[request[c].id] = None => rows'[request[c].id] = None
      BY <1>6, <3>1 DEF BumpAttempt, Bumped, Updated
    <3>7. rows[request[c].id] # None =>
            rows'[request[c].id].attempts = rows[request[c].id].attempts + 1
      BY <1>6, <3>1 DEF BumpAttempt, Bumped, Updated
    <3>8. \A m, n \in Nat : (m + n) + 1 = m + (n + 1)
      OBVIOUS
    <3> SUFFICES ASSUME NEW i \in Ids, rows'[i] # None
                 PROVE  rows'[i].attempts = made[i] + failed'[i]
      BY <3>1
    <3>9. CASE i # request[c].id
      BY <3>4, <3>9
    <3>10. CASE i = request[c].id
      <4>1. rows[i] # None /\ rows[i].attempts = made[i] + failed[i]
        BY <3>6, <3>10
      <4> QED BY ONLY <3>3, <3>5, <3>7, <3>8, <3>10, <4>1
    <3> QED BY <3>9, <3>10
  <2>3. ResolvedIsSettled' BY <1>6 DEF BumpAttempt, Bumped, Updated
  <2> QED BY <2>1, <2>2, <2>3
<1>7. ASSUME NEW c \in Clients, MarkResolved(c) PROVE Good'
  <2>1. RetryWasReceived' BY <1>7 DEF MarkResolved, Idle
  <2>2. AttemptsCountRetries' BY <1>7 DEF MarkResolved, Resolved, Updated
  <2>3. ResolvedIsSettled' BY <1>7 DEF MarkResolved, Resolved, Updated
  <2> QED BY <2>1, <2>2, <2>3
<1>8. ASSUME NEW c \in Clients, Delete(c) PROVE Good'
  BY <1>8 DEF Delete, Idle
<1>9. CASE UNCHANGED vars
  BY <1>9 DEF vars
<1> QED
  BY <1>1, <1>2, <1>3, <1>4, <1>5, <1>6, <1>7, <1>8, <1>9 DEF Next, Handler

(* The whole inductive invariant holds of every reachable table.           *)
THEOREM TableInvariant == Spec => []TableInv
  BY TableInit, TableStep, PTL DEF Spec

(* bump_attempt loses no update: whatever retries of a row fail at once,   *)
(* attempts is what the worker had made and the retries that failed.       *)
THEOREM AttemptsCorrect == Spec => []AttemptsCountRetries
<1>1. TableInv => AttemptsCountRetries
  BY DEF TableInv
<1> QED
  BY <1>1, TableInvariant, PTL

(* Over a channel that waits for an answer, mark_resolved is only reached  *)
(* by a retry whose payload was received, or by an operator's resolve.     *)
THEOREM ResolvedCorrect == Spec => []ResolvedIsSettled
<1>1. TableInv => ResolvedIsSettled
  BY DEF TableInv
<1> QED
  BY <1>1, TableInvariant, PTL

(* No statement but a delete request's, or the cleanup's on a success row  *)
(* with Keep newer ones, takes a row away: mark_resolved and bump_attempt  *)
(* update a row that is there, and cleanup selects by status and age.      *)
THEOREM VanishCorrect == Spec => OnlyOldSuccessRowsVanish
<1> DEFINE Vanish(i) ==
      rows[i] # None /\ rows'[i] = None =>
        \/ \E c \in Clients : request[c].op = "delete" /\ request[c].id = i
        \/ rows[i].status = "success" /\ Offset(rows, i) >= Keep
<1>1. ASSUME TableInv, Next, NEW i \in Ids, rows[i] # None, rows'[i] = None PROVE Vanish(i)
  <2> USE <1>1 DEF TableInv, TypeOK, Ids
  <2>1. ASSUME NEW status \in {"success", "failed"}, Create(status) PROVE FALSE
    <3>1. i = written + 1
      BY <2>1 DEF Create
    <3> QED BY <3>1 DEF FreshIds
  <2>2. ASSUME Cleanup PROVE Vanish(i)
    <3>1. i \in Excess(rows)
      BY <2>2 DEF Cleanup
    <3>2. rows[i].status = "success" /\ Offset(rows, i) \in Keep .. (Keep + Batch - 1)
      BY <3>1 DEF Excess, Success
    <3> QED BY <3>2, RecordsAssumption
  <2>3. ASSUME NEW c \in Clients, Handler(c) PROVE Vanish(i)
    <3>1. \/ UNCHANGED rows
          \/ BumpAttempt(c) \/ MarkResolved(c) \/ Delete(c)
      BY <2>3 DEF Handler, GetRow, NoChannel, Send
    <3>2. ASSUME BumpAttempt(c) \/ MarkResolved(c) PROVE FALSE
      <4>1. CASE rows[request[c].id] = None
        BY <3>2, <4>1 DEF BumpAttempt, MarkResolved, Bumped, Resolved, Updated
      <4>2. CASE rows[request[c].id] # None
        <5>1. request[c].id \in Ids
          BY <3>2 DEF BumpAttempt, MarkResolved, FreshIds
        <5>2. rows[request[c].id] \in Row
          BY <4>2, <5>1
        <5>3. /\ [rows[request[c].id] EXCEPT !.attempts = @ + 1] \in Row
              /\ [rows[request[c].id] EXCEPT !.status = "resolved"] \in Row
          BY ONLY <5>2, RowUpdates
        <5>4. rows'[request[c].id] \in Row
          BY <3>2, <4>2, <5>1, <5>3 DEF BumpAttempt, MarkResolved, Bumped, Resolved, Updated
        <5>5. i = request[c].id
          BY <3>2, <4>2, <5>1 DEF BumpAttempt, MarkResolved, Bumped, Resolved, Updated
        <5> QED BY <5>4, <5>5, NoneAssumption
      <4> QED BY <4>1, <4>2
    <3>3. CASE Delete(c)
      BY <3>3 DEF Delete
    <3> QED BY <3>1, <3>2, <3>3
  <2> QED BY <2>1, <2>2, <2>3 DEF Next
<1>2. ASSUME TableInv, [Next]_vars PROVE [\A i \in Ids : Vanish(i)]_vars
  BY <1>1, <1>2 DEF vars
<1> QED
  BY <1>2, TableInvariant, PTL DEF Spec, OnlyOldSuccessRowsVanish
-----------------------------------------------------------------------------
(***************************************************************************)
(* A replay has no holes and sends confirmed blocks only, for any number   *)
(* of requests, runners and faults, any span and any confirmations.        *)
(*                                                                         *)
(* The inductive argument: a replay that has not read the tip has sent     *)
(* nothing (NotBegun); one in its loop has a next block between the start  *)
(* and one past the end of the range, and the end was confirmed when it    *)
(* was read and stays so, because the tip only grows (InRange); the block  *)
(* in hand is not past the end, and is not a slot without a block          *)
(* (BlockInHand).  A request on the bus was accepted and not taken yet     *)
(* (BusInv).                                                               *)
(***************************************************************************)

Before == {"new", "accepted", "dropped", "failed", "starting", "tip"}
Loop == {"loop", "logs", "dispatch"}

KindInv == kind = "evm" => skipped = {}

NotBegun(j) == j.phase \in Before => j.n = 0 /\ j.sent = {}

InRange(j) == j.phase \in Loop => /\ j.from <= j.n /\ j.n <= j.to + 1
                                  /\ j.to <= Confirmed

BlockInHand(j) ==
  /\ j.phase = "logs" => kind = "evm"
  /\ j.phase \in {"logs", "dispatch"} => j.n <= j.to /\ j.n \notin skipped

NoHoles(j) == j.sent = (j.from .. j.n - 1) \ skipped

Final(j) == \A b \in j.sent : b \in j.from..j.to /\ b <= Confirmed

JobInv(j) == NotBegun(j) /\ InRange(j) /\ BlockInHand(j) /\ NoHoles(j) /\ Final(j)

BusInv == \A r \in bus : job[r].phase = "accepted"

ReplayInv == ReplayTypeOK /\ KindInv /\ BusInv /\ \A r \in Requests : JobInv(job[r])
-----------------------------------------------------------------------------
(* A replay begins with nothing sent. *)
LEMMA ReplayBegins == ReplayInit => ReplayInv
<1> SUFFICES ASSUME ReplayInit PROVE ReplayInv
  OBVIOUS
<1>1. NoJob \in Job
  BY ReplayAssumption DEF NoJob, Job
<1>2. ReplayTypeOK /\ KindInv /\ BusInv
  BY <1>1, ReplayAssumption DEF ReplayInit, ReplayTypeOK, KindInv, BusInv
<1>3. JobInv(NoJob)
  BY DEF JobInv, NotBegun, InRange, BlockInHand, NoHoles, Final, NoJob, Before, Loop
<1> QED
  BY <1>2, <1>3 DEF ReplayInit, ReplayInv

(* What the chain and the worker do to a job that stays as it is: nothing, *)
(* for a block once confirmed stays confirmed while the tip grows.         *)
LEMMA JobKept ==
  ASSUME ReplayTypeOK, ReplayTypeOK', NEW j \in Job, JobInv(j),
         kind' = kind, skipped' = skipped, tip' >= tip
  PROVE  JobInv(j)'
<1>1. Confirmed \in Int /\ Confirmed' \in Int /\ Confirmed' >= Confirmed
  <2>1. tip \in Int /\ tip' \in Int
    BY ReplayAssumption DEF ReplayTypeOK
  <2>2. CASE kind = "evm"
    <3>1. Confirmed = tip - Confirmations /\ Confirmed' = tip' - Confirmations
      BY <2>2 DEF Confirmed
    <3>2. Confirmations \in Int
      BY ReplayAssumption
    <3>3. Confirmed \in Int /\ Confirmed' \in Int
      BY <2>1, <3>1, <3>2
    <3>4. \A a, b, c \in Int : a >= b => a - c >= b - c
      OBVIOUS
    <3>5. Confirmed' >= Confirmed
      BY <2>1, <3>1, <3>2, <3>4
    <3> QED BY <3>3, <3>5
  <2>3. CASE kind # "evm"
    BY <2>1, <2>3 DEF Confirmed
  <2> QED BY <2>2, <2>3
<1> QED
  BY <1>1 DEF JobInv, NotBegun, InRange, BlockInHand, NoHoles, Final, Job

(* A step of one task, or of the web API, to a job that is right itself. *)
LEMMA JobReplaced ==
  ASSUME ReplayInv, ReplayTypeOK', BusInv', NEW r \in Requests, NEW next \in Job, JobInv(next),
         job' = [job EXCEPT ![r] = next], kind' = kind, skipped' = skipped, tip' = tip
  PROVE  ReplayInv'
<1>1. KindInv'
  BY DEF ReplayInv, KindInv
<1>2. ASSUME NEW q \in Requests PROVE JobInv(job[q])'
  <2>1. Confirmed' = Confirmed
    BY DEF Confirmed
  <2>2. job'[q] = (IF q = r THEN next ELSE job[q])
    BY DEF ReplayInv, ReplayTypeOK
  <2>3. JobInv(job'[q])
    BY <2>2 DEF ReplayInv
  <2> QED
    BY <2>1, <2>3 DEF JobInv, NotBegun, InRange, BlockInHand, NoHoles, Final
<1> QED
  BY <1>1, <1>2 DEF ReplayInv

(* The fields of a job after the tip is read, and after a block is done. *)
LEMMA JobUpdates ==
  ASSUME NEW j \in Job, NEW to \in Int
  PROVE  /\ LET next == [j EXCEPT !.phase = "loop", !.to = to, !.n = j.from] IN
              /\ next.phase = "loop" /\ next.to = to /\ next.n = j.from
              /\ next.from = j.from /\ next.sent = j.sent /\ next \in Job
         /\ LET next == [j EXCEPT !.phase = "loop", !.n = @ + 1] IN
              /\ next.phase = "loop" /\ next.to = j.to /\ next.n = j.n + 1
              /\ next.from = j.from /\ next.sent = j.sent /\ next \in Job
<1> DEFINE a == [j EXCEPT !.phase = "loop", !.to = to, !.n = j.from]
           b == [j EXCEPT !.phase = "loop", !.n = @ + 1]
<1>1. j.from \in Nat /\ j.n + 1 \in Nat
  BY ReplayAssumption DEF Job
<1>2. a \in Job
  BY <1>1 DEF Job, Running
<1>3. b \in Job
  BY <1>1 DEF Job, Running
<1>4. /\ a.phase = "loop" /\ a.to = to /\ a.n = j.from
      /\ a.from = j.from /\ a.sent = j.sent
  BY DEF Job
<1>5. /\ b.phase = "loop" /\ b.to = j.to /\ b.n = j.n + 1
      /\ b.from = j.from /\ b.sent = j.sent
  BY DEF Job
<1> QED
  BY <1>2, <1>3, <1>4, <1>5

(* The fields of a job whose task is cancelled. *)
LEMMA JobCancelled ==
  ASSUME NEW j \in Job
  PROVE  LET next == Cancelled(j) IN
           /\ next \in Job
           /\ \/ next.phase = "cancelled"
              \/ next.phase = "failed" /\ j.phase = "starting"
           /\ next.to = j.to /\ next.n = j.n
           /\ next.from = j.from /\ next.sent = j.sent
  BY DEF Job, Cancelled

(* A job after one step of its task is a job, and right. *)
LEMMA TaskStep ==
  ASSUME ReplayInv, NEW r \in Requests, Task(r)
  PROVE  \E next \in Job : JobInv(next) /\ Step(r, next)
<1> DEFINE j == job[r]
           Kept(next) == next \in Job /\ JobInv(next) /\ Step(r, next)
<1>0. j \in Job /\ JobInv(j) /\ KindInv /\ ReplayTypeOK
  BY DEF ReplayInv, ReplayTypeOK
<1>b. 0 \in Int
  OBVIOUS
<1>a. Confirmed \in Int
  BY <1>0, ReplayAssumption DEF Confirmed, ReplayTypeOK
<1> SUFFICES \E next : Kept(next)
  OBVIOUS
<1> USE <1>0, <1>a
<1> USE DEF JobInv, NotBegun, InRange, BlockInHand, NoHoles, Final, Job, Running, Before, Loop
<1>1. CASE StartChannel(r)
  <2>1. Kept([j EXCEPT !.open = @ + 1])
    BY <1>1 DEF StartChannel
  <2> QED BY <2>1
<1>2. CASE Started(r)
  <2>1. Kept([j EXCEPT !.phase = "tip"])
    BY <1>2 DEF Started
  <2> QED BY <2>1
<1>3. CASE GetTip(r)
  <2>1. Clamp(r) \in Int /\ Clamp(r) <= Confirmed
    BY DEF Clamp, Lesser
  <2>2. CASE Clamp(r) < j.from
    <3>1. Kept([j EXCEPT !.phase = "closing", !.to = Clamp(r)])
      BY <1>3, <2>1, <2>2 DEF GetTip
    <3> QED BY <3>1
  <2>3. CASE ~(Clamp(r) < j.from)
    <3> DEFINE next == [j EXCEPT !.phase = "loop", !.to = Clamp(r), !.n = j.from]
    <3>a. Step(r, next) /\ j.phase = "tip"
      BY <1>3, <2>3 DEF GetTip
    <3>b. /\ next.phase = "loop" /\ next.to = Clamp(r) /\ next.n = j.from
          /\ next.from = j.from /\ next.sent = j.sent /\ next \in Job
      BY ONLY <1>0, <2>1, JobUpdates
    <3> HIDE DEF next, j
    <3>c. JobInv(next)
      BY <2>1, <2>3, <3>a, <3>b
    <3>1. Kept(next)
      BY <3>a, <3>b, <3>c
    <3> QED BY <3>1
  <2> QED BY <2>2, <2>3
<1>4. CASE FetchBlock(r)
  <2>1. Kept([j EXCEPT !.phase = "logs"])
    BY <1>4 DEF FetchBlock, Going, More, KindInv
  <2> QED BY <2>1
<1>5. CASE FetchSlot(r)
  <2>1. CASE j.n \in skipped
    <3> DEFINE next == BlockDone(r)
    <3>a. Step(r, next) /\ j.phase = "loop" /\ j.n <= j.to
      BY <1>5, <2>1 DEF FetchSlot, Going, More
    <3>b. /\ next.phase = "loop" /\ next.to = j.to /\ next.n = j.n + 1
          /\ next.from = j.from /\ next.sent = j.sent /\ next \in Job
      BY ONLY <1>0, JobUpdates, <1>b DEF BlockDone
    <3>c. JobInv(next)
      BY <2>1, <3>a, <3>b
    <3>1. Kept(next)
      BY <3>a, <3>b, <3>c
    <3> QED BY <3>1
  <2>2. CASE j.n \notin skipped
    <3>1. Kept([j EXCEPT !.phase = "dispatch"])
      BY <1>5, <2>2 DEF FetchSlot, Going, More
    <3> QED BY <3>1
  <2> QED BY <2>1, <2>2
<1>6. CASE FetchLogs(r)
  <2>1. Kept([j EXCEPT !.phase = "dispatch"])
    BY <1>6 DEF FetchLogs
  <2> QED BY <2>1
<1>7. CASE Dispatch(r)
  <2> DEFINE next == [BlockDone(r) EXCEPT !.sent = @ \cup {j.n}]
  <2>a. Step(r, next) /\ j.phase = "dispatch" /\ j.n <= j.to /\ j.n \notin skipped
    BY <1>7 DEF Dispatch
  <2>b. /\ next.phase = "loop" /\ next.to = j.to /\ next.n = j.n + 1
        /\ next.from = j.from /\ next.sent = j.sent \cup {j.n} /\ next \in Job
    <3>1. /\ BlockDone(r).phase = "loop" /\ BlockDone(r).to = j.to /\ BlockDone(r).n = j.n + 1
          /\ BlockDone(r).from = j.from /\ BlockDone(r).sent = j.sent /\ BlockDone(r) \in Job
      BY ONLY <1>0, JobUpdates, <1>b DEF BlockDone
    <3> HIDE DEF BlockDone
    <3> QED BY <3>1
  <2>c. JobInv(next)
    BY <2>a, <2>b
  <2>1. Kept(next)
    BY <2>a, <2>b, <2>c
  <2> QED BY <2>1
<1>8. CASE LoopDone(r)
  <2>1. Kept([j EXCEPT !.phase = "closing"])
    BY <1>8 DEF LoopDone
  <2> QED BY <2>1
<1>9. CASE StopNotifier(r)
  <2>1. Kept([j EXCEPT !.phase = "done", !.open = 0])
    BY <1>9 DEF StopNotifier
  <2> QED BY <2>1
<1>10. CASE CallsClosed(r)
  <2>1. Kept(Failed(r))
    BY <1>10 DEF CallsClosed, Failed
  <2> QED BY <2>1
<1> QED
  BY <1>1, <1>2, <1>3, <1>4, <1>5, <1>6, <1>7, <1>8, <1>9, <1>10 DEF Task

(* A request leaves the bus before its task begins. *)
LEMMA BusStep == ReplayTypeOK /\ BusInv /\ [ReplayNext]_replayVars => BusInv'
<1> SUFFICES ASSUME ReplayTypeOK, BusInv, [ReplayNext]_replayVars PROVE BusInv'
  OBVIOUS
<1> USE DEF BusInv
<1>0. bus \subseteq Requests /\ job \in [Requests -> Job]
  BY DEF ReplayTypeOK
<1>1. CASE Advance \/ Worker
  <2>1. CASE Exit
    BY <2>1, <1>0 DEF Exit, Running
  <2>2. CASE ~Exit
    BY <1>1, <2>2
    DEF Advance, Worker, StartRunner, StopRunner, CloseAdapter, StopWatcher, StopRunners, Disconnect
  <2> QED BY <2>1, <2>2
<1>2. ASSUME NEW r \in Requests, Post(r) PROVE BusInv'
  <2>1. PICK from \in 0..MaxBlock, to \in 0..MaxBlock :
          job' = [job EXCEPT ![r] = [@ EXCEPT !.phase = "accepted", !.from = from, !.to = to]]
    BY <1>2 DEF Post
  <2>2. job'[r].phase = "accepted" /\ \A q \in Requests \ {r} : job'[q] = job[q]
    BY <1>0, <2>1 DEF Job
  <2> QED BY <1>0, <1>2, <2>2 DEF Post
<1>3. ASSUME NEW r \in Requests, Take(r) PROVE BusInv'
  BY <1>0, <1>3 DEF Take
<1>4. ASSUME NEW r \in Requests, Task(r) \/ CallFails(r) \/ StartFails(r) PROVE BusInv'
  <2>1. job[r].phase # "accepted" /\ bus' = bus
    BY <1>4
    DEF Task, CallFails, StartFails, StartChannel, Started, GetTip, FetchBlock, FetchSlot,
        FetchLogs, Dispatch, LoopDone, StopNotifier, CallsClosed, Going, Step
  <2>2. \A q \in Requests \ {r} : job'[q] = job[q]
    BY <1>0, <1>4
    DEF Task, CallFails, StartFails, StartChannel, Started, GetTip, FetchBlock, FetchSlot,
        FetchLogs, Dispatch, LoopDone, StopNotifier, CallsClosed, Step
  <2> QED BY <1>0, <2>1, <2>2
<1>5. CASE UNCHANGED replayVars
  BY <1>5 DEF replayVars
<1> QED
  BY <1>1, <1>2, <1>3, <1>4, <1>5 DEF ReplayNext

(* Every step of the chain, the worker, the web API and the tasks keeps    *)
(* the jobs right.                                                         *)
LEMMA ReplayStep == ReplayInv /\ [ReplayNext]_replayVars => ReplayInv'
<1> SUFFICES ASSUME ReplayInv, [ReplayNext]_replayVars PROVE ReplayInv'
  OBVIOUS
<1>0. ReplayTypeOK /\ KindInv /\ (\A r \in Requests : job[r] \in Job /\ JobInv(job[r]))
  BY DEF ReplayInv, ReplayTypeOK
<1>b. BusInv /\ BusInv'
  BY BusStep DEF ReplayInv
<1>a. ASSUME ReplayTypeOK', job' = job, kind' = kind, skipped' = skipped, tip' >= tip
      PROVE  ReplayInv'
  <2>1. ASSUME NEW r \in Requests PROVE JobInv(job[r])'
    BY <1>0, <1>a, <2>1, JobKept
  <2> QED BY <1>0, <1>a, <1>b, <2>1 DEF ReplayInv, KindInv
<1>1. CASE Advance
  BY <1>0, <1>1, <1>a, ReplayAssumption DEF Advance, ReplayTypeOK
<1>2. CASE StartRunner
  BY <1>0, <1>2, <1>a DEF StartRunner, ReplayTypeOK
<1>3. CASE StopRunner
  BY <1>0, <1>3, <1>a DEF StopRunner, ReplayTypeOK
<1>4. CASE CloseAdapter
  BY <1>0, <1>4, <1>a DEF CloseAdapter, ReplayTypeOK
<1>5. CASE StopWatcher
  BY <1>0, <1>5, <1>a DEF StopWatcher, ReplayTypeOK
<1>6. CASE StopRunners
  BY <1>0, <1>6, <1>a DEF StopRunners, ReplayTypeOK
<1>7. CASE Disconnect
  BY <1>0, <1>7, <1>a DEF Disconnect, ReplayTypeOK
<1>8. CASE Exit
  <2>1. ASSUME NEW r \in Requests
        PROVE  job'[r] \in Job /\ JobInv(job'[r])
    <3>1. CASE job[r].phase \in Running
      <4>1. job'[r] = Cancelled(job[r])
        BY <1>8, <3>1 DEF Exit
      <4>2. job[r] \in Job /\ JobInv(job[r])
        BY <1>0
      <4>3. /\ job'[r] \in Job
            /\ \/ job'[r].phase = "cancelled"
               \/ job'[r].phase = "failed" /\ job[r].phase = "starting"
            /\ job'[r].to = job[r].to /\ job'[r].n = job[r].n
            /\ job'[r].from = job[r].from /\ job'[r].sent = job[r].sent
        BY ONLY <4>1, <4>2, JobCancelled
      <4>4. NotBegun(job'[r]) /\ InRange(job'[r]) /\ BlockInHand(job'[r])
        BY ONLY <4>2, <4>3 DEF JobInv, NotBegun, InRange, BlockInHand, Before, Loop
      <4>5. NoHoles(job'[r]) /\ Final(job'[r])
        BY ONLY <4>2, <4>3 DEF JobInv, NoHoles, Final
      <4> QED BY ONLY <4>3, <4>4, <4>5 DEF JobInv
    <3>2. CASE job[r].phase \notin Running
      BY <1>0, <1>8, <3>2 DEF Exit
    <3> QED BY <3>1, <3>2
  <2>2. ReplayTypeOK'
    BY <1>0, <1>8, <2>1 DEF Exit, ReplayTypeOK
  <2>3. Confirmed' = Confirmed /\ kind' = kind /\ skipped' = skipped
    BY <1>8 DEF Exit, Confirmed
  <2>4. ASSUME NEW r \in Requests PROVE JobInv(job[r])'
    BY <2>1, <2>3 DEF JobInv, NotBegun, InRange, BlockInHand, NoHoles, Final
  <2> QED BY <1>0, <1>b, <2>2, <2>3, <2>4 DEF ReplayInv, KindInv
<1>9. ASSUME NEW r \in Requests, Post(r) PROVE ReplayInv'
  <2>1. PICK from \in 0..MaxBlock, to \in 0..MaxBlock :
          job' = [job EXCEPT ![r] = [@ EXCEPT !.phase = "accepted", !.from = from, !.to = to]]
    BY <1>9 DEF Post
  <2> DEFINE next == [job[r] EXCEPT !.phase = "accepted", !.from = from, !.to = to]
  <2>2. next \in Job /\ JobInv(next)
    <3>1. job[r] \in Job /\ JobInv(job[r]) /\ job[r].phase = "new"
      BY <1>0, <1>9 DEF Post
    <3>2. from \in Nat /\ to \in Int
      BY ReplayAssumption
    <3>3. /\ next \in Job
          /\ next.phase = "accepted" /\ next.from = from /\ next.to = to
          /\ next.n = job[r].n /\ next.sent = job[r].sent
      BY ONLY <3>1, <3>2, from \in 0..MaxBlock DEF Job
    <3>4. next.n = 0 /\ next.sent = {}
      BY <3>1, <3>3 DEF JobInv, NotBegun, Before
    <3> HIDE DEF next
    <3> QED
      BY ONLY <3>2, <3>3, <3>4
      DEF JobInv, NotBegun, InRange, BlockInHand, NoHoles, Final, Loop
  <2>3. job' = [job EXCEPT ![r] = next]
    BY <2>1
  <2>4. ReplayTypeOK'
    BY <1>0, <1>9, <2>2, <2>3 DEF Post, ReplayTypeOK
  <2> QED BY <1>9, <2>2, <2>3, <2>4, <1>b, JobReplaced DEF Post
<1>10. ASSUME NEW r \in Requests, Take(r) PROVE ReplayInv'
  <2>1. Routed(job[r]) \in Job /\ JobInv(Routed(job[r]))
    <3>1. job[r] \in Job /\ JobInv(job[r]) /\ job[r].phase = "accepted"
      BY <1>0, <1>b, <1>10 DEF Take, BusInv
    <3>2. registered \in Runners \cup {NoRunner}
      BY <1>0 DEF ReplayTypeOK
    <3>3. /\ Routed(job[r]) \in Job
          /\ Routed(job[r]).phase \in {"dropped", "starting"}
          /\ Routed(job[r]).from = job[r].from /\ Routed(job[r]).to = job[r].to
          /\ Routed(job[r]).n = job[r].n /\ Routed(job[r]).sent = job[r].sent
      BY ONLY <3>1, <3>2 DEF Routed, Job, Running
    <3> QED
      BY ONLY <3>1, <3>3
      DEF JobInv, NotBegun, InRange, BlockInHand, NoHoles, Final, Before, Loop
  <2>2. job' = [job EXCEPT ![r] = Routed(job[r])]
    BY <1>10 DEF Take
  <2>3. ReplayTypeOK'
    BY <1>0, <1>10, <2>1, <2>2 DEF Take, ReplayTypeOK
  <2> QED BY <1>10, <2>1, <2>2, <2>3, <1>b, JobReplaced DEF Take
<1>11. ASSUME NEW r \in Requests, Task(r) PROVE ReplayInv'
  <2>1. PICK next \in Job : JobInv(next) /\ Step(r, next)
    BY <1>11, TaskStep
  <2>2. ReplayTypeOK'
    BY <1>0, <2>1 DEF Step, ReplayTypeOK
  <2> QED BY <2>1, <2>2, <1>b, JobReplaced DEF Step
<1>12. ASSUME NEW r \in Requests, CallFails(r) PROVE ReplayInv'
  <2>1. Failed(r) \in Job /\ JobInv(Failed(r))
    BY <1>0
    DEF Failed, JobInv, NotBegun, InRange, BlockInHand, NoHoles, Final, Job, Running, Before, Loop
  <2>2. ReplayTypeOK'
    BY <1>0, <1>12, <2>1, ReplayAssumption DEF CallFails, ReplayTypeOK
  <2> QED BY <1>12, <2>1, <2>2, <1>b, JobReplaced DEF CallFails
<1>13. ASSUME NEW r \in Requests, StartFails(r) PROVE ReplayInv'
  <2> DEFINE next == [job[r] EXCEPT !.phase = "failed"]
  <2>1. next \in Job /\ JobInv(next)
    BY <1>0, <1>13
    DEF StartFails, JobInv, NotBegun, InRange, BlockInHand, NoHoles, Final, Job, Before, Loop
  <2>2. job' = [job EXCEPT ![r] = next]
    BY <1>13 DEF StartFails
  <2>3. ReplayTypeOK'
    BY <1>0, <1>13, <2>1, <2>2, ReplayAssumption DEF StartFails, ReplayTypeOK
  <2> QED BY <1>13, <2>1, <2>2, <2>3, <1>b, JobReplaced DEF StartFails
<1>14. CASE UNCHANGED replayVars
  BY <1>0, <1>14, <1>a, ReplayAssumption DEF replayVars, ReplayTypeOK
<1> QED
  BY <1>1, <1>2, <1>3, <1>4, <1>5, <1>6, <1>7, <1>8, <1>9, <1>10, <1>11, <1>12, <1>13, <1>14
  DEF ReplayNext, Worker

(* Every job is right in every reachable state. *)
THEOREM ReplayInvariant == ReplaySpec => []ReplayInv
  BY ReplayBegins, ReplayStep, PTL DEF ReplaySpec

(* ChainRunner.replay goes up the range one block at a time and stops at   *)
(* the first failure: what was dispatched has no hole.                     *)
THEOREM NoHolesCorrect == ReplaySpec => []ReplayHasNoHoles
<1>1. ReplayInv => ReplayHasNoHoles
  BY DEF ReplayInv, JobInv, NoHoles, ReplayHasNoHoles
<1> QED
  BY <1>1, ReplayInvariant, PTL

(* The clamp of ChainRunner.replay to the confirmed tip is enough: nothing *)
(* outside of the requested range or above the confirmed tip is sent.      *)
THEOREM ConfirmedOnlyCorrect == ReplaySpec => []OnlyConfirmedBlocks
<1>1. ReplayInv => OnlyConfirmedBlocks
  BY DEF ReplayInv, JobInv, Final, OnlyConfirmedBlocks
<1> QED
  BY <1>1, ReplayInvariant, PTL
=============================================================================
