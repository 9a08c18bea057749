---------------------------- MODULE EndpointPool ----------------------------
(***************************************************************************)
(* core/chains/rpc_pool.py: the ordered endpoint pool with failover and    *)
(* circuit breaker that every adapter call goes through, used by several   *)
(* tasks at once.  A call computes its candidates once and then awaits one *)
(* endpoint after the other; the counters change between those awaits.     *)
(*                                                                         *)
(* Time is kept as what remains of each cooldown.  The failure counter is  *)
(* only compared with the threshold, so it is not counted beyond it.       *)
(***************************************************************************)
EXTENDS Integers, FiniteSets

CONSTANTS
  N,          \* number of endpoints, numbered by priority
  Callers,    \* tasks that may call at the same time
  Threshold,  \* failure_threshold
  Cooldown    \* cooldown_s, in units of time

ASSUME PoolAssumption ==
  /\ N \in Nat \ {0}
  /\ IsFiniteSet(Callers)
  /\ Threshold \in Nat \ {0}
  /\ Cooldown \in Nat \ {0}

Endpoints == 1..N

VARIABLES
  alive,      \* the endpoints that answer at present (environment)
  failures,   \* consecutive_failures, up to Threshold
  cooling,    \* what remains until unhealthy_until
  gauge,      \* RPC_ENDPOINT_UP
  left,       \* per caller: candidates not done yet; the first one is being awaited
  outcome     \* per caller: how its last call ended

poolVars == <<alive, failures, cooling, gauge, left, outcome>>

PoolTypeOK ==
  /\ alive \subseteq Endpoints
  /\ failures \in [Endpoints -> 0..Threshold]
  /\ cooling \in [Endpoints -> 0..Cooldown]
  /\ gauge \in [Endpoints -> {0, 1}]
  /\ left \in [Callers -> SUBSET Endpoints]
  /\ outcome \in [Callers -> {"none", "ok", "failed"}]
-----------------------------------------------------------------------------
Healthy == {e \in Endpoints : cooling[e] = 0}

MutantCandidates == {e \in Healthy : failures[e] < Threshold}

(* _candidates: the healthy endpoints, or all of them. *)
Candidates == IF Healthy = {} THEN Endpoints ELSE Healthy

Calling(c) == left[c] # {}

(* Candidates are tried in the order of their index. *)
Awaited(c, e) == e \in left[c] /\ \A f \in left[c] : e <= f

Call(c) ==
  /\ ~Calling(c)
  /\ left' = [left EXCEPT ![c] = Candidates]
  /\ outcome' = [outcome EXCEPT ![c] = "none"]
  /\ UNCHANGED <<alive, failures, cooling, gauge>>

(* _mark_success *)
MarkSuccess(e) ==
  /\ failures' = [failures EXCEPT ![e] = 0]
  /\ cooling' = [cooling EXCEPT ![e] = 0]
  /\ gauge' = IF failures[e] # 0 THEN [gauge EXCEPT ![e] = 1] ELSE gauge

MutantTripped(e) == failures[e] + 1 > Threshold

Tripped(e) == failures[e] + 1 >= Threshold

(* _mark_failure *)
MarkFailure(e) ==
  /\ failures' = [failures EXCEPT ![e] = IF @ < Threshold THEN @ + 1 ELSE @]
  /\ IF Tripped(e)
     THEN cooling' = [cooling EXCEPT ![e] = Cooldown] /\ gauge' = [gauge EXCEPT ![e] = 0]
     ELSE UNCHANGED <<cooling, gauge>>

AttemptOk(c) ==
  /\ \E e \in alive : Awaited(c, e) /\ MarkSuccess(e)
  /\ left' = [left EXCEPT ![c] = {}]
  /\ outcome' = [outcome EXCEPT ![c] = "ok"]
  /\ UNCHANGED <<alive>>

(* An error, or the timeout of wait_for: fail over, or raise AllEndpointsFailed. *)
AttemptFails(c) ==
  /\ \E e \in Endpoints \ alive :
       /\ Awaited(c, e)
       /\ MarkFailure(e)
       /\ left' = [left EXCEPT ![c] = @ \ {e}]
  /\ outcome' = [outcome EXCEPT ![c] = IF left'[c] = {} THEN "failed" ELSE "none"]
  /\ UNCHANGED alive

(* time.monotonic() advances. *)
Tick ==
  /\ \E e \in Endpoints : cooling[e] > 0
  /\ cooling' = [e \in Endpoints |-> IF cooling[e] > 0 THEN cooling[e] - 1 ELSE 0]
  /\ UNCHANGED <<alive, failures, gauge, left, outcome>>

(* An endpoint goes down or comes back. *)
Flip(e) ==
  /\ alive' = IF e \in alive THEN alive \ {e} ELSE alive \cup {e}
  /\ UNCHANGED <<failures, cooling, gauge, left, outcome>>

PoolInit ==
  /\ alive = Endpoints
  /\ failures = [e \in Endpoints |-> 0]
  /\ cooling = [e \in Endpoints |-> 0]
  /\ gauge = [e \in Endpoints |-> 1]
  /\ left = [c \in Callers |-> {}]
  /\ outcome = [c \in Callers |-> "none"]

Attempt(c) == AttemptOk(c) \/ AttemptFails(c)

PoolNext ==
  \/ \E c \in Callers : Call(c) \/ Attempt(c)
  \/ Tick
  \/ \E e \in Endpoints : Flip(e)

(* Time passes, every attempt ends (by its timeout at the latest), and the *)
(* runner keeps calling.                                                   *)
PoolFairness ==
  /\ WF_poolVars(Tick)
  /\ \A c \in Callers : WF_poolVars(Call(c)) /\ WF_poolVars(Attempt(c))

PoolSpec == PoolInit /\ [][PoolNext]_poolVars /\ PoolFairness
-----------------------------------------------------------------------------
(* Counter, cooldown and metric agree after any interleaving of concurrent *)
(* calls: an endpoint is skipped, and shown as down, only after a full run *)
(* of consecutive failures.                                                *)
BreakerConsistent ==
  \A e \in Endpoints :
    /\ cooling[e] > 0 => failures[e] = Threshold
    /\ gauge[e] = 0 <=> failures[e] = Threshold

(* An endpoint of the highest priority that works again is used again: the *)
(* breaker closes in the end, although other endpoints answer meanwhile    *)
(* and late failures of older calls may still be counted.                  *)
PrimaryIsUsedAgain ==
  <>[](1 \in alive) => <>[](failures[1] = 0 /\ gauge[1] = 1)

(* While one endpoint answers all the time, the runner's calls do not fail *)
(* for ever: calls succeed again and again whatever the others do.         *)
SomeCallsSucceed ==
  \A e \in Endpoints : <>[](e \in alive) => []<>(\E c \in Callers : outcome[c] = "ok")
=============================================================================
