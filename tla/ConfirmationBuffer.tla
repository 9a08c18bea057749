------------------------- MODULE ConfirmationBuffer -------------------------
(***************************************************************************)
(* core/chains/confirmation_buffer.py: the sliding window of unconfirmed   *)
(* EVM headers.  A header is identified with its hash, so Parent[h] is the *)
(* parent_hash of h and Number[h] its height.                              *)
(*                                                                         *)
(* handle_new_head runs without an await, but its walk along the new       *)
(* branch is a loop: one iteration is one step here, and nothing but the   *)
(* walk itself reads or writes the window between two iterations.          *)
(***************************************************************************)
EXTENDS Integers, Sequences

CONSTANTS
  Headers,        \* the headers any node may ever report
  Number,         \* header -> height
  Parent,         \* header -> parent hash (a header, or an unknown hash)
  Confirmations   \* ChainConfig.confirmations

(* Line 51 raises on a negative depth; a header's number is its parent's plus one. *)
ASSUME ConfirmationsAssumption == Confirmations \in Nat

ASSUME HeadersAssumption ==
  /\ Number \in [Headers -> Nat]
  /\ DOMAIN Parent = Headers
  /\ \A h \in Headers : Parent[h] \in Headers => Number[h] = Number[Parent[h]] + 1

VARIABLES
  buf,        \* self._buf, oldest header first
  pc,         \* "idle", or "walk" inside the loop of handle_new_head
  branch,     \* the local `branch`, kept oldest first: its head is the cursor
  confirmed,  \* the confirmed list the last call returned
  outcome,    \* how the last call ended
  log         \* history: what was confirmed since the window was last reseeded

vars == <<buf, pc, branch, confirmed, outcome, log>>

Outcomes == {"none", "linked", "reorg", "deep", "raised"}

TypeOK ==
  /\ buf \in Seq(Headers)
  /\ pc \in {"idle", "walk"}
  /\ branch \in Seq(Headers)
  /\ confirmed \in Seq(Headers)
  /\ outcome \in Outcomes
  /\ log \in Seq(Headers)

Last(s) == s[Len(s)]

(* Depth of a header under the newest header of the sequence s. *)
Depth(s, i) == Number[Last(s)] - Number[s[i]]

MutantDrainCount(s) ==
  CHOOSE k \in 0..Len(s) :
    /\ \A i \in 1..k : Depth(s, i) >= Confirmations - 1
    /\ k < Len(s) => Depth(s, k + 1) < Confirmations - 1

MutantDrainLate(s) ==
  CHOOSE k \in 0..Len(s) :
    /\ \A i \in 1..k : Depth(s, i) > Confirmations
    /\ k < Len(s) => Depth(s, k + 1) <= Confirmations

(* How many headers _drain_confirmed pops from the front of s. *)
DrainCount(s) ==
  CHOOSE k \in 0..Len(s) :
    /\ \A i \in 1..k : Depth(s, i) >= Confirmations
    /\ k < Len(s) => Depth(s, k + 1) < Confirmations

(* The end of every successful call: s is the new window before the drain. *)
Return(s, how, history) ==
  LET k == DrainCount(s)
  IN  /\ buf' = SubSeq(s, k + 1, Len(s))
      /\ confirmed' = SubSeq(s, 1, k)
      /\ log' = history \o SubSeq(s, 1, k)
      /\ outcome' = how
      /\ pc' = "idle"
      /\ branch' = <<>>

Links(h) == buf # <<>> => Last(buf) = Parent[h]

(* append: the head links to the tip, or is the first one. *)
AppendHead(h) ==
  /\ pc = "idle"
  /\ Links(h)
  /\ Return(Append(buf, h), "linked", IF buf = <<>> THEN <<>> ELSE log)

(* The head does not link: start walking back from it. *)
StartWalk(h) ==
  /\ pc = "idle"
  /\ ~Links(h)
  /\ pc' = "walk"
  /\ branch' = <<h>>
  /\ UNCHANGED <<buf, confirmed, outcome, log>>

MutantMaxWalk == Len(buf) - 1

(* for _ in range(max_walk): the branch holds one header before the first round. *)
MaxWalk == Len(buf) + 1

Walking == pc = "walk" /\ Len(branch) <= MaxWalk

MutantRewind ==
  /\ Walking
  /\ \E i \in DOMAIN buf : buf[i] = Parent[Head(branch)]
  /\ Return(buf \o branch, "reorg", log)

MutantRewindOneMore ==
  /\ Walking
  /\ \E i \in DOMAIN buf :
       /\ buf[i] = Parent[Head(branch)]
       /\ Return(SubSeq(buf, 1, i - 1) \o branch, "reorg", log)

(* The cursor's parent is in the window: replace the suffix above it. *)
Rewind ==
  /\ Walking
  /\ \E i \in DOMAIN buf :
       /\ buf[i] = Parent[Head(branch)]
       /\ Return(SubSeq(buf, 1, i) \o branch, "reorg", log)

AncestorMissing ==
  /\ Walking
  /\ \A i \in DOMAIN buf : buf[i] # Parent[Head(branch)]

(* resolve_parent returns the parent: step one block back. *)
StepBack ==
  /\ AncestorMissing
  /\ Parent[Head(branch)] \in Headers
  /\ branch' = <<Parent[Head(branch)]>> \o branch
  /\ UNCHANGED <<buf, pc, confirmed, outcome, log>>

(* resolve_parent raises: the exception propagates and the window keeps its content. *)
ResolveRaises ==
  /\ AncestorMissing
  /\ pc' = "idle"
  /\ outcome' = "raised"
  /\ confirmed' = <<>>
  /\ branch' = <<>>
  /\ UNCHANGED <<buf, log>>

(* The walk is exhausted: reseed the window with the new head alone. *)
DeepReorg ==
  /\ pc = "walk"
  /\ Len(branch) > MaxWalk
  /\ Return(<<Last(branch)>>, "deep", <<>>)

Init ==
  /\ buf = <<>>
  /\ pc = "idle"
  /\ branch = <<>>
  /\ confirmed = <<>>
  /\ outcome = "none"
  /\ log = <<>>

Walk == Rewind \/ StepBack \/ ResolveRaises \/ DeepReorg

Next ==
  \/ \E h \in Headers : AppendHead(h)
  \/ \E h \in Headers : StartWalk(h)
  \/ Walk

Spec == Init /\ [][Next]_vars
-----------------------------------------------------------------------------
Linked(s) == \A i \in 1..(Len(s) - 1) : Parent[s[i + 1]] = s[i]

(* Between two deep reorgs, what the runner was told to process, followed  *)
(* by what is still in the window, is one parent-linked chain: a reorg     *)
(* never makes the buffer confirm a header twice, skip one, or confirm a   *)
(* header that does not descend from the ones confirmed before it.         *)
ConfirmedChain == Linked(log \o buf)

(* The window never holds more than `confirmations` headers, so a walk is  *)
(* bounded by the depth prefetched for it (Confirmations + 1).             *)
WindowBounded == Len(buf) <= Confirmations

(* What a call returns as confirmed is buried at least `confirmations`     *)
(* deep under the head that call accepted, also when a reorg brings in     *)
(* several headers at once.                                                *)
ConfirmedIsDeep ==
  pc = "idle" =>
    \A i \in DOMAIN confirmed : Depth(confirmed \o buf, i) >= Confirmations

(* Sets of headers that contain the known parents of their headers: what   *)
(* is left without a set that contains the children of its headers.        *)
ParentClosed ==
  {Headers \ D : D \in {E \in SUBSET Headers : \A g \in Headers : Parent[g] \in E => g \in E}}

(* The proper ancestors of h, independently of the walk. *)
AncestorsOf(h) ==
  {a \in Headers : /\ Parent[h] \in Headers
                   /\ \A C \in ParentClosed : Parent[h] \in C => a \in C}

(* A reorg keeps every buffered header that the new head descends from:    *)
(* the ancestor found is the highest common one.                           *)
RewindKeepsCommonPrefix ==
  [][ (outcome' = "reorg" /\ pc = "walk" /\ pc' = "idle")
        => LET old == {buf[i] : i \in DOMAIN buf}
               now == {(confirmed' \o buf')[i] : i \in DOMAIN (confirmed' \o buf')}
           IN  old \cap AncestorsOf(Last(branch)) \subseteq now ]_vars

NoAncestorBuffered == \A i \in DOMAIN buf : buf[i] \notin AncestorsOf(Last(branch))

(* A head at most one above the tip is a deep reorg only when the window   *)
(* holds no ancestor of it: max_walk is long enough for any fork.  (A head *)
(* further above can be reported as deep although it descends from the     *)
(* window: the walk ends before it gets there.)                            *)
ForkPointIsFound ==
  [][ (/\ outcome' = "deep" /\ pc = "walk" /\ pc' = "idle"
       /\ Number[Last(branch)] <= Number[Last(buf)] + 1)
        => NoAncestorBuffered ]_vars

Feed == INSTANCE FinalityFeed WITH chain <- log \o buf, final <- Len(log)

(* The buffer implements FinalityFeed: whatever heads arrive in whatever   *)
(* order and wherever resolve_parent raises, a call of handle_new_head is  *)
(* one step of the feed that keeps all final headers, hands out exactly    *)
(* the newly buried ones, or restarts at a head that does not link, and    *)
(* every step of a walk is invisible.                                      *)
ImplementsFeed == Feed!Spec
=============================================================================
