-------------------------- MODULE ChainRunnerProofs --------------------------
(***************************************************************************)
(* What the runner of a chain promises its subscribers, for every tree of  *)
(* headers, depth of confirmation, window of slots and bound.              *)
(***************************************************************************)
EXTENDS ChainRunner, FunctionTheorems, FiniteSetTheorems, SequenceTheorems, TLAPS

-----------------------------------------------------------------------------
(* A non-empty set of naturals has a least element. *)
LEMMA LeastNat ==
  ASSUME NEW T \in SUBSET Nat, T # {}
  PROVE  \E x \in T : \A y \in T : x <= y
<1>1. PICK x \in T : \A y \in T : ~ (<<y, x>> \in OpToRel(<, Nat))
  BY NatLessThanWellFounded, WFMin
<1>2. ASSUME NEW y \in T PROVE x <= y
  <2>1. ~ (<<y, x>> \in OpToRel(<, Nat))
    BY <1>1, <1>2
  <2>2. ~ (y < x)
    BY <2>1 DEF OpToRel
  <2> QED BY <2>2
<1> QED BY <1>2

(* A non-empty set of headers has one of least height. *)
LEMMA LowestHeader ==
  ASSUME NEW S \in SUBSET Headers, S # {}
  PROVE  \E x \in S : \A y \in S : Number[x] <= Number[y]
<1> DEFINE T == {Number[x] : x \in S}
<1>1. T \in SUBSET Nat /\ T # {}
  BY TreeAssumption
<1>2. PICK m \in T : \A y \in T : m <= y
  BY <1>1, LeastNat
<1> QED BY <1>2

(* Current is the least of the heights that are left. *)
LEMMA MinOfNats ==
  ASSUME NEW T \in SUBSET Nat, T # {}
  PROVE  Min(T) \in T /\ \A y \in T : Min(T) <= y
  BY LeastNat DEF Min
-----------------------------------------------------------------------------
(* The chain of a header. *)

Rooted == {S \in SUBSET Headers : \A g \in S : Parent[g] \in Headers => Parent[g] \in S}

RootedChain == [h \in Headers |-> {g \in Headers : \A S \in Rooted : h \in S => g \in S}]

(* The recursive definition of ChainOf has a solution, so it unfolds. *)
LEMMA ChainUnfolds ==
  ASSUME NEW h \in Headers
  PROVE  ChainOf[h] = {h} \cup (IF Parent[h] \in Headers THEN ChainOf[Parent[h]] ELSE {})
<1> DEFINE Unfold(f) ==
      [x \in Headers |-> {x} \cup (IF Parent[x] \in Headers THEN f[Parent[x]] ELSE {})]
<1>1. ASSUME NEW x \in Headers
      PROVE  RootedChain[x] = {x} \cup (IF Parent[x] \in Headers THEN RootedChain[Parent[x]] ELSE {})
  <2>1. CASE Parent[x] \in Headers
    <3> DEFINE p == Parent[x]
               R == {x} \cup RootedChain[p]
    <3>1. p \in RootedChain[p] /\ RootedChain[p] \subseteq Headers
      BY <2>1 DEF RootedChain
    <3>2. \A g \in RootedChain[p] : Parent[g] \in Headers => Parent[g] \in RootedChain[p]
      BY <2>1 DEF RootedChain, Rooted
    <3>3. R \in Rooted
      BY <3>1, <3>2, <2>1 DEF Rooted
    <3>4. RootedChain[x] \subseteq R
      BY <3>3 DEF RootedChain
    <3>5. x \in RootedChain[x]
      BY DEF RootedChain
    <3>6. RootedChain[p] \subseteq RootedChain[x]
      BY <2>1 DEF RootedChain, Rooted
    <3> QED BY <2>1, <3>4, <3>5, <3>6
  <2>2. CASE Parent[x] \notin Headers
    <3>1. {x} \in Rooted
      BY <2>2 DEF Rooted
    <3>2. x \in RootedChain[x] /\ RootedChain[x] \subseteq {x}
      BY <3>1 DEF RootedChain
    <3> QED BY <2>2, <3>2
  <2> QED BY <2>1, <2>2
<1>2. RootedChain = Unfold(RootedChain)
  BY <1>1 DEF RootedChain
<1>3. ChainOf = Unfold(ChainOf)
  BY <1>2 DEF ChainOf
<1> QED BY <1>3

(* Ancestors: a set that contains a header and the parent of every header  *)
(* in it contains the header's chain.                                      *)
LEMMA ChainInduction ==
  ASSUME NEW h \in Headers, NEW S \in SUBSET Headers, h \in S,
         \A g \in S : Parent[g] \in Headers => Parent[g] \in S
  PROVE  ChainOf[h] \subseteq S
<1> DEFINE Bad == {x \in S : ~(ChainOf[x] \subseteq S)}
<1> SUFFICES ASSUME Bad # {} PROVE FALSE
  OBVIOUS
<1>2. PICK x \in Bad : \A y \in Bad : Number[x] <= Number[y]
  <2>1. Bad \in SUBSET Headers
    OBVIOUS
  <2> HIDE DEF Bad
  <2> QED BY <2>1, LowestHeader
<1>3. PICK z \in ChainOf[x] : z \notin S
  OBVIOUS
<1>4. Parent[x] \in Headers /\ z \in ChainOf[Parent[x]] /\ Parent[x] \in S
  BY <1>3, ChainUnfolds
<1>5. Parent[x] \in Bad
  BY <1>3, <1>4
<1>6. Number[x] <= Number[Parent[x]] /\ Number[x] = Number[Parent[x]] + 1
  BY <1>2, <1>4, <1>5, TreeAssumption
<1> QED BY <1>4, <1>6, TreeAssumption

(* A chain contains its head, and with a header its parent. *)
LEMMA ChainClosed ==
  ASSUME NEW h \in Headers
  PROVE  /\ h \in ChainOf[h] /\ ChainOf[h] \subseteq Headers
         /\ \A g \in ChainOf[h] : Parent[g] \in Headers => Parent[g] \in ChainOf[h]
<1>1. h \in ChainOf[h]
  BY ChainUnfolds
<1>2. ChainOf[h] \subseteq Headers
  BY ChainInduction
<1> DEFINE U == {x \in Headers : x \in ChainOf[h] /\ ChainOf[x] \subseteq ChainOf[h]}
<1>4. \A x \in U : Parent[x] \in Headers => Parent[x] \in U
  BY ChainUnfolds
<1>5. ChainOf[h] \subseteq U
  <2>1. h \in U /\ U \in SUBSET Headers
    BY <1>1
  <2> HIDE DEF U
  <2> QED BY <2>1, <1>4, ChainInduction
<1> QED BY <1>1, <1>2, <1>4, <1>5

(* The ancestors of an ancestor are ancestors. *)
LEMMA ChainTransitive ==
  ASSUME NEW h \in Headers, NEW g \in ChainOf[h]
  PROVE  ChainOf[g] \subseteq ChainOf[h]
<1>1. g \in Headers
  BY ChainClosed
<1> QED
  BY <1>1, ChainClosed, ChainInduction

(* Every other header of a chain is below its head, and has a child on it. *)
LEMMA ChainBelow ==
  ASSUME NEW h \in Headers, NEW g \in ChainOf[h], g # h
  PROVE  /\ Number[g] \in Nat /\ Number[g] < Number[h]
         /\ \E c \in ChainOf[h] : Parent[c] = g
<1> DEFINE S == {x \in Headers : x = h \/ Number[x] < Number[h]}
           U == {x \in Headers : x \in ChainOf[h] /\ (x = h \/ \E c \in ChainOf[h] : Parent[c] = x)}
<1>1. \A x \in S : Parent[x] \in Headers => Parent[x] \in S
  BY TreeAssumption
<1>2. ChainOf[h] \subseteq S
  <2>1. h \in S /\ S \in SUBSET Headers
    OBVIOUS
  <2> HIDE DEF S
  <2> QED BY <1>1, <2>1, ChainInduction
<1>3. \A x \in U : Parent[x] \in Headers => Parent[x] \in U
  BY ChainClosed
<1>4. ChainOf[h] \subseteq U
  <2>1. h \in U /\ U \in SUBSET Headers
    BY ChainClosed
  <2> HIDE DEF U
  <2> QED BY <1>3, <2>1, ChainInduction
<1> QED BY <1>2, <1>4, TreeAssumption

(* A chain has one header at a height. *)
LEMMA ChainUnique ==
  ASSUME NEW h \in Headers, NEW f \in ChainOf[h], NEW g \in ChainOf[h], Number[f] = Number[g]
  PROVE  f = g
<1> DEFINE Only(x) == \A y \in ChainOf[h] : Number[y] = Number[x] => y = x
           S == {x \in Headers : x \in ChainOf[h] /\ Only(x)}
<1>1. h \in S /\ S \in SUBSET Headers
  <2>1. ASSUME NEW y \in ChainOf[h], Number[y] = Number[h], y # h PROVE FALSE
    BY <2>1, ChainBelow
  <2> QED BY <2>1, ChainClosed
<1>2. ASSUME NEW x \in S, Parent[x] \in Headers PROVE Parent[x] \in S
  <2>1. Parent[x] \in ChainOf[h] /\ Number[x] = Number[Parent[x]] + 1 /\ Number[x] <= Number[h]
    BY <1>2, ChainClosed, ChainBelow, TreeAssumption
  <2>2. ASSUME NEW y \in ChainOf[h], Number[y] = Number[Parent[x]] PROVE y = Parent[x]
    <3>1. y # h
      BY <2>1, <2>2, <1>2, TreeAssumption
    <3>2. PICK c \in ChainOf[h] : Parent[c] = y
      BY <3>1, ChainBelow
    <3>3. Number[c] = Number[x]
      BY <2>1, <2>2, <3>2, ChainClosed, TreeAssumption
    <3> QED BY <3>2, <3>3
  <2> QED BY <1>2, <2>1, <2>2
<1>3. ChainOf[h] \subseteq S
  <2> HIDE DEF S
  <2> QED BY <1>1, <1>2, ChainInduction
<1> QED BY <1>3

(* ... and one at every height up to its head's. *)
LEMMA ChainReaches ==
  ASSUME NEW h \in Headers, NEW n \in Nat, n <= Number[h]
  PROVE  \E g \in ChainOf[h] : Number[g] = n
<1> DEFINE S == {x \in ChainOf[h] : n <= Number[x]}
<1>1. S \in SUBSET Headers /\ S # {}
  BY ChainClosed
<1>2. PICK x \in S : \A y \in S : Number[x] <= Number[y]
  <2> HIDE DEF S
  <2> QED BY <1>1, LowestHeader
<1>3. x \in Headers /\ Number[x] \in Nat
  BY ChainClosed, TreeAssumption
<1>4. ASSUME n < Number[x] PROVE FALSE
  <2>1. Parent[x] \in Headers /\ Number[x] = Number[Parent[x]] + 1 /\ Number[Parent[x]] \in Nat
    BY <1>3, <1>4, TreeAssumption
  <2>2. Parent[x] \in S
    BY <1>3, <1>4, <2>1, ChainClosed
  <2> QED BY <1>2, <2>1, <2>2
<1> QED BY <1>3, <1>4

(* The node's answer to a request for a height that its chain has. *)
LEMMA BlockAtHeight ==
  ASSUME NEW h \in Headers, NEW n \in Nat, n <= Number[h]
  PROVE  BlockAt(h, n) \in ChainOf[h] /\ Number[BlockAt(h, n)] = n /\ BlockAt(h, n) \in Headers
  BY ChainReaches, ChainClosed DEF BlockAt

(* Of two headers of a chain the lower one is an ancestor of the other. *)
LEMMA ChainOrdered ==
  ASSUME NEW h \in Headers, NEW f \in ChainOf[h], NEW g \in ChainOf[h], Number[f] <= Number[g]
  PROVE  f \in ChainOf[g]
<1>1. f \in Headers /\ g \in Headers /\ Number[f] \in Nat
  BY ChainClosed, TreeAssumption
<1>2. PICK x \in ChainOf[g] : Number[x] = Number[f]
  BY <1>1, ChainReaches
<1>3. x \in ChainOf[h]
  BY ChainTransitive
<1> QED BY <1>2, <1>3, ChainUnique

(* A chain is finite, and what it has above a height is counted. *)
LEMMA ChainCounted ==
  ASSUME NEW h \in Headers, NEW n \in Nat, n <= Number[h]
  PROVE  LET top == {g \in ChainOf[h] : n <= Number[g]}
         IN  IsFiniteSet(top) /\ Cardinality(top) = Number[h] - n + 1
<1> DEFINE top == {g \in ChainOf[h] : n <= Number[g]}
           f == [i \in n..Number[h] |-> BlockAt(h, i)]
<1>0. Number[h] \in Nat
  BY TreeAssumption
<1>1. \A i \in n..Number[h] :
        i \in Nat /\ BlockAt(h, i) \in ChainOf[h] /\ Number[BlockAt(h, i)] = i
  BY <1>0, BlockAtHeight
<1>2. f \in [n..Number[h] -> top]
  BY <1>1
<1>3. \A i, j \in n..Number[h] : f[i] = f[j] => i = j
  BY <1>1
<1>4. ASSUME NEW g \in top PROVE \E i \in n..Number[h] : f[i] = g
  <2>1. g \in Headers /\ Number[g] \in Nat /\ Number[g] <= Number[h]
    BY ChainClosed, ChainBelow, TreeAssumption
  <2>2. Number[g] \in n..Number[h] /\ f[Number[g]] \in ChainOf[h] /\ Number[f[Number[g]]] = Number[g]
    BY <1>0, <1>1, <2>1
  <2> QED BY <2>2, ChainUnique
<1>5. f \in Bijection(n..Number[h], top)
  <2> HIDE DEF f, top
  <2> QED BY <1>2, <1>3, <1>4 DEF Bijection, Injection, Surjection, IsInjective
<1>6. ExistsBijection(n..Number[h], top)
  BY <1>5 DEF ExistsBijection
<1>7. IsFiniteSet(n..Number[h]) /\ Cardinality(n..Number[h]) = Number[h] - n + 1
  <2>1. n \in Int /\ Number[h] \in Int /\ ~(n > Number[h])
    BY <1>0
  <2> QED BY ONLY <2>1, FS_Interval
<1> HIDE DEF top
<1> QED BY <1>6, <1>7, FS_Bijection DEF top

(* A chain has a header at every height from 0 up to its head. *)
LEMMA ChainFinite ==
  ASSUME NEW h \in Headers
  PROVE  IsFiniteSet(ChainOf[h]) /\ Cardinality(ChainOf[h]) = Number[h] + 1
<1> DEFINE top == {g \in ChainOf[h] : 0 <= Number[g]}
<1>1. Number[h] \in Nat /\ 0 <= Number[h] /\ 0 \in Nat
  BY TreeAssumption
<1>2. IsFiniteSet(top) /\ Cardinality(top) = Number[h] - 0 + 1
  BY <1>1, ChainCounted
<1>3. top = ChainOf[h]
  BY ChainClosed, TreeAssumption
<1>4. Number[h] - 0 + 1 = Number[h] + 1
  BY <1>1
<1> QED BY ONLY <1>2, <1>3, <1>4

(* A reorg that undoes at most Confirmations blocks keeps every block that *)
(* is buried Confirmations deep.                                           *)
LEMMA DeepSurvives ==
  ASSUME NEW t \in Headers, NEW h \in Headers, NEW g \in ChainOf[t],
         Cardinality(ChainOf[t] \ ChainOf[h]) <= Confirmations,
         Number[g] + Confirmations <= Number[t]
  PROVE  g \in ChainOf[h]
<1> SUFFICES ASSUME g \notin ChainOf[h] PROVE FALSE
  OBVIOUS
<1> DEFINE top == {x \in ChainOf[t] : Number[g] <= Number[x]}
           undone == ChainOf[t] \ ChainOf[h]
<1>1. g \in Headers /\ Number[g] \in Nat /\ Number[t] \in Nat /\ Number[g] <= Number[t]
  BY ChainClosed, TreeAssumption
<1>2. IsFiniteSet(top) /\ Cardinality(top) = Number[t] - Number[g] + 1
  BY ONLY <1>1, ChainCounted, t \in Headers
<1>3. ASSUME NEW x \in top, x \in ChainOf[h] PROVE FALSE
  BY <1>3, ChainOrdered, ChainTransitive
<1>4. top \in SUBSET undone
  BY <1>3
<1>5. IsFiniteSet(undone) /\ Cardinality(undone) \in Nat
  BY ChainFinite, FS_Subset, FS_CardinalityType
<1>6. Cardinality(top) <= Cardinality(undone)
  <2> HIDE DEF top, undone
  <2> QED BY <1>4, <1>5, FS_Subset
<1>7. Confirmations \in Nat
  BY TreeAssumption
<1> HIDE DEF top, undone
<1>8. Cardinality(undone) <= Confirmations
  BY DEF undone
<1> QED BY ONLY <1>1, <1>2, <1>5, <1>6, <1>7, <1>8, Number[g] + Confirmations <= Number[t]
-----------------------------------------------------------------------------
(* The state of an EVM chain's runner. *)

(* The facts of the buffer's proofs, for the runner's buffer. *)
BP == INSTANCE ConfirmationBufferProofs WITH pc <- walk

(* The assumptions of the buffer follow from those of the runner. *)
LEMMA BufferAssumptions == BP!ConfirmationsAssumption /\ BP!HeadersAssumption
  BY TreeAssumption DEF BP!ConfirmationsAssumption, BP!HeadersAssumption

BufferInv == BP!ChainInv /\ BP!ConfirmedIsDeep

FeedRecord == [ws : BOOLEAN, last : Int, next : Nat, to : Int, handler : BOOLEAN, queue : Seq(Headers)]

(* Heights that the node's chain has buried `confirmations` deep. *)
Deep(n) == n \in Nat /\ n + Confirmations <= Number[tip]

(* Catch-up stays below safe_tip, whatever the node does meanwhile. *)
ScanInv ==
  /\ scan \in [next : Nat, to : Int]
  /\ scan.next <= scan.to => scan.to + Confirmations <= Number[tip]

(* The feeds ask for heights the node has reached. *)
FeedInv ==
  /\ feed \in FeedRecord
  /\ feed.to <= Number[tip] /\ feed.to >= -1 /\ feed.last >= -1
  /\ \A i \in 1..Len(feed.queue) : Number[feed.queue[i]] <= Number[tip]

(* The head being handled is a block the node had; a walk starts from it. *)
HeadInv ==
  /\ head \in Headers \cup {NoHeader}
  /\ phase \in {"prefetch", "handle", "walk"} => head \in Headers
  /\ head \in Headers => Number[head] <= Number[tip]
  /\ walk = "walk" => phase = "walk" /\ branch # <<>> /\ branch[Len(branch)] = head

Tasks == {"block", "fetched", "tracing", "dispatched"}
Working == Tasks \cup {"logs", "confirmed"}
-----------------------------------------------------------------------------
(* What a step does to the node's head, the scan, and the feeds. *)

(* The steps that change the scan of catch-up or the tip. *)
LEMMA ScanSteps ==
  ASSUME Next
  PROVE  \/ \E h \in Headers : NewTip(h)
         \/ CatchupBegin
         \/ CatchupWindow
         \/ tip' = tip /\ (scan' = scan \/ scan' = NoScan)
<1>1. CASE CatchupBegin \/ CatchupWindow \/ \E h \in Headers : NewTip(h)
  BY <1>1
<1>2. CASE CatchupStep /\ ~CatchupBegin /\ ~CatchupWindow
  BY <1>2 DEF CatchupStep, FetchRange, RangeTooLarge, CatchupDone, CatchupStopped
<1>3. CASE BlockStep
  BY <1>3 DEF BlockStep, FetchLogs, FetchBlockFirst, FetchBlock, Dispatch, TraceBlock, SaveCheckpoint
<1>4. CASE FeedStep
  BY <1>4 DEF FeedStep, PollTip, FetchHead, FeedDone, SubscribeHeads, QueuedHead, LiveStopped, Yield
<1>5. CASE HeadStep
  BY <1>5 DEF HeadStep, PrefetchOne, PrefetchDone, HandleLinked, HandleUnlinked,
              WalkBack, WalkReturns, WalkRaises
<1>6. CASE Start \/ NotifierCleared \/ Cancel \/ Stop \/ Crash
  BY <1>6 DEF Start, NotifierCleared, Cancel, Stop, Crash, FreshRunner
<1>7. CASE Failure
  BY <1>7 DEF Failure, CatchupTipFails, CatchupWindowFails, BlockFails, PollFails,
              FetchHeadFails, HandlerDies, PrefetchFails
<1> QED BY <1>1, <1>2, <1>3, <1>4, <1>5, <1>6, <1>7 DEF Next, Progress

(* The steps that change the feed or the tip. *)
LEMMA FeedSteps ==
  ASSUME Next
  PROVE  \/ \E h \in Headers : NewTip(h)
         \/ /\ tip' = tip
            /\ \/ feed' = feed
               \/ PollTip \/ FetchHead \/ FeedDone \/ SubscribeHeads \/ QueuedHead
               \/ FetchHeadFails \/ HandlerDies
               \/ feed' = NoFeed(feed.ws)
<1>1. CASE \E h \in Headers : NewTip(h)
  BY <1>1
<1>2. CASE CatchupStep
  BY <1>2 DEF CatchupStep, CatchupBegin, CatchupWindow, FetchRange, RangeTooLarge, CatchupDone,
              CatchupStopped
<1>3. CASE BlockStep
  BY <1>3 DEF BlockStep, FetchLogs, FetchBlockFirst, FetchBlock, Dispatch, TraceBlock, SaveCheckpoint
<1>4. CASE FeedStep
  BY <1>4 DEF FeedStep, PollTip, FetchHead, FeedDone, SubscribeHeads, QueuedHead, LiveStopped, Yield
<1>5. CASE HeadStep
  BY <1>5 DEF HeadStep, PrefetchOne, PrefetchDone, HandleLinked, HandleUnlinked,
              WalkBack, WalkReturns, WalkRaises, handling
<1>6. CASE Start \/ NotifierCleared \/ Cancel \/ Stop \/ Crash
  BY <1>6 DEF Start, NotifierCleared, Cancel, Stop, Crash, FreshRunner
<1>7. CASE Failure
  BY <1>7 DEF Failure, CatchupTipFails, CatchupWindowFails, BlockFails, PollFails,
              FetchHeadFails, HandlerDies, PrefetchFails
<1> QED BY <1>1, <1>2, <1>3, <1>4, <1>5, <1>6, <1>7 DEF Next, Progress
-----------------------------------------------------------------------------
(* A head is only ever replaced by a higher one. *)
LEMMA TipGrows ==
  ASSUME tip \in Headers, Next
  PROVE  tip' \in Headers /\ Number[tip] \in Nat /\ Number[tip'] \in Nat /\ Number[tip] <= Number[tip']
<1>1. tip' = tip \/ \E h \in Headers : tip' = h /\ Number[h] > Number[tip]
  BY ScanSteps DEF NewTip, CatchupBegin, CatchupWindow
<1> QED BY <1>1, TreeAssumption

(* ScanInv is inductive: the tip never gets lower. *)
LEMMA ScanPreserved ==
  ASSUME tip \in Headers, cp \in Headers \cup {NoHeader}, ScanInv, Next
  PROVE  ScanInv'
<1>0. Confirmations \in Nat /\ Number[tip] \in Nat /\ LogRange \in Nat \ {0} /\ MaxCatchup \in Nat
  BY TreeAssumption, RunnerAssumption
<1>1. CASE \E h \in Headers : NewTip(h)
  <2>1. scan' = scan /\ Number[tip] <= Number[tip'] /\ Number[tip'] \in Nat
    BY <1>1, TipGrows DEF NewTip
  <2>2. \A a \in Int : a + Confirmations <= Number[tip] => a + Confirmations <= Number[tip']
    BY <1>0, <2>1
  <2> QED BY <2>1, <2>2 DEF ScanInv
<1>2. CASE CatchupBegin
  <2>1. CASE scan' = scan /\ tip' = tip
    BY <2>1 DEF ScanInv
  <2>2. CASE /\ tip' = tip /\ Candidates # {} /\ SafeTip > Min(Candidates)
             /\ scan' = [next |-> ResumeAfter + 1, to |-> SafeTip]
    <3>1. Candidates \in SUBSET Nat
      <4>1. StartBlocks \in SUBSET Nat /\ (cp \in Headers => Number[cp] \in Nat)
        BY RunnerAssumption, TreeAssumption
      <4> QED BY <4>1 DEF Candidates
    <3>2. Min(Candidates) \in Nat
      BY <2>2, <3>1, MinOfNats
    <3>3. SafeTip \in Int /\ SafeTip + Confirmations = Number[tip]
      BY <1>0 DEF SafeTip
    <3>4. ResumeAfter + 1 \in Nat
      BY <1>0, <3>2, <3>3 DEF ResumeAfter
    <3>5. scan' \in [next : Nat, to : Int] /\ scan'.to = SafeTip
      BY <2>2, <3>3, <3>4
    <3>6. SafeTip + Confirmations <= Number[tip']
      BY <2>2, <3>3, <1>0
    <3> QED BY <3>5, <3>6 DEF ScanInv
  <2> QED BY <1>2, <2>1, <2>2 DEF CatchupBegin
<1>3. CASE CatchupWindow
  <2> DEFINE end == Min({scan.next + LogRange - 1, scan.to})
  <2>1. scan.next <= scan.to /\ tip' = tip /\ scan' = [scan EXCEPT !.next = end + 1]
    BY <1>3 DEF CatchupWindow
  <2>2. scan.next \in Nat /\ scan.to \in Nat
    BY <2>1 DEF ScanInv
  <2>3. {scan.next + LogRange - 1, scan.to} \in SUBSET Nat
    BY <1>0, <2>2
  <2>4. end \in Nat
    BY <2>3, MinOfNats
  <2> HIDE DEF end
  <2>5. scan' \in [next : Nat, to : Int] /\ scan'.to = scan.to
    BY <2>1, <2>4 DEF ScanInv
  <2> QED BY <2>1, <2>5 DEF ScanInv
<1>4. CASE tip' = tip /\ (scan' = scan \/ scan' = NoScan)
  BY <1>4 DEF ScanInv, NoScan
<1> QED BY <1>1, <1>2, <1>3, <1>4, ScanSteps

(* newHeads announces headers of the new head's chain, the head last. *)
LEMMA AnnouncedOf ==
  ASSUME tip \in Headers, NEW h \in Headers
  PROVE  LET new == Cardinality(ChainOf[h] \ ChainOf[tip])
         IN  /\ new \in Nat /\ new <= Number[h] + 1
             /\ Announced(h) \in Seq(Headers) /\ Len(Announced(h)) = new
             /\ \A i \in 1..new : /\ Announced(h)[i] \in ChainOf[h]
                                  /\ Number[Announced(h)[i]] = Number[h] - new + i
<1> DEFINE new == Cardinality(ChainOf[h] \ ChainOf[tip])
<1>1. new \in Nat /\ new <= Number[h] + 1
  BY ChainFinite, FS_Subset, FS_CardinalityType
<1>2. Number[h] \in Nat
  BY TreeAssumption
<1>3. Announced(h) = [i \in 1..new |-> BlockAt(h, Number[h] - new + i)]
  BY DEF Announced
<1> HIDE DEF new
<1>4. ASSUME NEW i \in 1..new
      PROVE  /\ BlockAt(h, Number[h] - new + i) \in ChainOf[h]
             /\ BlockAt(h, Number[h] - new + i) \in Headers
             /\ Number[BlockAt(h, Number[h] - new + i)] = Number[h] - new + i
  <2>1. Number[h] - new + i \in Nat /\ Number[h] - new + i <= Number[h]
    BY <1>1, <1>2
  <2> QED BY <2>1, BlockAtHeight
<1>5. Announced(h) \in [1..new -> Headers]
  BY <1>3, <1>4
<1>6. Announced(h) \in Seq(Headers) /\ Len(Announced(h)) = new
  BY <1>1, <1>5
<1>7. \A i \in 1..new : Announced(h)[i] = BlockAt(h, Number[h] - new + i)
  BY <1>3
<1> QED BY <1>1, <1>4, <1>6, <1>7 DEF new

(* What the queue holds after an announcement. *)
LEMMA QueueGrows ==
  ASSUME tip \in Headers, feed \in FeedRecord, NEW h \in Headers
  PROVE  /\ feed.queue \o Announced(h) \in Seq(Headers)
         /\ \A i \in 1..Len(feed.queue \o Announced(h)) :
              \/ i \in 1..Len(feed.queue) /\ (feed.queue \o Announced(h))[i] = feed.queue[i]
              \/ \E j \in 1..Len(Announced(h)) :
                   i = Len(feed.queue) + j /\ (feed.queue \o Announced(h))[i] = Announced(h)[j]
<1> DEFINE q == feed.queue
           a == Announced(h)
<1>1. q \in Seq(Headers) /\ a \in Seq(Headers)
  BY AnnouncedOf DEF FeedRecord
<1> HIDE DEF q, a
<1>2. /\ q \o a \in Seq(Headers) /\ Len(q) \in Nat /\ Len(a) \in Nat
      /\ Len(q \o a) = Len(q) + Len(a)
      /\ \A i \in 1..Len(q \o a) : (q \o a)[i] = IF i <= Len(q) THEN q[i] ELSE a[i - Len(q)]
  BY <1>1
<1>3. ASSUME NEW i \in 1..Len(q \o a)
      PROVE  \/ i \in 1..Len(q) /\ (q \o a)[i] = q[i]
             \/ \E j \in 1..Len(a) : i = Len(q) + j /\ (q \o a)[i] = a[j]
  <2>1. CASE i <= Len(q)
    BY <1>2, <2>1
  <2>2. CASE ~(i <= Len(q))
    <3>1. i - Len(q) \in 1..Len(a) /\ i = Len(q) + (i - Len(q))
      BY <1>2, <2>2
    <3> QED BY <1>2, <2>2, <3>1
  <2> QED BY <2>1, <2>2
<1> QED BY <1>2, <1>3 DEF q, a

(* FeedInv is inductive. *)
LEMMA FeedPreserved ==
  ASSUME tip \in Headers, FeedInv, Next
  PROVE  FeedInv'
<1>0. /\ Number[tip] \in Nat /\ Number[tip'] \in Nat /\ Number[tip] <= Number[tip']
      /\ feed \in FeedRecord /\ feed.queue \in Seq(Headers)
  BY TipGrows DEF FeedInv, FeedRecord
<1>1. ASSUME NEW h \in Headers, NewTip(h) PROVE FeedInv'
  <2>1. tip' = h /\ \A n \in Int : n <= Number[tip] => n <= Number[h]
    BY <1>0, <1>1 DEF NewTip
  <2>2. \A i \in 1..Len(feed.queue) : Number[feed.queue[i]] \in Int
    BY <1>0, TreeAssumption
  <2>3. CASE feed' = feed
    BY <2>1, <2>2, <2>3, <1>0 DEF FeedInv, FeedRecord
  <2>4. CASE feed' = [feed EXCEPT !.queue = @ \o Announced(h)]
    <3> DEFINE q == feed.queue \o Announced(h)
    <3>1. q \in Seq(Headers)
      BY QueueGrows, <1>0
    <3>2. \A j \in 1..Len(Announced(h)) : Number[Announced(h)[j]] <= Number[h]
      <4>1. \A j \in 1..Len(Announced(h)) : Announced(h)[j] \in ChainOf[h]
        BY AnnouncedOf
      <4> QED BY <4>1, ChainBelow, TreeAssumption
    <3>3. \A i \in 1..Len(q) : Number[q[i]] <= Number[h]
      BY <1>0, <2>1, <2>2, <3>2, QueueGrows DEF FeedInv
    <3> HIDE DEF q
    <3>4. feed' = [feed EXCEPT !.queue = q]
      BY <2>4 DEF q
    <3>5. /\ feed' \in FeedRecord /\ feed'.to = feed.to /\ feed'.last = feed.last /\ feed'.queue = q
          /\ feed.to \in Int
      BY <3>1, <3>4, <1>0 DEF FeedRecord
    <3> QED BY <3>3, <3>5, <2>1 DEF FeedInv
  <2> QED BY <1>1, <2>3, <2>4 DEF NewTip
<1>2. CASE tip' = tip /\ feed' = feed
  BY <1>2 DEF FeedInv
<1>3. CASE tip' = tip /\ PollTip
  <2> DEFINE first == IF feed.last >= 0 THEN feed.last + 1 ELSE Number[tip]
             top == Number[tip]
  <2>1. first \in Nat /\ top \in Int
    BY <1>0 DEF FeedRecord
  <2>2. feed' = [feed EXCEPT !.next = first, !.to = top]
    BY <1>3 DEF PollTip
  <2> HIDE DEF first, top
  <2>3. /\ feed' \in FeedRecord /\ feed'.to = top /\ feed'.last = feed.last
        /\ feed'.queue = feed.queue
    BY <1>0, <2>1, <2>2 DEF FeedRecord
  <2> QED BY <1>0, <1>3, <2>3 DEF FeedInv, top
<1>4. CASE tip' = tip /\ (FeedDone \/ FetchHeadFails)
  <2>1. feed' = [feed EXCEPT !.last = feed.to] /\ (feed.next \in Nat)
    BY <1>4 DEF FeedDone, FetchHeadFails, FeedInv, FeedRecord
  <2> QED BY <1>0, <1>4, <2>1 DEF FeedInv, FeedRecord
<1>5. CASE tip' = tip /\ (SubscribeHeads \/ HandlerDies)
  BY <1>0, <1>5 DEF SubscribeHeads, HandlerDies, FeedInv, FeedRecord
<1>6. CASE tip' = tip /\ FetchHead
  BY <1>0, <1>6 DEF FetchHead, FeedInv, FeedRecord
<1>7. CASE tip' = tip /\ QueuedHead
  <2>1. feed' = [feed EXCEPT !.queue = Tail(feed.queue)] /\ feed.queue # <<>>
    BY <1>7 DEF QueuedHead
  <2>2. /\ Tail(feed.queue) \in Seq(Headers)
        /\ \A i \in 1..Len(Tail(feed.queue)) :
             i + 1 \in 1..Len(feed.queue) /\ Tail(feed.queue)[i] = feed.queue[i + 1]
    BY <1>0, <2>1
  <2>3. /\ feed' \in FeedRecord /\ feed'.to = feed.to /\ feed'.last = feed.last
        /\ feed'.queue = Tail(feed.queue)
    BY <1>0, <2>1, <2>2 DEF FeedRecord
  <2> QED BY <1>7, <2>2, <2>3 DEF FeedInv
<1>8. CASE tip' = tip /\ feed' = NoFeed(feed.ws)
  BY <1>0, <1>8 DEF NoFeed, FeedInv, FeedRecord
<1> QED BY <1>1, <1>2, <1>3, <1>4, <1>5, <1>6, <1>7, <1>8, FeedSteps
-----------------------------------------------------------------------------
(* What a step does to the head being handled and to the buffer. *)

(* The steps that change the head in hand or the buffer. *)
LEMMA HeadSteps ==
  ASSUME Next
  PROVE  \/ \E h \in Headers : NewTip(h)
         \/ FetchHead \/ QueuedHead \/ HandleLinked \/ HandleUnlinked
         \/ WalkBack \/ WalkReturns \/ WalkRaises \/ Cancel \/ Crash
         \/ /\ UNCHANGED <<tip, head, bufferVars>>
            /\ \/ phase' = phase
               \/ /\ phase # "walk" /\ phase' # "walk"
                  /\ phase' \in {"prefetch", "handle"} => phase = "prefetch"
<1>1. CASE \E h \in Headers : NewTip(h)
  BY <1>1
<1>2. CASE CatchupStep
  BY <1>2 DEF CatchupStep, CatchupBegin, CatchupWindow, FetchRange, RangeTooLarge, CatchupDone,
              CatchupStopped, handling
<1>3. CASE BlockStep
  <2>1. CASE FetchLogs \/ FetchBlockFirst \/ FetchBlock \/ Dispatch \/ TraceBlock
    BY <2>1 DEF FetchLogs, FetchBlockFirst, FetchBlock, Dispatch, TraceBlock, handling
  <2>2. CASE SaveCheckpoint
    BY <2>2 DEF SaveCheckpoint, AfterBlock, handling
  <2> QED BY <1>3, <2>1, <2>2 DEF BlockStep
<1>4. CASE FeedStep
  BY <1>4 DEF FeedStep, PollTip, FeedDone, SubscribeHeads, LiveStopped, handling
<1>5. CASE HeadStep
  BY <1>5 DEF HeadStep, PrefetchOne, PrefetchDone, handling
<1>6. CASE Start \/ NotifierCleared \/ Cancel \/ Stop \/ Crash
  BY <1>6 DEF Start, NotifierCleared, Stop, handling
<1>7. CASE Failure
  BY <1>7 DEF Failure, CatchupTipFails, CatchupWindowFails, BlockFails, PollFails,
              FetchHeadFails, HandlerDies, PrefetchFails, handling
<1> QED BY <1>1, <1>2, <1>3, <1>4, <1>5, <1>6, <1>7 DEF Next, Progress

(* The runner's steps on its buffer are the buffer's own. *)
LEMMA BufferSteps ==
  ASSUME HeadInv, Next
  PROVE  [BP!Next]_(BP!vars) \/ BP!Init'
<1> USE DEF BP!vars, bufferVars
<1>1. CASE HandleLinked
  <2>1. head \in Headers /\ Buffer!AppendHead(head)
    BY <1>1 DEF HandleLinked, HeadInv
  <2>2. BP!AppendHead(head)
    BY <2>1 DEF Buffer!AppendHead, BP!AppendHead, Buffer!Links, BP!Links, Buffer!Last, BP!Last,
                Buffer!Return, BP!Return, Buffer!DrainCount, BP!DrainCount, Buffer!Depth, BP!Depth
  <2> QED BY <2>1, <2>2 DEF BP!Next
<1>2. CASE HandleUnlinked
  <2>1. head \in Headers /\ Buffer!StartWalk(head)
    BY <1>2 DEF HandleUnlinked, HeadInv
  <2>2. BP!StartWalk(head)
    BY <2>1 DEF Buffer!StartWalk, BP!StartWalk, Buffer!Links, BP!Links, Buffer!Last, BP!Last
  <2> QED BY <2>1, <2>2 DEF BP!Next
<1>3. CASE WalkBack
  <2>1. BP!StepBack
    BY <1>3 DEF WalkBack, Buffer!StepBack, BP!StepBack, Buffer!AncestorMissing, BP!AncestorMissing,
                Buffer!Walking, BP!Walking, Buffer!MaxWalk, BP!MaxWalk
  <2> QED BY <2>1 DEF BP!Next, BP!Walk
<1>4. CASE WalkReturns
  <2>1. CASE Buffer!Rewind
    <3>1. BP!Rewind
      BY <2>1 DEF Buffer!Rewind, BP!Rewind, Buffer!Walking, BP!Walking, Buffer!MaxWalk, BP!MaxWalk,
                  Buffer!Return, BP!Return, Buffer!DrainCount, BP!DrainCount, Buffer!Depth, BP!Depth,
                  Buffer!Last, BP!Last
    <3> QED BY <3>1 DEF BP!Next, BP!Walk
  <2>2. CASE Buffer!DeepReorg
    <3>1. BP!DeepReorg
      BY <2>2 DEF Buffer!DeepReorg, BP!DeepReorg, Buffer!MaxWalk, BP!MaxWalk, Buffer!Last, BP!Last,
                  Buffer!Return, BP!Return, Buffer!DrainCount, BP!DrainCount, Buffer!Depth, BP!Depth
    <3> QED BY <3>1 DEF BP!Next, BP!Walk
  <2> QED BY <1>4, <2>1, <2>2 DEF WalkReturns
<1>5. CASE WalkRaises
  <2>1. BP!ResolveRaises
    BY <1>5 DEF WalkRaises, Buffer!ResolveRaises, BP!ResolveRaises, Buffer!AncestorMissing,
                BP!AncestorMissing, Buffer!Walking, BP!Walking, Buffer!MaxWalk, BP!MaxWalk
  <2> QED BY <2>1 DEF BP!Next, BP!Walk
<1>6. CASE Cancel \/ Crash
  BY <1>6 DEF Cancel, Crash, FreshRunner, FreshBuffer, BP!Init
<1>7. CASE FetchHead \/ QueuedHead \/ \E h \in Headers : NewTip(h)
  BY <1>7 DEF FetchHead, QueuedHead, Yield, NewTip
<1> QED BY <1>1, <1>2, <1>3, <1>4, <1>5, <1>6, <1>7, HeadSteps

(* The buffer's invariant holds inside the runner. *)
LEMMA BufferPreserved ==
  ASSUME HeadInv, BufferInv, Next
  PROVE  BufferInv'
<1>1. CASE [BP!Next]_(BP!vars)
  BY <1>1, BP!NextChain, BufferAssumptions DEF BufferInv
<1>2. CASE BP!Init'
  <2>1. /\ buf' = <<>> /\ walk' = "idle" /\ branch' = <<>>
        /\ confirmed' = <<>> /\ outcome' = "none" /\ log' = <<>>
    BY <1>2 DEF BP!Init
  <2>2. BP!IsChain(<<>>)
    BY BP!EmptyChain, BufferAssumptions
  <2>3. Len(<<>>) = 0 /\ DOMAIN <<>> = {} /\ <<>> \in Seq(Headers)
    OBVIOUS
  <2>4. BP!TypeOK'
    BY <2>1, <2>3 DEF BP!TypeOK, BP!Outcomes
  <2>5. BP!ChainInv'
    BY <2>1, <2>2, <2>3, <2>4, TreeAssumption
       DEF BP!ChainInv, BP!IsChain, BP!Linked, BP!Consecutive, BP!Follows
  <2>6. BP!ConfirmedIsDeep'
    BY <2>1, <2>3 DEF BP!ConfirmedIsDeep
  <2> QED BY <2>5, <2>6 DEF BufferInv
<1> QED BY <1>1, <1>2, BufferSteps

(* HeadInv is inductive. *)
LEMMA HeadPreserved ==
  ASSUME tip \in Headers, FeedInv, HeadInv, BufferInv, Next
  PROVE  HeadInv'
<1>0. /\ Number[tip] \in Nat /\ Number[tip'] \in Nat /\ Number[tip] <= Number[tip'] /\ tip' \in Headers
      /\ feed \in FeedRecord /\ NoHeader \notin Headers
      /\ \A h \in Headers : Number[h] <= Number[tip] => Number[h] <= Number[tip']
  BY TipGrows, TreeAssumption, RunnerAssumption DEF FeedInv
<1>1. CASE \E h \in Headers : NewTip(h)
  <2>1. UNCHANGED <<head, phase, walk, branch>>
    BY <1>1 DEF NewTip, handling, bufferVars
  <2> QED BY <1>0, <2>1 DEF HeadInv
<1>2. ASSUME NEW h \in Headers, Number[h] <= Number[tip], Yield(h), phase = "feed" PROVE HeadInv'
  <2>1. head' = h /\ UNCHANGED <<tip, walk, branch>> /\ walk # "walk"
    BY <1>2 DEF Yield, bufferVars, HeadInv
  <2> QED BY <1>2, <2>1 DEF HeadInv
<1>3. CASE FetchHead
  <2>1. feed.next \in Nat /\ feed.next <= Number[tip] /\ phase = "feed"
    BY <1>0, <1>3 DEF FetchHead, FeedInv, FeedRecord
  <2>2. BlockAt(tip, feed.next) \in Headers /\ Number[BlockAt(tip, feed.next)] <= Number[tip]
    BY <2>1, BlockAtHeight
  <2> QED BY <2>1, <2>2, <1>2, <1>3 DEF FetchHead
<1>4. CASE QueuedHead
  <2>1. feed.queue \in Seq(Headers) /\ feed.queue # <<>> /\ phase = "feed"
    BY <1>0, <1>4 DEF QueuedHead, FeedRecord
  <2>2. 1 \in 1..Len(feed.queue) /\ Head(feed.queue) = feed.queue[1] /\ feed.queue[1] \in Headers
    BY <2>1
  <2> QED BY <2>1, <2>2, <1>2, <1>4 DEF QueuedHead, FeedInv
<1>5. CASE HandleUnlinked
  <2>1. UNCHANGED <<tip, head>> /\ phase = "handle" /\ phase' = "walk" /\ branch' = <<head>> /\ walk' = "walk"
    BY <1>5 DEF HandleUnlinked, Buffer!StartWalk, handling
  <2> QED BY <2>1 DEF HeadInv
<1>6. CASE WalkBack
  <2> DEFINE p == Parent[Head(branch)]
  <2>1. /\ UNCHANGED <<tip, head, phase>> /\ phase = "walk" /\ walk = "walk" /\ p \in Headers
        /\ branch' = <<p>> \o branch
    BY <1>6 DEF WalkBack, Buffer!StepBack, Buffer!AncestorMissing, Buffer!Walking, handling
  <2>2. branch \in Seq(Headers) /\ branch # <<>> /\ branch[Len(branch)] = head
    BY <2>1 DEF HeadInv, BufferInv, BP!ChainInv, BP!TypeOK
  <2> HIDE DEF p
  <2>3. \A q \in Headers : LET b == <<q>> \o branch IN b # <<>> /\ b[Len(b)] = branch[Len(branch)]
    BY <2>2
  <2> QED BY <2>1, <2>2, <2>3 DEF HeadInv
<1>7. CASE HandleLinked \/ WalkReturns
  <2>1. UNCHANGED <<tip, head>> /\ walk' = "idle"
    BY <1>7 DEF HandleLinked, WalkReturns, Buffer!AppendHead, Buffer!Rewind, Buffer!DeepReorg, Buffer!Return
  <2>2. phase' \notin {"prefetch", "handle", "walk"}
    BY <1>7 DEF HandleLinked, WalkReturns, HeadAccepted
  <2> QED BY <2>1, <2>2 DEF HeadInv
<1>8. CASE WalkRaises
  BY <1>8 DEF WalkRaises, Buffer!ResolveRaises, handling, HeadInv
<1>9. CASE Cancel \/ Crash
  BY <1>9, <1>0 DEF Cancel, Crash, FreshRunner, FreshBuffer, HeadInv
<1>10. CASE /\ UNCHANGED <<tip, head, bufferVars>>
            /\ \/ phase' = phase
               \/ /\ phase # "walk" /\ phase' # "walk"
                  /\ phase' \in {"prefetch", "handle"} => phase = "prefetch"
  BY <1>10 DEF HeadInv, bufferVars
<1> QED BY <1>1, <1>3, <1>4, <1>5, <1>6, <1>7, <1>8, <1>9, <1>10, HeadSteps

(* A call of handle_new_head that returns: s is the window before the      *)
(* drain; it ends with the head, and its first k headers are confirmed.    *)
LEMMA Accepts ==
  ASSUME HeadInv, BufferInv, HandleLinked \/ WalkReturns
  PROVE  \E s, k :
           /\ BP!IsChain(s) /\ s # <<>> /\ s[Len(s)] = head /\ head \in Headers
           /\ s = <<head>> \/ (buf # <<>> /\ s[1] = buf[1])
           /\ k \in 0..Len(s) /\ \A i \in 1..k : Number[s[i]] + Confirmations <= Number[head]
           /\ confirmed' = SubSeq(s, 1, k) /\ buf' = SubSeq(s, k + 1, Len(s))
           /\ log' = confirmed' \/ log' = log \o confirmed'
<1> USE BufferAssumptions
<1>1. /\ buf \in Seq(Headers) /\ log \in Seq(Headers) /\ branch \in Seq(Headers)
      /\ BP!IsChain(buf) /\ BP!IsChain(branch)
  BY DEF BufferInv, BP!ChainInv, BP!TypeOK
<1>2. head \in Headers
  BY DEF HeadInv, HandleLinked, WalkReturns
<1>3. ASSUME NEW s, NEW how, NEW history, BP!IsChain(s), s # <<>>, s[Len(s)] = head,
             s = <<head>> \/ (buf # <<>> /\ s[1] = buf[1]),
             Buffer!Return(s, how, history), history = <<>> \/ history = log
      PROVE  \E t, k :
           /\ BP!IsChain(t) /\ t # <<>> /\ t[Len(t)] = head /\ head \in Headers
           /\ t = <<head>> \/ (buf # <<>> /\ t[1] = buf[1])
           /\ k \in 0..Len(t) /\ \A i \in 1..k : Number[t[i]] + Confirmations <= Number[head]
           /\ confirmed' = SubSeq(t, 1, k) /\ buf' = SubSeq(t, k + 1, Len(t))
           /\ log' = confirmed' \/ log' = log \o confirmed'
  <2> DEFINE k == BP!DrainCount(s)
  <2>1. k \in 0..Len(s) /\ \A i \in 1..k : BP!Depth(s, i) >= Confirmations
    <3>1. /\ k \in 0..Len(s)
          /\ \A i \in 1..Len(s) : i <= k <=> BP!Depth(s, i) >= Confirmations
      BY <1>3, BP!DrainCountOfChain
    <3>2. Len(s) \in Nat
      BY <1>3 DEF BP!IsChain
    <3> HIDE DEF k
    <3>3. \A i \in 1..k : i \in 1..Len(s) /\ i <= k
      BY <3>1, <3>2
    <3> QED BY <3>1, <3>3
  <2>2. /\ confirmed' = SubSeq(s, 1, k) /\ buf' = SubSeq(s, k + 1, Len(s))
        /\ log' = history \o SubSeq(s, 1, k)
    <3>1. k = Buffer!DrainCount(s)
      BY DEF Buffer!DrainCount, BP!DrainCount, Buffer!Depth, BP!Depth, Buffer!Last, BP!Last
    <3> HIDE DEF k
    <3> QED BY <1>3, <3>1 DEF Buffer!Return
  <2>3. s \in Seq(Headers) /\ Len(s) \in Nat
    BY <1>3 DEF BP!IsChain
  <2> HIDE DEF k
  <2>4. \A i \in 1..k : Number[s[i]] + Confirmations <= Number[head]
    <3> SUFFICES ASSUME NEW i \in 1..k PROVE Number[s[i]] + Confirmations <= Number[head]
      OBVIOUS
    <3>1. s[i] \in Headers /\ Number[s[i]] \in Nat /\ Number[head] \in Nat /\ Confirmations \in Nat
      BY <1>2, <2>1, <2>3, TreeAssumption
    <3>2. Number[head] - Number[s[i]] >= Confirmations
      BY <1>3, <2>1 DEF BP!Depth, BP!Last
    <3> QED BY ONLY <3>1, <3>2
  <2>5. <<>> \o SubSeq(s, 1, k) = SubSeq(s, 1, k)
    BY <2>1, <2>3
  <2> QED BY <1>2, <1>3, <2>1, <2>2, <2>4, <2>5
<1>4. CASE HandleLinked
  <2>1. /\ buf # <<>> => buf[Len(buf)] = Parent[head]
        /\ Buffer!Return(Append(buf, head), "linked", IF buf = <<>> THEN <<>> ELSE log)
    BY <1>4 DEF HandleLinked, Buffer!AppendHead, Buffer!Links, Buffer!Last
  <2>2. /\ Append(buf, head) = buf \o <<head>> /\ Append(buf, head) # <<>>
        /\ Append(buf, head)[Len(Append(buf, head))] = head
        /\ Append(buf, head) = <<head>> \/ (buf # <<>> /\ Append(buf, head)[1] = buf[1])
        /\ <<head>>[1] = head
    <3>1. buf \in Seq(Headers) /\ head \in Headers
      BY <1>1, <1>2
    <3>2. /\ Append(buf, head) = buf \o <<head>> /\ Append(buf, head) # <<>>
          /\ Append(buf, head)[Len(Append(buf, head))] = head /\ <<head>>[1] = head
      BY ONLY <3>1
    <3>3. CASE buf = <<>>
      BY ONLY <3>1, <3>2, <3>3
    <3>4. CASE buf # <<>>
      BY ONLY <3>1, <3>2, <3>4
    <3> QED BY <3>2, <3>3, <3>4
  <2>3. BP!IsChain(<<head>>)
    BY <1>2, BP!SingletonChain
  <2>4. BP!Follows(buf, <<head>>)
    BY <2>1, <2>2 DEF BP!Follows, BP!Last
  <2>5. BP!IsChain(buf \o <<head>>)
    BY <1>1, <2>3, <2>4, BP!ConcatChain
  <2> QED BY <1>3, <2>1, <2>2, <2>5
<1>5. CASE WalkReturns /\ Buffer!Rewind
  <2>1. PICK i \in DOMAIN buf : /\ buf[i] = Parent[Head(branch)]
                                /\ Buffer!Return(SubSeq(buf, 1, i) \o branch, "reorg", log)
    BY <1>5 DEF Buffer!Rewind
  <2>2. walk = "walk" /\ branch # <<>> /\ branch[Len(branch)] = head /\ branch[1] = Head(branch)
    BY <1>1, <1>5 DEF Buffer!Rewind, Buffer!Walking, HeadInv
  <2> DEFINE p == SubSeq(buf, 1, i)
  <2>3. i \in 1..Len(buf) /\ Len(buf) \in Nat /\ 1 \in Nat \ {0} /\ i \in Nat /\ i <= Len(buf)
    BY <1>1
  <2>4. BP!IsChain(p)
    BY <1>1, <2>3, BP!SubSeqChain
  <2>5. p \in Seq(Headers) /\ Len(p) = i /\ p[Len(p)] = buf[i] /\ p[1] = buf[1] /\ buf # <<>> /\ p # <<>>
    BY <1>1, <2>3
  <2>6. BP!Follows(p, branch)
    BY <2>1, <2>2, <2>5 DEF BP!Follows, BP!Last
  <2> HIDE DEF p
  <2>7. BP!IsChain(p \o branch)
    BY <1>1, <2>4, <2>6, BP!ConcatChain
  <2>8. p \o branch # <<>> /\ (p \o branch)[Len(p \o branch)] = branch[Len(branch)] /\ (p \o branch)[1] = p[1]
    BY <1>1, <2>2, <2>5
  <2> QED BY <1>3, <2>1, <2>2, <2>5, <2>7, <2>8 DEF p
<1>6. CASE WalkReturns /\ Buffer!DeepReorg
  <2>1. walk = "walk" /\ Buffer!Return(<<Buffer!Last(branch)>>, "deep", <<>>)
    BY <1>6 DEF Buffer!DeepReorg
  <2>2. Buffer!Last(branch) = head
    BY <2>1 DEF HeadInv, Buffer!Last
  <2>3. <<head>> # <<>> /\ <<head>>[Len(<<head>>)] = head
    BY <1>2
  <2>4. BP!IsChain(<<head>>)
    BY <1>2, BP!SingletonChain
  <2> QED BY <1>3, <2>1, <2>2, <2>3, <2>4
<1> QED BY <1>4, <1>5, <1>6 DEF WalkReturns
-----------------------------------------------------------------------------
(* The blocks being processed. *)

JobRecord == [mode : {"catchup", "live"}, todo : SUBSET Nat, ranges : Seq(Nat \X Nat),
              logs : UNION {[S -> Headers] : S \in SUBSET Nat}, block : Headers \cup {NoHeader}]

(* Every height in hand is buried deep, and was when its logs were read. *)
DepthInv ==
  /\ job \in JobRecord
  /\ \A n \in job.todo : Deep(n)
  /\ \A i \in 1..Len(job.ranges) : job.ranges[i][2] + Confirmations <= Number[tip]
  /\ \A n \in DOMAIN job.logs : Deep(n) /\ n + Confirmations <= Number[job.logs[n]]

(* Where the task is decides what it has in hand; the logs of the height   *)
(* being processed were read.                                              *)
TaskInv ==
  /\ phase \in Working <=> job.todo # {}
  /\ phase = "logs" =>
       /\ job.mode = "catchup" /\ job.ranges # <<>>
       /\ \A n \in job.todo :
            n \in DOMAIN job.logs \/ \E i \in 1..Len(job.ranges) : n \in job.ranges[i][1]..job.ranges[i][2]
  /\ phase = "confirmed" => job.mode = "live"
  /\ (phase = "confirmed" /\ job.block # NoHeader) =>
       job.block \in Headers /\ Number[job.block] = Current
  /\ phase \in Tasks => /\ Current \in DOMAIN job.logs
                        /\ job.mode = "catchup" => job.todo \subseteq DOMAIN job.logs
  /\ phase \in {"fetched", "tracing", "dispatched"} =>
       job.block \in Headers /\ Number[job.block] = Current

(* The steps that change the work in hand, the checkpoint or what is *)
(* delivered.                                                        *)
LEMMA JobSteps ==
  ASSUME Next
  PROVE  \/ \E h \in Headers : NewTip(h)
         \/ CatchupWindow \/ FetchRange \/ RangeTooLarge \/ FetchLogs \/ FetchBlockFirst \/ FetchBlock
         \/ Dispatch \/ TraceBlock \/ SaveCheckpoint \/ HandleLinked \/ WalkReturns
         \/ /\ UNCHANGED <<tip, cp, delivered>>
            /\ \/ UNCHANGED <<job, phase>>
               \/ job' = NoJob /\ phase' \notin Working
               \/ job' = job /\ phase \notin Working /\ phase' \notin Working
<1> USE DEF Working, Tasks
<1>1. CASE \E h \in Headers : NewTip(h)
  BY <1>1
<1>2. CASE CatchupStep
  BY <1>2 DEF CatchupStep, CatchupBegin, CatchupDone, CatchupStopped, handling
<1>3. CASE BlockStep
  BY <1>3 DEF BlockStep
<1>4. CASE FeedStep
  BY <1>4 DEF FeedStep, PollTip, FetchHead, FeedDone, SubscribeHeads, QueuedHead, LiveStopped, Yield
<1>5. CASE HeadStep
  BY <1>5 DEF HeadStep, PrefetchOne, PrefetchDone, HandleUnlinked, WalkBack, WalkRaises
<1>6. CASE Start \/ NotifierCleared \/ Cancel \/ Stop \/ Crash
  BY <1>6 DEF Start, NotifierCleared, Cancel, Stop, Crash, FreshRunner
<1>7. CASE Failure
  BY <1>7 DEF Failure, CatchupTipFails, CatchupWindowFails, BlockFails, PollFails,
              FetchHeadFails, HandlerDies, PrefetchFails
<1> QED BY <1>1, <1>2, <1>3, <1>4, <1>5, <1>6, <1>7 DEF Next, Progress

(* An empty job. *)
LEMMA NoJobFields ==
  /\ NoJob \in JobRecord /\ NoJob.todo = {} /\ NoJob.ranges = <<>> /\ NoJob.mode = "live"
  /\ DOMAIN NoJob.logs = {} /\ NoJob.block = NoHeader
<1>1. <<>> \in [{} -> Headers] /\ <<>> \in Seq(Nat \X Nat)
  OBVIOUS
<1>2. <<>> \in UNION {[S -> Headers] : S \in SUBSET Nat}
  BY <1>1
<1> QED BY <1>1, <1>2 DEF NoJob, JobRecord

(* What the updates of a job change. *)
LEMMA JobUpdates ==
  ASSUME NEW j \in JobRecord
  PROVE  /\ \A b \in Headers \cup {NoHeader} :
              LET k == [j EXCEPT !.block = b]
              IN  /\ k \in JobRecord /\ k.mode = j.mode /\ k.todo = j.todo
                  /\ k.ranges = j.ranges /\ k.logs = j.logs /\ k.block = b
         /\ \A t \in SUBSET Nat :
              LET k == [j EXCEPT !.todo = t]
              IN  /\ k \in JobRecord /\ k.mode = j.mode /\ k.todo = t
                  /\ k.ranges = j.ranges /\ k.logs = j.logs /\ k.block = j.block
         /\ \A r \in Seq(Nat \X Nat) :
              LET k == [j EXCEPT !.ranges = r]
              IN  /\ k \in JobRecord /\ k.mode = j.mode /\ k.todo = j.todo
                  /\ k.ranges = r /\ k.logs = j.logs /\ k.block = j.block
         /\ \A S \in SUBSET Nat : \A l \in [S -> Headers] :
              LET k == [j EXCEPT !.logs = l]
              IN  /\ k \in JobRecord /\ k.mode = j.mode /\ k.todo = j.todo
                  /\ k.ranges = j.ranges /\ k.logs = l /\ k.block = j.block
<1>1. ASSUME NEW b \in Headers \cup {NoHeader}
      PROVE  LET k == [j EXCEPT !.block = b]
             IN  /\ k \in JobRecord /\ k.mode = j.mode /\ k.todo = j.todo
                 /\ k.ranges = j.ranges /\ k.logs = j.logs /\ k.block = b
  BY DEF JobRecord
<1>2. ASSUME NEW t \in SUBSET Nat
      PROVE  LET k == [j EXCEPT !.todo = t]
             IN  /\ k \in JobRecord /\ k.mode = j.mode /\ k.todo = t
                 /\ k.ranges = j.ranges /\ k.logs = j.logs /\ k.block = j.block
  BY DEF JobRecord
<1>3. ASSUME NEW r \in Seq(Nat \X Nat)
      PROVE  LET k == [j EXCEPT !.ranges = r]
             IN  /\ k \in JobRecord /\ k.mode = j.mode /\ k.todo = j.todo
                 /\ k.ranges = r /\ k.logs = j.logs /\ k.block = j.block
  BY DEF JobRecord
<1>4. ASSUME NEW S \in SUBSET Nat, NEW l \in [S -> Headers]
      PROVE  LET k == [j EXCEPT !.logs = l]
             IN  /\ k \in JobRecord /\ k.mode = j.mode /\ k.todo = j.todo
                 /\ k.ranges = j.ranges /\ k.logs = l /\ k.block = j.block
  <2>1. l \in UNION {[U -> Headers] : U \in SUBSET Nat}
    OBVIOUS
  <2> QED BY <2>1 DEF JobRecord
<1> QED BY <1>1, <1>2, <1>3, <1>4

(* The types of a job, field by field. *)
LEMMA JobFields ==
  ASSUME NEW j \in JobRecord
  PROVE  /\ j.todo \in SUBSET Nat /\ j.ranges \in Seq(Nat \X Nat) /\ j.mode \in {"catchup", "live"}
         /\ j.block \in Headers \cup {NoHeader}
         /\ DOMAIN j.logs \in SUBSET Nat /\ \A n \in DOMAIN j.logs : j.logs[n] \in Headers
<1>1. j.logs \in UNION {[S -> Headers] : S \in SUBSET Nat}
  BY DEF JobRecord
<1>2. PICK S \in SUBSET Nat : j.logs \in [S -> Headers]
  BY <1>1
<1>3. DOMAIN j.logs = S /\ \A n \in S : j.logs[n] \in Headers
  BY <1>2
<1> QED BY <1>3 DEF JobRecord

(* The window that catch-up takes next. *)
LEMMA WindowTaken ==
  ASSUME ScanInv, CatchupWindow
  PROVE  \E first, end \in Nat :
           /\ first <= end /\ end <= scan.to /\ scan.to + Confirmations <= Number[tip]
           /\ job' \in JobRecord /\ job'.mode = "catchup" /\ job'.todo = first..end
           /\ job'.ranges = <<<<first, end>>>> /\ DOMAIN job'.logs = {}
<1> DEFINE first == scan.next
           end == Min({scan.next + LogRange - 1, scan.to})
<1>1. /\ first <= scan.to /\ scan.to + Confirmations <= Number[tip]
      /\ job' = [NoJob EXCEPT !.mode = "catchup", !.todo = first..end, !.ranges = <<<<first, end>>>>]
      /\ first \in Nat /\ scan.to \in Int
  BY DEF CatchupWindow, ScanInv
<1>2. /\ {first + LogRange - 1, scan.to} \in SUBSET Nat
      /\ first <= first + LogRange - 1
  BY <1>1, RunnerAssumption
<1>3. end \in {first + LogRange - 1, scan.to} /\ end <= scan.to
  BY <1>2, MinOfNats
<1>4. end \in Nat /\ first <= end
  BY <1>1, <1>2, <1>3
<1> HIDE DEF first, end
<1>5. first..end \in SUBSET Nat /\ <<<<first, end>>>> \in Seq(Nat \X Nat)
  BY <1>1, <1>4
<1>6. /\ job' \in JobRecord /\ job'.mode = "catchup" /\ job'.todo = first..end
      /\ job'.ranges = <<<<first, end>>>> /\ job'.logs = NoJob.logs
  <2> DEFINE t == first..end
             r == <<<<first, end>>>>
  <2>1. job' = [NoJob EXCEPT !.mode = "catchup", !.todo = t, !.ranges = r]
    BY <1>1
  <2>2. t \in SUBSET Nat /\ r \in Seq(Nat \X Nat) /\ NoJob \in JobRecord
    BY <1>5, NoJobFields
  <2> HIDE DEF t, r
  <2>3. /\ job' \in JobRecord /\ job'.mode = "catchup" /\ job'.todo = t /\ job'.ranges = r
        /\ job'.logs = NoJob.logs
    BY <2>1, <2>2 DEF JobRecord
  <2> QED BY <2>3 DEF t, r
<1> QED BY <1>1, <1>3, <1>4, <1>6, NoJobFields

(* The logs of the first range are read at the node's present head. *)
LEMMA RangeFetched ==
  ASSUME tip \in Headers, job \in JobRecord, job.ranges # <<>>, FetchRange
  PROVE  LET r == job.ranges[1]
         IN  /\ r[1] \in Nat /\ r[2] \in Nat
             /\ job' \in JobRecord /\ job'.mode = job.mode /\ job'.todo = job.todo
             /\ job'.ranges = Tail(job.ranges)
             /\ DOMAIN job'.logs = DOMAIN job.logs \cup (r[1]..r[2])
             /\ \A n \in DOMAIN job'.logs :
                  job'.logs[n] = IF n \in r[1]..r[2] THEN tip ELSE job.logs[n]
<1> DEFINE r == job.ranges[1]
           read == r[1]..r[2]
           S == DOMAIN job.logs \cup read
           l == [n \in S |-> IF n \in read THEN tip ELSE job.logs[n]]
           rest == Tail(job.ranges)
<1>0. /\ job.ranges \in Seq(Nat \X Nat) /\ DOMAIN job.logs \in SUBSET Nat
      /\ \A n \in DOMAIN job.logs : job.logs[n] \in Headers
  BY JobFields
<1>1. r \in Nat \X Nat /\ Head(job.ranges) = r /\ rest \in Seq(Nat \X Nat)
  BY <1>0
<1>2. r[1] \in Nat /\ r[2] \in Nat
  BY <1>1
<1>3. S \in SUBSET Nat
  BY <1>0, <1>2
<1>4. l \in [S -> Headers]
  BY <1>0
<1>5. job' = [job EXCEPT !.ranges = rest, !.logs = l]
  BY <1>1 DEF FetchRange
<1>6. l \in UNION {[U -> Headers] : U \in SUBSET Nat}
  BY <1>3, <1>4
<1>7. DOMAIN l = S /\ \A n \in S : l[n] = IF n \in read THEN tip ELSE job.logs[n]
  OBVIOUS
<1> HIDE DEF l, rest
<1>8. /\ job' \in JobRecord /\ job'.mode = job.mode /\ job'.todo = job.todo
      /\ job'.ranges = rest /\ job'.logs = l
  BY <1>1, <1>5, <1>6 DEF JobRecord
<1> QED BY <1>2, <1>7, <1>8 DEF rest

(* A refused range is split into two that cover it. *)
LEMMA HalvesCover ==
  ASSUME NEW Q \in Seq(Nat \X Nat), Q # <<>>, Q[1][1] < Q[1][2]
  PROVE  LET q == Halves(Q[1]) \o Tail(Q)
         IN  /\ q \in Seq(Nat \X Nat) /\ q # <<>>
             /\ \A i \in 1..Len(q) : \E j \in 1..Len(Q) :
                  q[i][2] \in Nat /\ Q[j][2] \in Nat /\ q[i][2] <= Q[j][2]
             /\ \A j \in 1..Len(Q) : \A n \in Q[j][1]..Q[j][2] :
                  \E i \in 1..Len(q) : n \in q[i][1]..q[i][2]
<1> DEFINE a == Q[1][1]
           b == Q[1][2]
           mid == (a + b) \div 2
           H == <<<<a, mid>>, <<mid + 1, b>>>>
           T == Tail(Q)
           q == H \o T
           L == Len(Q)
<1>1. L \in Nat \ {0} /\ Q[1] \in Nat \X Nat
  OBVIOUS
<1>2. a \in Nat /\ b \in Nat /\ a < b
  BY <1>1
<1>3. T \in Seq(Nat \X Nat) /\ Len(T) = L - 1 /\ \A i \in 1..(L - 1) : T[i] = Q[i + 1]
  OBVIOUS
<1>4. Halves(Q[1]) = H
  BY DEF Halves
<1> HIDE DEF a, b
<1>5. mid \in Nat /\ a <= mid /\ mid + 1 <= b
  BY <1>2
<1> HIDE DEF mid, T, L
<1>6. H \in Seq(Nat \X Nat) /\ Len(H) = 2 /\ H[1] = <<a, mid>> /\ H[2] = <<mid + 1, b>>
  <2>0. a \in Nat /\ mid \in Nat /\ mid + 1 \in Nat /\ b \in Nat
    BY ONLY <1>2, <1>5
  <2>1. <<a, mid>> \in Nat \X Nat /\ <<mid + 1, b>> \in Nat \X Nat
    BY ONLY <2>0
  <2> DEFINE x == <<a, mid>>
             y == <<mid + 1, b>>
             P == Nat \X Nat
  <2>2. H = <<x, y>> /\ x \in P /\ y \in P
    BY <2>1
  <2> HIDE DEF x, y, P, H
  <2>3. H \in Seq(P) /\ Len(H) = 2 /\ H[1] = x /\ H[2] = y
    BY ONLY <2>2
  <2> QED BY <2>3 DEF x, y, P
<1> HIDE DEF H
<1>7. /\ q \in Seq(Nat \X Nat) /\ Len(q) = 2 + (L - 1)
      /\ \A i \in 1..Len(q) : q[i] = IF i <= 2 THEN H[i] ELSE T[i - 2]
  <2> DEFINE P == Nat \X Nat
  <2>1. H \in Seq(P) /\ T \in Seq(P)
    BY <1>3, <1>6
  <2> HIDE DEF P
  <2>2. /\ q \in Seq(P) /\ Len(q) = Len(H) + Len(T)
        /\ \A i \in 1..Len(H) + Len(T) : q[i] = IF i <= Len(H) THEN H[i] ELSE T[i - Len(H)]
    BY <2>1, ConcatProperties
  <2> QED BY <1>3, <1>6, <2>2 DEF P
<1> HIDE DEF q
<1>8. Len(q) = L + 1 /\ q # <<>> /\ 1 \in 1..Len(q) /\ 2 \in 1..Len(q)
  BY <1>1, <1>7
<1>9. q[1] = <<a, mid>> /\ q[2] = <<mid + 1, b>>
  <2>1. q[1] = H[1] /\ q[2] = H[2]
    BY <1>7, <1>8
  <2> QED BY <1>6, <2>1
<1>10. ASSUME NEW j \in 2..L PROVE j + 1 \in 1..Len(q) /\ q[j + 1] = Q[j]
  <2>1. j + 1 \in 1..Len(q) /\ ~(j + 1 <= 2) /\ (j + 1) - 2 = j - 1 /\ j - 1 \in 1..(L - 1)
        /\ (j - 1) + 1 = j
    BY <1>1, <1>8
  <2>2. q[j + 1] = T[(j + 1) - 2]
    BY <1>7, <2>1
  <2> QED BY <1>3, <2>1, <2>2
<1>11. ASSUME NEW i \in 1..Len(q)
       PROVE  \E j \in 1..L : q[i][2] \in Nat /\ Q[j][2] \in Nat /\ q[i][2] <= Q[j][2]
  <2>1. CASE i = 1 \/ i = 2
    <3>1. 1 \in 1..L /\ Q[1][2] = b /\ (q[i][2] = mid \/ q[i][2] = b)
      BY <1>1, <1>9, <2>1 DEF b
    <3>2. q[i][2] \in Nat /\ Q[1][2] \in Nat /\ q[i][2] <= Q[1][2]
      BY <1>2, <1>5, <3>1
    <3> QED BY <3>1, <3>2
  <2>2. CASE i # 1 /\ i # 2
    <3>1. i - 1 \in 2..L /\ (i - 1) + 1 = i /\ i - 1 \in 1..L
      BY <1>1, <1>8, <2>2
    <3>2. q[i] = Q[i - 1]
      BY <1>10, <3>1
    <3>3. q[i] \in Nat \X Nat
      BY <1>7
    <3> QED BY <3>1, <3>2, <3>3
  <2> QED BY <2>1, <2>2
<1>12. ASSUME NEW j \in 1..L, NEW n \in Q[j][1]..Q[j][2]
       PROVE  \E i \in 1..Len(q) : n \in q[i][1]..q[i][2]
  <2>1. CASE j = 1
    <3>1. n \in a..b
      BY <2>1 DEF a, b
    <3>2. n \in a..mid \/ n \in (mid + 1)..b
      BY <1>2, <1>5, <3>1
    <3>3. q[1][1] = a /\ q[1][2] = mid /\ q[2][1] = mid + 1 /\ q[2][2] = b
      BY <1>9
    <3> QED BY <1>8, <3>2, <3>3
  <2>2. CASE j # 1
    <3>1. j \in 2..L
      BY <1>1, <2>2
    <3> QED BY <1>10, <3>1
  <2> QED BY <2>1, <2>2
<1> QED BY <1>4, <1>7, <1>8, <1>11, <1>12 DEF q, L, T

(* The halves of a refused range cover it and end no later. *)
LEMMA RangeHalved ==
  ASSUME job \in JobRecord, job.ranges # <<>>, RangeTooLarge
  PROVE  /\ job' \in JobRecord /\ job'.mode = job.mode /\ job'.todo = job.todo /\ job'.logs = job.logs
         /\ job'.ranges # <<>>
         /\ \A i \in 1..Len(job'.ranges) : \E j \in 1..Len(job.ranges) :
              /\ job'.ranges[i][2] \in Nat /\ job.ranges[j][2] \in Nat
              /\ job'.ranges[i][2] <= job.ranges[j][2]
         /\ \A j \in 1..Len(job.ranges) : \A n \in job.ranges[j][1]..job.ranges[j][2] :
              \E i \in 1..Len(job'.ranges) : n \in job'.ranges[i][1]..job'.ranges[i][2]
<1> DEFINE Q == job.ranges
           q == Halves(Q[1]) \o Tail(Q)
<1>1. Q \in Seq(Nat \X Nat) /\ Q # <<>> /\ Head(Q) = Q[1]
  BY JobFields
<1>2. Q[1][1] < Q[1][2] /\ job' = [job EXCEPT !.ranges = q]
  BY <1>1 DEF RangeTooLarge
<1> HIDE DEF Q
<1>3. /\ q \in Seq(Nat \X Nat) /\ q # <<>>
      /\ \A i \in 1..Len(q) : \E j \in 1..Len(Q) :
           q[i][2] \in Nat /\ Q[j][2] \in Nat /\ q[i][2] <= Q[j][2]
      /\ \A j \in 1..Len(Q) : \A n \in Q[j][1]..Q[j][2] :
           \E i \in 1..Len(q) : n \in q[i][1]..q[i][2]
  BY <1>1, <1>2, HalvesCover
<1> HIDE DEF q
<1>4. /\ job' \in JobRecord /\ job'.mode = job.mode /\ job'.todo = job.todo
      /\ job'.logs = job.logs /\ job'.ranges = q
  BY <1>2, <1>3, JobUpdates
<1> QED BY <1>3, <1>4 DEF Q

(* Headers the buffer confirmed are processed by number, if any. *)
LEMMA JobAccepted ==
  ASSUME HeadInv, BufferInv, HandleLinked \/ WalkReturns
  PROVE  /\ job' \in JobRecord /\ job'.mode = "live" /\ job'.ranges = <<>> /\ DOMAIN job'.logs = {}
         /\ confirmed' \in Seq(Headers) /\ job'.todo = {Number[confirmed'[i]] : i \in 1..Len(confirmed')}
         /\ \A n \in job'.todo : n \in Nat /\ n + Confirmations <= Number[head]
         /\ phase' = IF job'.todo = {} THEN "feed" ELSE "confirmed"
         /\ job'.block = NoHeader /\ tip' = tip /\ head' = head /\ head \in Headers
<1> USE BufferAssumptions
<1>1. PICK s, k :
        /\ BP!IsChain(s) /\ s # <<>> /\ s[Len(s)] = head /\ head \in Headers
        /\ k \in 0..Len(s) /\ \A i \in 1..k : Number[s[i]] + Confirmations <= Number[head]
        /\ confirmed' = SubSeq(s, 1, k)
  BY Accepts
<1> DEFINE c == confirmed'
           T == {Number[c[i]] : i \in DOMAIN c}
<1>2. s \in Seq(Headers) /\ Len(s) \in Nat
  BY <1>1 DEF BP!IsChain
<1>3. c \in Seq(Headers) /\ Len(c) = k /\ DOMAIN c = 1..Len(c) /\ \A i \in 1..k : c[i] = s[i]
  BY <1>1, <1>2
<1>4. job' = [NoJob EXCEPT !.todo = T] /\ phase' = IF job'.todo = {} THEN "feed" ELSE "confirmed"
  BY DEF HandleLinked, WalkReturns, HeadAccepted
<1>5. tip' = tip /\ head' = head
  BY DEF HandleLinked, WalkReturns
<1> HIDE DEF c
<1>6. T \in SUBSET Nat /\ T = {Number[c[i]] : i \in 1..Len(c)}
  BY <1>3, TreeAssumption
<1>7. \A n \in T : n + Confirmations <= Number[head]
  <2>1. \A i \in 1..k : Number[c[i]] + Confirmations <= Number[head]
    BY <1>1, <1>3
  <2> QED BY <1>3, <2>1
<1> HIDE DEF T
<1>8. /\ job' \in JobRecord /\ job'.mode = NoJob.mode /\ job'.todo = T
      /\ job'.ranges = NoJob.ranges /\ job'.logs = NoJob.logs /\ job'.block = NoJob.block
  <2>1. NoJob \in JobRecord /\ T \in SUBSET Nat
    BY <1>6, NoJobFields
  <2> QED BY ONLY <1>4, <2>1, JobUpdates
<1> QED BY <1>1, <1>3, <1>4, <1>5, <1>6, <1>7, <1>8, NoJobFields DEF c

(* What is in hand stays deep, and belongs to where the task is. *)
LEMMA JobPreserved ==
  ASSUME tip \in Headers, ScanInv, HeadInv, BufferInv, DepthInv, TaskInv, Next
  PROVE  DepthInv' /\ TaskInv'
<1> USE DEF Working, Tasks
<1>0. /\ Number[tip] \in Nat /\ Number[tip'] \in Nat /\ Number[tip] <= Number[tip'] /\ tip' \in Headers
      /\ Confirmations \in Nat /\ job \in JobRecord
      /\ job.todo \in SUBSET Nat /\ job.ranges \in Seq(Nat \X Nat) /\ job.mode \in {"catchup", "live"}
      /\ DOMAIN job.logs \in SUBSET Nat /\ \A n \in DOMAIN job.logs : job.logs[n] \in Headers
  BY TipGrows, TreeAssumption, JobFields DEF DepthInv
<1>a. ASSUME NEW n \in Nat, n + Confirmations <= Number[tip] PROVE n + Confirmations <= Number[tip']
  BY <1>0, <1>a
<1>b. ASSUME job.todo # {} PROVE Current \in job.todo /\ Current \in Nat /\ Current + Confirmations <= Number[tip]
                                 /\ Current <= Number[tip]
  <2>1. Current \in job.todo /\ Current \in Nat
    BY <1>0, <1>b, MinOfNats DEF Current
  <2>2. Current + Confirmations <= Number[tip]
    BY <2>1 DEF DepthInv, Deep
  <2> QED BY <1>0, <2>1, <2>2
<1>c. ASSUME job' = job, tip' = tip \/ \E h \in Headers : NewTip(h) PROVE DepthInv'
  <2>1. \A i \in 1..Len(job.ranges) : job.ranges[i][2] \in Nat
    BY <1>0
  <2> QED BY <1>c, <1>a, <2>1 DEF DepthInv, Deep
<1>d. ASSUME job' = NoJob PROVE DepthInv' /\ (phase' \notin Working => TaskInv')
  <2>1. Len(<<>>) = 0
    OBVIOUS
  <2>2. DepthInv'
    BY <1>d, <2>1, NoJobFields DEF DepthInv
  <2>3. phase' \notin Working => TaskInv'
    BY <1>d, NoJobFields DEF TaskInv
  <2> QED BY <2>2, <2>3
<1>1. CASE \E h \in Headers : NewTip(h)
  <2>1. UNCHANGED <<job, phase>>
    BY <1>1 DEF NewTip
  <2> QED BY <1>1, <1>c, <2>1 DEF TaskInv, Current
<1>2. CASE CatchupWindow
  <2>1. PICK first \in Nat, end \in Nat :
           /\ first <= end /\ end <= scan.to /\ scan.to + Confirmations <= Number[tip]
           /\ job' \in JobRecord /\ job'.mode = "catchup" /\ job'.todo = first..end
           /\ job'.ranges = <<<<first, end>>>> /\ DOMAIN job'.logs = {}
    BY <1>2, WindowTaken
  <2>2. tip' = tip /\ phase' = "logs"
    BY <1>2 DEF CatchupWindow
  <2>3. scan.to \in Int
    BY DEF ScanInv
  <2>4. end + Confirmations <= Number[tip] /\ \A n \in first..end : n \in Nat /\ n + Confirmations <= Number[tip]
    BY <1>0, <2>1, <2>3
  <2>5. Len(<<<<first, end>>>>) = 1 /\ <<<<first, end>>>>[1] = <<first, end>> /\ <<<<first, end>>>> # <<>>
        /\ <<first, end>>[1] = first /\ <<first, end>>[2] = end
    OBVIOUS
  <2>6. DepthInv'
    <3>1. \A i \in 1..Len(job'.ranges) : job'.ranges[i][2] + Confirmations <= Number[tip']
      BY <2>1, <2>2, <2>4, <2>5
    <3> QED BY <2>1, <2>2, <2>4, <3>1 DEF DepthInv, Deep
  <2>7. TaskInv'
    <3>1. first \in first..end
      BY <2>1
    <3>2. 1 \in 1..Len(job'.ranges) /\ job'.ranges[1][1] = first /\ job'.ranges[1][2] = end /\ job'.ranges # <<>>
      BY <2>1, <2>5
    <3> QED BY <2>1, <2>2, <3>1, <3>2 DEF TaskInv
  <2> QED BY <2>6, <2>7
<1>3. CASE FetchRange
  <2>0. phase = "logs" /\ tip' = tip /\ phase' = IF job'.ranges = <<>> THEN "block" ELSE "logs"
    BY <1>3 DEF FetchRange
  <2>1. job.ranges # <<>> /\ job.todo # {} /\ job.mode = "catchup"
    BY <2>0 DEF TaskInv
  <2> DEFINE r == job.ranges[1]
  <2>2. /\ r[1] \in Nat /\ r[2] \in Nat
        /\ job' \in JobRecord /\ job'.mode = job.mode /\ job'.todo = job.todo
        /\ job'.ranges = Tail(job.ranges)
        /\ DOMAIN job'.logs = DOMAIN job.logs \cup (r[1]..r[2])
        /\ \A n \in DOMAIN job'.logs :
             job'.logs[n] = IF n \in r[1]..r[2] THEN tip ELSE job.logs[n]
    BY <1>0, <1>3, <2>1, RangeFetched
  <2>3. /\ 1 \in 1..Len(job.ranges) /\ Len(job.ranges) \in Nat
        /\ Len(Tail(job.ranges)) = Len(job.ranges) - 1
        /\ \A i \in 1..Len(Tail(job.ranges)) : i + 1 \in 1..Len(job.ranges) /\ Tail(job.ranges)[i] = job.ranges[i + 1]
    BY <1>0, <2>1
  <2>4. r[2] + Confirmations <= Number[tip]
    BY <2>3 DEF DepthInv
  <2>5. \A n \in r[1]..r[2] : n \in Nat /\ n + Confirmations <= Number[tip]
    <3> DEFINE m == r[1]
               e == r[2]
               t == Number[tip]
    <3>1. m \in Nat /\ e \in Nat /\ t \in Nat /\ Confirmations \in Nat /\ e + Confirmations <= t
      BY <1>0, <2>2, <2>4
    <3> HIDE DEF m, e, t
    <3>2. \A n \in m..e : n \in Nat /\ n + Confirmations <= t
      BY ONLY <3>1
    <3> QED BY <3>2 DEF m, e, t
  <2>6. DepthInv'
    <3>1. \A i \in 1..Len(job'.ranges) : job'.ranges[i][2] + Confirmations <= Number[tip']
      <4>1. \A i \in 1..Len(job.ranges) : job.ranges[i][2] + Confirmations <= Number[tip]
        BY DEF DepthInv
      <4>2. ASSUME NEW i \in 1..Len(Tail(job.ranges))
            PROVE  Tail(job.ranges)[i][2] + Confirmations <= Number[tip]
        <5>1. i + 1 \in 1..Len(job.ranges) /\ Tail(job.ranges)[i] = job.ranges[i + 1]
          BY <2>3
        <5> QED BY ONLY <4>1, <5>1
      <4> QED BY <2>0, <2>2, <4>2
    <3>2. \A n \in job'.todo : n \in Nat /\ n + Confirmations <= Number[tip']
      BY <2>0, <2>2 DEF DepthInv, Deep
    <3>3. ASSUME NEW n \in DOMAIN job'.logs
          PROVE  n \in Nat /\ n + Confirmations <= Number[tip'] /\ n + Confirmations <= Number[job'.logs[n]]
      <4>1. CASE n \in r[1]..r[2]
        BY <2>0, <2>2, <2>5, <4>1
      <4>2. CASE n \notin r[1]..r[2]
        BY <2>0, <2>2, <4>2 DEF DepthInv, Deep
      <4> QED BY <4>1, <4>2
    <3> QED BY <2>2, <3>1, <3>2, <3>3 DEF DepthInv, Deep
  <2>7. ASSUME NEW n \in job.todo
        PROVE  n \in DOMAIN job'.logs \/ \E i \in 1..Len(job'.ranges) : n \in job'.ranges[i][1]..job'.ranges[i][2]
    <3>1. CASE n \in DOMAIN job.logs
      BY <2>2, <3>1
    <3>2. ASSUME NEW i \in 1..Len(job.ranges), n \in job.ranges[i][1]..job.ranges[i][2]
          PROVE  n \in DOMAIN job'.logs \/ \E j \in 1..Len(job'.ranges) : n \in job'.ranges[j][1]..job'.ranges[j][2]
      <4>1. CASE i = 1
        BY <2>2, <3>2, <4>1
      <4>2. CASE i # 1
        <5>1. i - 1 \in 1..Len(Tail(job.ranges)) /\ (i - 1) + 1 = i
          BY <2>3, <4>2
        <5> QED BY <2>2, <2>3, <3>2, <5>1
      <4> QED BY <4>1, <4>2
    <3> QED BY <2>0, <3>1, <3>2 DEF TaskInv
  <2>8. TaskInv'
    <3>1. CASE job'.ranges # <<>>
      BY <2>0, <2>1, <2>2, <2>7, <3>1 DEF TaskInv
    <3>2. CASE job'.ranges = <<>>
      <4>1. Len(job'.ranges) = 0
        BY <3>2
      <4>2. job.todo \subseteq DOMAIN job'.logs
        BY <2>7, <4>1
      <4>3. Current' = Current
        BY <2>2 DEF Current
      <4>4. Current \in DOMAIN job'.logs
        BY <1>b, <2>1, <4>2
      <4> QED BY <2>0, <2>1, <2>2, <3>2, <4>2, <4>3, <4>4 DEF TaskInv
    <3> QED BY <3>1, <3>2
  <2> QED BY <2>6, <2>8
<1>4. CASE RangeTooLarge
  <2>0. phase = "logs" /\ tip' = tip /\ phase' = phase
    BY <1>4 DEF RangeTooLarge
  <2>1. job.ranges # <<>> /\ job.todo # {} /\ job.mode = "catchup"
    BY <2>0 DEF TaskInv
  <2>2. /\ job' \in JobRecord /\ job'.mode = job.mode /\ job'.todo = job.todo /\ job'.logs = job.logs
        /\ job'.ranges # <<>>
        /\ \A i \in 1..Len(job'.ranges) : \E j \in 1..Len(job.ranges) :
             /\ job'.ranges[i][2] \in Nat /\ job.ranges[j][2] \in Nat
             /\ job'.ranges[i][2] <= job.ranges[j][2]
        /\ \A j \in 1..Len(job.ranges) : \A n \in job.ranges[j][1]..job.ranges[j][2] :
             \E i \in 1..Len(job'.ranges) : n \in job'.ranges[i][1]..job'.ranges[i][2]
    BY <1>0, <1>4, <2>1, RangeHalved
  <2>3. \A a, b \in Nat : a <= b /\ b + Confirmations <= Number[tip] => a + Confirmations <= Number[tip]
    BY <1>0
  <2>4. \A i \in 1..Len(job'.ranges) : job'.ranges[i][2] + Confirmations <= Number[tip']
    BY <2>0, <2>2, <2>3 DEF DepthInv
  <2>5. DepthInv'
    BY <2>0, <2>2, <2>4 DEF DepthInv, Deep
  <2>6. TaskInv'
    BY <2>0, <2>1, <2>2 DEF TaskInv
  <2> QED BY <2>5, <2>6
<1>5. CASE FetchLogs
  <2> DEFINE l == [n \in {Current} |-> tip]
  <2>1. /\ phase = "confirmed" /\ job.todo # {} /\ tip' = tip
        /\ phase' = (IF job.block = NoHeader THEN "block" ELSE "fetched")
        /\ job' = [job EXCEPT !.logs = l] /\ job.mode = "live"
    BY <1>5 DEF FetchLogs, TaskInv
  <2>2. l \in [{Current} -> Headers] /\ {Current} \in SUBSET Nat /\ DOMAIN l = {Current} /\ l[Current] = tip
    BY <1>b, <2>1
  <2> HIDE DEF l
  <2>3. /\ job' \in JobRecord /\ job'.mode = job.mode /\ job'.todo = job.todo
        /\ job'.ranges = job.ranges /\ job'.logs = l /\ job'.block = job.block
    <3>1. l \in UNION {[S -> Headers] : S \in SUBSET Nat}
      BY <2>2
    <3>2. job' = [job EXCEPT !.logs = l] /\ job \in JobRecord
      BY <1>0, <2>1
    <3> QED BY <3>1, <3>2 DEF JobRecord
  <2>4. Current' = Current
    BY <2>3 DEF Current
  <2>5. DepthInv'
    BY <1>b, <2>1, <2>2, <2>3 DEF DepthInv, Deep
  <2>6. TaskInv'
    BY <2>1, <2>2, <2>3, <2>4 DEF TaskInv
  <2> QED BY <2>5, <2>6
<1>6. CASE FetchBlockFirst \/ FetchBlock
  <2> DEFINE b == BlockAt(tip, Current)
  <2>1. /\ (phase = "block" /\ phase' = "fetched") \/ (phase = "confirmed" /\ phase' = "confirmed")
        /\ tip' = tip /\ job' = [job EXCEPT !.block = b]
    BY <1>6 DEF FetchBlockFirst, FetchBlock
  <2>2. job.todo # {}
    BY <2>1 DEF TaskInv
  <2>3. b \in Headers /\ Number[b] = Current
    BY <1>b, <2>2, BlockAtHeight
  <2> HIDE DEF b
  <2>4. /\ job' \in JobRecord /\ job'.mode = job.mode /\ job'.todo = job.todo
        /\ job'.ranges = job.ranges /\ job'.logs = job.logs /\ job'.block = b
    BY <1>0, <2>1, <2>3, JobUpdates
  <2>5. Current' = Current
    BY <2>4 DEF Current
  <2>6. DepthInv'
    BY <2>1, <2>4 DEF DepthInv, Deep
  <2>7. TaskInv'
    BY <2>1, <2>2, <2>3, <2>4, <2>5 DEF TaskInv
  <2> QED BY <2>6, <2>7
<1>7. CASE Dispatch \/ TraceBlock
  <2>1. tip' = tip /\ job' = job /\ phase \in {"fetched", "tracing"} /\ phase' \in {"tracing", "dispatched"}
    BY <1>7 DEF Dispatch, TraceBlock
  <2> QED BY <1>c, <2>1 DEF TaskInv, Current
<1>8. CASE SaveCheckpoint
  <2> DEFINE left == job.todo \ {Current}
  <2>1. phase = "dispatched" /\ tip' = tip /\ AfterBlock
    BY <1>8 DEF SaveCheckpoint
  <2>2. CASE left = {}
    <3>1. job' = NoJob /\ phase' \in {"feed", "window"}
      BY <1>0, <2>1, <2>2 DEF AfterBlock
    <3> QED BY <1>d, <3>1
  <2>3. CASE left # {}
    <3>1. /\ job' = [job EXCEPT !.todo = left, !.block = NoHeader]
          /\ phase' = IF job.mode = "live" THEN "confirmed" ELSE "block"
      BY <1>0, <2>1, <2>3 DEF AfterBlock
    <3>2. left \in SUBSET Nat /\ left \subseteq job.todo
      BY <1>0
    <3> HIDE DEF left
    <3>3. /\ job' \in JobRecord /\ job'.mode = job.mode /\ job'.todo = left
          /\ job'.ranges = job.ranges /\ job'.logs = job.logs /\ job'.block = NoHeader
      BY <1>0, <3>1, <3>2 DEF JobRecord
    <3>4. Current' \in left
      BY <2>3, <3>2, <3>3, MinOfNats DEF Current
    <3>5. DepthInv'
      BY <2>1, <3>2, <3>3 DEF DepthInv, Deep
    <3>6. TaskInv'
      BY <1>0, <2>1, <2>3, <3>1, <3>2, <3>3, <3>4 DEF TaskInv
    <3> QED BY <3>5, <3>6
  <2> QED BY <2>2, <2>3
<1>9. CASE HandleLinked \/ WalkReturns
  <2>1. /\ job' \in JobRecord /\ job'.mode = "live" /\ job'.ranges = <<>> /\ DOMAIN job'.logs = {}
        /\ \A n \in job'.todo : n \in Nat /\ n + Confirmations <= Number[head]
        /\ phase' = IF job'.todo = {} THEN "feed" ELSE "confirmed"
        /\ job'.block = NoHeader /\ tip' = tip /\ head \in Headers
    BY <1>9, JobAccepted
  <2>2. Number[head] \in Nat /\ Number[head] <= Number[tip]
    BY <2>1, TreeAssumption DEF HeadInv
  <2>3. \A n \in job'.todo : n \in Nat /\ n + Confirmations <= Number[tip']
    BY <1>0, <2>1, <2>2
  <2>4. Len(<<>>) = 0
    OBVIOUS
  <2>5. DepthInv'
    BY <2>1, <2>3, <2>4 DEF DepthInv, Deep
  <2>6. TaskInv'
    BY <2>1 DEF TaskInv
  <2> QED BY <2>5, <2>6
<1>10. CASE /\ UNCHANGED <<tip, cp, delivered>>
            /\ \/ UNCHANGED <<job, phase>>
               \/ job' = NoJob /\ phase' \notin Working
               \/ job' = job /\ phase \notin Working /\ phase' \notin Working
  <2>1. CASE job' = NoJob /\ phase' \notin Working
    BY <1>d, <2>1
  <2>2. CASE UNCHANGED <<job, phase>> /\ tip' = tip
    BY <1>c, <2>2 DEF TaskInv, Current
  <2>3. CASE job' = job /\ phase \notin Working /\ phase' \notin Working /\ tip' = tip
    BY <1>c, <2>3 DEF TaskInv
  <2> QED BY <1>10, <2>1, <2>2, <2>3
<1> QED BY <1>1, <1>2, <1>3, <1>4, <1>5, <1>6, <1>7, <1>8, <1>9, <1>10, JobSteps
-----------------------------------------------------------------------------
(* The checkpoint. *)

(* What SaveCheckpoint relies on: the block in hand went to the channels,  *)
(* unless the notifier had none left, which takes a stop.                  *)
SaveInv ==
  /\ cp \in Headers \cup {NoHeader} /\ delivered \subseteq Headers
  /\ stops \in Nat /\ (stops = 0 => stopping = "no")
  /\ (stops = 0 /\ phase \in {"tracing", "dispatched"}) => job.block \in delivered
  /\ CheckpointDelivered

(* A stop is counted, and only then does the notifier go. *)
LEMMA StopSteps ==
  ASSUME Next
  PROVE  \/ stops' = stops + 1
         \/ /\ stops' = stops
            /\ stopping' = stopping \/ stopping' = "no" \/ stopping = "draining"
<1>1. CASE CatchupStep
  BY <1>1 DEF CatchupStep, CatchupBegin, CatchupWindow, FetchRange, RangeTooLarge, CatchupDone,
              CatchupStopped, bounds
<1>2. CASE BlockStep
  BY <1>2 DEF BlockStep, FetchLogs, FetchBlockFirst, FetchBlock, Dispatch, TraceBlock, SaveCheckpoint, bounds
<1>3. CASE FeedStep
  BY <1>3 DEF FeedStep, PollTip, FetchHead, FeedDone, SubscribeHeads, QueuedHead, LiveStopped, Yield,
              bounds
<1>4. CASE HeadStep
  BY <1>4 DEF HeadStep, PrefetchOne, PrefetchDone, HandleLinked, HandleUnlinked,
              WalkBack, WalkReturns, WalkRaises, bounds
<1>5. CASE Start \/ NotifierCleared \/ Cancel \/ Stop \/ Crash
  BY <1>5 DEF Start, NotifierCleared, Cancel, Stop, Crash, FreshRunner, bounds
<1>6. CASE Failure
  BY <1>6 DEF Failure, CatchupTipFails, CatchupWindowFails, BlockFails, PollFails,
              FetchHeadFails, HandlerDies, PrefetchFails, Fault
<1>7. CASE \E h \in Headers : NewTip(h)
  BY <1>7 DEF NewTip, bounds
<1> QED BY <1>1, <1>2, <1>3, <1>4, <1>5, <1>6, <1>7 DEF Next, Progress

(* The block being dispatched, and the one its logs are of. *)
LEMMA LogsBlock ==
  ASSUME DepthInv, NEW n \in DOMAIN job.logs
  PROVE  /\ n \in Nat /\ job.logs[n] \in Headers /\ n <= Number[job.logs[n]]
         /\ BlockAt(job.logs[n], n) \in Headers /\ Number[BlockAt(job.logs[n], n)] = n
<1>1. n \in Nat /\ job.logs[n] \in Headers
  BY JobFields DEF DepthInv
<1>2. Number[job.logs[n]] \in Nat /\ Confirmations \in Nat /\ n + Confirmations <= Number[job.logs[n]]
  BY <1>1, TreeAssumption DEF DepthInv
<1>3. n <= Number[job.logs[n]]
  BY <1>1, <1>2
<1> QED BY <1>1, <1>3, BlockAtHeight

(* What a step hands to the channels. *)
LEMMA DeliverySteps ==
  ASSUME tip \in Headers, DepthInv, TaskInv, SaveInv, Next
  PROVE  \/ delivered' = delivered
         \/ /\ Dispatch
            /\ Current \in DOMAIN job.logs /\ job.block \in Headers /\ Number[job.block] = Current
            /\ stopping # "cleared"
            /\ delivered' = delivered \cup {job.block, BlockAt(job.logs[Current], Current)}
         \/ /\ TraceBlock
            /\ Current \in Nat /\ Current + Confirmations <= Number[tip]
            /\ BlockAt(tip, Current) \in ChainOf[tip] /\ Number[BlockAt(tip, Current)] = Current
            /\ delivered' = delivered \cup {BlockAt(tip, Current)}
<1>1. CASE Dispatch
  BY <1>1 DEF Dispatch, Deliver, TaskInv, Tasks
<1>2. CASE TraceBlock
  <2>1. Current \in Nat /\ Current + Confirmations <= Number[tip]
    <3>1. job.todo # {} /\ job.todo \in SUBSET Nat
      BY <1>2, JobFields DEF TraceBlock, TaskInv, Working, Tasks, DepthInv
    <3>2. Current \in job.todo
      BY <3>1, MinOfNats DEF Current
    <3> QED BY <3>2 DEF DepthInv, Deep
  <2>2. Current <= Number[tip]
    BY <2>1, TreeAssumption
  <2>3. BlockAt(tip, Current) \in ChainOf[tip] /\ Number[BlockAt(tip, Current)] = Current
    BY <2>1, <2>2, BlockAtHeight
  <2> QED BY <1>2, <2>1, <2>3 DEF TraceBlock, Deliver, TaskInv, Tasks
<1>3. CASE ~Dispatch /\ ~TraceBlock
  <2>1. CASE HandleLinked \/ WalkReturns
    BY <2>1 DEF HandleLinked, WalkReturns
  <2>2. CASE CatchupWindow \/ FetchRange \/ RangeTooLarge \/ FetchLogs \/ FetchBlockFirst
           \/ FetchBlock \/ SaveCheckpoint
    BY <2>2 DEF CatchupWindow, FetchRange, RangeTooLarge, FetchLogs, FetchBlockFirst, FetchBlock, SaveCheckpoint
  <2>3. CASE \E h \in Headers : NewTip(h)
    BY <2>3 DEF NewTip
  <2> QED BY <1>3, <2>1, <2>2, <2>3, JobSteps
<1> QED BY <1>1, <1>2, <1>3

(* SaveInv is inductive: without a stop a block is dispatched before its *)
(* checkpoint.                                                           *)
LEMMA SavePreserved ==
  ASSUME tip \in Headers, DepthInv, TaskInv, SaveInv, Next
  PROVE  SaveInv'
<1>1. /\ stops' \in Nat /\ (stops' = 0 => stopping' = "no" /\ stops = 0 /\ stopping = "no")
  BY StopSteps DEF SaveInv
<1>2. delivered \subseteq delivered' /\ delivered' \subseteq Headers
  <2>1. CASE delivered' = delivered
    BY <2>1 DEF SaveInv
  <2>2. CASE /\ Dispatch /\ Current \in DOMAIN job.logs /\ job.block \in Headers
             /\ delivered' = delivered \cup {job.block, BlockAt(job.logs[Current], Current)}
    BY <2>2, LogsBlock DEF SaveInv
  <2>3. CASE /\ BlockAt(tip, Current) \in ChainOf[tip]
             /\ delivered' = delivered \cup {BlockAt(tip, Current)}
    BY <2>3, ChainClosed DEF SaveInv
  <2> QED BY <2>1, <2>2, <2>3, DeliverySteps
<1>3. CASE SaveCheckpoint
  <2>1. cp' = job.block /\ job.block \in Headers /\ phase' \notin {"tracing", "dispatched"}
    BY <1>3 DEF SaveCheckpoint, AfterBlock, TaskInv
  <2>2. stops' = 0 => cp' \in delivered'
    BY <1>1, <1>2, <1>3, <2>1 DEF SaveInv, SaveCheckpoint
  <2> QED BY <1>1, <1>2, <2>1, <2>2 DEF SaveInv, CheckpointDelivered
<1>4. ASSUME cp' = cp, (stops' = 0 /\ phase' \in {"tracing", "dispatched"}) => job'.block \in delivered'
      PROVE  SaveInv'
  <2>1. CheckpointDelivered'
    BY <1>1, <1>2, <1>4 DEF SaveInv, CheckpointDelivered
  <2> QED BY <1>1, <1>2, <1>4, <2>1 DEF SaveInv
<1>5. CASE Dispatch
  <2>1. cp' = cp /\ job' = job
    BY <1>5 DEF Dispatch
  <2>2. stops' = 0 => job.block \in delivered'
    BY <1>1, <1>5 DEF Dispatch, Deliver, TaskInv, Tasks
  <2> QED BY <1>4, <2>1, <2>2
<1>6. CASE TraceBlock
  <2>1. cp' = cp /\ job' = job /\ phase = "tracing"
    BY <1>6 DEF TraceBlock
  <2> QED BY <1>1, <1>2, <1>4, <2>1 DEF SaveInv
<1>7. CASE CatchupWindow \/ FetchRange \/ RangeTooLarge \/ FetchLogs \/ FetchBlockFirst
           \/ FetchBlock
  <2>1. cp' = cp /\ phase' \notin {"tracing", "dispatched"}
    BY <1>7 DEF CatchupWindow, FetchRange, RangeTooLarge, FetchLogs, FetchBlockFirst, FetchBlock
  <2> QED BY <1>4, <2>1
<1>8. CASE HandleLinked \/ WalkReturns
  <2>1. cp' = cp /\ phase' \notin {"tracing", "dispatched"}
    BY <1>8 DEF HandleLinked, WalkReturns, HeadAccepted
  <2> QED BY <1>4, <2>1
<1>9. CASE \E h \in Headers : NewTip(h)
  <2>1. UNCHANGED <<cp, job, phase>>
    BY <1>9 DEF NewTip
  <2> QED BY <1>1, <1>2, <1>4, <2>1 DEF SaveInv
<1>10. CASE /\ UNCHANGED <<tip, cp, delivered>>
            /\ \/ UNCHANGED <<job, phase>>
               \/ job' = NoJob /\ phase' \notin Working
               \/ job' = job /\ phase \notin Working /\ phase' \notin Working
  BY <1>1, <1>2, <1>4, <1>10 DEF SaveInv, Working, Tasks
<1> QED BY <1>3, <1>5, <1>6, <1>7, <1>8, <1>9, <1>10, JobSteps
-----------------------------------------------------------------------------
(* The inductive invariant of the runner. *)
RunnerInv ==
  /\ tip \in Headers
  /\ ScanInv /\ FeedInv /\ HeadInv /\ BufferInv
  /\ DepthInv /\ TaskInv /\ SaveInv

(* The runner starts in RunnerInv. *)
LEMMA RunnerInit == Init => RunnerInv
<1> SUFFICES ASSUME Init PROVE RunnerInv
  OBVIOUS
<1>0. /\ FirstTip \in Headers /\ Number[FirstTip] \in Nat /\ NoHeader \notin Headers
      /\ FirstCheckpoint \in Headers \cup {NoHeader}
  BY RunnerAssumption, TreeAssumption
<1>1. BP!Init /\ Len(<<>>) = 0
  BY DEF Init, Buffer!Init, BP!Init
<1>2. BufferInv
  BY <1>1, BP!InitChain, BufferAssumptions DEF BufferInv
<1>3. ScanInv
  BY DEF Init, ScanInv, NoScan
<1>4. FeedInv
  <2>1. PICK w \in BOOLEAN : feed = NoFeed(w)
    BY DEF Init
  <2>2. feed \in FeedRecord /\ feed.to = -1 /\ feed.last = -1 /\ feed.queue = <<>>
    BY <2>1 DEF NoFeed, FeedRecord
  <2> QED BY <1>0, <1>1, <2>2 DEF Init, FeedInv
<1>5. HeadInv
  BY <1>0, <1>1 DEF Init, HeadInv, BP!Init
<1>6. DepthInv /\ TaskInv
  BY <1>1, NoJobFields DEF Init, DepthInv, TaskInv, Working, Tasks
<1>7. SaveInv
  BY <1>0 DEF Init, SaveInv, CheckpointDelivered
<1> QED BY <1>0, <1>2, <1>3, <1>4, <1>5, <1>6, <1>7 DEF RunnerInv, Init

(* Every step of the runner keeps RunnerInv. *)
LEMMA RunnerNext == RunnerInv /\ Next => RunnerInv'
<1> SUFFICES ASSUME RunnerInv, Next PROVE RunnerInv'
  OBVIOUS
<1> USE DEF RunnerInv
<1>1. tip' \in Headers
  BY TipGrows
<1>2. ScanInv'
  BY ScanPreserved DEF SaveInv
<1>3. FeedInv' /\ HeadInv' /\ BufferInv'
  BY FeedPreserved, HeadPreserved, BufferPreserved
<1>4. DepthInv' /\ TaskInv' /\ SaveInv'
  BY JobPreserved, SavePreserved
<1> QED BY <1>1, <1>2, <1>3, <1>4

(* So does a step of the other kind of chain. *)
LEMMA RunnerStutter == RunnerInv /\ UNCHANGED vars => RunnerInv'
<1> SUFFICES ASSUME RunnerInv, UNCHANGED vars PROVE RunnerInv'
  OBVIOUS
<1> USE DEF vars, handling, bounds, bufferVars
<1>1. tip' \in Headers /\ ScanInv' /\ FeedInv' /\ HeadInv'
  BY DEF RunnerInv, ScanInv, FeedInv, HeadInv
<1>2. BufferInv'
  <2>1. UNCHANGED BP!vars
    BY DEF BP!vars
  <2> QED BY <2>1, BP!NextChain, BufferAssumptions DEF RunnerInv, BufferInv
<1>3. DepthInv' /\ TaskInv' /\ SaveInv'
  BY DEF RunnerInv, DepthInv, Deep, TaskInv, Current, SaveInv, CheckpointDelivered
<1> QED BY <1>1, <1>2, <1>3 DEF RunnerInv

(* A step of the process is a step of the EVM runner, or leaves it alone. *)
LEMMA RunIsNext == [Run]_runnerVars => [Next]_vars
  BY DEF Run, RunEvm, RunSolana, runnerVars

(* The inductive invariant of the EVM runner (chain_runner.py, evm.py)    *)
(* holds in every reachable state: catch-up and heads stay below the tip, *)
(* the work in hand is deep enough, and a block is dispatched before its  *)
(* checkpoint.                                                            *)
THEOREM RunnerInvariant == RunSpec => []RunnerInv
<1>1. RunInit => RunnerInv
  BY RunnerInit DEF RunInit
<1>2. RunnerInv /\ [Run]_runnerVars => RunnerInv'
  BY RunIsNext, RunnerNext, RunnerStutter
<1> QED BY <1>1, <1>2, PTL DEF RunSpec

(* The checkpoint never points at a block whose notifications were not     *)
(* handed to the channels, wherever the process crashes, unless a graceful *)
(* stop emptied the notifier under the task.                               *)
THEOREM CheckpointCorrect == RunSpec => []CheckpointDelivered
<1>1. RunnerInv => CheckpointDelivered
  BY DEF RunnerInv, SaveInv
<1> QED BY <1>1, RunnerInvariant, PTL
-----------------------------------------------------------------------------
(* Finality. *)

(* The block of the current height has been fetched. *)
InHand ==
  \/ phase \in {"fetched", "tracing", "dispatched"}
  \/ phase = "confirmed" /\ job.block # NoHeader

(* What was read from the node is on its chain and buried deep, and stays  *)
(* there as long as no reorg undoes more than Confirmations blocks.        *)
FinalInv ==
  /\ \A n \in DOMAIN job.logs : BlockAt(job.logs[n], n) \in ChainOf[tip]
  /\ InHand => job.block \in ChainOf[tip]
  /\ \A d \in delivered : d \in ChainOf[tip] /\ Deep(Number[d])

(* Every block of the present chain that is buried deep is on the next one. *)
LEMMA DeepStays ==
  ASSUME MaxReorg <= Confirmations, tip \in Headers, Next,
         NEW g \in ChainOf[tip], Deep(Number[g])
  PROVE  g \in ChainOf[tip'] /\ Number[g] \in Nat /\ Number[g] + Confirmations <= Number[tip']
<1>0. /\ Number[tip] \in Nat /\ Number[tip'] \in Nat /\ Number[tip] <= Number[tip']
      /\ Confirmations \in Nat /\ MaxReorg \in Nat /\ Number[g] \in Nat
  BY TipGrows, TreeAssumption, RunnerAssumption DEF Deep
<1>1. Number[g] + Confirmations <= Number[tip] /\ Number[g] + Confirmations <= Number[tip']
  BY <1>0 DEF Deep
<1>2. ASSUME NEW h \in Headers, NewTip(h) PROVE g \in ChainOf[tip']
  <2>1. tip' = h /\ Cardinality(ChainOf[tip] \ ChainOf[h]) <= MaxReorg
    BY <1>2 DEF NewTip, Undone
  <2>2. Cardinality(ChainOf[tip] \ ChainOf[h]) \in Nat
    BY ChainFinite, FS_Subset, FS_CardinalityType
  <2>3. Cardinality(ChainOf[tip] \ ChainOf[h]) <= Confirmations
    BY <1>0, <2>1, <2>2
  <2> QED BY <1>1, <2>1, <2>3, DeepSurvives
<1>3. tip' = tip \/ \E h \in Headers : NewTip(h)
  BY ScanSteps DEF CatchupBegin, CatchupWindow
<1>4. g \in ChainOf[tip']
  BY <1>2, <1>3
<1> QED BY <1>0, <1>1, <1>4

(* FinalInv is inductive: a reorg is no deeper than the confirmations. *)
LEMMA FinalNext ==
  ASSUME MaxReorg <= Confirmations, RunnerInv, FinalInv, Next
  PROVE  FinalInv'
<1>0. /\ tip \in Headers /\ job \in JobRecord /\ DOMAIN job.logs \in SUBSET Nat
      /\ \A n \in DOMAIN job.logs : job.logs[n] \in Headers
      /\ Number[tip] \in Nat /\ Confirmations \in Nat /\ job.todo \in SUBSET Nat
  BY JobFields, TreeAssumption DEF RunnerInv, DepthInv
<1> USE DEF Working, Tasks
<1>a. ASSUME job.todo # {} PROVE /\ Current \in Nat /\ Deep(Current) /\ Current <= Number[tip]
                                 /\ BlockAt(tip, Current) \in ChainOf[tip]
                                 /\ Number[BlockAt(tip, Current)] = Current
  <2>1. Current \in Nat /\ Current \in job.todo
    BY <1>0, <1>a, MinOfNats DEF Current
  <2>2. Deep(Current)
    BY <2>1 DEF RunnerInv, DepthInv
  <2>3. Current <= Number[tip]
    BY <1>0, <2>1, <2>2 DEF Deep
  <2> QED BY <1>0, <2>1, <2>2, <2>3, BlockAtHeight
<1>b. ASSUME NEW n \in DOMAIN job.logs PROVE BlockAt(job.logs[n], n) \in ChainOf[tip']
  <2> DEFINE g == BlockAt(job.logs[n], n)
  <2>1. g \in ChainOf[tip] /\ Number[g] = n
    BY LogsBlock DEF FinalInv, RunnerInv
  <2>2. Deep(n)
    BY DEF RunnerInv, DepthInv
  <2> HIDE DEF g
  <2>3. g \in ChainOf[tip']
    BY <1>0, <2>1, <2>2, DeepStays
  <2> QED BY <2>3 DEF g
<1>c. ASSUME InHand
      PROVE  job.block \in ChainOf[tip] /\ job.block \in ChainOf[tip'] /\ Deep(Number[job.block])
  <2>1. job.block \in ChainOf[tip] /\ Number[job.block] = Current /\ job.todo # {}
    BY <1>c DEF FinalInv, RunnerInv, TaskInv, InHand, Working, Tasks
  <2>2. Deep(Number[job.block])
    BY <1>a, <2>1
  <2> QED BY <1>0, <2>1, <2>2, DeepStays
<1>1. \A d \in delivered' :
        d \in ChainOf[tip'] /\ Number[d] \in Nat /\ Number[d] + Confirmations <= Number[tip']
  <2>1. \A d \in delivered :
          d \in ChainOf[tip'] /\ Number[d] \in Nat /\ Number[d] + Confirmations <= Number[tip']
    BY <1>0, DeepStays DEF FinalInv
  <2>2. CASE /\ Dispatch /\ Current \in DOMAIN job.logs
             /\ delivered' = delivered \cup {job.block, BlockAt(job.logs[Current], Current)}
    <3> DEFINE g == BlockAt(job.logs[Current], Current)
    <3>1. g \in ChainOf[tip] /\ Number[g] = Current /\ Deep(Current)
      BY <2>2, LogsBlock DEF FinalInv, RunnerInv, DepthInv
    <3> HIDE DEF g
    <3>2. g \in ChainOf[tip'] /\ Number[g] \in Nat /\ Number[g] + Confirmations <= Number[tip']
      BY <1>0, <3>1, DeepStays
    <3>3. job.block \in ChainOf[tip] /\ Deep(Number[job.block])
      BY <1>c, <2>2 DEF Dispatch, InHand
    <3>4. /\ job.block \in ChainOf[tip'] /\ Number[job.block] \in Nat
          /\ Number[job.block] + Confirmations <= Number[tip']
      BY <1>0, <3>3, DeepStays
    <3> QED BY <2>1, <2>2, <3>2, <3>4 DEF g
  <2>3. CASE /\ TraceBlock /\ Current \in Nat /\ Current + Confirmations <= Number[tip]
             /\ BlockAt(tip, Current) \in ChainOf[tip] /\ Number[BlockAt(tip, Current)] = Current
             /\ delivered' = delivered \cup {BlockAt(tip, Current)}
    <3> DEFINE g == BlockAt(tip, Current)
    <3>1. g \in ChainOf[tip] /\ Deep(Number[g]) /\ delivered' = delivered \cup {g}
      BY <2>3 DEF Deep
    <3> HIDE DEF g
    <3>2. g \in ChainOf[tip'] /\ Number[g] \in Nat /\ Number[g] + Confirmations <= Number[tip']
      BY <1>0, <3>1, DeepStays
    <3> QED BY <2>1, <3>1, <3>2
  <2>4. CASE delivered' = delivered
    BY <2>1, <2>4
  <2> QED BY <2>2, <2>3, <2>4, DeliverySteps DEF RunnerInv
<1>2. ASSUME NEW n \in DOMAIN job'.logs PROVE BlockAt(job'.logs[n], n) \in ChainOf[tip']
  <2>1. CASE job'.logs = job.logs
    BY <1>2, <1>b, <2>1
  <2>2. CASE DOMAIN job'.logs = {}
    BY <1>2, <2>2
  <2>3. CASE FetchRange
    <3> DEFINE r == job.ranges[1]
    <3>1. job.ranges # <<>>
      BY <2>3 DEF FetchRange, RunnerInv, TaskInv
    <3>2. /\ r[1] \in Nat /\ r[2] \in Nat
          /\ DOMAIN job'.logs = DOMAIN job.logs \cup (r[1]..r[2])
          /\ job'.logs[n] = IF n \in r[1]..r[2] THEN tip ELSE job.logs[n]
      BY <1>0, <1>2, <2>3, <3>1, RangeFetched
    <3>3. CASE n \in r[1]..r[2]
      <4>1. 1 \in 1..Len(job.ranges)
        BY <1>0, <3>1, JobFields
      <4>2. r[2] + Confirmations <= Number[tip]
        BY <4>1 DEF RunnerInv, DepthInv
      <4>3. n \in Nat /\ n <= Number[tip]
        BY <1>0, <3>2, <3>3, <4>2
      <4>4. tip' = tip /\ job'.logs[n] = tip
        BY <2>3, <3>2, <3>3 DEF FetchRange
      <4> QED BY <1>0, <4>3, <4>4, BlockAtHeight
    <3>4. CASE n \notin r[1]..r[2]
      BY <1>2, <1>b, <3>2, <3>4
    <3> QED BY <3>3, <3>4
  <2>4. CASE FetchLogs
    <3> DEFINE l == [m \in {Current} |-> tip]
    <3>1. job' = [job EXCEPT !.logs = l] /\ tip' = tip /\ job.todo # {}
      BY <2>4 DEF FetchLogs
    <3>2. DOMAIN l = {Current} /\ l[Current] = tip
      OBVIOUS
    <3> HIDE DEF l
    <3>3. job'.logs = l
      BY <1>0, <3>1 DEF JobRecord
    <3>4. n = Current /\ job'.logs[n] = tip
      BY <1>2, <3>2, <3>3
    <3> QED BY <1>a, <3>1, <3>4
  <2>5. CASE FetchBlockFirst \/ FetchBlock
    <3>1. job'.logs = job.logs
      BY <1>0, <2>5 DEF FetchBlockFirst, FetchBlock, JobRecord
    <3> QED BY <2>1, <3>1
  <2>6. CASE SaveCheckpoint
    <3>1. job' = NoJob \/ job'.logs = job.logs
      BY <1>0, <2>6 DEF SaveCheckpoint, AfterBlock, JobRecord
    <3> QED BY <2>1, <2>2, <3>1, NoJobFields
  <2>7. CASE CatchupWindow
    <3>1. DOMAIN job'.logs = {}
      BY <2>7, WindowTaken DEF RunnerInv
    <3> QED BY <2>2, <3>1
  <2>8. CASE RangeTooLarge
    <3>1. job.ranges # <<>>
      BY <2>8 DEF RangeTooLarge, RunnerInv, TaskInv
    <3> QED BY <1>0, <2>1, <2>8, <3>1, RangeHalved
  <2>9. CASE HandleLinked \/ WalkReturns
    BY <2>2, <2>9, JobAccepted DEF RunnerInv
  <2>10. CASE Dispatch \/ TraceBlock \/ \E h \in Headers : NewTip(h)
    <3>1. job' = job
      BY <2>10 DEF Dispatch, TraceBlock, NewTip
    <3> QED BY <2>1, <3>1
  <2>11. CASE job' = job \/ job' = NoJob
    BY <2>1, <2>2, <2>11, NoJobFields
  <2> QED BY <2>3, <2>4, <2>5, <2>6, <2>7, <2>8, <2>9, <2>10, <2>11, JobSteps
<1>3. ASSUME InHand' PROVE job'.block \in ChainOf[tip']
  <2>1. CASE FetchBlockFirst \/ FetchBlock
    <3> DEFINE g == BlockAt(tip, Current)
    <3>1. /\ job' = [job EXCEPT !.block = g] /\ tip' = tip /\ phase \in {"block", "confirmed"}
          /\ phase = "confirmed" => job.todo # {}
      BY <2>1 DEF FetchBlockFirst, FetchBlock
    <3>2. g \in ChainOf[tip]
      BY <1>a, <3>1 DEF RunnerInv, TaskInv, Working, Tasks
    <3> HIDE DEF g
    <3>3. job'.block = g
      BY <1>0, <3>1 DEF JobRecord
    <3> QED BY <3>1, <3>2, <3>3
  <2>2. CASE Dispatch \/ TraceBlock
    <3>1. job' = job /\ InHand
      BY <2>2 DEF Dispatch, TraceBlock, InHand
    <3> QED BY <1>c, <3>1
  <2>3. CASE \E h \in Headers : NewTip(h)
    <3>1. job' = job /\ phase' = phase
      BY <2>3 DEF NewTip
    <3> QED BY <1>3, <1>c, <3>1 DEF InHand
  <2>4. CASE CatchupWindow \/ FetchRange \/ RangeTooLarge
    BY <1>3, <2>4 DEF CatchupWindow, FetchRange, RangeTooLarge, InHand
  <2>7. CASE SaveCheckpoint
    <3>1. phase' \in {"feed", "confirmed", "window", "block"} /\ job'.block = NoHeader
      BY <1>0, <2>7, NoJobFields DEF SaveCheckpoint, AfterBlock, JobRecord
    <3> QED BY <1>3, <3>1 DEF InHand
  <2>8. CASE FetchLogs
    <3> DEFINE l == [m \in {Current} |-> tip]
    <3>1. /\ phase = "confirmed" /\ job' = [job EXCEPT !.logs = l]
          /\ phase' = IF job.block = NoHeader THEN "block" ELSE "fetched"
      BY <2>8 DEF FetchLogs
    <3> HIDE DEF l
    <3>2. job'.block = job.block
      BY <1>0, <3>1 DEF JobRecord
    <3> QED BY <1>3, <1>c, <3>1, <3>2 DEF InHand
  <2>5. CASE HandleLinked \/ WalkReturns
    <3>1. phase' \in {"feed", "confirmed"} /\ job'.block = NoHeader
      BY <2>5, JobAccepted DEF RunnerInv
    <3> QED BY <1>3, <3>1 DEF InHand
  <2>6. CASE /\ UNCHANGED <<tip, cp, delivered>>
             /\ \/ UNCHANGED <<job, phase>>
                \/ job' = NoJob /\ phase' \notin Working
                \/ job' = job /\ phase \notin Working /\ phase' \notin Working
    BY <1>3, <1>c, <2>6 DEF InHand, Working, Tasks
  <2> QED BY <2>1, <2>2, <2>3, <2>4, <2>5, <2>6, <2>7, <2>8, JobSteps
<1> QED BY <1>1, <1>2, <1>3 DEF FinalInv, Deep

(* With reorgs no deeper than `confirmations`, no subscriber is ever told  *)
(* of a block, or of logs, that a later reorg removes.                     *)
THEOREM FinalCorrect == MaxReorg <= Confirmations => (RunSpec => []DeliveredIsFinal)
<1> SUFFICES ASSUME MaxReorg <= Confirmations PROVE RunSpec => []DeliveredIsFinal
  OBVIOUS
<1>1. RunInit => FinalInv
  BY NoJobFields DEF RunInit, Init, FinalInv, InHand
<1>2. RunnerInv /\ FinalInv /\ [Run]_runnerVars => FinalInv'
  <2> SUFFICES ASSUME RunnerInv, FinalInv, [Run]_runnerVars PROVE FinalInv'
    OBVIOUS
  <2>1. CASE Next
    BY <2>1, FinalNext
  <2>2. CASE UNCHANGED vars
    BY <2>2 DEF vars, FinalInv, InHand, Deep
  <2> QED BY <2>1, <2>2, RunIsNext
<1>3. RunnerInv /\ FinalInv => DeliveredIsFinal
  BY DEF RunnerInv, FinalInv, DeliveredIsFinal
<1> QED BY <1>1, <1>2, <1>3, RunnerInvariant, PTL DEF RunSpec
-----------------------------------------------------------------------------
(* The live loop passes over no confirmed block. *)

(* The headers of a linked sequence are on the chain of its last one. *)
LEMMA SequenceOnChain ==
  ASSUME NEW s, BP!IsChain(s), s # <<>>
  PROVE  \A i \in 1..Len(s) : s[i] \in ChainOf[s[Len(s)]]
<1>1. s \in Seq(Headers) /\ Len(s) \in Nat \ {0} /\ \A i \in 1..(Len(s) - 1) : Parent[s[i + 1]] = s[i]
  BY DEF BP!IsChain, BP!Linked
<1> DEFINE L == Len(s)
           h == s[L]
           bad == {i \in 1..L : s[i] \notin ChainOf[h]}
           T == {L - i : i \in bad}
<1>2. h \in Headers
  BY <1>1
<1> SUFFICES ASSUME bad # {} PROVE FALSE
  OBVIOUS
<1>3. T \in SUBSET Nat /\ T # {}
  BY <1>1
<1>4. PICK m \in T : \A y \in T : m <= y
  BY <1>3, LeastNat
<1>5. PICK i \in bad : m = L - i
  OBVIOUS
<1>6. i # L /\ i \in 1..L /\ i + 1 \in 1..L /\ i \in 1..(L - 1)
  BY <1>1, <1>2, ChainClosed
<1>7. s[i + 1] \in ChainOf[h]
  <2>1. CASE i + 1 \in bad
    <3>1. L - (i + 1) \in T
      BY <2>1
    <3>2. m <= L - (i + 1)
      BY <1>4, <3>1
    <3> HIDE DEF T, bad, L
    <3>3. L \in Nat /\ i \in Nat
      BY <1>1, <1>6 DEF L
    <3> QED BY ONLY <1>5, <3>2, <3>3
  <2> QED BY <1>6, <2>1
<1>8. Parent[s[i + 1]] = s[i] /\ s[i] \in Headers
  BY <1>1, <1>6
<1>9. s[i] \in ChainOf[h]
  BY <1>2, <1>7, <1>8, ChainClosed
<1> QED BY <1>9

(* After a reorg of at most Confirmations blocks, every header announced   *)
(* is above what the old head had buried.                                  *)
LEMMA AnnouncedHigh ==
  ASSUME MaxReorg <= Confirmations, tip \in Headers, NEW h \in Headers,
         Cardinality(Undone(h)) <= MaxReorg
  PROVE  /\ \A i \in 1..Len(Announced(h)) :
              /\ Announced(h)[i] \in ChainOf[h] /\ Number[Announced(h)[i]] \in Nat
              /\ Number[Announced(h)[i]] + Confirmations > Number[tip]
         /\ \A i, j \in 1..Len(Announced(h)) :
              i < j => Number[Announced(h)[i]] < Number[Announced(h)[j]]
<1> DEFINE A == ChainOf[tip]
           B == ChainOf[h]
           new == Cardinality(B \ A)
           both == Cardinality(A \cap B)
<1>0. Number[h] \in Nat /\ Number[tip] \in Nat /\ Confirmations \in Nat /\ MaxReorg \in Nat
  BY TreeAssumption, RunnerAssumption
<1>1. /\ IsFiniteSet(A) /\ Cardinality(A) = Number[tip] + 1
      /\ IsFiniteSet(B) /\ Cardinality(B) = Number[h] + 1
  BY ChainFinite
<1>2. A \cap B = B \cap A
  OBVIOUS
<1>3. /\ Cardinality(A \ B) = Cardinality(A) - Cardinality(A \cap B)
      /\ Cardinality(B \ A) = Cardinality(B) - Cardinality(B \cap A)
  <2> HIDE DEF A, B
  <2> QED BY <1>1, FS_Difference
<1>4. both \in Nat
  <2> HIDE DEF A, B
  <2> QED BY <1>1, FS_Intersection, FS_CardinalityType
<1>5. Cardinality(A \ B) <= MaxReorg
  BY DEF Undone
<1>6. /\ new \in Nat /\ Len(Announced(h)) = new
      /\ \A i \in 1..new : /\ Announced(h)[i] \in ChainOf[h]
                           /\ Number[Announced(h)[i]] = Number[h] - new + i
  BY AnnouncedOf
<1>7. (Number[tip] + 1) - both <= MaxReorg /\ new = (Number[h] + 1) - both
  BY <1>1, <1>2, <1>3, <1>5
<1> HIDE DEF new, both
<1>8. ASSUME NEW i \in 1..new PROVE (Number[h] - new + i) + Confirmations > Number[tip]
  <2> DEFINE a == Number[h]
             t == Number[tip]
  <2>1. /\ a \in Int /\ t \in Int /\ Confirmations \in Int /\ MaxReorg \in Int
        /\ new \in Int /\ both \in Int /\ i \in Int /\ i >= 1
        /\ (t + 1) - both <= MaxReorg /\ new = (a + 1) - both /\ MaxReorg <= Confirmations
    BY <1>0, <1>4, <1>6, <1>7
  <2> HIDE DEF a, t
  <2>2. (a - new + i) + Confirmations > t
    BY ONLY <2>1
  <2> QED BY <2>2 DEF a, t
<1>9. \A i \in 1..new : Announced(h)[i] \in Headers /\ Number[Announced(h)[i]] \in Nat
  BY <1>6, ChainClosed, TreeAssumption
<1>10. \A i, j \in 1..new : i < j => Number[h] - new + i < Number[h] - new + j
  BY <1>0, <1>6
<1> QED BY <1>6, <1>8, <1>9, <1>10

(* Before the live loop: nothing was yielded or confirmed yet. *)
Early == phase \in {"down", "booted", "window", "logs"} \/ (phase \in Tasks /\ job.mode = "catchup")

Handling == {"prefetch", "handle", "walk"}
Waiting == {"poll", "dead", "done"}

EarlyInv == Early => log = <<>> /\ buf = <<>> /\ head = NoHeader /\ feed = NoFeed(feed.ws)

(* One of the two feeds is in use. *)
ShapeInv == IF feed.ws THEN feed.next = 0 /\ feed.to = -1 ELSE feed.handler = FALSE /\ feed.queue = <<>>

(* Steps of catch-up that neither save the checkpoint nor end the process. *)
EarlyStep ==
  /\ Early /\ (Early' \/ phase' = "poll")
  /\ UNCHANGED <<tip, cp, feed, head, buf, log>>

(* Steps of the live loop that only move the task on. *)
QuietStep ==
  /\ ~Early /\ ~Early'
  /\ UNCHANGED <<tip, cp, feed, head, buf, log>> /\ job'.todo = job.todo
  /\ phase' \in Handling => phase \in Handling
  /\ phase' = "poll" => phase = "poll"
  /\ phase = "dead" => phase' = "dead"
  /\ phase' \notin Waiting => phase \notin Waiting

(* A failing call of the live loop ends the task. *)
LiveFails ==
  /\ ~Early /\ phase \in Working /\ phase' = "dead" /\ job' = NoJob
  /\ UNCHANGED <<tip, cp, feed, head, buf, log, delivered>>

(* The steps, sorted by what they may do to the heights still to be served. *)
LEMMA ServedSteps ==
  ASSUME DepthInv, TaskInv, Next
  PROVE  \/ \E h \in Headers : NewTip(h)
         \/ Cancel \/ Crash \/ SaveCheckpoint \/ HandleLinked \/ WalkReturns
         \/ FetchHead \/ QueuedHead \/ PollTip \/ FeedDone \/ FetchHeadFails
         \/ SubscribeHeads \/ HandlerDies
         \/ EarlyStep \/ QuietStep \/ LiveFails
<1> USE DEF Early, Tasks, Handling, Waiting, Working, handling, bufferVars
<1>0. job \in JobRecord /\ job.mode \in {"catchup", "live"}
  BY JobFields DEF DepthInv
<1>1. CASE CatchupBegin \/ CatchupWindow \/ FetchRange \/ RangeTooLarge \/ CatchupDone \/ CatchupTipFails
           \/ CatchupWindowFails \/ Start
  <2>1. CASE Start \/ CatchupBegin \/ CatchupTipFails \/ CatchupDone \/ CatchupWindowFails
    BY <2>1 DEF EarlyStep, Start, CatchupBegin, CatchupTipFails, CatchupDone, CatchupWindowFails
  <2>2. CASE CatchupWindow
    BY <2>2 DEF EarlyStep, CatchupWindow
  <2>3. CASE FetchRange
    <3>1. job.mode = "catchup" /\ job'.mode = job.mode
      BY <1>0, <2>3 DEF FetchRange, TaskInv, JobRecord
    <3> QED BY <2>3, <3>1 DEF EarlyStep, FetchRange
  <2>4. CASE RangeTooLarge
    BY <2>4 DEF EarlyStep, RangeTooLarge
  <2> QED BY <1>1, <2>1, <2>2, <2>3, <2>4
<1>2. CASE CatchupStopped
  BY <1>2 DEF CatchupStopped, EarlyStep
<1>3. CASE FetchLogs
  <2>1. /\ phase = "confirmed" /\ phase' \in {"block", "fetched"} /\ job.mode = "live" /\ job'.mode = job.mode
        /\ job'.todo = job.todo /\ UNCHANGED <<tip, cp, feed, head, buf, log>>
    BY <1>0, <1>3 DEF FetchLogs, TaskInv, JobRecord
  <2> QED BY <2>1 DEF QuietStep
<1>4. CASE FetchBlockFirst \/ FetchBlock
  <2>1. /\ phase \in {"block", "confirmed"} /\ phase' = (IF phase = "block" THEN "fetched" ELSE phase)
        /\ phase = "confirmed" => job.mode = "live"
        /\ job'.mode = job.mode
        /\ job'.todo = job.todo /\ UNCHANGED <<tip, cp, feed, head, buf, log>>
    BY <1>0, <1>4 DEF FetchBlockFirst, FetchBlock, TaskInv, JobRecord
  <2> QED BY <2>1 DEF QuietStep, EarlyStep
<1>5. CASE Dispatch \/ TraceBlock
  <2>1. /\ phase \in {"fetched", "tracing"} /\ phase' \in {"tracing", "dispatched"} /\ job' = job
        /\ UNCHANGED <<tip, cp, feed, head, buf, log>>
    BY <1>5 DEF Dispatch, TraceBlock
  <2> QED BY <2>1 DEF QuietStep, EarlyStep
<1>6. CASE BlockFails
  <2>1. /\ phase \in {"confirmed", "block", "fetched", "tracing", "dispatched"}
        /\ phase' = (IF job.mode = "catchup" THEN "poll" ELSE "dead") /\ job' = NoJob
        /\ UNCHANGED <<tip, cp, feed, head, buf, log, delivered>>
    BY <1>6 DEF BlockFails
  <2>2. phase = "confirmed" => job.mode = "live"
    BY DEF TaskInv
  <2>3. CASE job.mode = "catchup"
    BY <2>1, <2>2, <2>3 DEF EarlyStep
  <2>4. CASE job.mode = "live"
    BY <2>1, <2>4 DEF LiveFails
  <2> QED BY <1>0, <2>3, <2>4
<1>7. CASE LiveStopped \/ PollFails
  BY <1>7 DEF LiveStopped, PollFails, QuietStep
<1>8. CASE PrefetchOne \/ PrefetchDone \/ PrefetchFails \/ HandleUnlinked \/ WalkBack \/ WalkRaises
  <2>1. CASE PrefetchOne \/ PrefetchDone \/ PrefetchFails
    BY <2>1 DEF PrefetchOne, PrefetchDone, PrefetchFails, QuietStep
  <2>2. CASE HandleUnlinked
    BY <2>2 DEF HandleUnlinked, QuietStep, Buffer!StartWalk
  <2>3. CASE WalkBack
    BY <2>3 DEF WalkBack, QuietStep, Buffer!StepBack
  <2>4. CASE WalkRaises
    BY <2>4 DEF WalkRaises, QuietStep, Buffer!ResolveRaises
  <2> QED BY <1>8, <2>1, <2>2, <2>3, <2>4
<1>9. CASE Stop \/ NotifierCleared
  BY <1>9 DEF Stop, NotifierCleared, EarlyStep, QuietStep
<1> QED BY <1>1, <1>2, <1>3, <1>4, <1>5, <1>6, <1>7, <1>8, <1>9
        DEF Next, Progress, Failure, CatchupStep, BlockStep, FeedStep, HeadStep

(* EarlyInv and ShapeInv are inductive. *)
LEMMA EarlyNext ==
  ASSUME RunnerInv, EarlyInv, ShapeInv, Next
  PROVE  EarlyInv' /\ ShapeInv'
<1>0. /\ feed \in FeedRecord /\ job \in JobRecord /\ job.mode \in {"catchup", "live"}
      /\ feed.ws \in BOOLEAN /\ feed.handler \in BOOLEAN
  BY JobFields DEF RunnerInv, FeedInv, DepthInv, FeedRecord
<1> USE DEF Early, Tasks
<1>1. CASE \E h \in Headers : NewTip(h)
  <2>1. UNCHANGED <<phase, job, head, buf, log>>
    BY <1>1 DEF NewTip, handling, bufferVars
  <2>2. feed' = feed \/ (feed.handler /\ \E q : feed' = [feed EXCEPT !.queue = q])
    BY <1>1 DEF NewTip
  <2>3. CASE feed' = feed
    BY <2>1, <2>3 DEF EarlyInv, ShapeInv
  <2>4. ASSUME feed.handler, NEW q, feed' = [feed EXCEPT !.queue = q] PROVE EarlyInv' /\ ShapeInv'
    <3>1. feed'.ws = feed.ws /\ feed'.next = feed.next /\ feed'.to = feed.to
      BY <1>0, <2>4 DEF FeedRecord
    <3>2. feed.ws
      BY <1>0, <2>4 DEF ShapeInv
    <3>3. ~Early
      BY <2>4 DEF EarlyInv, NoFeed
    <3> QED BY <2>1, <3>1, <3>2, <3>3 DEF EarlyInv, ShapeInv
  <2> QED BY <2>2, <2>3, <2>4
<1>2. CASE Cancel \/ Crash
  <2>1. log' = <<>> /\ buf' = <<>> /\ head' = NoHeader /\ feed' = NoFeed(feed.ws)
    BY <1>2 DEF Cancel, Crash, FreshRunner, FreshBuffer
  <2>2. /\ feed'.ws = feed.ws /\ feed'.next = 0 /\ feed'.to = -1 /\ feed'.handler = FALSE
        /\ feed'.queue = <<>>
    BY <2>1 DEF NoFeed
  <2> QED BY <2>1, <2>2 DEF EarlyInv, ShapeInv
<1>3. CASE SaveCheckpoint
  <2>1. UNCHANGED <<feed, head, buf, log>> /\ phase = "dispatched" /\ AfterBlock
    BY <1>3 DEF SaveCheckpoint, handling, bufferVars
  <2>2. Early' => Early
    <3>1. job' # NoJob => job'.mode = job.mode
      BY <1>0, <2>1 DEF AfterBlock, JobRecord
    <3> QED BY <1>0, <2>1, <3>1 DEF AfterBlock
  <2> QED BY <2>1, <2>2 DEF EarlyInv, ShapeInv
<1>4. CASE HandleLinked \/ WalkReturns
  <2>1. ~Early' /\ feed' = feed
    BY <1>4 DEF HandleLinked, WalkReturns, HeadAccepted
  <2> QED BY <2>1 DEF EarlyInv, ShapeInv
<1>5. CASE FetchHead
  <2>1. ~Early' /\ feed' = [feed EXCEPT !.next = feed.next + 1] /\ feed.next <= feed.to
    BY <1>5 DEF FetchHead, Yield
  <2>2. ~feed.ws
    BY <1>0, <2>1 DEF ShapeInv, FeedRecord
  <2>3. feed'.ws = feed.ws /\ feed'.handler = feed.handler /\ feed'.queue = feed.queue
    BY <1>0, <2>1 DEF FeedRecord
  <2> QED BY <2>1, <2>2, <2>3 DEF EarlyInv, ShapeInv
<1>6. CASE QueuedHead
  <2>1. ~Early' /\ feed' = [feed EXCEPT !.queue = Tail(feed.queue)] /\ feed.queue # <<>>
    BY <1>6 DEF QueuedHead, Yield
  <2>2. feed.ws
    BY <1>0, <2>1 DEF ShapeInv
  <2>3. feed'.ws = feed.ws /\ feed'.next = feed.next /\ feed'.to = feed.to
    BY <1>0, <2>1 DEF FeedRecord
  <2> QED BY <2>1, <2>2, <2>3 DEF EarlyInv, ShapeInv
<1>7. CASE PollTip
  <2>1. ~Early' /\ ~feed.ws /\ \E m, n : feed' = [feed EXCEPT !.next = m, !.to = n]
    BY <1>7 DEF PollTip
  <2>2. feed'.ws = feed.ws /\ feed'.handler = feed.handler /\ feed'.queue = feed.queue
    BY <1>0, <2>1 DEF FeedRecord
  <2> QED BY <2>1, <2>2 DEF EarlyInv, ShapeInv
<1>8. CASE FeedDone \/ FetchHeadFails
  <2>1. ~Early' /\ feed' = [feed EXCEPT !.last = feed.to]
    BY <1>8 DEF FeedDone, FetchHeadFails
  <2>2. /\ feed'.ws = feed.ws /\ feed'.handler = feed.handler /\ feed'.queue = feed.queue
        /\ feed'.next = feed.next /\ feed'.to = feed.to
    BY <1>0, <2>1 DEF FeedRecord
  <2> QED BY <2>1, <2>2 DEF EarlyInv, ShapeInv
<1>9. CASE SubscribeHeads \/ HandlerDies
  <2>1. CASE SubscribeHeads
    <3>1. ~Early' /\ feed.ws /\ feed' = [feed EXCEPT !.handler = TRUE]
      BY <2>1 DEF SubscribeHeads
    <3>2. feed'.ws = feed.ws /\ feed'.next = feed.next /\ feed'.to = feed.to
      BY <1>0, <3>1 DEF FeedRecord
    <3> QED BY <3>1, <3>2 DEF EarlyInv, ShapeInv
  <2>2. CASE HandlerDies
    <3>1. feed.handler /\ feed' = [feed EXCEPT !.handler = FALSE] /\ UNCHANGED <<phase, job, head, buf, log>>
      BY <2>2 DEF HandlerDies, handling, bufferVars
    <3>2. feed'.ws = feed.ws /\ feed'.next = feed.next /\ feed'.to = feed.to
      BY <1>0, <3>1 DEF FeedRecord
    <3>3. feed.ws
      BY <1>0, <3>1 DEF ShapeInv
    <3>4. ~Early
      BY <3>1 DEF EarlyInv, NoFeed
    <3> QED BY <3>1, <3>2, <3>3, <3>4 DEF EarlyInv, ShapeInv
  <2> QED BY <1>9, <2>1, <2>2
<1>10. CASE EarlyStep
  BY <1>10 DEF EarlyStep, EarlyInv, ShapeInv
<1>11. CASE QuietStep \/ LiveFails
  BY <1>11 DEF QuietStep, LiveFails, EarlyInv, ShapeInv
<1> QED BY <1>1, <1>2, <1>3, <1>4, <1>5, <1>6, <1>7, <1>8, <1>9, <1>10, <1>11, ServedSteps DEF RunnerInv

(* What h has buried is on the node's present chain. *)
Settled(h) == \A g \in ChainOf[h] : Number[g] + Confirmations <= Number[h] => g \in ChainOf[tip]

(* The checkpoint, the heads not handled yet, and what was confirmed. *)
LogInv ==
  /\ cp # NoHeader => Deep(Number[cp])
  /\ head \in Headers => Settled(head)
  /\ \A i \in 1..Len(feed.queue) : Settled(feed.queue[i])
  /\ \A i \in 1..Len(log) : log[i] \in ChainOf[tip] /\ Deep(Number[log[i]])

(* What a settled head has buried stays on the chain of the node. *)
LEMMA SettledStays ==
  ASSUME MaxReorg <= Confirmations, tip \in Headers, Next,
         NEW h \in Headers, Number[h] <= Number[tip], Settled(h)
  PROVE  \A g \in ChainOf[h] : Number[g] + Confirmations <= Number[h] => g \in ChainOf[tip']
<1> SUFFICES ASSUME NEW g \in ChainOf[h], Number[g] + Confirmations <= Number[h]
             PROVE  g \in ChainOf[tip']
  OBVIOUS
<1>1. g \in ChainOf[tip]
  BY DEF Settled
<1>2. g \in Headers /\ Number[g] \in Nat /\ Number[h] \in Nat /\ Number[tip] \in Nat /\ Confirmations \in Nat
  BY ChainClosed, TreeAssumption
<1>3. Number[g] + Confirmations <= Number[tip]
  BY <1>2
<1> QED BY <1>1, <1>2, <1>3, DeepStays DEF Deep

(* LogInv is inductive. *)
LEMMA LogNext ==
  ASSUME MaxReorg <= Confirmations, RunnerInv, LogInv, Next
  PROVE  LogInv'
<1>0. /\ tip \in Headers /\ tip' \in Headers /\ Number[tip] \in Nat /\ Number[tip'] \in Nat
      /\ Number[tip] <= Number[tip'] /\ Confirmations \in Nat
      /\ feed \in FeedRecord /\ feed.queue \in Seq(Headers) /\ cp \in Headers \cup {NoHeader}
      /\ head \in Headers \cup {NoHeader} /\ log \in Seq(Headers) /\ NoHeader \notin Headers
  BY TipGrows, TreeAssumption, RunnerAssumption
     DEF RunnerInv, FeedInv, FeedRecord, SaveInv, HeadInv, BufferInv, BP!ChainInv, BP!TypeOK
<1>a. ASSUME cp' = cp PROVE cp' # NoHeader => Deep(Number[cp])'
  <2>1. CASE cp = NoHeader
    BY <1>a, <2>1
  <2>2. CASE cp # NoHeader
    <3>1. Number[cp] \in Nat /\ Number[cp] + Confirmations <= Number[tip]
      BY <2>2 DEF LogInv, Deep
    <3>2. Number[cp] + Confirmations <= Number[tip']
      BY <1>0, <3>1
    <3> QED BY <1>a, <3>1, <3>2 DEF Deep
  <2> QED BY <2>1, <2>2
<1>b. ASSUME head \in Headers
      PROVE  \A g \in ChainOf[head] : Number[g] + Confirmations <= Number[head] => g \in ChainOf[tip']
  BY <1>0, <1>b, SettledStays DEF RunnerInv, HeadInv, LogInv
<1>c. ASSUME NEW i \in 1..Len(feed.queue)
      PROVE  \A g \in ChainOf[feed.queue[i]] :
               Number[g] + Confirmations <= Number[feed.queue[i]] => g \in ChainOf[tip']
  <2> DEFINE q == feed.queue[i]
  <2>1. q \in Headers /\ Number[q] <= Number[tip] /\ Settled(q)
    BY <1>0 DEF RunnerInv, FeedInv, LogInv
  <2> HIDE DEF q
  <2>2. \A g \in ChainOf[q] : Number[g] + Confirmations <= Number[q] => g \in ChainOf[tip']
    BY <1>0, <2>1, SettledStays
  <2> QED BY <2>2 DEF q
<1>d. ASSUME NEW i \in 1..Len(log)
      PROVE  log[i] \in ChainOf[tip'] /\ Number[log[i]] \in Nat /\ Number[log[i]] + Confirmations <= Number[tip']
  BY <1>0, DeepStays DEF LogInv
<1>e. ASSUME cp' = cp, head' = head \/ head' = NoHeader, feed'.queue = feed.queue \/ feed'.queue = <<>>,
             log' = log \/ log' = <<>>
      PROVE  LogInv'
  <2>1. Len(<<>>) = 0
    OBVIOUS
  <2>2. (head \in Headers => Settled(head))'
    BY <1>0, <1>b, <1>e DEF Settled
  <2>3. (\A i \in 1..Len(feed.queue) : Settled(feed.queue[i]))'
    BY <1>c, <1>e, <2>1 DEF Settled
  <2>4. (\A i \in 1..Len(log) : log[i] \in ChainOf[tip] /\ Deep(Number[log[i]]))'
    BY <1>d, <1>e, <2>1 DEF Deep
  <2> QED BY <1>a, <1>e, <2>2, <2>3, <2>4 DEF LogInv
<1>f. \A h \in Headers : \A a \in ChainOf[h] : \A g \in ChainOf[a] : g \in ChainOf[h]
  BY ChainTransitive
<1>1. ASSUME NEW h \in Headers, NewTip(h) PROVE LogInv'
  <2>1. tip' = h /\ UNCHANGED <<cp, head, log>>
    BY <1>1 DEF NewTip, handling, bufferVars
  <2>2. CASE feed' = feed
    BY <1>e, <2>1, <2>2
  <2>3. CASE feed' = [feed EXCEPT !.queue = @ \o Announced(h)]
    <3> DEFINE q == feed.queue \o Announced(h)
    <3>1. ASSUME NEW i \in 1..Len(q)
          PROVE  \A g \in ChainOf[q[i]] : Number[g] + Confirmations <= Number[q[i]] => g \in ChainOf[h]
      <4>1. CASE i \in 1..Len(feed.queue) /\ q[i] = feed.queue[i]
        BY <1>c, <2>1, <4>1
      <4>2. ASSUME NEW j \in 1..Len(Announced(h)), q[i] = Announced(h)[j]
            PROVE  \A g \in ChainOf[q[i]] : Number[g] + Confirmations <= Number[q[i]] => g \in ChainOf[h]
        <5>1. Announced(h)[j] \in ChainOf[h]
          BY <1>0, AnnouncedOf
        <5> QED BY <1>f, <4>2, <5>1
      <4> QED BY <1>0, <4>1, <4>2, QueueGrows
    <3> HIDE DEF q
    <3>2. feed' = [feed EXCEPT !.queue = q]
      BY <2>3 DEF q
    <3>3. feed'.queue = q
      BY <1>0, <3>2 DEF FeedRecord
    <3>4. (\A i \in 1..Len(feed.queue) : Settled(feed.queue[i]))'
      BY <2>1, <3>1, <3>3 DEF Settled
    <3>5. (head \in Headers => Settled(head))'
      BY <1>b, <2>1 DEF Settled
    <3>6. (\A i \in 1..Len(log) : log[i] \in ChainOf[tip] /\ Deep(Number[log[i]]))'
      BY <1>d, <2>1 DEF Deep
    <3> QED BY <1>a, <2>1, <3>4, <3>5, <3>6 DEF LogInv
  <2> QED BY <1>1, <2>2, <2>3 DEF NewTip
<1>2. CASE Cancel \/ Crash
  <2>1. cp' = cp /\ log' = <<>> /\ head' = NoHeader /\ feed' = NoFeed(feed.ws)
    BY <1>2 DEF Cancel, Crash, FreshRunner, FreshBuffer
  <2>2. feed'.queue = <<>>
    BY <2>1 DEF NoFeed
  <2> QED BY <1>e, <2>1, <2>2
<1>3. CASE SaveCheckpoint
  <2>1. cp' = job.block /\ UNCHANGED <<tip, feed, head, log>> /\ phase = "dispatched"
    BY <1>3 DEF SaveCheckpoint, handling, bufferVars
  <2>2. Number[job.block] = Current /\ job.todo # {} /\ job.todo \in SUBSET Nat
    BY <2>1, JobFields DEF RunnerInv, TaskInv, DepthInv, Working, Tasks
  <2>3. Current \in job.todo
    BY <2>2, MinOfNats DEF Current
  <2>4. Current \in Nat /\ Current + Confirmations <= Number[tip]
    BY <2>3 DEF RunnerInv, DepthInv, Deep
  <2>5. (cp # NoHeader => Deep(Number[cp]))'
    BY <2>1, <2>2, <2>4 DEF Deep
  <2> QED BY <2>1, <2>5 DEF LogInv, Settled, Deep
<1>4. CASE HandleLinked \/ WalkReturns
  <2>1. UNCHANGED <<tip, cp, head, feed>>
    BY <1>4 DEF HandleLinked, WalkReturns
  <2>2. PICK s, k :
           /\ BP!IsChain(s) /\ s # <<>> /\ s[Len(s)] = head /\ head \in Headers
           /\ k \in 0..Len(s) /\ \A i \in 1..k : Number[s[i]] + Confirmations <= Number[head]
           /\ confirmed' = SubSeq(s, 1, k)
           /\ log' = confirmed' \/ log' = log \o confirmed'
    BY <1>4, Accepts DEF RunnerInv
  <2> DEFINE c == SubSeq(s, 1, k)
  <2>3. s \in Seq(Headers) /\ Len(s) \in Nat
    BY <2>2 DEF BP!IsChain
  <2>4. c \in Seq(Headers) /\ Len(c) = k /\ k \in Nat /\ \A i \in 1..k : i \in 1..Len(s) /\ c[i] = s[i]
    BY <2>2, <2>3
  <2> HIDE DEF c
  <2>5. ASSUME NEW i \in 1..k
        PROVE  c[i] \in ChainOf[tip] /\ Number[c[i]] \in Nat /\ Number[c[i]] + Confirmations <= Number[tip]
    <3>1. c[i] \in ChainOf[head] /\ c[i] \in Headers
      BY <2>2, <2>3, <2>4, SequenceOnChain
    <3>2. Number[c[i]] + Confirmations <= Number[head]
      BY <2>2, <2>4
    <3>3. c[i] \in ChainOf[tip]
      BY <2>2, <3>1, <3>2 DEF LogInv, Settled
    <3>4. Number[c[i]] \in Nat /\ Number[head] \in Nat /\ Number[head] <= Number[tip]
      BY <2>2, <3>1, TreeAssumption DEF RunnerInv, HeadInv
    <3> QED BY <1>0, <3>2, <3>3, <3>4
  <2>6. /\ log \o c \in Seq(Headers) /\ Len(log \o c) = Len(log) + k /\ Len(log) \in Nat
        /\ \A i \in 1..Len(log \o c) : (log \o c)[i] = IF i <= Len(log) THEN log[i] ELSE c[i - Len(log)]
    <3>1. log \in Seq(Headers) /\ c \in Seq(Headers) /\ Len(log) \in Nat
      BY <1>0, <2>4
    <3>2. /\ log \o c \in Seq(Headers) /\ Len(log \o c) = Len(log) + Len(c)
          /\ \A i \in 1..Len(log) + Len(c) :
               (log \o c)[i] = IF i <= Len(log) THEN log[i] ELSE c[i - Len(log)]
      BY ONLY <3>1, ConcatProperties
    <3> QED BY <2>4, <3>1, <3>2
  <2>7. ASSUME NEW i \in 1..Len(log')
        PROVE  /\ log'[i] \in ChainOf[tip] /\ Number[log'[i]] \in Nat
               /\ Number[log'[i]] + Confirmations <= Number[tip]
    <3>1. CASE log' = c
      BY <2>4, <2>5, <3>1
    <3>2. CASE log' = log \o c /\ i <= Len(log)
      <4>1. i \in 1..Len(log) /\ log'[i] = log[i]
        BY <2>6, <3>2
      <4> QED BY <4>1 DEF LogInv, Deep
    <3>3. CASE log' = log \o c /\ ~(i <= Len(log))
      <4>1. i - Len(log) \in 1..k /\ log'[i] = c[i - Len(log)]
        BY <2>4, <2>6, <3>3
      <4> QED BY <2>5, <4>1
    <3> QED BY <2>2, <3>1, <3>2, <3>3 DEF c
  <2>8. (\A i \in 1..Len(log) : log[i] \in ChainOf[tip] /\ Deep(Number[log[i]]))'
    BY <2>1, <2>7 DEF Deep
  <2> QED BY <2>1, <2>8 DEF LogInv, Settled, Deep
<1>5. ASSUME NEW h \in Headers, Settled(h), head' = h, UNCHANGED <<tip, cp, log>>,
             \A i \in 1..Len(feed'.queue) : \E j \in 1..Len(feed.queue) : feed'.queue[i] = feed.queue[j]
      PROVE  LogInv'
  <2>1. (\A i \in 1..Len(feed.queue) : Settled(feed.queue[i]))'
    BY <1>5 DEF LogInv, Settled
  <2> QED BY <1>5, <2>1 DEF LogInv, Settled, Deep
<1>6. CASE FetchHead
  <2>1. feed.next \in Nat /\ feed.next <= Number[tip] /\ feed' = [feed EXCEPT !.next = feed.next + 1]
    BY <1>0, <1>6 DEF FetchHead, RunnerInv, FeedInv, FeedRecord
  <2>2. BlockAt(tip, feed.next) \in Headers /\ BlockAt(tip, feed.next) \in ChainOf[tip]
    BY <1>0, <2>1, BlockAtHeight
  <2>3. Settled(BlockAt(tip, feed.next))
    BY <1>0, <1>f, <2>2 DEF Settled
  <2>4. feed'.queue = feed.queue
    BY <1>0, <2>1 DEF FeedRecord
  <2>5. head' = BlockAt(tip, feed.next) /\ UNCHANGED <<tip, cp, log>>
    BY <1>6 DEF FetchHead, Yield, bufferVars
  <2> QED BY <1>5, <2>2, <2>3, <2>4, <2>5
<1>7. CASE QueuedHead
  <2>1. feed.queue # <<>> /\ feed' = [feed EXCEPT !.queue = Tail(feed.queue)]
    BY <1>7 DEF QueuedHead
  <2>2. /\ 1 \in 1..Len(feed.queue) /\ Head(feed.queue) = feed.queue[1] /\ feed.queue[1] \in Headers
        /\ \A i \in 1..Len(Tail(feed.queue)) :
             i + 1 \in 1..Len(feed.queue) /\ Tail(feed.queue)[i] = feed.queue[i + 1]
    BY <1>0, <2>1
  <2>3. feed'.queue = Tail(feed.queue)
    BY <1>0, <2>1 DEF FeedRecord
  <2>4. head' = feed.queue[1] /\ UNCHANGED <<tip, cp, log>>
    BY <1>7, <2>2 DEF QueuedHead, Yield, bufferVars
  <2>5. Settled(feed.queue[1])
    BY <2>2 DEF LogInv
  <2> QED BY <1>5, <2>2, <2>3, <2>4, <2>5
<1>8. CASE PollTip
  <2>1. \E m, n : feed' = [feed EXCEPT !.next = m, !.to = n]
    BY <1>8 DEF PollTip
  <2>2. feed'.queue = feed.queue /\ UNCHANGED <<cp, head, log>>
    BY <1>0, <1>8, <2>1 DEF FeedRecord, PollTip, handling, bufferVars
  <2> QED BY <1>e, <2>2
<1>9. CASE FeedDone \/ FetchHeadFails \/ SubscribeHeads \/ HandlerDies
  <2>1. \/ \E m : feed' = [feed EXCEPT !.last = m]
        \/ \E m : feed' = [feed EXCEPT !.handler = m]
    BY <1>9 DEF FeedDone, FetchHeadFails, SubscribeHeads, HandlerDies
  <2>2. feed'.queue = feed.queue
    BY <1>0, <2>1 DEF FeedRecord
  <2>3. UNCHANGED <<cp, head, log>>
    BY <1>9 DEF FeedDone, FetchHeadFails, SubscribeHeads, HandlerDies, handling, bufferVars
  <2> QED BY <1>e, <2>2, <2>3
<1>10. CASE EarlyStep \/ QuietStep \/ LiveFails
  BY <1>10, <1>e DEF EarlyStep, QuietStep, LiveFails
<1> QED BY <1>1, <1>2, <1>3, <1>4, <1>6, <1>7, <1>8, <1>9, <1>10, ServedSteps DEF RunnerInv

(* What a returning call leaves in the window is above what it confirmed,  *)
(* neither is below whatever the old window and the head are not below,    *)
(* and the heights to process are those of the new headers of the history. *)
LEMMA AcceptedOrder ==
  ASSUME HeadInv, BufferInv, HandleLinked \/ WalkReturns
  PROVE  /\ buf' \in Seq(Headers)
         /\ \A n \in job'.todo : \A i \in 1..Len(buf') : n < Number[buf'[i]]
         /\ \A m \in Int :
              (m <= Number[head] /\ \A i \in 1..Len(buf) : m <= Number[buf[i]])
              => /\ \A n \in job'.todo : m <= n
                 /\ \A i \in 1..Len(buf') : m <= Number[buf'[i]]
         /\ \A i \in 1..Len(log') : \/ \E j \in 1..Len(log) : log'[i] = log[j]
                                    \/ Number[log'[i]] \in job'.todo
<1>1. PICK s, k :
        /\ BP!IsChain(s) /\ s # <<>> /\ s[Len(s)] = head /\ head \in Headers
        /\ s = <<head>> \/ (buf # <<>> /\ s[1] = buf[1])
        /\ k \in 0..Len(s)
        /\ confirmed' = SubSeq(s, 1, k) /\ buf' = SubSeq(s, k + 1, Len(s))
        /\ log' = confirmed' \/ log' = log \o confirmed'
  BY Accepts
<1> DEFINE c == SubSeq(s, 1, k)
           b == SubSeq(s, k + 1, Len(s))
           L == Len(s)
<1>2. s \in Seq(Headers) /\ L \in Nat \ {0} /\ k \in Nat /\ k <= L
  BY <1>1 DEF BP!IsChain
<1>3. c \in Seq(Headers) /\ Len(c) = k /\ \A i \in 1..k : c[i] = s[i]
  BY <1>1, <1>2
<1>4. b \in Seq(Headers) /\ Len(b) = L - k /\ \A i \in 1..(L - k) : b[i] = s[k + i]
  BY <1>1, <1>2
<1>5. \A i, j \in 1..L : Number[s[j]] - Number[s[i]] = j - i
  BY <1>1 DEF BP!IsChain, BP!Consecutive
<1>6. \A i \in 1..L : s[i] \in Headers /\ Number[s[i]] \in Nat
  BY <1>2, TreeAssumption
<1>7. confirmed' = c /\ buf' = b /\ job'.todo = {Number[c[i]] : i \in 1..k}
  BY <1>1, <1>3, JobAccepted
<1> HIDE DEF c, b, L
<1>8. \A i, j \in 1..L : i < j => Number[s[i]] < Number[s[j]]
  <2> SUFFICES ASSUME NEW i \in 1..L, NEW j \in 1..L, i < j PROVE Number[s[i]] < Number[s[j]]
    OBVIOUS
  <2> DEFINE x == Number[s[i]]
             y == Number[s[j]]
  <2>1. x \in Nat /\ y \in Nat /\ y - x = j - i /\ i \in Int /\ j \in Int
    BY <1>2, <1>5, <1>6
  <2> HIDE DEF x, y
  <2>2. x < y
    BY ONLY <2>1, i < j
  <2> QED BY <2>2 DEF x, y
<1>9. ASSUME NEW i \in 1..k, NEW j \in 1..(L - k) PROVE Number[c[i]] < Number[b[j]]
  <2>1. i \in 1..L /\ k + j \in 1..L /\ i < k + j
    BY <1>2
  <2> QED BY <1>3, <1>4, <1>8, <2>1
<1>10. ASSUME NEW m \in Int, m <= Number[head], \A i \in 1..Len(buf) : m <= Number[buf[i]], NEW j \in 1..L
       PROVE  m <= Number[s[j]]
  <2>1. 1 \in 1..L
    BY <1>2
  <2>2. m <= Number[s[1]]
    <3>1. CASE s = <<head>>
      <4>1. s[1] = head
        BY <3>1
      <4> QED BY <1>10, <4>1
    <3>2. CASE buf # <<>> /\ s[1] = buf[1]
      <4>1. 1 \in 1..Len(buf)
        BY <3>2 DEF BufferInv, BP!ChainInv, BP!TypeOK
      <4> QED BY <1>10, <3>2, <4>1
    <3> QED BY <1>1, <3>1, <3>2
  <2>3. j = 1 \/ Number[s[1]] < Number[s[j]]
    BY <1>2, <1>8, <2>1
  <2>4. Number[s[1]] \in Nat /\ Number[s[j]] \in Nat
    BY <1>6, <2>1
  <2> QED BY <2>2, <2>3, <2>4
<1>11. ASSUME NEW m \in Int, m <= Number[head], \A i \in 1..Len(buf) : m <= Number[buf[i]]
       PROVE  (\A n \in job'.todo : m <= n) /\ (\A i \in 1..Len(buf') : m <= Number[buf'[i]])
  <2>1. \A i \in 1..k : i \in 1..L
    BY <1>2
  <2>2. \A i \in 1..(L - k) : k + i \in 1..L
    BY <1>2
  <2>3. \A i \in 1..k : m <= Number[c[i]]
    BY <1>3, <1>10, <1>11, <2>1
  <2>4. \A i \in 1..(L - k) : m <= Number[b[i]]
    BY <1>4, <1>10, <1>11, <2>2
  <2> QED BY <1>4, <1>7, <2>3, <2>4
<1>12. ASSUME NEW i \in 1..Len(log')
       PROVE  (\E j \in 1..Len(log) : log'[i] = log[j]) \/ Number[log'[i]] \in job'.todo
  <2>1. CASE log' = c
    BY <1>3, <1>7, <2>1
  <2>2. CASE log' = log \o c
    <3>1. log \in Seq(Headers)
      BY DEF BufferInv, BP!ChainInv, BP!TypeOK
    <3>2. /\ Len(log \o c) = Len(log) + k /\ Len(log) \in Nat
          /\ \A j \in 1..Len(log \o c) : (log \o c)[j] = IF j <= Len(log) THEN log[j] ELSE c[j - Len(log)]
      BY <1>3, <3>1
    <3>3. CASE i <= Len(log)
      BY <2>2, <3>2, <3>3
    <3>4. CASE ~(i <= Len(log))
      <4>1. i - Len(log) \in 1..k /\ log'[i] = c[i - Len(log)]
        BY <1>2, <2>2, <3>2, <3>4
      <4> QED BY <1>7, <4>1
    <3> QED BY <3>3, <3>4
  <2> QED BY <1>1, <2>1, <2>2 DEF c
<1> QED BY <1>4, <1>7, <1>9, <1>11, <1>12

(* No announced header is as deep as what the heads before it buried. *)
QueueInv ==
  /\ head \in Headers => \A k \in 1..Len(feed.queue) : Number[feed.queue[k]] + Confirmations > Number[head]
  /\ \A j, k \in 1..Len(feed.queue) :
       j < k => Number[feed.queue[k]] + Confirmations > Number[feed.queue[j]]

(* A polled head is one the range has passed. *)
PollInv ==
  (~feed.ws /\ head \in Headers) =>
    /\ phase \notin Waiting => Number[head] < feed.next /\ Number[head] <= feed.to
    /\ phase = "poll" => Number[head] <= feed.last

(* What is being processed live was buried by the head and left the window. *)
TodoInv ==
  ~Early => \A n \in job.todo : /\ head \in Headers /\ n + Confirmations <= Number[head]
                                /\ \A i \in 1..Len(buf) : n < Number[buf[i]]

(* QueueInv is inductive. *)
LEMMA QueueNext ==
  ASSUME MaxReorg <= Confirmations, RunnerInv, ShapeInv, QueueInv, Next
  PROVE  QueueInv'
<1>0. /\ tip \in Headers /\ Number[tip] \in Nat /\ Confirmations \in Nat /\ NoHeader \notin Headers
      /\ feed \in FeedRecord /\ feed.queue \in Seq(Headers) /\ head \in Headers \cup {NoHeader}
  BY TreeAssumption, RunnerAssumption DEF RunnerInv, FeedInv, FeedRecord, HeadInv
<1>a. ASSUME head' = head \/ head' = NoHeader, feed'.queue = feed.queue \/ feed'.queue = <<>> PROVE QueueInv'
  <2>1. Len(<<>>) = 0
    OBVIOUS
  <2>2. CASE feed'.queue = <<>>
    BY <2>1, <2>2 DEF QueueInv
  <2>3. CASE feed'.queue = feed.queue
    BY <1>0, <1>a, <2>3 DEF QueueInv
  <2> QED BY <1>a, <2>2, <2>3
<1>1. ASSUME NEW h \in Headers, NewTip(h) PROVE QueueInv'
  <2>1. head' = head /\ Cardinality(Undone(h)) <= MaxReorg
    BY <1>1 DEF NewTip, handling
  <2>2. CASE feed' = feed
    BY <1>a, <2>1, <2>2
  <2>3. CASE feed' = [feed EXCEPT !.queue = @ \o Announced(h)]
    <3> DEFINE q == feed.queue
               a == Announced(h)
               r == q \o a
    <3>1. /\ \A i \in 1..Len(a) : Number[a[i]] \in Nat /\ Number[a[i]] + Confirmations > Number[tip]
          /\ \A i, j \in 1..Len(a) : i < j => Number[a[i]] < Number[a[j]]
      BY <1>0, <2>1, AnnouncedHigh
    <3>2. \A i \in 1..Len(r) : \/ i \in 1..Len(q) /\ r[i] = q[i]
                               \/ \E j \in 1..Len(a) : i = Len(q) + j /\ r[i] = a[j]
      BY <1>0, QueueGrows
    <3>3. \A i \in 1..Len(q) : Number[q[i]] \in Nat /\ Number[q[i]] <= Number[tip]
      BY <1>0, TreeAssumption DEF RunnerInv, FeedInv
    <3>4. head \in Headers => Number[head] \in Nat /\ Number[head] <= Number[tip]
      BY TreeAssumption DEF RunnerInv, HeadInv
    <3>5. feed' = [feed EXCEPT !.queue = r] /\ Len(q) \in Nat /\ Len(a) \in Nat
      BY <1>0, <2>3, AnnouncedOf
    <3>6. \A k \in 1..Len(q) : head \in Headers => Number[q[k]] + Confirmations > Number[head]
      BY DEF QueueInv
    <3>7. \A j, k \in 1..Len(q) : j < k => Number[q[k]] + Confirmations > Number[q[j]]
      BY DEF QueueInv
    <3> HIDE DEF q, a, r
    <3>8. feed'.queue = r
      BY <1>0, <3>5 DEF FeedRecord
    <3>a. \A x, y \in Nat : x + Confirmations > Number[tip] /\ y <= Number[tip] => x + Confirmations > y
      BY <1>0
    <3>9. ASSUME NEW k \in 1..Len(r), head \in Headers PROVE Number[r[k]] + Confirmations > Number[head]
      <4>1. CASE k \in 1..Len(q) /\ r[k] = q[k]
        BY <3>6, <3>9, <4>1
      <4>2. ASSUME NEW j \in 1..Len(a), r[k] = a[j] PROVE Number[r[k]] + Confirmations > Number[head]
        BY <3>1, <3>4, <3>9, <3>a, <4>2
      <4> QED BY <3>2, <4>1, <4>2
    <3>10. ASSUME NEW j \in 1..Len(r), NEW k \in 1..Len(r), j < k
           PROVE  Number[r[k]] + Confirmations > Number[r[j]]
      <4>1. CASE k \in 1..Len(q) /\ r[k] = q[k]
        <5>1. j \in 1..Len(q) /\ r[j] = q[j]
          BY <3>2, <3>5, <3>10, <4>1
        <5> QED BY <3>7, <3>10, <4>1, <5>1
      <4>2. ASSUME NEW m \in 1..Len(a), k = Len(q) + m, r[k] = a[m]
            PROVE  Number[r[k]] + Confirmations > Number[r[j]]
        <5>1. CASE j \in 1..Len(q) /\ r[j] = q[j]
          BY <3>1, <3>3, <3>a, <4>2, <5>1
        <5>2. ASSUME NEW n \in 1..Len(a), j = Len(q) + n, r[j] = a[n]
              PROVE  Number[r[k]] + Confirmations > Number[r[j]]
          <6>1. n < m
            BY <3>5, <3>10, <4>2, <5>2
          <6>2. \A x, y \in Nat : x < y => y + Confirmations > x
            BY <1>0
          <6>3. Number[a[n]] < Number[a[m]]
            BY <3>1, <6>1
          <6> QED BY <3>1, <4>2, <5>2, <6>2, <6>3
        <5> QED BY <3>2, <5>1, <5>2
      <4> QED BY <3>2, <4>1, <4>2
    <3> QED BY <2>1, <3>8, <3>9, <3>10 DEF QueueInv
  <2> QED BY <1>1, <2>2, <2>3 DEF NewTip
<1>2. CASE FetchHead
  <2>1. feed' = [feed EXCEPT !.next = feed.next + 1] /\ feed.next <= feed.to
    BY <1>2 DEF FetchHead
  <2>2. ~feed.ws
    BY <1>0, <2>1 DEF ShapeInv, FeedRecord
  <2>3. feed'.queue = <<>> /\ Len(<<>>) = 0
    BY <1>0, <2>1, <2>2 DEF FeedRecord, ShapeInv
  <2> QED BY <2>3 DEF QueueInv
<1>3. CASE QueuedHead
  <2> DEFINE q == feed.queue
  <2>1. q # <<>> /\ feed' = [feed EXCEPT !.queue = Tail(q)] /\ head' = Head(q)
    BY <1>3 DEF QueuedHead, Yield
  <2>2. /\ 1 \in 1..Len(q) /\ Head(q) = q[1] /\ Len(q) \in Nat /\ Len(Tail(q)) = Len(q) - 1
        /\ \A i \in 1..Len(Tail(q)) : i + 1 \in 1..Len(q) /\ 1 < i + 1 /\ Tail(q)[i] = q[i + 1]
    BY <1>0, <2>1
  <2>3. feed'.queue = Tail(q)
    BY <1>0, <2>1 DEF FeedRecord
  <2>4. \A j, k \in 1..Len(q) : j < k => Number[q[k]] + Confirmations > Number[q[j]]
    BY DEF QueueInv
  <2>5. \A i, j \in 1..Len(Tail(q)) : i < j => i + 1 < j + 1
    BY <2>2
  <2> HIDE DEF q
  <2> QED BY <2>1, <2>2, <2>3, <2>4, <2>5 DEF QueueInv
<1>4. CASE Cancel \/ Crash
  <2>1. head' = NoHeader /\ feed' = NoFeed(feed.ws)
    BY <1>4 DEF Cancel, Crash, FreshRunner
  <2>2. feed'.queue = <<>>
    BY <2>1 DEF NoFeed
  <2> QED BY <1>a, <2>1, <2>2
<1>5. CASE SaveCheckpoint \/ HandleLinked \/ WalkReturns
  <2>1. UNCHANGED <<head, feed>>
    BY <1>5 DEF SaveCheckpoint, HandleLinked, WalkReturns, handling
  <2> QED BY <1>a, <2>1
<1>6. CASE PollTip
  <2>1. head' = head /\ \E m, n : feed' = [feed EXCEPT !.next = m, !.to = n]
    BY <1>6 DEF PollTip, handling
  <2>2. feed'.queue = feed.queue
    BY <1>0, <2>1 DEF FeedRecord
  <2> QED BY <1>a, <2>1, <2>2
<1>7. CASE FeedDone \/ FetchHeadFails \/ SubscribeHeads \/ HandlerDies
  <2>1. /\ head' = head
        /\ \/ \E m : feed' = [feed EXCEPT !.last = m]
           \/ \E m : feed' = [feed EXCEPT !.handler = m]
    BY <1>7 DEF FeedDone, FetchHeadFails, SubscribeHeads, HandlerDies, handling
  <2>2. feed'.queue = feed.queue
    BY <1>0, <2>1 DEF FeedRecord
  <2> QED BY <1>a, <2>1, <2>2
<1>8. CASE EarlyStep \/ QuietStep \/ LiveFails
  BY <1>8, <1>a DEF EarlyStep, QuietStep, LiveFails
<1> QED BY <1>1, <1>2, <1>3, <1>4, <1>5, <1>6, <1>7, <1>8, ServedSteps DEF RunnerInv

(* PollInv is inductive: polled heads rise. *)
LEMMA PollNext ==
  ASSUME RunnerInv, EarlyInv, ShapeInv, PollInv, Next
  PROVE  PollInv'
<1>0. /\ tip \in Headers /\ Number[tip] \in Nat /\ NoHeader \notin Headers
      /\ feed \in FeedRecord /\ head \in Headers \cup {NoHeader}
      /\ head \in Headers => Number[head] \in Nat /\ Number[head] <= Number[tip]
  BY TreeAssumption, RunnerAssumption DEF RunnerInv, FeedInv, HeadInv
<1> USE DEF Waiting
<1>1. CASE \E h \in Headers : NewTip(h)
  <2>1. UNCHANGED <<head, phase>> /\ (feed' = feed \/ \E q : feed' = [feed EXCEPT !.queue = q])
    BY <1>1 DEF NewTip, handling
  <2>2. /\ feed'.ws = feed.ws /\ feed'.next = feed.next /\ feed'.to = feed.to /\ feed'.last = feed.last
    BY <1>0, <2>1 DEF FeedRecord
  <2> QED BY <2>1, <2>2 DEF PollInv
<1>2. CASE Cancel \/ Crash
  <2>1. head' = NoHeader
    BY <1>2 DEF Cancel, Crash, FreshRunner
  <2> QED BY <1>0, <2>1 DEF PollInv
<1>3. CASE SaveCheckpoint
  <2>1. UNCHANGED <<head, feed>> /\ phase \notin Waiting /\ phase' # "poll"
    BY <1>3 DEF SaveCheckpoint, AfterBlock, handling
  <2> QED BY <2>1 DEF PollInv
<1>4. CASE HandleLinked \/ WalkReturns
  <2>1. UNCHANGED <<head, feed>> /\ phase \notin Waiting /\ phase' # "poll"
    BY <1>4 DEF HandleLinked, WalkReturns, HeadAccepted
  <2> QED BY <2>1 DEF PollInv
<1>5. CASE FetchHead
  <2>1. /\ feed.next <= feed.to /\ feed' = [feed EXCEPT !.next = feed.next + 1]
        /\ head' = BlockAt(tip, feed.next) /\ phase' # "poll"
    BY <1>5 DEF FetchHead, Yield
  <2>2. feed.next \in Nat /\ feed.to \in Int /\ feed.next <= Number[tip]
    BY <1>0, <2>1 DEF RunnerInv, FeedInv, FeedRecord
  <2>3. Number[head'] = feed.next
    BY <1>0, <2>1, <2>2, BlockAtHeight
  <2>4. feed'.next = feed.next + 1 /\ feed'.to = feed.to
    BY <1>0, <2>1 DEF FeedRecord
  <2> QED BY <2>1, <2>2, <2>3, <2>4 DEF PollInv
<1>6. CASE QueuedHead
  <2>1. feed' = [feed EXCEPT !.queue = Tail(feed.queue)] /\ feed.queue # <<>>
    BY <1>6 DEF QueuedHead
  <2>2. feed.ws /\ feed'.ws = feed.ws
    BY <1>0, <2>1 DEF ShapeInv, FeedRecord
  <2> QED BY <2>2 DEF PollInv
<1>7. CASE PollTip
  <2> DEFINE first == IF feed.last >= 0 THEN feed.last + 1 ELSE Number[tip]
             top == Number[tip]
  <2>1. /\ feed' = [feed EXCEPT !.next = first, !.to = top] /\ phase = "poll" /\ ~feed.ws
        /\ phase' = "feed" /\ head' = head /\ feed.last \in Int
    BY <1>0, <1>7 DEF PollTip, handling, FeedRecord
  <2>2. head \in Headers => Number[head] \in Nat /\ Number[head] <= feed.last /\ Number[head] <= top
    BY <1>0, <2>1 DEF PollInv
  <2>3. head \in Headers => Number[head] < first
    BY <2>1, <2>2
  <2> HIDE DEF first, top
  <2>4. feed'.next = first /\ feed'.to = top
    BY <1>0, <2>1 DEF FeedRecord
  <2> QED BY <2>1, <2>2, <2>3, <2>4 DEF PollInv
<1>8. CASE FeedDone \/ FetchHeadFails
  <2>1. feed' = [feed EXCEPT !.last = feed.to] /\ phase = "feed" /\ phase' = "poll" /\ head' = head
    BY <1>8 DEF FeedDone, FetchHeadFails, handling
  <2>2. feed'.last = feed.to /\ feed'.ws = feed.ws
    BY <1>0, <2>1 DEF FeedRecord
  <2> QED BY <2>1, <2>2 DEF PollInv
<1>9. CASE SubscribeHeads
  <2>1. feed' = [feed EXCEPT !.handler = TRUE] /\ feed.ws
    BY <1>9 DEF SubscribeHeads
  <2>2. feed'.ws = feed.ws
    BY <1>0, <2>1 DEF FeedRecord
  <2> QED BY <2>1, <2>2 DEF PollInv
<1>10. CASE HandlerDies
  <2>1. feed' = [feed EXCEPT !.handler = FALSE] /\ UNCHANGED <<head, phase>>
    BY <1>10 DEF HandlerDies, handling
  <2>2. /\ feed'.ws = feed.ws /\ feed'.next = feed.next /\ feed'.to = feed.to /\ feed'.last = feed.last
    BY <1>0, <2>1 DEF FeedRecord
  <2> QED BY <2>1, <2>2 DEF PollInv
<1>11. CASE EarlyStep
  BY <1>0, <1>11 DEF EarlyStep, EarlyInv, PollInv
<1>12. CASE QuietStep \/ LiveFails
  BY <1>12 DEF QuietStep, LiveFails, PollInv
<1> QED BY <1>1, <1>2, <1>3, <1>4, <1>5, <1>6, <1>7, <1>8, <1>9, <1>10, <1>11, <1>12, ServedSteps
        DEF RunnerInv

(* Saving the checkpoint takes the lowest height off the list. *)
LEMMA Saved ==
  ASSUME RunnerInv, SaveCheckpoint
  PROVE  /\ Current \in job.todo /\ job.todo \in SUBSET Nat /\ \A n \in job.todo : Current <= n
         /\ job'.todo = job.todo \ {Current}
         /\ cp' = job.block /\ job.block \in Headers /\ Number[job.block] = Current
         /\ phase = "dispatched" /\ phase' \notin Handling /\ phase' \notin Waiting
         /\ Early' <=> Early
         /\ UNCHANGED <<tip, feed, head, buf, log, delivered>>
<1>0. job \in JobRecord /\ job.mode \in {"catchup", "live"} /\ job.todo \in SUBSET Nat
  BY JobFields DEF RunnerInv, DepthInv
<1>1. /\ phase = "dispatched" /\ AfterBlock /\ cp' = job.block
      /\ UNCHANGED <<tip, feed, head, buf, log, delivered>>
  BY DEF SaveCheckpoint, handling, bufferVars
<1>2. job.todo # {} /\ job.block \in Headers /\ Number[job.block] = Current
  BY <1>1 DEF RunnerInv, TaskInv, Working, Tasks
<1>3. Current \in job.todo /\ \A n \in job.todo : Current <= n
  BY <1>0, <1>2, MinOfNats DEF Current
<1> DEFINE left == job.todo \ {Current}
<1>4. job' = IF left = {} THEN NoJob ELSE [job EXCEPT !.todo = left, !.block = NoHeader]
  BY <1>1 DEF AfterBlock
<1>5. phase' \in {"feed", "confirmed", "window", "block"} /\ (phase' = "block" => left # {})
  BY <1>0, <1>1 DEF AfterBlock
<1>6. job.mode = "catchup" <=> phase' \in {"window", "block"}
  BY <1>0, <1>1 DEF AfterBlock
<1> HIDE DEF left
<1>7. job'.todo = left /\ (left # {} => job'.mode = job.mode)
  BY <1>0, <1>4, NoJobFields DEF JobRecord
<1>8. Early' <=> Early
  BY <1>0, <1>1, <1>5, <1>6, <1>7 DEF Early, Tasks
<1> QED BY <1>0, <1>1, <1>2, <1>3, <1>5, <1>7, <1>8 DEF left, Handling, Waiting

(* The steps of the feeds find nothing to process and leave none. *)
LEMMA FeedIdle ==
  ASSUME RunnerInv, FetchHead \/ QueuedHead \/ PollTip \/ FeedDone \/ FetchHeadFails \/ SubscribeHeads
  PROVE  /\ phase \in {"feed", "poll"} /\ job.todo = {} /\ job' = job
         /\ UNCHANGED <<tip, cp, buf, log, delivered>>
<1>1. /\ phase \in {"feed", "poll"} /\ job' = job
      /\ UNCHANGED <<tip, cp, buf, log, delivered>>
  BY DEF FetchHead, QueuedHead, PollTip, FeedDone, FetchHeadFails, SubscribeHeads, Yield, bufferVars
<1> QED BY <1>1 DEF RunnerInv, TaskInv, Working, Tasks

(* TodoInv is inductive. *)
LEMMA TodoNext ==
  ASSUME RunnerInv, TodoInv, Next
  PROVE  TodoInv'
<1>1. CASE \E h \in Headers : NewTip(h)
  <2>1. UNCHANGED <<phase, job, head, buf>>
    BY <1>1 DEF NewTip, handling, bufferVars
  <2> QED BY <2>1 DEF TodoInv, Early
<1>2. CASE Cancel \/ Crash
  BY <1>2 DEF Cancel, Crash, TodoInv, Early
<1>3. CASE SaveCheckpoint
  BY <1>3, Saved DEF TodoInv
<1>4. CASE HandleLinked \/ WalkReturns
  <2>1. /\ \A n \in job'.todo : n + Confirmations <= Number[head]
        /\ head' = head /\ head \in Headers
    BY <1>4, JobAccepted DEF RunnerInv
  <2>2. \A n \in job'.todo : \A i \in 1..Len(buf') : n < Number[buf'[i]]
    BY <1>4, AcceptedOrder DEF RunnerInv
  <2> QED BY <2>1, <2>2 DEF TodoInv
<1>5. CASE FetchHead \/ QueuedHead \/ PollTip \/ FeedDone \/ FetchHeadFails \/ SubscribeHeads
  BY <1>5, FeedIdle DEF TodoInv
<1>6. CASE HandlerDies
  BY <1>6 DEF HandlerDies, handling, bufferVars, TodoInv, Early
<1>7. CASE EarlyStep
  <2>1. phase' = "poll" => job'.todo = {}
    BY RunnerNext DEF RunnerInv, TaskInv, Working, Tasks
  <2> QED BY <1>7, <2>1 DEF EarlyStep, TodoInv
<1>8. CASE QuietStep
  BY <1>8 DEF QuietStep, TodoInv
<1>9. CASE LiveFails
  BY <1>9, NoJobFields DEF LiveFails, TodoInv
<1> QED BY <1>1, <1>2, <1>3, <1>4, <1>5, <1>6, <1>7, <1>8, <1>9, ServedSteps DEF RunnerInv

(* What the live loop has not processed yet is not below the checkpoint:   *)
(* the window, the heads announced or still to be polled, the head in hand *)
(* and the heights left.  (With confirmations = 0 the first polled head is *)
(* the block of the checkpoint, when the chain has not grown.)             *)
AheadInv ==
  (cp # NoHeader /\ ~Early) =>
    /\ \A i \in 1..Len(buf) : Number[cp] <= Number[buf[i]]
    /\ \A k \in 1..Len(feed.queue) : Number[cp] <= Number[feed.queue[k]]
    /\ phase \in Handling => Number[cp] <= Number[head]
    /\ \A n \in job.todo : Number[cp] <= n
    /\ (phase = "poll" /\ feed.last >= 0) => Number[cp] <= feed.last
    /\ (phase \notin Waiting /\ ~feed.ws) => Number[cp] <= feed.to /\ Number[cp] <= feed.next

(* AheadInv is inductive: what is not yet served is not below the          *)
(* checkpoint.                                                             *)
LEMMA AheadNext ==
  ASSUME MaxReorg <= Confirmations, RunnerInv, EarlyInv, ShapeInv,
         LogInv, QueueInv, PollInv, TodoInv, AheadInv, Next
  PROVE  AheadInv'
<1>0. /\ tip \in Headers /\ Number[tip] \in Nat /\ Confirmations \in Nat /\ NoHeader \notin Headers
      /\ feed \in FeedRecord /\ feed.queue \in Seq(Headers) /\ head \in Headers \cup {NoHeader}
      /\ feed.next \in Nat /\ feed.to \in Int /\ feed.last \in Int
      /\ cp \in Headers \cup {NoHeader} /\ buf \in Seq(Headers)
  BY TreeAssumption, RunnerAssumption
     DEF RunnerInv, FeedInv, FeedRecord, HeadInv, SaveInv, BufferInv, BP!ChainInv, BP!TypeOK
<1> DEFINE low == Number[cp]
<1>c. cp # NoHeader => low \in Nat /\ low + Confirmations <= Number[tip]
  BY DEF LogInv, Deep
<1>1. ASSUME NEW h \in Headers, NewTip(h) PROVE AheadInv'
  <2>1. UNCHANGED <<cp, phase, job, head, buf>> /\ Cardinality(Undone(h)) <= MaxReorg
    BY <1>1 DEF NewTip, handling, bufferVars
  <2>2. CASE feed' = feed
    BY <2>1, <2>2 DEF AheadInv, Early
  <2>3. CASE feed' = [feed EXCEPT !.queue = @ \o Announced(h)]
    <3> DEFINE q == feed.queue
               a == Announced(h)
               r == q \o a
    <3>1. \A i \in 1..Len(a) : Number[a[i]] \in Nat /\ Number[a[i]] + Confirmations > Number[tip]
      BY <1>0, <2>1, AnnouncedHigh
    <3>2. \A i \in 1..Len(r) : \/ i \in 1..Len(q) /\ r[i] = q[i]
                               \/ \E j \in 1..Len(a) : i = Len(q) + j /\ r[i] = a[j]
      BY <1>0, QueueGrows
    <3>3. feed' = [feed EXCEPT !.queue = r]
      BY <2>3
    <3>4. \A k \in 1..Len(q) : (cp # NoHeader /\ ~Early) => low <= Number[q[k]]
      BY DEF AheadInv
    <3> HIDE DEF q, a, r
    <3>5. /\ feed'.queue = r /\ feed'.ws = feed.ws /\ feed'.next = feed.next /\ feed'.to = feed.to
          /\ feed'.last = feed.last
      BY <1>0, <3>3 DEF FeedRecord
    <3>6. \A i \in 1..Len(a) : cp # NoHeader => low <= Number[a[i]]
      <4> HIDE DEF low
      <4>1. \A x \in Nat : cp # NoHeader /\ x + Confirmations > Number[tip] => low <= x
        BY <1>0, <1>c
      <4> QED BY <3>1, <4>1
    <3>7. \A i \in 1..Len(r) : (cp # NoHeader /\ ~Early) => low <= Number[r[i]]
      BY <3>2, <3>4, <3>6
    <3> QED BY <2>1, <3>5, <3>7 DEF AheadInv, Early
  <2> QED BY <1>1, <2>2, <2>3 DEF NewTip
<1>2. CASE Cancel \/ Crash
  BY <1>2 DEF Cancel, Crash, AheadInv, Early
<1>3. CASE SaveCheckpoint
  <2> SUFFICES ASSUME ~Early PROVE AheadInv'
    BY <1>3, Saved DEF AheadInv
  <2> DEFINE n == Current
  <2>1. /\ n \in job.todo /\ n \in Nat /\ \A m \in job.todo : m \in Nat /\ n <= m
        /\ job'.todo = job.todo \ {n} /\ cp' = job.block /\ Number[job.block] = n
        /\ phase = "dispatched" /\ phase' \notin Handling /\ phase' \notin Waiting
        /\ UNCHANGED <<tip, feed, head, buf>>
    BY <1>3, Saved
  <2> HIDE DEF n
  <2>2. head \in Headers /\ n + Confirmations <= Number[head] /\ \A i \in 1..Len(buf) : n <= Number[buf[i]]
    <3>1. /\ head \in Headers /\ n + Confirmations <= Number[head]
          /\ \A i \in 1..Len(buf) : n < Number[buf[i]]
      BY <2>1 DEF TodoInv
    <3>2. \A i \in 1..Len(buf) : Number[buf[i]] \in Nat
      BY <1>0, TreeAssumption
    <3> QED BY <2>1, <3>1, <3>2
  <2>3. Number[head] \in Nat /\ n <= Number[head]
    BY <1>0, <2>1, <2>2, TreeAssumption
  <2>4. ASSUME NEW k \in 1..Len(feed.queue) PROVE n <= Number[feed.queue[k]]
    <3> DEFINE x == Number[feed.queue[k]]
               y == Number[head]
    <3>1. x \in Nat /\ y \in Nat /\ x + Confirmations > y /\ n + Confirmations <= y
      <4>1. feed.queue[k] \in Headers /\ x \in Nat /\ y \in Nat
        BY <1>0, <2>3, TreeAssumption
      <4>2. x + Confirmations > y
        BY <2>2 DEF QueueInv
      <4> QED BY <2>2, <4>1, <4>2
    <3> HIDE DEF x, y
    <3>2. n <= x
      BY <1>0, <2>1, <3>1
    <3> QED BY <3>2 DEF x
  <2>5. ~feed.ws => n <= feed.to /\ n <= feed.next
    <3>1. ~feed.ws => Number[head] < feed.next /\ Number[head] <= feed.to
      BY <2>1, <2>2 DEF PollInv, Waiting
    <3> QED BY <1>0, <2>1, <2>3, <3>1
  <2>6. \A m \in job'.todo : n <= m
    BY <2>1
  <2>7. phase' # "poll"
    BY <2>1 DEF Waiting
  <2> QED BY <2>1, <2>2, <2>4, <2>5, <2>6, <2>7 DEF AheadInv
<1>4. CASE HandleLinked \/ WalkReturns
  <2>1. /\ phase \in Handling /\ phase \notin Waiting /\ ~Early /\ UNCHANGED <<cp, feed>>
        /\ phase' \notin Handling /\ phase' # "poll"
    BY <1>4 DEF HandleLinked, WalkReturns, HeadAccepted, Handling, Waiting, Early, Tasks
  <2> SUFFICES ASSUME cp # NoHeader PROVE AheadInv'
    BY <2>1 DEF AheadInv
  <2>2. low <= Number[head] /\ \A i \in 1..Len(buf) : low <= Number[buf[i]]
    BY <2>1 DEF AheadInv
  <2>3. (\A n \in job'.todo : low <= n) /\ (\A i \in 1..Len(buf') : low <= Number[buf'[i]])
    <3>1. low \in Int
      BY <1>c
    <3> HIDE DEF low
    <3> QED BY <1>4, <2>2, <3>1, AcceptedOrder DEF RunnerInv
  <2> QED BY <2>1, <2>3 DEF AheadInv
<1>5. CASE FetchHead
  <2>1. /\ feed.next <= feed.to /\ feed' = [feed EXCEPT !.next = feed.next + 1]
        /\ head' = BlockAt(tip, feed.next) /\ phase' # "poll" /\ phase = "feed"
        /\ UNCHANGED <<cp, buf>> /\ job' = job
    BY <1>5 DEF FetchHead, Yield, bufferVars
  <2>2. feed.next <= Number[tip]
    BY <1>0, <2>1 DEF RunnerInv, FeedInv
  <2>3. Number[head'] = feed.next
    BY <1>0, <2>1, <2>2, BlockAtHeight
  <2>4. /\ feed'.next = feed.next + 1 /\ feed'.to = feed.to /\ feed'.queue = feed.queue
        /\ feed'.ws = feed.ws
    BY <1>0, <2>1 DEF FeedRecord
  <2>5. ~feed.ws /\ phase \notin Waiting /\ ~Early
    BY <1>0, <2>1 DEF ShapeInv, Waiting, Early, Tasks
  <2> SUFFICES ASSUME cp # NoHeader PROVE AheadInv'
    BY <2>1 DEF AheadInv
  <2>6. low <= feed.to /\ low <= feed.next /\ low <= feed.next + 1
    <3>1. low <= feed.to /\ low <= feed.next
      BY <2>5 DEF AheadInv
    <3> HIDE DEF low
    <3> QED BY <1>0, <1>c, <3>1
  <2> QED BY <2>1, <2>3, <2>4, <2>5, <2>6 DEF AheadInv
<1>6. CASE QueuedHead
  <2> DEFINE q == feed.queue
  <2>1. /\ q # <<>> /\ feed' = [feed EXCEPT !.queue = Tail(q)] /\ head' = Head(q)
        /\ phase' # "poll" /\ phase = "feed" /\ UNCHANGED <<cp, buf>> /\ job' = job
    BY <1>6 DEF QueuedHead, Yield, bufferVars
  <2>2. /\ 1 \in 1..Len(q) /\ Head(q) = q[1]
        /\ \A i \in 1..Len(Tail(q)) : i + 1 \in 1..Len(q) /\ Tail(q)[i] = q[i + 1]
    BY <1>0, <2>1
  <2>3. feed.ws /\ ~Early
    BY <1>0, <2>1 DEF ShapeInv, Early, Tasks
  <2>4. feed'.queue = Tail(q) /\ feed'.ws = feed.ws
    BY <1>0, <2>1 DEF FeedRecord
  <2>5. \A k \in 1..Len(q) : cp # NoHeader => low <= Number[q[k]]
    BY <2>3 DEF AheadInv
  <2> HIDE DEF q
  <2>6. cp # NoHeader => low <= Number[head'] /\ \A k \in 1..Len(feed'.queue) : low <= Number[feed'.queue[k]]
    BY <2>1, <2>2, <2>4, <2>5
  <2> QED BY <2>1, <2>3, <2>4, <2>6 DEF AheadInv
<1>7. CASE PollTip
  <2> DEFINE first == IF feed.last >= 0 THEN feed.last + 1 ELSE Number[tip]
             top == Number[tip]
  <2>1. /\ feed' = [feed EXCEPT !.next = first, !.to = top] /\ phase = "poll" /\ ~feed.ws
        /\ phase' = "feed" /\ UNCHANGED <<cp, buf, head>> /\ job' = job
    BY <1>7 DEF PollTip, handling, bufferVars
  <2>2. ~Early
    BY <2>1 DEF Early, Tasks
  <2>3. cp # NoHeader => low <= top /\ low <= first
    <3>1. cp # NoHeader /\ feed.last >= 0 => low <= feed.last
      BY <2>1, <2>2 DEF AheadInv
    <3> HIDE DEF low
    <3> QED BY <1>0, <1>c, <3>1
  <2> HIDE DEF first, top
  <2>4. feed'.next = first /\ feed'.to = top /\ feed'.queue = feed.queue /\ feed'.ws = feed.ws
    BY <1>0, <2>1 DEF FeedRecord
  <2>5. phase' \notin Handling
    BY <2>1 DEF Handling
  <2> QED BY <2>1, <2>2, <2>3, <2>4, <2>5 DEF AheadInv
<1>8. CASE FeedDone \/ FetchHeadFails
  <2>1. /\ feed' = [feed EXCEPT !.last = feed.to] /\ phase = "feed" /\ phase' = "poll"
        /\ UNCHANGED <<cp, buf, head>> /\ job' = job /\ (~feed.ws \/ feed.next <= feed.to)
    BY <1>8 DEF FeedDone, FetchHeadFails, handling, bufferVars
  <2>2. feed'.last = feed.to /\ feed'.queue = feed.queue /\ feed'.ws = feed.ws
    BY <1>0, <2>1 DEF FeedRecord
  <2>3. ~feed.ws /\ ~Early /\ phase \notin Waiting /\ phase' \notin Handling /\ phase' \in Waiting
    BY <1>0, <2>1 DEF ShapeInv, Early, Tasks, Waiting, Handling
  <2> QED BY <2>1, <2>2, <2>3 DEF AheadInv
<1>9. CASE SubscribeHeads
  <2>1. /\ feed' = [feed EXCEPT !.handler = TRUE] /\ feed.ws /\ phase = "poll" /\ phase' = "feed"
        /\ UNCHANGED <<cp, buf, head>> /\ job' = job
    BY <1>9 DEF SubscribeHeads, handling, bufferVars
  <2>2. feed'.ws = feed.ws /\ feed'.queue = feed.queue
    BY <1>0, <2>1 DEF FeedRecord
  <2>3. ~Early /\ phase' \notin Handling
    BY <2>1 DEF Early, Tasks, Handling
  <2> QED BY <2>1, <2>2, <2>3 DEF AheadInv
<1>10. CASE HandlerDies
  <2>1. /\ feed' = [feed EXCEPT !.handler = FALSE] /\ UNCHANGED <<cp, head, phase, buf>> /\ job' = job
    BY <1>10 DEF HandlerDies, handling, bufferVars
  <2>2. /\ feed'.ws = feed.ws /\ feed'.next = feed.next /\ feed'.to = feed.to /\ feed'.last = feed.last
        /\ feed'.queue = feed.queue
    BY <1>0, <2>1 DEF FeedRecord
  <2> QED BY <2>1, <2>2 DEF AheadInv, Early
<1>11. CASE EarlyStep
  <2> SUFFICES ASSUME phase' = "poll" PROVE AheadInv'
    BY <1>11 DEF EarlyStep, AheadInv
  <2>1. job'.todo = {}
    BY RunnerNext DEF RunnerInv, TaskInv, Working, Tasks
  <2>2. buf' = <<>> /\ feed'.queue = <<>> /\ feed'.last = -1
    BY <1>11 DEF EarlyStep, EarlyInv, NoFeed
  <2>3. phase' \in Waiting /\ phase' \notin Handling /\ Len(<<>>) = 0 /\ ~(-1 >= 0)
    BY DEF Waiting, Handling
  <2> QED BY <2>1, <2>2, <2>3 DEF AheadInv
<1>12. CASE QuietStep
  BY <1>12 DEF QuietStep, AheadInv
<1>13. CASE LiveFails
  <2>1. /\ ~Early /\ phase' = "dead" /\ job'.todo = {} /\ UNCHANGED <<cp, feed, head, buf>>
    BY <1>13, NoJobFields DEF LiveFails
  <2> QED BY <2>1 DEF AheadInv, Waiting, Handling
<1> QED BY <1>1, <1>2, <1>3, <1>4, <1>5, <1>6, <1>7, <1>8, <1>9, <1>10, <1>11, <1>12, <1>13, ServedSteps
        DEF RunnerInv

(* Every header the buffer confirmed was delivered, now or by an earlier   *)
(* process, is on the list, or was given up by a failing call with the     *)
(* checkpoint still below it.                                              *)
ServedInv ==
  stops = 0 =>
    \A i \in 1..Len(log) : \/ log[i] \in delivered \/ Inherited(log[i])
                           \/ Number[log[i]] \in job.todo
                           \/ phase = "dead" /\ (cp # NoHeader => Number[cp] < Number[log[i]])

(* ServedInv is inductive. *)
LEMMA ServedNext ==
  ASSUME RunnerInv, FinalInv, EarlyInv, LogInv, AheadInv, ServedInv, Next
  PROVE  ServedInv'
<1> SUFFICES ASSUME stops' = 0 PROVE ServedInv'
  BY DEF ServedInv
<1>0. stops = 0 /\ tip \in Headers /\ log \in Seq(Headers) /\ Len(<<>>) = 0
  BY StopSteps DEF RunnerInv, SaveInv, BufferInv, BP!ChainInv, BP!TypeOK
<1>a. delivered \subseteq delivered'
  BY DeliverySteps DEF RunnerInv
<1>b. ASSUME NEW i \in 1..Len(log)
      PROVE  \/ log[i] \in delivered' \/ Inherited(log[i])
             \/ Number[log[i]] \in job.todo
             \/ phase = "dead" /\ (cp # NoHeader => Number[cp] < Number[log[i]])
  BY <1>0, <1>a DEF ServedInv
<1>1. CASE (\E h \in Headers : NewTip(h)) \/ HandlerDies
  <2>1. UNCHANGED <<cp, phase, job, log>>
    BY <1>1 DEF NewTip, HandlerDies, bufferVars
  <2> QED BY <1>b, <2>1 DEF ServedInv
<1>2. CASE Cancel \/ Crash
  BY <1>0, <1>2 DEF Cancel, Crash, FreshRunner, FreshBuffer, ServedInv
<1>3. CASE SaveCheckpoint
  <2>1. /\ job'.todo = job.todo \ {Current} /\ job.block \in Headers /\ Number[job.block] = Current
        /\ phase = "dispatched" /\ log' = log
    BY <1>3, Saved
  <2>2. job.block \in delivered' /\ job.block \in ChainOf[tip]
    BY <1>0, <1>a, <2>1 DEF RunnerInv, SaveInv, FinalInv, InHand
  <2>3. ASSUME NEW i \in 1..Len(log), Number[log[i]] = Current PROVE log[i] \in delivered'
    <3>1. log[i] \in ChainOf[tip]
      BY DEF LogInv
    <3>2. log[i] = job.block
      BY <1>0, <2>1, <2>2, <2>3, <3>1, ChainUnique
    <3> QED BY <2>2, <3>2
  <2> QED BY <1>b, <2>1, <2>3 DEF ServedInv
<1>4. CASE HandleLinked \/ WalkReturns
  <2>1. phase \in {"handle", "walk"}
    BY <1>4 DEF HandleLinked, WalkReturns
  <2>2. job.todo = {}
    BY <2>1 DEF RunnerInv, TaskInv, Working, Tasks
  <2>3. \A j \in 1..Len(log) : log[j] \in delivered' \/ Inherited(log[j])
    BY <1>b, <2>1, <2>2
  <2>4. \A i \in 1..Len(log') : \/ \E j \in 1..Len(log) : log'[i] = log[j]
                                \/ Number[log'[i]] \in job'.todo
    BY <1>4, AcceptedOrder DEF RunnerInv
  <2> QED BY <2>3, <2>4 DEF ServedInv
<1>5. CASE FetchHead \/ QueuedHead \/ PollTip \/ FeedDone \/ FetchHeadFails \/ SubscribeHeads
  BY <1>5, <1>b, FeedIdle DEF ServedInv
<1>6. CASE EarlyStep
  BY <1>0, <1>6 DEF EarlyStep, EarlyInv, ServedInv
<1>7. CASE QuietStep
  BY <1>7, <1>b DEF QuietStep, ServedInv
<1>8. CASE LiveFails
  <2>1. ~Early /\ phase # "dead" /\ phase' = "dead" /\ UNCHANGED <<cp, log>>
    BY <1>8 DEF LiveFails, Working, Tasks
  <2>2. ASSUME NEW i \in 1..Len(log), Number[log[i]] \in job.todo
        PROVE  \/ log[i] \in delivered' \/ Inherited(log[i])
               \/ cp # NoHeader => Number[cp] < Number[log[i]]
    <3> SUFFICES ASSUME cp # NoHeader, ~(Number[cp] < Number[log[i]])
                 PROVE  log[i] \in delivered' \/ Inherited(log[i])
      OBVIOUS
    <3>1. /\ log[i] \in Headers /\ Number[log[i]] \in Nat /\ log[i] \in ChainOf[tip]
          /\ cp \in Headers /\ Number[cp] \in Nat
          /\ FirstCheckpoint = cp \/ cp \in delivered
      BY <1>0, TreeAssumption DEF LogInv, RunnerInv, SaveInv, CheckpointDelivered
    <3>2. Number[cp] <= Number[log[i]]
      BY <2>1, <2>2 DEF AheadInv
    <3>3. Number[log[i]] = Number[cp]
      BY <3>1, <3>2
    <3>4. CASE FirstCheckpoint = cp
      BY <3>1, <3>3, <3>4 DEF Inherited
    <3>5. CASE cp \in delivered
      <4>1. cp \in ChainOf[tip]
        BY <3>5 DEF FinalInv
      <4>2. log[i] = cp
        BY <1>0, <3>1, <3>3, <4>1, ChainUnique
      <4> QED BY <1>a, <3>5, <4>2
    <3> QED BY <3>1, <3>4, <3>5
  <2> QED BY <1>b, <2>1, <2>2 DEF ServedInv
<1> QED BY <1>1, <1>2, <1>3, <1>4, <1>5, <1>6, <1>7, <1>8, ServedSteps DEF RunnerInv

(* The live loop, as a whole. *)
LiveInv ==
  /\ RunnerInv /\ FinalInv /\ EarlyInv /\ ShapeInv /\ LogInv
  /\ QueueInv /\ PollInv /\ TodoInv /\ AheadInv /\ ServedInv

(* The row found at the start is of a block `confirmations` deep, as every *)
(* row the runner saves.                                                   *)
LiveAssumption ==
  /\ MaxReorg <= Confirmations
  /\ FirstCheckpoint = NoHeader \/ Number[FirstCheckpoint] + Confirmations <= Number[FirstTip]

(* The runner starts in LiveInv, if the first checkpoint row is deep *)
(* enough.                                                           *)
LEMMA LiveInit == LiveAssumption /\ Init => LiveInv
<1> SUFFICES ASSUME LiveAssumption, Init PROVE LiveInv
  OBVIOUS
<1>1. /\ phase = "down" /\ job = NoJob /\ job.todo = {} /\ DOMAIN job.logs = {} /\ head = NoHeader
      /\ delivered = {} /\ cp = FirstCheckpoint /\ tip = FirstTip /\ NoHeader \notin Headers
  BY NoJobFields, RunnerAssumption DEF Init
<1>2. log = <<>> /\ buf = <<>> /\ Len(<<>>) = 0
  BY DEF Init, Buffer!Init
<1>3. PICK rpcWs \in BOOLEAN : feed = NoFeed(rpcWs)
  BY DEF Init
<1>4. /\ feed = NoFeed(feed.ws) /\ feed.next = 0 /\ feed.to = -1 /\ feed.handler = FALSE
      /\ feed.queue = <<>>
  BY <1>3 DEF NoFeed
<1>5. Early
  BY <1>1 DEF Early
<1>6. RunnerInv
  BY RunnerInit
<1>7. FinalInv
  BY <1>1 DEF FinalInv, InHand
<1>8. EarlyInv /\ ShapeInv /\ QueueInv /\ PollInv
  BY <1>1, <1>2, <1>4 DEF EarlyInv, ShapeInv, QueueInv, PollInv
<1>9. LogInv
  <2>1. cp # NoHeader => Number[cp] \in Nat /\ Number[cp] + Confirmations <= Number[tip]
    BY <1>1, TreeAssumption, RunnerAssumption DEF LiveAssumption
  <2> QED BY <1>1, <1>2, <1>4, <2>1 DEF LogInv, Deep
<1>10. TodoInv /\ AheadInv /\ ServedInv
  BY <1>2, <1>5 DEF TodoInv, AheadInv, ServedInv
<1> QED BY <1>6, <1>7, <1>8, <1>9, <1>10 DEF LiveInv

(* Every step keeps LiveInv. *)
LEMMA LiveNext == LiveAssumption /\ LiveInv /\ Next => LiveInv'
<1> SUFFICES ASSUME LiveAssumption, LiveInv, Next PROVE LiveInv'
  OBVIOUS
<1>1. MaxReorg <= Confirmations
  BY DEF LiveAssumption
<1> USE DEF LiveInv
<1>2. RunnerInv' /\ FinalInv'
  BY <1>1, RunnerNext, FinalNext
<1>3. EarlyInv' /\ ShapeInv'
  BY EarlyNext
<1>4. LogInv' /\ QueueInv'
  BY <1>1, LogNext, QueueNext
<1>5. PollInv' /\ TodoInv'
  BY PollNext, TodoNext
<1>6. AheadInv'
  BY <1>1, AheadNext
<1>7. ServedInv'
  BY ServedNext
<1> QED BY <1>2, <1>3, <1>4, <1>5, <1>6, <1>7

(* With reorgs no deeper than `confirmations`, 0 included, the checkpoint  *)
(* passes no block the buffer confirmed that subscribers were not told of: *)
(* not across a reorg, a skipped head, a lost WebSocket, a failing call or *)
(* a crash.                                                                *)
THEOREM ServedCorrect == LiveAssumption => (RunSpec => []ConfirmedUpToCheckpointDelivered)
<1> SUFFICES ASSUME LiveAssumption PROVE RunSpec => []ConfirmedUpToCheckpointDelivered
  OBVIOUS
<1>1. RunInit => LiveInv
  BY LiveInit DEF RunInit
<1>2. LiveInv /\ [Run]_runnerVars => LiveInv'
  <2> SUFFICES ASSUME LiveInv, [Run]_runnerVars PROVE LiveInv'
    OBVIOUS
  <2>1. CASE Next
    BY <2>1, LiveNext
  <2>2. CASE UNCHANGED vars
    <3> USE <2>2 DEF vars, handling, bounds, bufferVars
    <3>1. RunnerInv'
      BY RunnerStutter DEF LiveInv
    <3>2. FinalInv' /\ EarlyInv' /\ ShapeInv'
      BY DEF LiveInv, FinalInv, EarlyInv, ShapeInv, Deep, Early, InHand
    <3>3. LogInv' /\ QueueInv' /\ PollInv'
      BY DEF LiveInv, LogInv, QueueInv, PollInv, Deep, Settled
    <3>4. TodoInv' /\ AheadInv' /\ ServedInv'
      BY DEF LiveInv, TodoInv, AheadInv, ServedInv, Early
    <3> QED BY <3>1, <3>2, <3>3, <3>4 DEF LiveInv
  <2> QED BY <2>1, <2>2, RunIsNext
<1>3. LiveInv => ConfirmedUpToCheckpointDelivered
  <2> SUFFICES ASSUME LiveInv, cp # NoHeader, stops = 0, NEW i \in DOMAIN log,
                      Number[log[i]] <= Number[cp], \A n \in job.todo : n > Number[log[i]]
               PROVE  log[i] \in delivered \/ Inherited(log[i])
    BY DEF ConfirmedUpToCheckpointDelivered
  <2>1. log \in Seq(Headers) /\ i \in 1..Len(log) /\ cp \in Headers
    BY DEF LiveInv, RunnerInv, SaveInv, BufferInv, BP!ChainInv, BP!TypeOK
  <2>2. Number[log[i]] \in Nat /\ Number[cp] \in Nat
    BY <2>1, TreeAssumption
  <2>3. Number[log[i]] \notin job.todo /\ ~(Number[cp] < Number[log[i]])
    BY <2>2
  <2> QED BY <2>1, <2>3 DEF LiveInv, ServedInv
<1> QED BY <1>1, <1>2, <1>3, PTL DEF RunSpec
-----------------------------------------------------------------------------
(* Catch-up of a Solana chain. *)

SlotFeedRecord == [last : Nat \cup {-1}, next : Nat, to : Nat \cup {-1}, open : BOOLEAN, heard : Nat]

SlotTypes ==
  /\ slots \in [processed : Nat, tip : Nat, final : Nat]
  /\ slotSaved \in Nat \cup {-1}
  /\ slotPhase \in Solana!Phases
  /\ slotScan \in [from : Nat, next : Nat, to : Int, final : Nat, refused : BOOLEAN]
  /\ slotJob \in [mode : {"catchup", "live"}, todo : SUBSET Nat]
  /\ slotFeed \in SlotFeedRecord

(* The slots of the scan below n that were final when it began. *)
Wanted(n) == {s \in Nat : /\ slotScan.from <= s /\ s < n
                          /\ s <= slotScan.to /\ s <= slotScan.final} \ Skipped

(* A slot that is left in the window, or below the window, was asked for,  *)
(* is the one in hand or is still to come.                                 *)
WindowInv ==
  /\ slotPhase = "window" => Wanted(slotScan.next) \subseteq attempted
  /\ slotPhase \in {"slot", "fetched", "dispatched"} =>
       IF slotJob.mode = "catchup"
       THEN Wanted(slotScan.next) \subseteq attempted \cup slotJob.todo
       ELSE Wanted(slotScan.to + 1) \subseteq attempted
  /\ slotPhase \in {"poll", "yield"} => Wanted(slotScan.to + 1) \subseteq attempted

CatchupInv ==
  /\ SlotTypes
  /\ slotScan.final <= slots.final
  /\ slotPhase \in {"down", "booted"} => slotScan = Solana!NoScan
  /\ slotPhase \in {"fetched", "dispatched"} => slotJob.todo # {} /\ Solana!Slot \in attempted
  /\ ~Solana!Stopped /\ ~slotScan.refused => WindowInv

(* The least slot of a set, and the lesser of two. *)
LEMMA SlotMin ==
  ASSUME NEW T \in SUBSET Nat, T # {}
  PROVE  Solana!Min(T) \in T /\ \A y \in T : Solana!Min(T) <= y
  BY LeastNat DEF Solana!Min

(* The lesser of two numbers. *)
LEMMA LesserOf ==
  ASSUME NEW a \in Int, NEW b \in Int
  PROVE  /\ Solana!Min({a, b}) \in {a, b}
         /\ Solana!Min({a, b}) <= a /\ Solana!Min({a, b}) <= b
<1>1. \E x \in {a, b} : \A y \in {a, b} : x <= y
  <2>1. CASE a <= b
    BY <2>1
  <2>2. CASE b <= a
    BY <2>2
  <2> QED BY <2>1, <2>2
<1> QED BY <1>1 DEF Solana!Min

(* Before the first start nothing is wanted. *)
LEMMA CatchupInit == RunInit => CatchupInv
<1> SUFFICES ASSUME Solana!Init PROVE CatchupInv
  BY DEF RunInit
<1>1. /\ slots = [processed |-> FirstSlot, tip |-> FirstSlot, final |-> FirstSlot]
      /\ slotSaved = FirstSlotSaved /\ slotPhase = "down" /\ slotScan = Solana!NoScan
      /\ slotJob = Solana!NoJob /\ slotFeed = Solana!FirstFeed
  BY DEF Solana!Init
<1>2. FirstSlot \in Nat /\ FirstSlotSaved \in Nat \cup {-1}
  BY SlotsAssumption DEF Solana!SolanaAssumption, Solana!NoSlot
<1>3. SlotTypes
  BY <1>1, <1>2 DEF SlotTypes, SlotFeedRecord, Solana!NoScan, Solana!NoJob, Solana!FirstFeed, Solana!Phases
<1>4. slotScan.final <= slots.final
  BY <1>1, <1>2 DEF Solana!NoScan
<1> QED BY <1>1, <1>3, <1>4 DEF CatchupInv, WindowInv

(* A step of the node, of stop and of a call that fails elsewhere. *)
LEMMA CatchupQuiet ==
  ASSUME CatchupInv, SlotTypes', slots.final <= slots'.final,
         UNCHANGED <<slotPhase, slotScan, slotJob, attempted>>,
         slotStopping = slotStopping' \/ slotStopping' # "no"
  PROVE  CatchupInv'
<1>1. slots.final \in Nat /\ slots'.final \in Nat /\ slotScan.final \in Nat
  BY DEF CatchupInv, SlotTypes
<1>2. slotScan'.final <= slots'.final
  BY <1>1 DEF CatchupInv
<1>3. ~Solana!Stopped' /\ ~slotScan.refused => WindowInv
  BY DEF CatchupInv, Solana!Stopped
<1>4. WindowInv => WindowInv'
  BY DEF WindowInv, Wanted
<1> QED BY <1>2, <1>3, <1>4 DEF CatchupInv, Solana!Slot, Solana!Stopped, Solana!NoScan

(* The process is gone, and with it the scan. *)
LEMMA CatchupEnds ==
  ASSUME CatchupInv, Solana!ProcessEnds, UNCHANGED <<slots, slotSaved>>
  PROVE  CatchupInv'
<1>1. /\ slotPhase' = "down" /\ slotScan' = Solana!NoScan /\ slotJob' = Solana!NoJob
      /\ slotFeed' = Solana!FirstFeed
  BY DEF Solana!ProcessEnds
<1>2. SlotTypes'
  BY <1>1 DEF CatchupInv, SlotTypes, SlotFeedRecord, Solana!NoScan, Solana!NoJob, Solana!FirstFeed, Solana!Phases
<1>3. slotScan'.final <= slots'.final
  BY <1>1 DEF Solana!NoScan, CatchupInv, SlotTypes
<1> QED BY <1>1, <1>2, <1>3 DEF CatchupInv, WindowInv

(* Start of the task, and of its catch-up. *)
LEMMA CatchupStarts ==
  ASSUME CatchupInv, Solana!Start \/ Solana!CatchupBegin \/ Solana!CatchupTipFails
  PROVE  CatchupInv'
<1>1. CASE Solana!Start
  <2>1. /\ slotPhase = "down" /\ slotPhase' = "booted"
        /\ UNCHANGED <<slots, slotSaved, slotScan, slotJob, slotFeed, slotStopping, attempted>>
    BY <1>1 DEF Solana!Start
  <2> QED BY <2>1 DEF CatchupInv, SlotTypes, WindowInv, Solana!Phases, Solana!NoScan
<1>2. CASE /\ slotPhase = "booted" /\ slotPhase' = "poll"
           /\ UNCHANGED <<slots, slotSaved, slotScan, slotJob, slotFeed, slotStopping, attempted>>
  <2>1. slotScan = Solana!NoScan
    BY <1>2 DEF CatchupInv
  <2>2. slotScan.from = 0 /\ slotScan.to = -1 /\ slotScan.refused = FALSE
    BY <2>1 DEF Solana!NoScan
  <2>3. Wanted(slotScan.to + 1) = {}
    BY <2>2 DEF Wanted
  <2>4. Wanted(slotScan.to + 1)' = {}
    BY <1>2, <2>3 DEF Wanted
  <2> QED BY <1>2, <2>4 DEF CatchupInv, SlotTypes, WindowInv, Solana!Phases
<1>3. CASE Solana!CatchupBegin /\ slotPhase' = "window"
  <2> DEFINE r == Solana!ResumeAfter
  <2>1. /\ slotPhase = "booted" /\ Solana!Candidates # {} /\ slots.tip > Solana!Min(Solana!Candidates)
        /\ slotScan' = [from |-> r + 1, next |-> r + 1, to |-> slots.tip, final |-> slots.final,
                        refused |-> FALSE]
        /\ UNCHANGED <<slots, slotSaved, slotJob, slotFeed, slotStopping, attempted>>
    <3>1. slotPhase' # "poll"
      BY <1>3
    <3>2. Solana!Candidates # {} /\ ~(slots.tip <= Solana!Min(Solana!Candidates))
      BY <1>3, <3>1 DEF Solana!CatchupBegin
    <3>3. Solana!Candidates \in SUBSET Nat
      BY SlotsAssumption DEF Solana!Candidates, CatchupInv, SlotTypes, Solana!SolanaAssumption, Solana!NoSlot
    <3>4. Solana!Min(Solana!Candidates) \in Nat /\ slots.tip \in Nat
      BY <3>2, <3>3, SlotMin DEF CatchupInv, SlotTypes
    <3> QED BY <1>3, <3>1, <3>2, <3>4 DEF Solana!CatchupBegin
  <2>2. Solana!Candidates \in SUBSET Nat /\ slots.tip \in Nat /\ slots.final \in Nat /\ MaxCatchup \in Nat
    BY SlotsAssumption DEF Solana!Candidates, CatchupInv, SlotTypes, Solana!SolanaAssumption, Solana!NoSlot
  <2>3. Solana!Min(Solana!Candidates) \in Nat
    BY <2>1, <2>2, SlotMin
  <2>4. r \in Nat
    BY <2>2, <2>3 DEF Solana!ResumeAfter
  <2> HIDE DEF r
  <2>5. SlotTypes'
    BY <1>3, <2>1, <2>2, <2>4 DEF CatchupInv, SlotTypes, Solana!Phases
  <2>6. slotScan'.final <= slots'.final /\ slotScan'.from = slotScan'.next
    BY <2>1, <2>2
  <2>7. slotScan'.from \in Nat
    BY <2>1, <2>4
  <2>8. Wanted(slotScan.next)' = {}
    BY <2>6, <2>7 DEF Wanted
  <2> QED BY <1>3, <2>5, <2>6, <2>8 DEF CatchupInv, WindowInv
<1> QED BY <1>1, <1>2, <1>3 DEF Solana!CatchupBegin, Solana!CatchupTipFails

(* A window is asked for.  Whether getBlocks named its blocks or failed,   *)
(* every slot of the window that was final when the scan began is taken.   *)
LEMMA CatchupNextWindow ==
  ASSUME CatchupInv, NEW taken, NEW seen \in BOOLEAN, taken \subseteq Solana!WindowSlots,
         Solana!WindowOf(taken, seen),
         seen \/ {s \in Solana!WindowSlots : s <= slots.final} \ Skipped \subseteq taken
  PROVE  CatchupInv'
<1> DEFINE e == Solana!WindowEnd
<1>1. /\ slotPhase = "window" /\ slotScan.next <= slotScan.to
      /\ slotJob' = [mode |-> "catchup", todo |-> taken]
      /\ slotScan' = [slotScan EXCEPT !.next = e + 1, !.refused = @ \/ seen]
      /\ slotPhase' = "slot"
      /\ UNCHANGED <<slots, slotSaved, slotFeed, slotStopping, attempted>>
  BY DEF Solana!WindowOf, Solana!NextWindow
<1>2. /\ slotScan \in [from : Nat, next : Nat, to : Int, final : Nat, refused : BOOLEAN]
      /\ slotScan.next \in Nat /\ slotScan.to \in Int /\ slotScan.from \in Nat /\ slotScan.final \in Nat
      /\ slotScan.refused \in BOOLEAN /\ slots.final \in Nat
  BY DEF CatchupInv, SlotTypes
<1>3. RangeSlots \in Nat \ {0}
  BY SlotsAssumption DEF Solana!SolanaAssumption
<1>4. slotScan.next + RangeSlots - 1 \in Int
  BY <1>2, <1>3
<1>5. e \in {slotScan.next + RangeSlots - 1, slotScan.to} /\ e <= slotScan.to
  BY <1>2, <1>4, LesserOf DEF Solana!WindowEnd
<1>6. e \in Nat /\ slotScan.next <= e
  BY <1>1, <1>2, <1>3, <1>5
<1>7. Solana!WindowSlots = slotScan.next .. e
  BY DEF Solana!WindowSlots
<1> HIDE DEF e
<1> DEFINE q == slotScan.refused \/ seen
           m == e + 1
<1>a. slotScan' = [slotScan EXCEPT !.next = m, !.refused = q] /\ q \in BOOLEAN /\ m \in Nat
  BY <1>1, <1>2, <1>6
<1> HIDE DEF q, m
<1>b. /\ slotScan' \in [from : Nat, next : Nat, to : Int, final : Nat, refused : BOOLEAN]
      /\ slotScan'.from = slotScan.from /\ slotScan'.next = m /\ slotScan'.to = slotScan.to
      /\ slotScan'.final = slotScan.final /\ slotScan'.refused = q
  BY <1>2, <1>a
<1>8. /\ slotScan' \in [from : Nat, next : Nat, to : Int, final : Nat, refused : BOOLEAN]
      /\ slotScan'.from = slotScan.from /\ slotScan'.next = e + 1 /\ slotScan'.to = slotScan.to
      /\ slotScan'.final = slotScan.final /\ slotScan'.refused = (slotScan.refused \/ seen)
  BY <1>b DEF q, m
<1>9. taken \in SUBSET Nat
  BY <1>2, <1>6, <1>7
<1>10. SlotTypes'
  BY <1>1, <1>8, <1>9 DEF CatchupInv, SlotTypes, Solana!Phases
<1>11. ASSUME ~Solana!Stopped', ~slotScan'.refused PROVE WindowInv'
  <2>1. Wanted(slotScan.next) \subseteq attempted /\ ~seen
    BY <1>1, <1>2, <1>8, <1>11 DEF CatchupInv, WindowInv, Solana!Stopped
  <2>2. ASSUME NEW s \in Wanted(slotScan.next)' PROVE s \in attempted' \cup slotJob'.todo
    <3>1. /\ s \in Nat /\ slotScan.from <= s /\ s < e + 1 /\ s <= slotScan.to /\ s <= slotScan.final
          /\ s \notin Skipped
      BY <1>8 DEF Wanted
    <3>2. CASE s < slotScan.next
      BY <1>1, <2>1, <3>1, <3>2 DEF Wanted
    <3>3. CASE slotScan.next <= s
      <4>1. s \in slotScan.next .. e /\ s <= slots.final
        BY <1>2, <1>6, <3>1, <3>3 DEF CatchupInv
      <4>2. s \in taken
        BY <1>7, <2>1, <3>1, <4>1
      <4> QED BY <1>1, <4>2
    <3> QED BY <1>2, <3>1, <3>2, <3>3
  <2>3. slotJob'.mode = "catchup"
    BY <1>1
  <2> QED BY <1>1, <2>2, <2>3 DEF WindowInv
<1> QED BY <1>1, <1>8, <1>10, <1>11 DEF CatchupInv

(* The end of a window, of catch-up and of a task. *)
LEMMA CatchupPhases ==
  ASSUME CatchupInv,
         Solana!WindowDone \/ Solana!CatchupDone \/ Solana!WindowTooLarge
  PROVE  CatchupInv'
<1>0. SlotTypes
  BY DEF CatchupInv
<1>1. CASE Solana!WindowDone
  <2>1. /\ slotPhase = "slot" /\ slotJob.mode = "catchup" /\ slotJob.todo = {}
        /\ slotPhase' = "window"
        /\ UNCHANGED <<slots, slotSaved, slotScan, slotJob, slotFeed, slotStopping, attempted>>
    BY <1>1 DEF Solana!WindowDone
  <2>2. SlotTypes'
    BY <1>0, <2>1 DEF SlotTypes, Solana!Phases
  <2>3. Wanted(slotScan.next)' = Wanted(slotScan.next)
    BY <2>1 DEF Wanted
  <2>4. WindowInv => WindowInv'
    BY <2>1, <2>3 DEF WindowInv
  <2> QED BY <2>1, <2>2, <2>4 DEF CatchupInv, Solana!Stopped
<1>2. CASE Solana!CatchupDone
  <2>1. /\ slotPhase \in {"window", "slot"} /\ slotPhase' = "poll" /\ slotJob' = Solana!NoJob
        /\ UNCHANGED <<slots, slotSaved, slotScan, slotFeed, slotStopping, attempted>>
        /\ ~Solana!Stopped => slotPhase = "window" /\ slotScan.next > slotScan.to
    BY <1>2 DEF Solana!CatchupDone
  <2>2. SlotTypes'
    BY <1>0, <2>1 DEF SlotTypes, Solana!Phases, Solana!NoJob
  <2>3. ASSUME ~Solana!Stopped, WindowInv PROVE WindowInv'
    <3>1. Wanted(slotScan.to + 1)' \subseteq Wanted(slotScan.next)
      BY <1>0, <2>1, <2>3 DEF Wanted, SlotTypes
    <3> QED BY <2>1, <2>3, <3>1 DEF WindowInv
  <2> QED BY <2>1, <2>2, <2>3 DEF CatchupInv, Solana!Stopped
<1>3. CASE Solana!WindowTooLarge
  <2>1. /\ slotPhase' = "dead"
        /\ UNCHANGED <<slots, slotSaved, slotScan, slotJob, slotFeed, slotStopping, attempted>>
    BY <1>3 DEF Solana!WindowTooLarge
  <2>2. SlotTypes'
    BY <1>0, <2>1 DEF SlotTypes, Solana!Phases
  <2> QED BY <2>1, <2>2 DEF CatchupInv, WindowInv
<1> QED BY <1>1, <1>2, <1>3

(* A slot that is over has been asked for. *)
LEMMA CatchupSlotOver ==
  ASSUME CatchupInv, slotPhase \in {"slot", "fetched", "dispatched"}, slotJob.todo # {},
         Solana!SlotOver \/ (slotPhase' = "dead" /\ UNCHANGED slotJob),
         attempted' = attempted \cup {Solana!Slot},
         slotSaved' \in Nat \cup {-1},
         UNCHANGED <<slots, slotScan, slotFeed, slotStopping>>
  PROVE  CatchupInv'
<1>0. SlotTypes /\ slotJob \in [mode : {"catchup", "live"}, todo : SUBSET Nat]
  BY DEF CatchupInv, SlotTypes
<1>1. CASE slotPhase' = "dead" /\ UNCHANGED slotJob
  <2>1. SlotTypes'
    BY <1>0, <1>1 DEF SlotTypes, Solana!Phases
  <2> QED BY <1>1, <2>1 DEF CatchupInv, WindowInv
<1>2. CASE Solana!SlotOver
  <2>1. /\ slotJob' = [slotJob EXCEPT !.todo = @ \ {Solana!Slot}]
        /\ slotPhase' = IF slotJob.mode = "catchup" THEN "slot" ELSE "yield"
    BY <1>2 DEF Solana!SlotOver
  <2>2. /\ slotJob' \in [mode : {"catchup", "live"}, todo : SUBSET Nat]
        /\ slotJob'.mode = slotJob.mode /\ slotJob'.todo = slotJob.todo \ {Solana!Slot}
    BY <1>0, <2>1
  <2>3. SlotTypes'
    BY <1>0, <2>1, <2>2 DEF SlotTypes, Solana!Phases
  <2>5. Wanted(slotScan.next)' = Wanted(slotScan.next) /\ Wanted(slotScan.to + 1)' = Wanted(slotScan.to + 1)
    BY DEF Wanted
  <2>6. WindowInv => WindowInv'
    <3>1. CASE slotJob.mode = "catchup"
      BY <2>1, <2>2, <2>5, <3>1 DEF WindowInv
    <3>2. CASE slotJob.mode # "catchup"
      BY <2>1, <2>2, <2>5, <3>2 DEF WindowInv
    <3> QED BY <3>1, <3>2
  <2>7. slotPhase' \in {"slot", "yield"}
    BY <2>1
  <2> QED BY <2>3, <2>6, <2>7 DEF CatchupInv, Solana!Stopped
<1> QED BY <1>1, <1>2

(* One slot. *)
LEMMA CatchupSlot ==
  ASSUME CatchupInv,
         \/ Solana!FetchSlot \/ Solana!FetchSlotFails \/ Solana!Dispatch
         \/ Solana!SaveCheckpoint \/ Solana!SaveFails
  PROVE  CatchupInv'
<1>0. SlotTypes /\ slotJob \in [mode : {"catchup", "live"}, todo : SUBSET Nat]
  BY DEF CatchupInv, SlotTypes
<1>1. CASE Solana!FetchSlot \/ Solana!FetchSlotFails
  <2>1. /\ slotPhase = "slot" /\ slotJob.todo # {} /\ attempted' = attempted \cup {Solana!Slot}
        /\ UNCHANGED <<slots, slotSaved, slotScan, slotFeed, slotStopping>>
        /\ \/ Solana!SlotRaises \/ Solana!SlotOver
           \/ slotPhase' = "fetched" /\ UNCHANGED slotJob
    BY <1>1 DEF Solana!FetchSlot, Solana!FetchSlotFails
  <2>2. CASE slotPhase' = "fetched" /\ UNCHANGED slotJob
    <3>1. SlotTypes'
      BY <1>0, <2>1, <2>2 DEF SlotTypes, Solana!Phases
    <3>2. Wanted(slotScan.next)' = Wanted(slotScan.next) /\ Wanted(slotScan.to + 1)' = Wanted(slotScan.to + 1)
      BY <2>1 DEF Wanted
    <3>3. WindowInv => WindowInv'
      BY <2>1, <2>2, <3>2 DEF WindowInv
    <3>4. Solana!Slot' = Solana!Slot
      BY <2>2 DEF Solana!Slot
    <3> QED BY <2>1, <2>2, <3>1, <3>3, <3>4 DEF CatchupInv, Solana!Stopped
  <2>3. CASE Solana!SlotRaises \/ Solana!SlotOver
    BY <1>0, <2>1, <2>3, CatchupSlotOver DEF Solana!SlotRaises, SlotTypes
  <2> QED BY <2>1, <2>2, <2>3
<1>2. CASE Solana!Dispatch
  <2>1. /\ slotPhase = "fetched" /\ slotPhase' = "dispatched"
        /\ UNCHANGED <<slots, slotSaved, slotScan, slotJob, slotFeed, slotStopping, attempted>>
    BY <1>2 DEF Solana!Dispatch
  <2>2. SlotTypes'
    BY <1>0, <2>1 DEF SlotTypes, Solana!Phases
  <2>3. Wanted(slotScan.next)' = Wanted(slotScan.next) /\ Wanted(slotScan.to + 1)' = Wanted(slotScan.to + 1)
    BY <2>1 DEF Wanted
  <2>4. WindowInv => WindowInv'
    BY <2>1, <2>3 DEF WindowInv
  <2>5. Solana!Slot' = Solana!Slot
    BY <2>1 DEF Solana!Slot
  <2> QED BY <2>1, <2>2, <2>4, <2>5 DEF CatchupInv, Solana!Stopped
<1>3. CASE Solana!SaveCheckpoint \/ Solana!SaveFails
  <2>1. /\ slotPhase = "dispatched" /\ (slotSaved' = slotSaved \/ slotSaved' = Solana!Slot)
        /\ (Solana!SlotRaises \/ Solana!SlotOver)
        /\ UNCHANGED <<slots, slotScan, slotFeed, slotStopping, attempted>>
    BY <1>3 DEF Solana!SaveCheckpoint, Solana!SaveFails
  <2>2. slotJob.todo # {} /\ Solana!Slot \in attempted
    BY <2>1 DEF CatchupInv
  <2>3. Solana!Slot \in Nat
    BY <1>0, <2>2, SlotMin DEF Solana!Slot
  <2>4. attempted' = attempted \cup {Solana!Slot}
    BY <2>1, <2>2
  <2> QED BY <1>0, <2>1, <2>2, <2>3, <2>4, CatchupSlotOver DEF Solana!SlotRaises, SlotTypes
<1> QED BY <1>1, <1>2, <1>3

(* The live loop. *)
LEMMA CatchupLive ==
  ASSUME CatchupInv, Solana!Poll \/ Solana!Yield \/ Solana!RangeDone
  PROVE  CatchupInv'
<1>0. /\ slotFeed \in SlotFeedRecord /\ SlotTypes
      /\ slots.processed \in Nat /\ slots.tip \in Nat
  BY DEF CatchupInv, SlotTypes
<1>1. /\ slotPhase \in {"poll", "yield"}
      /\ slotPhase' \in {"poll", "yield", "slot"}
      /\ UNCHANGED <<slots, slotSaved, slotScan, slotStopping, attempted>>
      /\ slotPhase' = "slot" => slotJob' = [mode |-> "live", todo |-> {slotFeed.next}]
      /\ slotPhase' # "slot" => UNCHANGED slotJob
  BY DEF Solana!Poll, Solana!Yield, Solana!RangeDone
<1>2. slotFeed' \in SlotFeedRecord
  <2>1. CASE Solana!Poll
    <3> DEFINE a == slotFeed.last + 1
               b == Solana!Reported
    <3>1. a \in Nat /\ b \in Nat
      BY <1>0 DEF Solana!Reported, SlotFeedRecord
    <3>2. slotFeed' = [slotFeed EXCEPT !.next = a, !.to = b]
      BY <2>1 DEF Solana!Poll
    <3> HIDE DEF a, b
    <3> QED BY <1>0, <3>1, <3>2 DEF SlotFeedRecord
  <2>2. CASE Solana!Yield
    <3> DEFINE a == slotFeed.next + 1
    <3>1. a \in Nat /\ slotFeed' = [slotFeed EXCEPT !.next = a]
      BY <1>0, <2>2 DEF Solana!Yield, SlotFeedRecord
    <3> HIDE DEF a
    <3> QED BY <1>0, <3>1 DEF SlotFeedRecord
  <2>3. CASE Solana!RangeDone
    BY <1>0, <2>3 DEF Solana!RangeDone, SlotFeedRecord
  <2> QED BY <2>1, <2>2, <2>3
<1>3. slotJob' \in [mode : {"catchup", "live"}, todo : SUBSET Nat]
  BY <1>0, <1>1 DEF SlotTypes, SlotFeedRecord
<1>4. SlotTypes'
  BY <1>0, <1>1, <1>2, <1>3 DEF SlotTypes, Solana!Phases
<1>5. Wanted(slotScan.to + 1)' = Wanted(slotScan.to + 1)
  BY <1>1 DEF Wanted
<1>6. WindowInv => WindowInv'
  BY <1>1, <1>5 DEF WindowInv
<1> QED BY <1>1, <1>4, <1>6 DEF CatchupInv, Solana!Stopped

(* Every step of the Solana runner keeps the invariant. *)
LEMMA CatchupNext == CatchupInv /\ Solana!Next => CatchupInv'
<1> SUFFICES ASSUME CatchupInv, Solana!Next PROVE CatchupInv'
  OBVIOUS
<1>0. SlotTypes
  BY DEF CatchupInv
<1>1. CASE Solana!Advance
  <2>1. slots \in [processed : Nat, tip : Nat, final : Nat]
    BY <1>0 DEF SlotTypes
  <2>2. slots' \in [processed : Nat, tip : Nat, final : Nat] /\ slots.final <= slots'.final
    <3>1. CASE slots' = [slots EXCEPT !.tip = @ + 1]
      BY <2>1, <3>1
    <3>2. CASE slots' = [slots EXCEPT !.final = @ + 1]
      BY <2>1, <3>2
    <3> QED BY <1>1, <3>1, <3>2 DEF Solana!Advance
  <2>3. /\ UNCHANGED <<slotSaved, slotPhase, slotScan, slotJob, slotFeed, slotStopping, attempted>>
    BY <1>1 DEF Solana!Advance
  <2>4. SlotTypes'
    BY <1>0, <2>2, <2>3 DEF SlotTypes
  <2> QED BY <2>2, <2>3, <2>4, CatchupQuiet
<1>2. CASE Solana!Stop \/ Solana!NotifierCleared \/ Solana!PollFails
  <2>1. /\ UNCHANGED <<slots, slotSaved, slotPhase, slotScan, slotJob, slotFeed, attempted>>
        /\ slotStopping' = slotStopping \/ slotStopping' # "no"
    BY <1>2 DEF Solana!Stop, Solana!NotifierCleared, Solana!PollFails
  <2>2. SlotTypes'
    BY <1>0, <2>1 DEF SlotTypes
  <2>3. slots.final <= slots'.final
    BY <1>0, <2>1 DEF SlotTypes
  <2> QED BY <2>1, <2>2, <2>3, CatchupQuiet
<1>3. CASE Solana!Cancel \/ Solana!Crash
  BY <1>3, CatchupEnds DEF Solana!Cancel, Solana!Crash
<1>4. CASE Solana!Window
  <2> DEFINE v == {s \in Solana!WindowSlots : s <= slots.final} \ Skipped
  <2>1. Solana!WindowOf(v, FALSE) /\ v \subseteq Solana!WindowSlots
    BY <1>4 DEF Solana!Window
  <2> QED BY <2>1, CatchupNextWindow
<1>5. CASE Solana!WindowFails
  <2>1. Solana!WindowOf(Solana!WindowSlots, FALSE)
    BY <1>5 DEF Solana!WindowFails
  <2> QED BY <2>1, CatchupNextWindow
<1>6. CASE Solana!WindowBodyError
  <2>1. Solana!WindowOf({}, TRUE)
    BY <1>6 DEF Solana!WindowBodyError
  <2> QED BY <2>1, CatchupNextWindow
<1>7. CASE Solana!Process
  <2>1. slots' = [slots EXCEPT !.processed = @ + 1] /\ slots \in [processed : Nat, tip : Nat, final : Nat]
    BY <1>0, <1>7 DEF SlotTypes, Solana!Process
  <2>2. slots' \in [processed : Nat, tip : Nat, final : Nat] /\ slots.final <= slots'.final
    BY <2>1
  <2>3. /\ UNCHANGED <<slotSaved, slotPhase, slotScan, slotJob, slotStopping, attempted>>
        /\ slotFeed' = slotFeed \/ slotFeed' = [slotFeed EXCEPT !.heard = slots'.processed]
    BY <1>7 DEF Solana!Process
  <2>4. slotFeed' \in SlotFeedRecord
    BY <1>0, <2>2, <2>3 DEF SlotTypes, SlotFeedRecord
  <2>5. SlotTypes'
    BY <1>0, <2>2, <2>3, <2>4 DEF SlotTypes
  <2> QED BY <2>2, <2>3, <2>5, CatchupQuiet
<1>8. CASE Solana!SubscribeSlots \/ Solana!SocketCloses
  <2>1. /\ UNCHANGED <<slots, slotSaved, slotPhase, slotScan, slotJob, slotStopping, attempted>>
        /\ \/ slotFeed' = [slotFeed EXCEPT !.open = TRUE]
           \/ slotFeed' = [slotFeed EXCEPT !.open = FALSE, !.heard = 0]
    BY <1>8 DEF Solana!SubscribeSlots, Solana!SocketCloses
  <2>2. slotFeed' \in SlotFeedRecord
    <3>1. slotFeed \in SlotFeedRecord /\ TRUE \in BOOLEAN /\ FALSE \in BOOLEAN /\ 0 \in Nat
      BY <1>0 DEF SlotTypes
    <3>2. CASE slotFeed' = [slotFeed EXCEPT !.open = TRUE]
      BY <3>1, <3>2 DEF SlotFeedRecord
    <3>3. CASE slotFeed' = [slotFeed EXCEPT !.open = FALSE, !.heard = 0]
      BY <3>1, <3>3 DEF SlotFeedRecord
    <3> QED BY <2>1, <3>2, <3>3
  <2>3. SlotTypes' /\ slots.final <= slots'.final
    BY <1>0, <2>1, <2>2 DEF SlotTypes
  <2> QED BY <2>1, <2>3, CatchupQuiet
<1> QED  BY <1>1, <1>2, <1>3, <1>4, <1>5, <1>6, <1>7, <1>8, CatchupStarts, CatchupPhases, CatchupSlot, CatchupLive
         DEF Solana!Next, Solana!Progress, Solana!Failure

(* Catch-up of a Solana chain asks for every block that was final when it  *)
(* began before the live loop takes over: for any windows, skipped slots   *)
(* and failing calls, the fallback of _get_blocks_classified included.     *)
THEOREM CatchupCorrect == RunSpec => []CatchupAttemptsAll
<1>1. CatchupInv /\ [Run]_runnerVars => CatchupInv'
  <2> SUFFICES ASSUME CatchupInv, [Run]_runnerVars PROVE CatchupInv'
    OBVIOUS
  <2>1. CASE RunSolana
    BY <2>1, CatchupNext DEF RunSolana
  <2>2. CASE UNCHANGED solanaVars
    <3>1. UNCHANGED <<slots, slotSaved, slotPhase, slotScan, slotJob, slotFeed, slotStopping, attempted>>
      BY <2>2 DEF solanaVars
    <3>2. SlotTypes' /\ slots.final <= slots'.final
      BY <3>1 DEF CatchupInv, SlotTypes
    <3> QED BY <3>1, <3>2, CatchupQuiet
  <2> QED BY <2>1, <2>2 DEF Run, RunEvm, runnerVars
<1>2. CatchupInv => CatchupAttemptsAll
  <2> SUFFICES ASSUME CatchupInv, slotPhase \in {"poll", "yield"}, ~Solana!Stopped, ~slotScan.refused,
                      NEW s \in (slotScan.from .. Solana!Min({slotScan.to, slotScan.final})) \ Skipped
               PROVE  s \in attempted
    BY DEF CatchupAttemptsAll, Solana!CatchupAttemptsAll
  <2>1. slotScan.from \in Nat /\ slotScan.to \in Int /\ slotScan.final \in Nat
    BY DEF CatchupInv, SlotTypes
  <2> DEFINE m == Solana!Min({slotScan.to, slotScan.final})
  <2>2. m \in {slotScan.to, slotScan.final} /\ m <= slotScan.to /\ m <= slotScan.final
    <3>1. slotScan.to \in Int /\ slotScan.final \in Int
      BY <2>1
    <3> QED BY ONLY <3>1, LesserOf DEF m
  <2>3. m \in Int /\ m <= slotScan.to /\ m <= slotScan.final
    BY ONLY <2>1, <2>2
  <2>4. s \in slotScan.from .. m /\ s \notin Skipped
    OBVIOUS
  <2> HIDE DEF m
  <2>5. s \in Nat /\ slotScan.from <= s /\ s <= slotScan.to /\ s <= slotScan.final /\ s \notin Skipped
    BY ONLY <2>1, <2>3, <2>4
  <2>6. s \in Wanted(slotScan.to + 1)
    BY <2>1, <2>5 DEF Wanted
  <2> QED BY <2>6 DEF CatchupInv, WindowInv
<1> QED  BY <1>1, <1>2, CatchupInit, PTL DEF RunSpec
=============================================================================
