---------------------- MODULE ConfirmationBufferProofs ----------------------
(***************************************************************************)
(* Proofs about ConfirmationBuffer for every header tree and every         *)
(* confirmation depth.  Linked alone is not inductive: the drain counts    *)
(* heights, so the invariant also says that heights along a chain are      *)
(* consecutive, that the branch being walked is a chain, and that the      *)
(* window starts where the confirmed history ends.                         *)
(***************************************************************************)
EXTENDS ConfirmationBuffer, SequenceTheorems, TLAPS

Consecutive(s) ==
  \A i, j \in 1..Len(s) : Number[s[j]] - Number[s[i]] = j - i

IsChain(s) == s \in Seq(Headers) /\ Linked(s) /\ Consecutive(s)

(* t starts at a child of the last header of s. *)
Follows(s, t) == (s # <<>> /\ t # <<>>) => Parent[t[1]] = Last(s)

(* The inductive invariant. *)
ChainInv ==
  /\ TypeOK
  /\ IsChain(buf)
  /\ IsChain(log)
  /\ IsChain(branch)
  /\ Follows(log, buf)
  /\ Len(buf) <= Confirmations
  /\ pc = "walk" => buf # <<>> /\ branch # <<>>

(* A chain extended by a chain that starts at a child of its last header is a chain. *)
LEMMA ConcatChain ==
  ASSUME NEW s, NEW t, IsChain(s), IsChain(t), Follows(s, t)
  PROVE  IsChain(s \o t)
<1>1. CASE s = <<>>
  BY <1>1, ConcatEmptySeq DEF IsChain
<1>2. CASE t = <<>>
  BY <1>2, ConcatEmptySeq DEF IsChain
<1>3. CASE s # <<>> /\ t # <<>>
  <2> DEFINE u == s \o t
  <2>1. /\ s \in Seq(Headers) /\ t \in Seq(Headers)
        /\ Len(s) \in Nat \ {0} /\ Len(t) \in Nat \ {0}
        /\ Parent[t[1]] = s[Len(s)]
    BY <1>3, EmptySeq DEF IsChain, Follows, Last
  <2>2. /\ u \in Seq(Headers)
        /\ Len(u) = Len(s) + Len(t)
        /\ \A i \in 1..Len(u) : u[i] = IF i <= Len(s) THEN s[i] ELSE t[i - Len(s)]
    BY <2>1, ConcatProperties
  <2>3. /\ \A i \in 1..Len(s) : s[i] \in Headers /\ Number[s[i]] \in Nat
        /\ \A i \in 1..Len(t) : t[i] \in Headers /\ Number[t[i]] \in Nat
    BY <2>1, ElementOfSeq, HeadersAssumption
  <2>4. Linked(u)
    <3> SUFFICES ASSUME NEW i \in 1..(Len(u) - 1) PROVE Parent[u[i + 1]] = u[i]
      BY DEF Linked
    <3>1. CASE i < Len(s)
      BY <3>1, <2>1, <2>2 DEF IsChain, Linked
    <3>2. CASE i = Len(s)
      BY <3>2, <2>1, <2>2
    <3>3. CASE i > Len(s)
      <4>1. i - Len(s) \in 1..(Len(t) - 1) /\ (i + 1) - Len(s) = (i - Len(s)) + 1
        BY <3>3, <2>1, <2>2
      <4>2. Parent[t[(i - Len(s)) + 1]] = t[i - Len(s)]
        BY <4>1 DEF IsChain, Linked
      <4> QED BY <4>1, <4>2, <3>3, <2>1, <2>2
    <3> QED BY <3>1, <3>2, <3>3, <2>1, <2>2
  <2>5. Number[t[1]] = Number[s[Len(s)]] + 1
    BY <2>1, <2>3, HeadersAssumption
  <2>6. Consecutive(u)
    <3> SUFFICES ASSUME NEW i \in 1..Len(u), NEW j \in 1..Len(u)
                 PROVE  Number[u[j]] - Number[u[i]] = j - i
      BY DEF Consecutive
    <3>1. \A m \in 1..Len(u) : Number[u[m]] = Number[s[Len(s)]] + m - Len(s)
      <4> SUFFICES ASSUME NEW m \in 1..Len(u)
                   PROVE  Number[u[m]] = Number[s[Len(s)]] + m - Len(s)
        OBVIOUS
      <4>1. CASE m <= Len(s)
        <5>1. m \in 1..Len(s) /\ Len(s) \in 1..Len(s)
          BY <4>1, <2>1, <2>2
        <5>2. Number[s[Len(s)]] - Number[s[m]] = Len(s) - m
          BY <5>1 DEF IsChain, Consecutive
        <5> QED BY <5>1, <5>2, <4>1, <2>1, <2>2, <2>3
      <4>2. CASE m > Len(s)
        <5>1. m - Len(s) \in 1..Len(t) /\ 1 \in 1..Len(t)
          BY <4>2, <2>1, <2>2
        <5>2. Number[t[m - Len(s)]] - Number[t[1]] = (m - Len(s)) - 1
          BY <5>1 DEF IsChain, Consecutive
        <5>3. u[m] = t[m - Len(s)]
          BY <4>2, <2>1, <2>2
        <5>4. /\ Number[t[m - Len(s)]] \in Nat /\ Number[t[1]] \in Nat
              /\ Number[s[Len(s)]] \in Nat /\ Len(s) \in Nat /\ m \in Nat
          BY <5>1, <2>1, <2>2, <2>3
        <5>5. Number[t[m - Len(s)]] = Number[s[Len(s)]] + m - Len(s)
          <6> DEFINE a == Number[t[m - Len(s)]]
                     b == Number[t[1]]
                     c == Number[s[Len(s)]]
                     l == Len(s)
          <6>1. /\ a \in Nat /\ b \in Nat /\ c \in Nat /\ l \in Nat /\ m \in Nat
                /\ a - b = (m - l) - 1 /\ b = c + 1
            BY <5>2, <5>4, <2>5
          <6> HIDE DEF a, b, c, l
          <6>2. a = c + m - l
            BY <6>1
          <6> QED BY <6>2 DEF a, c, l
        <5> QED BY <5>3, <5>5
      <4> QED BY <4>1, <4>2, <2>1, <2>2
    <3>2. Number[s[Len(s)]] \in Nat /\ Len(s) \in Nat /\ Len(u) \in Nat
      BY <2>1, <2>2, <2>3
    <3>3. Number[u[j]] = Number[s[Len(s)]] + j - Len(s)
      BY <3>1
    <3>4. Number[u[i]] = Number[s[Len(s)]] + i - Len(s)
      BY <3>1
    <3> QED BY <3>2, <3>3, <3>4
  <2> QED BY <2>2, <2>4, <2>6 DEF IsChain
<1> QED BY <1>1, <1>2, <1>3

(* A contiguous part of a chain is a chain. *)
LEMMA SubSeqChain ==
  ASSUME NEW s, IsChain(s), NEW m \in Nat \ {0}, NEW n \in Nat, n <= Len(s)
  PROVE  /\ IsChain(SubSeq(s, m, n))
         /\ Len(SubSeq(s, m, n)) = IF m <= n THEN n - m + 1 ELSE 0
         /\ \A i \in 1..(n - m + 1) : SubSeq(s, m, n)[i] = s[m + i - 1]
<1> DEFINE u == SubSeq(s, m, n)
<1>1. s \in Seq(Headers) /\ Len(s) \in Nat
  BY LenProperties DEF IsChain
<1>2. \A i \in m..n : s[i] \in Headers
  BY <1>1, ElementOfSeq
<1>3. /\ u \in Seq(Headers)
      /\ Len(u) = IF m <= n THEN n - m + 1 ELSE 0
      /\ \A i \in 1..(n - m + 1) : u[i] = s[m + i - 1]
  BY <1>2, SubSeqProperties
<1> HIDE DEF u
<1>4. Linked(u)
  <2> SUFFICES ASSUME NEW i \in 1..(Len(u) - 1) PROVE Parent[u[i + 1]] = u[i]
    BY DEF Linked
  <2>1. /\ i \in 1..(n - m + 1) /\ i + 1 \in 1..(n - m + 1)
        /\ m + i - 1 \in 1..(Len(s) - 1)
        /\ m + (i + 1) - 1 = (m + i - 1) + 1
    BY <1>1, <1>3
  <2>2. Parent[s[(m + i - 1) + 1]] = s[m + i - 1]
    BY <2>1 DEF IsChain, Linked
  <2>3. u[i] = s[m + i - 1] /\ u[i + 1] = s[m + (i + 1) - 1]
    BY <1>3, <2>1
  <2> QED BY <2>1, <2>2, <2>3
<1>5. Consecutive(u)
  <2> SUFFICES ASSUME NEW i \in 1..Len(u), NEW j \in 1..Len(u)
               PROVE  Number[u[j]] - Number[u[i]] = j - i
    BY DEF Consecutive
  <2>1. /\ i \in 1..(n - m + 1) /\ j \in 1..(n - m + 1)
        /\ m + i - 1 \in 1..Len(s) /\ m + j - 1 \in 1..Len(s)
    BY <1>1, <1>3
  <2>2. Number[s[m + j - 1]] - Number[s[m + i - 1]] = (m + j - 1) - (m + i - 1)
    BY <2>1 DEF IsChain, Consecutive
  <2>3. u[i] = s[m + i - 1] /\ u[j] = s[m + j - 1]
    BY <1>3, <2>1
  <2>4. (m + j - 1) - (m + i - 1) = j - i
    BY <2>1
  <2> QED BY <2>2, <2>3, <2>4
<1> QED BY <1>3, <1>4, <1>5 DEF IsChain, u

(* A single header is a chain. *)
LEMMA SingletonChain ==
  ASSUME NEW h \in Headers
  PROVE  IsChain(<<h>>)
<1>1. <<h>> \in Seq(Headers) /\ Len(<<h>>) = 1 /\ <<h>>[1] = h
  OBVIOUS
<1>2. Number[h] \in Nat
  BY HeadersAssumption
<1>3. Linked(<<h>>)
  BY <1>1 DEF Linked
<1>4. Consecutive(<<h>>)
  BY <1>1, <1>2 DEF Consecutive
<1> QED BY <1>1, <1>3, <1>4 DEF IsChain

(* The empty sequence is a chain. *)
LEMMA EmptyChain == IsChain(<<>>)
BY EmptySeq DEF IsChain, Linked, Consecutive

(* On a chain, _drain_confirmed pops exactly the headers that are at least *)
(* Confirmations deep, and leaves at most Confirmations of them.           *)
LEMMA DrainCountOfChain ==
  ASSUME NEW s, IsChain(s), s # <<>>
  PROVE  /\ DrainCount(s) \in 0..Len(s)
         /\ Len(s) - DrainCount(s) <= Confirmations
         /\ \A i \in 1..Len(s) : i <= DrainCount(s) <=> Depth(s, i) >= Confirmations
         /\ Confirmations > 0 => DrainCount(s) < Len(s)
         /\ Confirmations = 0 => DrainCount(s) = Len(s)
<1> DEFINE L == Len(s)
           P(k) == /\ \A i \in 1..k : Depth(s, i) >= Confirmations
                   /\ k < Len(s) => Depth(s, k + 1) < Confirmations
           w == IF L > Confirmations THEN L - Confirmations ELSE 0
<1>1. s \in Seq(Headers) /\ L \in Nat \ {0}
  BY EmptySeq DEF IsChain
<1>2. \A i \in 1..L : Depth(s, i) = L - i
  BY <1>1 DEF IsChain, Consecutive, Depth, Last
<1> USE ConfirmationsAssumption
<1>3. w \in 0..L /\ P(w)
  BY <1>1, <1>2
<1>4. DrainCount(s) \in 0..L /\ P(DrainCount(s))
  BY <1>3 DEF DrainCount
<1>5. L - DrainCount(s) <= Confirmations
  <2>1. CASE DrainCount(s) < L
    BY <2>1, <1>1, <1>2, <1>4
  <2>2. CASE DrainCount(s) = L
    BY <2>2, <1>1
  <2> QED BY <2>1, <2>2, <1>1, <1>4
<1>6. \A i \in 1..L : i <= DrainCount(s) <=> Depth(s, i) >= Confirmations
  BY <1>1, <1>2, <1>4
<1>7. Depth(s, L) = 0
  BY <1>1, <1>2
<1> QED BY <1>1, <1>4, <1>5, <1>6, <1>7

(* Every successful call of the buffer ends in a state of the invariant, *)
(* with the returned headers buried deep enough.                         *)
LEMMA ReturnEstablishes ==
  ASSUME NEW s, NEW how \in Outcomes, NEW history,
         IsChain(s), s # <<>>, IsChain(history), Follows(history, s),
         Return(s, how, history)
  PROVE  ChainInv' /\ ConfirmedIsDeep'
<1> DEFINE k == DrainCount(s)
           a == SubSeq(s, 1, k)
           b == SubSeq(s, k + 1, Len(s))
<1>1. s \in Seq(Headers) /\ Len(s) \in Nat \ {0}
  BY EmptySeq DEF IsChain
<1>2. k \in Nat /\ k <= Len(s) /\ Len(s) - k <= Confirmations
  BY <1>1, DrainCountOfChain
<1>3. /\ IsChain(a) /\ Len(a) = k
      /\ \A i \in 1..k : a[i] = s[i]
  <2> HIDE DEF k
  <2>1. /\ IsChain(a) /\ Len(a) = (IF 1 <= k THEN k - 1 + 1 ELSE 0)
        /\ \A i \in 1..(k - 1 + 1) : a[i] = s[1 + i - 1]
    BY <1>2, SubSeqChain
  <2> QED BY <2>1, <1>2
<1>4. /\ IsChain(b) /\ Len(b) = Len(s) - k
      /\ \A i \in 1..(Len(s) - k) : b[i] = s[k + i]
  <2> HIDE DEF k
  <2>1. /\ IsChain(b)
        /\ Len(b) = (IF k + 1 <= Len(s) THEN Len(s) - (k + 1) + 1 ELSE 0)
        /\ \A i \in 1..(Len(s) - (k + 1) + 1) : b[i] = s[(k + 1) + i - 1]
    BY <1>1, <1>2, SubSeqChain
  <2> QED BY <2>1, <1>1, <1>2
<1>5. /\ buf' = b /\ confirmed' = a /\ log' = history \o a
      /\ outcome' = how /\ pc' = "idle" /\ branch' = <<>>
  BY DEF Return
<1> HIDE DEF k, a, b
<1>6. a \in Seq(Headers) /\ b \in Seq(Headers) /\ history \in Seq(Headers)
  BY <1>3, <1>4 DEF IsChain
<1>7. Follows(history, a)
  <2>1. CASE a = <<>>
    BY <2>1 DEF Follows
  <2>2. CASE a # <<>>
    <3>1. k >= 1
      BY <2>2, <1>2, <1>3, <1>6, EmptySeq
    <3>2. a[1] = s[1]
      BY <3>1, <1>2, <1>3
    <3> QED BY <3>2 DEF Follows
  <2> QED BY <2>1, <2>2
<1>8. IsChain(history \o a)
  BY <1>3, <1>7, ConcatChain
<1>9. Follows(history \o a, b)
  <2>1. CASE b = <<>>
    BY <2>1 DEF Follows
  <2>2. CASE b # <<>> /\ k = 0
    <3>1. a = <<>>
      BY <2>2, <1>3, <1>6, EmptySeq
    <3>2. history \o a = history
      BY <3>1, <1>6, ConcatEmptySeq
    <3>3. b[1] = s[1]
      BY <2>2, <1>1, <1>4
    <3> QED BY <3>2, <3>3 DEF Follows
  <2>3. CASE b # <<>> /\ k # 0
    <3>1. k < Len(s)
      BY <2>3, <1>1, <1>2, <1>4, <1>6, EmptySeq
    <3>2. b[1] = s[k + 1]
      BY <3>1, <1>1, <1>2, <1>4
    <3>3. Parent[s[k + 1]] = s[k]
      BY <3>1, <2>3, <1>1, <1>2 DEF IsChain, Linked
    <3>4. /\ Len(history) \in Nat
          /\ Len(history \o a) = Len(history) + k
          /\ (history \o a)[Len(history) + k] = a[k]
      <4>1. Len(history) \in Nat
        BY <1>6, LenProperties
      <4>2. /\ Len(history \o a) = Len(history) + Len(a)
            /\ \A j \in 1..(Len(history) + Len(a)) :
                 (history \o a)[j] = IF j <= Len(history) THEN history[j] ELSE a[j - Len(history)]
        BY <1>6, ConcatProperties
      <4>3. /\ Len(history) + k \in 1..(Len(history) + Len(a))
            /\ ~(Len(history) + k <= Len(history))
            /\ (Len(history) + k) - Len(history) = k
        BY <4>1, <2>3, <1>2, <1>3
      <4> QED BY <4>1, <4>2, <4>3, <1>3
    <3>5. a[k] = s[k]
      BY <2>3, <1>2, <1>3
    <3> QED BY <3>2, <3>3, <3>4, <3>5 DEF Follows, Last
  <2> QED BY <2>1, <2>2, <2>3
<1>10. ChainInv'
  <2>1. TypeOK'
    BY <1>5, <1>6, <1>8, EmptySeq DEF TypeOK, IsChain
  <2>2. IsChain(buf)' /\ IsChain(log)' /\ IsChain(branch)'
    <3>1. IsChain(buf)'
      BY <1>4, <1>5 DEF IsChain, Linked, Consecutive
    <3>2. IsChain(log)'
      BY <1>5, <1>8 DEF IsChain, Linked, Consecutive
    <3>3. IsChain(branch)'
      BY <1>5, EmptyChain DEF IsChain, Linked, Consecutive
    <3> QED BY <3>1, <3>2, <3>3
  <2>3. Follows(log, buf)'
    BY <1>5, <1>9 DEF Follows, Last
  <2>4. (Len(buf) <= Confirmations)'
    BY <1>2, <1>4, <1>5
  <2> QED BY <2>1, <2>2, <2>3, <2>4, <1>5 DEF ChainInv
<1>11. ConfirmedIsDeep'
  <2>1. a \o b = s
    <3>1. SubSeq(s, 1, k) \o SubSeq(s, k + 1, Len(s)) = SubSeq(s, 1, Len(s))
      <4>1. /\ 1 \in 1..(Len(s) + 1) /\ k \in (1 - 1)..Len(s)
            /\ Len(s) \in k..Len(s)
        BY <1>1, <1>2
      <4> QED BY ONLY <4>1, <1>1, ConcatAdjacentSubSeq
    <3> QED BY <3>1, <1>1, SubSeqFull DEF a, b
  <2>2. \A i \in 1..k : Depth(s, i) >= Confirmations
    BY <1>1, <1>2, DrainCountOfChain DEF k
  <2>3. DOMAIN a = 1..k
    BY <1>3, <1>6, LenProperties
  <2> QED BY <2>1, <2>2, <2>3, <1>5 DEF ConfirmedIsDeep, Depth, Last
<1> QED BY <1>10, <1>11

(* The empty window satisfies the inductive invariant. *)
LEMMA InitChain == Init => ChainInv /\ ConfirmedIsDeep
BY EmptyChain, EmptySeq, ConfirmationsAssumption
   DEF Init, ChainInv, TypeOK, Outcomes, Follows, ConfirmedIsDeep

(* Every step of handle_new_head preserves the inductive invariant: one    *)
(* case per action, and the calls that return through ReturnEstablishes.    *)
LEMMA NextChain == ChainInv /\ ConfirmedIsDeep /\ [Next]_vars => (ChainInv /\ ConfirmedIsDeep)'
<1> SUFFICES ASSUME ChainInv, ConfirmedIsDeep, [Next]_vars
             PROVE  ChainInv' /\ ConfirmedIsDeep'
  OBVIOUS
<1>0. /\ buf \in Seq(Headers) /\ branch \in Seq(Headers) /\ log \in Seq(Headers)
      /\ Len(buf) \in Nat /\ Len(branch) \in Nat
  BY LenProperties DEF ChainInv, TypeOK
<1>1. ASSUME NEW h \in Headers, AppendHead(h)
      PROVE  ChainInv' /\ ConfirmedIsDeep'
  <2> DEFINE history == IF buf = <<>> THEN <<>> ELSE log
  <2>1. /\ Append(buf, h) = buf \o <<h>>
        /\ <<h>> \in Seq(Headers) /\ <<h>> # <<>> /\ <<h>>[1] = h
    BY <1>0
  <2>2. Follows(buf, <<h>>)
    BY <1>1, <2>1 DEF AppendHead, Links, Follows
  <2>3. IsChain(Append(buf, h))
    BY <2>1, <2>2, SingletonChain, ConcatChain DEF ChainInv
  <2>4. Append(buf, h) # <<>> /\ (buf = <<>> \/ Append(buf, h)[1] = buf[1])
    BY <1>0
  <2>5. IsChain(history)
    BY EmptyChain DEF ChainInv
  <2>6. Follows(history, Append(buf, h))
    BY <2>4 DEF ChainInv, Follows
  <2>7. Return(Append(buf, h), "linked", history)
    BY <1>1 DEF AppendHead
  <2> HIDE DEF history
  <2> QED BY <2>3, <2>4, <2>5, <2>6, <2>7, ReturnEstablishes DEF Outcomes
<1>2. ASSUME NEW h \in Headers, StartWalk(h)
      PROVE  ChainInv' /\ ConfirmedIsDeep'
  <2>1. buf # <<>>
    BY <1>2 DEF StartWalk, Links
  <2>2. branch' = <<h>> /\ pc' = "walk" /\ UNCHANGED <<buf, confirmed, outcome, log>>
    BY <1>2 DEF StartWalk
  <2>3. IsChain(branch)' /\ IsChain(buf)' /\ IsChain(log)'
    BY <2>2, SingletonChain DEF ChainInv, IsChain, Linked, Consecutive
  <2> QED BY <2>1, <2>2, <2>3 DEF ChainInv, TypeOK, ConfirmedIsDeep, Follows, Last
<1>3. CASE Rewind
  <2>1. PICK i \in DOMAIN buf : /\ buf[i] = Parent[Head(branch)]
                                /\ Return(SubSeq(buf, 1, i) \o branch, "reorg", log)
    BY <1>3 DEF Rewind
  <2> DEFINE p == SubSeq(buf, 1, i)
  <2>2. branch # <<>> /\ branch[1] = Head(branch) /\ Len(branch) >= 1
    BY <1>0, <1>3, EmptySeq DEF Rewind, Walking, ChainInv
  <2>3. i \in 1..Len(buf)
    BY <1>0, LenProperties
  <2>4. /\ IsChain(p) /\ Len(p) = (IF 1 <= i THEN i - 1 + 1 ELSE 0)
        /\ \A j \in 1..(i - 1 + 1) : p[j] = buf[1 + j - 1]
    BY <1>0, <2>3, SubSeqChain DEF ChainInv
  <2>5. Len(p) = i /\ p[i] = buf[i] /\ p[1] = buf[1] /\ p \in Seq(Headers) /\ p # <<>>
    BY <1>0, <2>3, <2>4, EmptySeq DEF IsChain
  <2> HIDE DEF p
  <2>6. Follows(p, branch)
    BY <2>1, <2>2, <2>5 DEF Follows, Last
  <2>7. IsChain(p \o branch)
    BY <2>4, <2>6, ConcatChain DEF ChainInv
  <2>8. p \o branch # <<>> /\ (p \o branch)[1] = buf[1]
    BY <1>0, <2>2, <2>3, <2>5, ConcatProperties, EmptySeq
  <2>9. Follows(log, p \o branch)
    BY <2>8, <2>3, <1>0 DEF ChainInv, Follows
  <2>10. Return(p \o branch, "reorg", log) /\ IsChain(log)
    BY <2>1 DEF p, ChainInv
  <2> QED BY <2>7, <2>8, <2>9, <2>10, ReturnEstablishes DEF Outcomes
<1>4. CASE StepBack
  <2> DEFINE q == Parent[Head(branch)]
  <2>1. /\ q \in Headers /\ pc = "walk"
        /\ branch' = <<q>> \o branch
        /\ UNCHANGED <<buf, pc, confirmed, outcome, log>>
    BY <1>4 DEF StepBack, AncestorMissing, Walking
  <2>2. branch # <<>> /\ branch[1] = Head(branch)
    BY <2>1, <1>0 DEF ChainInv
  <2>3. <<q>> \in Seq(Headers) /\ <<q>> # <<>> /\ Last(<<q>>) = q
    BY <2>1 DEF Last
  <2>4. Follows(<<q>>, branch)
    BY <2>2, <2>3 DEF Follows
  <2>5. IsChain(<<q>> \o branch)
    BY <2>1, <2>4, SingletonChain, ConcatChain DEF ChainInv
  <2>6. <<q>> \o branch # <<>>
    BY <1>0, <2>3, ConcatProperties, EmptySeq
  <2> HIDE DEF q
  <2>7. IsChain(branch)' /\ IsChain(buf)' /\ IsChain(log)'
    BY <2>1, <2>5 DEF ChainInv, IsChain, Linked, Consecutive
  <2> QED BY <2>1, <2>5, <2>6, <2>7
          DEF ChainInv, TypeOK, ConfirmedIsDeep, Follows, Last, IsChain
<1>5. CASE ResolveRaises
  <2>1. /\ pc' = "idle" /\ outcome' = "raised" /\ confirmed' = <<>> /\ branch' = <<>>
        /\ UNCHANGED <<buf, log>>
    BY <1>5 DEF ResolveRaises
  <2>2. IsChain(branch)' /\ IsChain(buf)' /\ IsChain(log)'
    BY <2>1, EmptyChain DEF ChainInv, IsChain, Linked, Consecutive
  <2>3. ConfirmedIsDeep'
    BY <2>1 DEF ConfirmedIsDeep
  <2> QED BY <2>1, <2>2, <2>3, EmptySeq DEF ChainInv, TypeOK, Outcomes, Follows, Last
<1>6. CASE DeepReorg
  <2>1. Last(branch) \in Headers
    <3>1. branch # <<>>
      BY <1>6 DEF DeepReorg, ChainInv
    <3> QED BY <3>1, <1>0, EmptySeq, ElementOfSeq DEF Last
  <2>2. Return(<<Last(branch)>>, "deep", <<>>)
    BY <1>6 DEF DeepReorg
  <2>3. Follows(<<>>, <<Last(branch)>>) /\ <<Last(branch)>> # <<>>
    BY DEF Follows
  <2> QED BY <2>1, <2>2, <2>3, SingletonChain, EmptyChain, ReturnEstablishes DEF Outcomes
<1>7. CASE UNCHANGED vars
  BY <1>7 DEF vars, ChainInv, ConfirmedIsDeep, TypeOK, Follows, Last,
              IsChain, Linked, Consecutive, Depth
<1> QED BY <1>1, <1>2, <1>3, <1>4, <1>5, <1>6, <1>7 DEF Next, Walk

(* The inductive invariant holds in every reachable state. *)
THEOREM ChainInvariant == Spec => [](ChainInv /\ ConfirmedIsDeep)
BY InitChain, NextChain, PTL DEF Spec

(* The buffer's variables keep their types for every header tree and every *)
(* non-negative confirmation depth.                                        *)
THEOREM TypeCorrect == Spec => []TypeOK
<1>1. ChainInv => TypeOK
  BY DEF ChainInv
<1> QED BY <1>1, ChainInvariant, PTL

(* Confirmed headers and window form one parent-linked chain between deep  *)
(* reorgs, whatever heads arrive and whichever parents can be resolved.    *)
THEOREM ConfirmedChainAlways == Spec => []ConfirmedChain
<1>1. ChainInv => ConfirmedChain
  <2> SUFFICES ASSUME ChainInv PROVE Linked(log \o buf)
    BY DEF ConfirmedChain
  <2>1. IsChain(log \o buf)
    BY ConcatChain DEF ChainInv
  <2> QED BY <2>1 DEF IsChain
<1> QED BY <1>1, ChainInvariant, PTL

(* The window holds at most Confirmations headers. *)
THEOREM WindowAlwaysBounded == Spec => []WindowBounded
<1>1. ChainInv => WindowBounded
  BY DEF ChainInv, WindowBounded
<1> QED BY <1>1, ChainInvariant, PTL

(* A header is handed out as confirmed only when it is buried at least     *)
(* Confirmations deep under the accepted head.                             *)
THEOREM ConfirmedAlwaysDeep == Spec => []ConfirmedIsDeep
BY ChainInvariant, PTL
-----------------------------------------------------------------------------
(* The refinement needs two facts more: the window is empty only before    *)
(* the first head (or when every header is final at once), and a walk is   *)
(* for a head that does not link to the window's tip.                      *)
FeedInv ==
  /\ ChainInv
  /\ Confirmations > 0 /\ buf = <<>> => log = <<>>
  /\ pc = "walk" => Parent[Last(branch)] # Last(buf)

(* What a returning call makes of the believed chain and of its final part. *)
LEMMA ReturnMaps ==
  ASSUME NEW s, NEW how, NEW history, IsChain(s), s # <<>>, history \in Seq(Headers),
         Return(s, how, history)
  PROVE  /\ (log \o buf)' = history \o s
         /\ Len(log)' = Len(history) + DrainCount(s)
         /\ pc' = "idle"
         /\ Confirmations > 0 => buf' # <<>>
         /\ confirmed' \o buf' = s
<1> DEFINE k == DrainCount(s)
           a == SubSeq(s, 1, k)
           b == SubSeq(s, k + 1, Len(s))
<1>1. s \in Seq(Headers) /\ Len(s) \in Nat \ {0}
  BY EmptySeq DEF IsChain
<1>2. /\ k \in Nat /\ k <= Len(s) /\ (Confirmations > 0 => k < Len(s))
      /\ buf' = b /\ confirmed' = a /\ log' = history \o a /\ pc' = "idle"
  BY <1>1, DrainCountOfChain DEF Return
<1> HIDE DEF k
<1>3. a \in Seq(Headers) /\ Len(a) = k /\ b \in Seq(Headers) /\ Len(b) = Len(s) - k
  <2>1. /\ a \in Seq(Headers) /\ Len(a) = (IF 1 <= k THEN k - 1 + 1 ELSE 0)
    BY <1>2, SubSeqChain DEF IsChain
  <2>2. /\ b \in Seq(Headers) /\ Len(b) = (IF k + 1 <= Len(s) THEN Len(s) - (k + 1) + 1 ELSE 0)
    BY <1>1, <1>2, SubSeqChain DEF IsChain
  <2> QED BY <2>1, <2>2, <1>1, <1>2
<1>4. a \o b = s
  <2>1. /\ 1 \in 1..(Len(s) + 1) /\ k \in (1 - 1)..Len(s) /\ Len(s) \in k..Len(s)
    BY <1>1, <1>2
  <2>2. SubSeq(s, 1, k) \o SubSeq(s, k + 1, Len(s)) = SubSeq(s, 1, Len(s))
    BY ONLY <2>1, <1>1, ConcatAdjacentSubSeq
  <2> QED BY <2>2, <1>1, SubSeqFull
<1> HIDE DEF a, b
<1>5. (history \o a) \o b = history \o (a \o b)
  <2>1. history \in Seq(Headers)
    OBVIOUS
  <2>2. a \in Seq(Headers) /\ b \in Seq(Headers)
    BY ONLY <1>3
  <2> QED BY ONLY <2>1, <2>2
<1>6. Len(history \o a) = Len(history) + k
  BY <1>3, ConcatProperties
<1>7. Confirmations > 0 => b # <<>>
  BY <1>1, <1>2, <1>3, EmptySeq
<1> QED BY <1>2, <1>4, <1>5, <1>6, <1>7 DEF k

(* A call that keeps the window up to its i-th header is a step Adopt of   *)
(* the feed.                                                               *)
LEMMA ReturnAdopts ==
  ASSUME ChainInv, NEW s, NEW how, NEW i \in 1..Len(buf),
         IsChain(s), i < Len(s), Follows(log, s), \A j \in 1..i : s[j] = buf[j],
         Return(s, how, log)
  PROVE  Feed!Adopt
<1> DEFINE n == Len(log)
           c == log \o buf
           d == log \o s
           k == DrainCount(s)
<1>1. /\ s \in Seq(Headers) /\ log \in Seq(Headers) /\ buf \in Seq(Headers)
      /\ n \in Nat /\ Len(s) \in Nat \ {0} /\ Len(buf) \in Nat /\ i \in Nat \ {0}
  BY LenProperties DEF ChainInv, TypeOK, IsChain
<1>2. /\ Len(c) = n + Len(buf)
      /\ \A j \in 1..Len(c) : c[j] = IF j <= n THEN log[j] ELSE buf[j - n]
  BY <1>1, ConcatProperties
<1>3. /\ d \in Seq(Headers) /\ Len(d) = n + Len(s)
      /\ \A j \in 1..Len(d) : d[j] = IF j <= n THEN log[j] ELSE s[j - n]
  BY <1>1, ConcatProperties
<1>4. (log \o buf)' = d /\ Len(log)' = n + k
  BY <1>1, EmptySeq, ReturnMaps
<1>5. /\ k \in 0..Len(s)
      /\ \A j \in 1..Len(s) : j <= k <=> Number[s[Len(s)]] - Number[s[j]] >= Confirmations
  BY <1>1, EmptySeq, DrainCountOfChain DEF Depth, Last
<1>6. Feed!IsLinked(d)
  <2>1. IsChain(d)
    BY ConcatChain DEF ChainInv
  <2> QED BY <2>1 DEF IsChain, Linked, Feed!IsLinked
<1> HIDE DEF n, c, d, k
<1>7. \E m \in 1..Len(c) : n <= m /\ m < Len(d) /\ \A j \in 1..m : d[j] = c[j]
  <2>1. n + i \in 1..Len(c) /\ n <= n + i /\ n + i < Len(d)
    BY <1>1, <1>2, <1>3
  <2>2. ASSUME NEW j \in 1..(n + i) PROVE d[j] = c[j]
    <3>1. j \in Int /\ j \in 1..Len(c) /\ j \in 1..Len(d)
      BY <1>1, <1>2, <1>3
    <3>2. d[j] = (IF j <= n THEN log[j] ELSE s[j - n]) /\ c[j] = IF j <= n THEN log[j] ELSE buf[j - n]
      BY <3>1, <1>2, <1>3
    <3>3. j > n => j - n \in 1..i
      BY <1>1
    <3> QED BY <3>1, <3>2, <3>3, <1>1
  <2> QED BY <2>1, <2>2
<1>8. n + k \in n..Len(d)
  BY <1>1, <1>3, <1>5
<1>9. ASSUME NEW j \in 1..Len(d), n < j PROVE j <= n + k <=> Feed!Buried(d, j)
  <2>0. /\ j \in Int /\ ~(j <= n) /\ j - n \in 1..Len(s)
        /\ Len(d) \in 1..Len(d) /\ ~(Len(d) <= n) /\ Len(d) - n = Len(s)
    BY <1>1, <1>3, <1>9
  <2>1. j - n \in 1..Len(s) /\ d[j] = s[j - n] /\ d[Len(d)] = s[Len(s)]
    BY <2>0, <1>3
  <2>2. j - n <= k <=> Feed!Buried(d, j)
    BY <2>1, <1>5 DEF Feed!Buried
  <2> QED BY <2>2, <1>1, <1>5
<1>10. /\ (log \o buf)' \in Seq(Headers) /\ Feed!IsLinked((log \o buf)')
       /\ \E m \in 1..Len(log \o buf) :
            /\ Len(log) <= m /\ m < Len((log \o buf)')
            /\ \A j \in 1..m : (log \o buf)'[j] = (log \o buf)[j]
  BY <1>3, <1>4, <1>6, <1>7 DEF c, n
<1>11. Len(log)' \in Len(log)..Len((log \o buf)')
  BY <1>4, <1>8 DEF n
<1>12. \A j \in 1..Len((log \o buf)') :
         Len(log) < j => (j <= Len(log)' <=> Feed!Buried((log \o buf)', j))
  BY <1>4, <1>9 DEF n
<1> QED BY <1>10, <1>11, <1>12 DEF Feed!Adopt

(* The initial states of the buffer are those of the feed. *)
LEMMA InitFeed == Init => FeedInv /\ Feed!Init
<1> SUFFICES ASSUME Init PROVE FeedInv /\ Feed!Init
  OBVIOUS
<1>1. ChainInv
  BY InitChain
<1>2. buf = <<>> /\ log = <<>> /\ pc = "idle"
  BY DEF Init
<1>3. log \o buf = <<>> /\ Len(log) = 0
  BY <1>2, ConcatEmptySeq, EmptySeq
<1> QED BY <1>1, <1>2, <1>3 DEF FeedInv, Feed!Init

(* Every step of the buffer is a step of the feed, or invisible. *)
LEMMA NextFeed ==
  FeedInv /\ ChainInv' /\ [Next]_vars => FeedInv' /\ [Feed!Next]_(Feed!vars)
<1> SUFFICES ASSUME FeedInv, ChainInv', [Next]_vars
             PROVE  FeedInv' /\ [Feed!Next]_(Feed!vars)
  OBVIOUS
<1>0. /\ ChainInv /\ buf \in Seq(Headers) /\ branch \in Seq(Headers) /\ log \in Seq(Headers)
      /\ Len(buf) \in Nat /\ Len(branch) \in Nat /\ Len(log) \in Nat
  BY LenProperties DEF FeedInv, ChainInv, TypeOK
(* A restart hands out nothing, or its only header when nothing is needed on top. *)
<1>a. ASSUME NEW h \in Headers, NEW how, Return(<<h>>, how, <<>>),
             (log \o buf # <<>> /\ Confirmations > 0) => Parent[h] # (log \o buf)[Len(log \o buf)]
      PROVE  FeedInv' /\ [Feed!Next]_(Feed!vars)
  <2>1. IsChain(<<h>>) /\ <<h>> # <<>> /\ <<>> \in Seq(Headers) /\ Len(<<h>>) = 1 /\ Len(<<>>) = 0
    BY SingletonChain, EmptySeq
  <2>2. /\ (log \o buf)' = <<>> \o <<h>> /\ Len(log)' = Len(<<>>) + DrainCount(<<h>>)
        /\ pc' = "idle" /\ (Confirmations > 0 => buf' # <<>>)
    BY <1>a, <2>1, ReturnMaps
  <2>3. <<>> \o <<h>> = <<h>>
    BY <2>1, ConcatEmptySeq DEF IsChain
  <2>4. DrainCount(<<h>>) = IF Confirmations = 0 THEN 1 ELSE 0
    <3> DEFINE s == <<h>>
    <3>1. IsChain(s) /\ s # <<>> /\ Len(s) = 1
      BY <2>1
    <3> HIDE DEF s
    <3>2. /\ DrainCount(s) \in 0..Len(s)
          /\ Confirmations > 0 => DrainCount(s) < Len(s)
          /\ Confirmations = 0 => DrainCount(s) = Len(s)
      BY <3>1, DrainCountOfChain
    <3>3. DrainCount(s) = IF Confirmations = 0 THEN 1 ELSE 0
      BY <3>1, <3>2, ConfirmationsAssumption
    <3> QED BY <3>3 DEF s
  <2>5. Feed!Restart(h)
    BY <1>a, <2>1, <2>2, <2>3, <2>4 DEF Feed!Restart
  <2> QED BY <2>2, <2>5 DEF FeedInv, Feed!Next
<1>b. ASSUME (log \o buf)' = log \o buf, Len(log)' = Len(log)
      PROVE  [Feed!Next]_(Feed!vars)
  BY <1>b DEF Feed!vars
<1>1. ASSUME NEW h \in Headers, AppendHead(h)
      PROVE  FeedInv' /\ [Feed!Next]_(Feed!vars)
  <2>1. CASE buf = <<>>
    <3>1. Return(<<h>>, "linked", <<>>)
      <4>1. Append(buf, h) = <<h>>
        BY <2>1
      <4> QED BY <1>1, <2>1, <4>1 DEF AppendHead
    <3>2. Confirmations > 0 => log \o buf = <<>>
      BY <2>1, ConcatEmptySeq, EmptySeq DEF FeedInv
    <3> QED BY <3>1, <3>2, <1>a
  <2>2. CASE buf # <<>>
    <3> DEFINE s == Append(buf, h)
    <3>1. /\ s = buf \o <<h>> /\ Len(s) = Len(buf) + 1 /\ s # <<>> /\ Len(buf) >= 1
          /\ \A j \in 1..Len(buf) : s[j] = buf[j]
      BY <1>0, <2>2, EmptySeq
    <3>2. Parent[h] = Last(buf) /\ Return(s, "linked", log)
      BY <1>1, <2>2 DEF AppendHead, Links
    <3>3. IsChain(s)
      <4>1. Follows(buf, <<h>>)
        BY <3>2 DEF Follows
      <4> QED BY <4>1, <3>1, <1>0, SingletonChain, ConcatChain DEF ChainInv
    <3>4. Follows(log, s)
      <4>1. s[1] = buf[1]
        BY <3>1, <1>0
      <4> QED BY <4>1, <2>2, <1>0 DEF ChainInv, Follows
    <3> HIDE DEF s
    <3>5. Feed!Adopt
      <4>1. Len(buf) \in 1..Len(buf) /\ Len(buf) < Len(s)
        BY <1>0, <3>1
      <4> QED BY <4>1, <1>0, <3>1, <3>2, <3>3, <3>4, ReturnAdopts
    <3>6. pc' = "idle" /\ (Confirmations > 0 => buf' # <<>>)
      BY <1>0, <3>1, <3>2, <3>3, ReturnMaps
    <3> QED BY <3>5, <3>6 DEF FeedInv, Feed!Next
  <2> QED BY <2>1, <2>2
<1>2. ASSUME NEW h \in Headers, StartWalk(h)
      PROVE  FeedInv' /\ [Feed!Next]_(Feed!vars)
  <2>1. /\ buf # <<>> /\ Last(buf) # Parent[h]
        /\ branch' = <<h>> /\ buf' = buf /\ log' = log
    BY <1>2 DEF StartWalk, Links
  <2>2. FeedInv'
    BY <2>1 DEF FeedInv, Last
  <2> QED BY <2>1, <2>2, <1>b
<1>3. CASE Rewind
  <2>1. PICK i \in DOMAIN buf : /\ buf[i] = Parent[Head(branch)]
                                /\ Return(SubSeq(buf, 1, i) \o branch, "reorg", log)
    BY <1>3 DEF Rewind
  <2> DEFINE p == SubSeq(buf, 1, i)
             s == p \o branch
  <2>2. branch # <<>> /\ branch[1] = Head(branch) /\ Len(branch) >= 1
    BY <1>0, <1>3, EmptySeq DEF Rewind, Walking, ChainInv
  <2>3. i \in 1..Len(buf)
    BY <1>0, LenProperties
  <2>4. /\ IsChain(p) /\ Len(p) = (IF 1 <= i THEN i - 1 + 1 ELSE 0)
        /\ \A j \in 1..(i - 1 + 1) : p[j] = buf[1 + j - 1]
    BY <1>0, <2>3, SubSeqChain DEF ChainInv
  <2>5. Len(p) = i /\ (\A j \in 1..i : p[j] = buf[j]) /\ p \in Seq(Headers) /\ p # <<>>
    BY <1>0, <2>3, <2>4, EmptySeq DEF IsChain
  <2> HIDE DEF p
  <2>6. Follows(p, branch)
    BY <2>1, <2>2, <2>3, <2>5 DEF Follows, Last
  <2>7. IsChain(s)
    BY <1>0, <2>4, <2>6, ConcatChain DEF ChainInv
  <2>8. i < Len(s) /\ s # <<>> /\ \A j \in 1..i : s[j] = buf[j]
    <3>1. /\ Len(s) = i + Len(branch)
          /\ \A j \in 1..(i + Len(branch)) : s[j] = IF j <= i THEN p[j] ELSE branch[j - i]
      BY <1>0, <2>5, ConcatProperties
    <3>2. i < Len(s) /\ \A j \in 1..i : s[j] = p[j]
      BY <3>1, <2>2, <2>3, <1>0
    <3> QED BY <3>2, <2>3, <2>5, EmptySeq
  <2>9. Return(s, "reorg", log)
    BY <2>1 DEF p
  <2> HIDE DEF s
  <2>10. Follows(log, s)
    <3>1. 1 \in 1..i /\ buf # <<>>
      BY <2>3, <1>0, EmptySeq
    <3> QED BY <3>1, <2>8, <1>0 DEF ChainInv, Follows
  <2>11. Feed!Adopt
    BY <1>0, <2>3, <2>7, <2>8, <2>9, <2>10, ReturnAdopts
  <2>12. pc' = "idle" /\ (Confirmations > 0 => buf' # <<>>)
    BY <1>0, <2>7, <2>8, <2>9, ReturnMaps
  <2> QED BY <2>11, <2>12 DEF FeedInv, Feed!Next
<1>4. CASE StepBack
  <2>1. /\ branch' = <<Parent[Head(branch)]>> \o branch /\ Parent[Head(branch)] \in Headers
        /\ buf' = buf /\ log' = log /\ pc = "walk" /\ branch # <<>>
    BY <1>0, <1>4 DEF StepBack, AncestorMissing, Walking, ChainInv
  <2>2. Last(branch') = Last(branch)
    <3> DEFINE q == <<Parent[Head(branch)]>>
    <3>1. q \in Seq(Headers) /\ Len(q) = 1 /\ Len(branch) >= 1
      BY <2>1, <1>0, EmptySeq
    <3> HIDE DEF q
    <3>2. /\ Len(q \o branch) = 1 + Len(branch)
          /\ \A j \in 1..(1 + Len(branch)) : (q \o branch)[j] = IF j <= 1 THEN q[j] ELSE branch[j - 1]
      <4>1. /\ Len(q \o branch) = Len(q) + Len(branch)
            /\ \A j \in 1..(Len(q) + Len(branch)) :
                 (q \o branch)[j] = IF j <= Len(q) THEN q[j] ELSE branch[j - Len(q)]
        BY <3>1, <1>0, ConcatProperties
      <4> QED BY <4>1, <3>1
    <3>3. (q \o branch)[1 + Len(branch)] = branch[(1 + Len(branch)) - 1]
      BY <3>1, <3>2, <1>0
    <3>4. branch' = q \o branch
      BY <2>1 DEF q
    <3> QED BY <3>2, <3>3, <3>4, <1>0 DEF Last
  <2>3. FeedInv'
    BY <2>1, <2>2 DEF FeedInv, Last
  <2> QED BY <2>1, <2>3, <1>b
<1>5. CASE ResolveRaises
  <2>1. pc' = "idle" /\ buf' = buf /\ log' = log
    BY <1>5 DEF ResolveRaises
  <2>2. FeedInv'
    BY <2>1 DEF FeedInv
  <2> QED BY <2>1, <2>2, <1>b
<1>6. CASE DeepReorg
  <2>1. /\ pc = "walk" /\ branch # <<>> /\ buf # <<>>
        /\ Return(<<Last(branch)>>, "deep", <<>>)
    BY <1>0, <1>6 DEF DeepReorg, ChainInv
  <2>2. Last(branch) \in Headers
    BY <2>1, <1>0, EmptySeq, ElementOfSeq DEF Last
  <2>3. Parent[Last(branch)] # Last(buf)
    BY <2>1 DEF FeedInv
  <2>4. (log \o buf)[Len(log \o buf)] = Last(buf)
    <3>1. Len(buf) >= 1
      BY <2>1, <1>0, EmptySeq
    <3>2. /\ Len(log \o buf) = Len(log) + Len(buf)
          /\ \A j \in 1..(Len(log) + Len(buf)) :
               (log \o buf)[j] = IF j <= Len(log) THEN log[j] ELSE buf[j - Len(log)]
      BY <1>0, ConcatProperties
    <3>3. /\ Len(log) + Len(buf) \in 1..(Len(log) + Len(buf)) /\ ~(Len(log) + Len(buf) <= Len(log))
          /\ (Len(log) + Len(buf)) - Len(log) = Len(buf)
      BY <3>1, <1>0
    <3> QED BY <3>2, <3>3 DEF Last
  <2> QED BY <2>1, <2>2, <2>3, <2>4, <1>a
<1>7. CASE UNCHANGED vars
  <2>1. buf' = buf /\ log' = log /\ pc' = pc /\ branch' = branch
    BY <1>7 DEF vars
  <2>2. FeedInv'
    BY <2>1 DEF FeedInv, Last
  <2> QED BY <2>1, <2>2, <1>b
<1> QED BY <1>1, <1>2, <1>3, <1>4, <1>5, <1>6, <1>7 DEF Next, Walk

(* The buffer implements FinalityFeed for every header tree and every      *)
(* confirmation depth, zero included.                                      *)
THEOREM BufferImplementsFeed == Spec => ImplementsFeed
<1>1. FeedInv /\ ChainInv' /\ [Next]_vars => FeedInv' /\ [Feed!Next]_(Feed!vars)
  BY NextFeed
<1>2. (ChainInv /\ ConfirmedIsDeep) => ChainInv
  OBVIOUS
<1> QED BY <1>1, <1>2, InitFeed, ChainInvariant, PTL DEF Spec, ImplementsFeed, Feed!Spec
-----------------------------------------------------------------------------
(* The closed sets are the ones their comment names. *)
LEMMA ClosedSets ==
  ASSUME NEW C \in SUBSET Headers
  PROVE  C \in ParentClosed <=> \A g \in C : Parent[g] \in Headers => Parent[g] \in C
<1>1. ASSUME \A g \in C : Parent[g] \in Headers => Parent[g] \in C
      PROVE  C \in ParentClosed
  <2> DEFINE D == Headers \ C
  <2>1. C = Headers \ D /\ D \in SUBSET Headers
    OBVIOUS
  <2>2. \A g \in Headers : Parent[g] \in D => g \in D
    BY <1>1
  <2> HIDE DEF D
  <2> QED  BY <2>1, <2>2 DEF ParentClosed
<1>2. ASSUME C \in ParentClosed, NEW g \in C, Parent[g] \in Headers PROVE Parent[g] \in C
  <2>1. PICK D \in SUBSET Headers :
          C = Headers \ D /\ \A x \in Headers : Parent[x] \in D => x \in D
    BY <1>2 DEF ParentClosed
  <2> QED  BY <1>2, <2>1
<1> QED  BY <1>1, <1>2

(* An ancestor is the parent or an ancestor of the parent. *)
LEMMA AncestorStep ==
  ASSUME NEW h \in Headers, NEW a \in AncestorsOf(h)
  PROVE  a = Parent[h] \/ a \in AncestorsOf(Parent[h])
<1> DEFINE p == Parent[h]
<1>1. p \in Headers /\ a \in Headers /\ \A C \in ParentClosed : p \in C => a \in C
  BY DEF AncestorsOf
<1> HIDE DEF p
<1>2. SUFFICES ASSUME a # p PROVE a \in AncestorsOf(p)
  BY DEF p
<1>3. Parent[p] \in Headers
  <2>1. SUFFICES ASSUME Parent[p] \notin Headers PROVE FALSE
    OBVIOUS
  <2>2. {p} \in ParentClosed
    BY <1>1, <2>1, ClosedSets
  <2> QED  BY <1>1, <1>2, <2>2
<1>4. ASSUME NEW C \in ParentClosed, Parent[p] \in C PROVE a \in C
  <2>1. C \in SUBSET Headers
    BY DEF ParentClosed
  <2>2. \A g \in C : Parent[g] \in Headers => Parent[g] \in C
    BY <2>1, ClosedSets
  <2> DEFINE E == C \cup {p}
  <2>3. E \in SUBSET Headers /\ \A g \in E : Parent[g] \in Headers => Parent[g] \in E
    BY <1>1, <1>4, <2>1, <2>2
  <2> HIDE DEF E
  <2>4. E \in ParentClosed
    BY <2>3, ClosedSets
  <2>5. a \in E
    BY <1>1, <2>4 DEF E
  <2> QED  BY <1>2, <2>5 DEF E
<1> QED  BY <1>1, <1>3, <1>4 DEF AncestorsOf

(* An ancestor is lower. *)
LEMMA AncestorLower ==
  ASSUME NEW h \in Headers, NEW a \in AncestorsOf(h)
  PROVE  Number[a] < Number[h]
<1> DEFINE C == {g \in Headers : Number[g] < Number[h]}
<1>1. \A g \in Headers : Number[g] \in Nat
  BY HeadersAssumption
<1>2. \A g \in Headers : Parent[g] \in Headers => Number[g] = Number[Parent[g]] + 1
  BY HeadersAssumption
<1>3. C \in SUBSET Headers /\ \A g \in C : Parent[g] \in Headers => Parent[g] \in C
  BY <1>1, <1>2
<1>4. Parent[h] \in Headers => Parent[h] \in C
  BY <1>1, <1>2
<1> HIDE DEF C
<1>5. C \in ParentClosed
  BY <1>3, ClosedSets
<1>6. a \in C
  BY <1>4, <1>5 DEF AncestorsOf
<1> QED  BY <1>6 DEF C

(* While the walk goes on it has passed no buffered ancestor of the head. *)
WalkInv ==
  pc = "walk" =>
    \A i \in 1..Len(buf) :
      buf[i] \in AncestorsOf(Last(branch)) => buf[i] \in AncestorsOf(branch[1])

(* WalkInv is inductive, given the chains of ChainInv. *)
LEMMA WalkStep == ChainInv /\ WalkInv /\ [Next]_vars => WalkInv'
<1> SUFFICES ASSUME ChainInv, WalkInv, [Next]_vars PROVE WalkInv'
  OBVIOUS
<1>0. /\ buf \in Seq(Headers) /\ branch \in Seq(Headers) /\ Len(buf) \in Nat
      /\ Len(branch) \in Nat
  BY LenProperties DEF ChainInv, TypeOK
<1>1. CASE pc' = "walk" /\ UNCHANGED <<buf, branch, pc>>
  BY <1>1 DEF WalkInv, Last, AncestorsOf
<1>2. CASE pc' = "idle"
  BY <1>2 DEF WalkInv
<1>3. ASSUME NEW h \in Headers, StartWalk(h) PROVE WalkInv'
  <2>1. branch' = <<h>> /\ buf' = buf
    BY <1>3 DEF StartWalk
  <2>2. Last(branch') = h /\ branch'[1] = h
    BY <2>1 DEF Last
  <2>3. Last(branch)' = branch'[1]
    BY <2>2 DEF Last
  <2> QED  BY <2>3 DEF WalkInv, Last, AncestorsOf
<1>4. CASE StepBack
  <2> DEFINE q == Parent[branch[1]]
  <2>1. branch # <<>> /\ Len(branch) >= 1 /\ Head(branch) = branch[1]
    BY <1>0, <1>4, EmptySeq DEF StepBack, AncestorMissing, Walking, ChainInv
  <2>2. /\ q \in Headers /\ branch' = <<q>> \o branch /\ buf' = buf /\ pc = "walk"
        /\ \A i \in DOMAIN buf : buf[i] # q
    BY <1>4, <2>1 DEF StepBack, AncestorMissing, Walking
  <2>3. branch[1] \in Headers
    BY <1>0, <2>1
  <2> HIDE DEF q
  <2>4. Len(branch') = Len(branch) + 1 /\ branch'[1] = q /\ Last(branch') = Last(branch)
    BY <1>0, <2>1, <2>2 DEF Last
  <2>5. ASSUME NEW i \in 1..Len(buf), buf[i] \in AncestorsOf(Last(branch))
        PROVE  buf[i] \in AncestorsOf(q)
    <3>1. buf[i] \in AncestorsOf(branch[1])
      BY <2>2, <2>5 DEF WalkInv
    <3>2. buf[i] # q
      BY <1>0, <2>2, LenProperties
    <3> QED  BY <2>3, <3>1, <3>2, AncestorStep DEF q
  <2> QED  BY <2>2, <2>4, <2>5 DEF WalkInv, Last, AncestorsOf
<1>5. \/ pc' = "idle" \/ (\E h \in Headers : StartWalk(h)) \/ StepBack
      \/ (pc' = "walk" /\ UNCHANGED <<buf, branch, pc>>)
  <2>1. ASSUME NEW h \in Headers, AppendHead(h) PROVE pc' = "idle"
    BY <2>1 DEF AppendHead, Return
  <2>2. Rewind \/ ResolveRaises \/ DeepReorg => pc' = "idle"
    BY DEF Rewind, ResolveRaises, DeepReorg, Return
  <2>3. UNCHANGED vars => pc' = "idle" \/ (pc' = "walk" /\ UNCHANGED <<buf, branch, pc>>)
    BY DEF vars, ChainInv, TypeOK
  <2> QED  BY <2>1, <2>2, <2>3 DEF Next, Walk
<1> QED  BY <1>1, <1>2, <1>3, <1>4, <1>5

(* How a walk can end. *)
LEMMA WalkEnds ==
  ASSUME [Next]_vars, pc = "walk", pc' = "idle"
  PROVE  Rewind \/ ResolveRaises \/ DeepReorg
<1>1. ~(\E h \in Headers : AppendHead(h)) /\ ~(\E h \in Headers : StartWalk(h))
  BY DEF AppendHead, StartWalk
<1>2. ~StepBack /\ ~UNCHANGED vars
  BY DEF StepBack, vars
<1> QED  BY <1>1, <1>2 DEF Next, Walk

(* A rewind keeps the whole window up to the highest buffered ancestor of  *)
(* the new head: buffered ancestors of the head are ancestors of the       *)
(* cursor, so at most as high as the one that was found.                   *)
LEMMA RewindKeeps ==
  ASSUME ChainInv, WalkInv, Rewind, NEW i \in 1..Len(buf), buf[i] \in AncestorsOf(Last(branch))
  PROVE  \E m \in DOMAIN (confirmed' \o buf') : (confirmed' \o buf')[m] = buf[i]
<1>0. /\ buf \in Seq(Headers) /\ branch \in Seq(Headers) /\ log \in Seq(Headers)
      /\ Len(buf) \in Nat /\ Len(branch) \in Nat /\ pc = "walk"
      /\ IsChain(buf) /\ IsChain(branch)
  BY LenProperties DEF ChainInv, TypeOK, Rewind, Walking
<1>1. PICK j \in DOMAIN buf : /\ buf[j] = Parent[Head(branch)]
                              /\ Return(SubSeq(buf, 1, j) \o branch, "reorg", log)
  BY DEF Rewind
<1>2. branch # <<>> /\ branch[1] = Head(branch) /\ Len(branch) >= 1
  BY <1>0, EmptySeq DEF ChainInv
<1>3. j \in 1..Len(buf) /\ branch[1] \in Headers /\ buf[i] \in Headers /\ buf[j] \in Headers
  BY <1>0, <1>2, LenProperties
<1>4. i <= j
  <2>1. buf[i] \in AncestorsOf(branch[1])
    BY <1>0 DEF WalkInv
  <2>2. buf[i] = buf[j] \/ buf[i] \in AncestorsOf(buf[j])
    BY <1>1, <1>2, <1>3, <2>1, AncestorStep
  <2>3. Number[buf[i]] \in Nat /\ Number[buf[j]] \in Nat
    BY <1>3, HeadersAssumption
  <2>4. Number[buf[i]] <= Number[buf[j]]
    BY <1>3, <2>2, <2>3, AncestorLower
  <2>5. Number[buf[j]] - Number[buf[i]] = j - i
    BY <1>0, <1>3 DEF IsChain, Consecutive
  <2> QED  BY <1>0, <1>3, <2>3, <2>4, <2>5
<1> DEFINE p == SubSeq(buf, 1, j)
<1>5. /\ IsChain(p) /\ Len(p) = (IF 1 <= j THEN j - 1 + 1 ELSE 0)
      /\ \A k \in 1..(j - 1 + 1) : p[k] = buf[1 + k - 1]
  BY <1>0, <1>3, SubSeqChain
<1>6. Len(p) = j /\ p[j] = buf[j] /\ p[i] = buf[i] /\ p \in Seq(Headers) /\ p # <<>>
  BY <1>0, <1>3, <1>4, <1>5, EmptySeq DEF IsChain
<1> HIDE DEF p
<1>7. Follows(p, branch)
  BY <1>1, <1>2, <1>6 DEF Follows, Last
<1>8. IsChain(p \o branch)
  BY <1>0, <1>5, <1>7, ConcatChain
<1>9. Len(p \o branch) = j + Len(branch) /\ (p \o branch)[i] = p[i] /\ p \o branch # <<>>
  BY <1>0, <1>2, <1>3, <1>4, <1>6, ConcatProperties, EmptySeq
<1>10. Return(p \o branch, "reorg", log)
  BY <1>1 DEF p
<1>11. confirmed' \o buf' = p \o branch
  BY <1>0, <1>8, <1>9, <1>10, ReturnMaps
<1>12. i \in DOMAIN (p \o branch)
  <2>1. p \o branch \in Seq(Headers)
    BY <1>8 DEF IsChain
  <2>2. DOMAIN (p \o branch) = 1..(j + Len(branch))
    BY <1>9, <2>1, LenProperties
  <2> QED  BY <1>0, <1>3, <1>4, <2>2
<1> QED  BY <1>6, <1>9, <1>11, <1>12

(* A reorg keeps every buffered header that the new head descends from,    *)
(* for every header tree and confirmation depth: the parent the walk finds *)
(* in the window is the highest common ancestor.                           *)
THEOREM RewindCorrect == Spec => RewindKeepsCommonPrefix
<1> DEFINE A == (outcome' = "reorg" /\ pc = "walk" /\ pc' = "idle")
                  => LET old == {buf[i] : i \in DOMAIN buf}
                         now == {(confirmed' \o buf')[i] : i \in DOMAIN (confirmed' \o buf')}
                     IN  old \cap AncestorsOf(Last(branch)) \subseteq now
<1>1. ChainInv /\ WalkInv /\ [Next]_vars => A
  <2> SUFFICES ASSUME ChainInv, WalkInv, [Next]_vars,
                      outcome' = "reorg", pc = "walk", pc' = "idle",
                      NEW i \in DOMAIN buf, buf[i] \in AncestorsOf(Last(branch))
               PROVE  \E m \in DOMAIN (confirmed' \o buf') : (confirmed' \o buf')[m] = buf[i]
    OBVIOUS
  <2>1. i \in 1..Len(buf)
    BY LenProperties DEF ChainInv, TypeOK
  <2>2. Rewind
    BY WalkEnds DEF ResolveRaises, DeepReorg, Return
  <2> QED  BY <2>1, <2>2, RewindKeeps
<1>2. Init => WalkInv
  BY DEF Init, WalkInv
<1>3. (ChainInv /\ ConfirmedIsDeep) => ChainInv
  OBVIOUS
<1> HIDE DEF A
<1>5. Spec => [][A]_vars
  BY <1>1, <1>2, <1>3, ChainInvariant, WalkStep, PTL DEF Spec
<1> QED  BY <1>5, PTL DEF A, RewindKeepsCommonPrefix

(* A head at most one above the tip is taken for a deep reorg only when no *)
(* buffered header is an ancestor of it: a walk of max_walk rounds has     *)
(* gone below the window by then.                                          *)
THEOREM ForkPointCorrect == Spec => ForkPointIsFound
<1> DEFINE A == (/\ outcome' = "deep" /\ pc = "walk" /\ pc' = "idle"
                 /\ Number[Last(branch)] <= Number[Last(buf)] + 1) => NoAncestorBuffered
<1>1. ChainInv /\ WalkInv /\ [Next]_vars => A
  <2> SUFFICES ASSUME ChainInv, WalkInv, [Next]_vars,
                      outcome' = "deep", pc = "walk", pc' = "idle",
                      Number[Last(branch)] <= Number[Last(buf)] + 1,
                      NEW i \in DOMAIN buf, buf[i] \in AncestorsOf(Last(branch))
               PROVE  FALSE
    BY DEF NoAncestorBuffered
  <2>0. /\ buf \in Seq(Headers) /\ branch \in Seq(Headers) /\ Len(buf) \in Nat
        /\ Len(branch) \in Nat /\ Len(branch) >= 1 /\ Len(buf) >= 1 /\ i \in 1..Len(buf)
        /\ Consecutive(buf) /\ Consecutive(branch)
    BY LenProperties, EmptySeq DEF ChainInv, TypeOK, IsChain
  <2>1. DeepReorg
    BY WalkEnds DEF ResolveRaises, Rewind, Return
  <2>2. Len(branch) > Len(buf) + 1
    BY <2>1 DEF DeepReorg, MaxWalk
  <2>3. buf[i] \in AncestorsOf(branch[1])
    BY <2>0 DEF WalkInv
  <2> DEFINE b == buf[Len(buf)]
             c == branch[Len(branch)]
  <2>4. b \in Headers /\ c \in Headers /\ branch[1] \in Headers /\ buf[i] \in Headers
    BY <2>0
  <2>5. Number[buf[i]] < Number[branch[1]]
    BY <2>3, <2>4, AncestorLower
  <2>6. Number[c] - Number[branch[1]] = Len(branch) - 1 /\ Number[b] - Number[buf[i]] = Len(buf) - i
    <3>1. 1 \in 1..Len(branch) /\ Len(branch) \in 1..Len(branch) /\ Len(buf) \in 1..Len(buf)
      BY ONLY <2>0
    <3>2. Number[c] - Number[branch[1]] = Len(branch) - 1
      BY ONLY <2>0, <3>1 DEF Consecutive, c
    <3>3. Number[b] - Number[buf[i]] = Len(buf) - i
      BY ONLY <2>0, <3>1 DEF Consecutive, b
    <3> QED  BY <3>2, <3>3
  <2>7. Number[c] <= Number[b] + 1
    BY DEF Last
  <2>8. Number[b] \in Nat /\ Number[c] \in Nat /\ Number[branch[1]] \in Nat /\ Number[buf[i]] \in Nat
    BY <2>4, HeadersAssumption
  <2> HIDE DEF b, c
  <2>9. Len(branch) \in Nat /\ Len(buf) \in Nat /\ i \in 1..Len(buf)
    BY <2>0
  <2> DEFINE u == Number[branch[1]]
             v == Number[c]
             x == Number[buf[i]]
             y == Number[b]
             m == Len(branch)
             n == Len(buf)
  <2>10. /\ u \in Nat /\ v \in Nat /\ x \in Nat /\ y \in Nat /\ m \in Nat /\ n \in Nat
         /\ i \in 1..n /\ m > n + 1 /\ x < u /\ v - u = m - 1 /\ y - x = n - i /\ v <= y + 1
    BY ONLY <2>2, <2>5, <2>6, <2>7, <2>8, <2>9
  <2> HIDE DEF u, v, x, y, m, n
  <2> QED  BY ONLY <2>10
<1>2. Init => WalkInv
  BY DEF Init, WalkInv
<1>3. (ChainInv /\ ConfirmedIsDeep) => ChainInv
  OBVIOUS
<1> HIDE DEF A
<1>5. Spec => [][A]_vars
  BY <1>1, <1>2, <1>3, ChainInvariant, WalkStep, PTL DEF Spec
<1> QED  BY <1>5 DEF A, ForkPointIsFound
=============================================================================
