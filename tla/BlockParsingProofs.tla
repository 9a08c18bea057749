-------------------------- MODULE BlockParsingProofs --------------------------
(***************************************************************************)
(* What a block is turned into, for every configuration, block, IDL and    *)
(* transaction.                                                            *)
(***************************************************************************)
EXTENDS BlockParsing, FunctionTheorems, FiniteSetTheorems, SequenceTheorems, TLAPS

-----------------------------------------------------------------------------
(* A non-empty set of naturals has a least element. *)
LEMMA LeastNat ==
  ASSUME NEW T \in SUBSET Nat, T # {}
  PROVE  \E x \in T : \A y \in T : x <= y
<1>1. PICK x \in T : \A y \in T : ~ (<<y, x>> \in OpToRel(<, Nat))
  BY NatLessThanWellFounded, WFMin
<1>2. ASSUME NEW y \in T PROVE x <= y
  <2>1. ~ (<<y, x>> \in OpToRel(<, Nat))
    BY <1>1, <1>2
  <2>2. ~ (y < x)
    BY <2>1 DEF OpToRel
  <2> QED BY <2>2
<1> QED BY <1>2
-----------------------------------------------------------------------------
(* The registry. *)

(* First finds the first position of a set that has one. *)
LEMMA FirstOfPairs ==
  ASSUME NEW S, S # {}, \A p \in S : p = <<p[1], p[2]>> /\ p[1] \in Nat /\ p[2] \in Nat
  PROVE  First(S) \in S /\ \A q \in S : q = First(S) \/ Before(First(S), q)
<1> DEFINE T == {p[1] : p \in S}
<1>1. PICK i \in T : \A y \in T : i <= y
  <2>1. T \in SUBSET Nat /\ T # {}
    OBVIOUS
  <2> HIDE DEF T
  <2> QED BY <2>1, LeastNat
<1> DEFINE U == {p[2] : p \in {q \in S : q[1] = i}}
<1>2. PICK j \in U : \A y \in U : j <= y
  <2>1. U \in SUBSET Nat /\ U # {}
    OBVIOUS
  <2> HIDE DEF U
  <2> QED BY <2>1, LeastNat
<1>3. PICK p \in S : p[1] = i /\ p[2] = j
  OBVIOUS
<1>4. ASSUME NEW q \in S PROVE q = p \/ Before(p, q)
  <2>1. i <= q[1] /\ (q[1] = i => j <= q[2])
    BY <1>1, <1>2
  <2>2. q = <<q[1], q[2]>> /\ p = <<i, j>> /\ {i, j, q[1], q[2]} \subseteq Nat
    BY <1>3
  <2>3. q[1] = i /\ q[2] = j => q = p
    BY <2>2
  <2> QED BY <2>1, <2>2, <2>3, <1>3 DEF Before
<1> QED BY <1>3, <1>4 DEF First

(* What a position is a position of. *)
LEMMA PositionFacts ==
  ASSUME NEW abis \in Bodies, NEW type, NEW p \in Positions(abis, type)
  PROVE  /\ p = <<p[1], p[2]>> /\ p[1] \in Nat /\ p[2] \in Nat
         /\ p[1] \in DOMAIN abis /\ p[2] \in DOMAIN abis[p[1]].entries
         /\ abis[p[1]].id \in AbiIds
         /\ At(abis, p).type = type
         /\ At(abis, p) \in Entries[abis] /\ At(abis, p) \in AllEntries /\ At(abis, p).key \in Keys
<1>1. PICK i \in DOMAIN abis : \E j \in DOMAIN abis[i].entries :
         p = <<i, j>> /\ abis[i].entries[j].type = type
  BY DEF Positions
<1>2. PICK j \in DOMAIN abis[i].entries : p = <<i, j>> /\ abis[i].entries[j].type = type
  BY <1>1
<1>3. i \in Nat /\ DOMAIN abis[i].entries \subseteq Nat /\ abis[i].id \in AbiIds
  BY MatchingAssumption DEF Bodies
<1>4. At(abis, p) = abis[i].entries[j]
  BY <1>2 DEF At
<1>5. abis[i].entries[j] \in Entries[abis]
  BY DEF Entries
<1>6. abis[i].entries[j] \in AllEntries
  BY <1>5 DEF AllEntries
<1> QED BY <1>2, <1>3, <1>4, <1>5, <1>6 DEF Keys

(* Every entry has a position. *)
LEMMA EntryHasPosition ==
  ASSUME NEW abis \in Bodies, NEW e \in Entries[abis]
  PROVE  \E p \in Positions(abis, e.type) : At(abis, p) = e
<1>1. PICK i \in DOMAIN abis : e \in {abis[i].entries[j] : j \in DOMAIN abis[i].entries}
  BY DEF Entries
<1>2. PICK j \in DOMAIN abis[i].entries : e = abis[i].entries[j]
  BY <1>1
<1>3. <<i, j>> \in Positions(abis, e.type) /\ At(abis, <<i, j>>) = e
  BY <1>2 DEF Positions, At
<1> QED BY <1>3

EntryTypes == {"event", "function"}

(* The index holds, for every key, the entry registered first. *)
LEMMA IndexFacts ==
  ASSUME NEW abis \in Bodies, NEW type \in EntryTypes
  PROVE  Index[abis][type] =
           {p \in Positions(abis, type) :
              \A q \in Positions(abis, type) : At(abis, q).key = At(abis, p).key => ~Before(q, p)}
  BY DEF Index, EntryTypes

(* The index has one entry for a key. *)
LEMMA IndexIsUnique ==
  ASSUME NEW abis \in Bodies, NEW type \in EntryTypes,
         NEW p \in Index[abis][type], NEW q \in Index[abis][type],
         At(abis, p).key = At(abis, q).key
  PROVE  p = q
<1>1. p \in Positions(abis, type) /\ q \in Positions(abis, type) /\ ~Before(p, q) /\ ~Before(q, p)
  BY IndexFacts
<1>2. /\ p = <<p[1], p[2]>> /\ p[1] \in Nat /\ p[2] \in Nat
      /\ q = <<q[1], q[2]>> /\ q[1] \in Nat /\ q[2] \in Nat
  BY <1>1, PositionFacts
<1>3. p[1] = q[1] /\ p[2] = q[2]
  BY <1>1, <1>2 DEF Before
<1> QED BY <1>2, <1>3

(* ... and one for the key of every entry. *)
LEMMA IndexHasKey ==
  ASSUME NEW abis \in Bodies, NEW e \in Entries[abis], e.type \in EntryTypes
  PROVE  \E p \in Index[abis][e.type] : At(abis, p).key = e.key
<1> DEFINE S == {p \in Positions(abis, e.type) : At(abis, p).key = e.key}
<1>1. S # {}
  BY EntryHasPosition
<1>2. \A p \in S : p = <<p[1], p[2]>> /\ p[1] \in Nat /\ p[2] \in Nat
  BY PositionFacts
<1> DEFINE f == First(S)
<1>3. f \in S /\ \A q \in S : q = f \/ Before(f, q)
  <2> HIDE DEF S
  <2> QED BY <1>1, <1>2, FirstOfPairs
<1>4. \A q \in S : ~Before(q, f)
  BY <1>2, <1>3 DEF Before
<1>5. f \in Index[abis][e.type]
  BY <1>3, <1>4, IndexFacts
<1> QED BY <1>3, <1>5
-----------------------------------------------------------------------------
(* The decoder cache. *)

(* e is the first entry of the body b with this key. *)
Leads(b, key, e) ==
  \E j \in DOMAIN b : b[j] = e /\ e.key = key /\ \A m \in DOMAIN b : b[m].key = key => j <= m

(* The decoders held are those of the first entries of the bodies held. *)
CacheOf(abis, cache) ==
  /\ cache \in [AbiIds \X Keys -> AllEntries \cup {None}]
  /\ \A k \in AbiIds \X Keys :
       cache[k] # None => \E b \in Body(abis, k[1]) : Leads(b, k[2], cache[k])

(* The key under which the decoder of an entry of the index is held, and   *)
(* that the entry is the first one with its key in its ABI.                *)
LEMMA IndexedEntry ==
  ASSUME NEW abis \in Bodies, NEW type \in EntryTypes, NEW p \in Index[abis][type]
  PROVE  /\ <<abis[p[1]].id, At(abis, p).key>> \in AbiIds \X Keys
         /\ At(abis, p) \in AllEntries /\ At(abis, p) # None
         /\ abis[p[1]].entries \in Body(abis, abis[p[1]].id)
         /\ Leads(abis[p[1]].entries, At(abis, p).key, At(abis, p))
<1>1. p \in Positions(abis, type)
  BY IndexFacts
<1>2. /\ p = <<p[1], p[2]>> /\ p[1] \in Nat /\ p[2] \in Nat
      /\ p[1] \in DOMAIN abis /\ p[2] \in DOMAIN abis[p[1]].entries
      /\ abis[p[1]].id \in AbiIds /\ At(abis, p).type = type
      /\ At(abis, p) \in AllEntries /\ At(abis, p).key \in Keys
  BY <1>1, PositionFacts
<1>3. At(abis, p) # None
  BY <1>2, MatchingAssumption
<1>4. abis[p[1]].entries \in Body(abis, abis[p[1]].id)
  BY <1>2 DEF Body
<1>5. ASSUME NEW m \in DOMAIN abis[p[1]].entries, abis[p[1]].entries[m].key = At(abis, p).key
      PROVE  p[2] <= m
  <2> DEFINE q == <<p[1], m>>
  <2>1. At(abis, q) = abis[p[1]].entries[m]
    BY DEF At
  <2>2. abis[p[1]].entries[m] \in AllEntries
    <3>1. abis[p[1]].entries[m] \in Entries[abis]
      BY <1>2 DEF Entries
    <3> QED BY <3>1 DEF AllEntries
  <2>3. abis[p[1]].entries[m].type = type
    BY <1>2, <1>5, <2>2, KeysAreHashes
  <2>4. q \in Positions(abis, type)
    BY <1>2, <2>3 DEF Positions
  <2>5. ~Before(q, p) /\ m \in Nat
    BY <1>5, <2>1, <2>4, IndexFacts, PositionFacts
  <2> QED BY <1>2, <2>5 DEF Before
<1>6. At(abis, p) = abis[p[1]].entries[p[2]]
  BY DEF At
<1>7. Leads(abis[p[1]].entries, At(abis, p).key, At(abis, p))
  BY <1>2, <1>5, <1>6 DEF Leads
<1> QED BY <1>2, <1>3, <1>4, <1>7

(* A cached decoder is the entry's own. *)
LEMMA DecoderIsEntry ==
  ASSUME NEW abis \in Bodies, NEW type \in EntryTypes, NEW p \in Index[abis][type],
         NEW cache, CacheOf(abis, cache)
  PROVE  DecoderOf(abis, cache, p) = At(abis, p)
<1> DEFINE e == At(abis, p)
           key == <<abis[p[1]].id, e.key>>
           own == abis[p[1]].entries
<1>1. key \in AbiIds \X Keys /\ own \in Body(abis, abis[p[1]].id) /\ Leads(own, e.key, e)
  BY IndexedEntry
<1>2. CASE cache[key] # None
  <2>1. PICK b \in Body(abis, abis[p[1]].id) : Leads(b, e.key, cache[key])
    BY <1>1, <1>2 DEF CacheOf
  <2>2. b = own
    <3>1. PICK k \in DOMAIN abis : abis[k].id = abis[p[1]].id /\ b = abis[k].entries
      BY <2>1 DEF Body
    <3>2. p[1] \in DOMAIN abis
      BY IndexFacts, PositionFacts
    <3> QED BY <3>1, <3>2, IdsAreUnique DEF Bodies
  <2>3. PICK i \in DOMAIN own : own[i] = e /\ \A m \in DOMAIN own : own[m].key = e.key => i <= m
    BY <1>1 DEF Leads
  <2>4. PICK j \in DOMAIN own : /\ own[j] = cache[key] /\ own[j].key = e.key
                                /\ \A m \in DOMAIN own : own[m].key = e.key => j <= m
    BY <2>1, <2>2 DEF Leads
  <2>5. DOMAIN own \subseteq Nat
    BY IndexFacts, PositionFacts, MatchingAssumption DEF Bodies
  <2>6. i = j
    BY <2>3, <2>4, <2>5
  <2> QED BY <1>2, <2>3, <2>4, <2>6 DEF DecoderOf
<1>3. CASE cache[key] = None
  BY <1>3 DEF DecoderOf
<1> QED BY <1>2, <1>3

(* Decoding adds decoders of the registry in use. *)
LEMMA CachedIsCache ==
  ASSUME NEW abis \in Bodies, NEW type \in EntryTypes, NEW keys, NEW cache, CacheOf(abis, cache)
  PROVE  CacheOf(abis, Cached(abis, cache, type, keys))
<1> DEFINE used == {p \in Index[abis][type] : At(abis, p).key \in keys}
           new == Cached(abis, cache, type, keys)
           KeyOf(p) == <<abis[p[1]].id, At(abis, p).key>>
<1>1. ASSUME NEW k \in AbiIds \X Keys
      PROVE  /\ new[k] \in AllEntries \cup {None}
             /\ new[k] # None => \E b \in Body(abis, k[1]) : Leads(b, k[2], new[k])
  <2>1. CASE \E p \in used : KeyOf(p) = k
    <3> DEFINE p == CHOOSE q \in used : KeyOf(q) = k
    <3>1. p \in used /\ KeyOf(p) = k
      BY <2>1
    <3>2. new[k] = DecoderOf(abis, cache, p)
      BY <2>1 DEF Cached, CacheOf
    <3>3. new[k] = At(abis, p)
      BY <3>1, <3>2, DecoderIsEntry
    <3>4. /\ At(abis, p) \in AllEntries
          /\ abis[p[1]].entries \in Body(abis, k[1])
          /\ Leads(abis[p[1]].entries, k[2], At(abis, p))
      <4> HIDE DEF p
      <4>1. k[1] = abis[p[1]].id /\ k[2] = At(abis, p).key
        BY <3>1
      <4> QED BY <3>1, <4>1, IndexedEntry
    <3> QED BY <3>3, <3>4
  <2>2. CASE ~\E p \in used : KeyOf(p) = k
    <3>1. new[k] = cache[k]
      BY <2>2 DEF Cached, CacheOf
    <3> QED BY <3>1 DEF CacheOf
  <2> QED BY <2>1, <2>2
<1>2. DOMAIN new = AbiIds \X Keys
  BY DEF Cached, CacheOf
<1>3. new = [k \in AbiIds \X Keys |-> new[k]]
  BY DEF Cached, CacheOf
<1> HIDE DEF new
<1>4. new \in [AbiIds \X Keys -> AllEntries \cup {None}]
  BY <1>1, <1>3
<1>5. CacheOf(abis, new)
  BY <1>1, <1>4 DEF CacheOf
<1> QED BY <1>5 DEF new

(* refresh drops the decoders of bodies that it replaces. *)
LEMMA EvictedIsCache ==
  ASSUME NEW old \in Bodies, NEW new \in Bodies, NEW cache, CacheOf(old, cache)
  PROVE  CacheOf(new, Evicted(old, new, cache))
  BY DEF CacheOf, Evicted

(* A cache that holds nothing. *)
NoDecoders == [k \in AbiIds \X Keys |-> None]

(* The empty cache belongs to any ABIs. *)
LEMMA NoDecodersIsCache ==
  ASSUME NEW abis \in Bodies
  PROVE  CacheOf(abis, NoDecoders)
  BY DEF CacheOf, NoDecoders
-----------------------------------------------------------------------------
(* How a block is served while snapshots are applied. *)

(* With the decoders of its own ABIs the cache does not change what is decoded. *)
LEMMA CacheIsTransparent ==
  ASSUME NEW abis \in Bodies, NEW cache, CacheOf(abis, cache), NEW logs
  PROVE  AbiEvents(abis, cache, logs) = AbiEvents(abis, NoDecoders, logs)
<1>1. \A l : Fits(abis, cache, l) <=> Fits(abis, NoDecoders, l)
  <2>1. ASSUME NEW p \in Index[abis]["event"]
        PROVE  DecoderOf(abis, cache, p) = DecoderOf(abis, NoDecoders, p)
    BY DecoderIsEntry, NoDecodersIsCache DEF EntryTypes
  <2> QED BY <2>1 DEF Fits, EntryFor
<1>2. Raising(abis, cache, logs) = Raising(abis, NoDecoders, logs)
  BY <1>1 DEF Raising
<1>3. Parsed(abis, cache, logs) = Parsed(abis, NoDecoders, logs)
  BY <1>2 DEF Parsed
<1> QED BY <1>1, <1>3 DEF AbiEvents

(* What is the same between snapshots one after another is the same between *)
(* the first and the last.                                                  *)
LEMMA UnchangedChains ==
  ASSUME NEW a, NEW b, NEW c, NEW d, NEW s,
         s \in Unchanged(a, b), s \in Unchanged(c, b), s \in Unchanged(c, d)
  PROVE  s \in Unchanged(a, d)
  BY DEF Unchanged

(* A subscription unchanged between two snapshots is one of the second. *)
LEMMA UnchangedAtOnce ==
  ASSUME NEW a, NEW b, NEW s \in Unchanged(a, b)
  PROVE  s \in Unchanged(b, b)
  BY DEF Unchanged

BlockStates == {"none", "captured", "fetched", "tracing", "processed"}
Blocks ==
  [state : BlockStates, matcher : SUBSET AllSubs, logs : SUBSET DOMAIN Logs, lost : SUBSET Roots]

(* The logs that the filter of a snapshot lets pass. *)
Passed(a) == {i \in DOMAIN Logs : Passes(BuildFilter(a.abis, a.subs), Logs[i])}

(* What Process makes of a block. *)
PipelineEvents(abis, logs) ==
  NativeEvents \cup Erc20Events(logs) \cup AbiEvents(abis, NoDecoders, logs) \cup AbiCallEvents(abis)

(* The stable subscriptions mean the same in a as in the target. *)
Kept(a) == stable \subseteq Unchanged(a, target)

(* Which snapshot the registry, the matcher and the filter are of. *)
ConfigInv ==
  /\ target \in Snapshots /\ applied \in Snapshots
  /\ registry = target.abis
  /\ reload \in {"idle", "refreshed", "matcher"}
  /\ reload = "idle" => applied = target
  /\ matcher = IF reload = "refreshed" THEN applied.subs ELSE target.subs
  /\ filter = BuildFilter(applied.abis, applied.subs)
  /\ CacheOf(registry, decoders)

(* The block was filtered by one snapshot (a), parsed under another (b)    *)
(* and traced under a third (c), all alike to the stable subscriptions.    *)
BlockInv ==
  /\ block \in Blocks
  /\ block.state = "none" => stable = {}
  /\ Kept(applied)
  /\ block.state \in {"captured", "fetched", "tracing"} => stable \subseteq block.matcher
  /\ block.state = "fetched" => \E a \in Snapshots : Kept(a) /\ block.logs = Passed(a)
  /\ block.state = "tracing" =>
       \E a, b \in Snapshots : /\ Kept(a) /\ Kept(b)
                               /\ hits = Hits(block.matcher, PipelineEvents(b.abis, Passed(a)))
  /\ block.state = "processed" =>
       \E a, b, c \in Snapshots : \E m \in SUBSET AllSubs :
         /\ Kept(a) /\ Kept(b) /\ Kept(c) /\ stable \subseteq m
         /\ hits = Hits(m, PipelineEvents(b.abis, Passed(a)))
                     \cup Hits(m, InternalEvents(c.abis, block.lost))

EvmInv == ConfigInv /\ BlockInv

(* The ABIs and subscriptions of a snapshot are of those the proof ranges *)
(* over.                                                                  *)
LEMMA SnapshotFacts ==
  ASSUME NEW s \in Snapshots
  PROVE  s.abis \in Bodies /\ s.subs \subseteq AllSubs
  BY DEF Bodies, AllSubs

(* At the start the worker has applied one snapshot and has no block. *)
LEMMA EvmInit == Init => EvmInv
<1> SUFFICES ASSUME Init PROVE EvmInv
  OBVIOUS
<1>1. NoBlock \in Blocks /\ NoBlock.state = "none"
  BY DEF NoBlock, Blocks, BlockStates
<1>2. CacheOf(registry, decoders)
  BY SnapshotFacts, NoDecodersIsCache DEF Init, NoDecoders
<1> QED BY <1>1, <1>2 DEF Init, EvmInv, ConfigInv, BlockInv, Kept

(* refresh replaces the ABIs and drops the decoders of replaced bodies; the *)
(* block in hand keeps the subscriptions that are still stable.             *)
LEMMA RefreshStep ==
  ASSUME EvmInv, NEW s \in Snapshots, Refresh(s)
  PROVE  EvmInv'
<1> USE DEF EvmInv
<1>1. CacheOf(registry, decoders)'
  BY EvictedIsCache, SnapshotFacts DEF Refresh, ConfigInv
<1>2. ConfigInv'
  BY <1>1 DEF Refresh, ConfigInv
<1>3. \A x \in stable' : x \in stable /\ x \in Unchanged(applied, s)
  BY DEF Refresh, BlockInv
<1>4. ASSUME NEW a, Kept(a) PROVE Kept(a)'
  <2>1. ASSUME NEW x \in stable' PROVE x \in Unchanged(a, s)
    <3>1. x \in Unchanged(a, target) /\ x \in Unchanged(applied, target) /\ x \in Unchanged(applied, s)
      BY <1>3, <1>4 DEF Kept, BlockInv
    <3> QED BY <3>1, UnchangedChains
  <2> QED BY <2>1 DEF Kept, Refresh
<1>5. stable' \subseteq stable /\ block' = block /\ hits' = hits /\ applied' = applied
  BY <1>3 DEF Refresh
<1>6. BlockInv'
  BY <1>4, <1>5 DEF BlockInv
<1> QED BY <1>2, <1>6

(* The matcher, then the filter, catch up with the registry. *)
LEMMA ReplaceStep ==
  ASSUME EvmInv, ReplaceMatcher \/ ReplaceFilter
  PROVE  EvmInv'
<1>1. CASE ReplaceMatcher
  BY <1>1 DEF EvmInv, ConfigInv, BlockInv, Kept, ReplaceMatcher
<1>2. CASE ReplaceFilter
  <2>1. ConfigInv'
    BY <1>2 DEF EvmInv, ConfigInv, ReplaceFilter
  <2>2. Kept(applied)'
    BY <1>2, UnchangedAtOnce DEF EvmInv, BlockInv, Kept, ReplaceFilter
  <2>3. block' = block /\ stable' = stable /\ hits' = hits /\ target' = target
    BY <1>2 DEF ReplaceFilter
  <2>4. BlockInv'
    BY <2>2, <2>3 DEF EvmInv, BlockInv, Kept
  <2> QED BY <2>1, <2>4 DEF EvmInv
<1> QED BY <1>1, <1>2

(* A block begins with the matcher of the moment. *)
LEMMA CaptureStep ==
  ASSUME EvmInv, Capture
  PROVE  EvmInv'
<1>1. ConfigInv'
  BY DEF EvmInv, ConfigInv, Capture
<1>2. matcher \in SUBSET AllSubs
  BY SnapshotFacts DEF EvmInv, ConfigInv
<1>3. block' \in Blocks /\ block'.state = "captured" /\ block'.matcher = matcher
  BY <1>2 DEF Capture, NoBlock, Blocks, BlockStates
<1>4. Kept(applied)'
  BY DEF Capture, Kept
<1>5. stable' \subseteq matcher
  BY DEF EvmInv, ConfigInv, Capture, Unchanged
<1>6. BlockInv'
  BY <1>3, <1>4, <1>5 DEF BlockInv
<1> QED BY <1>1, <1>6 DEF EvmInv

(* The logs are filtered by the snapshot applied last. *)
LEMMA FetchStep ==
  ASSUME EvmInv, FetchLogs
  PROVE  EvmInv'
<1>1. ConfigInv'
  BY DEF EvmInv, ConfigInv, FetchLogs
<1>2. block.state = "captured" /\ block \in Blocks /\ stable \subseteq block.matcher
  BY DEF EvmInv, BlockInv, FetchLogs
<1>3. block' = [block EXCEPT !.state = "fetched", !.logs = Passed(applied)]
  BY DEF EvmInv, ConfigInv, FetchLogs, Passed
<1>4. Passed(applied) \in SUBSET DOMAIN Logs
  BY DEF Passed
<1>5. /\ block' \in Blocks /\ block'.state = "fetched"
      /\ block'.matcher = block.matcher /\ block'.logs = Passed(applied)
  BY <1>2, <1>3, <1>4 DEF Blocks, BlockStates
<1>6. stable' = stable /\ target' = target /\ applied' = applied /\ applied \in Snapshots
  BY DEF EvmInv, ConfigInv, FetchLogs
<1>7. Kept(applied) /\ Kept(applied)'
  BY <1>6 DEF EvmInv, BlockInv, Kept
<1>8. BlockInv'
  BY <1>2, <1>5, <1>6, <1>7 DEF BlockInv, Kept
<1> QED BY <1>1, <1>8 DEF EvmInv

(* The block is parsed under the ABIs of the target, with a transparent *)
(* cache.                                                               *)
LEMMA ProcessStep ==
  ASSUME EvmInv, Process
  PROVE  EvmInv'
<1>1. /\ block.state = "fetched" /\ block \in Blocks /\ stable \subseteq block.matcher
      /\ registry \in Bodies /\ target \in Snapshots /\ registry = target.abis
      /\ CacheOf(registry, decoders) /\ Kept(applied)
  BY SnapshotFacts DEF EvmInv, ConfigInv, BlockInv, Process
<1>2. PICK a \in Snapshots : Kept(a) /\ block.logs = Passed(a)
  BY <1>1 DEF EvmInv, BlockInv
<1>3. CacheOf(registry, decoders')
  BY <1>1, CachedIsCache DEF Process, EntryTypes
<1>4. ConfigInv'
  BY <1>3 DEF EvmInv, ConfigInv, Process
<1>5. hits' = Hits(block.matcher, PipelineEvents(target.abis, Passed(a)))
  <2>1. AbiEvents(registry, decoders, block.logs) = AbiEvents(registry, NoDecoders, block.logs)
    BY <1>1, CacheIsTransparent
  <2> QED BY <1>1, <1>2, <2>1 DEF Process, PipelineEvents
<1>6. block' \in Blocks /\ block'.state = "tracing" /\ block'.matcher = block.matcher
  BY <1>1 DEF Process, Blocks, BlockStates
<1>7. stable' = stable /\ target' = target /\ applied' = applied
  BY DEF Process
<1>8. Kept(target)
  BY <1>1, UnchangedAtOnce DEF Kept
<1>9. Kept(a)' /\ Kept(target)' /\ Kept(applied)'
  BY <1>1, <1>2, <1>7, <1>8 DEF Kept
<1>10. BlockInv'
  BY <1>1, <1>5, <1>6, <1>7, <1>9 DEF BlockInv
<1> QED BY <1>4, <1>10 DEF EvmInv

(* The traced calls are parsed under the ABIs of a possibly later target. *)
LEMMA TraceStep ==
  ASSUME EvmInv, NEW lost \in SUBSET Roots, TraceBlock(lost)
  PROVE  EvmInv'
<1>1. /\ block.state = "tracing" /\ block \in Blocks /\ stable \subseteq block.matcher
      /\ registry \in Bodies /\ target \in Snapshots /\ registry = target.abis
      /\ CacheOf(registry, decoders) /\ Kept(applied)
  BY SnapshotFacts DEF EvmInv, ConfigInv, BlockInv, TraceBlock
<1>2. PICK a \in Snapshots, b \in Snapshots :
         Kept(a) /\ Kept(b) /\ hits = Hits(block.matcher, PipelineEvents(b.abis, Passed(a)))
  BY <1>1 DEF EvmInv, BlockInv
<1>3. CacheOf(registry, decoders')
  BY <1>1, CachedIsCache DEF TraceBlock, EntryTypes
<1>4. ConfigInv'
  BY <1>3 DEF EvmInv, ConfigInv, TraceBlock
<1>5. block' \in Blocks /\ block'.state = "processed" /\ block'.lost = lost
  BY <1>1 DEF TraceBlock, Blocks, BlockStates
<1>6. hits' = Hits(block.matcher, PipelineEvents(b.abis, Passed(a)))
                \cup Hits(block.matcher, InternalEvents(target.abis, lost))
  BY <1>1, <1>2 DEF TraceBlock
<1>7. stable' = stable /\ target' = target /\ applied' = applied
  BY DEF TraceBlock
<1>8. Kept(target)
  BY <1>1, UnchangedAtOnce DEF Kept
<1>9. Kept(a)' /\ Kept(b)' /\ Kept(target)' /\ Kept(applied)'
  BY <1>1, <1>2, <1>7, <1>8 DEF Kept
<1>10. block.matcher \in SUBSET AllSubs
  BY <1>1 DEF Blocks
<1>11. BlockInv'
  BY <1>1, <1>5, <1>6, <1>7, <1>9, <1>10 DEF BlockInv
<1> QED BY <1>4, <1>11 DEF EvmInv

(* The next block finds nothing stable and nothing reported. *)
LEMMA BlockOverStep ==
  ASSUME EvmInv, BlockOver
  PROVE  EvmInv'
<1>1. NoBlock \in Blocks /\ NoBlock.state = "none"
  BY DEF NoBlock, Blocks, BlockStates
<1> QED BY <1>1 DEF EvmInv, ConfigInv, BlockInv, Kept, BlockOver

(* EvmInv is inductive: one case per action, and the Solana parsers leave *)
(* it alone.                                                              *)
LEMMA EvmStep == EvmInv /\ [ParsingNext]_parsingVars => EvmInv'
<1> SUFFICES ASSUME EvmInv, [ParsingNext]_parsingVars PROVE EvmInv'
  OBVIOUS
<1>1. CASE UNCHANGED vars
  BY <1>1 DEF vars, EvmInv, ConfigInv, BlockInv, Kept
<1>2. CASE Next
  <2>1. CASE \E s \in Snapshots : Refresh(s)
    BY <2>1, RefreshStep
  <2>2. CASE ReplaceMatcher \/ ReplaceFilter
    BY <2>2, ReplaceStep
  <2>3. CASE Capture
    BY <2>3, CaptureStep
  <2>4. CASE FetchLogs
    BY <2>4, FetchStep
  <2>5. CASE Process
    BY <2>5, ProcessStep
  <2>6. CASE \E lost \in SUBSET Roots : TraceBlock(lost)
    BY <2>6, TraceStep
  <2>7. CASE TraceFails \/ NextBlock
    BY <2>7, BlockOverStep DEF TraceFails, NextBlock
  <2> QED BY <1>2, <2>1, <2>2, <2>3, <2>4, <2>5, <2>6, <2>7 DEF Next
<1>3. UNCHANGED vars \/ Next
  BY DEF ParsingNext, ParseEvm, ParseSolana, parsingVars
<1> QED BY <1>1, <1>2, <1>3

(* The EVM side of the composition always satisfies EvmInv. *)
LEMMA EvmAlways == ParsingSpec => []EvmInv
<1>1. ParsingInit => EvmInv
  BY EvmInit DEF ParsingInit
<1> QED BY <1>1, EvmStep, PTL DEF ParsingSpec

(* However often snapshots replace, delete or reorder ABIs between and     *)
(* within blocks, the decoder cache of AbiRegistry never holds a decoder   *)
(* of a body that is gone: refresh evicts what changed, and what is cached *)
(* later is of the body in the registry.                                   *)
THEOREM DecodersStayCurrent == ParsingSpec => []DecodersAreCurrent
<1>1. EvmInv => DecodersAreCurrent
  <2> SUFFICES ASSUME EvmInv, NEW k \in DOMAIN decoders, decoders[k] # None
               PROVE  \E b \in Body(registry, k[1]) : \E j \in DOMAIN b : b[j] = decoders[k]
    BY DEF DecodersAreCurrent
  <2>1. \E b \in Body(registry, k[1]) : Leads(b, k[2], decoders[k])
    BY DEF EvmInv, ConfigInv, CacheOf
  <2> QED BY <2>1 DEF Leads
<1> QED BY <1>1, EvmAlways, PTL
-----------------------------------------------------------------------------
(* Filters. *)

(* One entry as evaluate reads it. *)
Holds(f, args) ==
  LET read == Split(Key(f))
  IN  read.field \in DOMAIN args /\ Compare(read.op, args[read.field], f)

(* A clear filter is read as it is meant. *)
LEMMA ClearIsMeant ==
  ASSUME NEW args, \A a \in DOMAIN args : IsValue(args[a]),
         NEW s \in AllSubs, NEW f \in s.filters, Clear(f, args)
  PROVE  Holds(f, args) <=> Means(f, args)
<1>1. f.op \in {"eq", "in", "gte", "lte"} /\ \A x \in f.values : IsValue(x)
  BY ValuesAssumption
<1>2. CASE f.field \notin DOMAIN args
  <2>1. ~Means(f, args)
    BY <1>2 DEF Means
  <2>2. ~Holds(f, args)
    BY <1>2 DEF Holds, Clear
  <2> QED BY <2>1, <2>2
<1>3. CASE f.field \in DOMAIN args
  <2> DEFINE actual == args[f.field]
  <2>1. IsValue(actual)
    BY <1>3
  <2>2. Holds(f, args) <=> Compare(f.op, actual, f)
    BY <1>3 DEF Holds, Clear
  <2>3. f.list <=> f.op = "in"
    BY DEF Clear
  <2>4. CASE f.op \in {"eq", "in"}
    <3>1. ASSUME NEW x \in f.values
          PROVE  Norm(actual) = Norm(x) <=> SameValue(actual, x)
      <4>1. IsValue(x) /\ (IsNumber(x) /\ IsNumber(actual) => x.k = actual.k)
        BY <1>1, <1>3, <2>4 DEF Clear
      <4> HIDE DEF actual
      <4>3. Norm(x) = [k |-> x.k, v |-> x.v, upper |-> FALSE]
        BY <4>1 DEF Norm, IsValue
      <4>4. Norm(actual) = [k |-> actual.k, v |-> actual.v, upper |-> FALSE]
        BY <2>1 DEF Norm, IsValue
      <4>5. Norm(actual) = Norm(x) <=> actual.k = x.k /\ actual.v = x.v
        <5>1. Norm(actual).k = actual.k /\ Norm(actual).v = actual.v /\ Norm(x).k = x.k /\ Norm(x).v = x.v
          BY <4>3, <4>4
        <5> QED BY <4>3, <4>4, <5>1
      <4> QED BY <4>1, <4>5 DEF SameValue
    <3>2. Means(f, args) <=> \E x \in f.values : SameValue(actual, x)
      BY <1>3, <2>4 DEF Means
    <3>3. Compare(f.op, actual, f) <=> Norm(actual) \in {Norm(x) : x \in f.values}
      BY <2>3, <2>4 DEF Compare
    <3> QED BY <2>2, <3>1, <3>2, <3>3
  <2>5. CASE f.op \in {"gte", "lte"}
    <3>1. \A x \in f.values : IsNumber(x)
      BY <2>5 DEF Clear
    <3> QED BY <1>3, <2>2, <2>3, <2>5, <3>1 DEF Means, Compare
  <2> QED BY <1>1, <2>4, <2>5
<1> QED BY <1>2, <1>3

(* Plain filters select what their author wants. *)
LEMMA PlainIsMeant ==
  ASSUME NEW args, \A a \in DOMAIN args : IsValue(args[a]), NEW s \in AllSubs, PlainFilters(s, args)
  PROVE  Evaluate(s.filters, args) <=> \A f \in s.filters : Means(f, args)
<1>1. Evaluate(s.filters, args) <=> \A f \in s.filters : Holds(f, args)
  BY DEF Evaluate, Holds
<1> QED BY <1>1, ClearIsMeant DEF PlainFilters

(* Without arguments only the empty filter holds. *)
LEMMA NoArgsFilter ==
  ASSUME NEW s
  PROVE  /\ Evaluate(s.filters, NoArgs) <=> s.filters = {}
         /\ (\A f \in s.filters : Means(f, NoArgs)) <=> s.filters = {}
<1>1. DOMAIN NoArgs = {}
  BY DEF NoArgs
<1> QED BY <1>1 DEF Evaluate, Means
-----------------------------------------------------------------------------
(* Logs. *)

(* The entries that decode a log: as in WantsLog. *)
Decodes(abis, l) ==
  {e \in Entries[abis] : e.type = "event" /\ e.key = l.topic0
                           /\ e.indexed + 1 = l.topics /\ l.bad = "no"}

(* The conditions of _matches that do not depend on the name. *)
Admits(s, kind0, address) ==
  /\ s.kind = kind0
  /\ s.start # None => BlockNumber >= s.start
  /\ s.address # None => s.address = address

(* The one entry of the index that a log is tried with. *)
LEMMA TriedEntry ==
  ASSUME NEW abis \in Bodies, NEW key, NEW type \in EntryTypes, NEW e \in Entries[abis],
         e.type = type, e.key = key
  PROVE  \E p \in EntryFor(abis, key, type) :
           /\ EntryFor(abis, key, type) = {p} /\ First(EntryFor(abis, key, type)) = p
           /\ At(abis, p) \in Entries[abis] /\ At(abis, p).type = type /\ At(abis, p).key = key
<1>1. PICK p \in Index[abis][type] : At(abis, p).key = key
  BY IndexHasKey
<1>2. p \in EntryFor(abis, key, type)
  BY <1>1 DEF EntryFor
<1>3. EntryFor(abis, key, type) = {p}
  BY <1>1, <1>2, IndexIsUnique DEF EntryFor
<1>4. First({p}) = p
  BY DEF First
<1>5. At(abis, p) \in Entries[abis] /\ At(abis, p).type = type
  BY <1>1, IndexFacts, PositionFacts
<1> QED BY <1>1, <1>2, <1>3, <1>4, <1>5

(* What the index finds for a key is one entry of the ABIs with that key. *)
LEMMA TriedFromIndex ==
  ASSUME NEW abis \in Bodies, NEW key, NEW type \in EntryTypes, EntryFor(abis, key, type) # {}
  PROVE  \E e \in Entries[abis] :
           /\ e.type = type /\ e.key = key
           /\ At(abis, First(EntryFor(abis, key, type))) = e
           /\ \A p \in EntryFor(abis, key, type) : At(abis, p) = e
<1>1. PICK p \in Index[abis][type] : At(abis, p).key = key
  BY DEF EntryFor
<1>2. At(abis, p) \in Entries[abis] /\ At(abis, p).type = type
  BY <1>1, IndexFacts, PositionFacts
<1>3. PICK q \in EntryFor(abis, key, type) :
         EntryFor(abis, key, type) = {q} /\ First(EntryFor(abis, key, type)) = q
  BY <1>1, <1>2, TriedEntry
<1>4. p \in EntryFor(abis, key, type)
  BY <1>1 DEF EntryFor
<1>5. q = p
  BY <1>3, <1>4
<1> QED BY <1>1, <1>2, <1>3, <1>5

(* A log is decoded when the entry tried fits, and then has its name. *)
TriedName(abis, l) == At(abis, First(EntryFor(abis, l.topic0, "event"))).name

(* A log that the tried entry fits is one the ABIs decode, under the tried *)
(* name.                                                                   *)
LEMMA FitsMeansDecodes ==
  ASSUME NEW abis \in Bodies, NEW l, Fits(abis, NoDecoders, l), l.bad = "no"
  PROVE  \E e \in Decodes(abis, l) : e.name = TriedName(abis, l)
<1>1. PICK p \in EntryFor(abis, l.topic0, "event") :
         DecoderOf(abis, NoDecoders, p).indexed + 1 = l.topics
  BY DEF Fits
<1>2. PICK e \in Entries[abis] : /\ e.type = "event" /\ e.key = l.topic0
                                 /\ At(abis, First(EntryFor(abis, l.topic0, "event"))) = e
                                 /\ At(abis, p) = e
  BY <1>1, TriedFromIndex DEF EntryTypes
<1>3. DecoderOf(abis, NoDecoders, p) = e
  BY <1>1, <1>2, DecoderIsEntry, NoDecodersIsCache DEF EntryFor, EntryTypes
<1> QED BY <1>1, <1>2, <1>3 DEF Decodes, TriedName

(* Conversely when every entry of its topic0 indexes as many arguments: *)
(* nothing shadows the entry.                                           *)
LEMMA DecodesMeansFits ==
  ASSUME NEW abis \in Bodies, NEW l, NEW e \in Decodes(abis, l),
         \A d \in Entries[abis] : d.type = "event" /\ d.key = l.topic0 => d.indexed = e.indexed
  PROVE  Fits(abis, NoDecoders, l) /\ TriedName(abis, l) = e.name
<1>1. e \in Entries[abis] /\ e.type = "event" /\ e.key = l.topic0 /\ e.indexed + 1 = l.topics
  BY DEF Decodes
<1>2. PICK p \in EntryFor(abis, l.topic0, "event") :
         /\ First(EntryFor(abis, l.topic0, "event")) = p
         /\ At(abis, p) \in Entries[abis] /\ At(abis, p).type = "event" /\ At(abis, p).key = l.topic0
  BY <1>1, TriedEntry DEF EntryTypes
<1>3. DecoderOf(abis, NoDecoders, p) = At(abis, p)
  BY <1>2, DecoderIsEntry, NoDecodersIsCache DEF EntryFor, EntryTypes
<1>4. At(abis, p).indexed = e.indexed
  BY <1>2
<1>5. e \in AllEntries /\ At(abis, p) \in AllEntries
  BY <1>1, <1>2 DEF AllEntries
<1>6. At(abis, p).name = e.name
  BY <1>1, <1>2, <1>5, KeysAreHashes
<1> QED BY <1>1, <1>2, <1>3, <1>4, <1>6 DEF Fits, TriedName

(* Which hits a block's logs give. *)
LEMMA Erc20Hit ==
  ASSUME NEW s, NEW i, NEW logs
  PROVE  (\E e \in Erc20Events(logs) : e.of = <<"log", i>> /\ Matches(s, e, BlockNumber))
         <=> /\ i \in logs /\ Logs[i].topic0 = TransferTopic
             /\ Logs[i].topics = 3 /\ Logs[i].bad # "data"
             /\ Admits(s, "token_transfer", Logs[i].address)
             /\ s.name # None => s.name = "Transfer"
             /\ Evaluate(s.filters, Logs[i].args)
<1> DEFINE E(j) == Event("erc20", <<"log", j>>, "token_transfer", Logs[j].address, "Transfer", Logs[j].args)
           J == {j \in logs : Logs[j].topic0 = TransferTopic /\ Logs[j].topics = 3 /\ Logs[j].bad # "data"}
<1>1. Erc20Events(logs) = {E(j) : j \in J}
  BY DEF Erc20Events
<1>2. \A j : E(j).of = <<"log", i>> <=> j = i
  BY DEF Event
<1>3. Matches(s, E(i), BlockNumber) <=> /\ Admits(s, "token_transfer", Logs[i].address)
                                        /\ s.name # None => s.name = "Transfer"
                                        /\ Evaluate(s.filters, Logs[i].args)
  BY DEF Matches, Event, Admits
<1> HIDE DEF E
<1> QED BY <1>1, <1>2, <1>3

(* When the event parser reports a log to a subscription, spelled out. *)
LEMMA AbiHit ==
  ASSUME NEW abis, NEW s, NEW i, NEW logs
  PROVE  (\E e \in AbiEvents(abis, NoDecoders, logs) :
            e.of = <<"log", i>> /\ Matches(s, e, BlockNumber))
         <=> LET l == Logs[i]
                 decoded == Fits(abis, NoDecoders, l) /\ l.bad = "no"
             IN  /\ i \in Parsed(abis, NoDecoders, logs) /\ l.topics > 0
                 /\ Admits(s, "event", l.address)
                 /\ s.name # None => s.name = IF decoded THEN TriedName(abis, l) ELSE None
                 /\ Evaluate(s.filters, IF decoded THEN l.args ELSE NoArgs)
<1> DEFINE decoded(j) == Fits(abis, NoDecoders, Logs[j]) /\ Logs[j].bad = "no"
           E(j) == Event("abi_event", <<"log", j>>, "event", Logs[j].address,
                         IF decoded(j) THEN TriedName(abis, Logs[j]) ELSE None,
                         IF decoded(j) THEN Logs[j].args ELSE NoArgs)
           J == {j \in Parsed(abis, NoDecoders, logs) : Logs[j].topics > 0}
<1>1. AbiEvents(abis, NoDecoders, logs) = {E(j) : j \in J}
  BY DEF AbiEvents, TriedName
<1>2. \A j : E(j).of = <<"log", i>> <=> j = i
  BY DEF Event
<1>3. Matches(s, E(i), BlockNumber)
      <=> /\ Admits(s, "event", Logs[i].address)
          /\ s.name # None => s.name = IF decoded(i) THEN TriedName(abis, Logs[i]) ELSE None
          /\ Evaluate(s.filters, IF decoded(i) THEN Logs[i].args ELSE NoArgs)
  BY DEF Matches, Event, Admits
<1> HIDE DEF E
<1> QED BY <1>1, <1>2, <1>3

(* A log of the block gave a hit for s. *)
LogHit(s, i, abis, logs) ==
  \E e \in Erc20Events(logs) \cup AbiEvents(abis, NoDecoders, logs) :
    e.of = <<"log", i>> /\ Matches(s, e, BlockNumber)

(* Two snapshots that mean the same to s decode the same for s. *)
LEMMA UnchangedDecodes ==
  ASSUME NEW a \in Snapshots, NEW b \in Snapshots, NEW s, s \in Unchanged(a, b), NEW l
  PROVE  /\ s.name # None =>
              \A e : e.name = s.name => (e \in Decodes(a.abis, l) <=> e \in Decodes(b.abis, l))
         /\ s.name = None /\ s.kind = "event" => Decodes(a.abis, l) = Decodes(b.abis, l)
<1>1. CASE s.name # None
  <2>1. Named(a.abis, s.name) = Named(b.abis, s.name)
    BY <1>1 DEF Unchanged
  <2>2. \A e : e.name = s.name => (e \in Entries[a.abis] <=> e \in Entries[b.abis])
    BY <2>1 DEF Named
  <2> QED BY <1>1, <2>2 DEF Decodes
<1>2. CASE s.name = None
  BY <1>2 DEF Unchanged, Decodes
<1> QED BY <1>1, <1>2

(* Nothing reaches s that it does not want. *)
LEMMA LogSound ==
  ASSUME target \in Snapshots, NEW b \in Snapshots, NEW s \in AllSubs, s \in Unchanged(b, target),
         NEW i \in DOMAIN Logs, PlainFilters(s, Logs[i].args),
         NEW logs, LogHit(s, i, b.abis, logs)
  PROVE  WantsLog(s, Logs[i])
<1> DEFINE l == Logs[i]
           as == Decodes(target.abis, l)
<1>1. Evaluate(s.filters, l.args) <=> \A f \in s.filters : Means(f, l.args)
  BY PlainIsMeant, ValuesAssumption
<1>2. CASE \E e \in Erc20Events(logs) : e.of = <<"log", i>> /\ Matches(s, e, BlockNumber)
  <2>1. /\ l.topic0 = TransferTopic /\ l.topics = 3 /\ l.bad # "data"
        /\ Admits(s, "token_transfer", l.address)
        /\ s.name # None => s.name = "Transfer"
        /\ Evaluate(s.filters, l.args)
    BY <1>2, Erc20Hit
  <2>2. Wants(s, l.address, l.args)
    BY <1>1, <2>1 DEF Wants, Admits
  <2> QED BY <2>1, <2>2 DEF WantsLog, Admits
<1>3. CASE \E e \in AbiEvents(b.abis, NoDecoders, logs) :
             e.of = <<"log", i>> /\ Matches(s, e, BlockNumber)
  <2> DEFINE decoded == Fits(b.abis, NoDecoders, l) /\ l.bad = "no"
  <2>1. /\ l.topics > 0 /\ Admits(s, "event", l.address)
        /\ s.name # None => s.name = IF decoded THEN TriedName(b.abis, l) ELSE None
        /\ Evaluate(s.filters, IF decoded THEN l.args ELSE NoArgs)
    BY <1>3, AbiHit
  <2>2. s.kind = "event"
    BY <2>1 DEF Admits
  <2>3. CASE decoded
    <3>1. PICK e \in Decodes(b.abis, l) : e.name = TriedName(b.abis, l)
      BY <2>3, FitsMeansDecodes, SnapshotFacts
    <3>2. as # {} /\ (s.name = None \/ \E d \in as : d.name = s.name)
      BY <2>1, <2>2, <2>3, <3>1, UnchangedDecodes
    <3>3. Wants(s, l.address, l.args)
      BY <1>1, <2>1, <2>3 DEF Wants, Admits
    <3> QED BY <2>1, <2>2, <3>2, <3>3 DEF WantsLog, Decodes
  <2>4. CASE ~decoded
    <3>1. s.name = None
      BY <2>1, <2>4
    <3>2. s.filters = {}
      BY <2>1, <2>4, NoArgsFilter
    <3>3. \A args : Wants(s, l.address, args)
      BY <2>1, <3>2 DEF Wants, Admits
    <3> QED BY <2>1, <2>2, <3>1, <3>3 DEF WantsLog
  <2> QED BY <2>3, <2>4
<1> QED BY <1>2, <1>3 DEF LogHit

(* The filter of a snapshot lets everything pass that s wants. *)
LEMMA WantedPasses ==
  ASSUME target \in Snapshots, NEW a \in Snapshots, NEW s \in AllSubs, s \in Unchanged(a, target),
         NEW i \in DOMAIN Logs, WantsLog(s, Logs[i]), s.kind = "event" => ~Ambiguous(s)
  PROVE  i \in Passed(a)
<1> DEFINE l == Logs[i]
           f == BuildFilter(a.abis, a.subs)
<1>1. s \in Relevant(a.subs)
  BY DEF WantsLog, Unchanged, Relevant
<1>2. s.address # None => s.address = l.address
  BY DEF WantsLog, Wants
<1>3. l.address \in f.addresses
  BY <1>1, <1>2 DEF BuildFilter, Addresses
<1>4. l.topic0 \in Topics
  BY DEF Topics
<1>5. ASSUME Topic0Of(a.abis, s) # None
      PROVE  Topic0Of(a.abis, s) = l.topic0
  <2>1. CASE s.kind = "token_transfer"
    BY <2>1 DEF WantsLog, Topic0Of
  <2>2. CASE s.kind = "event"
    <3> DEFINE named == {p \in Index[a.abis]["event"] :
                            a.abis[p[1]].id = s.abi /\ At(a.abis, p).name = s.name}
               p == First(named)
    <3>1. s.name # None /\ named # {} /\ Topic0Of(a.abis, s) = At(a.abis, p).key
      BY <1>5, <2>2 DEF Topic0Of, EventTopic0For
    <3>2. p \in named
      <4>1. \A q \in named : q = <<q[1], q[2]>> /\ q[1] \in Nat /\ q[2] \in Nat
        BY IndexFacts, PositionFacts, SnapshotFacts DEF EntryTypes
      <4> HIDE DEF named
      <4> QED BY <3>1, <4>1, FirstOfPairs
    <3>3. At(a.abis, p) \in Entries[a.abis] /\ At(a.abis, p).type = "event"
      <4>1. a.abis \in Bodies /\ "event" \in EntryTypes
        BY SnapshotFacts DEF EntryTypes
      <4>2. p \in Index[a.abis]["event"]
        BY <3>2
      <4> HIDE DEF p
      <4>3. p \in Positions(a.abis, "event")
        BY <4>1, <4>2, IndexFacts
      <4> QED BY <4>1, <4>3, PositionFacts
    <3>4. At(a.abis, p) \in Named(target.abis, s.name)
      <4>1. At(a.abis, p) \in Named(a.abis, s.name)
        BY <3>2, <3>3 DEF Named
      <4> QED BY <3>1, <4>1 DEF Unchanged
    <3>5. PICK e \in Decodes(target.abis, l) : e.name = s.name
      BY <2>2, <3>1 DEF WantsLog, Decodes
    <3>6. e \in Named(target.abis, s.name) /\ e.type = "event" /\ e.key = l.topic0
      BY <3>5 DEF Decodes, Named
    <3> QED BY <2>2, <3>1, <3>3, <3>4, <3>6 DEF Ambiguous
  <2> QED BY <2>1, <2>2 DEF WantsLog
<1>6. l.topic0 \in f.topic0s
  BY <1>1, <1>4, <1>5 DEF BuildFilter, CollectTopic0s
<1> QED BY <1>3, <1>6 DEF Passed, Passes

(* Everything reaches s that it wants. *)
LEMMA LogComplete ==
  ASSUME target \in Snapshots, NEW a \in Snapshots, NEW b \in Snapshots, NEW s \in AllSubs,
         s \in Unchanged(a, target), s \in Unchanged(b, target),
         NEW i \in DOMAIN Logs, PlainFilters(s, Logs[i].args), WantsLog(s, Logs[i]),
         s.kind = "event" => ~Ambiguous(s) /\ ~Shadowed(Logs[i]) /\ ~Behind(i)
  PROVE  LogHit(s, i, b.abis, Passed(a))
<1> DEFINE l == Logs[i]
           as == Decodes(target.abis, l)
<1>1. Evaluate(s.filters, l.args) <=> \A f \in s.filters : Means(f, l.args)
  BY PlainIsMeant, ValuesAssumption
<1>2. i \in Passed(a)
  BY WantedPasses
<1>3. CASE s.kind = "token_transfer"
  <2>1. /\ s.name \in {None, "Transfer"}
        /\ l.topic0 = TransferTopic /\ l.topics = 3 /\ l.bad # "data" /\ Wants(s, l.address, l.args)
    BY <1>3 DEF WantsLog
  <2>2. Admits(s, "token_transfer", l.address) /\ Evaluate(s.filters, l.args)
    BY <1>1, <1>3, <2>1 DEF Wants, Admits
  <2>3. \E e \in Erc20Events(Passed(a)) : e.of = <<"log", i>> /\ Matches(s, e, BlockNumber)
    BY <1>2, <2>1, <2>2, Erc20Hit
  <2> QED BY <2>3 DEF LogHit
<1>4. CASE s.kind = "event"
  <2> DEFINE decoded == Fits(b.abis, NoDecoders, l) /\ l.bad = "no"
  <2>1. /\ l.topics > 0 /\ (s.name = None \/ \E e \in as : e.name = s.name)
        /\ Wants(s, l.address, IF as = {} THEN NoArgs ELSE l.args)
    BY <1>4 DEF WantsLog, Decodes
  <2>2. i \in Parsed(b.abis, NoDecoders, Passed(a))
    <3>1. ASSUME NEW j \in Raising(b.abis, NoDecoders, Passed(a)) PROVE i < j
      <4>1. j \in DOMAIN Logs /\ Logs[j].bad = "topic"
        BY DEF Raising, Passed
      <4>2. j \notin 1..i
        BY <1>4, <4>1 DEF Behind
      <4> QED BY <4>1, <4>2, MatchingAssumption
    <3> QED BY <1>2, <3>1 DEF Parsed
  <2>3. Admits(s, "event", l.address)
    BY <1>4, <2>1 DEF Wants, Admits
  <2>4. ASSUME NEW e \in Decodes(b.abis, l), s.name # None => e.name = s.name
        PROVE  decoded /\ TriedName(b.abis, l) = e.name
    <3>1. e \in Entries[b.abis] /\ e.type = "event" /\ e.key = l.topic0 /\ l.bad = "no"
      BY <2>4 DEF Decodes
    <3>2. ASSUME NEW d \in Entries[b.abis], d.type = "event", d.key = l.topic0
          PROVE  d.indexed = e.indexed
      <4>1. d \in AllEntries /\ e \in AllEntries
        BY <3>1, <3>2, SnapshotFacts DEF AllEntries
      <4>2. d.name = e.name
        BY <3>1, <3>2, <4>1, KeysAreHashes
      <4>3. d \in Entries[target.abis] /\ e \in Entries[target.abis]
        <5>1. CASE s.name # None
          <6>1. d \in Named(b.abis, s.name) /\ e \in Named(b.abis, s.name)
            BY <2>4, <3>1, <3>2, <4>2, <5>1 DEF Named
          <6>2. Named(b.abis, s.name) = Named(target.abis, s.name)
            BY <5>1 DEF Unchanged
          <6> QED BY <6>1, <6>2 DEF Named
        <5>2. CASE s.name = None
          BY <1>4, <3>1, <3>2, <5>2 DEF Unchanged
        <5> QED BY <5>1, <5>2
      <4> QED BY <1>4, <3>1, <3>2, <4>3 DEF Shadowed
    <3> QED BY <3>1, <3>2, DecodesMeansFits, SnapshotFacts
  <2>5. CASE s.name # None
    <3>1. PICK e \in as : e.name = s.name
      BY <2>1, <2>5
    <3>2. e \in Decodes(b.abis, l)
      BY <2>5, <3>1, UnchangedDecodes
    <3>3. decoded /\ TriedName(b.abis, l) = s.name
      BY <2>4, <3>1, <3>2
    <3>4. Evaluate(s.filters, l.args)
      BY <1>1, <2>1, <3>1 DEF Wants
    <3>5. \E d \in AbiEvents(b.abis, NoDecoders, Passed(a)) :
             d.of = <<"log", i>> /\ Matches(s, d, BlockNumber)
      BY <2>1, <2>2, <2>3, <3>3, <3>4, AbiHit
    <3> QED BY <3>5 DEF LogHit
  <2>6. CASE s.name = None
    <3>1. as = Decodes(b.abis, l)
      BY <1>4, <2>6, UnchangedDecodes
    <3>2. Evaluate(s.filters, IF decoded THEN l.args ELSE NoArgs)
      <4>1. CASE as = {}
        <5>1. ~decoded
          BY <3>1, <4>1, FitsMeansDecodes, SnapshotFacts
        <5>2. s.filters = {}
          BY <2>1, <4>1, NoArgsFilter DEF Wants
        <5> QED BY <5>1, <5>2, NoArgsFilter
      <4>2. CASE as # {}
        <5>1. decoded
          BY <2>4, <2>6, <3>1, <4>2
        <5> QED BY <1>1, <2>1, <4>2, <5>1 DEF Wants
      <4> QED BY <4>1, <4>2
    <3>3. \E d \in AbiEvents(b.abis, NoDecoders, Passed(a)) :
             d.of = <<"log", i>> /\ Matches(s, d, BlockNumber)
      BY <2>1, <2>2, <2>3, <2>6, <3>2, AbiHit
    <3> QED BY <3>3 DEF LogHit
  <2> QED BY <2>5, <2>6
<1> QED BY <1>3, <1>4 DEF WantsLog

(* Hits, without the pairs. *)
LEMMA HitsAre ==
  ASSUME NEW m, NEW E, NEW h
  PROVE  h \in Hits(m, E) <=> \E x \in m, e \in E : Matches(x, e, BlockNumber) /\ h = <<x, e.of, e.by>>
<1> DEFINE P == {p \in m \X E : Matches(p[1], p[2], BlockNumber)}
<1>1. h \in Hits(m, E) <=> \E p \in P : h = <<p[1], p[2].of, p[2].by>>
  BY DEF Hits
<1>2. ASSUME NEW x \in m, NEW e \in E, Matches(x, e, BlockNumber)
      PROVE  <<x, e>> \in P /\ <<x, e>>[1] = x /\ <<x, e>>[2] = e
  BY <1>2
<1>3. ASSUME NEW p \in P PROVE p[1] \in m /\ p[2] \in E /\ Matches(p[1], p[2], BlockNumber)
  OBVIOUS
<1> HIDE DEF P
<1>4. ASSUME h \in Hits(m, E)
      PROVE  \E x \in m, e \in E : Matches(x, e, BlockNumber) /\ h = <<x, e.of, e.by>>
  BY <1>1, <1>3, <1>4
<1>5. ASSUME NEW x \in m, NEW e \in E, Matches(x, e, BlockNumber), h = <<x, e.of, e.by>>
      PROVE  h \in Hits(m, E)
  <2> DEFINE p == <<x, e>>
  <2>1. p \in P /\ p[1] = x /\ p[2] = e
    BY <1>2, <1>5
  <2> HIDE DEF p
  <2>2. h = <<p[1], p[2].of, p[2].by>>
    BY <1>5, <2>1
  <2> QED BY <1>1, <2>1, <2>2
<1> QED BY <1>4, <1>5

(* The hits about logs are those of Process. *)
LEMMA GotLog ==
  ASSUME NEW a, NEW b, NEW c, NEW m, NEW lost, NEW s \in m, NEW i,
         hits = Hits(m, PipelineEvents(b, a)) \cup Hits(m, InternalEvents(c, lost))
  PROVE  Got(s, <<"log", i>>) <=> LogHit(s, i, b, a)
<1>1. ASSUME NEW E PROVE (\E h \in Hits(m, E) : h[1] = s /\ h[2] = <<"log", i>>)
                         <=> \E e \in E : e.of = <<"log", i>> /\ Matches(s, e, BlockNumber)
  <2>1. ASSUME NEW h \in Hits(m, E), h[1] = s, h[2] = <<"log", i>>
        PROVE  \E e \in E : e.of = <<"log", i>> /\ Matches(s, e, BlockNumber)
    <3>1. PICK x \in m, e \in E : Matches(x, e, BlockNumber) /\ h = <<x, e.of, e.by>>
      BY HitsAre
    <3>2. x = s /\ e.of = <<"log", i>>
      BY <2>1, <3>1
    <3> QED BY <3>1, <3>2
  <2>2. ASSUME NEW e \in E, e.of = <<"log", i>>, Matches(s, e, BlockNumber)
        PROVE  \E h \in Hits(m, E) : h[1] = s /\ h[2] = <<"log", i>>
    <3> DEFINE h == <<s, e.of, e.by>>
    <3>1. h \in Hits(m, E)
      BY <2>2, HitsAre
    <3>2. h[1] = s /\ h[2] = <<"log", i>>
      BY <2>2
    <3> QED BY <3>1, <3>2
  <2> QED BY <2>1, <2>2
<1>2. \A e \in InternalEvents(c, lost) : e.of # <<"log", i>>
  BY DEF InternalEvents, CallEvent, Event
<1>3. \A e \in NativeEvents \cup AbiCallEvents(b) : e.of # <<"log", i>>
  BY DEF NativeEvents, AbiCallEvents, CallEvent, Event
<1>4. Got(s, <<"log", i>>) <=> \/ \E h \in Hits(m, PipelineEvents(b, a)) : h[1] = s /\ h[2] = <<"log", i>>
                               \/ \E h \in Hits(m, InternalEvents(c, lost)) : h[1] = s /\ h[2] = <<"log", i>>
  BY DEF Got
<1>5. Got(s, <<"log", i>>) <=> \E e \in PipelineEvents(b, a) : e.of = <<"log", i>> /\ Matches(s, e, BlockNumber)
  BY <1>1, <1>2, <1>4
<1> QED BY <1>3, <1>5 DEF PipelineEvents, LogHit

(* A subscription that snapshots leave alone gets what it wants of the     *)
(* logs of a block and nothing else, wherever between the awaits of the    *)
(* block registry, matcher and node-side filter are replaced, for any      *)
(* sequence of snapshots, any logs and any filters.                        *)
THEOREM StableSubscriptionsAreServed == ParsingSpec => []StableSubscriptionExact
<1>1. EvmInv => StableSubscriptionExact
  <2> SUFFICES ASSUME EvmInv, block.state = "processed",
                      NEW s \in stable, NEW i \in DOMAIN Logs, PlainFilters(s, Logs[i].args)
               PROVE  /\ Got(s, <<"log", i>>) => WantsLog(s, Logs[i])
                      /\ /\ WantsLog(s, Logs[i])
                         /\ s.kind = "event" => ~Ambiguous(s) /\ ~Shadowed(Logs[i]) /\ ~Behind(i)
                         => Got(s, <<"log", i>>)
    BY DEF StableSubscriptionExact
  <2>1. PICK a \in Snapshots, b \in Snapshots, c \in Snapshots, m \in SUBSET AllSubs :
           /\ Kept(a) /\ Kept(b) /\ stable \subseteq m
           /\ hits = Hits(m, PipelineEvents(b.abis, Passed(a)))
                       \cup Hits(m, InternalEvents(c.abis, block.lost))
    BY DEF EvmInv, BlockInv
  <2>2. /\ s \in m /\ s \in AllSubs /\ target \in Snapshots
        /\ s \in Unchanged(a, target) /\ s \in Unchanged(b, target)
    BY <2>1 DEF Kept, EvmInv, ConfigInv
  <2>3. Got(s, <<"log", i>>) <=> LogHit(s, i, b.abis, Passed(a))
    BY <2>1, <2>2, GotLog
  <2> QED BY <2>2, <2>3, LogSound, LogComplete
<1> QED BY <1>1, EvmAlways, PTL
-----------------------------------------------------------------------------
(* Recursion over the frames of a block. *)

Unfolds(g, n, base, step) ==
  \A c \in {d \in DOMAIN Frames : d < n} :
    g[c] = IF c \in Roots THEN base[c] ELSE step[c][g[Frames[c].parent]]

Solves(f, base, step) ==
  \A c \in DOMAIN Frames : f[c] = IF c \in Roots THEN base[c] ELSE step[c][f[Frames[c].parent]]

(* A value given to the roots, and to other frames from that of their      *)
(* parent, is a value for all.                                             *)
LEMMA FrameRecursion ==
  ASSUME NEW V, NEW base \in [DOMAIN Frames -> V], NEW step \in [DOMAIN Frames -> [V -> V]]
  PROVE  \E f \in [DOMAIN Frames -> V] : Solves(f, base, step)
<1> DEFINE D == DOMAIN Frames
           Below(n) == {d \in D : d < n}
           Sol(n) == {g \in [Below(n) -> V] : Unfolds(g, n, base, step)}
<1>1. \A c \in D : c \in Nat /\ (c \notin Roots => Frames[c].parent \in D /\ Frames[c].parent < c)
  BY FramesAreTrees
<1>2. ASSUME NEW n \in Nat, NEW m \in Nat, NEW g \in Sol(n), NEW h \in Sol(m),
             NEW c \in D, c < n, c < m
      PROVE  g[c] = h[c]
  <2> DEFINE Bad == {d \in D : d < n /\ d < m /\ g[d] # h[d]}
  <2> SUFFICES ASSUME Bad # {} PROVE FALSE
    BY <1>2
  <2>1. PICK d \in Bad : \A y \in Bad : d <= y
    <3>1. Bad \in SUBSET Nat
      BY <1>1
    <3> HIDE DEF Bad
    <3> QED BY <3>1, LeastNat
  <2>2. /\ g[d] = IF d \in Roots THEN base[d] ELSE step[d][g[Frames[d].parent]]
        /\ h[d] = IF d \in Roots THEN base[d] ELSE step[d][h[Frames[d].parent]]
    BY <1>2, <2>1 DEF Unfolds
  <2>3. CASE d \in Roots
    BY <2>1, <2>2, <2>3
  <2>4. CASE d \notin Roots
    <3>1. Frames[d].parent \in D /\ Frames[d].parent < d /\ Frames[d].parent \in Nat
      BY <1>1, <2>4
    <3>2. Frames[d].parent \notin Bad
      BY <1>1, <2>1, <3>1
    <3>3. Frames[d].parent < n /\ Frames[d].parent < m
      BY <1>1, <2>1, <3>1
    <3> QED BY <2>1, <2>2, <2>4, <3>1, <3>2, <3>3
  <2> QED BY <2>3, <2>4
<1>3. ASSUME NEW n \in Nat PROVE Sol(n) # {}
  <2> DEFINE Bad == {k \in Nat : Sol(k) = {}}
  <2> SUFFICES ASSUME Bad # {} PROVE FALSE
    BY <1>3
  <2>1. PICK k \in Bad : \A y \in Bad : k <= y
    <3>1. Bad \in SUBSET Nat
      OBVIOUS
    <3> HIDE DEF Bad
    <3> QED BY <3>1, LeastNat
  <2>2. k # 0
    <3>1. Below(0) = {}
      BY <1>1
    <3>2. [c \in {} |-> base[c]] \in Sol(0)
      BY <3>1 DEF Unfolds
    <3>3. 0 \notin Bad
      BY <3>2
    <3> QED BY <2>1, <3>3
  <2>3. k - 1 \in Nat /\ k - 1 \notin Bad
    BY <2>1, <2>2
  <2>4. PICK g \in Sol(k - 1) : TRUE
    BY <2>3
  <2> DEFINE Next0(c) == IF c \in Roots THEN base[c] ELSE step[c][g[Frames[c].parent]]
             h == [c \in Below(k) |-> Next0(c)]
  <2>5. ASSUME NEW c \in D, c \notin Roots, c < k
        PROVE  Frames[c].parent \in Below(k - 1) /\ g[Frames[c].parent] \in V
    BY <1>1, <2>1, <2>4, <2>5
  <2>6. \A c \in Below(k) : Next0(c) \in V
    BY <2>5
  <2>7. h \in [Below(k) -> V]
    BY <2>6
  <2>8. ASSUME NEW c \in Below(k - 1) PROVE h[c] = g[c]
    <3>1. c \in Below(k)
      BY <1>1, <2>1, <2>8
    <3> QED BY <2>4, <2>8, <3>1 DEF Unfolds
  <2>9. Unfolds(h, k, base, step)
    <3> SUFFICES ASSUME NEW c \in Below(k)
                 PROVE  h[c] = IF c \in Roots THEN base[c] ELSE step[c][h[Frames[c].parent]]
      BY DEF Unfolds
    <3>1. h[c] = Next0(c)
      OBVIOUS
    <3>2. c \notin Roots => h[Frames[c].parent] = g[Frames[c].parent]
      BY <2>5, <2>8
    <3> QED BY <3>1, <3>2
  <2>10. h \in Sol(k)
    BY <2>7, <2>9
  <2> QED BY <2>1, <2>10
<1> DEFINE G(n) == CHOOSE g \in Sol(n) : TRUE
           f == [c \in D |-> G(c + 1)[c]]
<1>4. ASSUME NEW n \in Nat PROVE G(n) \in Sol(n)
  BY <1>3
<1> HIDE DEF G
<1>5. ASSUME NEW c \in D
      PROVE  f[c] \in V /\ f[c] = IF c \in Roots THEN base[c] ELSE step[c][f[Frames[c].parent]]
  <2>1. c \in Nat /\ c + 1 \in Nat /\ c < c + 1 /\ f[c] = G(c + 1)[c] /\ G(c + 1) \in Sol(c + 1)
    <3>1. c \in Nat /\ c + 1 \in Nat /\ c < c + 1
      BY <1>1
    <3>2. G(c + 1) \in Sol(c + 1)
      BY <1>4, <3>1
    <3> HIDE DEF Sol
    <3> QED BY <3>1, <3>2
  <2>2. f[c] \in V
    BY <2>1
  <2>3. f[c] = IF c \in Roots THEN base[c] ELSE step[c][G(c + 1)[Frames[c].parent]]
    BY <2>1 DEF Unfolds
  <2>4. CASE c \notin Roots
    <3> DEFINE p == Frames[c].parent
    <3>1. p \in D /\ p \in Nat /\ p < c /\ p + 1 \in Nat /\ p < p + 1 /\ p < c + 1
      BY <1>1, <2>1, <2>4
    <3>2. f[p] = G(p + 1)[p] /\ G(p + 1) \in Sol(p + 1)
      BY <1>4, <3>1
    <3>3. G(p + 1)[p] = G(c + 1)[p]
      <4> HIDE DEF Sol, p
      <4> QED BY <1>2, <2>1, <3>1, <3>2
    <3> QED BY <2>2, <2>3, <2>4, <3>2, <3>3
  <2> QED BY <2>2, <2>3, <2>4
<1>6. f \in [D -> V]
  BY <1>5
<1> HIDE DEF f
<1> QED BY <1>5, <1>6 DEF Solves

(* A frame is one deeper than its caller. *)
LEMMA DepthUnfolds ==
  ASSUME NEW c \in DOMAIN Frames
  PROVE  Depth[c] \in Int /\ Depth[c] = IF c \in Roots THEN 0 ELSE Depth[Frames[c].parent] + 1
<1> DEFINE D == DOMAIN Frames
           base == [d \in D |-> 0]
           step == [d \in D |-> [v \in Int |-> v + 1]]
           Unfold(f) == [d \in D |-> IF d \in Roots THEN 0 ELSE f[Frames[d].parent] + 1]
<1>1. base \in [D -> Int] /\ step \in [D -> [Int -> Int]]
  OBVIOUS
<1>2. PICK f \in [D -> Int] : Solves(f, base, step)
  <2> HIDE DEF base, step
  <2> QED BY <1>1, FrameRecursion
<1>3. \A d \in D : d \notin Roots => Frames[d].parent \in D
  BY FramesAreTrees
<1>4. f = Unfold(f)
  BY <1>2, <1>3 DEF Solves
<1>5. Depth = Unfold(Depth)
  BY <1>4 DEF Depth
<1> HIDE DEF Unfold
<1>6. \A d \in D : Depth[d] = IF d \in Roots THEN 0 ELSE Depth[Frames[d].parent] + 1
  BY <1>5 DEF Unfold
<1>7. \A d \in D : Depth[d] \in Int
  <2> DEFINE Bad == {d \in D : Depth[d] \notin Int}
  <2> SUFFICES ASSUME Bad # {} PROVE FALSE
    OBVIOUS
  <2>1. PICK d \in Bad : \A y \in Bad : d <= y
    <3>1. Bad \in SUBSET Nat
      BY FramesAreTrees
    <3> HIDE DEF Bad
    <3> QED BY <3>1, LeastNat
  <2>2. d \notin Roots /\ Frames[d].parent \in Bad
    BY <1>3, <1>6, <2>1
  <2> QED BY <2>1, <2>2, FramesAreTrees
<1> QED BY <1>6, <1>7

(* A frame belongs to the transaction of its caller. *)
LEMMA RootOfUnfolds ==
  ASSUME NEW c \in DOMAIN Frames
  PROVE  RootOf[c] = IF c \in Roots THEN c ELSE RootOf[Frames[c].parent]
<1> DEFINE D == DOMAIN Frames
           base == [d \in D |-> d]
           step == [d \in D |-> [v \in D |-> v]]
           Unfold(f) == [d \in D |-> IF d \in Roots THEN d ELSE f[Frames[d].parent]]
<1>1. base \in [D -> D] /\ step \in [D -> [D -> D]]
  OBVIOUS
<1>2. PICK f \in [D -> D] : Solves(f, base, step)
  <2> HIDE DEF base, step
  <2> QED BY <1>1, FrameRecursion
<1>3. \A d \in D : d \notin Roots => Frames[d].parent \in D
  BY FramesAreTrees
<1>4. f = Unfold(f)
  BY <1>2, <1>3 DEF Solves
<1>5. RootOf = Unfold(RootOf)
  BY <1>4 DEF RootOf
<1> QED BY <1>5

(* The callers of a frame are itself and those of its caller. *)
LEMMA CallersUnfolds ==
  ASSUME NEW c \in DOMAIN Frames
  PROVE  Callers[c] = {c} \cup (IF c \in Roots THEN {} ELSE Callers[Frames[c].parent])
<1> DEFINE D == DOMAIN Frames
           base == [d \in D |-> {d}]
           step == [d \in D |-> [v \in SUBSET D |-> {d} \cup v]]
           Unfold(f) == [d \in D |-> {d} \cup (IF d \in Roots THEN {} ELSE f[Frames[d].parent])]
<1>1. base \in [D -> SUBSET D] /\ step \in [D -> [SUBSET D -> SUBSET D]]
  OBVIOUS
<1>2. PICK f \in [D -> SUBSET D] : Solves(f, base, step)
  <2> HIDE DEF base, step
  <2> QED BY <1>1, FrameRecursion
<1>3. \A d \in D : d \notin Roots => Frames[d].parent \in D
  BY FramesAreTrees
<1>4. ASSUME NEW d \in D PROVE f[d] = {d} \cup (IF d \in Roots THEN {} ELSE f[Frames[d].parent])
  BY <1>2, <1>3 DEF Solves
<1>5. f = Unfold(f)
  BY <1>4
<1>6. Callers = Unfold(Callers)
  BY <1>5 DEF Callers
<1> QED BY <1>6

(* _walk reaches a frame when it descends into every frame above it. *)
LEMMA WalkedUnfolds ==
  ASSUME NEW c \in DOMAIN Frames
  PROVE  Walked[c] <=> Descends(c) /\ (c \in Roots \/ Walked[Frames[c].parent])
<1> DEFINE D == DOMAIN Frames
           Unfold(f) == [d \in D |-> Descends(d) /\ (d \in Roots \/ f[Frames[d].parent])]
           w == [d \in D |-> \A x \in Callers[d] : Descends(x)]
<1>1. ASSUME NEW d \in D
      PROVE  w[d] = (Descends(d) /\ (d \in Roots \/ w[Frames[d].parent]))
  <2>1. CASE d \in Roots
    <3>1. Callers[d] = {d}
      BY <2>1, CallersUnfolds
    <3> QED BY <2>1, <3>1
  <2>2. CASE d \notin Roots
    <3>1. Frames[d].parent \in D /\ Callers[d] = {d} \cup Callers[Frames[d].parent]
      BY <2>2, CallersUnfolds, FramesAreTrees
    <3> QED BY <2>2, <3>1
  <2> QED BY <2>1, <2>2
<1>2. w = Unfold(w)
  BY <1>1
<1>3. Walked = Unfold(Walked)
  BY <1>2 DEF Walked
<1> QED BY <1>3

(* What the walk reaches took effect ... *)
LEMMA WalkedTookEffect ==
  ASSUME NEW c \in DOMAIN Frames, Walked[c]
  PROVE  TookEffect(c)
<1> DEFINE Bad == {d \in DOMAIN Frames : Walked[d] /\ ~TookEffect(d)}
<1> SUFFICES ASSUME Bad # {} PROVE FALSE
  OBVIOUS
<1>1. PICK d \in Bad : \A y \in Bad : d <= y
  <2>1. Bad \in SUBSET Nat
    BY FramesAreTrees
  <2> HIDE DEF Bad
  <2> QED BY <2>1, LeastNat
<1>2. ~Frames[d].failed /\ (d \in Roots \/ Walked[Frames[d].parent])
  BY <1>1, WalkedUnfolds DEF Descends
<1>3. d \notin Roots
  BY <1>1, <1>2, CallersUnfolds DEF TookEffect
<1>4. /\ Frames[d].parent \in DOMAIN Frames /\ Frames[d].parent < d
      /\ Callers[d] = {d} \cup Callers[Frames[d].parent]
  BY <1>1, <1>3, CallersUnfolds, FramesAreTrees
<1>5. Frames[d].parent \in Bad
  BY <1>1, <1>2, <1>3, <1>4 DEF TookEffect
<1> QED BY <1>1, <1>4, <1>5, FramesAreTrees

(* ... and what took effect is reached, unless it is too deep. *)
LEMMA EffectsAreWalked ==
  ASSUME NEW c \in DOMAIN Frames, TookEffect(c), Depth[c] <= MaxCallDepth
  PROVE  Walked[c]
<1> DEFINE Bad == {d \in DOMAIN Frames : TookEffect(d) /\ Depth[d] <= MaxCallDepth /\ ~Walked[d]}
<1> SUFFICES ASSUME Bad # {} PROVE FALSE
  OBVIOUS
<1>1. PICK d \in Bad : \A y \in Bad : d <= y
  <2>1. Bad \in SUBSET Nat
    BY FramesAreTrees
  <2> HIDE DEF Bad
  <2> QED BY <2>1, LeastNat
<1>2. d \in Callers[d] /\ ~Frames[d].failed
  BY <1>1, CallersUnfolds DEF TookEffect
<1>3. d \notin Roots /\ ~Walked[Frames[d].parent]
  BY <1>1, <1>2, WalkedUnfolds DEF Descends
<1>4. /\ Frames[d].parent \in DOMAIN Frames /\ Frames[d].parent < d
      /\ Callers[d] = {d} \cup Callers[Frames[d].parent]
  BY <1>1, <1>3, CallersUnfolds, FramesAreTrees
<1>5. Depth[Frames[d].parent] <= MaxCallDepth
  <2>1. Depth[d] = Depth[Frames[d].parent] + 1 /\ Depth[Frames[d].parent] \in Int
    BY <1>1, <1>3, <1>4, DepthUnfolds
  <2> QED BY <1>1, <2>1, MatchingAssumption
<1>6. Frames[d].parent \in Bad
  BY <1>1, <1>3, <1>4, <1>5 DEF TookEffect
<1> QED BY <1>1, <1>4, <1>6, FramesAreTrees
-----------------------------------------------------------------------------
(* Calls and transfers. *)

(* A call of frame c, as decoded under abis, is a hit for s. *)
CallMatch(abis, s, c) ==
  LET f == Frames[c]
      entry == EntryFor(abis, f.selector, "function")
  IN  /\ entry # {} /\ ~f.bad
      /\ Admits(s, "call", f.to)
      /\ s.name # None => s.name = At(abis, First(entry)).name
      /\ Evaluate(s.filters, f.args)

CreateMatch(s, c) ==
  /\ Admits(s, "call", Frames[c].to)
  /\ s.name # None => s.name = "<create>"
  /\ Evaluate(s.filters, Frames[c].args)

(* Some event of E is about frame c and a hit for s. *)
FrameHit(E, s, c) == \E e \in E : e.of = <<"frame", c>> /\ Matches(s, e, BlockNumber)

(* When a frame is reported as a payment, and by which parser. *)
LEMMA NativeHit ==
  ASSUME NEW s, NEW c
  PROVE  /\ FrameHit(NativeEvents, s, c)
            <=> /\ c \in Roots /\ ~Frames[c].create /\ Frames[c].value > 0
                /\ Admits(s, "native_transfer", None) /\ s.name = None
                /\ Evaluate(s.filters, Frames[c].args)
         /\ \A e \in NativeEvents : e.by = "native" /\ e.kind = "native_transfer"
<1> DEFINE E(j) == Event("native", <<"frame", j>>, "native_transfer", None, None, Frames[j].args)
           J == {r \in Roots : ~Frames[r].create /\ Frames[r].value > 0}
<1>1. NativeEvents = {E(j) : j \in J}
  BY DEF NativeEvents
<1>2. \A j : (E(j).of = <<"frame", c>> <=> j = c) /\ E(j).by = "native" /\ E(j).kind = "native_transfer"
  BY DEF Event
<1>3. Matches(s, E(c), BlockNumber) <=> /\ Admits(s, "native_transfer", None) /\ s.name = None
                                        /\ Evaluate(s.filters, Frames[c].args)
  BY DEF Matches, Event, Admits
<1> HIDE DEF E
<1> QED BY <1>1, <1>2, <1>3 DEF FrameHit

(* When a call is reported to a subscription, spelled out. *)
LEMMA CallEventHit ==
  ASSUME NEW abis, NEW by, NEW s, NEW c, NEW d
  PROVE  FrameHit(CallEvent(abis, by, d), s, c) <=> d = c /\ CallMatch(abis, s, c)
<1> DEFINE entry == EntryFor(abis, Frames[d].selector, "function")
           E == Event(by, <<"frame", d>>, "call", Frames[d].to, At(abis, First(entry)).name, Frames[d].args)
<1>1. CallEvent(abis, by, d) = IF entry = {} \/ Frames[d].bad THEN {} ELSE {E}
  BY DEF CallEvent
<1>2. E.of = <<"frame", c>> <=> d = c
  BY DEF Event
<1>3. Matches(s, E, BlockNumber) <=> /\ Admits(s, "call", Frames[d].to)
                                     /\ s.name # None => s.name = At(abis, First(entry)).name
                                     /\ Evaluate(s.filters, Frames[d].args)
  BY DEF Matches, Event, Admits
<1> HIDE DEF E
<1> QED BY <1>1, <1>2, <1>3 DEF FrameHit, CallMatch

(* A call is reported under the parser that saw it. *)
LEMMA CallEventFields ==
  ASSUME NEW abis, NEW by, NEW d, NEW e \in CallEvent(abis, by, d)
  PROVE  e.by = by /\ e.kind = "call"
  BY DEF CallEvent, Event

(* When a whole transaction is reported as a call. *)
LEMMA AbiCallHit ==
  ASSUME NEW abis, NEW s, NEW c
  PROVE  /\ FrameHit(AbiCallEvents(abis), s, c)
            <=> c \in Roots /\ ~Frames[c].create /\ CallMatch(abis, s, c)
         /\ \A e \in AbiCallEvents(abis) : e.by = "abi_call" /\ e.kind = "call"
<1>1. \A e : e \in AbiCallEvents(abis)
             <=> \E r \in Roots : ~Frames[r].create /\ e \in CallEvent(abis, "abi_call", r)
  BY DEF AbiCallEvents
<1>2. FrameHit(AbiCallEvents(abis), s, c)
      <=> \E r \in Roots : ~Frames[r].create /\ FrameHit(CallEvent(abis, "abi_call", r), s, c)
  BY <1>1 DEF FrameHit
<1>3. \A e \in AbiCallEvents(abis) : e.by = "abi_call" /\ e.kind = "call"
  BY <1>1, CallEventFields
<1> QED BY <1>2, <1>3, CallEventHit

(* When a traced frame is reported: walked, and its trace not lost. *)
LEMMA InternalHit ==
  ASSUME NEW abis, NEW lost, NEW s, NEW c
  PROVE  /\ FrameHit(InternalEvents(abis, lost), s, c)
            <=> /\ c \in DOMAIN Frames /\ Walked[c] /\ RootOf[c] \notin lost
                /\ IF Frames[c].create THEN CreateMatch(s, c) ELSE CallMatch(abis, s, c)
         /\ \A e \in InternalEvents(abis, lost) : e.by = "internal" /\ e.kind = "call"
<1> DEFINE E(d) == Event("internal", <<"frame", d>>, "call", Frames[d].to, "<create>", Frames[d].args)
           S == {d \in DOMAIN Frames : Walked[d] /\ RootOf[d] \notin lost}
           Of(d) == IF Frames[d].create THEN {E(d)} ELSE CallEvent(abis, "internal", d)
<1>1. \A e : e \in InternalEvents(abis, lost) <=> \E d \in S : e \in Of(d)
  BY DEF InternalEvents
<1>2. \A d : (E(d).of = <<"frame", c>> <=> d = c) /\ E(d).by = "internal" /\ E(d).kind = "call"
  BY DEF Event
<1>3. Matches(s, E(c), BlockNumber) <=> CreateMatch(s, c)
  BY DEF Matches, Event, Admits, CreateMatch
<1> HIDE DEF E
<1>4. ASSUME NEW d
      PROVE  FrameHit(Of(d), s, c)
               <=> d = c /\ IF Frames[c].create THEN CreateMatch(s, c) ELSE CallMatch(abis, s, c)
  <2>1. CASE Frames[d].create
    BY <1>2, <1>3, <2>1 DEF FrameHit
  <2>2. CASE ~Frames[d].create
    BY <2>2, CallEventHit
  <2> QED BY <2>1, <2>2
<1>5. \A d : \A e \in Of(d) : e.by = "internal" /\ e.kind = "call"
  BY <1>2, CallEventFields
<1> HIDE DEF Of
<1>6. FrameHit(InternalEvents(abis, lost), s, c) <=> \E d \in S : FrameHit(Of(d), s, c)
  BY <1>1 DEF FrameHit
<1> QED BY <1>1, <1>4, <1>5, <1>6

(* Under snapshots that mean the same to s, calls mean the same to s. *)
LEMMA CallSound ==
  ASSUME target \in Snapshots, NEW b \in Snapshots, NEW s \in AllSubs, s \in Unchanged(b, target),
         NEW c \in DOMAIN Frames, PlainFilters(s, Frames[c].args),
         ~Frames[c].create, CallMatch(b.abis, s, c)
  PROVE  WantsFrame(s, c)
<1> DEFINE f == Frames[c]
           entry == EntryFor(b.abis, f.selector, "function")
           names == {e.name : e \in {d \in Entries[target.abis] :
                                       d.type = "function" /\ d.key = f.selector /\ ~f.bad}}
<1>1. Evaluate(s.filters, f.args) <=> \A x \in s.filters : Means(x, f.args)
  BY PlainIsMeant, ValuesAssumption
<1>2. /\ entry # {} /\ ~f.bad /\ s.kind = "call" /\ Wants(s, f.to, f.args)
      /\ s.name # None => s.name = At(b.abis, First(entry)).name
  BY <1>1 DEF CallMatch, Admits, Wants
<1>3. PICK e \in Entries[b.abis] : e.type = "function" /\ e.key = f.selector /\ At(b.abis, First(entry)) = e
  BY <1>2, TriedFromIndex, SnapshotFacts DEF EntryTypes
<1>4. e \in Entries[target.abis]
  <2>1. CASE s.name # None
    <3>1. e \in Named(b.abis, s.name)
      BY <1>2, <1>3, <2>1 DEF Named
    <3>2. e \in Named(target.abis, s.name)
      BY <2>1, <3>1 DEF Unchanged
    <3> QED BY <3>2 DEF Named
  <2>2. CASE s.name = None
    BY <1>2, <1>3, <2>2 DEF Unchanged
  <2> QED BY <2>1, <2>2
<1>5. e.name \in names
  BY <1>2, <1>3, <1>4
<1> QED BY <1>2, <1>3, <1>5 DEF WantsFrame

(* A call that a stable subscription wants matches it, unless its selector *)
(* is that of two functions.                                               *)
LEMMA CallComplete ==
  ASSUME target \in Snapshots, NEW b \in Snapshots, NEW s \in AllSubs, s \in Unchanged(b, target),
         NEW c \in DOMAIN Frames, PlainFilters(s, Frames[c].args),
         ~Frames[c].create, s.kind = "call", WantsFrame(s, c), ~Collides(c)
  PROVE  CallMatch(b.abis, s, c)
<1> DEFINE f == Frames[c]
           entry == EntryFor(b.abis, f.selector, "function")
           known == {d \in Entries[target.abis] : d.type = "function" /\ d.key = f.selector /\ ~f.bad}
<1>1. Evaluate(s.filters, f.args) <=> \A x \in s.filters : Means(x, f.args)
  BY PlainIsMeant, ValuesAssumption
<1>2. /\ {e.name : e \in known} # {} /\ (s.name # None => s.name \in {e.name : e \in known})
      /\ Wants(s, f.to, f.args)
  BY DEF WantsFrame
<1>3. PICK e \in known : s.name # None => s.name = e.name
  BY <1>2
<1>4. e \in Entries[b.abis]
  <2>1. CASE s.name # None
    <3>1. e \in Named(target.abis, s.name)
      BY <1>3, <2>1 DEF Named
    <3>2. e \in Named(b.abis, s.name)
      BY <2>1, <3>1 DEF Unchanged
    <3> QED BY <3>2 DEF Named
  <2>2. CASE s.name = None
    BY <1>3, <2>2 DEF Unchanged
  <2> QED BY <2>1, <2>2
<1>5. PICK p \in entry : /\ First(entry) = p /\ At(b.abis, p) \in Entries[b.abis]
                         /\ At(b.abis, p).key = f.selector
  BY <1>3, <1>4, TriedEntry, SnapshotFacts DEF EntryTypes
<1>6. At(b.abis, p).name = e.name
  <2>1. At(b.abis, p) \in AllEntries /\ e \in AllEntries
    BY <1>4, <1>5, SnapshotFacts DEF AllEntries
  <2> QED BY <1>3, <1>5, <2>1 DEF Collides
<1>7. Admits(s, "call", f.to) /\ Evaluate(s.filters, f.args)
  BY <1>1, <1>2 DEF Wants, Admits
<1> QED BY <1>3, <1>5, <1>6, <1>7 DEF CallMatch

(* A contract creation matches exactly the subscriptions that want it. *)
LEMMA CreateSound ==
  ASSUME NEW s \in AllSubs, NEW c \in DOMAIN Frames, PlainFilters(s, Frames[c].args), Frames[c].create
  PROVE  CreateMatch(s, c) <=> s.kind = "call" /\ WantsFrame(s, c)
<1>1. Evaluate(s.filters, Frames[c].args) <=> \A x \in s.filters : Means(x, Frames[c].args)
  BY PlainIsMeant, ValuesAssumption
<1> QED BY <1>1 DEF CreateMatch, Admits, WantsFrame, Wants

(* A payment matches exactly the subscriptions that want it. *)
LEMMA NativeSound ==
  ASSUME NEW s \in AllSubs, NEW c \in DOMAIN Frames, PlainFilters(s, Frames[c].args)
  PROVE  FrameHit(NativeEvents, s, c) <=> s.kind = "native_transfer" /\ WantsFrame(s, c)
<1>1. Evaluate(s.filters, Frames[c].args) <=> \A x \in s.filters : Means(x, Frames[c].args)
  BY PlainIsMeant, ValuesAssumption
<1> QED BY <1>1, NativeHit DEF WantsFrame, Wants, Admits

(* At most one and at most two elements. *)
LEMMA SmallSets ==
  ASSUME NEW H, NEW x, NEW y
  PROVE  /\ H \subseteq {x} => Cardinality(H) <= 1
         /\ H \subseteq {x, y} => Cardinality(H) <= 2
<1>1. IsFiniteSet({x}) /\ Cardinality({x}) = 1
  BY FS_Singleton
<1>2. {x, y} = {x} \cup {y}
  OBVIOUS
<1>3. IsFiniteSet({x, y}) /\ Cardinality({x, y}) \in {1, 2}
  BY <1>1, <1>2, FS_AddElement
<1>4. ASSUME H \subseteq {x} PROVE Cardinality(H) <= 1
  BY <1>1, <1>4, FS_Subset
<1>5. ASSUME H \subseteq {x, y} PROVE Cardinality(H) <= 2
  <2>1. Cardinality(H) \in Nat /\ Cardinality(H) <= Cardinality({x, y})
    BY <1>3, <1>5, FS_Subset, FS_CardinalityType
  <2> QED BY <1>3, <2>1
<1> QED BY <1>4, <1>5

(* The hits about a frame, by parser. *)
HitBy(h, s, c, b, d, lost) ==
  \/ h = <<s, <<"frame", c>>, "native">> /\ FrameHit(NativeEvents, s, c)
  \/ h = <<s, <<"frame", c>>, "abi_call">> /\ FrameHit(AbiCallEvents(b), s, c)
  \/ h = <<s, <<"frame", c>>, "internal">> /\ FrameHit(InternalEvents(d, lost), s, c)

(* A hit on a frame comes from one of the three parsers that see frames. *)
LEMMA FrameHits ==
  ASSUME NEW a, NEW b, NEW d, NEW m, NEW lost, NEW s \in m, NEW c,
         hits = Hits(m, PipelineEvents(b, a)) \cup Hits(m, InternalEvents(d, lost)),
         NEW h
  PROVE  h \in hits /\ h[1] = s /\ h[2] = <<"frame", c>> <=> HitBy(h, s, c, b, d, lost)
<1> DEFINE of == <<"frame", c>>
           All == PipelineEvents(b, a) \cup InternalEvents(d, lost)
<1>1. h \in hits <=> \E x \in m, e \in All : Matches(x, e, BlockNumber) /\ h = <<x, e.of, e.by>>
  BY HitsAre
<1>2. h \in hits /\ h[1] = s /\ h[2] = of
      <=> \E e \in All : Matches(s, e, BlockNumber) /\ e.of = of /\ h = <<s, of, e.by>>
  <2>1. ASSUME h \in hits, h[1] = s, h[2] = of
        PROVE  \E e \in All : Matches(s, e, BlockNumber) /\ e.of = of /\ h = <<s, of, e.by>>
    <3> HIDE DEF All
    <3>1. PICK x \in m, e \in All : Matches(x, e, BlockNumber) /\ h = <<x, e.of, e.by>>
      BY <1>1, <2>1
    <3>2. x = s /\ e.of = of
      BY <2>1, <3>1
    <3> QED BY <3>1, <3>2
  <2>2. ASSUME NEW e \in All, Matches(s, e, BlockNumber), e.of = of, h = <<s, of, e.by>>
        PROVE  h \in hits /\ h[1] = s /\ h[2] = of
    <3> HIDE DEF All
    <3> QED BY <1>1, <2>2
  <2> QED BY <2>1, <2>2
<1>3. \A e \in Erc20Events(a) \cup AbiEvents(b, NoDecoders, a) : e.of # of
  BY DEF Erc20Events, AbiEvents, Event
<1>4. \A e \in All : e.of = of => e \in NativeEvents \/ e \in AbiCallEvents(b) \/ e \in InternalEvents(d, lost)
  BY <1>3 DEF PipelineEvents
<1>5. NativeEvents \cup AbiCallEvents(b) \cup InternalEvents(d, lost) \subseteq All
  BY DEF PipelineEvents
<1>6. /\ \A e \in NativeEvents : e.by = "native"
      /\ \A e \in AbiCallEvents(b) : e.by = "abi_call"
      /\ \A e \in InternalEvents(d, lost) : e.by = "internal"
  BY NativeHit, AbiCallHit, InternalHit
<1> HIDE DEF All, of
<1>7. (\E e \in All : Matches(s, e, BlockNumber) /\ e.of = of /\ h = <<s, of, e.by>>)
      <=> \/ h = <<s, of, "native">> /\ \E e \in NativeEvents : e.of = of /\ Matches(s, e, BlockNumber)
          \/ h = <<s, of, "abi_call">> /\ \E e \in AbiCallEvents(b) : e.of = of /\ Matches(s, e, BlockNumber)
          \/ h = <<s, of, "internal">>
               /\ \E e \in InternalEvents(d, lost) : e.of = of /\ Matches(s, e, BlockNumber)
  BY <1>4, <1>5, <1>6
<1> QED BY <1>2, <1>7 DEF HitBy, FrameHit, of

(* A subscription that snapshots leave alone gets every transfer and call  *)
(* it wants that took effect and that the runner can see, none that a      *)
(* failing caller undid, and each as often as it is parsed: for any tree   *)
(* of calls, any depth limit, any traces that are missing and any          *)
(* snapshots applied between the parsing and the tracing of the block.     *)
THEOREM CallsAreServed == ParsingSpec => []CallsExact
<1>1. EvmInv => CallsExact
  <2> SUFFICES ASSUME EvmInv, block.state = "processed",
                      NEW s \in stable, NEW c \in DOMAIN Frames, PlainFilters(s, Frames[c].args)
               PROVE  /\ Got(s, <<"frame", c>>) => WantsFrame(s, c) /\ (TookEffect(c) \/ c \in Roots)
                      /\ WantsFrame(s, c) /\ TookEffect(c) /\ Visible(c) /\ ~Collides(c)
                           => Got(s, <<"frame", c>>)
                      /\ Cardinality({h \in hits : h[1] = s /\ h[2] = <<"frame", c>>})
                           <= IF c \in Roots \ block.lost THEN 2 ELSE 1
    BY DEF CallsExact
  <2>1. PICK a \in Snapshots, b \in Snapshots, d \in Snapshots, m \in SUBSET AllSubs :
           /\ Kept(b) /\ Kept(d) /\ stable \subseteq m
           /\ hits = Hits(m, PipelineEvents(b.abis, Passed(a)))
                       \cup Hits(m, InternalEvents(d.abis, block.lost))
    BY DEF EvmInv, BlockInv
  <2>2. /\ s \in m /\ s \in AllSubs /\ target \in Snapshots
        /\ s \in Unchanged(b, target) /\ s \in Unchanged(d, target)
    BY <2>1 DEF Kept, EvmInv, ConfigInv
  <2> DEFINE native == FrameHit(NativeEvents, s, c)
             top == FrameHit(AbiCallEvents(b.abis), s, c)
             internal == FrameHit(InternalEvents(d.abis, block.lost), s, c)
             N == <<s, <<"frame", c>>, "native">>
             T == <<s, <<"frame", c>>, "abi_call">>
             I == <<s, <<"frame", c>>, "internal">>
             H == {h \in hits : h[1] = s /\ h[2] = <<"frame", c>>}
  <2>3. \A h : h \in H <=> (h = N /\ native) \/ (h = T /\ top) \/ (h = I /\ internal)
    <3> SUFFICES ASSUME NEW h
                 PROVE  h \in H <=> (h = N /\ native) \/ (h = T /\ top) \/ (h = I /\ internal)
      OBVIOUS
    <3>1. h \in H <=> h \in hits /\ h[1] = s /\ h[2] = <<"frame", c>>
      OBVIOUS
    <3>2. h \in hits /\ h[1] = s /\ h[2] = <<"frame", c>>
          <=> HitBy(h, s, c, b.abis, d.abis, block.lost)
      BY <2>1, <2>2, FrameHits
    <3>3. HitBy(h, s, c, b.abis, d.abis, block.lost)
          <=> (h = N /\ native) \/ (h = T /\ top) \/ (h = I /\ internal)
      BY DEF HitBy
    <3> HIDE DEF native, top, internal, N, T, I, H
    <3> QED BY <3>1, <3>2, <3>3
  <2>4. native <=> s.kind = "native_transfer" /\ WantsFrame(s, c)
    BY <2>2, NativeSound
  <2>5. top <=> c \in Roots /\ ~Frames[c].create /\ CallMatch(b.abis, s, c)
    BY AbiCallHit
  <2>6. internal <=> /\ Walked[c] /\ RootOf[c] \notin block.lost
                     /\ IF Frames[c].create THEN CreateMatch(s, c) ELSE CallMatch(d.abis, s, c)
    BY InternalHit
  <2>7. native => c \in Roots
    BY NativeHit
  <2>8. (top \/ internal) => s.kind = "call"
    BY <2>5, <2>6 DEF CallMatch, CreateMatch, Admits
  <2>9. Got(s, <<"frame", c>>) <=> native \/ top \/ internal
    <3>1. Got(s, <<"frame", c>>) <=> \E h : h \in H
      BY DEF Got
    <3> HIDE DEF native, top, internal, N, T, I, H
    <3> QED BY <2>3, <3>1
  <2>10. ASSUME native \/ top \/ internal
         PROVE  WantsFrame(s, c) /\ (TookEffect(c) \/ c \in Roots)
    <3>1. CASE native
      BY <2>4, <2>7, <3>1
    <3>2. CASE top
      BY <2>2, <2>5, <3>2, CallSound
    <3>3. CASE internal
      <4>1. TookEffect(c)
        BY <2>6, <3>3, WalkedTookEffect
      <4>2. WantsFrame(s, c)
        BY <2>2, <2>6, <3>3, CallSound, CreateSound
      <4> QED BY <4>1, <4>2
    <3> QED BY <2>10, <3>1, <3>2, <3>3
  <2>11. ASSUME WantsFrame(s, c), TookEffect(c), Visible(c), ~Collides(c)
         PROVE  native \/ top \/ internal
    <3>1. CASE s.kind = "native_transfer"
      BY <2>4, <2>11, <3>1
    <3>2. CASE s.kind = "call"
      <4>1. CASE c \in Roots /\ ~Frames[c].create
        BY <2>2, <2>5, <2>11, <3>2, <4>1, CallComplete
      <4>2. CASE ~(c \in Roots /\ ~Frames[c].create)
        <5>1. RootOf[c] \notin block.lost /\ Depth[c] <= MaxCallDepth
          BY <2>11, <4>2 DEF Visible
        <5>2. Walked[c]
          BY <2>11, <5>1, EffectsAreWalked
        <5>3. IF Frames[c].create THEN CreateMatch(s, c) ELSE CallMatch(d.abis, s, c)
          BY <2>2, <2>11, <3>2, CallComplete, CreateSound
        <5> QED BY <2>6, <5>1, <5>2, <5>3
      <4> QED BY <4>1, <4>2
    <3> QED BY <2>11, <3>1, <3>2 DEF WantsFrame
  <2>12. Cardinality(H) <= IF c \in Roots \ block.lost THEN 2 ELSE 1
    <3>1. c \in Roots => RootOf[c] = c
      BY RootOfUnfolds
    <3>2. c \notin Roots => ~top
      BY <2>5
    <3>3. c \in Roots /\ c \in block.lost => ~internal
      BY <2>6, <3>1
    <3>4. native => ~top /\ ~internal
      BY <2>4, <2>8
    <3> HIDE DEF native, top, internal, N, T, I, H
    <3>5. H \subseteq {N} \/ H \subseteq {T, I}
      BY <2>3, <3>4
    <3>6. c \notin Roots \ block.lost => H \subseteq {N} \/ H \subseteq {T} \/ H \subseteq {I}
      BY <2>3, <3>2, <3>3, <3>4
    <3>7. Cardinality(H) <= 1 \/ (c \in Roots \ block.lost /\ Cardinality(H) <= 2)
      BY <3>5, <3>6, SmallSets
    <3>8. H \subseteq {T, I} \/ H \subseteq {N, T}
      BY <3>5
    <3>9. Cardinality(H) <= 2
      BY <3>8, SmallSets
    <3> QED BY <3>7, <3>9
  <2> QED BY <2>9, <2>10, <2>11, <2>12
<1> QED BY <1>1, EvmAlways, PTL
-----------------------------------------------------------------------------
(* IDL types. *)

(* A sequence of layers, each made from the one below. *)
Layered(f, n, base, step) == f[0] = base /\ \A i \in 1..n : f[i] = step[f[i - 1]]

(* A recursion over 0..n has a solution: there is no least n without one. *)
LEMMA LayerRecursion ==
  ASSUME NEW n \in Nat, NEW V, NEW base \in V, NEW step \in [V -> V]
  PROVE  \E f \in [0..n -> V] : Layered(f, n, base, step)
<1> DEFINE Sol(k) == {f \in [0..k -> V] : Layered(f, k, base, step)}
           Bad == {k \in Nat : Sol(k) = {}}
<1> SUFFICES ASSUME Bad # {} PROVE FALSE
  <2>1. n \notin Bad
    OBVIOUS
  <2> QED BY <2>1
<1>1. PICK k \in Bad : \A y \in Bad : k <= y
  <2>1. Bad \in SUBSET Nat
    OBVIOUS
  <2> HIDE DEF Bad
  <2> QED BY <2>1, LeastNat
<1>2. k # 0
  <2>1. [i \in 0..0 |-> base] \in Sol(0)
    BY DEF Layered
  <2>2. 0 \notin Bad
    BY <2>1
  <2> QED BY <1>1, <2>2
<1>3. k \in Nat /\ k - 1 \in Nat /\ k - 1 \notin Bad
  BY <1>1, <1>2
<1>4. PICK g : g \in Sol(k - 1)
  BY <1>3
<1> DEFINE h == [i \in 0..k |-> IF i = k THEN step[g[k - 1]] ELSE g[i]]
<1>5. g[k - 1] \in V
  BY <1>3, <1>4
<1>6. ASSUME NEW i \in 0..k PROVE h[i] \in V /\ (i # k => i \in 0..(k - 1) /\ h[i] = g[i])
  BY <1>3, <1>4, <1>5
<1>7. h \in [0..k -> V]
  BY <1>6
<1>8. ASSUME NEW i \in 1..k PROVE h[i] = step[h[i - 1]]
  <2>1. i \in 0..k /\ i - 1 \in 0..k /\ i - 1 # k
    BY <1>3
  <2>2. h[i - 1] = g[i - 1]
    BY <1>6, <2>1
  <2>3. CASE i = k
    BY <2>1, <2>2, <2>3
  <2>4. CASE i # k
    <3>1. i \in 1..(k - 1) /\ h[i] = g[i]
      BY <1>3, <1>6, <2>1, <2>4
    <3> QED BY <1>4, <2>2, <3>1 DEF Layered
  <2> QED BY <2>3, <2>4
<1>9. h[0] = base
  BY <1>2, <1>3, <1>4 DEF Layered
<1>10. h \in Sol(k)
  <2> HIDE DEF h
  <2> QED BY <1>7, <1>8, <1>9 DEF Layered
<1> QED BY <1>1, <1>10

TypesUsed == DOMAIN Types
Seen == SUBSET Solana!Names

(* The types that are built from those of S. *)
BuiltOn(S) ==
  {t \in TypesUsed : Types[t].kind \in {"scalar", "struct", "wrapper"} /\ Types[t].of \subseteq S}

(* The types that resolve when those of R do. *)
ResolvedOn(R) == {x \in TypesUsed \X Seen : Solana!Resolves(Types[x[1]], x[2], R)}

(* The recursion limit of _resolve_type is a number. *)
LEMMA DepthIsNat == MaxTypeDepth \in Nat
  BY SolanaAssumption DEF Solana!ParsingAssumption

(* Built, one layer at a time. *)
LEMMA BuiltUnfolds ==
  /\ Solana!Built[0] = {}
  /\ \A n \in 1..MaxTypeDepth : Solana!Built[n] = BuiltOn(Solana!Built[n - 1])
<1> DEFINE N == MaxTypeDepth
           V == SUBSET TypesUsed
           step == [S \in V |-> BuiltOn(S)]
           Unfold(f) == [n \in 0..N |-> IF n = 0 THEN {} ELSE BuiltOn(f[n - 1])]
<1>1. N \in Nat /\ {} \in V /\ step \in [V -> V]
  BY DepthIsNat DEF BuiltOn
<1>2. PICK f \in [0..N -> V] : Layered(f, N, {}, step)
  <2> HIDE DEF N, V, step
  <2> QED BY <1>1, LayerRecursion
<1>3. ASSUME NEW n \in 0..N, n # 0 PROVE f[n] = BuiltOn(f[n - 1])
  <2>1. n \in 1..N /\ n - 1 \in 0..N
    BY <1>1, <1>3
  <2>2. f[n] = step[f[n - 1]] /\ f[n - 1] \in V
    BY <1>2, <2>1 DEF Layered
  <2> QED BY <2>2
<1>4. f = Unfold(f)
  <2>1. f[0] = {}
    BY <1>2 DEF Layered
  <2> QED BY <1>3, <2>1
<1>5. Solana!Built = Unfold(Solana!Built)
  <2>1. \E g : g = Unfold(g)
    BY <1>4, Zenon
  <2> QED BY <2>1, Zenon DEF Solana!Built, BuiltOn, TypesUsed
<1>6. \A g : \A n \in 0..N : Unfold(g)[n] = IF n = 0 THEN {} ELSE BuiltOn(g[n - 1])
  OBVIOUS
<1>7. 0 \in 0..N /\ \A n \in 1..N : n \in 0..N /\ n # 0
  BY <1>1
<1> HIDE DEF Unfold
<1>8. \A n \in 0..N : Solana!Built[n] = IF n = 0 THEN {} ELSE BuiltOn(Solana!Built[n - 1])
  BY <1>5, <1>6
<1> QED BY <1>7, <1>8

(* ResolveType, one layer at a time. *)
LEMMA ResolveUnfolds ==
  /\ Solana!ResolveType[0] = {}
  /\ \A n \in 1..MaxTypeDepth : Solana!ResolveType[n] = ResolvedOn(Solana!ResolveType[n - 1])
<1> DEFINE N == MaxTypeDepth
           V == SUBSET (TypesUsed \X Seen)
           step == [S \in V |-> ResolvedOn(S)]
           Unfold(f) == [n \in 0..N |-> IF n = 0 THEN {} ELSE ResolvedOn(f[n - 1])]
<1>1. N \in Nat /\ {} \in V /\ step \in [V -> V]
  BY DepthIsNat DEF ResolvedOn
<1>2. PICK f \in [0..N -> V] : Layered(f, N, {}, step)
  <2> HIDE DEF N, V, step
  <2> QED BY <1>1, LayerRecursion
<1>3. ASSUME NEW n \in 0..N, n # 0 PROVE f[n] = ResolvedOn(f[n - 1])
  <2>1. n \in 1..N /\ n - 1 \in 0..N
    BY <1>1, <1>3
  <2>2. f[n] = step[f[n - 1]] /\ f[n - 1] \in V
    BY <1>2, <2>1 DEF Layered
  <2> QED BY <2>2
<1>4. f = Unfold(f)
  <2>1. f[0] = {}
    BY <1>2 DEF Layered
  <2> QED BY <1>3, <2>1
<1>5. Solana!ResolveType = Unfold(Solana!ResolveType)
  <2>1. \E g : g = Unfold(g)
    BY <1>4, Zenon
  <2> QED BY <2>1, Zenon DEF Solana!ResolveType, ResolvedOn, TypesUsed, Seen
<1>6. \A g : \A n \in 0..N : Unfold(g)[n] = IF n = 0 THEN {} ELSE ResolvedOn(g[n - 1])
  OBVIOUS
<1>7. 0 \in 0..N /\ \A n \in 1..N : n \in 0..N /\ n # 0
  BY <1>1
<1> HIDE DEF Unfold
<1>8. \A n \in 0..N : Solana!ResolveType[n] = IF n = 0 THEN {} ELSE ResolvedOn(Solana!ResolveType[n - 1])
  BY <1>5, <1>6
<1> QED BY <1>7, <1>8

(* The least layer at which something fails. *)
LEMMA LeastLayer ==
  ASSUME NEW Bad \in SUBSET (0..MaxTypeDepth), Bad # {}, 0 \notin Bad
  PROVE  \E n \in 1..MaxTypeDepth : n \in Bad /\ n - 1 \in 0..MaxTypeDepth /\ n - 1 \notin Bad
<1>1. Bad \in SUBSET Nat
  BY DepthIsNat
<1>2. PICK n \in Bad : \A y \in Bad : n <= y
  BY <1>1, LeastNat
<1> QED BY <1>2, DepthIsNat

(* What a type in use refers to is in use, and a struct is known by its *)
(* name.                                                                *)
LEMMA TypeFacts ==
  ASSUME NEW t \in TypesUsed
  PROVE  /\ Types[t].of \subseteq TypesUsed
         /\ Types[t].kind = "scalar" => Types[t].of = {}
         /\ Types[t].kind = "struct" =>
              /\ Types[t].name \in Solana!Names
              /\ \A u \in TypesUsed : Types[u].name = Types[t].name => u = t
  BY SolanaAssumption DEF Solana!ParsingAssumption, Solana!Names, TypesUsed

(* More levels build more types ... *)
LEMMA BuiltGrows ==
  ASSUME NEW n \in 1..MaxTypeDepth
  PROVE  Solana!Built[n - 1] \subseteq Solana!Built[n]
<1> DEFINE B(k) == Solana!Built[k]
           Bad == {k \in 1..MaxTypeDepth : ~(B(k - 1) \subseteq B(k))}
<1> SUFFICES ASSUME Bad # {} PROVE FALSE
  OBVIOUS
<1>1. PICK k \in 1..MaxTypeDepth : k \in Bad /\ k - 1 \in 0..MaxTypeDepth /\ k - 1 \notin Bad
  <2>1. Bad \in SUBSET (0..MaxTypeDepth) /\ 0 \notin Bad
    BY DepthIsNat
  <2> HIDE DEF Bad
  <2> QED BY <2>1, LeastLayer
<1>2. B(k) = BuiltOn(B(k - 1))
  BY BuiltUnfolds
<1>3. CASE k = 1
  BY <1>1, <1>3, BuiltUnfolds
<1>4. CASE k # 1
  <2>1. k - 1 \in 1..MaxTypeDepth
    BY <1>1, <1>4, DepthIsNat
  <2>2. B(k - 1) = BuiltOn(B((k - 1) - 1)) /\ B((k - 1) - 1) \subseteq B(k - 1)
    BY <1>1, <2>1, BuiltUnfolds
  <2>3. B(k - 1) \subseteq B(k)
    <3> HIDE DEF B
    <3> QED BY <1>2, <2>2 DEF BuiltOn
  <2> QED BY <1>1, <2>3
<1> QED BY <1>3, <1>4

(* ... and resolve more. *)
LEMMA ResolvesMore ==
  ASSUME NEW R, NEW S, R \subseteq S
  PROVE  ResolvedOn(R) \subseteq ResolvedOn(S)
  BY DEF ResolvedOn, Solana!Resolves

(* What resolves within a limit resolves within a larger one. *)
LEMMA ResolveGrows ==
  ASSUME NEW n \in 1..MaxTypeDepth
  PROVE  Solana!ResolveType[n - 1] \subseteq Solana!ResolveType[n]
<1> DEFINE R(k) == Solana!ResolveType[k]
           Bad == {k \in 1..MaxTypeDepth : ~(R(k - 1) \subseteq R(k))}
<1> SUFFICES ASSUME Bad # {} PROVE FALSE
  OBVIOUS
<1>1. PICK k \in 1..MaxTypeDepth : k \in Bad /\ k - 1 \in 0..MaxTypeDepth /\ k - 1 \notin Bad
  <2>1. Bad \in SUBSET (0..MaxTypeDepth) /\ 0 \notin Bad
    BY DepthIsNat
  <2> HIDE DEF Bad
  <2> QED BY <2>1, LeastLayer
<1>2. R(k) = ResolvedOn(R(k - 1))
  BY ResolveUnfolds
<1>3. CASE k = 1
  BY <1>1, <1>3, ResolveUnfolds
<1>4. CASE k # 1
  <2>1. k - 1 \in 1..MaxTypeDepth
    BY <1>1, <1>4, DepthIsNat
  <2>2. R(k - 1) = ResolvedOn(R((k - 1) - 1)) /\ R((k - 1) - 1) \subseteq R(k - 1)
    BY <1>1, <2>1, ResolveUnfolds
  <2>3. R(k - 1) \subseteq R(k)
    <3> HIDE DEF R
    <3> QED BY <1>2, <2>2, ResolvesMore
  <2> QED BY <1>1, <2>3
<1> QED BY <1>3, <1>4

(* A type that resolves is built from scalars within the limit. *)
LEMMA ResolvedIsBuilt ==
  ASSUME NEW n \in 0..MaxTypeDepth, NEW x \in Solana!ResolveType[n]
  PROVE  x[1] \in Solana!Built[n]
<1> DEFINE B(k) == Solana!Built[k]
           R(k) == Solana!ResolveType[k]
           Bad == {k \in 0..MaxTypeDepth : \E y \in R(k) : y[1] \notin B(k)}
<1> SUFFICES ASSUME Bad # {} PROVE FALSE
  OBVIOUS
<1>1. PICK k \in 1..MaxTypeDepth : k \in Bad /\ k - 1 \in 0..MaxTypeDepth /\ k - 1 \notin Bad
  <2>1. Bad \in SUBSET (0..MaxTypeDepth) /\ 0 \notin Bad
    BY ResolveUnfolds
  <2> HIDE DEF Bad
  <2> QED BY <2>1, LeastLayer
<1>2. PICK y \in R(k) : y[1] \notin B(k)
  BY <1>1
<1>3. B(k) = BuiltOn(B(k - 1)) /\ R(k) = ResolvedOn(R(k - 1))
  BY BuiltUnfolds, ResolveUnfolds
<1>4. \A z \in R(k - 1) : z[1] \in B(k - 1)
  BY <1>1
<1> HIDE DEF B, R
<1>5. /\ y[1] \in TypesUsed
      /\ Types[y[1]].kind \in {"scalar", "struct", "wrapper"}
      /\ \A f \in Types[y[1]].of : Types[y[1]].kind # "scalar" => \E seen : <<f, seen>> \in R(k - 1)
  BY <1>2, <1>3 DEF ResolvedOn, Solana!Resolves
<1>6. Types[y[1]].of \subseteq B(k - 1)
  <2>1. ASSUME NEW f \in Types[y[1]].of PROVE f \in B(k - 1)
    <3>1. Types[y[1]].kind # "scalar"
      BY <1>5, <2>1, TypeFacts
    <3>2. PICK seen : <<f, seen>> \in R(k - 1)
      BY <1>5, <2>1, <3>1
    <3>3. <<f, seen>>[1] \in B(k - 1)
      BY <1>4, <3>2
    <3> QED BY <3>3
  <2> QED BY <2>1
<1> QED BY <1>2, <1>3, <1>5, <1>6 DEF BuiltOn

(* A type built within n levels resolves within n levels after any names   *)
(* that no struct built within n levels has: a struct is never on its own  *)
(* path, being built at the level above its parts.                         *)
LEMMA BuiltIsResolved ==
  ASSUME NEW n \in 0..MaxTypeDepth, NEW t \in Solana!Built[n], NEW seen \in Seen,
         \A u \in Solana!Built[n] : Types[u].kind = "struct" => Types[u].name \notin seen
  PROVE  <<t, seen>> \in Solana!ResolveType[n]
<1> DEFINE B(k) == Solana!Built[k]
           R(k) == Solana!ResolveType[k]
           Free(k, names) == \A u \in B(k) : Types[u].kind = "struct" => Types[u].name \notin names
           Bad == {k \in 0..MaxTypeDepth :
                     \E y \in B(k), names \in Seen : Free(k, names) /\ <<y, names>> \notin R(k)}
<1> SUFFICES ASSUME Bad # {} PROVE FALSE
  OBVIOUS
<1>1. PICK k \in 1..MaxTypeDepth : k \in Bad /\ k - 1 \in 0..MaxTypeDepth /\ k - 1 \notin Bad
  <2>1. Bad \in SUBSET (0..MaxTypeDepth) /\ 0 \notin Bad
    BY BuiltUnfolds
  <2> HIDE DEF Bad
  <2> QED BY <2>1, LeastLayer
<1>2. PICK y \in B(k), names \in Seen : Free(k, names) /\ <<y, names>> \notin R(k)
  BY <1>1
<1>3. B(k) = BuiltOn(B(k - 1)) /\ R(k) = ResolvedOn(R(k - 1))
  BY BuiltUnfolds, ResolveUnfolds
<1>4. B(k - 1) \subseteq B(k) /\ R(k - 1) \subseteq R(k)
  BY BuiltGrows, ResolveGrows
<1>5. \A z \in B(k - 1), ns \in Seen : Free(k - 1, ns) => <<z, ns>> \in R(k - 1)
  BY <1>1
<1>6. Free(k - 1, names)
  BY <1>2, <1>4
<1>7. y \notin B(k - 1)
  BY <1>2, <1>4, <1>5, <1>6
<1> HIDE DEF B, R
<1>8. /\ y \in TypesUsed /\ Types[y].kind \in {"scalar", "struct", "wrapper"}
      /\ Types[y].of \subseteq B(k - 1) /\ B(k - 1) \subseteq TypesUsed
  <2>1. B(k) \subseteq TypesUsed
    BY <1>3 DEF BuiltOn
  <2> QED BY <1>2, <1>3, <1>4, <2>1 DEF BuiltOn
<1>9. Solana!Resolves(Types[y], names, R(k - 1))
  <2>1. CASE Types[y].kind = "scalar"
    BY <2>1 DEF Solana!Resolves
  <2>2. CASE Types[y].kind = "wrapper"
    <3>1. \A f \in Types[y].of : <<f, names>> \in R(k - 1)
      BY <1>2, <1>5, <1>6, <1>8
    <3> QED BY <2>2, <3>1 DEF Solana!Resolves
  <2>3. CASE Types[y].kind = "struct"
    <3> DEFINE more == names \cup {Types[y].name}
    <3>1. Types[y].name \notin names
      BY <1>2, <2>3
    <3>2. more \in Seen
      BY <1>2, <1>8, <2>3, TypeFacts DEF Seen
    <3>3. Free(k - 1, more)
      <4>1. ASSUME NEW u \in B(k - 1), Types[u].kind = "struct" PROVE Types[u].name # Types[y].name
        BY <1>7, <1>8, <2>3, <4>1, TypeFacts
      <4> QED BY <1>6, <4>1
    <3>4. \A f \in Types[y].of : <<f, more>> \in R(k - 1)
      BY <1>5, <1>8, <3>2, <3>3
    <3> QED BY <2>3, <3>1, <3>4 DEF Solana!Resolves
  <2> QED BY <1>8, <2>1, <2>2, <2>3
<1>10. <<y, names>> \in R(k)
  BY <1>2, <1>3, <1>8, <1>9 DEF ResolvedOn
<1> QED BY <1>2, <1>10

(* An event or call is in the Anchor index exactly when its IDL declares   *)
(* it with types that are built from scalars within the limit.             *)
LEMMA KnownIsDeclared ==
  ASSUME NEW program, NEW name, NEW list \in {"events", "calls"}
  PROVE  Solana!Known(program, name, list) <=> Solana!Declared(program, name, list)
<1>1. ASSUME NEW t \in TypesUsed
      PROVE  <<t, {}>> \in Solana!ResolveType[MaxTypeDepth] <=> t \in Solana!Built[MaxTypeDepth]
  <2>1. MaxTypeDepth \in 0..MaxTypeDepth /\ {} \in Seen
    BY DepthIsNat DEF Seen
  <2>2. ASSUME <<t, {}>> \in Solana!ResolveType[MaxTypeDepth] PROVE t \in Solana!Built[MaxTypeDepth]
    <3>1. <<t, {}>>[1] \in Solana!Built[MaxTypeDepth]
      BY <2>1, <2>2, ResolvedIsBuilt
    <3> QED BY <3>1
  <2>3. t \in Solana!Built[MaxTypeDepth] => <<t, {}>> \in Solana!ResolveType[MaxTypeDepth]
    BY <2>1, BuiltIsResolved
  <2> QED BY <2>2, <2>3
<1>2. ASSUME NEW i \in DOMAIN Idls, NEW j \in DOMAIN Idls[i][list]
      PROVE  Solana!HasStruct(Idls[i][list][j])
               <=> Idls[i][list][j].types \subseteq Solana!Built[MaxTypeDepth]
  <2>1. Idls[i][list] \in Solana!Entries(i)
    BY DEF Solana!Entries
  <2>2. Idls[i][list][j].types \subseteq TypesUsed
    BY <2>1, SolanaAssumption DEF Solana!ParsingAssumption, TypesUsed
  <2> QED BY <1>1, <2>2 DEF Solana!HasStruct
<1> QED BY <1>2 DEF Solana!Known, Solana!Declared
-----------------------------------------------------------------------------
(* A Solana transaction. *)

Callable == {ix.program : ix \in Instructions}

(* The event that a message of emit! stands for. *)
AnchorEvent(m) ==
  Solana!Event("anchor_event", m[1], "event", m[2], IF m[3].fits THEN m[3].name ELSE None,
               IF m[3].fits THEN [f \in {"value"} |-> Solana!Number(m[3].value)] ELSE Solana!NoArgs)

KnownMessages == {x \in emitted : Solana!Known(x[2], x[3].name, "events")}

(* The log as the parser has read it. *)
LogInv ==
  /\ confused \in BOOLEAN /\ calls \in Seq(Callable)
  /\ ~confused => stack = calls /\ found = {AnchorEvent(m) : m \in KnownMessages}
  /\ \A e \in found : e.by = "anchor_event"

(* Every line of the log is about one instruction at most. *)
LinesInv ==
  /\ lines \in Nat
  /\ \A x \in executed : x[1] \in Nat /\ x[1] <= lines /\ x[2] \in Instructions
  /\ \A x, y \in executed : x[1] = y[1] => x = y

(* What the pipeline has made of it. *)
PipelineInv ==
  /\ status = "failed" => calls # <<>>
  /\ status = "succeeded" => calls = <<>>
  /\ status = "parsed" => events = IF calls = <<>> THEN Solana!InstructionEvents \cup found ELSE {}

SolanaInv == LogInv /\ LinesInv /\ PipelineInv

(* A transaction begins with an empty log and an empty stack. *)
LEMMA SolanaStarts == Solana!Init => SolanaInv
<1> SUFFICES ASSUME Solana!Init PROVE SolanaInv
  OBVIOUS
<1>1. emitted = {} /\ found = {} /\ stack = <<>> /\ calls = <<>> /\ confused = FALSE
  BY DEF Solana!Init
<1>2. KnownMessages = {}
  BY <1>1 DEF KnownMessages
<1>3. found = {AnchorEvent(m) : m \in KnownMessages}
  BY <1>1, <1>2, Zenon
<1>4. LogInv
  <2>1. calls \in Seq(Callable) /\ confused \in BOOLEAN
    BY <1>1, EmptySeq, Zenon
  <2>2. \A e \in found : e.by = "anchor_event"
    BY <1>1
  <2>3. stack = calls
    BY <1>1
  <2> QED BY <1>3, <2>1, <2>2, <2>3, Zenon DEF LogInv
<1> QED BY <1>4 DEF Solana!Init, SolanaInv, LinesInv, PipelineInv

(* A line that is read. *)
LEMMA ReadKeeps ==
  ASSUME LogInv, NEW line, Solana!Write(line),
         line.kind \in {"invoke", "success", "other"}
  PROVE  found' = found
  BY DEF Solana!Write, Solana!Decoded

(* A step that emits nothing keeps LogInv if it moves stack and calls alike *)
(* or confuses the parser.                                                  *)
LEMMA LogKept ==
  ASSUME LogInv, UNCHANGED <<found, emitted>>, confused' \in BOOLEAN, calls' \in Seq(Callable),
         ~confused' => ~confused /\ stack' = calls'
  PROVE  LogInv'
<1>1. KnownMessages' = KnownMessages
  BY DEF KnownMessages, Solana!Known, Solana!HasStruct, Solana!ResolveType
<1> QED BY <1>1 DEF LogInv, AnchorEvent, Solana!Event, Solana!Number, Solana!NoArgs

(* An invoke line pushes the program on both stacks. *)
LEMMA InvokeLog ==
  ASSUME LogInv, NEW ix \in Instructions, Solana!Invoke(ix)
  PROVE  LogInv'
<1>1. found' = found /\ emitted' = emitted
  BY ReadKeeps DEF Solana!Invoke, Solana!Line
<1>2. confused' = confused /\ calls' \in Seq(Callable)
  BY DEF LogInv, Solana!Invoke, Callable
<1>3. stack' = Append(stack, ix.program) /\ calls' = Append(calls, ix.program)
  BY DEF Solana!Invoke, Solana!Write, Solana!Line, Solana!Read
<1> QED BY <1>1, <1>2, <1>3, LogKept DEF LogInv

(* A text that reads like a line of the runtime confuses the parser, *)
(* another does nothing.                                             *)
LEMMA TextLog ==
  ASSUME LogInv, NEW like \in {"invoke", "success", "other"}, Solana!LogText(like)
  PROVE  LogInv'
<1>1. found' = found /\ emitted' = emitted
  BY ReadKeeps DEF Solana!LogText, Solana!Line
<1>2. calls' = calls /\ confused' \in BOOLEAN
  BY DEF LogInv, Solana!LogText
<1>3. ASSUME ~confused' PROVE ~confused /\ stack' = calls'
  <2>1. ~confused /\ like = "other"
    BY <1>3 DEF Solana!LogText
  <2>2. stack' = stack
    BY <2>1 DEF Solana!LogText, Solana!Write, Solana!Line, Solana!Read
  <2> QED BY <1>2, <2>1, <2>2 DEF LogInv
<1> QED BY <1>1, <1>2, <1>3, LogKept DEF LogInv

(* A success line pops both stacks. *)
LEMMA ReturnLog ==
  ASSUME LogInv, Solana!Return
  PROVE  LogInv'
<1>1. found' = found /\ emitted' = emitted
  BY ReadKeeps DEF Solana!Return, Solana!Line
<1>2. confused' = confused /\ calls' = SubSeq(calls, 1, Len(calls) - 1) /\ calls # <<>>
  BY DEF Solana!Return
<1>3. calls' \in Seq(Callable)
  BY <1>2 DEF LogInv
<1>4. stack # <<>> => stack' = SubSeq(stack, 1, Len(stack) - 1)
  BY DEF Solana!Return, Solana!Write, Solana!Line, Solana!Read
<1> QED BY <1>1, <1>2, <1>3, <1>4, LogKept DEF LogInv

(* A failed line ends the log. *)
LEMMA FailLog ==
  ASSUME LogInv, Solana!Fail
  PROVE  LogInv'
<1>1. found' = found /\ emitted' = emitted
  BY ReadKeeps DEF Solana!Fail, Solana!Line
<1>2. confused' = confused /\ calls' = calls
  BY DEF Solana!Fail
<1>3. stack' = stack
  BY DEF Solana!Fail, Solana!Write, Solana!Line, Solana!Read
<1> QED BY <1>1, <1>2, <1>3, LogKept DEF LogInv

(* A data line becomes the event of the program that wrote it. *)
LEMMA EmitLog ==
  ASSUME LogInv, NEW data \in EventData, Solana!Emit(data)
  PROVE  LogInv'
<1> DEFINE line == Solana!Line("data", None, data)
           p == stack[Len(stack)]
           m == <<lines + 1, calls[Len(calls)], data>>
           new == Solana!Decoded(stack, lines + 1, line)
<1>1. /\ calls # <<>> /\ calls' = calls /\ confused' = confused
      /\ emitted' = emitted \cup {m} /\ found' = found \cup new
      /\ stack' = Solana!Read(stack, line)
  BY DEF Solana!Emit, Solana!Caller, Solana!Write
<1>2. stack' = stack
  BY <1>1 DEF Solana!Read, Solana!Line
<1>3. \A e \in new : e.by = "anchor_event"
  BY DEF Solana!Decoded, Solana!Event
<1>4. KnownMessages' = KnownMessages \cup {x \in {m} : Solana!Known(x[2], x[3].name, "events")}
  BY <1>1 DEF KnownMessages, Solana!Known, Solana!HasStruct, Solana!ResolveType
<1>5. ASSUME ~confused
      PROVE  new = {AnchorEvent(x) : x \in {y \in {m} : Solana!Known(y[2], y[3].name, "events")}}
  <2>1. stack = calls /\ stack # <<>>
    BY <1>1, <1>5 DEF LogInv
  <2>2. CASE ~Solana!Known(p, data.name, "events")
    BY <2>1, <2>2 DEF Solana!Decoded, Solana!Line
  <2>3. CASE Solana!Known(p, data.name, "events")
    <3>1. new = {AnchorEvent(m)}
      BY <2>1, <2>3 DEF Solana!Decoded, Solana!Line, AnchorEvent, Solana!Event
    <3> QED BY <2>1, <2>3, <3>1
  <2> QED BY <2>2, <2>3
<1> HIDE DEF new, m
<1>6. ASSUME ~confused' PROVE stack' = calls' /\ found' = {AnchorEvent(x)' : x \in KnownMessages'}
  <2>1. ~confused
    BY <1>1, <1>6
  <2>2. found' = {AnchorEvent(x) : x \in KnownMessages}
                   \cup {AnchorEvent(x) : x \in {y \in {m} : Solana!Known(y[2], y[3].name, "events")}}
    BY <1>1, <1>5, <2>1 DEF LogInv
  <2>3. found' = {AnchorEvent(x) : x \in KnownMessages'}
    BY <1>4, <2>2
  <2>4. stack' = calls'
    BY <1>1, <1>2, <2>1 DEF LogInv
  <2> QED BY <2>3, <2>4 DEF AnchorEvent, Solana!Event, Solana!Number, Solana!NoArgs
<1> QED BY <1>1, <1>3, <1>6 DEF LogInv

(* LogInv is inductive. *)
LEMMA NextLog ==
  ASSUME LogInv, Solana!Next
  PROVE  LogInv'
<1>1. ASSUME NEW ix \in Instructions, Solana!Invoke(ix) PROVE LogInv'
  BY <1>1, InvokeLog
<1>2. ASSUME NEW d \in EventData, Solana!Emit(d) PROVE LogInv'
  BY <1>2, EmitLog
<1>3. ASSUME NEW like \in {"invoke", "success", "other"}, Solana!LogText(like) PROVE LogInv'
  BY <1>3, TextLog
<1>4. CASE Solana!Return
  BY <1>4, ReturnLog
<1>5. CASE Solana!Fail
  BY <1>5, FailLog
<1>6. CASE Solana!Finish
  BY <1>6, LogKept DEF Solana!Finish, LogInv
<1>7. CASE Solana!RunPipeline
  BY <1>7, LogKept DEF Solana!RunPipeline, LogInv
<1>8. CASE Solana!NextTransaction
  <2>1. emitted' = {} /\ found' = {} /\ stack' = <<>> /\ calls' = <<>> /\ confused' = FALSE
    BY <1>8 DEF Solana!NextTransaction
  <2>2. KnownMessages' = {}
    BY <2>1 DEF KnownMessages
  <2>3. found' = {AnchorEvent(m)' : m \in KnownMessages'}
    BY <2>1, <2>2, Zenon
  <2>4. calls' \in Seq(Callable) /\ confused' \in BOOLEAN
    BY <2>1, EmptySeq, Zenon
  <2>5. \A e \in found' : e.by = "anchor_event"
    BY <2>1
  <2>6. stack' = calls'
    BY <2>1
  <2> QED BY <2>3, <2>4, <2>5, <2>6, Zenon DEF LogInv
<1> QED BY <1>1, <1>2, <1>3, <1>4, <1>5, <1>6, <1>7, <1>8 DEF Solana!Next

(* LinesInv is inductive: an instruction takes a line of its own. *)
LEMMA NextLines ==
  ASSUME LinesInv, Solana!Next
  PROVE  LinesInv'
<1>1. ASSUME NEW ix \in Instructions, Solana!Invoke(ix) PROVE LinesInv'
  <2> DEFINE x == <<lines + 1, ix, calls = <<>> >>
  <2>1. lines' = lines + 1 /\ executed' = executed \cup {x} /\ lines \in Nat
    BY <1>1 DEF Solana!Invoke, Solana!Write, LinesInv
  <2>2. x[1] = lines + 1 /\ x[2] = ix
    OBVIOUS
  <2> HIDE DEF x
  <2> QED BY <2>1, <2>2 DEF LinesInv
<1>2. ASSUME executed' = executed, lines' \in {lines, lines + 1} PROVE LinesInv'
  BY <1>2 DEF LinesInv
<1>3. ASSUME NEW d \in EventData, Solana!Emit(d) PROVE LinesInv'
  BY <1>2, <1>3 DEF Solana!Emit, Solana!Write
<1>4. ASSUME NEW like \in {"invoke", "success", "other"}, Solana!LogText(like) PROVE LinesInv'
  BY <1>2, <1>4 DEF Solana!LogText, Solana!Write
<1>5. CASE Solana!Return
  BY <1>2, <1>5 DEF Solana!Return, Solana!Write
<1>6. CASE Solana!Fail
  BY <1>2, <1>6 DEF Solana!Fail, Solana!Write
<1>7. CASE Solana!Finish
  BY <1>2, <1>7 DEF Solana!Finish
<1>8. CASE Solana!RunPipeline
  BY <1>2, <1>8 DEF Solana!RunPipeline
<1>9. CASE Solana!NextTransaction
  BY <1>9 DEF Solana!NextTransaction, LinesInv
<1> QED BY <1>1, <1>3, <1>4, <1>5, <1>6, <1>7, <1>8, <1>9 DEF Solana!Next

(* PipelineInv is inductive: a failed transaction yields nothing. *)
LEMMA NextPipeline ==
  ASSUME PipelineInv, Solana!Next
  PROVE  PipelineInv'
<1>1. ASSUME status' = "running" PROVE PipelineInv'
  BY <1>1 DEF PipelineInv
<1>2. ASSUME NEW ix \in Instructions, Solana!Invoke(ix) PROVE PipelineInv'
  BY <1>1, <1>2 DEF Solana!Invoke, Solana!Write
<1>3. ASSUME NEW d \in EventData, Solana!Emit(d) PROVE PipelineInv'
  BY <1>1, <1>3 DEF Solana!Emit, Solana!Write
<1>4. ASSUME NEW like \in {"invoke", "success", "other"}, Solana!LogText(like) PROVE PipelineInv'
  BY <1>1, <1>4 DEF Solana!LogText, Solana!Write
<1>5. CASE Solana!Return
  BY <1>1, <1>5 DEF Solana!Return, Solana!Write
<1>6. CASE Solana!Fail
  BY <1>6 DEF Solana!Fail, PipelineInv
<1>7. CASE Solana!Finish
  BY <1>7 DEF Solana!Finish, PipelineInv
<1>8. CASE Solana!RunPipeline
  <2>1. UNCHANGED <<executed, closed, calls, found>> /\ status' = "parsed"
    BY <1>8 DEF Solana!RunPipeline
  <2>2. Solana!InstructionEvents' = Solana!InstructionEvents
    BY <2>1 DEF Solana!InstructionEvents, Solana!TopLevel, Solana!SolNativeTransferParser,
       Solana!SplParsers, Solana!AnchorIdlCallParser, Solana!Laid, Solana!ResolveMint
  <2>3. events' = IF calls = <<>> THEN Solana!InstructionEvents \cup found ELSE {}
    BY <1>8 DEF Solana!RunPipeline, PipelineInv
  <2> QED BY <2>1, <2>2, <2>3 DEF PipelineInv
<1>9. CASE Solana!NextTransaction
  BY <1>1, <1>9 DEF Solana!NextTransaction
<1> QED BY <1>2, <1>3, <1>4, <1>5, <1>6, <1>7, <1>8, <1>9 DEF Solana!Next

(* The EVM parsers leave SolanaInv alone. *)
LEMMA SolanaStays ==
  ASSUME SolanaInv, UNCHANGED solanaVars
  PROVE  SolanaInv'
<1>1. Solana!InstructionEvents' = Solana!InstructionEvents
  BY DEF solanaVars, Solana!InstructionEvents, Solana!TopLevel, Solana!SolNativeTransferParser,
     Solana!SplParsers, Solana!AnchorIdlCallParser, Solana!Laid, Solana!ResolveMint
<1>2. LogInv'
  BY LogKept DEF SolanaInv, LogInv, solanaVars
<1> QED BY <1>1, <1>2 DEF SolanaInv, LinesInv, PipelineInv, solanaVars

(* The Solana side of the composition always satisfies SolanaInv. *)
LEMMA SolanaAlways == ParsingSpec => []SolanaInv
<1>1. ParsingInit => SolanaInv
  BY SolanaStarts DEF ParsingInit
<1>2. SolanaInv /\ [ParsingNext]_parsingVars => SolanaInv'
  <2> SUFFICES ASSUME SolanaInv, [ParsingNext]_parsingVars PROVE SolanaInv'
    OBVIOUS
  <2>1. CASE ParseEvm
    BY <2>1, SolanaStays DEF ParseEvm
  <2>2. CASE ParseSolana
    BY <2>2, NextLog, NextLines, NextPipeline DEF ParseSolana, SolanaInv
  <2>3. CASE UNCHANGED parsingVars
    BY <2>3, SolanaStays DEF parsingVars
  <2> QED BY <2>1, <2>2, <2>3 DEF ParsingNext
<1> QED BY <1>1, <1>2, PTL DEF ParsingSpec

(* Whose event of an instruction an event is. *)
LEMMA LaidFacts ==
  ASSUME NEW by, NEW row, NEW ix, NEW n, NEW e \in Solana!Laid(by, row, ix, n)
  PROVE  /\ e.by = by /\ e.line = n /\ ix.fits
         /\ \A d \in Solana!Laid(by, row, ix, n) : d = e
<1>1. \A d \in Solana!Laid(by, row, ix, n) : d = e
  BY DEF Solana!Laid
<1>2. ix.fits
  BY Zenon DEF Solana!Laid
<1>3. e.by = by /\ e.line = n
  BY DEF Solana!Laid, Solana!Event
<1> QED BY <1>1, <1>2, <1>3

(* The events of the instructions come from the three parsers that read *)
(* instructions.                                                        *)
LEMMA InstructionEventFacts ==
  ASSUME NEW e
  PROVE  e \in Solana!InstructionEvents
         <=> \E x \in Solana!TopLevel : \/ e \in Solana!SolNativeTransferParser(x[2], x[1])
                                        \/ e \in Solana!SplParsers(x[2], x[1])
                                        \/ e \in Solana!AnchorIdlCallParser(x[2], x[1])
  BY DEF Solana!InstructionEvents

(* An event carries the name of its parser. *)
LEMMA ByParser ==
  ASSUME NEW ix, NEW n, NEW e
  PROVE  /\ e \in Solana!SolNativeTransferParser(ix, n) => e.by = "sol_native"
         /\ e \in Solana!SplParsers(ix, n) => e.by = "spl"
         /\ e \in Solana!AnchorIdlCallParser(ix, n) => e.by = "anchor_call"
<1>1. e \in Solana!SolNativeTransferParser(ix, n) => e.by = "sol_native"
  BY LaidFacts DEF Solana!SolNativeTransferParser
<1>2. e \in Solana!SplParsers(ix, n) => e.by = "spl"
  BY LaidFacts DEF Solana!SplParsers
<1>3. e \in Solana!AnchorIdlCallParser(ix, n) => e.by = "anchor_call"
  BY DEF Solana!AnchorIdlCallParser, Solana!Event
<1> QED BY <1>1, <1>2, <1>3

(* Unless a program's text reads like a line of the runtime, the parser of *)
(* the log reports exactly the events that were emitted, each under its    *)
(* program, at any depth of calls: for any programs, any IDLs with any     *)
(* types and limit, and any log.                                           *)
THEOREM AnchorEventsAreReported == ParsingSpec => []AnchorEventsExact
<1>1. SolanaInv => AnchorEventsExact
  <2> SUFFICES ASSUME SolanaInv, status = "parsed", ~confused
               PROVE  Solana!By({"anchor_event"}) =
                        (IF ~Solana!Succeeded THEN {}
                         ELSE {AnchorEvent(m) :
                                 m \in {x \in emitted : Solana!Declared(x[2], x[3].name, "events")}})
    BY DEF AnchorEventsExact, Solana!AnchorEventsExact, AnchorEvent
  <2> DEFINE due == {AnchorEvent(m) :
                       m \in {x \in emitted : Solana!Declared(x[2], x[3].name, "events")}}
  <2>1. events = IF calls = <<>> THEN Solana!InstructionEvents \cup found ELSE {}
    BY DEF SolanaInv, PipelineInv
  <2>2. {x \in emitted : Solana!Declared(x[2], x[3].name, "events")} = KnownMessages
    BY KnownIsDeclared DEF KnownMessages
  <2>3. found = due /\ \A e \in found : e.by = "anchor_event"
    BY <2>2 DEF SolanaInv, LogInv
  <2>4. \A e \in Solana!InstructionEvents : e.by # "anchor_event"
    BY InstructionEventFacts, ByParser
  <2>5. Solana!By({"anchor_event"}) = IF calls = <<>> THEN found ELSE {}
    BY <2>1, <2>3, <2>4 DEF Solana!By
  <2> QED BY <2>3, <2>5 DEF Solana!Succeeded
<1> QED BY <1>1, SolanaAlways, PTL
-----------------------------------------------------------------------------
(* Transfers. *)

(* SolanaParsing counts as the theorems on finite sets do. *)
LEMMA SameCardinality ==
  ASSUME NEW S
  PROVE  Solana!Cardinality(S) = Cardinality(S)
  BY Zenon DEF Solana!Cardinality, Cardinality

(* An instruction none of whose accounts comes from a lookup table is read *)
(* with the accounts it was sent with.                                     *)
LEMMA AccountsAreRead ==
  ASSUME NEW ix, NEW L \in Nat, DOMAIN Solana!Accounts(ix) = 1..L,
         \A i \in 1..L : Solana!Accounts(ix)[i] \notin Loaded
  PROVE  /\ DOMAIN Solana!AccountsOf(ix) = 1..L /\ Len(Solana!AccountsOf(ix)) = L
         /\ \A i \in 1..L : Solana!AccountsOf(ix)[i] = Solana!Accounts(ix)[i]
<1> DEFINE all == Solana!Accounts(ix)
           kept == {i \in DOMAIN all : all[i] \notin Loaded}
           Place(i) == Solana!Cardinality({j \in kept : j <= i})
           read == [n \in 1..Solana!Cardinality(kept) |-> all[CHOOSE i \in kept : Place(i) = n]]
<1>1. Solana!AccountsOf(ix) = read
  BY Zenon DEF Solana!AccountsOf
<1>2. kept = 1..L
  <2>1. DOMAIN all = 1..L /\ \A i \in 1..L : all[i] \notin Loaded
    OBVIOUS
  <2> HIDE DEF all
  <2> QED BY <2>1
<1> HIDE DEF all, kept
<1>3. Solana!Cardinality(kept) = L
  <2>1. Cardinality(1..L) = L
    BY FS_Interval
  <2> QED BY <1>2, <2>1, SameCardinality
<1>4. ASSUME NEW i \in 1..L PROVE Place(i) = i
  <2>1. {j \in kept : j <= i} = 1..i
    BY <1>2
  <2>2. Cardinality(1..i) = i
    BY FS_Interval
  <2> QED BY <2>1, <2>2, SameCardinality
<1>5. ASSUME NEW n \in 1..L PROVE (CHOOSE i \in kept : Place(i) = n) = n
  <2>1. \A i \in kept : Place(i) = i
    BY <1>2, <1>4
  <2> HIDE DEF Place
  <2> QED BY <1>2, <2>1
<1>6. DOMAIN read = 1..L /\ \A n \in 1..L : read[n] = all[n]
  <2>1. DOMAIN read = 1..L
    BY <1>3
  <2>2. \A n \in 1..L : read[n] = all[CHOOSE i \in kept : Place(i) = n]
    BY <1>3
  <2> HIDE DEF read, Place
  <2> QED BY <1>5, <2>1, <2>2
<1>7. Len(read) = L
  <2>1. read = [i \in 1..L |-> all[i]]
    BY <1>6
  <2>2. Len([i \in 1..L |-> all[i]]) = L
    OBVIOUS
  <2> HIDE DEF read
  <2> QED BY <2>1, <2>2
<1> HIDE DEF read
<1> QED BY <1>1, <1>6, <1>7 DEF all

(* The accounts and arguments of the event that a row of the layout gives. *)
RowMint(row, ix) ==
  IF row.mint = None THEN None
  ELSE IF row.mint = 0 THEN Solana!ResolveMint(Solana!AccountsOf(ix)[1])
  ELSE Solana!AccountsOf(ix)[row.mint]
RowArg(row, ix, f) ==
  IF f = row.amount THEN Solana!Decimal(ix.value)
  ELSE Solana!Address(IF row.args[f] = 0 THEN RowMint(row, ix)
                      ELSE Solana!AccountsOf(ix)[row.args[f]])
RowArgs(row) == DOMAIN row.args \cup ({row.amount} \ {None})

(* The row gives what the instruction did. *)
RowServes(row, ix) ==
  /\ ~(Len(Solana!AccountsOf(ix)) < row.min)
  /\ row.mint # None => RowMint(row, ix) # None
  /\ \A f \in RowArgs(row) : RowArg(row, ix, f) = Solana!Did(ix, f)

(* A row of the layout that serves an instruction reports it with what it *)
(* did.                                                                   *)
LEMMA ServedIsLaid ==
  ASSUME NEW by, NEW row, NEW ix, NEW n, ix.fits, RowServes(row, ix)
  PROVE  \E e \in Solana!Laid(by, row, ix, n) :
           e.line = n /\ \A f \in DOMAIN e.args : e.args[f] = Solana!Did(ix, f)
<1> DEFINE accounts == Solana!AccountsOf(ix)
           mint == RowMint(row, ix)
           at == [f \in DOMAIN row.args |->
                    Solana!Address(IF row.args[f] = 0 THEN mint ELSE accounts[row.args[f]])]
           args == [f \in RowArgs(row) |->
                      IF f = row.amount THEN Solana!Decimal(ix.value) ELSE at[f]]
           e == Solana!Event(by, n, row.kind, mint, row.name, args)
<1>1. ~(~ix.fits \/ Len(accounts) < row.min) /\ ~(row.mint # None /\ mint = None)
  BY Zenon DEF RowServes
<1>2. Solana!Laid(by, row, ix, n)
      = IF ~ix.fits \/ Len(accounts) < row.min THEN {}
        ELSE IF row.mint # None /\ mint = None THEN {} ELSE {e}
  BY Zenon DEF Solana!Laid, RowMint, RowArgs
<1>3. e \in Solana!Laid(by, row, ix, n)
  <2> HIDE DEF e, accounts, mint
  <2> QED BY <1>1, <1>2, Zenon
<1>4. ASSUME NEW f \in RowArgs(row) PROVE args[f] = RowArg(row, ix, f)
  <2>1. f # row.amount => f \in DOMAIN row.args
    BY DEF RowArgs
  <2>2. f # row.amount => at[f] = RowArg(row, ix, f)
    BY <2>1 DEF RowArg
  <2>3. args[f] = IF f = row.amount THEN Solana!Decimal(ix.value) ELSE at[f]
    OBVIOUS
  <2>4. f = row.amount => RowArg(row, ix, f) = Solana!Decimal(ix.value)
    BY DEF RowArg
  <2> HIDE DEF args, at
  <2> QED BY <2>2, <2>3, <2>4
<1>5. DOMAIN args = RowArgs(row)
  OBVIOUS
<1> HIDE DEF args
<1>6. e.line = n /\ e.args = args
  BY DEF Solana!Event
<1> HIDE DEF e
<1> QED BY <1>3, <1>4, <1>5, <1>6 DEF RowServes

(* An instruction of the program with every account named. *)
AccountsNamed(ix) ==
  /\ ix \in Instructions /\ ~Solana!Hidden(ix)
  /\ ix.program \in TokenPrograms \/ ix.program = SystemProgram

(* With every account named, each position holds the account of its role. *)
LEMMA AccountsByRole ==
  ASSUME NEW ix, AccountsNamed(ix), ix.op \in DOMAIN Solana!Wire,
         NEW L \in Nat, DOMAIN Solana!Wire[ix.op] = 1..L
  PROVE  /\ Len(Solana!AccountsOf(ix)) = L
         /\ \A i \in 1..L : /\ Solana!AccountsOf(ix)[i] = ix.roles[Solana!Wire[ix.op][i]]
                            /\ ix.roles[Solana!Wire[ix.op][i]] # None
<1>1. Solana!Accounts(ix) = [i \in 1..L |-> ix.roles[Solana!Wire[ix.op][i]]]
  BY DEF Solana!Accounts
<1>2. \A i \in 1..L : Solana!Accounts(ix)[i] = ix.roles[Solana!Wire[ix.op][i]]
  BY <1>1
<1>3. DOMAIN Solana!Accounts(ix) = 1..L
  BY <1>1
<1>4. \A i \in 1..L : Solana!Accounts(ix)[i] \notin Loaded
  BY <1>3 DEF AccountsNamed, Solana!Hidden
<1>5. \A i \in 1..L : ix.roles[Solana!Wire[ix.op][i]] # None
  BY SolanaAssumption DEF AccountsNamed, Solana!ParsingAssumption, Solana!RolesAssumption
<1> QED BY <1>2, <1>3, <1>4, <1>5, AccountsAreRead

(* The mint of a token account that is not closed is in the balances. *)
LEMMA SourceMint ==
  ASSUME NEW ix, AccountsNamed(ix), ix.program \in TokenPrograms,
         ix.op \in {"transfer", "approve", "revoke"},
         Solana!AccountsOf(ix)[1] = ix.roles.source
  PROVE  /\ Solana!ResolveMint(Solana!AccountsOf(ix)[1]) = MintOf[ix.roles.source]
         /\ MintOf[ix.roles.source] # None
         /\ "mint" \notin DOMAIN ix.roles
<1>1. /\ ix.op \in DOMAIN Solana!Wire
      /\ {Solana!Wire[ix.op][i] : i \in DOMAIN Solana!Wire[ix.op]}
           \in {{"source", "dest", "authority"}, {"source", "delegate", "authority"},
                {"source", "authority"}}
  BY DEF Solana!Wire
<1>2. /\ ix.roles.source \in DOMAIN MintOf /\ MintOf[ix.roles.source] # None
      /\ "mint" \notin DOMAIN ix.roles
  BY <1>1, SolanaAssumption DEF AccountsNamed, Solana!ParsingAssumption, Solana!RolesAssumption
<1>3. ix.roles.source \notin closed
  BY DEF AccountsNamed, Solana!Hidden
<1> QED BY <1>2, <1>3 DEF Solana!ResolveMint

(* The system program is not a token program, and None is no account and no *)
(* role.                                                                    *)
LEMMA ProgramFacts ==
  /\ SystemProgram \notin TokenPrograms
  /\ None \notin Nat /\ None # "source"
  BY SolanaAssumption DEF Solana!ParsingAssumption

(* Each row of the layout, for an instruction whose accounts are named. *)
LEMMA TransferServes ==
  ASSUME NEW ix, AccountsNamed(ix), ix.program \in TokenPrograms, ix.op = "transfer"
  PROVE  RowServes(Solana!Layout["transfer"], ix)
<1> DEFINE row == Solana!Layout["transfer"]
           read == Solana!AccountsOf(ix)
<1>1. row = Solana!Row("token_transfer", "Transfer", 3, 0, [from |-> 1, to |-> 2, mint |-> 0], "value")
  BY DEF Solana!Layout, Solana!Transfer
<1>2. /\ ix.op \in DOMAIN Solana!Wire /\ DOMAIN Solana!Wire[ix.op] = 1..3
      /\ Solana!Wire[ix.op][1] = "source" /\ Solana!Wire[ix.op][2] = "dest"
  BY DEF Solana!Wire
<1>3. Len(read) = 3 /\ read[1] = ix.roles.source /\ read[2] = ix.roles.dest
  <2>1. Len(read) = 3 /\ \A i \in 1..3 : read[i] = ix.roles[Solana!Wire[ix.op][i]]
    BY <1>2, AccountsByRole
  <2> HIDE DEF read
  <2> QED BY <1>2, <2>1
<1>4. Solana!ResolveMint(read[1]) = MintOf[ix.roles.source] /\ MintOf[ix.roles.source] # None
      /\ "mint" \notin DOMAIN ix.roles
  BY <1>3, SourceMint
<1> HIDE DEF row, read
<1>5. RowMint(row, ix) = MintOf[ix.roles.source] /\ row.min = 3 /\ row.mint = 0
  <2>1. row.min = 3 /\ row.mint = 0 /\ None # 0
    BY <1>1, ProgramFacts DEF Solana!Row
  <2> QED BY <1>4, <2>1, Zenon DEF RowMint, read
<1>6. ASSUME NEW f \in RowArgs(row) PROVE RowArg(row, ix, f) = Solana!Did(ix, f)
  BY <1>1, <1>3, <1>4, <1>5, ProgramFacts
     DEF RowArg, RowArgs, Solana!Row, Solana!Did, Solana!Role, Solana!Address, Solana!Decimal, read
<1> QED BY <1>3, <1>4, <1>5, <1>6 DEF RowServes, row, read

(* So does the row of approve, *)
LEMMA ApproveServes ==
  ASSUME NEW ix, AccountsNamed(ix), ix.program \in TokenPrograms, ix.op = "approve"
  PROVE  RowServes(Solana!Layout["approve"], ix)
<1> DEFINE row == Solana!Layout["approve"]
           read == Solana!AccountsOf(ix)
<1>1. row = Solana!Row("call", "approve", 3, 0, [source |-> 1, delegate |-> 2], "amount")
  BY DEF Solana!Layout
<1>2. /\ ix.op \in DOMAIN Solana!Wire /\ DOMAIN Solana!Wire[ix.op] = 1..3
      /\ Solana!Wire[ix.op][1] = "source" /\ Solana!Wire[ix.op][2] = "delegate"
  BY DEF Solana!Wire
<1>3. Len(read) = 3 /\ read[1] = ix.roles.source /\ read[2] = ix.roles.delegate
  <2>1. Len(read) = 3 /\ \A i \in 1..3 : read[i] = ix.roles[Solana!Wire[ix.op][i]]
    BY <1>2, AccountsByRole
  <2> HIDE DEF read
  <2> QED BY <1>2, <2>1
<1>4. Solana!ResolveMint(read[1]) = MintOf[ix.roles.source] /\ MintOf[ix.roles.source] # None
  BY <1>3, SourceMint
<1> HIDE DEF row, read
<1>5. RowMint(row, ix) = MintOf[ix.roles.source] /\ row.min = 3 /\ row.mint = 0
  <2>1. row.min = 3 /\ row.mint = 0 /\ None # 0
    BY <1>1, ProgramFacts DEF Solana!Row
  <2> QED BY <1>4, <2>1, Zenon DEF RowMint, read
<1>6. ASSUME NEW f \in RowArgs(row) PROVE RowArg(row, ix, f) = Solana!Did(ix, f)
  BY <1>1, <1>3, <1>5, ProgramFacts
     DEF RowArg, RowArgs, Solana!Row, Solana!Did, Solana!Role, Solana!Address, Solana!Decimal, read
<1> QED BY <1>3, <1>4, <1>5, <1>6 DEF RowServes, row, read

(* that of revoke, *)
LEMMA RevokeServes ==
  ASSUME NEW ix, AccountsNamed(ix), ix.program \in TokenPrograms, ix.op = "revoke"
  PROVE  RowServes(Solana!Layout["revoke"], ix)
<1> DEFINE row == Solana!Layout["revoke"]
           read == Solana!AccountsOf(ix)
<1>1. row = Solana!Row("call", "revoke", 2, 0, [source |-> 1], None)
  BY DEF Solana!Layout
<1>2. /\ ix.op \in DOMAIN Solana!Wire /\ DOMAIN Solana!Wire[ix.op] = 1..2
      /\ Solana!Wire[ix.op][1] = "source"
  BY DEF Solana!Wire
<1>3. Len(read) = 2 /\ read[1] = ix.roles.source
  <2>1. Len(read) = 2 /\ \A i \in 1..2 : read[i] = ix.roles[Solana!Wire[ix.op][i]]
    BY <1>2, AccountsByRole
  <2> HIDE DEF read
  <2> QED BY <1>2, <2>1
<1>4. Solana!ResolveMint(read[1]) = MintOf[ix.roles.source] /\ MintOf[ix.roles.source] # None
  BY <1>3, SourceMint
<1> HIDE DEF row, read
<1>5. RowMint(row, ix) = MintOf[ix.roles.source] /\ row.min = 2 /\ row.mint = 0
  <2>1. row.min = 2 /\ row.mint = 0 /\ None # 0
    BY <1>1, ProgramFacts DEF Solana!Row
  <2> QED BY <1>4, <2>1, Zenon DEF RowMint, read
<1>6. ASSUME NEW f \in RowArgs(row) PROVE RowArg(row, ix, f) = Solana!Did(ix, f)
  <2>1. "source" # None
    BY ProgramFacts
  <2>2. row.amount = None /\ DOMAIN row.args = {"source"} /\ row.args["source"] = 1
    BY <1>1 DEF Solana!Row
  <2>3. f = "source"
    BY <2>2 DEF RowArgs
  <2>4. RowArg(row, ix, f) = Solana!Address(ix.roles.source)
    BY <1>3, <2>1, <2>2, <2>3 DEF RowArg, read
  <2>5. Solana!Did(ix, f) = Solana!Address(ix.roles.source)
    BY <2>3, ProgramFacts DEF Solana!Did, Solana!Role
  <2> QED BY <2>4, <2>5
<1> QED BY <1>3, <1>4, <1>5, <1>6 DEF RowServes, row, read

(* those of transferChecked and transferCheckedWithFee, *)
LEMMA CheckedServes ==
  ASSUME NEW ix, AccountsNamed(ix), ix.program \in TokenPrograms, ix.op \in {"transferChecked", "transferFee"}
  PROVE  RowServes(Solana!Layout[ix.op], ix)
<1> DEFINE row == Solana!Layout[ix.op]
           read == Solana!AccountsOf(ix)
<1>1. row = Solana!Row("token_transfer", "Transfer", 4, 2,
                       [from |-> 1, to |-> 3, mint |-> 2], "value")
  BY DEF Solana!Layout, Solana!Transfer
<1>2. /\ ix.op \in DOMAIN Solana!Wire /\ DOMAIN Solana!Wire[ix.op] = 1..4
      /\ Solana!Wire[ix.op][1] = "source" /\ Solana!Wire[ix.op][2] = "mint"
      /\ Solana!Wire[ix.op][3] = "dest"
  BY DEF Solana!Wire
<1>3. /\ Len(read) = 4 /\ ix.roles.mint # None
      /\ read[1] = ix.roles.source /\ read[2] = ix.roles.mint /\ read[3] = ix.roles.dest
  <2>1. Len(read) = 4 /\ \A i \in 1..4 : /\ read[i] = ix.roles[Solana!Wire[ix.op][i]]
                                           /\ ix.roles[Solana!Wire[ix.op][i]] # None
    BY <1>2, AccountsByRole
  <2> HIDE DEF read
  <2> QED BY <1>2, <2>1
<1>4. "mint" \in DOMAIN ix.roles
  BY <1>2, SolanaAssumption DEF AccountsNamed, Solana!ParsingAssumption, Solana!RolesAssumption
<1> HIDE DEF row, read
<1>5. RowMint(row, ix) = ix.roles.mint /\ row.min = 4 /\ row.mint = 2
  <2>1. row.min = 4 /\ row.mint = 2 /\ 2 # 0 /\ None # 2
    BY <1>1, ProgramFacts DEF Solana!Row
  <2> QED BY <1>3, <2>1, Zenon DEF RowMint, read
<1>6. ASSUME NEW f \in RowArgs(row) PROVE RowArg(row, ix, f) = Solana!Did(ix, f)
  BY <1>1, <1>3, <1>4, <1>5, ProgramFacts
     DEF RowArg, RowArgs, Solana!Row, Solana!Did, Solana!Role, Solana!Address, Solana!Decimal, read
<1> QED BY <1>3, <1>5, <1>6 DEF RowServes, row, read

(* that of mintTo, *)
LEMMA MintToServes ==
  ASSUME NEW ix, AccountsNamed(ix), ix.program \in TokenPrograms, ix.op = "mintTo"
  PROVE  RowServes(Solana!Layout[ix.op], ix)
<1> DEFINE row == Solana!Layout[ix.op]
           read == Solana!AccountsOf(ix)
<1>1. row = Solana!Row("call", "mint_to", 3, 1, [mint |-> 1, dest |-> 2], "amount")
  BY DEF Solana!Layout
<1>2. /\ ix.op \in DOMAIN Solana!Wire /\ DOMAIN Solana!Wire[ix.op] = 1..3
      /\ Solana!Wire[ix.op][1] = "mint" /\ Solana!Wire[ix.op][2] = "dest"
  BY DEF Solana!Wire
<1>3. /\ Len(read) = 3 /\ ix.roles.mint # None
      /\ read[1] = ix.roles.mint /\ read[2] = ix.roles.dest
  <2>1. Len(read) = 3 /\ \A i \in 1..3 : /\ read[i] = ix.roles[Solana!Wire[ix.op][i]]
                                           /\ ix.roles[Solana!Wire[ix.op][i]] # None
    BY <1>2, AccountsByRole
  <2> HIDE DEF read
  <2> QED BY <1>2, <2>1
<1>4. "mint" \in DOMAIN ix.roles
  BY <1>2, SolanaAssumption DEF AccountsNamed, Solana!ParsingAssumption, Solana!RolesAssumption
<1> HIDE DEF row, read
<1>5. RowMint(row, ix) = ix.roles.mint /\ row.min = 3 /\ row.mint = 1
  <2>1. row.min = 3 /\ row.mint = 1 /\ 1 # 0 /\ None # 1
    BY <1>1, ProgramFacts DEF Solana!Row
  <2> QED BY <1>3, <2>1, Zenon DEF RowMint, read
<1>6. ASSUME NEW f \in RowArgs(row) PROVE RowArg(row, ix, f) = Solana!Did(ix, f)
  BY <1>1, <1>3, <1>4, <1>5, ProgramFacts
     DEF RowArg, RowArgs, Solana!Row, Solana!Did, Solana!Role, Solana!Address, Solana!Decimal, read
<1> QED BY <1>3, <1>5, <1>6 DEF RowServes, row, read

(* that of burn, *)
LEMMA BurnServes ==
  ASSUME NEW ix, AccountsNamed(ix), ix.program \in TokenPrograms, ix.op = "burn"
  PROVE  RowServes(Solana!Layout[ix.op], ix)
<1> DEFINE row == Solana!Layout[ix.op]
           read == Solana!AccountsOf(ix)
<1>1. row = Solana!Row("call", "burn", 3, 2, [source |-> 1, mint |-> 2], "amount")
  BY DEF Solana!Layout
<1>2. /\ ix.op \in DOMAIN Solana!Wire /\ DOMAIN Solana!Wire[ix.op] = 1..3
      /\ Solana!Wire[ix.op][1] = "source" /\ Solana!Wire[ix.op][2] = "mint"
  BY DEF Solana!Wire
<1>3. /\ Len(read) = 3 /\ ix.roles.mint # None
      /\ read[1] = ix.roles.source /\ read[2] = ix.roles.mint
  <2>1. Len(read) = 3 /\ \A i \in 1..3 : /\ read[i] = ix.roles[Solana!Wire[ix.op][i]]
                                           /\ ix.roles[Solana!Wire[ix.op][i]] # None
    BY <1>2, AccountsByRole
  <2> HIDE DEF read
  <2> QED BY <1>2, <2>1
<1>4. "mint" \in DOMAIN ix.roles
  BY <1>2, SolanaAssumption DEF AccountsNamed, Solana!ParsingAssumption, Solana!RolesAssumption
<1> HIDE DEF row, read
<1>5. RowMint(row, ix) = ix.roles.mint /\ row.min = 3 /\ row.mint = 2
  <2>1. row.min = 3 /\ row.mint = 2 /\ 2 # 0 /\ None # 2
    BY <1>1, ProgramFacts DEF Solana!Row
  <2> QED BY <1>3, <2>1, Zenon DEF RowMint, read
<1>6. ASSUME NEW f \in RowArgs(row) PROVE RowArg(row, ix, f) = Solana!Did(ix, f)
  BY <1>1, <1>3, <1>4, <1>5, ProgramFacts
     DEF RowArg, RowArgs, Solana!Row, Solana!Did, Solana!Role, Solana!Address, Solana!Decimal, read
<1> QED BY <1>3, <1>5, <1>6 DEF RowServes, row, read

(* and the layout of the system program's transfer. *)
LEMMA NativeServes ==
  ASSUME NEW ix, AccountsNamed(ix), ix.program = SystemProgram, ix.op = "transferLamports"
  PROVE  RowServes(Solana!NativeLayout, ix)
<1> DEFINE row == Solana!NativeLayout
           read == Solana!AccountsOf(ix)
<1>1. row = Solana!Row("native_transfer", None, 2, None, [from |-> 1, to |-> 2], "value")
  BY DEF Solana!NativeLayout
<1>2. /\ ix.op \in DOMAIN Solana!Wire /\ DOMAIN Solana!Wire[ix.op] = 1..2
      /\ Solana!Wire[ix.op][1] = "from" /\ Solana!Wire[ix.op][2] = "to"
  BY DEF Solana!Wire
<1>3. Len(read) = 2 /\ read[1] = ix.roles.from /\ read[2] = ix.roles.to
  <2>1. Len(read) = 2 /\ \A i \in 1..2 : read[i] = ix.roles[Solana!Wire[ix.op][i]]
    BY <1>2, AccountsByRole
  <2> HIDE DEF read
  <2> QED BY <1>2, <2>1
<1> HIDE DEF row, read
<1>4. row.min = 2 /\ row.mint = None
  BY <1>1 DEF Solana!Row
<1>5. ASSUME NEW f \in RowArgs(row) PROVE RowArg(row, ix, f) = Solana!Did(ix, f)
  <2>1. /\ row.amount = "value" /\ DOMAIN row.args = {"from", "to"}
        /\ row.args["from"] = 1 /\ row.args["to"] = 2
    BY <1>1 DEF Solana!Row
  <2>2. f \in {"from", "to", "value"}
    BY <2>1 DEF RowArgs
  <2>3. RowArg(row, ix, f)
        = IF f = "value" THEN Solana!Decimal(ix.value) ELSE Solana!Address(ix.roles[f])
    <3>1. f # "value" => row.args[f] # 0 /\ read[row.args[f]] = ix.roles[f]
      BY <1>3, <2>1, <2>2
    <3> QED BY <2>1, <3>1 DEF RowArg, read
  <2>4. Solana!Did(ix, f)
        = IF f = "value" THEN Solana!Decimal(ix.value) ELSE Solana!Address(ix.roles[f])
    BY <2>2 DEF Solana!Did
  <2> QED BY <2>3, <2>4
<1> QED BY <1>3, <1>4, <1>5 DEF RowServes, row, read

(* The parsers of transfers, on one instruction. *)
TransferEvents(ix, n) == Solana!SolNativeTransferParser(ix, n) \cup Solana!SplParsers(ix, n)

(* An instruction is reported once at most, at its line. *)
LEMMA TransferEventFacts ==
  ASSUME NEW ix, NEW n, NEW e \in TransferEvents(ix, n)
  PROVE  /\ e.line = n /\ ix.fits /\ Solana!Reported(ix)
         /\ \A d \in TransferEvents(ix, n) : d = e
<1>1. CASE e \in Solana!SolNativeTransferParser(ix, n)
  <2>1. ix.program = SystemProgram /\ ix.op = "transferLamports"
    BY <1>1 DEF Solana!SolNativeTransferParser
  <2>2. TransferEvents(ix, n) = Solana!Laid("sol_native", Solana!NativeLayout, ix, n)
    BY <2>1, ProgramFacts DEF TransferEvents, Solana!SolNativeTransferParser, Solana!SplParsers
  <2> QED BY <2>1, <2>2, LaidFacts DEF Solana!Reported
<1>2. CASE e \in Solana!SplParsers(ix, n)
  <2>1. ix.program \in TokenPrograms /\ ix.op \in DOMAIN Solana!Layout
    BY <1>2 DEF Solana!SplParsers
  <2>2. TransferEvents(ix, n) = Solana!Laid("spl", Solana!Layout[ix.op], ix, n)
    BY <2>1, ProgramFacts DEF TransferEvents, Solana!SolNativeTransferParser, Solana!SplParsers
  <2> QED BY <2>1, <2>2, LaidFacts DEF Solana!Reported
<1> QED BY <1>1, <1>2 DEF TransferEvents

(* An instruction that is reported at all, and whose accounts the node *)
(* names, is reported with what it did.                                *)
LEMMA TransferIsReported ==
  ASSUME NEW ix \in Instructions, NEW n, ix.fits, Solana!Reported(ix), ~Solana!Hidden(ix)
  PROVE  \E e \in TransferEvents(ix, n) :
           e.line = n /\ \A f \in DOMAIN e.args : e.args[f] = Solana!Did(ix, f)
<1>1. AccountsNamed(ix)
  BY DEF AccountsNamed, Solana!Reported
<1>2. CASE ix.program = SystemProgram /\ ix.op = "transferLamports"
  <2>1. \E e \in Solana!Laid("sol_native", Solana!NativeLayout, ix, n) :
          e.line = n /\ \A f \in DOMAIN e.args : e.args[f] = Solana!Did(ix, f)
    BY <1>1, <1>2, NativeServes, ServedIsLaid
  <2> QED BY <1>2, <2>1 DEF TransferEvents, Solana!SolNativeTransferParser
<1>3. CASE ix.program \in TokenPrograms /\ ix.op \in DOMAIN Solana!Layout
  <2>1. ix.op \in {"transfer", "transferChecked", "transferFee", "approve", "revoke", "mintTo", "burn"}
    BY <1>3 DEF Solana!Layout
  <2>2. RowServes(Solana!Layout[ix.op], ix)
    BY <1>1, <1>3, <2>1, TransferServes, ApproveServes, RevokeServes, CheckedServes,
       MintToServes, BurnServes
  <2>3. \E e \in Solana!Laid("spl", Solana!Layout[ix.op], ix, n) :
          e.line = n /\ \A f \in DOMAIN e.args : e.args[f] = Solana!Did(ix, f)
    BY <2>2, ServedIsLaid
  <2> QED BY <1>3, <2>3 DEF TransferEvents, Solana!SplParsers
<1> QED BY <1>2, <1>3 DEF Solana!Reported

(* Top-level transfers and token operations of a transaction that          *)
(* succeeded are reported, once each, with the accounts that played their  *)
(* roles, their mint and their amount, unless the node hides one of the    *)
(* accounts; nothing else is reported: for any transaction of any length   *)
(* and depth.                                                              *)
THEOREM TransfersAreReported == ParsingSpec => []TransfersExact
<1>1. SolanaInv => TransfersExact
  <2> DEFINE due == IF ~Solana!Succeeded THEN {}
                    ELSE {x \in executed : x[3] /\ x[2].fits /\ Solana!Reported(x[2])}
             got == Solana!By({"sol_native", "spl"})
  <2> SUFFICES ASSUME SolanaInv, status = "parsed"
               PROVE  /\ \A x \in due : ~Solana!Hidden(x[2]) =>
                           \E e \in got : /\ e.line = x[1]
                                          /\ \A f \in DOMAIN e.args : e.args[f] = Solana!Did(x[2], f)
                      /\ \A e \in got : \E x \in due : e.line = x[1]
                      /\ \A d, e \in got : d.line = e.line => d = e
    BY DEF TransfersExact, Solana!TransfersExact
  <2>1. events = IF calls = <<>> THEN Solana!InstructionEvents \cup found ELSE {}
    BY DEF SolanaInv, PipelineInv
  <2>2. \A e \in found : e.by = "anchor_event"
    BY DEF SolanaInv, LogInv
  <2>3. ASSUME NEW e
        PROVE  e \in got <=> /\ calls = <<>>
                             /\ \E x \in Solana!TopLevel : e \in TransferEvents(x[2], x[1])
    <3>1. e \in got <=> /\ calls = <<>> /\ e \in Solana!InstructionEvents \cup found
                        /\ e.by \in {"sol_native", "spl"}
      BY <2>1 DEF Solana!By
    <3>2. ASSUME e \in Solana!InstructionEvents, e.by \in {"sol_native", "spl"}
          PROVE  \E x \in Solana!TopLevel : e \in TransferEvents(x[2], x[1])
      BY <3>2, InstructionEventFacts, ByParser DEF TransferEvents
    <3>3. ASSUME NEW x \in Solana!TopLevel, e \in TransferEvents(x[2], x[1])
          PROVE  e \in Solana!InstructionEvents /\ e.by \in {"sol_native", "spl"}
      BY <3>3, InstructionEventFacts, ByParser DEF TransferEvents
    <3> QED BY <2>2, <3>1, <3>2, <3>3
  <2>4. ASSUME NEW x PROVE x \in due <=> /\ calls = <<>> /\ x \in Solana!TopLevel
                                         /\ x[2].fits /\ Solana!Reported(x[2])
    BY Zenon DEF Solana!Succeeded, Solana!TopLevel
  <2>5. /\ \A x \in Solana!TopLevel : x[2] \in Instructions
        /\ \A x, y \in Solana!TopLevel : x[1] = y[1] => x = y
    BY DEF Solana!TopLevel, SolanaInv, LinesInv
  <2> HIDE DEF due, got
  <2>6. ASSUME NEW x \in due, ~Solana!Hidden(x[2])
        PROVE  \E e \in got : e.line = x[1] /\ \A f \in DOMAIN e.args : e.args[f] = Solana!Did(x[2], f)
    <3>1. PICK e \in TransferEvents(x[2], x[1]) :
             e.line = x[1] /\ \A f \in DOMAIN e.args : e.args[f] = Solana!Did(x[2], f)
      BY <2>4, <2>5, <2>6, TransferIsReported
    <3>2. e \in got
      BY <2>3, <2>4, <3>1
    <3> QED BY <3>1, <3>2
  <2>7. ASSUME NEW e \in got PROVE \E x \in due : e.line = x[1]
    BY <2>3, <2>4, TransferEventFacts
  <2>8. ASSUME NEW d \in got, NEW e \in got, d.line = e.line PROVE d = e
    <3>1. PICK x \in Solana!TopLevel, y \in Solana!TopLevel :
             d \in TransferEvents(x[2], x[1]) /\ e \in TransferEvents(y[2], y[1])
      BY <2>3
    <3>2. x[1] = y[1]
      BY <2>8, <3>1, TransferEventFacts
    <3>3. x = y
      BY <2>5, <3>2
    <3> QED BY <3>1, <3>3, TransferEventFacts
  <2> QED BY <2>6, <2>7, <2>8
<1> QED BY <1>1, SolanaAlways, PTL
=============================================================================
