----------------------------- MODULE EvmMatching -----------------------------
(***************************************************************************)
(* Which logs, calls and transfers of an EVM block reach which             *)
(* subscription, while snapshots are applied: core/abi/registry.py (topic0 *)
(* and selector index, decoder cache), core/abi/decoder.py,                *)
(* core/matcher/filter_set.py (the filter sent with eth_getLogs), the EVM  *)
(* parsers and their pipeline under core/parser, the traces of             *)
(* core/chains/evm.py, and the order in which _reconcile and               *)
(* apply_snapshot replace registry, matcher and filter under a runner that *)
(* is between two awaits of a block.                                       *)
(*                                                                         *)
(* Every block holds the logs of Logs, in this order, and the call frames  *)
(* of Frames; a frame without parent is a transaction.  An ABI is [id,     *)
(* entries], an entry [type, name, key, indexed] whose key is the topic0   *)
(* or selector of its signature, a subscription [kind, address, abi, name, *)
(* start, filters].  The letter case of addresses, which both sides fold,  *)
(* is left out.                                                            *)
(***************************************************************************)
EXTENDS Integers, Sequences, FiniteSets, Matching

CONSTANTS
  Snapshots,      \* configurations: [subs : set of subscriptions, abis : sequence of ABIs]
  Logs,           \* sequence of [address, topic0, topics, bad, args]; bad: "topic" or "data"
                  \* when an indexed or another argument does not decode, else "no"
  Frames,         \* function: id -> [parent, create, to, selector, value, failed, bad, args]
  AbiIds,         \* primary keys of the abis table
  TransferTopic,  \* ERC20_TRANSFER_TOPIC0
  MaxCallDepth,   \* _MAX_DEPTH
  BlockNumber     \* the height of the block in hand

Topics == {Logs[i].topic0 : i \in DOMAIN Logs}
AllSubs == UNION {s.subs : s \in Snapshots}
Bodies == {s.abis : s \in Snapshots}
Entries ==
  [abis \in Bodies |->
     UNION {{abis[i].entries[j] : j \in DOMAIN abis[i].entries} : i \in DOMAIN abis}]
AllEntries == UNION {Entries[abis] : abis \in Bodies}
Keys == {e.key : e \in AllEntries}
Roots == {c \in DOMAIN Frames : Frames[c].parent = None}

ASSUME MatchingAssumption ==
  /\ Snapshots # {}
  /\ \A s \in Snapshots : \A i \in DOMAIN s.abis :
       s.abis[i].id \in AbiIds /\ i \in Nat /\ DOMAIN s.abis[i].entries \subseteq Nat
  /\ \A s \in AllSubs : \A f \in s.filters : Validate(Key(f))
  /\ \A i \in DOMAIN Logs :
       i \in Nat \ {0} /\ Logs[i].topics \in Nat /\ Logs[i].bad \in {"no", "topic", "data"}
  /\ MaxCallDepth \in Nat /\ BlockNumber \in Nat
  /\ None \notin Keys \cup AllEntries

(* Ids are primary keys. *)
ASSUME IdsAreUnique ==
  \A s \in Snapshots : \A i, j \in DOMAIN s.abis : s.abis[i].id = s.abis[j].id => i = j

(* A topic0 has 32 bytes and a selector 4; a topic0 is the hash of a       *)
(* signature, which holds the name.  Selectors may collide.                *)
ASSUME KeysAreHashes ==
  \A d, e \in AllEntries :
    d.key = e.key => d.type = e.type /\ (d.type = "event" => d.name = e.name)

(* What filters and events hold. *)
ASSUME ValuesAssumption ==
  /\ \A s \in AllSubs : \A f \in s.filters :
       f.op \in {"eq", "in", "gte", "lte"} /\ \A x \in f.values : IsValue(x)
  /\ \A i \in DOMAIN Logs : \A f \in DOMAIN Logs[i].args : IsValue(Logs[i].args[f])
  /\ \A c \in DOMAIN Frames : \A f \in DOMAIN Frames[c].args : IsValue(Frames[c].args[f])

(* A frame is numbered after the frame that called it. *)
ASSUME FramesAreTrees ==
  \A c \in DOMAIN Frames :
    c \in Nat /\ (c \notin Roots => Frames[c].parent \in DOMAIN Frames /\ Frames[c].parent < c)

VARIABLES
  target,    \* the snapshot the main loop dequeued last
  applied,   \* history: the snapshot whose application was completed last
  reload,    \* how far _reconcile is with this chain
  registry,  \* AbiRegistry._abis, shared by all runners
  decoders,  \* AbiRegistry._decoders: (abi id, topic0 or selector) -> entry, or None
  matcher,   \* subscriptions of self._matcher
  filter,    \* self._evm_filter
  block,     \* the block in hand: state, captured matcher, logs fetched, transactions not traced
  hits,      \* what the block gave so far: <<subscription, log or frame, parser>>
  stable     \* history: subscriptions configured alike since that block was begun

vars == <<target, applied, reload, registry, decoders, matcher, filter, block, hits, stable>>
-----------------------------------------------------------------------------
(* AbiRegistry. *)

(* Positions of the entries of a type, in the order refresh walks over them. *)
Positions(abis, type) ==
  UNION {{<<i, j>> : j \in {k \in DOMAIN abis[i].entries : abis[i].entries[k].type = type}} :
           i \in DOMAIN abis}
At(abis, p) == abis[p[1]].entries[p[2]]
Before(p, q) == p[1] < q[1] \/ (p[1] = q[1] /\ p[2] < q[2])
First(S) == CHOOSE p \in S : \A q \in S : q = p \/ Before(p, q)

(* _topic0_index and _selector_index: the first entry with a key wins. *)
Index ==
  [abis \in Bodies |-> [type \in {"event", "function"} |->
     {p \in Positions(abis, type) :
        \A q \in Positions(abis, type) : At(abis, q).key = At(abis, p).key => ~Before(q, p)}]]

(* event_topic0_for: the first match in the index. *)
EventTopic0For(abis, id, name) ==
  LET found == {p \in Index[abis]["event"] : abis[p[1]].id = id /\ At(abis, p).name = name}
  IN  IF found = {} THEN None ELSE At(abis, First(found)).key

(* The body of an ABI, which its hash stands for. *)
Body(abis, id) == {abis[i].entries : i \in {k \in DOMAIN abis : abis[k].id = id}}

MutantEvicted(old, new, cache) == cache

(* Decoders of ABIs that are gone or have another body are dropped. *)
Evicted(old, new, cache) ==
  [k \in DOMAIN cache |-> IF Body(new, k[1]) = Body(old, k[1]) THEN cache[k] ELSE None]

(* get_event_decoder and get_call_decoder for an entry of the index.  The  *)
(* caches in front of them are emptied by every refresh and repeat this    *)
(* answer.                                                                 *)
DecoderOf(abis, cache, p) ==
  LET key == <<abis[p[1]].id, At(abis, p).key>>
  IN  IF cache[key] # None THEN cache[key] ELSE At(abis, p)

Cached(abis, cache, type, keys) ==
  LET used == {p \in Index[abis][type] : At(abis, p).key \in keys}
  IN  [k \in DOMAIN cache |->
         IF \E p \in used : <<abis[p[1]].id, At(abis, p).key>> = k
         THEN DecoderOf(abis, cache, CHOOSE p \in used : <<abis[p[1]].id, At(abis, p).key>> = k)
         ELSE cache[k]]
-----------------------------------------------------------------------------
(* The filter sent to the node. *)

Relevant(subs) == {s \in subs : s.kind \in {"event", "token_transfer"}}

Topic0Of(abis, s) ==
  IF s.kind = "token_transfer" THEN TransferTopic
  ELSE IF s.abi = None \/ s.name = None THEN None ELSE EventTopic0For(abis, s.abi, s.name)

MutantCollectTopic0s(abis, subs) == {Topic0Of(abis, s) : s \in Relevant(subs)} \ {None}

(* One subscription without a topic0 gives up the topic filter. *)
CollectTopic0s(abis, subs) ==
  LET found == {Topic0Of(abis, s) : s \in Relevant(subs)}
  IN  IF None \in found THEN Topics ELSE found

Addresses(subs) ==
  IF \E s \in Relevant(subs) : s.address = None THEN {Logs[i].address : i \in DOMAIN Logs}
  ELSE {s.address : s \in Relevant(subs)}

(* skip_logs is a filter that lets nothing pass. *)
BuildFilter(abis, subs) ==
  [addresses |-> Addresses(subs), topic0s |-> CollectTopic0s(abis, subs)]

Passes(f, l) == l.address \in f.addresses /\ l.topic0 \in f.topic0s
-----------------------------------------------------------------------------
(* The parsers.  An event names the parser it is from and the log or frame *)
(* it is about.                                                            *)

Event(by, of, kind, contract, name, args) ==
  [by |-> by, of |-> of, kind |-> kind, contract |-> contract, name |-> name, args |-> args]

NoArgs == <<>>

(* A three-topic Transfer with a value is a token_transfer event. *)
Erc20Events(logs) ==
  {Event("erc20", <<"log", i>>, "token_transfer", Logs[i].address, "Transfer", Logs[i].args) :
     i \in {j \in logs : /\ Logs[j].topic0 = TransferTopic
                         /\ Logs[j].topics = 3 /\ Logs[j].bad # "data"}}

(* The entry of the registry for a log, and whether its topics fit. *)
EntryFor(abis, key, type) == {p \in Index[abis][type] : At(abis, p).key = key}
Fits(abis, cache, l) ==
  \E p \in EntryFor(abis, l.topic0, "event") : DecoderOf(abis, cache, p).indexed + 1 = l.topics

(* decode_event turns failures of the data into DecodeFailed, but those of *)
(* an indexed topic leave AbiEventParser.parse, and the pipeline gives up  *)
(* the rest of the block for this parser.                                  *)
Raising(abis, cache, logs) == {j \in logs : Logs[j].bad = "topic" /\ Fits(abis, cache, Logs[j])}

Parsed(abis, cache, logs) ==
  LET raising == Raising(abis, cache, logs) IN {i \in logs : \A j \in raising : i < j}

LookedUp(abis, cache, logs) ==
  LET raising == Raising(abis, cache, logs) IN {i \in logs : \A j \in raising : i <= j}

(* Every log with topics is an event, without name and arguments when it   *)
(* cannot be decoded.                                                      *)
AbiEvents(abis, cache, logs) ==
  {LET l == Logs[i]
       decoded == Fits(abis, cache, l) /\ l.bad = "no"
   IN  Event("abi_event", <<"log", i>>, "event", l.address,
             IF decoded THEN At(abis, First(EntryFor(abis, l.topic0, "event"))).name ELSE None,
             IF decoded THEN l.args ELSE NoArgs) :
     i \in {j \in Parsed(abis, cache, logs) : Logs[j].topics > 0}}

(* EvmAdapter.fetch_block gives every transaction status 1, so that those  *)
(* which reverted pass the parsers' test.                                  *)
NativeEvents ==
  {Event("native", <<"frame", c>>, "native_transfer", None, None, Frames[c].args) :
     c \in {r \in Roots : ~Frames[r].create /\ Frames[r].value > 0}}

(* A frame with a known selector whose calldata decodes. *)
CallEvent(abis, by, c) ==
  LET f == Frames[c]
      entry == EntryFor(abis, f.selector, "function")
  IN  IF entry = {} \/ f.bad THEN {}
      ELSE {Event(by, <<"frame", c>>, "call", f.to, At(abis, First(entry)).name, f.args)}

AbiCallEvents(abis) == UNION {CallEvent(abis, "abi_call", r) : r \in {q \in Roots : ~Frames[q].create}}

(* _walk: down from the transaction itself, without frames that failed. *)
Depth[c \in DOMAIN Frames] == IF c \in Roots THEN 0 ELSE Depth[Frames[c].parent] + 1

MutantDescends(c) == Depth[c] <= MaxCallDepth

Descends(c) == Depth[c] <= MaxCallDepth /\ ~Frames[c].failed

Walked[c \in DOMAIN Frames] == Descends(c) /\ (c \in Roots \/ Walked[Frames[c].parent])

RootOf[c \in DOMAIN Frames] == IF c \in Roots THEN c ELSE RootOf[Frames[c].parent]

InternalEvents(abis, lost) ==
  UNION {IF Frames[c].create
         THEN {Event("internal", <<"frame", c>>, "call", Frames[c].to, "<create>", Frames[c].args)}
         ELSE CallEvent(abis, "internal", c) :
           c \in {d \in DOMAIN Frames : Walked[d] /\ RootOf[d] \notin lost}}

(* Matcher.match over the events of a block. *)
Hits(subs, events) ==
  {<<h[1], h[2].of, h[2].by>> : h \in {p \in subs \X events : Matches(p[1], p[2], BlockNumber)}}
-----------------------------------------------------------------------------
(* A subscription means the same in a and b: it is in both, and so is every *)
(* ABI entry it can name.                                                   *)
Named(abis, name) == {e \in Entries[abis] : e.name = name}
Unchanged(a, b) ==
  {s \in a.subs \cap b.subs :
     /\ s.name # None => Named(a.abis, s.name) = Named(b.abis, s.name)
     /\ s.name = None /\ s.kind \in {"event", "call"} => Entries[a.abis] = Entries[b.abis]
     /\ s.abi # None => Body(a.abis, s.abi) = Body(b.abis, s.abi)}

(* _reconcile refreshes the registry first, for all chains. *)
Refresh(s) ==
  /\ reload = "idle"
  /\ target' = s
  /\ reload' = "refreshed"
  /\ registry' = s.abis
  /\ decoders' = Evicted(registry, s.abis, decoders)
  /\ stable' = IF block.state = "none" THEN stable ELSE stable \cap Unchanged(applied, s)
  /\ UNCHANGED <<applied, matcher, filter, block, hits>>

(* apply_snapshot replaces the matcher and then awaits the notifiers ... *)
ReplaceMatcher ==
  /\ reload = "refreshed"
  /\ matcher' = target.subs
  /\ reload' = "matcher"
  /\ UNCHANGED <<target, applied, registry, decoders, filter, block, hits, stable>>

(* ... before it builds the new filter. *)
ReplaceFilter ==
  /\ reload = "matcher"
  /\ filter' = BuildFilter(registry, target.subs)
  /\ applied' = target
  /\ reload' = "idle"
  /\ UNCHANGED <<target, registry, decoders, matcher, block, hits, stable>>

NoBlock == [state |-> "none", matcher |-> {}, logs |-> {}, lost |-> {}]

(* The block's matcher is read before its awaits, the filter when the logs *)
(* are requested (at once in catch-up), the registry when they are parsed. *)
Capture ==
  /\ block.state = "none"
  /\ block' = [NoBlock EXCEPT !.state = "captured", !.matcher = matcher]
  /\ stable' = Unchanged(applied, target)
  /\ hits' = {}
  /\ UNCHANGED <<target, applied, reload, registry, decoders, matcher, filter>>

FetchLogs ==
  /\ block.state = "captured"
  /\ block' = [block EXCEPT !.state = "fetched",
                            !.logs = {i \in DOMAIN Logs : Passes(filter, Logs[i])}]
  /\ UNCHANGED <<target, applied, reload, registry, decoders, matcher, filter, hits, stable>>

(* The pipeline: each parser on its own. *)
Process ==
  /\ block.state = "fetched"
  /\ hits' = Hits(block.matcher,
                  NativeEvents \cup Erc20Events(block.logs)
                    \cup AbiEvents(registry, decoders, block.logs) \cup AbiCallEvents(registry))
  /\ decoders' = Cached(registry,
                        Cached(registry, decoders, "event",
                               {Logs[i].topic0 : i \in LookedUp(registry, decoders, block.logs)}),
                        "function", {Frames[r].selector : r \in Roots})
  /\ block' = [block EXCEPT !.state = "tracing", !.logs = {}]
  /\ UNCHANGED <<target, applied, reload, registry, matcher, filter, stable>>

(* trace_internal_calls: the traces arrive after another await.  Those of  *)
(* some transactions (of all, when the node has no debug namespace) are    *)
(* missing.                                                                *)
TraceBlock(lost) ==
  /\ block.state = "tracing"
  /\ hits' = hits \cup Hits(block.matcher, InternalEvents(registry, lost))
  /\ decoders' = Cached(registry, decoders, "function",
                        {Frames[c].selector : c \in {d \in DOMAIN Frames :
                           Walked[d] /\ ~Frames[d].create /\ RootOf[d] \notin lost}})
  /\ block' = [block EXCEPT !.state = "processed", !.matcher = {}, !.lost = lost]
  /\ UNCHANGED <<target, applied, reload, registry, matcher, filter, stable>>

BlockOver ==
  /\ block' = NoBlock
  /\ hits' = {}
  /\ stable' = {}
  /\ UNCHANGED <<target, applied, reload, registry, decoders, matcher, filter>>

(* trace_block could not read the block: the block ends without checkpoint. *)
TraceFails == block.state = "tracing" /\ BlockOver

(* Matches are dispatched; the runner turns to the next block. *)
NextBlock == block.state = "processed" /\ BlockOver

Init ==
  /\ target \in Snapshots
  /\ applied = target
  /\ reload = "idle"
  /\ registry = target.abis
  /\ decoders = [k \in AbiIds \X Keys |-> None]
  /\ matcher = target.subs
  /\ filter = BuildFilter(registry, matcher)
  /\ block = NoBlock
  /\ hits = {}
  /\ stable = {}

Next ==
  \/ \E s \in Snapshots : Refresh(s)
  \/ ReplaceMatcher \/ ReplaceFilter
  \/ Capture \/ FetchLogs \/ Process
  \/ \E lost \in SUBSET Roots : TraceBlock(lost)
  \/ TraceFails \/ NextBlock

Spec == Init /\ [][Next]_vars
-----------------------------------------------------------------------------
TypeOK ==
  /\ {target, applied} \subseteq Snapshots
  /\ reload \in {"idle", "refreshed", "matcher"}
  /\ registry \in Bodies
  /\ decoders \in [AbiIds \X Keys -> AllEntries \cup {None}]
  /\ matcher \subseteq AllSubs
  /\ filter.addresses \subseteq {Logs[i].address : i \in DOMAIN Logs} /\ filter.topic0s \subseteq Topics
  /\ block.state \in {"none", "captured", "fetched", "tracing", "processed"}
  /\ block.matcher \subseteq AllSubs /\ block.logs \subseteq DOMAIN Logs /\ block.lost \subseteq Roots
  /\ hits \subseteq (AllSubs \X ({"log", "frame"} \X (DOMAIN Logs \cup DOMAIN Frames))
                             \X {"native", "erc20", "abi_event", "abi_call", "internal"})
  /\ stable \subseteq AllSubs

Got(s, of) == \E h \in hits : h[1] = s /\ h[2] = of

(* The subscription's own conditions, whatever the event. *)
Wants(s, address, args) ==
  /\ s.address # None => s.address = address
  /\ s.start # None => BlockNumber >= s.start
  /\ \A f \in s.filters : Means(f, args)

PlainFilters(s, args) == \A f \in s.filters : Clear(f, args)

(* The matching rule of the design (section 5.3) for logs, where a log has *)
(* the name and arguments of any registered event it decodes as.           *)
WantsLog(s, l) ==
  LET as == {e \in Entries[target.abis] : e.type = "event" /\ e.key = l.topic0
                                            /\ e.indexed + 1 = l.topics /\ l.bad = "no"}
  IN  \/ /\ s.kind = "token_transfer" /\ s.name \in {None, "Transfer"}
         /\ l.topic0 = TransferTopic /\ l.topics = 3 /\ l.bad # "data"
         /\ Wants(s, l.address, l.args)
      \/ /\ s.kind = "event" /\ l.topics > 0
         /\ s.name = None \/ \E e \in as : e.name = s.name
         /\ Wants(s, l.address, IF as = {} THEN NoArgs ELSE l.args)

(* Two signatures of the name that s asks for are registered, in one ABI   *)
(* or in two: event_topic0_for knows one only, so that the node-side       *)
(* filter hides the other.                                                 *)
Ambiguous(s) ==
  \E d, e \in Named(target.abis, s.name) : d.type = "event" /\ e.type = "event" /\ d.key # e.key

(* Another ABI has an event of this signature that indexes otherwise (a    *)
(* token and an NFT): only the first one in the registry is tried.         *)
Shadowed(l) ==
  \E d, e \in Entries[target.abis] : d.key = l.topic0 /\ e.key = l.topic0 /\ d.indexed # e.indexed

(* A log whose indexed argument does not decode comes first. *)
Behind(i) == \E j \in 1..i : Logs[j].bad = "topic"

(* A subscription that snapshots leave alone gets every log it wants from  *)
(* a block, and no other, however the registry, the matcher and the        *)
(* node-side filter are replaced between the awaits of that block: no      *)
(* combination of old and new parts hides a log from it, lets one through  *)
(* for it, or decodes one with a stale decoder.  A log that makes a parser *)
(* raise costs the later logs of that parser only: token_transfer          *)
(* subscriptions do not notice it.                                         *)
StableSubscriptionExact ==
  block.state = "processed" =>
    \A s \in stable, i \in DOMAIN Logs : LET l == Logs[i] IN
      PlainFilters(s, l.args) =>
        /\ Got(s, <<"log", i>>) => WantsLog(s, l)
        /\ WantsLog(s, l) /\ (s.kind = "event" => ~Ambiguous(s) /\ ~Shadowed(l) /\ ~Behind(i))
             => Got(s, <<"log", i>>)

(* What came of a frame was not undone by its own or a caller's failure. *)
Callers[c \in DOMAIN Frames] == {c} \cup (IF c \in Roots THEN {} ELSE Callers[Frames[c].parent])
TookEffect(c) == \A d \in Callers[c] : ~Frames[d].failed

WantsFrame(s, c) ==
  LET f == Frames[c]
      names == IF f.create THEN {"<create>"}
               ELSE {e.name : e \in {d \in Entries[target.abis] :
                                       d.type = "function" /\ d.key = f.selector /\ ~f.bad}}
  IN  \/ /\ s.kind = "native_transfer" /\ s.name = None
         /\ c \in Roots /\ ~f.create /\ f.value > 0
         /\ Wants(s, None, f.args)
      \/ /\ s.kind = "call" /\ names # {} /\ (s.name # None => s.name \in names)
         /\ Wants(s, f.to, f.args)

(* Two functions of the ABIs, past or present, share the frame's selector  *)
(* and not their name: only the first one in the registry is tried.        *)
Collides(c) ==
  \E d, e \in AllEntries : {d.key, e.key} = {Frames[c].selector} /\ d.name # e.name

(* Whether the runner can see a frame: it is a transaction's own call, or  *)
(* the transaction was traced and the frame is not too deep.               *)
Visible(c) ==
  \/ c \in Roots /\ ~Frames[c].create
  \/ RootOf[c] \notin block.lost /\ Depth[c] <= MaxCallDepth

(* A subscription that snapshots leave alone gets every transfer and call  *)
(* that took effect in a block, top-level or internal, and none that was   *)
(* reverted with a caller, although top-level and internal calls are       *)
(* decoded before and after an await in which the registry may change.     *)
(* Each is reported once, but a transaction's own call twice when it was   *)
(* traced.  (Whole transactions that reverted are reported: see            *)
(* NativeEvents.)                                                          *)
CallsExact ==
  block.state = "processed" =>
    \A s \in stable, c \in DOMAIN Frames :
      PlainFilters(s, Frames[c].args) =>
        /\ Got(s, <<"frame", c>>) => WantsFrame(s, c) /\ (TookEffect(c) \/ c \in Roots)
        /\ WantsFrame(s, c) /\ TookEffect(c) /\ Visible(c) /\ ~Collides(c) => Got(s, <<"frame", c>>)
        /\ Cardinality({h \in hits : h[1] = s /\ h[2] = <<"frame", c>>})
             <= IF c \in Roots \ block.lost THEN 2 ELSE 1

(* The decoder cache never holds a decoder of an ABI body that has been    *)
(* replaced or deleted, although it survives refreshes that leave the ABI  *)
(* alone.                                                                  *)
DecodersAreCurrent ==
  \A k \in DOMAIN decoders :
    decoders[k] # None => \E b \in Body(registry, k[1]) : \E j \in DOMAIN b : b[j] = decoders[k]

=============================================================================
