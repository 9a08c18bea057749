------------------------------ MODULE ConfigApi ------------------------------
(***************************************************************************)
(* The configuration tables under concurrent requests of the web API       *)
(* (apps/web/routers/chains, channels, abis, subscriptions) and the        *)
(* statements of the worker's load_snapshot (core/config/snapshot.py).     *)
(*                                                                         *)
(* A handler looks its row up, writes, reads config_version in bump and    *)
(* commits its write together with the version it read plus one; each      *)
(* statement, the loader's too, sees what is committed by then (READ       *)
(* COMMITTED).  A write shows at its commit.  Writes that a lock would     *)
(* keep apart (a row's, SQLite's only writer) may interleave here.         *)
(*                                                                         *)
(* A channel's config is the type whose schema it satisfies, a chain's     *)
(* commitment whether one is given.                                        *)
(***************************************************************************)
EXTENDS Integers, FiniteSets

CONSTANTS
  ChainIds, AbiIds, ChannelIds, SubIds,  \* primary keys
  Types,        \* channel types
  Clients,      \* requests handled at the same time
  MaxRequests,  \* bound: requests made
  None

ASSUME ApiAssumption ==
  /\ MaxRequests \in Nat
  /\ None \notin AbiIds

VARIABLES
  engine,    \* settings.database.url: "postgresql" or "sqlite"
  db,        \* chains, abis, channels, subs, bindings: the rows by key, None without one
  version,   \* config_version
  read,      \* client -> the version its bump has read, or NotRead
  taken,     \* history: versions committed
  reused,    \* history: versions committed more than once
  issued,    \* history: uuids given out, which are never given out again
  request,   \* client -> the request that passed its lookups, or None
  requests,  \* bound
  load       \* the statement load_snapshot is at, and what it has read

vars == <<engine, db, version, read, taken, reused, issued, request, requests, load>>

bumps == <<version, read, taken, reused>>

NotRead == -1

Chain == [kind : {"evm", "solana"}, commitment : BOOLEAN, enabled : BOOLEAN]
Channel == [type : Types, config : Types]
Sub == [chain : ChainIds, abi : AbiIds \cup {None}, enabled : BOOLEAN]
Rows(t) == {i \in DOMAIN t : t[i] # None}

(* None, the mark of a missing row, is no row. *)
ASSUME RowsAssumption == None \notin Chain /\ None \notin Channel /\ None \notin Sub

(* SQLite leaves foreign keys alone unless a connection asks for them, and *)
(* Database does not.                                                    *)
ForeignKeys == engine = "postgresql"

(* What the pydantic models accept: a commitment with Solana and only there. *)
ChainPayload == [kind : {"evm", "solana"}, enabled : BOOLEAN]
-----------------------------------------------------------------------------
(* The lookups of a handler; a row that is missing (or there, for a new    *)
(* chain) ends the request with 404 (409).                                 *)
Begin(c, r) ==
  /\ request[c] = None
  /\ requests < MaxRequests
  /\ requests' = requests + 1
  /\ request' = [request EXCEPT ![c] = r]
  /\ UNCHANGED <<engine, db, bumps, load>>

CreateChain(c) ==
  \E i \in ChainIds, p \in ChainPayload :
    /\ db.chains[i] = None
    /\ Begin(c, [op |-> "create_chain", id |-> i, payload |-> p])
    /\ UNCHANGED issued

UpdateChain(c) ==
  \E i \in Rows(db.chains), p \in ChainPayload :
    Begin(c, [op |-> "update_chain", id |-> i, payload |-> p]) /\ UNCHANGED issued

CreateChannel(c) ==
  \E i \in ChannelIds \ issued, t \in Types :
    /\ Begin(c, [op |-> "create_channel", id |-> i, payload |-> t])
    /\ issued' = issued \cup {i}

UpdateChannel(c) ==
  \E i \in Rows(db.channels), t \in Types :
    Begin(c, [op |-> "update_channel", id |-> i, payload |-> t]) /\ UNCHANGED issued

CreateAbi(c) ==
  \E i \in AbiIds \ issued :
    /\ Begin(c, [op |-> "create_abi", id |-> i])
    /\ issued' = issued \cup {i}

(* fetch-idl: the IDL found on the chain becomes an ABI (404 without one). *)
FetchIdl(c) == CreateAbi(c)

CreateSubscription(c) ==
  \E i \in SubIds \ issued, s \in Sub :
    /\ db.chains[s.chain] # None
    /\ s.abi # None => s.abi \in issued
    /\ Begin(c, [op |-> "create_sub", id |-> i, payload |-> s])
    /\ issued' = issued \cup {i}

(* The chain of a subscription cannot be changed; nobody looks the ABI up. *)
UpdateSubscription(c) ==
  \E i \in Rows(db.subs), s \in Sub :
    /\ s.chain = db.subs[i].chain
    /\ s.abi # None => s.abi \in issued
    /\ Begin(c, [op |-> "update_sub", id |-> i, payload |-> s])
    /\ UNCHANGED issued

PauseOrResume(c) ==
  \E i \in Rows(db.subs), e \in BOOLEAN :
    Begin(c, [op |-> "set_enabled", id |-> i, payload |-> e]) /\ UNCHANGED issued

BindChannel(c) ==
  \E i \in Rows(db.subs), x \in Rows(db.channels) :
    Begin(c, [op |-> "bind", id |-> i, payload |-> x]) /\ UNCHANGED issued

DeleteChain(c) ==
  \E i \in Rows(db.chains) : Begin(c, [op |-> "delete_chain", id |-> i]) /\ UNCHANGED issued

DeleteChannel(c) ==
  \E i \in Rows(db.channels) : Begin(c, [op |-> "delete_channel", id |-> i]) /\ UNCHANGED issued

DeleteAbi(c) ==
  \E i \in db.abis : Begin(c, [op |-> "delete_abi", id |-> i]) /\ UNCHANGED issued

DeleteSubscription(c) ==
  \E i \in Rows(db.subs) : Begin(c, [op |-> "delete_sub", id |-> i]) /\ UNCHANGED issued
-----------------------------------------------------------------------------
(* The writes.  An UPDATE or DELETE of a row that is gone changes nothing. *)

Put(t, i, row) == IF t[i] = None THEN t ELSE [t EXCEPT ![i] = row]

(* ON DELETE CASCADE and SET NULL of core/config/models.py. *)
WithoutSubs(d, gone) ==
  IF ~ForeignKeys THEN [d EXCEPT !.subs = [s \in SubIds |-> IF s \in gone THEN None ELSE @[s]]]
  ELSE [d EXCEPT !.subs = [s \in SubIds |-> IF s \in gone THEN None ELSE @[s]],
                 !.bindings = {b \in @ : b[1] \notin gone}]

WithoutChain(d, i) ==
  LET gone == IF ForeignKeys THEN {s \in Rows(d.subs) : d.subs[s].chain = i} ELSE {}
  IN  WithoutSubs([d EXCEPT !.chains[i] = None], gone)

WithoutChannel(d, i) ==
  [d EXCEPT !.channels[i] = None,
            !.bindings = IF ForeignKeys THEN {b \in @ : b[2] # i} ELSE @]

MutantWithoutAbi(d, i) == [d EXCEPT !.abis = @ \ {i}]

WithoutAbi(d, i) ==
  [d EXCEPT !.abis = @ \ {i},
            !.subs = [s \in SubIds |->
                        IF ForeignKeys /\ @[s] # None /\ @[s].abi = i
                        THEN [@[s] EXCEPT !.abi = None] ELSE @[s]]]

(* The foreign keys of a subscription that is written. *)
KeysHold(d, s) ==
  ForeignKeys => d.chains[s.chain] # None /\ (s.abi # None => s.abi \in d.abis)

(* A write that violates a key is answered with 500 (bind: 409). *)
Refused(d, r) ==
  CASE r.op = "create_chain" -> d.chains[r.id] # None
    [] r.op = "create_sub" -> ~KeysHold(d, r.payload)
    [] r.op = "update_sub" -> d.subs[r.id] # None /\ ~KeysHold(d, r.payload)
    [] r.op = "bind" ->
         \/ <<r.id, r.payload>> \in d.bindings
         \/ ForeignKeys /\ (d.subs[r.id] = None \/ d.channels[r.payload] = None)
    [] OTHER -> FALSE

(* update_chain leaves kind alone, update_channel leaves type alone. *)
Written(d, r) ==
  CASE r.op = "create_chain" ->
         [d EXCEPT !.chains[r.id] = [kind |-> r.payload.kind, enabled |-> r.payload.enabled,
                                     commitment |-> r.payload.kind = "solana"]]
    [] r.op = "update_chain" ->
         [d EXCEPT !.chains = Put(@, r.id, [@[r.id] EXCEPT !.enabled = r.payload.enabled,
                                            !.commitment = r.payload.kind = "solana"])]
    [] r.op = "delete_chain" -> WithoutChain(d, r.id)
    [] r.op = "create_channel" ->
         [d EXCEPT !.channels[r.id] = [type |-> r.payload, config |-> r.payload]]
    [] r.op = "update_channel" ->
         [d EXCEPT !.channels = Put(@, r.id, [@[r.id] EXCEPT !.config = r.payload])]
    [] r.op = "delete_channel" -> WithoutChannel(d, r.id)
    [] r.op = "create_abi" -> [d EXCEPT !.abis = @ \cup {r.id}]
    [] r.op = "delete_abi" -> WithoutAbi(d, r.id)
    [] r.op = "create_sub" -> [d EXCEPT !.subs[r.id] = r.payload]
    [] r.op = "update_sub" -> [d EXCEPT !.subs = Put(@, r.id, r.payload)]
    [] r.op = "set_enabled" ->
         [d EXCEPT !.subs = Put(@, r.id, [@[r.id] EXCEPT !.enabled = r.payload])]
    [] r.op = "delete_sub" -> WithoutSubs(d, {r.id})
    [] r.op = "bind" -> [d EXCEPT !.bindings = @ \cup {<<r.id, r.payload>>}]

(* bump gets the row of config_version after the write was flushed ... *)
ReadForBump(c) ==
  /\ request[c] # None /\ read[c] = NotRead
  /\ read' = [read EXCEPT ![c] = version]
  /\ UNCHANGED <<engine, db, version, taken, reused, issued, request, requests, load>>

(* ... and adds one to what it got: a version that another request has     *)
(* committed meanwhile is written again, or overwritten by a smaller one.  *)
Bump(c) == read[c] + 1

(* bump_and_publish: the write and the new version in one transaction. *)
Commit(c) ==
  /\ request[c] # None /\ read[c] # NotRead
  /\ ~Refused(db, request[c])
  /\ db' = Written(db, request[c])
  /\ version' = Bump(c)
  /\ taken' = taken \cup {version'}
  /\ reused' = IF version' \in taken THEN reused \cup {version'} ELSE reused
  /\ request' = [request EXCEPT ![c] = None] /\ read' = [read EXCEPT ![c] = NotRead]
  /\ UNCHANGED <<engine, issued, requests, load>>

Refuse(c) ==
  /\ request[c] # None
  /\ Refused(db, request[c])
  /\ request' = [request EXCEPT ![c] = None] /\ read' = [read EXCEPT ![c] = NotRead]
  /\ UNCHANGED <<engine, db, version, taken, reused, issued, requests, load>>
-----------------------------------------------------------------------------
(* load_snapshot, one statement at a time. *)

NoLoad == [at |-> "idle", version |-> 0, chains |-> {}, abis |-> {}, subs |-> {},
           todo |-> {}, bound |-> {}]

Enabled(t) == {<<i, t[i]>> : i \in {j \in Rows(t) : t[j].enabled}}

ReadVersion ==
  /\ load.at = "idle"
  /\ load' = [NoLoad EXCEPT !.at = "chains", !.version = version]
  /\ UNCHANGED <<engine, db, bumps, issued, request, requests>>

ReadChains ==
  /\ load.at = "chains"
  /\ load' = [load EXCEPT !.at = "abis", !.chains = Enabled(db.chains)]
  /\ UNCHANGED <<engine, db, bumps, issued, request, requests>>

ReadAbis ==
  /\ load.at = "abis"
  /\ load' = [load EXCEPT !.at = "subs", !.abis = db.abis]
  /\ UNCHANGED <<engine, db, bumps, issued, request, requests>>

ReadSubs ==
  /\ load.at = "subs"
  /\ load' = [load EXCEPT !.at = "channels", !.subs = Enabled(db.subs),
                          !.todo = {s[1] : s \in Enabled(db.subs)}]
  /\ UNCHANGED <<engine, db, bumps, issued, request, requests>>

(* The channels a subscription is bound to: a join, so without lost ones. *)
ReadChannels(i) ==
  /\ load.at = "channels" /\ i \in load.todo
  /\ load' = [load EXCEPT !.todo = @ \ {i},
       !.bound = @ \cup {<<i, x, db.channels[x]>> :
                           x \in {y \in Rows(db.channels) : <<i, y>> \in db.bindings}}]
  /\ UNCHANGED <<engine, db, bumps, issued, request, requests>>

(* Subscriptions without a channel, then chains without a subscription, are *)
(* left out.                                                                *)
Loaded(l) ==
  LET active == {s \in l.subs : \E b \in l.bound : b[1] = s[1]}
  IN  [subs |-> active, chains |-> {k \in l.chains : \E s \in active : s[2].chain = k[1]},
       abis |-> l.abis, bound |-> l.bound]

MutantLoadDone ==
  /\ load.at = "channels" /\ load.todo = {}
  /\ load' = [load EXCEPT !.at = "done", !.version = version]
  /\ UNCHANGED <<engine, db, bumps, issued, request, requests>>

LoadDone ==
  /\ load.at = "channels" /\ load.todo = {}
  /\ load' = [load EXCEPT !.at = "done"]
  /\ UNCHANGED <<engine, db, bumps, issued, request, requests>>

(* The snapshot is handed on; the next load starts afresh. *)
Reload ==
  /\ load.at = "done"
  /\ load' = NoLoad
  /\ UNCHANGED <<engine, db, bumps, issued, request, requests>>

Init ==
  /\ engine \in {"postgresql", "sqlite"}
  /\ db = [chains |-> [i \in ChainIds |-> None], abis |-> {},
           channels |-> [i \in ChannelIds |-> None], subs |-> [i \in SubIds |-> None],
           bindings |-> {}]
  /\ version = 0 /\ taken = {0} /\ reused = {}
  /\ read = [c \in Clients |-> NotRead]
  /\ issued = {}
  /\ request = [c \in Clients |-> None]
  /\ requests = 0
  /\ load = NoLoad

Handler(c) ==
  \/ CreateChain(c) \/ UpdateChain(c) \/ CreateChannel(c) \/ UpdateChannel(c) \/ CreateAbi(c)
  \/ FetchIdl(c)
  \/ CreateSubscription(c) \/ UpdateSubscription(c) \/ PauseOrResume(c) \/ BindChannel(c)
  \/ DeleteChain(c) \/ DeleteChannel(c) \/ DeleteAbi(c) \/ DeleteSubscription(c)
  \/ ReadForBump(c) \/ Commit(c) \/ Refuse(c)

Loader ==
  \/ ReadVersion \/ ReadChains \/ ReadAbis \/ ReadSubs
  \/ \E i \in SubIds : ReadChannels(i)
  \/ LoadDone \/ Reload

Next == Loader \/ \E c \in Clients : Handler(c)

Spec == Init /\ [][Next]_vars
-----------------------------------------------------------------------------
TypeOK ==
  /\ engine \in {"postgresql", "sqlite"}
  /\ \A i \in ChainIds : db.chains[i] \in Chain \cup {None}
  /\ \A i \in ChannelIds : db.channels[i] \in Channel \cup {None}
  /\ \A i \in SubIds : db.subs[i] \in Sub \cup {None}
  /\ db.abis \subseteq AbiIds
  /\ db.bindings \subseteq SubIds \X ChannelIds
  /\ version \in 0..MaxRequests
  /\ read \in [Clients -> 0..MaxRequests \cup {NotRead}]
  /\ taken \subseteq 0..MaxRequests /\ reused \subseteq taken
  /\ issued \subseteq AbiIds \cup ChannelIds \cup SubIds
  /\ requests \in 0..MaxRequests
  /\ load.at \in {"idle", "chains", "abis", "subs", "channels", "done"}

(* No subscription outlives its chain, keeps an ABI that was deleted, or   *)
(* is bound to a channel that is gone, whichever request deletes a row     *)
(* after another one has looked it up.  The database sees to it, not the   *)
(* handlers: with SQLite all three happen.                                 *)
ReferencesValid ==
  ForeignKeys =>
    /\ \A s \in Rows(db.subs) :
         /\ db.chains[db.subs[s].chain] # None
         /\ db.subs[s].abi # None => db.subs[s].abi \in db.abis
    /\ \A b \in db.bindings : db.subs[b[1]] # None /\ db.channels[b[2]] # None

(* What the tables mean to the worker. *)
Meaning ==
  Loaded([NoLoad EXCEPT !.chains = Enabled(db.chains), !.abis = db.abis, !.subs = Enabled(db.subs),
            !.bound = {<<b[1], b[2], db.channels[b[2]]>> :
                         b \in {x \in db.bindings : db.channels[x[2]] # None
                                                     /\ db.subs[x[1]] # None /\ db.subs[x[1]].enabled}}])

(* A snapshot that mixes statements from before and after a write carries  *)
(* a version that is out of date, so that the next poll replaces it: one   *)
(* that has the committed version is exactly what the tables say, unless   *)
(* two requests read one version in bump and committed the same next one.  *)
(* A snapshot loaded between those two commits cannot be told from a good  *)
(* one.                                                                    *)
CurrentSnapshotIsExact ==
  load.at = "done" /\ load.version = version /\ version \notin reused => Loaded(load) = Meaning
=============================================================================
