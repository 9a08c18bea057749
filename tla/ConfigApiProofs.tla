--------------------------- MODULE ConfigApiProofs ---------------------------
(***************************************************************************)
(* Proofs about ConfigApi, for any number of rows, clients and requests.   *)
(***************************************************************************)
EXTENDS ConfigApi, TLAPS

(* The tables, by their keys. *)
Db == [chains : [ChainIds -> Chain \cup {None}], abis : SUBSET AbiIds,
       channels : [ChannelIds -> Channel \cup {None}], subs : [SubIds -> Sub \cup {None}],
       bindings : SUBSET (SubIds \X ChannelIds)]

(* What a handler has looked up and validated before it writes. *)
Sound(r) ==
  /\ r.op \in {"create_chain", "update_chain", "delete_chain", "create_channel",
               "update_channel", "delete_channel", "create_abi", "delete_abi", "create_sub",
               "update_sub", "set_enabled", "delete_sub", "bind"}
  /\ r.op \in {"create_chain", "update_chain", "delete_chain"} => r.id \in ChainIds
  /\ r.op \in {"create_chain", "update_chain"} => r.payload \in ChainPayload
  /\ r.op \in {"create_channel", "update_channel", "delete_channel"} => r.id \in ChannelIds
  /\ r.op \in {"create_channel", "update_channel"} => r.payload \in Types
  /\ r.op \in {"create_abi", "delete_abi"} => r.id \in AbiIds
  /\ r.op \in {"create_sub", "update_sub", "set_enabled", "delete_sub", "bind"} => r.id \in SubIds
  /\ r.op \in {"create_sub", "update_sub"} => r.payload \in Sub
  /\ r.op = "set_enabled" => r.payload \in BOOLEAN
  /\ r.op = "bind" => r.payload \in ChannelIds

(* What the bumps under way have read. *)
ReadTypes == read \in [Clients -> Nat \cup {NotRead}]

(* Rows, requests and counters have the shape the statements assume. *)
ApiTypes ==
  /\ db \in Db
  /\ DOMAIN request = Clients
  /\ \A c \in Clients : request[c] # None => Sound(request[c])
  /\ version \in Nat /\ ReadTypes

(* ReferencesValid of the tables d, once the database enforces the keys. *)
Valid(d) ==
  /\ \A s \in SubIds : d.subs[s] # None =>
       /\ d.chains[d.subs[s].chain] # None
       /\ d.subs[s].abi # None => d.subs[s].abi \in d.abis
  /\ \A b \in d.bindings : d.subs[b[1]] # None /\ d.channels[b[2]] # None

(* Writing one of the tables, or two. *)
LEMMA DbFields ==
  ASSUME NEW d \in Db
  PROVE  /\ d.chains \in [ChainIds -> Chain \cup {None}] /\ d.abis \subseteq AbiIds
         /\ d.channels \in [ChannelIds -> Channel \cup {None}]
         /\ d.subs \in [SubIds -> Sub \cup {None}]
         /\ d.bindings \subseteq SubIds \X ChannelIds
BY DEF Db

(* Writing one table of the database leaves the others alone. *)
LEMMA DbWrite ==
  ASSUME NEW d \in Db
  PROVE  /\ \A x \in [ChainIds -> Chain \cup {None}] : LET e == [d EXCEPT !.chains = x] IN
              /\ e \in Db /\ e.chains = x /\ e.subs = d.subs /\ e.abis = d.abis
              /\ e.channels = d.channels /\ e.bindings = d.bindings
         /\ \A x \in SUBSET AbiIds : LET e == [d EXCEPT !.abis = x] IN
              /\ e \in Db /\ e.chains = d.chains /\ e.subs = d.subs /\ e.abis = x
              /\ e.channels = d.channels /\ e.bindings = d.bindings
         /\ \A x \in [ChannelIds -> Channel \cup {None}] : LET e == [d EXCEPT !.channels = x] IN
              /\ e \in Db /\ e.chains = d.chains /\ e.subs = d.subs /\ e.abis = d.abis
              /\ e.channels = x /\ e.bindings = d.bindings
         /\ \A x \in [SubIds -> Sub \cup {None}] : LET e == [d EXCEPT !.subs = x] IN
              /\ e \in Db /\ e.chains = d.chains /\ e.subs = x /\ e.abis = d.abis
              /\ e.channels = d.channels /\ e.bindings = d.bindings
         /\ \A x \in SUBSET (SubIds \X ChannelIds) : LET e == [d EXCEPT !.bindings = x] IN
              /\ e \in Db /\ e.chains = d.chains /\ e.subs = d.subs /\ e.abis = d.abis
              /\ e.channels = d.channels /\ e.bindings = x
BY DEF Db

-----------------------------------------------------------------------------
(* Statements on chains: an INSERT adds a row, an UPDATE keeps every row. *)
LEMMA ChainWritten ==
  ASSUME NEW d \in Db, NEW r, Sound(r), r.op \in {"create_chain", "update_chain"}
  PROVE  /\ Written(d, r) \in Db
         /\ Valid(d) => Valid(Written(d, r))
<1>0. r.id \in ChainIds /\ r.payload \in ChainPayload
  BY DEF Sound
<1>1. d.chains \in [ChainIds -> Chain \cup {None}] /\ None \notin Chain
  BY DbFields, RowsAssumption DEF RowsAssumption
<1>2. PICK t \in [ChainIds -> Chain \cup {None}] :
        /\ Written(d, r) = [d EXCEPT !.chains = t]
        /\ \A i \in ChainIds : d.chains[i] # None => t[i] # None
  <2>1. CASE r.op = "create_chain"
    <3> DEFINE row == [kind |-> r.payload.kind, enabled |-> r.payload.enabled,
                       commitment |-> r.payload.kind = "solana"]
    <3>1. row \in Chain
      BY <1>0 DEF Chain, ChainPayload
    <3>2. Written(d, r) = [d EXCEPT !.chains[r.id] = row]
      BY ONLY <2>1 DEF Written
    <3> HIDE DEF row
    <3> DEFINE t == [d.chains EXCEPT ![r.id] = row]
    <3>3. t \in [ChainIds -> Chain \cup {None}]
      BY <1>0, <1>1, <3>1
    <3>4. \A i \in ChainIds : d.chains[i] # None => t[i] # None
      BY <1>0, <1>1, <3>1
    <3>5. Written(d, r) = [d EXCEPT !.chains = t]
      BY <3>2
    <3> HIDE DEF t
    <3> QED  BY <3>3, <3>4, <3>5
  <2>2. CASE r.op = "update_chain"
    <3> DEFINE row == [d.chains[r.id] EXCEPT !.enabled = r.payload.enabled,
                                             !.commitment = r.payload.kind = "solana"]
    <3>1. d.chains[r.id] # None => row \in Chain
      <4> DEFINE e == r.payload.enabled
                 k == r.payload.kind = "solana"
      <4>1. e \in BOOLEAN /\ k \in BOOLEAN
        BY <1>0 DEF ChainPayload
      <4>2. row = [d.chains[r.id] EXCEPT !.enabled = e, !.commitment = k]
        OBVIOUS
      <4>3. d.chains[r.id] # None => d.chains[r.id] \in Chain
        BY <1>0, <1>1
      <4> HIDE DEF row, e, k
      <4> QED  BY <4>1, <4>2, <4>3 DEF Chain
    <3>2. Written(d, r) = [d EXCEPT !.chains = Put(d.chains, r.id, row)]
      BY ONLY <2>2 DEF Written
    <3> HIDE DEF row
    <3>3. /\ Put(d.chains, r.id, row) \in [ChainIds -> Chain \cup {None}]
          /\ \A i \in ChainIds : Put(d.chains, r.id, row)[i] = None <=> d.chains[i] = None
      BY <1>0, <1>1, <3>1 DEF Put
    <3> QED  BY <3>2, <3>3
  <2> QED  BY <2>1, <2>2
<1>3. /\ Written(d, r) \in Db
      /\ Written(d, r).chains = t /\ Written(d, r).subs = d.subs /\ Written(d, r).abis = d.abis
      /\ Written(d, r).channels = d.channels /\ Written(d, r).bindings = d.bindings
  BY <1>2, DbWrite
<1>4. ASSUME Valid(d) PROVE Valid(Written(d, r))
  <2>1. ASSUME NEW s \in SubIds, d.subs[s] # None PROVE d.subs[s].chain \in ChainIds
    BY <2>1, DbFields DEF Sub
  <2> QED  BY <1>2, <1>3, <1>4, <2>1 DEF Valid
<1> QED  BY <1>3, <1>4

(* Statements on channels: likewise. *)
LEMMA ChannelWritten ==
  ASSUME NEW d \in Db, NEW r, Sound(r), r.op \in {"create_channel", "update_channel"}
  PROVE  /\ Written(d, r) \in Db
         /\ Valid(d) => Valid(Written(d, r))
<1>0. r.id \in ChannelIds /\ r.payload \in Types
  BY DEF Sound
<1>1. d.channels \in [ChannelIds -> Channel \cup {None}] /\ None \notin Channel
  BY DbFields, RowsAssumption DEF RowsAssumption
<1>2. PICK t \in [ChannelIds -> Channel \cup {None}] :
        /\ Written(d, r) = [d EXCEPT !.channels = t]
        /\ \A i \in ChannelIds : d.channels[i] # None => t[i] # None
  <2>1. CASE r.op = "create_channel"
    <3> DEFINE row == [type |-> r.payload, config |-> r.payload]
    <3>1. row \in Channel
      BY <1>0 DEF Channel
    <3>2. Written(d, r) = [d EXCEPT !.channels[r.id] = row]
      BY ONLY <2>1 DEF Written
    <3> HIDE DEF row
    <3> DEFINE t == [d.channels EXCEPT ![r.id] = row]
    <3>3. t \in [ChannelIds -> Channel \cup {None}]
      BY <1>0, <1>1, <3>1
    <3>4. \A i \in ChannelIds : d.channels[i] # None => t[i] # None
      BY <1>0, <1>1, <3>1
    <3>5. Written(d, r) = [d EXCEPT !.channels = t]
      BY <3>2
    <3> HIDE DEF t
    <3> QED  BY <3>3, <3>4, <3>5
  <2>2. CASE r.op = "update_channel"
    <3> DEFINE row == [d.channels[r.id] EXCEPT !.config = r.payload]
    <3>1. d.channels[r.id] # None => row \in Channel
      BY <1>0, <1>1 DEF Channel
    <3>2. Written(d, r) = [d EXCEPT !.channels = Put(d.channels, r.id, row)]
      BY ONLY <2>2 DEF Written
    <3> HIDE DEF row
    <3>3. /\ Put(d.channels, r.id, row) \in [ChannelIds -> Channel \cup {None}]
          /\ \A i \in ChannelIds : Put(d.channels, r.id, row)[i] = None <=> d.channels[i] = None
      BY <1>0, <1>1, <3>1 DEF Put
    <3> QED  BY <3>2, <3>3
  <2> QED  BY <2>1, <2>2
<1>3. /\ Written(d, r) \in Db
      /\ Written(d, r).chains = d.chains /\ Written(d, r).subs = d.subs
      /\ Written(d, r).abis = d.abis
      /\ Written(d, r).channels = t /\ Written(d, r).bindings = d.bindings
  BY <1>2, DbWrite
<1>4. ASSUME Valid(d) PROVE Valid(Written(d, r))
  <2>1. ASSUME NEW b \in d.bindings PROVE b[2] \in ChannelIds
    BY <2>1, DbFields
  <2> QED  BY <1>2, <1>3, <1>4, <2>1 DEF Valid
<1> QED  BY <1>3, <1>4

(* Statements on subscriptions: the written row satisfies the keys. *)
LEMMA SubWritten ==
  ASSUME NEW d \in Db, NEW r, Sound(r), ~Refused(d, r),
         r.op \in {"create_sub", "update_sub", "set_enabled"}
  PROVE  /\ Written(d, r) \in Db
         /\ ForeignKeys /\ Valid(d) => Valid(Written(d, r))
<1>0. r.id \in SubIds
  BY DEF Sound
<1>1. d.subs \in [SubIds -> Sub \cup {None}] /\ None \notin Sub
  BY DbFields, RowsAssumption DEF RowsAssumption
<1>2. PICK t \in [SubIds -> Sub \cup {None}] :
        /\ Written(d, r) = [d EXCEPT !.subs = t]
        /\ \A s \in SubIds : d.subs[s] # None => t[s] # None
        /\ \A s \in SubIds : t[s] # None =>
             \/ KeysHold(d, t[s])
             \/ d.subs[s] # None /\ t[s].chain = d.subs[s].chain /\ t[s].abi = d.subs[s].abi
  <2>1. CASE r.op = "create_sub"
    <3>1. Written(d, r) = [d EXCEPT !.subs[r.id] = r.payload] /\ r.payload \in Sub
      BY <2>1 DEF Sound, Written
    <3>2. KeysHold(d, r.payload)
      BY <2>1 DEF Refused
    <3> DEFINE t == [d.subs EXCEPT ![r.id] = r.payload]
    <3>3. t \in [SubIds -> Sub \cup {None}]
      BY <1>0, <1>1, <3>1
    <3>4. t[r.id] = r.payload /\ \A s \in SubIds \ {r.id} : t[s] = d.subs[s]
      BY <1>0, <1>1
    <3>5. Written(d, r) = [d EXCEPT !.subs = t]
      BY <3>1
    <3> HIDE DEF t
    <3> QED  BY <1>1, <3>1, <3>2, <3>3, <3>4, <3>5
  <2>2. CASE r.op = "update_sub"
    <3>1. Written(d, r) = [d EXCEPT !.subs = Put(d.subs, r.id, r.payload)] /\ r.payload \in Sub
      BY <2>2 DEF Sound, Written
    <3>2. d.subs[r.id] # None => KeysHold(d, r.payload)
      BY <2>2 DEF Refused
    <3> DEFINE t == Put(d.subs, r.id, r.payload)
    <3>3. /\ t \in [SubIds -> Sub \cup {None}]
          /\ \A j \in SubIds : t[j] = None <=> d.subs[j] = None
          /\ \A j \in SubIds \ {r.id} : t[j] = d.subs[j]
          /\ d.subs[r.id] # None => t[r.id] = r.payload
      BY <1>0, <1>1, <3>1 DEF Put
    <3> HIDE DEF t
    <3>4. Written(d, r) = [d EXCEPT !.subs = t]
      BY <3>1 DEF t
    <3>5. ASSUME NEW s \in SubIds, t[s] # None
          PROVE  KeysHold(d, t[s]) \/ (d.subs[s] # None /\ t[s] = d.subs[s])
      BY <3>2, <3>3, <3>5
    <3> QED  BY <3>3, <3>4, <3>5
  <2>3. CASE r.op = "set_enabled"
    <3> DEFINE row == [d.subs[r.id] EXCEPT !.enabled = r.payload]
    <3>0. r.payload \in BOOLEAN
      BY <2>3 DEF Sound
    <3>1. d.subs[r.id] # None =>
            row \in Sub /\ row.chain = d.subs[r.id].chain /\ row.abi = d.subs[r.id].abi
      BY <1>0, <1>1, <3>0 DEF Sub
    <3>2. Written(d, r) = [d EXCEPT !.subs = Put(d.subs, r.id, row)]
      BY ONLY <2>3 DEF Written
    <3> HIDE DEF row
    <3> DEFINE t == Put(d.subs, r.id, row)
    <3>3. /\ t \in [SubIds -> Sub \cup {None}]
          /\ \A j \in SubIds : t[j] = None <=> d.subs[j] = None
          /\ \A j \in SubIds \ {r.id} : t[j] = d.subs[j]
          /\ d.subs[r.id] # None => t[r.id] = row
      BY <1>0, <1>1, <3>1 DEF Put
    <3> HIDE DEF t
    <3>4. Written(d, r) = [d EXCEPT !.subs = t]
      BY <3>2 DEF t
    <3>5. ASSUME NEW s \in SubIds, t[s] # None
          PROVE  d.subs[s] # None /\ t[s].chain = d.subs[s].chain /\ t[s].abi = d.subs[s].abi
      <4>1. CASE s = r.id
        BY <3>1, <3>3, <3>5, <4>1
      <4>2. CASE s # r.id
        BY <3>3, <3>5, <4>2
      <4> QED  BY <4>1, <4>2
    <3> QED  BY <3>3, <3>4, <3>5
  <2> QED  BY <2>1, <2>2, <2>3
<1>3. /\ Written(d, r) \in Db
      /\ Written(d, r).chains = d.chains /\ Written(d, r).subs = t
      /\ Written(d, r).abis = d.abis
      /\ Written(d, r).channels = d.channels /\ Written(d, r).bindings = d.bindings
  BY <1>2, DbWrite
<1>4. ASSUME ForeignKeys, Valid(d) PROVE Valid(Written(d, r))
  <2>1. ASSUME NEW b \in d.bindings PROVE b[1] \in SubIds
    BY <2>1, DbFields
  <2>2. ASSUME NEW s \in SubIds, t[s] # None
        PROVE  d.chains[t[s].chain] # None /\ (t[s].abi # None => t[s].abi \in d.abis)
    BY <1>2, <1>4, <2>2 DEF Valid, KeysHold
  <2> QED  BY <1>2, <1>3, <1>4, <2>1, <2>2 DEF Valid
<1> QED  BY <1>3, <1>4

(* Deleting subscriptions takes their bindings along. *)
LEMMA SubsDeleted ==
  ASSUME NEW d \in Db, NEW gone
  PROVE  /\ WithoutSubs(d, gone) \in Db
         /\ WithoutSubs(d, gone).chains = d.chains
         /\ WithoutSubs(d, gone).abis = d.abis
         /\ WithoutSubs(d, gone).channels = d.channels
         /\ WithoutSubs(d, gone).subs = [s \in SubIds |-> IF s \in gone THEN None ELSE d.subs[s]]
         /\ WithoutSubs(d, gone).bindings \subseteq d.bindings
         /\ ForeignKeys => \A b \in WithoutSubs(d, gone).bindings : b[1] \notin gone
<1> DEFINE t == [s \in SubIds |-> IF s \in gone THEN None ELSE d.subs[s]]
           k == {b \in d.bindings : b[1] \notin gone}
<1>1. t \in [SubIds -> Sub \cup {None}]
  BY DbFields
<1>2. k \in SUBSET (SubIds \X ChannelIds)
  BY DbFields
<1>3. WithoutSubs(d, gone) = IF ~ForeignKeys THEN [d EXCEPT !.subs = t]
                             ELSE [d EXCEPT !.subs = t, !.bindings = k]
  BY DEF WithoutSubs
<1>4. \A b \in k : b \in d.bindings /\ b[1] \notin gone
  OBVIOUS
<1>5. d.bindings \subseteq SubIds \X ChannelIds
  BY DbFields
<1>6. t = [s \in SubIds |-> IF s \in gone THEN None ELSE d.subs[s]]
  OBVIOUS
<1> HIDE DEF t, k
<1>7. CASE ~ForeignKeys
  <2>1. WithoutSubs(d, gone) = [d EXCEPT !.subs = t]
    BY <1>3, <1>7
  <2> QED  BY <1>1, <1>6, <1>7, <2>1, DbWrite
<1>8. CASE ForeignKeys
  <2> DEFINE e == [d EXCEPT !.subs = t]
             f == [e EXCEPT !.bindings = k]
  <2>1. WithoutSubs(d, gone) = f
    BY <1>3, <1>8
  <2>2. /\ e \in Db /\ e.chains = d.chains /\ e.subs = t /\ e.abis = d.abis
        /\ e.channels = d.channels /\ e.bindings = d.bindings
    BY <1>1, DbWrite
  <2> HIDE DEF e
  <2>3. /\ f \in Db /\ f.chains = e.chains /\ f.subs = e.subs /\ f.abis = e.abis
        /\ f.channels = e.channels /\ f.bindings = k
    BY <1>2, <2>2, DbWrite
  <2> HIDE DEF f
  <2> QED  BY <1>4, <1>6, <1>8, <2>1, <2>2, <2>3
<1> QED  BY <1>7, <1>8

(* delete_subscription. *)
LEMMA SubDeleted ==
  ASSUME NEW d \in Db, NEW i \in SubIds
  PROVE  /\ WithoutSubs(d, {i}) \in Db
         /\ ForeignKeys /\ Valid(d) => Valid(WithoutSubs(d, {i}))
<1> DEFINE e == WithoutSubs(d, {i})
<1>1. /\ e \in Db /\ e.chains = d.chains /\ e.abis = d.abis /\ e.channels = d.channels
      /\ e.subs = [s \in SubIds |-> IF s \in {i} THEN None ELSE d.subs[s]]
      /\ e.bindings \subseteq d.bindings
      /\ ForeignKeys => \A b \in e.bindings : b[1] \notin {i}
  BY SubsDeleted
<1> HIDE DEF e
<1>2. \A b \in d.bindings : b[1] \in SubIds
  BY DbFields
<1>3. \A s \in SubIds : e.subs[s] = IF s = i THEN None ELSE d.subs[s]
  BY <1>1
<1>4. ASSUME ForeignKeys, Valid(d) PROVE Valid(e)
  <2>1. ASSUME NEW s \in SubIds, e.subs[s] # None
        PROVE  e.chains[e.subs[s].chain] # None /\ (e.subs[s].abi # None => e.subs[s].abi \in e.abis)
    BY <1>1, <1>3, <1>4, <2>1 DEF Valid
  <2>2. ASSUME NEW b \in e.bindings PROVE e.subs[b[1]] # None /\ e.channels[b[2]] # None
    BY <1>1, <1>2, <1>3, <1>4 DEF Valid
  <2> QED  BY <2>1, <2>2 DEF Valid
<1> QED  BY <1>1, <1>4 DEF e

(* delete_chain: with the chain go its subscriptions and their bindings. *)
LEMMA ChainDeleted ==
  ASSUME NEW d \in Db, NEW i \in ChainIds
  PROVE  /\ WithoutChain(d, i) \in Db
         /\ ForeignKeys /\ Valid(d) => Valid(WithoutChain(d, i))
<1> DEFINE gone == IF ForeignKeys THEN {s \in Rows(d.subs) : d.subs[s].chain = i} ELSE {}
           t == [d.chains EXCEPT ![i] = None]
           c == [d EXCEPT !.chains = t]
           e == WithoutSubs(c, gone)
<1>1. WithoutChain(d, i) = e
  BY DEF WithoutChain
<1>2. t \in [ChainIds -> Chain \cup {None}] /\ \A j \in ChainIds \ {i} : t[j] = d.chains[j]
  BY DbFields
<1>3. ForeignKeys => \A s \in SubIds : s \in gone <=> (d.subs[s] # None /\ d.subs[s].chain = i)
  BY DbFields DEF Rows
<1> HIDE DEF gone, t
<1>4. /\ c \in Db /\ c.chains = t /\ c.subs = d.subs /\ c.abis = d.abis
      /\ c.channels = d.channels /\ c.bindings = d.bindings
  BY <1>2, DbWrite
<1> HIDE DEF c
<1>5. /\ e \in Db /\ e.chains = c.chains /\ e.abis = c.abis /\ e.channels = c.channels
      /\ e.subs = [s \in SubIds |-> IF s \in gone THEN None ELSE c.subs[s]]
      /\ e.bindings \subseteq c.bindings
      /\ ForeignKeys => \A b \in e.bindings : b[1] \notin gone
  BY <1>4, SubsDeleted
<1> HIDE DEF e
<1>6. \A s \in SubIds : e.subs[s] = IF s \in gone THEN None ELSE d.subs[s]
  BY <1>4, <1>5
<1>7. \A b \in d.bindings : b[1] \in SubIds
  BY DbFields
<1>8. ASSUME ForeignKeys, Valid(d) PROVE Valid(e)
  <2>1. ASSUME NEW s \in SubIds, e.subs[s] # None
        PROVE  e.chains[e.subs[s].chain] # None /\ (e.subs[s].abi # None => e.subs[s].abi \in e.abis)
    <3>1. e.subs[s] = d.subs[s] /\ d.subs[s] # None /\ d.subs[s].chain # i
      BY <1>3, <1>6, <1>8, <2>1
    <3>2. d.subs[s].chain \in ChainIds
      BY <3>1, DbFields DEF Sub
    <3> QED  BY <1>2, <1>4, <1>5, <1>8, <3>1, <3>2 DEF Valid
  <2>2. ASSUME NEW b \in e.bindings PROVE e.subs[b[1]] # None /\ e.channels[b[2]] # None
    BY <1>4, <1>5, <1>6, <1>7, <1>8 DEF Valid
  <2> QED  BY <2>1, <2>2 DEF Valid
<1> QED  BY <1>1, <1>5, <1>8

(* delete_channel: with the channel go its bindings. *)
LEMMA ChannelDeleted ==
  ASSUME NEW d \in Db, NEW i \in ChannelIds
  PROVE  /\ WithoutChannel(d, i) \in Db
         /\ ForeignKeys /\ Valid(d) => Valid(WithoutChannel(d, i))
<1> DEFINE t == [d.channels EXCEPT ![i] = None]
           k == IF ForeignKeys THEN {b \in d.bindings : b[2] # i} ELSE d.bindings
           c == [d EXCEPT !.channels = t]
           e == [c EXCEPT !.bindings = k]
<1>1. WithoutChannel(d, i) = e
  BY DEF WithoutChannel
<1>2. t \in [ChannelIds -> Channel \cup {None}] /\ \A j \in ChannelIds \ {i} : t[j] = d.channels[j]
  BY DbFields
<1>3. k \in SUBSET (SubIds \X ChannelIds) /\ k \subseteq d.bindings
  BY DbFields
<1>a. ForeignKeys => \A b \in k : b[2] # i
  OBVIOUS
<1> HIDE DEF t, k
<1>4. /\ c \in Db /\ c.chains = d.chains /\ c.subs = d.subs /\ c.abis = d.abis
      /\ c.channels = t /\ c.bindings = d.bindings
  BY <1>2, DbWrite
<1> HIDE DEF c
<1>5. /\ e \in Db /\ e.chains = c.chains /\ e.subs = c.subs /\ e.abis = c.abis
      /\ e.channels = c.channels /\ e.bindings = k
  BY <1>3, <1>4, DbWrite
<1> HIDE DEF e
<1>7. \A b \in d.bindings : b[2] \in ChannelIds
  BY DbFields
<1>8. ASSUME ForeignKeys, Valid(d) PROVE Valid(e)
  <2>1. ASSUME NEW s \in SubIds, e.subs[s] # None
        PROVE  e.chains[e.subs[s].chain] # None /\ (e.subs[s].abi # None => e.subs[s].abi \in e.abis)
    BY <1>4, <1>5, <1>8, <2>1 DEF Valid
  <2>2. ASSUME NEW b \in e.bindings PROVE e.subs[b[1]] # None /\ e.channels[b[2]] # None
    BY <1>2, <1>3, <1>a, <1>4, <1>5, <1>7, <1>8 DEF Valid
  <2> QED  BY <2>1, <2>2 DEF Valid
<1> QED  BY <1>1, <1>5, <1>8

(* delete_abi: the subscriptions that used it use none. *)
LEMMA AbiDeleted ==
  ASSUME NEW d \in Db, NEW i \in AbiIds
  PROVE  /\ WithoutAbi(d, i) \in Db
         /\ ForeignKeys /\ Valid(d) => Valid(WithoutAbi(d, i))
<1> DEFINE a == d.abis \ {i}
           t == [s \in SubIds |-> IF ForeignKeys /\ d.subs[s] # None /\ d.subs[s].abi = i
                                  THEN [d.subs[s] EXCEPT !.abi = None] ELSE d.subs[s]]
           c == [d EXCEPT !.abis = a]
           e == [c EXCEPT !.subs = t]
<1>1. WithoutAbi(d, i) = e
  BY DEF WithoutAbi
<1>2. a \in SUBSET AbiIds /\ \A x \in d.abis : x # i => x \in a
  BY DbFields
<1>0. None \notin Sub
  BY RowsAssumption DEF RowsAssumption
<1>3. ASSUME NEW s \in SubIds
      PROVE  /\ t[s] \in Sub \cup {None}
             /\ d.subs[s] # None <=> t[s] # None
             /\ t[s] # None => /\ t[s].chain = d.subs[s].chain
                               /\ ForeignKeys => (t[s].abi # None =>
                                                   t[s].abi = d.subs[s].abi /\ t[s].abi # i)
  <2>1. CASE ForeignKeys /\ d.subs[s] # None /\ d.subs[s].abi = i
    <3> DEFINE row == [d.subs[s] EXCEPT !.abi = None]
    <3>1. d.subs[s] \in Sub
      BY <2>1, DbFields
    <3>2. row \in Sub /\ row.chain = d.subs[s].chain /\ row.abi = None
      BY <3>1 DEF Sub
    <3>3. t[s] = row
      BY <2>1
    <3> HIDE DEF row, t
    <3> QED  BY <1>0, <2>1, <3>2, <3>3
  <2>2. CASE ~(ForeignKeys /\ d.subs[s] # None /\ d.subs[s].abi = i)
    <3>1. t[s] = d.subs[s]
      BY <2>2
    <3>2. d.subs[s] \in Sub \cup {None}
      BY DbFields
    <3> HIDE DEF t
    <3> QED  BY <2>2, <3>1, <3>2
  <2> QED  BY <2>1, <2>2
<1>4. t \in [SubIds -> Sub \cup {None}]
  BY <1>3
<1> HIDE DEF t, a
<1>5. /\ c \in Db /\ c.chains = d.chains /\ c.subs = d.subs /\ c.abis = a
      /\ c.channels = d.channels /\ c.bindings = d.bindings
  BY <1>2, DbWrite
<1> HIDE DEF c
<1>6. /\ e \in Db /\ e.chains = c.chains /\ e.subs = t /\ e.abis = c.abis
      /\ e.channels = c.channels /\ e.bindings = c.bindings
  BY <1>4, <1>5, DbWrite
<1> HIDE DEF e
<1>7. \A b \in d.bindings : b[1] \in SubIds
  BY DbFields
<1>8. ASSUME ForeignKeys, Valid(d) PROVE Valid(e)
  <2>1. ASSUME NEW s \in SubIds, e.subs[s] # None
        PROVE  e.chains[e.subs[s].chain] # None /\ (e.subs[s].abi # None => e.subs[s].abi \in e.abis)
    BY <1>2, <1>3, <1>5, <1>6, <1>8, <2>1 DEF Valid
  <2>2. ASSUME NEW b \in e.bindings PROVE e.subs[b[1]] # None /\ e.channels[b[2]] # None
    BY <1>3, <1>5, <1>6, <1>7, <1>8 DEF Valid
  <2> QED  BY <2>1, <2>2 DEF Valid
<1> QED  BY <1>1, <1>6, <1>8

(* A write that is not refused keeps the tables valid. *)
LEMMA WrittenKeeps ==
  ASSUME NEW d \in Db, NEW r, Sound(r), ~Refused(d, r)
  PROVE  /\ Written(d, r) \in Db
         /\ ForeignKeys /\ Valid(d) => Valid(Written(d, r))
<1>1. CASE r.op \in {"create_chain", "update_chain"}
  BY <1>1, ChainWritten
<1>2. CASE r.op \in {"create_channel", "update_channel"}
  BY <1>2, ChannelWritten
<1>3. CASE r.op \in {"create_sub", "update_sub", "set_enabled"}
  BY <1>3, SubWritten
<1>4. CASE r.op = "delete_chain"
  <2>1. Written(d, r) = WithoutChain(d, r.id)
    BY ONLY <1>4 DEF Written
  <2>2. r.id \in ChainIds
    BY <1>4 DEF Sound
  <2> QED  BY <2>1, <2>2, ChainDeleted
<1>5. CASE r.op = "delete_channel"
  <2>1. Written(d, r) = WithoutChannel(d, r.id)
    BY ONLY <1>5 DEF Written
  <2>2. r.id \in ChannelIds
    BY <1>5 DEF Sound
  <2> QED  BY <2>1, <2>2, ChannelDeleted
<1>6. CASE r.op = "delete_abi"
  <2>1. Written(d, r) = WithoutAbi(d, r.id)
    BY ONLY <1>6 DEF Written
  <2>2. r.id \in AbiIds
    BY <1>6 DEF Sound
  <2> QED  BY <2>1, <2>2, AbiDeleted
<1>7. CASE r.op = "delete_sub"
  <2>1. Written(d, r) = WithoutSubs(d, {r.id})
    BY ONLY <1>7 DEF Written
  <2>2. r.id \in SubIds
    BY <1>7 DEF Sound
  <2> QED  BY <2>1, <2>2, SubDeleted
<1>8. CASE r.op = "create_abi"
  <2> DEFINE a == d.abis \cup {r.id}
             e == [d EXCEPT !.abis = a]
  <2>1. Written(d, r) = e
    BY ONLY <1>8 DEF Written
  <2>2. a \in SUBSET AbiIds /\ d.abis \subseteq a
    BY <1>8, DbFields DEF Sound
  <2> HIDE DEF a
  <2>3. /\ e \in Db /\ e.chains = d.chains /\ e.subs = d.subs /\ e.abis = a
        /\ e.channels = d.channels /\ e.bindings = d.bindings
    BY <2>2, DbWrite
  <2> HIDE DEF e
  <2> QED  BY <2>1, <2>2, <2>3 DEF Valid
<1>9. CASE r.op = "bind"
  <2> DEFINE k == d.bindings \cup {<<r.id, r.payload>>}
             e == [d EXCEPT !.bindings = k]
  <2>1. Written(d, r) = e
    BY ONLY <1>9 DEF Written
  <2>2. r.id \in SubIds /\ r.payload \in ChannelIds
    BY <1>9 DEF Sound
  <2>3. k \in SUBSET (SubIds \X ChannelIds)
    BY <2>2, DbFields
  <2>4. ForeignKeys => d.subs[r.id] # None /\ d.channels[r.payload] # None
    BY <1>9 DEF Refused
  <2>5. \A b \in k : b \in d.bindings \/ (b[1] = r.id /\ b[2] = r.payload)
    OBVIOUS
  <2> HIDE DEF k
  <2>6. /\ e \in Db /\ e.chains = d.chains /\ e.subs = d.subs /\ e.abis = d.abis
        /\ e.channels = d.channels /\ e.bindings = k
    BY <2>3, DbWrite
  <2> HIDE DEF e
  <2> QED  BY <2>1, <2>4, <2>5, <2>6 DEF Valid
<1> QED  BY <1>1, <1>2, <1>3, <1>4, <1>5, <1>6, <1>7, <1>8, <1>9 DEF Sound
-----------------------------------------------------------------------------
(* The kinds of steps: a request is taken in, its bump reads the version,  *)
(* its write is committed with another, it ends without one, or the loader *)
(* reads.                                                                  *)
LEMMA Steps ==
  ASSUME ApiTypes, [Next]_vars
  PROVE  \/ /\ UNCHANGED <<engine, db, version, taken, reused, load>> /\ ReadTypes'
            /\ \E c \in Clients : \E r : Sound(r) /\ request' = [request EXCEPT ![c] = r]
         \/ \E c \in Clients : Commit(c)
         \/ /\ UNCHANGED <<engine, db, version, taken, reused, load>> /\ ReadTypes'
            /\ \E c \in Clients : request' = [request EXCEPT ![c] = None]
         \/ UNCHANGED <<engine, db, bumps, request>> /\ Loader
         \/ UNCHANGED <<engine, db, version, taken, reused, request, load>> /\ ReadTypes'
<1>0. version \in Nat /\ ReadTypes
  BY DEF ApiTypes, ReadTypes
<1> DEFINE TakenIn == /\ UNCHANGED <<engine, db, version, taken, reused, load>> /\ ReadTypes'
                      /\ \E c \in Clients : \E r : Sound(r) /\ request' = [request EXCEPT ![c] = r]
<1>a. ASSUME NEW c \in Clients, NEW r, Sound(r), Begin(c, r) PROVE TakenIn
  BY <1>0, <1>a DEF Begin, bumps, ReadTypes
<1>b. /\ Rows(db.chains) \subseteq ChainIds /\ Rows(db.channels) \subseteq ChannelIds
      /\ Rows(db.subs) \subseteq SubIds /\ db.abis \subseteq AbiIds
  BY DbFields DEF ApiTypes, Rows
<1> HIDE DEF TakenIn
<1>1. ASSUME NEW c \in Clients, CreateChain(c) PROVE TakenIn
  <2>1. PICK i \in ChainIds, p \in ChainPayload :
          Begin(c, [op |-> "create_chain", id |-> i, payload |-> p])
    BY <1>1 DEF CreateChain
  <2>2. Sound([op |-> "create_chain", id |-> i, payload |-> p])
    BY DEF Sound
  <2> QED  BY <1>a, <2>1, <2>2
<1>2. ASSUME NEW c \in Clients, UpdateChain(c) PROVE TakenIn
  <2>1. PICK i \in ChainIds, p \in ChainPayload :
          Begin(c, [op |-> "update_chain", id |-> i, payload |-> p])
    BY <1>2, <1>b DEF UpdateChain
  <2>2. Sound([op |-> "update_chain", id |-> i, payload |-> p])
    BY DEF Sound
  <2> QED  BY <1>a, <2>1, <2>2
<1>3. ASSUME NEW c \in Clients, CreateChannel(c) PROVE TakenIn
  <2>1. PICK i \in ChannelIds, p \in Types :
          Begin(c, [op |-> "create_channel", id |-> i, payload |-> p])
    BY <1>3 DEF CreateChannel
  <2>2. Sound([op |-> "create_channel", id |-> i, payload |-> p])
    BY DEF Sound
  <2> QED  BY <1>a, <2>1, <2>2
<1>4. ASSUME NEW c \in Clients, UpdateChannel(c) PROVE TakenIn
  <2>1. PICK i \in ChannelIds, p \in Types :
          Begin(c, [op |-> "update_channel", id |-> i, payload |-> p])
    BY <1>4, <1>b DEF UpdateChannel
  <2>2. Sound([op |-> "update_channel", id |-> i, payload |-> p])
    BY DEF Sound
  <2> QED  BY <1>a, <2>1, <2>2
<1>5. ASSUME NEW c \in Clients, CreateAbi(c) PROVE TakenIn
  <2>1. PICK i \in AbiIds : Begin(c, [op |-> "create_abi", id |-> i])
    BY <1>5 DEF CreateAbi
  <2>2. Sound([op |-> "create_abi", id |-> i])
    BY DEF Sound
  <2> QED  BY <1>a, <2>1, <2>2
<1>6. ASSUME NEW c \in Clients, CreateSubscription(c) PROVE TakenIn
  <2>1. PICK i \in SubIds, s \in Sub : Begin(c, [op |-> "create_sub", id |-> i, payload |-> s])
    BY <1>6 DEF CreateSubscription
  <2>2. Sound([op |-> "create_sub", id |-> i, payload |-> s])
    BY DEF Sound
  <2> QED  BY <1>a, <2>1, <2>2
<1>7. ASSUME NEW c \in Clients, UpdateSubscription(c) PROVE TakenIn
  <2>1. PICK i \in SubIds, s \in Sub : Begin(c, [op |-> "update_sub", id |-> i, payload |-> s])
    BY <1>7, <1>b DEF UpdateSubscription
  <2>2. Sound([op |-> "update_sub", id |-> i, payload |-> s])
    BY DEF Sound
  <2> QED  BY <1>a, <2>1, <2>2
<1>8. ASSUME NEW c \in Clients, PauseOrResume(c) PROVE TakenIn
  <2>1. PICK i \in SubIds, e \in BOOLEAN :
          Begin(c, [op |-> "set_enabled", id |-> i, payload |-> e])
    BY <1>8, <1>b DEF PauseOrResume
  <2>2. Sound([op |-> "set_enabled", id |-> i, payload |-> e])
    BY DEF Sound
  <2> QED  BY <1>a, <2>1, <2>2
<1>9. ASSUME NEW c \in Clients, BindChannel(c) PROVE TakenIn
  <2>1. PICK i \in SubIds, x \in ChannelIds : Begin(c, [op |-> "bind", id |-> i, payload |-> x])
    BY <1>9, <1>b DEF BindChannel
  <2>2. Sound([op |-> "bind", id |-> i, payload |-> x])
    BY DEF Sound
  <2> QED  BY <1>a, <2>1, <2>2
<1>10. ASSUME NEW c \in Clients,
              DeleteChain(c) \/ DeleteChannel(c) \/ DeleteAbi(c) \/ DeleteSubscription(c)
       PROVE  TakenIn
  <2>1. \/ \E i \in ChainIds : Begin(c, [op |-> "delete_chain", id |-> i])
        \/ \E i \in ChannelIds : Begin(c, [op |-> "delete_channel", id |-> i])
        \/ \E i \in AbiIds : Begin(c, [op |-> "delete_abi", id |-> i])
        \/ \E i \in SubIds : Begin(c, [op |-> "delete_sub", id |-> i])
    BY <1>10, <1>b DEF DeleteChain, DeleteChannel, DeleteAbi, DeleteSubscription
  <2>2. /\ \A i \in ChainIds : Sound([op |-> "delete_chain", id |-> i])
        /\ \A i \in ChannelIds : Sound([op |-> "delete_channel", id |-> i])
        /\ \A i \in AbiIds : Sound([op |-> "delete_abi", id |-> i])
        /\ \A i \in SubIds : Sound([op |-> "delete_sub", id |-> i])
    BY DEF Sound
  <2> QED  BY <1>a, <2>1, <2>2
<1>11. ASSUME NEW c \in Clients, Refuse(c)
       PROVE  /\ UNCHANGED <<engine, db, version, taken, reused, load>> /\ ReadTypes'
              /\ request' = [request EXCEPT ![c] = None]
  BY <1>0, <1>11 DEF Refuse, ReadTypes
<1>12. ASSUME Loader PROVE UNCHANGED <<engine, db, bumps, request>>
  BY <1>12 DEF Loader, ReadVersion, ReadChains, ReadAbis, ReadSubs, ReadChannels, LoadDone, Reload
<1>13. ASSUME NEW c \in Clients, Handler(c)
       PROVE  TakenIn \/ ReadForBump(c) \/ Commit(c) \/ Refuse(c)
  BY <1>13, <1>1, <1>2, <1>3, <1>4, <1>5, <1>6, <1>7, <1>8, <1>9, <1>10 DEF Handler, FetchIdl
<1>14. Loader \/ (\E c \in Clients : Handler(c)) \/ UNCHANGED vars
  BY DEF Next
<1>15. ASSUME UNCHANGED vars \/ \E c \in Clients : ReadForBump(c)
       PROVE  UNCHANGED <<engine, db, version, taken, reused, request, load>> /\ ReadTypes'
  BY <1>0, <1>15 DEF vars, ReadForBump, ReadTypes
<1> QED  BY <1>11, <1>12, <1>13, <1>14, <1>15 DEF TakenIn

(* A commit writes one more than what its bump read. *)
LEMMA BumpTypes ==
  ASSUME version \in Nat, ReadTypes, NEW c \in Clients, Commit(c)
  PROVE  version' \in Nat /\ ReadTypes'
<1>1. read[c] \in Nat /\ version' = read[c] + 1 /\ read' = [read EXCEPT ![c] = NotRead]
  BY DEF ReadTypes, Commit, Bump
<1> QED  BY <1>1 DEF ReadTypes

(* Types, and the foreign keys when the engine enforces them. *)
KeysInv == ApiTypes /\ (ForeignKeys => Valid(db))

(* KeysInv is inductive. *)
LEMMA KeysStep == KeysInv /\ [Next]_vars => KeysInv'
<1> SUFFICES ASSUME KeysInv, [Next]_vars PROVE KeysInv'
  OBVIOUS
<1>0. ApiTypes
  BY DEF KeysInv
<1>1. ASSUME UNCHANGED <<engine, db, version>>, ReadTypes', NEW c \in Clients, NEW r,
             r # None => Sound(r), request' = [request EXCEPT ![c] = r]
      PROVE  KeysInv'
  BY <1>1 DEF KeysInv, ApiTypes, ForeignKeys, Valid
<1>2. ASSUME NEW c \in Clients, Commit(c) PROVE KeysInv'
  <2> DEFINE r == request[c]
  <2>1. /\ Sound(r) /\ ~Refused(db, r) /\ db' = Written(db, r) /\ engine' = engine
        /\ request' = [request EXCEPT ![c] = None]
    BY <1>0, <1>2 DEF Commit, ApiTypes
  <2>6. version' \in Nat /\ ReadTypes'
    BY <1>0, <1>2, BumpTypes DEF ApiTypes
  <2>2. db \in Db
    BY <1>0 DEF ApiTypes
  <2> HIDE DEF r
  <2>3. db' \in Db /\ (ForeignKeys /\ Valid(db) => Valid(db'))
    BY <2>1, <2>2, WrittenKeeps
  <2>4. ApiTypes'
    BY <1>0, <2>1, <2>3, <2>6 DEF ApiTypes
  <2>5. ForeignKeys' => Valid(db')
    BY <2>1, <2>3 DEF KeysInv, ForeignKeys
  <2> QED  BY <2>4, <2>5 DEF KeysInv
<1>3. ASSUME UNCHANGED <<engine, db, version, request>>, ReadTypes' PROVE KeysInv'
  BY <1>3 DEF KeysInv, ApiTypes, ForeignKeys, Valid
<1>4. UNCHANGED bumps => UNCHANGED version /\ ReadTypes'
  BY <1>0 DEF bumps, ApiTypes, ReadTypes
<1> QED  BY <1>0, <1>1, <1>2, <1>3, <1>4, Steps

(* KeysInv holds of empty tables. *)
LEMMA KeysInit == Init => KeysInv
BY DEF Init, KeysInv, ApiTypes, ReadTypes, Db, Valid, ForeignKeys

(* With PostgreSQL no subscription outlives its chain or keeps a deleted   *)
(* ABI, and no binding outlives its subscription or channel, whatever      *)
(* requests are handled at the same time and whatever was deleted between  *)
(* a handler's lookups and its write.                                      *)
THEOREM ReferencesCorrect == Spec => []ReferencesValid
<1>1. KeysInv => ReferencesValid
  BY DbFields DEF KeysInv, ApiTypes, Valid, ReferencesValid, Rows
<1> QED  BY KeysInit, KeysStep, <1>1, PTL DEF Spec
-----------------------------------------------------------------------------
(* The subscriptions load_snapshot asks the channels of, and the answer    *)
(* the tables give for those in S.                                         *)
Asked == {i \in SubIds : db.subs[i] # None /\ db.subs[i].enabled}

BoundOf(S) ==
  {<<b[1], b[2], db.channels[b[2]]>> :
     b \in {x \in db.bindings : db.channels[x[2]] # None /\ x[1] \in S}}

(* What the loader may have read so far. *)
Load ==
  [at : {"idle", "chains", "abis", "subs", "channels", "done"}, version : Nat,
   chains : SUBSET (ChainIds \X Chain), abis : SUBSET AbiIds, subs : SUBSET (SubIds \X Sub),
   todo : SUBSET SubIds, bound : SUBSET (SubIds \X ChannelIds \X Channel)]

(* A load that started at the committed version, which was committed only  *)
(* once, has missed no write, so each statement's result is what the       *)
(* tables say now.                                                         *)
Current ==
  /\ load.at \in {"abis", "subs", "channels", "done"} => load.chains = Enabled(db.chains)
  /\ load.at \in {"subs", "channels", "done"} => load.abis = db.abis
  /\ load.at \in {"channels", "done"} =>
       /\ load.subs = Enabled(db.subs)
       /\ load.todo \subseteq Asked /\ load.bound = BoundOf(Asked \ load.todo)

LoadInv ==
  /\ ApiTypes
  /\ load \in Load
  /\ 0 \in taken /\ version \in taken /\ load.version \in taken
  /\ load.at \in {"chains", "abis", "subs"} => load.bound = {}
  /\ load.at = "done" => load.todo = {}
  /\ load.version = version /\ version \notin reused => Current

(* The result of a statement: enabled rows with their keys. *)
LEMMA EnabledRows ==
  ASSUME NEW d \in Db
  PROVE  /\ Enabled(d.chains) \subseteq ChainIds \X Chain
         /\ Enabled(d.subs) \subseteq SubIds \X Sub
         /\ {s[1] : s \in Enabled(d.subs)} = {i \in SubIds : d.subs[i] # None /\ d.subs[i].enabled}
<1>1. Enabled(d.chains) \subseteq ChainIds \X Chain
  BY DbFields DEF Enabled, Rows
<1>2. Enabled(d.subs) \subseteq SubIds \X Sub
  BY DbFields DEF Enabled, Rows
<1>3. {s[1] : s \in Enabled(d.subs)} = {i \in SubIds : d.subs[i] # None /\ d.subs[i].enabled}
  <2>1. ASSUME NEW i \in SubIds, d.subs[i] # None, d.subs[i].enabled
        PROVE  i \in {s[1] : s \in Enabled(d.subs)}
    <3> DEFINE e == <<i, d.subs[i]>>
    <3>1. e \in Enabled(d.subs)
      BY <2>1, DbFields DEF Enabled, Rows
    <3>2. e[1] = i
      OBVIOUS
    <3> HIDE DEF e
    <3> QED  BY <3>1, <3>2
  <2>2. ASSUME NEW s \in Enabled(d.subs)
        PROVE  s[1] \in {i \in SubIds : d.subs[i] # None /\ d.subs[i].enabled}
    <3>1. PICK i \in SubIds : s = <<i, d.subs[i]>> /\ d.subs[i] # None /\ d.subs[i].enabled
      BY DbFields DEF Enabled, Rows
    <3> QED  BY <3>1
  <2> QED  BY <2>1, <2>2
<1> QED  BY <1>1, <1>2, <1>3

(* The join for subscription i, added to what was asked before. *)
LEMMA JoinAdds ==
  ASSUME db \in Db, NEW S, NEW i \in SubIds
  PROVE  /\ BoundOf(S \cup {i}) =
              BoundOf(S) \cup {<<i, x, db.channels[x]>> :
                                 x \in {y \in Rows(db.channels) : <<i, y>> \in db.bindings}}
         /\ {<<i, x, db.channels[x]>> :
               x \in {y \in Rows(db.channels) : <<i, y>> \in db.bindings}}
              \subseteq SubIds \X ChannelIds \X Channel
<1> DEFINE J == {<<i, x, db.channels[x]>> :
                   x \in {y \in Rows(db.channels) : <<i, y>> \in db.bindings}}
<1>0. /\ db.bindings \subseteq SubIds \X ChannelIds
      /\ db.channels \in [ChannelIds -> Channel \cup {None}]
  BY DbFields
<1>1. ASSUME NEW e \in BoundOf(S \cup {i}) PROVE e \in BoundOf(S) \cup J
  <2>1. PICK b \in db.bindings : /\ e = <<b[1], b[2], db.channels[b[2]]>>
                                 /\ db.channels[b[2]] # None /\ b[1] \in S \cup {i}
    BY DEF BoundOf
  <2>2. CASE b[1] \in S
    BY <2>1, <2>2 DEF BoundOf
  <2>3. CASE b[1] = i
    <3>1. b = <<i, b[2]>> /\ b[2] \in ChannelIds
      BY <1>0, <2>3
    <3>2. b[2] \in Rows(db.channels)
      BY <1>0, <2>1, <3>1 DEF Rows
    <3> QED  BY <2>1, <2>3, <3>1, <3>2
  <2> QED  BY <2>1, <2>2, <2>3
<1>2. ASSUME NEW e \in BoundOf(S) PROVE e \in BoundOf(S \cup {i})
  BY DEF BoundOf
<1>3. ASSUME NEW e \in J PROVE e \in BoundOf(S \cup {i}) /\ e \in SubIds \X ChannelIds \X Channel
  <2>1. PICK x \in Rows(db.channels) : e = <<i, x, db.channels[x]>> /\ <<i, x>> \in db.bindings
    OBVIOUS
  <2>2. x \in ChannelIds /\ db.channels[x] # None
    BY <1>0 DEF Rows
  <2>3. db.channels[x] \in Channel
    BY <1>0, <2>2
  <2>4. e \in SubIds \X ChannelIds \X Channel
    BY <2>1, <2>2, <2>3
  <2> DEFINE b == <<i, x>>
  <2>5. b[1] = i /\ b[2] = x /\ b \in db.bindings
    BY <2>1
  <2> HIDE DEF b
  <2>6. e = <<b[1], b[2], db.channels[b[2]]>> /\ db.channels[b[2]] # None /\ b[1] \in S \cup {i}
    BY <2>1, <2>2, <2>5
  <2> QED  BY <2>4, <2>5, <2>6 DEF BoundOf
<1> QED  BY <1>1, <1>2, <1>3

(* Each statement of load_snapshot keeps LoadInv. *)
LEMMA LoaderStep ==
  ASSUME LoadInv, Loader, UNCHANGED <<engine, db, bumps, request>>
  PROVE  LoadInv'
<1> USE DEF bumps
<1>0. /\ ApiTypes /\ db \in Db /\ version \in Nat /\ load \in Load /\ load.version \in Nat
      /\ 0 \in taken /\ version \in taken /\ load.version \in taken
  BY DEF LoadInv, ApiTypes, Load
<1>1. ApiTypes'
  BY <1>0 DEF ApiTypes, ReadTypes
<1>2. \A S : BoundOf(S)' = BoundOf(S)
  BY DEF BoundOf
<1>3. Asked' = Asked
  BY DEF Asked
<1>4. CASE ReadVersion
  <2>1. load' = [at |-> "chains", version |-> version, chains |-> {}, abis |-> {}, subs |-> {},
                 todo |-> {}, bound |-> {}]
    BY <1>4 DEF ReadVersion, NoLoad
  <2>2. /\ load' \in Load /\ load'.at = "chains" /\ load'.version = version /\ load'.bound = {}
    BY <1>0, <2>1 DEF Load
  <2> QED  BY <1>0, <1>1, <2>2 DEF LoadInv, Current
<1>5. CASE ReadChains
  <2> DEFINE x == Enabled(db.chains)
  <2>1. load' = [load EXCEPT !.at = "abis", !.chains = x] /\ load.at = "chains"
    BY <1>5 DEF ReadChains
  <2>2. x \in SUBSET (ChainIds \X Chain)
    BY <1>0, EnabledRows
  <2> HIDE DEF x
  <2>3. /\ load' \in Load /\ load'.at = "abis" /\ load'.version = load.version
        /\ load'.chains = x /\ load'.bound = load.bound
    BY <1>0, <2>1, <2>2 DEF Load
  <2> QED  BY <1>0, <1>1, <2>1, <2>3 DEF LoadInv, Current, x
<1>6. CASE ReadAbis
  <2> DEFINE x == db.abis
  <2>1. load' = [load EXCEPT !.at = "subs", !.abis = x] /\ load.at = "abis"
    BY <1>6 DEF ReadAbis
  <2>2. x \in SUBSET AbiIds
    BY <1>0, DbFields
  <2> HIDE DEF x
  <2>3. /\ load' \in Load /\ load'.at = "subs" /\ load'.version = load.version
        /\ load'.chains = load.chains /\ load'.abis = x /\ load'.bound = load.bound
    BY <1>0, <2>1, <2>2 DEF Load
  <2> QED  BY <1>0, <1>1, <2>1, <2>3 DEF LoadInv, Current, x
<1>7. CASE ReadSubs
  <2> DEFINE x == Enabled(db.subs)
             y == {s[1] : s \in Enabled(db.subs)}
  <2>1. load' = [load EXCEPT !.at = "channels", !.subs = x, !.todo = y] /\ load.at = "subs"
    BY <1>7 DEF ReadSubs
  <2>2. x \in SUBSET (SubIds \X Sub) /\ y = Asked
    BY <1>0, EnabledRows DEF Asked
  <2>3. y \in SUBSET SubIds
    BY <2>2 DEF Asked
  <2> HIDE DEF x, y
  <2>4. /\ load' \in Load /\ load'.at = "channels" /\ load'.version = load.version
        /\ load'.chains = load.chains /\ load'.abis = load.abis /\ load'.bound = load.bound
        /\ load'.subs = x /\ load'.todo = y
    BY <1>0, <2>1, <2>2, <2>3 DEF Load
  <2>5. BoundOf(Asked \ y) = {}
    BY <2>2 DEF BoundOf
  <2>6. load.bound = {}
    BY <2>1 DEF LoadInv
  <2>7. ASSUME load.version = version, version \notin reused PROVE Current'
    <3>1. load.chains = Enabled(db.chains) /\ load.abis = db.abis
      BY <2>1, <2>7 DEF LoadInv, Current
    <3>2. load'.todo \subseteq Asked /\ load'.bound = BoundOf(Asked \ load'.todo)
      BY <2>2, <2>4, <2>5, <2>6
    <3> QED  BY <1>2, <1>3, <2>4, <3>1, <3>2 DEF Current, x
  <2> QED  BY <1>0, <1>1, <2>4, <2>7 DEF LoadInv
<1>8. ASSUME NEW i \in SubIds, ReadChannels(i) PROVE LoadInv'
  <2> DEFINE J == {<<i, x, db.channels[x]>> :
                     x \in {y \in Rows(db.channels) : <<i, y>> \in db.bindings}}
             t == load.todo \ {i}
             o == load.bound \cup J
  <2>1. load' = [load EXCEPT !.todo = t, !.bound = o] /\ load.at = "channels" /\ i \in load.todo
    BY <1>8 DEF ReadChannels
  <2>2. J \subseteq SubIds \X ChannelIds \X Channel
    BY <1>0, JoinAdds
  <2>3. BoundOf((Asked \ load.todo) \cup {i}) = BoundOf(Asked \ load.todo) \cup J
    BY <1>0, JoinAdds
  <2> HIDE DEF J
  <2>4. t \in SUBSET SubIds /\ o \in SUBSET (SubIds \X ChannelIds \X Channel)
    BY <1>0, <2>2 DEF Load
  <2>5. \A S : (i \in S => (S \ load.todo) \cup {i} = S \ t)
    BY <2>1
  <2>6. i \in load.todo /\ t \subseteq load.todo
    BY <2>1
  <2> HIDE DEF t, o
  <2>7. /\ load' \in Load /\ load'.at = "channels" /\ load'.version = load.version
        /\ load'.chains = load.chains /\ load'.abis = load.abis /\ load'.bound = o
        /\ load'.subs = load.subs /\ load'.todo = t
    BY <1>0, <2>1, <2>4 DEF Load
  <2>8. ASSUME load.version = version, version \notin reused PROVE Current'
    <3>1. /\ load.chains = Enabled(db.chains) /\ load.abis = db.abis
          /\ load.subs = Enabled(db.subs) /\ load.todo \subseteq Asked
          /\ load.bound = BoundOf(Asked \ load.todo)
      BY <2>1, <2>8 DEF LoadInv, Current
    <3>2. (Asked \ load.todo) \cup {i} = Asked \ t
      BY <2>5, <2>6, <3>1
    <3>3. o = BoundOf(Asked \ t)
      BY <2>3, <3>1, <3>2 DEF o
    <3>4. t \subseteq Asked
      BY <2>6, <3>1
    <3> QED  BY <1>2, <1>3, <2>7, <3>1, <3>3, <3>4 DEF Current
  <2> QED  BY <1>0, <1>1, <2>7, <2>8 DEF LoadInv
<1>9. CASE LoadDone
  <2>1. load' = [load EXCEPT !.at = "done"] /\ load.at = "channels" /\ load.todo = {}
    BY <1>9 DEF LoadDone
  <2>2. /\ load' \in Load /\ load'.at = "done" /\ load'.version = load.version
        /\ load'.chains = load.chains /\ load'.abis = load.abis /\ load'.bound = load.bound
        /\ load'.subs = load.subs /\ load'.todo = load.todo
    BY <1>0, <2>1 DEF Load
  <2>3. load'.version = version /\ version \notin reused => Current'
    BY <1>2, <1>3, <2>1, <2>2 DEF LoadInv, Current
  <2> QED  BY <1>0, <1>1, <2>1, <2>2, <2>3 DEF LoadInv
<1>10. CASE Reload
  <2>1. load' = [at |-> "idle", version |-> 0, chains |-> {}, abis |-> {}, subs |-> {},
                 todo |-> {}, bound |-> {}]
    BY <1>10 DEF Reload, NoLoad
  <2>2. load' \in Load /\ load'.at = "idle" /\ load'.version = 0
    BY <2>1 DEF Load
  <2> QED  BY <1>0, <1>1, <2>2 DEF LoadInv, Current
<1> QED  BY <1>4, <1>5, <1>6, <1>7, <1>8, <1>9, <1>10 DEF Loader

(* LoadInv is inductive: a write makes the version another than that of    *)
(* any load that started before it, or one that was committed before.      *)
LEMMA LoadStep == LoadInv /\ [Next]_vars => LoadInv'
<1> SUFFICES ASSUME LoadInv, [Next]_vars PROVE LoadInv'
  OBVIOUS
<1>0. ApiTypes /\ load \in Load /\ load.version \in Nat /\ version \in Nat /\ ReadTypes
  BY DEF LoadInv, ApiTypes, Load
<1>1. ASSUME UNCHANGED <<db, version, taken, reused, load>>, ApiTypes' PROVE LoadInv'
  BY <1>1 DEF LoadInv, Current, BoundOf, Asked
<1>2. ASSUME NEW c \in Clients, Commit(c), ApiTypes' PROVE LoadInv'
  <2>1. /\ taken' = taken \cup {version'} /\ load' = load
        /\ version' \in taken => version' \in reused'
    BY <1>2 DEF Commit
  <2>2. ~(load'.version = version' /\ version' \notin reused')
    BY <2>1 DEF LoadInv
  <2> QED  BY <1>2, <2>1, <2>2 DEF LoadInv
<1>3. ApiTypes'
  <2>1. ASSUME UNCHANGED <<db, version>>, ReadTypes', NEW c \in Clients, NEW r,
               r # None => Sound(r), request' = [request EXCEPT ![c] = r]
        PROVE  ApiTypes'
    BY <1>0, <2>1 DEF ApiTypes
  <2>2. ASSUME NEW c \in Clients, Commit(c) PROVE ApiTypes'
    <3> DEFINE r == request[c]
    <3>1. /\ Sound(r) /\ ~Refused(db, r) /\ db' = Written(db, r)
          /\ request' = [request EXCEPT ![c] = None]
      BY <1>0, <2>2 DEF Commit, ApiTypes
    <3>4. version' \in Nat /\ ReadTypes'
      BY <1>0, <2>2, BumpTypes
    <3>2. db \in Db
      BY <1>0 DEF ApiTypes
    <3> HIDE DEF r
    <3>3. db' \in Db
      BY <3>1, <3>2, WrittenKeeps
    <3> QED  BY <1>0, <3>1, <3>3, <3>4 DEF ApiTypes
  <2>3. ASSUME UNCHANGED <<db, version, request>>, ReadTypes' PROVE ApiTypes'
    BY <1>0, <2>3 DEF ApiTypes
  <2>4. UNCHANGED bumps => UNCHANGED version /\ ReadTypes'
    BY <1>0 DEF bumps, ReadTypes
  <2> QED  BY <1>0, <2>1, <2>2, <2>3, <2>4, Steps
<1>4. ASSUME Loader, UNCHANGED <<engine, db, bumps, request>> PROVE LoadInv'
  BY <1>4, LoaderStep
<1> QED  BY <1>0, <1>1, <1>2, <1>3, <1>4, Steps

(* A finished load that carries the committed version is exactly what the  *)
(* tables say, although its statements run one by one among the writes of  *)
(* any number of clients: a mixed snapshot is recognised by its version,   *)
(* unless two clients' bumps made that version twice.                      *)
THEOREM SnapshotCorrect == Spec => []CurrentSnapshotIsExact
<1>1. Init => LoadInv
  <2> SUFFICES ASSUME Init PROVE LoadInv
    OBVIOUS
  <2>1. ApiTypes
    BY KeysInit DEF KeysInv
  <2>2. load = [at |-> "idle", version |-> 0, chains |-> {}, abis |-> {}, subs |-> {},
                todo |-> {}, bound |-> {}] /\ version = 0 /\ taken = {0}
    BY DEF Init, NoLoad
  <2>3. load \in Load /\ load.at = "idle" /\ load.version = 0
    BY <2>2 DEF Load
  <2> QED  BY <2>1, <2>2, <2>3 DEF LoadInv, Current
<1>2. LoadInv => CurrentSnapshotIsExact
  <2> SUFFICES ASSUME LoadInv, load.at = "done", load.version = version, version \notin reused
               PROVE  Loaded(load) = Meaning
    BY DEF CurrentSnapshotIsExact
  <2>1. /\ load.chains = Enabled(db.chains) /\ load.abis = db.abis /\ load.subs = Enabled(db.subs)
        /\ load.bound = BoundOf(Asked)
    BY DEF LoadInv, Current
  <2> DEFINE o == {<<b[1], b[2], db.channels[b[2]]>> :
                     b \in {x \in db.bindings : db.channels[x[2]] # None
                                                /\ db.subs[x[1]] # None /\ db.subs[x[1]].enabled}}
             l == [NoLoad EXCEPT !.chains = Enabled(db.chains), !.abis = db.abis,
                                 !.subs = Enabled(db.subs), !.bound = o]
  <2>2. o = BoundOf(Asked)
    <3>1. \A b \in db.bindings : b[1] \in SubIds
      BY DbFields DEF LoadInv, ApiTypes
    <3> QED  BY <3>1 DEF BoundOf, Asked
  <2>3. Meaning = Loaded(l)
    BY DEF Meaning
  <2> HIDE DEF o
  <2>4. /\ l.chains = Enabled(db.chains) /\ l.abis = db.abis /\ l.subs = Enabled(db.subs)
        /\ l.bound = o
    BY DEF NoLoad
  <2> HIDE DEF l
  <2> QED  BY <2>1, <2>2, <2>3, <2>4 DEF Loaded
<1> QED  BY LoadStep, <1>1, <1>2, PTL DEF Spec
=============================================================================
