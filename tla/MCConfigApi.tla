----------------------------- MODULE MCConfigApi -----------------------------
(***************************************************************************)
(* Instance: the requests meet any tables that earlier requests can have   *)
(* left, one after the other, so that few of them suffice to interleave.   *)
(***************************************************************************)
EXTENDS ConfigApi, TLC

Earlier ==
  [chains : [ChainIds -> {None, [kind |-> "evm", commitment |-> FALSE, enabled |-> TRUE]}],
   abis : SUBSET AbiIds,
   channels : [ChannelIds -> {None} \cup {[type |-> t, config |-> t] : t \in Types}],
   subs : [SubIds -> {None} \cup {s \in Sub : s.enabled}],
   bindings : SUBSET (SubIds \X ChannelIds)]

EarlierRequests ==
  /\ engine \in {"postgresql", "sqlite"}
  /\ db \in Earlier
  /\ \A s \in Rows(db.subs) : /\ db.chains[db.subs[s].chain] # None
                              /\ db.subs[s].abi \in db.abis \cup {None}
  /\ \A b \in db.bindings : db.subs[b[1]] # None /\ db.channels[b[2]] # None
  /\ version = 0 /\ taken = {0} /\ reused = {}
  /\ read = [c \in Clients |-> NotRead]
  /\ issued = db.abis \cup Rows(db.channels) \cup Rows(db.subs)
  /\ request = [c \in Clients |-> None]
  /\ requests = 0
  /\ load = NoLoad

LaterSpec == EarlierRequests /\ [][Next]_vars

Symmetry == Permutations(Clients)
=============================================================================
