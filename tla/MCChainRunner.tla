----------------------------- MODULE MCChainRunner -----------------------------
(* Instance: a trunk and one fork; the fork can overtake the trunk. *)
EXTENDS ChainRunner

CONSTANTS
  TopHeight,   \* height of the longest branch
  ForkHeight   \* lowest height of the fork "b"

MCHeaders == {h \in (0..TopHeight) \X {"a", "b"} : h[2] = "a" \/ h[1] >= ForkHeight}

MCNumber == [h \in MCHeaders |-> h[1]]

MCParent ==
  [h \in MCHeaders |->
     CASE h[1] = 0 -> NoHeader
       [] h[1] = ForkHeight -> <<h[1] - 1, "a">>
       [] OTHER -> <<h[1] - 1, h[2]>>]

Trunk(n) == <<n, "a">>
MCGenesis == Trunk(0)
MCFirstTip == Trunk(3)

(* An EVM chain without an rpc_ws: its heads are polled. *)
PolledSpec == RunSpec /\ kind = "evm" /\ ~feed.ws
=============================================================================
