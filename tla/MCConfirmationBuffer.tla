------------------------ MODULE MCConfirmationBuffer ------------------------
(* Instance: a trunk of heights 0..TopHeight with forks at two heights. *)
EXTENDS ConfirmationBuffer

CONSTANTS
  TopHeight,   \* height of the longest branch
  UnknownHash  \* the parent hash of the genesis header

Branches == {"a", "b", "c"}

(* Lowest height of each branch above the trunk "a". *)
ForkHeight == [a |-> 0, b |-> 2, c |-> 4]

ForkedFrom == [a |-> "a", b |-> "a", c |-> "b"]

MCHeaders == {h \in (0..TopHeight) \X Branches : h[1] >= ForkHeight[h[2]]}

MCNumber == [h \in MCHeaders |-> h[1]]

MCParent ==
  [h \in MCHeaders |->
     CASE h[1] = 0 -> UnknownHash
       [] h[1] > 0 /\ h[1] = ForkHeight[h[2]] -> <<h[1] - 1, ForkedFrom[h[2]]>>
       [] OTHER -> <<h[1] - 1, h[2]>>]
=============================================================================
