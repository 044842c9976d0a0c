------------------------- MODULE MCOrdererReplicas -------------------------
(* Two nodes, two lanes, ranks 2 and 3; the lanes agree on their blocks.   *)
EXTENDS OrdererReplicas

CONSTANTS b1

MCBlocks == {b1}
MCOutputs == {[instance |-> i, height |-> 1, rank |-> 2 + i, block |-> b1] : i \in 0..1}
=============================================================================
