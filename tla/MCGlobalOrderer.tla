-------------------------- MODULE MCGlobalOrderer --------------------------
(* GlobalOrderer with two lanes and heights 1 and 2, that is ranks 2..5.   *)
EXTENDS GlobalOrderer

CONSTANTS b1, b2

MCBlocks == {b1, b2}

Out(i, h, b) == [instance |-> i, height |-> h, rank |-> 2 * h + i, block |-> b]

\* Two lanes commit heights 1 and 2; lane 0 may report height 1 twice with
\* different blocks; and one output whose lane does not match its rank.
MCOutputs ==
    {Out(i, h, b1) : i \in 0..1, h \in 1..2} \cup
    {Out(0, 1, b2), [instance |-> 1, height |-> 2, rank |-> 4, block |-> b2]}
=============================================================================
