--------------------------- MODULE MCNodePipeline --------------------------
(* A pool of two places and three bytes: two transactions that fill it and *)
(* one that never fits.                                                    *)
EXTENDS NodePipeline

CONSTANTS small, large, huge

MCTxs == {small, large, huge}
MCSize == [tx \in Txs |-> IF tx = huge THEN 4 ELSE IF tx = large THEN 2 ELSE 1]
=============================================================================
