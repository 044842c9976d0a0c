--------------------------- MODULE MCEpochPipeline --------------------------
(* Two instances that share two agents, of seven agents and of six; five   *)
(* commits in two epochs.  The shared agents, which come under suspicion,  *)
(* are interchangeable.                                                    *)
EXTENDS EpochPipeline, TLC

CONSTANTS a, b

MCFaults == <<2, 1>>
MCAgents == <<{a, b, 3, 4, 5, 6, 7}, {a, b, 13, 14, 15, 16}>>
MCSymmetry == Permutations({a, b})
Commit(i, h, r, e) == [inst |-> i, height |-> h, rank |-> r, epoch |-> e]
MCCommits == {Commit(1, 1, 1, 0), Commit(2, 1, 0, 0), Commit(2, 2, 1, 0),
              Commit(1, 2, 2, 1), Commit(2, 3, 2, 1)}
=============================================================================
