--------------------------- MODULE BeaconDecisions --------------------------
(***************************************************************************)
(* What the Global Beacon Chain promises, without saying how: at most one  *)
(* entry of a height is ever decided, entries are decided one at a time    *)
(* and for good, and whatever a primary takes for decided was decided and  *)
(* stays so.  Primaries may learn of decisions late and in any order, and  *)
(* need not learn of all.                                                  *)
(***************************************************************************)
CONSTANTS Primaries, Heights, Payloads

VARIABLES
    decided,   \* the entries decided so far
    learned    \* those each primary holds for decided

bdvars == <<decided, learned>>

Init ==
    /\ decided = {}
    /\ learned = [n \in Primaries |-> {}]

Decide(h, p) ==
    /\ \A x \in decided : x.height # h
    /\ decided' = decided \cup {[height |-> h, payload |-> p]}

Learn ==
    /\ \A n \in Primaries : learned[n] \subseteq learned'[n]
    /\ learned' \in [Primaries -> SUBSET decided']

Next ==
    /\ \/ UNCHANGED decided
       \/ \E h \in Heights, p \in Payloads : Decide(h, p)
    /\ Learn

Spec == Init /\ [][Next]_bdvars
=============================================================================
