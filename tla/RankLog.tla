------------------------------ MODULE RankLog ------------------------------
(***************************************************************************)
(* What the global orderer promises its consumer, without saying how: one  *)
(* decision per rank, taken in rank order with no gap, each decision being *)
(* either a block that some lane committed at that rank or the nil entry;  *)
(* decisions are never revised, and they are handed to the consumer in     *)
(* order, exactly once, at most Window of them running ahead of it.        *)
(***************************************************************************)
EXTENDS Naturals, Sequences

CONSTANTS FirstRank,   \* the rank of the first decision
          Window,      \* how many decisions the consumer may lag behind
          Choices(_)   \* Choices(r): the entries that may be decided at rank r

VARIABLES decided, delivered

rlvars == <<decided, delivered>>

Init ==
    /\ decided = <<>>
    /\ delivered = <<>>

Decide ==
    /\ Len(decided) - Len(delivered) < Window
    /\ \E e \in Choices(FirstRank + Len(decided)) : decided' = Append(decided, e)
    /\ UNCHANGED delivered

Deliver ==
    /\ Len(delivered) < Len(decided)
    /\ delivered' = Append(delivered, decided[Len(delivered) + 1])
    /\ UNCHANGED decided

Next == Decide \/ Deliver

Spec == Init /\ [][Next]_rlvars
=============================================================================
