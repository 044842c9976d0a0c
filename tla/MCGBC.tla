------------------------------- MODULE MCGBC -------------------------------
(* Four primaries, the proposer of height 1 faulty, that of height 2 honest, *)
(* over a network that loses messages.  Payloads are interchangeable.        *)
EXTENDS GBC, TLC

PayloadSymmetry == Permutations(Payloads)
=============================================================================
