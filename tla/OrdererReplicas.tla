-------------------------- MODULE OrdererReplicas --------------------------
(***************************************************************************)
(* Two honest nodes, each with its own GlobalOrderer, fed by lanes that    *)
(* agree on every block (one output per rank).  Their barrier timers are   *)
(* local: main.go gives each node's orderer its own ticker and nothing     *)
(* exchanges the nil decisions.                                            *)
(***************************************************************************)
EXTENDS GlobalOrderer

VARIABLES nextRank2, pending2, missingSince2, log2, emitted2, nilled2, late2,
          dropped2, pc2, sending2, outChan2, stopCh2, delivered2, inputs2

Peer == INSTANCE GlobalOrderer WITH
    nextRank <- nextRank2, pending <- pending2, missingSince <- missingSince2,
    log <- log2, emitted <- emitted2, nilled <- nilled2, late <- late2,
    dropped <- dropped2, pc <- pc2, sending <- sending2, outChan <- outChan2,
    stopCh <- stopCh2, delivered <- delivered2, inputs <- inputs2

vars2 == <<nextRank2, pending2, missingSince2, log2, emitted2, nilled2, late2,
           dropped2, pc2, sending2, outChan2, stopCh2, delivered2, inputs2>>

ReplicaInit == Init /\ Peer!Init

ReplicaNext ==
    \/ Next /\ UNCHANGED vars2
    \/ Peer!Next /\ UNCHANGED vars

ReplicaSpec == ReplicaInit /\ [][ReplicaNext]_<<vars, vars2>>

\* "G2 (honest-primary agreement) relies on the deterministic rank-based
\* ordering in GlobalOrderer" (ARCHITECTURE.md:45): two honest nodes decide the
\* same entry at every rank both have decided.
ReplicasAgree ==
    \A i \in 1..Len(log) : i <= Len(log2) => log[i] = log2[i]
=============================================================================
