------------------------------ MODULE MCHydra ------------------------------
(* Four validators, the first of them faulty.  It votes and sends proofs   *)
(* whose honest votes may or may not exist.  The log may remove another    *)
(* node than the suspected one in the meantime, so that nodes number the   *)
(* candidate of the view and count its votes differently.                  *)
EXTENDS Hydra

MCConfigs == <<[id |-> 0, members |-> 1..4], [id |-> 2, members |-> 1..3]>>

MCFaultyMessages ==
    [type : {"vote"}, from : {1}, view : Views, leaves : {{2}}, id : {1}]
      \cup [type : {"commit"}, from : {1}, view : Views, leaves : {{2}}, id : {1}, voters : {{1, 3, 4}}]
      \cup [type : {"commit"}, from : {1}, view : Views, leaves : {{2}}, id : {0, 3}, voters : {{1, 2, 3}}]
=============================================================================
