----------------------------- MODULE MCHotStuff -----------------------------
(* Instances of one lane.  With four validators the fourth is faulty; laneID *)
(* decides which views it leads.                                             *)
EXTENDS HotStuff
=============================================================================
