---------------------------- MODULE MCZebraServ ----------------------------
(* Instances of ZebraServ.                                                   *)
EXTENDS ZebraServ, SequencesExt

OneDaemon == {"rip"}

(* The order of the route types is that of their numbers in the code: one     *)
(* fixed order for every set of them.                                        *)
OneOrder == [S \in SUBSET Type |-> SetToSeq(S)]
=============================================================================
