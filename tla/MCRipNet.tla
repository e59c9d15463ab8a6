------------------------------ MODULE MCRipNet ------------------------------
(***************************************************************************)
(* Three routers in a line, the destination at one end.  With split         *)
(* horizon one change of the topology and a lost datagram; without it one  *)
(* change, which makes the two others count to infinity.                    *)
(***************************************************************************)
EXTENDS RipNet

MCRouters == {"A", "B", "C"}
Line == {{"A", "B"}, {"B", "C"}}
World(split, cuts, loss) ==
    [cables |-> Line, links |-> Line, origin |-> TRUE, cuts |-> cuts, split |-> split,
     loss |-> loss]
MCWorlds == {World(TRUE, 1, 1), World(FALSE, 1, 0)}
=============================================================================
