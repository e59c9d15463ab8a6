------------------------------ MODULE MCBgpFsm ------------------------------
(* Instances of BgpFsm for TLC.                                              *)
EXTENDS BgpFsm

CONSTANTS conf, a1, a2

OneAccept == {a1}
TwoAccepts == {a1, a2}
TwoFds == 1..2
ThreeFds == 1..3

Msg(id, gr) == [type |-> "OPEN", as |-> TRUE, id |-> id, hold |-> 9,
                valid |-> TRUE, gr |-> gr]
(* With LocalId = 1: the neighbour's identifier is the larger one.           *)
Higher == {Msg(2, FALSE), Msg(2, TRUE),
           [Msg(2, FALSE) EXCEPT !.as = FALSE],
           [Msg(2, FALSE) EXCEPT !.valid = FALSE],
           [Msg(2, FALSE) EXCEPT !.hold = 0]}
(* With LocalId = 2: smaller, equal to ours, larger.                         *)
ThreeIds == {Msg(1, FALSE), Msg(2, FALSE), Msg(3, TRUE)}
Lower == {Msg(1, FALSE)}
=============================================================================
