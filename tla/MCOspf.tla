-------------------------------- MODULE MCOspf ------------------------------
(***************************************************************************)
(* Instances of Ospf: two routers on a link, three on a line, three on a   *)
(* broadcast network, before anything is up or fully adjacent, and in each *)
(* one kind of fault or change, or two.                                    *)
(***************************************************************************)
EXTENDS Ospf

Budget == [mute |-> FALSE, calm |-> FALSE, loss |-> 0, spare |-> 0, early |-> 0, down |-> 0, dead |-> 0, restart |-> 0,
           add |-> 0, del |-> 0]
Link(type, on) == [type |-> type, on |-> on]
World(links, pri, full, budget) ==
    [links |-> links, pri |-> pri, full |-> full, ext |-> [r \in DOMAIN pri |-> <<>>], env |-> budget]
Pair(type, full, budget) == World(1 :> Link(type, {1, 2}), <<1, 1>>, full, budget)
Line(full, budget) ==
    World(1 :> Link("ptop", {1, 2}) @@ 2 :> Link("ptop", {2, 3}), <<1, 1, 1>>, full, budget)
Lan(pri, full, budget) == World(1 :> Link("broadcast", DOMAIN pri), pri, full, budget)
(* Router 1 announces a route already.                                     *)
Announcing(w) == [w EXCEPT !.ext = [r \in DOMAIN w.pri |-> IF r = 1 THEN <<1>> ELSE <<>>]]

MCWorlds ==
    {Pair("ptop", FALSE, [Budget EXCEPT !.loss = 1]),
     Pair("ptop", TRUE, [Budget EXCEPT !.restart = 1]),
     Pair("ptop", TRUE, [Budget EXCEPT !.add = 1, !.early = 1]),
     Pair("broadcast", TRUE, [Budget EXCEPT !.calm = TRUE, !.dead = 1]),
     Line(TRUE, [Budget EXCEPT !.add = 1, !.loss = 1, !.spare = 1]),
     Announcing(Line(TRUE, [Budget EXCEPT !.del = 1, !.loss = 1])),
     Lan(<<1, 1, 1>>, TRUE, [Budget EXCEPT !.add = 1]),
     Lan(<<1, 1, 1>>, TRUE, [Budget EXCEPT !.mute = TRUE, !.down = 1])}
=============================================================================
