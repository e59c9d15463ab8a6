----------------------------- MODULE MCZebraRib -----------------------------
(* Instances of ZebraRib: a default route D, a connected net N and a remote  *)
(* net S that the table visits before N; gateway gN lies in N, gS in S.      *)
EXTENDS ZebraRib

MCPrefix == {"D", "N", "S"}
MCOrder == <<"D", "S", "N">>
MCGate == {"gN", "gN2", "gS"}
MCPath == [g \in MCGate |-> IF g = "gS" THEN <<"S", "D">> ELSE <<"N", "D">>]
Via(g) == [kind |-> "gate", to |-> g]
Dev(i) == [kind |-> "ifname", to |-> i]
Net(n) == [net |-> "N", id |-> n]
MCAddr == {Net(1), Net(2)}
Route(t, p, hs) == [type |-> t, p |-> p, hops |-> hs, internal |-> FALSE,
                    ibgp |-> FALSE, dist |-> 0]
Internal(t, p, hs) == [Route(t, p, hs) EXCEPT !.internal = TRUE, !.ibgp = TRUE]
Static(p, h, d) == [p |-> p, hop |-> h, dist |-> d]
Boot(p, g, self) == [p |-> p, g |-> g, self |-> self]


NoEnv == [iface |-> {"e1"}, addr |-> {Net(1)}, announce |-> {}, static |-> {},
          kernel |-> {}, boot |-> {}, redist |-> {}, admin |-> FALSE,
          refusal |-> {{}}, multipath |-> 1]
RefuseS == {{}, {"S"}}

\* Links, addresses and static routes
IfaceEnv ==
  [NoEnv EXCEPT !.iface = {"e1", "e2"}, !.addr = {Net(1), Net(2)}, !.refusal = RefuseS,
     !.static = {Static("S", Via("gN"), 1), Static("S", Dev("e1"), 1),
                 Static("S", Via("gN"), 5), Static("D", Via("gN"), 1)}]

\* Routes of daemons, recursion and redistribution
ProtoEnv ==
  [NoEnv EXCEPT !.refusal = RefuseS, !.multipath = 0, !.redist = {"OSPF", "BGP"},
     !.announce = {Route("OSPF", "S", <<Via("gN")>>),
                   Route("OSPF", "S", <<Via("gN"), Via("gN2")>>),
                   Internal("BGP", "D", <<Via("gS")>>), Route("BGP", "S", <<Via("gN2")>>)},
     !.static = {Static("S", Via("gN"), 115), Static("D", Null0, 255)}]

\* Kernel routes and deletion of zebra's routes
KernelEnv ==
  [NoEnv EXCEPT !.refusal = RefuseS, !.multipath = 0, !.redist = {"OSPF", "default"},
     !.admin = TRUE, !.kernel = [p : {"D", "N"}, g : {"gN"}],
     !.boot = {Boot("S", "gN", TRUE)},
     !.announce = {Route("OSPF", "S", <<Via("gN")>>),
                   Route("BGP", "S", <<Via("gN2"), Via("gN")>>)},
     !.static = {Static("D", Via("gN"), 1), Static("D", Null0, 5)}]

AllEnv == {IfaceEnv, ProtoEnv, KernelEnv}

=============================================================================
