---------------------------- MODULE MCBgpManage -----------------------------
(***************************************************************************)
(* Scenarios for BgpManage: AS 1 with the neighbours p1 and p2 and the     *)
(* group g.  Each one types the commands of one area in every order.       *)
(***************************************************************************)
EXTENDS BgpManage

MCCaps == {"refresh", "dynamic"}
MCPeers == <<"p1", "p2">>
MCGroups == <<"g">>

In(node, cs) == {[node |-> node, i |-> 1, c |-> c] : c \in cs}
Both(cs) == cs \cup {No(c) : c \in cs}
W(op, w) == C(op, w, <<>>, <<>>)
Router == <<C("router bgp", "", <<1>>, <<>>)>>
As(w, as) == C("remote-as", w, <<as>>, <<>>)
Define == <<W("define group", "g")>>
Bind(w) == C("peer-group", w, <<>>, <<"g">>)
Clears(fs, args, views, kws) ==
    {[f |-> f, arg |-> a, view |-> v, kw |-> k] : f \in fs, a \in args, v \in views, k \in kws}
Idle == [start |-> Router, cmds |-> {}, up |-> {}, clears |-> {}]

Globals == [Idle EXCEPT !.start = Router \o <<As("p1", 2), As("p2", 1)>>, !.up = {"p1", "p2"},
    !.cmds = In("bgp", Both({G("bgp router-id", <<7>>), G("bgp cluster-id", <<8>>),
                             G("bgp confederation identifier", <<9>>), G("bgp confederation peers", <<2>>)})
                       \cup {As("p1", 3), As("p1", 2), No(As("p2", 1)), As("p2", 1)})]
Flags == [Idle EXCEPT
    !.cmds = In("bgp", {G("bgp always-compare-med", <<>>), No(G("bgp fast-external-failover", <<>>)),
        G("bgp deterministic-med", <<>>), G("bgp graceful-restart", <<>>), G("bgp graceful-restart", <<120>>),
        No(G("bgp enforce-first-as", <<>>)), G("bgp compare-routerid", <<>>), G("bgp cost-community ignore", <<>>),
        G("bgp as-path ignore", <<>>), G("bgp log-neighbor-changes", <<>>),
        C("bgp bestpath med", "", <<>>, <<"med-confed">>), No(C("bgp bestpath med", "", <<>>, <<"med-confed">>))})]
Peer == [Idle EXCEPT !.start = Router \o <<As("p1", 2)>>, !.up = {"p1"},
    !.cmds = In("bgp", Both({W("shutdown", "p1"), W("dynamic", "p1"), C("local-as", "p1", <<5>>, <<"no-prepend">>),
                             C("password", "p1", <<>>, <<"x">>), C("multihop", "p1", <<4>>, <<>>),
                             C("update-source", "p1", <<>>, <<"if", "lo">>), C("timers", "p1", <<60, 30>>, <<>>),
                             C("adv-interval", "p1", <<1>>, <<>>)})
                       \cup {As("p1", 1), As("p1", 2), C("local-as", "p1", <<6>>, <<>>)})]
Family == [Idle EXCEPT !.start = Router \o <<As("p1", 2), As("p2", 1)>>, !.up = {"p1"},
    !.cmds = In("bgp", Both({C("route-map", "p1", <<>>, <<"out", "a">>),
                             C("distribute-list", "p1", <<>>, <<"in", "b">>),
                             C("prefix-list", "p1", <<>>, <<"in", "c">>), W("next-hop-self", "p1"),
                             C("maximum-prefix", "p1", <<9, 80, 2>>, <<>>), W("activate", "p1"),
                             W("soft-reconfig", "p1"), C("default-originate", "p1", <<>>, <<"d">>)})),
    !.clears = Clears({[sort |-> "as", stype |-> "both", af |-> "ipv4"]}, {"2"}, {""}, {TRUE})]
Values == [Idle EXCEPT !.start = Router \o <<As("p1", 2), As("p2", 1)>>, !.up = {"p2"},
    !.cmds = In("bgp", Both({C("weight", "p2", <<5>>, <<>>), C("allowas-in", "p2", <<2>>, <<>>),
                             C("allowas-in", "p2", <<>>, <<>>), W("rr-client", "p2"),
                             C("send-community", "p2", <<>>, <<"extended">>),
                             C("orf", "p2", <<>>, <<"both">>), C("orf", "p2", <<>>, <<"send">>),
                             C("unchanged", "p2", <<>>, <<>>), C("unchanged", "p2", <<>>, <<"med-unchanged">>)})),
    !.clears = Clears({[sort |-> "peer", stype |-> "none", af |-> "ipv4"]}, {"p2"}, {""}, {TRUE})]
Group == [Idle EXCEPT !.start = Router \o Define \o <<As("g", 2), Bind("p1"), Bind("p2")>>, !.up = {"p1"},
    !.cmds = In("bgp", Both({W("next-hop-self", "g"), C("route-map", "g", <<>>, <<"out", "a">>),
                             C("route-map", "g", <<>>, <<"in", "a">>), C("route-map", "p1", <<>>, <<"in", "b">>),
                             W("shutdown", "g"), W("shutdown", "p1"), C("timers", "g", <<60, 30>>, <<>>),
                             C("weight", "g", <<5>>, <<>>), W("remove-private-as", "g"), Bind("p1")})
                       \cup {W("next-hop-self", "p1"), C("route-map", "p1", <<>>, <<"out", "c">>)}),
    !.clears = Clears({[sort |-> "group", stype |-> "out", af |-> "ipv4"]}, {"g"}, {""}, {TRUE})]
Joining == [Idle EXCEPT !.start = Router \o Define \o <<As("p1", 2), As("p2", 1)>>, !.up = {"p1"},
    !.cmds = In("bgp", {Bind("p1"), Bind("p2"), No(Bind("p1")), As("g", 2), No(As("g", 2)), As("p1", 1),
                        As("p1", 3), No(As("p2", 1)), As("p2", 1), W("rr-client", "p2")})]
Views == [Idle EXCEPT !.start = <<G("bgp multiple-instance", <<>>), C("router bgp", "", <<1>>, <<>>), As("p1", 2)>>,
    !.up = {"p1"},
    !.cmds = In("config", {C("router bgp", "", <<1>>, <<"v">>), No(C("router bgp", "", <<1>>, <<"v">>)),
                           No(G("bgp multiple-instance", <<>>))})
        \cup {[node |-> "bgp", i |-> 2, c |-> c] : c \in {As("p1", 2), As("p2", 1), C("route-map", "p1", <<>>, <<"out", "a">>)}}
        \cup In("bgp", {C("route-map", "p1", <<>>, <<"in", "a">>)}),
    !.clears = Clears({[sort |-> "all", stype |-> t, af |-> "ipv4"] : t \in {"out", "in", "both"}}, {""}, {"", "v"}, {FALSE})]
Tables == [Idle EXCEPT
    !.cmds = In("bgp", Both({C("network", "", <<>>, <<"n", "a">>), C("network", "", <<>>, <<"n">>),
                             C("aggregate-address", "", <<>>, <<"n", "as-set">>),
                             C("aggregate-address", "", <<>>, <<"n">>),
                             C("redistribute", "", <<3>>, <<"static">>), C("redistribute", "", <<>>, <<"static", "a">>),
                             G("dampening", <<>>), G("dampening", <<20>>), G("dampening", <<15, 700, 2000, 60>>)})
                       \cup {No(C("redistribute", "", <<>>, <<"static">>))})
        \cup In("ipv6", Both({C("network", "", <<>>, <<"n">>), C("redistribute", "", <<>>, <<"static">>)}))
        \cup In("bgp", Both({G("distance bgp", <<20, 200, 10>>), C("distance", "", <<5>>, <<"n">>)}))]
OpenGroup == [Idle EXCEPT !.start = Router \o Define \o <<As("p1", 2), As("p2", 3), Bind("p1")>>, !.up = {"p1"},
    !.cmds = In("bgp", Both({W("rs-client", "g"), C("filter-list", "g", <<>>, <<"in", "a">>),
                             C("filter-list", "p1", <<>>, <<"in", "b">>), C("maximum-prefix", "g", <<9, 80, 0>>, <<>>),
                             C("unsuppress-map", "g", <<>>, <<"u">>), W("soft-reconfig", "g"),
                             C("default-originate", "g", <<>>, <<>>)})
                       \cup {Bind("p2"), No(Bind("p2")), No(W("define group", "g"))}),
    !.clears = Clears({[sort |-> "external", stype |-> "both", af |-> "ipv4"]}, {""}, {""}, {TRUE})]
Families == [Idle EXCEPT !.start = Router \o <<As("p1", 2), As("p2", 1)>>, !.up = {"p1"},
    !.cmds = In("ipv6", Both({W("activate", "p1"), W("next-hop-self", "p1"), C("route-map", "p1", <<>>, <<"out", "a">>)}))
        \cup In("vpnv4", Both({W("activate", "p1"), C("send-community", "p1", <<>>, <<"both">>)}))
        \cup In("ipv4m", Both({W("activate", "p1"), C("prefix-list", "p1", <<>>, <<"out", "c">>)}))
        \cup In("bgp", {W("activate", "p1")}),
    !.clears = Clears({[sort |-> "peer", stype |-> "both", af |-> "ipv6"]}, {"p1"}, {""}, {TRUE})]
Rest == [Idle EXCEPT !.start = Router \o <<As("p1", 2)>>, !.up = {"p1"},
    !.cmds = In("bgp", Both({W("override", "p1"), W("strict", "p1"), W("dont-capability", "p1"),
                             C("connection-mode", "p1", <<>>, <<"passive">>),
                             C("connection-mode", "p1", <<>>, <<"active">>), W("connected-check", "p1"),
                             C("description", "p1", <<>>, <<"d">>), C("port", "p1", <<180>>, <<>>),
                             C("interface", "p1", <<>>, <<"eth0">>)}))]
Daemon == [Idle EXCEPT !.start = <<G("bgp config-type", <<>>)>> \o Router \o <<As("p1", 2)>>,
    !.cmds = In("bgp", Both({G("timers bgp", <<30, 90>>), G("bgp local-preference", <<50>>), G("bgp scan-time", <<30>>),
                             G("bgp client-to-client", <<>>), G("bgp import-check", <<>>),
                             C("send-community", "p1", <<>>, <<>>)}))]

MCEnv == [globals |-> Globals, flags |-> Flags, peer |-> Peer, family |-> Family, values |-> Values, group |-> Group,
          joining |-> Joining, views |-> Views, tables |-> Tables, open |-> OpenGroup, families |-> Families,
          rest |-> Rest, daemon |-> Daemon]
=============================================================================
