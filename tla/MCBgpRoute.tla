----------------------------- MODULE MCBgpRoute -----------------------------
(* Instances of BgpRoute: small worlds that each exercise one part.        *)
EXTENDS BgpRoute

MCPeers == {"x", "y", "z"}
MCNets == {100, 101, 102, 103}
MCTable == <<100, 101, 102, 103>>
(* 101 covers 102 and 103.                                                 *)
MCUnder == [p \in MCNets |-> IF p = 100 THEN <<101, 102, 103>> ELSE IF p = 101 THEN <<102, 103>> ELSE <<>>]

Own_ == 9
Ebgp(as) == [as |-> as, localas |-> 10, chas |-> 0, allowas |-> 0, weight |-> NONE, subnet |-> {}, own |-> Own_,
             ttl1 |-> TRUE, flags |-> {}, pmax |-> [max |-> NONE, warning |-> FALSE]]
Ibgp == [Ebgp(10) EXCEPT !.ttl1 = FALSE]
Flagged(peer, flags) == [peer EXCEPT !.flags = flags]
Speaker(flags, x, y, z) ==
    [as |-> 10, confed |-> 0, confedPeers |-> {}, rid |-> 50, cluster |-> 0, deflp |-> 100, flags |-> flags,
     peer |-> [q \in MCPeers \cup {Self} |->
         IF q = Self THEN [Ebgp(10) EXCEPT !.localas = 0] ELSE IF q = "x" THEN x ELSE IF q = "y" THEN y ELSE z]]
NoMap == [on |-> FALSE, deny |-> {}, lp |-> NONE]
NoFilter == [denyIn |-> {}, denyOut |-> {}, rmapIn |-> NoMap, rmapOut |-> NoMap, unsuppress |-> NoMap]

Path(s) == IF s = <<>> THEN <<>> ELSE <<[type |-> "seq", as |-> s]>>
Attr(path, nh, med) ==
    [bgp_attr_default_set(BGP_ORIGIN_IGP) EXCEPT !.path = Path(path), !.nh = nh, !.med = med, !.weight = 0]
Route(q, p, a) == [peer |-> q, p |-> p, a |-> a]
Plain == {[restart |-> FALSE, preserve |-> FALSE, orf |-> FALSE]}
Nbrs(up) == [q \in up |-> IF q = "x" THEN [id |-> 3, addr |-> 1]
                           ELSE IF q = "y" THEN [id |-> 1, addr |-> 2] ELSE [id |-> 2, addr |-> 3]]
Reach(m) == [metric |-> m, gw |-> m]
World ==
    [c |-> Speaker({}, Ebgp(20), Ebgp(30), Ebgp(40)), may |-> {}, f |-> NoFilter, routes |-> {},
     hops |-> [h \in {1, 2, 3} |-> {Reach(0)}], connected |-> {1, 2, 3}, ownaddr |-> Own_, classE |-> {},
     nbr |-> Nbrs(MCPeers), opens |-> Plain, orf |-> {{}}, filters |-> {}, networks |-> {}, aggregates |-> {},
     summary |-> {FALSE}, types |-> {}, metrics |-> {0}]

(* Three neighbours, two of one AS, with MEDs: the decision process.       *)
Deciding(flags) ==
    [World EXCEPT !.c = Speaker(flags, Ebgp(20), Ebgp(20), Ebgp(30)), !.may = {"update", "withdraw", "stop"},
        !.f = [NoFilter EXCEPT !.denyOut = MCNets],
        !.routes = {Route("x", 102, Attr(<<20>>, 1, 1)), Route("x", 102, Attr(<<20>>, 1, 3)), Route("y", 102, Attr(<<20>>, 2, 2)),
                    Route("z", 102, Attr(<<30>>, 3, 2))}]

(* Two announce, y a client of this route reflector, and z listens; or x   *)
(* announces two prefixes with one attribute.                              *)
Reflecting(z) ==
    [World EXCEPT !.c = Speaker({"always-compare-med"}, Ebgp(20), Flagged(Ibgp, {"route-reflector-client"}), z),
        !.may = {"update", "withdraw"},
        !.routes = {Route("x", 102, Attr(<<20>>, 1, 1)), Route("y", 102, Attr(<<>>, 2, NONE))}]
Packing ==
    [World EXCEPT !.may = {"update", "withdraw", "stop"}, !.nbr = Nbrs({"x", "z"}),
        !.routes = {Route("x", 102, Attr(<<20>>, 1, 1)), Route("x", 103, Attr(<<20>>, 1, 1)),
                    Route("x", 103, Attr(<<20, 20>>, 1, 1))}]

(* 101 is aggregated, with and without summary-only; y listens, or has a   *)
(* route of its own to one of the components.                              *)
Aggregating(summary) ==
    [World EXCEPT !.may = {"update", "withdraw", "aggregate"}, !.nbr = Nbrs({"x", "y"}),
        !.aggregates = {101}, !.summary = {summary},
        !.f = [NoFilter EXCEPT !.denyOut = {100, 103}],
        !.routes = {Route("x", p, Attr(<<20>>, 1, NONE)) : p \in {102, 103}}]
AggregatingTwo ==
    [Aggregating(TRUE) EXCEPT !.f = [NoFilter EXCEPT !.denyOut = MCNets], !.summary = BOOLEAN, !.aggregates = {100, 101},
        !.routes = @ \cup {Route("y", 102, Attr(<<30>>, 1, NONE))}]

(* One route flaps.                                                        *)
Damping(may, meds) ==
    [World EXCEPT !.may = {"update", "withdraw"} \cup may, !.nbr = Nbrs({"x", "z"}), !.f = [NoFilter EXCEPT !.denyOut = {100}],
        !.routes = {Route("x", 102, Attr(<<20>>, 1, med)) : med \in meds}]

(* Next hops of IBGP routes come and go.                                   *)
NextHops ==
    [World EXCEPT !.c = Speaker({}, Ibgp, Ibgp, Ebgp(40)), !.may = {"update", "withdraw", "scan", "zebra", "terminate"},
        !.hops = [h \in 1..3 |-> IF h = 3 THEN {Reach(0)} ELSE {Reach(NONE), Reach(1), Reach(2)}],
        !.f = [NoFilter EXCEPT !.denyOut = MCNets],
        !.routes = {Route("x", 102, Attr(<<20>>, 1, NONE)), Route("y", 102, Attr(<<20>>, 2, NONE)),
                    Route("z", 102, Attr(<<40, 20>>, 3, NONE))}]

(* x may announce one prefix, and keeps what it announced for soft         *)
(* reconfiguration.                                                        *)
Limited(warning) ==
    [World EXCEPT !.c = Speaker({}, [Flagged(Ebgp(20), {"soft-reconfiguration"}) EXCEPT !.pmax = [max |-> 1, warning |-> warning]],
                                Ebgp(30), Ebgp(40)),
        !.may = {"update", "withdraw", "soft-in", "filter"}, !.nbr = Nbrs({"x"}),
        !.f = [NoFilter EXCEPT !.denyOut = MCNets],
        !.filters = {[NoFilter EXCEPT !.denyOut = MCNets, !.denyIn = {102}],
                     [NoFilter EXCEPT !.denyOut = MCNets, !.rmapIn = [on |-> TRUE, deny |-> {103}, lp |-> 200]]},
        !.routes = {Route("x", p, Attr(<<20>>, 1, NONE)) : p \in {102, 103}}]

(* x restarts gracefully.                                                  *)
Restarting ==
    [World EXCEPT !.may = {"update", "withdraw", "stop"}, !.nbr = Nbrs({"x", "z"}),
        !.opens = {[restart |-> TRUE, preserve |-> s, orf |-> FALSE] : s \in BOOLEAN},
        !.routes = {Route("x", 102, Attr(<<20>>, 1, NONE)), Route("x", 103, Attr(<<20>>, 1, NONE))}]

(* The speaker's own routes.                                               *)
Originating(flags, may) ==
    [World EXCEPT !.c = Speaker(flags, Ebgp(20), Ebgp(30), Ebgp(40)),
        !.may = {"network", "import", "zebra", "redistribute"} \cup may,
        !.opens = {[restart |-> FALSE, preserve |-> FALSE, orf |-> TRUE]}, !.nbr = Nbrs({"x"}),
        !.orf = {{}, {102}},
        !.hops = [h \in {1, 2, 3, 102} |-> IF h = 102 THEN {Reach(NONE), Reach(1)} ELSE {Reach(0)}],
        !.networks = {102}, !.types = {"KERNEL"}, !.metrics = {0, 1}]

MCEnvironment ==
    { Deciding({"deterministic-med", "compare-router-id"}), Deciding({"always-compare-med"}),
      Reflecting(Ebgp(40)), Reflecting(Ibgp), Packing, Aggregating(TRUE), Aggregating(FALSE), AggregatingTwo,
      Damping({"dampening", "scan"}, {1, 2}),
      Damping({"dampening", "no-dampening", "scan", "clear-damp", "time"}, {1}),
      NextHops, Limited(TRUE), Limited(FALSE), Restarting, Originating({}, {"default", "soft-out", "refresh"}),
      Originating({"import-check"}, {}) }

-----------------------------------------------------------------------------
(* The pure functions on AS paths and attributes, over small arguments.    *)

Segments_ == {Segment(t, as) : t \in SegmentTypes, as \in {<<1>>, <<2>>, <<1, 2>>, <<2, 1>>}}
Paths == {<<>>} \cup {<<s>> : s \in Segments_} \cup {<<s, t>> : s \in Segments_, t \in Segments_}
Sequences_(p) == {i \in DOMAIN p : p[i].type = AS_SEQUENCE}

(* A path that is printed and typed in again is the same path, unless it   *)
(* has a confederation set, which the parser does not know, or two         *)
(* sequences side by side, which become one.                               *)
ASSUME PathTextRead ==
    \A p \in Paths :
        LET r == aspath_str2aspath(aspath_print(p)) IN
        /\ r.ok = (\A i \in DOMAIN p : p[i].type # AS_CONFED_SET)
        /\ r.ok /\ ~({1, 2} \subseteq Sequences_(p)) => r.p = p
        /\ r.ok => AllAs(r.p) = AllAs(p) /\ aspath_make_str_count(r.p) = aspath_make_str_count(p)

(* Prepending adds the lengths, and every AS occurs as often as in both.   *)
ASSUME PrependAdds ==
    \A p \in Paths, s \in Segments_ :
        LET q == aspath_prepend(p, <<s>>) IN
        /\ aspath_make_str_count(q) = aspath_make_str_count(p) + aspath_make_str_count(<<s>>)
        /\ \A a \in {1, 2} : aspath_loop_check(q, a) = aspath_loop_check(p, a) + aspath_loop_check(<<s>>, a)

(* An aggregate names no AS that is in neither path, is a path itself when *)
(* both are the same, and begins with what both begin with.                *)
ASSUME AggregateWithin ==
    \A p \in Paths, s \in Segments_ :
        /\ AsNumbers(aspath_aggregate(p, <<s>>)) \subseteq AsNumbers(p) \cup AsNumbers(<<s>>)
        /\ aspath_aggregate(p, p) = p
        /\ p # <<>> /\ p[1] = s => aspath_aggregate(p, <<s>>)[1] = s

(* What bgp_packet_attribute writes for a neighbour the neighbour reads    *)
(* without an error (bgp_attr_parse, bgp_attr_check), and it gets the      *)
(* path, the next hop and the attributes that go to its kind of peer.      *)
Full == [Attr(<<20>>, 1, 5) EXCEPT !.lp = 200, !.atomic = TRUE, !.aggr = 20, !.comm = {1}, !.transit = {"t"},
             !.ecomm = <<[nontrans |-> TRUE, v |-> 1], [nontrans |-> FALSE, v |-> 2]>>]
Reader(as) == [Speaker({}, [Ebgp(10) EXCEPT !.localas = as], Ebgp(30), Ebgp(40)) EXCEPT !.as = as]
ASSUME AttributesRead ==
    \A a \in {Full, Attr(<<20>>, 1, NONE)}, fl \in {{}, {"send-community", "send-ext-community"}},
       to \in {Ebgp(30), Ibgp}, from \in {Ebgp(20), Ibgp} :
        LET c_ == Speaker({}, from, Flagged(to, fl), Ebgp(40))
            r == bgp_attr_parse(Reader(to.as), "x", bgp_packet_attribute(c_, "y", a, "x", 3))
            in == to.as = 10
        IN  /\ r.err = "ok" /\ bgp_attr_check(Reader(to.as), "x", r)
            /\ r.attr.path = PathFor(c_, "y", a, "x") /\ r.attr.nh = a.nh /\ r.attr.origin = a.origin
            /\ r.attr.med = a.med /\ r.attr.atomic = a.atomic /\ r.attr.aggr = a.aggr
            /\ r.attr.transit = a.transit
            /\ r.attr.lp = IF ~in THEN NONE ELSE IF a.lp = NONE THEN 0 ELSE a.lp
            /\ r.attr.comm = IF fl = {} THEN {} ELSE a.comm
            /\ r.attr.ecomm = IF fl = {} THEN <<>> ELSE IF in THEN a.ecomm ELSE Transitive(a.ecomm)
            /\ (r.attr.oid # NONE) = (in /\ from.as = 10)
=============================================================================
