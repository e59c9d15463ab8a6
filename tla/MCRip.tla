------------------------------- MODULE MCRip --------------------------------
(***************************************************************************)
(* Instances of Rip.  Infinity is 4 instead of 16: the metrics 1, 2 and 3   *)
(* are usable, and an offset can reach the limit.                           *)
(***************************************************************************)
EXTENDS Rip, Ripng

MCPrefixes == {"dflt", "net1", "net2", "mart"}
MCIfs == {"if1", "if2"}
MCNbrs == {"r1", "r2"}
MCNbrIf == [n \in MCNbrs |-> IF n = "r1" THEN "if1" ELSE "if2"]
MCNbrNet == [n \in MCNbrs |-> IF n = "r1" THEN "net1" ELSE "net2"]

NoAuth == [kind |-> "none", key |-> "none"]
Rte(p, m) == [prefix |-> p, metric |-> m, nexthop |-> Zero, tag |-> 0]
Response(rtes) == [cmd |-> "response", version |-> 2, auth |-> NoAuth, rtes |-> rtes]
NoOffset == [on |-> FALSE, permit |-> {"dflt", "net2"}, metric |-> 0]
Conf == [nets |-> {}, ifnames |-> {}, nbrs |-> {}, passive |-> {}, static |-> {},
         deflt |-> FALSE, redist |-> {}, version |-> 2, defmetric |-> 1,
         denyIn |-> {}, denyOut |-> {}, own |-> {"me"}, reach |-> {"r1", "r2"},
         covers |-> [p \in MCPrefixes |-> {}], mcast |-> {"mcast"},
         cost |-> [i \in MCIfs |-> 1],
         offset |-> [d \in {"in", "out"} |-> [i \in MCIfs \cup {NoIf} |-> NoOffset]],
         rmap |-> [t \in {"rip", "connect", "static", "ospf"} |->
                      [on |-> FALSE, deny |-> {"dflt"}, set |-> 3]],
         rmetric |-> [t \in {"rip", "connect", "static", "ospf"} |-> 0]]

Env(may, packets) ==
    [conf |-> Conf, may |-> may \cup {"start"}, known |-> TRUE, metrics |-> {2},
     packets |-> packets, nets |-> {"net1"}, ifnames |-> {"if2"}, routes |-> {"dflt", "net2"},
     polifs |-> {"if1"}, dirs |-> {"in"}, queue |-> 1, types |-> {"connect", "ospf"},
     addrs |-> [i \in MCIfs |-> IF i = "if1" THEN {"net1"} ELSE {"net2"}]]

(* Two neighbours announce, worsen and withdraw the default route; one of  *)
(* them also a network that may be connected.                              *)
Routing == Env({"network", "packets", "peers", "offset"},
               {Response({Rte("dflt", m)}) : m \in {1, 2, 4}} \cup {Response({Rte("net2", 1)})})
(* Interfaces and addresses come and go while commands enable them.        *)
Plugging == [Env({"network", "interfaces", "addresses", "join failure", "packets"},
                 {Response({Rte("dflt", 1)})})
             EXCEPT !.known = FALSE, !.addrs["if2"] = {}, !.nets = {"net1"}, !.ifnames = {"if1"}]
(* Zebra's routes, in flight while redistribution is turned on and off.    *)
Redistributing == [Env({"network", "redistribution", "stop"}, {}) EXCEPT !.nets = {}, !.routes = {"net2"}, !.queue = 3]
(* Originated routes, reloads and restarts.                                *)
Originating == [Env({"static", "packets", "passive", "stop", "reload", "network", "socket failure"},
                    {Response({Rte("dflt", 1)})})
               EXCEPT !.ifnames = {}, !.addrs["if2"] = {}]
(* Versions and authentication decide what a datagram may change.         *)
Admission ==
    [Env({"network", "packets", "interface policy", "version", "neighbor"},
         {Response({Rte("dflt", 3)}),
          [Response({Rte("dflt", 1)}) EXCEPT !.version = 1],
          [Response({Rte("mart", 1)}) EXCEPT !.auth = [kind |-> "md5", key |-> "key"]],
          [Response({Rte("dflt", 1)}) EXCEPT !.cmd = "request", !.version = 3],
          [Response({}) EXCEPT !.cmd = "poll entry"]})
     EXCEPT !.ifnames = {}, !.addrs["if2"] = {}]
(* Metrics, offset lists and route-maps decide what is announced.          *)
Metrics ==
    [Env({"network", "policy", "offset", "redistribution"}, {})
     EXCEPT !.routes = {"net2"}, !.types = {"ospf"}, !.addrs["if2"] = {}, !.dirs = {"out"}]
Idle == [Env({}, {}) EXCEPT !.may = {}]
MCEnvironment == {Idle, Admission, Metrics, Routing, Plugging, Redistributing, Originating}

-----------------------------------------------------------------------------
(* RIPng: three nested prefixes, two interfaces on which the same router   *)
(* address is seen.                                                        *)
MCNPrefixes == {"all", "half", "quarter", "fe80::1", "fe80::2"}
MCCovers == [p \in MCNPrefixes |->
    CASE p = "quarter" -> {"quarter", "half", "all"}
      [] p = "half" -> {"half", "all"}
      [] OTHER -> {p}]
MCLinkLocal == {"fe80::1", "fe80::2"}
NRoute(p, m) == [addr |-> p, metric |-> m]
NResponse(i, rtes) ==
    [cmd |-> "response", version |-> 1, from |-> "fe80::1", hops |-> 255, ifx |-> i, rtes |-> rtes]
NIdle ==
    [may |-> {}, up |-> TRUE, own |-> {}, cost |-> 1, queue |-> 2, via |-> "if2",
     addrs |-> [i \in MCIfs |-> {"half"}], packets |-> {}, routes |-> {"quarter"},
     aggregates |-> {"half"}, orderly |-> FALSE, nets |-> {"half"}, named |-> {"if1"}]
Summarising ==
    [NIdle EXCEPT !.may = {"packets", "aggregate"}, !.orderly = TRUE,
                  !.packets = {NResponse("if1", <<NRoute("quarter", 1)>>),
                               NResponse("if2", <<NRoute("half", 2), NRoute("quarter", 4)>>),
                               NResponse("if1", <<NRoute("quarter", 4)>>)}]
Nesting == [Summarising EXCEPT !.orderly = FALSE, !.aggregates = {"half", "all"},
                               !.packets = {NResponse("if1", <<NRoute("quarter", 1)>>)}]
Listening ==
    [NIdle EXCEPT !.may = {"packets", "interfaces", "network"}, !.orderly = TRUE, !.addrs["if2"] = {},
                  !.packets = {NResponse("if1", <<NRoute("fe80::2", NextHopRte), NRoute("quarter", 1),
                                                  NRoute("fe80::1", 1), NRoute("half", 0)>>),
                               NResponse("if2", <<NRoute("half", NextHopRte), NRoute("quarter", 2)>>),
                               [NResponse("if1", <<NRoute("half", 1)>>) EXCEPT !.hops = 3]}]
Relaying ==
    [NIdle EXCEPT !.may = {"packets", "static", "redistribution", "aggregate"},
                  !.packets = {NResponse("if1", <<NRoute("quarter", 1)>>)}]
MCNEnvironment == {NIdle, Summarising, Nesting, Listening, Relaying}

-----------------------------------------------------------------------------
(* One of the two daemons at a time.                                       *)
MCInit == Init /\ NInit /\ (env = Idle \/ nenv = NIdle)
MCNext == \/ Next /\ UNCHANGED nvars
          \/ NNext /\ UNCHANGED vars
MCSpec == MCInit /\ [][MCNext]_<<vars, nvars>>


(* No change of a route is forgotten (NoLostTrigger, RipngNoLostTrigger).  *)
TriggersKept == NoLostTrigger /\ RipngNoLostTrigger

(* Aggregates hide what they stand for and count it (RipngSuppressed,      *)
(* RipngCountedOrderly), so a route is not announced beside its summary    *)
(* (ripng_output_process).                                                 *)
AggregatesExact ==
    /\ RipngSuppressed /\ RipngCountedOrderly
    /\ \A i \in Ifs : \A e, f \in ripng_output_process(i, FALSE) :
          ng.agg[e.addr].on /\ ~ng.agg[f.addr].on => e.addr \notin Covers[f.addr]
=============================================================================
