------------------------------ MODULE RipTable ------------------------------
(***************************************************************************)
(* The routing table of ripd (ripd/ripd.c) as operators from one state of   *)
(* the daemon to the next.  A state s is the record                         *)
(*   on       the daemon has been configured (the pointer rip is not NULL)  *)
(*   table    rip->table: at most one struct rip_info per prefix            *)
(*   trigUpd  the event rip->t_triggered_update is queued                   *)
(*   trigInt  the timer rip->t_triggered_interval runs                      *)
(*   trigger  the flag rip->trigger                                         *)
(*   zebra    the RIP routes zebra holds, as ripd's messages left them      *)
(*   pend     the prefixes changed since they were last offered to the      *)
(*            output process (history, read by no operation)                *)
(* Module Rip makes actions of these operators, module RipNet lets several  *)
(* such daemons talk to each other.                                         *)
(***************************************************************************)
EXTENDS Integers, FiniteSets, FiniteSetsExt

CONSTANTS Prefixes,   \* destinations
          Martian,    \* those of them that are not unicast networks
          Ifs,        \* interfaces
          Infinity    \* RIP_METRIC_INFINITY

Zero == "0.0.0.0"
NoIf == "no interface"

(* The kinds a struct rip_info can have: <<type, sub_type>>.               *)
RTE == <<"rip", "rte">>
STATIC == <<"rip", "static">>
INTERFACE == <<"connect", "interface">>
REDIST(type) == <<type, "redistribute">>

NoInfo == [kind |-> <<"none", "none">>, ifx |-> NoIf, metric |-> Infinity,
           nh |-> Zero, from |-> Zero, tag |-> 0,
           tmo |-> FALSE, gc |-> FALSE, chg |-> FALSE]
Info(s, p) == s.table[p]
Exists(r) == r.kind # NoInfo.kind

NoZebra == [nh |-> Zero, metric |-> 0]

(* rip_event (RIP_TRIGGERED_UPDATE): while the holding timer runs only the *)
(* flag is raised, otherwise the event is queued once.                     *)
rip_event_triggered(s) ==
    IF s.trigInt THEN [s EXCEPT !.trigger = TRUE] ELSE [s EXCEPT !.trigUpd = TRUE]

(* A route was changed: RIP_RTF_CHANGED and the signal to the output side. *)
Changed(s, p) ==
    rip_event_triggered([s EXCEPT !.table[p].chg = TRUE, !.pend = @ \cup {p}])

rip_timeout_update_poisoned(r) == [r EXCEPT !.tmo = @ \/ r.metric = Infinity]
rip_timeout_update(r) == [r EXCEPT !.tmo = @ \/ r.metric # Infinity]

(* Zebra keeps one RIP route per prefix: an add replaces it, a delete      *)
(* removes it when it names the next hop zebra has.                        *)
rip_zebra_ipv4_add(s, p, nh, metric) ==
    [s EXCEPT !.zebra[p] = [nh |-> nh, metric |-> metric]]
rip_zebra_ipv4_delete(s, p, nh) ==
    [s EXCEPT !.zebra[p] = IF @.nh = nh THEN NoZebra ELSE @]

-----------------------------------------------------------------------------
(* Timers of a route.                                                      *)

rip_garbage_collect(s, p) ==
    [s EXCEPT !.table[p] = NoInfo, !.pend = @ \ {p}]

rip_timeout(s, p) ==
    LET z == rip_zebra_ipv4_delete(s, p, Info(s, p).nh) IN
    Changed([z EXCEPT !.table[p].tmo = FALSE, !.table[p].gc = TRUE,
                      !.table[p].metric = Infinity], p)

-----------------------------------------------------------------------------
(* Routes the daemon originates itself.                                    *)

rip_route_rte(r) == r.kind = RTE

(* What keeps the entry in place when another source offers the prefix.    *)
KeepsPlace(r, kind) ==
    \/ r.kind = INTERFACE /\ r.metric # Infinity
    \/ r.kind = STATIC /\ kind # STATIC

rip_redistribute_add(s, kind, p, ifx, nh) ==
    LET r == Info(s, p)
        z == IF rip_route_rte(r) THEN rip_zebra_ipv4_delete(s, p, r.nh) ELSE s
    IN  IF p \in Martian \/ KeepsPlace(r, kind) THEN s
        ELSE Changed([z EXCEPT !.table[p] =
                 [NoInfo EXCEPT !.kind = kind, !.ifx = ifx, !.metric = 1, !.nh = nh]], p)

(* "Perform poisoned reverse."                                             *)
Poison(s, p) ==
    Changed([s EXCEPT !.table[p].metric = Infinity, !.table[p].gc = TRUE,
                      !.table[p].tmo = FALSE], p)

rip_redistribute_delete(s, kind, p, ifx) ==
    IF p \notin Martian /\ Info(s, p).kind = kind /\ Info(s, p).ifx = ifx
    THEN Poison(s, p) ELSE s

(* Over the whole table; nothing when the daemon is not configured.        *)
rip_redistribute_withdraw(s, type) ==
    LET gone == {p \in Prefixes : /\ Info(s, p).kind[1] = type
                                  /\ Info(s, p).kind[2] # "interface"}
    IN  IF s.on THEN FoldSet(LAMBDA p, acc : Poison(acc, p), s, gone) ELSE s

-----------------------------------------------------------------------------
(* Routes learned from a response.                                         *)

(* The first conjunct of an offset list that names the interface decides,  *)
(* else the one that names none; 0 when neither permits the prefix.        *)
OffsetOf(conf, dir, i, p) ==
    LET o == IF conf.offset[dir][i].on THEN conf.offset[dir][i] ELSE conf.offset[dir][NoIf]
    IN  IF o.on /\ p \in o.permit THEN o.metric ELSE 0
OffsetApplies(conf, dir, i, p) ==
    LET o == IF conf.offset[dir][i].on THEN conf.offset[dir][i] ELSE conf.offset[dir][NoIf]
    IN  o.on /\ p \in o.permit

Capped(m) == IF m > Infinity THEN Infinity ELSE m

(* The metric of an entry once the cost of the network has been added.     *)
MetricIn(conf, rte, i) ==
    Capped(rte.metric + IF OffsetApplies(conf, "in", i, rte.prefix)
                        THEN OffsetOf(conf, "in", i, rte.prefix) ELSE conf.cost[i])

(* The tag crosses the wire in network byte order.                         *)
ntohs(t) == (t % 256) * 256 + t \div 256

(* A prefix seen for the first time; an unreachable one is not entered.    *)
NewRoute(s, rte, m, nh, from, i) ==
    LET r == rip_timeout_update([NoInfo EXCEPT
                 !.kind = RTE, !.metric = m, !.tag = ntohs(rte.tag), !.nh = nh,
                 !.from = from, !.ifx = i])
    IN  IF m = Infinity THEN s
        ELSE rip_zebra_ipv4_add(Changed([s EXCEPT !.table[rte.prefix] = r], rte.prefix),
                                rte.prefix, nh, m)

(* "Adopt the route from the datagram."                                    *)
AdoptRoute(s, rte, m, nh, from, i) ==
    LET p == rte.prefix
        old == Info(s, p)
        r == [old EXCEPT !.metric = m, !.tag = ntohs(rte.tag), !.from = from, !.ifx = i]
        revived == old.metric = Infinity /\ m < Infinity
        r2 == IF revived THEN [r EXCEPT !.kind = RTE, !.gc = FALSE, !.nh = nh]
              ELSE IF old.metric # Infinity THEN [r EXCEPT !.nh = nh] ELSE r
        z == IF revived THEN rip_zebra_ipv4_add(s, p, nh, m)
             ELSE IF old.metric # Infinity
             THEN rip_zebra_ipv4_add(rip_zebra_ipv4_delete(s, p, old.nh), p, nh, m)
             ELSE s
        dying == m = Infinity /\ old.metric # Infinity
        r3 == IF dying THEN [r2 EXCEPT !.gc = TRUE, !.tmo = FALSE]
              ELSE rip_timeout_update(r2)
        z2 == IF dying THEN rip_zebra_ipv4_delete(z, p, r2.nh) ELSE z
    IN  Changed([z2 EXCEPT !.table[p] = r3], p)

(* One entry of a response that came from the router `from' on i.          *)
rip_rte_process(s, conf, rte, from, i) ==
    LET p == rte.prefix
        r == Info(s, p)
        m == MetricIn(conf, rte, i)
        nh == IF rte.nexthop = Zero THEN from ELSE rte.nexthop
        same == r.from = from
        adopt == \/ same /\ (r.metric # m \/ r.tag # rte.tag \/ rte.nexthop # r.nh)
                 \/ m < r.metric
        t == IF same THEN [s EXCEPT !.table[p] = rip_timeout_update(@)] ELSE s
    IN  IF <<i, p>> \in conf.denyIn \/ nh \in conf.own THEN s
        ELSE IF ~Exists(r) THEN NewRoute(s, rte, m, nh, from, i)
        ELSE IF ~rip_route_rte(r) /\ r.metric # Infinity THEN s
        ELSE IF adopt THEN AdoptRoute(t, rte, m, nh, from, i) ELSE t

(* A next hop that no connected network reaches is replaced by the router  *)
(* its own RIP route was learned from, or dropped.                         *)
Resolved(s, conf, nexthop) ==
    LET via == {p \in Prefixes : Exists(Info(s, p)) /\ nexthop \in conf.covers[p]}
    IN  IF nexthop \in {Zero} \cup conf.reach THEN nexthop
        ELSE IF via # {} /\ rip_route_rte(Info(s, CHOOSE p \in via : TRUE))
        THEN Info(s, CHOOSE p \in via : TRUE).from
        ELSE Zero

(* The entries that rip_response_process passes on.                        *)
ValidRte(conf, rte, version) ==
    /\ rte.prefix \notin Martian
    /\ rte.metric \in 1..Infinity
    /\ IF version = 1 THEN rte.nexthop = Zero ELSE rte.nexthop \notin conf.mcast

rip_response_process(s, conf, rtes, version, from, i) ==
    LET good == {rte \in rtes : ValidRte(conf, rte, version)}
        One(rte, acc) == rip_rte_process(acc, conf,
                             [rte EXCEPT !.nexthop = Resolved(acc, conf, @)], from, i)
    IN  FoldSet(One, s, good)

-----------------------------------------------------------------------------
(* The output process.                                                     *)

(* The metric an entry is sent with: the route-map's, the one of the       *)
(* redistribute command, default-metric for a foreign route, its own.      *)
MetricOut(conf, r, p, i) ==
    LET type == r.kind[1]
        rm == conf.rmap[type]
        mapped == rm.on /\ r.kind[2] # "interface" /\ rm.set # 0
        m == IF mapped THEN rm.set
             ELSE IF conf.rmetric[type] # 0 /\ r.metric # Infinity THEN conf.rmetric[type]
             ELSE IF type \notin {"rip", "connect"} /\ r.metric # Infinity
             THEN conf.defmetric ELSE r.metric
    IN  Capped(IF r.metric # Infinity THEN m + OffsetOf(conf, "out", i, p) ELSE m)

SplitHorizon(r, i, split) == split /\ r.kind[1] \in {"rip", "connect"} /\ r.ifx = i

(* The entries rip_output_process writes for interface i.                  *)
rip_output_process(s, conf, i, split, changedOnly) ==
    LET Sent(p) == LET r == Info(s, p) IN
            /\ Exists(r)
            /\ <<i, p>> \notin conf.denyOut
            /\ changedOnly => r.chg
            /\ ~SplitHorizon(r, i, split)
            /\ conf.rmap[r.kind[1]].on /\ r.kind[2] # "interface"
               => p \notin conf.rmap[r.kind[1]].deny
        NextHop(r) == IF r.kind[1] \notin {"rip", "connect"} /\ r.ifx = i THEN r.nh ELSE Zero
    IN  {[prefix |-> p, metric |-> MetricOut(conf, Info(s, p), p, i),
          nexthop |-> NextHop(Info(s, p)), tag |-> Info(s, p).tag] :
            p \in {q \in Prefixes : Sent(q)}}

(* What an update leaves behind, once rip_update_process has offered the   *)
(* routes to every interface and neighbour.                                *)
rip_update(s) ==
    [s EXCEPT !.trigInt = FALSE, !.trigger = FALSE, !.pend = {}]

rip_clear_changed_flag(s) ==
    [s EXCEPT !.table = [p \in Prefixes |-> [@[p] EXCEPT !.chg = FALSE]]]

rip_triggered_update(s) ==
    rip_clear_changed_flag(
        [s EXCEPT !.trigUpd = FALSE, !.trigInt = TRUE, !.trigger = FALSE,
                  !.pend = {p \in @ : ~Info(s, p).chg}])

rip_triggered_interval_forgets(s) == [s EXCEPT !.trigInt = FALSE, !.trigger = FALSE]
rip_triggered_interval(s) ==
    LET t == [s EXCEPT !.trigInt = FALSE, !.trigger = FALSE]
    IN  IF s.trigger THEN rip_triggered_update(t) ELSE t
=============================================================================
