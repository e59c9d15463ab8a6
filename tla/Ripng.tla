------------------------------- MODULE Ripng --------------------------------
(***************************************************************************)
(* One ripngd process.  RIPng shares its shape with RIP but not its code:   *)
(* routes leave the kernel when they are collected, not when they time out, *)
(* redistributed routes vanish without being poisoned, and routes can be    *)
(* hidden behind aggregates that count them.                                *)
(*   ng    the daemon: table (ripng->table), agg (the aggregate of a node), *)
(*         trigUpd, trigInt, trigger as in Rip, zebra (what ripngd's        *)
(*         messages left there), ifs, pend (history: changed, not offered)  *)
(*   nconf the configuration: nets, ifnames, passive, static, aggregates    *)
(*   nq    zebra's redistribution messages under way                        *)
(*   nzr   zebra's own routes, and the subscription                         *)
(*   nenv  what may happen                                                  *)
(***************************************************************************)
EXTENDS Integers, FiniteSets, Sequences
LOCAL INSTANCE SequencesExt

CONSTANTS NPrefixes,     \* destinations
          Covers,        \* Covers[p]: p and the prefixes that contain it
          LinkLocal,     \* the prefixes no RTE may name
          NIfs,          \* interfaces
          NInfinity,     \* RIPNG_METRIC_INFINITY
          NMaxCount,     \* bound on an aggregate's count
          NEnvironment   \* the first values of nenv

VARIABLES ng, nconf, nq, nzr, nenv
nvars == <<ng, nconf, nq, nzr, nenv>>

Unspec == "::"
NextHopRte == 255   \* RIPNG_METRIC_NEXTHOP
NRte == <<"ripng", "rte">>
NStatic == <<"ripng", "static">>
NRedist(type) == <<type, "0">>

NNone == [kind |-> <<"none", "0">>, ifx |-> "0", metric |-> NInfinity, nh |-> Unspec, from |-> Unspec,
          tmo |-> FALSE, gc |-> FALSE, chg |-> FALSE, supp |-> 0]
NHas(s, p) == s.table[p].kind # NNone.kind
NoAggregate == [on |-> FALSE, count |-> 0, supp |-> 0]
NNoFib == [nh |-> Unspec, ifx |-> "0"]

NInit ==
    /\ nenv \in NEnvironment
    /\ nconf = [nets |-> {}, ifnames |-> {}, passive |-> {}, static |-> {}, redist |-> {}]
    /\ ng = [table |-> [p \in NPrefixes |-> NNone], agg |-> [p \in NPrefixes |-> NoAggregate],
             trigUpd |-> FALSE, trigInt |-> FALSE, trigger |-> FALSE, pend |-> {},
             zebra |-> [p \in NPrefixes |-> NNoFib],
             ifs |-> [i \in NIfs |-> [up |-> nenv.up, running |-> FALSE, wakeup |-> FALSE,
                                      passive |-> FALSE, addrs |-> nenv.addrs[i]]]]
    /\ nq = <<>>
    /\ nzr = {}

NMay(what) == what \in nenv.may
Countable == \A a \in NPrefixes : ng.agg[a].count < NMaxCount

-----------------------------------------------------------------------------
(* The table.                                                              *)

ripng_event_triggered(s) ==
    IF s.trigInt THEN [s EXCEPT !.trigger = TRUE] ELSE [s EXCEPT !.trigUpd = TRUE]
NChanged(s, p) ==
    ripng_event_triggered([s EXCEPT !.table[p].chg = TRUE, !.pend = @ \cup {p}])

ripng_zebra_ipv6_add(s, p, nh, i) == [s EXCEPT !.zebra[p] = [nh |-> nh, ifx |-> i]]
ripng_zebra_ipv6_delete(s, p, nh, i) ==
    [s EXCEPT !.zebra[p] = IF @ = [nh |-> nh, ifx |-> i] THEN NNoFib ELSE @]

(* The aggregates above a node count its route, which counts them.         *)
Above(s, p) == {a \in Covers[p] : s.agg[a].on}
Recount(s, p, by) ==
    [s EXCEPT !.agg = [a \in NPrefixes |-> IF a \in Above(s, p)
                                           THEN [@[a] EXCEPT !.count = @ + by] ELSE @[a]],
              !.table[p].supp = @ + by * Cardinality(Above(s, p))]
ripng_aggregate_increment(s, p) == Recount(s, p, 1)
ripng_aggregate_decrement(s, p) == Recount(s, p, -1)

(* Routes and aggregates below the node p, p's own aggregate excepted.     *)
Resuppress(s, p, by) ==
    LET routes == {q \in NPrefixes : p \in Covers[q] /\ NHas(s, q)}
        subs == {q \in NPrefixes \ {p} : p \in Covers[q] /\ s.agg[q].on}
    IN  [s EXCEPT
           !.table = [q \in NPrefixes |-> IF q \in routes THEN [@[q] EXCEPT !.supp = @ + by] ELSE @[q]],
           !.agg = [q \in NPrefixes |->
                      IF q = p THEN [@[q] EXCEPT !.count = @ + by * Cardinality(routes)
                                                             + by * Cardinality(subs)]
                      ELSE IF q \in subs THEN [@[q] EXCEPT !.supp = @ + by] ELSE @[q]]]
ripng_aggregate_add(s, p) ==
    Resuppress([s EXCEPT !.agg[p] = [NoAggregate EXCEPT !.on = TRUE]], p, 1)
ripng_aggregate_delete_hides(s, p) == [s EXCEPT !.agg[p] = NoAggregate]
ripng_aggregate_delete(s, p) ==
    [Resuppress(s, p, -1) EXCEPT !.agg[p] = NoAggregate]

ripng_timeout_update(r) == [r EXCEPT !.tmo = @ \/ r.metric # NInfinity]

(* The kernel route goes only now.                                         *)
ripng_garbage_collect(s, p) ==
    LET z == ripng_zebra_ipv6_delete(s, p, s.table[p].nh, s.table[p].ifx)
    IN  [ripng_aggregate_decrement(z, p) EXCEPT !.table[p] = NNone, !.pend = @ \ {p}]

ripng_timeout(s, p) ==
    NChanged([s EXCEPT !.table[p].tmo = FALSE, !.table[p].gc = TRUE,
                       !.table[p].metric = NInfinity], p)

(* An entry with the interface's cost added; nh is the next hop in force.  *)
NewEntry(s, p, m, nh, n, i) ==
    LET r == ripng_timeout_update([NNone EXCEPT !.kind = NRte, !.metric = m, !.nh = nh,
                                                !.from = n, !.ifx = i])
        t == NChanged([s EXCEPT !.table[p] = r], p)
    IN  IF m = NInfinity THEN s
        ELSE ripng_aggregate_increment(ripng_zebra_ipv6_add(t, p, nh, i), p)

AdoptEntry(s, p, m, nh, n, i) ==
    LET old == s.table[p]
        z == IF old.nh = nh THEN s
             ELSE ripng_zebra_ipv6_add(ripng_zebra_ipv6_delete(s, p, old.nh, old.ifx), p, nh, i)
        r == [old EXCEPT !.metric = m, !.nh = nh, !.from = n, !.ifx = i]
        r2 == IF m # NInfinity THEN [ripng_timeout_update(r) EXCEPT !.gc = FALSE]
              ELSE IF old.metric # NInfinity THEN [r EXCEPT !.gc = TRUE, !.tmo = FALSE] ELSE r
    IN  NChanged([z EXCEPT !.table[p] = r2], p)

ripng_route_process(s, p, m, nh, n, i) ==
    LET r == s.table[p]
        same == r.from = n /\ r.ifx = i
        t == IF same THEN [s EXCEPT !.table[p] = ripng_timeout_update(@)] ELSE s
    IN  IF ~NHas(s, p) THEN NewEntry(s, p, m, nh, n, i)
        ELSE IF (same /\ r.metric # m) \/ m < r.metric THEN AdoptEntry(t, p, m, nh, n, i)
        ELSE t

(* A next hop entry holds for the entries behind it; an address that is    *)
(* not link-local means the sender.                                        *)
ripng_nexthop_rte(e) == IF e.addr \in LinkLocal THEN e.addr ELSE Unspec

NCap(m) == IF m > NInfinity THEN NInfinity ELSE m
ripng_response_process(s, pkt, n, i) ==
    LET Entry(acc, e) ==
            IF e.metric = NextHopRte THEN [acc EXCEPT !.nh = ripng_nexthop_rte(e)]
            ELSE IF e.addr \in LinkLocal \/ e.metric \notin 1..NInfinity THEN acc
            ELSE [acc EXCEPT !.s = ripng_route_process(@, e.addr, NCap(e.metric + nenv.cost), 
                                       IF acc.nh = Unspec THEN n ELSE acc.nh, n, i)]
    IN  FoldLeft(Entry, [s |-> s, nh |-> Unspec], pkt.rtes).s

(* Originated routes; neither of these signals the output process.         *)
ripng_redistribute_add(s, kind, p, i) ==
    LET t == IF NHas(s, p) THEN s ELSE ripng_aggregate_increment([s EXCEPT !.table[p] = NNone], p)
    IN  IF p \in LinkLocal THEN s
        ELSE [t EXCEPT !.table[p].kind = kind, !.table[p].ifx = i, !.table[p].metric = 1,
                       !.table[p].tmo = FALSE, !.table[p].gc = FALSE]
ripng_redistribute_delete(s, kind, p, i) ==
    IF p \notin LinkLocal /\ s.table[p].kind = kind /\ s.table[p].ifx = i
    THEN [s EXCEPT !.table[p] = NNone, !.pend = @ \ {p}] ELSE s
ripng_redistribute_withdraw(s, type) ==
    LET gone == {p \in NPrefixes : s.table[p].kind[1] = type}
    IN  [s EXCEPT !.table = [p \in NPrefixes |-> IF p \in gone THEN NNone ELSE @[p]],
                  !.pend = @ \ gone]

-----------------------------------------------------------------------------
(* Interfaces.                                                             *)

(* Routes through the interface are dropped at once.                       *)
ripng_if_down(s, i) ==
    LET gone == {p \in NPrefixes : NHas(s, p) /\ s.table[p].ifx = i}
        fib(p) == IF p \in gone /\ s.table[p].kind = NRte
                       /\ s.zebra[p] = [nh |-> s.table[p].nh, ifx |-> i]
                  THEN NNoFib ELSE s.zebra[p]
    IN  [s EXCEPT !.table = [p \in NPrefixes |-> IF p \in gone THEN NNone ELSE @[p]],
                  !.zebra = [p \in NPrefixes |-> fib(p)], !.pend = @ \ gone,
                  !.ifs[i].running = FALSE]

ripng_enable_network_lookup(s, c, i) == s.ifs[i].addrs \cap c.nets # {}
ripng_enable_apply(s, c, i) ==
    LET on == ripng_enable_network_lookup(s, c, i) \/ i \in c.ifnames IN
    IF ~s.ifs[i].up THEN s
    ELSE IF on THEN [s EXCEPT !.ifs[i].wakeup = @ \/ ~s.ifs[i].running, !.ifs[i].running = TRUE]
    ELSE [s EXCEPT !.ifs[i].running = FALSE]
ripng_enable_apply_all(s, c) ==
    FoldLeft(LAMBDA acc, i : ripng_enable_apply(acc, c, i), s, SetToSeq(NIfs))

NOnly(s) == ng' = s /\ UNCHANGED <<nconf, nq, nzr, nenv>>

ripng_interface_wakeup(i) == ng.ifs[i].wakeup /\ NOnly([ng EXCEPT !.ifs[i].wakeup = FALSE])
ripng_interface_up(i) ==
    /\ NMay("interfaces") /\ ~ng.ifs[i].up
    /\ NOnly([ripng_enable_apply([ng EXCEPT !.ifs[i].up = TRUE], nconf, i)
                EXCEPT !.ifs[i].passive = i \in nconf.passive])
ripng_interface_down(i) ==
    NMay("interfaces") /\ ng.ifs[i].up /\ NOnly(ripng_if_down([ng EXCEPT !.ifs[i].up = FALSE], i))
ripng_interface_address(i, p) ==
    /\ NMay("interfaces") /\ p \in nenv.addrs[i]
    /\ NOnly(ripng_enable_apply([ng EXCEPT !.ifs[i].addrs = IF p \in @ THEN @ \ {p}
                                                           ELSE @ \cup {p}], nconf, i))

-----------------------------------------------------------------------------
(* Datagrams, timers, zebra.                                               *)

(* Responses must come from a link-local address that is not our own, from *)
(* the RIPng port, with hop limit 255; requests change nothing.            *)
ripng_read(pkt) ==
    /\ NMay("packets") /\ Countable
    /\ NOnly(IF pkt.version = 1 /\ pkt.cmd = "response" /\ pkt.from \in LinkLocal
                  /\ pkt.from \notin nenv.own /\ pkt.hops = 255
             THEN ripng_response_process(ng, pkt, pkt.from, pkt.ifx) ELSE ng)

NQuiet == ~ng.trigUpd
NTimeout(p) == ng.table[p].tmo /\ NQuiet /\ NOnly(ripng_timeout(ng, p))
NCollect(p) ==
    /\ ng.table[p].gc /\ NQuiet /\ ~(ng.trigInt /\ ng.trigger)
    /\ NOnly(ripng_garbage_collect(ng, p))

ripng_clear_changed_flag(s) ==
    [s EXCEPT !.table = [p \in NPrefixes |-> [@[p] EXCEPT !.chg = FALSE]]]
ripng_triggered_update(s) ==
    ripng_clear_changed_flag([s EXCEPT !.trigUpd = FALSE, !.trigInt = TRUE, !.trigger = FALSE,
                                       !.pend = {p \in @ : ~s.table[p].chg}])
NTriggered == ng.trigUpd /\ NOnly(ripng_triggered_update(ng))
ripng_triggered_interval ==
    /\ ng.trigInt /\ NQuiet
    /\ LET s == [ng EXCEPT !.trigInt = FALSE, !.trigger = FALSE]
       IN  NOnly(IF ng.trigger THEN ripng_triggered_update(s) ELSE s)
ripng_update == NQuiet /\ NOnly([ng EXCEPT !.trigInt = FALSE, !.trigger = FALSE, !.pend = {}])

(* The entries ripng_output_process writes for interface i.                *)
ripng_output_process(i, changedOnly) ==
    LET Plain(p) == /\ NHas(ng, p) /\ ng.table[p].supp = 0
                    /\ changedOnly => ng.table[p].chg
                    /\ ng.table[p].ifx # i
        Summary(p) == /\ ng.agg[p].on /\ ng.agg[p].count > 0 /\ ng.agg[p].supp = 0
                      /\ ~changedOnly
    IN  {[addr |-> p, metric |-> ng.table[p].metric] : p \in {q \in NPrefixes : Plain(q)}}
          \cup {[addr |-> p, metric |-> 1] : p \in {q \in NPrefixes : Summary(q)}}

(* Zebra's routes of one type, and the interface it names with them.       *)
NZebraRoute(p) ==
    /\ NMay("redistribution") /\ Len(nq) < nenv.queue
    /\ nzr' = IF p \in nzr THEN nzr \ {p} ELSE nzr \cup {p}
    /\ nq' = IF nconf.redist # {} THEN Append(nq, [add |-> p \notin nzr, prefix |-> p]) ELSE nq
    /\ UNCHANGED <<ng, nconf, nenv>>
ripng_zebra_read_ipv6 ==
    /\ nq # <<>> /\ Countable
    /\ LET m == Head(nq) IN
       ng' = IF m.add THEN ripng_redistribute_add(ng, NRedist("static"), m.prefix, nenv.via)
             ELSE ripng_redistribute_delete(ng, NRedist("static"), m.prefix, nenv.via)
    /\ nq' = Tail(nq)
    /\ UNCHANGED <<nconf, nzr, nenv>>

-----------------------------------------------------------------------------
(* Commands.                                                               *)

NReenabled(c) == NMay("network") /\ nconf' = c /\ ng' = ripng_enable_apply_all(ng, c)
                   /\ UNCHANGED <<nq, nzr, nenv>>
ripng_network(p) == p \notin nconf.nets /\ NReenabled([nconf EXCEPT !.nets = @ \cup {p}])
no_ripng_network(p) == p \in nconf.nets /\ NReenabled([nconf EXCEPT !.nets = @ \ {p}])
ripng_network_if(i) == NReenabled([nconf EXCEPT !.ifnames = IF i \in @ THEN @ \ {i} ELSE @ \cup {i}])
ripng_passive_interface(i) ==
    /\ NMay("network")
    /\ nconf' = [nconf EXCEPT !.passive = IF i \in @ THEN @ \ {i} ELSE @ \cup {i}]
    /\ ng' = [ng EXCEPT !.ifs[i].passive = i \in nconf'.passive]
    /\ UNCHANGED <<nq, nzr, nenv>>
ripng_route(p) ==
    /\ NMay("static") /\ p \notin nconf.static /\ Countable
    /\ nconf' = [nconf EXCEPT !.static = @ \cup {p}]
    /\ ng' = ripng_redistribute_add(ng, NStatic, p, "0")
    /\ UNCHANGED <<nq, nzr, nenv>>
no_ripng_route(p) ==
    /\ NMay("static") /\ p \in nconf.static
    /\ nconf' = [nconf EXCEPT !.static = @ \ {p}]
    /\ ng' = ripng_redistribute_delete(ng, NStatic, p, "0")
    /\ UNCHANGED <<nq, nzr, nenv>>
ripng_aggregate_address(p) ==
    NMay("aggregate") /\ ~ng.agg[p].on /\ NOnly(ripng_aggregate_add(ng, p))
no_ripng_aggregate_address(p) ==
    NMay("aggregate") /\ ng.agg[p].on /\ NOnly(ripng_aggregate_delete(ng, p))
ripng_redistribute_static ==
    /\ NMay("redistribution") /\ nconf.redist = {}
    /\ Len(nq) + Cardinality(nzr) <= nenv.queue
    /\ nconf' = [nconf EXCEPT !.redist = {"static"}]
    /\ nq' = nq \o [k \in 1..Cardinality(nzr) |-> [add |-> TRUE, prefix |-> SetToSeq(nzr)[k]]]
    /\ UNCHANGED <<ng, nzr, nenv>>
no_ripng_redistribute_static ==
    /\ NMay("redistribution") /\ nconf.redist # {}
    /\ nconf' = [nconf EXCEPT !.redist = {}]
    /\ ng' = ripng_redistribute_withdraw(ng, "static")
    /\ UNCHANGED <<nq, nzr, nenv>>

NNext ==
    \/ \E pkt \in nenv.packets : ripng_read(pkt)
    \/ \E p \in NPrefixes : NTimeout(p) \/ NCollect(p)
    \/ NTriggered
    \/ ripng_triggered_interval
    \/ ripng_update
    \/ \E p \in nenv.routes : NZebraRoute(p)
    \/ ripng_zebra_read_ipv6
    \/ \E i \in NIfs : \/ ripng_interface_wakeup(i) \/ ripng_interface_up(i)
                       \/ ripng_interface_down(i)
                       \/ \E p \in nenv.addrs[i] : ripng_interface_address(i, p)
    \/ \E p \in nenv.nets : ripng_network(p) \/ no_ripng_network(p)
    \/ \E i \in nenv.named : ripng_network_if(i) \/ ripng_passive_interface(i)
    \/ \E p \in nenv.routes : ripng_route(p) \/ no_ripng_route(p)
    \/ \E p \in nenv.aggregates : ripng_aggregate_address(p) \/ no_ripng_aggregate_address(p)
    \/ ripng_redistribute_static
    \/ no_ripng_redistribute_static

-----------------------------------------------------------------------------
(* As in Rip: an unreachable route and only such a one waits for           *)
(* collection, a usable learned one and no unreachable one can time out.   *)
RipngTimersMatch ==
    \A p \in NPrefixes : NHas(ng, p) =>
        /\ ng.table[p].gc <=> ng.table[p].metric = NInfinity
        /\ ng.table[p].tmo => ng.table[p].metric # NInfinity
        /\ ng.table[p].kind = NRte /\ ng.table[p].metric # NInfinity => ng.table[p].tmo

(* No change of a learned route is forgotten (ripng_event,                 *)
(* ripng_triggered_update, ripng_triggered_interval, ripng_update).        *)
RipngNoLostTrigger ==
    /\ ~(ng.trigUpd /\ ng.trigInt)
    /\ ng.pend # {} => ng.trigUpd \/ (ng.trigInt /\ ng.trigger)

(* Every route knows how many aggregates hide it, so none is announced     *)
(* beside its summary, and none stays hidden when the summary is gone.     *)
RipngSuppressed ==
    \A p \in NPrefixes : NHas(ng, p) => ng.table[p].supp = Cardinality(Above(ng, p))

(* An aggregate counts the routes and aggregates below it, so that it is   *)
(* announced while, and only while, it stands for something.               *)
RipngCounted ==
    \A a \in NPrefixes : ng.agg[a].on =>
        ng.agg[a].count =
            Cardinality({q \in NPrefixes : a \in Covers[q] /\ NHas(ng, q)})
              + Cardinality({q \in NPrefixes \ {a} : a \in Covers[q] /\ ng.agg[q].on})

(* While only learned routes come and go, below an aggregate with none     *)
(* inside another, the counts are right.                                   *)
RipngCountedOrderly == nenv.orderly => RipngCounted

=============================================================================
