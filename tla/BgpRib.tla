------------------------------- MODULE BgpRib -------------------------------
(***************************************************************************)
(* The routing information base of bgpd: the routes of every prefix, which *)
(* is selected, what the kernel and the peers are told (bgpd/bgp_route.c,  *)
(* bgp_advertise.c, bgp_nexthop.c and the writing half of bgp_packet.c),   *)
(* for one address family.                                                 *)
(*                                                                         *)
(* b is the state of the daemon:                                           *)
(*   rib      per prefix the list of its routes, the newest first          *)
(*   adjin    per peer and prefix what was received (soft-reconfiguration) *)
(*   out      per peer and prefix the adjacency: sent (adj->attr), adv     *)
(*            (none, upd or wd), attr and key (of adv->binfo)              *)
(*   upd, wd  per peer the FIFOs of advertisements                         *)
(*   held     per peer what the packets written so far have told it        *)
(*   fib      per prefix the next hop zebra was given, or NONE             *)
(*   peer     per peer the session: est, id, addr, pcount, limit, overflow, *)
(*            nsf, nsfwait (graceful restart), orfwait, orf, eor, rcap,    *)
(*            dorig, sync (synctime is set), eorsent                       *)
(*   f        per peer the filters                                         *)
(*   static   per prefix the network statement: on, backdoor, valid, nh,   *)
(*            med                                                          *)
(*   agg      per prefix the aggregate-address: on, summary, asSet, count  *)
(*   redist   the route types that are redistributed                       *)
(*   dconf    the peers with default-originate                             *)
(*   cache    the next hops looked up since the last scan                  *)
(*   damp     the lists of BgpDamp                                         *)
(* A route has also ripe: the peers whose synctime is after its uptime.    *)
(***************************************************************************)
EXTENDS BgpDecision, BgpDamp
LOCAL INSTANCE SequencesExt
LOCAL INSTANCE FiniteSetsExt

CONSTANTS Peers, Nets,
          Table,         \* the prefixes in the order of a table walk
          Under,         \* Under[p]: the more specific ones, in that order
          DefaultRoute   \* the prefix 0.0.0.0/0

ASSUME TableAssumption ==
    /\ Self \notin Peers
    /\ Range(Table) = Nets
    /\ \A p \in Nets : Range(Under[p]) \subseteq Nets \ {p}

NoAttr == [none |-> TRUE]
NoAdj == [sent |-> NoAttr, adv |-> "none", attr |-> NoAttr, key |-> <<>>]
NoStatic == [on |-> FALSE, backdoor |-> FALSE, valid |-> FALSE, nh |-> 0, med |-> 0]
NoAggregate == [on |-> FALSE, summary |-> FALSE, asSet |-> FALSE, count |-> 0]
NoSession ==
    [est |-> FALSE, id |-> 0, addr |-> 0, pcount |-> 0, limit |-> FALSE, overflow |-> FALSE,
     nsf |-> FALSE, nsfwait |-> FALSE, orfwait |-> FALSE, orf |-> {}, eor |-> FALSE,
     rcap |-> FALSE, dorig |-> FALSE, sync |-> FALSE, eorsent |-> FALSE]

Nbr(b) == [q \in Peers \cup {Self} |->
              IF q = Self THEN [id |-> 0, addr |-> 0] ELSE [id |-> b.peer[q].id, addr |-> b.peer[q].addr]]

bgp_info_new(peer, sub, type, a, flags) ==
    [peer |-> peer, sub |-> sub, type |-> type, attr |-> a, igp |-> 0, flags |-> flags,
     suppress |-> 0, damp |-> NoDamp, ripe |-> {}]
Key(p, ri) == <<p, ri.peer, ri.type, ri.sub>>

MapIndex(list, Op(_, _)) == FoldLeft(LAMBDA acc, ri : Append(acc, Op(Len(acc) + 1, ri)), <<>>, list)
MapSeq(list, Op(_)) == MapIndex(list, LAMBDA i, ri : Op(ri))

(* The first route of the list that Test accepts, 0 when there is none.    *)
IndexOf(list, Test(_)) ==
    LET hits == {i \in 1..Len(list) : Test(list[i])} IN IF hits = {} THEN 0 ELSE Min(hits)
FromPeer(b, p, q) ==
    IndexOf(b.rib[p], LAMBDA ri : ri.peer = q /\ ri.type = "BGP" /\ ri.sub = "NORMAL")
Own(b, p, type, sub) ==
    IndexOf(b.rib[p], LAMBDA ri : ri.peer = Self /\ ri.type = type /\ ri.sub = sub)

bgp_info_add(b, p, ri) == [b EXCEPT !.rib[p] = <<ri>> \o @]
(* bgp_info_delete and bgp_info_free, which takes the dampening            *)
(* information off its list.                                               *)
bgp_info_delete(b, p, i) ==
    LET ri == b.rib[p][i] IN
    [b EXCEPT !.rib[p] = RemoveAt(@, i),
              !.damp = IF ri.damp = NoDamp THEN @
                       ELSE bgp_damp_info_free(@, Key(p, ri), ri, FALSE).d]
SetRoute(b, p, i, ri) == [b EXCEPT !.rib[p][i] = ri]
Flags(b, p, i, set, clear) == [b EXCEPT !.rib[p][i].flags = (@ \ clear) \cup set]
(* The outcome of a dampening function.                                    *)
Dampened(b, p, i, o) ==
    LET s == [b EXCEPT !.damp = o.d] IN
    IF o.gone THEN [s EXCEPT !.rib[p] = RemoveAt(@, i)] ELSE SetRoute(s, p, i, o.ri)

-----------------------------------------------------------------------------
(* Advertisements (bgp_advertise.c).                                       *)

Without(fifo, p) == SelectSeq(fifo, LAMBDA x : x # p)
bgp_advertise_clean(b, q, p) ==
    [b EXCEPT !.out[q][p] = [@ EXCEPT !.adv = "none", !.attr = NoAttr, !.key = <<>>],
              !.upd[q] = Without(@, p), !.wd[q] = Without(@, p)]
bgp_adj_out_set(b, q, p, a, ri) ==
    LET s == bgp_advertise_clean(b, q, p) IN
    [s EXCEPT !.out[q][p] = [@ EXCEPT !.adv = "upd", !.attr = a, !.key = Key(p, ri)],
              !.upd[q] = Append(@, p)]
(* Mutant of the next definition: the waiting advertisement stays. *)
bgp_adj_out_unset_late(b, q, p) ==
    IF b.out[q][p].sent = NoAttr THEN b
    ELSE [bgp_advertise_clean(b, q, p) EXCEPT !.out[q][p].adv = "wd", !.wd[q] = Append(@, p)]
bgp_adj_out_unset(b, q, p) ==
    LET s == bgp_advertise_clean(b, q, p) IN
    IF b.out[q][p].sent = NoAttr THEN s
    ELSE [s EXCEPT !.out[q][p].adv = "wd", !.wd[q] = Append(@, p)]
bgp_adj_out_remove(b, q, p) == [bgp_advertise_clean(b, q, p) EXCEPT !.out[q][p] = NoAdj]
bgp_adj_in_set(b, q, p, a) == [b EXCEPT !.adjin[q][p] = a]
bgp_adj_in_unset(b, q, p) == [b EXCEPT !.adjin[q][p] = NoAttr]

-----------------------------------------------------------------------------
(* Selection (bgp_process).                                                *)

Announceable(c, b, ri, q, p) ==
    bgp_announce_check(c, b.f[q], Nbr(b), ri, q, p,
                       b.peer[q].dorig /\ p = DefaultRoute, b.peer[q].orf)
Advertised(b, q, p, ri, check) ==
    IF check.permit THEN bgp_adj_out_set(b, q, p, check.attr, ri) ELSE bgp_adj_out_unset(b, q, p)
Advertise(c, b, q, p, ri) == Advertised(b, q, p, ri, Announceable(c, b, ri, q, p))

InFib(ri) == ri.type = "BGP" /\ ri.sub = "NORMAL"
bgp_zebra_announce(b, p, ri) == [b EXCEPT !.fib[p] = ri.attr.nh]
bgp_zebra_withdraw(b, p) == [b EXCEPT !.fib[p] = NONE]

Selected(list) == IndexOf(list, LAMBDA ri : "selected" \in ri.flags)
TellPeer(c, b, p, new, q) ==
    IF new = 0 THEN bgp_adj_out_unset(b, q, p) ELSE Advertise(c, b, q, p, b.rib[p][new])
RECURSIVE TellPeers(_, _, _, _, _)
TellPeers(c, b, p, new, qs) ==
    IF qs = {} THEN b
    ELSE LET q == CHOOSE q \in qs : TRUE IN TellPeers(c, TellPeer(c, b, p, new, q), p, new, qs \ {q})
TellZebra(b, p, old, new) ==
    IF new # 0 /\ InFib(b.rib[p][new]) THEN bgp_zebra_announce(b, p, b.rib[p][new])
    ELSE IF old # 0 /\ InFib(b.rib[p][old]) THEN bgp_zebra_withdraw(b, p)
    ELSE b
Unselect(b, p, i) == IF i = 0 THEN b ELSE Flags(b, p, i, {}, {"selected"})
Select(b, p, i) == IF i = 0 THEN b ELSE Flags(b, p, i, {"selected"}, {"attr-changed"})
(* The selection of p moves from index old to index new (0: none).         *)
Reselect(c, b, p, old, new) ==
    IF old # 0 /\ old = new /\ "attr-changed" \notin b.rib[p][old].flags
    THEN IF "igp-changed" \in b.rib[p][old].flags THEN bgp_zebra_announce(b, p, b.rib[p][old]) ELSE b
    ELSE TellZebra(TellPeers(c, Select(Unselect(b, p, old), p, new), p, new,
                             {q \in Peers : b.peer[q].est /\ ~b.peer[q].orfwait}), p, old, new)
bgp_process(c, b, p) == Reselect(c, b, p, Selected(b.rib[p]), Best(c, Nbr(b), b.rib[p]))

-----------------------------------------------------------------------------
(* Aggregation.  The walks visit the more specific prefixes in order; acc  *)
(* carries the daemon and what has been gathered from the routes.          *)

Component(ri) == ~BGP_INFO_HOLDDOWN(ri) /\ ri.sub # "AGGREGATE"
Gathered(g, ri, asSet) ==
    IF ~asSet THEN g
    ELSE [g EXCEPT !.origin = IF @ < ri.attr.origin THEN ri.attr.origin ELSE @,
                   !.path = IF g.any THEN aspath_aggregate(@, ri.attr.path) ELSE ri.attr.path,
                   !.comm = @ \cup ri.attr.comm,
                   !.any = TRUE]
Nothing == [origin |-> BGP_ORIGIN_IGP, path |-> <<>>, comm |-> {}, any |-> FALSE]

(* bgp_aggregate_add and the end of bgp_aggregate_route: the aggregate     *)
(* itself is a route of this speaker.                                      *)
AggregateInstall(c, b, p, g) ==
    LET ag == b.agg[p]
        new == bgp_info_new(Self, "AGGREGATE", "BGP",
                            bgp_attr_aggregate_intern(c, g.origin, g.path, g.comm, ag.asSet), {"valid"})
    IN  IF ag.count > 0 THEN bgp_process(c, bgp_info_add(b, p, new), p) ELSE b

(* Every component of one node counts, and is suppressed by summary-only.  *)
CountNode(b, p, pp, indices) ==
    LET mark(ri) == [ri EXCEPT !.suppress = @ + 1, !.flags = @ \cup {"attr-changed"}]
        hits == {i \in indices : Component(b.rib[pp][i])}
    IN  [b EXCEPT !.agg[p].count = @ + Cardinality(hits),
                  !.rib[pp] = MapIndex(b.rib[pp], LAMBDA i, ri : IF i \in hits /\ b.agg[p].summary THEN mark(ri) ELSE ri)]
ProcessIf(c, b, pp, cond) == IF cond THEN bgp_process(c, b, pp) ELSE b

GatherNode(g, list, indices, asSet) ==
    FoldLeft(LAMBDA acc, i : IF i \in indices /\ Component(list[i])
                             THEN Gathered(acc, list[i], asSet) ELSE acc,
             g, [i \in 1..Len(list) |-> i])

AddNode(c, acc, p, pp, all) ==
    [b |-> ProcessIf(c, CountNode(acc.b, p, pp, all), pp,
                     acc.b.agg[p].summary /\ \E i \in all : Component(acc.b.rib[pp][i])),
     g |-> GatherNode(acc.g, acc.b.rib[pp], all, acc.b.agg[p].asSet)]
AddEnd(c, p, acc) == AggregateInstall(c, acc.b, p, acc.g)
bgp_aggregate_add(c, b, p) ==
    AddEnd(c, p, FoldLeft(LAMBDA acc, pp : AddNode(c, acc, p, pp, DOMAIN acc.b.rib[pp]),
                          [b |-> b, g |-> Nothing], Under[p]))

(* A route leaves the selection and the list.                              *)
Unlist(c, b, p, i) ==
    IF i = 0 THEN b ELSE bgp_info_delete(bgp_process(c, Flags(b, p, i, {}, {"valid"}), p), p, i)
UncountNode(c, b, p, pp, hits) ==
    LET sum == b.agg[p].summary
        down(ri) == [ri EXCEPT !.suppress = @ - 1,
                               !.flags = IF ri.suppress = 1 THEN @ \cup {"attr-changed"} ELSE @]
    IN  ProcessIf(c, [b EXCEPT !.agg[p].count = @ - Cardinality(hits),
                               !.rib[pp] = MapIndex(b.rib[pp], LAMBDA i, ri : IF i \in hits /\ sum THEN down(ri) ELSE ri)],
                  pp, sum /\ \E i \in hits : b.rib[pp][i].suppress = 1)
RECURSIVE Uncount(_, _, _, _)
Uncount(c, b, p, nodes) ==
    IF nodes = <<>> THEN Unlist(c, b, p, Own(b, p, "BGP", "AGGREGATE"))
    ELSE LET pp == Head(nodes) IN
         Uncount(c, UncountNode(c, b, p, pp, {i \in DOMAIN b.rib[pp] : Component(b.rib[pp][i])}), p, Tail(nodes))
bgp_aggregate_delete(c, b, p) == Uncount(c, b, p, Under[p])

(* new (<<prefix, index, route>>) is the route that is being added; its    *)
(* index is 0 when it is not in the list yet.  del (<<prefix, index>>) is  *)
(* the one that goes, which the walk leaves out.                           *)
NewRi(b, new) == IF new[2] = 0 THEN new[3] ELSE b.rib[new[1]][new[2]]
CountNew(b, p, new) ==
    [b EXCEPT !.agg[p].count = @ + 1,
              !.rib = IF ~b.agg[p].summary \/ new[2] = 0 THEN @
                      ELSE [@ EXCEPT ![new[1]][new[2]].suppress = @ + 1]]
RouteEnd(c, acc, p, new) ==
    AggregateInstall(c, IF new = <<>> THEN acc.b ELSE CountNew(acc.b, p, new), p,
                     IF new = <<>> THEN acc.g ELSE Gathered(acc.g, NewRi(acc.b, new), acc.b.agg[p].asSet))
RECURSIVE RouteWalk(_, _, _, _, _, _)
RouteWalk(c, acc, p, nodes, new, del) ==
    IF nodes = <<>> THEN RouteEnd(c, acc, p, new)
    ELSE LET pp == Head(nodes) IN
         RouteWalk(c, AddNode(c, acc, p, pp, {i \in DOMAIN acc.b.rib[pp] : <<pp, i>> # del}), p, Tail(nodes), new, del)
bgp_aggregate_route(c, b, p, new, del) == RouteWalk(c, [b |-> b, g |-> Nothing], p, Under[p], new, del)

(* The aggregates p is part of, the most specific first, are made anew.    *)
AggregatesOf(b, p) == SelectSeq(Reverse(Table), LAMBDA a : b.agg[a].on /\ p \in Range(Under[a]))
RECURSIVE Reaggregate(_, _, _, _, _)
Reaggregate(c, b, as, new, del) ==
    IF as = <<>> THEN b
    ELSE Reaggregate(c, bgp_aggregate_route(c, bgp_aggregate_delete(c, b, Head(as)), Head(as), new, del),
                     Tail(as), new, del)
bgp_aggregate_increment(c, b, p, i, ri) ==
    IF p = DefaultRoute \/ BGP_INFO_HOLDDOWN(ri) THEN b
    ELSE Reaggregate(c, b, AggregatesOf(b, p), <<p, i, ri>>, <<>>)
(* Mutant of the next definition: the leaving route is counted. *)
bgp_aggregate_decrement_late(c, b, p, i) ==
    IF p = DefaultRoute THEN b ELSE Reaggregate(c, b, AggregatesOf(b, p), <<>>, <<>>)
bgp_aggregate_decrement(c, b, p, i) ==
    IF p = DefaultRoute THEN b ELSE Reaggregate(c, b, AggregatesOf(b, p), <<>>, <<p, i>>)
(* What the increment does to a route that is not in the list yet: every   *)
(* summary-only aggregate suppresses it.                                   *)
SuppressedBy(c, b, p, ri) ==
    IF p = DefaultRoute \/ BGP_INFO_HOLDDOWN(ri) THEN 0
    ELSE Cardinality({a \in Range(AggregatesOf(b, p)) : b.agg[a].summary})

(* A route that is not in the list yet: counted by the aggregates, added.  *)
AddRoute(c, b, p, ri) ==
    bgp_info_add(bgp_aggregate_increment(c, b, p, 0, ri), p,
                 [ri EXCEPT !.suppress = SuppressedBy(c, b, p, ri)])
(* A route leaves: the aggregates, the selection, the list.                *)
DropRoute(c, b, p, i) == Unlist(c, bgp_aggregate_decrement(c, b, p, i), p, i)
=============================================================================
