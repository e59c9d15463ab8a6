------------------------------ MODULE BgpRoute ------------------------------
(***************************************************************************)
(* The events that change the routing information base of bgpd: updates    *)
(* and withdraws from the peers, sessions going up and down, the timers,   *)
(* the writing of packets, the operator's network, aggregate-address,      *)
(* redistribute, dampening and clear commands, and zebra's routes.         *)
(*                                                                         *)
(* env is one environment: the speaker c, what may happen, and the sets of *)
(* arguments (routes, hops: what zebra may answer about a next hop, ...).  *)
(***************************************************************************)
EXTENDS BgpRib
LOCAL INSTANCE SequencesExt
LOCAL INSTANCE FiniteSetsExt

CONSTANT Environment

VARIABLES env, b,
          hop      \* what zebra knows of each next hop and each network:
                   \* metric (NONE: no route) and gw
vars == <<env, b, hop>>

May(what) == what \in env.may
c == env.c
Step(next) == b' = next /\ b.up /\ ~b.damp.damaged /\ UNCHANGED <<env, hop>>

Unknown == [metric |-> -2, gw |-> 0]      \* no entry in the next hop cache

Start(e) ==
    [rib |-> [p \in Nets |-> <<>>],
     adjin |-> [q \in Peers |-> [p \in Nets |-> NoAttr]],
     out |-> [q \in Peers |-> [p \in Nets |-> NoAdj]],
     upd |-> [q \in Peers |-> <<>>], wd |-> [q \in Peers |-> <<>>],
     held |-> [q \in Peers |-> [p \in Nets |-> <<>>]],
     fib |-> [p \in Nets |-> NONE],
     peer |-> [q \in Peers |-> NoSession],
     f |-> [q \in Peers |-> e.f],
     static |-> [p \in Nets |-> NoStatic],
     agg |-> [p \in Nets |-> NoAggregate],
     redist |-> {}, dconf |-> {}, cache |-> [h \in DOMAIN e.hops |-> Unknown],
     damp |-> DampOff, up |-> TRUE]

Init ==
    /\ env \in Environment
    /\ b = Start(env)
    /\ hop \in {h \in [DOMAIN env.hops -> UNION {env.hops[x] : x \in DOMAIN env.hops}] :
                   \A x \in DOMAIN env.hops : h[x] \in env.hops[x]}

-----------------------------------------------------------------------------
(* Next hops (bgp_nexthop.c).  connected is the set of next hops on a      *)
(* network of this router.                                                 *)

bgp_nexthop_check_ebgp(a) == a.nh \in env.connected
bgp_nexthop_self(a) == a.nh = env.ownaddr

(* The cache answers, or zebra is asked and the answer cached.             *)
zlookup_query(h) == hop[h]
bgp_nexthop_lookup(s, h) ==
    LET bnc == IF s.cache[h] = Unknown THEN zlookup_query(h) ELSE s.cache[h] IN
    [cache |-> [s.cache EXCEPT ![h] = bnc], valid |-> bnc.metric # NONE,
     igp |-> IF bnc.metric = NONE THEN 0 ELSE bnc.metric]
bgp_nexthop_cache_changed(bnc1, bnc2) == bnc1.gw # bnc2.gw

MultiHop(q) == peer_sort(c, q) = "ibgp" \/ (peer_sort(c, q) = "ebgp" /\ ~c.peer[q].ttl1)
                \/ Has(c, q, "disable-connected-check")
(* The validity of a route that has just been received.                    *)
Validated(s, q, ri) ==
    LET r == bgp_nexthop_lookup(s, ri.attr.nh) IN
    IF ~MultiHop(q) THEN [cache |-> s.cache, ri |-> Flag(ri, {"valid"}, {})]
    ELSE [cache |-> r.cache,
          ri |-> [(IF r.valid THEN Flag(ri, {"valid"}, {}) ELSE Flag(ri, {}, {"valid"})) EXCEPT !.igp = r.igp]]

-----------------------------------------------------------------------------
(* Updates.                                                                *)

Pcount(s, q, n) == [s EXCEPT !.peer[q].pcount = @ + n]
Dampens(s, q) == s.damp.on /\ peer_sort(c, q) = "ebgp"

bgp_rib_remove(s, p, i) ==
    LET ri == s.rib[p][i] IN
    IF "history" \in ri.flags THEN bgp_info_delete(s, p, i)
    ELSE DropRoute(c, IF "stale" \in ri.flags THEN s ELSE Pcount(s, ri.peer, -1), p, i)

(* The route is withdrawn from the selection; it stays, as history, when   *)
(* dampening keeps it.                                                     *)
History(s, p, i, valid) == Flags(bgp_process(c, Flags(s, p, i, {}, {"valid"}), p), p, i, valid, {})
WithdrawDamped(s, p, i, o) ==
    IF o.status = "suppressed" THEN Dampened(s, p, i, o)
    ELSE History(Dampened(s, p, i, o), p, i, o.ri.flags \cap {"valid"})
WithdrawCounted(s, p, i, force) ==
    LET ri == s.rib[p][i] IN
    IF ~force /\ Dampens(s, ri.peer)
    THEN WithdrawDamped(s, p, i, bgp_damp_withdraw(s.damp, Key(p, ri), ri, FALSE))
    ELSE Unlist(c, s, p, i)
bgp_rib_withdraw(s, p, i, force) ==
    WithdrawCounted(IF "history" \in s.rib[p][i].flags THEN s
                    ELSE bgp_aggregate_decrement(c, Pcount(s, s.rib[p][i].peer, -1), p, i), p, i, force)

(* More prefixes than the peer may announce: the session is to be closed,  *)
(* unless the limit only warns.                                            *)
bgp_maximum_prefix_overflow(s, q, always) ==
    LET m == c.peer[q].pmax
        exceeded == s.peer[q].pcount > m.max
    IN  IF m.max = NONE THEN s
        ELSE IF ~exceeded THEN [s EXCEPT !.peer[q].limit = FALSE]
        ELSE IF s.peer[q].limit /\ ~always THEN s
        ELSE [s EXCEPT !.peer[q].limit = TRUE, !.peer[q].overflow = @ \/ ~m.warning]

Loops(q, a) == OwnAs(c, q, a) \/ a.oid = c.rid \/ bgp_cluster_filter(c, a)
Martian(a) == bgp_nexthop_self(a) \/ a.nh = 0 \/ a.nh \in env.classE
Unreachable(q, a) ==
    /\ peer_sort(c, q) = "ebgp" /\ c.peer[q].ttl1
    /\ ~bgp_nexthop_check_ebgp(a) /\ ~Has(c, q, "disable-connected-check")

Unstale(s, p, i) ==
    LET ri == s.rib[p][i] IN
    IF "stale" \in ri.flags THEN Pcount(Flags(s, p, i, {}, {"stale"}), ri.peer, 1) ELSE s

(* A route counts in the aggregates and in the selection.                  *)
Use(s, p, i) == bgp_process(c, bgp_aggregate_increment(c, s, p, i, s.rib[p][i]), p)
UseUnless(suppressed, s, p, i) == IF suppressed THEN s ELSE Use(s, p, i)

Back(s, p, i, o) == UseUnless(o.status = "suppressed", Dampened(Pcount(s, s.rib[p][i].peer, 1), p, i, o), p, i)
Duplicate(s, p, i) ==
    LET ri == s.rib[p][i] IN
    IF Dampens(s, ri.peer) /\ "history" \in ri.flags
    THEN Back(s, p, i, bgp_damp_update(s.damp, Key(p, ri), ri))
    ELSE Unstale(s, p, i)

(* Other attributes: an implicit withdraw.                                 *)
Penalize(s, p, i) ==
    LET ri == s.rib[p][i] IN
    IF ~Dampens(s, ri.peer) THEN s
    ELSE IF "history" \in ri.flags THEN Pcount(s, ri.peer, 1)
    ELSE Dampened(s, p, i, bgp_damp_withdraw(s.damp, Key(p, ri), ri, TRUE))
Change(s, p, i, a) == [bgp_aggregate_decrement(c, s, p, i) EXCEPT !.rib[p][i].attr = a]
SetValid(s, p, i, v) == SetRoute([s EXCEPT !.cache = v.cache], p, i, v.ri)
Revalidate(s, p, i) == SetValid(s, p, i, Validated(s, s.rib[p][i].peer, s.rib[p][i]))
UpdateDamped(s, p, i, o) ==
    LET dampens == Dampens(s, s.rib[p][i].peer)
        damped == IF dampens THEN Dampened(s, p, i, o) ELSE s
        suppressed == dampens /\ o.status = "suppressed"
    IN  UseUnless(suppressed, IF suppressed THEN damped ELSE Revalidate(damped, p, i), p, i)
Changed(s, p, i) == UpdateDamped(s, p, i, bgp_damp_update(s.damp, Key(p, s.rib[p][i]), s.rib[p][i]))
Replace(s, p, i, a) ==
    Changed(Change(Penalize(Flags(Unstale(s, p, i), p, i, {"attr-changed"}, {}), p, i), p, i, a), p, i)

AddValid(s, q, p, v) == AddRoute(c, [Pcount(s, q, 1) EXCEPT !.cache = v.cache], p, v.ri)
(* Mutant of the next definition: a selected prefix is not processed. *)
ProcessFirst(overflow, s, p) == IF overflow \/ Selected(s.rib[p]) # 0 THEN s ELSE bgp_process(c, s, p)
ProcessUnless(overflow, s, p) == IF overflow THEN s ELSE bgp_process(c, s, p)
Limit(s, q, p, was) == ProcessUnless(s.peer[q].overflow /\ ~was, s, p)
NewRoute(s, q, p, a) ==
    Limit(bgp_maximum_prefix_overflow(
              AddValid(s, q, p, Validated(s, q, bgp_info_new(q, "NORMAL", "BGP", a, {}))), q, FALSE),
          q, p, s.peer[q].overflow)

bgp_update(s, q, p, a, soft) ==
    LET s1 == IF Has(c, q, "soft-reconfiguration") /\ ~soft THEN bgp_adj_in_set(s, q, p, a) ELSE s
        i == FromPeer(s, p, q)
        in == bgp_input_modifier(c, s.f[q], q, p, a)
        filtered == \/ Loops(q, a) \/ ~bgp_input_filter(s.f[q], p) \/ ~in.permit
                    \/ Unreachable(q, in.attr) \/ Martian(in.attr)
        fresh == [s1 EXCEPT !.rib[p][i].ripe = {}]
    IN  IF filtered THEN IF i = 0 THEN s1 ELSE bgp_rib_withdraw(s1, p, i, TRUE)
        ELSE IF i = 0 THEN NewRoute(s1, q, p, in.attr)
        ELSE IF attrhash_cmp(s.rib[p][i].attr, in.attr)
        THEN Duplicate(Flags(fresh, p, i, {}, {"attr-changed"}), p, i)
        ELSE Replace(fresh, p, i, in.attr)

bgp_withdraw(s, q, p) ==
    LET s1 == IF Has(c, q, "soft-reconfiguration") THEN bgp_adj_in_unset(s, q, p) ELSE s
        i == FromPeer(s, p, q)
    IN  IF i # 0 /\ "history" \notin s.rib[p][i].flags THEN bgp_rib_withdraw(s1, p, i, FALSE) ELSE s1

Working(q) == b.peer[q].est /\ ~b.peer[q].overflow
Update ==
    /\ May("update")
    /\ \E u \in env.routes : Working(u.peer) /\ Step(bgp_update(b, u.peer, u.p, u.a, FALSE))
Withdraw ==
    /\ May("withdraw")
    /\ \E u \in env.routes : Working(u.peer) /\ Step(bgp_withdraw(b, u.peer, u.p))

-----------------------------------------------------------------------------
(* Announcing.                                                             *)

(* A packet is what bgp_packet_attribute writes for it.                    *)
Encoded(s, q, a, from) == bgp_packet_attribute(c, q, a, from, Nbr(s)[from].id)

bgp_default_originate(s, q, withdraw) ==
    LET a == [bgp_attr_default_set(BGP_ORIGIN_IGP) EXCEPT !.lp = c.deflp, !.nh = c.peer[q].own] IN
    IF withdraw
    THEN [s EXCEPT !.peer[q].dorig = FALSE,
                   !.held[q][DefaultRoute] = IF s.peer[q].dorig THEN <<>> ELSE @]
    ELSE [s EXCEPT !.peer[q].dorig = TRUE, !.held[q][DefaultRoute] = Encoded(s, q, a, Self)]

AnnounceNode(s, q, p, i) ==
    IF i = 0 \/ s.rib[p][i].peer = q THEN s ELSE Advertise(c, s, q, p, s.rib[p][i])
RECURSIVE AnnounceNodes(_, _, _)
AnnounceNodes(s, q, nodes) ==
    IF nodes = <<>> THEN s
    ELSE AnnounceNodes(AnnounceNode(s, q, Head(nodes), Selected(s.rib[Head(nodes)])), q, Tail(nodes))
bgp_announce_table(s, q) ==
    AnnounceNodes(IF q \in s.dconf THEN bgp_default_originate(s, q, FALSE) ELSE s, q, Table)
bgp_announce_route(s, q) ==
    IF ~s.peer[q].est \/ s.peer[q].orfwait THEN s ELSE bgp_announce_table(s, q)

(* clear ip bgp soft out.                                                  *)
SoftOut == \E q \in Peers : May("soft-out") /\ Step(bgp_announce_route(b, q))
(* A ROUTE-REFRESH, with the prefixes that its ORF denies.                 *)
bgp_route_refresh_receive ==
    /\ May("refresh")
    /\ \E q \in Peers, deny \in env.orf :
          /\ b.peer[q].est
          /\ Step(bgp_announce_route([b EXCEPT !.peer[q].orf = deny, !.peer[q].orfwait = FALSE], q))

KeyIndex(s, key) == IndexOf(s.rib[key[1]], LAMBDA ri : Key(key[1], ri) = key)
RouteOf(s, key) == s.rib[key[1]][KeyIndex(s, key)]
(* May the head of the update FIFO be written?                             *)
Ripe(s, q) ==
    LET ri == RouteOf(s, s.out[q][Head(s.upd[q])].key) IN
    /\ q \in ri.ripe
    /\ ri.peer # Self /\ s.peer[ri.peer].rcap /\ "stale" \notin ri.flags => s.peer[ri.peer].eor

EachRoute(s, Op(_)) == [p \in Nets |-> MapSeq(s.rib[p], Op)]
(* The routeadv timer sets synctime: what is older may be written.  It is  *)
(* of no consequence while nothing waits for it.                           *)
bgp_routeadv_timer ==
    \E q \in Peers :
        /\ b.peer[q].est
        /\ \/ b.upd[q] # <<>> /\ ~Ripe(b, q)
           \/ b.peer[q].rcap /\ ~b.peer[q].sync
        /\ Step([b EXCEPT !.peer[q].sync = TRUE,
                          !.rib = EachRoute(b, LAMBDA ri : [ri EXCEPT !.ripe = @ \cup {q}])])

(* All the prefixes with the attributes of the head go in its packet.      *)
bgp_update_packet(s, q) ==
    LET first == s.out[q][Head(s.upd[q])]
        all == {p \in Range(s.upd[q]) : attrhash_cmp(s.out[q][p].attr, first.attr)}
        packet == Encoded(s, q, first.attr, RouteOf(s, first.key).peer)
    IN  [s EXCEPT !.held[q] = [p \in Nets |-> IF p \in all THEN packet ELSE s.held[q][p]],
                  !.out[q] = [p \in Nets |-> IF p \in all THEN [NoAdj EXCEPT !.sent = first.attr] ELSE s.out[q][p]],
                  !.upd[q] = SelectSeq(@, LAMBDA p : p \notin all)]
bgp_withdraw_packet(s, q) ==
    LET all == Range(s.wd[q]) IN
    [s EXCEPT !.held[q] = [p \in Nets |-> IF p \in all THEN <<>> ELSE s.held[q][p]],
              !.out[q] = [p \in Nets |-> IF p \in all THEN NoAdj ELSE s.out[q][p]],
              !.wd[q] = <<>>]
bgp_update_packet_eor(s, q) == [s EXCEPT !.peer[q].eorsent = TRUE]

bgp_write_packet(q) ==
    /\ b.peer[q].est
    /\ IF b.wd[q] # <<>> THEN Step(bgp_withdraw_packet(b, q))
       ELSE IF b.upd[q] # <<>> /\ Ripe(b, q) THEN Step(bgp_update_packet(b, q))
       ELSE /\ b.peer[q].rcap /\ b.peer[q].sync /\ ~b.peer[q].eorsent
            /\ Step(bgp_update_packet_eor(b, q))
Write == \E q \in Peers : bgp_write_packet(q)

-----------------------------------------------------------------------------
(* Sessions.                                                               *)

ClearStale(s, p, i) == IF i # 0 /\ "stale" \in s.rib[p][i].flags THEN bgp_rib_remove(s, p, i) ELSE s
RECURSIVE ClearStaleNodes(_, _, _)
ClearStaleNodes(s, q, nodes) ==
    IF nodes = <<>> THEN s
    ELSE ClearStaleNodes(ClearStale(s, Head(nodes), FromPeer(s, Head(nodes), q)), q, Tail(nodes))
bgp_clear_stale_route(s, q) == ClearStaleNodes(s, q, Table)

KeepStale(s, ri) == s.peer[ri.peer].nsfwait /\ s.peer[ri.peer].nsf /\ ri.flags \cap {"stale", "history", "damped"} = {}
ClearNode(s, q, p, i) ==
    IF i = 0 THEN s
    ELSE IF KeepStale(s, s.rib[p][i]) THEN Pcount(Flags(s, p, i, {"stale"}, {}), q, -1)
    ELSE bgp_rib_remove(s, p, i)
RECURSIVE ClearNodes(_, _, _)
ClearNodes(s, q, nodes) ==
    IF nodes = <<>> THEN s
    ELSE LET p == Head(nodes) IN
         ClearNodes(bgp_adj_out_remove(bgp_adj_in_unset(ClearNode(s, q, p, FromPeer(s, p, q)), q, p), q, p),
                    q, Tail(nodes))
bgp_clear_route(s, q) == ClearNodes(s, q, Table)

(* n is what the OPEN messages agreed on: restart, preserve, orf.          *)
bgp_establish(s, q, n) ==
    LET s1 == [s EXCEPT !.peer[q] = [@ EXCEPT !.est = TRUE, !.nsfwait = FALSE,
                                              !.id = env.nbr[q].id, !.addr = env.nbr[q].addr, !.rcap = n.restart]]
        s2 == IF s.peer[q].nsf /\ ~(n.restart /\ n.preserve) THEN bgp_clear_stale_route(s1, q) ELSE s1
    IN  bgp_announce_route([s2 EXCEPT !.peer[q].nsf = n.restart, !.peer[q].orfwait = n.orf], q)
bgp_stop(s, q, wait) ==
    LET s1 == [s EXCEPT !.peer[q] = [@ EXCEPT !.est = FALSE, !.nsfwait = wait, !.nsf = @ /\ wait]]
    IN  [bgp_clear_route(s1, q) EXCEPT
            !.peer[q] = [NoSession EXCEPT !.nsf = s1.peer[q].nsf, !.nsfwait = wait, !.overflow = s.peer[q].overflow],
            !.held[q] = [p \in Nets |-> <<>>]]

Establish ==
    \E q \in DOMAIN env.nbr, n \in env.opens :
        ~b.peer[q].est /\ ~b.peer[q].overflow /\ Step(bgp_establish(b, q, n))
(* A connection that breaks while graceful restart was agreed on waits for *)
(* the peer to come back.                                                  *)
Stop ==
    \E q \in Peers, wait \in BOOLEAN :
        /\ b.peer[q].est /\ (May("stop") \/ b.peer[q].overflow)
        /\ wait => b.peer[q].nsf /\ ~b.peer[q].overflow
        /\ Step(bgp_stop(b, q, wait))
bgp_graceful_restart_timer_expire ==
    \E q \in Peers :
        /\ b.peer[q].nsfwait
        /\ Step([bgp_clear_stale_route(b, q) EXCEPT !.peer[q].nsfwait = FALSE])
(* The stale-path timer runs from the loss of the connection until the     *)
(* peer has sent its End-of-RIB.                                           *)
bgp_graceful_stale_timer_expire ==
    \E q \in Peers :
        /\ b.peer[q].nsf /\ (b.peer[q].est \/ b.peer[q].nsfwait) /\ ~b.peer[q].eor
        /\ Step(bgp_clear_stale_route(b, q))
(* End-of-RIB is received.                                                 *)
EndOfRib ==
    \E q \in Peers :
        /\ Working(q) /\ b.peer[q].rcap /\ ~b.peer[q].eor
        /\ LET s == [b EXCEPT !.peer[q].eor = TRUE] IN
           Step(IF s.peer[q].nsf THEN bgp_clear_stale_route(s, q) ELSE s)
bgp_maximum_prefix_restart_timer ==
    \E q \in Peers :
        b.peer[q].overflow /\ ~b.peer[q].est /\ Step([b EXCEPT !.peer[q].overflow = FALSE])
(* SIGTERM: the routes leave the kernel and the daemon exits.              *)
bgp_terminate ==
    /\ May("terminate")
    /\ Step([b EXCEPT !.up = FALSE,
                      !.fib = [p \in Nets |-> LET i == Selected(b.rib[p]) IN
                                   IF i # 0 /\ InFib(b.rib[p][i]) THEN NONE ELSE b.fib[p]]])

-----------------------------------------------------------------------------
(* The operator: filters, network statements, aggregates, redistribution.  *)

(* New filters take effect on the next update, soft reconfiguration or     *)
(* soft-out.                                                               *)
SetFilter ==
    /\ May("filter")
    /\ \E q \in Peers, f \in env.filters : f # b.f[q] /\ Step([b EXCEPT !.f[q] = f])
SoftNode(s, q, p) ==
    IF s.peer[q].overflow \/ s.adjin[q][p] = NoAttr THEN s ELSE bgp_update(s, q, p, s.adjin[q][p], TRUE)
RECURSIVE SoftNodes(_, _, _)
SoftNodes(s, q, nodes) ==
    IF nodes = <<>> THEN s ELSE SoftNodes(SoftNode(s, q, Head(nodes)), q, Tail(nodes))
bgp_soft_reconfig_table(s, q) == SoftNodes(s, q, Table)
bgp_soft_reconfig_in ==
    /\ May("soft-in")
    /\ \E q \in Peers : Working(q) /\ Step(bgp_soft_reconfig_table(b, q))

peer_default_originate_set ==
    /\ May("default")
    /\ \E q \in Peers \ b.dconf :
          LET s == [b EXCEPT !.dconf = @ \cup {q}] IN
          Step(IF b.peer[q].est THEN bgp_default_originate(s, q, FALSE) ELSE s)
peer_default_originate_unset ==
    /\ May("default")
    /\ \E q \in b.dconf :
          LET s == [b EXCEPT !.dconf = @ \ {q}] IN
          Step(IF b.peer[q].est THEN bgp_default_originate(s, q, TRUE) ELSE s)

(* A route of this speaker is new, the same, or changed.                   *)
OriginateAt(s, p, i, new) ==
    IF i = 0 THEN bgp_process(c, AddRoute(c, s, p, new), p)
    ELSE IF attrhash_cmp(s.rib[p][i].attr, new.attr) THEN s
    ELSE Use([Change(Flags(s, p, i, {"attr-changed"}, {}), p, i, new.attr) EXCEPT !.rib[p][i].ripe = {}], p, i)
Originate(s, p, type, sub, a) ==
    OriginateAt(s, p, IF sub = "STATIC" THEN Own(s, p, type, sub)
                      ELSE IndexOf(s.rib[p], LAMBDA ri : ri.peer = Self /\ ri.sub = sub),
                bgp_info_new(Self, sub, type, a, {"valid"}))

bgp_static_update(s, p) ==
    Originate(s, p, "BGP", "STATIC",
              [bgp_attr_default_set(BGP_ORIGIN_IGP) EXCEPT !.nh = s.static[p].nh, !.med = s.static[p].med])
DropOwn(s, p, i) == IF i = 0 THEN s ELSE DropRoute(c, s, p, i)
bgp_static_withdraw(s, p) == DropOwn(s, p, Own(s, p, "BGP", "STATIC"))

ConfigureStatic(s, p, backdoor) ==
    [s EXCEPT !.static[p] = IF @.on THEN [@ EXCEPT !.backdoor = backdoor, !.valid = FALSE]
                            ELSE [NoStatic EXCEPT !.on = TRUE, !.backdoor = backdoor]]
StaticWithdrawn(s, p, old) == IF old.on /\ ~old.backdoor /\ old.valid THEN bgp_static_withdraw(s, p) ELSE s
StaticInstalled(s, p) == IF s.static[p].backdoor THEN s ELSE bgp_static_update(s, p)
bgp_static_set(s, p, backdoor) ==
    IF "import-check" \in c.flags THEN ConfigureStatic(s, p, backdoor)
    ELSE StaticInstalled(StaticWithdrawn([ConfigureStatic(s, p, backdoor) EXCEPT !.static[p].valid = TRUE],
                                         p, s.static[p]), p)
bgp_static_unset(s, p) ==
    [(IF s.static[p].backdoor THEN s ELSE bgp_static_withdraw(s, p)) EXCEPT !.static[p] = NoStatic]
Network ==
    /\ May("network")
    /\ \E p \in env.networks, backdoor \in BOOLEAN : Step(bgp_static_set(b, p, backdoor))
NoNetwork ==
    /\ May("network")
    /\ \E p \in env.networks : b.static[p].on /\ Step(bgp_static_unset(b, p))

(* The import timer asks zebra about the networks, with import-check.      *)
bgp_import_check(p) == hop[p]
Imported(old, r) ==
    IF "import-check" \notin c.flags THEN [old EXCEPT !.valid = TRUE, !.med = 0, !.nh = 0]
    ELSE [old EXCEPT !.valid = r.metric # NONE, !.med = IF r.metric = NONE THEN 0 ELSE r.metric,
                     !.nh = IF r.metric = NONE THEN @ ELSE r.gw]
ImportChange(s, p, old, new) ==
    IF new.valid = old.valid /\ (~new.valid \/ (new.med = old.med /\ new.nh = old.nh)) THEN s
    ELSE IF new.valid THEN bgp_static_update(s, p) ELSE bgp_static_withdraw(s, p)
ImportNode(s, p, old, new) ==
    IF ~old.on \/ old.backdoor THEN s ELSE ImportChange([s EXCEPT !.static[p] = new], p, old, new)
RECURSIVE ImportNodes(_, _)
ImportNodes(s, nodes) ==
    IF nodes = <<>> THEN s
    ELSE LET p == Head(nodes) IN
         ImportNodes(ImportNode(s, p, s.static[p], Imported(s.static[p], bgp_import_check(p))), Tail(nodes))
bgp_import == May("import") /\ Step(ImportNodes(b, Table))

bgp_aggregate_set ==
    /\ May("aggregate")
    /\ \E p \in env.aggregates, summary \in env.summary, asSet \in BOOLEAN :
          /\ ~b.agg[p].on
          /\ Step(bgp_aggregate_add(c,
                [b EXCEPT !.agg[p] = [NoAggregate EXCEPT !.on = TRUE, !.summary = summary, !.asSet = asSet]], p))
bgp_aggregate_unset ==
    /\ May("aggregate")
    /\ \E p \in env.aggregates :
          b.agg[p].on /\ Step([bgp_aggregate_delete(c, b, p) EXCEPT !.agg[p] = NoAggregate])

bgp_redistribute_set ==
    /\ May("redistribute")
    /\ \E t \in env.types \ b.redist : Step([b EXCEPT !.redist = @ \cup {t}])
(* All the routes of the type leave the table.                             *)
OfType(s, p, type) == IndexOf(s.rib[p], LAMBDA ri : ri.peer = Self /\ ri.type = type)
RECURSIVE DropType(_, _, _)
DropType(s, type, nodes) ==
    IF nodes = <<>> THEN s
    ELSE DropType(DropOwn(s, Head(nodes), OfType(s, Head(nodes), type)), type, Tail(nodes))
bgp_redistribute_withdraw(s, type) == DropType(s, type, Table)
bgp_redistribute_unset ==
    /\ May("redistribute")
    /\ \E t \in b.redist : Step(bgp_redistribute_withdraw([b EXCEPT !.redist = @ \ {t}], t))
bgp_redistribute_add ==
    /\ May("redistribute")
    /\ \E t \in b.redist, p \in env.networks, m \in env.metrics :
          Step(Originate(b, p, t, "REDIST",
                         [bgp_attr_default_set(BGP_ORIGIN_INCOMPLETE) EXCEPT !.med = m]))
bgp_redistribute_delete ==
    /\ May("redistribute")
    /\ \E t \in b.redist, p \in env.networks :
          OfType(b, p, t) # 0 /\ Step(DropRoute(c, b, p, OfType(b, p, t)))

-----------------------------------------------------------------------------
(* The scan (bgp_scan): next hops are looked up again, dampened routes     *)
(* whose time is over are released, every prefix is processed.             *)

Recount(s, p, i) == bgp_aggregate_increment(c, s, p, i, s.rib[p][i])
SetReachable(s, p, i, valid) ==
    IF valid = ("valid" \in s.rib[p][i].flags) THEN s
    ELSE IF valid THEN Recount(Flags(s, p, i, {"valid"}, {}), p, i)
    ELSE Flags(bgp_aggregate_decrement(c, s, p, i), p, i, {}, {"valid"})
(* r: the answer about the next hop; bnc: the one of the last scan.        *)
LookedUp(s, p, i, r, bnc) ==
    LET new == r.cache[s.rib[p][i].attr.nh]
        changed == r.valid /\ bnc # Unknown /\ bgp_nexthop_cache_changed(new, bnc)
    IN  Flags([s EXCEPT !.cache = r.cache, !.rib[p][i].igp = r.igp], p, i,
              IF changed THEN {"igp-changed"} ELSE {}, IF changed THEN {} ELSE {"igp-changed"})
Direct(q) == peer_sort(c, q) = "ebgp" /\ c.peer[q].ttl1
ScanNexthop(s, p, i, r, bnc) ==
    SetReachable(IF Direct(s.rib[p][i].peer) THEN Flags(s, p, i, {}, {"igp-changed"}) ELSE LookedUp(s, p, i, r, bnc),
                 p, i, IF Direct(s.rib[p][i].peer) THEN bgp_nexthop_check_ebgp(s.rib[p][i].attr) ELSE r.valid)
ScanReuse(s, p, i, reuse) == IF reuse THEN Recount(s, p, i) ELSE s
ScanDamped(s, p, i, o) == ScanReuse(Dampened(s, p, i, o), p, i, o.status = "reuse")
ScanDamp(s, p, i) ==
    IF s.damp.on /\ s.rib[p][i].damp # NoDamp
    THEN ScanDamped(s, p, i, bgp_damp_scan(s.damp, Key(p, s.rib[p][i]), s.rib[p][i])) ELSE s
ScanRoute(s, p, i, old) ==
    LET h == s.rib[p][i].attr.nh IN
    ScanDamp(ScanNexthop(s, p, i, bgp_nexthop_lookup(s, h), old[h]), p, i)
RECURSIVE ScanRoutes(_, _, _, _)
ScanRoutes(s, p, keys, old) ==
    IF keys = <<>> THEN s
    ELSE ScanRoutes(ScanRoute(s, p, KeyIndex(s, Head(keys)), old), p, Tail(keys), old)
KeysOf(s, p) == LET own == SelectSeq(s.rib[p], InFib) IN [j \in 1..Len(own) |-> Key(p, own[j])]
RECURSIVE ScanNodes(_, _, _)
ScanNodes(s, nodes, old) ==
    IF nodes = <<>> THEN s
    ELSE LET p == Head(nodes) IN
         ScanNodes(bgp_process(c, ScanRoutes(s, p, KeysOf(s, p), old), p), Tail(nodes), old)
bgp_scan_ipv4(s) ==
    ScanNodes(FoldSet(LAMBDA q, t : IF t.peer[q].est THEN bgp_maximum_prefix_overflow(t, q, TRUE) ELSE t,
                      [s EXCEPT !.cache = [h \in DOMAIN s.cache |-> Unknown]], Peers), Table, s.cache)
bgp_scan == May("scan") /\ Step(bgp_scan_ipv4(b))

(* What zebra knows of a next hop changes.                                 *)
Zebra ==
    /\ May("zebra")
    /\ \E h \in DOMAIN env.hops : \E v \in env.hops[h] \ {hop[h]} : hop' = [hop EXCEPT ![h] = v]
    /\ b.up /\ UNCHANGED <<env, b>>

-----------------------------------------------------------------------------
(* Dampening.                                                              *)

ReuseBegin(s, p, i, o) == UseUnless(o.status # "reuse", Dampened(s, p, i, o), p, i)
ReuseEnd(s, p, i, others) == Dampened(s, p, i, ReuseEntryEnd(s.damp, Key(p, s.rib[p][i]), s.rib[p][i], others))
ReuseRoute(s, p, i, others) ==
    ReuseEnd(ReuseBegin(s, p, i, ReuseEntry(s.damp, Key(p, s.rib[p][i]), s.rib[p][i])), p, i, others)
RECURSIVE ReuseList(_, _, _)
ReuseList(s, keys, others) ==
    IF keys = {} THEN s
    ELSE LET k == CHOOSE k \in keys : TRUE IN
         ReuseList(ReuseRoute(s, k[1], KeyIndex(s, k), others), keys \ {k}, others)
(* The list at the offset is detached, and every entry of it looked at.    *)
bgp_reuse_timer(s) ==
    LET d == s.damp
        list == d.reuse[d.offset]
    IN  ReuseList([s EXCEPT !.damp = [@ EXCEPT !.reuse[d.offset] = {}, !.offset = (d.offset + 1) % REUSE_LIST_SIZE]],
                  list, Cardinality(list) > 1)
(* DELTA_REUSE seconds pass.                                               *)
ReuseTimer ==
    /\ May("time") /\ b.damp.on
    /\ Step(bgp_reuse_timer([b EXCEPT !.rib = EachRoute(b, Older)]))

bgp_damp_enable == May("dampening") /\ ~b.damp.on /\ Step([b EXCEPT !.damp.on = TRUE])
FreeDamp(s, key) ==
    LET p == key[1]
        i == KeyIndex(s, key)
    IN  Dampened(s, p, i, bgp_damp_info_free(s.damp, key, s.rib[p][i], TRUE))
Listed(d) == d.noreuse \cup UNION {d.reuse[i] : i \in DOMAIN d.reuse}
bgp_damp_info_clean(s) == FoldSet(LAMBDA k, t : FreeDamp(t, k), s, Listed(s.damp))
bgp_damp_disable ==
    May("no-dampening") /\ b.damp.on /\ Step([bgp_damp_info_clean(b) EXCEPT !.damp = DampOff])
bgp_clear_damp_route ==
    /\ May("clear-damp")
    /\ \E p \in Nets : Step(FoldSet(LAMBDA k, t : FreeDamp(t, k), b,
                                    {Key(p, b.rib[p][i]) : i \in {j \in DOMAIN b.rib[p] : b.rib[p][j].damp # NoDamp}}))

-----------------------------------------------------------------------------
Next ==
    \/ Update \/ Withdraw \/ SoftOut \/ bgp_route_refresh_receive \/ bgp_routeadv_timer \/ Write
    \/ Establish \/ Stop \/ bgp_graceful_restart_timer_expire \/ bgp_graceful_stale_timer_expire
    \/ EndOfRib \/ bgp_maximum_prefix_restart_timer \/ bgp_terminate
    \/ SetFilter \/ bgp_soft_reconfig_in \/ peer_default_originate_set \/ peer_default_originate_unset
    \/ Network \/ NoNetwork \/ bgp_import \/ bgp_aggregate_set \/ bgp_aggregate_unset
    \/ bgp_redistribute_set \/ bgp_redistribute_unset \/ bgp_redistribute_add \/ bgp_redistribute_delete
    \/ bgp_scan \/ Zebra \/ ReuseTimer \/ bgp_damp_enable \/ bgp_damp_disable \/ bgp_clear_damp_route

Spec == Init /\ [][Next]_vars

-----------------------------------------------------------------------------
(* Properties.                                                             *)

TypeOK ==
    /\ \A p \in Nets : \A i \in DOMAIN b.rib[p] :
          /\ b.rib[p][i].peer \in Peers \cup {Self}
          /\ b.rib[p][i].flags \subseteq {"valid", "selected", "attr-changed", "igp-changed",
                                         "damped", "history", "stale"}
          /\ b.rib[p][i].suppress \in Nat /\ b.rib[p][i].damp.pen <= CEILING
    /\ \A q \in Peers : /\ Range(b.upd[q]) \subseteq Nets /\ Range(b.wd[q]) \subseteq Nets
                        /\ b.peer[q].est \in BOOLEAN /\ b.peer[q].pcount \in Int
    /\ b.fib \in [Nets -> Int]

Best_(p) == Best(c, Nbr(b), b.rib[p])
SelectedRoute(p) == LET i == Selected(b.rib[p]) IN IF i = 0 THEN <<>> ELSE <<b.rib[p][i]>>

(* The selected route of a prefix is the one the decision process would    *)
(* choose again from the routes as they are, and only one is selected.     *)
(* Excepted are routes that dampening holds back or has just released (the *)
(* next scan sees to them) and a peer that is over its maximum of prefixes *)
(* and about to be closed.                                                 *)
SelectionCurrent ==
    b.up /\ ~b.damp.damaged /\ ~May("dampening") /\ (\A q \in Peers : ~b.peer[q].overflow)
    => \A p \in Nets : /\ Cardinality({i \in DOMAIN b.rib[p] : "selected" \in b.rib[p][i].flags}) <= 1
                       /\ Selected(b.rib[p]) = Best_(p)

(* With deterministic-med and compare-router-id the choice does not depend *)
(* on the order in which the routes have arrived.                          *)
Orders(list) == {[i \in 1..Len(list) |-> list[g[i]]] :
    g \in {h \in [1..Len(list) -> 1..Len(list)] : \A i, j \in 1..Len(list) : i # j => h[i] # h[j]}}
SelectionOrderFree ==
    {"deterministic-med", "compare-router-id"} \subseteq c.flags
    => \A p \in Nets : \A l \in Orders(b.rib[p]) :
          LET i == Best_(p)
              j == Best(c, Nbr(b), l)
          IN  (i = 0) = (j = 0) /\ (i # 0 => b.rib[p][i] = l[j])

(* The kernel has the next hop of the selected route, when a peer sent it, *)
(* and nothing otherwise; nothing at all after the daemon has terminated.  *)
FibAgrees ==
    \A p \in Nets :
        b.fib[p] = LET sel == SelectedRoute(p) IN
                   IF b.up /\ sel # <<>> /\ InFib(sel[1]) THEN sel[1].attr.nh ELSE NONE

(* When nothing is waiting to be written to a peer, what it has been told  *)
(* of every prefix is what the filters say of the selected route now.      *)
Told(q, p) ==
    LET sel == SelectedRoute(p)
        check == Announceable(c, b, sel[1], q, p)
    IN  IF sel = <<>> \/ ~check.permit THEN <<>> ELSE Encoded(b, q, check.attr, sel[1].peer)
HeldAgrees ==
    \A q \in Peers :
        b.up /\ ~b.damp.damaged /\ b.peer[q].est /\ ~b.peer[q].orfwait /\ b.upd[q] = <<>> /\ b.wd[q] = <<>>
            /\ ~May("filter") /\ ~May("clear-damp")
        => \A p \in Nets \ (IF q \in b.dconf THEN {DefaultRoute} ELSE {}) : b.held[q][p] = Told(q, p)

(* An advertisement that waits to be written still has the route it was    *)
(* made for: bgp_write reads its uptime, its flags and its peer.           *)
AdvertisedRouteExists ==
    \A q \in Peers, p \in Nets :
        /\ b.out[q][p].adv = "upd" => KeyIndex(b, b.out[q][p].key) # 0
        /\ (b.out[q][p].adv = "upd") = (p \in Range(b.upd[q]))
        /\ (b.out[q][p].adv = "wd") = (p \in Range(b.wd[q]))
        /\ b.out[q][p].adv = "wd" => b.out[q][p].sent # NoAttr

(* The prefix count of a peer is the number of its routes, without those   *)
(* that are only history and those it has not announced since it came back.*)
Counted(q, p) == LET i == FromPeer(b, p, q) IN i # 0 /\ b.rib[p][i].flags \cap {"history", "stale"} = {}
PcountExact ==
    ~(May("stop") /\ \E n \in env.opens : n.restart)
    => \A q \in Peers : b.peer[q].pcount = Cardinality({p \in Nets : Counted(q, p)})

(* After soft reconfiguration the table has exactly the received routes    *)
(* that today's filters accept, with the attributes they give them.        *)
Accepted(s, q, p) ==
    LET a == s.adjin[q][p]
        in == bgp_input_modifier(c, s.f[q], q, p, a)
    IN  IF \/ a = NoAttr \/ Loops(q, a) \/ ~bgp_input_filter(s.f[q], p) \/ ~in.permit
           \/ Unreachable(q, in.attr) \/ Martian(in.attr) THEN NoAttr ELSE in.attr
Reconfigured(s, q) ==
    s.peer[q].overflow \/ \A p \in Nets : LET i == FromPeer(s, p, q) IN
        Accepted(s, q, p) = IF i = 0 THEN NoAttr ELSE s.rib[p][i].attr
SoftReconfigured ==
    May("soft-in") => \A q \in Peers : Working(q) => Reconfigured(bgp_soft_reconfig_table(b, q), q)

(* Every entry of the dampening lists belongs to a route, a damped route   *)
(* is on exactly one reuse list, the others with history are not on one.   *)
DampConsistent ==
    ~b.damp.damaged =>
    /\ \A k \in Listed(b.damp) : KeyIndex(b, k) # 0
    /\ \A p \in Nets : \A i \in DOMAIN b.rib[p] :
          LET ri == b.rib[p][i]
              on == {x \in DOMAIN b.damp.reuse : Key(p, ri) \in b.damp.reuse[x]}
          IN  /\ ri.damp = NoDamp => ri.flags \cap {"damped", "history"} = {} /\ on = {}
              /\ ri.damp # NoDamp => Cardinality(on) = IF Damped(ri) THEN 1 ELSE 0
              /\ (Key(p, ri) \in b.damp.noreuse) = (ri.damp # NoDamp /\ ~Damped(ri))
              /\ ri.damp.last = "withdraw" => "history" \in ri.flags

(* After a scan a route is valid exactly when its next hop is reachable,   *)
(* and the selection takes account of it.                                  *)
Reachable(ri) == IF MultiHop(ri.peer) THEN hop[ri.attr.nh].metric # NONE ELSE bgp_nexthop_check_ebgp(ri.attr)
Settled(s) ==
    \A p \in Nets :
        /\ \A i \in DOMAIN s.rib[p] : InFib(s.rib[p][i]) => ("valid" \in s.rib[p][i].flags) = Reachable(s.rib[p][i])
        /\ Selected(s.rib[p]) = Best(c, Nbr(s), s.rib[p])
ScanSettles == May("scan") /\ b.up /\ ~b.damp.damaged => Settled(bgp_scan_ipv4(b))

(* An aggregate is in the table exactly while it has a component; its      *)
(* count is their number, and each is suppressed once per summary-only     *)
(* aggregate above it.                                                     *)
Components(a) == {<<p, i>> \in Range(Under[a]) \X (1..4) : i \in DOMAIN b.rib[p] /\ Component(b.rib[p][i])}
AggregateExact ==
    \A a \in Nets : b.agg[a].on =>
        /\ b.agg[a].count = Cardinality(Components(a))
        /\ (Own(b, a, "BGP", "AGGREGATE") # 0) = (Components(a) # {})
        /\ \A x \in Components(a) :
              b.rib[x[1]][x[2]].suppress = Cardinality({y \in Nets : b.agg[y].on /\ b.agg[y].summary
                                                                  /\ x[1] \in Range(Under[y])})

(* The table is what the daemon's inputs of the moment say: the selection  *)
(* is the decision process's, a scan makes it that of today's next hops,   *)
(* soft reconfiguration that of today's filters.                           *)
TableCurrent == SelectionCurrent /\ ScanSettles /\ SoftReconfigured

(* What the others were told is the table: zebra, the peers, and the       *)
(* advertisements that are still to be written to them.                    *)
ToldAgrees == FibAgrees /\ HeldAgrees /\ AdvertisedRouteExists

=============================================================================
