------------------------------- MODULE BgpConf ------------------------------
(***************************************************************************)
(* The configuration of bgpd as a whole: the commands of bgpd/bgp_vty.c    *)
(* and of the configuration part of bgpd/bgp_route.c, what they do to the  *)
(* daemon, the file that bgp_config_write produces and the daemon that     *)
(* reading it back gives.                                                  *)
(*                                                                         *)
(* The daemon m has opt (struct bgp_master's options), bgp (the instances  *)
(* in the order of bm->bgp), node and idx (the vty), damp (the parameters  *)
(* of dampening, one set for all instances), scan and dtab (the distances  *)
(* by source prefix).  A command is a record of op, no (its "no" form),    *)
(* w (the neighbour or group), n (its numbers) and s (its words).          *)
(***************************************************************************)
EXTENDS BgpNeighbor
LOCAL INSTANCE SequencesExt

CONSTANTS PeerOrder, GroupOrder    \* all names, in the order of the lists

C(op, w, n, s) == [op |-> op, no |-> FALSE, w |-> w, n |-> n, s |-> s]
No(c) == [c EXCEPT !.no = TRUE]
Arg(s) == IF s = <<>> THEN "" ELSE s[1]

bgp_create(as, name) ==
    [as |-> as, name |-> name, flags |-> {}, rid |-> <<>>, cid |-> <<>>, confed |-> 0, cpeers |-> <<>>,
     deflp |-> 100, tim |-> <<60, 180>>, stale |-> 360, dist |-> <<0, 0, 0>>,
     red |-> <<>>, net |-> <<>>, agg |-> <<>>, damp |-> {}, mem |-> <<>>, conf |-> <<>>]
EmptyDaemon == [opt |-> {}, bgp |-> <<>>, node |-> "config", idx |-> 0, damp |-> <<0, 0, 0, 0>>,
                scan |-> 60, dtab |-> <<>>]

(* bgp_get: the index of the instance, 0 when the command is refused,      *)
(* Len + 1 when it is to be created.                                       *)
Instances(m) == DOMAIN m.bgp
bgp_lookup_by_name(m, name) == {i \in Instances(m) : m.bgp[i].name = name}
bgp_get_default(m) == {i \in Instances(m) : i = 1}
Known(m, name) == IF "multi" \in m.opt /\ name # "" THEN bgp_lookup_by_name(m, name) ELSE bgp_get_default(m)
bgp_get(m, as, name) ==
    IF name # "" /\ "multi" \notin m.opt THEN 0
    ELSE IF Known(m, name) = {} THEN Len(m.bgp) + 1
    ELSE LET i == CHOOSE i \in Known(m, name) : TRUE IN IF m.bgp[i].as = as THEN i ELSE 0
At(m, i) == IF i = 0 THEN m ELSE [m EXCEPT !.node = "bgp", !.idx = i]
router_bgp(m, as, name) ==
    IF bgp_get(m, as, name) = Len(m.bgp) + 1
    THEN At([m EXCEPT !.bgp = Append(m.bgp, bgp_create(as, name))], Len(m.bgp) + 1)
    ELSE At(m, bgp_get(m, as, name))
Named(m, as, name) == {i \in Instances(m) : m.bgp[i].as = as /\ m.bgp[i].name = name}
bgp_delete(m, i) == [m EXCEPT !.bgp = SubSeq(m.bgp, 1, i - 1) \o SubSeq(m.bgp, i + 1, Len(m.bgp))]
no_router_bgp(m, as, name) ==
    IF Named(m, as, name) = {} THEN m ELSE bgp_delete(m, CHOOSE i \in Named(m, as, name) : TRUE)
bgp_option_set(m, o) == [m EXCEPT !.opt = m.opt \cup {o}]
bgp_option_unset(m, o) ==
    IF o = "multi" /\ Len(m.bgp) > 1 THEN m ELSE [m EXCEPT !.opt = m.opt \ {o}]
bgp_multiple_instance(m, no) == IF no THEN bgp_option_unset(m, "multi") ELSE bgp_option_set(m, "multi")
bgp_config_type(m, no) == IF no THEN bgp_option_unset(m, "cisco") ELSE bgp_option_set(m, "cisco")

-----------------------------------------------------------------------------
(* The settings of an instance.  Some of them set up sessions again.       *)

OnPeers(b, conf) == [b EXCEPT !.conf = [w \in DOMAIN b.conf |-> IF w \in PeersOf(b) THEN conf[w] ELSE b.conf[w]]]
Again(p) == [p EXCEPT !.run = <<>>]
bgp_router_id_set(b, id) == ResetAll([b EXCEPT !.rid = <<id>>], IF b.rid = <<id>> THEN {} ELSE PeersOf(b))
bgp_router_id_unset(b) == IF b.rid = <<>> THEN b ELSE ResetAll([b EXCEPT !.rid = <<>>], PeersOf(b))
Ibgp(b) == {w \in PeersOf(b) : peer_sort(b, w) = "ibgp"}
(* Mutant of the next definition: the sessions stay. *)
ClusterIdOnly(b, id) == [b EXCEPT !.cid = <<id>>]
bgp_cluster_id_set(b, id) == ResetAll([b EXCEPT !.cid = <<id>>], IF b.cid = <<id>> THEN {} ELSE Ibgp(b))
bgp_cluster_id_unset(b) == IF b.cid = <<>> THEN b ELSE ResetAll([b EXCEPT !.cid = <<>>], Ibgp(b))
bgp_timers_set(b, k, h) == IF h \in {1, 2} THEN b ELSE [b EXCEPT !.tim = Timers(k, h)]
bgp_timers_unset(b) == [b EXCEPT !.tim = <<60, 180>>]
bgp_default_local_preference_set(b, lp) == [b EXCEPT !.deflp = lp]
bgp_default_local_preference_unset(b) == [b EXCEPT !.deflp = 100]

ConfedOne(b, w, already) ==
    LET p == b.conf[w]
        sort == peer_sort(b, w) IN
    IF sort = "ebgp" THEN Again([p EXCEPT !.las = b.confed])
    ELSE IF sort = "confed" /\ ~already THEN Again(p) ELSE p
ConfedAll(b, already) == OnPeers(b, [w \in PeersOf(b) |-> ConfedOne(b, w, already)])
bgp_confederation_id_set(b, as) ==
    IF as = 0 THEN b ELSE ConfedAll([b EXCEPT !.confed = as], b.confed # 0)
NoConfed(b) == OnPeers(b, [w \in PeersOf(b) |->
    IF peer_sort(b, w) = "ibgp" THEN b.conf[w] ELSE Again([b.conf[w] EXCEPT !.las = b.as])])
bgp_confederation_id_unset(b) == NoConfed([b EXCEPT !.confed = 0])
PeersOfAs(b, as, las) == OnPeers(b, [w \in PeersOf(b) |->
    IF b.confed # 0 /\ b.conf[w].as = as THEN Again([b.conf[w] EXCEPT !.las = las]) ELSE b.conf[w]])
bgp_confederation_peers_add(b, as) ==
    IF b.as = as \/ bgp_confederation_peers_check(b, as) THEN b
    ELSE PeersOfAs([b EXCEPT !.cpeers = Append(b.cpeers, as)], as, b.as)
bgp_confederation_peers_remove(b, as) ==
    IF ~bgp_confederation_peers_check(b, as) THEN b
    ELSE PeersOfAs([b EXCEPT !.cpeers = SelectSeq(b.cpeers, LAMBDA x : x # as)], as, b.confed)
bgp_confederation_peers(b, no, ases) ==
    FoldLeft(LAMBDA acc, as : IF no THEN bgp_confederation_peers_remove(acc, as)
                              ELSE bgp_confederation_peers_add(acc, as), b, ases)

bgp_flag_set(b, f) == [b EXCEPT !.flags = b.flags \cup {f}]
bgp_flag_unset(b, f) == [b EXCEPT !.flags = b.flags \ {f}]
Flag(b, f, set) == IF set THEN bgp_flag_set(b, f) ELSE bgp_flag_unset(b, f)
bgp_client_to_client_reflection(b, no) == Flag(b, "no-client-to-client", no)
bgp_always_compare_med(b, no) == Flag(b, "always-compare-med", ~no)
bgp_deterministic_med(b, no) == Flag(b, "deterministic-med", ~no)
bgp_graceful_restart(b, no, n) ==
    IF n # <<>> /\ ~no THEN [b EXCEPT !.stale = n[1]]
    ELSE IF n # <<>> THEN [b EXCEPT !.stale = 360] ELSE Flag(b, "graceful-restart", ~no)
bgp_fast_external_failover(b, no) == Flag(b, "no-fast-failover", no)
bgp_enforce_first_as(b, no) == Flag(b, "no-enforce-first-as", no)
bgp_bestpath_compare_router_id(b, no) == Flag(b, "compare-router-id", ~no)
bgp_bestpath_cost_community_ignore(b, no) == Flag(b, "cost-community-ignore", ~no)
bgp_bestpath_aspath_ignore(b, no) == Flag(b, "aspath-ignore", ~no)
bgp_log_neighbor_changes(b, no) == Flag(b, "log", ~no)
bgp_bestpath_med(b, no, fs) == [b EXCEPT !.flags = Alter(~no, b.flags, Range(fs))]
bgp_default_ipv4_unicast(b, no) == Flag(b, "no-default-ipv4", no)
bgp_network_import_check(b, no) == Flag(b, "import-check", ~no)
bgp_distance(b, no, n) == [b EXCEPT !.dist = IF no THEN <<0, 0, 0>> ELSE n]
Table(f, no, x, v) == IF no THEN Without(f, {x}) ELSE With(f, x, v)
bgp_distance_set(m, no, n, s) ==
    [m EXCEPT !.dtab = Table(m.dtab, no, s[1], <<n[1], IF Len(s) > 1 THEN s[2] ELSE "">>)]
bgp_scan_time(m, no, n) == [m EXCEPT !.scan = IF no THEN 60 ELSE n[1]]

(* bgp dampening: a half-life alone makes the longest suppression four     *)
(* times as long.                                                          *)
DampArgs(n) == IF Len(n) = 4 THEN n ELSE IF Len(n) = 1 THEN <<n[1], 750, 2000, 4 * n[1]>> ELSE <<15, 750, 2000, 60>>
bgp_damp_enable(m, af, n) ==
    IF af \in m.bgp[m.idx].damp /\ m.damp = DampArgs(n) THEN m
    ELSE [m EXCEPT !.damp = DampArgs(n), !.bgp[m.idx].damp = m.bgp[m.idx].damp \cup {af}]
bgp_damp_disable(m, af) == [m EXCEPT !.bgp[m.idx].damp = m.bgp[m.idx].damp \ {af}]

Opt1(f, x, none) == IF x \in DOMAIN f THEN f[x] ELSE none
bgp_redistribute_set(b, k, n, s) ==
    LET old == Opt1(b.red, k, [met |-> <<>>, map |-> ""]) IN
    [b EXCEPT !.red = With(b.red, k, [met |-> IF n = <<>> THEN old.met ELSE n,
                                      map |-> IF Len(s) < 2 THEN old.map ELSE s[2]])]
bgp_redistribute_unset(b, k, n, s) ==
    IF n = <<>> /\ Len(s) < 2 THEN [b EXCEPT !.red = Without(b.red, {k})]
    ELSE IF k \notin DOMAIN b.red THEN b
    ELSE [b EXCEPT !.red[k].met = IF n = <<>> THEN b.red[k].met ELSE <<>>,
                   !.red[k].map = IF Len(s) < 2 THEN b.red[k].map ELSE ""]
Afi(af) == IF af = "ipv6" THEN "ipv6" ELSE "ipv4"
bgp_redistribute(b, af, no, n, s) ==
    IF no THEN bgp_redistribute_unset(b, <<Afi(af), s[1]>>, n, s)
    ELSE bgp_redistribute_set(b, <<Afi(af), s[1]>>, n, s)

(* network P [route-map M | backdoor] and aggregate-address P [as-set]     *)
(* [summary-only]; a backdoor is always of the unicast family.             *)
bgp_network(b, af, no, s) ==
    [b EXCEPT !.net = Table(b.net, no, <<IF Len(s) = 3 THEN "ipv4" ELSE af, s[1]>>,
                            [map |-> IF Len(s) = 2 THEN s[2] ELSE "", backdoor |-> Len(s) = 3])]
aggregate_address(b, af, no, s) ==
    IF ~no /\ <<af, s[1]>> \in DOMAIN b.agg THEN b
    ELSE [b EXCEPT !.agg = Table(b.agg, no, <<af, s[1]>>, Range(Tail(s)))]
=============================================================================
