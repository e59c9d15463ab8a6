------------------------------- MODULE BgpFile ------------------------------
(***************************************************************************)
(* Executing a command, writing the running configuration                  *)
(* (bgp_config_write) and reading it back (config_from_file).              *)
(***************************************************************************)
EXTENDS BgpVty
LOCAL INSTANCE SequencesExt

(* Neighbour commands that concern the whole neighbour.                    *)
NeighborOp(b, c) ==
    CASE c.op = "local-as" -> neighbor_local_as(b, c)
      [] c.op = "password" -> neighbor_password(b, c)
      [] c.op = "connection-mode" -> neighbor_transport_connection_mode(b, c)
      [] c.op = "shutdown" -> neighbor_shutdown(b, c)
      [] c.op = "dynamic" -> neighbor_capability_dynamic(b, c)
      [] c.op = "dont-capability" -> neighbor_dont_capability_negotiate(b, c)
      [] c.op = "multihop" -> neighbor_ebgp_multihop(b, c)
      [] c.op = "connected-check" -> neighbor_disable_connected_check(b, c)
      [] c.op = "description" -> neighbor_description(b, c)
      [] c.op = "update-source" -> neighbor_update_source(b, c)
      [] c.op = "port" -> neighbor_port(b, c)
      [] c.op = "override" -> neighbor_override_capability(b, c)
      [] c.op = "strict" -> neighbor_strict_capability(b, c)
      [] c.op = "timers" -> neighbor_timers(b, c)
      [] c.op = "adv-interval" -> neighbor_advertise_interval(b, c)
      [] c.op = "interface" -> neighbor_interface(b, c)
(* Those of the address family of the node.                                *)
FamilyOp(opt, b, c, af) ==
    CASE c.op = "activate" -> neighbor_activate(opt, b, c, af)
      [] c.op = "unchanged" -> neighbor_attribute_unchanged(b, c, af)
      [] c.op = "next-hop-self" -> neighbor_nexthop_self(b, c, af)
      [] c.op = "remove-private-as" -> neighbor_remove_private_as(b, c, af)
      [] c.op = "send-community" -> neighbor_send_community(b, c, af)
      [] c.op = "rr-client" -> neighbor_route_reflector_client(b, c, af)
      [] c.op = "rs-client" -> neighbor_route_server_client(b, c, af)
      [] c.op = "distribute-list" -> neighbor_distribute_list(b, c, af)
      [] c.op = "prefix-list" -> neighbor_prefix_list(b, c, af)
      [] c.op = "filter-list" -> neighbor_filter_list(b, c, af)
      [] c.op = "route-map" -> neighbor_route_map(b, c, af)
      [] c.op = "maximum-prefix" -> neighbor_maximum_prefix(b, c, af)
      [] c.op = "allowas-in" -> neighbor_allowas_in(b, c, af)
      [] c.op = "soft-reconfig" -> neighbor_soft_reconfiguration(b, c, af)
      [] c.op = "orf" -> neighbor_capability_orf_prefix(b, c, af)
      [] c.op = "default-originate" -> neighbor_default_originate(b, c, af)
      [] c.op = "weight" -> neighbor_weight(b, c, af)
      [] c.op = "unsuppress-map" -> neighbor_unsuppress_map(b, c, af)
GlobalOp(b, c, af) ==
    CASE c.op = "bgp router-id" -> IF c.no THEN bgp_router_id_unset(b) ELSE bgp_router_id_set(b, c.n[1])
      [] c.op = "bgp cluster-id" -> IF c.no THEN bgp_cluster_id_unset(b) ELSE bgp_cluster_id_set(b, c.n[1])
      [] c.op = "bgp confederation identifier" ->
             IF c.no THEN bgp_confederation_id_unset(b) ELSE bgp_confederation_id_set(b, c.n[1])
      [] c.op = "bgp confederation peers" -> bgp_confederation_peers(b, c.no, c.n)
      [] c.op = "timers bgp" -> IF c.no THEN bgp_timers_unset(b) ELSE bgp_timers_set(b, c.n[1], c.n[2])
      [] c.op = "bgp client-to-client" -> bgp_client_to_client_reflection(b, c.no)
      [] c.op = "bgp always-compare-med" -> bgp_always_compare_med(b, c.no)
      [] c.op = "bgp deterministic-med" -> bgp_deterministic_med(b, c.no)
      [] c.op = "bgp graceful-restart" -> bgp_graceful_restart(b, c.no, c.n)
      [] c.op = "bgp fast-external-failover" -> bgp_fast_external_failover(b, c.no)
      [] c.op = "bgp enforce-first-as" -> bgp_enforce_first_as(b, c.no)
      [] c.op = "bgp compare-routerid" -> bgp_bestpath_compare_router_id(b, c.no)
      [] c.op = "bgp cost-community ignore" -> bgp_bestpath_cost_community_ignore(b, c.no)
      [] c.op = "bgp as-path ignore" -> bgp_bestpath_aspath_ignore(b, c.no)
      [] c.op = "bgp log-neighbor-changes" -> bgp_log_neighbor_changes(b, c.no)
      [] c.op = "bgp bestpath med" -> bgp_bestpath_med(b, c.no, c.s)
      [] c.op = "bgp default ipv4-unicast" -> bgp_default_ipv4_unicast(b, c.no)
      [] c.op = "bgp import-check" -> bgp_network_import_check(b, c.no)
      [] c.op = "bgp local-preference" ->
             IF c.no THEN bgp_default_local_preference_unset(b)
             ELSE bgp_default_local_preference_set(b, c.n[1])
      [] c.op = "distance bgp" -> bgp_distance(b, c.no, c.n)
      [] c.op = "redistribute" -> bgp_redistribute(b, af, c.no, c.n, c.s)
      [] c.op \in {"network", "network backdoor"} -> bgp_network(b, af, c.no, c.s)
      [] c.op = "aggregate-address" -> aggregate_address(b, af, c.no, c.s)

InstanceOp(opt, b, c, af) ==
    IF c.op = "remote-as" THEN (IF c.no THEN no_neighbor(b, c) ELSE neighbor_remote_as(opt, b, c))
    ELSE IF c.op = "define group" THEN neighbor_peer_group(opt, b, c)
    ELSE IF c.op = "peer-group" THEN neighbor_set_peer_group(opt, b, c, af)
    ELSE IF c.w = "" THEN GlobalOp(b, c, af)
    ELSE IF ~peer_and_group_lookup_vty(b, c) THEN b
    ELSE IF c.op \in InBgpNeighbor THEN NeighborOp(b, c) ELSE FamilyOp(opt, b, c, af)

address_family(m, af) == [m EXCEPT !.node = af]
exit_address_family(m) == [m EXCEPT !.node = "bgp"]
DaemonOps == {"bgp multiple-instance", "bgp config-type", "router bgp", "address-family",
              "exit-address-family", "distance", "bgp scan-time", "dampening"}
DaemonOp(m, c) ==
    CASE c.op = "bgp multiple-instance" -> bgp_multiple_instance(m, c.no)
      [] c.op = "bgp config-type" -> bgp_config_type(m, c.no)
      [] c.op = "router bgp" -> IF c.no THEN no_router_bgp(m, c.n[1], Arg(c.s))
                                ELSE router_bgp(m, c.n[1], Arg(c.s))
      [] c.op = "address-family" -> address_family(m, c.s[1])
      [] c.op = "exit-address-family" -> exit_address_family(m)
      [] c.op = "distance" -> bgp_distance_set(m, c.no, c.n, c.s)
      [] c.op = "bgp scan-time" -> bgp_scan_time(m, c.no, c.n)
      [] c.op = "dampening" -> IF c.no THEN bgp_damp_disable(m, NodeAf(m.node))
                               ELSE bgp_damp_enable(m, NodeAf(m.node), c.n)
Exec(m, c) ==
    IF m.node \notin Nodes(c.op) THEN m
    ELSE IF c.op \in DaemonOps THEN DaemonOp(m, c)
    ELSE [m EXCEPT !.bgp[m.idx] = InstanceOp(m.opt, m.bgp[m.idx], c, NodeAf(m.node))]

(* A line that its node does not know is tried once more as a command of   *)
(* the top level; when that does not know it either the rest of the file   *)
(* is not read.                                                            *)
ReadLine(f, c) ==
    IF ~f.ok THEN f
    ELSE IF f.m.node \in Nodes(c.op) THEN [f EXCEPT !.m = Exec(f.m, c)]
    ELSE IF "config" \in Nodes(c.op) THEN [f EXCEPT !.m = Exec([f.m EXCEPT !.node = "config"], c)]
    ELSE [f EXCEPT !.ok = FALSE]
config_from_file(file) == FoldLeft(ReadLine, [ok |-> TRUE, m |-> EmptyDaemon], file)

-----------------------------------------------------------------------------
(* What is written.                                                        *)

If(cond, c) == IF cond THEN <<c>> ELSE <<>>
G(op, n) == C(op, "", n, <<>>)

(* What a member has of its group is written with the group.               *)
Own(b, w, f) == f \in b.conf[w].flags /\ ~(peer_group_member(b, w) /\ f \in GroupOf(b, w).flags)
FlagLine(b, w, f, op) == If(Own(b, w, f), C(op, w, <<>>, <<>>))
Differs(b, w, x, y) == ~peer_group_member(b, w) \/ x # y

WriteAs(b, w) ==
    LET p == b.conf[w] IN
    IF peer_group_member(b, w)
    THEN If(GroupOf(b, w).as = 0, C("remote-as", w, <<p.as>>, <<>>)) \o <<C("peer-group", w, <<>>, <<p.grp>>)>>
    ELSE If(IsGroup(b, w), C("define group", w, <<>>, <<>>)) \o If(p.as # 0, C("remote-as", w, <<p.as>>, <<>>))
WriteTransport(b, w, g) ==
    LET p == b.conf[w] IN
       If(Own(b, w, "passive"), C("connection-mode", w, <<>>, <<"passive">>))
    \o If(Own(b, w, "active"), C("connection-mode", w, <<>>, <<"active">>))
    \o If(peer_sort(b, w) # "ibgp" /\ p.ttl # 1 /\ Differs(b, w, p.ttl, g.ttl), C("multihop", w, <<p.ttl>>, <<>>))
    \o FlagLine(b, w, "no-connected-check", "connected-check")
    \o If(p.src # <<>> /\ Differs(b, w, p.src, g.src), C("update-source", w, <<>>, p.src))
bgp_config_write_peer_global(b, w, g) ==
    LET p == b.conf[w] IN
       WriteAs(b, w)
    \o If(p.chas # 0 /\ ~peer_group_member(b, w),
          C("local-as", w, <<p.chas>>, IF "no-prepend" \in p.flags THEN <<"no-prepend">> ELSE <<>>))
    \o If(p.desc # "", C("description", w, <<>>, <<p.desc>>))
    \o FlagLine(b, w, "shutdown", "shutdown")
    \o If("password" \in p.flags /\ Differs(b, w, p.pw, g.pw), C("password", w, <<>>, <<p.pw>>))
    \o If(p.port # 179, C("port", w, <<p.port>>, <<>>))
    \o If(p.ifname # "", C("interface", w, <<>>, <<p.ifname>>))
    \o WriteTransport(b, w, g)
    \o If(p.adv # <<>>, C("adv-interval", w, p.adv, <<>>))
    \o If(p.tim # <<>> /\ ~peer_group_member(b, w), C("timers", w, p.tim, <<>>))
    \o FlagLine(b, w, "dynamic", "dynamic")
    \o FlagLine(b, w, "dont-capability", "dont-capability")
    \o FlagLine(b, w, "override", "override")
    \o FlagLine(b, w, "strict", "strict")

FilterLine(b, w, x, gx, f, op) ==
    LET in == <<f, "in">>
        out == <<f, "out">> IN
       If(x.fil[in] # "" /\ Differs(b, w, x.fil[in], gx.fil[in]), C(op, w, <<>>, <<"in", x.fil[in]>>))
    \o If(x.fil[out] # "" /\ ~peer_group_member(b, w), C(op, w, <<>>, <<"out", x.fil[out]>>))
bgp_config_write_filter(b, w, x, gx) ==
       FilterLine(b, w, x, gx, "dlist", "distribute-list")
    \o FilterLine(b, w, x, gx, "plist", "prefix-list")
    \o FilterLine(b, w, x, gx, "map", "route-map")
    \o If(x.usmap # "" /\ ~peer_group_member(b, w), C("unsuppress-map", w, <<>>, <<x.usmap>>))
    \o FilterLine(b, w, x, gx, "aslist", "filter-list")

Unchanged == <<"as-path-unchanged", "next-hop-unchanged", "med-unchanged">>
(* Cisco writes the communities that are sent, the default those that are  *)
(* not.                                                                    *)
WriteCommunity(opt, w, x) ==
    LET both == {"send-community", "send-ext"}
        odd == IF "cisco" \in opt THEN x.fl \cap both ELSE both \ x.fl
        c == C("send-community", w, <<>>, IF odd = both THEN <<"both">>
                                          ELSE IF odd = {"send-ext"} THEN <<"extended">> ELSE <<>>)
    IN  If(odd # {}, IF "cisco" \in opt THEN c ELSE No(c))
WriteNotForMembers(opt, w, x) ==
       If("rs-client" \in x.fl, C("rs-client", w, <<>>, <<>>))
    \o If("rr-client" \in x.fl, C("rr-client", w, <<>>, <<>>))
    \o If("next-hop-self" \in x.fl, C("next-hop-self", w, <<>>, <<>>))
    \o If(Range(Unchanged) \cap x.fl # {},
          C("unchanged", w, <<>>, IF Range(Unchanged) \subseteq x.fl THEN <<>>
                                  ELSE SelectSeq(Unchanged, LAMBDA f : f \in x.fl)))
    \o WriteCommunity(opt, w, x)
    \o If("default-originate" \in x.fl,
          C("default-originate", w, <<>>, IF x.drmap = "" THEN <<>> ELSE <<x.drmap>>))
    \o If("remove-private-as" \in x.fl, C("remove-private-as", w, <<>>, <<>>))
WriteOrf(w, x) ==
    LET orf == {"orf-sm", "orf-rm"} \cap x.fl IN
    If(orf # {}, C("orf", w, <<>>, <<IF orf = {"orf-sm"} THEN "send" ELSE IF orf = {"orf-rm"} THEN "receive"
                                     ELSE "both">>))
WriteForAll(b, w, x, gx) ==
    LET member == peer_group_member(b, w) IN
       If("allowas-in" \in x.fl /\ (~member \/ "allowas-in" \notin gx.fl \/ x.allow # gx.allow),
          C("allowas-in", w, IF x.allow = 3 THEN <<>> ELSE <<x.allow>>, <<>>))
    \o If("soft-reconfig" \in x.fl /\ ~(member /\ "soft-reconfig" \in gx.fl), C("soft-reconfig", w, <<>>, <<>>))
    \o bgp_config_write_filter(b, w, x, gx)
    \o If("max-prefix" \in x.fl /\ (~member \/ x.pmax # gx.pmax
                                    \/ ("warning-only" \in x.fl) # ("warning-only" \in gx.fl)),
          C("maximum-prefix", w, x.pmax, IF "warning-only" \in x.fl THEN <<"warning-only">> ELSE <<>>))
Activation(b, w, x) ==
    IF ~x.on THEN No(C("activate", w, <<>>, <<>>))
    ELSE IF peer_group_member(b, w) THEN C("peer-group", w, <<>>, <<b.conf[w].grp>>)
    ELSE C("activate", w, <<>>, <<>>)
bgp_config_write_peer(opt, b, w, x, gx) ==
    IF ~x.on THEN <<Activation(b, w, x)>>
    ELSE <<Activation(b, w, x)>>
      \o (IF peer_group_member(b, w) THEN <<>> ELSE WriteNotForMembers(opt, w, x))
      \o If(x.wset /\ Differs(b, w, x.w, gx.w), C("weight", w, <<x.w>>, <<>>))
      \o (IF peer_group_member(b, w) THEN <<>> ELSE WriteOrf(w, x))
      \o WriteForAll(b, w, x, gx)

-----------------------------------------------------------------------------
(* One address family: redistribution, groups, neighbours, networks,       *)
(* aggregates, dampening.                                                  *)

Listed(b, order) == SelectSeq(order, LAMBDA w : w \in DOMAIN b.conf)
InFamily(b, w, af) == b.conf[w].af[af].on \/ ("no-default-ipv4" \notin b.flags /\ af = "ipv4")
GroupAf(b, w, af) == IF peer_group_member(b, w) THEN GroupOf(b, w).af[af] ELSE b.conf[w].af[af]
FamilyPeers(opt, b, af, order) ==
    FlattenSeq([i \in DOMAIN Listed(b, order) |->
        LET w == Listed(b, order)[i] IN
        IF InFamily(b, w, af) THEN bgp_config_write_peer(opt, b, w, b.conf[w].af[af], GroupAf(b, w, af)) ELSE <<>>])
bgp_config_write_redistribute(b, af) ==
    IF af \notin {"ipv4", "ipv6"} THEN <<>>
    ELSE LET ks == SetToSeq({k \in DOMAIN b.red : k[1] = af}) IN
         [i \in DOMAIN ks |-> C("redistribute", "", b.red[ks[i]].met,
              IF b.red[ks[i]].map = "" THEN <<ks[i][2]>> ELSE <<ks[i][2], b.red[ks[i]].map>>)]
NetLine(p, x) ==
    IF x.map # "" THEN C("network", "", <<>>, <<p, x.map>>)
    ELSE IF x.backdoor THEN C("network backdoor", "", <<>>, <<p, "", "backdoor">>)
    ELSE C("network", "", <<>>, <<p>>)
bgp_config_write_network(b, af) ==
    LET ns == SetToSeq({k \in DOMAIN b.net : k[1] = af})
        as == SetToSeq({k \in DOMAIN b.agg : k[1] = af})
    IN     [i \in DOMAIN ns |-> NetLine(ns[i][2], b.net[ns[i]])]
        \o [i \in DOMAIN as |-> C("aggregate-address", "", <<>>, <<as[i][2]>> \o SetToSeq(b.agg[as[i]]))]
bgp_config_write_damp(d) ==
    G("dampening", IF d = <<15, 750, 2000, 60>> THEN <<>>
                   ELSE IF d[1] # 15 /\ d = <<d[1], 750, 2000, 4 * d[1]>> THEN <<d[1]>> ELSE d)
FamilyBody(m, b, af) ==
       bgp_config_write_redistribute(b, af)
    \o FamilyPeers(m.opt, b, af, GroupOrder) \o FamilyPeers(m.opt, b, af, PeerOrder)
    \o bgp_config_write_network(b, af)
    \o If(af \in b.damp, bgp_config_write_damp(m.damp))
Framed(af, body) ==
    IF body = <<>> THEN <<>>
    ELSE <<C("address-family", "", <<>>, <<af>>)>> \o body \o <<G("exit-address-family", <<>>)>>
bgp_config_write_family(m, b, af) == Framed(af, FamilyBody(m, b, af))

FlagLines(b) ==
    LET F(f, c) == If(f \in b.flags, c) IN
       F("no-fast-failover", No(G("bgp fast-external-failover", <<>>)))
    \o If(b.rid # <<>>, G("bgp router-id", b.rid))
    \o F("log", G("bgp log-neighbor-changes", <<>>))
    \o F("always-compare-med", G("bgp always-compare-med", <<>>))
    \o F("no-default-ipv4", No(G("bgp default ipv4-unicast", <<>>)))
    \o If(b.deflp # 100, G("bgp local-preference", <<b.deflp>>))
    \o F("no-client-to-client", No(G("bgp client-to-client", <<>>)))
    \o If(b.cid # <<>>, G("bgp cluster-id", b.cid))
    \o If(b.confed # 0, G("bgp confederation identifier", <<b.confed>>))
    \o If(b.cpeers # <<>>, G("bgp confederation peers", b.cpeers))
    \o F("no-enforce-first-as", No(G("bgp enforce-first-as", <<>>)))
    \o F("deterministic-med", G("bgp deterministic-med", <<>>))
BestpathLines(b) ==
    LET F(f, c) == If(f \in b.flags, c)
        med == SelectSeq(<<"med-confed", "med-missing-as-worst">>, LAMBDA f : f \in b.flags) IN
       If(b.stale # 360, G("bgp graceful-restart", <<b.stale>>))
    \o F("graceful-restart", G("bgp graceful-restart", <<>>))
    \o F("aspath-ignore", G("bgp as-path ignore", <<>>))
    \o If(med # <<>>, C("bgp bestpath med", "", <<>>, med))
    \o F("compare-router-id", G("bgp compare-routerid", <<>>))
    \o F("cost-community-ignore", G("bgp cost-community ignore", <<>>))
    \o F("import-check", G("bgp import-check", <<>>))
bgp_config_write_distance(m, b) ==
    LET ps == SetToSeq(DOMAIN m.dtab) IN
       If((\A i \in 1..3 : b.dist[i] # 0) /\ b.dist # <<20, 200, 200>>, G("distance bgp", b.dist))
    \o [i \in DOMAIN ps |-> C("distance", "", <<m.dtab[ps[i]][1]>>,
            IF m.dtab[ps[i]][2] = "" THEN <<ps[i]>> ELSE <<ps[i], m.dtab[ps[i]][2]>>)]
GroupRec(b, w) == IF peer_group_member(b, w) THEN GroupOf(b, w) ELSE b.conf[w]
PeersGlobal(b, order) ==
    FlattenSeq([i \in DOMAIN Listed(b, order) |->
        bgp_config_write_peer_global(b, Listed(b, order)[i], GroupRec(b, Listed(b, order)[i]))])
WriteInstance(m, b) ==
       <<C("router bgp", "", <<b.as>>, IF "multi" \in m.opt /\ b.name # "" THEN <<b.name>> ELSE <<>>)>>
    \o FlagLines(b) \o BestpathLines(b)
    \o If(m.scan # 60, G("bgp scan-time", <<m.scan>>))
    \o If(b.tim[1] # 60 /\ b.tim[2] # 180, G("timers bgp", b.tim))
    \o bgp_config_write_distance(m, b)
    \o PeersGlobal(b, GroupOrder) \o PeersGlobal(b, PeerOrder)
    \o FlattenSeq([i \in 1..4 |-> bgp_config_write_family(m, b, AFS[i])])
bgp_config_write(m) ==
       If("multi" \in m.opt, G("bgp multiple-instance", <<>>))
    \o If("cisco" \in m.opt, G("bgp config-type", <<>>))
    \o FlattenSeq([i \in DOMAIN m.bgp |-> WriteInstance(m, m.bgp[i])])
=============================================================================
