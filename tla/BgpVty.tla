------------------------------- MODULE BgpVty -------------------------------
(***************************************************************************)
(* The commands as they are typed or read from a file (bgpd/bgp_vty.c and  *)
(* the command part of bgpd/bgp_route.c): where each is installed, what it *)
(* calls, and the operators that write the configuration.                  *)
(***************************************************************************)
EXTENDS BgpConf
LOCAL INSTANCE SequencesExt

AfNodes == {"ipv4", "ipv4m", "vpnv4", "ipv6"}
(* Where bgp_vty_init and bgp_route_init install the commands.             *)
InConfig == {"bgp multiple-instance", "bgp config-type", "router bgp"}
InBgp == {"bgp router-id", "bgp cluster-id", "bgp confederation identifier", "bgp confederation peers",
          "timers bgp", "bgp client-to-client", "bgp always-compare-med", "bgp deterministic-med",
          "bgp graceful-restart", "bgp fast-external-failover", "bgp enforce-first-as",
          "bgp compare-routerid", "bgp cost-community ignore", "bgp as-path ignore",
          "bgp log-neighbor-changes", "bgp bestpath med", "bgp default ipv4-unicast",
          "bgp import-check", "bgp local-preference", "distance bgp", "distance", "bgp scan-time"}
InBgpNeighbor == {"remote-as", "define group", "local-as", "password", "connection-mode", "shutdown",
                  "dynamic", "dont-capability", "multihop", "connected-check", "description",
                  "update-source", "port", "override", "strict", "timers", "adv-interval", "interface"}
InAll == {"activate", "unchanged", "next-hop-self", "remove-private-as", "send-community", "rr-client",
          "rs-client", "distribute-list", "prefix-list", "filter-list", "route-map", "maximum-prefix",
          "allowas-in"}
InAllButVpn == {"peer-group", "soft-reconfig", "orf", "default-originate", "weight", "unsuppress-map"}
InBgpAndIpv4 == {"dampening"}
InUnicast == {"redistribute"}
InIpAndIpv6 == {"network", "aggregate-address"}
Nodes(op) ==
    CASE op \in InConfig -> {"config"}
      [] op \in InBgp \cup InBgpNeighbor \cup {"network backdoor", "address-family"} -> {"bgp"}
      [] op \in InAll -> {"bgp"} \cup AfNodes
      [] op \in InAllButVpn -> {"bgp", "ipv4", "ipv4m", "ipv6"}
      [] op \in InBgpAndIpv4 -> {"bgp", "ipv4"}
      [] op \in InUnicast -> {"bgp", "ipv4", "ipv6"}
      [] op \in InIpAndIpv6 -> {"bgp", "ipv4", "ipv4m", "ipv6"}
      [] OTHER -> AfNodes     \* exit-address-family

NodeAf(node) == IF node = "bgp" THEN "ipv4" ELSE node

-----------------------------------------------------------------------------
(* The neighbour commands.                                                 *)

NotGroup == {"port", "adv-interval", "interface"}     \* peer_lookup_vty; the others take groups too
peer_and_group_lookup_vty(b, c) ==
    c.w \in DOMAIN b.conf /\ ~(IsGroup(b, c.w) /\ (c.op \in NotGroup \/ (c.op = "timers" /\ c.no)))

GroupName(w) == w \in Range(GroupOrder)     \* not an address
neighbor_remote_as(opt, b, c) ==
    IF GroupName(c.w) THEN peer_group_remote_as(b, c.w, c.n[1]) ELSE peer_remote_as(opt, b, c.w, c.n[1])
(* no neighbor P [remote-as], no neighbor G remote-as.                     *)
no_neighbor(b, c) ==
    IF c.w \notin DOMAIN b.conf THEN b
    ELSE IF ~IsGroup(b, c.w) THEN peer_delete(b, c.w)
    ELSE peer_group_remote_as_delete(b, c.w)
neighbor_peer_group(opt, b, c) ==
    IF ~c.no THEN peer_group_get(opt, b, c.w)
    ELSE IF IsGroup(b, c.w) THEN peer_group_delete(b, c.w) ELSE b
neighbor_set_peer_group(opt, b, c, af) ==
    IF ~IsGroup(b, c.s[1]) \/ GroupName(c.w) THEN b
    ELSE IF ~c.no THEN peer_group_bind(opt, b, c.w, c.s[1], af)
    ELSE IF c.w \in DOMAIN b.conf THEN peer_group_unbind(opt, b, c.w, c.s[1], af) ELSE b
neighbor_local_as(b, c) ==
    IF c.no THEN peer_local_as_unset(b, c.w) ELSE peer_local_as_set(b, c.w, c.n[1], c.s # <<>>)
neighbor_password(b, c) ==
    IF c.no THEN peer_password_unset(b, c.w) ELSE peer_password_set(b, c.w, c.s[1])
neighbor_activate(opt, b, c, af) ==
    IF c.no THEN peer_deactivate(opt, b, c.w, af) ELSE peer_activate(b, c.w, af)
(* The other mode goes first; when the group has it the mode stays.        *)
Mode(b, w, mode, other) ==
    IF FlagRefused(b, w, {other}, FALSE) THEN b
    ELSE peer_flag_modify(peer_flag_modify(b, w, {other}, FALSE), w, {mode}, TRUE)
neighbor_transport_connection_mode(b, c) ==
    IF c.no
    THEN (IF FlagRefused(b, c.w, {"passive"}, FALSE) THEN b
          ELSE peer_flag_modify(peer_flag_modify(b, c.w, {"passive"}, FALSE), c.w, {"active"}, FALSE))
    ELSE Mode(b, c.w, c.s[1], IF c.s[1] = "passive" THEN "active" ELSE "passive")
neighbor_shutdown(b, c) == peer_flag_modify(b, c.w, {"shutdown"}, ~c.no)
neighbor_capability_dynamic(b, c) == peer_flag_modify(b, c.w, {"dynamic"}, ~c.no)
neighbor_dont_capability_negotiate(b, c) == peer_flag_modify(b, c.w, {"dont-capability"}, ~c.no)
neighbor_capability_orf_prefix(b, c, af) ==
    peer_af_flag_modify(b, c.w, af, CASE c.s[1] = "send" -> {"orf-sm"} [] c.s[1] = "receive" -> {"orf-rm"}
                                      [] OTHER -> {"orf-sm", "orf-rm"}, ~c.no)
neighbor_nexthop_self(b, c, af) == peer_af_flag_modify(b, c.w, af, {"next-hop-self"}, ~c.no)
neighbor_remove_private_as(b, c, af) == peer_af_flag_modify(b, c.w, af, {"remove-private-as"}, ~c.no)
neighbor_send_community(b, c, af) ==
    peer_af_flag_modify(b, c.w, af, CASE c.s = <<>> -> {"send-community"} [] c.s[1] = "extended" -> {"send-ext"}
                                      [] OTHER -> {"send-community", "send-ext"}, ~c.no)
neighbor_soft_reconfiguration(b, c, af) == peer_af_flag_modify(b, c.w, af, {"soft-reconfig"}, ~c.no)
neighbor_route_reflector_client(b, c, af) == peer_af_flag_modify(b, c.w, af, {"rr-client"}, ~c.no)
neighbor_route_server_client(b, c, af) == peer_af_flag_modify(b, c.w, af, {"rs-client"}, ~c.no)
neighbor_attribute_unchanged(b, c, af) ==
    peer_af_flag_modify(b, c.w, af, IF c.s = <<>> THEN {"as-path-unchanged", "next-hop-unchanged", "med-unchanged"}
                                    ELSE Range(c.s), ~c.no)
neighbor_ebgp_multihop(b, c) ==
    IF c.no THEN peer_ebgp_multihop_unset(b, c.w)
    ELSE peer_ebgp_multihop_set(b, c.w, IF c.n = <<>> THEN TTL_MAX ELSE c.n[1])
neighbor_disable_connected_check(b, c) == peer_flag_modify(b, c.w, {"no-connected-check"}, ~c.no)
neighbor_description(b, c) == peer_description_set(b, c.w, IF c.no THEN "" ELSE c.s[1])
neighbor_update_source(b, c) ==
    IF c.no THEN peer_update_source_unset(b, c.w)
    ELSE IF c.s[1] = "if" THEN peer_update_source_if_set(b, c.w, c.s[2])
    ELSE peer_update_source_addr_set(b, c.w, c.s[2])
neighbor_default_originate(b, c, af) ==
    IF c.no THEN peer_default_originate_unset(b, c.w, af)
    ELSE peer_default_originate_set(b, c.w, af, Arg(c.s))
neighbor_port(b, c) == peer_port_set(b, c.w, IF c.no THEN 179 ELSE c.n[1])
neighbor_weight(b, c, af) ==
    IF c.no THEN peer_weight_unset(b, c.w, af) ELSE peer_weight_set(b, c.w, af, c.n[1])
neighbor_override_capability(b, c) == peer_flag_modify(b, c.w, {"override"}, ~c.no)
neighbor_strict_capability(b, c) == peer_flag_modify(b, c.w, {"strict"}, ~c.no)
neighbor_timers(b, c) ==
    IF c.no THEN peer_timers_unset(b, c.w) ELSE peer_timers_set(b, c.w, c.n[1], c.n[2])
neighbor_advertise_interval(b, c) ==
    IF c.no THEN peer_advertise_interval_unset(b, c.w) ELSE peer_advertise_interval_set(b, c.w, c.n[1])
neighbor_interface(b, c) == peer_interface_set(b, c.w, IF c.no THEN "" ELSE c.s[1])
neighbor_distribute_list(b, c, af) ==
    IF c.no THEN peer_distribute_unset(b, c.w, af, c.s[1])
    ELSE peer_distribute_set(b, c.w, af, c.s[1], c.s[2])
neighbor_prefix_list(b, c, af) ==
    IF c.no THEN peer_prefix_list_unset(b, c.w, af, c.s[1])
    ELSE peer_prefix_list_set(b, c.w, af, c.s[1], c.s[2])
neighbor_filter_list(b, c, af) ==
    IF c.no THEN peer_aslist_unset(b, c.w, af, c.s[1]) ELSE peer_aslist_set(b, c.w, af, c.s[1], c.s[2])
neighbor_route_map(b, c, af) ==
    IF c.no THEN peer_route_map_unset(b, c.w, af, c.s[1])
    ELSE peer_route_map_set(b, c.w, af, c.s[1], c.s[2])
neighbor_unsuppress_map(b, c, af) ==
    IF c.no THEN peer_unsuppress_map_unset(b, c.w, af) ELSE peer_unsuppress_map_set(b, c.w, af, c.s[1])
(* n: the maximum, the threshold if given; s: warning-only or nothing;     *)
(* a third number is the restart interval.                                 *)
neighbor_maximum_prefix(b, c, af) ==
    IF c.no THEN peer_maximum_prefix_unset(b, c.w, af)
    ELSE peer_maximum_prefix_set(b, c.w, af, <<c.n[1], IF Len(c.n) > 1 THEN c.n[2] ELSE 75,
                                               IF Len(c.n) > 2 THEN c.n[3] ELSE 0>>, c.s # <<>>)
neighbor_allowas_in(b, c, af) ==
    IF c.no THEN peer_allowas_in_unset(b, c.w, af)
    ELSE peer_allowas_in_set(b, c.w, af, IF c.n = <<>> THEN 3 ELSE c.n[1])
=============================================================================
