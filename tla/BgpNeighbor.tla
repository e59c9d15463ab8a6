----------------------------- MODULE BgpNeighbor ----------------------------
(***************************************************************************)
(* The settings of one neighbour or one peer group (bgpd/bgpd.c): every    *)
(* operation checks, changes the struct peer it is given, and passes the   *)
(* change on to the members when that is a group.                          *)
(***************************************************************************)
EXTENDS BgpPeer
LOCAL INSTANCE SequencesExt

Alter(set, was, fs) == IF set THEN was \cup fs ELSE was \ fs
Same(set, was, fs) == IF set THEN fs \subseteq was ELSE was \cap fs = {}

(* The session parameters of one peer change: set it up again.             *)
FlagReset(b, w, fs) ==
    IF fs \cap SessionFlags # {} /\ ~(fs \subseteq {"active", "passive"}) THEN Reset(b, w) ELSE b
FlagOne(b, w, fs, set) ==
    IF Same(set, b.conf[w].flags, fs) THEN b
    ELSE FlagReset([b EXCEPT !.conf[w].flags = Alter(set, b.conf[w].flags, fs)], w, fs)
FlagRefused(b, w, fs, set) ==
    \/ ~set /\ peer_group_member(b, w) /\ GroupOf(b, w).flags \cap fs # {}
    \/ set /\ {"strict", "override"} \subseteq b.conf[w].flags \cup fs
peer_flag_modify(b, w, fs, set) ==
    IF FlagRefused(b, w, fs, set) THEN b
    ELSE OnMembers(FlagOne(b, w, fs, set), w, LAMBDA acc, x : FlagOne(acc, x, fs, set))

AfActed(b, w, af, fs, set) ==
    IF ~set /\ fs = {"soft-reconfig"} THEN b ELSE peer_change_action(b, w, af, FlagType(fs))
AfFlagOne(b, w, af, fs, set) ==
    IF Same(set, b.conf[w].af[af].fl, fs) THEN b
    ELSE AfActed([b EXCEPT !.conf[w].af[af].fl = Alter(set, b.conf[w].af[af].fl, fs)], w, af, fs, set)
(* Mutant of the next definition: members may change what is the group's. *)
AfFlagMembersToo(b, w, af, fs, set) ==
    \/ ~b.conf[w].af[af].on
    \/ "rr-client" \in fs /\ peer_sort(b, w) # "ibgp"
    \/ "remove-private-as" \in fs /\ peer_sort(b, w) = "ibgp"
AfFlagRefused(b, w, af, fs, set) ==
    \/ ~b.conf[w].af[af].on
    \/ not_for_member(fs) /\ peer_group_member(b, w)
    \/ "rr-client" \in fs /\ peer_sort(b, w) # "ibgp"
    \/ "remove-private-as" \in fs /\ peer_sort(b, w) = "ibgp"
    \/ ~set /\ peer_group_member(b, w) /\ GroupOf(b, w).af[af].fl \cap fs # {}
peer_af_flag_modify(b, w, af, fs, set) ==
    IF AfFlagRefused(b, w, af, fs, set) THEN b
    ELSE OnMembers(AfFlagOne(b, w, af, fs, set), w, LAMBDA acc, x :
             IF acc.conf[x].af[af].on THEN AfFlagOne(acc, x, af, fs, set) ELSE acc)

-----------------------------------------------------------------------------
(* Addresses, timers, names.                                               *)

TtlOne(b, w, ttl) == IF peer_sort(b, w) = "ibgp" THEN b ELSE [b EXCEPT !.conf[w].ttl = ttl]
peer_ebgp_multihop_set(b, w, ttl) ==
    IF peer_sort(b, w) = "ibgp" THEN b
    ELSE OnMembers(TtlOne(b, w, ttl), w, LAMBDA acc, x : TtlOne(acc, x, ttl))
peer_ebgp_multihop_unset(b, w) ==
    peer_ebgp_multihop_set(b, w, IF peer_group_member(b, w) THEN GroupOf(b, w).ttl ELSE 1)

peer_description_set(b, w, text) == [b EXCEPT !.conf[w].desc = text]
peer_port_set(b, w, port) == [b EXCEPT !.conf[w].port = port]
peer_interface_set(b, w, name) == [b EXCEPT !.conf[w].ifname = name]

SourceOne(b, w, src) ==
    IF b.conf[w].src = src THEN b ELSE Reset([b EXCEPT !.conf[w].src = src], w)
peer_update_source_if_set(b, w, name) ==
    OnMembers(SourceOne(b, w, <<"if", name>>), w, LAMBDA acc, x : SourceOne(acc, x, <<"if", name>>))
peer_update_source_addr_set(b, w, addr) ==
    OnMembers(SourceOne(b, w, <<"addr", addr>>), w, LAMBDA acc, x : SourceOne(acc, x, <<"addr", addr>>))
(* A member that falls back on the source of its group is set up again,    *)
(* with the same source too.                                               *)
peer_update_source_unset(b, w) ==
    IF ~IsGroup(b, w) /\ b.conf[w].src = <<>> THEN b
    ELSE IF peer_group_member(b, w)
    THEN Reset([b EXCEPT !.conf[w].src = GroupOf(b, w).src], w)
    ELSE OnMembers(SourceOne(b, w, <<>>), w, LAMBDA acc, x : SourceOne(acc, x, <<>>))

Min2(x, y) == IF x < y THEN x ELSE y
Timers(k, h) == <<Min2(k, h \div 3), h>>
peer_timers_set(b, w, k, h) ==
    IF peer_group_member(b, w) \/ h \in {1, 2} THEN b
    ELSE OnMembers([b EXCEPT !.conf[w].tim = Timers(k, h)], w,
             LAMBDA acc, x : [acc EXCEPT !.conf[x].tim = Timers(k, h)])
peer_timers_unset(b, w) ==
    IF peer_group_member(b, w) THEN b
    ELSE OnMembers([b EXCEPT !.conf[w].tim = <<>>], w, LAMBDA acc, x : [acc EXCEPT !.conf[x].tim = <<>>])
peer_advertise_interval_set(b, w, secs) ==
    IF peer_group_member(b, w) THEN b ELSE [b EXCEPT !.conf[w].adv = <<secs>>]
peer_advertise_interval_unset(b, w) ==
    IF peer_group_member(b, w) THEN b ELSE [b EXCEPT !.conf[w].adv = <<>>]

NoPrepend(np) == IF np THEN {"no-prepend"} ELSE {}
LocalAsOne(b, w, as, np) ==
    Reset([b EXCEPT !.conf[w].chas = as,
                    !.conf[w].flags = (b.conf[w].flags \ {"no-prepend"}) \cup NoPrepend(np)], w)
peer_local_as_set(b, w, as, np) ==
    IF \/ peer_sort(b, w) \notin {"ebgp", "internal"} \/ b.as = as \/ peer_group_member(b, w)
       \/ b.conf[w].chas = as /\ (np <=> "no-prepend" \in b.conf[w].flags)
    THEN b
    ELSE OnMembers(LocalAsOne(b, w, as, np), w, LAMBDA acc, x : LocalAsOne(acc, x, as, np))
peer_local_as_unset(b, w) ==
    IF peer_group_member(b, w) \/ b.conf[w].chas = 0 THEN b
    ELSE OnMembers(LocalAsOne(b, w, 0, FALSE), w, LAMBDA acc, x : LocalAsOne(acc, x, 0, FALSE))

PasswordOne(b, w, pw) ==
    IF b.conf[w].pw = pw THEN b
    ELSE Reset([b EXCEPT !.conf[w].pw = pw,
                         !.conf[w].flags = Alter(pw # "", b.conf[w].flags, {"password"})], w)
peer_password_set(b, w, pw) ==
    OnMembers(PasswordOne(b, w, pw), w, LAMBDA acc, x : PasswordOne(acc, x, pw))
peer_password_unset(b, w) ==
    IF peer_group_member(b, w) /\ "password" \in GroupOf(b, w).flags THEN b
    ELSE OnMembers(PasswordOne(b, w, ""), w, LAMBDA acc, x : PasswordOne(acc, x, ""))

-----------------------------------------------------------------------------
(* Settings of one address family.                                         *)

AfRefused(b, w, af, dir) == ~b.conf[w].af[af].on \/ (dir = "out" /\ peer_group_member(b, w))
AfSet(b, w, af, x) == [b EXCEPT !.conf[w].af[af] = x]
IfOn(b, x, af, c) == IF b.conf[x].af[af].on THEN c ELSE b

(* bgp_default_originate announces or withdraws at once; the members of a  *)
(* group get it in the family whether they are active in it or not.        *)
Originate(x, map) ==
    [x EXCEPT !.fl = x.fl \cup {"default-originate"}, !.drmap = IF map = "" THEN x.drmap ELSE map]
NoOriginate(x) == [x EXCEPT !.fl = x.fl \ {"default-originate"}, !.drmap = ""]
peer_default_originate_set(b, w, af, map) ==
    IF AfRefused(b, w, af, "out") THEN b
    ELSE OnMembers(AfSet(b, w, af, Originate(b.conf[w].af[af], map)), w,
             LAMBDA acc, x : AfSet(acc, x, af, Originate(acc.conf[x].af[af], map)))
peer_default_originate_unset(b, w, af) ==
    IF AfRefused(b, w, af, "out") THEN b
    ELSE OnMembers(AfSet(b, w, af, NoOriginate(b.conf[w].af[af])), w,
             LAMBDA acc, x : AfSet(acc, x, af, NoOriginate(acc.conf[x].af[af])))

(* Mutant of the next definition: the routes are not asked for again. *)
WeightQuietly(b, w, af, set, val) ==
    AfSet(b, w, af, [b.conf[w].af[af] EXCEPT !.wset = set, !.w = val])
WeightOne(b, w, af, set, val) ==
    peer_clear_soft(AfSet(b, w, af, [b.conf[w].af[af] EXCEPT !.wset = set, !.w = val]), w, af, "in")
peer_weight_set(b, w, af, val) ==
    IF b.conf[w].af[af].wset /\ b.conf[w].af[af].w = val THEN b
    ELSE OnMembers(WeightOne(b, w, af, TRUE, val), w, LAMBDA acc, x : WeightOne(acc, x, af, TRUE, val))
peer_weight_unset(b, w, af) ==
    IF ~b.conf[w].af[af].wset THEN b
    ELSE IF peer_group_member(b, w) /\ GroupOf(b, w).af[af].wset
    THEN WeightOne(b, w, af, TRUE, GroupOf(b, w).af[af].w)
    ELSE OnMembers(WeightOne(b, w, af, FALSE, 0), w, LAMBDA acc, x : WeightOne(acc, x, af, FALSE, 0))

AllowOne(b, w, af, n) ==
    IF b.conf[w].af[af].allow = n THEN b
    ELSE peer_change_action(AfSet(b, w, af, [b.conf[w].af[af] EXCEPT
             !.allow = n, !.fl = b.conf[w].af[af].fl \cup {"allowas-in"}]), w, af, "in")
peer_allowas_in_set(b, w, af, n) ==
    IF n \notin 1..10 THEN b
    ELSE OnMembers(AllowOne(b, w, af, n), w, LAMBDA acc, x : AllowOne(acc, x, af, n))
(* The value goes first, so that the flag may stay without it.             *)
DisallowOne(b, w, af) ==
    IF "allowas-in" \notin b.conf[w].af[af].fl THEN b
    ELSE peer_af_flag_modify([b EXCEPT !.conf[w].af[af].allow = 0], w, af, {"allowas-in"}, FALSE)
peer_allowas_in_unset(b, w, af) ==
    OnMembers(DisallowOne(b, w, af), w, LAMBDA acc, x : DisallowOne(acc, x, af))

FilterSet(b, w, af, f, name) == [b EXCEPT !.conf[w].af[af].fil[f] = name]
FilterGroup(b, w, af, f, name) ==
    OnMembers(FilterSet(b, w, af, f, name), w,
        LAMBDA acc, x : IfOn(acc, x, af, FilterSet(acc, x, af, f, name)))
GroupFilter(b, w, af, f) == IF peer_group_member(b, w) THEN GroupOf(b, w).af[af].fil[f] ELSE ""
peer_distribute_set(b, w, af, dir, name) ==
    IF AfRefused(b, w, af, dir) \/ b.conf[w].af[af].fil[<<"plist", dir>>] # "" THEN b
    ELSE FilterGroup(b, w, af, <<"dlist", dir>>, name)
peer_distribute_unset(b, w, af, dir) ==
    IF AfRefused(b, w, af, dir) THEN b
    ELSE FilterGroup(b, w, af, <<"dlist", dir>>, GroupFilter(b, w, af, <<"dlist", dir>>))
peer_prefix_list_set(b, w, af, dir, name) ==
    IF AfRefused(b, w, af, dir) \/ b.conf[w].af[af].fil[<<"dlist", dir>>] # "" THEN b
    ELSE FilterGroup(b, w, af, <<"plist", dir>>, name)
peer_prefix_list_unset(b, w, af, dir) ==
    IF AfRefused(b, w, af, dir) THEN b
    ELSE FilterGroup(b, w, af, <<"plist", dir>>, GroupFilter(b, w, af, <<"plist", dir>>))
peer_aslist_set(b, w, af, dir, name) ==
    IF AfRefused(b, w, af, dir) THEN b ELSE FilterGroup(b, w, af, <<"aslist", dir>>, name)
peer_aslist_unset(b, w, af, dir) ==
    IF AfRefused(b, w, af, dir) THEN b
    ELSE FilterGroup(b, w, af, <<"aslist", dir>>, GroupFilter(b, w, af, <<"aslist", dir>>))
peer_route_map_set(b, w, af, dir, name) ==
    IF AfRefused(b, w, af, dir) THEN b ELSE FilterGroup(b, w, af, <<"map", dir>>, name)
peer_route_map_unset(b, w, af, dir) ==
    IF AfRefused(b, w, af, dir) THEN b
    ELSE FilterGroup(b, w, af, <<"map", dir>>, GroupFilter(b, w, af, <<"map", dir>>))
UnsuppressSet(b, w, af, name) == [b EXCEPT !.conf[w].af[af].usmap = name]
peer_unsuppress_map_set(b, w, af, name) ==
    IF AfRefused(b, w, af, "out") THEN b
    ELSE OnMembers(UnsuppressSet(b, w, af, name), w,
             LAMBDA acc, x : IfOn(acc, x, af, UnsuppressSet(acc, x, af, name)))
peer_unsuppress_map_unset(b, w, af) == peer_unsuppress_map_set(b, w, af, "")

Pmax(x, pmax, fs) == [x EXCEPT !.pmax = pmax, !.fl = (x.fl \ {"max-prefix", "warning-only"}) \cup fs]
PmaxGroup(b, w, af, pmax, fs) ==
    OnMembers(AfSet(b, w, af, Pmax(b.conf[w].af[af], pmax, fs)), w,
        LAMBDA acc, x : IfOn(acc, x, af, AfSet(acc, x, af, Pmax(acc.conf[x].af[af], pmax, fs))))
peer_maximum_prefix_set(b, w, af, pmax, warning) ==
    IF ~b.conf[w].af[af].on THEN b
    ELSE PmaxGroup(b, w, af, pmax, {"max-prefix"} \cup (IF warning THEN {"warning-only"} ELSE {}))
peer_maximum_prefix_unset(b, w, af) ==
    IF ~b.conf[w].af[af].on THEN b
    ELSE IF peer_group_member(b, w)
    THEN AfSet(b, w, af, Pmax(b.conf[w].af[af], GroupOf(b, w).af[af].pmax,
                              GroupOf(b, w).af[af].fl \cap {"max-prefix", "warning-only"}))
    ELSE PmaxGroup(b, w, af, <<0, 0, 0>>, {})
=============================================================================
