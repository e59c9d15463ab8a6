------------------------------ MODULE BgpManage -----------------------------
(***************************************************************************)
(* The operator of bgpd: typing configuration commands and clear commands  *)
(* while sessions come up, and saving the configuration at any time.       *)
(*                                                                         *)
(* A scenario has the commands that lead to its start, those that are      *)
(* typed afterwards, with the node and the instance they are typed in, the *)
(* neighbours that come up and the clear commands in use.                  *)
(***************************************************************************)
EXTENDS BgpFile
LOCAL INSTANCE SequencesExt

CONSTANT Environment
VARIABLES
    m,      \* the daemon
    env     \* the name of the scenario
vars == <<m, env>>

(* The forms of the clear command: whom, how, for which family, and        *)
(* whether the family is named.  Only "all" takes a view.                  *)
F(sort, stype, afs) == {[sort |-> sort, stype |-> stype, af |-> a] : a \in afs}
NoVpn == {"ipv4", "ipv4m", "ipv6"}
clear_ip_bgp == F("all", "none", {"ipv4"}) \cup F("peer", "none", {"ipv4"}) \cup F("group", "none", {"ipv4"})
                \cup F("external", "none", {"ipv4"}) \cup F("as", "none", {"ipv4"})
clear_bgp_all_soft_out == F("all", "out", AF)
clear_bgp_peer_soft_out == F("peer", "out", AF)
clear_bgp_peer_group_soft_out == F("group", "out", NoVpn)
clear_bgp_external_soft_out == F("external", "out", NoVpn)
clear_bgp_as_soft_out == F("as", "out", AF)
clear_bgp_all_soft_in == F("all", "in", AF)
clear_bgp_all_in_prefix_filter == F("all", "in-orf", NoVpn)
clear_bgp_peer_soft_in == F("peer", "in", AF) \cup F("peer", "in-orf", NoVpn)
clear_bgp_peer_group_soft_in == F("group", "in", NoVpn) \cup F("group", "in-orf", NoVpn)
clear_bgp_external_soft_in == F("external", "in", NoVpn) \cup F("external", "in-orf", NoVpn)
clear_bgp_as_soft_in == F("as", "in", AF) \cup F("as", "in-orf", NoVpn)
clear_bgp_all_soft == F("all", "both", AF)
clear_bgp_peer_soft == F("peer", "both", AF)
clear_bgp_peer_group_soft == F("group", "both", NoVpn)
clear_bgp_external_soft == F("external", "both", NoVpn)
clear_bgp_as_soft == F("as", "both", AF)
Forms == clear_ip_bgp
    \cup clear_bgp_all_soft_out \cup clear_bgp_peer_soft_out \cup clear_bgp_peer_group_soft_out
    \cup clear_bgp_external_soft_out \cup clear_bgp_as_soft_out
    \cup clear_bgp_all_soft_in \cup clear_bgp_all_in_prefix_filter \cup clear_bgp_peer_soft_in
    \cup clear_bgp_peer_group_soft_in \cup clear_bgp_external_soft_in \cup clear_bgp_as_soft_in
    \cup clear_bgp_all_soft \cup clear_bgp_peer_soft \cup clear_bgp_peer_group_soft
    \cup clear_bgp_external_soft \cup clear_bgp_as_soft
(* clear ip bgp view V * ipv4 (unicast|multicast) soft clears the default  *)
(* instance; kw: the family was named.                                     *)
clear_ip_bgp_instance_all_ipv4_soft(t) ==
    IF t.f.sort = "all" /\ t.f.stype = "both" /\ t.f.af \in {"ipv4", "ipv4m"} /\ t.kw THEN "" ELSE t.view

ClearSelects(b, sort, arg) ==
    CASE sort = "all" -> PeersOf(b)
      [] sort = "peer" -> PeersOf(b) \cap {arg}
      [] sort = "group" -> IF IsGroup(b, arg) THEN Range(b.mem[arg]) ELSE {}
      [] sort = "external" -> {w \in PeersOf(b) : peer_sort(b, w) # "ibgp"}
      [] OTHER -> {w \in PeersOf(b) : ToString(b.conf[w].as) = arg}
ClearOne(b, w, f) == IF f.stype = "none" THEN peer_clear(b, w) ELSE peer_clear_soft(b, w, f.af, f.stype)
bgp_clear(b, f, arg) ==
    [b EXCEPT !.conf = [w \in DOMAIN b.conf |->
        IF w \in ClearSelects(b, f.sort, arg) THEN ClearOne(b, w, f).conf[w] ELSE b.conf[w]]]
ClearTarget(d, view) == IF view = "" THEN bgp_get_default(d) ELSE bgp_lookup_by_name(d, view)
(* Mutant of the next definition: the view is not looked up. *)
ClearDefault(d, view, f, arg) ==
    [d EXCEPT !.bgp = [i \in Instances(d) |-> IF i = 1 THEN bgp_clear(d.bgp[i], f, arg) ELSE d.bgp[i]]]
bgp_clear_vty(d, view, f, arg) ==
    [d EXCEPT !.bgp = [i \in Instances(d) |->
        IF i \in ClearTarget(d, view) THEN bgp_clear(d.bgp[i], f, arg) ELSE d.bgp[i]]]
Cleared(d, t) == bgp_clear_vty(d, clear_ip_bgp_instance_all_ipv4_soft(t), t.f, t.arg)

-----------------------------------------------------------------------------
Typed(d, t) == IF t.i > Len(d.bgp) THEN d ELSE Exec([d EXCEPT !.node = t.node, !.idx = t.i], t.c)
Settled(d) == [d EXCEPT !.node = "config", !.idx = 0]

E == Environment[env]
Init == /\ env \in DOMAIN Environment
        /\ m = Settled(FoldLeft(Exec, EmptyDaemon, E.start))
Command == \E t \in E.cmds : m' = Settled(Typed(m, t)) /\ UNCHANGED env
(* A session comes up with what is configured then.                        *)
MayEstablish(b, w) ==
    LET p == b.conf[w] IN p.run = <<>> /\ peer_active(p) /\ "shutdown" \notin p.flags /\ p.as # 0
Establish ==
    \E i \in Instances(m) : \E w \in PeersOf(m.bgp[i]) \cap E.up :
        /\ MayEstablish(m.bgp[i], w)
        /\ m' = [m EXCEPT !.bgp[i].conf[w].run = Session(m.bgp[i], w)]
        /\ UNCHANGED env
Clear == \E t \in E.clears : t.f \in Forms /\ m' = Cleared(m, t) /\ UNCHANGED env

Next == Command \/ Establish \/ Clear
Spec == Init /\ [][Next]_vars

-----------------------------------------------------------------------------
(* Properties.                                                             *)

EachPeer(P(_, _)) == \A i \in Instances(m) : \A w \in PeersOf(m.bgp[i]) : P(m.bgp[i], w)
(* The configuration without the sessions and without values that nothing  *)
(* reads: a maximum without its flag, the local AS of a group without an   *)
(* AS, the parameters of dampening that is off, the order of the members.  *)
PlainAf(x) == IF "max-prefix" \in x.fl THEN x ELSE [x EXCEPT !.pmax = <<0, 0, 0>>]
PlainPeer(p) ==
    [p EXCEPT !.run = <<>>, !.las = IF p.as = 0 THEN 0 ELSE @, !.af = [a \in AF |-> PlainAf(p.af[a])]]
PlainInstance(b) ==
    [b EXCEPT !.mem = [g \in DOMAIN b.mem |-> Range(b.mem[g])],
              !.conf = [w \in DOMAIN b.conf |-> PlainPeer(b.conf[w])]]
Plain(d) ==
    [Settled(d) EXCEPT !.damp = IF \A i \in Instances(d) : d.bgp[i].damp = {} THEN <<>> ELSE @,
                       !.bgp = [i \in Instances(d) |-> PlainInstance(d.bgp[i])]]

(* A neighbour that names a group is once in the list of that group, and   *)
(* the lists hold nobody else (peer_group_bind, peer_delete,               *)
(* peer_group_delete, peer_group_remote_as_delete).                        *)
GroupLists ==
    \A i \in Instances(m) : \A g \in DOMAIN m.bgp[i].mem :
        LET b == m.bgp[i] IN
        /\ \A w \in PeersOf(b) : Len(SelectSeq(b.mem[g], LAMBDA x : x = w)) = (IF b.conf[w].grp = g THEN 1 ELSE 0)
        /\ Range(b.mem[g]) \subseteq PeersOf(b)

(* A session never outlives a change of what it was set up with: router id, *)
(* cluster id, AS numbers, password, source, capabilities, families and    *)
(* the flags whose action is a reset.                                      *)
SessionCurrent ==
    EachPeer(LAMBDA b, w : b.conf[w].run = <<>> \/ b.conf[w].run[1].fix = Identity(b, w))

(* The flags of peer_af_flag_action_list, allowas-in and the weight are in *)
(* force on every session as configured: their change announces the routes *)
(* again or asks for them.                                                 *)
PolicyCurrent ==
    EachPeer(LAMBDA b, w : b.conf[w].run = <<>> \/ \A a \in Active(b.conf[w]) :
        LET x == b.conf[w].af[a]
            r == b.conf[w].run[1] IN
        /\ r.out[a].fl = x.fl \cap OutFlags
        /\ r.in[a].allow = x.allow /\ r.in[a].w = x.w)

(* What members may not set themselves they have from their group: the     *)
(* announcements to all active members of a group are alike.               *)
MembersFollow ==
    EachPeer(LAMBDA b, w : ~peer_group_member(b, w) \/ \A a \in Active(b.conf[w]) :
        /\ OutPolicy(b.conf[w].af[a]) = OutPolicy(GroupOf(b, w).af[a])
        /\ b.conf[w].af[a].fl \cap ResetFlags = GroupOf(b, w).af[a].fl \cap ResetFlags)

(* The members of a group are all internal or all external                 *)
(* (neighbor_set_peer_group).                                              *)
OneSort ==
    \A i \in Instances(m) : LET b == m.bgp[i] IN
        \A v, w \in PeersOf(b) : b.conf[v].grp # "" /\ b.conf[v].grp = b.conf[w].grp =>
            (peer_sort(b, v) = "ibgp") = (peer_sort(b, w) = "ibgp")


(* After a soft clear of a view the neighbours it names there have the     *)
(* policy that is configured in force.                                     *)
InForce(b, w, f) ==
    LET p == b.conf[w] IN
    p.run = <<>> \/ ~p.af[f.af].on \/
        /\ f.stype \in {"out", "both"} => p.run[1].out[f.af] = OutPolicy(p.af[f.af])
        /\ f.stype \in {"in", "both"} => p.run[1].in[f.af] = InPolicy(p.af[f.af])
ClearReaches ==
    \A t \in E.clears : \A i \in ClearTarget(m, t.view) :
        \A w \in ClearSelects(m.bgp[i], t.f.sort, t.arg) :
            t.f.stype # "none" => InForce(Cleared(m, t).bgp[i], w, t.f)

(* Groups and members agree: the lists, the announcements, the type.       *)
GroupsConsistent == GroupLists /\ MembersFollow /\ OneSort
=============================================================================
