------------------------------- MODULE BgpPeer ------------------------------
(***************************************************************************)
(* The configuration of neighbours and peer groups (bgpd/bgpd.c) and what  *)
(* a change of it does to the session of an established neighbour.         *)
(*                                                                         *)
(* An instance b (struct bgp) has as, rid and cid (<<>> or the configured  *)
(* id), confed (0: none), cpeers, flags, conf: the struct peer of every    *)
(* neighbour and of every group, and mem: the members of every group in    *)
(* the order of its list.  A struct peer has run: <<>>, or what the        *)
(* established session was set up with and what was announced and          *)
(* requested on it since.  A NOTIFICATION ends the session at once.        *)
(***************************************************************************)
EXTENDS Integers, Sequences, FiniteSets, TLC
LOCAL INSTANCE SequencesExt

CONSTANT Caps      \* what every neighbour supports: "refresh", "dynamic", "orf"

AFS == <<"ipv4", "ipv4m", "vpnv4", "ipv6">>
AF == {"ipv4", "ipv4m", "vpnv4", "ipv6"}
NoFilters == [f \in {"dlist", "plist", "aslist", "map"} \X {"in", "out"} |-> ""]
TTL_MAX == 255

(* The action tables of the flags.                                         *)
ResetFlags == {"rr-client", "rs-client", "orf-sm", "orf-rm"}
OutFlags == {"next-hop-self", "send-community", "send-ext", "as-path-unchanged",
             "next-hop-unchanged", "med-unchanged", "remove-private-as"}
InFlags == {"soft-reconfig", "allowas-in"}
not_for_member(fs) == fs \ InFlags # {}
SessionFlags == {"passive", "active", "shutdown", "dynamic", "no-connected-check"}
FlagType(fs) ==
    IF fs \cap ResetFlags # {} \/ (fs \cap OutFlags # {} /\ fs \cap InFlags # {}) THEN "reset"
    ELSE IF fs \cap InFlags # {} THEN "in" ELSE "out"

SendDefault(opt) == IF "cisco" \in opt THEN {} ELSE {"send-community", "send-ext"}
NewAf(opt) == [on |-> FALSE, fl |-> SendDefault(opt), drmap |-> "", wset |-> FALSE, w |-> 0,
               pmax |-> <<0, 0, 0>>, allow |-> 0, fil |-> NoFilters, usmap |-> ""]
peer_new(opt) ==
    [as |-> 0, las |-> 0, chas |-> 0, flags |-> {}, desc |-> "", pw |-> "", port |-> 179,
     ifname |-> "", ttl |-> 1, src |-> <<>>, tim |-> <<>>, adv |-> <<>>, grp |-> "",
     af |-> [a \in AF |-> NewAf(opt)], run |-> <<>>]

IsGroup(b, w) == w \in DOMAIN b.mem
peer_group_member(b, w) == ~IsGroup(b, w) /\ b.conf[w].grp # ""
GroupOf(b, w) == b.conf[b.conf[w].grp]
Members(b, w) == IF IsGroup(b, w) THEN b.mem[w] ELSE <<>>
PeersOf(b) == DOMAIN b.conf \ DOMAIN b.mem

(* All members of a group are treated alike: Op is the loop's body.        *)
OnMembers(b, w, Op(_, _)) == FoldLeft(Op, b, Members(b, w))

Type(same) == IF same THEN "ibgp" ELSE "ebgp"
bgp_confederation_peers_check(b, as) == as \in Range(b.cpeers)
GroupSort(b, p, members) ==
    IF p.as # 0 THEN Type(b.as = p.as)
    ELSE IF members = <<>> THEN "internal"
    ELSE Type(b.conf[Head(members)].las = b.conf[Head(members)].as)
peer_sort(b, w) ==
    LET p == b.conf[w] IN
    IF IsGroup(b, w) THEN GroupSort(b, p, b.mem[w])
    ELSE IF p.las = p.as THEN Type(b.confed = 0 \/ p.las # b.confed)
    ELSE IF b.confed # 0 /\ bgp_confederation_peers_check(b, p.as) THEN "confed" ELSE "ebgp"

-----------------------------------------------------------------------------
(* The session.                                                            *)

OutPolicy(x) == [fl |-> x.fl \cap OutFlags, usmap |-> x.usmap,
                 fil |-> {<<f, x.fil[f]>> : f \in {g \in DOMAIN x.fil : g[2] = "out"}}]
InPolicy(x) == [fl |-> x.fl \cap InFlags, allow |-> x.allow, w |-> x.w,
                fil |-> {<<f, x.fil[f]>> : f \in {g \in DOMAIN x.fil : g[2] = "in"}}]
Active(p) == {a \in AF : p.af[a].on}
peer_active(p) == Active(p) # {}

(* What a session cannot change without being set up again.                *)
Identity(b, w) ==
    LET p == b.conf[w] IN
    [id |-> b.rid, cid |-> IF peer_sort(b, w) = "ibgp" THEN b.cid ELSE <<>>,
     as |-> p.as, las |-> p.las, chas |-> p.chas, pw |-> p.pw, src |-> p.src,
     flags |-> p.flags \cap {"dynamic", "no-connected-check", "no-prepend"},
     af |-> [a \in Active(p) |-> p.af[a].fl \cap ResetFlags]]
Session(b, w) ==
    << [fix |-> Identity(b, w),
        dyn |-> "dynamic" \in Caps \cap b.conf[w].flags,
        out |-> [a \in AF |-> OutPolicy(b.conf[w].af[a])],
        in |-> [a \in AF |-> InPolicy(b.conf[w].af[a])]] >>

Reset(b, w) == [b EXCEPT !.conf[w].run = <<>>]
ResetAll(b, ws) == [b EXCEPT !.conf = [x \in DOMAIN b.conf |->
    IF x \in ws THEN [b.conf[x] EXCEPT !.run = <<>>] ELSE b.conf[x]]]
bgp_announce_route(b, w, af) ==
    IF b.conf[w].run = <<>> THEN b
    ELSE [b EXCEPT !.conf[w].run[1].out[af] = OutPolicy(b.conf[w].af[af])]
Refresh(b, w, af) ==
    IF b.conf[w].run = <<>> THEN b
    ELSE [b EXCEPT !.conf[w].run[1].in[af] = InPolicy(b.conf[w].af[af])]

peer_change_action(b, w, af, type) ==
    IF IsGroup(b, w) THEN b
    ELSE IF type = "reset" THEN Reset(b, w)
    ELSE IF type = "out" THEN bgp_announce_route(b, w, af)
    ELSE IF "refresh" \in Caps THEN Refresh(b, w, af) ELSE Reset(b, w)

peer_clear(b, w) == IF "shutdown" \in b.conf[w].flags THEN b ELSE Reset(b, w)

SoftOut(b, w, af, stype) == IF stype \in {"out", "both"} THEN bgp_announce_route(b, w, af) ELSE b
SoftIn(b, w, af, stype) ==
    IF /\ stype \in {"in", "both", "in-orf"}
       /\ "soft-reconfig" \in b.conf[w].af[af].fl \/ "refresh" \in Caps
    THEN Refresh(b, w, af) ELSE b
peer_clear_soft(b, w, af, stype) ==
    IF b.conf[w].run = <<>> \/ ~b.conf[w].af[af].on THEN b
    ELSE SoftIn(SoftOut(b, w, af, stype), w, af, stype)

-----------------------------------------------------------------------------
(* Peers: creation, AS, address families.                                  *)

LocalAs(b, as) ==
    IF b.confed # 0 /\ ~bgp_confederation_peers_check(b, as) /\ b.as # as THEN b.confed ELSE b.as
With(f, x, v) == [y \in DOMAIN f \cup {x} |-> IF y = x THEN v ELSE f[y]]
Without(f, S) == [y \in DOMAIN f \ S |-> f[y]]
SetTtl(b, w) == [b EXCEPT !.conf[w].ttl = IF peer_sort(b, w) = "ibgp" THEN TTL_MAX ELSE 1]
peer_create(opt, b, w, las, as, afs) ==
    SetTtl([b EXCEPT !.conf = With(b.conf, w, [peer_new(opt) EXCEPT
        !.as = as, !.las = las, !.af = [a \in AF |-> [NewAf(opt) EXCEPT !.on = a \in afs]]])], w)

RouteAdv(sort) == IF sort = "ibgp" THEN 5 ELSE 30
AsReset(was, now, p) ==
    [p EXCEPT !.ttl = IF now = "ibgp" THEN TTL_MAX ELSE IF was = "ibgp" THEN 1 ELSE p.ttl,
              !.adv = IF p.adv = <<>> THEN <<>> ELSE <<RouteAdv(now)>>,
              !.af = [a \in AF |-> [p.af[a] EXCEPT !.fl =
                         IF now = "ibgp" THEN p.af[a].fl ELSE p.af[a].fl \ {"rr-client"}]],
              !.chas = IF now = "ebgp" THEN p.chas ELSE 0,
              !.flags = IF now = "ebgp" THEN p.flags ELSE p.flags \ {"no-prepend"}]
NewAs(b, w, as) == [b EXCEPT !.conf[w].as = as, !.conf[w].las = LocalAs(b, as), !.conf[w].run = <<>>]
AsChanged(b, w, was) == [b EXCEPT !.conf[w] = AsReset(was, peer_sort(b, w), b.conf[w])]
peer_as_change(b, w, as) == AsChanged(NewAs(b, w, as), w, peer_sort(b, w))

(* A member cannot leave the type of its group.                            *)
AsRefused(b, w, as) ==
    /\ peer_group_member(b, w)
    /\ \/ GroupOf(b, w).as # 0
       \/ (peer_sort(b, b.conf[w].grp) = "ibgp") # (b.as = as)
peer_remote_as(opt, b, w, as) ==
    IF w \notin DOMAIN b.conf
    THEN peer_create(opt, b, w, LocalAs(b, as), as,
                     IF "no-default-ipv4" \in b.flags THEN {} ELSE {"ipv4"})
    ELSE IF AsRefused(b, w, as) \/ b.conf[w].as = as THEN b
    ELSE peer_as_change(b, w, as)

(* The part of its group's configuration that a peer takes over.           *)
InFil(gf, pf, f) == IF f[2] = "out" \/ pf[f] = "" THEN gf[f] ELSE pf[f]
peer_group_af_config_copy(g, x) ==
    [g EXCEPT !.on = x.on, !.drmap = IF g.drmap # "" THEN g.drmap ELSE x.drmap,
              !.fil = [f \in DOMAIN x.fil |-> InFil(g.fil, x.fil, f)]]
peer_group_global_config_copy(g, p) ==
    [p EXCEPT !.as = IF g.as # 0 THEN g.as ELSE p.as,
              !.chas = IF g.chas # 0 THEN g.chas ELSE p.chas,
              !.ttl = g.ttl, !.flags = g.flags, !.tim = g.tim, !.adv = g.adv,
              !.pw = IF "password" \in g.flags THEN g.pw ELSE "",
              !.src = IF g.src # <<>> THEN g.src ELSE p.src]
peer_af_flag_reset(opt, x) ==
    [x EXCEPT !.fil = NoFilters, !.usmap = "", !.fl = SendDefault(opt), !.drmap = "",
              !.pmax = <<0, 75, x.pmax[3]>>, !.wset = FALSE]

On(b, w, af) ==
    IF ~peer_group_member(b, w) THEN [b EXCEPT !.conf[w].af[af].on = TRUE]
    ELSE [b EXCEPT !.conf[b.conf[w].grp].af[af].on = TRUE,
                   !.conf[w].af[af] = peer_group_af_config_copy(
                       GroupOf(b, w).af[af], [b.conf[w].af[af] EXCEPT !.on = TRUE])]
(* With the dynamic capability the session is told, without it ends.       *)
AfChanged(b, w, af) ==
    IF b.conf[w].run = <<>> THEN b
    ELSE IF b.conf[w].run[1].dyn /\ peer_active(b.conf[w])
    THEN [b EXCEPT !.conf[w].run[1].fix.af = Identity(b, w).af,
                   !.conf[w].run[1].out[af] = OutPolicy(b.conf[w].af[af]),
                   !.conf[w].run[1].in[af] = InPolicy(b.conf[w].af[af])]
    ELSE Reset(b, w)
peer_activate(b, w, af) ==
    IF b.conf[w].af[af].on THEN b ELSE AfChanged(On(b, w, af), w, af)

Off(opt, b, w, af) ==
    [b EXCEPT !.conf[w].af[af] = peer_af_flag_reset(opt, [b.conf[w].af[af] EXCEPT !.on = FALSE])]
peer_deactivate(opt, b, w, af) ==
    IF \/ ~b.conf[w].af[af].on
       \/ \E i \in DOMAIN Members(b, w) : b.conf[b.mem[w][i]].af[af].on
    THEN b ELSE AfChanged(Off(opt, b, w, af), w, af)

-----------------------------------------------------------------------------
(* Groups.                                                                 *)

peer_delete(b, w) ==
    [b EXCEPT !.conf = Without(b.conf, {w}),
              !.mem = [g \in DOMAIN b.mem |-> SelectSeq(b.mem[g], LAMBDA x : x # w)]]
peer_group_get(opt, b, g) ==
    IF IsGroup(b, g) THEN b
    ELSE [b EXCEPT !.mem = With(b.mem, g, <<>>),
                   !.conf = With(b.conf, g, [peer_new(opt) EXCEPT
                       !.af["ipv4"].on = "no-default-ipv4" \notin b.flags])]
peer_group_remote_as(b, g, as) ==
    IF ~IsGroup(b, g) \/ b.conf[g].as = as THEN b
    ELSE OnMembers(peer_as_change(b, g, as), g,
             LAMBDA acc, x : IF acc.conf[x].as # as THEN peer_as_change(acc, x, as) ELSE acc)
peer_group_delete(b, g) ==
    [b EXCEPT !.conf = Without(b.conf, {g} \cup Range(b.mem[g])), !.mem = Without(b.mem, {g})]
peer_group_remote_as_delete(b, g) ==
    IF b.conf[g].as = 0 THEN b
    ELSE [b EXCEPT !.conf = [Without(b.conf, Range(b.mem[g])) EXCEPT ![g].as = 0],
                   !.mem[g] = <<>>]

Joined(b, w, g) == [b EXCEPT !.conf[w].grp = g, !.mem[g] = Append(b.mem[g], w)]
Copied(b, w, g) == [b EXCEPT !.conf[w] = peer_group_global_config_copy(b.conf[g], b.conf[w])]
(* The first member gives a group without an AS its type.                  *)
FirstMember(b, w, g, first) ==
    IF ~first THEN b
    ELSE [b EXCEPT !.conf[g].ttl = IF peer_sort(b, g) = "ibgp" THEN TTL_MAX ELSE b.conf[g].ttl,
                   !.conf[g].chas = IF peer_sort(b, g) = "ebgp" THEN b.conf[g].chas ELSE 0]
BindNew(opt, b, w, g, af) ==
    LET c == Copied(Joined(peer_create(opt, b, w, b.as, b.conf[g].as, {}), w, g), w, g) IN
    IF "no-default-ipv4" \in b.flags /\ af = "ipv4" THEN c ELSE peer_activate(c, w, af)
Rebound(opt, b, w, af) == peer_activate(peer_deactivate(opt, b, w, af), w, af)
TypeDiffers(b, w, g) == b.conf[g].as = 0 /\ peer_sort(b, g) \notin {"internal", peer_sort(b, w)}
peer_group_bind(opt, b, w, g, af) ==
    IF w \notin DOMAIN b.conf
    THEN (IF b.conf[g].as = 0 THEN b ELSE BindNew(opt, b, w, g, af))
    ELSE IF b.conf[w].grp # "" THEN (IF b.conf[w].grp = g THEN peer_activate(b, w, af) ELSE b)
    ELSE IF TypeDiffers(b, w, g) THEN b
    ELSE Rebound(opt, Copied(FirstMember(Joined(b, w, g), w, g, peer_sort(b, g) = "internal"), w, g), w, af)
peer_group_unbind(opt, b, w, g, af) ==
    IF ~b.conf[w].af[af].on \/ b.conf[w].grp # g THEN b
    ELSE IF Active(b.conf[w]) = {af} THEN peer_delete(b, w)
    ELSE Reset(Off(opt, b, w, af), w)
=============================================================================
