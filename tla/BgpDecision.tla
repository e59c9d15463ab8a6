----------------------------- MODULE BgpDecision ----------------------------
(***************************************************************************)
(* What bgpd/bgp_route.c decides about routes without changing any: which  *)
(* of two is better, which of a list is best, what the filters let in and  *)
(* out and with which attributes a route is announced.                     *)
(* A route (struct bgp_info) has peer, sub (NORMAL, STATIC, REDIST or      *)
(* AGGREGATE), type, attr, igp, flags, suppress, damp.                     *)
(* nbr[q] is what is known of the router at the other end of a session:    *)
(* id (remote_id, 0 without a session) and addr (su_remote, 0 without).    *)
(***************************************************************************)
EXTENDS BgpAttr
LOCAL INSTANCE SequencesExt
LOCAL INSTANCE FiniteSetsExt

CONSTANT Self        \* bgp->peer_self

BGP_INFO_HOLDDOWN(ri) ==
    "valid" \notin ri.flags \/ "history" \in ri.flags \/ "damped" \in ri.flags

BGP_MED_MAX == 2147483647      \* the code's 2^32 - 1, above every MED
bgp_med_value(c, a) ==
    IF a.med # NONE THEN a.med ELSE IF "med-missing-as-worst" \in c.flags THEN BGP_MED_MAX ELSE 0

(* +1, 0 or -1: the first argument is better, equal, worse.                *)
Lower(x, y) == IF x < y THEN 1 ELSE IF x > y THEN -1 ELSE 0
Higher(x, y) == Lower(y, x)
Only(new, exist) == IF new THEN 1 ELSE IF exist THEN -1 ELSE 0
(* The first verdict that is not 0.                                        *)
FirstTold(v) == FoldLeft(LAMBDA told, x : IF told # 0 THEN told ELSE x, 0, v)

MedCompared(c, a1, a2) ==
    \/ "always-compare-med" \in c.flags
    \/ /\ "med-confed" \in c.flags
       /\ a1.path # <<>> /\ a2.path # <<>>
       /\ aspath_make_str_count(a1.path) = 0 /\ aspath_make_str_count(a2.path) = 0
    \/ aspath_cmp_left(a1.path, a2.path)
    \/ aspath_cmp_left_confed(a1.path, a2.path)
    \/ a1.path = <<>> /\ a2.path = <<>>

(* The lowest id of the cost communities, then the lowest cost; a route    *)
(* without one has half of the maximum.                                    *)
COST_COMMUNITY_DEFAULT_COST == 2147483647
CostOf(a) == SelectSeq(a.ecomm, LAMBDA e : e.cost)
CostCmp(c1, c2) ==
    LET Val(s, i) == IF i > Len(s) THEN COST_COMMUNITY_DEFAULT_COST ELSE s[i].val
        At(i) == IF i <= Len(c1) /\ i <= Len(c2) /\ c1[i].id # c2[i].id
                 THEN Lower(c1[i].id, c2[i].id) ELSE Lower(Val(c1, i), Val(c2, i))
    IN  FirstTold([i \in 1..(IF Len(c1) = Len(c2) THEN Len(c1) ELSE 1 + Min({Len(c1), Len(c2)})) |-> At(i)])
ecommunity_cost_cmp(a1, a2) == CostCmp(CostOf(a1), CostOf(a2))

RouterId(nbr, ri) == IF ri.attr.oid # NONE THEN ri.attr.oid ELSE nbr[ri.peer].id

(* The steps of the decision, in order.                                    *)
Verdicts(c, nbr, new, exist) ==
    LET a == new.attr
        e == exist.attr
        pref(x) == IF x.lp # NONE THEN x.lp ELSE c.deflp
        local(sub) == Only(new.sub = sub, exist.sub = sub)
        ebgp(ri) == peer_sort(c, ri.peer) = "ebgp"
    IN  << Higher(a.weight, e.weight),
           Higher(pref(a), pref(e)),
           local("STATIC"), local("REDIST"), local("AGGREGATE"),
           IF "aspath-ignore" \in c.flags THEN 0
               ELSE Lower(aspath_make_str_count(a.path), aspath_make_str_count(e.path)),
           Lower(a.origin, e.origin),
           IF MedCompared(c, a, e) THEN Lower(bgp_med_value(c, a), bgp_med_value(c, e)) ELSE 0,
           IF ebgp(new) /\ Internal(c, exist.peer) THEN 1
               ELSE IF Internal(c, new.peer) /\ ebgp(exist) THEN -1 ELSE 0,
           Lower(new.igp, exist.igp),
           IF "cost-community-ignore" \in c.flags THEN 0 ELSE ecommunity_cost_cmp(a, e),
           IF "compare-router-id" \notin c.flags /\ ebgp(new) /\ ebgp(exist)
               THEN Only("selected" \in new.flags, "selected" \in exist.flags) ELSE 0,
           Lower(RouterId(nbr, new), RouterId(nbr, exist)),
           Lower(Len(a.clu), Len(e.clu)),
           Lower(nbr[new.peer].addr, nbr[exist.peer].addr) >>

(* new is taken when the first step that tells them apart says so, and     *)
(* when none does.                                                         *)
bgp_info_cmp(c, nbr, new, exist) == FirstTold(Verdicts(c, nbr, new, exist)) # -1

-----------------------------------------------------------------------------
(* The best of a list, as its index; 0 when every route is held down.      *)

Alive(list) == SelectSeq([i \in 1..Len(list) |-> i],
                         LAMBDA i : ~BGP_INFO_HOLDDOWN(list[i]))
BestOf(c, nbr, list, indices) ==
    LET best[n \in 0..Len(indices)] ==
            IF n = 0 THEN 0
            ELSE IF best[n - 1] = 0 \/ bgp_info_cmp(c, nbr, list[indices[n]], list[best[n - 1]])
            THEN indices[n] ELSE best[n - 1]
    IN  best[Len(indices)]

SameNeighborAs(ri1, ri2) ==
    \/ aspath_cmp_left(ri1.attr.path, ri2.attr.path)
    \/ aspath_cmp_left_confed(ri1.attr.path, ri2.attr.path)

(* bgp deterministic-med: the first pass leaves the best route of every    *)
(* neighbouring AS.  A group is the first route that belongs to none yet   *)
(* and the later ones of the same AS.                                      *)
WithGroup(acc, g) == [done |-> acc.done \cup Range(g), groups |-> acc.groups \cup {g}]
DmedGroup(list, alive, acc, i) ==
    IF i \in acc.done THEN acc
    ELSE WithGroup(acc, SelectSeq(alive, LAMBDA j : j = i \/
             (j > i /\ j \notin acc.done /\ SameNeighborAs(list[i], list[j]))))
DmedGroups(list, alive) ==
    FoldLeft(LAMBDA acc, i : DmedGroup(list, alive, acc, i), [done |-> {}, groups |-> {}], alive).groups

(* Without deterministic-med the whole list is one group.                  *)
(* Mutant of the next definition: one pass with deterministic-med too. *)
GroupsOnePass(c, list, alive) == {alive}
Groups(c, list, alive) == IF "deterministic-med" \in c.flags THEN DmedGroups(list, alive) ELSE {alive}
Among(alive, best) == SelectSeq(alive, LAMBDA i : i \in best)
BestAlive(c, nbr, list, alive) ==
    BestOf(c, nbr, list, Among(alive, {BestOf(c, nbr, list, g) : g \in Groups(c, list, alive)}))
Best(c, nbr, list) == BestAlive(c, nbr, list, Alive(list))

-----------------------------------------------------------------------------
(* Filters.  A policy f has denyIn and denyOut (what the distribute, prefix *)
(* and filter lists deny), rmapIn, rmapOut and unsuppress: route-maps with  *)
(* on, deny and lp (the local preference they set, or NONE).                *)

route_map_apply(map, p, a) ==
    IF p \in map.deny THEN [permit |-> FALSE, attr |-> a]
    ELSE [permit |-> TRUE, attr |-> IF map.lp # NONE THEN [a EXCEPT !.lp = map.lp] ELSE a]

bgp_input_filter(f, p) == p \notin f.denyIn
bgp_output_filter(f, p) == p \notin f.denyOut

bgp_input_modifier(c, f, q, p, a) ==
    LET w == [a EXCEPT !.weight = IF c.peer[q].weight # NONE THEN c.peer[q].weight ELSE 0]
    IN  IF f.rmapIn.on THEN route_map_apply(f.rmapIn, p, w) ELSE [permit |-> TRUE, attr |-> w]

bgp_community_filter(c, q, a) ==
    \/ "no-advertise" \in a.comm
    \/ "no-export" \in a.comm /\ peer_sort(c, q) = "ebgp"
    \/ "local-as" \in a.comm /\ peer_sort(c, q) \in {"ebgp", "confed"}

bgp_cluster_filter(c, a) == cluster_loop_check(a.clu, ClusterId(c))

(* The checks of bgp_update in front of the filters.                       *)
OwnAs(c, q, a) ==
    LET allowed == c.peer[q].allowas
        prepended == IF Has(c, q, "local-as-no-prepend") THEN 0 ELSE 1
    IN  \/ c.peer[q].chas # 0 /\ aspath_loop_check(a.path, c.peer[q].chas) > prepended
        \/ aspath_loop_check(a.path, c.as) > allowed
        \/ c.confed # 0 /\ aspath_loop_check(a.path, c.confed) > allowed

(* Route reflection: is the route of from for the IBGP peer q?             *)
Reflects(c, from, q) ==
    IF Has(c, from, "route-reflector-client")
    THEN ~("no-client-to-client" \in c.flags /\ Has(c, q, "route-reflector-client"))
    ELSE Has(c, q, "route-reflector-client")

(* The next hop: kept, or the address of this end of the session.          *)
NexthopFor(c, q, from, a, transparent, reflect) ==
    IF \/ transparent \/ reflect
       \/ Has(c, q, "next-hop-unchanged") /\ a.nh # 0
    THEN a.nh
    ELSE IF \/ Has(c, q, "next-hop-self") \/ a.nh = 0
            \/ peer_sort(c, q) = "ebgp" /\ a.nh \notin c.peer[q].subnet
    THEN c.peer[q].own ELSE a.nh

(* May ri be announced to q, and with which attribute?  d: the default     *)
(* route is sent to q by itself.  orf: the prefixes its ORF list denies.   *)
bgp_announce_check(c, f, nbr, ri, q, p, d, orf) ==
    LET from == ri.peer
        a == ri.attr
        transparent == Has(c, q, "rserver-client") /\ Has(c, from, "rserver-client")
        reflect == peer_sort(c, from) = "ibgp" /\ peer_sort(c, q) = "ibgp"
        ok == /\ from # q
              /\ ri.suppress # 0 => f.unsuppress.on
              /\ ~d
              /\ transparent \/ ~bgp_community_filter(c, q, a)
              /\ a.oid = NONE \/ a.oid # nbr[q].id
              /\ p \notin orf
              /\ bgp_output_filter(f, p)
              /\ c.confed # 0 => aspath_loop_check(a.path, c.confed) = 0
              /\ reflect => Reflects(c, from, q)
        out == [a EXCEPT
            !.lp = IF Internal(c, q) /\ @ = NONE THEN c.deflp ELSE @,
            !.med = IF /\ peer_sort(c, q) = "ebgp" /\ from # Self /\ ~transparent
                       /\ ~Has(c, q, "med-unchanged") THEN NONE ELSE @,
            !.nh = NexthopFor(c, q, from, a, transparent, reflect),
            !.path = IF /\ peer_sort(c, q) = "ebgp" /\ Has(c, q, "remove-private-as")
                        /\ aspath_private_as_check(@) THEN aspath_empty ELSE @]
        map == IF ri.suppress # 0 THEN f.unsuppress ELSE f.rmapOut
        Applied(o) == IF ~(f.rmapOut.on \/ ri.suppress # 0) THEN [permit |-> TRUE, attr |-> o]
                      ELSE [route_map_apply(map, p, o) EXCEPT !.attr = IF reflect THEN o ELSE @]
    IN  IF ok THEN Applied(out) ELSE [permit |-> FALSE, attr |-> a]
=============================================================================
