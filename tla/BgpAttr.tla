------------------------------- MODULE BgpAttr ------------------------------
(***************************************************************************)
(* Path attributes (bgpd/bgp_attr.c): how they are stored, written into an *)
(* UPDATE and read from one.  An attribute record has                      *)
(*   origin, path, nh, med, lp, atomic, aggr (AS and address), comm, ecomm, *)
(*   oid (ORIGINATOR_ID), clu (CLUSTER_LIST), transit (the unknown ones),  *)
(*   weight                                                                *)
(* NONE is an attribute that is not there (its bit in attr->flag is 0).    *)
(* A speaker c has as, confed (its id or 0), confedPeers, rid, cluster,    *)
(* deflp, flags and peer[q]; a peer has as, localas, chas (local-as), ttl1 *)
(* and flags, with the names of PEER_FLAG_*.                               *)
(***************************************************************************)
EXTENDS BgpAspath, Integers, FiniteSets
LOCAL INSTANCE SequencesExt

NONE == -1
BGP_ORIGIN_IGP == 0
BGP_ORIGIN_EGP == 1
BGP_ORIGIN_INCOMPLETE == 2
SelfWeight == 32768      \* of what this speaker originates

bgp_attr_default_set(origin) ==
    [origin |-> origin, path |-> aspath_empty, nh |-> 0, med |-> NONE, lp |-> NONE,
     atomic |-> FALSE, aggr |-> NONE, comm |-> {}, ecomm |-> <<>>, oid |-> NONE,
     clu |-> <<>>, transit |-> {}, weight |-> SelfWeight]

bgp_attr_aggregate_intern(c, origin, path, comm, asSet) ==
    [bgp_attr_default_set(origin) EXCEPT
        !.path = path, !.comm = comm, !.atomic = ~asSet,
        !.aggr = IF c.confed # 0 THEN c.confed ELSE c.as]

(* Two attributes are one entry of the hash: every field is compared but   *)
(* the value of ORIGINATOR_ID.                                             *)
attrhash_cmp(a1, a2) ==
    /\ (a1.oid = NONE) = (a2.oid = NONE)
    /\ [a1 EXCEPT !.oid = NONE] = [a2 EXCEPT !.oid = NONE]

cluster_loop_check(clu, id) == id \in Range(clu)

-----------------------------------------------------------------------------
(* Peers.                                                                  *)

bgp_confederation_peers_check(c, as) == as \in c.confedPeers
peer_sort(c, q) ==
    LET p == c.peer[q] IN
    IF p.localas = 0 THEN "internal"
    ELSE IF p.localas = p.as
    THEN IF c.confed # 0 /\ p.localas = c.confed THEN "ebgp" ELSE "ibgp"
    ELSE IF c.confed # 0 /\ bgp_confederation_peers_check(c, p.as) THEN "confed" ELSE "ebgp"
Internal(c, q) == peer_sort(c, q) \in {"ibgp", "confed"}
Has(c, q, flag) == flag \in c.peer[q].flags
ClusterId(c) == IF c.cluster # 0 THEN c.cluster ELSE c.rid

-----------------------------------------------------------------------------
(* Writing.  A message is the sequence of its attributes.                  *)

Tlv(type, flag, val) == <<[type |-> type, flag |-> flag, val |-> val]>>
When(cond, tlv) == IF cond THEN tlv ELSE <<>>
TRANS == {"trans"}
OPT == {"optional"}
OPTTRANS == {"optional", "trans"}

(* The path that goes to the peer.                                         *)
PathFor(c, q, a, from) ==
    LET clients == Has(c, from, "rserver-client") /\ Has(c, q, "rserver-client")
        own(path) == IF c.peer[q].chas # 0 THEN aspath_add_seq(path, c.peer[q].chas) ELSE path
    IN  CASE /\ peer_sort(c, q) = "ebgp" /\ ~clients
             /\ ~Has(c, q, "as-path-unchanged") \/ a.path = <<>> ->
                IF c.confed # 0
                THEN aspath_add_seq(aspath_delete_confed_seq(a.path), c.confed)
                ELSE own(aspath_add_seq(a.path, c.peer[q].localas))
          [] peer_sort(c, q) = "confed" -> aspath_add_confed_seq(a.path, c.peer[q].localas)
          [] OTHER -> a.path

(* Extended communities that may leave the AS.                             *)
Transitive(ecomm) == SelectSeq(ecomm, LAMBDA e : ~e.nontrans)

bgp_packet_attribute(c, q, a, from, fromId) ==
    LET reflected == peer_sort(c, q) = "ibgp" /\ peer_sort(c, from) = "ibgp"
        sent == IF Internal(c, q) THEN a.ecomm ELSE Transitive(a.ecomm)
    IN     Tlv("origin", TRANS, a.origin)
        \o Tlv("as-path", TRANS, PathFor(c, q, a, from))
        \o Tlv("next-hop", TRANS, a.nh)
        \o When(a.med # NONE, Tlv("med", OPT, a.med))
        \o When(Internal(c, q), Tlv("local-pref", TRANS, IF a.lp = NONE THEN 0 ELSE a.lp))
        \o When(a.atomic, Tlv("atomic", TRANS, 0))
        \o When(a.aggr # NONE, Tlv("aggregator", OPTTRANS, a.aggr))
        \o When(Has(c, q, "send-community") /\ a.comm # {}, Tlv("community", OPTTRANS, a.comm))
        \o When(reflected, Tlv("originator", OPT, IF a.oid # NONE THEN a.oid ELSE fromId)
                           \o Tlv("cluster", OPT, <<ClusterId(c)>> \o a.clu))
        \o When(Has(c, q, "send-ext-community") /\ sent # <<>>, Tlv("ecommunity", OPTTRANS, sent))
        \o SetToSeq({[type |-> u, flag |-> OPTTRANS \cup {"partial"}, val |-> u] : u \in a.transit})

-----------------------------------------------------------------------------
(* Reading.  The result is the attribute and the notification, if any, the *)
(* session is closed with.                                                 *)

Fail(r, err) == [r EXCEPT !.err = err]
Put(r, a) == [r EXCEPT !.attr = a]
WellKnown(flag) == "optional" \notin flag /\ "trans" \in flag

bgp_attr_origin(r, t) ==
    IF t.flag # TRANS THEN Fail(r, "attr-flag")
    ELSE IF t.val \notin {BGP_ORIGIN_IGP, BGP_ORIGIN_EGP, BGP_ORIGIN_INCOMPLETE}
    THEN Fail(r, "invalid-origin")
    ELSE Put(r, [r.attr EXCEPT !.origin = t.val])

bgp_attr_aspath(c, q, r, t) ==
    LET bad == /\ "no-enforce-first-as" \notin c.flags /\ peer_sort(c, q) = "ebgp"
               /\ ~aspath_firstas_check(t.val, c.peer[q].as)
        path == IF c.peer[q].chas # 0 /\ ~Has(c, q, "local-as-no-prepend")
                THEN aspath_add_seq(t.val, c.peer[q].chas) ELSE t.val
    IN  IF ~WellKnown(t.flag) THEN Fail(r, "attr-flag")
        ELSE IF bad THEN Fail(r, "mal-as-path")
        ELSE [Put(r, [r.attr EXCEPT !.path = path]) EXCEPT !.path = TRUE]

bgp_attr_nexthop(r, t) ==
    IF ~WellKnown(t.flag) THEN Fail(r, "attr-flag") ELSE Put(r, [r.attr EXCEPT !.nh = t.val])

(* An external peer's local preference is ignored.                         *)
bgp_attr_local_pref(c, q, r, t) ==
    IF peer_sort(c, q) = "ebgp" THEN r ELSE Put(r, [r.attr EXCEPT !.lp = t.val])

bgp_attr_med(r, t) == Put(r, [r.attr EXCEPT !.med = t.val])
bgp_attr_atomic(r) == Put(r, [r.attr EXCEPT !.atomic = TRUE])
bgp_attr_aggregator(r, t) == Put(r, [r.attr EXCEPT !.aggr = t.val])
bgp_attr_community(r, t) == Put(r, [r.attr EXCEPT !.comm = t.val])
bgp_attr_originator_id(r, t) == Put(r, [r.attr EXCEPT !.oid = t.val])
bgp_attr_cluster_list(r, t) == Put(r, [r.attr EXCEPT !.clu = t.val])
bgp_attr_ext_communities(r, t) == Put(r, [r.attr EXCEPT !.ecomm = t.val])

(* Unknown: a well-known one is an error, an optional transitive one is    *)
(* kept, any other is forgotten.                                           *)
bgp_attr_unknown(r, t) ==
    IF "optional" \notin t.flag THEN Fail(r, "unrec-attr")
    ELSE IF "trans" \notin t.flag THEN r
    ELSE Put(r, [r.attr EXCEPT !.transit = @ \cup {t.type}])

bgp_attr_switch(c, q, r, t) ==
    CASE t.type = "origin" -> bgp_attr_origin(r, t)
      [] t.type = "as-path" -> bgp_attr_aspath(c, q, r, t)
      [] t.type = "next-hop" -> bgp_attr_nexthop(r, t)
      [] t.type = "med" -> bgp_attr_med(r, t)
      [] t.type = "local-pref" -> bgp_attr_local_pref(c, q, r, t)
      [] t.type = "atomic" -> bgp_attr_atomic(r)
      [] t.type = "aggregator" -> bgp_attr_aggregator(r, t)
      [] t.type = "community" -> bgp_attr_community(r, t)
      [] t.type = "originator" -> bgp_attr_originator_id(r, t)
      [] t.type = "cluster" -> bgp_attr_cluster_list(r, t)
      [] t.type = "ecommunity" -> bgp_attr_ext_communities(r, t)
      [] OTHER -> bgp_attr_unknown(r, t)

(* A type may occur once.                                                  *)
bgp_attr_parse(c, q, msg) ==
    LET nothing == [bgp_attr_default_set(NONE) EXCEPT !.nh = NONE, !.weight = 0]
        Read(r, t) ==
            CASE r.err # "ok" -> r
              [] r.err = "ok" /\ t.type \in r.seen -> Fail(r, "mal-attr")
              [] OTHER -> bgp_attr_switch(c, q, [r EXCEPT !.seen = @ \cup {t.type}], t)
    IN  FoldLeft(Read, [attr |-> nothing, err |-> "ok", seen |-> {}, path |-> FALSE], msg)

(* The mandatory attributes of an UPDATE with prefixes.                    *)
bgp_attr_check(c, q, r) ==
    /\ r.attr.origin # NONE /\ r.path /\ r.attr.nh # NONE
    /\ peer_sort(c, q) = "ibgp" => r.attr.lp # NONE
=============================================================================
