------------------------------- MODULE OspfLsa ------------------------------
(***************************************************************************)
(* The link state database of one ospfd, its flooding and the LSAs it      *)
(* originates itself: ospf_lsa.c, ospf_lsdb.c and ospf_flood.c.            *)
(*                                                                         *)
(* A key is <<type, id, advertising router>>.  An LSA is a record [key,    *)
(* seq, max, body]: max says that its age is MaxAge, body is a set of      *)
(* numbers.  Headers on request and summary lists are LSAs too: the body   *)
(* stands for the checksum.                                                *)
(*                                                                         *)
(* A router o is a record: id; db, a function from keys to LSAs; maxage,   *)
(* the keys on the list of LSAs to remove; rself, the sequence number of   *)
(* router_lsa_self (0 for NULL); trtr, t_router_lsa_self runs; ext, the    *)
(* external routes to announce, from prefixes to metrics; dd, the clock    *)
(* DD sequence numbers start from; oi, the interfaces; ev, the events that *)
(* wait to be run; out, the packets to send.                               *)
(* An interface has type, pri, state, d and bd (DR and BDR), nbr, full     *)
(* (full_nbrs), ack and ackd (delayed and direct acknowledgements), upq    *)
(* (ls_upd_queue), net (as rself, for network_lsa_self), tnet.             *)
(***************************************************************************)
EXTENDS Integers, Sequences, FiniteSets, TLC
LOCAL INSTANCE SequencesExt
LOCAL INSTANCE FiniteSetsExt
LOCAL INSTANCE Functions

OSPF_ROUTER_LSA == 1
OSPF_NETWORK_LSA == 2
OSPF_AS_EXTERNAL_LSA == 5
OSPF_INITIAL_SEQUENCE_NUMBER == 1

NSM_Down == 1
NSM_Init == 3
NSM_TwoWay == 4
NSM_ExStart == 5
NSM_Exchange == 6
NSM_Loading == 7
NSM_Full == 8
ISM_Down == 1
ISM_Waiting == 3
ISM_PointToPoint == 4
ISM_DROther == 5
ISM_Backup == 6
ISM_DR == 7

(* Destinations: a neighbour's number, or one of the multicast groups.     *)
AllSPFRouters == 100
AllDRouters == 101

RouterKey(r) == <<OSPF_ROUTER_LSA, r, r>>
NetworkKey(l, r) == <<OSPF_NETWORK_LSA, l, r>>
ExternalKey(p, r) == <<OSPF_AS_EXTERNAL_LSA, p, r>>
KeyBefore(a, b) ==
    \/ a[1] < b[1]
    \/ a[1] = b[1] /\ a[2] < b[2]
    \/ a[1] = b[1] /\ a[2] = b[2] /\ a[3] < b[3]
InOrder(keys) == SetToSortSeq(keys, KeyBefore)
NumberOrder(s) == SetToSortSeq(s, <)

Without(f, k) == Restrict(f, DOMAIN f \ {k})
Nbr(o, l, n) == o.oi[l].nbr[n]
SetNbr(o, l, n, x) == [o EXCEPT !.oi[l].nbr[n] = x]
Schedule(o, kind, l, n) == [o EXCEPT !.ev = Append(@, [kind |-> kind, l |-> l, n |-> n])]

IS_LSA_SELF(o, k) == k[3] = o.id
NBR_IS_DR(o, l, n) == Nbr(o, l, n).d = n
NBR_IS_BDR(o, l, n) == Nbr(o, l, n).bd = n
ospf_nbr_count(o, l, s) == Cardinality({n \in DOMAIN o.oi[l].nbr : Nbr(o, l, n).state = s})

-----------------------------------------------------------------------------
(* Which of two instances is newer: positive when the first is, 0 when     *)
(* they are the same.  The checksum tells different bodies apart.          *)
ospf_lsa_checksum(lsa) == MapThenSumSet(LAMBDA x : 2^x, lsa.body)
ospf_lsa_more_recent(l1, l2) ==
    IF l1.seq # l2.seq THEN l1.seq - l2.seq
    ELSE IF l1.body # l2.body THEN ospf_lsa_checksum(l1) - ospf_lsa_checksum(l2)
    ELSE IF l1.max = l2.max THEN 0 ELSE IF l1.max THEN 1 ELSE -1

(* The request list of a neighbour; last is ls_req_last, a set of at most  *)
(* one key.                                                                *)
ospf_ls_request_delete(o, l, n, k) ==
    [o EXCEPT !.oi[l].nbr[n].req = Without(@, k), !.oi[l].nbr[n].last = @ \ {k}]
(* Without its pending events of these kinds.                              *)
EventsOf(o, l, n, kinds) == [o EXCEPT !.ev = SelectSeq(@, LAMBDA e : ~(e.l = l /\ e.n = n /\ e.kind \in kinds))]
ospf_ls_req_event(o, l, n) == Schedule(EventsOf(o, l, n, {"LsReq"}), "LsReq", l, n)
ospf_check_nbr_loading(o, l, n) ==
    IF Nbr(o, l, n).state # NSM_Loading THEN o
    ELSE IF DOMAIN Nbr(o, l, n).req = {} THEN Schedule(o, "LoadingDone", l, n)
    ELSE IF Nbr(o, l, n).last = {} THEN ospf_ls_req_event(o, l, n) ELSE o

(* The retransmission list of a neighbour.                                 *)
ospf_ls_retransmit_add(o, l, n, lsa) ==
    IF /\ lsa.key \in DOMAIN Nbr(o, l, n).rxmt
       /\ ospf_lsa_more_recent(Nbr(o, l, n).rxmt[lsa.key], lsa) >= 0
    THEN o
    ELSE [o EXCEPT !.oi[l].nbr[n].rxmt = (lsa.key :> lsa) @@ @]
ospf_ls_retransmit_delete(nbr, k) == [nbr EXCEPT !.rxmt = Without(@, k)]
ospf_ls_retransmit_clear(nbr) == [nbr EXCEPT !.rxmt = <<>>, !.last = {}]

(* Off every list, when the listed instance has the same sequence number.  *)
ospf_ls_retransmit_delete_nbr_if(oi, k, seq) ==
    [oi EXCEPT !.nbr = [n \in DOMAIN oi.nbr |->
        IF k \in DOMAIN oi.nbr[n].rxmt /\ oi.nbr[n].rxmt[k].seq = seq
        THEN ospf_ls_retransmit_delete(oi.nbr[n], k) ELSE oi.nbr[n]]]
ospf_ls_retransmit_delete_nbr_area(o, k, seq) ==
    [o EXCEPT !.oi = [l \in DOMAIN o.oi |-> ospf_ls_retransmit_delete_nbr_if(o.oi[l], k, seq)]]

(* An update is queued by destination; the event that sends the queue is   *)
(* scheduled once.                                                         *)
ospf_ls_upd_send(o, l, dst, lsas) ==
    LET queued == [o EXCEPT !.oi[l].upq = @ \o [i \in 1..Len(lsas) |-> [dst |-> dst, lsa |-> lsas[i]]]]
    IN  IF o.oi[l].upq = <<>> THEN Schedule(queued, "UpdSend", l, 0) ELSE queued
Indirect(oi) ==
    IF oi.state \in {ISM_DR, ISM_Backup} \/ oi.type = "ptop" THEN AllSPFRouters ELSE AllDRouters

ospf_ls_ack_send(o, l, n, lsa) ==
    LET queued == [o EXCEPT !.oi[l].ackd = Append(@, <<lsa.key, lsa.seq>>)]
    IN  IF o.oi[l].ackd = <<>> THEN Schedule(queued, "AckSend", l, n) ELSE queued

-----------------------------------------------------------------------------
(* Flooding out of an interface.  inn is the neighbour the LSA came from,  *)
(* <<interface, router>>, or NoNbr when the flooding starts here.          *)

NoNbr == <<0, 0>>

ReqListed(nbr, lsa) == nbr.state < NSM_Full /\ lsa.key \in DOMAIN nbr.req
ReqDone(o, l, n, k) == ospf_check_nbr_loading(ospf_ls_request_delete(o, l, n, k), l, n)
FloodSkips(inn, lsa, n) == IF inn # NoNbr THEN inn[2] = n ELSE lsa.key[3] = n
Listing(f, l, inn, lsa, n) ==
    IF FloodSkips(inn, lsa, n) THEN f
    ELSE [o |-> ospf_ls_retransmit_add(f.o, l, n, lsa), flag |-> TRUE]
FloodNbr(f, l, inn, lsa, n) ==
    IF Nbr(f.o, l, n).state < NSM_Exchange THEN f
    ELSE IF ~ReqListed(Nbr(f.o, l, n), lsa) THEN Listing(f, l, inn, lsa, n)
    ELSE IF ospf_lsa_more_recent(Nbr(f.o, l, n).req[lsa.key], lsa) > 0 THEN f
    ELSE IF ospf_lsa_more_recent(Nbr(f.o, l, n).req[lsa.key], lsa) = 0
    THEN [f EXCEPT !.o = ReqDone(@, l, n, lsa.key)]
    ELSE Listing([f EXCEPT !.o = ReqDone(@, l, n, lsa.key)], l, inn, lsa, n)
RECURSIVE FloodNbrs(_, _, _, _, _)
FloodNbrs(f, l, inn, lsa, todo) ==
    IF todo = <<>> THEN f
    ELSE FloodNbrs(FloodNbr(f, l, inn, lsa, Head(todo)), l, inn, lsa, Tail(todo))

(* The result's flag says that the LSA was received on this interface and  *)
(* not sent back out of it.                                                *)
FloodOut(f, l, inn, lsa) ==
    IF ~f.flag THEN [o |-> f.o, flag |-> inn[1] = l]
    ELSE IF inn[1] = l /\ (NBR_IS_DR(f.o, l, inn[2]) \/ NBR_IS_BDR(f.o, l, inn[2])
                            \/ f.o.oi[l].state = ISM_Backup)
    THEN f
    ELSE [o |-> ospf_ls_upd_send(f.o, l, Indirect(f.o.oi[l]), <<lsa>>), flag |-> FALSE]
ospf_flood_through_interface(o, l, inn, lsa) ==
    FloodOut(FloodNbrs([o |-> o, flag |-> FALSE], l, inn, lsa, NumberOrder(DOMAIN o.oi[l].nbr)),
             l, inn, lsa)

RECURSIVE FloodLinks(_, _, _, _)
FloodThen(f, g, inn, lsa, todo) ==
    FloodLinks([o |-> g.o, flag |-> f.flag \/ g.flag], inn, lsa, todo)
FloodLinks(f, inn, lsa, todo) ==
    IF todo = <<>> THEN f
    ELSE FloodThen(f, ospf_flood_through_interface(f.o, Head(todo), inn, lsa), inn, lsa, Tail(todo))
ospf_flood_through(o, inn, lsa) ==
    FloodLinks([o |-> o, flag |-> FALSE], inn, lsa, NumberOrder(DOMAIN o.oi))

-----------------------------------------------------------------------------
(* The database.                                                           *)

ospf_discard_from_db(o, k) ==
    IF k \notin DOMAIN o.db THEN o
    ELSE [ospf_ls_retransmit_delete_nbr_area(o, k, o.db[k].seq) EXCEPT !.maxage = @ \ {k}]
ospf_router_lsa_install(o, lsa) ==
    IF IS_LSA_SELF(o, lsa.key) THEN [o EXCEPT !.trtr = FALSE, !.rself = lsa.seq] ELSE o
(* A network-LSA of this router that came by flooding is not linked to the *)
(* interface.                                                              *)
ospf_network_lsa_install(o, lsa, received) ==
    IF IS_LSA_SELF(o, lsa.key) /\ ~received
    THEN [o EXCEPT !.oi[lsa.key[2]].tnet = FALSE, !.oi[lsa.key[2]].net = lsa.seq] ELSE o
Installed(o, lsa, received) ==
    CASE lsa.key[1] = OSPF_ROUTER_LSA -> ospf_router_lsa_install(o, lsa)
      [] lsa.key[1] = OSPF_NETWORK_LSA -> ospf_network_lsa_install(o, lsa, received)
      [] lsa.key[1] = OSPF_AS_EXTERNAL_LSA -> o
ospf_lsa_maxage(o, k) == [o EXCEPT !.maxage = @ \cup {k}]
ospf_lsa_install(o, lsa, received) ==
    LET o1 == [ospf_discard_from_db(o, lsa.key) EXCEPT !.db = (lsa.key :> lsa) @@ @]
        o2 == Installed(o1, lsa, received)
    IN  IF lsa.max /\ ~IS_LSA_SELF(o, lsa.key) THEN ospf_lsa_maxage(o2, lsa.key) ELSE o2

(* An own LSA is installed and then flooded.                               *)
InstallAndFlood(o, lsa) == ospf_flood_through(ospf_lsa_install(o, lsa, FALSE), NoNbr, lsa).o

(* The age of the database instance is set to MaxAge where it is: the      *)
(* lists and queues that point at it see it.                               *)
AgedNbr(nbr, lsa) ==
    IF lsa.key \in DOMAIN nbr.rxmt /\ nbr.rxmt[lsa.key] = lsa
    THEN [nbr EXCEPT !.rxmt[lsa.key].max = TRUE] ELSE nbr
AgedIf(oi, lsa) ==
    [oi EXCEPT !.nbr = [n \in DOMAIN oi.nbr |-> AgedNbr(oi.nbr[n], lsa)],
               !.upq = [i \in DOMAIN oi.upq |-> IF oi.upq[i].lsa = lsa
                            THEN [oi.upq[i] EXCEPT !.lsa.max = TRUE] ELSE oi.upq[i]]]
Aged(o, lsa) ==
    [o EXCEPT !.db[lsa.key].max = TRUE, !.oi = [l \in DOMAIN o.oi |-> AgedIf(o.oi[l], lsa)]]
ospf_lsa_flush_area(o, k) ==
    ospf_lsa_maxage(ospf_flood_through(Aged(o, o.db[k]), NoNbr, [o.db[k] EXCEPT !.max = TRUE]).o, k)

(* The MaxAge remover: with no neighbour in Exchange or Loading, every     *)
(* listed LSA that is on no retransmission list is flooded once more and   *)
(* removed.                                                                *)
ospf_check_nbr_status(o) ==
    \A l \in DOMAIN o.oi : \A n \in DOMAIN o.oi[l].nbr : Nbr(o, l, n).state \notin {NSM_Exchange, NSM_Loading}
RetransmitCounter(o, k) ==
    Cardinality({x \in UNION {{l} \X DOMAIN o.oi[l].nbr : l \in DOMAIN o.oi} :
        k \in DOMAIN Nbr(o, x[1], x[2]).rxmt /\ Nbr(o, x[1], x[2]).rxmt[k] = o.db[k]})
Removed(o, k) == [ospf_discard_from_db(o, k) EXCEPT !.db = Without(@, k)]
RECURSIVE RemoveAll(_, _)
RemoveAll(o, todo) ==
    IF todo = <<>> THEN o
    ELSE IF RetransmitCounter(o, Head(todo)) > 0 THEN RemoveAll(o, Tail(todo))
    ELSE RemoveAll(Removed(ospf_flood_through(o, NoNbr, o.db[Head(todo)]).o, Head(todo)), Tail(todo))
ospf_maxage_lsa_remover(o) ==
    IF ospf_check_nbr_status(o) THEN RemoveAll(o, InOrder(o.maxage)) ELSE o

-----------------------------------------------------------------------------
(* Origination.  A link of a router-LSA is a number made of its type, the  *)
(* interface and the router or network at the other end.                   *)

link_info_set(type, l, id) == 8 * type + 4 * (l - 1) + id
LSA_LINK_POINTOPOINT == 0
LSA_LINK_TRANSIT == 1
LSA_LINK_STUB == 2

lsa_link_ptop_set(o, l) ==
    {link_info_set(LSA_LINK_POINTOPOINT, l, n) : n \in {m \in DOMAIN o.oi[l].nbr : Nbr(o, l, m).state = NSM_Full}}
        \cup {link_info_set(LSA_LINK_STUB, l, 0)}
FullWithDr(o, l) ==
    /\ \/ o.oi[l].d = o.id
       \/ o.oi[l].d \in DOMAIN o.oi[l].nbr /\ Nbr(o, l, o.oi[l].d).state = NSM_Full
    /\ ospf_nbr_count(o, l, NSM_Full) > 0
lsa_link_broadcast_set(o, l) ==
    IF o.oi[l].state # ISM_Waiting /\ FullWithDr(o, l)
    THEN {link_info_set(LSA_LINK_TRANSIT, l, o.oi[l].d)}
    ELSE {link_info_set(LSA_LINK_STUB, l, 0)}
router_lsa_link_set(o) ==
    UNION {IF o.oi[l].type = "ptop" THEN lsa_link_ptop_set(o, l) ELSE lsa_link_broadcast_set(o, l) :
              l \in {x \in DOMAIN o.oi : o.oi[x].state # ISM_Down}}
ospf_router_lsa_new(o, seq) ==
    [key |-> RouterKey(o.id), seq |-> seq, max |-> FALSE, body |-> router_lsa_link_set(o)]
ospf_router_lsa_originate(o) == InstallAndFlood(o, ospf_router_lsa_new(o, OSPF_INITIAL_SEQUENCE_NUMBER))
ospf_router_lsa_refresh(o) ==
    InstallAndFlood(ospf_ls_retransmit_delete_nbr_area(o, RouterKey(o.id), o.rself),
                    ospf_router_lsa_new(o, o.rself + 1))
ospf_router_lsa_timer(o) ==
    IF o.rself # 0 THEN ospf_router_lsa_refresh(o) ELSE ospf_router_lsa_originate(o)
ospf_router_lsa_timer_add(o) == [o EXCEPT !.trtr = TRUE]

ospf_network_lsa_new(o, l, seq) ==
    [key |-> NetworkKey(l, o.oi[l].d), seq |-> seq, max |-> FALSE,
     body |-> {o.id} \cup {n \in DOMAIN o.oi[l].nbr : Nbr(o, l, n).state = NSM_Full}]
ospf_network_lsa_originate(o, l) ==
    IF o.oi[l].full = 0 THEN o
    ELSE InstallAndFlood(o, ospf_network_lsa_new(o, l, OSPF_INITIAL_SEQUENCE_NUMBER))
ospf_network_lsa_refresh(o, l) ==
    LET o1 == ospf_ls_retransmit_delete_nbr_area(o, NetworkKey(l, o.id), o.oi[l].net)
    IN  IF o.oi[l].full = 0 THEN o1 ELSE InstallAndFlood(o1, ospf_network_lsa_new(o, l, o.oi[l].net + 1))
ospf_network_lsa_refresh_timer(o, l) ==
    LET o1 == [o EXCEPT !.oi[l].tnet = FALSE]
    IN  IF o.oi[l].net # 0 THEN ospf_network_lsa_refresh(o1, l) ELSE ospf_network_lsa_originate(o1, l)
(* Without an instance the origination is an event, else a timer of up to  *)
(* MinLSInterval.                                                          *)
ospf_network_lsa_timer_add(o, l) ==
    IF o.oi[l].net = 0
    THEN Schedule(EventsOf([o EXCEPT !.oi[l].tnet = FALSE], l, 0, {"NetLsa"}), "NetLsa", l, 0)
    ELSE [o EXCEPT !.oi[l].tnet = TRUE]

(* External routes.                                                        *)
ospf_external_lsa_new(o, p, seq) ==
    [key |-> ExternalKey(p, o.id), seq |-> seq, max |-> FALSE, body |-> {o.ext[p]}]
ospf_external_lsa_originate(o, p) ==
    IF ExternalKey(p, o.id) \in DOMAIN o.db THEN o
    ELSE InstallAndFlood(o, ospf_external_lsa_new(o, p, OSPF_INITIAL_SEQUENCE_NUMBER))
ospf_external_lsa_refresh(o, p) ==
    InstallAndFlood(ospf_ls_retransmit_delete_nbr_area(o, ExternalKey(p, o.id), o.db[ExternalKey(p, o.id)].seq),
                    ospf_external_lsa_new(o, p, o.db[ExternalKey(p, o.id)].seq + 1))
ospf_external_lsa_flush(o, p) ==
    LET k == ExternalKey(p, o.id) IN
    IF k \notin DOMAIN o.db THEN o
    ELSE IF o.db[k].max THEN ospf_ls_retransmit_delete_nbr_area(o, k, o.db[k].seq)
    ELSE ospf_lsa_flush_area(ospf_ls_retransmit_delete_nbr_area(o, k, o.db[k].seq), k)
RefreshExternal(o, p) ==
    IF ExternalKey(p, o.id) \in DOMAIN o.db THEN ospf_external_lsa_refresh(o, p)
    ELSE ospf_external_lsa_originate(o, p)
RECURSIVE RefreshType(_, _)
RefreshType(o, todo) == IF todo = <<>> THEN o ELSE RefreshType(RefreshExternal(o, Head(todo)), Tail(todo))
ospf_external_lsa_refresh_type(o) == RefreshType(o, NumberOrder(DOMAIN o.ext))

(* zebra adds or deletes a route that is redistributed.                    *)
zebra_route_add(o, p, metric) ==
    LET o1 == [o EXCEPT !.ext = (p :> metric) @@ @]
        k == ExternalKey(p, o.id)
    IN  IF k \notin DOMAIN o.db THEN ospf_external_lsa_originate(o1, p)
        ELSE IF o.db[k].max THEN ospf_external_lsa_refresh(o1, p) ELSE o1
zebra_route_delete(o, p) == ospf_external_lsa_flush([o EXCEPT !.ext = Without(@, p)], p)

-----------------------------------------------------------------------------
(* An LSA of this router came back newer than the database copy: it is     *)
(* originated again above that number, or flushed.                         *)
ospf_process_self_originated_lsa(o, lsa) ==
    LET l == lsa.key[2] IN
    CASE lsa.key[1] = OSPF_ROUTER_LSA -> ospf_router_lsa_timer_add(o)
      [] lsa.key[1] = OSPF_NETWORK_LSA ->
            IF o.oi[l].type # "broadcast" \/ o.oi[l].d # o.id THEN Schedule(o, "Flush", l, 0)
            ELSE ospf_network_lsa_timer_add([o EXCEPT !.oi[l].net = lsa.seq], l)
      [] lsa.key[1] = OSPF_AS_EXTERNAL_LSA ->
            IF l \in DOMAIN o.ext THEN ospf_external_lsa_refresh(o, l) ELSE ospf_lsa_flush_area(o, lsa.key)

ospf_flood_delayed_lsa_ack(o, l, n, lsa) ==
    IF o.oi[l].state = ISM_Backup /\ ~NBR_IS_DR(o, l, n) THEN o
    ELSE [o EXCEPT !.oi[l].ack = @ \cup {<<lsa.key, lsa.seq>>}]

(* A newer LSA came from neighbour n on interface l.  early: less than     *)
(* MinLSArrival after the database copy.                                   *)
FloodFromUnchanged(o, l, n, lsa) ==
    LET f == ospf_flood_through(o, <<l, n>>, lsa)
        o1 == IF lsa.key \in DOMAIN o.db
              THEN ospf_ls_retransmit_delete_nbr_area(f.o, lsa.key, o.db[lsa.key].seq) ELSE f.o
        o2 == ospf_lsa_install(o1, lsa, TRUE)
    IN  IF f.flag THEN ospf_flood_delayed_lsa_ack(o2, l, n, lsa) ELSE o2
TooEarly(o, lsa, early) ==
    /\ early /\ lsa.key \in DOMAIN o.db
    /\ ~(IS_LSA_SELF(o, lsa.key) /\ ~o.db[lsa.key].max /\ o.db[lsa.key].seq = OSPF_INITIAL_SEQUENCE_NUMBER)
ospf_flood(o, l, n, lsa, early) ==
    IF TooEarly(o, lsa, early) THEN o
    ELSE IF IS_LSA_SELF(o, lsa.key)
    THEN ospf_process_self_originated_lsa(FloodFromUnchanged(o, l, n, lsa), lsa)
    ELSE FloodFromUnchanged(o, l, n, lsa)
=============================================================================
