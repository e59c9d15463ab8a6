------------------------------ MODULE OspfPacket ----------------------------
(***************************************************************************)
(* What ospfd does with a packet from neighbour n on interface l           *)
(* (ospf_packet.c).  Packets: [t "dd", fl, seq, hs], [t "req", ks],        *)
(* [t "upd", dr, ls] and [t "ack", dr, ks]; dr says that the packet went   *)
(* to AllDRouters.                                                         *)
(***************************************************************************)
EXTENDS OspfNsm
LOCAL INSTANCE SequencesExt
LOCAL INSTANCE Functions

(* A Hello has pri, d, bd and nbrs, the neighbours its sender has heard.   *)
(* A BDR that some neighbour takes for DR and BDR is not announced.        *)
ospf_make_hello(o, l) ==
    [pri |-> o.oi[l].pri, d |-> o.oi[l].d,
     bd |-> IF \E n \in DOMAIN o.oi[l].nbr : /\ Nbr(o, l, n).state >= NSM_Init
                                             /\ Nbr(o, l, n).d = o.id /\ Nbr(o, l, n).bd = o.id
            THEN 0 ELSE o.oi[l].bd,
     nbrs |-> {n \in DOMAIN o.oi[l].nbr : Nbr(o, l, n).state >= NSM_Init}]

Remember(o, l, n, h) == [o EXCEPT !.oi[l].nbr[n] = [@ EXCEPT !.pri = h.pri, !.d = h.d, !.bd = h.bd]]
ScheduleIf(o, cond, kind, l) == IF cond THEN Schedule(o, kind, l, 0) ELSE o
(* Mutant of the next definition: what a neighbour says of itself is not   *)
(* compared with what it said before.                                      *)
HelloQuiet(o, l, n, h) ==
    ScheduleIf(ScheduleIf(o, h.d = n /\ h.bd = 0 /\ o.oi[l].state = ISM_Waiting, "BackupSeen", l),
               h.bd = n /\ o.oi[l].state = ISM_Waiting, "BackupSeen", l)
HelloEvents(o, l, n, h) ==
    LET nbr == Nbr(o, l, n)
        o1 == ScheduleIf(o, h.d = n /\ h.bd = 0 /\ o.oi[l].state = ISM_Waiting, "BackupSeen", l)
        o2 == ScheduleIf(o1, h.bd = n /\ o.oi[l].state = ISM_Waiting, "BackupSeen", l)
        o3 == ScheduleIf(o2, (h.d = n) # (nbr.d = n), "NeighborChange", l)
        o4 == ScheduleIf(o3, (h.bd = n) # (nbr.bd = n), "NeighborChange", l)
    IN  ScheduleIf(o4, nbr.pri >= 0 /\ nbr.pri # h.pri, "NeighborChange", l)
TwoWay(o, l, n, h) == Remember(HelloEvents(o, l, n, h), l, n, h)
Known(o, l, n) == IF n \in DOMAIN o.oi[l].nbr THEN o ELSE [o EXCEPT !.oi[l].nbr = (n :> ospf_nbr_new) @@ @]
HelloFrom(o, l, n, h) ==
    IF o.id \in h.nbrs THEN TwoWay(nsm_twoway_received(o, l, n), l, n, h)
    ELSE Remember(nsm_oneway_received(o, l, n), l, n, h)
ospf_hello(o, l, n, h) == RunEvents(HelloFrom(nsm_hello_received(Known(o, l, n), l, n), l, n, h))

-----------------------------------------------------------------------------
(* Database description packets.                                           *)

Wanted(o, h) == h.key \notin DOMAIN o.db \/ ospf_lsa_more_recent(o.db[h.key], h) < 0
ospf_ls_request_add(o, l, n, hs) ==
    [o EXCEPT !.oi[l].nbr[n].req = [k \in {h.key : h \in hs} |-> CHOOSE h \in hs : h.key = k] @@ @]
ospf_db_desc_save_current(o, l, n, dd) == [o EXCEPT !.oi[l].nbr[n].recv = [fl |-> dd.fl, seq |-> dd.seq]]
DescAsMaster(o, l, n, dd) ==
    LET o1 == [o EXCEPT !.oi[l].nbr[n].seq = @ + 1]
    IN  IF "M" \notin dd.fl /\ "M" \notin Nbr(o, l, n).fl THEN Schedule(o1, "ExchangeDone", l, n)
        ELSE ospf_db_desc_send(o1, l, n)
DescAsSlave(o, l, n, dd) ==
    LET o1 == [o EXCEPT !.oi[l].nbr[n].seq = dd.seq]
    IN  ospf_db_desc_send(
            IF "M" \notin dd.fl /\ DOMAIN Nbr(o, l, n).sum = {}
            THEN Schedule([o1 EXCEPT !.oi[l].nbr[n].fl = @ \ {"M"}], "ExchangeDone", l, n) ELSE o1, l, n)
DescReply(o, l, n, dd) ==
    IF "MS" \in Nbr(o, l, n).fl THEN DescAsMaster(o, l, n, dd) ELSE DescAsSlave(o, l, n, dd)
ospf_db_desc_proc(o, l, n, dd) ==
    ospf_db_desc_save_current(
        DescReply(ospf_ls_request_add(o, l, n, {h \in dd.hs : Wanted(o, h)}), l, n, dd), l, n, dd)

ospf_db_desc_is_dup(nbr, dd) == nbr.recv.fl = dd.fl /\ nbr.recv.seq = dd.seq
Negotiated(o, l, n, dd) == ospf_db_desc_proc(nsm_negotiation_done(o, l, n), l, n, dd)
DescExStart(o, l, n, dd) ==
    IF dd.fl = {"I", "M", "MS"} /\ dd.hs = {}
    THEN IF n > o.id
         THEN Negotiated([o EXCEPT !.oi[l].nbr[n].seq = dd.seq, !.oi[l].nbr[n].fl = @ \ {"MS", "I"}], l, n, dd)
         ELSE o
    ELSE IF dd.fl \cap {"MS", "I"} = {} /\ dd.seq = Nbr(o, l, n).seq /\ n < o.id
    THEN Negotiated([o EXCEPT !.oi[l].nbr[n].fl = @ \ {"I"}], l, n, dd)
    ELSE o
DescExchange(o, l, n, dd) ==
    LET nbr == Nbr(o, l, n)
        expected == IF "MS" \in nbr.fl THEN nbr.seq ELSE nbr.seq + 1
    IN  IF ospf_db_desc_is_dup(nbr, dd)
        THEN IF "MS" \in nbr.fl THEN o ELSE ospf_db_desc_resend(o, l, n)
        ELSE IF ("MS" \in dd.fl) # ("MS" \in nbr.recv.fl) \/ "I" \in dd.fl \/ dd.seq # expected
        THEN Schedule(o, "SeqNumberMismatch", l, n)
        ELSE ospf_db_desc_proc(o, l, n, dd)
(* late: more than RouterDeadInterval after the last DD packet was sent.   *)
DescLoaded(o, l, n, dd, late) ==
    IF ospf_db_desc_is_dup(Nbr(o, l, n), dd) /\ "MS" \in Nbr(o, l, n).fl THEN o
    ELSE IF ospf_db_desc_is_dup(Nbr(o, l, n), dd) /\ ~late THEN ospf_db_desc_resend(o, l, n)
    ELSE Schedule(o, "SeqNumberMismatch", l, n)
DescInit(o, l, n, dd) == IF Nbr(o, l, n).state = NSM_ExStart THEN DescExStart(o, l, n, dd) ELSE o
ospf_db_desc(o, l, n, dd, late) ==
    CASE Nbr(o, l, n).state \in {NSM_Down, NSM_TwoWay} -> o
      [] Nbr(o, l, n).state = NSM_Init -> DescInit(nsm_twoway_received(o, l, n), l, n, dd)
      [] Nbr(o, l, n).state = NSM_ExStart -> DescExStart(o, l, n, dd)
      [] Nbr(o, l, n).state = NSM_Exchange -> DescExchange(o, l, n, dd)
      [] Nbr(o, l, n).state \in {NSM_Loading, NSM_Full} -> DescLoaded(o, l, n, dd, late)

-----------------------------------------------------------------------------
(* Requests, updates and acknowledgements.                                 *)

ospf_ls_req(o, l, n, ks) ==
    IF Nbr(o, l, n).state < NSM_Exchange THEN o
    ELSE IF ~(ks \subseteq DOMAIN o.db) THEN Schedule(o, "BadLSReq", l, n)
    ELSE ospf_ls_upd_send(o, l, Indirect(o.oi[l]), [i \in 1..Cardinality(ks) |-> o.db[InOrder(ks)[i]]])

(* One LSA of an update; stop: the rest of the packet is not looked at.    *)
Going(o) == [o |-> o, stop |-> FALSE]
NoneLoading(o, l) == ospf_nbr_count(o, l, NSM_Exchange) + ospf_nbr_count(o, l, NSM_Loading) = 0
SameInstance(o, l, n, lsa) ==
    IF lsa.key \notin DOMAIN Nbr(o, l, n).rxmt THEN ospf_ls_ack_send(o, l, n, lsa)
    ELSE [o EXCEPT !.oi[l].nbr[n] = ospf_ls_retransmit_delete(@, lsa.key),
                   !.oi[l].ack = IF o.oi[l].state = ISM_Backup /\ NBR_IS_DR(o, l, n)
                                 THEN @ \cup {<<lsa.key, lsa.seq>>} ELSE @]
UpdNotNewer(o, l, n, lsa, early) ==
    IF lsa.key \in DOMAIN Nbr(o, l, n).req THEN [o |-> Schedule(o, "BadLSReq", l, n), stop |-> TRUE]
    ELSE IF ospf_lsa_more_recent(o.db[lsa.key], lsa) = 0 THEN Going(SameInstance(o, l, n, lsa))
    ELSE IF early THEN Going(o)
    ELSE Going(ospf_ls_upd_send(o, l, n, <<o.db[lsa.key]>>))
UpdLsa(o, l, n, lsa, early) ==
    IF lsa.max /\ lsa.key \notin DOMAIN o.db /\ NoneLoading(o, l) THEN Going(ospf_ls_ack_send(o, l, n, lsa))
    ELSE IF lsa.key \notin DOMAIN o.db \/ ospf_lsa_more_recent(o.db[lsa.key], lsa) < 0
    THEN Going(ospf_flood(o, l, n, lsa, early))
    ELSE UpdNotNewer(o, l, n, lsa, early)
RECURSIVE UpdLsas(_, _, _, _, _)
UpdLsas(f, l, n, ls, early) ==
    IF f.stop \/ ls = <<>> THEN f.o
    ELSE UpdLsas(UpdLsa(f.o, l, n, Head(ls), early), l, n, Tail(ls), early)
ospf_ls_upd(o, l, n, ls, early) ==
    IF Nbr(o, l, n).state < NSM_Exchange THEN o ELSE UpdLsas(Going(o), l, n, ls, early)

(* An entry is <<key, sequence number>>.                                   *)
(* Mutant of the next definition: any instance is acknowledged. *)
AckAny(o, l, n, ks) ==
    IF Nbr(o, l, n).state < NSM_Exchange THEN o
    ELSE LET r == Nbr(o, l, n).rxmt
         IN  [o EXCEPT !.oi[l].nbr[n].rxmt = Restrict(r, {k \in DOMAIN r : \A a \in ks : a[1] # k})]
ospf_ls_ack(o, l, n, ks) ==
    IF Nbr(o, l, n).state < NSM_Exchange THEN o
    ELSE LET r == Nbr(o, l, n).rxmt
         IN  [o EXCEPT !.oi[l].nbr[n].rxmt = Restrict(r, {k \in DOMAIN r : <<k, r[k].seq>> \notin ks})]

(* Packets to AllDRouters are for the DR and the BDR; a packet from an     *)
(* unknown neighbour or on an interface that is down is dropped.           *)
Heard(o, l, n, pkt) ==
    /\ o.oi[l].state # ISM_Down
    /\ n \in DOMAIN o.oi[l].nbr
    /\ pkt.t \in {"upd", "ack"} /\ pkt.dr => o.oi[l].state \in {ISM_DR, ISM_Backup}
Handled(o, l, n, pkt, early) ==
    CASE pkt.t = "dd" -> ospf_db_desc(o, l, n, pkt, early)
      [] pkt.t = "req" -> ospf_ls_req(o, l, n, pkt.ks)
      [] pkt.t = "upd" -> ospf_ls_upd(o, l, n, pkt.ls, early)
      [] pkt.t = "ack" -> ospf_ls_ack(o, l, n, pkt.ks)
ospf_read(o, l, n, pkt, early) ==
    IF Heard(o, l, n, pkt) THEN RunEvents(Handled(o, l, n, pkt, early)) ELSE o

-----------------------------------------------------------------------------
(* The timers.                                                             *)

DescTimerOn(nbr) == nbr.state = NSM_ExStart \/ (nbr.state = NSM_Exchange /\ "MS" \in nbr.fl)
ReqTimerOn(nbr) == nbr.treq /\ DOMAIN nbr.req # {}
UpdTimerOn(nbr) == nbr.state >= NSM_Exchange /\ DOMAIN nbr.rxmt # {}
ospf_db_desc_timer(o, l, n) == ospf_db_desc_resend(o, l, n)
ospf_ls_upd_timer(o, l, n) ==
    LET r == Nbr(o, l, n).rxmt
        ks == InOrder(DOMAIN r)
    IN  RunEvents(ospf_ls_upd_send(o, l, n, [i \in 1..Len(ks) |-> r[ks[i]]]))
ospf_ls_ack_timer(o, l) == ospf_ls_ack_send_delayed(o, l)
ospf_inactivity_timer(o, l, n) == RunEvents(nsm_kill_nbr(o, l, n))
ospf_wait_timer(o, l) == RunEvents(ism_wait_timer(o, l))
InterfaceDown(o, l) == RunEvents(ism_interface_down(o, l))
=============================================================================
