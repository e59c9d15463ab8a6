------------------------------- MODULE OspfNsm ------------------------------
(***************************************************************************)
(* The interface machine with the election of the designated router        *)
(* (ospf_ism.c) and the neighbour machine (ospf_nsm.c, ospf_neighbor.c) of *)
(* ospfd.                                                                  *)
(* A neighbour has state, pri, d and bd (what its last Hello said; pri is  *)
(* -1 before), seq and fl (the DD sequence number and flags), send and     *)
(* recv (the last DD packet sent, the flags and number of the last one     *)
(* received), sum (db_sum), req and last (ls_req, ls_req_last), rxmt and   *)
(* treq (t_ls_req runs).                                                   *)
(* The events a handler schedules run before the next packet or timer:     *)
(* thread_fetch takes events first.                                        *)
(***************************************************************************)
EXTENDS OspfLsa
LOCAL INSTANCE SequencesExt
LOCAL INSTANCE FiniteSetsExt
LOCAL INSTANCE Functions

CONSTANT HeadersPerPacket      \* LSA headers that fit into a DD packet

ASSUME HeadersPerPacketAssumption == HeadersPerPacket \in Nat \ {0}

(* Packets are put on the interface's output queue.                        *)
ospf_packet_add(o, l, dst, pkt) == [o EXCEPT !.out = Append(@, [l |-> l, dst |-> dst, pkt |-> pkt])]

-----------------------------------------------------------------------------
(* The election.  A candidate has id, pri, d, bd.                          *)

OspfSelf(o, l) == [id |-> o.id, pri |-> o.oi[l].pri, d |-> o.oi[l].d, bd |-> o.oi[l].bd]
Candidate(o, l, n) == [id |-> n, pri |-> Nbr(o, l, n).pri, d |-> Nbr(o, l, n).d, bd |-> Nbr(o, l, n).bd]
ospf_dr_eligible_routers(o, l) ==
    {c \in {Candidate(o, l, n) : n \in {m \in DOMAIN o.oi[l].nbr : Nbr(o, l, m).state >= NSM_TwoWay}}
               \cup {OspfSelf(o, l)} : c.pri # 0}
ospf_dr_election_sub(list) ==
    IF list = {} THEN 0
    ELSE (CHOOSE c \in list : \A x \in list : x.pri < c.pri \/ (x.pri = c.pri /\ x.id <= c.id)).id
ospf_elect_bdr(o, l, el) ==
    LET nodr == {c \in el : c.d # c.id}
        bdrs == {c \in nodr : c.bd = c.id}
    IN  [o EXCEPT !.oi[l].bd = ospf_dr_election_sub(IF bdrs # {} THEN bdrs ELSE nodr)]
ospf_elect_dr(o, l, el) ==
    LET drs == {c \in el : c.d = c.id}
        bdr == {c \in el : c.id = o.oi[l].bd}
    IN  [o EXCEPT !.oi[l].d = ospf_dr_election_sub(IF drs # {} THEN drs ELSE bdr)]
ospf_ism_state(o, l) ==
    IF o.oi[l].d = o.id THEN ISM_DR ELSE IF o.oi[l].bd = o.id THEN ISM_Backup ELSE ISM_DROther
(* The list holds pointers: this router's own declaration is read anew.    *)
ElectOnce(o, l) ==
    LET b == ospf_elect_bdr(o, l, ospf_dr_eligible_routers(o, l))
    IN  ospf_elect_dr(b, l, ospf_dr_eligible_routers(b, l))
Elected(o, l, first) ==
    IF /\ ospf_ism_state(first, l) # o.oi[l].state
       /\ ~(ospf_ism_state(first, l) = ISM_DROther /\ o.oi[l].state < ISM_DROther)
    THEN ElectOnce(first, l) ELSE first
RECURSIVE ScheduleAll(_, _, _, _)
ScheduleAll(o, kind, l, todo) ==
    IF todo = <<>> THEN o ELSE ScheduleAll(Schedule(o, kind, l, Head(todo)), kind, l, Tail(todo))
ospf_dr_change(o, l) ==
    ScheduleAll(o, "AdjOK", l, NumberOrder({n \in DOMAIN o.oi[l].nbr : Nbr(o, l, n).state >= NSM_TwoWay}))
DrChanged(o, e, l) ==
    IF e.oi[l].d # o.oi[l].d \/ e.oi[l].bd # o.oi[l].bd THEN ospf_dr_change(e, l) ELSE e
ospf_dr_election(o, l) == DrChanged(o, Elected(o, l, ElectOnce(o, l)), l)

-----------------------------------------------------------------------------
(* The interface machine.                                                  *)

(* The network-LSA of the interface is flushed and forgotten.              *)
FlushNetworkLsa(o, l) ==
    IF o.oi[l].net = 0 THEN o
    ELSE [ospf_lsa_flush_area(o, NetworkKey(l, o.id)) EXCEPT !.oi[l].net = 0, !.oi[l].tnet = FALSE]
OriginateNetworkLsa(o, l, old) ==
    IF old # ISM_DR /\ o.oi[l].state = ISM_DR THEN ospf_network_lsa_timer_add(o, l)
    ELSE IF old = ISM_DR /\ o.oi[l].state # ISM_DR THEN FlushNetworkLsa(o, l) ELSE o
ism_change_state(o, l, state) ==
    OriginateNetworkLsa(ospf_router_lsa_timer_add([o EXCEPT !.oi[l].state = state]), l, o.oi[l].state)
IsmMoved(o, l, state) == IF state = o.oi[l].state THEN o ELSE ism_change_state(o, l, state)
ElectAndMove(e, l) == IsmMoved(e, l, ospf_ism_state(e, l))
ism_neighbor_change(o, l) ==
    IF o.oi[l].state \in {ISM_DROther, ISM_Backup, ISM_DR} THEN ElectAndMove(ospf_dr_election(o, l), l) ELSE o
ism_backup_seen(o, l) ==
    IF o.oi[l].state = ISM_Waiting THEN ElectAndMove(ospf_dr_election(o, l), l) ELSE o
ism_wait_timer(o, l) == ism_backup_seen(o, l)
ism_interface_up(o, l) ==
    ism_change_state(o, l, IF o.oi[l].type = "ptop" THEN ISM_PointToPoint
                           ELSE IF o.oi[l].pri = 0 THEN ISM_DROther ELSE ISM_Waiting)

-----------------------------------------------------------------------------
(* Database description.  A header is described when its instance is       *)
(* still in the database; headers of replaced ones are only dropped.       *)

Current(o, lsa) ==
    /\ lsa.key \in DOMAIN o.db /\ o.db[lsa.key].seq = lsa.seq /\ o.db[lsa.key].body = lsa.body
    /\ o.db[lsa.key].max = lsa.max \/ IS_LSA_SELF(o, lsa.key)
Live(o, sum) == {k \in DOMAIN sum : Current(o, sum[k])}
FirstOf(keys) == {InOrder(keys)[i] : i \in 1..Min({Cardinality(keys), HeadersPerPacket})}
Taken(sum, live) ==
    {k \in DOMAIN sum : \A x \in live \ FirstOf(live) : x[1] = k[1] => KeyBefore(k, x)}
ospf_make_db_desc(o, l, n) ==
    LET nbr == Nbr(o, l, n)
        live == Live(o, nbr.sum)
        fl == IF DOMAIN nbr.sum = {} /\ nbr.state >= NSM_Exchange THEN nbr.fl \ {"M"} ELSE nbr.fl
    IN  [nbr EXCEPT !.fl = fl,
                    !.sum = Restrict(nbr.sum, DOMAIN nbr.sum \ Taken(nbr.sum, live)),
                    !.send = [t |-> "dd", fl |-> fl, seq |-> nbr.seq, hs |-> {o.db[k] : k \in FirstOf(live)}]]
DescSent(o, l, n, nbr) == ospf_packet_add(SetNbr(o, l, n, nbr), l, n, nbr.send)
ospf_db_desc_send(o, l, n) == DescSent(o, l, n, ospf_make_db_desc(o, l, n))
ospf_db_desc_resend(o, l, n) == ospf_packet_add(o, l, n, Nbr(o, l, n).send)

ospf_ls_req_send(o, l, n) ==
    IF DOMAIN Nbr(o, l, n).req = {} THEN o
    ELSE ospf_packet_add([o EXCEPT !.oi[l].nbr[n].treq = TRUE,
                                   !.oi[l].nbr[n].last = {Last(InOrder(DOMAIN Nbr(o, l, n).req))}],
                         l, n, [t |-> "req", ks |-> DOMAIN Nbr(o, l, n).req])
ospf_ls_req_timer(o, l, n) == [ospf_ls_req_send(o, l, n) EXCEPT !.oi[l].nbr[n].treq = TRUE]

-----------------------------------------------------------------------------
(* The neighbour machine.                                                  *)

ospf_nbr_new ==
    [state |-> NSM_Down, pri |-> -1, d |-> 0, bd |-> 0, seq |-> 0, fl |-> {}, send |-> <<>>,
     recv |-> [fl |-> {}, seq |-> 0], sum |-> <<>>, req |-> <<>>, last |-> {}, rxmt |-> <<>>, treq |-> FALSE]
(* A deleted neighbour takes its pending events with it.                   *)
NsmEvents == {"AdjOK", "LoadingDone", "ExchangeDone", "BadLSReq", "SeqNumberMismatch", "LsReq"}
ospf_nbr_delete(o, l, n) == [EventsOf(o, l, n, NsmEvents) EXCEPT !.oi[l].nbr = Without(@, n)]
nsm_reset_nbr(o, l, n) ==
    [EventsOf(o, l, n, {"LsReq"}) EXCEPT
        !.oi[l].nbr[n] = [ospf_ls_retransmit_clear(@) EXCEPT !.sum = <<>>, !.req = <<>>, !.treq = FALSE]]

FullChanged(o, l, n, old) ==
    IF Nbr(o, l, n).state = NSM_Full
    THEN ospf_external_lsa_refresh_type([o EXCEPT !.oi[l].full = @ + 1])
    ELSE [o EXCEPT !.oi[l].full = @ - 1, !.oi[l].nbr[n] = ospf_ls_retransmit_clear(@)]
NetworkLsaFor(o, l) ==
    IF o.oi[l].state # ISM_DR THEN o
    ELSE IF o.oi[l].net # 0 /\ o.oi[l].full = 0 THEN FlushNetworkLsa(o, l)
    ELSE ospf_network_lsa_timer_add(o, l)
(* Mutant of the next definition: a lost adjacency does not change the     *)
(* router-LSA.                                                             *)
ToFullOnly(o, l, n, old) ==
    IF (old = NSM_Full) = (Nbr(o, l, n).state = NSM_Full) THEN o
    ELSE IF old = NSM_Full THEN NetworkLsaFor(FullChanged(o, l, n, old), l)
    ELSE NetworkLsaFor(ospf_router_lsa_timer_add(FullChanged(o, l, n, old)), l)
ToOrFromFull(o, l, n, old) ==
    IF (old = NSM_Full) = (Nbr(o, l, n).state = NSM_Full) THEN o
    ELSE NetworkLsaFor(ospf_router_lsa_timer_add(FullChanged(o, l, n, old)), l)
StartExchange(o, l, n) ==
    IF Nbr(o, l, n).state # NSM_ExStart THEN o
    ELSE ospf_db_desc_send(
            [o EXCEPT !.oi[l].nbr[n].seq = IF @ = 0 THEN o.dd ELSE @ + 1,
                      !.oi[l].nbr[n].fl = {"I", "M", "MS"}], l, n)
CrossTwoWay(o, l, n, old) ==
    IF (old < NSM_TwoWay) = (Nbr(o, l, n).state < NSM_TwoWay) THEN o ELSE ism_neighbor_change(o, l)
ChangedFrom(o, l, n, old) == CrossTwoWay(StartExchange(ToOrFromFull(o, l, n, old), l, n), l, n, old)
nsm_change_state(o, l, n, state) ==
    ChangedFrom([o EXCEPT !.oi[l].nbr[n].state = state], l, n, Nbr(o, l, n).state)
NsmMoved(o, l, n, state) == IF state = Nbr(o, l, n).state THEN o ELSE nsm_change_state(o, l, n, state)

nsm_hello_received(o, l, n) == IF Nbr(o, l, n).state = NSM_Down THEN nsm_change_state(o, l, n, NSM_Init) ELSE o
Adjacent(o, l, n, d, bd) ==
    \/ o.oi[l].type = "ptop"
    \/ o.oi[l].d = o.id \/ o.oi[l].bd = o.id
    \/ d = n \/ bd = n
nsm_twoway_received(o, l, n) ==
    IF Nbr(o, l, n).state # NSM_Init THEN o
    ELSE nsm_change_state(o, l, n, IF Adjacent(o, l, n, Nbr(o, l, n).d, Nbr(o, l, n).bd)
                                   THEN NSM_ExStart ELSE NSM_TwoWay)
nsm_oneway_received(o, l, n) ==
    IF Nbr(o, l, n).state < NSM_TwoWay THEN o
    ELSE nsm_change_state(nsm_reset_nbr(o, l, n), l, n, NSM_Init)
nsm_adj_ok(o, l, n) ==
    LET s == Nbr(o, l, n).state
        adj == Adjacent(o, l, n, o.oi[l].d, o.oi[l].bd)
    IN  IF s < NSM_TwoWay THEN o
        ELSE NsmMoved(o, l, n, IF s = NSM_TwoWay /\ adj THEN NSM_ExStart
                               ELSE IF s >= NSM_ExStart /\ ~adj THEN NSM_TwoWay ELSE s)
ospf_db_summary_add(o, l, n, k) ==
    IF o.db[k].max THEN ospf_ls_retransmit_add(o, l, n, o.db[k])
    ELSE [o EXCEPT !.oi[l].nbr[n].sum = (k :> o.db[k]) @@ @]
RECURSIVE SummaryAddAll(_, _, _, _)
SummaryAddAll(o, l, n, todo) ==
    IF todo = <<>> THEN o ELSE SummaryAddAll(ospf_db_summary_add(o, l, n, Head(todo)), l, n, Tail(todo))
nsm_negotiation_done(o, l, n) ==
    nsm_change_state(SummaryAddAll(o, l, n, InOrder(DOMAIN o.db)), l, n, NSM_Exchange)
nsm_exchange_done(o, l, n) ==
    IF Nbr(o, l, n).state # NSM_Exchange THEN o
    ELSE IF DOMAIN Nbr(o, l, n).req = {} THEN nsm_change_state(o, l, n, NSM_Full)
    ELSE nsm_change_state(ospf_ls_req_send(o, l, n), l, n, NSM_Loading)
nsm_loading_done(o, l, n) ==
    IF Nbr(o, l, n).state = NSM_Loading THEN nsm_change_state(o, l, n, NSM_Full) ELSE o
(* Mutant of the next definition: a full adjacency is not negotiated again. *)
MismatchWhenFull(o, l, n) ==
    IF Nbr(o, l, n).state < NSM_Exchange \/ Nbr(o, l, n).state = NSM_Full THEN o
    ELSE nsm_change_state(nsm_reset_nbr(o, l, n), l, n, NSM_ExStart)
nsm_seq_number_mismatch(o, l, n) ==
    IF Nbr(o, l, n).state < NSM_Exchange THEN o
    ELSE nsm_change_state(nsm_reset_nbr(o, l, n), l, n, NSM_ExStart)
nsm_bad_ls_req(o, l, n) == nsm_seq_number_mismatch(o, l, n)
nsm_kill_nbr(o, l, n) ==
    ospf_nbr_delete(nsm_reset_nbr(NsmMoved(o, l, n, NSM_Down), l, n), l, n)

(* The interface goes down: every neighbour is killed, what is queued is   *)
(* dropped, and the interface forgets DR and BDR.                          *)
RECURSIVE KillAll(_, _, _)
KillAll(o, l, todo) == IF todo = <<>> THEN o ELSE KillAll(nsm_kill_nbr(o, l, Head(todo)), l, Tail(todo))
ospf_if_cleanup(o, l) ==
    [KillAll(o, l, NumberOrder(DOMAIN o.oi[l].nbr)) EXCEPT
        !.oi[l].ack = {}, !.oi[l].upq = <<>>, !.oi[l].d = 0, !.oi[l].bd = 0,
        !.oi[l].net = 0, !.oi[l].tnet = FALSE]
ism_interface_down(o, l) == IsmMoved(ospf_if_cleanup(o, l), l, ISM_Down)

-----------------------------------------------------------------------------
(* The events, in the order they were scheduled.                           *)

UpdPacket(q, dst) ==
    [t |-> "upd", dr |-> dst = AllDRouters,
     ls |-> LET s == SelectSeq(q, LAMBDA e : e.dst = dst) IN [i \in DOMAIN s |-> s[i].lsa]]
RECURSIVE QueueSend(_, _, _, _)
QueueSend(o, l, q, todo) ==
    IF todo = <<>> THEN o
    ELSE QueueSend(ospf_packet_add(o, l, Head(todo), UpdPacket(q, Head(todo))), l, q, Tail(todo))
ospf_ls_upd_send_queue_event(o, l) ==
    [QueueSend(o, l, o.oi[l].upq, NumberOrder({o.oi[l].upq[i].dst : i \in DOMAIN o.oi[l].upq}))
        EXCEPT !.oi[l].upq = <<>>]
ospf_ls_ack_send_event(o, l, n) ==
    [ospf_packet_add(o, l, n, [t |-> "ack", dr |-> FALSE, ks |-> ToSet(o.oi[l].ackd)]) EXCEPT !.oi[l].ackd = <<>>]
ospf_ls_ack_send_delayed(o, l) ==
    [ospf_packet_add(o, l, Indirect(o.oi[l]), [t |-> "ack", dr |-> Indirect(o.oi[l]) = AllDRouters, ks |-> o.oi[l].ack])
        EXCEPT !.oi[l].ack = {}]
FlushEvent(o, l) == IF NetworkKey(l, o.id) \in DOMAIN o.db THEN ospf_lsa_flush_area(o, NetworkKey(l, o.id)) ELSE o

RunEvent(o, e) ==
    CASE e.kind = "AdjOK" -> nsm_adj_ok(o, e.l, e.n)
      [] e.kind = "LoadingDone" -> nsm_loading_done(o, e.l, e.n)
      [] e.kind = "ExchangeDone" -> nsm_exchange_done(o, e.l, e.n)
      [] e.kind = "BadLSReq" -> nsm_bad_ls_req(o, e.l, e.n)
      [] e.kind = "SeqNumberMismatch" -> nsm_seq_number_mismatch(o, e.l, e.n)
      [] e.kind = "LsReq" -> ospf_ls_req_timer(o, e.l, e.n)
      [] e.kind = "BackupSeen" -> ism_backup_seen(o, e.l)
      [] e.kind = "NeighborChange" -> ism_neighbor_change(o, e.l)
      [] e.kind = "NetLsa" -> ospf_network_lsa_refresh_timer(o, e.l)
      [] e.kind = "UpdSend" -> ospf_ls_upd_send_queue_event(o, e.l)
      [] e.kind = "AckSend" -> ospf_ls_ack_send_event(o, e.l, e.n)
      [] e.kind = "Flush" -> FlushEvent(o, e.l)
RECURSIVE RunEvents(_)
RunEvents(o) == IF o.ev = <<>> THEN o ELSE RunEvents(RunEvent([o EXCEPT !.ev = Tail(@)], Head(o.ev)))
=============================================================================
