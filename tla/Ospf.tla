--------------------------------- MODULE Ospf -------------------------------
(***************************************************************************)
(* Several ospfd processes on links, in one area.                          *)
(*   R    the routers, as OspfLsa and OspfNsm describe them                *)
(*   ch   per <<link, sender, receiver>> the packets under way, in order   *)
(*   env  how often each fault and each change from outside may still      *)
(*        happen; mute: only Hellos get through and only they are sent;    *)
(*        calm: packets are faster than Hellos, timers and faults          *)
(* A handler and the events it schedules are one step.  A Hello is read    *)
(* when it is sent; one that is lost is a step not taken.                  *)
(***************************************************************************)
EXTENDS OspfPacket

CONSTANTS Worlds,   \* the first states: [links, pri, full, ext, env]
          Flaps     \* bound: how often an exchange starts again in a mute world

VARIABLES R, ch, env
vars == <<R, ch, env>>

(* links: from a link to its type and its routers; pri: per router and     *)
(* link; full: the adjacencies are up already, ext: the routes announced   *)
(* then.                                                                   *)
LinksOf(w, r) == {l \in DOMAIN w.links : r \in w.links[l].on}
InterfaceNew(w, r, l) ==
    [type |-> w.links[l].type, pri |-> w.pri[r], state |-> ISM_Down, d |-> 0, bd |-> 0,
     nbr |-> <<>>, full |-> 0, ack |-> {}, ackd |-> <<>>, upq |-> <<>>, net |-> 0, tnet |-> FALSE]
RouterNew(w, r) ==
    [id |-> r, db |-> <<>>, maxage |-> {}, rself |-> 0, trtr |-> FALSE, ext |-> <<>>, dd |-> 10,
     oi |-> [l \in LinksOf(w, r) |-> InterfaceNew(w, r, l)], ev |-> <<>>, out |-> <<>>]

(* Every router up, adjacent and in possession of the same database.  On a *)
(* broadcast link the highest router is DR and the next one BDR.           *)
Highest(s) == CHOOSE x \in s : \A y \in s : y <= x
DrOf(w, l) == IF w.links[l].type = "ptop" THEN 0 ELSE Highest(w.links[l].on)
BdrOf(w, l) == IF w.links[l].type = "ptop" THEN 0 ELSE Highest(w.links[l].on \ {DrOf(w, l)})
StateOn(w, r, l) ==
    IF w.links[l].type = "ptop" THEN ISM_PointToPoint
    ELSE IF r = DrOf(w, l) THEN ISM_DR ELSE IF r = BdrOf(w, l) THEN ISM_Backup ELSE ISM_DROther
NbrUp(w, r, l, n) ==
    [ospf_nbr_new EXCEPT !.pri = w.pri[n], !.d = DrOf(w, l), !.bd = BdrOf(w, l), !.seq = 12,
        !.state = IF StateOn(w, r, l) = ISM_DROther /\ StateOn(w, n, l) = ISM_DROther
                  THEN NSM_TwoWay ELSE NSM_Full,
        !.fl = IF n < r THEN {"MS"} ELSE {},
        !.recv = IF n < r THEN [fl |-> {}, seq |-> 11] ELSE [fl |-> {"MS"}, seq |-> 12],
        !.send = [t |-> "dd", fl |-> IF n < r THEN {"MS"} ELSE {}, seq |-> 12, hs |-> {}]]
Others(w, r, l) == w.links[l].on \ {r}
InterfaceUpAs(w, r, l) ==
    LET nbr == [n \in Others(w, r, l) |-> NbrUp(w, r, l, n)]
    IN  [InterfaceNew(w, r, l) EXCEPT !.state = StateOn(w, r, l), !.d = DrOf(w, l), !.bd = BdrOf(w, l),
            !.nbr = nbr, !.full = Cardinality({n \in DOMAIN nbr : nbr[n].state = NSM_Full}),
            !.net = IF StateOn(w, r, l) = ISM_DR THEN 1 ELSE 0]
RouterUp(w, r) ==
    [RouterNew(w, r) EXCEPT !.rself = 2, !.ext = w.ext[r], !.dd = 12,
        !.oi = [l \in LinksOf(w, r) |-> InterfaceUpAs(w, r, l)]]
OwnLsas(w, o) ==
    {ospf_router_lsa_new(o, 2)} \cup {ospf_external_lsa_new(o, p, 1) : p \in DOMAIN o.ext}
        \cup {ospf_network_lsa_new(o, l, 1) : l \in {x \in DOMAIN o.oi : o.oi[x].net # 0}}
Routers(w) == DOMAIN w.pri
Synchronized(w) ==
    LET all == UNION {OwnLsas(w, RouterUp(w, r)) : r \in Routers(w)}
        db == [k \in {x.key : x \in all} |-> CHOOSE x \in all : x.key = k]
    IN  [r \in Routers(w) |-> [RouterUp(w, r) EXCEPT !.db = db]]

Init ==
    \E w \in Worlds :
        /\ R = IF w.full THEN Synchronized(w) ELSE [r \in Routers(w) |-> RouterNew(w, r)]
        /\ ch = [x \in UNION {{<<l, a, b>> : a \in w.links[l].on, b \in w.links[l].on} : l \in DOMAIN w.links} |-> <<>>]
        /\ env = w.env

-----------------------------------------------------------------------------
(* r has become o; its packets go out.                                     *)
Receives(p, x) == p.l = x[1] /\ (p.dst = x[3] \/ p.dst >= AllSPFRouters) /\ x[2] # x[3]
Queued(o, x) == LET s == SelectSeq(o.out, LAMBDA p : Receives(p, x)) IN [i \in DOMAIN s |-> s[i].pkt]
Sent(q, o) == [x \in DOMAIN q |-> IF x[2] = o.id /\ ~env.mute THEN q[x] \o Queued(o, x) ELSE q[x]]
Becomes(q, o) ==
    /\ R' = [R EXCEPT ![o.id] = [o EXCEPT !.out = <<>>]]
    /\ ch' = Sent(q, o)
Calm == env.calm => \A x \in DOMAIN ch : ch[x] = <<>>
Flooding == Calm /\ ~env.mute
(* The clock, which the sequence numbers of new neighbours are taken from, *)
(* has gone on.                                                            *)
Later(o) == [o EXCEPT !.dd = @ + 10]
Spend(k) == env[k] > 0 /\ env' = [env EXCEPT ![k] = @ - 1]

Up(r, l) == R[r].oi[l].state # ISM_Down
InterfaceUp(r, l) ==
    /\ ~Up(r, l) /\ Calm
    /\ Becomes(ch, ism_interface_up(R[r], l))
    /\ UNCHANGED env
(* The interface goes down; what is under way to it is lost.               *)
Unplug(r, l) ==
    /\ Up(r, l) /\ Calm /\ Spend("down")
    /\ Becomes([x \in DOMAIN ch |-> IF x[1] = l /\ x[3] = r THEN <<>> ELSE ch[x]], Later(InterfaceDown(R[r], l)))

(* The Hello of r is read by n.                                            *)
Hello(r, l, n) ==
    /\ Up(r, l) /\ Up(n, l) /\ Calm
    /\ env.mute => \A m \in DOMAIN R[n].oi[l].nbr : Nbr(R[n], l, m).seq < R[n].dd + Flaps
    /\ Becomes(ch, ospf_hello(R[n], l, r, ospf_make_hello(R[r], l)))
    /\ UNCHANGED env

Receive(x) ==
    /\ ch[x] # <<>>
    /\ Becomes([ch EXCEPT ![x] = Tail(@)], ospf_read(R[x[3]], x[1], x[2], Head(ch[x]), FALSE))
    /\ UNCHANGED env
(* The same, too early for an LSA (MinLSArrival) or too late for a DD.     *)
ReceiveOutOfTime(x) ==
    /\ ch[x] # <<>> /\ Head(ch[x]).t \in {"dd", "upd"} /\ Spend("early")
    /\ Becomes([ch EXCEPT ![x] = Tail(@)], ospf_read(R[x[3]], x[1], x[2], Head(ch[x]), TRUE))
Lose(x) ==
    /\ ch[x] # <<>> /\ Spend("loss")
    /\ ch' = [ch EXCEPT ![x] = Tail(@)]
    /\ UNCHANGED R

WaitTimer(r, l) ==
    /\ R[r].oi[l].state = ISM_Waiting /\ Calm
    /\ Becomes(ch, ospf_wait_timer(R[r], l))
    /\ UNCHANGED env

(* Retransmission: nothing is under way between the two any more (to the   *)
(* neighbour, for a DD packet), or it is early.                            *)
Quiet(r, l, n, back) == ch[<<l, r, n>>] = <<>> /\ Len(ch[<<l, n, r>>]) <= back
Due(r, l, n, back) == IF Quiet(r, l, n, back) THEN UNCHANGED env ELSE Spend("spare")
DescTimer(r, l, n) ==
    /\ n \in DOMAIN R[r].oi[l].nbr /\ DescTimerOn(Nbr(R[r], l, n))
    /\ Becomes(ch, ospf_db_desc_timer(R[r], l, n))
    /\ Due(r, l, n, 1)
ReqTimer(r, l, n) ==
    /\ n \in DOMAIN R[r].oi[l].nbr /\ ReqTimerOn(Nbr(R[r], l, n))
    /\ Becomes(ch, ospf_ls_req_timer(R[r], l, n))
    /\ Due(r, l, n, 0)
UpdTimer(r, l, n) ==
    /\ n \in DOMAIN R[r].oi[l].nbr /\ UpdTimerOn(Nbr(R[r], l, n))
    /\ Becomes(ch, ospf_ls_upd_timer(R[r], l, n))
    /\ Due(r, l, n, 0)
AckTimer(r, l) ==
    /\ R[r].oi[l].ack # {} /\ Flooding
    /\ Becomes(ch, ospf_ls_ack_timer(R[r], l))
    /\ UNCHANGED env

RouterLsaTimer(r) ==
    /\ R[r].trtr /\ Flooding
    /\ Becomes(ch, RunEvents(ospf_router_lsa_timer(R[r])))
    /\ UNCHANGED env
NetworkLsaTimer(r, l) ==
    /\ R[r].oi[l].tnet /\ Flooding
    /\ Becomes(ch, RunEvents(ospf_network_lsa_refresh_timer(R[r], l)))
    /\ UNCHANGED env
MaxageRemover(r) ==
    /\ R[r].maxage # {} /\ Flooding
    /\ Becomes(ch, RunEvents(ospf_maxage_lsa_remover(R[r])))
    /\ UNCHANGED env

Inactivity(r, l, n) ==
    /\ n \in DOMAIN R[r].oi[l].nbr /\ Calm /\ Spend("dead")
    /\ Becomes(ch, Later(ospf_inactivity_timer(R[r], l, n)))
(* The process is started again: only the clock is kept.                   *)
Restart(r) ==
    /\ Calm /\ Spend("restart")
    /\ Becomes([x \in DOMAIN ch |-> IF x[3] = r THEN <<>> ELSE ch[x]],
               [R[r] EXCEPT !.db = <<>>, !.maxage = {}, !.rself = 0, !.trtr = FALSE, !.ext = <<>>,
                    !.dd = @ + 10, !.oi = [l \in DOMAIN R[r].oi |->
                        [R[r].oi[l] EXCEPT !.state = ISM_Down, !.d = 0, !.bd = 0, !.nbr = <<>>, !.full = 0,
                            !.ack = {}, !.net = 0, !.tnet = FALSE]]])
RouteAdd(r, p) ==
    /\ p \notin DOMAIN R[r].ext /\ Calm /\ Spend("add")
    /\ Becomes(ch, RunEvents(zebra_route_add(R[r], p, 1)))
RouteDelete(r, p) ==
    /\ p \in DOMAIN R[r].ext /\ Calm /\ Spend("del")
    /\ Becomes(ch, RunEvents(zebra_route_delete(R[r], p)))

Prefix == {1}
Links(r) == DOMAIN R[r].oi
Next ==
    \/ \E x \in DOMAIN ch : Receive(x) \/ ReceiveOutOfTime(x) \/ Lose(x) \/ (x[2] # x[3] /\ Hello(x[2], x[1], x[3]))
    \/ \E x \in DOMAIN ch : DescTimer(x[2], x[1], x[3]) \/ ReqTimer(x[2], x[1], x[3]) \/ UpdTimer(x[2], x[1], x[3])
                              \/ Inactivity(x[2], x[1], x[3])
    \/ \E r \in DOMAIN R : RouterLsaTimer(r) \/ MaxageRemover(r) \/ Restart(r)
    \/ \E r \in DOMAIN R, p \in Prefix : RouteAdd(r, p) \/ RouteDelete(r, p)
    \/ \E r \in DOMAIN R : \E l \in Links(r) :
          InterfaceUp(r, l) \/ Unplug(r, l) \/ WaitTimer(r, l) \/ AckTimer(r, l) \/ NetworkLsaTimer(r, l)

Spec == Init /\ [][Next]_vars

(* Interfaces come up, Hellos are sent, packets are read and the timers    *)
(* that run fire.  Each conjunct is weak fairness of one kind of step,     *)
(* wherever it is taken, and for each neighbour where packets are read and *)
(* DD packets sent again; ...On says when the step changes something.      *)
(* Faults and changes need not happen.                                     *)
Resends(r, l, n, back) ==
    r # n /\ n \in DOMAIN R[r].oi[l].nbr /\ Quiet(r, l, n, back) /\ ~env.mute
HelloChanges(r, l, n) ==
    Up(r, l) /\ Up(n, l) /\ ospf_hello(R[n], l, r, ospf_make_hello(R[r], l)) # R[n]
Ways == DOMAIN ch
AllWays == UNION {{<<l, a, b>> : l \in DOMAIN w.links, a \in Routers(w), b \in Routers(w)} : w \in Worlds}
Places == {<<x[1], x[2]>> : x \in Ways}

ReceiveOn(x) == x \in Ways /\ ch[x] # <<>>
HelloOn(x) == x[2] # x[3] /\ Calm /\ HelloChanges(x[2], x[1], x[3])
DescOn(x) == x \in Ways /\ Resends(x[2], x[1], x[3], 1) /\ DescTimerOn(Nbr(R[x[2]], x[1], x[3]))
ReqOn(x) == Resends(x[2], x[1], x[3], 0) /\ ReqTimerOn(Nbr(R[x[2]], x[1], x[3]))
UpdOn(x) == Resends(x[2], x[1], x[3], 0) /\ UpdTimerOn(Nbr(R[x[2]], x[1], x[3]))
RouterOn(r) == Flooding /\ R[r].trtr
RemoverOn(r) == Flooding /\ R[r].maxage # {} /\ ospf_maxage_lsa_remover(R[r]) # R[r]
UpOn(p) == Calm /\ ~Up(p[2], p[1])
WaitOn(p) == Calm /\ R[p[2]].oi[p[1]].state = ISM_Waiting
AckOn(p) == Flooding /\ R[p[2]].oi[p[1]].ack # {}
NetworkOn(p) == Flooding /\ R[p[2]].oi[p[1]].tnet
Fairness ==
    /\ \A x \in AllWays : []<>~ReceiveOn(x) \/ []<><<ReceiveOn(x) /\ Receive(x)>>_vars
    /\ []<>(\A x \in Ways : ~HelloOn(x)) \/ []<><<\E x \in Ways : HelloOn(x) /\ Hello(x[2], x[1], x[3])>>_vars
    /\ \A x \in AllWays : []<>~DescOn(x) \/ []<><<DescOn(x) /\ DescTimer(x[2], x[1], x[3])>>_vars
    /\ []<>(\A x \in Ways : ~ReqOn(x)) \/ []<><<\E x \in Ways : ReqOn(x) /\ ReqTimer(x[2], x[1], x[3])>>_vars
    /\ []<>(\A x \in Ways : ~UpdOn(x)) \/ []<><<\E x \in Ways : UpdOn(x) /\ UpdTimer(x[2], x[1], x[3])>>_vars
    /\ []<>(\A r \in DOMAIN R : ~RouterOn(r)) \/ []<><<\E r \in DOMAIN R : RouterOn(r) /\ RouterLsaTimer(r)>>_vars
    /\ []<>(\A r \in DOMAIN R : ~RemoverOn(r)) \/ []<><<\E r \in DOMAIN R : RemoverOn(r) /\ MaxageRemover(r)>>_vars
    /\ []<>(\A p \in Places : ~UpOn(p)) \/ []<><<\E p \in Places : UpOn(p) /\ InterfaceUp(p[2], p[1])>>_vars
    /\ []<>(\A p \in Places : ~WaitOn(p)) \/ []<><<\E p \in Places : WaitOn(p) /\ WaitTimer(p[2], p[1])>>_vars
    /\ []<>(\A p \in Places : ~AckOn(p)) \/ []<><<\E p \in Places : AckOn(p) /\ AckTimer(p[2], p[1])>>_vars
    /\ []<>(\A p \in Places : ~NetworkOn(p)) \/ []<><<\E p \in Places : NetworkOn(p) /\ NetworkLsaTimer(p[2], p[1])>>_vars
LiveSpec == Spec /\ Fairness

-----------------------------------------------------------------------------
(* Properties.                                                             *)

Pairs == {x \in DOMAIN ch : x[2] # x[3]}
NbrState(r, l, n) == IF n \in DOMAIN R[r].oi[l].nbr THEN Nbr(R[r], l, n).state ELSE NSM_Down
MutuallyFull(x) == NbrState(x[2], x[1], x[3]) = NSM_Full /\ NbrState(x[3], x[1], x[2]) = NSM_Full
Behind(n, lsa) ==
    \/ lsa.key \notin DOMAIN R[n].db
    \/ ospf_lsa_more_recent(R[n].db[lsa.key], lsa) < 0

(* Hellos change nothing on the link any more.                             *)
Settled(l) ==
    /\ \A x \in Pairs : x[1] = l => ~HelloChanges(x[2], l, x[3])
    /\ \A r \in DOMAIN R : l \in Links(r) => R[r].oi[l].state # ISM_Waiting

(* Reliable flooding: between two routers that are fully adjacent, the     *)
(* instance of an LSA that its originator announces and that one of them   *)
(* has and the other has not is on the retransmission list of the first    *)
(* (ospf_flood_through_interface, the database exchange and the request    *)
(* list together).                                                         *)
Announced(lsa) ==
    LET origin == R[lsa.key[3]].db
    IN  /\ lsa.key \in DOMAIN origin
        /\ ~origin[lsa.key].max /\ ospf_lsa_more_recent(origin[lsa.key], lsa) = 0
Reliable ==
    \A x \in Pairs : MutuallyFull(x) =>
        \A k \in DOMAIN R[x[2]].db :
            ~R[x[2]].db[k].max /\ Announced(R[x[2]].db[k]) /\ Behind(x[3], R[x[2]].db[k])
                => k \in DOMAIN Nbr(R[x[2]], x[1], x[3]).rxmt

(* The router-LSA in the database describes the interfaces and adjacencies *)
(* of the moment, or the timer that originates it again runs.  An election *)
(* alone originates nothing: until a link has settled on a DR and the      *)
(* adjacency with it is full, the LSA may still name the DR before.        *)
DescribesLinks(r) ==
    RouterKey(r) \in DOMAIN R[r].db /\ R[r].db[RouterKey(r)].body = router_lsa_link_set(R[r])
RouterLsaCurrent ==
    \A r \in DOMAIN R :
        \/ R[r].trtr
        \/ R[r].rself = 0 /\ \A l \in Links(r) : ~Up(r, l)
        \/ DescribesLinks(r)
        \/ \E l \in Links(r) : R[r].oi[l].type = "broadcast" /\ ~(FullWithDr(R[r], l) /\ Settled(l))
(* When nothing changes any more, the routers of a link agree on DR  *)
(* and BDR, and these are two routers.                                     *)
LinkNames == UNION {Links(r) : r \in DOMAIN R}
DrAgreement ==
    \A l \in LinkNames : Settled(l) =>
        \A a, b \in {r \in DOMAIN R : l \in Links(r) /\ Up(r, l)} :
            /\ R[a].oi[l].d = R[b].oi[l].d /\ R[a].oi[l].bd = R[b].oi[l].bd
            /\ R[a].oi[l].d # 0 => R[a].oi[l].d # R[a].oi[l].bd

(* The databases are the same, nothing waits to be sent or acknowledged.   *)
Idle ==
    /\ \A x \in DOMAIN ch : ch[x] = <<>>
    /\ \A r \in DOMAIN R : R[r].maxage = {} /\ ~R[r].trtr
Agreed == \A a, b \in DOMAIN R : R[a].db = R[b].db
AdjacenciesUp ==
    \A x \in Pairs : NbrState(x[2], x[1], x[3]) =
        IF Adjacent(R[x[2]], x[1], x[3], R[x[2]].oi[x[1]].d, R[x[2]].oi[x[1]].bd) THEN NSM_Full ELSE NSM_TwoWay
(* Whatever is lost, repeated or restarted on the way, in the end the      *)
(* adjacencies are up and every router has the same database, where more   *)
(* than Hellos gets through.                                               *)
Converges == env.mute \/ <>[](Idle /\ Agreed /\ AdjacenciesUp)
=============================================================================
