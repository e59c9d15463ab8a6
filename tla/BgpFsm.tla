------------------------------- MODULE BgpFsm -------------------------------
(* The BGP session state machine of bgpd: bgp_fsm.c (timers, FSM table,     *)
(* bgp_event), bgp_network.c (accept, connect), the read/write handlers of   *)
(* bgp_packet.c and the peer life cycle of bgpd.c.                           *)
(*                                                                           *)
(* bgpd is one thread: lib/thread.c runs one handler at a time, events       *)
(* before anything else.  A handler is an operator from a world record       *)
(*    w = [peer, open, plist]                                                *)
(* to the next one; an action runs one handler to its end.  One neighbour    *)
(* is configured (Conf); every TCP connection it opens to us gets a          *)
(* temporary peer structure out of Accept until its OPEN has been read.      *)
EXTENDS Integers, Sequences, FiniteSets

CONSTANTS
  Conf,          \* the configured peer structure
  Accept,        \* temporary peer structures (bound on pending accepts)
  Fd,            \* descriptors the process may hold (bound)
  LocalId,       \* local BGP identifier
  OpenMsg,       \* OPENs the neighbour may send
  OtherMsg,      \* other inputs the neighbour may produce, see Inputs
  Orderly,       \* the neighbour sends OPEN once and first on a connection
  ConfHold,      \* configured hold time
  ConnectMode,   \* "both", "passive" or "active" (neighbor transport)
  AdminOps,      \* operator commands that may be issued
  EarlyShutdown  \* shutdown may be issued before the first start timer

Inputs == {"partial", "closed", "fatal", "badheader", "KEEPALIVE", "NOTIFY",
           "REFRESH", "CAPABILITY", "UPDATE", "EOR", "OVERFLOW", "BADUPDATE"}

ASSUME ConstantAssumption ==
  /\ Conf \notin Accept
  /\ Fd \subseteq Nat
  /\ LocalId \in Nat /\ ConfHold \in Nat
  /\ OpenMsg \subseteq [type : {"OPEN"}, as : BOOLEAN, id : Nat, hold : Nat,
                        valid : BOOLEAN, gr : BOOLEAN]
  /\ OtherMsg \subseteq Inputs
  /\ Orderly \in BOOLEAN /\ EarlyShutdown \in BOOLEAN
  /\ ConnectMode \in {"both", "passive", "active"}
  /\ AdminOps \subseteq {"shutdown", "no_shutdown", "clear", "delete", "create"}

Peer == {Conf} \cup Accept
NoFd == -1        \* peer->fd == -1
NoThread == -2    \* a NULL thread pointer
Status == {"Idle", "Connect", "Active", "OpenSent", "OpenConfirm", "Established"}
InSession == {"OpenSent", "OpenConfirm", "Established"}
Event == {"BGP_Start", "BGP_Stop", "TCP_connection_open",
          "TCP_connection_closed", "TCP_connection_open_failed",
          "TCP_fatal_error", "ConnectRetry_timer_expired",
          "Hold_Timer_expired", "KeepAlive_timer_expired",
          "Receive_OPEN_message", "Receive_KEEPALIVE_message",
          "Receive_UPDATE_message", "Receive_NOTIFICATION_message"}
FsmTimer == {"start", "connect", "hold", "keepalive"}
SideTimer == {"gr_restart", "gr_stale", "pmax_restart"}
ConnectResult == {"nosocket", "error", "success", "in_progress"}

VARIABLES
  peer,    \* struct peer of every member of Peer
  open,    \* descriptors that are open in the process
  plist,   \* bgp->peer: the live structures, in list order
  greeted  \* descriptors on which the neighbour has sent its OPEN (external)

vars == <<peer, open, plist, greeted>>

(* peer_new: what a structure looks like before its owner fills it in.       *)
peer_new ==
  [status |-> "Idle", fd |-> NoFd, rd |-> NoThread, wr |-> NoThread,
   tm |-> {}, ev |-> <<>>, obuf |-> "none", hold |-> 0, rid |-> 0,
   init |-> FALSE, shut |-> FALSE, over |-> FALSE,
   gr |-> FALSE, mode |-> FALSE, wait |-> FALSE, nsf |-> FALSE, routes |-> {}]

World == [peer |-> peer, open |-> open, plist |-> plist]
Live(s, p) == \E i \in 1..Len(s) : s[i] = p

-----------------------------------------------------------------------------
(* Primitive effects.                                                        *)

Put(w, p, r) == [w EXCEPT !.peer[p] = r]

EventAdd(w, p, e) == Put(w, p, [w.peer[p] EXCEPT !.ev = Append(@, e)])

(* thread_add_read refuses a descriptor that already has a reader.           *)
ReadOn(w, p) ==
  IF \/ w.peer[p].rd # NoThread
     \/ \E q \in Peer : w.peer[q].rd = w.peer[p].fd
  THEN w
  ELSE Put(w, p, [w.peer[p] EXCEPT !.rd = w.peer[p].fd])

WriteOn(w, p) ==
  IF \/ w.peer[p].wr # NoThread
     \/ \E q \in Peer : w.peer[q].wr = w.peer[p].fd
  THEN w
  ELSE Put(w, p, [w.peer[p] EXCEPT !.wr = w.peer[p].fd])

(* bgp_packet_add then BGP_WRITE_ON; a NOTIFICATION stays at the head.       *)
SendData(w, p) ==
  WriteOn(Put(w, p, [w.peer[p] EXCEPT
                       !.obuf = IF @ = "none" THEN "data" ELSE @]), p)

bgp_fsm_change_status(w, p, s) == Put(w, p, [w.peer[p] EXCEPT !.status = s])

(* Mutants: the start timer ignores PEER_FLAG_SHUTDOWN; OpenSent arms none.  *)
MutStartWhenShut(r, p) ==
  CASE r.status = "Idle" -> IF r.over \/ p # Conf THEN {} ELSE {"start"}
    [] r.status \in {"Connect", "Active"} -> {"connect"}
    [] r.status = "OpenSent" -> IF r.hold = 0 THEN {} ELSE {"hold"}
    [] OTHER -> IF r.hold = 0 THEN {} ELSE {"hold", "keepalive"}

MutNoOpenHold(r, p) ==
  CASE r.status = "Idle" ->
         IF r.shut \/ r.over \/ p # Conf THEN {} ELSE {"start"}
    [] r.status \in {"Connect", "Active"} -> {"connect"}
    [] r.status = "OpenSent" -> {}
    [] OTHER -> IF r.hold = 0 THEN {} ELSE {"hold", "keepalive"}

(* The timers bgp_timer_set leaves running in each status.  Only Conf has an *)
(* address family configured, so peer_active holds of Conf alone.            *)
TimersOf(r, p) ==
  CASE r.status = "Idle" ->
         IF r.shut \/ r.over \/ p # Conf THEN {} ELSE {"start"}
    [] r.status = "Connect" -> {"connect"}
    [] r.status = "Active" ->
         IF ConnectMode = "passive" THEN {} ELSE {"connect"}
    [] r.status = "OpenSent" -> IF r.hold = 0 THEN {} ELSE {"hold"}
    [] OTHER -> IF r.hold = 0 THEN {} ELSE {"hold", "keepalive"}

bgp_timer_set(w, p) ==
  Put(w, p, [w.peer[p] EXCEPT
               !.tm = (@ \cap SideTimer) \cup TimersOf(w.peer[p], p)])

(* bgp_clear_route_table over all families: with NSF_WAIT a fresh route is   *)
(* marked stale, anything else (a route already stale included) is removed.  *)
bgp_clear_route_all(r) ==
  IF r.wait /\ r.nsf /\ "fresh" \in r.routes THEN {"stale"} ELSE {}

(* Mutants: the restart timers are not started; the routes are kept.         *)
MutNoRestartTimers(r) ==
  [r EXCEPT !.status = "Idle", !.tm = @ \ {"gr_stale"},
            !.mode = @ /\ r.wait, !.nsf = @ /\ r.wait,
            !.routes = bgp_clear_route_all(r)]

(* The part of bgp_stop that only an Established peer runs.                  *)
LeaveEstablished(r) ==
  LET t == [r EXCEPT !.status = "Idle",
                     !.tm = IF r.wait THEN @ \cup {"gr_restart", "gr_stale"}
                            ELSE @ \ {"gr_stale"},
                     !.mode = @ /\ r.wait,
                     !.nsf = @ /\ r.wait]
  IN  [t EXCEPT !.routes = bgp_clear_route_all(t)]

Close(w, f) == [w EXCEPT !.open = @ \ {f}]

(* Mutant: the descriptor is forgotten, not closed.                          *)
MutStopNoClose(w, p) ==
  LET r == w.peer[p]
      s == IF r.status = "Established" THEN LeaveEstablished(r) ELSE r
  IN  IF r.init THEN w
      ELSE Put(w, p, [s EXCEPT !.rd = NoThread, !.wr = NoThread,
                               !.tm = @ \cap SideTimer, !.ev = <<>>,
                               !.obuf = "none", !.fd = NoFd, !.rid = 0,
                               !.gr = FALSE, !.hold = ConfHold])

bgp_stop(w, p) ==
  LET r == w.peer[p]
      s == IF r.status = "Established" THEN LeaveEstablished(r) ELSE r
  IN  IF r.init THEN w
      ELSE Close(Put(w, p, [s EXCEPT
                              !.rd = NoThread, !.wr = NoThread,
                              !.tm = @ \cap SideTimer, !.ev = <<>>,
                              !.obuf = "none", !.fd = NoFd, !.rid = 0,
                              !.gr = FALSE, !.hold = ConfHold]), r.fd)

(* Mutant: bgp_write_notify does not set the timers of the new status.       *)
MutNotifyNoTimer(w, p, ok) ==
  bgp_fsm_change_status(
    bgp_stop(Put(w, p, [w.peer[p] EXCEPT !.obuf = "notify", !.wr = NoThread]),
             p), p, "Idle")

(* bgp_notify_send_with_data and bgp_write_notify: the NOTIFICATION replaces *)
(* what was queued, is written at once, and the peer stops.  ok: the write   *)
(* succeeded.  An Established peer relies on bgp_stop for the status change. *)
bgp_notify_send(w, p, ok) ==
  LET w1 == bgp_stop(Put(w, p, [w.peer[p] EXCEPT !.obuf = "notify",
                                                 !.wr = NoThread]), p)
      w2 == IF ok /\ w.peer[p].status = "Established" THEN w1
            ELSE bgp_fsm_change_status(w1, p, "Idle")
  IN  bgp_timer_set(w2, p)

peer_nsf_stop(w, p) ==
  Put(w, p, [w.peer[p] EXCEPT !.wait = FALSE, !.mode = FALSE, !.nsf = FALSE,
                              !.routes = {},
                              !.tm = @ \ {"gr_restart", "gr_stale"}])

(* Remove the first node that holds v, if there is one.                      *)
listnode_delete(s, v) ==
  IF \A i \in 1..Len(s) : s[i] # v THEN s
  ELSE LET k == CHOOSE i \in 1..Len(s) : s[i] = v
       IN  SubSeq(s, 1, k - 1) \o SubSeq(s, k + 1, Len(s))

Unlist(w, p) == [w EXCEPT !.plist = listnode_delete(@, p)]

(* Mutant: only the timers of the state machine are stopped.                 *)
MutDeleteSomeTimers(w, p, ok) ==
  LET w1 == IF w.peer[p].status = "Established" THEN bgp_notify_send(w, p, ok)
            ELSE bgp_fsm_change_status(bgp_stop(w, p), p, "Idle")
  IN  Unlist(Put(w1, p, [w1.peer[p] EXCEPT !.tm = @ \ FsmTimer]), p)

peer_delete(w, p, ok) ==
  LET w1 == IF w.peer[p].wait THEN peer_nsf_stop(w, p) ELSE w
      w2 == IF w1.peer[p].status = "Established"
            THEN bgp_notify_send(w1, p, ok)
            ELSE bgp_fsm_change_status(bgp_stop(w1, p), p, "Idle")
  IN  Unlist(Put(w2, p, [w2.peer[p] EXCEPT !.tm = {}]), p)

-----------------------------------------------------------------------------
(* The functions of the FSM table.  Each returns [w, ret].                   *)

Ok(w) == [w |-> w, ret |-> 0]
Fail(w) == [w |-> w, ret |-> -1]

(* Mutant: no test for a negative descriptor.                                *)
MutConnectSuccess(w, p) ==
  LET w1 == ReadOn(w, p) IN Ok(IF p = Conf THEN SendData(w1, p) ELSE w1)

bgp_connect_success(w, p) ==
  LET w1 == ReadOn(w, p)
  IN  IF w.peer[p].fd = NoFd THEN Fail(w)
      ELSE Ok(IF p = Conf THEN SendData(w1, p) ELSE w1)

Opened(w, f) == [w EXCEPT !.open = @ \cup {f}]

(* bgp_start with bgp_connect: peer->fd is overwritten by the new socket.    *)
(* When no socket can be made bgp_connect returns -1, which is no member of  *)
(* connect_result, and no event follows.  Which free descriptor the kernel   *)
(* hands out makes no difference here.                                       *)
bgp_start(w, p, c) ==
  LET free == Fd \ w.open
      f == CHOOSE x \in free : TRUE
      w1 == Opened(Put(w, p, [w.peer[p] EXCEPT !.fd = f]), f)
  IN  IF c = "nosocket" \/ free = {}
      THEN Put(w, p, [w.peer[p] EXCEPT !.fd = NoFd])
      ELSE CASE c = "error" -> EventAdd(w1, p, "TCP_connection_open_failed")
             [] c = "success" -> EventAdd(w1, p, "TCP_connection_open")
             [] OTHER -> WriteOn(ReadOn(w1, p), p)

HoldOff(w, p) == Put(w, p, [w.peer[p] EXCEPT !.tm = @ \ {"hold"}])

bgp_fsm_open(w, p) == HoldOff(SendData(w, p), p)

bgp_fsm_holdtime_expire(w, p, ok) ==
  LET w1 == bgp_notify_send(w, p, ok)
  IN  IF p = Conf THEN Ok(w1) ELSE Fail(peer_delete(w1, p, ok))

(* gr: the neighbour's OPEN carried the restart capability for the family    *)
(* that is modelled, kept: with the forwarding state preserved bit.          *)
bgp_establish(w, p, kept) ==
  LET r == w.peer[p]
      s == [r EXCEPT
              !.status = "Established", !.wait = FALSE,
              !.routes = IF r.nsf /\ ~(r.gr /\ kept) THEN @ \ {"stale"} ELSE @,
              !.nsf = r.gr, !.mode = r.gr,
              !.tm = @ \ (IF r.gr THEN {"gr_restart"}
                          ELSE {"gr_restart", "gr_stale"})]
      w1 == Put(w, p, s)
  IN  IF r.hold = 0 THEN w1 ELSE SendData(w1, p)

(* FSM[status][event] = <<function, next status>>.                           *)
(* One status of the table: what each event runs and leads to.               *)
Row(st, sp, op, cl, fa, er, rt, ho, ka, ro, rk, ru, rn) ==
  [BGP_Start |-> st, BGP_Stop |-> sp, TCP_connection_open |-> op,
   TCP_connection_closed |-> cl, TCP_connection_open_failed |-> fa,
   TCP_fatal_error |-> er, ConnectRetry_timer_expired |-> rt,
   Hold_Timer_expired |-> ho, KeepAlive_timer_expired |-> ka,
   Receive_OPEN_message |-> ro, Receive_KEEPALIVE_message |-> rk,
   Receive_UPDATE_message |-> ru, Receive_NOTIFICATION_message |-> rn]

FSM ==
  LET ignore(s) == <<"bgp_ignore", s>>
      stop(s) == <<"bgp_stop", s>>
      i == ignore("Idle")
      x == stop("Idle")
      err == <<"bgp_stop_with_error", "Idle">>
      exp == <<"bgp_fsm_holdtime_expire", "Idle">>
      succ == <<"bgp_connect_success", "OpenSent">>
  IN [Idle |->
        Row(ignore("Active"), x, x, x, i, x, i, i, i, i, i, i, i),
      Connect |->
        Row(ignore("Connect"), x, succ, x, <<"bgp_connect_fail", "Active">>,
            <<"bgp_connect_fail", "Idle">>, <<"bgp_reconnect", "Connect">>,
            i, i, i, i, i, x),
      Active |->
        Row(ignore("Active"), x, succ, x, ignore("Active"), i,
            <<"bgp_start", "Connect">>, i, i, i, i, i, err),
      OpenSent |->
        Row(ignore("OpenSent"), x, x, stop("Active"), i, x, i, exp, i,
            <<"bgp_fsm_open", "OpenConfirm">>, i, i, err),
      OpenConfirm |->
        Row(ignore("OpenConfirm"), x, x, x, x, x, i, exp,
            ignore("OpenConfirm"), i, <<"bgp_establish", "Established">>,
            i, err),
      Established |->
        Row(ignore("Established"), x, x, x, i, x, i, exp,
            <<"bgp_fsm_keepalive_expire", "Established">>, x,
            <<"bgp_fsm_keepalive", "Established">>,
            <<"bgp_fsm_update", "Established">>, err)]

(* What the environment decides during a handler: the outcome of connect(),  *)
(* whether a NOTIFICATION could be written, and a yes or no of the message   *)
(* or the configuration (forwarding state kept, capability enabled, ...).    *)
Choice == [conn : ConnectResult, ok : BOOLEAN, alt : BOOLEAN]

Call(func, w, p, c) ==
  CASE func \in {"bgp_stop", "bgp_stop_with_error", "bgp_connect_fail"} ->
         Ok(bgp_stop(w, p))
    [] func = "bgp_connect_success" -> bgp_connect_success(w, p)
    [] func = "bgp_start" -> Ok(bgp_start(w, p, c.conn))
    [] func = "bgp_reconnect" -> Ok(bgp_start(bgp_stop(w, p), p, c.conn))
    [] func = "bgp_fsm_open" -> Ok(bgp_fsm_open(w, p))
    [] func = "bgp_fsm_holdtime_expire" -> bgp_fsm_holdtime_expire(w, p, c.ok)
    [] func = "bgp_establish" -> Ok(bgp_establish(w, p, c.alt))
    [] func = "bgp_fsm_keepalive_expire" -> Ok(SendData(w, p))
    [] func \in {"bgp_fsm_keepalive", "bgp_fsm_update"} -> Ok(HoldOff(w, p))
    [] OTHER -> Ok(w)    \* bgp_ignore

(* Mutant: the table's entry for OPEN leads to Established.                  *)
MutOpenEstablishes(w, p, e, c) ==
  LET entry == FSM[w.peer[p].status][e]
      r == Call(entry[1], w, p, c)
      next == IF entry[1] = "bgp_fsm_open" THEN "Established" ELSE entry[2]
  IN  IF r.ret < 0 THEN r.w
      ELSE bgp_timer_set(bgp_fsm_change_status(r.w, p, next), p)

(* The next status is looked up before the function runs.                    *)
bgp_event(w, p, e, c) ==
  LET entry == FSM[w.peer[p].status][e]
      r == Call(entry[1], w, p, c)
  IN  IF r.ret < 0 THEN r.w
      ELSE bgp_timer_set(bgp_fsm_change_status(r.w, p, entry[2]), p)

-----------------------------------------------------------------------------
(* Packet handlers.                                                          *)

bgp_connect_check(w, p, c) ==
  LET w1 == Put(w, p, [w.peer[p] EXCEPT !.rd = NoThread, !.wr = NoThread])
  IN  EventAdd(w1, p, CASE c = "success" -> "TCP_connection_open"
                        [] c = "error" -> "TCP_connection_open_failed"
                        [] OTHER -> "TCP_fatal_error")

(* The connections bgp_collision_detect compares the new one with: every     *)
(* structure has the neighbour's address, so the status alone decides.       *)
Colliding(w, new) ==
  {i \in 1..Len(w.plist) :
     /\ w.plist[i] # new
     /\ w.peer[w.plist[i]].status \in {"OpenSent", "OpenConfirm"}}

(* The first such connection of the list.                                    *)
FirstColliding(w, new) ==
  w.plist[CHOOSE i \in Colliding(w, new) :
            \A j \in Colliding(w, new) : i <= j]

(* Returns -1, 0 or 1 in ret.  In both branches it is the connection found   *)
(* in the list that gets the NOTIFICATION.                                   *)
bgp_collision_detect(w, new, id, ok) ==
  LET q == FirstColliding(w, new)
  IN  IF Colliding(w, new) = {} THEN Ok(w)
      ELSE IF LocalId < id
      THEN [w |-> IF w.peer[q].fd # NoFd THEN bgp_notify_send(w, q, ok) ELSE w,
            ret |-> 1]
      ELSE Fail(IF w.peer[new].fd # NoFd THEN bgp_notify_send(w, q, ok) ELSE w)

(* Descriptor and status move to the configured peer.                        *)
HandOver(w, p) ==
  LET r == w.peer[p]
      w1 == Put(w, p, [r EXCEPT !.fd = NoFd])
  IN  Put(w1, Conf, [w.peer[Conf] EXCEPT !.fd = r.fd, !.status = r.status])

(* Mutants: the temporary peer keeps the descriptor; the reader is not       *)
(* registered; the old connection is not stopped.                            *)
MutTransferKeepFd(w, p) ==
  LET w1 == bgp_stop(w, Conf)
      w2 == Put(w1, Conf, [w1.peer[Conf] EXCEPT !.fd = w.peer[p].fd,
                                                !.status = w.peer[p].status])
  IN  ReadOn(SendData(bgp_stop(w2, p), Conf), Conf)

MutTransferNoReader(w, p) ==
  LET w1 == bgp_stop(w, Conf)
      w2 == HandOver(w1, p)
  IN  SendData(bgp_stop(w2, p), Conf)

(* Hand the accepted connection over to the configured peer.                 *)
Transfer(w, p) ==
  LET w1 == bgp_stop(w, Conf)
      w2 == bgp_stop(HandOver(w1, p), p)
  IN  ReadOn(SendData(w2, Conf), Conf)

(* Mutant: an OPEN that carries our own identifier is accepted.              *)
MutOpenOwnId(w, p, m, ok) ==
  LET w1 == Put(w, p, [w.peer[p] EXCEPT !.rid = m.id, !.hold = m.hold])
  IN  IF m.id = 0 \/ ~m.as \/ ~m.valid THEN bgp_notify_send(w1, p, ok)
      ELSE EventAdd(w1, p, "Receive_OPEN_message")

(* The checks and the negotiation that follow, on the configured peer.       *)
OpenNegotiate(w, p, m, ok) ==
  LET w1 == Put(w, p, [w.peer[p] EXCEPT !.rid = m.id])
      hold == IF m.hold < ConfHold THEN m.hold ELSE ConfHold
      w2 == Put(w, p, [w.peer[p] EXCEPT !.rid = m.id, !.hold = hold,
                                        !.gr = m.gr])
  IN  IF m.id = 0 \/ m.id = LocalId THEN bgp_notify_send(w, p, ok)
      ELSE IF ~m.as \/ (m.hold < 3 /\ m.hold # 0)
      THEN bgp_notify_send(w1, p, ok)
      ELSE IF ~m.valid THEN bgp_notify_send(w2, p, ok)
      ELSE EventAdd(w2, p, "Receive_OPEN_message")

bgp_open_receive(w, p, m, ok) ==
  LET known == /\ Live(w.plist, Conf)
               /\ m.as /\ w.peer[Conf].rid \in {0, m.id}
      col == bgp_collision_detect(w, p, m.id, ok)
      w1 == col.w
      real == w1.peer[Conf]
      nsf == real.status = "Established" /\ real.mode
  IN  IF p # Conf /\ ~known THEN bgp_notify_send(w, p, ok)
      ELSE IF col.ret < 0 THEN w1
      ELSE IF p = Conf THEN OpenNegotiate(w1, p, m, ok)
      ELSE IF ConnectMode = "active" THEN bgp_notify_send(w1, p, ok)
      ELSE IF /\ ~nsf /\ col.ret = 0
              /\ real.status \notin {"Active", "OpenSent", "OpenConfirm"}
      THEN bgp_notify_send(w1, p, ok)
      ELSE OpenNegotiate(
             Transfer(Put(w1, Conf, [real EXCEPT !.wait = @ \/ nsf]), p),
             Conf, m, ok)

DropStale(r) == IF r.nsf THEN r.routes \ {"stale"} ELSE r.routes

(* An UPDATE: malformed, End-of-RIB, over the prefix limit, or routes.  alt: *)
(* the last stale route is replaced; a restart interval is configured.       *)
bgp_update_receive(w, p, type, ok, alt) ==
  LET r == w.peer[p]
      routes == (r.routes \cup {"fresh"}) \ (IF alt THEN {"stale"} ELSE {})
      over == bgp_notify_send(Put(w, p, [r EXCEPT !.over = TRUE]), p, ok)
      done(rs) == EventAdd(Put(w, p, [r EXCEPT !.routes = rs]), p,
                           "Receive_UPDATE_message")
  IN  IF r.status # "Established" \/ type = "BADUPDATE"
      THEN bgp_notify_send(w, p, ok)
      ELSE IF type = "OVERFLOW"
      THEN IF alt THEN Put(over, p, [over.peer[p] EXCEPT
                                       !.tm = @ \cup {"pmax_restart"}])
           ELSE over
      ELSE done(IF type = "EOR" THEN DropStale(r) ELSE routes)

(* bgp_route_refresh_receive: refused, or the table is announced again.      *)
bgp_route_refresh_receive(w, p, ok, cap) ==
  IF cap /\ w.peer[p].status = "Established"
  THEN SendData(w, p)
  ELSE bgp_notify_send(w, p, ok)

(* bgp_capability_receive: refused, or the last common family is withdrawn.  *)
bgp_capability_receive(w, p, ok, cap) ==
  IF cap /\ w.peer[p].status = "Established"
  THEN EventAdd(w, p, "BGP_Stop")
  ELSE bgp_notify_send(w, p, ok)

(* bgp_read_packet on a connection that is gone.                             *)
ConnectionLost(w, p, e) ==
  LET r == w.peer[p]
      nsf == r.status = "Established" /\ r.mode
  IN  EventAdd(Put(w, p, [r EXCEPT !.wait = @ \/ nsf]), p, e)

ReadMsg(w, p, m, c) ==
  CASE m.type = "OPEN" -> bgp_open_receive(w, p, m, c.ok)
    [] m.type = "partial" -> w
    [] m.type = "closed" -> ConnectionLost(w, p, "TCP_connection_closed")
    [] m.type = "fatal" -> ConnectionLost(w, p, "TCP_fatal_error")
    [] m.type = "badheader" -> bgp_notify_send(w, p, c.ok)
    [] m.type = "KEEPALIVE" -> EventAdd(w, p, "Receive_KEEPALIVE_message")
    [] m.type = "NOTIFY" -> EventAdd(w, p, "Receive_NOTIFICATION_message")
    [] m.type = "REFRESH" -> bgp_route_refresh_receive(w, p, c.ok, c.alt)
    [] m.type = "CAPABILITY" -> bgp_capability_receive(w, p, c.ok, c.alt)
    [] OTHER -> bgp_update_receive(w, p, m.type, c.ok, c.alt)

(* A temporary peer is deleted after any read, whatever it brought.          *)
bgp_read(w, p, m, c) ==
  LET w1 == Put(w, p, [w.peer[p] EXCEPT !.rd = NoThread])
      w2 == ReadMsg(ReadOn(w1, p), p, m, c)
  IN  IF w.peer[p].fd = NoFd THEN w1
      ELSE IF p = Conf THEN w2 ELSE peer_delete(w2, p, c.ok)

(* bgp_write outside Connect.  res: everything queued was written, the       *)
(* socket would block, or it failed, as a write to descriptor -1 does.       *)
bgp_write(w, p, res) ==
  LET w1 == Put(w, p, [w.peer[p] EXCEPT !.wr = NoThread])
      stopped == bgp_timer_set(
                   bgp_fsm_change_status(bgp_stop(w1, p), p, "Idle"), p)
  IN  CASE w.peer[p].obuf = "none" -> w1
        [] w.peer[p].obuf # "none" /\ res = "block" -> WriteOn(w1, p)
        [] w.peer[p].obuf = "data" /\ res = "done" ->
             Put(w1, p, [w1.peer[p] EXCEPT !.obuf = "none"])
        [] OTHER -> stopped

-----------------------------------------------------------------------------
(* Actions.  Pending events are run before timers and I/O (thread_fetch).    *)

Quiet == \A p \in Peer : peer[p].ev = <<>>

(* A descriptor that is closed forgets what was said on it.                  *)
Becomes(w, said) ==
  /\ peer' = w.peer /\ open' = w.open /\ plist' = w.plist
  /\ greeted' = (greeted \cup said) \cap w.open

(* No queued event starts a connection or sends a NOTIFICATION.              *)
RunEvent(p) ==
  /\ peer[p].ev # <<>>
  /\ \E c \in [conn : {"error"}, ok : {TRUE}, alt : BOOLEAN] :
       Becomes(bgp_event(Put(World, p, [peer[p] EXCEPT !.ev = Tail(@)]), p,
                         Head(peer[p].ev), c), {})

TimerEvent ==
  [start |-> "BGP_Start", connect |-> "ConnectRetry_timer_expired",
   hold |-> "Hold_Timer_expired", keepalive |-> "KeepAlive_timer_expired"]

(* bgp_start_timer, bgp_connect_timer, bgp_holdtime_timer and                *)
(* bgp_keepalive_timer call bgp_event directly.                              *)
FsmTimerExpire(p, t) ==
  /\ Quiet /\ t \in peer[p].tm
  /\ \E c \in [conn : ConnectResult, ok : BOOLEAN, alt : {FALSE}] :
       Becomes(bgp_event(Put(World, p, [peer[p] EXCEPT
                                          !.tm = @ \ {t},
                                          !.init = @ /\ t # "start"]),
                         p, TimerEvent[t], c), {})

bgp_graceful_restart_timer_expire(p) ==
  /\ Quiet /\ "gr_restart" \in peer[p].tm
  /\ Becomes(Put(World, p, [peer[p] EXCEPT
                              !.tm = @ \ {"gr_restart", "gr_stale"},
                              !.wait = FALSE,
                              !.routes = DropStale(peer[p])]), {})

bgp_graceful_stale_timer_expire(p) ==
  /\ Quiet /\ "gr_stale" \in peer[p].tm
  /\ Becomes(Put(World, p, [peer[p] EXCEPT !.tm = @ \ {"gr_stale"},
                                           !.routes = DropStale(peer[p])]), {})

(* Reset by notification when up, by event otherwise.                        *)
ResetPeer(w, p, ok) ==
  IF w.peer[p].status = "Established" THEN bgp_notify_send(w, p, ok)
  ELSE EventAdd(w, p, "BGP_Stop")

peer_clear(w, p, ok) ==
  IF w.peer[p].shut THEN w
  ELSE IF w.peer[p].over
  THEN EventAdd(Put(w, p, [w.peer[p] EXCEPT !.over = FALSE,
                                            !.tm = @ \ {"pmax_restart"}]),
                p, "BGP_Start")
  ELSE ResetPeer(IF w.peer[p].wait THEN peer_nsf_stop(w, p) ELSE w, p, ok)

bgp_maximum_prefix_restart_timer(p) ==
  /\ Quiet /\ "pmax_restart" \in peer[p].tm
  /\ \E ok \in BOOLEAN :
       Becomes(peer_clear(Put(World, p, [peer[p] EXCEPT
                                           !.tm = @ \ {"pmax_restart"}]),
                          p, ok), {})

(* What the neighbour may send on a descriptor.  An orderly neighbour sends  *)
(* one OPEN and sends it before any other message (external).                *)
MaySend(f, m) ==
  \/ ~Orderly
  \/ m.type \in {"partial", "closed", "fatal", "badheader"}
  \/ (m.type = "OPEN") = (f \notin greeted)

(* A read while the connection is being made.                                *)
ConnectRead(p) ==
  /\ Quiet /\ peer[p].rd # NoThread /\ peer[p].status = "Connect"
  /\ \E c \in ConnectResult : Becomes(bgp_connect_check(World, p, c), {})

Read(p) ==
  /\ Quiet /\ peer[p].rd # NoThread /\ peer[p].status # "Connect"
  /\ \E m \in OpenMsg \cup [type : OtherMsg],
        c \in [conn : {"error"}, ok : BOOLEAN, alt : BOOLEAN] :
       /\ MaySend(peer[p].fd, m)
       /\ Becomes(bgp_read(World, p, m, c),
                  IF m.type = "OPEN" THEN {peer[p].fd} ELSE {})

ConnectWrite(p) ==
  /\ Quiet /\ peer[p].wr # NoThread /\ peer[p].status = "Connect"
  /\ \E c \in ConnectResult : Becomes(bgp_connect_check(World, p, c), {})

Write(p) ==
  /\ Quiet /\ peer[p].wr # NoThread /\ peer[p].status # "Connect"
  /\ \E res \in {"done", "block", "error"} :
       /\ peer[p].fd = NoFd => res = "error"
       /\ Becomes(bgp_write(World, p, res), {})

(* bgp_routeadv_timer: runs in Established, wakes up the writer.             *)
bgp_routeadv_timer(p) ==
  /\ Quiet /\ peer[p].status = "Established"
  /\ Becomes(SendData(World, p), {})

(* A connection from the neighbour's address.  One that finds the configured *)
(* peer missing or Idle is closed again and changes nothing.                 *)
bgp_accept(p) ==
  /\ Quiet /\ p \in Accept /\ ~Live(plist, p)
  /\ Live(plist, Conf) /\ peer[Conf].status # "Idle"
  /\ \E f \in Fd \ open :
       /\ f = CHOOSE x \in Fd \ open : TRUE
       /\ peer' = [peer EXCEPT ![p] =
                     [peer_new EXCEPT !.fd = f, !.status = "Active",
                                      !.ev = <<"TCP_connection_open">>]]
       /\ open' = open \cup {f}
       /\ plist' = <<p>> \o plist
       /\ UNCHANGED greeted

-----------------------------------------------------------------------------
(* Operator commands.                                                        *)

(* neighbor A shutdown: peer_flag_modify and peer_flag_modify_action.        *)
shutdown ==
  /\ "shutdown" \in AdminOps /\ Quiet
  /\ Live(plist, Conf) /\ ~peer[Conf].shut
  /\ EarlyShutdown \/ ~peer[Conf].init
  /\ \E ok \in BOOLEAN :
       LET w1 == IF peer[Conf].wait THEN peer_nsf_stop(World, Conf) ELSE World
           w2 == Put(w1, Conf, [w1.peer[Conf] EXCEPT
                                  !.shut = TRUE, !.over = FALSE,
                                  !.tm = @ \ {"pmax_restart"}])
       IN  Becomes(ResetPeer(w2, Conf, ok), {})

no_shutdown ==
  /\ "no_shutdown" \in AdminOps /\ Quiet
  /\ Live(plist, Conf) /\ peer[Conf].shut
  /\ Becomes(EventAdd(Put(World, Conf, [peer[Conf] EXCEPT !.shut = FALSE]),
                      Conf, "BGP_Start"), {})

clear ==
  /\ "clear" \in AdminOps /\ Quiet /\ Live(plist, Conf)
  /\ \E ok \in BOOLEAN : Becomes(peer_clear(World, Conf, ok), {})

delete ==
  /\ "delete" \in AdminOps /\ Quiet /\ Live(plist, Conf)
  /\ \E ok \in BOOLEAN : Becomes(peer_delete(World, Conf, ok), {})

peer_create ==
  [peer_new EXCEPT !.hold = ConfHold, !.init = TRUE, !.tm = {"start"}]

create ==
  /\ "create" \in AdminOps /\ Quiet /\ ~Live(plist, Conf)
  /\ Becomes([Put(World, Conf, peer_create) EXCEPT !.plist = Append(@, Conf)],
             {})

-----------------------------------------------------------------------------
Init ==
  /\ peer = [p \in Peer |-> IF p = Conf THEN peer_create ELSE peer_new]
  /\ open = {}
  /\ plist = <<Conf>>
  /\ greeted = {}

Handler(p) ==
  /\ Live(plist, p)
  /\ \/ RunEvent(p)
     \/ \E t \in FsmTimer : FsmTimerExpire(p, t)
     \/ bgp_graceful_restart_timer_expire(p)
     \/ bgp_graceful_stale_timer_expire(p)
     \/ bgp_maximum_prefix_restart_timer(p)
     \/ ConnectRead(p) \/ Read(p) \/ ConnectWrite(p) \/ Write(p)
     \/ bgp_routeadv_timer(p)

Operator == shutdown \/ no_shutdown \/ clear \/ delete \/ create

Next == (\E p \in Peer : Handler(p) \/ bgp_accept(p)) \/ Operator

Spec == Init /\ [][Next]_vars

-----------------------------------------------------------------------------
(* Properties.                                                               *)

PeerType ==
  [status : Status, fd : Fd \cup {NoFd}, rd : Fd \cup {NoThread},
   wr : Fd \cup {NoThread}, tm : SUBSET (FsmTimer \cup SideTimer),
   ev : Seq(Event), obuf : {"none", "data", "notify"}, hold : Nat, rid : Nat,
   init : BOOLEAN, shut : BOOLEAN, over : BOOLEAN,
   gr : BOOLEAN, mode : BOOLEAN, wait : BOOLEAN, nsf : BOOLEAN,
   routes : SUBSET {"fresh", "stale"}]

(* Types; a registered reader or writer always watches a real descriptor.    *)
TypeOK ==
  /\ peer \in [Peer -> PeerType]
  /\ open \subseteq Fd
  /\ plist \in Seq(Peer)
  /\ greeted \subseteq Fd

(* thread_fetch gives select() every descriptor with a registered reader or  *)
(* writer, and a select() error ends bgpd's main loop: no handler may close  *)
(* a descriptor another handler still watches, and no two peer structures    *)
(* may hold the same descriptor (the hand-over in bgp_open_receive).         *)
SelectSafe ==
  /\ \A p \in Peer : {peer[p].fd, peer[p].rd, peer[p].wr}
                        \subseteq open \cup {NoFd, NoThread}
  /\ \A p, q \in Peer : p # q =>
       {peer[p].fd, peer[p].rd, peer[p].wr}
         \cap {peer[q].fd, peer[q].rd, peer[q].wr} \subseteq {NoFd, NoThread}

(* A session that is up or coming up is listened to: t_read watches the      *)
(* peer's descriptor, whichever side opened the connection.                  *)
ReaderAlive ==
  \A p \in Peer : peer[p].status \in InSession =>
    /\ peer[p].fd # NoFd
    /\ peer[p].rd = peer[p].fd

(* Between handlers the timers that run are the ones bgp_timer_set wants for *)
(* the status: no exit path of a handler forgets to arm the hold, keepalive  *)
(* or start timer, and none leaves one behind.                               *)
TimersMatchStatus ==
  Quiet => \A p \in Peer : Live(plist, p) =>
             peer[p].tm \cap FsmTimer = TimersOf(peer[p], p)

(* Only one structure has queued events at a time: a handler that stops      *)
(* another peer does so directly (bgp_write_notify), never through an event  *)
(* that would run later.  It makes one queue per peer exact.                 *)
OneQueue ==
  \A p, q \in Peer : peer[p].ev # <<>> /\ peer[q].ev # <<>> => p = q

(* A session past OpenSent has a remote identifier, and not our own.         *)
IdentityKnown ==
  \A p \in Peer : peer[p].status \in {"OpenConfirm", "Established"} =>
                    peer[p].rid \notin {0, LocalId}

(* With an orderly neighbour no descriptor leaks: what is open is held by a  *)
(* structure of the list, and a structure that went Idle holds none.         *)
NoDescriptorLeak ==
  /\ open \subseteq {peer[p].fd : p \in {q \in Peer : Live(plist, q)}}
  /\ \A p \in Peer : peer[p].status = "Idle" => peer[p].fd = NoFd

(* Routes do not outlive the session: fresh ones exist only while it is up,  *)
(* and stale ones only while a graceful restart timer runs that will remove  *)
(* them.                                                                     *)
RoutesFollowSession ==
  \A p \in Peer :
    /\ "fresh" \in peer[p].routes => peer[p].status = "Established"
    /\ "stale" \in peer[p].routes =>
         peer[p].tm \cap {"gr_restart", "gr_stale"} # {}

(* Once the commands' events have run, a neighbor that is shut down is Idle: *)
(* doc/bgpd.texi: "want to drop the BGP peer, use this syntax".              *)
ShutIsDown == Quiet /\ peer[Conf].shut => peer[Conf].status = "Idle"

(* peer_delete leaves nothing that would run later on the freed structure    *)
(* (its comment: an event "is executed after peer structure is deleted").    *)
DeletedIsDetached ==
  \A p \in Peer : ~Live(plist, p) =>
    /\ peer[p].rd = NoThread /\ peer[p].wr = NoThread
    /\ peer[p].ev = <<>> /\ peer[p].tm = {}

(* Collision, local identifier not smaller: "the local system closes newly   *)
(* created BGP connection ... and continues to use the existing one".        *)
NewcomerYields ==
  [][(\A m \in OpenMsg : m.id <= LocalId) =>
       \A p \in Accept, q \in Peer :
         /\ p # q /\ Live(plist, p) /\ ~Live(plist', p)
         /\ peer[q].status \in {"OpenSent", "OpenConfirm"}
         => peer'[q].fd = peer[q].fd]_vars

(* Only a peer that had confirmed the neighbour's OPEN becomes Established,  *)
(* and a session that is up never moves to another connection in one step    *)
(* without its routes being withdrawn or marked stale.                       *)
UpOnlyFromConfirm ==
  [][/\ \A p \in Peer :
          /\ peer'[p].status = "Established"
          /\ peer[p].status # "Established"
          => peer[p].status = "OpenConfirm" /\ peer'[p].fd = peer[p].fd
     /\ \A p \in Peer :
          /\ peer[p].status = "Established" /\ peer'[p].fd # peer[p].fd
          => "fresh" \notin peer'[p].routes]_vars

-----------------------------------------------------------------------------
(* The abstract sessions: a status is a phase, the descriptor is the         *)
(* connection, and the operator's state is the shutdown flag and the stop    *)
(* event that peer_flag_modify_action queued for it.                         *)

PhaseOf(st) ==
  CASE st = "Idle" -> "idle"
    [] st \in {"Connect", "Active"} -> "trying"
    [] st = "OpenSent" -> "opening"
    [] st = "OpenConfirm" -> "confirmed"
    [] OTHER -> "up"

Admin(r) ==
  IF ~r.shut THEN "on" ELSE IF r.ev = <<"BGP_Stop">> THEN "closing" ELSE "off"

Session == INSTANCE BgpSession WITH
  phase <- [p \in Peer |-> PhaseOf(peer[p].status)],
  conn <- [p \in Peer |-> peer[p].fd],
  routes <- [p \in Peer |-> peer[p].routes],
  admin <- Admin(peer[Conf]), None <- NoFd

(* bgpd keeps the promise of BgpSession: sessions come up one stage at a     *)
(* time, a collision moves a session to another connection from its start,   *)
(* and a shutdown takes the session down before anything else happens and    *)
(* keeps it down (bgp_fsm.c, bgp_open_receive, peer_flag_modify_action).     *)
SessionPromise == Session!Spec

-----------------------------------------------------------------------------
(* Liveness, for a peer that opens its connection itself.  Events run before *)
(* anything else, and thread_fetch runs an expired timer before it looks at  *)
(* any descriptor, so neither can be put off for ever.  In Established the   *)
(* neighbour's messages may put off the hold timer: nothing is assumed there.*)
Fairness ==
  /\ WF_vars(RunEvent(Conf))
  /\ \A t \in FsmTimer :
       SF_vars(peer[Conf].status # "Established" /\ FsmTimerExpire(Conf, t))

FairSpec == Spec /\ Fairness

(* The hold timer ends a handshake the neighbour does not finish, unless the *)
(* neighbour negotiated hold time zero, which turns the timer off.           *)
HandshakeEnds ==
  peer[Conf].status \in {"OpenSent", "OpenConfirm"} ~>
    \/ peer[Conf].status \in {"Idle", "Active", "Established"}
    \/ peer[Conf].hold = 0

(* A peer that is down and not held down by the operator or by the prefix    *)
(* limit tries again.                                                        *)
DownRetries ==
  peer[Conf].status = "Idle" ~>
    \/ peer[Conf].status = "Active"
    \/ peer[Conf].shut \/ peer[Conf].over
=====================
