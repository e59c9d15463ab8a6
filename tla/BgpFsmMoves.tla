---------------------------- MODULE BgpFsmMoves -----------------------------
(* What the operations of BgpFsm do to a structure, field by field, and the  *)
(* moves that a step of bgpd can make (Moved). BgpFsmHandlers proves that    *)
(* every step is one of these moves, BgpFsmInvariants what moves preserve.   *)
EXTENDS BgpFsm

(* The fields of a peer structure.                                           *)
Field == {"status", "fd", "rd", "wr", "tm", "ev", "obuf", "hold", "rid", "init",
          "shut", "over", "gr", "mode", "wait", "nsf", "routes"}

(* s differs from r in the fields F at most.                                 *)
Only(r, s, F) == \A f \in Field \ F : s[f] = r[f]

(* After bgp_timer_set the timers of the state machine are the ones the      *)
(* status asks for, and the others are as before.                            *)
Timed(r, p) == r.tm \cap FsmTimer = TimersOf(r, p)

(* The timers of the graceful restart, which bgp_stop may start.             *)
GrTimer == {"gr_restart", "gr_stale"}

(* What bgp_stop makes of a structure that is past its first start.          *)
StoppedTm(r) ==
  IF r.status # "Established" THEN r.tm \cap SideTimer
  ELSE IF r.wait THEN (r.tm \cap SideTimer) \cup GrTimer
  ELSE (r.tm \cap SideTimer) \ {"gr_stale"}

Rested(r, s) ==
  /\ s.fd = NoFd /\ s.rd = NoThread /\ s.wr = NoThread /\ s.ev = <<>>
  /\ s.hold = ConfHold /\ s.rid = 0 /\ s.gr = FALSE
  /\ s.init = r.init /\ s.shut = r.shut /\ s.over = r.over /\ s.wait = r.wait
  /\ s.routes = IF r.status = "Established"
                THEN IF r.wait /\ r.nsf /\ "fresh" \in r.routes
                     THEN {"stale"} ELSE {}
                ELSE r.routes
  /\ s.nsf = IF r.status = "Established" THEN r.nsf /\ r.wait ELSE r.nsf

(* The structure is what peer_delete leaves behind.                          *)
Gone(r, s) ==
  /\ s.tm = {} /\ s.shut = r.shut /\ s.init = r.init /\ ~s.wait
  /\ ~r.init => /\ s.status = "Idle" /\ s.fd = NoFd /\ s.ev = <<>>
                /\ s.rd = NoThread /\ s.wr = NoThread
                /\ s.routes = IF r.wait \/ r.status = "Established" THEN {}
                              ELSE r.routes
  /\ r.init => /\ s.fd = r.fd /\ s.rd = r.rd /\ s.ev = r.ev /\ s.rid = r.rid
               /\ s.wr \in {r.wr, NoThread}
               /\ s.routes = IF r.wait THEN {} ELSE r.routes
               /\ \/ s.status = "Idle"
                  \/ s.status = "Established" /\ r.status = "Established"

(* The functions of the FSM table: what each makes of the structure r.       *)
Side(r) == r.tm \cap SideTimer

Stops == {"bgp_stop", "bgp_stop_with_error", "bgp_connect_fail",
          "bgp_fsm_holdtime_expire"}

Dials == {"bgp_start", "bgp_reconnect"}

Halted(r, s) ==
  /\ r.init => /\ Only(r, s, {"obuf", "wr", "status", "tm"})
               /\ Side(s) = Side(r) /\ s.wr \in {r.wr, NoThread}
  /\ ~r.init => Rested(r, s) /\ Side(s) = StoppedTm(r)

Dialed(r, s) ==
  /\ s.init = r.init /\ s.shut = r.shut /\ s.over = r.over /\ s.wait = r.wait
  /\ r.status # "Established" => s.nsf = r.nsf /\ s.routes = r.routes
  /\ r.status # "Established" => Side(s) = Side(r)
  /\ \/ s.ev = <<>> \/ s.ev = <<"TCP_connection_open">>
     \/ s.ev = <<"TCP_connection_open_failed">>

Raised(r, s) ==
  /\ s.init = r.init /\ s.shut = r.shut /\ s.over = r.over /\ s.rid = r.rid
  /\ s.ev = r.ev /\ s.fd = r.fd /\ s.rd = r.rd /\ ~s.wait
  /\ s.routes \subseteq r.routes
  /\ "stale" \in s.routes => ~r.nsf \/ r.gr
  /\ r.gr => s.nsf
  /\ r.gr /\ "gr_stale" \in r.tm => "gr_stale" \in s.tm

Kept(r, s) ==
  /\ Only(r, s, {"rd", "wr", "obuf", "status", "tm"}) /\ Side(s) = Side(r)

Called(func, r, s) ==
  /\ func \in Stops => Halted(r, s)
  /\ func \in Dials => Dialed(r, s)
  /\ func = "bgp_establish" => Raised(r, s)
  /\ func \notin Stops \cup Dials \cup {"bgp_establish"} => Kept(r, s)
  /\ func \notin Stops \cup Dials \cup {"bgp_connect_success"} => s.rd = r.rd

(* The structure is deleted, perhaps after a NOTIFICATION.                   *)
Removed(r, s) ==
  /\ s.tm = {} /\ s.shut = r.shut /\ ~s.init /\ ~s.wait
  /\ s.status = "Idle" /\ s.fd = NoFd /\ s.ev = <<>>
  /\ s.rd = NoThread /\ s.wr = NoThread
  /\ s.routes \subseteq r.routes
  /\ r.status = "Established" \/ r.wait => s.routes = {}

(* The neighbour's identifier is known and is not our own.                   *)
Known(r) == r.rid # 0 /\ r.rid # LocalId

(* The session is over: the structure went Idle through bgp_stop.            *)
Down(r, s, p) ==
  /\ s.fd = NoFd /\ s.rd = NoThread /\ s.wr = NoThread /\ s.ev = <<>>
  /\ s.init = r.init /\ s.shut = r.shut /\ s.wait = r.wait
  /\ s.routes = IF r.status = "Established"
                THEN IF r.wait /\ r.nsf /\ "fresh" \in r.routes
                     THEN {"stale"} ELSE {}
                ELSE r.routes
  /\ s.nsf = IF r.status = "Established" THEN r.nsf /\ r.wait ELSE r.nsf
  /\ s.status = "Idle" /\ StoppedTm(r) \subseteq s.tm /\ Timed(s, p)
  /\ r.status # "Established" => s.tm \cap SideTimer = StoppedTm(r)

(* A NOTIFICATION was sent.                                                  *)
Noted(r, s, p) ==
  /\ ~r.init => Down(r, s, p)
  /\ r.init => /\ Only(r, s, {"rd", "obuf", "wr", "status", "tm", "rid", "hold",
                              "gr", "over"})
               /\ s.rid = r.rid \/ Known(s)
               /\ \/ s.status = "Idle"
                  \/ s.status = "Established" /\ r.status = "Established"
               /\ Timed(s, p)

(* An event was queued by the handler of a message.                          *)
ReadEvent == {"TCP_connection_closed", "TCP_fatal_error", "BGP_Stop",
              "Receive_OPEN_message", "Receive_KEEPALIVE_message",
              "Receive_UPDATE_message", "Receive_NOTIFICATION_message"}

Queued(r, s) ==
  /\ Only(r, s, {"rd", "rid", "hold", "gr", "ev", "wait", "routes"})
  /\ \E e \in ReadEvent :
       /\ s.ev = <<e>>
       /\ e = "Receive_OPEN_message" => Known(s)
       /\ e # "Receive_OPEN_message" => s.rid = r.rid
       /\ e = "BGP_Stop" => r.status = "Established"
  /\ r.wait => s.wait
  /\ s.routes \subseteq r.routes \cup {"fresh"}
  /\ r.status # "Established" => s.routes = r.routes

Touched(r, s) == Only(r, s, {"rd", "wr", "obuf"})

Handled(r, s, p) == Touched(r, s) \/ Noted(r, s, p) \/ Queued(r, s)

(* What becomes of the routes when a session does not stay Established.      *)
Survive(r, s) ==
  /\ r.status = "Established" =>
       /\ s.routes \subseteq {"stale"}
       /\ "stale" \in s.routes => s.nsf /\ s.wait /\ "gr_stale" \in s.tm
  /\ r.status # "Established" =>
       /\ s.routes \subseteq r.routes
       /\ "stale" \in s.routes => /\ r.nsf => s.nsf
                                  /\ r.wait => s.wait
                                  /\ "gr_stale" \in r.tm => "gr_stale" \in s.tm

(* The connection on descriptor f was handed to the configured peer.         *)
TakenOver(r, s, f) ==
  /\ s.init = r.init /\ s.shut = r.shut
  /\ \/ /\ s.status = "Idle" /\ s.ev = <<>> /\ Timed(s, Conf)
        /\ ~r.init => s.fd = NoFd
     \/ /\ s.status = "OpenSent" /\ s.fd = f
        /\ s.ev = <<"Receive_OPEN_message">> /\ Known(s)
  /\ ~r.init => Survive(r, s)

Busy(w, p) ==
  \/ w.peer[Conf].status \in {"Active", "OpenSent", "OpenConfirm", "Established"}
  \/ \E q \in Accept \ {p} : Live(w.plist, q)

Beside(w, v, q) ==
  \/ v.peer[q] = w.peer[q]
  \/ /\ Live(w.plist, q) /\ w.peer[q].status \in {"OpenSent", "OpenConfirm"}
     /\ Noted(w.peer[q], v.peer[q], q)

(* A temporary peer is gone after its read.                                  *)
Finished(w, v, p) ==
  /\ v.plist = listnode_delete(w.plist, p)
  /\ Removed(w.peer[p], v.peer[p])
  /\ \A q \in Peer \ {p, Conf} : Beside(w, v, q)
  /\ \/ Beside(w, v, Conf)
     \/ /\ Live(w.plist, Conf) /\ Busy(w, p)
        /\ TakenOver(w.peer[Conf], v.peer[Conf], w.peer[p].fd)

(* bgp_connect_check.                                                        *)
Checked(r, s) ==
  /\ Only(r, s, {"rd", "wr", "ev"})
  /\ \E e \in {"TCP_connection_open", "TCP_connection_open_failed",
               "TCP_fatal_error"} : s.ev = <<e>>

(* bgp_write.                                                                *)
Written(r, s, p) == Only(r, s, {"wr", "obuf"}) \/ Noted(r, s, p)

(* A reset by the operator.                                                  *)
Reset(r, s, p) ==
  \/ r.status = "Established" /\ Noted(r, s, p)
  \/ /\ r.status # "Established"
     /\ Only(r, s, {"ev"}) /\ s.ev = <<"BGP_Stop">>

(* The routes kept for a restarting neighbour are given up.                  *)
NsfOff(r, s) ==
  \/ s = r /\ ~r.wait
  \/ /\ Only(r, s, {"wait", "mode", "nsf", "routes", "tm"}) /\ r.wait
     /\ s.routes = {} /\ ~s.wait /\ ~s.nsf /\ s.tm = r.tm \ GrTimer

(* clear ip bgp, and the restart after a prefix overflow.                    *)
Cleared(r, s, p) ==
  \/ s = r
  \/ /\ ~r.shut /\ r.over /\ Only(r, s, {"over", "tm", "ev"})
     /\ s.ev = <<"BGP_Start">> /\ ~s.over /\ s.tm = r.tm \ {"pmax_restart"}
  \/ /\ ~r.shut /\ ~r.over
     /\ \E t \in PeerType : NsfOff(r, t) /\ Reset(t, s, p)

(* The events a handler may leave in a queue.                                *)
QueueEvent == Event \ {"ConnectRetry_timer_expired", "Hold_Timer_expired",
                       "KeepAlive_timer_expired"}

(* At most one event waits.                                                  *)
Queue(r) == r.ev = <<>> \/ \E e \in QueueEvent : r.ev = <<e>>

(* An event of the table: one that was queued, or a timer that expires.      *)
Taken(r, t, e) ==
  \/ e \in QueueEvent /\ r.ev = <<e>> /\ t.ev = <<>> /\ Only(r, t, {"ev"})
  \/ \E i \in FsmTimer :
       /\ r.ev = <<>> /\ i \in r.tm /\ e = TimerEvent[i]
       /\ Only(r, t, {"tm", "init"}) /\ t.tm = r.tm \ {i}
       /\ t.init = (r.init /\ i # "start")

Fired(t, s, e) ==
  LET entry == FSM[t.status][e]
  IN  \/ entry[1] = "bgp_connect_success" /\ t.fd = NoFd /\ s = t
      \/ Called(entry[1], t, s) /\ s.status = entry[2] /\ Timed(s, Conf)

(* A graceful restart timer: the stale routes go.                            *)
Expired(r, s) ==
  /\ Only(r, s, {"tm", "wait", "routes"}) /\ s.routes = DropStale(r)
  /\ r.tm \cap GrTimer # {}
  /\ s.tm \cup GrTimer = r.tm \cup GrTimer

(* neighbor A shutdown, and its withdrawal.                                  *)
Disabled(r, s) ==
  \E t, u \in PeerType :
    /\ NsfOff(r, t) /\ Only(t, u, {"shut", "over", "tm"})
    /\ u.shut /\ ~u.over /\ u.tm = t.tm \ {"pmax_restart"}
    /\ Reset(u, s, Conf)

Enabled(r, s) ==
  r.shut /\ Only(r, s, {"shut", "ev"}) /\ ~s.shut /\ s.ev = <<"BGP_Start">>

(* A temporary peer, from bgp_accept to peer_delete.                         *)
Guest(r, p) ==
  /\ r.status \in {"Idle", "Active", "OpenSent"}
  /\ r.ev = <<>> \/ r.ev = <<"TCP_connection_open">>
  /\ r.status = "Active" <=> r.ev # <<>>
  /\ r.status = "Active" => r.fd # NoFd
  /\ r.rd # NoThread => r.status = "OpenSent"
  /\ ~r.shut /\ ~r.init /\ ~r.wait /\ r.routes = {}
  /\ r.tm \subseteq {"hold"}
  /\ r.ev = <<>> => Timed(r, p)

(* The connection is up, or the hold timer expired.                          *)
GuestFired(r, s, p) ==
  \E t \in PeerType :
    \/ /\ r.ev = <<"TCP_connection_open">> /\ t.ev = <<>> /\ Only(r, t, {"ev"})
       /\ Called("bgp_connect_success", t, s) /\ s.status = "OpenSent"
       /\ Timed(s, p)
    \/ /\ r.ev = <<>> /\ r.status = "OpenSent" /\ Only(r, t, {"tm", "init"})
       /\ t.tm = r.tm \ {"hold"} /\ ~t.init
       /\ Called("bgp_fsm_holdtime_expire", t, s) /\ s.status = "Idle"
       /\ Timed(s, p)

(* A step that changes the structure p and nothing else.                     *)
Others(p) == \A q \in Peer \ {p} : peer'[q] = peer[q]

Alone(p) == plist' = plist /\ Others(p)

Restarting(r, t) ==
  /\ "pmax_restart" \in r.tm /\ Only(r, t, {"tm"})
  /\ t.tm = r.tm \ {"pmax_restart"}

(* What a step that concerns the configured peer alone may do to it.         *)
ConfMove(r, s) ==
  \/ \E t \in PeerType, e \in Event : Taken(r, t, e) /\ Fired(t, s, e)
  \/ r.ev = <<>> /\ Expired(r, s)
  \/ r.ev = <<>> /\ \E t \in PeerType : Restarting(r, t) /\ Cleared(t, s, Conf)
  \/ r.ev = <<>> /\ Cleared(r, s, Conf)
  \/ r.ev = <<>> /\ r.status = "Connect" /\ Checked(r, s)
  \/ /\ r.ev = <<>>
     /\ r.wr # NoThread \/ r.status = "Established"
     /\ Written(r, s, Conf)
  \/ /\ r.ev = <<>>
     /\ EarlyShutdown \/ ~r.init
     /\ ~r.shut /\ Disabled(r, s)
  \/ r.ev = <<>> /\ Enabled(r, s)

GuestMove(r, s, p) == GuestFired(r, s, p) \/ (r.ev = <<>> /\ Written(r, s, p))

Due(p) == peer[p].ev # <<>> \/ Quiet

(* The moves: a step of the configured peer alone, of a temporary peer       *)
(* alone, a message the configured peer reads, the end of a temporary peer,  *)
(* bgp_accept, and the operator's deletion and creation of the neighbor.     *)
ConfSteps ==
  Live(plist, Conf) /\ Due(Conf) /\ Alone(Conf) /\ ConfMove(peer[Conf], peer'[Conf])

GuestSteps(p) ==
  Live(plist, p) /\ Due(p) /\ Alone(p) /\ GuestMove(peer[p], peer'[p], p)

Hears ==
  /\ Live(plist, Conf) /\ Quiet /\ peer[Conf].rd # NoThread
  /\ \E v : /\ v.peer = peer' /\ v.plist = plist' /\ plist' = plist
            /\ Handled(peer[Conf], peer'[Conf], Conf)
            /\ \A q \in Accept : Beside(World, v, q)

Finishes(p) ==
  /\ Live(plist, p) /\ Quiet /\ peer[p].status = "OpenSent"
  /\ \E v : v.peer = peer' /\ v.plist = plist' /\ Finished(World, v, p)

Deletes ==
  /\ Live(plist, Conf) /\ Quiet /\ Others(Conf)
  /\ plist' = listnode_delete(plist, Conf) /\ Gone(peer[Conf], peer'[Conf])

Creates ==
  /\ "create" \in AdminOps /\ ~Live(plist, Conf) /\ Quiet /\ Others(Conf)
  /\ plist' = Append(plist, Conf) /\ peer'[Conf] = peer_create

Moved ==
  \/ ConfSteps \/ Hears \/ Deletes \/ Creates
  \/ \E p \in Accept : GuestSteps(p) \/ Finishes(p) \/ bgp_accept(p)

=============================================================================
