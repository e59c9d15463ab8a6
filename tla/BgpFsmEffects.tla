--------------------------- MODULE BgpFsmEffects ----------------------------
(* What the functions of bgp_fsm.c and peer_delete, the parsing of a message *)
(* and the hand-over of a connection do to the structure they are given,     *)
(* field by field, and that they leave the other ones alone.                 *)
EXTENDS BgpFsmProofs, BgpFsmMoves

(* The prover of every step that does not name another one.                  *)
USE ZenonT(60)

(* v comes from w by changes to the structure p alone.                       *)
Turn(w, v, p) == From(w, v, p) /\ v.plist = w.plist

(* The fields of a peer record are the ones of PeerType.                     *)
LEMMA Fields ==
  ASSUME NEW r \in PeerType
  PROVE  DOMAIN r = Field
BY DEF PeerType, Field

(* Two changes to the same set of fields compose.                            *)
LEMMA OnlyTrans ==
  ASSUME NEW r, NEW s, NEW t, NEW F, NEW G, Only(r, s, F), Only(s, t, G)
  PROVE  Only(r, t, F \cup G)
BY DEF Only

(* Two stretches of a handler that leave the other peers alone compose.      *)
LEMMA TurnTrans ==
  ASSUME NEW w, NEW v, NEW u, NEW p, Turn(w, v, p), Turn(v, u, p)
  PROVE  Turn(w, u, p)
BY FromTrans DEF Turn

(* Doing nothing leaves the other peers alone.                               *)
LEMMA TurnRefl ==
  ASSUME NEW w, Good(w), NEW p
  PROVE  Turn(w, w, p)
BY DEF Turn, From

(* The peers of a world a handler leads to are well typed.                   *)
LEMMA TurnType ==
  ASSUME NEW w, NEW v, NEW p \in Peer, Turn(w, v, p)
  PROVE  Good(v) /\ v.peer[p] \in PeerType
BY PeerOf DEF Turn, From

(* What storing a record in one structure does to the world.                 *)
LEMMA PutIs ==
  ASSUME NEW w, Good(w), NEW p \in Peer, NEW r
  PROVE  Put(w, p, r).peer[p] = r /\ Put(w, p, r).plist = w.plist
<1>1. w \in WorldType
  BY DEF Good
<1> QED BY <1>1 DEF WorldType, Put

(* BGP_EVENT_ADD puts one event in an empty queue.                           *)
LEMMA EventAddTurn ==
  ASSUME NEW w, Good(w), NEW p \in Peer, NEW e \in Event
  PROVE  LET v == EventAdd(w, p, e)
         IN  /\ Turn(w, v, p)
             /\ Only(w.peer[p], v.peer[p], {"ev"})
             /\ w.peer[p].ev = <<>> => v.peer[p].ev = <<e>>
<1> DEFINE r == w.peer[p]
           s == [r EXCEPT !.ev = Append(@, e)]
<1>1. r \in PeerType
  BY PeerOf
<1>2. Only(r, s, {"ev"}) /\ s.ev = Append(r.ev, e)
  BY <1>1, Fields DEF Only, Field
<1>3. EventAdd(w, p, e) = Put(w, p, s)
  BY DEF EventAdd
<1> HIDE DEF s
<1>4. r.ev = <<>> => s.ev = <<e>>
  BY SMTT(120), <1>2
<1> QED BY SMTT(120), <1>2, <1>3, <1>4, EventAddSame, PutIs DEF Turn, Same

(* BGP_READ_ON changes the read thread only.                                 *)
LEMMA ReadOnTurn ==
  ASSUME NEW w, Good(w), NEW p \in Peer, w.peer[p].fd # NoFd
  PROVE  LET v == ReadOn(w, p)
         IN  Turn(w, v, p) /\ Only(w.peer[p], v.peer[p], {"rd"})
<1> DEFINE r == w.peer[p]
           s == [r EXCEPT !.rd = r.fd]
<1>1. r \in PeerType
  BY PeerOf
<1>2. Only(r, s, {"rd"}) /\ Only(r, r, {"rd"})
  BY <1>1, Fields DEF Only, Field
<1>3. ReadOn(w, p) \in {w, Put(w, p, s)}
  BY DEF ReadOn
<1> HIDE DEF s
<1> QED BY SMTT(120), <1>2, <1>3, ReadOnSame, PutIs DEF Turn, Same

(* BGP_WRITE_ON changes the write thread only.                               *)
LEMMA WriteOnTurn ==
  ASSUME NEW w, Good(w), NEW p \in Peer, w.peer[p].fd # NoFd
  PROVE  LET v == WriteOn(w, p)
         IN  Turn(w, v, p) /\ Only(w.peer[p], v.peer[p], {"wr"})
<1> DEFINE r == w.peer[p]
           s == [r EXCEPT !.wr = r.fd]
<1>1. r \in PeerType
  BY PeerOf
<1>2. Only(r, s, {"wr"}) /\ Only(r, r, {"wr"})
  BY <1>1, Fields DEF Only, Field
<1>3. WriteOn(w, p) \in {w, Put(w, p, s)}
  BY DEF WriteOn
<1> HIDE DEF s
<1> QED BY SMTT(120), <1>2, <1>3, WriteOnSame, PutIs DEF Turn, Same

(* Queueing a packet changes the buffer and the write thread.                *)
LEMMA SendTurn ==
  ASSUME NEW w, Good(w), NEW p \in Peer, w.peer[p].fd # NoFd
  PROVE  LET v == SendData(w, p)
         IN  Turn(w, v, p) /\ Only(w.peer[p], v.peer[p], {"obuf", "wr"})
<1> DEFINE r == w.peer[p]
           s == [r EXCEPT !.obuf = IF @ = "none" THEN "data" ELSE @]
           u == Put(w, p, s)
<1>1. r \in PeerType
  BY PeerOf
<1>2. Only(r, s, {"obuf"}) /\ s \in PeerType /\ s.fd = r.fd
  <2>1. Only(r, s, {"obuf"})
    BY <1>1, Fields DEF Only, Field
  <2>2. s \in PeerType /\ s.fd = r.fd
    BY <1>1 DEF PeerType
  <2> QED BY <2>1, <2>2
<1>3. SendData(w, p) = WriteOn(u, p)
  BY DEF SendData
<1>4. u.peer[p] = s /\ u.plist = w.plist
  BY SMTT(120), PutIs
<1>5. Good(u)
  <2>1. s.rd = r.rd /\ s.wr = r.wr /\ s.init = r.init /\ s.status = r.status
    BY <1>2 DEF Only, Field
  <2> HIDE DEF s
  <2>2. Same(w, u, p)
    BY <1>2, <2>1, PutSame
  <2> QED BY <2>2 DEF Same, From
<1> HIDE DEF s, u
<1>6. WriteOn(u, p).plist = u.plist /\ Only(u.peer[p], WriteOn(u, p).peer[p], {"wr"})
  BY <1>2, <1>4, <1>5, WriteOnTurn DEF Turn
<1>7. Only(r, WriteOn(u, p).peer[p], {"obuf"} \cup {"wr"})
  BY <1>2, <1>4, <1>6, OnlyTrans
<1>8. {"obuf"} \cup {"wr"} = {"obuf", "wr"}
  OBVIOUS
<1> QED BY <1>3, <1>4, <1>6, <1>7, <1>8, SendDataSame DEF Turn, Same

(* The timers a status calls for are timers of the machine.                  *)
LEMMA TimersOfType ==
  ASSUME NEW r \in PeerType, NEW p
  PROVE  TimersOf(r, p) \subseteq FsmTimer
BY DEF TimersOf, FsmTimer

(* They depend on no field that the handlers change besides these.           *)
LEMMA SameTimersOf ==
  ASSUME NEW r \in PeerType, NEW s, NEW p, s.status = r.status, s.shut = r.shut,
         s.over = r.over, s.hold = r.hold
  PROVE  TimersOf(s, p) = TimersOf(r, p)
BY DEF TimersOf

(* After bgp_timer_set the running timers are those of the status.           *)
LEMMA TimerSetTurn ==
  ASSUME NEW w, Good(w), NEW p \in Peer
  PROVE  LET v == bgp_timer_set(w, p)
         IN  /\ Turn(w, v, p)
             /\ Only(w.peer[p], v.peer[p], {"tm"})
             /\ Timed(v.peer[p], p)
             /\ v.peer[p].tm \cap SideTimer = w.peer[p].tm \cap SideTimer
             /\ v.peer[p].tm = (w.peer[p].tm \cap SideTimer) \cup TimersOf(w.peer[p], p)
<1> DEFINE r == w.peer[p]
           x == (r.tm \cap SideTimer) \cup TimersOf(r, p)
           s == [r EXCEPT !.tm = x]
<1>1. r \in PeerType
  BY PeerOf
<1>2. Only(r, s, {"tm"}) /\ s.tm = x
  BY <1>1, Fields DEF Only, Field
<1>3. bgp_timer_set(w, p) = Put(w, p, s)
  BY DEF bgp_timer_set
<1>4. TimersOf(r, p) \subseteq FsmTimer
  BY <1>1, TimersOfType
<1>5. x \cap FsmTimer = TimersOf(r, p) /\ x \cap SideTimer = r.tm \cap SideTimer
  BY <1>4 DEF FsmTimer, SideTimer
<1> HIDE DEF s
<1>6. TimersOf(s, p) = TimersOf(r, p)
  BY SMTT(120), <1>1, <1>2, SameTimersOf DEF Only, Field
<1> QED BY SMTT(120), <1>2, <1>3, <1>5, <1>6, TimerSetSame, PutIs DEF Turn, Same, Timed

(* bgp_fsm_change_status changes the status and what hangs on it.            *)
LEMMA StatusTurn ==
  ASSUME NEW w, Good(w), NEW p \in Peer, NEW st \in Status
  PROVE  LET v == bgp_fsm_change_status(w, p, st)
         IN  /\ Turn(w, v, p)
             /\ Only(w.peer[p], v.peer[p], {"status"})
             /\ v.peer[p].status = st
<1> DEFINE r == w.peer[p]
           s == [r EXCEPT !.status = st]
<1>1. r \in PeerType
  BY PeerOf
<1>2. Only(r, s, {"status"}) /\ s.status = st
  BY <1>1, Fields DEF Only, Field
<1>3. bgp_fsm_change_status(w, p, st) = Put(w, p, s)
  BY DEF bgp_fsm_change_status
<1> HIDE DEF s
<1> QED BY SMTT(120), <1>2, <1>3, ChangeStatus, PutIs DEF Turn

Stopped(r, s) ==
  /\ Rested(r, s)
  /\ s.status = IF r.status = "Established" THEN "Idle" ELSE r.status
  /\ s.tm = StoppedTm(r)

(* The fields bgp_stop leaves when a session leaves Established.             *)
LEMMA LeaveFields ==
  ASSUME NEW r \in PeerType
  PROVE  LET s == LeaveEstablished(r)
         IN  /\ s \in PeerType
             /\ Only(r, s, {"status", "tm", "mode", "nsf", "routes"})
             /\ s.status = "Idle"
             /\ s.tm = IF r.wait THEN r.tm \cup GrTimer ELSE r.tm \ {"gr_stale"}
             /\ s.nsf = (r.nsf /\ r.wait)
             /\ s.routes = IF r.wait /\ r.nsf /\ "fresh" \in r.routes
                           THEN {"stale"} ELSE {}
<1> DEFINE tm == IF r.wait THEN r.tm \cup GrTimer ELSE r.tm \ {"gr_stale"}
           mode == r.mode /\ r.wait
           nsf == r.nsf /\ r.wait
           t == [r EXCEPT !.status = "Idle", !.tm = tm, !.mode = mode,
                          !.nsf = nsf]
           rt == bgp_clear_route_all(t)
           s == [t EXCEPT !.routes = rt]
           F == {"status", "tm", "mode", "nsf"}
<1>1. LeaveEstablished(r) = s
  BY DEF LeaveEstablished, GrTimer
<1>0. LeaveEstablished(r) \in PeerType
  BY LeaveType
<1> HIDE DEF tm, mode, nsf
<1>2. /\ Only(r, t, F) /\ DOMAIN t = Field
      /\ t.status = "Idle" /\ t.tm = tm /\ t.nsf = nsf
  BY Fields DEF Only, Field
<1> HIDE DEF t
<1>3. t.wait = r.wait /\ t.routes = r.routes
  BY <1>2 DEF Only, Field
<1>4. rt = IF r.wait /\ r.nsf /\ "fresh" \in r.routes THEN {"stale"} ELSE {}
  BY <1>2, <1>3 DEF bgp_clear_route_all, nsf
<1> HIDE DEF rt
<1>5. Only(t, s, {"routes"}) /\ s.routes = rt
  BY <1>2 DEF Only, Field
<1> HIDE DEF s
<1>6. Only(r, s, F \cup {"routes"})
  BY <1>2, <1>5, OnlyTrans
<1>7. F \cup {"routes"} = {"status", "tm", "mode", "nsf", "routes"}
  OBVIOUS
<1>8. s.status = "Idle" /\ s.tm = tm /\ s.nsf = nsf
  BY <1>2, <1>5 DEF Only, Field
<1> QED BY <1>0, <1>1, <1>4, <1>5, <1>6, <1>7, <1>8 DEF tm, nsf

(* What bgp_stop does to every field of its peer.                            *)
LEMMA StopTurn ==
  ASSUME NEW w, Good(w), NEW p \in Peer
  PROVE  LET v == bgp_stop(w, p)
         IN  /\ Turn(w, v, p)
             /\ w.peer[p].init => v = w
             /\ ~w.peer[p].init => Stopped(w.peer[p], v.peer[p])
<1> DEFINE r == w.peer[p]
           s == IF r.status = "Established" THEN LeaveEstablished(r) ELSE r
           t == [s EXCEPT !.rd = NoThread, !.wr = NoThread,
                          !.tm = @ \cap SideTimer, !.ev = <<>>,
                          !.obuf = "none", !.fd = NoFd, !.rid = 0,
                          !.gr = FALSE, !.hold = ConfHold]
           v == bgp_stop(w, p)
<1>1. r \in PeerType
  BY PeerOf
<1>2. CASE r.init
  <2>1. v = w
    BY <1>2 DEF bgp_stop
  <2> QED BY <1>2, <2>1, TurnRefl
<1>3. CASE ~r.init
  <2>1. v = Close(Put(w, p, t), r.fd)
    BY <1>3 DEF bgp_stop
  <2>2. /\ s \in PeerType
        /\ s.init = r.init /\ s.shut = r.shut /\ s.over = r.over
        /\ s.wait = r.wait
        /\ s.status = IF r.status = "Established" THEN "Idle" ELSE r.status
        /\ s.nsf = IF r.status = "Established" THEN r.nsf /\ r.wait ELSE r.nsf
        /\ s.routes = IF r.status = "Established"
                      THEN IF r.wait /\ r.nsf /\ "fresh" \in r.routes
                           THEN {"stale"} ELSE {}
                      ELSE r.routes
        /\ s.tm \cap SideTimer = StoppedTm(r)
    <3>1. CASE r.status = "Established"
      <4> DEFINE x == LeaveEstablished(r)
      <4>1. s = x
        BY <3>1
      <4>2. /\ x \in PeerType
            /\ Only(r, x, {"status", "tm", "mode", "nsf", "routes"})
            /\ x.status = "Idle"
            /\ x.tm = IF r.wait THEN r.tm \cup GrTimer ELSE r.tm \ {"gr_stale"}
            /\ x.nsf = (r.nsf /\ r.wait)
            /\ x.routes = IF r.wait /\ r.nsf /\ "fresh" \in r.routes
                          THEN {"stale"} ELSE {}
        BY <1>1, LeaveFields
      <4> HIDE DEF x
      <4>3. x.init = r.init /\ x.shut = r.shut /\ x.over = r.over /\ x.wait = r.wait
        BY <4>2 DEF Only, Field
      <4>4. x.tm \cap SideTimer = StoppedTm(r)
        BY <3>1, <4>2 DEF StoppedTm, SideTimer, GrTimer
      <4> HIDE DEF s
      <4> QED BY <3>1, <4>1, <4>2, <4>3, <4>4
    <3>2. CASE r.status # "Established"
      BY <1>1, <3>2 DEF StoppedTm
    <3> QED BY <3>1, <3>2
  <2> HIDE DEF s
  <2>3. /\ Only(s, t, {"rd", "wr", "tm", "ev", "obuf", "fd", "rid", "gr", "hold"})
        /\ t.rd = NoThread /\ t.wr = NoThread /\ t.ev = <<>> /\ t.fd = NoFd
        /\ t.rid = 0 /\ t.gr = FALSE /\ t.hold = ConfHold
        /\ t.tm = s.tm \cap SideTimer
    BY <2>2, Fields DEF Only, Field
  <2> HIDE DEF t
  <2>4. /\ t.init = s.init /\ t.shut = s.shut /\ t.over = s.over
        /\ t.wait = s.wait /\ t.status = s.status /\ t.nsf = s.nsf
        /\ t.routes = s.routes
    BY <2>3 DEF Only, Field
  <2>5. v.peer[p] = t /\ v.plist = w.plist
    <3>1. w \in WorldType
      BY DEF Good
    <3> HIDE DEF r, v
    <3> QED BY <2>1, <3>1 DEF WorldType, Put, Close
  <2>6. Stopped(r, t)
    BY <2>2, <2>3, <2>4 DEF Stopped, Rested
  <2> QED BY <1>3, <2>5, <2>6, StopFrom DEF Turn
<1> QED BY <1>2, <1>3

(* The structure went Idle by way of bgp_stop.                               *)
Ended(r, s, p) ==
  /\ Rested(r, s) /\ s.status = "Idle"
  /\ s.tm \cap SideTimer = StoppedTm(r) /\ Timed(s, p)

(* The timers that survive bgp_stop are side timers.                         *)
LEMMA StoppedTmSide ==
  ASSUME NEW r
  PROVE  StoppedTm(r) \cap SideTimer = StoppedTm(r)
BY DEF StoppedTm, SideTimer, GrTimer

(* bgp_stop followed by the change to Idle and the timers of Idle.           *)
LEMMA EndTurn ==
  ASSUME NEW w, Good(w), NEW p \in Peer, ~w.peer[p].init
  PROVE  LET u == bgp_stop(w, p)
             v == bgp_timer_set(bgp_fsm_change_status(u, p, "Idle"), p)
         IN  Turn(w, v, p) /\ Ended(w.peer[p], v.peer[p], p)
<1> DEFINE r == w.peer[p]
           u == bgp_stop(w, p)
           x == bgp_fsm_change_status(u, p, "Idle")
           v == bgp_timer_set(x, p)
<1>1. Turn(w, u, p) /\ Stopped(r, u.peer[p])
  BY StopTurn
<1>2. Good(u)
  BY <1>1, TurnType
<1> HIDE DEF u
<1>3. /\ Turn(u, x, p) /\ Only(u.peer[p], x.peer[p], {"status"})
      /\ x.peer[p].status = "Idle"
  BY <1>2, StatusTurn DEF Status
<1>4. Good(x)
  BY <1>3, TurnType
<1> HIDE DEF x
<1>5. /\ Turn(x, v, p) /\ Only(x.peer[p], v.peer[p], {"tm"})
      /\ Timed(v.peer[p], p)
      /\ v.peer[p].tm \cap SideTimer = x.peer[p].tm \cap SideTimer
  BY <1>4, TimerSetTurn
<1> HIDE DEF v
<1>6. Turn(w, v, p)
  BY <1>1, <1>3, <1>5, TurnTrans
<1>7. v.peer[p].status = "Idle" /\ x.peer[p].tm = u.peer[p].tm
  BY <1>3, <1>5 DEF Only, Field
<1>8. Only(u.peer[p], v.peer[p], {"status", "tm"})
  BY <1>3, <1>5, OnlyTrans DEF Only
<1>9. Rested(r, v.peer[p])
  BY <1>1, <1>8 DEF Rested, Stopped, Only, Field
<1>10. v.peer[p].tm \cap SideTimer = StoppedTm(r)
  BY <1>1, <1>5, <1>7, StoppedTmSide DEF Stopped
<1> QED BY <1>5, <1>6, <1>7, <1>9, <1>10 DEF Ended, v, x, u

(* A structure that waits for its first start is not stopped.                *)
Refused(r, s, p) ==
  /\ Only(r, s, {"obuf", "wr", "status", "tm"}) /\ s.wr = NoThread
  /\ s.status = "Idle" \/ (s.status = "Established" /\ r.status = "Established")
  /\ s.tm \cap SideTimer = r.tm \cap SideTimer /\ Timed(s, p)

(* What bgp_notify_send does to every field of its peer.                     *)
LEMMA NotifyTurn ==
  ASSUME NEW w, Good(w), NEW p \in Peer, NEW ok
  PROVE  LET v == bgp_notify_send(w, p, ok)
         IN  /\ Turn(w, v, p)
             /\ w.peer[p].init => Refused(w.peer[p], v.peer[p], p)
             /\ ~w.peer[p].init => Ended(w.peer[p], v.peer[p], p)
<1> DEFINE r == w.peer[p]
           s == [r EXCEPT !.obuf = "notify", !.wr = NoThread]
           w0 == Put(w, p, s)
           w1 == bgp_stop(w0, p)
           w2 == IF ok /\ r.status = "Established" THEN w1
                 ELSE bgp_fsm_change_status(w1, p, "Idle")
           v == bgp_timer_set(w2, p)
<1>1. r \in PeerType
  BY PeerOf
<1>2. /\ s \in PeerType /\ s.fd = r.fd /\ s.rd = r.rd /\ s.wr = NoThread
      /\ s.init = r.init /\ s.status = r.status
      /\ Only(r, s, {"obuf", "wr"})
  BY <1>1, Fields DEF PeerType, Only, Field
<1>3. bgp_notify_send(w, p, ok) = v
  BY DEF bgp_notify_send
<1> HIDE DEF s
<1>4. Turn(w, w0, p) /\ w0.peer[p] = s
  BY SMTT(120), <1>2, PutSame, PutIs DEF Turn, Same
<1>5. Good(w0)
  BY <1>4, TurnType
<1> HIDE DEF w0
<1>6. /\ Turn(w0, w1, p)
      /\ r.init => w1 = w0
      /\ ~r.init => Stopped(s, w1.peer[p])
  BY <1>2, <1>4, <1>5, StopTurn
<1>7. Good(w1)
  BY <1>6, TurnType
<1> HIDE DEF w1
<1>8. /\ Turn(w1, w2, p) /\ Only(w1.peer[p], w2.peer[p], {"status"})
      /\ \/ w2.peer[p].status = "Idle"
         \/ w2 = w1 /\ r.status = "Established"
  <2>1. CASE ok /\ r.status = "Established"
    BY <1>7, <2>1, TurnRefl DEF Only
  <2>2. CASE ~(ok /\ r.status = "Established")
    <3>1. w2 = bgp_fsm_change_status(w1, p, "Idle")
      BY <2>2
    <3> QED BY <1>7, <3>1, StatusTurn DEF Status
  <2> QED BY <2>1, <2>2
<1>9. Good(w2)
  BY <1>8, TurnType
<1> HIDE DEF w2
<1>10. /\ Turn(w2, v, p) /\ Only(w2.peer[p], v.peer[p], {"tm"})
       /\ Timed(v.peer[p], p)
       /\ v.peer[p].tm \cap SideTimer = w2.peer[p].tm \cap SideTimer
  BY <1>9, TimerSetTurn
<1> HIDE DEF v
<1>11. Turn(w, v, p)
  BY <1>4, <1>6, <1>8, <1>10, TurnTrans
<1>12. /\ v.peer[p].status = w2.peer[p].status /\ w2.peer[p].tm = w1.peer[p].tm
       /\ Only(w1.peer[p], v.peer[p], {"status", "tm"})
  BY <1>8, <1>10 DEF Only, Field
<1>13. CASE r.init
  <2>1. w1.peer[p] = s
    BY <1>4, <1>6, <1>13
  <2>2. Only(r, v.peer[p], {"obuf", "wr", "status", "tm"})
    BY <1>2, <1>12, <2>1 DEF Only
  <2>3. v.peer[p].wr = NoThread /\ s.tm = r.tm
    BY <1>2, <1>12, <2>1 DEF Only, Field
  <2>4. v.peer[p].status = "Idle" \/ (v.peer[p].status = "Established" /\ r.status = "Established")
    BY <1>2, <1>8, <1>12, <2>1
  <2>5. Refused(r, v.peer[p], p)
    BY <1>10, <1>12, <2>1, <2>2, <2>3, <2>4 DEF Refused
  <2> QED BY <1>3, <1>11, <1>13, <2>5
<1>14. CASE ~r.init
  <2>1. Stopped(s, w1.peer[p])
    BY <1>6, <1>14
  <2>2. /\ s.shut = r.shut /\ s.over = r.over /\ s.wait = r.wait
        /\ s.routes = r.routes /\ s.nsf = r.nsf /\ s.tm = r.tm
    BY <1>2 DEF Only, Field
  <2>3. Stopped(r, w1.peer[p])
    BY <1>2, <2>1, <2>2 DEF Stopped, Rested, StoppedTm
  <2>4. v.peer[p].status = "Idle"
    BY <1>8, <1>12, <2>3 DEF Stopped
  <2>5. Rested(r, v.peer[p])
    BY <1>12, <2>3 DEF Rested, Stopped, Only, Field
  <2>6. v.peer[p].tm \cap SideTimer = StoppedTm(r)
    BY <1>10, <1>12, <2>3, StoppedTmSide DEF Stopped
  <2>7. Ended(r, v.peer[p], p)
    BY <1>10, <2>4, <2>5, <2>6 DEF Ended
  <2> QED BY <1>3, <1>11, <1>14, <2>7
<1> QED BY <1>13, <1>14

(* peer_nsf_stop drops the stale routes and their timers.                    *)
LEMMA NsfStopTurn ==
  ASSUME NEW w, Good(w), NEW p \in Peer
  PROVE  LET v == peer_nsf_stop(w, p)
         IN  /\ Turn(w, v, p)
             /\ Only(w.peer[p], v.peer[p], {"wait", "mode", "nsf", "routes", "tm"})
             /\ v.peer[p].routes = {} /\ ~v.peer[p].wait /\ ~v.peer[p].nsf
             /\ v.peer[p].tm = w.peer[p].tm \ GrTimer
<1> DEFINE r == w.peer[p]
           s == [r EXCEPT !.wait = FALSE, !.mode = FALSE, !.nsf = FALSE,
                          !.routes = {}, !.tm = @ \ {"gr_restart", "gr_stale"}]
<1>1. r \in PeerType
  BY PeerOf
<1>2. /\ Only(r, s, {"wait", "mode", "nsf", "routes", "tm"})
      /\ s.routes = {} /\ ~s.wait /\ ~s.nsf
      /\ s.tm = r.tm \ GrTimer
  BY <1>1, Fields DEF Only, Field, GrTimer
<1>3. peer_nsf_stop(w, p) = Put(w, p, s)
  BY DEF peer_nsf_stop
<1> HIDE DEF s
<1> QED BY SMTT(120), <1>2, <1>3, NsfStopSame, PutIs DEF Turn, Same

(* What peer_delete does to the structure it frees.                          *)
LEMMA DeleteTurn ==
  ASSUME NEW w, Good(w), NEW p \in Peer, NEW ok
  PROVE  LET v == peer_delete(w, p, ok)
         IN  /\ From(w, v, p) /\ v.plist = listnode_delete(w.plist, p)
             /\ Gone(w.peer[p], v.peer[p])
<1> DEFINE r == w.peer[p]
           w1 == IF r.wait THEN peer_nsf_stop(w, p) ELSE w
           w2 == IF w1.peer[p].status = "Established"
                 THEN bgp_notify_send(w1, p, ok)
                 ELSE bgp_fsm_change_status(bgp_stop(w1, p), p, "Idle")
           s == [w2.peer[p] EXCEPT !.tm = {}]
           w3 == Put(w2, p, s)
           r1 == w1.peer[p]
           r2 == w2.peer[p]
<1>0. peer_delete(w, p, ok) = Unlist(w3, p)
  BY DEF peer_delete
<1>1. /\ Turn(w, w1, p)
      /\ r1.status = r.status /\ r1.fd = r.fd /\ r1.rd = r.rd /\ r1.wr = r.wr
      /\ r1.ev = r.ev /\ r1.init = r.init /\ r1.shut = r.shut /\ r1.rid = r.rid
      /\ ~r1.wait
      /\ r1.routes = IF r.wait THEN {} ELSE r.routes
  <2>1. CASE r.wait
    <3> DEFINE x == peer_nsf_stop(w, p)
    <3>1. /\ Turn(w, x, p)
          /\ Only(r, x.peer[p], {"wait", "mode", "nsf", "routes", "tm"})
          /\ x.peer[p].routes = {} /\ ~x.peer[p].wait
      BY NsfStopTurn
    <3>2. w1 = x
      BY <2>1
    <3> HIDE DEF x, w1
    <3> QED BY <2>1, <3>1, <3>2 DEF Only, Field
  <2>2. CASE ~r.wait
    <3>1. w1 = w
      BY <2>2
    <3> HIDE DEF w1
    <3> QED BY <2>2, <3>1, TurnRefl
  <2> QED BY <2>1, <2>2
<1>2. Good(w1)
  BY <1>1, TurnType
<1> HIDE DEF w1
<1>3. /\ Turn(w1, w2, p) /\ r2.shut = r1.shut /\ r2.init = r1.init
      /\ ~r2.wait
      /\ ~r1.init => /\ r2.status = "Idle" /\ r2.fd = NoFd /\ r2.ev = <<>>
                     /\ r2.rd = NoThread /\ r2.wr = NoThread
                     /\ r2.routes = IF r1.status = "Established" THEN {}
                                    ELSE r1.routes
      /\ r1.init => /\ r2.fd = r1.fd /\ r2.rd = r1.rd /\ r2.ev = r1.ev
                    /\ r2.rid = r1.rid
                    /\ r2.wr \in {r1.wr, NoThread} /\ r2.routes = r1.routes
                    /\ \/ r2.status = "Idle"
                       \/ r2.status = "Established" /\ r1.status = "Established"
  <2>1. CASE r1.status = "Established"
    <3> DEFINE x == bgp_notify_send(w1, p, ok)
    <3>1. /\ Turn(w1, x, p)
          /\ r1.init => Refused(r1, x.peer[p], p)
          /\ ~r1.init => Ended(r1, x.peer[p], p)
      BY <1>2, NotifyTurn
    <3>2. w2 = x
      BY <2>1
    <3> HIDE DEF x, w2, r1
    <3>3. CASE r1.init
      <4>1. Refused(r1, r2, p)
        BY <3>1, <3>2, <3>3
      <4> HIDE DEF r2
      <4>2. /\ r2.shut = r1.shut /\ r2.init = r1.init /\ r2.fd = r1.fd
            /\ r2.rd = r1.rd /\ r2.ev = r1.ev /\ r2.rid = r1.rid
            /\ r2.routes = r1.routes /\ r2.wait = r1.wait /\ r2.wr = NoThread
            /\ \/ r2.status = "Idle"
               \/ r2.status = "Established" /\ r1.status = "Established"
        BY <4>1 DEF Refused, Only, Field
      <4> QED BY <1>1, <3>1, <3>2, <3>3, <4>2
    <3>4. CASE ~r1.init
      BY <1>1, <2>1, <3>1, <3>2, <3>4 DEF Ended, Rested
    <3> QED BY <3>3, <3>4
  <2>2. CASE r1.status # "Established"
    <3> DEFINE u == bgp_stop(w1, p)
               x == bgp_fsm_change_status(u, p, "Idle")
    <3>1. /\ Turn(w1, u, p)
          /\ r1.init => u = w1
          /\ ~r1.init => Stopped(r1, u.peer[p])
      BY <1>2, StopTurn
    <3>2. Good(u)
      BY <3>1, TurnType
    <3>3. w2 = x
      BY <2>2
    <3> HIDE DEF u
    <3>4. /\ Turn(u, x, p) /\ Only(u.peer[p], x.peer[p], {"status"})
          /\ x.peer[p].status = "Idle"
      BY <3>2, StatusTurn DEF Status
    <3> HIDE DEF x, w2
    <3>5. Turn(w1, w2, p)
      BY <3>1, <3>3, <3>4, TurnTrans
    <3>6. CASE r1.init
      <4>1. Only(r1, r2, {"status"}) /\ r2.status = "Idle"
        BY <3>1, <3>3, <3>4, <3>6
      <4> HIDE DEF r2
      <4>2. /\ r2.shut = r1.shut /\ r2.init = r1.init /\ r2.fd = r1.fd
            /\ r2.rd = r1.rd /\ r2.ev = r1.ev /\ r2.rid = r1.rid
            /\ r2.routes = r1.routes /\ r2.wait = r1.wait /\ r2.wr = r1.wr
        BY <4>1 DEF Only, Field
      <4> QED BY <1>1, <3>5, <3>6, <4>1, <4>2
    <3>7. CASE ~r1.init
      BY <1>1, <2>2, <3>1, <3>3, <3>4, <3>5, <3>7 DEF Stopped, Rested, Only, Field
    <3> QED BY <3>6, <3>7
  <2> QED BY <2>1, <2>2
<1> HIDE DEF w2
<1>4. Good(w2) /\ r2 \in PeerType
  BY <1>3, TurnType
<1>5. /\ Only(r2, s, {"tm"}) /\ s.tm = {} /\ s \in PeerType
      /\ s.fd = r2.fd /\ s.rd = r2.rd /\ s.wr = r2.wr
      /\ s.init = r2.init /\ s.status = r2.status
  <2>1. Only(r2, s, {"tm"}) /\ s.tm = {}
    BY <1>4, Fields DEF Only, Field
  <2>2. /\ s \in PeerType /\ s.fd = r2.fd /\ s.rd = r2.rd /\ s.wr = r2.wr
        /\ s.init = r2.init /\ s.status = r2.status
    BY <1>4 DEF PeerType
  <2> QED BY <2>1, <2>2
<1> HIDE DEF s
<1>6. Turn(w2, w3, p) /\ w3.peer[p] = s
  BY SMTT(120), <1>4, <1>5, PutSame, PutIs DEF Turn, Same
<1>7. Good(w3)
  BY <1>6, TurnType
<1> HIDE DEF w3
<1>8. From(w3, Unlist(w3, p), p) /\ Unlist(w3, p).peer = w3.peer
  BY <1>7, UnlistFrom
<1>9. Unlist(w3, p).plist = listnode_delete(w3.plist, p)
  <2>1. w3 \in WorldType
    BY <1>7 DEF Good
  <2> QED BY <2>1 DEF Unlist, WorldType
<1>10. Turn(w, w3, p)
  BY <1>1, <1>3, <1>6, TurnTrans
<1>11. From(w, Unlist(w3, p), p)
  BY <1>8, <1>10, FromTrans DEF Turn
<1>12. Unlist(w3, p).plist = listnode_delete(w.plist, p)
  BY <1>9, <1>10 DEF Turn
<1>13. /\ s.shut = r2.shut /\ s.ev = r2.ev /\ s.routes = r2.routes
       /\ s.wait = r2.wait /\ s.rid = r2.rid
  BY <1>5 DEF Only, Field
<1> HIDE DEF r1, r2
<1>14. Gone(r, s)
  BY <1>1, <1>3, <1>5, <1>13 DEF Gone
<1> QED BY <1>0, <1>6, <1>8, <1>11, <1>12, <1>14

(* What follows the function in bgp_event changes status and timers.         *)
LEMMA CalledStatus ==
  ASSUME NEW func, NEW r, NEW s, NEW t, Called(func, r, s),
         Only(s, t, {"status", "tm"}), Side(t) = Side(s)
  PROVE  Called(func, r, t)
<1>1. /\ t.fd = s.fd /\ t.rd = s.rd /\ t.wr = s.wr /\ t.ev = s.ev
      /\ t.hold = s.hold /\ t.rid = s.rid /\ t.gr = s.gr /\ t.init = s.init
      /\ t.shut = s.shut /\ t.over = s.over /\ t.wait = s.wait
      /\ t.routes = s.routes /\ t.nsf = s.nsf
  BY DEF Only, Field
<1>2. Rested(r, s) => Rested(r, t)
  BY <1>1 DEF Rested
<1>3. /\ Only(r, s, {"obuf", "wr", "status", "tm"})
           => Only(r, t, {"obuf", "wr", "status", "tm"})
      /\ Only(r, s, {"rd", "wr", "obuf", "status", "tm"})
           => Only(r, t, {"rd", "wr", "obuf", "status", "tm"})
  BY DEF Only
<1>4. func \in Stops => Halted(r, t)
  BY <1>1, <1>2, <1>3 DEF Called, Halted
<1>5. func \in Dials => Dialed(r, t)
  BY <1>1 DEF Called, Dialed
<1>6. func = "bgp_establish" => Raised(r, t)
  <2>1. "gr_stale" \in s.tm => "gr_stale" \in t.tm
    BY DEF Side, SideTimer
  <2> QED BY <1>1, <2>1 DEF Called, Raised
<1>7. func \notin Stops \cup Dials \cup {"bgp_establish"} => Kept(r, t)
  BY <1>3 DEF Called, Kept
<1> QED BY <1>1, <1>4, <1>5, <1>6, <1>7 DEF Called

(* Stopping the hold timer changes the timers only.                          *)
LEMMA HoldOffTurn ==
  ASSUME NEW w, Good(w), NEW p \in Peer
  PROVE  LET v == HoldOff(w, p)
         IN  /\ Turn(w, v, p) /\ Only(w.peer[p], v.peer[p], {"tm"})
             /\ Side(v.peer[p]) = Side(w.peer[p])
<1> DEFINE r == w.peer[p]
           s == [r EXCEPT !.tm = @ \ {"hold"}]
<1>1. r \in PeerType
  BY PeerOf
<1>2. Only(r, s, {"tm"}) /\ s.tm = r.tm \ {"hold"}
  BY <1>1, Fields DEF Only, Field
<1>3. HoldOff(w, p) = Put(w, p, s)
  BY DEF HoldOff
<1> HIDE DEF s
<1>4. Side(s) = Side(r)
  BY <1>2 DEF Side, SideTimer
<1> QED BY SMTT(120), <1>2, <1>3, <1>4, HoldOffSame, PutIs DEF Turn, Same

(* What bgp_connect_success does to its peer.                                *)
LEMMA ConnectTurn ==
  ASSUME NEW w, Good(w), NEW p \in Peer, w.peer[p].fd # NoFd
  PROVE  LET x == bgp_connect_success(w, p)
         IN  /\ Turn(w, x.w, p) /\ x.ret = 0
             /\ Only(w.peer[p], x.w.peer[p], {"rd", "wr", "obuf"})
<1> DEFINE w1 == ReadOn(w, p)
           v == IF p = Conf THEN SendData(w1, p) ELSE w1
<1>1. bgp_connect_success(w, p) = [w |-> v, ret |-> 0]
  BY DEF bgp_connect_success, Ok
<1>2. Turn(w, w1, p) /\ Only(w.peer[p], w1.peer[p], {"rd"})
  BY ReadOnTurn
<1>3. Good(w1) /\ w1.peer[p].fd # NoFd
  BY <1>2, TurnType DEF Only, Field
<1> HIDE DEF w1
<1>4. Turn(w1, v, p) /\ Only(w1.peer[p], v.peer[p], {"obuf", "wr"})
  <2>1. CASE p = Conf
    BY <1>3, <2>1, SendTurn
  <2>2. CASE p # Conf
    BY <1>3, <2>2, TurnRefl DEF Only
  <2> QED BY <2>1, <2>2
<1> HIDE DEF v
<1>5. Only(w.peer[p], v.peer[p], {"rd", "wr", "obuf"})
  BY <1>2, <1>4 DEF Only
<1> QED BY SMTT(120), <1>1, <1>2, <1>4, <1>5, TurnTrans

(* What bgp_start does to its peer, for each result of connect().            *)
LEMMA StartTurn ==
  ASSUME NEW w, Good(w), NEW p \in Peer, NEW c \in ConnectResult,
         w.peer[p].ev = <<>>
  PROVE  LET v == bgp_start(w, p, c)
         IN  /\ Turn(w, v, p)
             /\ Only(w.peer[p], v.peer[p], {"fd", "rd", "wr", "ev"})
             /\ \/ v.peer[p].ev = <<>>
                \/ v.peer[p].ev = <<"TCP_connection_open">>
                \/ v.peer[p].ev = <<"TCP_connection_open_failed">>
<1> DEFINE free == Fd \ w.open
           f == CHOOSE x \in free : TRUE
           r == w.peer[p]
           s == [r EXCEPT !.fd = f]
           w1 == Opened(Put(w, p, s), f)
           F == {"fd", "rd", "wr", "ev"}
           v == bgp_start(w, p, c)
<1>1. r \in PeerType
  BY PeerOf
<1>2. From(w, v, p)
  BY StartFrom
<1>3. CASE c = "nosocket" \/ free = {}
  <2> DEFINE t == [r EXCEPT !.fd = NoFd]
  <2>1. Only(r, t, {"fd"})
    BY <1>1, Fields DEF Only, Field
  <2>2. v = Put(w, p, t)
    BY <1>3 DEF bgp_start
  <2> HIDE DEF t, v
  <2>3. v.peer[p] = t /\ v.plist = w.plist
    BY SMTT(120), <2>2, PutIs
  <2>4. Only(r, t, F) /\ t.ev = <<>>
    BY <2>1 DEF Only, Field
  <2> QED BY <1>2, <2>3, <2>4 DEF Turn, v
<1>4. CASE c # "nosocket" /\ free # {}
  <2>1. f \in free
    BY <1>4
  <2>2. v \in {EventAdd(w1, p, "TCP_connection_open_failed"),
               EventAdd(w1, p, "TCP_connection_open"),
               WriteOn(ReadOn(w1, p), p)}
    BY <1>4 DEF bgp_start, ConnectResult
  <2> HIDE DEF f
  <2>3. /\ s \in PeerType /\ s.fd = f /\ s.rd = r.rd /\ s.wr = r.wr
        /\ s.init = r.init
    BY <1>1, <2>1 DEF PeerType
  <2>4. Only(r, s, {"fd"})
    BY <1>1, Fields DEF Only, Field
  <2> HIDE DEF s
  <2>5. Held(s) \subseteq Held(r) \cup {f}
    BY <2>3 DEF Held
  <2>6. From(w, w1, p) /\ w1.peer[p] = s
    BY SMTT(120), <2>1, <2>3, <2>5, OpenGood
  <2>7. w1.plist = w.plist
    <3>1. w \in WorldType
      BY DEF Good
    <3> QED BY <3>1 DEF WorldType, Put, Opened
  <2> HIDE DEF w1
  <2>8. Good(w1) /\ w1.peer[p].fd # NoFd /\ w1.peer[p].ev = <<>>
    <3>1. f # NoFd
      BY SMTT(120), <2>1, ConstantAssumption DEF NoFd
    <3> QED BY <2>3, <2>4, <2>6, <3>1 DEF From, Only, Field
  <2>9. ASSUME NEW e \in {"TCP_connection_open_failed", "TCP_connection_open"},
               v = EventAdd(w1, p, e)
        PROVE  /\ v.plist = w1.plist /\ Only(s, v.peer[p], {"ev"})
               /\ v.peer[p].ev = <<e>>
    <3>1. e \in Event
      BY DEF Event
    <3> QED BY SMTT(120), <2>6, <2>8, <2>9, <3>1, EventAddTurn DEF Turn
  <2>10. ASSUME v = WriteOn(ReadOn(w1, p), p)
         PROVE  /\ v.plist = w1.plist /\ Only(s, v.peer[p], {"rd", "wr"})
    <3> DEFINE w2 == ReadOn(w1, p)
    <3>1. Turn(w1, w2, p) /\ Only(s, w2.peer[p], {"rd"})
      BY <2>6, <2>8, ReadOnTurn
    <3>2. Good(w2) /\ w2.peer[p].fd # NoFd
      BY <2>6, <2>8, <3>1, TurnType DEF Only, Field
    <3> HIDE DEF w2
    <3>3. Turn(w2, v, p) /\ Only(w2.peer[p], v.peer[p], {"wr"})
      BY <2>10, <3>2, WriteOnTurn DEF w2
    <3> QED BY <3>1, <3>3 DEF Turn, Only
  <2> HIDE DEF v
  <2>11. v.plist = w.plist
    BY <2>2, <2>7, <2>9, <2>10
  <2>12. Only(s, v.peer[p], {"rd", "wr", "ev"})
    BY <2>2, <2>9, <2>10 DEF Only
  <2>13. Only(r, v.peer[p], F)
    BY <2>4, <2>12 DEF Only
  <2>14. \/ v.peer[p].ev = <<>>
         \/ v.peer[p].ev = <<"TCP_connection_open">>
         \/ v.peer[p].ev = <<"TCP_connection_open_failed">>
    <3>1. s.ev = <<>>
      BY <2>6, <2>8
    <3>2. v = WriteOn(ReadOn(w1, p), p) => v.peer[p].ev = s.ev
      BY <2>10 DEF Only, Field
    <3> QED BY <2>2, <2>9, <3>1, <3>2
  <2> QED BY <1>2, <2>11, <2>13, <2>14 DEF Turn, v
<1> QED BY <1>3, <1>4

(* The functions of the table, one after the other, and bgp_event.           *)
LEMMA OpenTurn ==
  ASSUME NEW w, Good(w), NEW p \in Peer, w.peer[p].fd # NoFd
  PROVE  LET v == bgp_fsm_open(w, p)
         IN  /\ Turn(w, v, p)
             /\ Only(w.peer[p], v.peer[p], {"wr", "obuf", "tm"})
             /\ Side(v.peer[p]) = Side(w.peer[p])
<1> DEFINE w1 == SendData(w, p)
           v == HoldOff(w1, p)
<1>1. Turn(w, w1, p) /\ Only(w.peer[p], w1.peer[p], {"obuf", "wr"})
  BY SendTurn
<1>2. Good(w1)
  BY <1>1, TurnType
<1>3. bgp_fsm_open(w, p) = v
  BY DEF bgp_fsm_open
<1> HIDE DEF w1
<1>4. /\ Turn(w1, v, p) /\ Only(w1.peer[p], v.peer[p], {"tm"})
      /\ Side(v.peer[p]) = Side(w1.peer[p])
  BY <1>2, HoldOffTurn
<1> HIDE DEF v
<1>5. Only(w.peer[p], v.peer[p], {"wr", "obuf", "tm"})
  BY <1>1, <1>4 DEF Only
<1>6. Side(w1.peer[p]) = Side(w.peer[p])
  BY <1>1 DEF Side, Only, Field
<1> QED BY <1>1, <1>3, <1>4, <1>5, <1>6, TurnTrans

(* What bgp_establish does to its peer.                                      *)
LEMMA EstablishTurn ==
  ASSUME NEW w, Good(w), NEW p \in Peer, NEW kept, w.peer[p].fd # NoFd
  PROVE  LET v == bgp_establish(w, p, kept)
         IN  Turn(w, v, p) /\ Raised(w.peer[p], v.peer[p])
<1> DEFINE r == w.peer[p]
           rt == IF r.nsf /\ ~(r.gr /\ kept) THEN r.routes \ {"stale"}
                 ELSE r.routes
           tm == r.tm \ (IF r.gr THEN {"gr_restart"}
                         ELSE {"gr_restart", "gr_stale"})
           s == [r EXCEPT !.status = "Established", !.wait = FALSE,
                          !.routes = rt, !.nsf = r.gr, !.mode = r.gr, !.tm = tm]
           w1 == Put(w, p, s)
           v == bgp_establish(w, p, kept)
<1>1. r \in PeerType
  BY PeerOf
<1>2. /\ rt \in SUBSET {"fresh", "stale"} /\ tm \in SUBSET (FsmTimer \cup SideTimer)
      /\ rt \subseteq r.routes
      /\ "stale" \in rt => ~r.nsf \/ r.gr
      /\ r.gr /\ "gr_stale" \in r.tm => "gr_stale" \in tm
  BY <1>1 DEF PeerType
<1>3. v = IF r.hold = 0 THEN w1 ELSE SendData(w1, p)
  BY DEF bgp_establish
<1>4. From(w, v, p)
  BY EstablishFrom
<1> HIDE DEF rt, tm, v
<1>5. s \in PeerType /\ s.fd = r.fd /\ s.rd = r.rd /\ s.wr = r.wr
      /\ s.init = r.init
  BY <1>1, <1>2 DEF PeerType, Status
<1>6. /\ Only(r, s, {"status", "wait", "routes", "nsf", "mode", "tm"})
      /\ ~s.wait /\ s.routes = rt /\ s.nsf = r.gr /\ s.tm = tm
  BY <1>1, Fields DEF Only, Field
<1> HIDE DEF s
<1>7. Held(s) \subseteq Held(r)
  BY <1>5 DEF Held
<1>8. Good(w1) /\ w1.peer[p] = s /\ w1.plist = w.plist
  BY SMTT(120), <1>5, <1>7, PutGood, PutIs DEF From
<1> HIDE DEF w1
<1>9. v.plist = w1.plist /\ Only(s, v.peer[p], {"obuf", "wr"})
  BY <1>3, <1>5, <1>8, SendTurn DEF Turn, Only
<1>10. LET t == v.peer[p]
       IN  /\ t.init = s.init /\ t.shut = s.shut /\ t.over = s.over
           /\ t.rid = s.rid /\ t.ev = s.ev /\ t.fd = s.fd /\ t.rd = s.rd
           /\ t.wait = s.wait /\ t.routes = s.routes /\ t.nsf = s.nsf
           /\ t.tm = s.tm
  BY <1>9 DEF Only, Field
<1>11. s.shut = r.shut /\ s.over = r.over /\ s.rid = r.rid /\ s.ev = r.ev
  BY <1>6 DEF Only, Field
<1>12. Raised(r, v.peer[p])
  <2> DEFINE t == v.peer[p]
  <2>1. /\ t.init = r.init /\ t.shut = r.shut /\ t.over = r.over /\ t.rid = r.rid
        /\ t.ev = r.ev /\ t.fd = r.fd /\ t.rd = r.rd
    BY <1>5, <1>10, <1>11
  <2>2. ~t.wait
    BY <1>6, <1>10
  <2>3. t.routes = rt /\ t.tm = tm
    BY <1>6, <1>10
  <2>4. r.gr => t.nsf
    BY <1>6, <1>10
  <2> HIDE DEF t
  <2>5. Raised(r, t)
    BY <1>2, <2>1, <2>2, <2>3, <2>4 DEF Raised
  <2> QED BY <2>5 DEF t
<1> QED BY <1>4, <1>8, <1>9, <1>12 DEF Turn, v

Dropped(w, v, p) ==
  /\ From(w, v, p) /\ v.plist = listnode_delete(w.plist, p)
  /\ Removed(w.peer[p], v.peer[p])

(* What bgp_fsm_holdtime_expire does to its peer.                            *)
LEMMA ExpireTurn ==
  ASSUME NEW w, Good(w), NEW p \in Peer, NEW ok, p # Conf => ~w.peer[p].init
  PROVE  LET x == bgp_fsm_holdtime_expire(w, p, ok)
         IN  /\ p # Conf => x.ret = -1 /\ Dropped(w, x.w, p)
             /\ p = Conf => /\ x.ret = 0 /\ Turn(w, x.w, p)
                            /\ Halted(w.peer[p], x.w.peer[p])
<1> DEFINE w1 == bgp_notify_send(w, p, ok)
           w2 == peer_delete(w1, p, ok)
           r == w.peer[p]
           r1 == w1.peer[p]
<1>1. /\ Turn(w, w1, p)
      /\ r.init => Refused(r, r1, p)
      /\ ~r.init => Ended(r, r1, p)
  BY NotifyTurn
<1>2. bgp_fsm_holdtime_expire(w, p, ok) =
        IF p = Conf THEN [w |-> w1, ret |-> 0] ELSE [w |-> w2, ret |-> -1]
  BY DEF bgp_fsm_holdtime_expire, Ok, Fail
<1>3. Good(w1)
  BY <1>1, TurnType
<1> HIDE DEF w1
<1>4. CASE p = Conf
  <2>1. Halted(r, r1)
    BY <1>1 DEF Halted, Refused, Ended, Side
  <2> QED BY SMTT(120), <1>1, <1>2, <1>4, <2>1
<1>5. CASE p # Conf
  <2>1. /\ From(w1, w2, p) /\ w2.plist = listnode_delete(w1.plist, p)
        /\ Gone(r1, w2.peer[p])
    BY <1>3, DeleteTurn
  <2> HIDE DEF w2
  <2>2. From(w, w2, p) /\ w2.plist = listnode_delete(w.plist, p)
    BY <1>1, <2>1, FromTrans DEF Turn
  <2>3. Ended(r, r1, p) /\ ~r1.init /\ ~r.init
    BY <1>1, <1>5 DEF Ended, Rested
  <2>4. /\ r1.wait = r.wait /\ r1.shut = r.shut /\ r1.status = "Idle"
        /\ r.status = "Established" => r1.routes = IF r.wait /\ r.nsf /\ "fresh" \in r.routes THEN {"stale"} ELSE {}
        /\ r.status # "Established" => r1.routes = r.routes
    BY <2>3 DEF Ended, Rested
  <2>5. LET s == w2.peer[p]
        IN  /\ s.tm = {} /\ s.shut = r1.shut /\ s.init = r1.init /\ ~s.wait
            /\ s.status = "Idle" /\ s.fd = NoFd /\ s.ev = <<>>
            /\ s.rd = NoThread /\ s.wr = NoThread
            /\ s.routes = IF r1.wait THEN {} ELSE r1.routes
    BY <2>1, <2>3, <2>4 DEF Gone
  <2>6. Removed(r, w2.peer[p])
    BY <2>3, <2>4, <2>5 DEF Removed
  <2> QED BY SMTT(120), <1>2, <1>5, <2>2, <2>6 DEF Dropped
<1> QED BY <1>4, <1>5

(* bgp_stop and the functions that end in it halt the peer.                  *)
LEMMA StopHalts ==
  ASSUME NEW w, Good(w), NEW p \in Peer
  PROVE  LET v == bgp_stop(w, p)
         IN  Turn(w, v, p) /\ Halted(w.peer[p], v.peer[p])
<1> DEFINE v == bgp_stop(w, p)
<1>1. /\ Turn(w, v, p)
      /\ w.peer[p].init => v = w
      /\ ~w.peer[p].init => Stopped(w.peer[p], v.peer[p])
  BY StopTurn
<1> HIDE DEF v
<1>2. Halted(w.peer[p], v.peer[p])
  BY <1>1, StoppedTmSide DEF Halted, Stopped, Side, Only
<1> QED BY <1>1, <1>2 DEF v

(* The functions that dial leave the peer dialling or with an event.         *)
LEMMA DialTurn ==
  ASSUME NEW w, Good(w), NEW p \in Peer, NEW c \in ConnectResult,
         w.peer[p].ev = <<>>
  PROVE  /\ LET v == bgp_start(w, p, c)
            IN  Turn(w, v, p) /\ Dialed(w.peer[p], v.peer[p])
         /\ LET v == bgp_start(bgp_stop(w, p), p, c)
            IN  Turn(w, v, p) /\ Dialed(w.peer[p], v.peer[p])
<1> DEFINE r == w.peer[p]
           u == bgp_stop(w, p)
           v == bgp_start(u, p, c)
           v1 == bgp_start(w, p, c)
<1>1. /\ Turn(w, v1, p) /\ Only(r, v1.peer[p], {"fd", "rd", "wr", "ev"})
      /\ \/ v1.peer[p].ev = <<>>
         \/ v1.peer[p].ev = <<"TCP_connection_open">>
         \/ v1.peer[p].ev = <<"TCP_connection_open_failed">>
  BY StartTurn
<1> HIDE DEF v1
<1>2. Dialed(r, v1.peer[p])
  BY <1>1 DEF Dialed, Only, Field, Side
<1>3. /\ Turn(w, u, p)
      /\ r.init => u = w
      /\ ~r.init => Stopped(r, u.peer[p])
  BY StopTurn
<1>4. Good(u) /\ u.peer[p].ev = <<>>
  BY <1>3, TurnType DEF Stopped, Rested
<1> HIDE DEF u
<1>5. /\ Turn(u, v, p) /\ Only(u.peer[p], v.peer[p], {"fd", "rd", "wr", "ev"})
      /\ \/ v.peer[p].ev = <<>>
         \/ v.peer[p].ev = <<"TCP_connection_open">>
         \/ v.peer[p].ev = <<"TCP_connection_open_failed">>
  BY <1>4, StartTurn
<1> HIDE DEF v
<1>6. Dialed(u.peer[p], v.peer[p])
  BY <1>5 DEF Dialed, Only, Field, Side
<1>7. LET t == u.peer[p]
      IN  /\ t.init = r.init /\ t.shut = r.shut /\ t.over = r.over
          /\ t.wait = r.wait
          /\ r.status # "Established" =>
               t.status = r.status /\ t.nsf = r.nsf /\ t.routes = r.routes
               /\ Side(t) = Side(r)
  BY <1>3, StoppedTmSide DEF Stopped, Rested, Side, StoppedTm
<1>8. Dialed(r, v.peer[p])
  BY <1>6, <1>7 DEF Dialed
<1> QED BY <1>1, <1>2, <1>3, <1>5, <1>8, TurnTrans DEF u, v, v1

(* What a handler that returns 0 with the world u gives its caller. *)
LEMMA OkIs ==
  ASSUME NEW u
  PROVE  Ok(u).ret = 0 /\ Ok(u).w = u
BY DEF Ok

(* The function of a table entry: it fails (a connection without descriptor, *)
(* a temporary peer whose hold time is over) or changes p as Called says.    *)
LEMMA CallTurn ==
  ASSUME NEW w, Good(w), NEW p \in Peer, NEW c \in Choice, NEW func,
         p # Conf => ~w.peer[p].init, w.peer[p].ev = <<>>,
         func \in Sends => w.peer[p].fd # NoFd
  PROVE  LET x == Call(func, w, p, c)
         IN  \/ /\ func = "bgp_connect_success" /\ w.peer[p].fd = NoFd
                /\ x.ret = -1 /\ x.w = w
             \/ /\ func = "bgp_fsm_holdtime_expire" /\ p # Conf
                /\ x.ret = -1 /\ Dropped(w, x.w, p)
             \/ /\ x.ret = 0 /\ Turn(w, x.w, p)
                /\ Called(func, w.peer[p], x.w.peer[p])
<1> DEFINE x == Call(func, w, p, c)
           r == w.peer[p]
           Done == /\ x.ret = 0 /\ Turn(w, x.w, p)
                   /\ Called(func, r, x.w.peer[p])
<1>0. c.conn \in ConnectResult
  BY DEF Choice
<1>1. CASE func \in {"bgp_stop", "bgp_stop_with_error", "bgp_connect_fail"}
  <2>1. x = Ok(bgp_stop(w, p))
    BY <1>1 DEF Call
  <2>2. Turn(w, bgp_stop(w, p), p) /\ Halted(r, bgp_stop(w, p).peer[p])
    BY StopHalts
  <2>3. x.ret = 0 /\ x.w = bgp_stop(w, p)
    BY <2>1, OkIs
  <2> HIDE DEF x
  <2>4. Done
    BY <1>1, <2>2, <2>3 DEF Called, Stops, Dials
  <2> QED BY <2>4 DEF x
<1>2. CASE func = "bgp_connect_success"
  <2>1. x = bgp_connect_success(w, p)
    BY <1>2 DEF Call
  <2>2. CASE r.fd = NoFd
    <3>1. x = [w |-> w, ret |-> -1]
      BY <2>1, <2>2, ConnectSuccess DEF Fail
    <3> QED BY SMTT(120), <1>2, <2>2, <3>1
  <2>3. CASE r.fd # NoFd
    <3>1. x.ret = 0 /\ Turn(w, x.w, p) /\ Only(r, x.w.peer[p], {"rd", "wr", "obuf"})
      BY <2>1, <2>3, ConnectTurn
    <3> HIDE DEF x
    <3>2. Kept(r, x.w.peer[p])
      BY <3>1 DEF Kept, Only, Field, Side
    <3>3. Done
      BY <1>2, <3>1, <3>2 DEF Called, Stops, Dials
    <3> QED BY <3>3 DEF x
  <2> QED BY <2>2, <2>3
<1>3. CASE func \in Dials
  <2> DEFINE v == IF func = "bgp_start" THEN bgp_start(w, p, c.conn)
                  ELSE bgp_start(bgp_stop(w, p), p, c.conn)
  <2>1. x = Ok(v)
    BY <1>3 DEF Call, Dials
  <2>2. Turn(w, v, p) /\ Dialed(r, v.peer[p])
    BY <1>0, DialTurn
  <2> HIDE DEF v
  <2>3. x.ret = 0 /\ x.w = v
    BY <2>1, OkIs
  <2> HIDE DEF x
  <2>4. Done
    BY <1>3, <2>2, <2>3 DEF Called, Stops, Dials
  <2> QED BY <2>4 DEF x
<1>4. CASE func = "bgp_fsm_open"
  <2> DEFINE v == bgp_fsm_open(w, p)
  <2>1. x = Ok(v)
    BY <1>4 DEF Call
  <2>2. Turn(w, v, p) /\ Only(r, v.peer[p], {"wr", "obuf", "tm"}) /\ Side(v.peer[p]) = Side(r)
    BY <1>4, OpenTurn DEF Sends
  <2> HIDE DEF v
  <2>3. Kept(r, v.peer[p]) /\ v.peer[p].rd = r.rd
    BY <2>2 DEF Kept, Only, Field
  <2>4. x.ret = 0 /\ x.w = v
    BY <2>1, OkIs
  <2> HIDE DEF x
  <2>5. Done
    BY <1>4, <2>2, <2>3, <2>4 DEF Called, Stops, Dials
  <2> QED BY <2>5 DEF x
<1>5. CASE func = "bgp_fsm_holdtime_expire"
  <2>1. x = bgp_fsm_holdtime_expire(w, p, c.ok)
    BY <1>5 DEF Call
  <2>2. /\ p # Conf => x.ret = -1 /\ Dropped(w, x.w, p)
        /\ p = Conf => x.ret = 0 /\ Turn(w, x.w, p) /\ Halted(r, x.w.peer[p])
    BY SMTT(120), <2>1, ExpireTurn
  <2> HIDE DEF x
  <2>3. p = Conf => Done
    BY <1>5, <2>2 DEF Called, Stops, Dials
  <2> QED BY <1>5, <2>2, <2>3 DEF x
<1>6. CASE func = "bgp_establish"
  <2> DEFINE v == bgp_establish(w, p, c.alt)
  <2>1. x = Ok(v)
    BY <1>6 DEF Call
  <2>2. Turn(w, v, p) /\ Raised(r, v.peer[p])
    BY <1>6, EstablishTurn DEF Sends
  <2> HIDE DEF v
  <2>3. x.ret = 0 /\ x.w = v
    BY <2>1, OkIs
  <2>4. v.peer[p].rd = r.rd
    BY <2>2 DEF Raised
  <2> HIDE DEF x
  <2>5. Done
    BY <1>6, <2>2, <2>4, <2>3 DEF Called, Stops, Dials
  <2> QED BY <2>5 DEF x
<1>7. CASE func = "bgp_fsm_keepalive_expire"
  <2> DEFINE v == SendData(w, p)
  <2>1. x = Ok(v)
    BY <1>7 DEF Call
  <2>2. Turn(w, v, p) /\ Only(r, v.peer[p], {"obuf", "wr"})
    BY <1>7, SendTurn DEF Sends
  <2> HIDE DEF v
  <2>3. Kept(r, v.peer[p]) /\ v.peer[p].rd = r.rd
    BY <2>2 DEF Kept, Only, Field, Side
  <2>4. x.ret = 0 /\ x.w = v
    BY <2>1, OkIs
  <2> HIDE DEF x
  <2>5. Done
    BY <1>7, <2>2, <2>3, <2>4 DEF Called, Stops, Dials
  <2> QED BY <2>5 DEF x
<1>8. CASE func \in {"bgp_fsm_keepalive", "bgp_fsm_update"}
  <2> DEFINE v == HoldOff(w, p)
  <2>1. x = Ok(v)
    BY <1>8 DEF Call
  <2>2. Turn(w, v, p) /\ Only(r, v.peer[p], {"tm"}) /\ Side(v.peer[p]) = Side(r)
    BY HoldOffTurn
  <2> HIDE DEF v
  <2>3. Kept(r, v.peer[p]) /\ v.peer[p].rd = r.rd
    BY <2>2 DEF Kept, Only, Field
  <2>4. x.ret = 0 /\ x.w = v
    BY <2>1, OkIs
  <2> HIDE DEF x
  <2>5. Done
    BY <1>8, <2>2, <2>3, <2>4 DEF Called, Stops, Dials
  <2> QED BY <2>5 DEF x
<1>9. CASE func \notin Stops \cup Dials \cup {"bgp_connect_success",
             "bgp_fsm_open", "bgp_establish", "bgp_fsm_keepalive_expire",
             "bgp_fsm_keepalive", "bgp_fsm_update"}
  <2>1. x = Ok(w)
    BY <1>9 DEF Call, Stops, Dials
  <2>2. Turn(w, w, p) /\ Kept(r, r)
    BY TurnRefl DEF Kept, Only
  <2>3. x.ret = 0 /\ x.w = w
    BY <2>1, OkIs
  <2> HIDE DEF x
  <2>4. Done
    BY <1>9, <2>2, <2>3 DEF Called
  <2> QED BY <2>4 DEF x
<1> HIDE DEF x, r
<1> QED BY <1>1, <1>2, <1>3, <1>4, <1>5, <1>6, <1>7, <1>8, <1>9
        DEF Stops, x, r

(* What bgp_event makes of the structure p.                                  *)
Ran(w, v, p, entry) ==
  \/ entry[1] = "bgp_connect_success" /\ w.peer[p].fd = NoFd /\ v = w
  \/ entry[1] = "bgp_fsm_holdtime_expire" /\ p # Conf /\ Dropped(w, v, p)
  \/ /\ Turn(w, v, p) /\ Called(entry[1], w.peer[p], v.peer[p])
     /\ v.peer[p].status = entry[2] /\ Timed(v.peer[p], p)

(* bgp_event calls the function of the table and sets the timers.            *)
LEMMA EventTurn ==
  ASSUME NEW w, Good(w), NEW p \in Peer, NEW e \in Event, NEW c \in Choice,
         HasFd(w.peer[p]), p # Conf => ~w.peer[p].init, w.peer[p].ev = <<>>
  PROVE  Ran(w, bgp_event(w, p, e, c), p, FSM[w.peer[p].status][e])
<1> DEFINE st == w.peer[p].status
           entry == FSM[st][e]
           next == entry[2]
           x == Call(entry[1], w, p, c)
           u == x.w
           v == bgp_fsm_change_status(u, p, next)
           t == bgp_timer_set(v, p)
<1>1. st \in Status
  BY PeerOf DEF PeerType
<1>2. Shape(st, entry)
  BY <1>1, FsmShape
<1>3. bgp_event(w, p, e, c) = IF x.ret < 0 THEN u ELSE t
  BY DEF bgp_event
<1>4. entry[1] \in Sends => w.peer[p].fd # NoFd
  BY <1>2 DEF Shape, HasFd
<1>5. next \in Status
  BY <1>2 DEF Shape
<1>6. \/ /\ entry[1] = "bgp_connect_success" /\ w.peer[p].fd = NoFd
         /\ x.ret = -1 /\ u = w
      \/ /\ entry[1] = "bgp_fsm_holdtime_expire" /\ p # Conf
         /\ x.ret = -1 /\ Dropped(w, u, p)
      \/ x.ret = 0 /\ Turn(w, u, p) /\ Called(entry[1], w.peer[p], u.peer[p])
  BY <1>4, CallTurn
<1> HIDE DEF next, x, entry
<1>7. CASE x.ret = -1
  BY SMTT(120), <1>3, <1>6, <1>7 DEF Ran, entry
<1>8. CASE x.ret = 0
  <2>0. Turn(w, u, p) /\ Called(entry[1], w.peer[p], u.peer[p])
    BY SMTT(120), <1>6, <1>8
  <2> HIDE DEF u
  <2>1. Good(u)
    BY <2>0, TurnType
  <2>2. /\ Turn(u, v, p) /\ Only(u.peer[p], v.peer[p], {"status"})
        /\ v.peer[p].status = next
    BY <1>5, <2>1, StatusTurn
  <2>3. Good(v)
    BY <2>2, TurnType
  <2> HIDE DEF v
  <2>4. /\ Turn(v, t, p) /\ Only(v.peer[p], t.peer[p], {"tm"})
        /\ Timed(t.peer[p], p) /\ Side(t.peer[p]) = Side(v.peer[p])
    BY <2>3, TimerSetTurn DEF Side
  <2> HIDE DEF t
  <2>5. Only(u.peer[p], t.peer[p], {"status", "tm"})
    BY <2>2, <2>4 DEF Only
  <2>6. t.peer[p].status = next /\ Side(t.peer[p]) = Side(u.peer[p])
    BY <2>2, <2>4 DEF Only, Field, Side
  <2>7. Called(entry[1], w.peer[p], t.peer[p])
    BY <2>0, <2>5, <2>6, CalledStatus
  <2>8. Turn(w, t, p)
    BY <2>0, <2>2, <2>4, TurnTrans
  <2>9. bgp_event(w, p, e, c) = t
    BY SMTT(120), <1>3, <1>8
  <2>10. Ran(w, t, p, entry)
    BY <2>4, <2>6, <2>7, <2>8 DEF Ran, next
  <2> QED BY <2>9, <2>10 DEF entry
<1> QED BY <1>6, <1>7, <1>8

(* Storing a record of its own structure is a turn of the peer.              *)
LEMMA PutTurn ==
  ASSUME NEW w, Good(w), NEW p \in Peer, NEW s \in PeerType,
         s.fd = w.peer[p].fd, s.rd \in {w.peer[p].rd, NoThread},
         s.wr \in {w.peer[p].wr, NoThread}, s.init = w.peer[p].init,
         s.status = w.peer[p].status
  PROVE  LET v == Put(w, p, s)
         IN  Turn(w, v, p) /\ Good(v) /\ v.peer[p] = s
BY SMTT(120), PutSame, PutIs DEF Turn, Same, From

(* A NOTIFICATION sent after fields of the message were stored.              *)
LEMMA NotedAfter ==
  ASSUME NEW r, NEW t, NEW s, NEW p,
         Only(r, t, {"rd", "rid", "hold", "gr", "over"}),
         t.rid = r.rid \/ Known(t), Noted(t, s, p)
  PROVE  Noted(r, s, p)
<1>1. /\ t.init = r.init /\ t.shut = r.shut /\ t.wait = r.wait
      /\ t.status = r.status /\ t.nsf = r.nsf /\ t.routes = r.routes
      /\ t.tm = r.tm
  BY DEF Only, Field
<1>2. StoppedTm(t) = StoppedTm(r)
  BY <1>1 DEF StoppedTm
<1>3. ~r.init => Down(r, s, p)
  BY <1>1, <1>2 DEF Noted, Down
<1>4. ASSUME r.init
      PROVE  /\ Only(r, s, {"rd", "obuf", "wr", "status", "tm", "rid", "hold",
                            "gr", "over"})
             /\ s.rid = r.rid \/ Known(s)
             /\ \/ s.status = "Idle"
                \/ s.status = "Established" /\ r.status = "Established"
             /\ Timed(s, p)
  <2>1. /\ Only(t, s, {"rd", "obuf", "wr", "status", "tm", "rid", "hold",
                       "gr", "over"})
        /\ s.rid = t.rid \/ Known(s)
        /\ \/ s.status = "Idle"
           \/ s.status = "Established" /\ t.status = "Established"
        /\ Timed(s, p)
    BY <1>1, <1>4 DEF Noted
  <2>2. Only(r, s, {"rd", "obuf", "wr", "status", "tm", "rid", "hold", "gr",
                    "over"})
    BY <2>1 DEF Only
  <2>3. s.rid = r.rid \/ Known(s)
    BY <2>1 DEF Known
  <2> QED BY <1>1, <2>1, <2>2, <2>3
<1> QED BY <1>3, <1>4 DEF Noted

(* A message handled after fields of it were stored.                         *)
LEMMA HandledAfter ==
  ASSUME NEW r, NEW t, NEW s, NEW p, Only(r, t, {"rd"}), Handled(t, s, p)
  PROVE  Handled(r, s, p)
<1>1. /\ t.rid = r.rid /\ t.status = r.status /\ t.wait = r.wait
      /\ t.routes = r.routes
  BY DEF Only, Field
<1>2. Only(r, t, {"rd", "rid", "hold", "gr", "over"})
  BY DEF Only
<1>3. Touched(t, s) => Touched(r, s)
  BY DEF Touched, Only
<1>4. Noted(t, s, p) => Noted(r, s, p)
  BY <1>1, <1>2, NotedAfter
<1>5. ASSUME Queued(t, s) PROVE Queued(r, s)
  <2>1. Only(r, s, {"rd", "rid", "hold", "gr", "ev", "wait", "routes"})
    BY <1>5 DEF Queued, Only
  <2> QED BY <1>1, <1>5, <2>1 DEF Queued
<1> QED BY <1>3, <1>4, <1>5 DEF Handled

(* bgp_notify_send leaves the peer as Noted says.                            *)
LEMMA NotifyNoted ==
  ASSUME NEW w, Good(w), NEW p \in Peer, NEW ok
  PROVE  LET v == bgp_notify_send(w, p, ok)
         IN  Turn(w, v, p) /\ Noted(w.peer[p], v.peer[p], p)
<1> DEFINE v == bgp_notify_send(w, p, ok)
           r == w.peer[p]
           s == v.peer[p]
<1>1. /\ Turn(w, v, p)
      /\ r.init => Refused(r, s, p)
      /\ ~r.init => Ended(r, s, p)
  BY NotifyTurn
<1> HIDE DEF v
<1>2. ~r.init => Down(r, s, p)
  BY <1>1 DEF Ended, Rested, Down
<1>3. r.init => Only(r, s, {"rd", "obuf", "wr", "status", "tm", "rid", "hold",
                            "gr", "over"})
  BY <1>1 DEF Refused, Only
<1>4. r.init => s.rid = r.rid
  BY <1>1 DEF Refused, Only, Field
<1>5. Noted(r, s, p)
  BY <1>1, <1>2, <1>3, <1>4 DEF Noted, Refused
<1> QED BY <1>1, <1>5 DEF v

(* The collision test leaves all alone, or stops one other session that has  *)
(* sent its OPEN.                                                            *)
Collided(w, v, q) ==
  /\ Live(w.plist, q) /\ w.peer[q].status \in {"OpenSent", "OpenConfirm"}
  /\ Turn(w, v, q)
  /\ v = w \/ Noted(w.peer[q], v.peer[q], q)

(* bgp_collision_detect for the configured peer.                             *)
LEMMA CollisionTurn ==
  ASSUME NEW w, Good(w), NEW new \in Peer, NEW id, NEW ok
  PROVE  LET x == bgp_collision_detect(w, new, id, ok)
         IN  \/ x.ret = 0 /\ x.w = w
             \/ /\ x.ret \in {1, -1}
                /\ \E q \in Peer \ {new} : Collided(w, x.w, q)
<1> DEFINE q == FirstColliding(w, new)
           v == bgp_notify_send(w, q, ok)
           x == bgp_collision_detect(w, new, id, ok)
           T == Colliding(w, new)
           k == CHOOSE i \in T : \A j \in T : i <= j
<1>1. CASE T = {}
  <2>1. x = [w |-> w, ret |-> 0]
    BY <1>1 DEF bgp_collision_detect, Ok
  <2> QED BY SMTT(120), <2>1
<1>2. CASE T # {}
  <2>1. w \in WorldType /\ w.plist \in Seq(Peer) /\ Firsts(Len(w.plist))
    BY DEF Good, WorldType, Lists
  <2>2. q \in Peer /\ q # new
    BY <1>2, <2>1, FirstCollidingType
  <2>3. x \in [w : {w, v}, ret : {1, -1}]
    BY <1>2 DEF bgp_collision_detect, Fail
  <2>4. Live(w.plist, q) /\ w.peer[q].status \in {"OpenSent", "OpenConfirm"}
    <3>1. /\ T \in SUBSET (1..Len(w.plist))
          /\ \A i \in T : /\ i \in 1..Len(w.plist)
                          /\ w.peer[w.plist[i]].status \in {"OpenSent", "OpenConfirm"}
      BY SMTT(120), <2>1 DEF Colliding
    <3>2. q = w.plist[k]
      BY DEF FirstColliding
    <3> HIDE DEF T
    <3>3. \E i \in T : \A j \in T : i <= j
      BY <1>2, <2>1, <3>1 DEF Firsts
    <3>4. k \in T
      BY <3>3
    <3> HIDE DEF k, q
    <3> QED BY <3>1, <3>2, <3>4 DEF Live
  <2> HIDE DEF q
  <2>5. Turn(w, v, q) /\ Noted(w.peer[q], v.peer[q], q) /\ Turn(w, w, q)
    BY <2>2, NotifyNoted, TurnRefl
  <2> HIDE DEF v
  <2>6. Collided(w, x.w, q)
    <3>1. x.w = w \/ x.w = v
      BY <2>3
    <3> HIDE DEF x
    <3> QED BY <2>4, <2>5, <3>1 DEF Collided
  <2> QED BY <2>2, <2>3, <2>6
<1> QED BY <1>1, <1>2

(* The neighbour's OPEN is accepted: the event is queued.                    *)
Opening(r, s) ==
  /\ Only(r, s, {"rid", "hold", "gr", "ev"})
  /\ s.ev = <<"Receive_OPEN_message">> /\ Known(s)

(* An OPEN that is accepted queues its event.                                *)
LEMMA OpeningQueued ==
  ASSUME NEW r, NEW s, Opening(r, s)
  PROVE  Queued(r, s)
<1>1. Only(r, s, {"rd", "rid", "hold", "gr", "ev", "wait", "routes"})
  BY DEF Opening, Only
<1>2. s.wait = r.wait /\ s.routes = r.routes
  BY DEF Opening, Only, Field
<1> QED BY <1>1, <1>2 DEF Opening, Queued, ReadEvent

(* bgp_open_receive after the collision has been settled.                    *)
LEMMA NegotiateTurn ==
  ASSUME NEW w, Good(w), NEW p \in Peer, NEW m \in OpenMsg, NEW ok,
         w.peer[p].ev = <<>>
  PROVE  LET v == OpenNegotiate(w, p, m, ok)
         IN  /\ Turn(w, v, p)
             /\ Noted(w.peer[p], v.peer[p], p) \/ Opening(w.peer[p], v.peer[p])
<1> DEFINE r == w.peer[p]
           h == IF m.hold < ConfHold THEN m.hold ELSE ConfHold
           a == [r EXCEPT !.rid = m.id]
           b == [r EXCEPT !.rid = m.id, !.hold = h, !.gr = m.gr]
           w1 == Put(w, p, a)
           w2 == Put(w, p, b)
           v == OpenNegotiate(w, p, m, ok)
<1>1. r \in PeerType /\ m.id \in Nat /\ m.gr \in BOOLEAN /\ h \in Nat
  BY PeerOf, ConstantAssumption
<1>2. \/ v = bgp_notify_send(w, p, ok)
      \/ /\ m.id # 0 /\ m.id # LocalId
         /\ v \in {bgp_notify_send(w1, p, ok), bgp_notify_send(w2, p, ok),
                   EventAdd(w2, p, "Receive_OPEN_message")}
  BY DEF OpenNegotiate
<1> HIDE DEF h, v
<1>3. /\ a \in PeerType /\ a.fd = r.fd /\ a.rd = r.rd /\ a.wr = r.wr
      /\ a.init = r.init /\ a.status = r.status
  BY <1>1 DEF PeerType
<1>4. /\ b \in PeerType /\ b.fd = r.fd /\ b.rd = r.rd /\ b.wr = r.wr
      /\ b.init = r.init /\ b.status = r.status
  BY <1>1 DEF PeerType
<1>5. Only(r, a, {"rid"}) /\ a.rid = m.id
  BY <1>1, Fields DEF Only, Field
<1>6. Only(r, b, {"rid", "hold", "gr"}) /\ b.rid = m.id
  BY <1>1, Fields DEF Only, Field
<1> HIDE DEF a, b
<1>7. /\ Turn(w, w1, p) /\ Good(w1) /\ w1.peer[p] = a
      /\ Turn(w, w2, p) /\ Good(w2) /\ w2.peer[p] = b
  BY <1>3, <1>4, PutTurn
<1> HIDE DEF w1, w2
<1>8. CASE v = bgp_notify_send(w, p, ok)
  BY <1>8, NotifyNoted DEF v
<1>9. ASSUME m.id # 0, m.id # LocalId, NEW u, NEW t, Turn(w, u, p), Good(u),
             u.peer[p] = t, Only(r, t, {"rid", "hold", "gr"}), t.rid = m.id,
             v = bgp_notify_send(u, p, ok)
      PROVE  Turn(w, v, p) /\ Noted(r, v.peer[p], p)
  <2>1. Turn(u, v, p) /\ Noted(t, v.peer[p], p)
    BY <1>9, NotifyNoted
  <2>2. Only(r, t, {"rd", "rid", "hold", "gr", "over"}) /\ Known(t)
    BY <1>9 DEF Only, Known
  <2>3. Noted(r, v.peer[p], p)
    BY <2>1, <2>2, NotedAfter
  <2> QED BY <1>9, <2>1, <2>3, TurnTrans
<1>10. ASSUME m.id # 0, m.id # LocalId,
              v = EventAdd(w2, p, "Receive_OPEN_message")
       PROVE  Turn(w, v, p) /\ Opening(r, v.peer[p])
  <2>1. b.ev = <<>>
    BY <1>6 DEF Only, Field
  <2>2. /\ Turn(w2, v, p) /\ Only(b, v.peer[p], {"ev"})
        /\ v.peer[p].ev = <<"Receive_OPEN_message">>
    BY <1>7, <1>10, <2>1, EventAddTurn DEF Event
  <2>3. Only(r, v.peer[p], {"rid", "hold", "gr", "ev"})
    BY <1>6, <2>2 DEF Only
  <2>4. v.peer[p].rid = m.id
    BY <1>6, <2>2 DEF Only, Field
  <2> QED BY <1>7, <1>10, <2>2, <2>3, <2>4, TurnTrans DEF Opening, Known
<1>11. Only(r, a, {"rid", "hold", "gr"})
  BY <1>5 DEF Only
<1>12. Turn(w, v, p) /\ (Noted(r, v.peer[p], p) \/ Opening(r, v.peer[p]))
  BY <1>2, <1>5, <1>6, <1>7, <1>8, <1>9, <1>10, <1>11 DEF v
<1> QED BY <1>12 DEF v

(* bgp_update_receive learns routes or sends a NOTIFICATION.                 *)
LEMMA UpdateTurn ==
  ASSUME NEW w, Good(w), NEW p \in Peer, NEW type, NEW ok, NEW alt,
         w.peer[p].ev = <<>>
  PROVE  LET v == bgp_update_receive(w, p, type, ok, alt)
         IN  Turn(w, v, p) /\ Handled(w.peer[p], v.peer[p], p)
<1> DEFINE r == w.peer[p]
           o == [r EXCEPT !.over = TRUE]
           w1 == Put(w, p, o)
           over == bgp_notify_send(w1, p, ok)
           tm == over.peer[p].tm \cup {"pmax_restart"}
           q == [over.peer[p] EXCEPT !.tm = tm]
           both == (r.routes \cup {"fresh"}) \ (IF alt THEN {"stale"} ELSE {})
           rs == IF type = "EOR" THEN DropStale(r) ELSE both
           d == [r EXCEPT !.routes = rs]
           w2 == Put(w, p, d)
           v == bgp_update_receive(w, p, type, ok, alt)
<1> SUFFICES Turn(w, v, p) /\ Handled(r, v.peer[p], p)
  OBVIOUS
<1>1. r \in PeerType
  BY PeerOf
<1>2. \/ v = bgp_notify_send(w, p, ok)
      \/ /\ r.status = "Established"
         /\ v \in {over, Put(over, p, q),
                   EventAdd(w2, p, "Receive_UPDATE_message")}
  BY DEF bgp_update_receive
<1> HIDE DEF v
<1>3. CASE v = bgp_notify_send(w, p, ok)
  BY <1>3, NotifyNoted DEF Handled
<1>4. /\ o \in PeerType /\ o.fd = r.fd /\ o.rd = r.rd /\ o.wr = r.wr
      /\ o.init = r.init /\ o.status = r.status /\ Only(r, o, {"over"})
  BY <1>1, Fields DEF PeerType, Only, Field
<1> HIDE DEF o
<1>5. Turn(w, w1, p) /\ Good(w1) /\ w1.peer[p] = o
  BY <1>4, PutTurn
<1> HIDE DEF w1
<1>6. Turn(w, over, p) /\ Noted(r, over.peer[p], p)
  <2>1. Turn(w1, over, p) /\ Noted(o, over.peer[p], p)
    BY <1>5, NotifyNoted
  <2>2. Only(r, o, {"rd", "rid", "hold", "gr", "over"}) /\ o.rid = r.rid
    BY <1>4 DEF Only, Field
  <2>3. Noted(r, over.peer[p], p)
    BY <2>1, <2>2, NotedAfter
  <2> QED BY <1>5, <2>1, <2>3, TurnTrans
<1> HIDE DEF over
<1>7. CASE v = Put(over, p, q) /\ r.status = "Established"
  <2>1. Good(over) /\ over.peer[p] \in PeerType
    BY <1>6, TurnType
  <2>2. tm \in SUBSET (FsmTimer \cup SideTimer)
    BY <2>1 DEF PeerType, SideTimer
  <2> HIDE DEF tm
  <2>3. /\ q \in PeerType /\ q.fd = over.peer[p].fd /\ q.rd = over.peer[p].rd
        /\ q.wr = over.peer[p].wr /\ q.init = over.peer[p].init
        /\ q.status = over.peer[p].status
    BY <2>1, <2>2 DEF PeerType
  <2>4. Only(over.peer[p], q, {"tm"}) /\ q.tm = tm
    BY <2>1, Fields DEF Only, Field
  <2> HIDE DEF q
  <2>5. Turn(over, v, p) /\ v.peer[p] = q
    BY <1>7, <2>1, <2>3, PutTurn
  <2>6. Noted(r, q, p)
    <3> DEFINE u == over.peer[p]
    <3>0. /\ q.fd = u.fd /\ q.rd = u.rd /\ q.wr = u.wr /\ q.ev = u.ev
          /\ q.init = u.init /\ q.shut = u.shut /\ q.wait = u.wait
          /\ q.routes = u.routes /\ q.nsf = u.nsf /\ q.status = u.status
          /\ q.rid = u.rid /\ q.over = u.over /\ q.hold = u.hold
      BY <2>4 DEF Only, Field
    <3>1. TimersOf(q, p) = TimersOf(u, p)
      BY <2>1, <3>0, SameTimersOf
    <3>2. Timed(u, p) => Timed(q, p)
      BY <2>4, <3>1 DEF Timed, tm, FsmTimer
    <3>3. u.tm \subseteq q.tm
      BY <2>4 DEF tm
    <3>4. ~r.init => Down(r, q, p)
      <4>1. ~r.init => Down(r, u, p)
        BY <1>6 DEF Noted
      <4> HIDE DEF u
      <4> QED BY <1>7, <3>0, <3>2, <3>3, <4>1 DEF Down
    <3>5. r.init => Only(r, q, {"rd", "obuf", "wr", "status", "tm", "rid",
                                "hold", "gr", "over"})
      BY <1>6, <2>4 DEF Noted, Only
    <3> QED BY <1>6, <3>0, <3>2, <3>4, <3>5 DEF Noted, Known
  <2> QED BY <1>6, <2>5, <2>6, TurnTrans DEF Handled
<1>8. CASE v = EventAdd(w2, p, "Receive_UPDATE_message") /\ r.status = "Established"
  <2>1. rs \in SUBSET {"fresh", "stale"} /\ rs \subseteq r.routes \cup {"fresh"}
    BY <1>1 DEF PeerType, DropStale
  <2> HIDE DEF rs
  <2>2. /\ d \in PeerType /\ d.fd = r.fd /\ d.rd = r.rd /\ d.wr = r.wr
        /\ d.init = r.init /\ d.status = r.status
    BY <1>1, <2>1 DEF PeerType
  <2>3. Only(r, d, {"routes"}) /\ d.routes = rs
    BY <1>1, Fields DEF Only, Field
  <2> HIDE DEF d
  <2>4. Turn(w, w2, p) /\ Good(w2) /\ w2.peer[p] = d
    BY <2>2, PutTurn
  <2> HIDE DEF w2
  <2>5. d.ev = <<>> /\ d.rid = r.rid /\ d.wait = r.wait
    BY <2>3 DEF Only, Field
  <2>6. /\ Turn(w2, v, p) /\ Only(d, v.peer[p], {"ev"})
        /\ v.peer[p].ev = <<"Receive_UPDATE_message">>
    BY <1>8, <2>4, <2>5, EventAddTurn DEF Event
  <2>7. Only(r, v.peer[p], {"rd", "rid", "hold", "gr", "ev", "wait", "routes"})
    BY <2>3, <2>6 DEF Only
  <2>8. v.peer[p].rid = d.rid /\ v.peer[p].wait = d.wait /\ v.peer[p].routes = rs
    BY <2>3, <2>6 DEF Only, Field
  <2>9. Queued(r, v.peer[p])
    <3> DEFINE e == "Receive_UPDATE_message"
    <3>1. e \in ReadEvent /\ e # "Receive_OPEN_message" /\ e # "BGP_Stop"
      BY DEF ReadEvent
    <3>2. v.peer[p].ev = <<e>>
      BY <2>6
    <3>3. /\ v.peer[p].rid = r.rid /\ v.peer[p].wait = r.wait
          /\ v.peer[p].routes \subseteq r.routes \cup {"fresh"}
      BY <2>1, <2>5, <2>8
    <3> HIDE DEF e
    <3> QED BY <1>8, <2>7, <3>1, <3>2, <3>3 DEF Queued
  <2> QED BY <2>4, <2>6, <2>9, TurnTrans DEF Handled
<1> QED BY <1>2, <1>3, <1>6, <1>7, <1>8 DEF Handled

(* A failed read queues the event of the lost connection.                    *)
LEMMA LostTurn ==
  ASSUME NEW w, Good(w), NEW p \in Peer, w.peer[p].ev = <<>>,
         NEW e \in {"TCP_connection_closed", "TCP_fatal_error"}
  PROVE  LET v == ConnectionLost(w, p, e)
         IN  Turn(w, v, p) /\ Handled(w.peer[p], v.peer[p], p)
<1> DEFINE r == w.peer[p]
           x == r.wait \/ (r.status = "Established" /\ r.mode)
           s == [r EXCEPT !.wait = x]
           w1 == Put(w, p, s)
           v == ConnectionLost(w, p, e)
<1>1. r \in PeerType /\ x \in BOOLEAN /\ e \in Event
  BY PeerOf DEF Event
<1>2. v = EventAdd(w1, p, e)
  BY DEF ConnectionLost
<1>0. r.wait => x
  OBVIOUS
<1> HIDE DEF x, v
<1>3. /\ s \in PeerType /\ s.fd = r.fd /\ s.rd = r.rd /\ s.wr = r.wr
      /\ s.init = r.init /\ s.status = r.status
  BY <1>1 DEF PeerType
<1>4. Only(r, s, {"wait"}) /\ s.wait = x
  BY <1>1, Fields DEF Only, Field
<1> HIDE DEF s
<1>5. Turn(w, w1, p) /\ Good(w1) /\ w1.peer[p] = s
  BY <1>3, PutTurn
<1> HIDE DEF w1
<1>6. s.ev = <<>> /\ s.rid = r.rid /\ s.routes = r.routes
  BY <1>4 DEF Only, Field
<1>7. /\ Turn(w1, v, p) /\ Only(s, v.peer[p], {"ev"}) /\ v.peer[p].ev = <<e>>
  BY <1>1, <1>2, <1>5, <1>6, EventAddTurn
<1>8. Only(r, v.peer[p], {"rd", "rid", "hold", "gr", "ev", "wait", "routes"})
  BY <1>4, <1>7 DEF Only
<1>9. v.peer[p].rid = r.rid /\ v.peer[p].wait = x /\ v.peer[p].routes = r.routes
  BY <1>4, <1>6, <1>7 DEF Only, Field
<1>10. e \in ReadEvent /\ e # "Receive_OPEN_message" /\ e # "BGP_Stop"
  BY DEF ReadEvent
<1>11. Queued(r, v.peer[p])
  BY <1>0, <1>7, <1>8, <1>9, <1>10 DEF Queued
<1> QED BY <1>5, <1>7, <1>11, TurnTrans DEF Handled, v

(* Messages other than OPEN.                                                 *)
LEMMA MessageTurn ==
  ASSUME NEW w, Good(w), NEW p \in Peer, NEW m, NEW c, m.type # "OPEN",
         w.peer[p].ev = <<>>, w.peer[p].fd # NoFd
  PROVE  LET v == ReadMsg(w, p, m, c)
         IN  Turn(w, v, p) /\ Handled(w.peer[p], v.peer[p], p)
<1> DEFINE v == ReadMsg(w, p, m, c)
           r == w.peer[p]
<1> SUFFICES Turn(w, v, p) /\ Handled(r, v.peer[p], p)
  OBVIOUS
<1>1. ASSUME v = bgp_notify_send(w, p, c.ok)
      PROVE  Turn(w, v, p) /\ Handled(r, v.peer[p], p)
  <2> HIDE DEF v
  <2> QED BY <1>1, NotifyNoted DEF Handled
<1>2. ASSUME NEW e \in {"Receive_KEEPALIVE_message",
                        "Receive_NOTIFICATION_message", "BGP_Stop"},
             v = EventAdd(w, p, e),
             e = "BGP_Stop" => r.status = "Established"
      PROVE  Turn(w, v, p) /\ Handled(r, v.peer[p], p)
  <2> HIDE DEF v
  <2>1. e \in Event /\ e \in ReadEvent /\ e # "Receive_OPEN_message"
    BY <1>2 DEF Event, ReadEvent
  <2>2. Turn(w, v, p) /\ Only(r, v.peer[p], {"ev"}) /\ v.peer[p].ev = <<e>>
    BY <1>2, <2>1, EventAddTurn
  <2>3. Only(r, v.peer[p], {"rd", "rid", "hold", "gr", "ev", "wait", "routes"})
    BY <2>2 DEF Only
  <2>4. /\ v.peer[p].rid = r.rid /\ v.peer[p].routes = r.routes
        /\ v.peer[p].wait = r.wait
    BY <2>2 DEF Only, Field
  <2>5. Queued(r, v.peer[p])
    BY <1>2, <2>1, <2>2, <2>3, <2>4 DEF Queued
  <2> QED BY <2>2, <2>5 DEF Handled
<1>3. CASE m.type = "partial"
  <2>1. v = w
    BY <1>3 DEF ReadMsg
  <2> HIDE DEF v
  <2> QED BY <2>1, TurnRefl DEF Handled, Touched, Only
<1>4. CASE m.type \in {"closed", "fatal"}
  <2> DEFINE e == IF m.type = "closed" THEN "TCP_connection_closed"
                  ELSE "TCP_fatal_error"
  <2>1. v = ConnectionLost(w, p, e)
    BY <1>4 DEF ReadMsg
  <2>2. e \in {"TCP_connection_closed", "TCP_fatal_error"}
    OBVIOUS
  <2> HIDE DEF v, e
  <2> QED BY <2>1, <2>2, LostTurn
<1>5. CASE m.type = "badheader"
  <2>1. v = bgp_notify_send(w, p, c.ok)
    BY <1>5 DEF ReadMsg
  <2> QED BY <1>1, <2>1
<1>6. CASE m.type = "KEEPALIVE"
  <2>1. v = EventAdd(w, p, "Receive_KEEPALIVE_message")
    BY <1>6 DEF ReadMsg
  <2> QED BY <1>2, <2>1
<1>7. CASE m.type = "NOTIFY"
  <2>1. v = EventAdd(w, p, "Receive_NOTIFICATION_message")
    BY <1>7 DEF ReadMsg
  <2> QED BY <1>2, <2>1
<1>8. CASE m.type = "REFRESH"
  <2>1. v = bgp_route_refresh_receive(w, p, c.ok, c.alt)
    BY <1>8 DEF ReadMsg
  <2>2. v = bgp_notify_send(w, p, c.ok) \/ v = SendData(w, p)
    BY <2>1 DEF bgp_route_refresh_receive
  <2>3. ASSUME v = SendData(w, p)
        PROVE  Turn(w, v, p) /\ Handled(r, v.peer[p], p)
    <3> HIDE DEF v
    <3>1. Turn(w, v, p) /\ Only(r, v.peer[p], {"obuf", "wr"})
      BY <2>3, SendTurn
    <3>2. Touched(r, v.peer[p])
      BY <3>1 DEF Touched, Only
    <3> QED BY <3>1, <3>2 DEF Handled
  <2> QED BY <1>1, <2>2, <2>3
<1>9. CASE m.type = "CAPABILITY"
  <2>1. v = bgp_capability_receive(w, p, c.ok, c.alt)
    BY <1>9 DEF ReadMsg
  <2>2. \/ v = bgp_notify_send(w, p, c.ok)
        \/ v = EventAdd(w, p, "BGP_Stop") /\ r.status = "Established"
    BY <2>1 DEF bgp_capability_receive
  <2> QED BY <1>1, <1>2, <2>2
<1>10. CASE m.type \notin {"partial", "badheader", "closed", "fatal",
                           "KEEPALIVE", "NOTIFY", "REFRESH", "CAPABILITY"}
  <2>1. v = bgp_update_receive(w, p, m.type, c.ok, c.alt)
    BY <1>10 DEF ReadMsg
  <2> HIDE DEF v
  <2> QED BY <2>1, UpdateTurn
<1> QED BY <1>3, <1>4, <1>5, <1>6, <1>7, <1>8, <1>9, <1>10

(* Two stretches that keep no more routes than they may compose.             *)
LEMMA SurviveTrans ==
  ASSUME NEW r, NEW s, NEW t, Survive(r, s), Survive(s, t),
         s.status # "Established"
  PROVE  Survive(r, t)
BY DEF Survive

(* A change to other fields keeps the routes.                                *)
LEMMA SurviveOnly ==
  ASSUME NEW r, NEW s, r.status # "Established",
         s.routes = r.routes, s.nsf = r.nsf, s.wait = r.wait, s.tm = r.tm
  PROVE  Survive(r, s)
BY DEF Survive

(* A session that goes down keeps stale routes only.                         *)
LEMMA DownSurvive ==
  ASSUME NEW r \in PeerType, NEW s, NEW p, Down(r, s, p)
  PROVE  Survive(r, s)
<1>1. CASE r.status = "Established"
  <2>1. CASE r.wait /\ r.nsf /\ "fresh" \in r.routes
    <3>1. s.routes = {"stale"} /\ s.nsf /\ s.wait
      BY <1>1, <2>1 DEF Down
    <3>2. "gr_stale" \in s.tm
      BY <1>1, <2>1 DEF Down, StoppedTm, GrTimer
    <3> QED BY <1>1, <3>1, <3>2 DEF Survive
  <2>2. CASE ~(r.wait /\ r.nsf /\ "fresh" \in r.routes)
    <3>1. s.routes = {}
      BY <1>1, <2>2 DEF Down
    <3> QED BY <1>1, <3>1 DEF Survive
  <2> QED BY <2>1, <2>2
<1>2. CASE r.status # "Established"
  <2>1. s.routes = r.routes /\ s.nsf = r.nsf /\ s.wait = r.wait
    BY <1>2 DEF Down
  <2>2. "gr_stale" \in r.tm => "gr_stale" \in s.tm
    BY <1>2 DEF Down, StoppedTm, SideTimer
  <2> QED BY <1>2, <2>1, <2>2 DEF Survive
<1> QED BY <1>1, <1>2

(* So does one that bgp_stop halts.                                          *)
LEMMA StoppedSurvive ==
  ASSUME NEW r \in PeerType, NEW s, Stopped(r, s)
  PROVE  Survive(r, s) /\ s.status # "Established"
<1>0. s.status # "Established"
  BY DEF Stopped
<1>1. CASE r.status = "Established"
  <2>1. CASE r.wait /\ r.nsf /\ "fresh" \in r.routes
    <3>1. s.routes = {"stale"} /\ s.nsf /\ s.wait
      BY <1>1, <2>1 DEF Stopped, Rested
    <3>2. "gr_stale" \in s.tm
      BY <1>1, <2>1 DEF Stopped, StoppedTm, GrTimer
    <3> QED BY <1>0, <1>1, <3>1, <3>2 DEF Survive
  <2>2. CASE ~(r.wait /\ r.nsf /\ "fresh" \in r.routes)
    <3>1. s.routes = {}
      BY <1>1, <2>2 DEF Stopped, Rested
    <3> QED BY <1>0, <1>1, <3>1 DEF Survive
  <2> QED BY <2>1, <2>2
<1>2. CASE r.status # "Established"
  <2>1. s.routes = r.routes /\ s.nsf = r.nsf /\ s.wait = r.wait
    BY <1>2 DEF Stopped, Rested
  <2>2. "gr_stale" \in r.tm => "gr_stale" \in s.tm
    BY <1>2 DEF Stopped, StoppedTm, SideTimer
  <2> QED BY <1>0, <1>2, <2>1, <2>2 DEF Survive
<1> QED BY <1>1, <1>2

(* The hand-over of the temporary peer p, which has sent its OPEN.           *)
LEMMA HandOverTurn ==
  ASSUME NEW w, Good(w), NEW p \in Accept, ~w.peer[p].init,
         w.peer[p].status # "Established"
  PROVE  LET v == bgp_stop(HandOver(w, p), p)
         IN  /\ v.plist = w.plist
             /\ v.peer[p].routes = w.peer[p].routes
             /\ v.peer[p].shut = w.peer[p].shut
             /\ Only(w.peer[Conf], v.peer[Conf], {"fd", "status"})
             /\ v.peer[Conf].status = w.peer[p].status
<1> DEFINE r == w.peer[p]
           a == [r EXCEPT !.fd = NoFd]
           b == [w.peer[Conf] EXCEPT !.fd = r.fd, !.status = r.status]
           u == HandOver(w, p)
           s == IF a.status = "Established" THEN LeaveEstablished(a) ELSE a
           t == [s EXCEPT !.rd = NoThread, !.wr = NoThread,
                          !.tm = @ \cap SideTimer, !.ev = <<>>,
                          !.obuf = "none", !.fd = NoFd, !.rid = 0,
                          !.gr = FALSE, !.hold = ConfHold]
           v == bgp_stop(u, p)
<1>0. p \in Peer /\ Conf \in Peer /\ p # Conf
  BY ConstantAssumption DEF Peer
<1>1. r \in PeerType /\ w.peer[Conf] \in PeerType /\ w \in WorldType
  BY <1>0, PeerOf DEF Good
<1>2. a \in PeerType /\ a.init = r.init /\ a.fd = NoFd /\ a.status = r.status
      /\ a.routes = r.routes /\ a.shut = r.shut
  BY <1>1 DEF PeerType
<1>3. Only(w.peer[Conf], b, {"fd", "status"}) /\ b.status = r.status /\ b \in PeerType
  BY <1>1, Fields DEF Only, Field, PeerType
<1>4. u = Put(Put(w, p, a), Conf, b)
  BY DEF HandOver
<1> HIDE DEF a, b
<1>5. /\ u \in WorldType /\ u.peer[p] = a /\ u.peer[Conf] = b
      /\ u.plist = w.plist
  <2> HIDE DEF u
  <2> DEFINE w1 == Put(w, p, a)
  <2>1. /\ w1 \in WorldType /\ w1.plist = w.plist /\ w1.peer[p] = a
        /\ \A q \in Peer \ {p} : w1.peer[q] = w.peer[q]
    BY <1>0, <1>1, <1>2 DEF WorldType, Put
  <2>2. u = Put(w1, Conf, b)
    BY <1>4
  <2> HIDE DEF w1
  <2>3. /\ u \in WorldType /\ u.plist = w1.plist /\ u.peer[Conf] = b
        /\ \A q \in Peer \ {Conf} : u.peer[q] = w1.peer[q]
    BY <1>0, <1>3, <2>1, <2>2 DEF WorldType, Put
  <2> QED BY <1>0, <2>1, <2>3
<1> HIDE DEF u
<1>6. v = Close(Put(u, p, t), NoFd)
  <2>1. ~a.init /\ a.fd = NoFd
    BY <1>2
  <2>2. u.peer[p] = a
    BY <1>5
  <2> QED BY <2>1, <2>2 DEF bgp_stop
<1>6a. s = a
  BY <1>2
<1> HIDE DEF s
<1>7. t.routes = a.routes /\ t.shut = a.shut
  BY <1>2, <1>6a DEF PeerType
<1> HIDE DEF t, v
<1>8. /\ v.peer[p] = t /\ v.peer[Conf] = u.peer[Conf] /\ v.plist = u.plist
  BY <1>0, <1>5, <1>6 DEF Put, Close, WorldType
<1> QED BY <1>2, <1>3, <1>5, <1>7, <1>8 DEF u, v

(* The hand-over of a descriptor in bgp_open_receive.                        *)
LEMMA TransferTurn ==
  ASSUME NEW w, Good(w), NEW p \in Accept, ~w.peer[p].init,
         w.peer[p].status = "OpenSent", w.peer[p].fd # NoFd,
         w.peer[Conf].ev = <<>>
  PROVE  LET v == Transfer(w, p)
             r == w.peer[Conf]
             s == v.peer[Conf]
         IN  /\ Good(v) /\ v.plist = w.plist
             /\ \A q \in Peer \ {p, Conf} : v.peer[q] = w.peer[q]
             /\ v.peer[p].routes = w.peer[p].routes
             /\ v.peer[p].shut = w.peer[p].shut /\ ~v.peer[p].init
             /\ s.status = "OpenSent" /\ s.fd = w.peer[p].fd /\ s.ev = <<>>
             /\ s.init = r.init /\ s.shut = r.shut
             /\ ~r.init => Survive(r, s)
<1> DEFINE w1 == bgp_stop(w, Conf)
           w2 == bgp_stop(HandOver(w1, p), p)
           w3 == SendData(w2, Conf)
           v == ReadOn(w3, Conf)
           r == w.peer[Conf]
           r1 == w1.peer[Conf]
           r2 == w2.peer[Conf]
           s == v.peer[Conf]
<1>0. p \in Peer /\ Conf \in Peer /\ p # Conf /\ r \in PeerType
  BY ConstantAssumption, PeerOf DEF Peer
<1>1. Transfer(w, p) = v
  BY DEF Transfer
<1>2. /\ Turn(w, w1, Conf)
      /\ r.init => w1 = w
      /\ ~r.init => Stopped(r, r1)
  BY <1>0, StopTurn
<1>3. Good(w1)
  BY <1>0, <1>2, TurnType
<1> HIDE DEF w1
<1>4. w1.peer[p] = w.peer[p] /\ w1.plist = w.plist
      /\ \A q \in Peer \ {Conf} : w1.peer[q] = w.peer[q]
  BY <1>0, <1>2 DEF Turn, From
<1>5. /\ r1.ev = <<>> /\ r1.init = r.init /\ r1.shut = r.shut
      /\ ~r.init => Survive(r, r1) /\ r1.status # "Established"
  <2>1. CASE r.init
    <3>1. r1 = r
      BY <1>2, <2>1
    <3> HIDE DEF r1
    <3> QED BY <2>1, <3>1
  <2>2. CASE ~r.init
    <3>1. Stopped(r, r1)
      BY <1>2, <2>2
    <3>2. r1.ev = <<>> /\ r1.init = r.init /\ r1.shut = r.shut
      BY <3>1 DEF Stopped, Rested
    <3> QED BY <1>0, <3>1, <3>2, StoppedSurvive
  <2> QED BY <2>1, <2>2
<1>6. /\ Good(w2) /\ r2.fd = w.peer[p].fd
      /\ \A q \in Peer : w2.peer[q].init = w1.peer[q].init
      /\ \A q \in Peer \ {p, Conf} : w2.peer[q] = w1.peer[q]
  BY SMTT(120), <1>3, <1>4, HandOverGood
<1>7. /\ w2.plist = w1.plist
      /\ w2.peer[p].routes = w.peer[p].routes
      /\ w2.peer[p].shut = w.peer[p].shut
      /\ Only(r1, r2, {"fd", "status"}) /\ r2.status = "OpenSent"
  BY SMTT(120), <1>3, <1>4, HandOverTurn
<1> HIDE DEF w2
<1>8. Turn(w2, w3, Conf) /\ Only(r2, w3.peer[Conf], {"obuf", "wr"})
  BY <1>0, <1>6, SendTurn
<1>9. Good(w3) /\ w3.peer[Conf].fd # NoFd
  BY <1>0, <1>6, <1>8, TurnType DEF Only, Field
<1> HIDE DEF w3
<1>10. Turn(w3, v, Conf) /\ Only(w3.peer[Conf], s, {"rd"})
  BY <1>0, <1>9, ReadOnTurn
<1> HIDE DEF v
<1>11. Turn(w2, v, Conf) /\ Only(r2, s, {"rd", "obuf", "wr"})
  BY <1>8, <1>10, TurnTrans DEF Only
<1>12. /\ Good(v) /\ v.plist = w2.plist
       /\ \A q \in Peer \ {Conf} : v.peer[q] = w2.peer[q]
  BY <1>11 DEF Turn, From
<1>13. /\ s.status = r2.status /\ s.fd = r2.fd /\ s.ev = r2.ev
       /\ s.init = r2.init /\ s.shut = r2.shut /\ s.routes = r2.routes
       /\ s.nsf = r2.nsf /\ s.wait = r2.wait /\ s.tm = r2.tm
  BY <1>11 DEF Only, Field
<1>14. /\ r2.ev = r1.ev /\ r2.init = r1.init /\ r2.shut = r1.shut
       /\ r2.routes = r1.routes /\ r2.nsf = r1.nsf /\ r2.wait = r1.wait
       /\ r2.tm = r1.tm
  BY <1>7 DEF Only, Field
<1>15. ~r.init => Survive(r, s)
  <2> SUFFICES ASSUME ~r.init PROVE Survive(r, s)
    OBVIOUS
  <2>1. s.routes = r1.routes /\ s.nsf = r1.nsf /\ s.wait = r1.wait /\ s.tm = r1.tm
    BY <1>13, <1>14
  <2>2. Survive(r1, s)
    BY <1>5, <2>1, SurviveOnly
  <2> QED BY <1>5, <2>2, SurviveTrans
<1>16. /\ \A q \in Peer \ {p, Conf} : v.peer[q] = w.peer[q]
       /\ v.peer[p] = w2.peer[p] /\ ~w2.peer[p].init
  BY <1>0, <1>4, <1>6, <1>12
<1>17. s.init = r.init /\ s.shut = r.shut /\ s.ev = <<>>
  BY <1>5, <1>13, <1>14
<1> QED BY <1>1, <1>4, <1>6, <1>7, <1>12, <1>13, <1>15, <1>16, <1>17

=============================================================================
