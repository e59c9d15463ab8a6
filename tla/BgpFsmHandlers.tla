--------------------------- MODULE BgpFsmHandlers ---------------------------
(* What the handlers of descriptors and timers and the operator's commands   *)
(* do to the structures: the configured peer, the temporary peer that reads  *)
(* an OPEN, and the peers that a collision ends. So every step of bgpd is    *)
(* one of the moves of BgpFsmMoves.                                          *)
EXTENDS BgpFsmEffects

(* The prover of every step that does not name another one.                  *)
USE ZenonT(60)

(* Another connection may have been closed by the collision test.            *)
Aside(w, v, p) ==
  /\ Good(v) /\ v.plist = w.plist /\ v.peer[p] = w.peer[p]
  /\ \A q \in Peer \ {p} : \/ v.peer[q] = w.peer[q]
                           \/ /\ Live(w.plist, q)
                              /\ w.peer[q].status \in {"OpenSent", "OpenConfirm"}
                              /\ Noted(w.peer[q], v.peer[q], q)

(* bgp_collision_detect, called for an accepted connection.                  *)
LEMMA CollisionAside ==
  ASSUME NEW w, Good(w), NEW p \in Peer, NEW id, NEW ok
  PROVE  LET x == bgp_collision_detect(w, p, id, ok)
         IN  /\ Aside(w, x.w, p)
             /\ \/ x.ret = 0
                \/ x.ret = -1
                \/ /\ x.ret = 1
                   /\ \E q \in Peer \ {p} :
                        Live(w.plist, q) /\ w.peer[q].status \in {"OpenSent", "OpenConfirm"}
<1> DEFINE x == bgp_collision_detect(w, p, id, ok)
<1>1. \/ x.ret = 0 /\ x.w = w
      \/ x.ret \in {1, -1} /\ \E q \in Peer \ {p} : Collided(w, x.w, q)
  BY CollisionTurn
<1> HIDE DEF x
<1>2. CASE x.ret = 0 /\ x.w = w
  BY <1>2 DEF Aside, x
<1>3. ASSUME x.ret \in {1, -1}, NEW q \in Peer \ {p}, Collided(w, x.w, q)
      PROVE  /\ Aside(w, x.w, p)
             /\ Live(w.plist, q) /\ w.peer[q].status \in {"OpenSent", "OpenConfirm"}
  BY <1>3 DEF Aside, Collided, Turn, From
<1> QED BY <1>1, <1>2, <1>3 DEF x

(* The configured peer reads an OPEN.                                        *)
LEMMA OpenConf ==
  ASSUME NEW w, Good(w), NEW m \in OpenMsg, NEW ok, w.peer[Conf].ev = <<>>
  PROVE  LET v == bgp_open_receive(w, Conf, m, ok)
         IN  \E u : /\ Aside(w, u, Conf) /\ Turn(u, v, Conf)
                    /\ Handled(w.peer[Conf], v.peer[Conf], Conf)
<1> DEFINE col == bgp_collision_detect(w, Conf, m.id, ok)
           u == col.w
           v == bgp_open_receive(w, Conf, m, ok)
           r == w.peer[Conf]
<1>0. Conf \in Peer
  BY DEF Peer
<1>1. v = u \/ v = OpenNegotiate(u, Conf, m, ok)
  BY DEF bgp_open_receive
<1>2. Aside(w, u, Conf)
  BY <1>0, CollisionAside
<1> HIDE DEF u, v
<1>3. Good(u) /\ u.peer[Conf] = r
  BY <1>2 DEF Aside
<1>4. Turn(u, v, Conf) /\ Handled(r, v.peer[Conf], Conf)
  <2>1. CASE v = u
    BY <1>0, <1>3, <2>1, TurnRefl DEF Handled, Touched, Only
  <2>2. CASE v = OpenNegotiate(u, Conf, m, ok)
    <3>1. Turn(u, v, Conf) /\ (Noted(r, v.peer[Conf], Conf) \/ Opening(r, v.peer[Conf]))
      BY <1>0, <1>3, <2>2, NegotiateTurn
    <3> QED BY <3>1, OpeningQueued DEF Handled
  <2> QED BY <1>1, <2>1, <2>2
<1> QED BY <1>2, <1>4 DEF v

(* A temporary peer p read a message and will be deleted.                    *)
Reached(w, v, p) ==
  /\ Good(v) /\ v.plist = w.plist
  /\ ~v.peer[p].init /\ v.peer[p].shut = w.peer[p].shut
  /\ v.peer[p].routes = w.peer[p].routes
  /\ \A q \in Peer \ {p, Conf} : Beside(w, v, q)
  /\ \/ Beside(w, v, Conf)
     \/ /\ Live(w.plist, Conf) /\ Busy(w, p)
        /\ TakenOver(w.peer[Conf], v.peer[Conf], w.peer[p].fd)

(* What a temporary peer does after a collision concerns itself.             *)
LEMMA AsideReached ==
  ASSUME NEW w, NEW u, NEW v, NEW p \in Accept, Aside(w, u, p), Turn(u, v, p),
         ~v.peer[p].init, v.peer[p].shut = w.peer[p].shut,
         v.peer[p].routes = w.peer[p].routes
  PROVE  Reached(w, v, p)
<1>1. p \in Peer /\ Conf \in Peer /\ p # Conf
  BY ConstantAssumption DEF Peer
<1>2. Good(v) /\ v.plist = w.plist
  BY DEF Turn, From, Aside
<1>3. \A q \in Peer \ {p} : Beside(w, v, q)
  BY DEF Turn, From, Aside, Beside
<1> QED BY <1>1, <1>2, <1>3 DEF Reached

Adopt(w, p, b, m, ok) ==
  OpenNegotiate(Transfer(Put(w, Conf, [w.peer[Conf] EXCEPT !.wait = @ \/ b]), p),
                Conf, m, ok)

Adopted(w, v, p) ==
  /\ Good(v) /\ v.plist = w.plist
  /\ \A q \in Peer \ {p, Conf} : v.peer[q] = w.peer[q]
  /\ v.peer[p].routes = w.peer[p].routes
  /\ v.peer[p].shut = w.peer[p].shut /\ ~v.peer[p].init
  /\ TakenOver(w.peer[Conf], v.peer[Conf], w.peer[p].fd)

(* The wait flag is raised, the connection handed over and the OPEN judged.  *)
LEMMA TakeOverTurn ==
  ASSUME NEW w, Good(w), NEW p \in Accept, ~w.peer[p].init,
         w.peer[p].status = "OpenSent", w.peer[p].fd # NoFd,
         w.peer[Conf].ev = <<>>, NEW b \in BOOLEAN,
         b => w.peer[Conf].status = "Established",
         NEW m \in OpenMsg, NEW ok
  PROVE  Adopted(w, Adopt(w, p, b, m, ok), p)
<1> DEFINE v == Adopt(w, p, b, m, ok)
<1> SUFFICES Adopted(w, v, p)
  OBVIOUS
<1> DEFINE r == w.peer[Conf]
           rx == [r EXCEPT !.wait = @ \/ b]
           x == Put(w, Conf, rx)
           y == Transfer(x, p)
           ry == y.peer[Conf]
           s == v.peer[Conf]
<1>a. v = OpenNegotiate(y, Conf, m, ok)
  BY DEF Adopt
<1> HIDE DEF v
<1>0. p \in Peer /\ Conf \in Peer /\ p # Conf /\ r \in PeerType
  BY ConstantAssumption, PeerOf DEF Peer
<1>1. rx \in PeerType /\ Only(r, rx, {"wait"})
  <2>1. rx \in PeerType
    BY <1>0 DEF PeerType
  <2>2. Only(r, rx, {"wait"})
    BY <1>0, Fields DEF Only, Field
  <2> QED BY <2>1, <2>2
<1>2. /\ rx.fd = r.fd /\ rx.rd = r.rd /\ rx.wr = r.wr /\ rx.init = r.init /\ rx.shut = r.shut
      /\ rx.status = r.status /\ rx.ev = r.ev /\ rx.routes = r.routes
      /\ rx.nsf = r.nsf /\ rx.tm = r.tm
  BY <1>1 DEF Only, Field
<1>3. ~b => rx.wait = r.wait
  BY <1>0, Fields DEF PeerType
<1> HIDE DEF rx
<1>4. Turn(w, x, Conf) /\ x.peer[Conf] = rx
  BY SMTT(120), <1>0, <1>1, <1>2, PutTurn
<1> HIDE DEF x
<1>5. Good(x) /\ x.plist = w.plist /\ \A q \in Peer \ {Conf} : x.peer[q] = w.peer[q]
  BY <1>4 DEF Turn, From
<1>6. /\ Good(y) /\ y.plist = x.plist
      /\ \A q \in Peer \ {p, Conf} : y.peer[q] = x.peer[q]
      /\ y.peer[p].routes = x.peer[p].routes
      /\ y.peer[p].shut = x.peer[p].shut /\ ~y.peer[p].init
      /\ ry.status = "OpenSent" /\ ry.fd = x.peer[p].fd /\ ry.ev = <<>>
      /\ ry.init = rx.init /\ ry.shut = rx.shut
      /\ ~rx.init => Survive(rx, ry)
  BY <1>0, <1>2, <1>4, <1>5, TransferTurn
<1> HIDE DEF y
<1>7. Turn(y, v, Conf) /\ (Noted(ry, s, Conf) \/ Opening(ry, s))
  BY <1>0, <1>a, <1>6, NegotiateTurn
<1>8. Good(v) /\ v.plist = y.plist /\ \A q \in Peer \ {Conf} : v.peer[q] = y.peer[q]
  BY <1>7 DEF Turn, From
<1>9. ry \in PeerType
  BY <1>0, <1>6, PeerOf
<1>10. s.init = ry.init /\ s.shut = ry.shut /\ (~ry.init => Survive(ry, s))
  <2>1. CASE Opening(ry, s)
    <3>1. /\ s.routes = ry.routes /\ s.nsf = ry.nsf /\ s.wait = ry.wait /\ s.tm = ry.tm
          /\ s.init = ry.init /\ s.shut = ry.shut
      BY <2>1 DEF Opening, Only, Field
    <3> QED BY <1>6, <3>1, SurviveOnly
  <2>2. CASE Noted(ry, s, Conf) /\ ry.init
    <3>1. Only(ry, s, {"rd", "obuf", "wr", "status", "tm", "rid", "hold",
                       "gr", "over"})
      BY <2>2 DEF Noted
    <3>2. s.init = ry.init /\ s.shut = ry.shut
      BY <3>1 DEF Only, Field
    <3> QED BY <2>2, <3>2
  <2>3. CASE Noted(ry, s, Conf) /\ ~ry.init
    <3>1. Down(ry, s, Conf)
      BY <2>3 DEF Noted
    <3>2. s.init = ry.init /\ s.shut = ry.shut
      BY <3>1 DEF Down
    <3> QED BY <1>9, <3>1, <3>2, DownSurvive
  <2> QED BY <1>7, <2>1, <2>2, <2>3
<1>11. \/ /\ s.status = "Idle" /\ s.ev = <<>> /\ Timed(s, Conf)
          /\ ~ry.init => s.fd = NoFd
       \/ /\ s.status = "OpenSent" /\ s.fd = ry.fd
          /\ s.ev = <<"Receive_OPEN_message">> /\ Known(s)
  <2>1. CASE Opening(ry, s)
    BY <1>6, <2>1 DEF Opening, Only, Field
  <2>2. CASE Noted(ry, s, Conf) /\ ry.init
    BY <1>6, <2>2 DEF Noted, Only, Field
  <2>3. CASE Noted(ry, s, Conf) /\ ~ry.init
    BY <1>6, <2>3 DEF Noted, Down
  <2> QED BY <1>7, <2>1, <2>2, <2>3
<1>12. s.init = r.init /\ s.shut = r.shut /\ ry.init = r.init /\ ry.fd = w.peer[p].fd
  BY <1>0, <1>2, <1>5, <1>6, <1>10
<1>13. ~r.init => Survive(r, s)
  <2> SUFFICES ASSUME ~r.init PROVE Survive(r, s)
    OBVIOUS
  <2>1. ~rx.init /\ ~ry.init
    BY <1>2, <1>12
  <2>2. Survive(rx, s)
    BY <1>6, <1>10, <2>1, SurviveTrans
  <2>3. CASE b
    BY <1>2, <2>2, <2>3 DEF Survive
  <2>4. CASE ~b
    BY <1>2, <1>3, <2>2, <2>4 DEF Survive
  <2> QED BY <2>3, <2>4
<1>14. TakenOver(r, s, w.peer[p].fd)
  BY <1>11, <1>12, <1>13 DEF TakenOver
<1>15. /\ Good(v) /\ v.plist = w.plist
       /\ \A q \in Peer \ {p, Conf} : v.peer[q] = w.peer[q]
       /\ v.peer[p] = y.peer[p] /\ x.peer[p] = w.peer[p]
  BY <1>0, <1>5, <1>6, <1>8
<1> QED BY <1>6, <1>14, <1>15 DEF Adopted

(* bgp_open_receive for a temporary peer.                                    *)
LEMMA OpenTemp ==
  ASSUME NEW w, Good(w), NEW p \in Accept, ~w.peer[p].init,
         w.peer[p].status = "OpenSent", w.peer[p].fd # NoFd,
         \A q \in Peer : w.peer[q].ev = <<>>, NEW m \in OpenMsg, NEW ok
  PROVE  Reached(w, bgp_open_receive(w, p, m, ok), p)
<1> DEFINE col == bgp_collision_detect(w, p, m.id, ok)
           u == col.w
           r == w.peer[Conf]
           ru == u.peer[Conf]
           b == ru.status = "Established" /\ ru.mode
           x == Put(u, Conf, [ru EXCEPT !.wait = @ \/ b])
           o == OpenNegotiate(Transfer(x, p), Conf, m, ok)
           v == bgp_open_receive(w, p, m, ok)
<1> SUFFICES Reached(w, v, p)
  OBVIOUS
<1>0. p \in Peer /\ Conf \in Peer /\ p # Conf
  BY ConstantAssumption DEF Peer
<1>1. /\ Aside(w, u, p)
      /\ \/ col.ret = 0
         \/ col.ret = -1
         \/ /\ col.ret = 1
            /\ \E q \in Peer \ {p} :
                 Live(w.plist, q) /\ w.peer[q].status \in {"OpenSent", "OpenConfirm"}
  BY SMTT(120), <1>0, CollisionAside
<1>2. \/ v = bgp_notify_send(w, p, ok)
      \/ v = u
      \/ v = bgp_notify_send(u, p, ok)
      \/ /\ v = o /\ Live(w.plist, Conf) /\ ~(col.ret < 0)
         /\ \/ b
            \/ col.ret # 0
            \/ ru.status \in {"Active", "OpenSent", "OpenConfirm"}
  BY <1>0 DEF bgp_open_receive
<1>3. Good(u) /\ u.plist = w.plist /\ u.peer[p] = w.peer[p] /\ Aside(w, w, p)
  BY <1>1 DEF Aside
<1> HIDE DEF u
<1>4. ASSUME NEW z, z = w \/ z = u, v = bgp_notify_send(z, p, ok)
      PROVE  Reached(w, v, p)
  <2> HIDE DEF v
  <2>1. Aside(w, z, p) /\ Good(z) /\ z.peer[p] = w.peer[p]
    BY <1>1, <1>3, <1>4
  <2>2. Turn(z, v, p) /\ Noted(w.peer[p], v.peer[p], p)
    BY <1>0, <1>4, <2>1, NotifyNoted
  <2>3. ~v.peer[p].init /\ v.peer[p].shut = w.peer[p].shut
        /\ v.peer[p].routes = w.peer[p].routes
    BY <2>2 DEF Noted, Down
  <2> QED BY <2>1, <2>2, <2>3, AsideReached
<1>5. ASSUME v = u PROVE Reached(w, v, p)
  <2> HIDE DEF v
  <2> QED BY <1>0, <1>1, <1>3, <1>5, TurnRefl, AsideReached
<1>6. ASSUME v = o, Live(w.plist, Conf), ~(col.ret < 0),
             \/ b
             \/ col.ret # 0
             \/ ru.status \in {"Active", "OpenSent", "OpenConfirm"}
      PROVE  Reached(w, v, p)
  <2>1. /\ ru = r \/ Noted(r, ru, Conf)
        /\ \A q \in Peer \ {p} : Beside(w, u, q)
    BY <1>0, <1>1 DEF Aside, Beside
  <2>2. r \in PeerType /\ ru \in PeerType
    BY <1>0, <1>3, PeerOf
  <2>3. /\ ru.ev = <<>> /\ ru.init = r.init /\ ru.shut = r.shut
        /\ ~r.init => ru = r \/ (Down(r, ru, Conf) /\ ru.status = "Idle")
    <3>1. CASE ru = r
      BY <1>0, <3>1
    <3>2. CASE Noted(r, ru, Conf) /\ r.init
      <4>1. Only(r, ru, {"rd", "obuf", "wr", "status", "tm", "rid", "hold",
                         "gr", "over"})
        BY <3>2 DEF Noted
      <4>2. ru.init = r.init /\ ru.shut = r.shut /\ ru.ev = r.ev
        BY <4>1 DEF Only, Field
      <4> QED BY <1>0, <3>2, <4>2
    <3>3. CASE Noted(r, ru, Conf) /\ ~r.init
      <4>1. Down(r, ru, Conf)
        BY <3>3 DEF Noted
      <4>2. ru.init = r.init /\ ru.shut = r.shut /\ ru.ev = <<>> /\ ru.status = "Idle"
        BY <4>1 DEF Down
      <4> QED BY <4>1, <4>2
    <3> QED BY <2>1, <3>1, <3>2, <3>3
  <2> HIDE DEF v, ru
  <2>4. b \in BOOLEAN /\ (b => ru.status = "Established")
    OBVIOUS
  <2>5. u.peer[Conf] = ru
    BY DEF ru
  <2> HIDE DEF b
  <2>a. v = Adopt(u, p, b, m, ok)
    BY <1>6, <2>5 DEF Adopt
  <2>b. /\ ~u.peer[p].init /\ u.peer[p].status = "OpenSent"
        /\ u.peer[p].fd # NoFd /\ u.peer[Conf].ev = <<>>
        /\ b => u.peer[Conf].status = "Established"
    BY <1>3, <2>3, <2>4, <2>5
  <2>6. Adopted(u, v, p)
    BY <1>3, <2>a, <2>b, <2>4, TakeOverTurn
  <2>7. TakenOver(r, v.peer[Conf], w.peer[p].fd)
    <3> DEFINE s == v.peer[Conf]
               f == w.peer[p].fd
    <3>1. TakenOver(ru, s, f)
      BY <1>3, <2>5, <2>6 DEF Adopted
    <3> HIDE DEF s, f
    <3>2. ASSUME ~r.init PROVE Survive(r, s)
      <4>1. Survive(ru, s)
        BY <2>3, <3>1, <3>2 DEF TakenOver
      <4>2. CASE ru = r
        BY <4>1, <4>2
      <4>3. CASE Down(r, ru, Conf) /\ ru.status = "Idle"
        BY <2>2, <4>1, <4>3, DownSurvive, SurviveTrans
      <4> QED BY <2>3, <3>2, <4>2, <4>3
    <3>3. TakenOver(r, s, f)
      BY <2>3, <3>1, <3>2 DEF TakenOver
    <3> QED BY <3>3 DEF s, f
  <2>8. Busy(w, p)
    <3>1. CASE col.ret = 1
      <4>1. PICK q \in Peer \ {p} :
              Live(w.plist, q) /\ w.peer[q].status \in {"OpenSent", "OpenConfirm"}
        BY SMTT(120), <1>1, <3>1
      <4>2. CASE q = Conf
        BY <4>1, <4>2 DEF Busy
      <4>3. CASE q # Conf
        BY <4>1, <4>3 DEF Busy, Peer
      <4> QED BY <4>2, <4>3
    <3>2. CASE col.ret # 1
      <4>1. col.ret = 0
        BY SMTT(120), <1>1, <1>6, <3>2
      <4>2. r.status \in {"Active", "OpenSent", "OpenConfirm", "Established"}
        <5>1. ru.status \in {"Active", "OpenSent", "OpenConfirm", "Established"}
          BY <1>6, <2>4, <4>1
        <5>2. Noted(r, ru, Conf) => ru.status = "Idle" \/ r.status = "Established"
          BY DEF Noted, Down
        <5> QED BY <2>1, <5>1, <5>2
      <4> QED BY <4>2 DEF Busy
    <3> QED BY <3>1, <3>2
  <2>9. \A q \in Peer \ {p, Conf} : Beside(w, v, q)
    BY <2>1, <2>6 DEF Beside, Adopted
  <2> QED BY <1>3, <1>6, <2>6, <2>7, <2>8, <2>9 DEF Reached, Adopted
<1> QED BY <1>2, <1>4, <1>5, <1>6

(* bgp_read: the reader is gone while the message is taken, and comes back.  *)
LEMMA ReadAgain ==
  ASSUME NEW w, Good(w), NEW p \in Peer, w.peer[p].fd # NoFd
  PROVE  LET s == [w.peer[p] EXCEPT !.rd = NoThread]
             u == ReadOn(Put(w, p, s), p)
         IN  /\ Turn(w, u, p) /\ Only(w.peer[p], u.peer[p], {"rd"})
             /\ Good(u) /\ u.plist = w.plist
             /\ u.peer[p].fd = w.peer[p].fd /\ u.peer[p].ev = w.peer[p].ev
             /\ u.peer[p].status = w.peer[p].status
             /\ u.peer[p].init = w.peer[p].init
             /\ u.peer[p].shut = w.peer[p].shut
             /\ u.peer[p].routes = w.peer[p].routes
<1> DEFINE r == w.peer[p]
           s == [r EXCEPT !.rd = NoThread]
           x == Put(w, p, s)
           u == ReadOn(x, p)
<1> SUFFICES /\ Turn(w, u, p) /\ Only(r, u.peer[p], {"rd"})
             /\ Good(u) /\ u.plist = w.plist
             /\ u.peer[p].fd = r.fd /\ u.peer[p].ev = r.ev
             /\ u.peer[p].status = r.status
             /\ u.peer[p].init = r.init
             /\ u.peer[p].shut = r.shut
             /\ u.peer[p].routes = r.routes
  OBVIOUS
<1>1. r \in PeerType
  BY PeerOf
<1>2. s \in PeerType /\ s.rd = NoThread
  BY <1>1 DEF PeerType
<1>3. Only(r, s, {"rd"})
  BY <1>1, Fields DEF Only, Field
<1>4. s.fd = r.fd /\ s.wr = r.wr /\ s.init = r.init /\ s.status = r.status
  BY <1>3 DEF Only, Field
<1> HIDE DEF s
<1>5. Turn(w, x, p) /\ Good(x) /\ x.peer[p] = s
  BY <1>2, <1>4, PutTurn
<1> HIDE DEF x
<1>6. Turn(x, u, p) /\ Only(s, u.peer[p], {"rd"})
  BY <1>4, <1>5, ReadOnTurn
<1> HIDE DEF u
<1>7. Turn(w, u, p) /\ Only(r, u.peer[p], {"rd"})
  BY <1>3, <1>5, <1>6, TurnTrans DEF Only
<1>8. Good(u) /\ u.plist = w.plist
  BY <1>7 DEF Turn, From
<1>9. /\ u.peer[p].fd = r.fd /\ u.peer[p].ev = r.ev
      /\ u.peer[p].status = r.status
      /\ u.peer[p].init = r.init
      /\ u.peer[p].shut = r.shut
      /\ u.peer[p].routes = r.routes
  BY <1>7 DEF Only, Field
<1> QED BY <1>7, <1>8, <1>9

(* bgp_read for the configured peer.                                         *)
LEMMA ReadConf ==
  ASSUME NEW w, Good(w), \A q \in Peer : w.peer[q].ev = <<>>,
         NEW m \in Messages, NEW c
  PROVE  LET v == bgp_read(w, Conf, m, c)
         IN  /\ v.plist = w.plist /\ Handled(w.peer[Conf], v.peer[Conf], Conf)
             /\ \A q \in Accept : Beside(w, v, q)
<1> DEFINE r == w.peer[Conf]
           s == [r EXCEPT !.rd = NoThread]
           x == Put(w, Conf, s)
           u == ReadOn(x, Conf)
           v == bgp_read(w, Conf, m, c)
<1> SUFFICES /\ v.plist = w.plist /\ Handled(r, v.peer[Conf], Conf)
             /\ \A q \in Accept : Beside(w, v, q)
  OBVIOUS
<1>0. Conf \in Peer /\ r \in PeerType /\ (\A q \in Accept : q \in Peer \ {Conf})
  BY ConstantAssumption, PeerOf DEF Peer
<1>1. CASE r.fd = NoFd
  <2>1. v = x
    BY <1>1 DEF bgp_read
  <2> HIDE DEF v
  <2>2. s \in PeerType /\ s.rd = NoThread
    BY <1>0 DEF PeerType
  <2>3. Only(r, s, {"rd"})
    BY <1>0, Fields DEF Only, Field
  <2>4. s.fd = r.fd /\ s.wr = r.wr /\ s.init = r.init /\ s.status = r.status
    BY <2>3 DEF Only, Field
  <2> HIDE DEF s
  <2>5. Turn(w, x, Conf) /\ Good(x) /\ x.peer[Conf] = s
    BY <1>0, <2>2, <2>4, PutTurn
  <2> HIDE DEF x
  <2>6. Handled(r, s, Conf)
    BY <2>3 DEF Handled, Touched, Only
  <2>7. \A q \in Accept : Beside(w, x, q)
    BY <1>0, <2>5 DEF Turn, From, Beside
  <2>8. x.plist = w.plist
    BY <2>5 DEF Turn
  <2> QED BY <2>1, <2>5, <2>6, <2>7, <2>8
<1>2. CASE r.fd # NoFd
  <2>1. v = ReadMsg(u, Conf, m, c)
    BY <1>2 DEF bgp_read
  <2> HIDE DEF v
  <2>2. /\ Turn(w, u, Conf) /\ Only(r, u.peer[Conf], {"rd"})
        /\ Good(u) /\ u.plist = w.plist
        /\ u.peer[Conf].fd = r.fd /\ u.peer[Conf].ev = r.ev
    BY <1>0, <1>2, ReadAgain
  <2> HIDE DEF u
  <2>3. \A q \in Accept : u.peer[q] = w.peer[q]
    BY <1>0, <2>2 DEF Turn, From
  <2>4. CASE m.type = "OPEN"
    <3>1. m \in OpenMsg
      BY <2>4, ConstantAssumption DEF Messages, Inputs
    <3>2. v = bgp_open_receive(u, Conf, m, c.ok)
      BY <2>1, <2>4 DEF ReadMsg
    <3>3. PICK z : /\ Aside(u, z, Conf) /\ Turn(z, v, Conf)
                   /\ Handled(u.peer[Conf], v.peer[Conf], Conf)
      BY <1>0, <2>2, <3>1, <3>2, OpenConf
    <3>4. Handled(r, v.peer[Conf], Conf)
      BY <2>2, <3>3, HandledAfter
    <3>5. v.plist = w.plist
      BY <2>2, <3>3 DEF Aside, Turn
    <3>6. \A q \in Accept : Beside(w, v, q)
      BY <1>0, <2>2, <2>3, <3>3 DEF Aside, Turn, From, Beside
    <3> QED BY <3>4, <3>5, <3>6
  <2>5. CASE m.type # "OPEN"
    <3>1. Turn(u, v, Conf) /\ Handled(u.peer[Conf], v.peer[Conf], Conf)
      BY <1>0, <1>2, <2>1, <2>2, <2>5, MessageTurn
    <3>2. Handled(r, v.peer[Conf], Conf)
      BY <2>2, <3>1, HandledAfter
    <3>3. v.plist = w.plist
      BY <2>2, <3>1 DEF Turn
    <3>4. \A q \in Accept : Beside(w, v, q)
      BY <1>0, <2>3, <3>1 DEF Turn, From, Beside
    <3> QED BY <3>2, <3>3, <3>4
  <2> QED BY <2>4, <2>5
<1> QED BY <1>1, <1>2

(* bgp_read for a temporary peer, which deletes it.                          *)
LEMMA ReadTemp ==
  ASSUME NEW w, Good(w), NEW p \in Accept, \A q \in Peer : w.peer[q].ev = <<>>,
         w.peer[p].status = "OpenSent", w.peer[p].fd # NoFd, ~w.peer[p].init,
         w.peer[p].routes = {}, ~w.peer[p].wait, NEW m \in Messages, NEW c
  PROVE  Finished(w, bgp_read(w, p, m, c), p)
<1> DEFINE r == w.peer[p]
           s == [r EXCEPT !.rd = NoThread]
           u == ReadOn(Put(w, p, s), p)
           x == ReadMsg(u, p, m, c)
           v == bgp_read(w, p, m, c)
<1> SUFFICES Finished(w, v, p)
  OBVIOUS
<1>0. p \in Peer /\ Conf \in Peer /\ p # Conf
  BY ConstantAssumption DEF Peer
<1>1. v = peer_delete(x, p, c.ok)
  BY <1>0 DEF bgp_read
<1> HIDE DEF v
<1>2. /\ Turn(w, u, p) /\ Only(r, u.peer[p], {"rd"})
      /\ Good(u) /\ u.plist = w.plist
      /\ u.peer[p].fd = r.fd /\ u.peer[p].ev = r.ev
      /\ u.peer[p].status = r.status /\ u.peer[p].init = r.init
      /\ u.peer[p].shut = r.shut /\ u.peer[p].routes = r.routes
  BY SMTT(120), <1>0, ReadAgain
<1> HIDE DEF u
<1>3. \A q \in Peer \ {p} : u.peer[q] = w.peer[q]
  BY <1>2 DEF Turn, From
<1>4. Reached(u, x, p)
  <2>1. CASE m.type = "OPEN"
    <3>1. m \in OpenMsg
      BY <2>1, ConstantAssumption DEF Messages, Inputs
    <3>2. x = bgp_open_receive(u, p, m, c.ok)
      BY <2>1 DEF ReadMsg
    <3> HIDE DEF x
    <3>3. \A q \in Peer : u.peer[q].ev = <<>>
      BY <1>2, <1>3
    <3> QED BY <1>2, <3>1, <3>2, <3>3, OpenTemp
  <2>2. CASE m.type # "OPEN"
    <3>1. Turn(u, x, p) /\ Handled(u.peer[p], x.peer[p], p)
      BY <1>0, <1>2, <2>2, MessageTurn
    <3> HIDE DEF x
    <3>2. Aside(u, u, p)
      BY <1>2 DEF Aside
    <3>3. /\ ~x.peer[p].init /\ x.peer[p].shut = u.peer[p].shut
          /\ x.peer[p].routes = u.peer[p].routes
      <4>1. CASE Touched(u.peer[p], x.peer[p])
        BY <1>2, <4>1 DEF Touched, Only, Field
      <4>2. CASE Noted(u.peer[p], x.peer[p], p)
        BY <1>2, <4>2 DEF Noted, Down
      <4>3. CASE Queued(u.peer[p], x.peer[p])
        <5>1. x.peer[p].init = u.peer[p].init /\ x.peer[p].shut = u.peer[p].shut
          BY <4>3 DEF Queued, Only, Field
        <5>2. x.peer[p].routes = u.peer[p].routes
          BY <1>2, <4>3 DEF Queued
        <5> QED BY <1>2, <5>1, <5>2
      <4> QED BY <3>1, <4>1, <4>2, <4>3 DEF Handled
    <3> QED BY <3>1, <3>2, <3>3, AsideReached
  <2> QED BY <2>1, <2>2
<1> HIDE DEF x
<1>5. /\ Good(x) /\ x.plist = w.plist /\ ~x.peer[p].init
      /\ x.peer[p].shut = r.shut /\ x.peer[p].routes = {}
  BY <1>2, <1>4 DEF Reached
<1>6. From(x, v, p) /\ v.plist = listnode_delete(x.plist, p) /\ Gone(x.peer[p], v.peer[p])
  BY <1>0, <1>1, <1>5, DeleteTurn
<1>7. Removed(r, v.peer[p])
  BY <1>5, <1>6 DEF Gone, Removed
<1>8. \A q \in Peer \ {p} : v.peer[q] = x.peer[q]
  BY <1>6 DEF From
<1>9. \A q \in Peer \ {p, Conf} : Beside(w, v, q)
  BY <1>2, <1>3, <1>4, <1>8 DEF Reached, Beside
<1>10. \/ Beside(w, v, Conf)
       \/ /\ Live(w.plist, Conf) /\ Busy(w, p)
          /\ TakenOver(w.peer[Conf], v.peer[Conf], r.fd)
  <2>1. v.peer[Conf] = x.peer[Conf] /\ u.peer[Conf] = w.peer[Conf]
    BY <1>0, <1>3, <1>8
  <2>2. Beside(u, x, Conf) => Beside(w, v, Conf)
    BY <1>2, <2>1 DEF Beside
  <2>3. Busy(u, p) => Busy(w, p)
    BY <1>2, <2>1 DEF Busy
  <2> QED BY <1>2, <1>4, <2>1, <2>2, <2>3 DEF Reached
<1> QED BY <1>5, <1>6, <1>7, <1>9, <1>10 DEF Finished

(* bgp_connect_check queues the result of the connect().                     *)
LEMMA CheckTurn ==
  ASSUME NEW w, Good(w), NEW p \in Peer, NEW c, w.peer[p].ev = <<>>
  PROVE  LET v == bgp_connect_check(w, p, c)
         IN  Turn(w, v, p) /\ Checked(w.peer[p], v.peer[p])
<1> DEFINE r == w.peer[p]
           s == [r EXCEPT !.rd = NoThread, !.wr = NoThread]
           x == Put(w, p, s)
           e == CASE c = "success" -> "TCP_connection_open"
                  [] c = "error" -> "TCP_connection_open_failed"
                  [] OTHER -> "TCP_fatal_error"
           v == EventAdd(x, p, e)
<1>1. r \in PeerType
  BY PeerOf
<1>2. bgp_connect_check(w, p, c) = v
  BY DEF bgp_connect_check
<1>3. e \in Event /\ e \in {"TCP_connection_open", "TCP_connection_open_failed",
                            "TCP_fatal_error"}
  BY DEF Event
<1> HIDE DEF e
<1>4. s \in PeerType /\ s.rd = NoThread /\ s.wr = NoThread
  BY <1>1 DEF PeerType
<1>5. Only(r, s, {"rd", "wr"})
  BY <1>1, Fields DEF Only, Field
<1>6. s.fd = r.fd /\ s.init = r.init /\ s.status = r.status /\ s.ev = r.ev
  BY <1>5 DEF Only, Field
<1> HIDE DEF s
<1>7. Turn(w, x, p) /\ Good(x) /\ x.peer[p] = s
  BY <1>4, <1>6, PutTurn
<1> HIDE DEF x
<1>8. Turn(x, v, p) /\ Only(s, v.peer[p], {"ev"}) /\ v.peer[p].ev = <<e>>
  BY <1>3, <1>6, <1>7, EventAddTurn
<1> HIDE DEF v
<1>9. Turn(w, v, p)
  BY <1>7, <1>8, TurnTrans
<1>10. Only(r, v.peer[p], {"rd", "wr", "ev"})
  BY <1>5, <1>8 DEF Only
<1>11. Checked(r, v.peer[p])
  BY <1>3, <1>8, <1>10 DEF Checked
<1> QED BY <1>2, <1>9, <1>11

(* bgp_write empties the buffer or stops the peer.                           *)
LEMMA WriteTurn ==
  ASSUME NEW w, Good(w), NEW p \in Peer, NEW res,
         w.peer[p].fd = NoFd => res = "error", w.peer[p].ev = <<>>
  PROVE  LET v == bgp_write(w, p, res)
         IN  Turn(w, v, p) /\ Written(w.peer[p], v.peer[p], p)
<1> DEFINE r == w.peer[p]
           s == [r EXCEPT !.wr = NoThread]
           x == Put(w, p, s)
           y == bgp_stop(x, p)
           z == bgp_fsm_change_status(y, p, "Idle")
           stopped == bgp_timer_set(z, p)
           o == [x.peer[p] EXCEPT !.obuf = "none"]
           v == bgp_write(w, p, res)
<1> SUFFICES Turn(w, v, p) /\ Written(r, v.peer[p], p)
  OBVIOUS
<1>1. r \in PeerType
  BY PeerOf
<1>2. \/ v \in {x, Put(x, p, o), stopped}
      \/ res = "block" /\ v = WriteOn(x, p)
  <2> HIDE DEF x, stopped, o
  <2> QED BY DEF bgp_write, x, y, z, stopped, o
<1> HIDE DEF v
<1>3. s \in PeerType /\ s.wr = NoThread
  BY <1>1 DEF PeerType
<1>4. Only(r, s, {"wr"})
  BY <1>1, Fields DEF Only, Field
<1>5. /\ s.fd = r.fd /\ s.rd = r.rd /\ s.init = r.init /\ s.status = r.status
      /\ s.ev = r.ev /\ s.tm = r.tm /\ s.shut = r.shut /\ s.wait = r.wait
      /\ s.nsf = r.nsf /\ s.routes = r.routes
  BY <1>4 DEF Only, Field
<1> HIDE DEF s
<1>6. Turn(w, x, p) /\ Good(x) /\ x.peer[p] = s
  BY SMTT(120), <1>3, <1>5, PutTurn
<1> HIDE DEF x
<1>7. ASSUME v = x PROVE Turn(w, v, p) /\ Written(r, v.peer[p], p)
  <2>1. Only(r, s, {"wr", "obuf"})
    BY <1>4 DEF Only
  <2> QED BY <1>6, <1>7, <2>1 DEF Written
<1>8. ASSUME v = Put(x, p, o) PROVE Turn(w, v, p) /\ Written(r, v.peer[p], p)
  <2>1. o \in PeerType
    BY <1>3, <1>6 DEF PeerType
  <2>2. Only(s, o, {"obuf"})
    BY <1>3, <1>6, Fields DEF Only, Field
  <2> HIDE DEF o
  <2>3. /\ o.fd = s.fd /\ o.rd = s.rd /\ o.wr = s.wr /\ o.init = s.init
        /\ o.status = s.status
    BY <2>2 DEF Only, Field
  <2>4. Turn(x, v, p) /\ v.peer[p] = o
    BY <1>6, <1>8, <2>1, <2>3, PutTurn
  <2>5. Only(r, o, {"wr", "obuf"})
    BY <1>4, <2>2 DEF Only
  <2> QED BY <1>6, <2>4, <2>5, TurnTrans DEF Written
<1>9. ASSUME res = "block", v = WriteOn(x, p)
      PROVE  Turn(w, v, p) /\ Written(r, v.peer[p], p)
  <2>1. Turn(x, v, p) /\ Only(s, v.peer[p], {"wr"})
    BY <1>5, <1>6, <1>9, WriteOnTurn
  <2>2. Only(r, v.peer[p], {"wr", "obuf"})
    BY <1>4, <2>1 DEF Only
  <2> QED BY <1>6, <2>1, <2>2, TurnTrans DEF Written
<1>10. ASSUME v = stopped PROVE Turn(w, v, p) /\ Written(r, v.peer[p], p)
  <2>1. CASE ~r.init
    <3>1. Turn(x, v, p) /\ Ended(s, v.peer[p], p)
      BY <1>5, <1>6, <1>10, <2>1, EndTurn
    <3>2. StoppedTm(s) = StoppedTm(r)
      BY <1>5 DEF StoppedTm
    <3>3. Down(r, v.peer[p], p)
      BY <1>5, <3>1, <3>2 DEF Ended, Rested, Down
    <3> QED BY <1>6, <2>1, <3>1, <3>3, TurnTrans DEF Written, Noted
  <2>2. CASE r.init
    <3>a. x.peer[p].init
      BY <1>5, <1>6, <2>2
    <3>b. "Idle" \in Status
      BY DEF Status
    <3>1. y = x /\ "Idle" \in Status
      BY <1>6, <3>a, <3>b, StopTurn
    <3> HIDE DEF y
    <3>2. Turn(x, z, p) /\ Only(s, z.peer[p], {"status"}) /\ z.peer[p].status = "Idle"
      BY <1>6, <3>1, StatusTurn
    <3> HIDE DEF z
    <3>3. /\ Turn(z, v, p) /\ Only(z.peer[p], v.peer[p], {"tm"})
          /\ Timed(v.peer[p], p)
      BY SMTT(120), <1>10, <3>2, TurnType, TimerSetTurn DEF Turn, From
    <3>4. v.peer[p].status = "Idle"
      BY <3>2, <3>3 DEF Only, Field
    <3>5. Only(r, v.peer[p], {"wr", "status", "tm"})
      BY <1>4, <3>2, <3>3 DEF Only
    <3>6. Only(r, v.peer[p], {"rd", "obuf", "wr", "status", "tm", "rid", "hold",
                              "gr", "over"})
      BY <3>5 DEF Only
    <3>7. v.peer[p].rid = r.rid
      BY <3>5 DEF Only, Field
    <3>8. Turn(w, v, p)
      BY <1>6, <3>2, <3>3, TurnTrans
    <3> QED BY <2>2, <3>3, <3>4, <3>6, <3>7, <3>8 DEF Written, Noted
  <2> QED BY <2>1, <2>2
<1> QED BY <1>2, <1>7, <1>8, <1>9, <1>10

(* A command stops an Established session itself, another by an event.       *)
LEMMA ResetTurn ==
  ASSUME NEW w, Good(w), NEW p \in Peer, NEW ok, w.peer[p].ev = <<>>
  PROVE  LET v == ResetPeer(w, p, ok)
         IN  Turn(w, v, p) /\ Reset(w.peer[p], v.peer[p], p)
<1> DEFINE v == ResetPeer(w, p, ok)
           r == w.peer[p]
<1>0. "BGP_Stop" \in Event
  BY DEF Event
<1>1. CASE r.status = "Established"
  <2>1. v = bgp_notify_send(w, p, ok)
    BY <1>1 DEF ResetPeer
  <2>2. Turn(w, v, p) /\ Noted(r, v.peer[p], p)
    BY <2>1, NotifyNoted
  <2> QED BY <1>1, <2>2 DEF Reset
<1>2. CASE r.status # "Established"
  <2>1. v = EventAdd(w, p, "BGP_Stop")
    BY <1>2 DEF ResetPeer
  <2>2. Turn(w, v, p) /\ Only(r, v.peer[p], {"ev"}) /\ v.peer[p].ev = <<"BGP_Stop">>
    BY <1>0, <2>1, EventAddTurn
  <2> QED BY <1>2, <2>2 DEF Reset
<1> QED BY <1>1, <1>2

(* Shutting down gives up the graceful restart first.                        *)
LEMMA NsfOffTurn ==
  ASSUME NEW w, Good(w), NEW p \in Peer
  PROVE  LET v == IF w.peer[p].wait THEN peer_nsf_stop(w, p) ELSE w
         IN  Turn(w, v, p) /\ NsfOff(w.peer[p], v.peer[p])
<1>1. CASE w.peer[p].wait
  BY <1>1, NsfStopTurn DEF NsfOff
<1>2. CASE ~w.peer[p].wait
  BY <1>2, TurnRefl DEF NsfOff
<1> QED BY <1>1, <1>2

(* What peer_clear does to its peer.                                         *)
LEMMA ClearTurn ==
  ASSUME NEW w, Good(w), NEW p \in Peer, NEW ok, w.peer[p].ev = <<>>
  PROVE  LET v == peer_clear(w, p, ok)
         IN  Turn(w, v, p) /\ Cleared(w.peer[p], v.peer[p], p)
<1> DEFINE v == peer_clear(w, p, ok)
           r == w.peer[p]
           s == [r EXCEPT !.over = FALSE, !.tm = @ \ {"pmax_restart"}]
           x == Put(w, p, s)
           y == IF r.wait THEN peer_nsf_stop(w, p) ELSE w
<1> SUFFICES Turn(w, v, p) /\ Cleared(r, v.peer[p], p)
  OBVIOUS
<1>0. r \in PeerType /\ "BGP_Start" \in Event
  BY PeerOf DEF Event
<1>1. \/ v = w
      \/ ~r.shut /\ r.over /\ v = EventAdd(x, p, "BGP_Start")
      \/ ~r.shut /\ ~r.over /\ v = ResetPeer(y, p, ok)
  BY DEF peer_clear
<1> HIDE DEF v
<1>2. CASE v = w
  BY <1>2, TurnRefl DEF Cleared
<1>3. CASE ~r.shut /\ r.over /\ v = EventAdd(x, p, "BGP_Start")
  <2>1. Only(r, s, {"over", "tm"}) /\ ~s.over /\ s.tm = r.tm \ {"pmax_restart"}
    BY <1>0, Fields DEF Only, Field
  <2>2. s \in PeerType
    BY <1>0 DEF PeerType
  <2>3. /\ s.fd = r.fd /\ s.rd = r.rd /\ s.wr = r.wr /\ s.init = r.init
        /\ s.status = r.status /\ s.ev = r.ev
    BY <2>1 DEF Only, Field
  <2> HIDE DEF s
  <2>4. Turn(w, x, p) /\ Good(x) /\ x.peer[p] = s
    BY <2>2, <2>3, PutTurn
  <2> HIDE DEF x
  <2>5. /\ Turn(x, v, p) /\ Only(s, v.peer[p], {"ev"})
        /\ v.peer[p].ev = <<"BGP_Start">>
    BY <1>0, <1>3, <2>3, <2>4, EventAddTurn
  <2>6. Only(r, v.peer[p], {"over", "tm", "ev"})
    BY <2>1, <2>5 DEF Only
  <2>7. v.peer[p].over = s.over /\ v.peer[p].tm = s.tm
    BY <2>5 DEF Only, Field
  <2>8. Cleared(r, v.peer[p], p)
    BY <1>3, <2>1, <2>5, <2>6, <2>7 DEF Cleared
  <2> QED BY <2>4, <2>5, <2>8, TurnTrans
<1>4. CASE ~r.shut /\ ~r.over /\ v = ResetPeer(y, p, ok)
  <2>1. Turn(w, y, p) /\ NsfOff(r, y.peer[p])
    BY NsfOffTurn
  <2> HIDE DEF y
  <2>2. Good(y) /\ y.peer[p] \in PeerType
    BY <2>1, PeerOf DEF Turn, From
  <2>3. y.peer[p].ev = <<>>
    BY <2>1 DEF NsfOff, Only, Field
  <2>4. Turn(y, v, p) /\ Reset(y.peer[p], v.peer[p], p)
    BY <1>4, <2>2, <2>3, ResetTurn
  <2>5. Cleared(r, v.peer[p], p)
    BY <1>4, <2>1, <2>2, <2>4 DEF Cleared
  <2> QED BY <2>1, <2>4, <2>5, TurnTrans
<1> QED BY <1>1, <1>2, <1>3, <1>4

(* A turn that ends a step changes no other structure.                       *)
LEMMA TurnAlone ==
  ASSUME IInv, NEW p \in Peer, NEW v, NEW said, Becomes(v, said),
         Turn(World, v, p)
  PROVE  Alone(p) /\ peer'[p] = v.peer[p]
<1>1. peer' = v.peer /\ plist' = v.plist
  BY DEF Becomes
<1>2. World.peer = peer /\ World.plist = plist
  BY DEF World
<1>3. v.plist = World.plist /\ \A q \in Peer \ {p} : v.peer[q] = World.peer[q]
  BY DEF Turn, From
<1> QED BY <1>1, <1>2, <1>3 DEF Alone, Others

(* The table runs for p, whose structure was just changed to t.              *)
FiredBy(p, t, entry) ==
  \/ /\ Alone(p) /\ peer'[p] = t
     /\ entry[1] = "bgp_connect_success" /\ t.fd = NoFd
  \/ /\ entry[1] = "bgp_fsm_holdtime_expire" /\ p # Conf /\ Others(p)
     /\ plist' = listnode_delete(plist, p) /\ Removed(t, peer'[p])
  \/ /\ Alone(p) /\ Called(entry[1], t, peer'[p])
     /\ peer'[p].status = entry[2] /\ Timed(peer'[p], p)

(* bgp_event calls the table's function on one structure alone.              *)
LEMMA FireMoves ==
  ASSUME IInv, NEW p \in Peer, NEW t \in PeerType, t.fd = peer[p].fd,
         t.rd = peer[p].rd, t.wr = peer[p].wr, t.status = peer[p].status,
         t.ev = <<>>, p # Conf => ~t.init, NEW e \in Event, NEW c \in Choice,
         Becomes(bgp_event(Put(World, p, t), p, e, c), {})
  PROVE  FiredBy(p, t, FSM[t.status][e])
<1> DEFINE w == Put(World, p, t)
           v == bgp_event(w, p, e, c)
           entry == FSM[t.status][e]
<1>0. Good(World) /\ World.peer = peer /\ World.plist = plist /\ HasFd(peer[p])
  BY WorldSound DEF Sound, IInv, World
<1>1. peer' = v.peer /\ plist' = v.plist
  BY DEF Becomes
<1> HIDE DEF v
<1>2. /\ w \in WorldType /\ w.open = World.open /\ w.peer[p] = t
      /\ w.plist = plist
      /\ \A q \in Peer \ {p} : w.peer[q] = peer[q]
  <2>1. World \in WorldType
    BY <1>0 DEF Good
  <2> QED BY <1>0, <2>1 DEF WorldType, Put
<1>v. v = bgp_event(w, p, e, c)
  BY DEF v
<1> HIDE DEF w
<1>3. \A q \in Peer : Held(w.peer[q]) = Held(World.peer[q])
  BY <1>0, <1>2 DEF Held
<1>4. Good(w)
  <2>1. \A q \in Peer : Held(w.peer[q]) \subseteq w.open
    BY <1>0, <1>2, <1>3 DEF Good
  <2>2. \A q, x \in Peer : q # x => Held(w.peer[q]) \cap Held(w.peer[x]) = {}
    BY <1>0, <1>3 DEF Good
  <2>3. w \in WorldType
    BY <1>2
  <2> QED BY <2>1, <2>2, <2>3 DEF Good
<1>5. HasFd(w.peer[p])
  BY <1>0, <1>2 DEF HasFd
<1>6. Ran(w, v, p, entry)
  BY <1>v, <1>2, <1>4, <1>5, EventTurn
<1> HIDE DEF entry
<1>7. CASE entry[1] = "bgp_connect_success" /\ t.fd = NoFd /\ v = w
  BY <1>1, <1>2, <1>7 DEF FiredBy, Alone, Others, entry
<1>8. CASE entry[1] = "bgp_fsm_holdtime_expire" /\ p # Conf /\ Dropped(w, v, p)
  <2>1. /\ v.plist = listnode_delete(plist, p) /\ Removed(t, v.peer[p])
        /\ \A q \in Peer \ {p} : v.peer[q] = peer[q]
    BY <1>2, <1>8 DEF Dropped, From
  <2> QED BY <1>1, <1>8, <2>1 DEF FiredBy, Others, entry
<1>9. CASE /\ Turn(w, v, p) /\ Called(entry[1], t, v.peer[p])
           /\ v.peer[p].status = entry[2] /\ Timed(v.peer[p], p)
  <2>1. /\ v.plist = plist /\ \A q \in Peer \ {p} : v.peer[q] = peer[q]
    BY <1>2, <1>9 DEF Turn, From
  <2> QED BY <1>1, <1>9, <2>1 DEF FiredBy, Alone, Others, entry
<1> QED BY <1>2, <1>6, <1>7, <1>8, <1>9 DEF Ran

(* An event that was queued.                                                 *)
LEMMA EventMoves ==
  ASSUME IInv, NEW p \in Peer, Queue(peer[p]), RunEvent(p)
  PROVE  \E t \in PeerType, e \in QueueEvent :
           /\ peer[p].ev = <<e>> /\ t.ev = <<>> /\ Only(peer[p], t, {"ev"})
           /\ FiredBy(p, t, FSM[t.status][e])
<1> DEFINE r == peer[p]
           t == [r EXCEPT !.ev = <<>>]
<1>0. r \in PeerType /\ HasFd(r) /\ (p \in Accept => ~r.init)
  BY DEF IInv, TypeOK
<1>1. PICK c \in [conn : {"error"}, ok : {TRUE}, alt : BOOLEAN] :
        /\ r.ev # <<>>
        /\ Becomes(bgp_event(Put(World, p, [r EXCEPT !.ev = Tail(r.ev)]), p,
                             Head(r.ev), c), {})
  BY DEF RunEvent
<1>2. c \in Choice
  BY DEF Choice, ConnectResult
<1>3. PICK e \in QueueEvent : r.ev = <<e>>
  BY <1>1 DEF Queue
<1>4. Head(r.ev) = e /\ Tail(r.ev) = <<>> /\ e \in Event
  BY SMTT(120), <1>3 DEF QueueEvent
<1>5. Becomes(bgp_event(Put(World, p, t), p, e, c), {})
  BY <1>1, <1>4
<1>6. <<>> \in Seq(Event)
  BY SMTT(120)
<1>7. /\ t \in PeerType /\ t.fd = r.fd /\ t.rd = r.rd /\ t.wr = r.wr
      /\ t.status = r.status /\ t.ev = <<>> /\ t.init = r.init
      /\ Only(r, t, {"ev"})
  BY <1>0, <1>6, Fields DEF PeerType, Only, Field
<1> HIDE DEF t
<1>8. p # Conf => ~t.init
  BY <1>0, <1>7 DEF Peer
<1>9. FiredBy(p, t, FSM[t.status][e])
  BY <1>2, <1>4, <1>5, <1>7, <1>8, FireMoves
<1> QED BY <1>3, <1>7, <1>9

(* One of the four timers of the state machine.                              *)
LEMMA TimerMoves ==
  ASSUME IInv, NEW p \in Peer, NEW i \in FsmTimer, FsmTimerExpire(p, i)
  PROVE  \E t \in PeerType :
           /\ peer[p].ev = <<>> /\ i \in peer[p].tm
           /\ Only(peer[p], t, {"tm", "init"}) /\ t.tm = peer[p].tm \ {i}
           /\ t.init = (peer[p].init /\ i # "start")
           /\ FiredBy(p, t, FSM[t.status][TimerEvent[i]])
<1> DEFINE r == peer[p]
           b == r.init /\ i # "start"
           m == r.tm \ {i}
           t == [r EXCEPT !.tm = m, !.init = b]
           e == TimerEvent[i]
<1>0. r \in PeerType /\ HasFd(r) /\ (p \in Accept => ~r.init)
  BY DEF IInv, TypeOK
<1>1. PICK c \in [conn : ConnectResult, ok : BOOLEAN, alt : {FALSE}] :
        Becomes(bgp_event(Put(World, p, t), p, e, c), {})
  BY DEF FsmTimerExpire
<1>2. c \in Choice
  BY DEF Choice
<1>3. r.ev = <<>> /\ i \in r.tm
  BY DEF FsmTimerExpire, Quiet
<1>4. e \in Event /\ b \in BOOLEAN /\ m \in SUBSET (FsmTimer \cup SideTimer)
  BY SMTT(120), <1>0 DEF TimerEvent, FsmTimer, Event, PeerType
<1>5. p # Conf => ~b
  BY <1>0 DEF Peer
<1> HIDE DEF e, b, m
<1>6. /\ t \in PeerType /\ t.fd = r.fd /\ t.rd = r.rd /\ t.wr = r.wr
      /\ t.status = r.status /\ t.ev = r.ev /\ t.init = b /\ t.tm = m
      /\ Only(r, t, {"tm", "init"})
  BY <1>0, <1>4, Fields DEF PeerType, Only, Field
<1> HIDE DEF t
<1>7. p # Conf => ~t.init
  BY <1>5, <1>6
<1>8. t.ev = <<>>
  BY <1>3, <1>6
<1>9. FiredBy(p, t, FSM[t.status][e])
  BY <1>1, <1>2, <1>4, <1>6, <1>7, <1>8, FireMoves
<1> QED BY <1>3, <1>6, <1>9 DEF e, b, m

(* The two entries of the table a temporary peer meets.                      *)
LEMMA EntryFacts ==
  /\ FSM["Active"]["TCP_connection_open"] = <<"bgp_connect_success", "OpenSent">>
  /\ FSM["OpenSent"]["Hold_Timer_expired"] = <<"bgp_fsm_holdtime_expire", "Idle">>
BY DEF FSM, Row

(* With no event queued any peer may run.                                    *)
LEMMA QuietDue ==
  ASSUME Quiet, NEW p \in Peer
  PROVE  Due(p) /\ peer[p].ev = <<>>
BY DEF Due, Quiet

(* Each handler of the configured peer is one of these moves.                *)
LEMMA ConfHandler ==
  ASSUME IInv, Queue(peer[Conf]), Handler(Conf)
  PROVE  ConfSteps \/ Hears
<1> DEFINE r == peer[Conf]
           s == peer'[Conf]
<1>0. Conf \in Peer /\ Live(plist, Conf) /\ IInv'
  BY ConstantAssumption, HandlerInv DEF Peer, Handler
<1>1. /\ r \in PeerType /\ s \in PeerType /\ Good(World) /\ HasFd(r)
      /\ World.peer = peer /\ World.plist = plist
  BY <1>0, WorldSound DEF IInv, TypeOK, Sound, World
<1>2. CASE RunEvent(Conf)
  <2>1. PICK t \in PeerType, e \in QueueEvent :
           /\ r.ev = <<e>> /\ t.ev = <<>> /\ Only(r, t, {"ev"})
           /\ FiredBy(Conf, t, FSM[t.status][e])
    BY <1>0, <1>2, EventMoves
  <2>2. Alone(Conf) /\ Fired(t, s, e)
    BY <2>1 DEF FiredBy, Fired
  <2>3. Taken(r, t, e) /\ e \in Event
    BY <2>1 DEF Taken, QueueEvent
  <2>4. Due(Conf)
    BY <1>2 DEF RunEvent, Due
  <2> QED BY <1>0, <2>2, <2>3, <2>4 DEF ConfSteps, ConfMove
<1>3. ASSUME NEW i \in FsmTimer, FsmTimerExpire(Conf, i)
      PROVE  ConfSteps
  <2>1. PICK t \in PeerType :
           /\ r.ev = <<>> /\ i \in r.tm
           /\ Only(r, t, {"tm", "init"}) /\ t.tm = r.tm \ {i}
           /\ t.init = (r.init /\ i # "start")
           /\ FiredBy(Conf, t, FSM[t.status][TimerEvent[i]])
    BY <1>0, <1>3, TimerMoves
  <2> DEFINE e == TimerEvent[i]
  <2>2. Alone(Conf) /\ Fired(t, s, e)
    BY <2>1 DEF FiredBy, Fired
  <2>3. e \in Event
    BY SMTT(120) DEF TimerEvent, FsmTimer, Event
  <2>4. Taken(r, t, e)
    BY <2>1 DEF Taken
  <2>5. Due(Conf)
    BY <1>0, <1>3, QuietDue DEF FsmTimerExpire
  <2> HIDE DEF e
  <2> QED BY <1>0, <2>2, <2>3, <2>4, <2>5 DEF ConfSteps, ConfMove
<1>4. CASE bgp_graceful_restart_timer_expire(Conf)
           \/ bgp_graceful_stale_timer_expire(Conf)
  <2>1. PICK tm \in SUBSET (FsmTimer \cup SideTimer), wt \in BOOLEAN :
          /\ tm \cup GrTimer = r.tm \cup GrTimer /\ r.tm \cap GrTimer # {}
          /\ Becomes(Put(World, Conf, [r EXCEPT !.tm = tm, !.wait = wt,
                                                !.routes = DropStale(r)]), {})
    <3>1. CASE bgp_graceful_restart_timer_expire(Conf)
      <4> DEFINE tm == r.tm \ {"gr_restart", "gr_stale"}
                 wt == FALSE
                 rs == DropStale(r)
      <4>1. /\ tm \in SUBSET (FsmTimer \cup SideTimer) /\ wt \in BOOLEAN
            /\ tm \cup GrTimer = r.tm \cup GrTimer /\ r.tm \cap GrTimer # {}
        BY <1>1, <3>1 DEF PeerType, GrTimer, bgp_graceful_restart_timer_expire
      <4>2. Becomes(Put(World, Conf, [r EXCEPT !.tm = tm, !.wait = wt,
                                               !.routes = rs]), {})
        BY <3>1 DEF bgp_graceful_restart_timer_expire
      <4> HIDE DEF tm, wt, rs
      <4> QED BY <4>1, <4>2 DEF rs
    <3>2. CASE bgp_graceful_stale_timer_expire(Conf)
      <4> DEFINE tm == r.tm \ {"gr_stale"}
                 wt == r.wait
                 rs == DropStale(r)
      <4>1. /\ tm \in SUBSET (FsmTimer \cup SideTimer) /\ wt \in BOOLEAN
            /\ tm \cup GrTimer = r.tm \cup GrTimer /\ r.tm \cap GrTimer # {}
        BY <1>1, <3>2 DEF PeerType, GrTimer, bgp_graceful_stale_timer_expire
      <4>2. Becomes(Put(World, Conf, [r EXCEPT !.tm = tm, !.routes = rs]), {})
        BY <3>2 DEF bgp_graceful_stale_timer_expire
      <4>3. [r EXCEPT !.tm = tm, !.routes = rs]
              = [r EXCEPT !.tm = tm, !.wait = wt, !.routes = rs]
        BY <1>1 DEF PeerType
      <4> HIDE DEF tm, wt, rs
      <4>4. Becomes(Put(World, Conf, [r EXCEPT !.tm = tm, !.wait = wt,
                                               !.routes = rs]), {})
        BY <4>2, <4>3
      <4> QED BY <4>1, <4>4 DEF rs
    <3> QED BY <1>4, <3>1, <3>2
  <2> DEFINE rs == DropStale(r)
             t == [r EXCEPT !.tm = tm, !.wait = wt, !.routes = rs]
             w == Put(World, Conf, t)
  <2>2. Becomes(w, {})
    BY <2>1
  <2>3. rs \in SUBSET {"fresh", "stale"}
    BY <1>1 DEF PeerType, DropStale
  <2>4. rs = DropStale(r)
    OBVIOUS
  <2> HIDE DEF rs
  <2>5. /\ t \in PeerType /\ t.fd = r.fd /\ t.rd = r.rd /\ t.wr = r.wr
        /\ t.status = r.status /\ t.init = r.init /\ t.tm = tm
        /\ t.routes = rs /\ Only(r, t, {"tm", "wait", "routes"})
    BY <1>1, <2>1, <2>3, Fields DEF PeerType, Only, Field
  <2> HIDE DEF t
  <2>6. Turn(World, w, Conf) /\ w.peer[Conf] = t
    BY <1>0, <1>1, <2>5, PutTurn
  <2> HIDE DEF w
  <2>7. Alone(Conf) /\ s = t
    BY <1>0, <2>2, <2>6, TurnAlone
  <2>8. Expired(r, s)
    BY <2>1, <2>4, <2>5, <2>7 DEF Expired
  <2>9. Due(Conf) /\ r.ev = <<>>
    BY <1>0, <1>4, QuietDue DEF bgp_graceful_restart_timer_expire,
         bgp_graceful_stale_timer_expire
  <2> QED BY <1>0, <2>7, <2>8, <2>9 DEF ConfSteps, ConfMove
<1>5. CASE bgp_maximum_prefix_restart_timer(Conf)
  <2> DEFINE t == [r EXCEPT !.tm = @ \ {"pmax_restart"}]
             w == Put(World, Conf, t)
  <2>1. PICK ok \in BOOLEAN : Becomes(peer_clear(w, Conf, ok), {})
    BY <1>5 DEF bgp_maximum_prefix_restart_timer
  <2> DEFINE v == peer_clear(w, Conf, ok)
  <2>2. /\ t \in PeerType /\ t.fd = r.fd /\ t.rd = r.rd /\ t.wr = r.wr
        /\ t.init = r.init /\ t.status = r.status /\ t.ev = r.ev
        /\ t.tm = r.tm \ {"pmax_restart"}
    BY SMTT(120), <1>1 DEF PeerType
  <2>3. Only(r, t, {"tm"})
    BY <1>1, Fields DEF Only, Field
  <2> HIDE DEF t
  <2>4. Turn(World, w, Conf) /\ w.peer[Conf] = t /\ Good(w)
    BY SMTT(120), <1>0, <1>1, <2>2, PutTurn
  <2> HIDE DEF w
  <2>5. Due(Conf) /\ r.ev = <<>> /\ "pmax_restart" \in r.tm
    BY <1>0, <1>5, QuietDue DEF bgp_maximum_prefix_restart_timer
  <2>6. Turn(w, v, Conf) /\ Cleared(t, v.peer[Conf], Conf)
    BY <1>0, <2>2, <2>4, <2>5, ClearTurn
  <2> HIDE DEF v
  <2>7. Turn(World, v, Conf) /\ Becomes(v, {})
    BY <2>1, <2>4, <2>6, TurnTrans DEF v
  <2>8. Alone(Conf) /\ Cleared(t, s, Conf)
    BY <1>0, <2>6, <2>7, TurnAlone
  <2>9. Restarting(r, t)
    BY <2>2, <2>3, <2>5 DEF Restarting
  <2> QED BY <1>0, <2>2, <2>5, <2>8, <2>9 DEF ConfSteps, ConfMove
<1>6. CASE ConnectRead(Conf) \/ ConnectWrite(Conf)
  <2>1. PICK c \in ConnectResult : Becomes(bgp_connect_check(World, Conf, c), {})
    BY <1>6 DEF ConnectRead, ConnectWrite
  <2> DEFINE v == bgp_connect_check(World, Conf, c)
  <2>2. Due(Conf) /\ r.ev = <<>> /\ r.status = "Connect"
    BY <1>0, <1>6, QuietDue DEF ConnectRead, ConnectWrite
  <2>3. Turn(World, v, Conf) /\ Checked(r, v.peer[Conf])
    BY <1>0, <1>1, <2>2, CheckTurn
  <2> HIDE DEF v
  <2>4. Alone(Conf) /\ Checked(r, s)
    BY <1>0, <2>1, <2>3, TurnAlone DEF v
  <2> QED BY <1>0, <2>2, <2>4 DEF ConfSteps, ConfMove
<1>7. CASE Read(Conf)
  <2>1. PICK m \in Messages, c \in [conn : {"error"}, ok : BOOLEAN, alt : BOOLEAN] :
          \E said : Becomes(bgp_read(World, Conf, m, c), said)
    BY <1>7 DEF Read, Messages
  <2> DEFINE v == bgp_read(World, Conf, m, c)
  <2>2. Quiet /\ r.rd # NoThread
    BY <1>7 DEF Read
  <2>3. \A q \in Peer : World.peer[q].ev = <<>>
    BY <1>1, <2>2 DEF Quiet
  <2>4. /\ v.plist = plist /\ Handled(r, v.peer[Conf], Conf)
        /\ \A q \in Accept : Beside(World, v, q)
    BY <1>1, <2>3, ReadConf
  <2>5. peer' = v.peer /\ plist' = v.plist
    BY <2>1 DEF Becomes
  <2> HIDE DEF v
  <2>6. \E x : /\ x.peer = peer' /\ x.plist = plist' /\ plist' = plist
               /\ Handled(peer[Conf], peer'[Conf], Conf)
               /\ \A q \in Accept : Beside(World, x, q)
    BY <2>4, <2>5
  <2> QED BY <1>0, <2>2, <2>6 DEF Hears
<1>8. CASE Write(Conf)
  <2>1. PICK res \in {"done", "block", "error"} :
          (r.fd = NoFd => res = "error") /\ Becomes(bgp_write(World, Conf, res), {})
    BY <1>8 DEF Write
  <2> DEFINE v == bgp_write(World, Conf, res)
  <2>2. Due(Conf) /\ r.ev = <<>> /\ r.wr # NoThread
    BY <1>0, <1>8, QuietDue DEF Write
  <2>3. Turn(World, v, Conf) /\ Written(r, v.peer[Conf], Conf)
    BY <1>0, <1>1, <2>1, <2>2, WriteTurn
  <2> HIDE DEF v
  <2>4. Alone(Conf) /\ Written(r, s, Conf)
    BY <1>0, <2>1, <2>3, TurnAlone DEF v
  <2> QED BY <1>0, <2>2, <2>4 DEF ConfSteps, ConfMove
<1>9. CASE bgp_routeadv_timer(Conf)
  <2> DEFINE v == SendData(World, Conf)
  <2>1. Due(Conf) /\ r.ev = <<>> /\ r.status = "Established" /\ Becomes(v, {})
    BY <1>0, <1>9, QuietDue DEF bgp_routeadv_timer
  <2>2. Turn(World, v, Conf) /\ Only(r, v.peer[Conf], {"wr", "obuf"})
    BY SMTT(120), <1>0, <1>1, <2>1, SendTurn DEF HasFd, InSession, Only
  <2> HIDE DEF v
  <2>3. Alone(Conf) /\ Written(r, s, Conf)
    BY <1>0, <2>1, <2>2, TurnAlone DEF Written
  <2> QED BY <1>0, <2>1, <2>3 DEF ConfSteps, ConfMove
<1> QED BY <1>2, <1>3, <1>4, <1>5, <1>6, <1>7, <1>8, <1>9 DEF Handler

(* A world that did not change has no peer beside the one that acts.         *)
LEMMA BesideSame ==
  ASSUME NEW p \in Peer, Others(p), NEW v, v.peer = peer', NEW q \in Peer \ {p}
  PROVE  Beside(World, v, q)
BY DEF Others, Beside, World

(* Each handler of a temporary peer is one of these moves.                   *)
LEMMA GuestHandler ==
  ASSUME IInv, NEW p \in Accept, Guest(peer[p], p), Handler(p)
  PROVE  GuestSteps(p) \/ Finishes(p)
<1> DEFINE r == peer[p]
           s == peer'[p]
<1>0. p \in Peer /\ Live(plist, p) /\ IInv' /\ p # Conf /\ Conf \in Peer
  BY ConstantAssumption, HandlerInv DEF Peer, Handler
<1>1. /\ r \in PeerType /\ s \in PeerType /\ Good(World) /\ HasFd(r)
      /\ World.peer = peer /\ World.plist = plist
  BY <1>0, WorldSound DEF IInv, TypeOK, Sound, World
<1>g. /\ r.status \in {"Idle", "Active", "OpenSent"}
      /\ r.ev = <<>> \/ r.ev = <<"TCP_connection_open">>
      /\ r.status = "Active" <=> r.ev # <<>>
      /\ r.status = "Active" => r.fd # NoFd
      /\ r.rd # NoThread => r.status = "OpenSent"
      /\ ~r.init /\ ~r.wait /\ r.routes = {}
      /\ r.tm \subseteq {"hold"}
      /\ r.ev = <<>> => Timed(r, p)
  BY DEF Guest
<1>2. CASE RunEvent(p)
  <2>1. Queue(r)
    <3>1. "TCP_connection_open" \in QueueEvent
      BY DEF QueueEvent, Event
    <3> QED BY <3>1 DEF Guest, Queue
  <2>2. PICK t \in PeerType, e \in QueueEvent :
           /\ r.ev = <<e>> /\ t.ev = <<>> /\ Only(r, t, {"ev"})
           /\ FiredBy(p, t, FSM[t.status][e])
    BY <1>0, <1>2, <2>1, EventMoves
  <2>3. r.ev # <<>>
    BY <1>2 DEF RunEvent
  <2>4. e = "TCP_connection_open"
    <3>1. r.ev = <<"TCP_connection_open">> /\ r.ev = <<e>>
      BY <1>g, <2>2, <2>3
    <3>2. r.ev[1] = e /\ r.ev[1] = "TCP_connection_open"
      BY SMTT(120), <3>1
    <3> QED BY <3>2
  <2>5. t.status = "Active" /\ t.fd # NoFd
    <3>1. t.status = r.status /\ t.fd = r.fd
      BY <2>2 DEF Only, Field
    <3> QED BY <1>g, <2>3, <3>1
  <2>6. FSM[t.status][e] = <<"bgp_connect_success", "OpenSent">>
    BY <2>4, <2>5, EntryFacts
  <2>7. /\ Alone(p) /\ Called("bgp_connect_success", t, s) /\ s.status = "OpenSent"
        /\ Timed(s, p)
    BY SMTT(120), <2>2, <2>5, <2>6 DEF FiredBy
  <2>8. GuestFired(r, s, p)
    BY <2>2, <2>4, <2>7 DEF GuestFired
  <2> QED BY <1>0, <2>3, <2>7, <2>8 DEF GuestSteps, GuestMove, Due
<1>3. ASSUME NEW i \in FsmTimer, FsmTimerExpire(p, i)
      PROVE  GuestSteps(p) \/ Finishes(p)
  <2>1. PICK t \in PeerType :
           /\ r.ev = <<>> /\ i \in r.tm
           /\ Only(r, t, {"tm", "init"}) /\ t.tm = r.tm \ {i}
           /\ t.init = (r.init /\ i # "start")
           /\ FiredBy(p, t, FSM[t.status][TimerEvent[i]])
    BY <1>0, <1>3, TimerMoves
  <2>2. i = "hold"
    BY <1>g, <2>1
  <2>3. r.status = "OpenSent"
    <3>1. "hold" \in TimersOf(r, p)
      BY <1>g, <2>1, <2>2 DEF Timed, FsmTimer
    <3>2. r.status # "Active"
      BY <1>g, <2>1
    <3> QED BY <1>0, <1>g, <3>1, <3>2 DEF TimersOf
  <2>4. /\ t.status = r.status /\ t.shut = r.shut /\ t.routes = r.routes
        /\ t.wait = r.wait
    BY <2>1 DEF Only, Field
  <2>5. FSM[t.status][TimerEvent[i]] = <<"bgp_fsm_holdtime_expire", "Idle">>
    BY <2>2, <2>3, <2>4, EntryFacts DEF TimerEvent
  <2>6. Quiet /\ Due(p)
    BY <1>0, <1>3, QuietDue DEF FsmTimerExpire
  <2>7. CASE /\ Others(p) /\ plist' = listnode_delete(plist, p)
             /\ Removed(t, s)
    <3>1. Removed(r, s)
      BY <2>4, <2>7 DEF Removed
    <3> DEFINE v == [peer |-> peer', plist |-> plist']
    <3>2. v.peer = peer' /\ v.plist = plist'
      OBVIOUS
    <3> HIDE DEF v
    <3>3. \A q \in Peer \ {p} : Beside(World, v, q)
      BY <1>0, <2>7, <3>2, BesideSame
    <3>4. Finished(World, v, p)
      BY <1>0, <1>1, <2>7, <3>1, <3>2, <3>3 DEF Finished
    <3>5. Finishes(p)
      BY <1>0, <2>3, <2>6, <3>2, <3>4 DEF Finishes
    <3> QED BY <3>5
  <2>8. CASE /\ Alone(p) /\ Called("bgp_fsm_holdtime_expire", t, s)
             /\ s.status = "Idle" /\ Timed(s, p)
    <3>1. ~t.init /\ t.tm = r.tm \ {"hold"} /\ Only(r, t, {"tm", "init"})
      BY <1>g, <2>1, <2>2
    <3>2. GuestFired(r, s, p)
      BY <2>1, <2>3, <2>8, <3>1 DEF GuestFired
    <3> QED BY <1>0, <2>6, <2>8, <3>2 DEF GuestSteps, GuestMove
  <2> QED BY SMTT(120), <2>1, <2>5, <2>7, <2>8 DEF FiredBy
<1>4. CASE Read(p)
  <2>1. PICK m \in Messages, c \in [conn : {"error"}, ok : BOOLEAN, alt : BOOLEAN] :
          \E said : Becomes(bgp_read(World, p, m, c), said)
    BY <1>4 DEF Read, Messages
  <2> DEFINE v == bgp_read(World, p, m, c)
  <2>2. Quiet /\ r.rd # NoThread
    BY <1>4 DEF Read
  <2>3. \A q \in Peer : World.peer[q].ev = <<>>
    BY <1>1, <2>2 DEF Quiet
  <2>4. r.status = "OpenSent" /\ r.fd # NoFd
    BY <1>1, <1>g, <2>2 DEF HasFd, InSession
  <2>5. Finished(World, v, p)
    BY <1>1, <1>g, <2>3, <2>4, ReadTemp
  <2>6. v.peer = peer' /\ v.plist = plist'
    BY <2>1 DEF Becomes
  <2> HIDE DEF v
  <2> QED BY <1>0, <2>2, <2>4, <2>5, <2>6 DEF Finishes
<1>5. CASE Write(p)
  <2>1. PICK res \in {"done", "block", "error"} :
          (r.fd = NoFd => res = "error") /\ Becomes(bgp_write(World, p, res), {})
    BY <1>5 DEF Write
  <2> DEFINE v == bgp_write(World, p, res)
  <2>2. Due(p) /\ r.ev = <<>>
    BY <1>0, <1>5, QuietDue DEF Write
  <2>3. Turn(World, v, p) /\ Written(r, v.peer[p], p)
    BY <1>0, <1>1, <2>1, <2>2, WriteTurn
  <2> HIDE DEF v
  <2>4. Alone(p) /\ Written(r, s, p)
    BY <1>0, <2>1, <2>3, TurnAlone DEF v
  <2> QED BY <1>0, <2>2, <2>4 DEF GuestSteps, GuestMove
<1>6. ASSUME \/ bgp_graceful_restart_timer_expire(p)
             \/ bgp_graceful_stale_timer_expire(p)
             \/ bgp_maximum_prefix_restart_timer(p)
      PROVE  FALSE
  BY <1>g, <1>6 DEF bgp_graceful_restart_timer_expire,
       bgp_graceful_stale_timer_expire, bgp_maximum_prefix_restart_timer
<1>7. ASSUME ConnectRead(p) \/ ConnectWrite(p) \/ bgp_routeadv_timer(p)
      PROVE  FALSE
  BY <1>g, <1>7 DEF ConnectRead, ConnectWrite, bgp_routeadv_timer
<1> QED BY <1>2, <1>3, <1>4, <1>5, <1>6, <1>7 DEF Handler

(* Each command of the operator is one of these moves.                       *)
LEMMA OperatorMoves ==
  ASSUME IInv, Operator
  PROVE  ConfSteps \/ Deletes \/ Creates
<1> DEFINE r == peer[Conf]
           s == peer'[Conf]
<1>0. Conf \in Peer /\ IInv'
  BY ConstantAssumption, OperatorInv DEF Peer
<1>1. /\ r \in PeerType /\ s \in PeerType /\ Good(World) /\ HasFd(r)
      /\ World.peer = peer /\ World.plist = plist
  BY <1>0, WorldSound DEF IInv, TypeOK, Sound, World
<1>2. CASE shutdown
  <2> DEFINE w1 == IF r.wait THEN peer_nsf_stop(World, Conf) ELSE World
             t == w1.peer[Conf]
             u == [t EXCEPT !.shut = TRUE, !.over = FALSE,
                            !.tm = @ \ {"pmax_restart"}]
             w2 == Put(w1, Conf, u)
  <2>1. PICK ok \in BOOLEAN : Becomes(ResetPeer(w2, Conf, ok), {})
    BY <1>2 DEF shutdown
  <2> DEFINE v == ResetPeer(w2, Conf, ok)
  <2>2. Turn(World, w1, Conf) /\ NsfOff(r, t)
    BY <1>0, <1>1, NsfOffTurn
  <2>3. Good(w1) /\ t \in PeerType
    BY <1>0, <2>2, PeerOf DEF Turn, From
  <2> HIDE DEF w1, t
  <2>t. t = w1.peer[Conf]
    BY DEF t
  <2>4. /\ u \in PeerType /\ u.fd = t.fd /\ u.rd = t.rd
        /\ u.wr = t.wr /\ u.init = t.init /\ u.status = t.status
        /\ u.ev = t.ev /\ u.shut /\ ~u.over /\ u.tm = t.tm \ {"pmax_restart"}
        /\ Only(t, u, {"shut", "over", "tm"})
    BY <2>3, Fields DEF PeerType, Only, Field
  <2> HIDE DEF u
  <2>5. Turn(w1, w2, Conf) /\ w2.peer[Conf] = u /\ Good(w2)
    BY SMTT(120), <1>0, <2>3, <2>4, <2>t, PutTurn
  <2> HIDE DEF w2
  <2>6. Due(Conf) /\ r.ev = <<>> /\ Live(plist, Conf) /\ ~r.shut
        /\ (EarlyShutdown \/ ~r.init)
    BY <1>0, <1>2, QuietDue DEF shutdown
  <2>7. t.ev = <<>>
    BY <2>2, <2>6 DEF NsfOff, Only, Field
  <2>8. Turn(w2, v, Conf) /\ Reset(u, v.peer[Conf], Conf)
    BY <1>0, <2>4, <2>5, <2>7, ResetTurn
  <2> HIDE DEF v
  <2>9. Turn(World, v, Conf) /\ Becomes(v, {})
    BY <2>1, <2>2, <2>5, <2>8, TurnTrans DEF v
  <2>10. Alone(Conf) /\ Reset(u, s, Conf)
    BY <1>0, <2>8, <2>9, TurnAlone
  <2>11. Disabled(r, s)
    BY <2>2, <2>3, <2>4, <2>10 DEF Disabled
  <2> QED BY <2>6, <2>10, <2>11 DEF ConfSteps, ConfMove
<1>3. CASE no_shutdown
  <2> DEFINE t == [r EXCEPT !.shut = FALSE]
             w == Put(World, Conf, t)
             v == EventAdd(w, Conf, "BGP_Start")
  <2>1. Becomes(v, {}) /\ "BGP_Start" \in Event
    BY <1>3 DEF no_shutdown, Event
  <2>2. /\ t \in PeerType /\ t.fd = r.fd /\ t.rd = r.rd /\ t.wr = r.wr
        /\ t.init = r.init /\ t.status = r.status /\ t.ev = r.ev /\ ~t.shut
        /\ Only(r, t, {"shut"})
    BY <1>1, Fields DEF PeerType, Only, Field
  <2> HIDE DEF t
  <2>3. Turn(World, w, Conf) /\ w.peer[Conf] = t /\ Good(w)
    BY SMTT(120), <1>0, <1>1, <2>2, PutTurn
  <2> HIDE DEF w
  <2>4. Due(Conf) /\ r.ev = <<>> /\ Live(plist, Conf) /\ r.shut
    BY <1>0, <1>3, QuietDue DEF no_shutdown
  <2>5. /\ Turn(w, v, Conf) /\ Only(t, v.peer[Conf], {"ev"})
        /\ v.peer[Conf].ev = <<"BGP_Start">>
    BY <1>0, <2>1, <2>2, <2>3, <2>4, EventAddTurn
  <2> HIDE DEF v
  <2>6. Turn(World, v, Conf)
    BY <2>3, <2>5, TurnTrans
  <2>7. Alone(Conf) /\ s = v.peer[Conf]
    BY <1>0, <2>1, <2>6, TurnAlone
  <2>8. Only(r, s, {"shut"} \cup {"ev"})
    BY <2>2, <2>5, <2>7, OnlyTrans
  <2>9. Only(r, s, {"shut", "ev"})
    BY <2>8 DEF Only
  <2>10. s.shut = t.shut
    BY <2>5, <2>7 DEF Only, Field
  <2>11. ~s.shut
    BY <2>2, <2>10
  <2>12. Enabled(r, s)
    BY <2>4, <2>5, <2>7, <2>9, <2>11 DEF Enabled
  <2> QED BY <2>4, <2>7, <2>12 DEF ConfSteps, ConfMove
<1>4. CASE clear
  <2>1. PICK ok \in BOOLEAN : Becomes(peer_clear(World, Conf, ok), {})
    BY <1>4 DEF clear
  <2> DEFINE v == peer_clear(World, Conf, ok)
  <2>2. Due(Conf) /\ r.ev = <<>> /\ Live(plist, Conf)
    BY <1>0, <1>4, QuietDue DEF clear
  <2>3. Turn(World, v, Conf) /\ Cleared(r, v.peer[Conf], Conf)
    BY <1>0, <1>1, <2>2, ClearTurn
  <2> HIDE DEF v
  <2>4. Alone(Conf) /\ Cleared(r, s, Conf)
    BY <1>0, <2>1, <2>3, TurnAlone DEF v
  <2> QED BY <2>2, <2>4 DEF ConfSteps, ConfMove
<1>5. CASE delete
  <2>1. PICK ok \in BOOLEAN : Becomes(peer_delete(World, Conf, ok), {})
    BY <1>5 DEF delete
  <2> DEFINE v == peer_delete(World, Conf, ok)
  <2>2. /\ From(World, v, Conf) /\ v.plist = listnode_delete(plist, Conf)
        /\ Gone(r, v.peer[Conf])
    BY <1>0, <1>1, DeleteTurn
  <2>3. peer' = v.peer /\ plist' = v.plist
    BY <2>1 DEF Becomes
  <2> HIDE DEF v
  <2>4. Others(Conf)
    BY <1>1, <2>2, <2>3 DEF From, Others
  <2> QED BY <1>5, <2>2, <2>3, <2>4 DEF Deletes, delete
<1>6. CASE create
  <2> DEFINE w1 == Put(World, Conf, peer_create)
             l == Append(World.plist, Conf)
             w == [w1 EXCEPT !.plist = l]
  <2>1. Becomes(w, {})
    <3>1. Becomes([Put(World, Conf, peer_create) EXCEPT
                     !.plist = Append(@, Conf)], {})
      BY <1>6 DEF create
    <3>2. w1.plist = World.plist
      BY DEF Put, World
    <3> QED BY <3>1, <3>2
  <2>2. World \in WorldType
    BY <1>1 DEF Good
  <2>3. l = Append(plist, Conf)
    BY <1>1
  <2> HIDE DEF l
  <2>6. /\ w.plist = l /\ w.peer[Conf] = peer_create
        /\ \A q \in Peer \ {Conf} : w.peer[q] = World.peer[q]
    BY <1>0, <2>2 DEF WorldType, Put
  <2> HIDE DEF w
  <2>7. peer' = w.peer /\ plist' = w.plist
    BY <2>1 DEF Becomes
  <2>8. Others(Conf)
    BY <1>1, <2>6, <2>7 DEF Others
  <2> QED BY <1>6, <2>3, <2>6, <2>7, <2>8 DEF Creates, create
<1> QED BY <1>2, <1>3, <1>4, <1>5, <1>6 DEF Operator

(* Every step of the program is one of these moves.                          *)
LEMMA NextMoved ==
  ASSUME IInv, Queue(peer[Conf]), \A p \in Accept : Guest(peer[p], p), Next
  PROVE  Moved
<1>1. ASSUME NEW p \in Peer, Handler(p)
      PROVE  Moved
  <2>1. CASE p = Conf
    BY <1>1, <2>1, ConfHandler DEF Moved
  <2>2. CASE p \in Accept
    BY <1>1, <2>2, GuestHandler DEF Moved
  <2> QED BY <2>1, <2>2 DEF Peer
<1>2. ASSUME NEW p \in Peer, bgp_accept(p)
      PROVE  Moved
  <2>1. p \in Accept
    BY <1>2 DEF bgp_accept
  <2> QED BY <1>2, <2>1 DEF Moved
<1>3. ASSUME Operator
      PROVE  Moved
  BY <1>3, OperatorMoves DEF Moved
<1> QED BY <1>1, <1>2, <1>3 DEF Next

=============================================================================
