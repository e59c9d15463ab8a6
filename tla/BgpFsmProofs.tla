---------------------------- MODULE BgpFsmProofs ----------------------------
(* Proofs about BgpFsm for every set of temporary peers, every number of     *)
(* descriptors and every neighbour.                                          *)
EXTENDS BgpFsm, TLAPS

(* The prover of every step that does not name another one.                  *)
USE ZenonT(60)

(* A list of peers, in which every set of places has a first one: the walk   *)
(* along the list in bgp_collision_detect ends at the first that matches.    *)
Firsts(n) == \A T \in SUBSET (1..n) : T # {} => \E i \in T : \A j \in T : i <= j
Lists == {s \in Seq(Peer) : Firsts(Len(s))}

WorldType == [peer : [Peer -> PeerType], open : SUBSET Fd, plist : Lists]

(* The descriptors a structure holds or watches.                             *)
Held(r) == {r.fd, r.rd, r.wr} \ {NoFd, NoThread}

(* What every handler keeps at each of its steps.                            *)
Good(w) ==
  /\ w \in WorldType
  /\ \A p \in Peer : Held(w.peer[p]) \subseteq w.open
  /\ \A p, q \in Peer : p # q => Held(w.peer[p]) \cap Held(w.peer[q]) = {}

(* v comes from w by changes to p only.                                      *)
From(w, v, p) ==
  /\ Good(v)
  /\ v.peer[p].init = w.peer[p].init
  /\ \A q \in Peer \ {p} : v.peer[q] = w.peer[q]

Same(w, v, p) ==
  /\ From(w, v, p)
  /\ v.peer[p].status = w.peer[p].status
  /\ v.peer[p].fd = w.peer[p].fd

(* Storing a record of the right type in one structure keeps a world good.   *)
LEMMA PutGood ==
  ASSUME NEW w, Good(w), NEW p \in Peer, NEW r \in PeerType,
         Held(r) \subseteq Held(w.peer[p]), r.init = w.peer[p].init
  PROVE  /\ From(w, Put(w, p, r), p)
         /\ Put(w, p, r).peer[p] = r
<1> DEFINE v == Put(w, p, r)
<1>1. /\ v \in WorldType /\ v.open = w.open /\ v.peer[p] = r
      /\ \A q \in Peer \ {p} : v.peer[q] = w.peer[q]
  <2>1. w \in WorldType
    BY DEF Good
  <2> QED BY <2>1 DEF WorldType, Put
<1>2. \A q \in Peer : Held(v.peer[q]) \subseteq Held(w.peer[q])
  BY <1>1
<1>3. Good(v)
  <2> HIDE DEF v
  <2> QED BY <1>1, <1>2 DEF Good
<1> QED BY <1>1, <1>3 DEF From

(* Two stretches of a handler that touch only peer p compose.                *)
LEMMA FromTrans ==
  ASSUME NEW w, NEW v, NEW u, NEW p, From(w, v, p), From(v, u, p)
  PROVE  From(w, u, p)
BY DEF From

(* BGP_EVENT_ADD changes only the queue of events.                           *)
LEMMA EventAddSame ==
  ASSUME NEW w, Good(w), NEW p \in Peer, NEW e \in Event
  PROVE  Same(w, EventAdd(w, p, e), p)
<1> DEFINE r == w.peer[p]
           s == [r EXCEPT !.ev = Append(@, e)]
<1>1. r \in PeerType
  BY DEF Good, WorldType
<1>2. Append(r.ev, e) \in Seq(Event)
  BY SMTT(120), <1>1 DEF PeerType
<1>3. s \in PeerType /\ s.fd = r.fd /\ s.rd = r.rd /\ s.wr = r.wr
      /\ s.init = r.init /\ s.status = r.status
  <2> DEFINE x == Append(r.ev, e)
  <2>1. x \in Seq(Event) BY <1>2
  <2>2. s = [r EXCEPT !.ev = x] OBVIOUS
  <2> HIDE DEF x
  <2> QED BY <1>1, <2>1, <2>2 DEF PeerType
<1> HIDE DEF s
<1>4. Held(s) = Held(r)
  BY <1>3 DEF Held
<1>5. EventAdd(w, p, e) = Put(w, p, s)
  BY DEF EventAdd, s
<1> QED BY SMTT(120), <1>1, <1>3, <1>4, <1>5, PutGood DEF Same

(* Every structure of a good world has a record of the right type.           *)
LEMMA PeerOf ==
  ASSUME NEW w, Good(w), NEW p \in Peer
  PROVE  w.peer[p] \in PeerType
BY DEF Good, WorldType

(* A handler that does nothing touches no descriptor.                        *)
LEMMA SameRefl ==
  ASSUME NEW w, Good(w), NEW p
  PROVE  Same(w, w, p)
BY DEF Same, From

(* Two stretches that touch no descriptor compose.                           *)
LEMMA SameTrans ==
  ASSUME NEW w, NEW v, NEW u, NEW p, Same(w, v, p), Same(v, u, p)
  PROVE  Same(w, u, p)
BY FromTrans DEF Same

(* BGP_READ_ON leaves every descriptor as it was.                            *)
LEMMA ReadOnSame ==
  ASSUME NEW w, Good(w), NEW p \in Peer, w.peer[p].fd # NoFd
  PROVE  Same(w, ReadOn(w, p), p)
<1> DEFINE r == w.peer[p]
           s == [r EXCEPT !.rd = r.fd]
<1>1. r \in PeerType
  BY PeerOf
<1>2. s \in PeerType /\ s.fd = r.fd /\ s.rd = r.fd /\ s.wr = r.wr
      /\ s.init = r.init /\ s.status = r.status
  BY <1>1 DEF PeerType
<1> HIDE DEF s
<1>3. Held(s) \subseteq Held(r)
  BY <1>2 DEF Held
<1>4. ReadOn(w, p) \in {w, Put(w, p, s)}
  BY DEF ReadOn, s
<1>5. Same(w, Put(w, p, s), p)
  BY <1>2, <1>3, PutGood DEF Same
<1> QED BY <1>4, <1>5, SameRefl

(* BGP_WRITE_ON leaves every descriptor as it was.                           *)
LEMMA WriteOnSame ==
  ASSUME NEW w, Good(w), NEW p \in Peer, w.peer[p].fd # NoFd
  PROVE  Same(w, WriteOn(w, p), p)
<1> DEFINE r == w.peer[p]
           s == [r EXCEPT !.wr = r.fd]
<1>1. r \in PeerType
  BY PeerOf
<1>2. s \in PeerType /\ s.fd = r.fd /\ s.rd = r.rd /\ s.wr = r.fd
      /\ s.init = r.init /\ s.status = r.status
  BY <1>1 DEF PeerType
<1> HIDE DEF s
<1>3. Held(s) \subseteq Held(r)
  BY <1>2 DEF Held
<1>4. WriteOn(w, p) \in {w, Put(w, p, s)}
  BY DEF WriteOn, s
<1>5. Same(w, Put(w, p, s), p)
  BY <1>2, <1>3, PutGood DEF Same
<1> QED BY <1>4, <1>5, SameRefl

(* Changing other fields than status, descriptors and init.                  *)
LEMMA PutSame ==
  ASSUME NEW w, Good(w), NEW p \in Peer, NEW s \in PeerType,
         s.fd = w.peer[p].fd, s.rd \in {w.peer[p].rd, NoThread},
         s.wr \in {w.peer[p].wr, NoThread},
         s.init = w.peer[p].init, s.status = w.peer[p].status
  PROVE  Same(w, Put(w, p, s), p)
<1>1. Held(s) \subseteq Held(w.peer[p])
  BY DEF Held
<1> QED BY <1>1, PutGood DEF Same

(* Queueing a packet leaves every descriptor as it was.                      *)
LEMMA SendDataSame ==
  ASSUME NEW w, Good(w), NEW p \in Peer, w.peer[p].fd # NoFd
  PROVE  Same(w, SendData(w, p), p)
<1> DEFINE r == w.peer[p]
           s == [r EXCEPT !.obuf = IF @ = "none" THEN "data" ELSE @]
<1>1. r \in PeerType
  BY PeerOf
<1>2. s \in PeerType /\ s.fd = r.fd /\ s.rd = r.rd /\ s.wr = r.wr
      /\ s.init = r.init /\ s.status = r.status
  BY <1>1 DEF PeerType
<1>3. SendData(w, p) = WriteOn(Put(w, p, s), p)
  BY DEF SendData
<1> HIDE DEF s
<1>4. Same(w, Put(w, p, s), p)
  BY <1>2, PutSame
<1>5. Same(Put(w, p, s), WriteOn(Put(w, p, s), p), p)
  BY <1>4, WriteOnSame DEF Same, From
<1> QED BY <1>3, <1>4, <1>5, SameTrans

(* bgp_timer_set touches timers only.                                        *)
LEMMA TimerSetSame ==
  ASSUME NEW w, Good(w), NEW p \in Peer
  PROVE  Same(w, bgp_timer_set(w, p), p)
<1> DEFINE r == w.peer[p]
           t == (r.tm \cap SideTimer) \cup TimersOf(r, p)
           s == [r EXCEPT !.tm = t]
<1>1. r \in PeerType
  BY PeerOf
<1>2. TimersOf(r, p) \subseteq FsmTimer
  BY <1>1 DEF TimersOf, FsmTimer
<1>3. t \in SUBSET (FsmTimer \cup SideTimer)
  BY <1>2
<1>4. bgp_timer_set(w, p) = Put(w, p, s)
  BY DEF bgp_timer_set
<1> HIDE DEF t
<1>5. s \in PeerType /\ s.fd = r.fd /\ s.rd = r.rd /\ s.wr = r.wr
      /\ s.init = r.init /\ s.status = r.status
  BY <1>1, <1>3 DEF PeerType
<1> HIDE DEF s
<1> QED BY <1>4, <1>5, PutSame

(* Stopping the hold timer touches timers only.                              *)
LEMMA HoldOffSame ==
  ASSUME NEW w, Good(w), NEW p \in Peer
  PROVE  Same(w, HoldOff(w, p), p)
<1> DEFINE r == w.peer[p]
           s == [r EXCEPT !.tm = @ \ {"hold"}]
<1>1. r \in PeerType
  BY PeerOf
<1>2. s \in PeerType /\ s.fd = r.fd /\ s.rd = r.rd /\ s.wr = r.wr
      /\ s.init = r.init /\ s.status = r.status
  BY <1>1 DEF PeerType
<1>3. HoldOff(w, p) = Put(w, p, s)
  BY DEF HoldOff
<1> HIDE DEF s
<1> QED BY <1>2, <1>3, PutSame

(* peer_nsf_stop touches routes and timers only.                             *)
LEMMA NsfStopSame ==
  ASSUME NEW w, Good(w), NEW p \in Peer
  PROVE  Same(w, peer_nsf_stop(w, p), p)
<1> DEFINE r == w.peer[p]
           s == [r EXCEPT !.wait = FALSE, !.mode = FALSE, !.nsf = FALSE,
                          !.routes = {}, !.tm = @ \ {"gr_restart", "gr_stale"}]
<1>1. r \in PeerType
  BY PeerOf
<1>2. s \in PeerType /\ s.fd = r.fd /\ s.rd = r.rd /\ s.wr = r.wr
      /\ s.init = r.init /\ s.status = r.status
  BY <1>1 DEF PeerType
<1>3. peer_nsf_stop(w, p) = Put(w, p, s)
  BY DEF peer_nsf_stop
<1> HIDE DEF s
<1> QED BY <1>2, <1>3, PutSame

(* bgp_fsm_change_status touches no descriptor.                              *)
LEMMA ChangeStatus ==
  ASSUME NEW w, Good(w), NEW p \in Peer, NEW st \in Status
  PROVE  LET v == bgp_fsm_change_status(w, p, st)
         IN  /\ From(w, v, p)
             /\ v.peer[p].status = st /\ v.peer[p].fd = w.peer[p].fd
<1> DEFINE r == w.peer[p]
           s == [r EXCEPT !.status = st]
<1>1. r \in PeerType
  BY PeerOf
<1>2. s \in PeerType /\ s.fd = r.fd /\ s.rd = r.rd /\ s.wr = r.wr
      /\ s.init = r.init /\ s.status = st
  BY <1>1 DEF PeerType
<1>3. bgp_fsm_change_status(w, p, st) = Put(w, p, s)
  BY DEF bgp_fsm_change_status
<1> HIDE DEF s
<1>4. Held(s) = Held(r)
  BY <1>2 DEF Held
<1> QED BY SMTT(120), <1>2, <1>3, <1>4, PutGood

(* The fields bgp_stop resets keep the record well typed.                    *)
LEMMA LeaveType ==
  ASSUME NEW r \in PeerType
  PROVE  LET s == LeaveEstablished(r)
         IN  /\ s \in PeerType /\ s.init = r.init /\ s.status = "Idle"
             /\ s.rd = r.rd /\ s.wr = r.wr /\ s.fd = r.fd
<1> DEFINE tm == IF r.wait THEN r.tm \cup {"gr_restart", "gr_stale"}
                 ELSE r.tm \ {"gr_stale"}
           mode == r.mode /\ r.wait
           nsf == r.nsf /\ r.wait
           t == [r EXCEPT !.status = "Idle", !.tm = tm, !.mode = mode,
                          !.nsf = nsf]
           rt == bgp_clear_route_all(t)
           s == [t EXCEPT !.routes = rt]
<1>1. tm \in SUBSET (FsmTimer \cup SideTimer)
  BY DEF PeerType, FsmTimer, SideTimer
<1>2. mode \in BOOLEAN /\ nsf \in BOOLEAN
  OBVIOUS
<1>3. rt \in SUBSET {"fresh", "stale"}
  BY DEF bgp_clear_route_all
<1>4. LeaveEstablished(r) = s
  BY DEF LeaveEstablished
<1> HIDE DEF tm, mode, nsf, rt
<1>5. t \in PeerType /\ t.init = r.init /\ t.status = "Idle"
      /\ t.rd = r.rd /\ t.wr = r.wr /\ t.fd = r.fd
  BY <1>1, <1>2 DEF PeerType, Status
<1> HIDE DEF t
<1>6. /\ s \in PeerType /\ s.init = t.init /\ s.status = t.status
      /\ s.rd = t.rd /\ s.wr = t.wr /\ s.fd = t.fd
  BY <1>3, <1>5 DEF PeerType
<1> QED BY <1>4, <1>5, <1>6

(* What bgp_stop leaves behind: no descriptor and no thread.                 *)
LEMMA StopFields ==
  ASSUME NEW s \in PeerType
  PROVE  LET t == [s EXCEPT !.rd = NoThread, !.wr = NoThread,
                            !.tm = @ \cap SideTimer, !.ev = <<>>,
                            !.obuf = "none", !.fd = NoFd, !.rid = 0,
                            !.gr = FALSE, !.hold = ConfHold]
         IN  /\ t \in PeerType /\ t.init = s.init /\ t.status = s.status
             /\ t.fd = NoFd /\ t.rd = NoThread /\ t.wr = NoThread
<1> DEFINE x == s.tm \cap SideTimer
           e == << >>
           h == ConfHold
<1>1. x \in SUBSET (FsmTimer \cup SideTimer) /\ e \in Seq(Event) /\ h \in Nat
  BY SMTT(120), ConstantAssumption DEF PeerType
<1> HIDE DEF x, e, h
<1>2. LET t == [s EXCEPT !.rd = NoThread, !.wr = NoThread,
                         !.tm = x, !.ev = e, !.obuf = "none", !.fd = NoFd,
                         !.rid = 0, !.gr = FALSE, !.hold = h]
      IN  /\ t \in PeerType /\ t.init = s.init /\ t.status = s.status
          /\ t.fd = NoFd /\ t.rd = NoThread /\ t.wr = NoThread
  BY <1>1 DEF PeerType
<1> QED BY <1>2 DEF x, e, h

(* Closing a descriptor nobody else holds, once its owner let go of it.      *)
LEMMA CloseGood ==
  ASSUME NEW w, Good(w), NEW p \in Peer, NEW r \in PeerType,
         Held(r) = {}, r.init = w.peer[p].init, NEW f,
         \A q \in Peer \ {p} : f \notin Held(w.peer[q])
  PROVE  LET v == Close(Put(w, p, r), f)
         IN  From(w, v, p) /\ v.peer[p] = r
<1> DEFINE v == Close(Put(w, p, r), f)
<1>1. w \in WorldType
  BY DEF Good
<1>2. /\ v \in WorldType /\ v.open = w.open \ {f} /\ v.peer[p] = r
      /\ \A q \in Peer \ {p} : v.peer[q] = w.peer[q]
  BY <1>1 DEF WorldType, Put, Close
<1>3. \A q \in Peer : Held(v.peer[q]) \subseteq Held(w.peer[q])
  BY <1>2
<1>4. Good(v)
  <2> HIDE DEF v
  <2> QED BY SMTT(120), <1>2, <1>3 DEF Good
<1> QED BY <1>2, <1>4 DEF From

(* bgp_stop: p may share descriptors with nobody else, its own are released. *)
LEMMA StopFrom ==
  ASSUME NEW w, Good(w), NEW p \in Peer
  PROVE  LET v == bgp_stop(w, p)
         IN  /\ From(w, v, p)
             /\ w.peer[p].init => v = w
             /\ ~w.peer[p].init =>
                  /\ v.peer[p].fd = NoFd
                  /\ v.peer[p].status =
                       IF w.peer[p].status = "Established" THEN "Idle"
                       ELSE w.peer[p].status
<1> DEFINE r == w.peer[p]
           s == IF r.status = "Established" THEN LeaveEstablished(r) ELSE r
           t == [s EXCEPT !.rd = NoThread, !.wr = NoThread,
                          !.tm = @ \cap SideTimer, !.ev = <<>>,
                          !.obuf = "none", !.fd = NoFd, !.rid = 0,
                          !.gr = FALSE, !.hold = ConfHold]
<1>1. r \in PeerType
  BY PeerOf
<1>2. s \in PeerType /\ s.init = r.init
      /\ s.status = IF r.status = "Established" THEN "Idle" ELSE r.status
  BY <1>1, LeaveType
<1>3. CASE r.init
  BY <1>3, SameRefl DEF bgp_stop, Same
<1>4. CASE ~r.init
  <2>1. bgp_stop(w, p) = Close(Put(w, p, t), r.fd)
    BY <1>4 DEF bgp_stop
  <2> HIDE DEF s
  <2>2. /\ t \in PeerType /\ t.init = s.init /\ t.status = s.status
        /\ t.fd = NoFd /\ t.rd = NoThread /\ t.wr = NoThread
    BY <1>2, StopFields
  <2> HIDE DEF t
  <2>3. Held(t) = {}
    BY <2>2 DEF Held
  <2>4. \A q \in Peer \ {p} : r.fd \notin Held(w.peer[q])
    BY DEF Good, Held
  <2> HIDE DEF r
  <2>5. LET v == Close(Put(w, p, t), r.fd) IN From(w, v, p) /\ v.peer[p] = t
    BY SMTT(120), <1>2, <2>2, <2>3, <2>4, CloseGood DEF r
  <2> QED BY <1>2, <1>4, <2>1, <2>2, <2>5 DEF r
<1> QED BY <1>3, <1>4

-----------------------------------------------------------------------------
(* A session always has a descriptor.  bgp_stop breaks this for the peer it  *)
(* stops until the caller has changed the status, so it is tracked apart.    *)
HasFd(r) == r.status \in InSession => r.fd # NoFd

Step(w, v, p) == From(w, v, p) /\ HasFd(v.peer[p])

(* bgp_notify_send ends in bgp_stop, or does nothing before the start.       *)
LEMMA NotifyStep ==
  ASSUME NEW w, Good(w), NEW p \in Peer, NEW ok,
         HasFd(w.peer[p]) \/ ~w.peer[p].init
  PROVE  Step(w, bgp_notify_send(w, p, ok), p)
<1> DEFINE r == w.peer[p]
           s == [r EXCEPT !.obuf = "notify", !.wr = NoThread]
           w0 == Put(w, p, s)
           w1 == bgp_stop(w0, p)
           w2 == IF ok /\ r.status = "Established" THEN w1
                 ELSE bgp_fsm_change_status(w1, p, "Idle")
<1>1. r \in PeerType
  BY PeerOf
<1>2. s \in PeerType /\ s.fd = r.fd /\ s.rd = r.rd /\ s.wr = NoThread
      /\ s.init = r.init /\ s.status = r.status
  BY <1>1 DEF PeerType
<1>3. bgp_notify_send(w, p, ok) = bgp_timer_set(w2, p)
  BY DEF bgp_notify_send
<1> HIDE DEF s
<1>4. Same(w, w0, p)
  BY <1>2, PutSame
<1> HIDE DEF w0
<1>5. /\ From(w0, w1, p)
      /\ r.init => w1 = w0
      /\ ~r.init => w1.peer[p].status =
                      IF r.status = "Established" THEN "Idle" ELSE r.status
  BY SMTT(120), <1>4, StopFrom DEF Same, From
<1> HIDE DEF w1
<1>6. Step(w, w2, p)
  <2>1. CASE ok /\ r.status = "Established"
    <3>1. From(w, w1, p)
      BY <1>4, <1>5, FromTrans DEF Same
    <3>2. HasFd(w1.peer[p])
      BY <1>4, <1>5, <2>1 DEF Same, HasFd, InSession
    <3> QED BY <2>1, <3>1, <3>2 DEF Step
  <2>2. CASE ~(ok /\ r.status = "Established")
    <3>1. w2 = bgp_fsm_change_status(w1, p, "Idle")
      BY <2>2
    <3>2. From(w1, w2, p) /\ w2.peer[p].status = "Idle"
      <4>1. Good(w1) /\ "Idle" \in Status
        BY <1>5 DEF From, Status
      <4> QED BY SMTT(120), <3>1, <4>1, ChangeStatus
    <3>3. From(w, w2, p)
      BY <1>4, <1>5, <3>2, FromTrans DEF Same
    <3> QED BY <3>2, <3>3 DEF Step, HasFd, InSession
  <2> QED BY <2>1, <2>2
<1> HIDE DEF w2
<1>7. Same(w2, bgp_timer_set(w2, p), p)
  BY <1>6, TimerSetSame DEF Step, From
<1> QED BY <1>3, <1>6, <1>7, FromTrans DEF Step, Same, HasFd

(* A longer list has a first place as well, and so has a shorter one.        *)
LEMMA FirstsGrow ==
  ASSUME NEW n \in Nat, Firsts(n)
  PROVE  Firsts(n + 1) /\ \A m \in 0..n : Firsts(m)
<1>1. ASSUME NEW T \in SUBSET (1..(n + 1)), T # {}
      PROVE  \E i \in T : \A j \in T : i <= j
  <2> DEFINE U == T \cap (1..n)
  <2>1. \A j \in T : j \in 1..(n + 1) /\ (j \notin U => j = n + 1)
    BY SMTT(120)
  <2>2. CASE U = {}
    <3>1. \A j \in T : j = n + 1
      BY <2>1, <2>2
    <3>2. PICK i \in T : TRUE
      BY <1>1
    <3>3. n + 1 <= n + 1
      BY SMTT(120)
    <3> QED BY <3>1, <3>2, <3>3
  <2>3. CASE U # {}
    <3>1. U \in SUBSET (1..n)
      OBVIOUS
    <3>2. PICK i \in U : \A j \in U : i <= j
      BY <2>3, <3>1 DEF Firsts
    <3>3. i \in T /\ i <= n + 1
      BY SMTT(120), <3>2
    <3> QED BY <2>1, <3>2, <3>3
  <2> QED BY <2>2, <2>3
<1>2. ASSUME NEW m \in 0..n PROVE Firsts(m)
  <2>1. 1..m \subseteq 1..n
    BY SMTT(120)
  <2> QED BY <2>1 DEF Firsts
<1> QED BY <1>1, <1>2 DEF Firsts

(* The list of peers stays one when a peer is taken off it.                  *)
LEMMA ListDeleteType ==
  ASSUME NEW s \in Lists, NEW p
  PROVE  listnode_delete(s, p) \in Lists
<1> DEFINE k == CHOOSE i \in 1..Len(s) : s[i] = p
           a == SubSeq(s, 1, k - 1)
           b == SubSeq(s, k + 1, Len(s))
<1>0. s \in Seq(Peer) /\ Len(s) \in Nat /\ Firsts(Len(s))
  BY SMTT(120) DEF Lists
<1>1. CASE \A i \in 1..Len(s) : s[i] # p
  BY <1>1 DEF listnode_delete
<1>2. CASE \E i \in 1..Len(s) : s[i] = p
  <2>1. k \in 1..Len(s)
    BY <1>2
  <2>2. listnode_delete(s, p) = a \o b
    BY <1>2 DEF listnode_delete
  <2> HIDE DEF k
  <2>3. a \in Seq(Peer) /\ Len(a) = k - 1
    BY SMTT(120), <1>0, <2>1
  <2>4. b \in Seq(Peer) /\ Len(b) = Len(s) - k
    BY SMTT(120), <1>0, <2>1
  <2> HIDE DEF a, b
  <2>5. a \o b \in Seq(Peer) /\ Len(a \o b) = Len(s) - 1
    BY SMTT(120), <1>0, <2>1, <2>3, <2>4
  <2>6. Len(s) - 1 \in 0..Len(s)
    BY SMTT(120), <1>0, <2>1
  <2>7. Firsts(Len(s) - 1)
    BY <1>0, <2>6, FirstsGrow
  <2> QED BY <2>2, <2>5, <2>7 DEF Lists
<1> QED BY <1>1, <1>2

(* And when one is added at either end.                                      *)
LEMMA ListAddType ==
  ASSUME NEW s \in Lists, NEW p \in Peer
  PROVE  Append(s, p) \in Lists /\ <<p>> \o s \in Lists
<1>1. s \in Seq(Peer) /\ Len(s) \in Nat /\ Firsts(Len(s))
  BY SMTT(120) DEF Lists
<1>2. /\ Append(s, p) \in Seq(Peer) /\ Len(Append(s, p)) = Len(s) + 1
      /\ <<p>> \o s \in Seq(Peer) /\ Len(<<p>> \o s) = Len(s) + 1
  BY SMTT(120), <1>1
<1>3. Firsts(Len(s) + 1)
  BY <1>1, FirstsGrow
<1> QED BY <1>2, <1>3 DEF Lists

(* bgpd starts with such a list.                                             *)
LEMMA ListStarts == <<>> \in Lists /\ \A p \in Peer : <<p>> \in Lists
<1>1. <<>> \in Lists
  <2>1. \A T \in SUBSET (1..0) : T = {}
    BY SMTT(120)
  <2>2. <<>> \in Seq(Peer) /\ Len(<<>>) = 0
    BY SMTT(120)
  <2> QED BY <2>1, <2>2 DEF Lists, Firsts
<1>2. ASSUME NEW p \in Peer PROVE <<p>> \in Lists
  <2>1. Append(<<>>, p) = <<p>>
    BY SMTT(120)
  <2> QED BY <1>1, <2>1, ListAddType
<1> QED BY <1>1, <1>2

(* listnode_delete of the peer list touches no structure.                    *)
LEMMA UnlistFrom ==
  ASSUME NEW w, Good(w), NEW p \in Peer
  PROVE  From(w, Unlist(w, p), p) /\ Unlist(w, p).peer = w.peer
<1> DEFINE l == listnode_delete(w.plist, p)
           v == [w EXCEPT !.plist = l]
<1>1. w \in WorldType
  BY DEF Good
<1>2. l \in Lists
  BY <1>1, ListDeleteType DEF WorldType
<1>3. Unlist(w, p) = v
  BY DEF Unlist
<1> HIDE DEF l
<1>4. v \in WorldType /\ v.peer = w.peer /\ v.open = w.open
  BY <1>1, <1>2 DEF WorldType
<1> HIDE DEF v
<1>5. Good(v)
  BY <1>4 DEF Good
<1> QED BY <1>3, <1>4, <1>5 DEF From

(* peer_delete stops the peer and takes it off the list.                     *)
LEMMA DeleteStep ==
  ASSUME NEW w, Good(w), NEW p \in Peer, NEW ok,
         HasFd(w.peer[p]) \/ ~w.peer[p].init
  PROVE  Step(w, peer_delete(w, p, ok), p)
<1> DEFINE w1 == IF w.peer[p].wait THEN peer_nsf_stop(w, p) ELSE w
           w2 == IF w1.peer[p].status = "Established"
                 THEN bgp_notify_send(w1, p, ok)
                 ELSE bgp_fsm_change_status(bgp_stop(w1, p), p, "Idle")
           r == [w2.peer[p] EXCEPT !.tm = {}]
           w3 == Put(w2, p, r)
<1>0. peer_delete(w, p, ok) = Unlist(w3, p)
  BY DEF peer_delete
<1>1. Same(w, w1, p)
  BY NsfStopSame, SameRefl
<1> HIDE DEF w1
<1>2. HasFd(w1.peer[p]) \/ ~w1.peer[p].init
  BY <1>1 DEF Same, From, HasFd
<1>3. Step(w1, w2, p)
  <2>1. CASE w1.peer[p].status = "Established"
    BY <1>1, <1>2, <2>1, NotifyStep DEF Same, From
  <2>2. CASE w1.peer[p].status # "Established"
    <3> DEFINE u == bgp_stop(w1, p)
    <3>1. From(w1, u, p)
      BY <1>1, StopFrom DEF Same, From
    <3>2. w2 = bgp_fsm_change_status(u, p, "Idle")
      BY <2>2
    <3> HIDE DEF u, w2
    <3>3. From(u, w2, p) /\ w2.peer[p].status = "Idle"
      <4>1. Good(u) /\ "Idle" \in Status
        BY <3>1 DEF From, Status
      <4> QED BY SMTT(120), <3>2, <4>1, ChangeStatus
    <3> QED BY <3>1, <3>3, FromTrans DEF Step, HasFd, InSession
  <2> QED BY <2>1, <2>2
<1> HIDE DEF w2
<1>4. w2.peer[p] \in PeerType
  BY <1>3, PeerOf DEF Step, From
<1>5. r \in PeerType /\ r.fd = w2.peer[p].fd /\ r.rd = w2.peer[p].rd
      /\ r.wr = w2.peer[p].wr
      /\ r.init = w2.peer[p].init /\ r.status = w2.peer[p].status
  BY <1>4 DEF PeerType
<1> HIDE DEF r
<1>6. Same(w2, w3, p)
  BY <1>3, <1>5, PutSame DEF Step, From
<1> HIDE DEF w3
<1>7. From(w3, Unlist(w3, p), p) /\ Unlist(w3, p).peer = w3.peer
  BY <1>6, UnlistFrom DEF Same, From
<1>8. From(w, Unlist(w3, p), p)
  BY <1>1, <1>3, <1>6, <1>7, FromTrans DEF Same, Step
<1>9. HasFd(Unlist(w3, p).peer[p])
  BY <1>3, <1>6, <1>7 DEF Same, Step, HasFd
<1> QED BY <1>0, <1>8, <1>9 DEF Step

-----------------------------------------------------------------------------
(* The functions of the FSM table.                                           *)

(* bgp_connect_success keeps the descriptor and may read from it.            *)
LEMMA ConnectSuccess ==
  ASSUME NEW w, Good(w), NEW p \in Peer
  PROVE  LET x == bgp_connect_success(w, p)
         IN  /\ w.peer[p].fd = NoFd => x = Fail(w)
             /\ w.peer[p].fd # NoFd => x.ret = 0 /\ Same(w, x.w, p)
<1>1. CASE w.peer[p].fd = NoFd
  BY <1>1 DEF bgp_connect_success
<1>2. CASE w.peer[p].fd # NoFd
  <2> DEFINE w1 == ReadOn(w, p)
             v == IF p = Conf THEN SendData(w1, p) ELSE w1
  <2>1. bgp_connect_success(w, p) = [w |-> v, ret |-> 0]
    BY <1>2 DEF bgp_connect_success, Ok
  <2>2. Same(w, w1, p)
    BY <1>2, ReadOnSame
  <2> HIDE DEF w1
  <2>3. Same(w1, v, p)
    BY SMTT(120), <1>2, <2>2, SendDataSame, SameRefl DEF Same, From
  <2> HIDE DEF v
  <2> QED BY SMTT(120), <1>2, <2>1, <2>2, <2>3, SameTrans
<1> QED BY <1>1, <1>2

(* bgp_connect opens a descriptor nobody else holds.                         *)
LEMMA OpenGood ==
  ASSUME NEW w, Good(w), NEW p \in Peer, NEW f \in Fd \ w.open,
         NEW r \in PeerType, r.init = w.peer[p].init,
         Held(r) \subseteq Held(w.peer[p]) \cup {f}
  PROVE  LET v == Opened(Put(w, p, r), f)
         IN  From(w, v, p) /\ v.peer[p] = r
<1> DEFINE v == Opened(Put(w, p, r), f)
<1>1. w \in WorldType
  BY DEF Good
<1>2. /\ v \in WorldType /\ v.open = w.open \cup {f} /\ v.peer[p] = r
      /\ \A q \in Peer \ {p} : v.peer[q] = w.peer[q]
  BY <1>1 DEF WorldType, Put, Opened
<1>3. \A q \in Peer : Held(w.peer[q]) \subseteq w.open
  BY DEF Good
<1>4. Good(v)
  <2> HIDE DEF v
  <2>1. \A q \in Peer : Held(v.peer[q]) \subseteq v.open
    BY <1>2, <1>3
  <2>2. ASSUME NEW a \in Peer, NEW b \in Peer, a # b
        PROVE  Held(v.peer[a]) \cap Held(v.peer[b]) = {}
    <3>1. Held(w.peer[a]) \cap Held(w.peer[b]) = {}
      BY <2>2 DEF Good
    <3>2. f \notin Held(w.peer[a]) /\ f \notin Held(w.peer[b])
      BY <1>3
    <3>3. CASE a = p
      BY <1>2, <2>2, <3>1, <3>2, <3>3
    <3>4. CASE b = p
      BY <1>2, <2>2, <3>1, <3>2, <3>4
    <3>5. CASE a # p /\ b # p
      BY <1>2, <3>1, <3>5
    <3> QED BY <3>3, <3>4, <3>5
  <2> QED BY <1>2, <2>1, <2>2 DEF Good
<1> QED BY <1>2, <1>4 DEF From

(* bgp_start opens at most one descriptor, for its own peer.                 *)
LEMMA StartFrom ==
  ASSUME NEW w, Good(w), NEW p \in Peer, NEW c \in ConnectResult
  PROVE  From(w, bgp_start(w, p, c), p)
<1> DEFINE free == Fd \ w.open
           f == CHOOSE x \in free : TRUE
           r == w.peer[p]
           s == [r EXCEPT !.fd = f]
           w1 == Opened(Put(w, p, s), f)
<1>1. r \in PeerType
  BY PeerOf
<1>2. CASE c = "nosocket" \/ free = {}
  <2> DEFINE t == [r EXCEPT !.fd = NoFd]
  <2>1. t \in PeerType /\ t.fd = NoFd /\ t.rd = r.rd /\ t.wr = r.wr
        /\ t.init = r.init
    BY <1>1 DEF PeerType
  <2>2. bgp_start(w, p, c) = Put(w, p, t)
    BY <1>2 DEF bgp_start
  <2> HIDE DEF t
  <2>3. Held(t) \subseteq Held(r)
    BY <2>1 DEF Held
  <2> QED BY <2>1, <2>2, <2>3, PutGood
<1>3. CASE c # "nosocket" /\ free # {}
  <2>1. f \in free
    BY <1>3
  <2>2. bgp_start(w, p, c) \in {EventAdd(w1, p, "TCP_connection_open_failed"),
                                EventAdd(w1, p, "TCP_connection_open"),
                                WriteOn(ReadOn(w1, p), p)}
    BY <1>3 DEF bgp_start, ConnectResult
  <2> HIDE DEF f
  <2>3. s \in PeerType /\ s.fd = f /\ s.rd = r.rd /\ s.wr = r.wr
        /\ s.init = r.init
    BY <1>1, <2>1 DEF PeerType
  <2> HIDE DEF s
  <2>4. Held(s) \subseteq Held(r) \cup {f}
    BY <2>3 DEF Held
  <2>5. From(w, w1, p) /\ w1.peer[p] = s
    BY SMTT(120), <2>1, <2>3, <2>4, OpenGood
  <2> HIDE DEF w1
  <2>6. Good(w1) /\ w1.peer[p].fd # NoFd
    <3>1. f # NoFd
      BY SMTT(120), <2>1, ConstantAssumption DEF NoFd
    <3> QED BY <2>3, <2>5, <3>1 DEF From
  <2>7. Same(w1, EventAdd(w1, p, "TCP_connection_open_failed"), p)
    BY <2>6, EventAddSame DEF Event
  <2>8. Same(w1, EventAdd(w1, p, "TCP_connection_open"), p)
    BY <2>6, EventAddSame DEF Event
  <2>9. Same(w1, WriteOn(ReadOn(w1, p), p), p)
    <3> DEFINE w2 == ReadOn(w1, p)
    <3>1. Same(w1, w2, p)
      BY <2>6, ReadOnSame
    <3> HIDE DEF w2
    <3>2. Same(w2, WriteOn(w2, p), p)
      BY <2>6, <3>1, WriteOnSame DEF Same, From
    <3> QED BY <3>1, <3>2, SameTrans DEF w2
  <2>10. From(w1, bgp_start(w, p, c), p)
    BY <2>2, <2>7, <2>8, <2>9 DEF Same
  <2> QED BY <2>5, <2>10, FromTrans
<1> QED BY <1>2, <1>3

(* bgp_fsm_holdtime_expire ends like bgp_notify_send.                        *)
LEMMA HoldExpire ==
  ASSUME NEW w, Good(w), NEW p \in Peer, NEW ok, HasFd(w.peer[p])
  PROVE  LET x == bgp_fsm_holdtime_expire(w, p, ok)
         IN  Step(w, x.w, p) /\ x.ret \in {0, -1}
<1> DEFINE w1 == bgp_notify_send(w, p, ok)
           w2 == peer_delete(w1, p, ok)
<1>1. Step(w, w1, p)
  BY NotifyStep
<1>2. bgp_fsm_holdtime_expire(w, p, ok) \in
        {[w |-> w1, ret |-> 0], [w |-> w2, ret |-> -1]}
  BY DEF bgp_fsm_holdtime_expire, Ok, Fail
<1> HIDE DEF w1
<1>3. Step(w1, w2, p)
  BY <1>1, DeleteStep DEF Step, From
<1> HIDE DEF w2
<1>4. Step(w, w2, p)
  BY <1>1, <1>3, FromTrans DEF Step
<1> QED BY SMTT(120), <1>1, <1>2, <1>4

(* bgp_establish touches no descriptor.                                      *)
LEMMA EstablishFrom ==
  ASSUME NEW w, Good(w), NEW p \in Peer, NEW kept, w.peer[p].fd # NoFd
  PROVE  LET v == bgp_establish(w, p, kept)
         IN  From(w, v, p) /\ v.peer[p].fd = w.peer[p].fd
<1> DEFINE r == w.peer[p]
           rt == IF r.nsf /\ ~(r.gr /\ kept) THEN r.routes \ {"stale"}
                 ELSE r.routes
           tm == r.tm \ (IF r.gr THEN {"gr_restart"}
                         ELSE {"gr_restart", "gr_stale"})
           s == [r EXCEPT !.status = "Established", !.wait = FALSE,
                          !.routes = rt, !.nsf = r.gr, !.mode = r.gr, !.tm = tm]
           w1 == Put(w, p, s)
<1>1. r \in PeerType
  BY PeerOf
<1>2. rt \in SUBSET {"fresh", "stale"} /\ tm \in SUBSET (FsmTimer \cup SideTimer)
  BY <1>1 DEF PeerType
<1>3. bgp_establish(w, p, kept) = IF r.hold = 0 THEN w1 ELSE SendData(w1, p)
  BY DEF bgp_establish
<1> HIDE DEF rt, tm
<1>4. s \in PeerType /\ s.fd = r.fd /\ s.rd = r.rd /\ s.wr = r.wr
      /\ s.init = r.init
  BY <1>1, <1>2 DEF PeerType, Status
<1> HIDE DEF s
<1>5. Held(s) \subseteq Held(r)
  BY <1>4 DEF Held
<1>6. From(w, w1, p) /\ w1.peer[p] = s
  BY <1>4, <1>5, PutGood
<1> HIDE DEF w1
<1>7. Same(w1, SendData(w1, p), p)
  BY <1>4, <1>6, SendDataSame DEF From
<1> QED BY <1>3, <1>4, <1>6, <1>7, FromTrans DEF Same

(* Functions that send or only touch timers: they leave the descriptor.      *)
KeepsFd == {"bgp_ignore", "bgp_fsm_open", "bgp_establish",
            "bgp_fsm_keepalive_expire", "bgp_fsm_keepalive", "bgp_fsm_update"}
Sends == {"bgp_fsm_open", "bgp_establish", "bgp_fsm_keepalive_expire"}

(* What the table promises: a status in session is entered only through      *)
(* bgp_connect_success or from another one by a function that keeps the      *)
(* descriptor, and only a session sends.                                     *)
Shape(st, entry) ==
  /\ entry[2] \in Status
  /\ entry[2] \in InSession => \/ entry[1] = "bgp_connect_success"
                               \/ st \in InSession /\ entry[1] \in KeepsFd
  /\ entry[1] \in Sends => st \in InSession

(* Every function of the table FSM is one of those treated above.            *)
LEMMA FsmShape ==
  ASSUME NEW st \in Status, NEW e \in Event
  PROVE  Shape(st, FSM[st][e])
<1> DEFINE ignore(s) == <<"bgp_ignore", s>>
           stop(s) == <<"bgp_stop", s>>
           i == ignore("Idle")
           x == stop("Idle")
           err == <<"bgp_stop_with_error", "Idle">>
           exp == <<"bgp_fsm_holdtime_expire", "Idle">>
           succ == <<"bgp_connect_success", "OpenSent">>
<1>0. \A q \in Status : Shape(q, i) /\ Shape(q, x) /\ Shape(q, err) /\ Shape(q, exp)
  BY DEF Shape, Status, InSession, Sends
<1>1. \A ev \in Event : Shape("Idle", FSM["Idle"][ev])
  <2>1. FSM["Idle"] =
          Row(ignore("Active"), x, x, x, i, x, i, i, i, i, i, i, i)
    BY DEF FSM
  <2>2. Shape("Idle", ignore("Active"))
    BY DEF Shape, Status, InSession, KeepsFd, Sends
  <2> HIDE DEF ignore, stop, i, x, err, exp, succ
  <2> QED BY SMTT(120), <1>0, <2>1, <2>2 DEF Status, Row, Event
<1>2. \A ev \in Event : Shape("Connect", FSM["Connect"][ev])
  <2>1. FSM["Connect"] =
          Row(ignore("Connect"), x, succ, x, <<"bgp_connect_fail", "Active">>,
              <<"bgp_connect_fail", "Idle">>, <<"bgp_reconnect", "Connect">>,
              i, i, i, i, i, x)
    BY DEF FSM
  <2>2. Shape("Connect", ignore("Connect"))
    BY DEF Shape, Status, InSession, KeepsFd, Sends
  <2>3. Shape("Connect", succ)
    BY DEF Shape, Status, InSession, KeepsFd, Sends
  <2>4. Shape("Connect", <<"bgp_connect_fail", "Active">>)
    BY DEF Shape, Status, InSession, KeepsFd, Sends
  <2>5. Shape("Connect", <<"bgp_connect_fail", "Idle">>)
    BY DEF Shape, Status, InSession, KeepsFd, Sends
  <2>6. Shape("Connect", <<"bgp_reconnect", "Connect">>)
    BY DEF Shape, Status, InSession, KeepsFd, Sends
  <2> HIDE DEF ignore, stop, i, x, err, exp, succ
  <2> QED BY SMTT(120), <1>0, <2>1, <2>2, <2>3, <2>4, <2>5, <2>6 DEF Status, Row, Event
<1>3. \A ev \in Event : Shape("Active", FSM["Active"][ev])
  <2>1. FSM["Active"] =
          Row(ignore("Active"), x, succ, x, ignore("Active"), i,
              <<"bgp_start", "Connect">>, i, i, i, i, i, err)
    BY DEF FSM
  <2>2. Shape("Active", ignore("Active"))
    BY DEF Shape, Status, InSession, KeepsFd, Sends
  <2>3. Shape("Active", succ)
    BY DEF Shape, Status, InSession, KeepsFd, Sends
  <2>4. Shape("Active", <<"bgp_start", "Connect">>)
    BY DEF Shape, Status, InSession, KeepsFd, Sends
  <2> HIDE DEF ignore, stop, i, x, err, exp, succ
  <2> QED BY SMTT(120), <1>0, <2>1, <2>2, <2>3, <2>4 DEF Status, Row, Event
<1>4. \A ev \in Event : Shape("OpenSent", FSM["OpenSent"][ev])
  <2>1. FSM["OpenSent"] =
          Row(ignore("OpenSent"), x, x, stop("Active"), i, x, i, exp, i,
              <<"bgp_fsm_open", "OpenConfirm">>, i, i, err)
    BY DEF FSM
  <2>2. Shape("OpenSent", ignore("OpenSent"))
    BY DEF Shape, Status, InSession, KeepsFd, Sends
  <2>3. Shape("OpenSent", stop("Active"))
    BY DEF Shape, Status, InSession, KeepsFd, Sends
  <2>4. Shape("OpenSent", <<"bgp_fsm_open", "OpenConfirm">>)
    BY DEF Shape, Status, InSession, KeepsFd, Sends
  <2> HIDE DEF ignore, stop, i, x, err, exp, succ
  <2> QED BY SMTT(120), <1>0, <2>1, <2>2, <2>3, <2>4 DEF Status, Row, Event
<1>5. \A ev \in Event : Shape("OpenConfirm", FSM["OpenConfirm"][ev])
  <2>1. FSM["OpenConfirm"] =
          Row(ignore("OpenConfirm"), x, x, x, x, x, i, exp,
              ignore("OpenConfirm"), i, <<"bgp_establish", "Established">>,
              i, err)
    BY DEF FSM
  <2>2. Shape("OpenConfirm", ignore("OpenConfirm"))
    BY DEF Shape, Status, InSession, KeepsFd, Sends
  <2>3. Shape("OpenConfirm", <<"bgp_establish", "Established">>)
    BY DEF Shape, Status, InSession, KeepsFd, Sends
  <2> HIDE DEF ignore, stop, i, x, err, exp, succ
  <2> QED BY SMTT(120), <1>0, <2>1, <2>2, <2>3 DEF Status, Row, Event
<1>6. \A ev \in Event : Shape("Established", FSM["Established"][ev])
  <2>1. FSM["Established"] =
          Row(ignore("Established"), x, x, x, i, x, i, exp,
              <<"bgp_fsm_keepalive_expire", "Established">>, x,
              <<"bgp_fsm_keepalive", "Established">>,
              <<"bgp_fsm_update", "Established">>, err)
    BY DEF FSM
  <2>2. Shape("Established", ignore("Established"))
    BY DEF Shape, Status, InSession, KeepsFd, Sends
  <2>3. Shape("Established", <<"bgp_fsm_keepalive_expire", "Established">>)
    BY DEF Shape, Status, InSession, KeepsFd, Sends
  <2>4. Shape("Established", <<"bgp_fsm_keepalive", "Established">>)
    BY DEF Shape, Status, InSession, KeepsFd, Sends
  <2>5. Shape("Established", <<"bgp_fsm_update", "Established">>)
    BY DEF Shape, Status, InSession, KeepsFd, Sends
  <2> HIDE DEF ignore, stop, i, x, err, exp, succ
  <2> QED BY SMTT(120), <1>0, <2>1, <2>2, <2>3, <2>4, <2>5 DEF Status, Row, Event
<1> QED BY <1>1, <1>2, <1>3, <1>4, <1>5, <1>6 DEF Status

(* Whatever function the table calls touches its own peer only.              *)
LEMMA CallFrom ==
  ASSUME NEW w, Good(w), NEW p \in Peer, NEW c \in Choice, NEW func,
         HasFd(w.peer[p]), func \in Sends => w.peer[p].fd # NoFd
  PROVE  LET x == Call(func, w, p, c)
         IN  /\ From(w, x.w, p) /\ x.ret \in {0, -1}
             /\ x.ret < 0 => HasFd(x.w.peer[p])
             /\ func = "bgp_connect_success" /\ x.ret = 0 =>
                  x.w.peer[p].fd # NoFd
             /\ func \in KeepsFd => x.w.peer[p].fd = w.peer[p].fd
<1> DEFINE x == Call(func, w, p, c)
<1>0. c.conn \in ConnectResult
  BY DEF Choice
<1>1. CASE func \in {"bgp_stop", "bgp_stop_with_error", "bgp_connect_fail"}
  <2>1. x = [w |-> bgp_stop(w, p), ret |-> 0]
    BY <1>1 DEF Call, Ok
  <2> QED BY SMTT(120), <1>1, <2>1, StopFrom DEF KeepsFd
<1>2. CASE func = "bgp_connect_success"
  <2>1. x = bgp_connect_success(w, p)
    BY <1>2 DEF Call
  <2>2. CASE w.peer[p].fd = NoFd
    <3>1. x = [w |-> w, ret |-> -1]
      BY <2>1, <2>2, ConnectSuccess DEF Fail
    <3> QED BY SMTT(120), <1>2, <3>1, SameRefl DEF Same, KeepsFd
  <2>3. CASE w.peer[p].fd # NoFd
    <3>1. x.ret = 0 /\ Same(w, x.w, p)
      BY <2>1, <2>3, ConnectSuccess
    <3> QED BY SMTT(120), <1>2, <2>3, <3>1 DEF Same, KeepsFd
  <2> QED BY <2>2, <2>3
<1>3. CASE func = "bgp_start"
  <2>1. x = [w |-> bgp_start(w, p, c.conn), ret |-> 0]
    BY <1>3 DEF Call, Ok
  <2> QED BY SMTT(120), <1>0, <1>3, <2>1, StartFrom DEF KeepsFd
<1>4. CASE func = "bgp_reconnect"
  <2> DEFINE w1 == bgp_stop(w, p)
  <2>1. x = [w |-> bgp_start(w1, p, c.conn), ret |-> 0]
    BY <1>4 DEF Call, Ok
  <2>2. From(w, w1, p) /\ Good(w1)
    BY StopFrom DEF From
  <2> HIDE DEF w1
  <2>3. From(w1, bgp_start(w1, p, c.conn), p)
    BY <1>0, <2>2, StartFrom
  <2>4. From(w, bgp_start(w1, p, c.conn), p)
    BY <2>2, <2>3, FromTrans
  <2> QED BY SMTT(120), <1>4, <2>1, <2>4 DEF KeepsFd
<1>5. CASE func = "bgp_fsm_open"
  <2> DEFINE w1 == SendData(w, p)
  <2>1. x = [w |-> HoldOff(w1, p), ret |-> 0]
    BY <1>5 DEF Call, Ok, bgp_fsm_open
  <2>2. Same(w, w1, p) /\ Good(w1)
    BY <1>5, SendDataSame DEF Sends, Same, From
  <2> HIDE DEF w1
  <2>3. Same(w, HoldOff(w1, p), p)
    BY <2>2, HoldOffSame, SameTrans
  <2> QED BY SMTT(120), <1>5, <2>1, <2>3 DEF Same
<1>6. CASE func = "bgp_fsm_holdtime_expire"
  <2>1. x = bgp_fsm_holdtime_expire(w, p, c.ok)
    BY <1>6 DEF Call
  <2>2. Step(w, x.w, p) /\ x.ret \in {0, -1}
    BY <2>1, HoldExpire
  <2> QED BY <1>6, <2>2 DEF Step, KeepsFd
<1>7. CASE func = "bgp_establish"
  <2>1. x = [w |-> bgp_establish(w, p, c.alt), ret |-> 0]
    BY <1>7 DEF Call, Ok
  <2> QED BY SMTT(120), <1>7, <2>1, EstablishFrom DEF Sends
<1>8. CASE func = "bgp_fsm_keepalive_expire"
  <2>1. x = [w |-> SendData(w, p), ret |-> 0]
    BY <1>8 DEF Call, Ok
  <2> QED BY SMTT(120), <1>8, <2>1, SendDataSame DEF Sends, Same
<1>9. CASE func \in {"bgp_fsm_keepalive", "bgp_fsm_update"}
  <2>1. x = [w |-> HoldOff(w, p), ret |-> 0]
    BY <1>9 DEF Call, Ok
  <2> QED BY SMTT(120), <1>9, <2>1, HoldOffSame DEF Same
<1>10. CASE func \notin {"bgp_stop", "bgp_stop_with_error", "bgp_connect_fail",
             "bgp_connect_success", "bgp_start", "bgp_reconnect",
             "bgp_fsm_open", "bgp_fsm_holdtime_expire", "bgp_establish",
             "bgp_fsm_keepalive_expire", "bgp_fsm_keepalive", "bgp_fsm_update"}
  <2>1. x = [w |-> w, ret |-> 0]
    BY <1>10 DEF Call, Ok
  <2> QED BY SMTT(120), <1>10, <2>1, SameRefl DEF Same
<1> QED BY <1>1, <1>2, <1>3, <1>4, <1>5, <1>6, <1>7, <1>8, <1>9, <1>10

(* bgp_event, its timers included, is a step of its own peer.                *)
LEMMA EventStep ==
  ASSUME NEW w, Good(w), NEW p \in Peer, NEW e \in Event, NEW c \in Choice,
         HasFd(w.peer[p])
  PROVE  Step(w, bgp_event(w, p, e, c), p)
<1> DEFINE st == w.peer[p].status
           entry == FSM[st][e]
           next == entry[2]
           x == Call(entry[1], w, p, c)
           u == x.w
           v == bgp_fsm_change_status(u, p, next)
<1>1. st \in Status
  BY PeerOf DEF PeerType
<1>2. Shape(st, entry)
  BY <1>1, FsmShape
<1>3. bgp_event(w, p, e, c) = IF x.ret < 0 THEN u ELSE bgp_timer_set(v, p)
  BY DEF bgp_event
<1>4. entry[1] \in Sends => w.peer[p].fd # NoFd
  BY <1>2 DEF Shape, HasFd
<1>5. /\ From(w, u, p) /\ x.ret \in {0, -1}
      /\ x.ret < 0 => HasFd(u.peer[p])
      /\ entry[1] = "bgp_connect_success" /\ x.ret = 0 => u.peer[p].fd # NoFd
      /\ entry[1] \in KeepsFd => u.peer[p].fd = w.peer[p].fd
  BY <1>4, CallFrom
<1>6. next \in Status
  BY <1>2 DEF Shape
<1>7. next \in InSession /\ x.ret = 0 => u.peer[p].fd # NoFd
  BY <1>2, <1>5 DEF Shape, HasFd
<1> HIDE DEF next, x
<1>8. CASE x.ret < 0
  BY <1>3, <1>5, <1>8 DEF Step
<1>9. CASE x.ret = 0
  <2> HIDE DEF u
  <2>1. Good(u)
    BY <1>5 DEF From
  <2>2. From(u, v, p) /\ v.peer[p].status = next /\ v.peer[p].fd = u.peer[p].fd
    BY SMTT(120), <1>6, <2>1, ChangeStatus
  <2> HIDE DEF v
  <2>3. Same(v, bgp_timer_set(v, p), p)
    BY <2>2, TimerSetSame DEF From
  <2>4. From(w, bgp_timer_set(v, p), p)
    BY <1>5, <2>2, <2>3, FromTrans DEF Same
  <2>5. HasFd(bgp_timer_set(v, p).peer[p])
    BY <1>7, <1>9, <2>2, <2>3 DEF Same, HasFd
  <2>6. bgp_event(w, p, e, c) = bgp_timer_set(v, p)
    BY SMTT(120), <1>3, <1>9
  <2> QED BY <2>4, <2>5, <2>6 DEF Step
<1> QED BY SMTT(120), <1>5, <1>8, <1>9

-----------------------------------------------------------------------------
(* Packet handlers.  Sound(w, X): Good, and every peer outside X that is in  *)
(* a session has a descriptor; a temporary peer is never waiting for its     *)
(* start timer.                                                              *)
Sound(w, X) ==
  /\ Good(w)
  /\ \A p \in Accept : ~w.peer[p].init
  /\ \A p \in Peer \ X : HasFd(w.peer[p])

(* A step of one peer keeps every descriptor with one holder.                *)
LEMMA StepSound ==
  ASSUME NEW w, NEW v, NEW X, NEW p \in Peer, Sound(w, X), Step(w, v, p)
  PROVE  Sound(v, X \ {p})
<1>1. Good(v)
  BY DEF Step, From
<1>2. \A q \in Peer : v.peer[q].init = w.peer[q].init
  BY DEF Step, From
<1>3. \A q \in Peer \ (X \ {p}) : HasFd(v.peer[q])
  BY DEF Step, From, Sound
<1> QED BY <1>1, <1>2, <1>3 DEF Sound, Peer

(* A stretch that touches no descriptor keeps the world sound.               *)
LEMMA SameSound ==
  ASSUME NEW w, NEW v, NEW X, NEW p \in Peer, Sound(w, X), Same(w, v, p)
  PROVE  Sound(v, X)
<1>1. Good(v)
  BY DEF Same, From
<1>2. \A q \in Peer : /\ v.peer[q].init = w.peer[q].init
                      /\ HasFd(w.peer[q]) => HasFd(v.peer[q])
  BY DEF Same, From, HasFd
<1> QED BY <1>1, <1>2 DEF Sound, Peer

(* The connection bgp_collision_detect stops is a listed one, and another.   *)
LEMMA FirstCollidingType ==
  ASSUME NEW w \in WorldType, NEW new, Colliding(w, new) # {}
  PROVE  FirstColliding(w, new) \in Peer \ {new}
<1> DEFINE T == Colliding(w, new)
           k == CHOOSE i \in T : \A j \in T : i <= j
<1>1. w.plist \in Seq(Peer) /\ Firsts(Len(w.plist))
  BY DEF WorldType, Lists
<1>2. T \in SUBSET (1..Len(w.plist)) /\ \A i \in T : i \in 1..Len(w.plist) /\ w.plist[i] # new
  BY <1>1 DEF Colliding
<1>3. k \in T
  <2> HIDE DEF T
  <2>1. T # {}
    BY DEF T
  <2>2. \E i \in T : \A j \in T : i <= j
    BY <1>1, <1>2, <2>1 DEF Firsts
  <2> QED BY <2>2
<1>4. FirstColliding(w, new) = w.plist[k]
  BY DEF FirstColliding
<1> HIDE DEF T, k
<1> QED BY SMTT(120), <1>1, <1>2, <1>3, <1>4

(* bgp_collision_detect keeps the world sound.                               *)
LEMMA CollisionSound ==
  ASSUME NEW w, Sound(w, {}), NEW new \in Peer, NEW id, NEW ok
  PROVE  LET x == bgp_collision_detect(w, new, id, ok)
         IN  Sound(x.w, {}) /\ x.w.peer[new] = w.peer[new]
<1> DEFINE q == FirstColliding(w, new)
           v == bgp_notify_send(w, q, ok)
           x == bgp_collision_detect(w, new, id, ok)
<1>1. CASE Colliding(w, new) = {}
  <2>1. x = [w |-> w, ret |-> 0]
    BY <1>1 DEF bgp_collision_detect, Ok
  <2> QED BY SMTT(120), <2>1
<1>2. CASE Colliding(w, new) # {}
  <2>1. Good(w) /\ w \in WorldType
    BY DEF Sound, Good
  <2>2. q \in Peer /\ q # new
    BY <1>2, <2>1, FirstCollidingType
  <2>3. x \in [w : {w, v}, ret : {1, -1}]
    BY <1>2 DEF bgp_collision_detect, Fail
  <2> HIDE DEF q
  <2>4. HasFd(w.peer[q])
    BY <2>2 DEF Sound
  <2>5. Step(w, v, q)
    BY <2>1, <2>2, <2>4, NotifyStep
  <2> HIDE DEF v
  <2>6. Sound(v, {} \ {q})
    BY <2>2, <2>5, StepSound
  <2>7. v.peer[new] = w.peer[new] /\ Sound(v, {})
    BY <2>2, <2>5, <2>6 DEF Step, From, Sound
  <2>8. x.w = w \/ x.w = v
    BY <2>3
  <2> QED BY <2>7, <2>8
<1> QED BY <1>1, <1>2

(* The hand-over: between the two assignments of bgp_open_receive and the    *)
(* bgp_stop of the temporary peer both structures name the descriptor, and   *)
(* afterwards only the configured one does.                                  *)
LEMMA HandOverGood ==
  ASSUME NEW w, Good(w), NEW p \in Accept, ~w.peer[p].init
  PROVE  LET v == bgp_stop(HandOver(w, p), p)
         IN  /\ Good(v)
             /\ v.peer[Conf].fd = w.peer[p].fd
             /\ \A q \in Peer : v.peer[q].init = w.peer[q].init
             /\ \A q \in Peer \ {p, Conf} : v.peer[q] = w.peer[q]
<1> DEFINE r == w.peer[p]
           a == [r EXCEPT !.fd = NoFd]
           b == [w.peer[Conf] EXCEPT !.fd = r.fd, !.status = r.status]
           u == HandOver(w, p)
           s == IF a.status = "Established" THEN LeaveEstablished(a) ELSE a
           t == [s EXCEPT !.rd = NoThread, !.wr = NoThread,
                          !.tm = @ \cap SideTimer, !.ev = <<>>,
                          !.obuf = "none", !.fd = NoFd, !.rid = 0,
                          !.gr = FALSE, !.hold = ConfHold]
           v == bgp_stop(u, p)
<1>0. p \in Peer /\ Conf \in Peer /\ p # Conf
  BY ConstantAssumption DEF Peer
<1>1. r \in PeerType /\ w.peer[Conf] \in PeerType /\ w \in WorldType
  BY <1>0, PeerOf DEF Good
<1>2. a \in PeerType /\ a.init = r.init /\ a.fd = NoFd
  BY <1>1 DEF PeerType
<1>3. b \in PeerType /\ b.init = w.peer[Conf].init /\ b.fd = r.fd
      /\ b.rd = w.peer[Conf].rd /\ b.wr = w.peer[Conf].wr
  BY <1>1 DEF PeerType
<1>4. u = Put(Put(w, p, a), Conf, b)
  BY DEF HandOver
<1> HIDE DEF a, b
<1>5. /\ u \in WorldType /\ u.open = w.open /\ u.peer[p] = a /\ u.peer[Conf] = b
      /\ \A q \in Peer \ {p, Conf} : u.peer[q] = w.peer[q]
  <2> HIDE DEF u
  <2> DEFINE w1 == Put(w, p, a)
  <2>1. /\ w1 \in WorldType /\ w1.open = w.open /\ w1.peer[p] = a
        /\ \A q \in Peer \ {p} : w1.peer[q] = w.peer[q]
    BY <1>0, <1>1, <1>2 DEF WorldType, Put
  <2>2. u = Put(w1, Conf, b)
    BY <1>4
  <2> HIDE DEF w1
  <2>3. /\ u \in WorldType /\ u.open = w1.open /\ u.peer[Conf] = b
        /\ \A q \in Peer \ {Conf} : u.peer[q] = w1.peer[q]
    BY <1>0, <1>3, <2>1, <2>2 DEF WorldType, Put
  <2> QED BY <1>0, <2>1, <2>3
<1> HIDE DEF u
<1>6. s \in PeerType /\ s.init = a.init
  BY <1>2, LeaveType
<1>7. v = Close(Put(u, p, t), NoFd)
  BY <1>2, <1>5 DEF bgp_stop
<1> HIDE DEF s
<1>8. /\ t \in PeerType /\ t.init = s.init
      /\ t.fd = NoFd /\ t.rd = NoThread /\ t.wr = NoThread
  BY <1>6, StopFields
<1> HIDE DEF t, v
<1>9. /\ v \in WorldType /\ v.open = u.open /\ v.peer[p] = t
      /\ \A q \in Peer \ {p} : v.peer[q] = u.peer[q]
  <2>1. NoFd \notin u.open
    BY SMTT(120), <1>5, ConstantAssumption DEF WorldType, NoFd
  <2> QED BY <1>0, <1>5, <1>7, <1>8, <2>1 DEF WorldType, Put, Close
<1>10. /\ Held(v.peer[p]) = {}
       /\ Held(v.peer[Conf]) \subseteq Held(w.peer[Conf]) \cup Held(r)
       /\ \A q \in Peer \ {p, Conf} : v.peer[q] = w.peer[q]
  BY SMTT(120), <1>0, <1>3, <1>5, <1>8, <1>9 DEF Held
<1>11. Good(v)
  <2>1. \A q \in Peer : Held(v.peer[q]) \subseteq v.open
    BY <1>0, <1>5, <1>9, <1>10 DEF Good
  <2>2. ASSUME NEW x \in Peer, NEW y \in Peer, x # y
        PROVE  Held(v.peer[x]) \cap Held(v.peer[y]) = {}
    BY SMTT(120), <1>0, <1>10, <2>2 DEF Good
  <2> QED BY <1>9, <2>1, <2>2 DEF Good
<1>12. \A q \in Peer : v.peer[q].init = w.peer[q].init
  BY <1>0, <1>2, <1>3, <1>5, <1>6, <1>8, <1>9
<1>13. v.peer[Conf].fd = r.fd
  BY <1>0, <1>3, <1>5, <1>9
<1> QED BY <1>10, <1>11, <1>12, <1>13 DEF u, v

(* Moving an accepted descriptor to the configured peer is sound.            *)
LEMMA TransferSound ==
  ASSUME NEW w, Sound(w, {}), NEW p \in Accept, w.peer[p].fd # NoFd
  PROVE  Sound(Transfer(w, p), {p}) /\ Transfer(w, p).peer[Conf].fd # NoFd
<1> DEFINE w1 == bgp_stop(w, Conf)
           w2 == bgp_stop(HandOver(w1, p), p)
           w3 == SendData(w2, Conf)
<1>0. p \in Peer /\ Conf \in Peer /\ p # Conf
  BY ConstantAssumption DEF Peer
<1>1. Transfer(w, p) = ReadOn(w3, Conf)
  BY DEF Transfer
<1>2. Good(w)
  BY DEF Sound
<1>3. From(w, w1, Conf) /\ Good(w1)
  BY <1>0, <1>2, StopFrom DEF From
<1> HIDE DEF w1
<1>4. ~w1.peer[p].init /\ w1.peer[p].fd # NoFd
  BY <1>0, <1>3 DEF From, Sound
<1>5. /\ Good(w2) /\ w2.peer[Conf].fd # NoFd
      /\ \A q \in Peer : w2.peer[q].init = w1.peer[q].init
      /\ \A q \in Peer \ {p, Conf} : w2.peer[q] = w1.peer[q]
  BY <1>3, <1>4, HandOverGood
<1> HIDE DEF w2
<1>6. Sound(w2, {p})
  <2>1. \A q \in Accept : ~w2.peer[q].init
    BY <1>0, <1>3, <1>5 DEF From, Sound, Peer
  <2>2. \A q \in Peer \ {p} : HasFd(w2.peer[q])
    <3>1. HasFd(w2.peer[Conf])
      BY <1>5 DEF HasFd
    <3>2. \A q \in Peer \ {p, Conf} : HasFd(w2.peer[q])
      BY <1>3, <1>5 DEF From, Sound
    <3> QED BY <3>1, <3>2
  <2> QED BY <1>5, <2>1, <2>2 DEF Sound
<1>7. Same(w2, w3, Conf)
  BY <1>0, <1>5, SendDataSame
<1> HIDE DEF w3
<1>8. Same(w3, ReadOn(w3, Conf), Conf)
  BY <1>0, <1>5, <1>7, ReadOnSame DEF Same, From
<1>9. Same(w2, ReadOn(w3, Conf), Conf)
  BY <1>7, <1>8, SameTrans
<1> QED BY <1>0, <1>1, <1>5, <1>6, <1>9, SameSound DEF Same

(* What bgp_open_receive settles after the collision is sound.               *)
LEMMA NegotiateStep ==
  ASSUME NEW w, Good(w), NEW p \in Peer, NEW m \in OpenMsg, NEW ok,
         HasFd(w.peer[p])
  PROVE  Step(w, OpenNegotiate(w, p, m, ok), p)
<1> DEFINE r == w.peer[p]
           h == IF m.hold < ConfHold THEN m.hold ELSE ConfHold
           a == [r EXCEPT !.rid = m.id]
           b == [r EXCEPT !.rid = m.id, !.hold = h, !.gr = m.gr]
           w1 == Put(w, p, a)
           w2 == Put(w, p, b)
<1>1. r \in PeerType /\ m.id \in Nat /\ m.gr \in BOOLEAN /\ h \in Nat
  BY PeerOf, ConstantAssumption
<1>2. OpenNegotiate(w, p, m, ok) \in
        {bgp_notify_send(w, p, ok), bgp_notify_send(w1, p, ok),
         bgp_notify_send(w2, p, ok), EventAdd(w2, p, "Receive_OPEN_message")}
  BY DEF OpenNegotiate
<1> HIDE DEF h
<1>3. /\ a \in PeerType /\ a.fd = r.fd /\ a.rd = r.rd /\ a.wr = r.wr
      /\ a.init = r.init /\ a.status = r.status
  BY <1>1 DEF PeerType
<1>4. /\ b \in PeerType /\ b.fd = r.fd /\ b.rd = r.rd /\ b.wr = r.wr
      /\ b.init = r.init /\ b.status = r.status
  BY <1>1 DEF PeerType
<1> HIDE DEF a, b
<1>5. Same(w, w1, p) /\ Same(w, w2, p)
  BY <1>3, <1>4, PutSame
<1> HIDE DEF w1, w2
<1>6. Step(w, bgp_notify_send(w, p, ok), p)
  BY NotifyStep
<1>7. ASSUME NEW u, Same(w, u, p)
      PROVE  Step(w, bgp_notify_send(u, p, ok), p)
  <2>1. Step(u, bgp_notify_send(u, p, ok), p)
    BY <1>7, NotifyStep DEF Same, From, HasFd
  <2> QED BY <1>7, <2>1, FromTrans DEF Same, Step
<1>8. Step(w, EventAdd(w2, p, "Receive_OPEN_message"), p)
  <2>1. Good(w2) /\ "Receive_OPEN_message" \in Event
    BY <1>5 DEF Same, From, Event
  <2>2. Same(w2, EventAdd(w2, p, "Receive_OPEN_message"), p)
    BY <2>1, EventAddSame
  <2>3. Same(w, EventAdd(w2, p, "Receive_OPEN_message"), p)
    BY <1>5, <2>2, SameTrans
  <2> QED BY <2>3 DEF Same, Step, HasFd
<1> QED BY <1>2, <1>5, <1>6, <1>7, <1>8

(* bgp_open_receive, with its hand-over, keeps the world sound.              *)
LEMMA OpenReceiveSound ==
  ASSUME NEW w, Sound(w, {}), NEW p \in Peer, NEW m \in OpenMsg, NEW ok,
         w.peer[p].fd # NoFd
  PROVE  Sound(bgp_open_receive(w, p, m, ok), {p} \ {Conf})
<1> DEFINE col == bgp_collision_detect(w, p, m.id, ok)
           w1 == col.w
           real == w1.peer[Conf]
           nsf == real.status = "Established" /\ real.mode
           r == [real EXCEPT !.wait = @ \/ nsf]
           w2 == Put(w1, Conf, r)
           w3 == Transfer(w2, p)
           res == bgp_open_receive(w, p, m, ok)
<1>0. Conf \in Peer
  BY DEF Peer
<1>1. \/ res = bgp_notify_send(w, p, ok)
      \/ res = w1
      \/ p = Conf /\ res = OpenNegotiate(w1, p, m, ok)
      \/ res = bgp_notify_send(w1, p, ok)
      \/ p # Conf /\ res = OpenNegotiate(w3, Conf, m, ok)
  BY DEF bgp_open_receive
<1>2. Sound(w1, {}) /\ w1.peer[p] = w.peer[p]
  BY SMTT(120), CollisionSound
<1> HIDE DEF w1, col
<1>3. ASSUME NEW u, Sound(u, {})
      PROVE  Sound(bgp_notify_send(u, p, ok), {p} \ {Conf})
  <2>1. Good(u) /\ HasFd(u.peer[p])
    BY <1>3 DEF Sound
  <2>2. Step(u, bgp_notify_send(u, p, ok), p)
    BY <2>1, NotifyStep
  <2>3. Sound(bgp_notify_send(u, p, ok), {} \ {p})
    BY <1>3, <2>2, StepSound
  <2> QED BY <2>3 DEF Sound
<1>4. Sound(w1, {p} \ {Conf})
  BY <1>2 DEF Sound
<1>5. ASSUME p = Conf
      PROVE  Sound(OpenNegotiate(w1, p, m, ok), {p} \ {Conf})
  <2>1. Good(w1) /\ HasFd(w1.peer[p])
    BY <1>2 DEF Sound
  <2>2. Step(w1, OpenNegotiate(w1, p, m, ok), p)
    BY <2>1, NegotiateStep
  <2>3. Sound(OpenNegotiate(w1, p, m, ok), {} \ {p})
    BY <1>2, <2>2, StepSound
  <2> QED BY <2>3 DEF Sound
<1>6. ASSUME p # Conf
      PROVE  Sound(OpenNegotiate(w3, Conf, m, ok), {p} \ {Conf})
  <2>1. p \in Accept
    BY <1>6 DEF Peer
  <2>2. Good(w1) /\ real \in PeerType
    BY <1>0, <1>2, PeerOf DEF Sound
  <2>3. /\ r \in PeerType /\ r.fd = real.fd /\ r.rd = real.rd /\ r.wr = real.wr
        /\ r.init = real.init /\ r.status = real.status
    <3> DEFINE x == real.wait \/ nsf
    <3>1. x \in BOOLEAN /\ r = [real EXCEPT !.wait = x]
      OBVIOUS
    <3> HIDE DEF x, r, real
    <3> QED BY <2>2, <3>1 DEF PeerType
  <2> HIDE DEF r
  <2>4. Same(w1, w2, Conf)
    BY <1>0, <2>2, <2>3, PutSame
  <2> HIDE DEF w2
  <2>5. Sound(w2, {})
    BY <1>0, <1>2, <2>4, SameSound
  <2>6. w2.peer[p].fd # NoFd
    BY <1>2, <1>6, <2>4 DEF Same, From
  <2>7. Sound(w3, {p}) /\ w3.peer[Conf].fd # NoFd
    BY <2>1, <2>5, <2>6, TransferSound
  <2> HIDE DEF w3
  <2>8. Good(w3) /\ HasFd(w3.peer[Conf])
    BY <2>7 DEF Sound, HasFd
  <2>9. Step(w3, OpenNegotiate(w3, Conf, m, ok), Conf)
    BY <1>0, <2>8, NegotiateStep
  <2> QED BY <1>0, <2>7, <2>9, StepSound
<1> HIDE DEF w2, w3, res
<1>7. CASE res = bgp_notify_send(w, p, ok)
  BY <1>3, <1>7 DEF res
<1>8. CASE res = w1
  BY <1>4, <1>8 DEF res
<1>9. CASE p = Conf /\ res = OpenNegotiate(w1, p, m, ok)
  BY <1>5, <1>9 DEF res
<1>10. CASE res = bgp_notify_send(w1, p, ok)
  BY <1>2, <1>3, <1>10 DEF res
<1>11. CASE p # Conf /\ res = OpenNegotiate(w3, Conf, m, ok)
  BY <1>6, <1>11 DEF res
<1> QED BY <1>1, <1>7, <1>8, <1>9, <1>10, <1>11

(* Queueing an event is a step of its own peer.                              *)
LEMMA EventAddStep ==
  ASSUME NEW w, Good(w), NEW p \in Peer, NEW e \in Event, HasFd(w.peer[p])
  PROVE  Step(w, EventAdd(w, p, e), p)
BY EventAddSame DEF Same, Step, HasFd

(* bgp_update_receive is a step of its own peer.                             *)
LEMMA UpdateStep ==
  ASSUME NEW w, Good(w), NEW p \in Peer, NEW type, NEW ok, NEW alt,
         HasFd(w.peer[p])
  PROVE  Step(w, bgp_update_receive(w, p, type, ok, alt), p)
<1> DEFINE r == w.peer[p]
           o == [r EXCEPT !.over = TRUE]
           w1 == Put(w, p, o)
           over == bgp_notify_send(w1, p, ok)
           tm == over.peer[p].tm \cup {"pmax_restart"}
           q == [over.peer[p] EXCEPT !.tm = tm]
           both == (r.routes \cup {"fresh"}) \ (IF alt THEN {"stale"} ELSE {})
           rs == IF type = "EOR" THEN DropStale(r) ELSE both
           d == [r EXCEPT !.routes = rs]
           w2 == Put(w, p, d)
<1>1. r \in PeerType
  BY PeerOf
<1>2. bgp_update_receive(w, p, type, ok, alt) \in
        {bgp_notify_send(w, p, ok), over, Put(over, p, q),
         EventAdd(w2, p, "Receive_UPDATE_message")}
  BY DEF bgp_update_receive
<1>3. Step(w, bgp_notify_send(w, p, ok), p)
  BY NotifyStep
<1>4. /\ o \in PeerType /\ o.fd = r.fd /\ o.rd = r.rd /\ o.wr = r.wr
      /\ o.init = r.init /\ o.status = r.status
  BY <1>1 DEF PeerType
<1> HIDE DEF o
<1>5. Same(w, w1, p)
  BY <1>4, PutSame
<1> HIDE DEF w1
<1>6. Step(w, over, p)
  <2>1. Step(w1, over, p)
    BY <1>5, NotifyStep DEF Same, From, HasFd
  <2> QED BY <1>5, <2>1, FromTrans DEF Same, Step
<1> HIDE DEF over
<1>7. Step(w, Put(over, p, q), p)
  <2>1. Good(over) /\ over.peer[p] \in PeerType
    BY <1>6, PeerOf DEF Step, From
  <2>2. tm \in SUBSET (FsmTimer \cup SideTimer)
    BY <2>1 DEF PeerType, SideTimer
  <2> HIDE DEF tm
  <2>3. /\ q \in PeerType /\ q.fd = over.peer[p].fd /\ q.rd = over.peer[p].rd
        /\ q.wr = over.peer[p].wr /\ q.init = over.peer[p].init
        /\ q.status = over.peer[p].status
    BY <2>1, <2>2 DEF PeerType
  <2> HIDE DEF q
  <2>4. Same(over, Put(over, p, q), p)
    BY <2>1, <2>3, PutSame
  <2> QED BY <1>6, <2>4, FromTrans DEF Same, Step, HasFd
<1>8. Step(w, EventAdd(w2, p, "Receive_UPDATE_message"), p)
  <2>1. rs \in SUBSET {"fresh", "stale"}
    BY <1>1 DEF PeerType, DropStale
  <2> HIDE DEF rs
  <2>2. /\ d \in PeerType /\ d.fd = r.fd /\ d.rd = r.rd /\ d.wr = r.wr
        /\ d.init = r.init /\ d.status = r.status
    BY <1>1, <2>1 DEF PeerType
  <2> HIDE DEF d
  <2>3. Same(w, w2, p)
    BY <2>2, PutSame
  <2> HIDE DEF w2
  <2>4. Good(w2) /\ "Receive_UPDATE_message" \in Event /\ HasFd(w2.peer[p])
    BY <2>3 DEF Same, From, Event, HasFd
  <2>5. Step(w2, EventAdd(w2, p, "Receive_UPDATE_message"), p)
    BY <2>4, EventAddStep
  <2> QED BY <2>3, <2>5, FromTrans DEF Same, Step
<1> QED BY <1>2, <1>3, <1>6, <1>7, <1>8

(* A failed read queues an event and nothing else.                           *)
LEMMA LostStep ==
  ASSUME NEW w, Good(w), NEW p \in Peer, NEW e \in Event, HasFd(w.peer[p])
  PROVE  Step(w, ConnectionLost(w, p, e), p)
<1> DEFINE r == w.peer[p]
           x == r.wait \/ (r.status = "Established" /\ r.mode)
           s == [r EXCEPT !.wait = x]
           w1 == Put(w, p, s)
<1>1. r \in PeerType /\ x \in BOOLEAN
  BY PeerOf
<1>2. ConnectionLost(w, p, e) = EventAdd(w1, p, e)
  BY DEF ConnectionLost
<1> HIDE DEF x
<1>3. /\ s \in PeerType /\ s.fd = r.fd /\ s.rd = r.rd /\ s.wr = r.wr
      /\ s.init = r.init /\ s.status = r.status
  BY <1>1 DEF PeerType
<1> HIDE DEF s
<1>4. Same(w, w1, p)
  BY <1>3, PutSame
<1> HIDE DEF w1
<1>5. Step(w1, EventAdd(w1, p, e), p)
  BY <1>4, EventAddStep DEF Same, From, HasFd
<1> QED BY <1>2, <1>4, <1>5, FromTrans DEF Same, Step

Messages == OpenMsg \cup [type : OtherMsg]

(* The handler of each message type keeps the world sound.                   *)
LEMMA ReadMsgSound ==
  ASSUME NEW w, Sound(w, {}), NEW p \in Peer, w.peer[p].fd # NoFd,
         NEW m \in Messages, NEW c \in Choice
  PROVE  Sound(ReadMsg(w, p, m, c), {p} \ {Conf})
<1> DEFINE v == ReadMsg(w, p, m, c)
<1>0. Good(w) /\ HasFd(w.peer[p])
  BY DEF Sound
<1>1. ASSUME NEW u, Step(w, u, p) PROVE Sound(u, {p} \ {Conf})
  <2>1. Sound(u, {} \ {p})
    BY <1>1, StepSound
  <2> QED BY <2>1 DEF Sound
<1>2. CASE m.type = "OPEN"
  <2>1. m \in OpenMsg
    BY <1>2, ConstantAssumption DEF Messages, Inputs
  <2>2. v = bgp_open_receive(w, p, m, c.ok)
    BY <1>2 DEF ReadMsg
  <2> QED BY <2>1, <2>2, OpenReceiveSound
<1>3. CASE m.type = "partial"
  <2>1. v = w
    BY <1>3 DEF ReadMsg
  <2> QED BY <2>1 DEF Sound
<1>4. CASE m.type = "closed"
  <2>1. v = ConnectionLost(w, p, "TCP_connection_closed")
    BY <1>4 DEF ReadMsg
  <2>2. "TCP_connection_closed" \in Event
    BY DEF Event
  <2> QED BY <1>0, <1>1, <2>1, <2>2, LostStep
<1>5. CASE m.type = "fatal"
  <2>1. v = ConnectionLost(w, p, "TCP_fatal_error")
    BY <1>5 DEF ReadMsg
  <2>2. "TCP_fatal_error" \in Event
    BY DEF Event
  <2> QED BY <1>0, <1>1, <2>1, <2>2, LostStep
<1>6. CASE m.type = "badheader"
  <2>1. v = bgp_notify_send(w, p, c.ok)
    BY <1>6 DEF ReadMsg
  <2> QED BY <1>0, <1>1, <2>1, NotifyStep
<1>7. CASE m.type = "KEEPALIVE"
  <2>1. v = EventAdd(w, p, "Receive_KEEPALIVE_message")
    BY <1>7 DEF ReadMsg
  <2>2. "Receive_KEEPALIVE_message" \in Event
    BY DEF Event
  <2> QED BY <1>0, <1>1, <2>1, <2>2, EventAddStep
<1>8. CASE m.type = "NOTIFY"
  <2>1. v = EventAdd(w, p, "Receive_NOTIFICATION_message")
    BY <1>8 DEF ReadMsg
  <2>2. "Receive_NOTIFICATION_message" \in Event
    BY DEF Event
  <2> QED BY <1>0, <1>1, <2>1, <2>2, EventAddStep
<1>9. CASE m.type = "REFRESH"
  <2>1. v \in {SendData(w, p), bgp_notify_send(w, p, c.ok)}
    BY <1>9 DEF ReadMsg, bgp_route_refresh_receive
  <2>2. Step(w, SendData(w, p), p)
    BY <1>0, SendDataSame DEF Same, Step, HasFd
  <2> QED BY <1>0, <1>1, <2>1, <2>2, NotifyStep
<1>10. CASE m.type = "CAPABILITY"
  <2>1. v \in {EventAdd(w, p, "BGP_Stop"), bgp_notify_send(w, p, c.ok)}
    BY <1>10 DEF ReadMsg, bgp_capability_receive
  <2>2. "BGP_Stop" \in Event
    BY DEF Event
  <2> QED BY <1>0, <1>1, <2>1, <2>2, EventAddStep, NotifyStep
<1>11. CASE m.type \notin {"OPEN", "partial", "closed", "fatal", "badheader",
                           "KEEPALIVE", "NOTIFY", "REFRESH", "CAPABILITY"}
  <2>1. v = bgp_update_receive(w, p, m.type, c.ok, c.alt)
    BY <1>11 DEF ReadMsg
  <2> QED BY <1>0, <1>1, <2>1, UpdateStep
<1> QED BY <1>2, <1>3, <1>4, <1>5, <1>6, <1>7, <1>8, <1>9, <1>10, <1>11

(* bgp_read, the deletion of a temporary peer included, is sound.            *)
LEMMA ReadSound ==
  ASSUME NEW w, Sound(w, {}), NEW p \in Peer,
         NEW m \in Messages, NEW c \in Choice
  PROVE  Sound(bgp_read(w, p, m, c), {})
<1> DEFINE r == w.peer[p]
           s == [r EXCEPT !.rd = NoThread]
           w1 == Put(w, p, s)
           u == ReadOn(w1, p)
           w2 == ReadMsg(u, p, m, c)
<1>0. Good(w) /\ r \in PeerType
  BY PeerOf DEF Sound
<1>1. bgp_read(w, p, m, c) =
        IF r.fd = NoFd THEN w1
        ELSE IF p = Conf THEN w2 ELSE peer_delete(w2, p, c.ok)
  BY DEF bgp_read
<1>2. /\ s \in PeerType /\ s.fd = r.fd /\ s.rd = NoThread /\ s.wr = r.wr
      /\ s.init = r.init /\ s.status = r.status
  BY <1>0 DEF PeerType
<1> HIDE DEF s
<1>3. Same(w, w1, p)
  BY <1>0, <1>2, PutSame
<1> HIDE DEF w1
<1>4. Sound(w1, {})
  BY <1>3, SameSound
<1>5. CASE r.fd = NoFd
  BY <1>1, <1>4, <1>5
<1>6. CASE r.fd # NoFd
  <2>1. Same(w1, u, p)
    BY <1>3, <1>6, ReadOnSame DEF Same, From
  <2> HIDE DEF u
  <2>2. Sound(u, {}) /\ u.peer[p].fd # NoFd
    BY <1>3, <1>4, <1>6, <2>1, SameSound DEF Same
  <2>3. Sound(w2, {p} \ {Conf})
    BY <2>2, ReadMsgSound
  <2> HIDE DEF w2
  <2>4. CASE p = Conf
    BY <1>1, <1>6, <2>3, <2>4 DEF Sound
  <2>5. CASE p # Conf
    <3>1. Good(w2) /\ ~w2.peer[p].init
      BY <2>3, <2>5 DEF Sound, Peer
    <3>2. Step(w2, peer_delete(w2, p, c.ok), p)
      BY <3>1, DeleteStep
    <3>3. Sound(peer_delete(w2, p, c.ok), ({p} \ {Conf}) \ {p})
      BY <2>3, <3>2, StepSound
    <3>4. ({p} \ {Conf}) \ {p} = {}
      OBVIOUS
    <3> QED BY <1>1, <1>6, <2>5, <3>3, <3>4
  <2> QED BY <2>4, <2>5
<1> QED BY <1>5, <1>6

(* bgp_connect_check is a step of its own peer.                              *)
LEMMA CheckStep ==
  ASSUME NEW w, Good(w), NEW p \in Peer, NEW c, HasFd(w.peer[p])
  PROVE  Step(w, bgp_connect_check(w, p, c), p)
<1> DEFINE r == w.peer[p]
           s == [r EXCEPT !.rd = NoThread, !.wr = NoThread]
           w1 == Put(w, p, s)
           e == CASE c = "success" -> "TCP_connection_open"
                  [] c = "error" -> "TCP_connection_open_failed"
                  [] OTHER -> "TCP_fatal_error"
<1>1. r \in PeerType
  BY PeerOf
<1>2. bgp_connect_check(w, p, c) = EventAdd(w1, p, e)
  BY DEF bgp_connect_check
<1>3. e \in Event
  BY DEF Event
<1> HIDE DEF e
<1>4. /\ s \in PeerType /\ s.fd = r.fd /\ s.rd = NoThread /\ s.wr = NoThread
      /\ s.init = r.init /\ s.status = r.status
  BY <1>1 DEF PeerType
<1> HIDE DEF s
<1>5. Same(w, w1, p)
  BY <1>4, PutSame
<1> HIDE DEF w1
<1>6. Step(w1, EventAdd(w1, p, e), p)
  BY <1>3, <1>5, EventAddStep DEF Same, From, HasFd
<1> QED BY <1>2, <1>5, <1>6, FromTrans DEF Same, Step

(* bgp_write is a step of its own peer.                                      *)
LEMMA WriteStep ==
  ASSUME NEW w, Good(w), NEW p \in Peer, HasFd(w.peer[p]), NEW res,
         w.peer[p].fd = NoFd => res = "error"
  PROVE  Step(w, bgp_write(w, p, res), p)
<1> DEFINE r == w.peer[p]
           s == [r EXCEPT !.wr = NoThread]
           w1 == Put(w, p, s)
           w2 == bgp_stop(w1, p)
           w3 == bgp_fsm_change_status(w2, p, "Idle")
           stopped == bgp_timer_set(w3, p)
           o == [w1.peer[p] EXCEPT !.obuf = "none"]
<1>1. r \in PeerType
  BY PeerOf
<1>2. \/ bgp_write(w, p, res) \in {w1, Put(w1, p, o), stopped}
      \/ res = "block" /\ bgp_write(w, p, res) = WriteOn(w1, p)
  <2> HIDE DEF w1, stopped, o
  <2> QED BY DEF bgp_write, w1, w2, w3, stopped, o
<1>3. /\ s \in PeerType /\ s.fd = r.fd /\ s.rd = r.rd /\ s.wr = NoThread
      /\ s.init = r.init /\ s.status = r.status
  BY <1>1 DEF PeerType
<1> HIDE DEF s
<1>4. Same(w, w1, p)
  BY <1>3, PutSame
<1> HIDE DEF w1
<1>5. Step(w, w1, p) /\ Good(w1) /\ w1.peer[p] \in PeerType
  BY <1>4, PeerOf DEF Same, From, Step, HasFd
<1>6. Step(w, Put(w1, p, o), p)
  <2>1. /\ o \in PeerType /\ o.fd = w1.peer[p].fd /\ o.rd = w1.peer[p].rd
        /\ o.wr = w1.peer[p].wr /\ o.init = w1.peer[p].init
        /\ o.status = w1.peer[p].status
    BY <1>5 DEF PeerType
  <2> HIDE DEF o
  <2>2. Same(w1, Put(w1, p, o), p)
    BY <1>5, <2>1, PutSame
  <2> QED BY <1>5, <2>2, FromTrans DEF Same, Step, HasFd
<1>7. res = "block" => Step(w, WriteOn(w1, p), p)
  <2> SUFFICES ASSUME res = "block" PROVE Step(w, WriteOn(w1, p), p)
    OBVIOUS
  <2>1. w1.peer[p].fd # NoFd
    BY <1>4 DEF Same
  <2>2. Same(w1, WriteOn(w1, p), p)
    BY <1>5, <2>1, WriteOnSame
  <2> QED BY <1>5, <2>2, FromTrans DEF Same, Step, HasFd
<1>8. Step(w, stopped, p)
  <2>1. From(w1, w2, p) /\ Good(w2) /\ "Idle" \in Status
    BY <1>5, StopFrom DEF From, Status
  <2> HIDE DEF w2
  <2>2. From(w2, w3, p) /\ w3.peer[p].status = "Idle"
    BY <2>1, ChangeStatus
  <2> HIDE DEF w3
  <2>3. Same(w3, stopped, p)
    BY <2>2, TimerSetSame DEF From
  <2> HIDE DEF stopped
  <2>4. From(w, stopped, p)
    BY <1>4, <2>1, <2>2, <2>3, FromTrans DEF Same
  <2> QED BY <2>2, <2>3, <2>4 DEF Same, Step, HasFd, InSession
<1> QED BY <1>2, <1>5, <1>6, <1>7, <1>8

(* What a command does to reset a session is a step of its peer.             *)
LEMMA ResetStep ==
  ASSUME NEW w, Good(w), NEW p \in Peer, HasFd(w.peer[p]), NEW ok
  PROVE  Step(w, ResetPeer(w, p, ok), p)
<1>1. "BGP_Stop" \in Event
  BY DEF Event
<1>2. ResetPeer(w, p, ok) \in {bgp_notify_send(w, p, ok),
                               EventAdd(w, p, "BGP_Stop")}
  BY DEF ResetPeer
<1> QED BY <1>1, <1>2, NotifyStep, EventAddStep

(* peer_clear is a step of its own peer.                                     *)
LEMMA ClearStep ==
  ASSUME NEW w, Good(w), NEW p \in Peer, HasFd(w.peer[p]), NEW ok
  PROVE  Step(w, peer_clear(w, p, ok), p)
<1> DEFINE r == w.peer[p]
           s == [r EXCEPT !.over = FALSE, !.tm = @ \ {"pmax_restart"}]
           w1 == Put(w, p, s)
           w2 == IF r.wait THEN peer_nsf_stop(w, p) ELSE w
<1>1. r \in PeerType /\ "BGP_Start" \in Event
  BY PeerOf DEF Event
<1>2. peer_clear(w, p, ok) \in
        {w, EventAdd(w1, p, "BGP_Start"), ResetPeer(w2, p, ok)}
  BY DEF peer_clear
<1>3. Step(w, w, p)
  BY SameRefl DEF Same, Step
<1>4. Step(w, EventAdd(w1, p, "BGP_Start"), p)
  <2>1. /\ s \in PeerType /\ s.fd = r.fd /\ s.rd = r.rd /\ s.wr = r.wr
        /\ s.init = r.init /\ s.status = r.status
    BY <1>1 DEF PeerType
  <2> HIDE DEF s
  <2>2. Same(w, w1, p)
    BY <2>1, PutSame
  <2> HIDE DEF w1
  <2>3. Step(w1, EventAdd(w1, p, "BGP_Start"), p)
    BY <1>1, <2>2, EventAddStep DEF Same, From, HasFd
  <2> QED BY <2>2, <2>3, FromTrans DEF Same, Step
<1>5. Step(w, ResetPeer(w2, p, ok), p)
  <2>1. Same(w, w2, p)
    BY NsfStopSame, SameRefl
  <2> HIDE DEF w2
  <2>2. Step(w2, ResetPeer(w2, p, ok), p)
    BY <2>1, ResetStep DEF Same, From, HasFd
  <2> QED BY <2>1, <2>2, FromTrans DEF Same, Step
<1> QED BY <1>2, <1>3, <1>4, <1>5

-----------------------------------------------------------------------------
(* The inductive invariant: SelectSafe alone is not inductive, because a     *)
(* session without a descriptor would register descriptor -1, and because    *)
(* bgp_stop does nothing to a structure that has not started.                *)
IInv ==
  /\ TypeOK /\ plist \in Lists
  /\ SelectSafe
  /\ \A p \in Accept : ~peer[p].init
  /\ \A p \in Peer : HasFd(peer[p])

(* The invariant says that the present world is good and sound.              *)
LEMMA WorldSound ==
  ASSUME IInv
  PROVE  Sound(World, {}) /\ World.peer = peer
<1>1. World \in WorldType /\ World.peer = peer /\ World.open = open
  BY DEF IInv, TypeOK, World, WorldType
<1>2. \A p \in Peer : Held(peer[p]) \subseteq open
  BY DEF IInv, SelectSafe, Held
<1>3. \A p, q \in Peer : p # q => Held(peer[p]) \cap Held(peer[q]) = {}
  BY DEF IInv, SelectSafe, Held
<1> QED BY <1>1, <1>2, <1>3 DEF Sound, Good, IInv

(* A handler that ends in a sound world preserves the invariant.             *)
LEMMA BecomesInv ==
  ASSUME IInv, NEW w, Sound(w, {}), NEW said, Becomes(w, said)
  PROVE  IInv'
<1>1. peer' = w.peer /\ open' = w.open /\ plist' = w.plist
      /\ greeted' = (greeted \cup said) \cap w.open
  BY DEF Becomes
<1>2. w \in WorldType
  BY DEF Sound, Good
<1>3. TypeOK' /\ plist' \in Lists
  BY <1>1, <1>2 DEF TypeOK, WorldType, Lists
<1>4. SelectSafe'
  <2>1. \A p \in Peer : {peer'[p].fd, peer'[p].rd, peer'[p].wr}
                           \subseteq open' \cup {NoFd, NoThread}
    BY <1>1 DEF Sound, Good, Held
  <2>2. \A p, q \in Peer : p # q =>
          {peer'[p].fd, peer'[p].rd, peer'[p].wr}
            \cap {peer'[q].fd, peer'[q].rd, peer'[q].wr} \subseteq {NoFd, NoThread}
    BY <1>1 DEF Sound, Good, Held
  <2> QED BY <2>1, <2>2 DEF SelectSafe
<1>5. (\A p \in Accept : ~peer[p].init)'
  BY <1>1 DEF Sound
<1>6. (\A p \in Peer : HasFd(peer[p]))'
  BY <1>1 DEF Sound, HasFd
<1> QED BY <1>3, <1>4, <1>5, <1>6 DEF IInv

(* So does a handler that is a step of one peer.                             *)
LEMMA StepInv ==
  ASSUME IInv, NEW w, Sound(w, {}), NEW p \in Peer, NEW v, Step(w, v, p),
         NEW said, Becomes(v, said)
  PROVE  IInv'
<1>1. Sound(v, {} \ {p})
  BY StepSound
<1>2. Sound(v, {})
  BY <1>1 DEF Sound
<1> QED BY <1>2, BecomesInv

(* Every handler and every command keeps the invariant.                      *)
LEMMA HandlerInv ==
  ASSUME IInv, NEW p \in Peer, Handler(p)
  PROVE  IInv'
<1> DEFINE r == peer[p]
<1>0. Sound(World, {}) /\ World.peer[p] = r /\ Good(World) /\ r \in PeerType
      /\ HasFd(r)
  BY WorldSound, PeerOf DEF Sound, IInv
<1> HIDE DEF r
<1>1. CASE RunEvent(p)
  <2> DEFINE t == Tail(r.ev)
             s == [r EXCEPT !.ev = t]
             w == Put(World, p, s)
             e == Head(r.ev)
  <2>1. PICK c \in [conn : {"error"}, ok : {TRUE}, alt : BOOLEAN] :
          r.ev # <<>> /\ Becomes(bgp_event(w, p, e, c), {})
    BY <1>1 DEF RunEvent, r
  <2>2. c \in Choice
    BY DEF Choice, ConnectResult
  <2>3. r.ev \in Seq(Event)
    BY <1>0 DEF PeerType
  <2>4. t \in Seq(Event) /\ e \in Event
    BY SMTT(120), <2>1, <2>3
  <2> HIDE DEF t, e
  <2>5. /\ s \in PeerType /\ s.fd = r.fd /\ s.rd = r.rd /\ s.wr = r.wr
        /\ s.init = r.init /\ s.status = r.status
    BY <1>0, <2>4 DEF PeerType
  <2> HIDE DEF s
  <2>6. Same(World, w, p)
    BY <1>0, <2>5, PutSame
  <2> HIDE DEF w
  <2>7. Sound(w, {})
    BY <1>0, <2>6, SameSound
  <2>8. Step(w, bgp_event(w, p, e, c), p)
    BY <2>2, <2>4, <2>7, EventStep DEF Sound
  <2> QED BY <2>1, <2>7, <2>8, StepInv
<1>2. ASSUME NEW k \in FsmTimer, FsmTimerExpire(p, k)
      PROVE  IInv'
  <2> DEFINE i == r.init /\ k # "start"
             s == [r EXCEPT !.tm = @ \ {k}, !.init = i]
             w == Put(World, p, s)
             e == TimerEvent[k]
  <2>1. PICK c \in [conn : ConnectResult, ok : BOOLEAN, alt : {FALSE}] :
          Becomes(bgp_event(w, p, e, c), {})
    BY <1>2 DEF FsmTimerExpire, r
  <2>2. c \in Choice
    BY DEF Choice
  <2>3. e \in Event /\ i \in BOOLEAN
    BY SMTT(120) DEF TimerEvent, FsmTimer, Event
  <2>4. p \in Accept => ~i
    BY DEF IInv, r
  <2> HIDE DEF e, i
  <2>5. /\ s \in PeerType /\ s.fd = r.fd /\ s.rd = r.rd /\ s.wr = r.wr
        /\ s.init = i /\ s.status = r.status
    BY <1>0, <2>3 DEF PeerType
  <2> HIDE DEF s
  <2>6. Sound(w, {})
    <3>1. World \in WorldType
      BY <1>0 DEF Good
    <3>2. /\ w \in WorldType /\ w.open = World.open /\ w.peer[p] = s
          /\ \A q \in Peer \ {p} : w.peer[q] = World.peer[q]
      BY <2>5, <3>1 DEF WorldType, Put
    <3> HIDE DEF w
    <3>3. \A q \in Peer : Held(w.peer[q]) = Held(World.peer[q])
      BY <1>0, <2>5, <3>2 DEF Held
    <3>4. Good(w)
      BY <1>0, <3>2, <3>3 DEF Good
    <3>5. \A q \in Accept : ~w.peer[q].init
      BY <1>0, <2>4, <2>5, <3>2 DEF Sound, Peer
    <3>6. \A q \in Peer : HasFd(w.peer[q])
      BY <1>0, <2>5, <3>2 DEF Sound, HasFd
    <3> QED BY <3>4, <3>5, <3>6 DEF Sound
  <2> HIDE DEF w
  <2>7. Step(w, bgp_event(w, p, e, c), p)
    BY <2>2, <2>3, <2>6, EventStep DEF Sound
  <2> QED BY <2>1, <2>6, <2>7, StepInv
<1>3. ASSUME NEW tm \in SUBSET (FsmTimer \cup SideTimer), NEW wt \in BOOLEAN,
             NEW rs \in SUBSET {"fresh", "stale"},
             Becomes(Put(World, p, [r EXCEPT !.tm = tm, !.wait = wt,
                                             !.routes = rs]), {})
      PROVE  IInv'
  <2> DEFINE s == [r EXCEPT !.tm = tm, !.wait = wt, !.routes = rs]
             w == Put(World, p, s)
  <2>1. /\ s \in PeerType /\ s.fd = r.fd /\ s.rd = r.rd /\ s.wr = r.wr
        /\ s.init = r.init /\ s.status = r.status
    BY <1>0 DEF PeerType
  <2>2. Becomes(w, {})
    BY <1>3
  <2> HIDE DEF s
  <2>3. Same(World, w, p)
    BY <1>0, <2>1, PutSame
  <2> HIDE DEF w
  <2>4. Sound(w, {})
    BY <1>0, <2>3, SameSound
  <2> QED BY <2>2, <2>4, BecomesInv
<1>4. DropStale(r) \in SUBSET {"fresh", "stale"}
  BY <1>0 DEF PeerType, DropStale
<1>5. CASE bgp_graceful_restart_timer_expire(p)
  <2> DEFINE tm == r.tm \ {"gr_restart", "gr_stale"}
             rs == DropStale(r)
  <2>1. Becomes(Put(World, p, [r EXCEPT !.tm = tm, !.wait = FALSE,
                                        !.routes = rs]), {})
    BY <1>5 DEF bgp_graceful_restart_timer_expire, r
  <2>2. tm \in SUBSET (FsmTimer \cup SideTimer) /\ rs \in SUBSET {"fresh", "stale"}
    BY <1>0, <1>4 DEF PeerType
  <2> HIDE DEF tm, rs
  <2> QED BY <1>3, <2>1, <2>2
<1>6. CASE bgp_graceful_stale_timer_expire(p)
  <2> DEFINE tm == r.tm \ {"gr_stale"}
             rs == DropStale(r)
             wt == r.wait
  <2>1. [r EXCEPT !.tm = tm, !.routes = rs]
          = [r EXCEPT !.tm = tm, !.wait = wt, !.routes = rs]
    BY <1>0 DEF PeerType
  <2>2. Becomes(Put(World, p, [r EXCEPT !.tm = tm, !.routes = rs]), {})
    BY <1>6 DEF bgp_graceful_stale_timer_expire, r
  <2>3. /\ tm \in SUBSET (FsmTimer \cup SideTimer)
        /\ rs \in SUBSET {"fresh", "stale"} /\ wt \in BOOLEAN
    BY <1>0, <1>4 DEF PeerType
  <2> HIDE DEF tm, rs, wt
  <2> QED BY <1>3, <2>1, <2>2, <2>3
<1>7. CASE bgp_maximum_prefix_restart_timer(p)
  <2> DEFINE s == [r EXCEPT !.tm = @ \ {"pmax_restart"}]
             w == Put(World, p, s)
  <2>1. PICK ok \in BOOLEAN : Becomes(peer_clear(w, p, ok), {})
    BY <1>7 DEF bgp_maximum_prefix_restart_timer, r
  <2>2. /\ s \in PeerType /\ s.fd = r.fd /\ s.rd = r.rd /\ s.wr = r.wr
        /\ s.init = r.init /\ s.status = r.status
    BY <1>0 DEF PeerType
  <2> HIDE DEF s
  <2>3. Same(World, w, p)
    BY <1>0, <2>2, PutSame
  <2> HIDE DEF w
  <2>4. Sound(w, {})
    BY <1>0, <2>3, SameSound
  <2>5. Step(w, peer_clear(w, p, ok), p)
    BY <2>4, ClearStep DEF Sound
  <2> QED BY <2>1, <2>4, <2>5, StepInv
<1>8. CASE ConnectRead(p) \/ ConnectWrite(p)
  <2>1. PICK c \in ConnectResult : Becomes(bgp_connect_check(World, p, c), {})
    BY <1>8 DEF ConnectRead, ConnectWrite
  <2>2. Step(World, bgp_connect_check(World, p, c), p)
    BY <1>0, CheckStep
  <2> QED BY <1>0, <2>1, <2>2, StepInv
<1>9. CASE Read(p)
  <2>1. PICK m \in OpenMsg \cup [type : OtherMsg],
             c \in [conn : {"error"}, ok : BOOLEAN, alt : BOOLEAN] :
          Becomes(bgp_read(World, p, m, c),
                  IF m.type = "OPEN" THEN {peer[p].fd} ELSE {})
    BY <1>9 DEF Read
  <2>2. c \in Choice /\ m \in Messages
    BY DEF Choice, ConnectResult, Messages
  <2>3. Sound(bgp_read(World, p, m, c), {})
    BY <1>0, <2>2, ReadSound
  <2> QED BY <2>1, <2>3, BecomesInv
<1>10. CASE Write(p)
  <2>1. PICK res \in {"done", "block", "error"} :
          (r.fd = NoFd => res = "error") /\ Becomes(bgp_write(World, p, res), {})
    BY <1>10 DEF Write, r
  <2>2. Step(World, bgp_write(World, p, res), p)
    BY <1>0, <2>1, WriteStep
  <2> QED BY <1>0, <2>1, <2>2, StepInv
<1>11. CASE bgp_routeadv_timer(p)
  <2>1. r.status = "Established" /\ Becomes(SendData(World, p), {})
    BY <1>11 DEF bgp_routeadv_timer, r
  <2>2. Same(World, SendData(World, p), p)
    BY <1>0, <2>1, SendDataSame DEF HasFd, InSession
  <2>3. Sound(SendData(World, p), {})
    BY <1>0, <2>2, SameSound
  <2> QED BY <2>1, <2>3, BecomesInv
<1> QED BY <1>1, <1>2, <1>5, <1>6, <1>7, <1>8, <1>9, <1>10, <1>11 DEF Handler

(* A fresh structure, with descriptor f or none.                             *)
LEMMA NewType ==
  /\ peer_new \in PeerType /\ peer_create \in PeerType
  /\ \A f \in Fd : [peer_new EXCEPT !.fd = f, !.status = "Active",
                                    !.ev = <<"TCP_connection_open">>] \in PeerType
<1> DEFINE e0 == << >>
           e1 == <<"TCP_connection_open">>
           h == ConfHold
           s0 == {"start"}
<1>1. /\ e0 \in Seq(Event) /\ e1 \in Seq(Event) /\ h \in Nat
      /\ s0 \in SUBSET (FsmTimer \cup SideTimer)
  BY SMTT(120), ConstantAssumption DEF Event, FsmTimer
<1>2. peer_new = [status |-> "Idle", fd |-> NoFd, rd |-> NoThread,
                  wr |-> NoThread, tm |-> {}, ev |-> e0, obuf |-> "none",
                  hold |-> 0, rid |-> 0, init |-> FALSE, shut |-> FALSE,
                  over |-> FALSE, gr |-> FALSE, mode |-> FALSE,
                  wait |-> FALSE, nsf |-> FALSE, routes |-> {}]
  BY DEF peer_new
<1> HIDE DEF e0, e1, h, s0
<1>3. peer_new \in PeerType
  BY <1>1, <1>2 DEF PeerType, Status
<1>4. [peer_new EXCEPT !.hold = h, !.init = TRUE, !.tm = s0] \in PeerType
  BY <1>1, <1>3 DEF PeerType
<1>5. \A f \in Fd : [peer_new EXCEPT !.fd = f, !.status = "Active", !.ev = e1]
                      \in PeerType
  BY <1>1, <1>3 DEF PeerType, Status
<1>6. peer_create = [peer_new EXCEPT !.hold = h, !.init = TRUE, !.tm = s0]
  BY DEF peer_create, h, s0
<1> QED BY <1>3, <1>4, <1>5, <1>6 DEF e1

(* bgp_accept preserves the invariant.                                       *)
LEMMA AcceptInv ==
  ASSUME IInv, NEW p \in Peer, bgp_accept(p)
  PROVE  IInv'
<1>1. PICK f \in Fd \ open :
        /\ peer' = [peer EXCEPT ![p] =
                      [peer_new EXCEPT !.fd = f, !.status = "Active",
                                       !.ev = <<"TCP_connection_open">>]]
        /\ open' = open \cup {f}
        /\ plist' = <<p>> \o plist
        /\ greeted' = greeted
  BY DEF bgp_accept
<1> DEFINE s == [peer_new EXCEPT !.fd = f, !.status = "Active",
                                 !.ev = <<"TCP_connection_open">>]
<1>2. s \in PeerType
  BY NewType
<1>3. s.fd = f /\ s.rd = NoThread /\ s.wr = NoThread /\ ~s.init
      /\ s.status = "Active"
  BY DEF peer_new
<1>4. peer' = [peer EXCEPT ![p] = s]
  BY <1>1
<1> HIDE DEF s
<1>5. /\ peer \in [Peer -> PeerType] /\ open \subseteq Fd /\ plist \in Lists
      /\ greeted \subseteq Fd
  BY DEF IInv, TypeOK
<1>6. peer'[p] = s /\ \A q \in Peer \ {p} : peer'[q] = peer[q]
  BY <1>4, <1>5
<1>7. TypeOK' /\ plist' \in Lists
  <2>1. peer' \in [Peer -> PeerType]
    BY <1>2, <1>4, <1>5
  <2>2. plist' \in Lists
    BY <1>1, <1>5, ListAddType
  <2> QED BY <1>1, <1>5, <2>1, <2>2 DEF TypeOK, Lists
<1>8. SelectSafe'
  <2>1. \A q \in Peer : {peer'[q].fd, peer'[q].rd, peer'[q].wr}
                           \subseteq open' \cup {NoFd, NoThread}
    <3>1. \A q \in Peer : {peer[q].fd, peer[q].rd, peer[q].wr}
                             \subseteq open \cup {NoFd, NoThread}
      BY DEF IInv, SelectSafe
    <3>2. open' = open \cup {f}
      BY <1>1
    <3>3. {s.fd, s.rd, s.wr} \subseteq open' \cup {NoFd, NoThread}
      BY <1>3, <3>2
    <3> QED BY SMTT(120), <1>6, <3>1, <3>2, <3>3
  <2>2. ASSUME NEW a \in Peer, NEW b \in Peer, a # b
        PROVE  {peer'[a].fd, peer'[a].rd, peer'[a].wr}
                 \cap {peer'[b].fd, peer'[b].rd, peer'[b].wr}
                 \subseteq {NoFd, NoThread}
    <3>1. f \notin open /\ f \in Fd
      BY <1>1
    <3>2. CASE a = p
      BY SMTT(120), <1>3, <1>6, <2>2, <3>1, <3>2 DEF IInv, SelectSafe
    <3>3. CASE b = p
      BY SMTT(120), <1>3, <1>6, <2>2, <3>1, <3>3 DEF IInv, SelectSafe
    <3>4. CASE a # p /\ b # p
      BY <1>6, <2>2, <3>4 DEF IInv, SelectSafe
    <3> QED BY <3>2, <3>3, <3>4
  <2> QED BY <2>1, <2>2 DEF SelectSafe
<1>9. (\A q \in Accept : ~peer[q].init)'
  BY <1>3, <1>6 DEF IInv, Peer
<1>10. (\A q \in Peer : HasFd(peer[q]))'
  BY <1>3, <1>6 DEF IInv, HasFd, InSession
<1> QED BY <1>7, <1>8, <1>9, <1>10 DEF IInv

(* So does every command of the operator.                                    *)
LEMMA OperatorInv ==
  ASSUME IInv, Operator
  PROVE  IInv'
<1> DEFINE r == peer[Conf]
<1>0. Conf \in Peer /\ Conf \notin Accept
  BY ConstantAssumption DEF Peer
<1>1. Sound(World, {}) /\ World.peer[Conf] = r /\ Good(World) /\ r \in PeerType
      /\ HasFd(r)
  BY <1>0, WorldSound, PeerOf DEF Sound, IInv
<1> HIDE DEF r
<1>2. CASE shutdown
  <2> DEFINE w1 == IF r.wait THEN peer_nsf_stop(World, Conf) ELSE World
             s == [w1.peer[Conf] EXCEPT !.shut = TRUE, !.over = FALSE,
                                        !.tm = @ \ {"pmax_restart"}]
             w2 == Put(w1, Conf, s)
  <2>1. PICK ok \in BOOLEAN : Becomes(ResetPeer(w2, Conf, ok), {})
    BY <1>2 DEF shutdown, r
  <2>2. Same(World, w1, Conf)
    BY <1>0, <1>1, NsfStopSame, SameRefl
  <2> HIDE DEF w1
  <2>3. Good(w1) /\ w1.peer[Conf] \in PeerType
    BY <1>0, <2>2, PeerOf DEF Same, From
  <2>4. /\ s \in PeerType /\ s.fd = w1.peer[Conf].fd /\ s.rd = w1.peer[Conf].rd
        /\ s.wr = w1.peer[Conf].wr /\ s.init = w1.peer[Conf].init
        /\ s.status = w1.peer[Conf].status
    BY <2>3 DEF PeerType
  <2> HIDE DEF s
  <2>5. Same(w1, w2, Conf)
    BY <1>0, <2>3, <2>4, PutSame
  <2> HIDE DEF w2
  <2>6. Sound(w2, {})
    BY <1>0, <1>1, <2>2, <2>5, SameTrans, SameSound
  <2>7. Step(w2, ResetPeer(w2, Conf, ok), Conf)
    BY <1>0, <2>6, ResetStep DEF Sound
  <2> QED BY <1>0, <2>1, <2>6, <2>7, StepInv
<1>3. CASE no_shutdown
  <2> DEFINE s == [r EXCEPT !.shut = FALSE]
             w == Put(World, Conf, s)
  <2>1. Becomes(EventAdd(w, Conf, "BGP_Start"), {}) /\ "BGP_Start" \in Event
    BY <1>3 DEF no_shutdown, r, Event
  <2>2. /\ s \in PeerType /\ s.fd = r.fd /\ s.rd = r.rd /\ s.wr = r.wr
        /\ s.init = r.init /\ s.status = r.status
    BY <1>1 DEF PeerType
  <2> HIDE DEF s
  <2>3. Same(World, w, Conf)
    BY <1>0, <1>1, <2>2, PutSame
  <2> HIDE DEF w
  <2>4. Sound(w, {})
    BY <1>0, <1>1, <2>3, SameSound
  <2>5. Step(w, EventAdd(w, Conf, "BGP_Start"), Conf)
    BY <1>0, <2>1, <2>4, EventAddStep DEF Sound
  <2> QED BY <1>0, <2>1, <2>4, <2>5, StepInv
<1>4. CASE clear
  <2>1. PICK ok \in BOOLEAN : Becomes(peer_clear(World, Conf, ok), {})
    BY <1>4 DEF clear
  <2>2. Step(World, peer_clear(World, Conf, ok), Conf)
    BY <1>0, <1>1, ClearStep
  <2> QED BY <1>0, <1>1, <2>1, <2>2, StepInv
<1>5. CASE delete
  <2>1. PICK ok \in BOOLEAN : Becomes(peer_delete(World, Conf, ok), {})
    BY <1>5 DEF delete
  <2>2. Step(World, peer_delete(World, Conf, ok), Conf)
    BY <1>0, <1>1, DeleteStep
  <2> QED BY <1>0, <1>1, <2>1, <2>2, StepInv
<1>6. CASE create
  <2> DEFINE w1 == Put(World, Conf, peer_create)
             l == Append(World.plist, Conf)
             w == [w1 EXCEPT !.plist = l]
  <2>1. Becomes(w, {})
    <3>1. Becomes([Put(World, Conf, peer_create) EXCEPT
                     !.plist = Append(@, Conf)], {})
      BY <1>6 DEF create
    <3>2. w1.plist = World.plist
      BY DEF Put, World
    <3> QED BY <3>1, <3>2
  <2>2. World \in WorldType
    BY <1>1 DEF Good
  <2>3. l \in Lists
    <3>1. World.plist \in Lists
      BY <2>2 DEF WorldType
    <3> QED BY <1>0, <3>1, ListAddType
  <2>4. peer_create \in PeerType
    BY NewType
  <2>5. peer_create.fd = NoFd /\ peer_create.rd = NoThread
        /\ peer_create.wr = NoThread /\ peer_create.status = "Idle"
    BY DEF peer_create, peer_new
  <2> HIDE DEF l
  <2>6. /\ w \in WorldType /\ w.open = World.open
        /\ w.peer[Conf] = peer_create
        /\ \A q \in Peer \ {Conf} : w.peer[q] = World.peer[q]
    BY <1>0, <2>2, <2>3, <2>4 DEF WorldType, Put
  <2> HIDE DEF w
  <2>7. \A q \in Peer : Held(w.peer[q]) \subseteq Held(World.peer[q])
    BY <2>5, <2>6 DEF Held
  <2>8. Good(w)
    BY <1>1, <2>6, <2>7 DEF Good
  <2>9. Sound(w, {})
    BY <1>0, <1>1, <2>5, <2>6, <2>8 DEF Sound, HasFd, InSession, Peer
  <2> QED BY <2>1, <2>9, BecomesInv
<1> QED BY <1>2, <1>3, <1>4, <1>5, <1>6 DEF Operator

(* The invariant holds when bgpd starts.                                     *)
LEMMA InitInv == Init => IInv
<1> SUFFICES ASSUME Init PROVE IInv
  OBVIOUS
<1>1. \A p \in Peer : peer[p] \in {peer_create, peer_new}
  BY DEF Init
<1>2. \A r \in {peer_create, peer_new} :
        r.fd = NoFd /\ r.rd = NoThread /\ r.wr = NoThread /\ r.status = "Idle"
  <2>1. peer_create.fd = NoFd /\ peer_create.rd = NoThread
        /\ peer_create.wr = NoThread /\ peer_create.status = "Idle"
    BY DEF peer_create, peer_new
  <2>2. peer_new.fd = NoFd /\ peer_new.rd = NoThread
        /\ peer_new.wr = NoThread /\ peer_new.status = "Idle"
    BY DEF peer_new
  <2> QED BY <2>1, <2>2
<1>3. TypeOK /\ plist \in Lists
  <2>1. peer \in [Peer -> PeerType]
    BY NewType DEF Init
  <2>2. plist \in Lists
    BY ListStarts DEF Init, Peer
  <2> QED BY <2>1, <2>2 DEF Init, TypeOK, Lists
<1>4. SelectSafe
  BY <1>1, <1>2 DEF SelectSafe
<1>5. \A p \in Accept : ~peer[p].init
  BY ConstantAssumption DEF Init, peer_new, Peer
<1>6. \A p \in Peer : HasFd(peer[p])
  BY <1>1, <1>2 DEF HasFd, InSession
<1> QED BY <1>3, <1>4, <1>5, <1>6 DEF IInv

(* Every step of the program preserves it.                                   *)
LEMMA NextInv == IInv /\ [Next]_vars => IInv'
<1> SUFFICES ASSUME IInv, [Next]_vars PROVE IInv'
  OBVIOUS
<1>1. CASE UNCHANGED vars
  BY <1>1 DEF vars, IInv, TypeOK, SelectSafe, HasFd
<1>2. ASSUME NEW p \in Peer, Handler(p) PROVE IInv'
  BY <1>2, HandlerInv
<1>3. ASSUME NEW p \in Peer, bgp_accept(p) PROVE IInv'
  BY <1>3, AcceptInv
<1>4. CASE Operator
  BY <1>4, OperatorInv
<1> QED BY <1>1, <1>2, <1>3, <1>4 DEF Next

(* Every record of bgpd stays well formed, whatever the neighbour sends and  *)
(* the operator types: a reader or writer is only ever registered for a real *)
(* descriptor (thread_add_read is never called with peer->fd == -1).         *)
THEOREM TypeCorrect == Spec => []TypeOK
<1>1. IInv => TypeOK
  BY DEF IInv
<1> QED BY InitInv, NextInv, <1>1, PTL DEF Spec

(* No handler closes a descriptor that is still watched, and no descriptor   *)
(* belongs to two structures, for any number of pending connections and of   *)
(* descriptors: the hand-over of bgp_open_receive included.                  *)
THEOREM DescriptorsSafe == Spec => []SelectSafe
<1>1. IInv => SelectSafe
  BY DEF IInv
<1> QED BY InitInv, NextInv, <1>1, PTL DEF Spec

=============================================================================
