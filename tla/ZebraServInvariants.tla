------------------------- MODULE ZebraServInvariants -------------------------
(* The invariants of ZebraServ, for every value of its constants: Base, that  *)
(* the connections and the daemons' retries and subscriptions are in step,    *)
(* and Steady, that the messages of a lone daemon arrive whole and in order.  *)
EXTENDS ZebraServProofs

(* The prover of every step that does not name another one.                   *)
USE ZenonT(60)

(* A zclient has a connection attempt scheduled only while it has none and    *)
(* has not given up, and none only if it is disabled, connected or gave up.   *)
Fine(c) ==
  /\ c.t_connect # "none" => c.sock = NoFd /\ c.fail < MaxFail
  /\ c.enable /\ c.sock = NoFd /\ c.t_connect = "none" => c.fail >= MaxFail

(* A connected zclient's connection is in use and asks for what it is         *)
(* configured for.                                                            *)
Linked(c, s) ==
  c.sock \in Fd =>
    s[c.sock].state # "free" /\ ~s[c.sock].eof /\ Applied(s[c.sock]) = c.redist

(* The inductive invariant of the connections.                                *)
Base ==
  /\ TypeOK
  /\ \A d \in Daemon : Fine(z[d]) /\ Linked(z[d], srv)
  /\ \A d, e \in Daemon : z[d].sock \in Fd /\ z[d].sock = z[e].sock => d = e
  /\ {f \in Fd : srv[f].state = "open"} = Members(list)
  /\ \A i, j \in DOMAIN list : list[i] = list[j] => i = j

(* A step of one daemon, which becomes c while the connections become s.      *)
LEMMA DaemonMoves ==
  ASSUME Base, NEW d \in Daemon, NEW c \in ClientType, NEW s \in [Fd -> ConnType], Small(s),
         z' = [z EXCEPT ![d] = c], srv' = s, UNCHANGED <<alive, list, queue, t_write, next>>,
         Fine(c), Linked(c, s),
         c.sock \in Fd => c.sock = z[d].sock \/ srv[c.sock].state = "free",
         \A f \in Fd : s[f].state = "open" <=> srv[f].state = "open",
         \A f \in Fd : s[f] = srv[f] \/ f = z[d].sock \/ srv[f].state = "free"
  PROVE  Base'
<1>1. TypeOK'
  <2>1. z' \in [Daemon -> ClientType]
    BY DEF Base, TypeOK
  <2> QED BY <2>1 DEF Base, TypeOK, Small
<1>2. z \in [Daemon -> ClientType] /\ z'[d] = c /\ \A e \in Daemon \ {d} : z'[e] = z[e]
  BY DEF Base, TypeOK
<1>3. ASSUME NEW e \in Daemon \ {d}, z[e].sock \in Fd
      PROVE  z[e].sock # z[d].sock /\ srv[z[e].sock].state # "free"
  BY <1>3 DEF Base, Linked
<1>4. ASSUME NEW e \in Daemon PROVE Fine(z'[e]) /\ Linked(z'[e], srv')
  <2>1. CASE e = d
    BY <2>1, <1>2
  <2>2. CASE e # d
    <3>1. z'[e] = z[e] /\ Fine(z[e]) /\ Linked(z[e], srv)
      BY <2>2, <1>2 DEF Base
    <3>2. z[e].sock \in Fd => s[z[e].sock] = srv[z[e].sock]
      BY <2>2, <1>3
    <3> QED BY <3>1, <3>2 DEF Linked
  <2> QED BY <2>1, <2>2
<1>5. ASSUME NEW e \in Daemon, NEW g \in Daemon, z'[e].sock \in Fd, z'[e].sock = z'[g].sock
      PROVE  e = g
  <2>1. ASSUME NEW x \in Daemon \ {d}, c.sock \in Fd, c.sock = z[x].sock PROVE FALSE
    <3>1. z[x].sock # z[d].sock /\ srv[z[x].sock].state # "free"
      BY <2>1, <1>3
    <3> QED BY <3>1, <2>1
  <2>2. CASE e = d /\ g # d
    BY <2>2, <2>1, <1>2, <1>5
  <2>3. CASE e # d /\ g = d
    BY <2>3, <2>1, <1>2, <1>5
  <2>4. CASE e # d /\ g # d
    <3>1. z[e].sock \in Fd /\ z[e].sock = z[g].sock
      BY <2>4, <1>2, <1>5
    <3> QED BY <3>1 DEF Base
  <2> QED BY <2>2, <2>3, <2>4
<1>6. {f \in Fd : srv'[f].state = "open"} = Members(list')
  <2>1. {f \in Fd : s[f].state = "open"} = {f \in Fd : srv[f].state = "open"}
    OBVIOUS
  <2>2. {f \in Fd : srv[f].state = "open"} = Members(list)
    BY DEF Base
  <2> QED BY <2>1, <2>2
<1>7. \A i, j \in DOMAIN list' : list'[i] = list'[j] => i = j
  BY DEF Base
<1> QED BY <1>1, <1>4, <1>5, <1>6, <1>7 DEF Base

(* A step of zebra that keeps its clients, changes no connection's state and  *)
(* keeps what each asks for.                                                  *)
LEMMA ServerMoves ==
  ASSUME Base, TypeOK', z' = z, list' = list,
         \A f \in Fd : /\ srv'[f].state = srv[f].state /\ srv'[f].eof = srv[f].eof
                       /\ Applied(srv'[f]) = Applied(srv[f])
  PROVE  Base'
<1>1. \A d \in Daemon : Fine(z'[d]) /\ Linked(z'[d], srv')
  BY DEF Base, Linked
<1>2. {f \in Fd : srv'[f].state = "open"} = Members(list')
  <2>1. {f \in Fd : srv'[f].state = "open"} = {f \in Fd : srv[f].state = "open"}
    OBVIOUS
  <2>2. {f \in Fd : srv[f].state = "open"} = Members(list)
    BY DEF Base
  <2> QED BY <2>1, <2>2
<1> QED BY <1>1, <1>2 DEF Base

(* What is applied depends on the record and the requests alone.              *)
LEMMA AppliedSame ==
  ASSUME NEW c, NEW e, e.in = c.in, e.redist = c.redist
  PROVE  Applied(e) = Applied(c)
BY DEF Applied

(* ZCLIENT_CONNECT.                                                           *)
LEMMA Retried ==
  ASSUME NEW c \in ClientType
  PROVE  /\ Retry(c) \in ClientType
         /\ Retry(c).sock = c.sock /\ Retry(c).redist = c.redist /\ Retry(c).fail = c.fail
         /\ Retry(c).enable = c.enable
         /\ c.fail >= MaxFail => Retry(c).t_connect = c.t_connect
         /\ ~(c.fail >= MaxFail) => Retry(c).t_connect # "none"
<1> DEFINE t == IF c.t_connect = "none" THEN "timer" ELSE c.t_connect
           e == [c EXCEPT !.t_connect = t]
<1>1. t \in {"none", "event", "timer"} /\ t # "none"
  BY DEF ClientType
<1>2. Retry(c) = IF c.fail >= MaxFail THEN c ELSE e
  BY DEF Retry
<1> HIDE DEF t
<1>3. /\ e \in ClientType /\ e.sock = c.sock /\ e.redist = c.redist /\ e.fail = c.fail
      /\ e.enable = c.enable /\ e.t_connect = t
  BY <1>1 DEF ClientType
<1> HIDE DEF e
<1> QED BY <1>1, <1>2, <1>3

(* zclient_start keeps the invariant.                                         *)
LEMMA StartKeeps ==
  ASSUME Base, NEW d \in Daemon, NEW c \in ClientType, c.fail < FailBound,
         c.sock = z[d].sock, c.redist = z[d].redist,
         c.t_connect # "none" => c.sock = NoFd /\ c.fail < MaxFail,
         zclient_start(d, c), UNCHANGED <<alive, list, queue, t_write, next>>
  PROVE  Base'
<1>1. srv \in [Fd -> ConnType] /\ Small(srv)
  BY DEF Base, TypeOK, Small
<1>2. CASE ~c.enable \/ c.sock # NoFd \/ c.t_connect # "none"
  <2>1. z' = [z EXCEPT ![d] = c] /\ srv' = srv
    BY <1>2 DEF zclient_start
  <2>2. Fine(c)
    BY <1>2 DEF Fine
  <2>3. Linked(c, srv)
    BY DEF Base, Linked
  <2> HIDE DEF Fine, Linked
  <2> QED BY <1>1, <2>1, <2>2, <2>3, DaemonMoves
<1>3. CASE c.enable /\ c.sock = NoFd /\ c.t_connect = "none"
  <2>1. \/ \E f \in Fd :
             /\ alive /\ srv[f].state = "free"
             /\ srv' = [srv EXCEPT ![f] = [Conn("backlog") EXCEPT !.in = Hello(c)]]
             /\ z' = [z EXCEPT ![d] = [c EXCEPT !.sock = f, !.fail = 0]]
        \/ /\ ~alive /\ z' = [z EXCEPT ![d] = Retry([c EXCEPT !.fail = @ + 1])]
           /\ srv' = srv
    BY <1>3 DEF zclient_start
  <2>2. ASSUME NEW f \in Fd, srv[f].state = "free",
               srv' = [srv EXCEPT ![f] = [Conn("backlog") EXCEPT !.in = Hello(c)]],
               z' = [z EXCEPT ![d] = [c EXCEPT !.sock = f, !.fail = 0]]
        PROVE  Base'
    <3> DEFINE h == Hello(c)
               n == [Conn("backlog") EXCEPT !.in = h]
               s == [srv EXCEPT ![f] = n]
               e == [c EXCEPT !.sock = f, !.fail = 0]
    <3>1. h \in Seq(Requests) /\ (\A x \in ConnType : x.in = h /\ x.redist = {} => Applied(x) = c.redist)
      BY AppliedHello
    <3> HIDE DEF h
    <3>2. /\ n \in ConnType /\ n.state = "backlog" /\ ~n.eof /\ n.in = h /\ n.redist = {}
          /\ n.out = <<>>
      <4> DEFINE b == Conn("backlog")
      <4>1. /\ b \in ConnType /\ b.state = "backlog" /\ b.eof = FALSE /\ b.redist = {}
            /\ b.out = <<>>
        BY SMTT(120) DEF Conn, ConnType
      <4> HIDE DEF b
      <4>2. /\ [b EXCEPT !.in = h] \in ConnType /\ [b EXCEPT !.in = h].state = b.state
            /\ [b EXCEPT !.in = h].eof = b.eof /\ [b EXCEPT !.in = h].in = h
            /\ [b EXCEPT !.in = h].redist = b.redist /\ [b EXCEPT !.in = h].out = b.out
        BY <4>1, <3>1 DEF ConnType
      <4>3. n = [b EXCEPT !.in = h]
        BY DEF b
      <4> QED BY <4>1, <4>2, <4>3
    <3> HIDE DEF n
    <3>3. Applied(n) = c.redist
      BY <3>1, <3>2
    <3>4. s \in [Fd -> ConnType] /\ s[f] = n /\ \A g \in Fd \ {f} : s[g] = srv[g]
      BY <1>1, <3>2
    <3> HIDE DEF s
    <3>5. Small(s)
      <4>1. Len(n.out) <= Cap
        BY SMTT(120), <3>2, ServAssumption
      <4> QED BY <4>1, <3>4, <1>1 DEF Small
    <3>6. /\ e \in ClientType /\ e.sock = f /\ e.redist = c.redist /\ e.t_connect = "none"
      <4>1. 0 \in 0 .. FailBound
        BY SMTT(120) DEF FailBound, MaxFail
      <4> QED BY <4>1, <1>3 DEF ClientType
    <3> HIDE DEF e
    <3>7. f # NoFd
      BY ServAssumption
    <3>8. Fine(e)
      BY <3>6, <3>7 DEF Fine
    <3>9. Linked(e, s)
      <4>1. "backlog" # "free"
        OBVIOUS
      <4> QED BY <4>1, <3>2, <3>3, <3>4, <3>6 DEF Linked
    <3>10. \A g \in Fd : s[g].state = "open" <=> srv[g].state = "open"
      <4>1. "backlog" # "open" /\ "free" # "open"
        OBVIOUS
      <4> QED BY <4>1, <3>2, <3>4, <2>2
    <3>11. \A g \in Fd : s[g] = srv[g] \/ g = z[d].sock \/ srv[g].state = "free"
      BY <3>4, <2>2
    <3>12. z' = [z EXCEPT ![d] = e] /\ srv' = s
      BY <2>2 DEF e, s, n, h
    <3>13. e.sock \in Fd => e.sock = z[d].sock \/ srv[e.sock].state = "free"
      BY <3>6, <2>2
    <3> QED BY <3>4, <3>5, <3>6, <3>8, <3>9, <3>10, <3>11, <3>12, <3>13, DaemonMoves
  <2>3. ASSUME z' = [z EXCEPT ![d] = Retry([c EXCEPT !.fail = @ + 1])], srv' = srv
        PROVE  Base'
    <3> DEFINE k == c.fail + 1
               b == [c EXCEPT !.fail = k]
               e == Retry(b)
    <3>1. k \in 0 .. FailBound
      BY SMTT(120) DEF ClientType, FailBound, MaxFail
    <3> HIDE DEF k
    <3>2. /\ b \in ClientType /\ b.sock = c.sock /\ b.redist = c.redist /\ b.fail = k
          /\ b.enable = c.enable /\ b.t_connect = c.t_connect
      BY <3>1 DEF ClientType
    <3> HIDE DEF b
    <3>3. /\ e \in ClientType /\ e.sock = b.sock /\ e.redist = b.redist /\ e.fail = b.fail
          /\ e.enable = b.enable
          /\ b.fail >= MaxFail => e.t_connect = b.t_connect
          /\ ~(b.fail >= MaxFail) => e.t_connect # "none"
      BY <3>2, Retried
    <3> HIDE DEF e
    <3>4. Fine(e)
      <4>1. k >= MaxFail \/ k < MaxFail
        BY SMTT(120), <3>1 DEF MaxFail
      <4>2. ~(k >= MaxFail /\ k < MaxFail)
        BY SMTT(120), <3>1 DEF MaxFail
      <4> QED BY <4>1, <4>2, <3>2, <3>3, <1>3 DEF Fine
    <3>5. NoFd \notin Fd
      BY ServAssumption
    <3>6. Linked(e, srv) /\ e.sock \notin Fd
      BY <3>2, <3>3, <3>5, <1>3 DEF Linked
    <3>7. z' = [z EXCEPT ![d] = e]
      BY <2>3 DEF e, b, k
    <3> QED BY <3>3, <3>4, <3>6, <3>7, <2>3, <1>1, DaemonMoves
  <2> QED BY <2>1, <2>2, <2>3
<1> QED BY <1>2, <1>3

(* A step on the connections of zebra that TypeOK allows.                     *)
LEMMA RunKeeps ==
  ASSUME Base, NEW w \in WorldType, Small(w.srv), Run(w), UNCHANGED <<alive, list, z>>,
         \A f \in Fd : /\ w.srv[f].state = srv[f].state /\ w.srv[f].eof = srv[f].eof
                       /\ Applied(w.srv[f]) = Applied(srv[f])
  PROVE  Base'
<1>1. /\ w.srv \in [Fd -> ConnType] /\ w.queue \in Seq(Message)
      /\ w.t_write \in Fd \cup {NoFd} /\ w.next \in Numbers
  BY DEF WorldType
<1>2. /\ srv' = w.srv /\ queue' = w.queue /\ t_write' = w.t_write /\ next' = w.next
      /\ alive' = alive /\ list' = list /\ z' = z
  BY DEF Run
<1>3. TypeOK'
  BY <1>1, <1>2 DEF Base, TypeOK, Small
<1> QED BY <1>2, <1>3, ServerMoves

(* The variables as a world.                                                  *)
LEMMA WorldIs ==
  ASSUME TypeOK
  PROVE  /\ World \in WorldType /\ World.srv = srv /\ World.queue = queue
         /\ World.t_write = t_write /\ World.next = next /\ Small(srv)
<1>1. World \in WorldType
  BY DEF World, WorldType, TypeOK
<1>2. /\ World.srv = srv /\ World.queue = queue /\ World.t_write = t_write
      /\ World.next = next
  BY DEF World
<1> QED BY <1>1, <1>2 DEF TypeOK, Small

(* A step after which connections differ in buffers and accounts only.        *)
LEMMA AlikeKeeps ==
  ASSUME Base, NEW w \in WorldType, Small(w.srv), Run(w), UNCHANGED <<alive, list, z>>,
         Alike(srv, w.srv)
  PROVE  Base'
<1>1. ASSUME NEW f \in Fd
      PROVE  /\ w.srv[f].state = srv[f].state /\ w.srv[f].eof = srv[f].eof
             /\ w.srv[f].in = srv[f].in /\ w.srv[f].redist = srv[f].redist
  BY DEF Alike
<1>2. ASSUME NEW f \in Fd PROVE Applied(w.srv[f]) = Applied(srv[f])
  BY <1>1, AppliedSame
<1> QED BY <1>1, <1>2, RunKeeps

(* The write thread.                                                          *)
LEMMA DequeueBase ==
  ASSUME Base, Dequeue
  PROVE  Base'
<1> DEFINE v == zebra_server_dequeue(World)
<1>1. TypeOK
  BY DEF Base
<1>2. /\ World \in WorldType /\ World.srv = srv /\ World.queue = queue
      /\ World.t_write = t_write /\ Small(srv)
  BY <1>1, WorldIs
<1>3. World.t_write \in Fd /\ World.queue # <<>> /\ Small(World.srv)
  BY <1>1, <1>2 DEF Dequeue, TypeOK
<1>4. v \in WorldType /\ Small(v.srv) /\ Alike(World.srv, v.srv)
  BY <1>2, <1>3, DequeueCases
<1>5. Run(v) /\ UNCHANGED <<alive, list, z>>
  BY DEF Dequeue
<1> HIDE DEF v
<1> QED BY <1>2, <1>4, <1>5, AlikeKeeps

(* An interface event.                                                        *)
LEMMA UpdateBase ==
  ASSUME Base, zebra_interface_update
  PROVE  Base'
<1> DEFINE v == TellAll(World, list)
<1>1. TypeOK /\ list \in Seq(Fd)
  BY DEF Base, TypeOK
<1>2. World \in WorldType /\ World.srv = srv /\ Small(srv)
  BY <1>1, WorldIs
<1>3. v \in WorldType /\ Small(v.srv) /\ Alike(World.srv, v.srv)
  BY <1>1, <1>2, TellKeeps
<1>4. Run(v) /\ UNCHANGED <<alive, list, z>>
  BY DEF zebra_interface_update
<1> HIDE DEF v
<1> QED BY <1>2, <1>3, <1>4, AlikeKeeps

(* A request is read.                                                         *)
LEMMA ReadBase ==
  ASSUME Base, NEW f \in Fd, zebra_client_read(f)
  PROVE  Base'
<1> DEFINE c == srv[f]
           i == Tail(c.in)
           e == [c EXCEPT !.in = i]
           s == [srv EXCEPT ![f] = e]
           w == [World EXCEPT !.srv = s]
           r == Head(c.in)
           v == Dispatch(w, f, r)
           R == Answer(c.redist, r)
<1>1. TypeOK /\ c \in ConnType /\ srv \in [Fd -> ConnType] /\ c.in # <<>>
  BY DEF Base, TypeOK, zebra_client_read
<1>2. World \in WorldType /\ World.srv = srv /\ Small(srv)
  BY <1>1, WorldIs
<1>3. i \in Seq(Requests) /\ r \in Requests
  BY SMTT(120), <1>1 DEF ConnType
<1>4. Run(v) /\ UNCHANGED <<alive, list, z>>
  <2>1. [World EXCEPT !.srv[f].in = Tail(@)] = w
    BY <1>1, <1>2
  <2> QED BY <2>1 DEF zebra_client_read
<1> HIDE DEF i, c
<1>5. /\ e \in ConnType /\ e.in = i /\ e.state = c.state /\ e.eof = c.eof
      /\ e.redist = c.redist /\ e.out = c.out
  BY <1>1, <1>3 DEF ConnType
<1> HIDE DEF e
<1>6. s \in [Fd -> ConnType] /\ s[f] = e /\ \A g \in Fd \ {f} : s[g] = srv[g]
  BY <1>1, <1>5
<1> HIDE DEF s
<1>7. Small(s)
  BY <1>2, <1>5, <1>6 DEF Small, c
<1>8. w \in WorldType /\ w.srv = s
  BY <1>2, <1>6, WithSrv
<1> HIDE DEF w
<1>9. v \in WorldType /\ Small(v.srv) /\ Recorded(w.srv, v.srv, f, Answer(w.srv[f].redist, r))
  BY <1>3, <1>7, <1>8, DispatchKeeps
<1> HIDE DEF v, r
<1>10. Recorded(s, v.srv, f, R)
  BY <1>5, <1>6, <1>8, <1>9
<1> HIDE DEF R
<1>11. v.srv \in [Fd -> ConnType]
  BY <1>9 DEF WorldType
<1>12. ASSUME NEW g \in Fd
       PROVE  /\ v.srv[g].state = srv[g].state /\ v.srv[g].eof = srv[g].eof
              /\ Applied(v.srv[g]) = Applied(srv[g])
  <2>1. CASE g = f
    <3>1. /\ v.srv[f].state = c.state /\ v.srv[f].eof = c.eof /\ v.srv[f].in = i
          /\ v.srv[f].redist = R /\ v.srv[f] \in ConnType
      BY <1>5, <1>6, <1>10, <1>11 DEF Recorded
    <3>2. Applied(v.srv[f]) = Applied(c)
      <4> DEFINE x == v.srv[f]
      <4>1. x \in ConnType /\ x.in = Tail(c.in) /\ x.redist = Answer(c.redist, Head(c.in))
        BY <3>1 DEF i, R, r
      <4> HIDE DEF x
      <4>2. Applied(x) = Applied(c)
        BY <4>1, <1>1, AppliedRead
      <4> QED BY <4>2 DEF x
    <3> QED BY <2>1, <3>1, <3>2 DEF c
  <2>2. CASE g # f
    <3>1. /\ v.srv[g].state = srv[g].state /\ v.srv[g].eof = srv[g].eof
          /\ v.srv[g].in = srv[g].in /\ v.srv[g].redist = srv[g].redist
      BY <2>2, <1>6, <1>10 DEF Recorded
    <3>2. Applied(v.srv[g]) = Applied(srv[g])
      BY <3>1, AppliedSame
    <3> QED BY <3>1, <3>2
  <2> QED BY <2>1, <2>2
<1> QED BY <1>4, <1>9, <1>12, RunKeeps

(* A daemon reads what zebra sent.                                            *)
LEMMA ClientReadBase ==
  ASSUME Base, NEW d \in Daemon, zclient_read(d)
  PROVE  Base'
<1> DEFINE f == z[d].sock
           c == srv[f]
           o == Tail(c.out)
           u == IF c.due = <<>> THEN c.due ELSE Tail(c.due)
           s == Buf(srv, f, o, u)
<1>1. /\ TypeOK /\ Small(srv) /\ f \in Fd /\ c \in ConnType /\ c.out # <<>>
      /\ srv \in [Fd -> ConnType] /\ z \in [Daemon -> ClientType] /\ z[d] \in ClientType
      /\ Len(c.out) <= Cap
  BY DEF Base, TypeOK, Small, zclient_read
<1>2. c.out \in Seq(Unit) /\ c.due \in Seq(Unit)
  BY <1>1 DEF ConnType
<1>3. o \in Seq(Unit) /\ u \in Seq(Unit) /\ Len(o) <= Cap
  <2> HIDE DEF c
  <2>1. o \in Seq(Unit) /\ Len(o) = Len(c.out) - 1 /\ Len(c.out) \in Nat /\ u \in Seq(Unit)
    BY SMTT(120), <1>1, <1>2
  <2>2. Cap \in Nat
    BY ServAssumption
  <2> HIDE DEF o
  <2> QED BY SMTT(120), <1>1, <2>1, <2>2
<1>4. srv' = s /\ UNCHANGED <<alive, list, queue, t_write, next>>
  BY <1>1 DEF zclient_read, Buf
<1> HIDE DEF o, u
<1>5. /\ s \in [Fd -> ConnType] /\ s[f].state = c.state /\ s[f].eof = c.eof
      /\ s[f].in = c.in /\ s[f].redist = c.redist
      /\ \A g \in Fd \ {f} : s[g] = srv[g]
  BY SMTT(120), <1>1, <1>3, BufFacts
<1>6. Small(s)
  BY <1>1, <1>3, BufAlike
<1> HIDE DEF s
<1>7. Applied(s[f]) = Applied(c)
  BY <1>5, AppliedSame
<1>8. z' = [z EXCEPT ![d] = z[d]]
  BY <1>1 DEF zclient_read
<1>9. Fine(z[d]) /\ Linked(z[d], srv)
  BY DEF Base
<1>10. Linked(z[d], s)
  BY <1>5, <1>7, <1>9 DEF Linked
<1>11. \A g \in Fd : s[g].state = "open" <=> srv[g].state = "open"
  BY <1>5
<1> QED BY <1>1, <1>4, <1>5, <1>6, <1>8, <1>9, <1>10, <1>11, DaemonMoves

(* A connection attempt.                                                      *)
LEMMA ConnectBase ==
  ASSUME Base, NEW d \in Daemon, zclient_connect(d)
  PROVE  Base'
<1> DEFINE c == [z[d] EXCEPT !.t_connect = "none"]
<1>1. z[d] \in ClientType /\ Fine(z[d])
  BY DEF Base, TypeOK
<1>2. /\ c \in ClientType /\ c.t_connect = "none" /\ c.sock = z[d].sock
      /\ c.redist = z[d].redist /\ c.fail = z[d].fail
  <2>1. "none" \in {"none", "event", "timer"}
    OBVIOUS
  <2> QED BY <1>1, <2>1 DEF ClientType
<1>3. /\ z[d].t_connect # "none" /\ zclient_start(d, c)
      /\ UNCHANGED <<alive, list, queue, t_write, next>>
  BY DEF zclient_connect
<1> HIDE DEF c
<1>4. c.fail < FailBound
  <2>1. c.fail < MaxFail
    BY <1>1, <1>2, <1>3 DEF Fine
  <2>2. c.fail \in Nat
    BY SMTT(120), <1>2 DEF ClientType, FailBound, MaxFail
  <2> QED BY SMTT(120), <2>1, <2>2 DEF MaxFail, FailBound
<1> QED BY <1>2, <1>3, <1>4, StartKeeps

(* "router zebra".                                                            *)
LEMMA RouterBase ==
  ASSUME Base, NEW d \in Daemon, router_zebra(d)
  PROVE  Base'
<1> DEFINE c == [z[d] EXCEPT !.enable = TRUE]
<1>1. z[d] \in ClientType /\ Fine(z[d])
  BY DEF Base, TypeOK
<1>2. /\ c \in ClientType /\ c.t_connect = z[d].t_connect /\ c.sock = z[d].sock
      /\ c.redist = z[d].redist /\ c.fail = z[d].fail
  <2>1. TRUE \in BOOLEAN
    OBVIOUS
  <2> QED BY <1>1, <2>1 DEF ClientType
<1>3. /\ z[d].fail < FailBound /\ zclient_start(d, c)
      /\ UNCHANGED <<alive, list, queue, t_write, next>>
  BY DEF router_zebra
<1> HIDE DEF c
<1>4. c.t_connect # "none" => c.sock = NoFd /\ c.fail < MaxFail
  BY <1>1, <1>2 DEF Fine
<1> QED BY <1>2, <1>3, <1>4, StartKeeps

(* A zclient without a connection.                                            *)
LEMMA Unconnected ==
  ASSUME Base, NEW d \in Daemon, NEW c \in ClientType, NEW s \in [Fd -> ConnType], Small(s),
         z' = [z EXCEPT ![d] = c], srv' = s, UNCHANGED <<alive, list, queue, t_write, next>>,
         Fine(c), c.sock = NoFd, s = srv \/ s = Hangup(d)
  PROVE  Base'
<1>1. NoFd \notin Fd /\ srv \in [Fd -> ConnType]
  BY ServAssumption DEF Base, TypeOK
<1>2. Linked(c, s) /\ c.sock \notin Fd
  BY <1>1 DEF Linked
<1>3. \A f \in Fd : s[f].state = srv[f].state /\ (s[f] = srv[f] \/ f = z[d].sock)
  <2>1. CASE s = srv
    BY <2>1
  <2>2. CASE s # srv
    <3>1. z[d].sock \in Fd /\ s = [srv EXCEPT ![z[d].sock].eof = TRUE]
      BY <2>2 DEF Hangup
    <3>2. [srv EXCEPT ![z[d].sock].eof = TRUE][z[d].sock].state = srv[z[d].sock].state
      <4> DEFINE f == z[d].sock
                 e == [srv[f] EXCEPT !.eof = TRUE]
      <4>1. srv[f] \in ConnType
        BY <1>1, <3>1
      <4>2. e.state = srv[f].state
        BY <4>1 DEF ConnType
      <4>3. [srv EXCEPT ![f].eof = TRUE][f] = e
        BY <1>1, <3>1
      <4> QED BY <4>2, <4>3
    <3>3. \A f \in Fd : f # z[d].sock => [srv EXCEPT ![z[d].sock].eof = TRUE][f] = srv[f]
      BY <1>1, <3>1
    <3> QED BY <3>1, <3>2, <3>3
  <2> QED BY SMTT(120), <2>1, <2>2
<1>4. \A f \in Fd : s[f].state = "open" <=> srv[f].state = "open"
  BY <1>3
<1> QED BY <1>2, <1>3, <1>4, DaemonMoves

(* Closing a connection keeps the types.                                      *)
LEMMA HangupType ==
  ASSUME TypeOK, NEW d \in Daemon
  PROVE  Hangup(d) \in [Fd -> ConnType] /\ Small(Hangup(d))
<1>1. srv \in [Fd -> ConnType] /\ Small(srv)
  BY DEF TypeOK, Small
<1>2. CASE z[d].sock \notin Fd
  BY <1>1, <1>2 DEF Hangup
<1>3. CASE z[d].sock \in Fd
  <2> DEFINE f == z[d].sock
             e == [srv[f] EXCEPT !.eof = TRUE]
  <2>1. TRUE \in BOOLEAN /\ srv[f] \in ConnType
    BY <1>1, <1>3
  <2>2. e \in ConnType /\ e.out = srv[f].out
    BY <2>1 DEF ConnType
  <2>3. Hangup(d) = [srv EXCEPT ![f] = e]
    BY <1>3, <1>1 DEF Hangup
  <2> HIDE DEF e, f
  <2>4. f \in Fd
    BY <1>3 DEF f
  <2>5. [srv EXCEPT ![f] = e] \in [Fd -> ConnType] /\ Small([srv EXCEPT ![f] = e])
    BY <2>2, <2>4, <1>1 DEF Small
  <2> QED BY <2>3, <2>5
<1> QED BY <1>2, <1>3

(* What zclient_stop leaves.                                                  *)
LEMMA Stopped ==
  ASSUME NEW c, NEW b \in ClientType, NEW k, c = [b EXCEPT !.fail = k] \/ c = b
  PROVE  LET s == zclient_stop(c)
         IN /\ s \in ClientType /\ s.sock = NoFd /\ s.t_connect = "none" /\ s.fail = 0
            /\ s.enable = b.enable
<1>1. 0 \in 0 .. FailBound /\ "none" \in {"none", "event", "timer"} /\ NoFd \in Fd \cup {NoFd, Dead}
  BY SMTT(120) DEF FailBound, MaxFail
<1> DEFINE s == [b EXCEPT !.sock = NoFd, !.t_connect = "none", !.fail = 0]
<1>2. /\ s \in ClientType /\ s.sock = NoFd /\ s.t_connect = "none" /\ s.fail = 0
      /\ s.enable = b.enable
  BY <1>1 DEF ClientType
<1>3. zclient_stop(c) = s
  BY DEF zclient_stop, ClientType
<1> QED BY <1>2, <1>3

(* A daemon sees its connection closed.                                       *)
LEMMA EofBase ==
  ASSUME Base, NEW d \in Daemon, ReadEof(d)
  PROVE  Base'
<1> DEFINE b == z[d]
           s == zclient_stop([z[d] EXCEPT !.fail = @ + 1])
           c == Retry(s)
<1>1. /\ b \in ClientType /\ srv \in [Fd -> ConnType] /\ Small(srv)
  BY DEF Base, TypeOK, Small
<1>2. /\ s \in ClientType /\ s.sock = NoFd /\ s.t_connect = "none" /\ s.fail = 0
  <2> DEFINE k == b.fail + 1
             a == [b EXCEPT !.fail = k]
  <2>1. s = zclient_stop(a)
    OBVIOUS
  <2> HIDE DEF k
  <2>2. a = [b EXCEPT !.fail = k] \/ a = b
    OBVIOUS
  <2> HIDE DEF a, b
  <2>3. /\ zclient_stop(a) \in ClientType /\ zclient_stop(a).sock = NoFd
        /\ zclient_stop(a).t_connect = "none" /\ zclient_stop(a).fail = 0
    BY <1>1, <2>2, Stopped
  <2> QED BY <2>1, <2>3
<1>3. z' = [z EXCEPT ![d] = c] /\ srv' = srv /\ UNCHANGED <<alive, list, queue, t_write, next>>
  BY DEF ReadEof
<1> HIDE DEF s
<1>4. /\ c \in ClientType /\ c.sock = s.sock /\ c.fail = s.fail
      /\ ~(s.fail >= MaxFail) => c.t_connect # "none"
  BY <1>2, Retried
<1> HIDE DEF c
<1>5. ~(0 >= MaxFail) /\ 0 < MaxFail
  BY SMTT(120) DEF MaxFail
<1>6. Fine(c)
  BY <1>2, <1>4, <1>5 DEF Fine
<1>7. c.sock = NoFd
  BY <1>2, <1>4
<1> QED BY <1>1, <1>3, <1>4, <1>6, <1>7, Unconnected

(* "no router zebra".                                                         *)
LEMMA NoRouterBase ==
  ASSUME Base, NEW d \in Daemon, no_router_zebra(d)
  PROVE  Base'
<1> DEFINE b == z[d]
           s == zclient_stop(b)
           c == [s EXCEPT !.enable = FALSE]
           h == Hangup(d)
<1>1. TypeOK /\ b \in ClientType
  BY DEF Base, TypeOK
<1>2. s \in ClientType /\ s.sock = NoFd /\ s.t_connect = "none"
  <2> HIDE DEF b
  <2>1. b = [b EXCEPT !.fail = 0] \/ b = b
    OBVIOUS
  <2> QED BY <1>1, <2>1, Stopped
<1>3. z' = [z EXCEPT ![d] = c] /\ srv' = h /\ UNCHANGED <<alive, list, queue, t_write, next>>
  BY DEF no_router_zebra
<1> HIDE DEF s
<1>4. c \in ClientType /\ c.sock = NoFd /\ c.t_connect = "none" /\ c.enable = FALSE
  <2>1. FALSE \in BOOLEAN
    OBVIOUS
  <2> QED BY <1>2, <2>1 DEF ClientType
<1> HIDE DEF c
<1>5. Fine(c)
  BY <1>4 DEF Fine
<1>6. h \in [Fd -> ConnType] /\ Small(h)
  BY <1>1, HangupType
<1>7. h = srv \/ h = Hangup(d)
  OBVIOUS
<1> HIDE DEF h
<1> QED BY <1>3, <1>4, <1>5, <1>6, <1>7, Unconnected

(* zclient_reset.                                                             *)
LEMMA ResetBase ==
  ASSUME Base, NEW d \in Daemon, zclient_reset(d)
  PROVE  Base'
<1> DEFINE c == zclient_init
           h == Hangup(d)
<1>1. TypeOK
  BY DEF Base
<1>2. z' = [z EXCEPT ![d] = c] /\ srv' = h /\ UNCHANGED <<alive, list, queue, t_write, next>>
  BY DEF zclient_reset
<1>3. c \in ClientType /\ c.sock = NoFd /\ c.t_connect = "event" /\ c.fail = 0
  BY SMTT(120) DEF zclient_init, ClientType, FailBound, MaxFail
<1>4. Fine(c)
  BY SMTT(120), <1>3 DEF Fine, MaxFail
<1> HIDE DEF c
<1>5. h \in [Fd -> ConnType] /\ Small(h)
  BY <1>1, HangupType
<1>6. h = srv \/ h = Hangup(d)
  OBVIOUS
<1> HIDE DEF h
<1> QED BY <1>2, <1>3, <1>4, <1>5, <1>6, Unconnected

(* A daemon changes what it is configured for and asks for it.                *)
LEMMA AskBase ==
  ASSUME Base, NEW d \in Daemon, NEW r \in Requests,
         z' = [z EXCEPT ![d] = [z[d] EXCEPT !.redist = Answer(z[d].redist, r)]],
         srv' = Ask(d, r), r # InterfaceAdd,
         UNCHANGED <<alive, list, queue, t_write, next>>
  PROVE  Base'
<1> DEFINE R == Answer(z[d].redist, r)
           c == [z[d] EXCEPT !.redist = R]
           f == z[d].sock
<1>1. /\ z[d] \in ClientType /\ srv \in [Fd -> ConnType] /\ Small(srv)
      /\ Fine(z[d]) /\ Linked(z[d], srv)
  BY DEF Base, TypeOK, Small
<1>2. R \in SUBSET Type
  <2>1. z[d].redist \in SUBSET Type
    BY <1>1 DEF ClientType
  <2> QED BY <2>1 DEF Answer, Requests, InterfaceAdd, Request
<1>3. z' = [z EXCEPT ![d] = c]
  OBVIOUS
<1> HIDE DEF R
<1>4. /\ c \in ClientType /\ c.sock = f /\ c.t_connect = z[d].t_connect
      /\ c.fail = z[d].fail /\ c.enable = z[d].enable /\ c.redist = R
  BY <1>1, <1>2 DEF ClientType
<1> HIDE DEF c
<1>5. Fine(c)
  BY <1>1, <1>4 DEF Fine
<1>6. CASE f \notin Fd
  <2>1. srv' = srv
    BY <1>6 DEF Ask
  <2>2. Linked(c, srv) /\ c.sock \notin Fd
    BY <1>4, <1>6 DEF Linked
  <2> QED BY <1>1, <1>3, <1>4, <1>5, <2>1, <2>2, DaemonMoves
<1>7. CASE f \in Fd
  <2> DEFINE b == srv[f]
             i == Append(b.in, r)
             e == [b EXCEPT !.in = i]
             s == [srv EXCEPT ![f] = e]
  <2>1. b \in ConnType /\ b.in \in Seq(Requests)
    <3>1. b \in ConnType
      BY <1>1, <1>7
    <3> QED BY <3>1 DEF ConnType
  <2>2. i \in Seq(Requests)
    BY SMTT(120), <2>1
  <2>3. srv' = s
    BY <1>1, <1>7 DEF Ask
  <2> HIDE DEF i
  <2>4. /\ e \in ConnType /\ e.in = i /\ e.state = b.state /\ e.eof = b.eof
        /\ e.redist = b.redist /\ e.out = b.out
    BY <2>1, <2>2 DEF ConnType
  <2> HIDE DEF e, b
  <2>5. Applied(e) = Answer(Applied(b), r)
    <3>1. e.in = Append(b.in, r)
      BY <2>4 DEF i
    <3> QED BY <3>1, <2>1, <2>4, AppliedAsk
  <2> HIDE DEF f
  <2>6. s \in [Fd -> ConnType] /\ s[f] = e /\ \A g \in Fd \ {f} : s[g] = srv[g]
    BY <1>1, <1>7, <2>4
  <2> HIDE DEF s
  <2>7. Small(s)
    BY <1>1, <2>4, <2>6 DEF Small, b
  <2>8. b.state # "free" /\ ~b.eof /\ Applied(b) = z[d].redist
    BY <1>1, <1>7 DEF Linked, b, f
  <2>9. Linked(c, s)
    BY <1>4, <2>4, <2>5, <2>6, <2>8 DEF Linked, R
  <2>10. \A g \in Fd : s[g].state = "open" <=> srv[g].state = "open"
    BY <2>4, <2>6 DEF b
  <2>11. \A g \in Fd : s[g] = srv[g] \/ g = z[d].sock \/ srv[g].state = "free"
    BY <2>6 DEF f
  <2>12. c.sock = z[d].sock
    BY <1>4 DEF f
  <2> QED BY <1>3, <1>4, <1>5, <2>3, <2>6, <2>7, <2>9, <2>10, <2>11, <2>12, DaemonMoves
<1> QED BY <1>6, <1>7

(* Redistribution is configured or removed.                                   *)
LEMMA RedistributeBase ==
  ASSUME Base, NEW d \in Daemon, NEW t \in Type,
         zclient_redistribute_set(d, t) \/ zclient_redistribute_unset(d, t)
  PROVE  Base'
<1>1. z \in [Daemon -> ClientType]
  BY DEF Base, TypeOK
<1>2. CASE zclient_redistribute_set(d, t)
  <2> DEFINE r == Request("REDISTRIBUTE_ADD", t)
  <2>1. r \in Requests /\ r # InterfaceAdd /\ \A R : Answer(R, r) = R \cup {t}
    BY DEF Requests, Request, InterfaceAdd, Answer
  <2>2. z' = [z EXCEPT ![d] = [z[d] EXCEPT !.redist = z[d].redist \cup {t}]]
    BY <1>1, <1>2 DEF zclient_redistribute_set
  <2>3. srv' = Ask(d, r) /\ UNCHANGED <<alive, list, queue, t_write, next>>
    BY <1>2 DEF zclient_redistribute_set
  <2> HIDE DEF r
  <2>4. z' = [z EXCEPT ![d] = [z[d] EXCEPT !.redist = Answer(z[d].redist, r)]]
    BY <2>1, <2>2
  <2> QED BY <2>1, <2>3, <2>4, AskBase
<1>3. CASE zclient_redistribute_unset(d, t)
  <2> DEFINE r == Request("REDISTRIBUTE_DELETE", t)
  <2>1. r \in Requests /\ r # InterfaceAdd /\ \A R : Answer(R, r) = R \ {t}
    BY DEF Requests, Request, InterfaceAdd, Answer
  <2>2. z' = [z EXCEPT ![d] = [z[d] EXCEPT !.redist = z[d].redist \ {t}]]
    BY <1>1, <1>3 DEF zclient_redistribute_unset
  <2>3. srv' = Ask(d, r) /\ UNCHANGED <<alive, list, queue, t_write, next>>
    BY <1>3 DEF zclient_redistribute_unset
  <2> HIDE DEF r
  <2>4. z' = [z EXCEPT ![d] = [z[d] EXCEPT !.redist = Answer(z[d].redist, r)]]
    BY <2>1, <2>2
  <2> QED BY <2>1, <2>3, <2>4, AskBase
<1> QED BY <1>2, <1>3

(* zebra accepts a connection.                                                *)
LEMMA AcceptBase ==
  ASSUME Base, NEW f \in Fd, zebra_accept(f)
  PROVE  Base'
<1> DEFINE e == [srv[f] EXCEPT !.state = "open"]
           s == [srv EXCEPT ![f] = e]
<1>1. /\ srv \in [Fd -> ConnType] /\ srv[f] \in ConnType /\ Small(srv) /\ list \in Seq(Fd)
      /\ {g \in Fd : srv[g].state = "open"} = Members(list)
      /\ \A i, j \in DOMAIN list : list[i] = list[j] => i = j
  BY DEF Base, TypeOK, Small
<1>2. /\ srv[f].state = "backlog" /\ srv' = s /\ list' = Append(list, f) /\ z' = z
      /\ UNCHANGED <<alive, queue, t_write, next>>
  BY <1>1 DEF zebra_accept
<1>3. /\ e \in ConnType /\ e.state = "open" /\ e.eof = srv[f].eof /\ e.in = srv[f].in
      /\ e.redist = srv[f].redist /\ e.out = srv[f].out
  <2>1. "open" \in {"free", "backlog", "open"}
    OBVIOUS
  <2> QED BY <1>1, <2>1 DEF ConnType
<1> HIDE DEF e
<1>4. s \in [Fd -> ConnType] /\ s[f] = e /\ \A g \in Fd \ {f} : s[g] = srv[g]
  BY <1>1, <1>3
<1> HIDE DEF s
<1>5. Small(s)
  BY <1>1, <1>3, <1>4 DEF Small
<1>6. /\ Append(list, f) \in Seq(Fd) /\ DOMAIN Append(list, f) = 1 .. Len(list) + 1
      /\ DOMAIN list = 1 .. Len(list) /\ Len(list) \in Nat
      /\ Append(list, f)[Len(list) + 1] = f
      /\ \A i \in 1 .. Len(list) : Append(list, f)[i] = list[i]
  BY SMTT(120), <1>1
<1> DEFINE l == Append(list, f)
           N == Len(list)
<1>7. N + 1 \in 1 .. N + 1 /\ 1 .. N \subseteq 1 .. N + 1 /\ \A i \in 1 .. N + 1 : i \in 1 .. N \/ i = N + 1
  BY SMTT(120), <1>6
<1> HIDE DEF l, N
<1>8. /\ l \in Seq(Fd) /\ DOMAIN l = 1 .. N + 1 /\ DOMAIN list = 1 .. N /\ l[N + 1] = f
      /\ \A i \in 1 .. N : l[i] = list[i]
  BY <1>6 DEF l, N
<1>9. TypeOK'
  <2>1. list' \in Seq(Fd)
    BY <1>2, <1>8 DEF l
  <2> QED BY <1>2, <1>4, <1>5, <2>1 DEF Base, TypeOK, Small
<1>10. "backlog" # "open" /\ "open" # "free"
  OBVIOUS
<1>11. Members(l) = Members(list) \cup {f}
  BY <1>7, <1>8 DEF Members
<1>12. {g \in Fd : srv'[g].state = "open"} = Members(list')
  <2>1. {g \in Fd : s[g].state = "open"} = {g \in Fd : srv[g].state = "open"} \cup {f}
    BY <1>3, <1>4
  <2> QED BY <2>1, <1>1, <1>2, <1>11 DEF l
<1>13. ASSUME NEW i \in DOMAIN l, NEW j \in DOMAIN l, l[i] = l[j] PROVE i = j
  <2>1. ASSUME NEW k \in 1 .. N PROVE list[k] # f
    <3>1. list[k] \in Members(list)
      BY <2>1, <1>8 DEF Members
    <3> QED BY <3>1, <1>1, <1>2, <1>10
  <2> QED BY <2>1, <1>1, <1>7, <1>8, <1>13
<1>14. ASSUME NEW d \in Daemon PROVE Fine(z[d]) /\ Linked(z[d], s)
  <2>1. Fine(z[d]) /\ Linked(z[d], srv)
    BY DEF Base
  <2>2. Applied(e) = Applied(srv[f])
    BY <1>3, AppliedSame
  <2> QED BY <2>1, <2>2, <1>3, <1>4, <1>10 DEF Linked
<1>15. \A i, j \in DOMAIN list' : list'[i] = list'[j] => i = j
  BY <1>2, <1>13 DEF l
<1>16. \A d \in Daemon : Fine(z'[d]) /\ Linked(z'[d], srv')
  BY <1>2, <1>14
<1>17. \A d, e1 \in Daemon : z'[d].sock \in Fd /\ z'[d].sock = z'[e1].sock => d = e1
  BY <1>2 DEF Base
<1> QED BY <1>9, <1>12, <1>15, <1>16, <1>17 DEF Base

(* A zclient whose connection has gone.                                       *)
LEMMA Bereft ==
  ASSUME NEW c \in ClientType, Fine(c)
  PROVE  LET e == [c EXCEPT !.sock = Dead]
         IN e \in ClientType /\ e.sock = Dead /\ (c.sock # NoFd => Fine(e)) /\ Dead \notin Fd
<1> DEFINE e == [c EXCEPT !.sock = Dead]
<1>1. Dead \in Fd \cup {NoFd, Dead} /\ Dead \notin Fd /\ Dead # NoFd
  BY ServAssumption DEF Dead, NoFd
<1>2. /\ e \in ClientType /\ e.sock = Dead /\ e.t_connect = c.t_connect
      /\ e.enable = c.enable /\ e.fail = c.fail
  BY <1>1 DEF ClientType
<1> HIDE DEF e
<1>3. c.sock # NoFd => Fine(e)
  BY <1>1, <1>2 DEF Fine
<1> QED BY <1>1, <1>2, <1>3 DEF e

(* zebra closes a connection.                                                 *)
LEMMA CloseBase ==
  ASSUME Base, NEW f \in Fd, zebra_client_close(f)
  PROVE  Base'
<1> DEFINE l == listnode_delete(list, f)
           s == [srv EXCEPT ![f] = Free]
           c(d) == IF z[d].sock = f THEN [z[d] EXCEPT !.sock = Dead] ELSE z[d]
<1>1. /\ srv \in [Fd -> ConnType] /\ Small(srv) /\ list \in Seq(Fd)
      /\ z \in [Daemon -> ClientType]
      /\ {g \in Fd : srv[g].state = "open"} = Members(list)
      /\ \A i, j \in DOMAIN list : list[i] = list[j] => i = j
  BY DEF Base, TypeOK, Small
<1>2. /\ srv' = s /\ list' = l /\ z' = [d \in Daemon |-> c(d)]
      /\ UNCHANGED <<alive, queue, t_write, next>>
  BY DEF zebra_client_close
<1>3. /\ l \in Seq(Fd) /\ Members(l) = Members(list) \ {f}
      /\ \A i, j \in DOMAIN l : l[i] = l[j] => i = j
  BY <1>1, Unlisted
<1> HIDE DEF l
<1>4. Free \in ConnType /\ Free.state = "free" /\ Len(Free.out) <= Cap
  BY SMTT(120), ServAssumption DEF Free, Conn, ConnType
<1>5. s \in [Fd -> ConnType] /\ s[f] = Free /\ \A g \in Fd \ {f} : s[g] = srv[g]
  BY <1>1, <1>4
<1> HIDE DEF s
<1>6. Small(s)
  BY <1>1, <1>4, <1>5 DEF Small
<1>7. ASSUME NEW d \in Daemon
      PROVE  /\ c(d) \in ClientType /\ Fine(c(d)) /\ Linked(c(d), s)
             /\ c(d).sock \in Fd => c(d) = z[d]
  <2>1. z[d] \in ClientType /\ Fine(z[d]) /\ Linked(z[d], srv) /\ f # NoFd
    BY ServAssumption, <1>1 DEF Base
  <2>2. CASE z[d].sock = f
    <3> DEFINE e == [z[d] EXCEPT !.sock = Dead]
    <3>1. e \in ClientType /\ e.sock = Dead /\ Fine(e) /\ Dead \notin Fd
      BY <2>1, <2>2, Bereft
    <3>2. c(d) = e
      BY <2>2
    <3> HIDE DEF e, c
    <3> QED BY <3>1, <3>2 DEF Linked
  <2>3. CASE z[d].sock # f
    <3>1. c(d) = z[d]
      BY <2>3
    <3> HIDE DEF c
    <3> QED BY <3>1, <2>1, <2>3, <1>5 DEF Linked
  <2> QED BY <2>2, <2>3
<1> HIDE DEF c
<1>8. z' \in [Daemon -> ClientType] /\ \A d \in Daemon : z'[d] = c(d)
  BY <1>2, <1>7
<1>9. TypeOK'
  BY <1>2, <1>3, <1>5, <1>6, <1>8 DEF Base, TypeOK, Small
<1>10. {g \in Fd : srv'[g].state = "open"} = Members(list')
  <2>1. "free" # "open"
    OBVIOUS
  <2>2. {g \in Fd : s[g].state = "open"} = {g \in Fd : srv[g].state = "open"} \ {f}
    BY <2>1, <1>4, <1>5
  <2> QED BY <2>2, <1>1, <1>2, <1>3
<1>11. \A d \in Daemon : Fine(z'[d]) /\ Linked(z'[d], srv')
  BY <1>2, <1>7, <1>8
<1>12. \A d, e \in Daemon : z'[d].sock \in Fd /\ z'[d].sock = z'[e].sock => d = e
  BY <1>7, <1>8 DEF Base
<1>13. \A i, j \in DOMAIN list' : list'[i] = list'[j] => i = j
  BY <1>2, <1>3
<1> QED BY <1>9, <1>10, <1>11, <1>12, <1>13 DEF Base

(* zebra ends.                                                                *)
LEMMA ExitBase ==
  ASSUME Base, Exit
  PROVE  Base'
<1> DEFINE c(d) == IF z[d].sock = NoFd THEN z[d] ELSE [z[d] EXCEPT !.sock = Dead]
           s == [f \in Fd |-> Free]
<1>1. z \in [Daemon -> ClientType] /\ next \in Numbers /\ NoFd \notin Fd
  BY ServAssumption DEF Base, TypeOK
<1>2. /\ srv' = s /\ list' = <<>> /\ z' = [d \in Daemon |-> c(d)] /\ queue' = <<>>
      /\ t_write' = NoFd /\ alive' = FALSE /\ next' = next
  BY DEF Exit
<1>3. Free \in ConnType /\ Free.state = "free" /\ Len(Free.out) <= Cap
  BY SMTT(120), ServAssumption DEF Free, Conn, ConnType
<1>4. s \in [Fd -> ConnType] /\ \A f \in Fd : s[f] = Free
  BY <1>3
<1> HIDE DEF s
<1>5. ASSUME NEW d \in Daemon
      PROVE  c(d) \in ClientType /\ Fine(c(d)) /\ c(d).sock \notin Fd
  <2>1. z[d] \in ClientType /\ Fine(z[d])
    BY <1>1 DEF Base
  <2>2. CASE z[d].sock = NoFd
    BY <2>1, <2>2, <1>1
  <2>3. CASE z[d].sock # NoFd
    <3> DEFINE e == [z[d] EXCEPT !.sock = Dead]
    <3>1. e \in ClientType /\ e.sock = Dead /\ Fine(e) /\ Dead \notin Fd
      BY <2>1, <2>3, Bereft
    <3>2. c(d) = e
      BY <2>3
    <3> HIDE DEF e, c
    <3> QED BY <3>1, <3>2
  <2> QED BY <2>2, <2>3
<1> HIDE DEF c
<1>6. z' \in [Daemon -> ClientType] /\ \A d \in Daemon : z'[d] = c(d)
  BY <1>2, <1>5
<1>7. /\ <<>> \in Seq(Fd) /\ <<>> \in Seq(Message) /\ FALSE \in BOOLEAN
      /\ Members(<<>>) = {} /\ DOMAIN <<>> = {} /\ "free" # "open"
  BY SMTT(120) DEF Members
<1>8. TypeOK'
  BY <1>1, <1>2, <1>3, <1>4, <1>6, <1>7 DEF TypeOK
<1>9. {g \in Fd : srv'[g].state = "open"} = Members(list')
  BY <1>2, <1>3, <1>4, <1>7
<1>10. \A d \in Daemon : Fine(z'[d]) /\ Linked(z'[d], srv') /\ z'[d].sock \notin Fd
  BY <1>5, <1>6 DEF Linked
<1>11. \A i, j \in DOMAIN list' : list'[i] = list'[j] => i = j
  BY <1>2, <1>7
<1> QED BY <1>8, <1>9, <1>10, <1>11 DEF Base

(* Every step keeps the invariant of the connections.                         *)
LEMMA BaseNext ==
  ASSUME Base, [Next]_vars
  PROVE  Base'
<1>1. ASSUME NEW d \in Daemon, DaemonStep(d) PROVE Base'
  <2>1. CASE zclient_connect(d)
    BY <2>1, ConnectBase
  <2>2. CASE ReadEof(d)
    BY <2>2, EofBase
  <2>3. CASE zclient_read(d)
    BY <2>3, ClientReadBase
  <2>4. CASE no_router_zebra(d)
    BY <2>4, NoRouterBase
  <2>5. CASE router_zebra(d)
    BY <2>5, RouterBase
  <2>6. CASE zclient_reset(d)
    BY <2>6, ResetBase
  <2>7. CASE \E t \in Type : zclient_redistribute_set(d, t) \/ zclient_redistribute_unset(d, t)
    BY <2>7, RedistributeBase
  <2> QED BY <1>1, <2>1, <2>2, <2>3, <2>4, <2>5, <2>6, <2>7 DEF DaemonStep
<1>2. ASSUME NEW f \in Fd, ServerStep(f) PROVE Base'
  <2>1. CASE zebra_accept(f)
    BY <2>1, AcceptBase
  <2>2. CASE ReadClosed(f)
    BY <2>2, CloseBase DEF ReadClosed
  <2>3. CASE ReadSplit(f)
    BY <2>3, CloseBase DEF ReadSplit
  <2>4. CASE zebra_client_read(f)
    BY <2>4, ReadBase
  <2> QED BY <1>2, <2>1, <2>2, <2>3, <2>4 DEF ServerStep
<1>3. CASE zebra_interface_update
  BY <1>3, UpdateBase
<1>4. CASE Dequeue
  BY <1>4, DequeueBase
<1>5. CASE SelectFails
  BY <1>5, ExitBase DEF SelectFails
<1>6. CASE Kill
  BY <1>6, ExitBase DEF Kill
<1>7. CASE Restart
  <2>1. alive' \in BOOLEAN
    BY <1>7 DEF Restart
  <2>2. srv' = srv /\ list' = list /\ queue' = queue /\ t_write' = t_write /\ next' = next /\ z' = z
    BY <1>7 DEF Restart
  <2> QED BY <2>1, <2>2 DEF Base, TypeOK
<1>8. CASE UNCHANGED vars
  <2>1. alive' = alive /\ srv' = srv /\ list' = list /\ queue' = queue /\ t_write' = t_write
        /\ next' = next /\ z' = z
    BY <1>8 DEF vars
  <2> QED BY <2>1 DEF Base, TypeOK
<1> QED BY <1>1, <1>2, <1>3, <1>4, <1>5, <1>6, <1>7, <1>8 DEF Next

(* It holds when zebra and the daemons start.                                 *)
LEMMA BaseInit ==
  ASSUME Init
  PROVE  Base
<1>1. Free \in ConnType /\ Free.state = "free" /\ Len(Free.out) <= Cap
  BY SMTT(120), ServAssumption DEF Free, Conn, ConnType
<1>2. /\ zclient_init \in ClientType /\ zclient_init.sock = NoFd /\ zclient_init.t_connect = "event"
      /\ zclient_init.fail = 0
  BY SMTT(120) DEF zclient_init, ClientType, FailBound, MaxFail
<1>3. NoFd \notin Fd /\ 1 \in Numbers
  BY SMTT(120), ServAssumption DEF Numbers, Modulus
<1>4. /\ srv \in [Fd -> ConnType] /\ (\A f \in Fd : srv[f] = Free)
      /\ z \in [Daemon -> ClientType] /\ (\A d \in Daemon : z[d] = zclient_init)
      /\ list = <<>> /\ queue = <<>> /\ t_write = NoFd /\ next = 1 /\ alive = TRUE
  BY <1>1, <1>2 DEF Init
<1>5. /\ <<>> \in Seq(Fd) /\ <<>> \in Seq(Message) /\ TRUE \in BOOLEAN
      /\ Members(<<>>) = {} /\ DOMAIN <<>> = {} /\ "free" # "open"
  BY SMTT(120) DEF Members
<1>6. TypeOK
  BY <1>1, <1>3, <1>4, <1>5 DEF TypeOK
<1>7. Fine(zclient_init)
  BY SMTT(120), <1>2 DEF Fine, MaxFail
<1>8. \A d \in Daemon : Fine(z[d]) /\ Linked(z[d], srv) /\ z[d].sock \notin Fd
  BY <1>2, <1>3, <1>4, <1>7 DEF Linked
<1>9. {f \in Fd : srv[f].state = "open"} = Members(list)
  BY <1>1, <1>4, <1>5
<1>10. \A i, j \in DOMAIN list : list[i] = list[j] => i = j
  BY <1>4, <1>5
<1> QED BY <1>6, <1>8, <1>9, <1>10 DEF Base

(* The invariant in the words of the properties.                              *)
LEMMA BaseGives ==
  ASSUME Base
  PROVE  TypeOK /\ ClientListExact /\ ConnectPending /\ Subscribed
<1>1. TypeOK
  BY DEF Base
<1>2. ClientListExact
  BY DEF Base, ClientListExact, Linked
<1>3. ConnectPending
  BY DEF Base, ConnectPending, Fine
<1>4. Subscribed
  BY DEF Base, Subscribed, Linked
<1> QED BY <1>1, <1>2, <1>3, <1>4

(* Type correctness, and the socket buffers within their size: whatever the   *)
(* number of daemons, descriptors and types, daemons that stop, reset and     *)
(* reconnect, requests that arrive in part and a zebra that is restarted.     *)
THEOREM ServTypes == Spec => []TypeOK
<1>1. Init => Base
  BY BaseInit
<1>2. Base /\ [Next]_vars => Base'
  BY BaseNext
<1>3. Base => TypeOK
  BY BaseGives
<1> QED BY <1>1, <1>2, <1>3, PTL DEF Spec

(* No two daemons share a connection and client_list is exactly the           *)
(* descriptors that zebra has accepted and not closed.                        *)
THEOREM ClientListTheorem == Spec => []ClientListExact
<1>1. Init => Base
  BY BaseInit
<1>2. Base /\ [Next]_vars => Base'
  BY BaseNext
<1>3. Base => ClientListExact
  BY BaseGives
<1> QED BY <1>1, <1>2, <1>3, PTL DEF Spec

(* An enabled daemon is connected, has an attempt scheduled or has given up   *)
(* after ten failures (zclient_event, zclient_start).                         *)
THEOREM NeverForgotten == Spec => []ConnectPending
<1>1. Init => Base
  BY BaseInit
<1>2. Base /\ [Next]_vars => Base'
  BY BaseNext
<1>3. Base => ConnectPending
  BY BaseGives
<1> QED BY <1>1, <1>2, <1>3, PTL DEF Spec

(* What zebra will have on record for a connected daemon, once it has read    *)
(* what is on its way, is what the daemon is configured for, through lost     *)
(* connections, restarts and changes made while there was no connection.      *)
THEOREM SubscriptionsKept == Spec => []Subscribed
<1>1. Init => Base
  BY BaseInit
<1>2. Base /\ [Next]_vars => Base'
  BY BaseNext
<1>3. Base => Subscribed
  BY BaseGives
<1> QED BY <1>1, <1>2, <1>3, PTL DEF Spec

(* One daemon, which does not close its connection, and whose requests arrive *)
(* whole.                                                                     *)
Alone == (\A d, e \in Daemon : d = e) /\ ~MayStop /\ ~MaySplit

(* A descriptor in use is some daemon's.                                      *)
Lone(s, y) == \A f \in Fd : s[f].state # "free" => \E d \in Daemon : y[d].sock = f

(* The inductive invariant of the message queue.                              *)
Steady == Base /\ Orderly(srv, queue, t_write) /\ Lone(srv, z)

(* The connection of a lone daemon is the only one, and zebra has not seen    *)
(* it closed.                                                                 *)
LEMMA Only ==
  ASSUME Alone, Steady, NEW f \in Fd, srv[f].state # "free"
  PROVE  /\ ~srv[f].eof /\ (\A d \in Daemon : z[d].sock = f)
         /\ \A g \in Fd : srv[g].state # "free" => g = f
<1>1. PICK d \in Daemon : z[d].sock = f
  BY DEF Steady, Lone
<1>2. ~srv[f].eof
  BY <1>1 DEF Steady, Base, Linked
<1>3. \A e \in Daemon : z[e].sock = f
  BY <1>1 DEF Alone
<1>4. ASSUME NEW g \in Fd, srv[g].state # "free" PROVE g = f
  <2>1. PICK e \in Daemon : z[e].sock = g
    BY <1>4 DEF Steady, Lone
  <2> QED BY <2>1, <1>3
<1> QED BY <1>2, <1>3, <1>4

(* Descriptors stay in use and keep their daemons.                            *)
LEMMA LoneKeeps ==
  ASSUME Lone(srv, z), NEW s, NEW y,
         \A f \in Fd : s[f].state # "free" => srv[f].state # "free",
         \A d \in Daemon : y[d].sock = z[d].sock
  PROVE  Lone(s, y)
BY DEF Lone

(* zebra accepts a connection: there are no messages for another one.         *)
LEMMA AcceptOrder ==
  ASSUME Alone, Steady, NEW f \in Fd, zebra_accept(f)
  PROVE  Orderly(srv', queue', t_write') /\ Lone(srv', z')
<1> DEFINE e == [srv[f] EXCEPT !.state = "open"]
           s == [srv EXCEPT ![f] = e]
<1>1. /\ srv \in [Fd -> ConnType] /\ srv[f] \in ConnType /\ queue \in Seq(Message)
      /\ Orderly(srv, queue, t_write) /\ Lone(srv, z)
  BY DEF Steady, Base, TypeOK
<1>2. srv[f].state = "backlog" /\ srv' = s /\ z' = z /\ queue' = queue /\ t_write' = t_write
  BY <1>1 DEF zebra_accept
<1>3. e.state = "open" /\ e.out = srv[f].out /\ e.due = srv[f].due
  BY <1>1 DEF ConnType
<1> HIDE DEF e
<1>4. s[f] = e /\ \A g \in Fd \ {f} : s[g] = srv[g]
  BY <1>1
<1> HIDE DEF s
<1>5. "backlog" # "open" /\ "open" # "free" /\ "backlog" # "free"
  OBVIOUS
<1>6. \A g \in Fd : srv[g].state # "open"
  BY <1>2, <1>5, Only
<1>7. queue = <<>>
  BY <1>1, <1>6 DEF Orderly
<1>8. /\ srv[f].out = <<>> /\ srv[f].due = <<>>
  BY <1>2, <1>5, <1>1 DEF Orderly
<1>9. Queued(queue, f) = <<>> /\ <<>> \o <<>> = <<>>
  <2>1. Queued(queue, f) = <<>>
    BY <1>1, <1>7, QueuedType
  <2>2. <<>> \o <<>> = <<>>
    BY SMTT(120)
  <2> QED BY <2>1, <2>2
<1>10. t_write \notin Fd
  BY <1>1, <1>6 DEF Orderly
<1>11. \A g \in Fd : s[g].state = "open" => s[g].due = s[g].out \o Queued(queue, g)
  <2>1. ASSUME NEW g \in Fd, s[g].state = "open" PROVE g = f
    BY <2>1, <1>4, <1>6
  <2>2. s[f].due = s[f].out \o Queued(queue, f)
    BY <1>3, <1>4, <1>8, <1>9
  <2> QED BY <2>1, <2>2
<1>12. \A g \in Fd : s[g].state # "open" => s[g].out = <<>> /\ s[g].due = <<>>
  BY <1>1, <1>3, <1>4 DEF Orderly
<1>13. DOMAIN queue = {}
  BY SMTT(120), <1>7
<1>14. Orderly(s, queue, t_write)
  BY <1>7, <1>10, <1>11, <1>12, <1>13 DEF Orderly
<1>15. \A g \in Fd : s[g].state # "free" => srv[g].state # "free"
  BY <1>2, <1>4, <1>5
<1>16. Lone(s, z)
  BY <1>1, <1>15, LoneKeeps
<1> QED BY <1>2, <1>14, <1>16

(* A step of zebra that changes no connection's state.                        *)
LEMMA RunOrder ==
  ASSUME Lone(srv, z), NEW w, Run(w), z' = z, Orderly(w.srv, w.queue, w.t_write),
         \A f \in Fd : w.srv[f].state = srv[f].state
  PROVE  Orderly(srv', queue', t_write') /\ Lone(srv', z')
<1>1. srv' = w.srv /\ queue' = w.queue /\ t_write' = w.t_write
  BY DEF Run
<1>2. Lone(w.srv, z)
  BY LoneKeeps
<1> QED BY <1>1, <1>2

(* The write thread: the first message is for the connection it writes to,    *)
(* as there is no other.                                                      *)
LEMMA DequeueOrder ==
  ASSUME Alone, Steady, Dequeue
  PROVE  Orderly(srv', queue', t_write') /\ Lone(srv', z')
<1> DEFINE v == zebra_server_dequeue(World)
<1>1. TypeOK /\ Orderly(srv, queue, t_write) /\ Lone(srv, z)
  BY DEF Steady, Base
<1>2. /\ World \in WorldType /\ World.srv = srv /\ World.queue = queue
      /\ World.t_write = t_write /\ Small(srv)
  BY <1>1, WorldIs
<1>3. t_write \in Fd /\ queue # <<>> /\ queue \in Seq(Message)
  BY <1>1 DEF Dequeue, TypeOK
<1>4. 1 \in DOMAIN queue /\ Head(queue) = queue[1] /\ queue[1] \in Message
  BY SMTT(120), <1>3
<1>5. Head(queue).to \in Fd
  BY <1>4 DEF Message
<1>6. srv[t_write].state = "open" /\ srv[Head(queue).to].state = "open" /\ "open" # "free"
  BY <1>1, <1>3, <1>4 DEF Orderly
<1>7. Head(queue).to = t_write /\ ~srv[t_write].eof
  BY <1>3, <1>5, <1>6, Only
<1>8. v \in WorldType /\ Small(v.srv) /\ Alike(World.srv, v.srv)
  BY <1>2, <1>3, DequeueCases
<1>9. Orderly(v.srv, v.queue, v.t_write)
  BY <1>1, <1>2, <1>3, <1>7, DequeueOrderly
<1>10. Run(v) /\ z' = z
  BY DEF Dequeue
<1> HIDE DEF v
<1>11. \A f \in Fd : v.srv[f].state = srv[f].state
  BY <1>2, <1>8 DEF Alike
<1> QED BY <1>1, <1>9, <1>10, <1>11, RunOrder

(* An interface event: the clients in client_list are open.                   *)
LEMMA UpdateOrder ==
  ASSUME Alone, Steady, zebra_interface_update
  PROVE  Orderly(srv', queue', t_write') /\ Lone(srv', z')
<1> DEFINE v == TellAll(World, list)
<1>1. /\ TypeOK /\ Orderly(srv, queue, t_write) /\ Lone(srv, z) /\ list \in Seq(Fd)
      /\ {f \in Fd : srv[f].state = "open"} = Members(list)
  BY DEF Steady, Base, TypeOK
<1>2. /\ World \in WorldType /\ World.srv = srv /\ World.queue = queue
      /\ World.t_write = t_write /\ Small(srv)
  BY <1>1, WorldIs
<1>3. v \in WorldType /\ Small(v.srv) /\ Alike(World.srv, v.srv)
  BY <1>1, <1>2, TellKeeps
<1>4. ASSUME NEW i \in 1 .. Len(list)
      PROVE  srv[list[i]].state = "open" /\ ~srv[list[i]].eof
  <2>1. i \in DOMAIN list
    BY SMTT(120), <1>1
  <2>2. list[i] \in Members(list)
    BY <2>1 DEF Members
  <2>3. list[i] \in Fd /\ srv[list[i]].state = "open" /\ "open" # "free"
    BY <2>2, <1>1
  <2> QED BY <2>3, Only
<1>5. Orderly(v.srv, v.queue, v.t_write)
  BY <1>1, <1>2, <1>4, TellOrderly
<1>6. Run(v) /\ z' = z
  BY DEF zebra_interface_update
<1> HIDE DEF v
<1>7. \A f \in Fd : v.srv[f].state = srv[f].state
  BY <1>2, <1>3 DEF Alike
<1> QED BY <1>1, <1>5, <1>6, <1>7, RunOrder

(* A request is read and answered.                                            *)
LEMMA ReadOrder ==
  ASSUME Alone, Steady, NEW f \in Fd, zebra_client_read(f)
  PROVE  Orderly(srv', queue', t_write') /\ Lone(srv', z')
<1> DEFINE c == srv[f]
           i == Tail(c.in)
           e == [c EXCEPT !.in = i]
           s == [srv EXCEPT ![f] = e]
           w == [World EXCEPT !.srv = s]
           r == Head(c.in)
           v == Dispatch(w, f, r)
<1>1. /\ TypeOK /\ c \in ConnType /\ srv \in [Fd -> ConnType] /\ c.in # <<>>
      /\ queue \in Seq(Message) /\ Orderly(srv, queue, t_write) /\ Lone(srv, z)
      /\ c.state = "open"
  BY DEF Steady, Base, TypeOK, zebra_client_read, ClientRead
<1>2. /\ World \in WorldType /\ World.srv = srv /\ World.queue = queue
      /\ World.t_write = t_write /\ Small(srv)
  BY <1>1, WorldIs
<1>3. i \in Seq(Requests) /\ r \in Requests
  <2>1. c.in \in Seq(Requests)
    BY <1>1 DEF ConnType
  <2> HIDE DEF c
  <2> QED BY SMTT(120), <1>1, <2>1
<1>4. Run(v) /\ z' = z
  <2>1. [World EXCEPT !.srv[f].in = Tail(@)] = w
    BY <1>1, <1>2
  <2> QED BY <2>1 DEF zebra_client_read
<1>5. ~c.eof
  <2>1. "open" # "free"
    OBVIOUS
  <2> QED BY <2>1, <1>1, Only
<1> HIDE DEF i, c
<1>6. /\ e \in ConnType /\ e.state = c.state /\ e.eof = c.eof
      /\ e.out = c.out /\ e.due = c.due
  BY <1>1, <1>3 DEF ConnType
<1> HIDE DEF e
<1>7. s \in [Fd -> ConnType] /\ s[f] = e /\ \A g \in Fd \ {f} : s[g] = srv[g]
  BY <1>1, <1>6
<1> HIDE DEF s
<1>8. \A g \in Fd : s[g].state = srv[g].state /\ s[g].out = srv[g].out /\ s[g].due = srv[g].due
  BY <1>6, <1>7 DEF c
<1>9. Small(s)
  BY <1>2, <1>8 DEF Small
<1>10. Orderly(s, queue, t_write)
  <2>1. \A g \in Fd : /\ s[g].state = "open" <=> srv[g].state = "open"
                      /\ s[g].out = srv[g].out /\ s[g].due = srv[g].due
    BY <1>8
  <2> QED BY <2>1, <1>1, SameOrder
<1>11. w \in WorldType /\ w.srv = s /\ w.queue = queue /\ w.t_write = t_write
  BY <1>2, <1>7, WithSrv
<1> HIDE DEF w, r
<1>12. w.srv[f].state = "open" /\ ~w.srv[f].eof
  BY <1>1, <1>5, <1>6, <1>7, <1>11
<1>13. Orderly(v.srv, v.queue, v.t_write)
  BY <1>3, <1>9, <1>10, <1>11, <1>12, DispatchOrderly
<1>14. Recorded(w.srv, v.srv, f, Answer(w.srv[f].redist, r))
  BY <1>3, <1>9, <1>11, DispatchKeeps
<1> HIDE DEF v
<1>15. \A g \in Fd : v.srv[g].state = srv[g].state
  BY <1>8, <1>11, <1>14 DEF Recorded
<1> QED BY <1>1, <1>4, <1>13, <1>15, RunOrder

(* A daemon reads the first unit, which is the first that is due to it.       *)
LEMMA ClientReadOrder ==
  ASSUME Alone, Steady, NEW d \in Daemon, zclient_read(d)
  PROVE  Orderly(srv', queue', t_write') /\ Lone(srv', z')
<1> DEFINE f == z[d].sock
           c == srv[f]
           o == Tail(c.out)
           u == IF c.due = <<>> THEN c.due ELSE Tail(c.due)
           s == Buf(srv, f, o, u)
           q == Queued(queue, f)
<1>1. /\ f \in Fd /\ c \in ConnType /\ c.out # <<>> /\ queue \in Seq(Message)
      /\ srv \in [Fd -> ConnType] /\ Orderly(srv, queue, t_write) /\ Lone(srv, z)
      /\ queue' = queue /\ t_write' = t_write /\ z' = z
  BY DEF Steady, Base, TypeOK, zclient_read
<1>2. c.out \in Seq(Unit) /\ c.due \in Seq(Unit)
  BY <1>1 DEF ConnType
<1>3. srv' = s
  BY <1>1 DEF zclient_read, Buf
<1>4. c.state = "open" /\ c.due = c.out \o q
  BY <1>1 DEF Orderly
<1>5. q \in Seq(Unit)
  BY <1>1, QueuedType
<1>6. o \in Seq(Unit) /\ u \in Seq(Unit) /\ u = o \o q
  <2> DEFINE a == c.out
             b == c.due
  <2>1. a \in Seq(Unit) /\ a # <<>> /\ b \in Seq(Unit) /\ b = a \o q
    BY <1>1, <1>2, <1>4
  <2> HIDE DEF a, b, q
  <2>2. Tail(a) \in Seq(Unit) /\ Len(a) \in Nat \ {0} /\ Len(b) = Len(a) + Len(q) /\ Len(q) \in Nat
    BY SMTT(120), <2>1, <1>5
  <2>3. b # <<>>
    <3>1. Len(b) # 0
      BY SMTT(120), <2>2
    <3> QED BY SMTT(120), <3>1
  <2>4. Tail(b) \in Seq(Unit) /\ Len(Tail(b)) = Len(b) - 1
        /\ \A i \in 1 .. Len(b) - 1 : Tail(b)[i] = b[i + 1]
    BY SMTT(120), <2>1, <2>3
  <2> DEFINE ta == Tail(a)
  <2>5. Len(ta) = Len(a) - 1 /\ \A i \in 1 .. Len(a) - 1 : ta[i] = a[i + 1]
    BY SMTT(120), <2>1
  <2>6. ta \in Seq(Unit)
    BY <2>2
  <2> HIDE DEF ta
  <2>7. /\ ta \o q \in Seq(Unit) /\ Len(ta \o q) = Len(ta) + Len(q)
        /\ \A i \in 1 .. Len(ta) + Len(q) :
             (ta \o q)[i] = IF i <= Len(ta) THEN ta[i] ELSE q[i - Len(ta)]
    BY <2>6, <1>5, ConcatProperties
  <2>8. \A i \in 1 .. Len(a) + Len(q) : b[i] = IF i <= Len(a) THEN a[i] ELSE q[i - Len(a)]
    BY <2>1, <1>5, ConcatProperties
  <2>9. ASSUME NEW i \in 1 .. Len(b) - 1 PROVE Tail(b)[i] = (ta \o q)[i]
    <3>1. /\ i + 1 \in 1 .. Len(a) + Len(q) /\ i \in 1 .. Len(ta) + Len(q)
          /\ (i + 1) - Len(a) = i - Len(ta) /\ (i + 1 <= Len(a) <=> i <= Len(ta))
          /\ (i <= Len(ta) => i \in 1 .. Len(a) - 1)
      BY SMTT(120), <2>2, <2>5
    <3>2. Tail(b)[i] = b[i + 1]
      BY <2>4
    <3>3. b[i + 1] = IF i + 1 <= Len(a) THEN a[i + 1] ELSE q[i - Len(ta)]
      BY <3>1, <2>8
    <3>4. (ta \o q)[i] = IF i <= Len(ta) THEN ta[i] ELSE q[i - Len(ta)]
      BY <3>1, <2>7
    <3>5. i <= Len(ta) => ta[i] = a[i + 1]
      BY <3>1, <2>5
    <3> QED BY <3>1, <3>2, <3>3, <3>4, <3>5
  <2>10. Len(Tail(b)) = Len(ta \o q) /\ Len(Tail(b)) = Len(b) - 1
    BY SMTT(120), <2>2, <2>4, <2>5, <2>7
  <2> DEFINE x == ta \o q
             y == Tail(b)
  <2>11. x \in Seq(Unit) /\ y \in Seq(Unit) /\ Len(x) = Len(y) /\ \A i \in 1 .. Len(y) : y[i] = x[i]
    BY <2>4, <2>7, <2>9, <2>10
  <2> HIDE DEF x, y
  <2>12. y = x
    BY <2>11, SeqEqual
  <2>13. o = ta /\ u = y
    BY <2>3 DEF ta, a, b, y
  <2> QED BY <2>6, <2>11, <2>12, <2>13 DEF x
<1> HIDE DEF o, u, f, q
<1>7. Fits(u, o, queue, f)
  BY <1>6 DEF Fits, q
<1>8. \A i \in DOMAIN queue : queue[i].to \in Fd /\ srv[queue[i].to].state = "open"
  <2>1. ASSUME NEW i \in DOMAIN queue PROVE queue[i].to \in Fd
    <3>1. queue[i] \in Message
      BY SMTT(120), <1>1
    <3> QED BY <3>1 DEF Message
  <2> QED BY <2>1, <1>1 DEF Orderly
<1>9. /\ queue # <<>> => t_write \in Fd
      /\ t_write \in Fd => srv[t_write].state = "open"
  BY <1>1 DEF Orderly
<1>10. Orderly(s, queue, t_write)
  BY <1>1, <1>4, <1>6, <1>7, <1>8, <1>9, BufOrderly
<1>11. s[f].state = srv[f].state /\ \A g \in Fd \ {f} : s[g] = srv[g]
  <2>1. srv \in [Fd -> ConnType] /\ f \in Fd /\ o \in Seq(Unit) /\ u \in Seq(Unit)
    BY <1>1, <1>6
  <2>2. /\ Buf(srv, f, o, u)[f].state = srv[f].state
        /\ \A g \in Fd \ {f} : Buf(srv, f, o, u)[g] = srv[g]
    BY SMTT(120), <2>1, BufFacts
  <2> QED BY <2>2
<1> HIDE DEF s
<1>12. \A g \in Fd : s[g].state # "free" => srv[g].state # "free"
  BY <1>11
<1>13. Lone(s, z)
  BY <1>1, <1>12, LoneKeeps
<1> QED BY <1>1, <1>3, <1>10, <1>13

(* A connection attempt: a new connection has nothing to send.                *)
LEMMA ConnectOrder ==
  ASSUME Alone, Steady, NEW d \in Daemon, zclient_connect(d)
  PROVE  Orderly(srv', queue', t_write') /\ Lone(srv', z')
<1> DEFINE c == [z[d] EXCEPT !.t_connect = "none"]
<1>1. /\ z[d] \in ClientType /\ srv \in [Fd -> ConnType] /\ queue \in Seq(Message)
      /\ Orderly(srv, queue, t_write) /\ Lone(srv, z) /\ z \in [Daemon -> ClientType]
  BY DEF Steady, Base, TypeOK
<1>2. c \in ClientType /\ c.sock = z[d].sock
  <2>1. "none" \in {"none", "event", "timer"}
    OBVIOUS
  <2> QED BY <1>1, <2>1 DEF ClientType
<1>3. zclient_start(d, c) /\ queue' = queue /\ t_write' = t_write
  BY DEF zclient_connect
<1> HIDE DEF c
<1>4. ASSUME NEW b, b.sock = z[d].sock, z' = [z EXCEPT ![d] = b], srv' = srv
      PROVE  Orderly(srv', queue', t_write') /\ Lone(srv', z')
  <2>1. \A e \in Daemon : z'[e].sock = z[e].sock
    BY <1>1, <1>4
  <2>2. Lone(srv, z')
    BY <2>1, <1>1, LoneKeeps
  <2> QED BY <2>2, <1>1, <1>3, <1>4
<1>5. CASE ~c.enable \/ c.sock # NoFd \/ c.t_connect # "none"
  <2>1. z' = [z EXCEPT ![d] = c] /\ srv' = srv
    BY <1>3, <1>5 DEF zclient_start
  <2> QED BY <2>1, <1>2, <1>4
<1>6. CASE c.enable /\ c.sock = NoFd /\ c.t_connect = "none"
  <2>1. \/ \E f \in Fd :
             /\ alive /\ srv[f].state = "free"
             /\ srv' = [srv EXCEPT ![f] = [Conn("backlog") EXCEPT !.in = Hello(c)]]
             /\ z' = [z EXCEPT ![d] = [c EXCEPT !.sock = f, !.fail = 0]]
        \/ /\ ~alive /\ z' = [z EXCEPT ![d] = Retry([c EXCEPT !.fail = @ + 1])]
           /\ srv' = srv
    BY <1>3, <1>6 DEF zclient_start
  <2>2. ASSUME NEW f \in Fd, srv[f].state = "free",
               srv' = [srv EXCEPT ![f] = [Conn("backlog") EXCEPT !.in = Hello(c)]],
               z' = [z EXCEPT ![d] = [c EXCEPT !.sock = f, !.fail = 0]]
        PROVE  Orderly(srv', queue', t_write') /\ Lone(srv', z')
    <3> DEFINE h == Hello(c)
               n == [Conn("backlog") EXCEPT !.in = h]
               s == [srv EXCEPT ![f] = n]
               e == [c EXCEPT !.sock = f, !.fail = 0]
    <3> HIDE DEF h
    <3>1. n.state = "backlog" /\ n.out = <<>> /\ n.due = <<>>
      BY DEF Conn
    <3> HIDE DEF n
    <3>2. s[f] = n /\ \A g \in Fd \ {f} : s[g] = srv[g]
      BY <1>1
    <3>3. srv' = s
      BY <2>2 DEF n, h
    <3> HIDE DEF s
    <3>4. "free" # "open" /\ "backlog" # "open"
      OBVIOUS
    <3>5. srv[f].out = <<>> /\ srv[f].due = <<>>
      BY <1>1, <2>2, <3>4 DEF Orderly
    <3>6. \A g \in Fd : /\ s[g].state = "open" <=> srv[g].state = "open"
                        /\ s[g].out = srv[g].out /\ s[g].due = srv[g].due
      BY <2>2, <3>1, <3>2, <3>4, <3>5
    <3>7. Orderly(s, queue, t_write)
      BY <3>6, <1>1, SameOrder
    <3>8. e.sock = f
      BY <1>2 DEF ClientType
    <3> HIDE DEF e
    <3>9. z'[d].sock = f
      BY <3>8, <2>2, <1>1 DEF e
    <3>10. NoFd \notin Fd
      BY ServAssumption
    <3>11. ASSUME NEW g \in Fd, s[g].state # "free" PROVE g = f
      <4>1. ASSUME g # f PROVE FALSE
        <5>1. srv[g].state # "free"
          BY <4>1, <3>2, <3>11
        <5>2. z[d].sock = g
          BY <5>1, Only
        <5> QED BY <5>2, <1>2, <1>6, <3>10
      <4> QED BY <4>1
    <3>12. Lone(s, z')
      BY <3>9, <3>11 DEF Lone
    <3> QED BY <3>3, <3>7, <3>12, <1>3
  <2>3. ASSUME z' = [z EXCEPT ![d] = Retry([c EXCEPT !.fail = @ + 1])], srv' = srv
        PROVE  Orderly(srv', queue', t_write') /\ Lone(srv', z')
    <3> DEFINE k == c.fail + 1
               a == [c EXCEPT !.fail = k]
               b == Retry(a)
    <3>1. z' = [z EXCEPT ![d] = b]
      BY <2>3
    <3> HIDE DEF k
    <3>2. b.sock = c.sock
      BY <1>2 DEF ClientType, Retry
    <3> HIDE DEF b
    <3> QED BY <3>1, <3>2, <2>3, <1>2, <1>4
  <2> QED BY <2>1, <2>2, <2>3
<1> QED BY <1>5, <1>6

(* The daemon sees that zebra's end has gone: it had no descriptor.           *)
LEMMA EofOrder ==
  ASSUME Steady, NEW d \in Daemon, ReadEof(d)
  PROVE  Orderly(srv', queue', t_write') /\ Lone(srv', z')
<1>1. /\ Orderly(srv, queue, t_write) /\ Lone(srv, z) /\ z \in [Daemon -> ClientType]
  BY DEF Steady, Base, TypeOK
<1> DEFINE c == Retry(zclient_stop([z[d] EXCEPT !.fail = @ + 1]))
<1>2. /\ z[d].sock = Dead /\ z' = [z EXCEPT ![d] = c] /\ srv' = srv /\ queue' = queue
      /\ t_write' = t_write
  BY DEF ReadEof
<1> HIDE DEF c
<1>3. Dead \notin Fd
  BY ServAssumption
<1>4. ASSUME NEW f \in Fd, srv[f].state # "free" PROVE \E e \in Daemon : z'[e].sock = f
  <2>1. PICK e \in Daemon : z[e].sock = f
    BY <1>1, <1>4 DEF Lone
  <2>2. e # d
    BY <2>1, <1>2, <1>3
  <2>3. z'[e] = z[e]
    BY <2>2, <1>1, <1>2
  <2> QED BY <2>1, <2>3
<1>5. Lone(srv, z')
  BY <1>4 DEF Lone
<1> QED BY <1>1, <1>2, <1>5

(* A request is sent.                                                         *)
LEMMA AskOrder ==
  ASSUME Steady, NEW d \in Daemon, NEW t \in Type,
         zclient_redistribute_set(d, t) \/ zclient_redistribute_unset(d, t)
  PROVE  Orderly(srv', queue', t_write') /\ Lone(srv', z')
<1>1. /\ Orderly(srv, queue, t_write) /\ Lone(srv, z) /\ z \in [Daemon -> ClientType]
      /\ srv \in [Fd -> ConnType] /\ queue \in Seq(Message)
  BY DEF Steady, Base, TypeOK
<1>2. \E r, R : /\ srv' = Ask(d, r) /\ z' = [z EXCEPT ![d] = [z[d] EXCEPT !.redist = R]]
                /\ queue' = queue /\ t_write' = t_write
  <2>1. CASE zclient_redistribute_set(d, t)
    BY <2>1, <1>1 DEF zclient_redistribute_set
  <2>2. CASE zclient_redistribute_unset(d, t)
    BY <2>2, <1>1 DEF zclient_redistribute_unset
  <2> QED BY <2>1, <2>2
<1>3. PICK r, R : /\ srv' = Ask(d, r) /\ z' = [z EXCEPT ![d] = [z[d] EXCEPT !.redist = R]]
                  /\ queue' = queue /\ t_write' = t_write
  BY <1>2
<1>4. \A e \in Daemon : z'[e].sock = z[e].sock
  <2>1. z[d] \in ClientType
    BY <1>1
  <2>2. [z[d] EXCEPT !.redist = R].sock = z[d].sock
    BY <2>1 DEF ClientType
  <2> QED BY <2>2, <1>1, <1>3
<1>5. \A g \in Fd : /\ srv'[g].state = srv[g].state
                    /\ srv'[g].out = srv[g].out /\ srv'[g].due = srv[g].due
  <2>1. CASE z[d].sock \notin Fd
    BY <2>1, <1>3 DEF Ask
  <2>2. CASE z[d].sock \in Fd
    <3> DEFINE f == z[d].sock
               i == Append(srv[f].in, r)
               e == [srv[f] EXCEPT !.in = i]
    <3>1. srv' = [srv EXCEPT ![f] = e]
      BY <2>2, <1>1, <1>3 DEF Ask
    <3> HIDE DEF i
    <3>2. srv[f] \in ConnType
      BY <2>2, <1>1
    <3>3. e.state = srv[f].state /\ e.out = srv[f].out /\ e.due = srv[f].due
      BY <3>2 DEF ConnType
    <3> HIDE DEF e
    <3> QED BY <3>1, <3>3, <1>1
  <2> QED BY <2>1, <2>2
<1>6. \A g \in Fd : /\ srv'[g].state = "open" <=> srv[g].state = "open"
                    /\ srv'[g].out = srv[g].out /\ srv'[g].due = srv[g].due
  BY <1>5
<1>7. Orderly(srv', queue, t_write)
  BY <1>1, <1>6, SameOrder
<1>8. Lone(srv', z')
  BY <1>1, <1>4, <1>5, LoneKeeps
<1> QED BY <1>3, <1>7, <1>8

(* Without connections there is nothing to keep in order.                     *)
LEMMA NothingOrdered ==
  ASSUME NEW s, NEW y, \A f \in Fd : s[f] = Free
  PROVE  Orderly(s, <<>>, NoFd) /\ Lone(s, y)
<1>1. Free.state = "free" /\ Free.out = <<>> /\ Free.due = <<>> /\ "free" # "open"
  BY DEF Free, Conn
<1>2. NoFd \notin Fd /\ DOMAIN <<>> = {}
  BY SMTT(120), ServAssumption
<1> QED BY <1>1, <1>2 DEF Orderly, Lone

(* Every step keeps the order of the messages of a lone daemon.               *)
LEMMA SteadyNext ==
  ASSUME Alone, Steady, [Next]_vars
  PROVE  Steady'
<1>1. Base /\ Orderly(srv, queue, t_write) /\ Lone(srv, z)
  BY DEF Steady
<1>2. Base'
  BY <1>1, BaseNext
<1> DEFINE Goal == Orderly(srv', queue', t_write') /\ Lone(srv', z')
<1> SUFFICES Goal
  BY <1>2 DEF Steady
<1>3. ASSUME NEW d \in Daemon, DaemonStep(d) PROVE Goal
  <2>1. CASE zclient_connect(d)
    BY <2>1, ConnectOrder
  <2>2. CASE ReadEof(d)
    BY <2>2, EofOrder
  <2>3. CASE zclient_read(d)
    BY <2>3, ClientReadOrder
  <2>4. CASE no_router_zebra(d) \/ router_zebra(d) \/ zclient_reset(d)
    BY <2>4 DEF Alone, no_router_zebra, router_zebra, zclient_reset
  <2>5. CASE \E t \in Type : zclient_redistribute_set(d, t) \/ zclient_redistribute_unset(d, t)
    BY <2>5, AskOrder
  <2> QED BY <1>3, <2>1, <2>2, <2>3, <2>4, <2>5 DEF DaemonStep
<1>4. ASSUME NEW f \in Fd, ServerStep(f) PROVE Goal
  <2>1. CASE zebra_accept(f)
    BY <2>1, AcceptOrder
  <2>2. CASE ReadClosed(f)
    <3>1. srv[f].state = "open" /\ srv[f].eof /\ "open" # "free"
      BY <2>2 DEF ReadClosed, ClientRead
    <3> QED BY <3>1, Only
  <2>3. CASE ReadSplit(f)
    BY <2>3 DEF ReadSplit, Alone
  <2>4. CASE zebra_client_read(f)
    BY <2>4, ReadOrder
  <2> QED BY <1>4, <2>1, <2>2, <2>3, <2>4 DEF ServerStep
<1>5. CASE zebra_interface_update
  BY <1>5, UpdateOrder
<1>6. CASE Dequeue
  BY <1>6, DequeueOrder
<1>7. CASE SelectFails \/ Kill
  <2>1. srv' = [f \in Fd |-> Free] /\ queue' = <<>> /\ t_write' = NoFd
    BY <1>7 DEF SelectFails, Kill, Exit
  <2>2. \A f \in Fd : srv'[f] = Free
    BY <2>1
  <2> QED BY <2>1, <2>2, NothingOrdered
<1>8. CASE Restart \/ UNCHANGED vars
  <2>1. srv' = srv /\ queue' = queue /\ t_write' = t_write /\ z' = z
    BY <1>8 DEF Restart, vars
  <2> QED BY <2>1, <1>1
<1> QED BY <1>3, <1>4, <1>5, <1>6, <1>7, <1>8 DEF Next

(* A client is sent its own messages, whole and in order, whatever write()    *)
(* accepted of each, when it is zebra's only client: for any size of socket   *)
(* buffer, queue and requests, through restarts of zebra.  With a second      *)
(* client the one write thread sends to the wrong descriptor.                 *)
THEOREM MessagesInOrder == ASSUME Alone PROVE Spec => []InOrder
<1>1. Init => Steady
  <2> SUFFICES ASSUME Init PROVE Steady
    OBVIOUS
  <2>1. Base
    BY BaseInit
  <2>2. (\A f \in Fd : srv[f] = Free) /\ queue = <<>> /\ t_write = NoFd
    BY DEF Init
  <2>3. Orderly(srv, queue, t_write) /\ Lone(srv, z)
    BY <2>2, NothingOrdered
  <2> QED BY <2>1, <2>3 DEF Steady
<1>2. Steady /\ [Next]_vars => Steady'
  BY SMTT(120), SteadyNext
<1>3. Steady => InOrder
  BY DEF Steady, Orderly, InOrder
<1> QED BY <1>1, <1>2, <1>3, PTL DEF Spec

(* A message that waits in the queue of a lone daemon has a write thread that *)
(* will send it: each path that leaves one queued arms the thread again.      *)
THEOREM QueueServedAlone == ASSUME Alone PROVE Spec => []QueueServed
<1>1. Init => Steady
  <2> SUFFICES ASSUME Init PROVE Steady
    OBVIOUS
  <2>1. Base
    BY BaseInit
  <2>2. (\A f \in Fd : srv[f] = Free) /\ queue = <<>> /\ t_write = NoFd
    BY DEF Init
  <2>3. Orderly(srv, queue, t_write) /\ Lone(srv, z)
    BY <2>2, NothingOrdered
  <2> QED BY <2>1, <2>3 DEF Steady
<1>2. Steady /\ [Next]_vars => Steady'
  BY SteadyNext
<1>3. Steady => QueueServed
  <2>1. NoFd \notin Fd
    BY ServAssumption
  <2> QED BY <2>1 DEF Steady, Orderly, QueueServed
<1> QED BY <1>1, <1>2, <1>3, PTL DEF Spec
=============================================================================
