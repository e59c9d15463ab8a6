----------------------------- MODULE ZebraServ -----------------------------
(* The connections between zebra and the protocol daemons: the server side    *)
(* of zserv.c (accept, request dispatch, the message queue behind             *)
(* non-blocking sockets) and the client side of lib/zclient.c (connect,       *)
(* retry, redistribution requests, read).                                     *)
(*                                                                            *)
(* zebra and each daemon are one thread each; an action is one handler.  A    *)
(* message is MsgLen units long, so that a write may stop in the middle of    *)
(* one; its number n (cyclic) tells messages apart.  The connection of a      *)
(* daemon is named by the descriptor f zebra has, or will have, for it.       *)
EXTENDS Naturals, Sequences

CONSTANTS
  Daemon,      \* protocol daemons
  Fd,          \* descriptors zebra may get from accept()
  Type,        \* route types a daemon may ask for
  Order,       \* the order in which a new connection asks for a set of them
  Cap,         \* units a socket buffer holds
  QueueBound,  \* bound of the model: messages in the queue
  DueBound,    \* bound of the model: units a daemon has not read when zebra sends
  InBound,     \* bound of the model: requests on their way in one connection
  MayStop,     \* daemons may close their connection
  MayKill,     \* an operator may stop zebra
  MaySplit     \* a request may be there in part when zebra reads it

NoFd == "none"
Dead == "dead"        \* the daemon's socket after zebra's end has gone
MsgLen == 2
MaxFail == 10
FailBound == MaxFail + 1   \* bound of the model: failures, "router zebra" included
Modulus == Cap + QueueBound
Numbers == 1 .. Modulus

Members(s) == {s[i] : i \in DOMAIN s}

ASSUME ServAssumption ==
  /\ NoFd \notin Fd /\ Dead \notin Fd
  /\ Cap \in Nat \ {0} /\ QueueBound \in Nat /\ InBound \in Nat
  /\ DueBound \in Nat
  /\ \A S \in SUBSET Type : Order[S] \in Seq(S) /\ S \subseteq Members(Order[S])
  /\ MayStop \in BOOLEAN /\ MaySplit \in BOOLEAN /\ MayKill \in BOOLEAN

VARIABLES
  alive,   \* zebra's main loop is running
  srv,     \* per descriptor the connection
  list,    \* client_list
  queue,   \* message_queue
  t_write, \* descriptor of the write thread
  next,    \* number of the next message
  z        \* per daemon its zclient

vars == <<alive, srv, list, queue, t_write, next, z>>

\* in: requests not read yet, eof: the daemon has closed its end, out: units
\* in the socket buffer, due: units sent for this connection and not read yet
\* by the daemon.
Conn(s) == [state |-> s, in |-> <<>>, eof |-> FALSE, ifinfo |-> FALSE,
            redist |-> {}, out |-> <<>>, due |-> <<>>]
Free == Conn("free")

World == [srv |-> srv, queue |-> queue, t_write |-> t_write, next |-> next]

Run(w) == srv' = w.srv /\ queue' = w.queue /\ t_write' = w.t_write /\ next' = w.next

(***************************************************************************)
(* Sending                                                                 *)
(***************************************************************************)
Units(n, written) == <<>> \o [i \in 1 .. MsgLen - written |-> <<n, written + i>>]

\* What write() takes of k units, 0 for EAGAIN.
Room(c, k) == IF Cap - Len(c.out) < k THEN Cap - Len(c.out) ELSE k

\* The write thread is armed for sock only if none is.
THREAD_WRITE_ON(w, f) == [w EXCEPT !.t_write = IF @ = NoFd THEN f ELSE @]

zebra_server_enqueue(w, f, n, written) ==
  THREAD_WRITE_ON([w EXCEPT !.queue = Append(@, [to |-> f, n |-> n, written |-> written])], f)

Push(w, f, us) == [w EXCEPT !.srv[f].out = @ \o us]

\* Mutant: a message is written although others wait in the queue.
MutOvertake(w, f) ==
  LET n  == w.next
      k  == Room(w.srv[f], MsgLen)
      w1 == [w EXCEPT !.next = (n % Modulus) + 1,
                      !.srv[f].due = @ \o Units(n, 0)]
  IN IF k = MsgLen THEN Push(w1, f, Units(n, 0))
     ELSE zebra_server_enqueue(Push(w1, f, SubSeq(Units(n, 0), 1, k)), f, n, k)

zebra_server_send_message(w, f) ==
  LET n  == w.next
      k  == Room(w.srv[f], MsgLen)
      w1 == [w EXCEPT !.next = (n % Modulus) + 1,
                      !.srv[f].due = @ \o Units(n, 0)]
  IN IF w.queue # <<>> THEN zebra_server_enqueue(w1, f, n, 0)
     ELSE IF w.srv[f].eof THEN w
     ELSE IF k = MsgLen THEN Push(w1, f, Units(n, 0))
     ELSE zebra_server_enqueue(Push(w1, f, SubSeq(Units(n, 0), 1, k)), f, n, k)

\* Mutant: the rest of a message that was written in part is not written.
MutNoRest(w) ==
  LET q == Head(w.queue)
      k == Room(w.srv[w.t_write], MsgLen)
      w1 == Push(w, w.t_write, SubSeq(Units(q.n, 0), 1, k))
  IN IF q.written > 0 THEN w
     ELSE IF k < MsgLen THEN [w1 EXCEPT !.queue[1].written = k]
     ELSE [w1 EXCEPT !.queue = Tail(@),
                     !.t_write = IF Len(w.queue) = 1 THEN NoFd ELSE @]

\* The write thread: sock is what it was armed with.
zebra_server_dequeue(w) ==
  LET sock == w.t_write
      q    == Head(w.queue)
      c    == w.srv[sock]
      left == Units(q.n, q.written)
      k    == Room(c, Len(left))
      w1   == [w EXCEPT !.t_write = NoFd]
      w2   == [Push(w1, sock, SubSeq(left, 1, k)) EXCEPT
                 !.queue = IF k = Len(left) THEN Tail(w.queue)
                           ELSE [w.queue EXCEPT ![1].written = q.written + k]]
  IN IF c.state # "open" \/ c.eof THEN w1
     ELSE IF w2.queue = <<>> THEN w2 ELSE THREAD_WRITE_ON(w2, sock)

(***************************************************************************)
(* zebra's handlers                                                        *)
(***************************************************************************)
zebra_accept(f) ==
  /\ alive /\ srv[f].state = "backlog"
  /\ srv' = [srv EXCEPT ![f].state = "open"]
  /\ list' = Append(list, f)
  /\ UNCHANGED <<alive, queue, t_write, next, z>>

\* Takes the first node with that value out of a list.
listnode_delete(s, v) ==
  IF v \notin Members(s) THEN s
  ELSE LET k == CHOOSE i \in DOMAIN s : s[i] = v /\ \A j \in 1 .. i - 1 : s[j] # v
       IN  SubSeq(s, 1, k - 1) \o SubSeq(s, k + 1, Len(s))

\* The global write thread is left alone.
zebra_client_close(f) ==
  /\ srv' = [srv EXCEPT ![f] = Free]
  /\ list' = listnode_delete(list, f)
  /\ z' = [d \in Daemon |-> IF z[d].sock = f THEN [z[d] EXCEPT !.sock = Dead] ELSE z[d]]
  /\ UNCHANGED <<alive, queue, t_write, next>>

ClientRead(f) == alive /\ srv[f].state = "open"

ReadClosed(f) ==
  ClientRead(f) /\ srv[f].in = <<>> /\ srv[f].eof /\ zebra_client_close(f)

\* readn() on a non-blocking socket fails when a part is missing.
ReadSplit(f) ==
  ClientRead(f) /\ MaySplit /\ srv[f].in # <<>> /\ zebra_client_close(f)

\* The answer to a request: one interface, one route of each type.
Dispatch(w, f, r) ==
  IF r.cmd = "INTERFACE_ADD"
  THEN zebra_server_send_message([w EXCEPT !.srv[f].ifinfo = TRUE], f)
  ELSE IF r.cmd = "REDISTRIBUTE_DELETE" THEN [w EXCEPT !.srv[f].redist = @ \ {r.type}]
  ELSE IF r.type \in w.srv[f].redist THEN w
  ELSE zebra_server_send_message([w EXCEPT !.srv[f].redist = @ \cup {r.type}], f)

\* Bound of the model: a daemon reads before it is sent more.
Unread(f) == srv[f].eof \/ Len(srv[f].due) <= DueBound

zebra_client_read(f) ==
  /\ ClientRead(f) /\ srv[f].in # <<>>
  /\ Len(queue) < QueueBound /\ Unread(f)
  /\ Run(Dispatch([World EXCEPT !.srv[f].in = Tail(@)], f, Head(srv[f].in)))
  /\ UNCHANGED <<alive, list, z>>

\* An interface event is sent to a client that wants it, and to each in turn.
TellOne(w, f) == IF w.srv[f].ifinfo THEN zebra_server_send_message(w, f) ELSE w

TellAll(w, l) ==
  LET told[i \in 0 .. Len(l)] == IF i = 0 THEN w ELSE TellOne(told[i - 1], l[i])
  IN told[Len(l)]

zebra_interface_update ==
  /\ alive /\ Len(queue) + Len(list) <= QueueBound
  /\ \E f \in Members(list) : srv[f].ifinfo
  /\ \A f \in Members(list) : Unread(f)
  /\ Run(TellAll(World, list))
  /\ UNCHANGED <<alive, list, z>>

\* select() reports the descriptor writable; one that zebra closes in the same
\* round of handlers still has its write thread run.
Dequeue ==
  /\ alive /\ t_write # NoFd /\ queue # <<>>
  /\ srv[t_write].state = "open" => (srv[t_write].eof \/ Len(srv[t_write].out) < Cap)
  /\ Run(zebra_server_dequeue(World))
  /\ UNCHANGED <<alive, list, z>>

\* zebra ends: its descriptors are closed and its queue is lost.
Exit ==
  /\ alive /\ alive' = FALSE
  /\ srv' = [f \in Fd |-> Free] /\ list' = <<>> /\ queue' = <<>> /\ t_write' = NoFd
  /\ z' = [d \in Daemon |-> IF z[d].sock = NoFd THEN z[d] ELSE [z[d] EXCEPT !.sock = Dead]]
  /\ UNCHANGED next

\* thread_fetch: select() on a closed descriptor fails and the main loop ends.
SelectFails ==
  /\ t_write # NoFd /\ srv[t_write].state # "open"
  /\ Exit

Kill == MayKill /\ Exit

\* The operator restarts zebra.
Restart ==
  /\ ~alive /\ alive' = TRUE
  /\ UNCHANGED <<srv, list, queue, t_write, next, z>>

(***************************************************************************)
(* The daemons                                                             *)
(***************************************************************************)
Request(c, t) == [cmd |-> c, type |-> t]
InterfaceAdd == Request("INTERFACE_ADD", NoFd)

zclient_init == [enable |-> TRUE, sock |-> NoFd, t_connect |-> "event", fail |-> 0, redist |-> {}]

\* ZCLIENT_CONNECT: no retry after ten failures in a row.
Retry(c) ==
  IF c.fail >= MaxFail THEN c
  ELSE [c EXCEPT !.t_connect = IF @ = "none" THEN "timer" ELSE @]

\* Mutant: a new connection asks for the interfaces only.
MutHelloNoRedist(c) == <<InterfaceAdd>>

\* The requests of a new connection: interfaces, then each type asked for.
Hello(c) ==
  LET ts == Order[c.redist]
  IN <<InterfaceAdd>> \o [i \in DOMAIN ts |-> Request("REDISTRIBUTE_ADD", ts[i])]

\* Mutant: no retry is scheduled after a failure.
MutStartOnce(d, c) ==
  IF ~c.enable \/ c.sock # NoFd \/ c.t_connect # "none"
  THEN z' = [z EXCEPT ![d] = c] /\ UNCHANGED srv
  ELSE \/ \E f \in Fd :
            /\ alive /\ srv[f].state = "free"
            /\ srv' = [srv EXCEPT ![f] = [Conn("backlog") EXCEPT !.in = Hello(c)]]
            /\ z' = [z EXCEPT ![d] = [c EXCEPT !.sock = f, !.fail = 0]]
       \/ ~alive /\ z' = [z EXCEPT ![d] = [c EXCEPT !.fail = @ + 1]] /\ UNCHANGED srv

\* c is the zclient at entry, t_connect already cleared by zclient_connect.
zclient_start(d, c) ==
  IF ~c.enable \/ c.sock # NoFd \/ c.t_connect # "none"
  THEN z' = [z EXCEPT ![d] = c] /\ UNCHANGED srv
  ELSE \/ \E f \in Fd :
            /\ alive /\ srv[f].state = "free"
            /\ srv' = [srv EXCEPT ![f] = [Conn("backlog") EXCEPT !.in = Hello(c)]]
            /\ z' = [z EXCEPT ![d] = [c EXCEPT !.sock = f, !.fail = 0]]
       \/ /\ ~alive
          /\ z' = [z EXCEPT ![d] = Retry([c EXCEPT !.fail = @ + 1])]
          /\ UNCHANGED srv

zclient_connect(d) ==
  /\ z[d].t_connect # "none"
  /\ zclient_start(d, [z[d] EXCEPT !.t_connect = "none"])
  /\ UNCHANGED <<alive, list, queue, t_write, next>>

\* Closing the daemon's end of its connection.
Hangup(d) == IF z[d].sock \in Fd THEN [srv EXCEPT ![z[d].sock].eof = TRUE] ELSE srv

zclient_stop(c) == [c EXCEPT !.sock = NoFd, !.t_connect = "none", !.fail = 0]

\* The connection is closed: fail is counted and then cleared by zclient_stop.
ReadEof(d) ==
  /\ z[d].sock = Dead
  /\ z' = [z EXCEPT ![d] = Retry(zclient_stop([z[d] EXCEPT !.fail = @ + 1]))]
  /\ UNCHANGED <<alive, srv, list, queue, t_write, next>>

zclient_read(d) ==
  LET f == z[d].sock
  IN /\ f \in Fd /\ srv[f].out # <<>>
     /\ srv' = [srv EXCEPT ![f].out = Tail(@), ![f].due = IF @ = <<>> THEN @ ELSE Tail(@)]
     /\ UNCHANGED <<alive, list, queue, t_write, next, z>>

Ask(d, r) ==
  IF z[d].sock \in Fd THEN [srv EXCEPT ![z[d].sock].in = Append(@, r)] ELSE srv

MayAsk(d) == z[d].sock \in Fd => Len(srv[z[d].sock].in) < InBound

zclient_redistribute_set(d, t) ==
  /\ t \notin z[d].redist /\ MayAsk(d)
  /\ z' = [z EXCEPT ![d].redist = @ \cup {t}]
  /\ srv' = Ask(d, Request("REDISTRIBUTE_ADD", t))
  /\ UNCHANGED <<alive, list, queue, t_write, next>>

zclient_redistribute_unset(d, t) ==
  /\ t \in z[d].redist /\ MayAsk(d)
  /\ z' = [z EXCEPT ![d].redist = @ \ {t}]
  /\ srv' = Ask(d, Request("REDISTRIBUTE_DELETE", t))
  /\ UNCHANGED <<alive, list, queue, t_write, next>>

no_router_zebra(d) ==
  /\ MayStop /\ z[d].enable
  /\ srv' = Hangup(d)
  /\ z' = [z EXCEPT ![d] = [zclient_stop(@) EXCEPT !.enable = FALSE]]
  /\ UNCHANGED <<alive, list, queue, t_write, next>>

router_zebra(d) ==
  /\ MayStop /\ z[d].fail < FailBound
  /\ zclient_start(d, [z[d] EXCEPT !.enable = TRUE])
  /\ UNCHANGED <<alive, list, queue, t_write, next>>

zclient_reset(d) ==
  /\ MayStop
  /\ srv' = Hangup(d)
  /\ z' = [z EXCEPT ![d] = zclient_init]
  /\ UNCHANGED <<alive, list, queue, t_write, next>>

(***************************************************************************)
(* Specification                                                           *)
(***************************************************************************)
Init ==
  /\ alive = TRUE /\ list = <<>> /\ queue = <<>> /\ t_write = NoFd /\ next = 1
  /\ srv = [f \in Fd |-> Free]
  /\ z = [d \in Daemon |-> zclient_init]

DaemonStep(d) ==
  \/ zclient_connect(d) \/ ReadEof(d) \/ zclient_read(d)
  \/ no_router_zebra(d) \/ router_zebra(d) \/ zclient_reset(d)
  \/ \E t \in Type : zclient_redistribute_set(d, t) \/ zclient_redistribute_unset(d, t)

ServerStep(f) ==
  zebra_accept(f) \/ ReadClosed(f) \/ ReadSplit(f) \/ zebra_client_read(f)

Next ==
  \/ \E d \in Daemon : DaemonStep(d)
  \/ \E f \in Fd : ServerStep(f)
  \/ zebra_interface_update \/ Dequeue \/ SelectFails \/ Kill \/ Restart

Spec == Init /\ [][Next]_vars

\* zebra runs its threads, the daemons theirs.
Fairness ==
  /\ WF_vars(Dequeue)
  /\ \A f \in Fd : WF_vars(zebra_accept(f)) /\ WF_vars(ReadClosed(f))
                   /\ WF_vars(zebra_client_read(f))
  /\ \A d \in Daemon : WF_vars(zclient_connect(d)) /\ WF_vars(ReadEof(d))
                       /\ WF_vars(zclient_read(d))

FairSpec == Spec /\ Fairness

(***************************************************************************)
(* Properties                                                              *)
(***************************************************************************)
Unit == Numbers \X (1 .. MsgLen)
Message == [to : Fd, n : Numbers, written : 0 .. MsgLen - 1]
Requests == [cmd : {"REDISTRIBUTE_ADD", "REDISTRIBUTE_DELETE"}, type : Type] \cup {InterfaceAdd}

ConnType ==
  [state : {"free", "backlog", "open"}, in : Seq(Requests),
   eof : BOOLEAN, ifinfo : BOOLEAN, redist : SUBSET Type,
   out : Seq(Unit), due : Seq(Unit)]

ClientType ==
  [enable : BOOLEAN, sock : Fd \cup {NoFd, Dead}, t_connect : {"none", "event", "timer"},
   fail : 0 .. FailBound, redist : SUBSET Type]

\* Every variable stays within its type; the socket buffer within its size.
TypeOK ==
  /\ alive \in BOOLEAN /\ srv \in [Fd -> ConnType] /\ list \in Seq(Fd)
  /\ queue \in Seq(Message)
  /\ t_write \in Fd \cup {NoFd} /\ next \in Numbers
  /\ z \in [Daemon -> ClientType]
  /\ \A f \in Fd : Len(srv[f].out) <= Cap

\* What the queue q still holds for the connection f.
Rest(m, f) == IF m.to = f THEN Units(m.n, m.written) ELSE <<>>

Queued(q, f) ==
  LET upto[i \in 0 .. Len(q)] == IF i = 0 THEN <<>> ELSE upto[i - 1] \o Rest(q[i], f)
  IN upto[Len(q)]

\* A client is sent its own messages, whole and in order: what it has yet to
\* read is what its socket buffer holds and then what the queue holds for it,
\* whatever write() accepted of each (zebra_server_send_message and _dequeue).
InOrder ==
  \A f \in Fd : srv[f].state = "open" => srv[f].due = srv[f].out \o Queued(queue, f)

\* A message waiting in the queue has a write thread that will send it.
QueueServed == queue # <<>> => t_write # NoFd

\* A message that had to be queued leaves the queue.
QueueDrains ==
  \A n \in Numbers : (\E q \in Members(queue) : q.n = n) ~> (\A q \in Members(queue) : q.n # n)

\* The types a client has asked for once zebra has read what is on its way.
Applied(c) ==
  {t \in Type :
     \/ /\ t \in c.redist
        /\ \A i \in DOMAIN c.in : c.in[i] # Request("REDISTRIBUTE_DELETE", t)
     \/ \E i \in DOMAIN c.in :
          /\ c.in[i] = Request("REDISTRIBUTE_ADD", t)
          /\ \A j \in DOMAIN c.in : j > i => c.in[j] # Request("REDISTRIBUTE_DELETE", t)}

\* The redistribution zebra has on record for a daemon is the one the daemon
\* is configured for, through lost connections, restarts and changes made
\* while there was no connection (zclient_start flushes all requests).
Subscribed ==
  \A d \in Daemon : z[d].sock \in Fd => Applied(srv[z[d].sock]) = z[d].redist

\* No two daemons share a connection, and zebra's client_list is exactly the
\* descriptors it has accepted and not closed.
ClientListExact ==
  /\ \A d, e \in Daemon : z[d].sock \in Fd /\ z[d].sock = z[e].sock => d = e
  /\ \A d \in Daemon : z[d].sock \in Fd =>
       srv[z[d].sock].state # "free" /\ ~srv[z[d].sock].eof
  /\ {f \in Fd : srv[f].state = "open"} = Members(list)
  /\ \A i, j \in DOMAIN list : list[i] = list[j] => i = j

\* An enabled daemon is connected or has a connection attempt scheduled, never
\* both, unless it gave up after ten failures.
ConnectPending ==
  \A d \in Daemon :
    /\ z[d].t_connect # "none" => z[d].sock = NoFd
    /\ z[d].enable /\ z[d].sock = NoFd /\ z[d].t_connect = "none" => z[d].fail >= MaxFail

\* A daemon whose connection is lost gets a new one, once zebra stays up and
\* the queue below the bound at which zebra reads no more requests here, unless
\* it is disabled or has given up (zclient_event, ZCLIENT_CONNECT).
Reconnects ==
  \A d \in Daemon :
    <>[](alive /\ Len(queue) < QueueBound) =>
      (z[d].sock \notin Fd ~> z[d].sock \in Fd \/ ~z[d].enable \/ z[d].fail >= MaxFail)
=============================================================================
