--------------------------- MODULE ZebraServProofs ---------------------------
(* What the operations of ZebraServ do to zebra's connections, message queue  *)
(* and write thread, for every number of daemons, descriptors and route types *)
(* and every size of the buffers: the lemmas ZebraServInvariants rests on.    *)
EXTENDS ZebraServ, TLAPS, WellFoundedInduction

(* The prover of every step that does not name another one.                   *)
USE ZenonT(60)

(* What one handler of zebra works on, and socket buffers within their size.  *)
WorldType ==
  [srv : [Fd -> ConnType], queue : Seq(Message), t_write : Fd \cup {NoFd}, next : Numbers]
Small(s) == \A f \in Fd : Len(s[f].out) <= Cap

(* Sequences: what concatenation, Append, Tail and SubSeq return.             *)
LEMMA SeqEqual ==
  ASSUME NEW S, NEW s \in Seq(S), NEW t \in Seq(S),
         Len(s) = Len(t), \A i \in 1 .. Len(s) : s[i] = t[i]
  PROVE  s = t
BY SMTT(120)

LEMMA ConcatProperties ==
  ASSUME NEW S, NEW s \in Seq(S), NEW t \in Seq(S)
  PROVE  /\ s \o t \in Seq(S)
         /\ Len(s \o t) = Len(s) + Len(t)
         /\ \A i \in 1 .. Len(s) + Len(t) :
              (s \o t)[i] = IF i <= Len(s) THEN s[i] ELSE t[i - Len(s)]
BY SMTT(120)

LEMMA ConcatEmptySeq ==
  ASSUME NEW S, NEW s \in Seq(S)
  PROVE  s \o <<>> = s /\ <<>> \o s = s
BY SMTT(120)

LEMMA ConcatAssociative ==
  ASSUME NEW S, NEW s \in Seq(S), NEW t \in Seq(S), NEW u \in Seq(S)
  PROVE  (s \o t) \o u = s \o (t \o u)
BY SMTT(120)

LEMMA AppendProperties ==
  ASSUME NEW S, NEW s \in Seq(S), NEW x \in S
  PROVE  Append(s, x) \in Seq(S) /\ Len(Append(s, x)) = Len(s) + 1 /\ Len(s) \in Nat
BY SMTT(120)

LEMMA HeadTailProperties ==
  ASSUME NEW S, NEW s \in Seq(S), s # <<>>
  PROVE  Head(s) \in S /\ Tail(s) \in Seq(S)
BY SMTT(120)

LEMMA SubSeqProperties ==
  ASSUME NEW S, NEW s, NEW m \in Int, NEW n \in Int, \A i \in m .. n : s[i] \in S
  PROVE  /\ SubSeq(s, m, n) \in Seq(S)
         /\ Len(SubSeq(s, m, n)) = IF m <= n THEN n - m + 1 ELSE 0
         /\ \A i \in 1 .. n - m + 1 : SubSeq(s, m, n)[i] = s[m + i - 1]
BY SMTT(120)

LEMMA ExceptSeq ==
  ASSUME NEW S, NEW s \in Seq(S), NEW i \in 1 .. Len(s), NEW e \in S
  PROVE  [s EXCEPT ![i] = e] \in Seq(S)
BY SMTT(120)

LEMMA EmptySeq ==
  ASSUME NEW S, NEW s \in Seq(S), Len(s) = 0
  PROVE  s = <<>>
BY SMTT(120)

(* A nonempty set of naturals has a least element.                            *)
LEMMA NatMin ==
  ASSUME NEW T \in SUBSET Nat, T # {}
  PROVE  \E x \in T : \A y \in T : x <= y
<1> DEFINE R == OpToRel(<, Nat)
<1>1. IsWellFoundedOn(R, Nat)
  BY NatLessThanWellFounded
<1>2. \A x, y \in Nat : x < y => <<x, y>> \in R
  BY DEF OpToRel
<1> HIDE DEF R
<1>3. PICK x \in T : \A y \in T : ~(<<y, x>> \in R)
  BY <1>1, WFMin
<1>4. ASSUME NEW y \in T PROVE x <= y
  <2>1. x \in Nat /\ y \in Nat
    OBVIOUS
  <2>2. ~(y < x)
    BY <1>2, <1>3, <2>1
  <2> QED BY SMTT(120), <2>1, <2>2
<1> QED BY <1>4

(* The number of a message stays within its range.                            *)
LEMMA NextNumber ==
  ASSUME NEW n \in Numbers
  PROVE  (n % Modulus) + 1 \in Numbers
<1>1. Cap + QueueBound \in Nat \ {0}
  BY SMTT(120), ServAssumption
<1> QED BY SMTT(120), <1>1 DEF Numbers, Modulus

(* The units of a message from a place on.                                    *)
LEMMA UnitsType ==
  ASSUME NEW n \in Numbers, NEW k \in 0 .. MsgLen
  PROVE  /\ Units(n, k) \in Seq(Unit)
         /\ Len(Units(n, k)) = MsgLen - k
         /\ \A i \in 1 .. MsgLen - k : Units(n, k)[i] = <<n, k + i>>
<1> DEFINE u == [i \in 1 .. MsgLen - k |-> <<n, k + i>>]
<1>1. u \in Seq(Unit) /\ Len(u) = MsgLen - k
  BY SMTT(120) DEF Unit, MsgLen
<1>2. Units(n, k) = <<>> \o u
  BY DEF Units
<1>3. Units(n, k) = u
  BY <1>1, <1>2, ConcatEmptySeq
<1>4. \A i \in 1 .. MsgLen - k : u[i] = <<n, k + i>>
  OBVIOUS
<1> HIDE DEF u
<1> QED BY <1>1, <1>3, <1>4

(* A message is what was written of it and then the rest.                     *)
LEMMA UnitsSplit ==
  ASSUME NEW n \in Numbers, NEW j \in 0 .. MsgLen, NEW k \in 0 .. MsgLen - j
  PROVE  /\ SubSeq(Units(n, j), 1, k) \in Seq(Unit)
         /\ Len(SubSeq(Units(n, j), 1, k)) = k
         /\ Units(n, j) = SubSeq(Units(n, j), 1, k) \o Units(n, j + k)
<1>1. MsgLen = 2 /\ j \in Nat /\ k \in Nat /\ j + k \in 0 .. MsgLen
  BY SMTT(120) DEF MsgLen
<1> DEFINE u == Units(n, j)
           s == SubSeq(u, 1, k)
           r == Units(n, j + k)
<1>2. /\ u \in Seq(Unit) /\ Len(u) = 2 - j
      /\ \A i \in 1 .. 2 - j : u[i] = <<n, j + i>>
  <2>1. u \in Seq(Unit) /\ Len(u) = MsgLen - j /\ \A i \in 1 .. MsgLen - j : u[i] = <<n, j + i>>
    BY UnitsType
  <2> QED BY <2>1, <1>1
<1>3. /\ r \in Seq(Unit) /\ Len(r) = 2 - (j + k)
      /\ \A i \in 1 .. 2 - (j + k) : r[i] = <<n, j + k + i>>
  <2>1. /\ r \in Seq(Unit) /\ Len(r) = MsgLen - (j + k)
        /\ \A i \in 1 .. MsgLen - (j + k) : r[i] = <<n, j + k + i>>
    BY <1>1, UnitsType
  <2> QED BY <2>1, <1>1
<1> HIDE DEF u, r
<1>4. \A i \in 1 .. k : u[i] \in Unit
  BY SMTT(120), <1>1, <1>2
<1>5. /\ s \in Seq(Unit) /\ Len(s) = k
      /\ \A i \in 1 .. k : s[i] = u[i]
  BY SMTT(120), <1>1, <1>2
<1> HIDE DEF s
<1>6. /\ s \o r \in Seq(Unit) /\ Len(s \o r) = k + Len(r)
      /\ \A i \in 1 .. k + Len(r) : (s \o r)[i] = IF i <= k THEN s[i] ELSE r[i - k]
  BY SMTT(120), <1>1, <1>3, <1>5, ConcatProperties
<1>7. Len(u) = Len(s \o r)
  BY SMTT(120), <1>1, <1>2, <1>3, <1>6
<1>8. \A i \in 1 .. Len(u) : u[i] = (s \o r)[i]
  <2> TAKE i \in 1 .. Len(u)
  <2>1. CASE i <= k
    <3>1. i \in 1 .. k /\ i \in 1 .. k + Len(r)
      BY SMTT(120), <2>1, <1>1, <1>2, <1>3
    <3>2. s[i] = u[i]
      BY <3>1, <1>5
    <3>3. (s \o r)[i] = s[i]
      BY <3>1, <2>1, <1>6
    <3> QED BY <3>2, <3>3
  <2>2. CASE i > k
    <3>1. i - k \in 1 .. 2 - (j + k) /\ r[i - k] = <<n, j + k + (i - k)>> /\ (s \o r)[i] = r[i - k]
      BY SMTT(120), <2>2, <1>1, <1>2, <1>3, <1>6
    <3>2. j + k + (i - k) = j + i
      BY SMTT(120), <1>1, <1>2
    <3>3. u[i] = <<n, j + i>>
      BY <1>2
    <3> QED BY <3>1, <3>2, <3>3
  <2>3. i <= k \/ i > k
    BY SMTT(120), <1>1, <1>2
  <2> QED BY <2>1, <2>2, <2>3
<1>9. u = s \o r
  BY <1>2, <1>6, <1>7, <1>8, SeqEqual
<1> QED BY <1>5, <1>9 DEF u, s, r
(* A connection with another buffer and account is a connection.              *)
LEMMA ConnWith ==
  ASSUME NEW c \in ConnType, NEW us \in Seq(Unit)
  PROVE  /\ c.out \o us \in Seq(Unit) /\ c.due \o us \in Seq(Unit)
         /\ [c EXCEPT !.out = @ \o us] \in ConnType
         /\ [c EXCEPT !.due = @ \o us] \in ConnType
<1>1. c.out \in Seq(Unit) /\ c.due \in Seq(Unit)
  BY DEF ConnType
<1> DEFINE o == c.out \o us
           d == c.due \o us
<1>2. o \in Seq(Unit) /\ d \in Seq(Unit)
  BY <1>1, ConcatProperties
<1> HIDE DEF o, d
<1>3. [c EXCEPT !.out = o] \in ConnType /\ [c EXCEPT !.due = d] \in ConnType
  BY <1>2 DEF ConnType
<1> QED BY <1>2, <1>3 DEF o, d

(* The connections s with another buffer and account for f.                   *)
Buf(s, f, o, d) == [s EXCEPT ![f] = [s[f] EXCEPT !.out = o, !.due = d]]

(* What Buf changes.                                                          *)
LEMMA BufFacts ==
  ASSUME NEW s \in [Fd -> ConnType], NEW f \in Fd, NEW o \in Seq(Unit), NEW d \in Seq(Unit)
  PROVE  /\ Buf(s, f, o, d) \in [Fd -> ConnType]
         /\ Buf(s, f, o, d)[f].out = o /\ Buf(s, f, o, d)[f].due = d
         /\ Buf(s, f, o, d)[f].state = s[f].state /\ Buf(s, f, o, d)[f].in = s[f].in
         /\ Buf(s, f, o, d)[f].eof = s[f].eof /\ Buf(s, f, o, d)[f].ifinfo = s[f].ifinfo
         /\ Buf(s, f, o, d)[f].redist = s[f].redist
         /\ \A g \in Fd \ {f} : Buf(s, f, o, d)[g] = s[g]
<1> DEFINE c == [s[f] EXCEPT !.out = o, !.due = d]
<1>1. s[f] \in ConnType
  OBVIOUS
<1>2. /\ c \in ConnType /\ c.out = o /\ c.due = d
      /\ c.state = s[f].state /\ c.in = s[f].in /\ c.eof = s[f].eof
      /\ c.ifinfo = s[f].ifinfo /\ c.redist = s[f].redist
  BY <1>1 DEF ConnType
<1>3. Buf(s, f, o, d) = [s EXCEPT ![f] = c]
  BY DEF Buf
<1> HIDE DEF c
<1>4. /\ [s EXCEPT ![f] = c] \in [Fd -> ConnType]
      /\ [s EXCEPT ![f] = c][f] = c
      /\ \A g \in Fd \ {f} : [s EXCEPT ![f] = c][g] = s[g]
  BY <1>2
<1> QED BY <1>2, <1>3, <1>4

(* Changing buffer and account twice.                                         *)
LEMMA BufTwice ==
  ASSUME NEW s \in [Fd -> ConnType], NEW f \in Fd, NEW o, NEW d, NEW o2, NEW d2
  PROVE  Buf(Buf(s, f, o, d), f, o2, d2) = Buf(s, f, o2, d2)
BY DEF Buf, ConnType

(* Changing nothing.                                                          *)
LEMMA BufSame ==
  ASSUME NEW s \in [Fd -> ConnType], NEW f \in Fd
  PROVE  Buf(s, f, s[f].out, s[f].due) = s
BY DEF Buf, ConnType

Count(w, f, us, n) == [w EXCEPT !.next = n, !.srv[f].due = @ \o us]

(* Accounting for a message.                                                  *)
LEMMA Counted ==
  ASSUME NEW w \in WorldType, NEW f \in Fd, NEW us \in Seq(Unit), NEW n \in Numbers
  PROVE  /\ Count(w, f, us, n) \in WorldType
         /\ Count(w, f, us, n).queue = w.queue /\ Count(w, f, us, n).t_write = w.t_write
         /\ Count(w, f, us, n).next = n
         /\ Count(w, f, us, n).srv = Buf(w.srv, f, w.srv[f].out, w.srv[f].due \o us)
<1> DEFINE s == Buf(w.srv, f, w.srv[f].out, w.srv[f].due \o us)
<1>1. w.srv \in [Fd -> ConnType] /\ w.srv[f] \in ConnType
  BY DEF WorldType
<1>2. w.srv[f].out \in Seq(Unit) /\ w.srv[f].due \o us \in Seq(Unit)
  BY <1>1, ConnWith DEF ConnType
<1>3. s \in [Fd -> ConnType]
  BY <1>1, <1>2, BufFacts
<1>4. Count(w, f, us, n) = [w EXCEPT !.next = n, !.srv = s]
  BY <1>1 DEF s, WorldType, Count, Buf, ConnType
<1> HIDE DEF s
<1>5. [w EXCEPT !.next = n, !.srv = s] \in WorldType
  BY <1>3 DEF WorldType
<1>6. LET v == [w EXCEPT !.next = n, !.srv = s]
      IN v.queue = w.queue /\ v.t_write = w.t_write /\ v.next = n /\ v.srv = s
  BY DEF WorldType
<1> QED BY <1>4, <1>5, <1>6 DEF s

(* Writing to a socket buffer.                                                *)
LEMMA Pushed ==
  ASSUME NEW w \in WorldType, NEW f \in Fd, NEW us \in Seq(Unit)
  PROVE  /\ Push(w, f, us) \in WorldType
         /\ Push(w, f, us).queue = w.queue /\ Push(w, f, us).t_write = w.t_write
         /\ Push(w, f, us).next = w.next
         /\ Push(w, f, us).srv = Buf(w.srv, f, w.srv[f].out \o us, w.srv[f].due)
<1> DEFINE s == Buf(w.srv, f, w.srv[f].out \o us, w.srv[f].due)
<1>1. w.srv \in [Fd -> ConnType] /\ w.srv[f] \in ConnType
  BY DEF WorldType
<1>2. w.srv[f].due \in Seq(Unit) /\ w.srv[f].out \o us \in Seq(Unit)
  BY <1>1, ConnWith DEF ConnType
<1>3. s \in [Fd -> ConnType]
  BY <1>1, <1>2, BufFacts
<1>4. Push(w, f, us) = [w EXCEPT !.srv = s]
  BY <1>1 DEF s, WorldType, Push, Buf, ConnType
<1> HIDE DEF s
<1>5. [w EXCEPT !.srv = s] \in WorldType
  BY <1>3 DEF WorldType
<1>6. LET v == [w EXCEPT !.srv = s]
      IN v.queue = w.queue /\ v.t_write = w.t_write /\ v.next = w.next /\ v.srv = s
  BY DEF WorldType
<1> QED BY <1>4, <1>5, <1>6 DEF s

Armed(w, f) == IF w.t_write = NoFd THEN f ELSE w.t_write

Entry(f, n, k) == [to |-> f, n |-> n, written |-> k]

(* Queueing the rest of a message.                                            *)
LEMMA Enqueued ==
  ASSUME NEW w \in WorldType, NEW f \in Fd, NEW n \in Numbers, NEW k \in 0 .. MsgLen - 1
  PROVE  /\ zebra_server_enqueue(w, f, n, k) \in WorldType
         /\ zebra_server_enqueue(w, f, n, k).queue = Append(w.queue, Entry(f, n, k))
         /\ zebra_server_enqueue(w, f, n, k).t_write = Armed(w, f)
         /\ zebra_server_enqueue(w, f, n, k).srv = w.srv
<1> DEFINE q == Append(w.queue, Entry(f, n, k))
           t == Armed(w, f)
           w1 == [w EXCEPT !.queue = q]
           v == [w1 EXCEPT !.t_write = t]
<1>1. Entry(f, n, k) \in Message
  BY DEF Entry, Message
<1>2. q \in Seq(Message) /\ t \in Fd \cup {NoFd}
  BY SMTT(120), <1>1 DEF WorldType, Armed
<1>3. w1 = [w EXCEPT !.queue = Append(@, [to |-> f, n |-> n, written |-> k])]
  BY DEF Entry
<1> HIDE DEF q
<1>4. /\ w1 \in WorldType
      /\ w1.queue = q /\ w1.t_write = w.t_write /\ w1.next = w.next /\ w1.srv = w.srv
  BY <1>2 DEF WorldType
<1> HIDE DEF w1
<1>5. zebra_server_enqueue(w, f, n, k) = v
  BY <1>3, <1>4 DEF zebra_server_enqueue, THREAD_WRITE_ON, Armed
<1> HIDE DEF t
<1>6. /\ v \in WorldType
      /\ v.queue = w1.queue /\ v.t_write = t /\ v.srv = w1.srv
  BY <1>2, <1>4 DEF WorldType
<1> HIDE DEF v
<1> QED BY <1>4, <1>5, <1>6 DEF q, t
(* Sending to f leaves f with the buffer o, the queue q and the write thread  *)
(* of t, and accounts for the message.                                        *)
Sends(w, f, o, q, t) ==
  /\ zebra_server_send_message(w, f) \in WorldType
  /\ zebra_server_send_message(w, f).srv
     = Buf(w.srv, f, o, w.srv[f].due \o Units(w.next, 0))
  /\ zebra_server_send_message(w, f).queue = q
  /\ zebra_server_send_message(w, f).t_write = t

(* The room a socket buffer leaves for a message.                             *)
LEMMA RoomFacts ==
  ASSUME NEW c \in ConnType, Len(c.out) <= Cap, NEW k \in 0 .. MsgLen
  PROVE  Room(c, k) \in 0 .. k /\ Room(c, k) <= Cap - Len(c.out)
<1> DEFINE l == Len(c.out)
<1>1. c.out \in Seq(Unit)
  BY DEF ConnType
<1>2. l \in Nat /\ l <= Cap /\ Cap \in Nat /\ k \in Nat
  BY SMTT(120), <1>1, ServAssumption DEF MsgLen
<1>3. Room(c, k) = IF Cap - l < k THEN Cap - l ELSE k
  BY DEF Room
<1> HIDE DEF l
<1>4. Room(c, k) \in 0 .. k /\ Room(c, k) <= Cap - l
  BY SMTT(120), <1>2, <1>3
<1> QED BY <1>4 DEF l

(* The four outcomes of sending a message.                                    *)
LEMMA SendCases ==
  ASSUME NEW w \in WorldType, Small(w.srv), NEW f \in Fd
  PROVE  LET c == w.srv[f]
             n == w.next
             k == Room(c, MsgLen)
         IN /\ k \in 0 .. MsgLen /\ k <= Cap - Len(c.out)
            /\ \/ /\ w.queue # <<>>
                  /\ Sends(w, f, c.out, Append(w.queue, Entry(f, n, 0)), Armed(w, f))
               \/ w.queue = <<>> /\ c.eof /\ zebra_server_send_message(w, f) = w
               \/ /\ w.queue = <<>> /\ ~c.eof /\ k = MsgLen
                  /\ Sends(w, f, c.out \o Units(n, 0), w.queue, w.t_write)
               \/ /\ w.queue = <<>> /\ ~c.eof /\ k # MsgLen
                  /\ Sends(w, f, c.out \o SubSeq(Units(n, 0), 1, k),
                           Append(w.queue, Entry(f, n, k)), Armed(w, f))
<1> DEFINE c == w.srv[f]
           n == w.next
           k == Room(c, MsgLen)
           u == Units(n, 0)
           part == SubSeq(u, 1, k)
           nx == (n % Modulus) + 1
           w1 == Count(w, f, u, nx)
           v == zebra_server_send_message(w, f)
<1>1. w.srv \in [Fd -> ConnType] /\ c \in ConnType /\ n \in Numbers /\ Len(c.out) <= Cap
  <2>1. w.srv \in [Fd -> ConnType] /\ n \in Numbers
    BY DEF WorldType
  <2> QED BY <2>1 DEF Small
<1>2. MsgLen = 2 /\ k \in 0 .. MsgLen /\ k <= Cap - Len(c.out)
  <2>1. MsgLen = 2 /\ MsgLen \in 0 .. MsgLen
    BY SMTT(120) DEF MsgLen
  <2> QED BY <1>1, <2>1, RoomFacts
<1>3. nx \in Numbers
  BY <1>1, NextNumber
<1>4. u \in Seq(Unit)
  <2>1. 0 \in 0 .. MsgLen
    BY SMTT(120), <1>2
  <2> QED BY <1>1, <2>1, UnitsType
<1>5. part \in Seq(Unit)
  <2>1. 0 \in 0 .. MsgLen /\ k \in 0 .. MsgLen - 0
    BY SMTT(120), <1>2
  <2> QED BY <1>1, <2>1, UnitsSplit
<1>10. v = IF w.queue # <<>> THEN zebra_server_enqueue(w1, f, n, 0)
           ELSE IF c.eof THEN w
           ELSE IF k = MsgLen THEN Push(w1, f, u)
           ELSE zebra_server_enqueue(Push(w1, f, part), f, n, k)
  BY SMT DEF zebra_server_send_message, Count
<1> HIDE DEF u, part, nx, n, k
<1>6. /\ w1 \in WorldType
      /\ w1.queue = w.queue /\ w1.t_write = w.t_write
      /\ w1.srv = Buf(w.srv, f, c.out, c.due \o u)
  BY <1>3, <1>4, Counted
<1> HIDE DEF w1
<1>7. /\ w1.srv[f].out = c.out /\ w1.srv[f].due = c.due \o u
      /\ \A x, d : Buf(w1.srv, f, x, d) = Buf(w.srv, f, x, d)
      /\ Armed(w1, f) = Armed(w, f)
  <2>1. c.out \in Seq(Unit) /\ c.due \o u \in Seq(Unit)
    BY <1>1, <1>4, ConnWith DEF ConnType
  <2> DEFINE s == w.srv
             o == c.out
             d0 == c.due \o u
  <2>2. s \in [Fd -> ConnType] /\ o \in Seq(Unit) /\ d0 \in Seq(Unit)
    BY <1>1, <2>1
  <2> HIDE DEF s, o, d0
  <2>3. Buf(s, f, o, d0)[f].out = o /\ Buf(s, f, o, d0)[f].due = d0
    BY SMTT(120), <2>2, BufFacts
  <2>4. \A x, d : Buf(Buf(s, f, o, d0), f, x, d) = Buf(s, f, x, d)
    BY SMTT(120), <2>2, BufTwice
  <2>5. w1.srv = Buf(s, f, o, d0)
    BY <1>6 DEF s, o, d0
  <2>6. Armed(w1, f) = Armed(w, f)
    BY <1>6 DEF Armed
  <2> QED BY <2>3, <2>4, <2>5, <2>6 DEF s, o, d0
<1> HIDE DEF c, v
<1>9. 0 \in 0 .. MsgLen - 1 /\ (k # MsgLen => k \in 0 .. MsgLen - 1)
  BY SMTT(120), <1>2
<1>11. CASE w.queue # <<>>
  <2>1. v = zebra_server_enqueue(w1, f, n, 0)
    BY <1>10, <1>11
  <2>2. /\ zebra_server_enqueue(w1, f, n, 0) \in WorldType
        /\ zebra_server_enqueue(w1, f, n, 0).queue = Append(w1.queue, Entry(f, n, 0))
        /\ zebra_server_enqueue(w1, f, n, 0).t_write = Armed(w1, f)
        /\ zebra_server_enqueue(w1, f, n, 0).srv = w1.srv
    BY <1>1, <1>6, <1>9, Enqueued
  <2>3. Sends(w, f, c.out, Append(w.queue, Entry(f, n, 0)), Armed(w, f))
    BY <2>1, <2>2, <1>6, <1>7 DEF Sends, u, v, n, c
  <2> QED BY <2>3, <1>2, <1>11 DEF c, n, k
<1>12. CASE w.queue = <<>> /\ c.eof
  BY <1>12, <1>2, <1>10 DEF c, n, k, v
<1>13. CASE w.queue = <<>> /\ ~c.eof /\ k = MsgLen
  <2>1. v = Push(w1, f, u)
    BY <1>10, <1>13
  <2>2. /\ Push(w1, f, u) \in WorldType
        /\ Push(w1, f, u).queue = w1.queue /\ Push(w1, f, u).t_write = w1.t_write
        /\ Push(w1, f, u).srv = Buf(w1.srv, f, w1.srv[f].out \o u, w1.srv[f].due)
    BY <1>4, <1>6, Pushed
  <2>3. Push(w1, f, u).srv = Buf(w.srv, f, c.out \o u, c.due \o u)
    BY <2>2, <1>7
  <2>4. Sends(w, f, c.out \o u, w.queue, w.t_write)
    BY <2>1, <2>2, <2>3, <1>6 DEF Sends, u, v, n, c
  <2> QED BY <2>4, <1>2, <1>13 DEF c, n, k, u
<1>14. CASE w.queue = <<>> /\ ~c.eof /\ k # MsgLen
  <2> DEFINE p == Push(w1, f, part)
  <2>1. /\ p \in WorldType
        /\ p.queue = w1.queue /\ p.t_write = w1.t_write
        /\ p.srv = Buf(w1.srv, f, w1.srv[f].out \o part, w1.srv[f].due)
    BY <1>5, <1>6, Pushed
  <2>2. v = zebra_server_enqueue(p, f, n, k)
    BY <1>10, <1>14
  <2> HIDE DEF p
  <2>3. /\ zebra_server_enqueue(p, f, n, k) \in WorldType
        /\ zebra_server_enqueue(p, f, n, k).queue = Append(p.queue, Entry(f, n, k))
        /\ zebra_server_enqueue(p, f, n, k).t_write = Armed(p, f)
        /\ zebra_server_enqueue(p, f, n, k).srv = p.srv
    BY <2>1, <1>1, <1>9, <1>14, Enqueued
  <2>4. p.srv = Buf(w.srv, f, c.out \o part, c.due \o u) /\ Armed(p, f) = Armed(w, f)
    BY <2>1, <1>6, <1>7 DEF Armed
  <2>5. Sends(w, f, c.out \o part, Append(w.queue, Entry(f, n, k)), Armed(w, f))
    BY <2>1, <2>2, <2>3, <2>4, <1>6 DEF Sends, u, v, n, c
  <2> QED BY <2>5, <1>2, <1>14 DEF c, n, k, u, part
<1> QED BY <1>11, <1>12, <1>13, <1>14 DEF c, n, k

(* G gives what the first i messages of q hold for f.                         *)
Flat(G, q, f) == G = [i \in 0 .. Len(q) |-> IF i = 0 THEN <<>> ELSE G[i - 1] \o Rest(q[i], f)]

(* The rest of a message is a sequence of units.                              *)
LEMMA RestType ==
  ASSUME NEW m \in Message, NEW f
  PROVE  Rest(m, f) \in Seq(Unit)
<1>1. m.n \in Numbers /\ m.written \in 0 .. MsgLen
  BY SMTT(120) DEF Message, MsgLen
<1>2. Units(m.n, m.written) \in Seq(Unit)
  BY <1>1, UnitsType
<1> QED BY SMTT(120), <1>2 DEF Rest

(* There is such a function.                                                  *)
LEMMA FlatExists ==
  ASSUME NEW q \in Seq(Message), NEW f
  PROVE  \E G : Flat(G, q, f) /\ \A i \in 0 .. Len(q) : G[i] \in Seq(Unit)
<1> DEFINE Upto(m, G) == /\ G \in [0 .. m -> Seq(Unit)] /\ G[0] = <<>>
                         /\ \A i \in 1 .. m : G[i] = G[i - 1] \o Rest(q[i], f)
           T == {m \in 0 .. Len(q) : ~ \E G : Upto(m, G)}
<1>1. Len(q) \in Nat /\ \A i \in 1 .. Len(q) : q[i] \in Message
  BY SMTT(120)
<1>2. \A i \in 1 .. Len(q) : Rest(q[i], f) \in Seq(Unit)
  BY <1>1, RestType
<1>3. T = {}
  <2> SUFFICES ASSUME T # {} PROVE FALSE
    OBVIOUS
  <2>1. T \in SUBSET Nat
    <3>1. \A i \in 0 .. Len(q) : i \in Nat
      BY SMTT(120), <1>1
    <3> QED BY <3>1
  <2> HIDE DEF T
  <2>2. PICK m \in T : \A y \in T : m <= y
    BY <2>1, NatMin
  <2> USE DEF T
  <2>3. m \in 0 .. Len(q) /\ ~ \E G : Upto(m, G)
    OBVIOUS
  <2>4. CASE m = 0
    <3> DEFINE G == [i \in 0 .. 0 |-> <<>>]
    <3>1. G \in [0 .. 0 -> Seq(Unit)] /\ G[0] = <<>> /\ \A i \in 1 .. 0 : FALSE
      BY SMTT(120)
    <3> HIDE DEF G
    <3>2. Upto(0, G)
      BY <3>1
    <3> QED BY <2>3, <2>4, <3>2
  <2>5. CASE m # 0
    <3>1. m - 1 \in 0 .. Len(q) /\ m \in 1 .. Len(q) /\ m \in Nat /\ ~(m <= m - 1)
      BY SMTT(120), <2>3, <2>5, <1>1
    <3>2. m - 1 \notin T
      BY <2>2, <3>1
    <3>3. PICK G : Upto(m - 1, G)
      BY <3>1, <3>2
    <3> DEFINE x == G[m - 1] \o Rest(q[m], f)
               H == [i \in 0 .. m |-> IF i = m THEN x ELSE G[i]]
    <3>4. G \in [0 .. m - 1 -> Seq(Unit)] /\ G[0] = <<>>
      BY <3>3
    <3>5. x \in Seq(Unit)
      <4>1. G[m - 1] \in Seq(Unit) /\ Rest(q[m], f) \in Seq(Unit)
        BY SMTT(120), <3>1, <3>4, <1>2
      <4> QED BY <4>1, ConcatProperties
    <3>6. H[m] = x /\ (\A i \in 0 .. m - 1 : H[i] = G[i]) /\ H \in [0 .. m -> Seq(Unit)]
      BY SMTT(120), <3>1, <3>4, <3>5
    <3>7. \A i \in 1 .. m : H[i] = H[i - 1] \o Rest(q[i], f)
      <4> TAKE i \in 1 .. m
      <4>1. CASE i = m
        <5>1. m - 1 \in 0 .. m - 1
          BY SMTT(120), <3>1
        <5>2. H[m - 1] = G[m - 1] /\ H[m] = x
          BY <5>1, <3>6
        <5> QED BY <4>1, <5>2
      <4>2. CASE i # m
        <5>1. i \in 1 .. m - 1 /\ i \in 0 .. m - 1 /\ i - 1 \in 0 .. m - 1
          BY SMTT(120), <4>2, <3>1
        <5>2. H[i] = G[i] /\ H[i - 1] = G[i - 1]
          BY <5>1, <3>6
        <5>3. G[i] = G[i - 1] \o Rest(q[i], f)
          BY <5>1, <3>3
        <5> QED BY <5>2, <5>3
      <4> QED BY <4>1, <4>2
    <3>8. H[0] = <<>>
      BY SMTT(120), <3>1, <3>4, <3>6
    <3> HIDE DEF H
    <3>9. Upto(m, H)
      BY <3>6, <3>7, <3>8
    <3> QED BY <2>3, <3>9
  <2> QED BY <2>4, <2>5
<1>4. PICK G : Upto(Len(q), G)
  <2>1. Len(q) \in 0 .. Len(q)
    BY SMTT(120), <1>1
  <2> QED BY <2>1, <1>3
<1>5. /\ G \in [0 .. Len(q) -> Seq(Unit)] /\ G[0] = <<>>
      /\ \A i \in 1 .. Len(q) : G[i] = G[i - 1] \o Rest(q[i], f)
  BY <1>4
<1>6. \A i \in 0 .. Len(q) : G[i] = IF i = 0 THEN <<>> ELSE G[i - 1] \o Rest(q[i], f)
  <2> TAKE i \in 0 .. Len(q)
  <2>1. i = 0 \/ i \in 1 .. Len(q)
    BY SMTT(120), <1>1
  <2> QED BY <2>1, <1>5
<1>7. Flat(G, q, f)
  BY <1>5, <1>6 DEF Flat
<1> QED BY <1>5, <1>7

(* There is only one.                                                         *)
LEMMA FlatUnique ==
  ASSUME NEW q \in Seq(Message), NEW f, NEW G, NEW H, Flat(G, q, f), Flat(H, q, f)
  PROVE  G[Len(q)] = H[Len(q)]
<1> DEFINE T == {i \in 0 .. Len(q) : G[i] # H[i]}
<1>1. Len(q) \in Nat
  BY SMTT(120)
<1>2. \A i \in 0 .. Len(q) : /\ G[i] = IF i = 0 THEN <<>> ELSE G[i - 1] \o Rest(q[i], f)
                             /\ H[i] = IF i = 0 THEN <<>> ELSE H[i - 1] \o Rest(q[i], f)
  <2>1. \A i \in 0 .. Len(q) : G[i] = IF i = 0 THEN <<>> ELSE G[i - 1] \o Rest(q[i], f)
    BY DEF Flat
  <2>2. \A i \in 0 .. Len(q) : H[i] = IF i = 0 THEN <<>> ELSE H[i - 1] \o Rest(q[i], f)
    BY DEF Flat
  <2> QED BY <2>1, <2>2
<1>3. T = {}
  <2> SUFFICES ASSUME T # {} PROVE FALSE
    OBVIOUS
  <2>1. T \in SUBSET Nat
    <3>1. \A i \in 0 .. Len(q) : i \in Nat
      BY SMTT(120), <1>1
    <3> QED BY <3>1
  <2> HIDE DEF T
  <2>2. PICK m \in T : \A y \in T : m <= y
    BY <2>1, NatMin
  <2> USE DEF T
  <2>3. m \in 0 .. Len(q) /\ G[m] # H[m]
    OBVIOUS
  <2>4. m # 0
    BY <2>3, <1>2
  <2>5. m - 1 \in 0 .. Len(q) /\ ~(m <= m - 1)
    BY SMTT(120), <2>3, <2>4, <1>1
  <2>6. G[m - 1] = H[m - 1]
    BY <2>2, <2>5
  <2> QED BY <2>3, <2>4, <2>6, <1>2
<1> QED BY SMTT(120), <1>1, <1>3

(* What the queue holds for f is the last value of that function.             *)
LEMMA QueuedIs ==
  ASSUME NEW q \in Seq(Message), NEW f, NEW G, Flat(G, q, f)
  PROVE  Queued(q, f) = G[Len(q)]
<1> DEFINE upto == CHOOSE g : g = [i \in 0 .. Len(q) |-> IF i = 0 THEN <<>> ELSE g[i - 1] \o Rest(q[i], f)]
<1>1. Flat(upto, q, f)
  BY DEF Flat
<1>2. Queued(q, f) = upto[Len(q)]
  BY DEF Queued
<1> HIDE DEF upto
<1> QED BY <1>1, <1>2, FlatUnique

(* What the queue holds is a sequence of units; an empty queue holds nothing. *)
LEMMA QueuedType ==
  ASSUME NEW q \in Seq(Message), NEW f
  PROVE  Queued(q, f) \in Seq(Unit) /\ (q = <<>> => Queued(q, f) = <<>>)
<1>1. PICK G : Flat(G, q, f) /\ \A i \in 0 .. Len(q) : G[i] \in Seq(Unit)
  BY FlatExists
<1>2. Queued(q, f) = G[Len(q)]
  BY <1>1, QueuedIs
<1>3. Len(q) \in 0 .. Len(q) /\ (q = <<>> => Len(q) = 0)
  BY SMTT(120)
<1>4. 0 \in 0 .. Len(q)
  BY SMTT(120)
<1>5. G[0] = <<>>
  BY <1>1, <1>4 DEF Flat
<1> QED BY <1>1, <1>2, <1>3, <1>5

(* A message that is queued comes last.                                       *)
LEMMA QueuedAppend ==
  ASSUME NEW q \in Seq(Message), NEW m \in Message, NEW f
  PROVE  Queued(Append(q, m), f) = Queued(q, f) \o Rest(m, f)
<1> DEFINE p == Append(q, m)
           l == Len(q)
<1>1. PICK G : Flat(G, q, f) /\ \A i \in 0 .. l : G[i] \in Seq(Unit)
  BY FlatExists
<1>2. Queued(q, f) = G[l]
  BY <1>1, QueuedIs
<1>3. /\ p \in Seq(Message) /\ Len(p) = l + 1 /\ l \in Nat /\ p[l + 1] = m
      /\ \A i \in 1 .. l : p[i] = q[i]
  BY SMTT(120)
<1> DEFINE x == G[l] \o Rest(m, f)
           H == [i \in 0 .. l + 1 |-> IF i = l + 1 THEN x ELSE G[i]]
<1> HIDE DEF p, l, x
<1>4. \A i \in 0 .. l : G[i] = IF i = 0 THEN <<>> ELSE G[i - 1] \o Rest(q[i], f)
  BY <1>1 DEF Flat, l
<1>5. H[l + 1] = x /\ \A i \in 0 .. l : H[i] = G[i]
  BY SMTT(120), <1>3
<1>6. ASSUME NEW i \in 0 .. l + 1
      PROVE  H[i] = IF i = 0 THEN <<>> ELSE H[i - 1] \o Rest(p[i], f)
  <2>1. CASE i = l + 1
    <3>1. l \in 0 .. l /\ i - 1 = l /\ i # 0
      BY SMTT(120), <2>1, <1>3
    <3>2. H[l] = G[l]
      BY <3>1, <1>5
    <3> QED BY <2>1, <3>1, <3>2, <1>3, <1>5 DEF x
  <2>2. CASE i # l + 1
    <3>1. i \in 0 .. l /\ (i # 0 => i - 1 \in 0 .. l /\ i \in 1 .. l)
      BY SMTT(120), <2>2, <1>3
    <3>2. H[i] = G[i] /\ (i # 0 => H[i - 1] = G[i - 1] /\ p[i] = q[i])
      BY <3>1, <1>3, <1>5
    <3> QED BY <3>1, <3>2, <1>4
  <2> QED BY <2>1, <2>2
<1>7. H = [i \in 0 .. l + 1 |-> H[i]]
  OBVIOUS
<1> HIDE DEF H
<1>8. [i \in 0 .. l + 1 |-> H[i]]
      = [i \in 0 .. l + 1 |-> IF i = 0 THEN <<>> ELSE H[i - 1] \o Rest(p[i], f)]
  BY <1>6
<1>9. Flat(H, p, f)
  BY <1>3, <1>7, <1>8 DEF Flat
<1>10. Queued(p, f) = H[Len(p)]
  BY <1>3, <1>9, QueuedIs
<1> QED BY <1>2, <1>3, <1>5, <1>10 DEF p, x

(* The first message comes first.                                             *)
LEMMA QueuedHead ==
  ASSUME NEW q \in Seq(Message), q # <<>>, NEW f
  PROVE  Queued(q, f) = Rest(Head(q), f) \o Queued(Tail(q), f)
<1> DEFINE p == Tail(q)
           l == Len(p)
           r == Rest(Head(q), f)
<1>1. /\ p \in Seq(Message) /\ l \in Nat /\ Len(q) = l + 1 /\ q[1] = Head(q) /\ q[1] \in Message
      /\ \A i \in 1 .. l : p[i] = q[i + 1] /\ p[i] \in Message
  BY SMTT(120)
<1>2. r \in Seq(Unit)
  BY <1>1, RestType
<1>3. PICK G : Flat(G, p, f) /\ \A i \in 0 .. Len(p) : G[i] \in Seq(Unit)
  BY <1>1, FlatExists
<1>4. Queued(p, f) = G[Len(p)]
  BY <1>1, <1>3, QueuedIs
<1>5. \A i \in 0 .. l : G[i] = IF i = 0 THEN <<>> ELSE G[i - 1] \o Rest(p[i], f)
  BY <1>3 DEF Flat
<1>6. \A i \in 0 .. l : G[i] \in Seq(Unit)
  BY SMTT(120), <1>3
<1> DEFINE H == [i \in 0 .. l + 1 |-> IF i = 0 THEN <<>> ELSE r \o G[i - 1]]
<1> HIDE DEF p, l, r
<1>7. H[0] = <<>> /\ \A i \in 1 .. l + 1 : H[i] = r \o G[i - 1]
  BY SMTT(120), <1>1
<1>8. ASSUME NEW i \in 0 .. l + 1
      PROVE  H[i] = IF i = 0 THEN <<>> ELSE H[i - 1] \o Rest(q[i], f)
  <2>1. CASE i = 0
    BY <2>1, <1>7
  <2>2. CASE i = 1
    <3>1. 1 \in 1 .. l + 1 /\ 1 - 1 = 0 /\ 0 \in 0 .. l /\ 1 # 0
      BY SMTT(120), <1>1
    <3>2. H[1] = r \o G[0] /\ G[0] = <<>>
      BY <3>1, <1>5, <1>7
    <3>3. r \o <<>> = r /\ <<>> \o r = r
      BY <1>2, ConcatEmptySeq
    <3> QED BY <2>2, <3>1, <3>2, <3>3, <1>1, <1>7 DEF r
  <2>3. CASE i # 0 /\ i # 1
    <3>1. /\ i \in 1 .. l + 1 /\ i - 1 \in 1 .. l + 1 /\ i - 1 \in 1 .. l /\ i - 1 \in 0 .. l
          /\ (i - 1) - 1 \in 0 .. l /\ (i - 1) + 1 = i /\ i - 1 # 0
      BY SMTT(120), <2>3, <1>1
    <3>2. H[i] = r \o G[i - 1] /\ H[i - 1] = r \o G[(i - 1) - 1]
      BY <3>1, <1>7
    <3>3. p[i - 1] = q[i] /\ p[i - 1] \in Message
      <4>1. p[i - 1] = q[(i - 1) + 1] /\ p[i - 1] \in Message
        BY <3>1, <1>1
      <4> QED BY <4>1, <3>1
    <3>4. G[i - 1] = G[(i - 1) - 1] \o Rest(p[i - 1], f)
      BY <3>1, <1>5
    <3>5. G[(i - 1) - 1] \in Seq(Unit) /\ Rest(p[i - 1], f) \in Seq(Unit)
      BY <3>1, <3>3, <1>6, RestType
    <3>6. (r \o G[(i - 1) - 1]) \o Rest(p[i - 1], f) = r \o (G[(i - 1) - 1] \o Rest(p[i - 1], f))
      <4> DEFINE a == G[(i - 1) - 1]
                 b == Rest(p[i - 1], f)
      <4>1. a \in Seq(Unit) /\ b \in Seq(Unit)
        BY <3>5
      <4> HIDE DEF a, b
      <4>2. (r \o a) \o b = r \o (a \o b)
        BY SMTT(120), <4>1, <1>2, ConcatAssociative
      <4> QED BY <4>2 DEF a, b
    <3> QED BY <2>3, <3>2, <3>3, <3>4, <3>6
  <2> QED BY <2>1, <2>2, <2>3
<1>9. H = [i \in 0 .. l + 1 |-> H[i]]
  OBVIOUS
<1>10. H[l + 1] = r \o G[l]
  <2>1. l + 1 \in 1 .. l + 1 /\ (l + 1) - 1 = l
    BY SMTT(120), <1>1
  <2> QED BY <2>1, <1>7
<1> HIDE DEF H
<1>11. [i \in 0 .. l + 1 |-> H[i]]
       = [i \in 0 .. l + 1 |-> IF i = 0 THEN <<>> ELSE H[i - 1] \o Rest(q[i], f)]
  BY <1>8
<1>12. Flat(H, q, f)
  BY <1>1, <1>9, <1>11 DEF Flat
<1>13. Queued(q, f) = H[Len(q)]
  BY <1>12, QueuedIs
<1> QED BY <1>1, <1>4, <1>10, <1>13 DEF p, l, r

(* The connections t are those of s but for buffers and accounts.             *)
Alike(s, t) ==
  \A g \in Fd : /\ t[g].state = s[g].state /\ t[g].in = s[g].in /\ t[g].eof = s[g].eof
                /\ t[g].ifinfo = s[g].ifinfo /\ t[g].redist = s[g].redist

(* Another buffer and account for one connection.                             *)
LEMMA BufAlike ==
  ASSUME NEW s \in [Fd -> ConnType], Small(s), NEW f \in Fd, NEW o \in Seq(Unit),
         NEW d \in Seq(Unit), Len(o) <= Cap
  PROVE  Alike(s, Buf(s, f, o, d)) /\ Small(Buf(s, f, o, d))
<1> DEFINE t == Buf(s, f, o, d)
<1>1. /\ t[f].out = o
      /\ t[f].state = s[f].state /\ t[f].in = s[f].in
      /\ t[f].eof = s[f].eof /\ t[f].ifinfo = s[f].ifinfo
      /\ t[f].redist = s[f].redist
      /\ \A g \in Fd \ {f} : t[g] = s[g]
  BY SMTT(120), BufFacts
<1> HIDE DEF t
<1>2. Alike(s, t)
  BY <1>1 DEF Alike
<1>3. Small(t)
  <2>1. \A g \in Fd : Len(t[g].out) <= Cap
    <3> TAKE g \in Fd
    <3>1. CASE g = f
      BY <3>1, <1>1
    <3>2. CASE g # f
      BY <3>2, <1>1 DEF Small
    <3> QED BY <3>1, <3>2
  <2> QED BY <2>1 DEF Small
<1> QED BY <1>2, <1>3 DEF t

(* Sending changes nothing but a buffer and an account.                       *)
LEMMA SendKeeps ==
  ASSUME NEW w \in WorldType, Small(w.srv), NEW f \in Fd
  PROVE  /\ zebra_server_send_message(w, f) \in WorldType
         /\ Small(zebra_server_send_message(w, f).srv)
         /\ Alike(w.srv, zebra_server_send_message(w, f).srv)
<1> DEFINE v == zebra_server_send_message(w, f)
           c == w.srv[f]
           u == Units(w.next, 0)
           k == Room(c, MsgLen)
           part == SubSeq(u, 1, k)
           s == w.srv
<1>1. s \in [Fd -> ConnType] /\ c \in ConnType /\ w.next \in Numbers /\ Len(c.out) <= Cap
  <2>1. w.srv \in [Fd -> ConnType] /\ w.next \in Numbers
    BY DEF WorldType
  <2> QED BY <2>1 DEF Small
<1>2. MsgLen = 2 /\ 0 \in 0 .. MsgLen /\ Cap \in Nat
  BY SMTT(120), ServAssumption DEF MsgLen
<1>3. /\ k \in 0 .. MsgLen /\ k <= Cap - Len(c.out)
      /\ \/ Sends(w, f, c.out, Append(w.queue, Entry(f, w.next, 0)), Armed(w, f))
         \/ v = w
         \/ k = MsgLen /\ Sends(w, f, c.out \o u, w.queue, w.t_write)
         \/ Sends(w, f, c.out \o part, Append(w.queue, Entry(f, w.next, k)), Armed(w, f))
  BY SendCases
<1>4. u \in Seq(Unit) /\ Len(u) = MsgLen - 0 /\ part \in Seq(Unit) /\ Len(part) = k
  <2>1. k \in 0 .. MsgLen - 0
    BY SMTT(120), <1>2, <1>3
  <2>2. u \in Seq(Unit) /\ Len(u) = MsgLen - 0
    BY <1>1, <1>2, UnitsType
  <2>3. part \in Seq(Unit) /\ Len(part) = k
    BY <2>1, <1>1, <1>2, UnitsSplit
  <2> QED BY <2>2, <2>3
<1> HIDE DEF u, k, part
<1> DEFINE d == c.due \o u
<1>5. /\ c.out \in Seq(Unit) /\ d \in Seq(Unit)
      /\ c.out \o u \in Seq(Unit) /\ c.out \o part \in Seq(Unit)
  BY <1>1, <1>4, ConnWith DEF ConnType
<1>6. Len(c.out \o part) <= Cap /\ (k = MsgLen => Len(c.out \o u) <= Cap)
  <2>1. Len(c.out \o part) = Len(c.out) + Len(part) /\ Len(c.out \o u) = Len(c.out) + Len(u)
    BY <1>4, <1>5, ConcatProperties
  <2>2. Len(c.out) \in Nat
    BY SMTT(120), <1>5
  <2> HIDE DEF c
  <2> QED BY SMTT(120), <2>1, <2>2, <1>2, <1>3, <1>4
<1> HIDE DEF d
<1>7. CASE v = w
  BY <1>7, <1>1 DEF Alike
<1>8. ASSUME NEW o \in Seq(Unit), Len(o) <= Cap, v \in WorldType, v.srv = Buf(s, f, o, d)
      PROVE  v \in WorldType /\ Small(v.srv) /\ Alike(w.srv, v.srv)
  <2>1. Alike(s, Buf(s, f, o, d)) /\ Small(Buf(s, f, o, d))
    BY <1>1, <1>5, <1>8, BufAlike
  <2> QED BY <2>1, <1>8
<1>9. ASSUME NEW o, NEW q, NEW t, Sends(w, f, o, q, t)
      PROVE  v \in WorldType /\ v.srv = Buf(s, f, o, d)
  BY <1>9 DEF Sends, d, u
<1> HIDE DEF v, c, s
<1>10. CASE Sends(w, f, c.out, Append(w.queue, Entry(f, w.next, 0)), Armed(w, f))
  <2>1. v \in WorldType /\ v.srv = Buf(s, f, c.out, d)
    BY <1>9, <1>10
  <2> QED BY <2>1, <1>1, <1>5, <1>8 DEF v
<1>11. CASE k = MsgLen /\ Sends(w, f, c.out \o u, w.queue, w.t_write)
  <2>1. v \in WorldType /\ v.srv = Buf(s, f, c.out \o u, d)
    BY <1>9, <1>11
  <2> QED BY <2>1, <1>5, <1>6, <1>8, <1>11 DEF v
<1>12. CASE Sends(w, f, c.out \o part, Append(w.queue, Entry(f, w.next, k)), Armed(w, f))
  <2>1. v \in WorldType /\ v.srv = Buf(s, f, c.out \o part, d)
    BY <1>9, <1>12
  <2> QED BY <2>1, <1>5, <1>6, <1>8 DEF v
<1> QED BY <1>3, <1>7, <1>10, <1>11, <1>12

(* Telling one client.                                                        *)
LEMMA TellOneKeeps ==
  ASSUME NEW w \in WorldType, Small(w.srv), NEW f \in Fd
  PROVE  /\ TellOne(w, f) \in WorldType /\ Small(TellOne(w, f).srv)
         /\ Alike(w.srv, TellOne(w, f).srv)
<1>1. Alike(w.srv, w.srv)
  BY DEF Alike
<1>2. TellOne(w, f) = w \/ TellOne(w, f) = zebra_server_send_message(w, f)
  BY DEF TellOne
<1>3. /\ zebra_server_send_message(w, f) \in WorldType
      /\ Small(zebra_server_send_message(w, f).srv)
      /\ Alike(w.srv, zebra_server_send_message(w, f).srv)
  BY SendKeeps
<1> QED BY <1>1, <1>2, <1>3

(* G gives the world after the first i clients of l were told.                *)
Told(G, w, l) == G = [i \in 0 .. Len(l) |-> IF i = 0 THEN w ELSE TellOne(G[i - 1], l[i])]

(* G leads from w to the world in which all clients of l were told.           *)
Chain(G, w, l) ==
  /\ G[0] = w /\ TellAll(w, l) = G[Len(l)]
  /\ \A i \in 1 .. Len(l) : G[i] = TellOne(G[i - 1], l[i])

(* Telling all is a chain of steps.                                           *)
LEMMA TellSteps ==
  ASSUME NEW w, NEW l \in Seq(Fd)
  PROVE  \E G : Chain(G, w, l)
<1> DEFINE Upto(m, G) == G = [i \in 0 .. m |-> IF i = 0 THEN w ELSE TellOne(G[i - 1], l[i])]
           T == {m \in 0 .. Len(l) : ~ \E G : Upto(m, G)}
<1>1. Len(l) \in Nat
  BY SMTT(120)
<1>2. T = {}
  <2> SUFFICES ASSUME T # {} PROVE FALSE
    OBVIOUS
  <2>1. T \in SUBSET Nat
    <3>1. \A i \in 0 .. Len(l) : i \in Nat
      BY SMTT(120), <1>1
    <3> QED BY <3>1
  <2> HIDE DEF T
  <2>2. PICK m \in T : \A y \in T : m <= y
    BY <2>1, NatMin
  <2> USE DEF T
  <2>3. m \in 0 .. Len(l) /\ ~ \E G : Upto(m, G)
    OBVIOUS
  <2>4. CASE m = 0
    <3> DEFINE G == [i \in 0 .. 0 |-> w]
    <3>1. \A i \in 0 .. 0 : i = 0
      BY SMTT(120)
    <3>2. [i \in 0 .. 0 |-> IF i = 0 THEN w ELSE TellOne(G[i - 1], l[i])] = G
      BY <3>1
    <3>3. Upto(0, G)
      BY <3>2
    <3> QED BY <2>3, <2>4, <3>3
  <2>5. CASE m # 0
    <3>1. m - 1 \in 0 .. Len(l) /\ m \in Nat /\ ~(m <= m - 1) /\ 0 \in 0 .. m - 1
      BY SMTT(120), <2>3, <2>5, <1>1
    <3>2. m - 1 \notin T
      BY <2>2, <3>1
    <3>3. PICK G : Upto(m - 1, G)
      BY <3>1, <3>2
    <3> DEFINE x == TellOne(G[m - 1], l[m])
               H == [i \in 0 .. m |-> IF i = m THEN x ELSE G[i]]
    <3> HIDE DEF x
    <3>4. \A i \in 0 .. m - 1 : G[i] = IF i = 0 THEN w ELSE TellOne(G[i - 1], l[i])
      BY <3>3
    <3>5. H[m] = x /\ \A i \in 0 .. m - 1 : H[i] = G[i]
      BY SMTT(120), <3>1
    <3>6. ASSUME NEW i \in 0 .. m
          PROVE  H[i] = IF i = 0 THEN w ELSE TellOne(H[i - 1], l[i])
      <4>1. CASE i = m
        <5>1. m - 1 \in 0 .. m - 1
          BY SMTT(120), <3>1
        <5>2. H[m - 1] = G[m - 1]
          BY <5>1, <3>5
        <5> QED BY <4>1, <5>2, <3>5, <2>5 DEF x
      <4>2. CASE i # m
        <5>1. i \in 0 .. m - 1 /\ (i # 0 => i - 1 \in 0 .. m - 1)
          BY SMTT(120), <4>2, <3>1
        <5>2. H[i] = G[i] /\ (i # 0 => H[i - 1] = G[i - 1])
          BY <5>1, <3>5
        <5> QED BY <5>1, <5>2, <3>4
      <4> QED BY <4>1, <4>2
    <3>7. H = [i \in 0 .. m |-> H[i]]
      OBVIOUS
    <3> HIDE DEF H
    <3>8. [i \in 0 .. m |-> H[i]] = [i \in 0 .. m |-> IF i = 0 THEN w ELSE TellOne(H[i - 1], l[i])]
      BY <3>6
    <3>9. Upto(m, H)
      BY <3>7, <3>8
    <3> QED BY <2>3, <3>9
  <2> QED BY <2>4, <2>5
<1>3. \E G : Told(G, w, l)
  <2>1. Len(l) \in 0 .. Len(l)
    BY SMTT(120), <1>1
  <2> QED BY <2>1, <1>2 DEF Told
<1> DEFINE told == CHOOSE g : g = [i \in 0 .. Len(l) |-> IF i = 0 THEN w ELSE TellOne(g[i - 1], l[i])]
<1>4. Told(told, w, l)
  BY <1>3 DEF Told
<1>5. TellAll(w, l) = told[Len(l)]
  BY DEF TellAll
<1> HIDE DEF told
<1>6. \A i \in 0 .. Len(l) : told[i] = IF i = 0 THEN w ELSE TellOne(told[i - 1], l[i])
  BY <1>4 DEF Told
<1>7. 0 \in 0 .. Len(l) /\ \A i \in 1 .. Len(l) : i \in 0 .. Len(l) /\ i # 0
  BY SMTT(120), <1>1
<1>8. /\ told[0] = w /\ TellAll(w, l) = told[Len(l)]
      /\ \A i \in 1 .. Len(l) : told[i] = TellOne(told[i - 1], l[i])
  BY <1>5, <1>6, <1>7
<1> QED BY <1>8 DEF Chain

(* Being alike is transitive.                                                 *)
LEMMA AlikeTrans ==
  ASSUME NEW s, NEW t, NEW u, Alike(s, t), Alike(t, u)
  PROVE  Alike(s, u)
BY DEF Alike

(* Telling all clients changes nothing but buffers and accounts.              *)
LEMMA TellKeeps ==
  ASSUME NEW w \in WorldType, Small(w.srv), NEW l \in Seq(Fd)
  PROVE  /\ TellAll(w, l) \in WorldType /\ Small(TellAll(w, l).srv)
         /\ Alike(w.srv, TellAll(w, l).srv)
<1>0. PICK G : Chain(G, w, l)
  BY TellSteps
<1>1. /\ G[0] = w /\ TellAll(w, l) = G[Len(l)]
      /\ \A i \in 1 .. Len(l) : G[i] = TellOne(G[i - 1], l[i])
  BY <1>0 DEF Chain
<1> DEFINE Fine(v) == v \in WorldType /\ Small(v.srv) /\ Alike(w.srv, v.srv)
           T == {i \in 0 .. Len(l) : ~Fine(G[i])}
<1>2. Len(l) \in Nat /\ \A i \in 1 .. Len(l) : l[i] \in Fd
  BY SMTT(120)
<1>3. T = {}
  <2> SUFFICES ASSUME T # {} PROVE FALSE
    OBVIOUS
  <2>1. T \in SUBSET Nat
    <3>1. \A i \in 0 .. Len(l) : i \in Nat
      BY SMTT(120), <1>2
    <3> QED BY <3>1
  <2> HIDE DEF T
  <2>2. PICK m \in T : \A y \in T : m <= y
    BY <2>1, NatMin
  <2> USE DEF T
  <2>3. m \in 0 .. Len(l) /\ ~Fine(G[m])
    OBVIOUS
  <2>4. Fine(w)
    BY DEF Alike
  <2>5. m # 0
    BY <2>3, <2>4, <1>1
  <2>6. m \in 1 .. Len(l) /\ m - 1 \in 0 .. Len(l) /\ ~(m <= m - 1)
    BY SMTT(120), <2>3, <2>5, <1>2
  <2>7. Fine(G[m - 1])
    BY <2>2, <2>6
  <2>8. G[m] = TellOne(G[m - 1], l[m]) /\ l[m] \in Fd
    BY <2>6, <1>1, <1>2
  <2> DEFINE v == G[m - 1]
  <2> HIDE DEF v
  <2>9. v \in WorldType /\ Small(v.srv) /\ Alike(w.srv, v.srv)
    BY <2>7 DEF v
  <2>10. /\ TellOne(v, l[m]) \in WorldType /\ Small(TellOne(v, l[m]).srv)
         /\ Alike(v.srv, TellOne(v, l[m]).srv)
    BY <2>8, <2>9, TellOneKeeps
  <2>11. Alike(w.srv, TellOne(v, l[m]).srv)
    BY <2>9, <2>10, AlikeTrans
  <2>12. Fine(TellOne(v, l[m]))
    BY <2>10, <2>11
  <2> QED BY <2>3, <2>8, <2>12 DEF v
<1>4. Len(l) \in 0 .. Len(l)
  BY SMTT(120), <1>2
<1>5. Fine(G[Len(l)])
  BY <1>3, <1>4
<1> QED BY <1>1, <1>5

(* A world with other connections.                                            *)
LEMMA WithSrv ==
  ASSUME NEW w \in WorldType, NEW s \in [Fd -> ConnType]
  PROVE  /\ [w EXCEPT !.srv = s] \in WorldType /\ [w EXCEPT !.srv = s].srv = s
         /\ [w EXCEPT !.srv = s].queue = w.queue /\ [w EXCEPT !.srv = s].t_write = w.t_write
         /\ [w EXCEPT !.srv = s].next = w.next
BY DEF WorldType

(* What zebra has on record after a request.                                  *)
Answer(R, r) == IF r.cmd = "INTERFACE_ADD" THEN R
                ELSE IF r.cmd = "REDISTRIBUTE_DELETE" THEN R \ {r.type}
                ELSE R \cup {r.type}

(* The connections t are those of s but for buffers, accounts and, for f, the *)
(* record of requests, which is R.                                            *)
Recorded(s, t, f, R) ==
  /\ \A g \in Fd : t[g].state = s[g].state /\ t[g].in = s[g].in /\ t[g].eof = s[g].eof
  /\ \A g \in Fd \ {f} : t[g].redist = s[g].redist
  /\ t[f].redist = R

(* Another record for one connection.                                         *)
LEMMA SetRecord ==
  ASSUME NEW s \in [Fd -> ConnType], Small(s), NEW f \in Fd, NEW R \in SUBSET Type,
         NEW i \in BOOLEAN
  PROVE  LET t == [s EXCEPT ![f] = [s[f] EXCEPT !.redist = R, !.ifinfo = i]]
         IN t \in [Fd -> ConnType] /\ Small(t) /\ Recorded(s, t, f, R)
<1> DEFINE c == [s[f] EXCEPT !.redist = R, !.ifinfo = i]
           t == [s EXCEPT ![f] = c]
<1>1. s[f] \in ConnType
  OBVIOUS
<1>2. c \in ConnType /\ c.redist = R /\ c.state = s[f].state /\ c.in = s[f].in /\ c.eof = s[f].eof
      /\ c.out = s[f].out
  BY <1>1 DEF ConnType
<1> HIDE DEF c
<1>3. t \in [Fd -> ConnType] /\ t[f] = c /\ \A g \in Fd \ {f} : t[g] = s[g]
  BY <1>2
<1> HIDE DEF t
<1>4. \A g \in Fd : t[g].out = s[g].out
  BY <1>2, <1>3
<1>5. Small(t)
  BY <1>4 DEF Small
<1>6. Recorded(s, t, f, R)
  BY <1>2, <1>3 DEF Recorded
<1> QED BY <1>3, <1>5, <1>6 DEF t, c

(* Sending after the record was changed.                                      *)
LEMMA RecordedAlike ==
  ASSUME NEW s, NEW t, NEW u, NEW f \in Fd, NEW R, Recorded(s, t, f, R), Alike(t, u)
  PROVE  Recorded(s, u, f, R)
BY DEF Recorded, Alike

(* The answer to a request.                                                   *)
LEMMA DispatchKeeps ==
  ASSUME NEW w \in WorldType, Small(w.srv), NEW f \in Fd, NEW r \in Requests
  PROVE  /\ Dispatch(w, f, r) \in WorldType /\ Small(Dispatch(w, f, r).srv)
         /\ Recorded(w.srv, Dispatch(w, f, r).srv, f, Answer(w.srv[f].redist, r))
<1> DEFINE s == w.srv
           R == s[f].redist
           A == Answer(R, r)
           Put(i) == [s EXCEPT ![f] = [s[f] EXCEPT !.redist = A, !.ifinfo = i]]
<1>1. s \in [Fd -> ConnType] /\ s[f] \in ConnType
  BY DEF WorldType
<1>2. R \in SUBSET Type /\ s[f].ifinfo \in BOOLEAN
  BY <1>1 DEF ConnType
<1>3. r.cmd # "INTERFACE_ADD" => r.type \in Type
  BY SMTT(120) DEF Requests, InterfaceAdd, Request
<1>4. A \in SUBSET Type
  BY <1>2, <1>3 DEF Answer
<1>5. ASSUME NEW i \in BOOLEAN
      PROVE  Put(i) \in [Fd -> ConnType] /\ Small(Put(i)) /\ Recorded(s, Put(i), f, A)
  <2> HIDE DEF s, A
  <2>1. Small(s)
    BY DEF s
  <2> QED BY <2>1, <1>1, <1>4, SetRecord
<1>6. ASSUME NEW i \in BOOLEAN
      PROVE  LET v == [w EXCEPT !.srv = Put(i)]
                 x == zebra_server_send_message(v, f)
             IN /\ v \in WorldType /\ Small(v.srv) /\ Recorded(s, v.srv, f, A)
                /\ x \in WorldType /\ Small(x.srv) /\ Recorded(s, x.srv, f, A)
  <2> DEFINE t == Put(i)
             v == [w EXCEPT !.srv = t]
             x == zebra_server_send_message(v, f)
  <2>1. t \in [Fd -> ConnType] /\ Small(t) /\ Recorded(s, t, f, A)
    BY <1>5
  <2> HIDE DEF t
  <2>2. v \in WorldType /\ v.srv = t
    BY <2>1, WithSrv
  <2> HIDE DEF v
  <2>3. x \in WorldType /\ Small(x.srv) /\ Alike(v.srv, x.srv)
    BY <2>1, <2>2, SendKeeps
  <2> HIDE DEF x
  <2>4. Recorded(s, x.srv, f, A)
    BY <2>1, <2>2, <2>3, RecordedAlike
  <2> QED BY <2>1, <2>2, <2>3, <2>4 DEF v, t, x
<1>7. CASE r.cmd = "INTERFACE_ADD"
  <2>1. A = R
    BY <1>7 DEF Answer
  <2>2. [w EXCEPT !.srv[f].ifinfo = TRUE] = [w EXCEPT !.srv = Put(TRUE)]
    BY <2>1, <1>1 DEF WorldType, ConnType
  <2>3. Dispatch(w, f, r) = zebra_server_send_message([w EXCEPT !.srv = Put(TRUE)], f)
    BY <2>2, <1>7 DEF Dispatch
  <2> HIDE DEF A, Put
  <2> QED BY <2>3, <1>6 DEF A
<1>8. CASE r.cmd # "INTERFACE_ADD" /\ r.cmd = "REDISTRIBUTE_DELETE"
  <2>1. A = R \ {r.type}
    BY <1>8 DEF Answer
  <2>2. [w EXCEPT !.srv[f].redist = @ \ {r.type}] = [w EXCEPT !.srv = Put(s[f].ifinfo)]
    BY <2>1, <1>1 DEF WorldType, ConnType
  <2>3. Dispatch(w, f, r) = [w EXCEPT !.srv = Put(s[f].ifinfo)]
    BY <2>2, <1>8 DEF Dispatch
  <2> HIDE DEF A, Put
  <2> QED BY <2>3, <1>2, <1>6 DEF A
<1>9. CASE r.cmd # "INTERFACE_ADD" /\ r.cmd # "REDISTRIBUTE_DELETE"
  <2>1. A = R \cup {r.type}
    BY <1>9 DEF Answer
  <2>2. CASE r.type \in R
    <3>1. A = R
      BY <2>1, <2>2
    <3>2. Dispatch(w, f, r) = w
      BY <2>2, <1>9 DEF Dispatch
    <3>3. Recorded(s, s, f, A)
      BY <3>1 DEF Recorded
    <3> QED BY <3>2, <3>3 DEF A
  <2>3. CASE r.type \notin R
    <3>1. [w EXCEPT !.srv[f].redist = @ \cup {r.type}] = [w EXCEPT !.srv = Put(s[f].ifinfo)]
      BY <2>1, <1>1 DEF WorldType, ConnType
    <3>2. Dispatch(w, f, r) = zebra_server_send_message([w EXCEPT !.srv = Put(s[f].ifinfo)], f)
      BY <3>1, <2>3, <1>9 DEF Dispatch
    <3> HIDE DEF A, Put
    <3> QED BY <3>2, <1>2, <1>6 DEF A
  <2> QED BY <2>2, <2>3
<1> QED BY <1>7, <1>8, <1>9

(* The queue after k more units of its first message, whose rest is left,     *)
(* were written.                                                              *)
Shorter(q, left, k) ==
  IF k = Len(left) THEN Tail(q) ELSE [q EXCEPT ![1].written = Head(q).written + k]

(* A shorter queue is a queue.                                                *)
LEMMA ShorterType ==
  ASSUME NEW q \in Seq(Message), q # <<>>, NEW k \in 0 .. MsgLen - Head(q).written
  PROVE  /\ Shorter(q, Units(Head(q).n, Head(q).written), k) \in Seq(Message)
         /\ Units(Head(q).n, Head(q).written) \in Seq(Unit)
         /\ Len(Units(Head(q).n, Head(q).written)) = MsgLen - Head(q).written
<1> DEFINE m == Head(q)
           left == Units(m.n, m.written)
<1>1. m \in Message /\ q[1] = m /\ Len(q) \in Nat /\ Len(q) >= 1 /\ Tail(q) \in Seq(Message)
  BY SMTT(120)
<1>2. m.n \in Numbers /\ m.written \in 0 .. MsgLen - 1 /\ MsgLen = 2 /\ m.written \in 0 .. MsgLen
  BY SMTT(120), <1>1 DEF Message, MsgLen
<1>3. left \in Seq(Unit) /\ Len(left) = MsgLen - m.written
  BY <1>2, UnitsType
<1>4. CASE k = Len(left)
  BY <1>4, <1>1, <1>3 DEF Shorter
<1>5. CASE k # Len(left)
  <2> DEFINE j == m.written + k
             e == [m EXCEPT !.written = j]
  <2>1. j \in 0 .. MsgLen - 1
    BY SMTT(120), <1>2, <1>3, <1>5
  <2> HIDE DEF j
  <2>2. e \in Message
    BY <2>1, <1>1 DEF Message
  <2>3. [q EXCEPT ![1].written = m.written + k] = [q EXCEPT ![1] = e]
    BY <1>1 DEF e, j
  <2> HIDE DEF e
  <2>4. 1 \in 1 .. Len(q)
    BY SMTT(120), <1>1
  <2>5. [q EXCEPT ![1] = e] \in Seq(Message)
    BY <2>2, <2>4, ExceptSeq
  <2>6. Shorter(q, left, k) = [q EXCEPT ![1] = e]
    BY <2>3, <1>5 DEF Shorter
  <2> QED BY <2>5, <2>6, <1>3
<1> QED BY <1>4, <1>5

(* What the write thread does when its descriptor is still good.              *)
Writes(w, v) ==
  LET sock == w.t_write
      c    == w.srv[sock]
      left == Units(Head(w.queue).n, Head(w.queue).written)
      k    == Room(c, Len(left))
  IN /\ c.state = "open" /\ ~c.eof
     /\ k \in 0 .. Len(left) /\ k <= Cap - Len(c.out)
     /\ v.srv = Buf(w.srv, sock, c.out \o SubSeq(left, 1, k), c.due)
     /\ v.queue = Shorter(w.queue, left, k)
     /\ v.t_write = IF v.queue = <<>> THEN NoFd ELSE sock

(* The outcomes of the write thread.                                          *)
LEMMA DequeueCases ==
  ASSUME NEW w \in WorldType, Small(w.srv), w.t_write \in Fd, w.queue # <<>>
  PROVE  LET v == zebra_server_dequeue(w)
             c == w.srv[w.t_write]
         IN /\ v \in WorldType /\ Small(v.srv) /\ Alike(w.srv, v.srv)
            /\ \/ /\ c.state # "open" \/ c.eof
                  /\ v.srv = w.srv /\ v.queue = w.queue /\ v.t_write = NoFd
               \/ Writes(w, v)
<1> DEFINE v == zebra_server_dequeue(w)
           sock == w.t_write
           m == Head(w.queue)
           c == w.srv[sock]
           left == Units(m.n, m.written)
           k == Room(c, Len(left))
           part == SubSeq(left, 1, k)
           w1 == [w EXCEPT !.t_write = NoFd]
           p == Push(w1, sock, part)
           q == Shorter(w.queue, left, k)
           w2 == [p EXCEPT !.queue = q]
<1>1. /\ w.srv \in [Fd -> ConnType] /\ c \in ConnType /\ Len(c.out) <= Cap
      /\ w.queue \in Seq(Message) /\ m \in Message
  <2>1. w.srv \in [Fd -> ConnType] /\ w.queue \in Seq(Message)
    BY DEF WorldType
  <2> QED BY SMTT(120), <2>1 DEF Small
<1>2. m.n \in Numbers /\ m.written \in 0 .. MsgLen /\ MsgLen = 2 /\ MsgLen - m.written \in 0 .. MsgLen
  BY SMTT(120), <1>1 DEF Message, MsgLen
<1>3. left \in Seq(Unit) /\ Len(left) = MsgLen - m.written
  BY <1>2, UnitsType
<1>4. k \in 0 .. MsgLen - m.written /\ k <= Cap - Len(c.out)
  BY <1>1, <1>2, <1>3, RoomFacts
<1>5. part \in Seq(Unit) /\ Len(part) = k
  BY <1>2, <1>4, UnitsSplit
<1>6. q \in Seq(Message)
  BY <1>1, <1>4, ShorterType
<1>7. v = IF c.state # "open" \/ c.eof THEN w1
          ELSE IF w2.queue = <<>> THEN w2 ELSE THREAD_WRITE_ON(w2, sock)
  BY DEF zebra_server_dequeue, Shorter
<1>8. /\ w1 \in WorldType /\ w1.srv = w.srv /\ w1.queue = w.queue /\ w1.t_write = NoFd
  BY DEF WorldType
<1> HIDE DEF w1, part, k, left, m
<1>9. /\ p \in WorldType /\ p.queue = w1.queue /\ p.t_write = w1.t_write
      /\ p.srv = Buf(w1.srv, sock, w1.srv[sock].out \o part, w1.srv[sock].due)
  BY <1>5, <1>8, Pushed
<1> HIDE DEF p, q
<1>10. w2 \in WorldType /\ w2.queue = q /\ w2.srv = p.srv /\ w2.t_write = NoFd
  BY <1>6, <1>8, <1>9 DEF WorldType
<1> HIDE DEF w2
<1>11. /\ THREAD_WRITE_ON(w2, sock) \in WorldType
       /\ THREAD_WRITE_ON(w2, sock).queue = q /\ THREAD_WRITE_ON(w2, sock).srv = p.srv
       /\ THREAD_WRITE_ON(w2, sock).t_write = sock
  <2>1. THREAD_WRITE_ON(w2, sock) = [w2 EXCEPT !.t_write = sock]
    BY <1>10 DEF THREAD_WRITE_ON
  <2>2. /\ [w2 EXCEPT !.t_write = sock] \in WorldType
        /\ [w2 EXCEPT !.t_write = sock].queue = q /\ [w2 EXCEPT !.t_write = sock].srv = p.srv
        /\ [w2 EXCEPT !.t_write = sock].t_write = sock
    BY <1>10 DEF WorldType
  <2> QED BY <2>1, <2>2
<1>12. p.srv = Buf(w.srv, sock, c.out \o part, c.due)
  BY <1>8, <1>9
<1>13. Alike(w.srv, p.srv) /\ Small(p.srv)
  <2> DEFINE s == w.srv
             o == c.out \o part
             d == c.due
  <2>1. s \in [Fd -> ConnType] /\ Small(s) /\ o \in Seq(Unit) /\ d \in Seq(Unit)
    BY <1>1, <1>5, ConnWith DEF ConnType
  <2>2. Len(o) <= Cap
    <3>1. c.out \in Seq(Unit)
      BY <1>1 DEF ConnType
    <3>2. Len(o) = Len(c.out) + Len(part)
      BY <3>1, <1>5, ConcatProperties
    <3>3. Len(c.out) \in Nat /\ Cap \in Nat /\ k \in Nat
      BY SMTT(120), <3>1, <1>2, <1>4, ServAssumption
    <3> HIDE DEF o, c
    <3> QED BY SMTT(120), <3>2, <3>3, <1>4, <1>5
  <2> HIDE DEF s, o, d
  <2>3. Alike(s, Buf(s, sock, o, d)) /\ Small(Buf(s, sock, o, d))
    BY <2>1, <2>2, BufAlike
  <2> QED BY <2>3, <1>12 DEF s, o, d
<1> HIDE DEF v, c
<1>14. CASE c.state # "open" \/ c.eof
  <2>1. v = w1
    BY <1>7, <1>14
  <2> QED BY <2>1, <1>8, <1>14 DEF v, c, Alike
<1>15. CASE ~(c.state # "open" \/ c.eof)
  <2>1. v \in WorldType /\ v.queue = q /\ v.srv = p.srv
        /\ v.t_write = IF q = <<>> THEN NoFd ELSE sock
    BY <1>7, <1>10, <1>11, <1>15
  <2>2. k \in 0 .. Len(left)
    BY <1>3, <1>4
  <2>3. Writes(w, v)
    BY <2>1, <2>2, <1>4, <1>12, <1>15 DEF Writes, c, k, left, part, q, m
  <2> QED BY <2>1, <2>3, <1>13 DEF v, c
<1> QED BY <1>14, <1>15

(* A request that is read takes its effect.                                   *)
LEMMA AppliedRead ==
  ASSUME NEW c \in ConnType, NEW e \in ConnType, c.in # <<>>, e.in = Tail(c.in),
         e.redist = Answer(c.redist, Head(c.in))
  PROVE  Applied(e) = Applied(c)
<1> DEFINE r == Head(c.in)
           Add(t) == Request("REDISTRIBUTE_ADD", t)
           Del(t) == Request("REDISTRIBUTE_DELETE", t)
<1>1. c.in \in Seq(Requests) /\ r \in Requests
  BY SMTT(120) DEF ConnType
<1>2. /\ DOMAIN c.in = 1 .. Len(c.in) /\ DOMAIN e.in = 1 .. Len(c.in) - 1
      /\ Len(c.in) \in Nat \ {0} /\ c.in[1] = r
      /\ \A i \in 1 .. Len(c.in) - 1 : e.in[i] = c.in[i + 1]
  BY SMTT(120), <1>1
<1>3. ASSUME NEW t \in Type
      PROVE  /\ (r = Add(t) <=> r.cmd = "REDISTRIBUTE_ADD" /\ r.type = t)
             /\ (r = Del(t) <=> r.cmd = "REDISTRIBUTE_DELETE" /\ r.type = t)
             /\ Add(t) # Del(t)
  BY SMTT(120), <1>1 DEF Requests, Request, InterfaceAdd
<1>4. ASSUME NEW t \in Type
      PROVE  /\ r = Add(t) => t \in e.redist
             /\ r = Del(t) => t \notin e.redist
             /\ r # Add(t) /\ r # Del(t) => (t \in e.redist <=> t \in c.redist)
  BY SMTT(120), <1>1, <1>3 DEF Requests, Request, InterfaceAdd, Answer
<1> HIDE DEF r, Add, Del
<1>5. ASSUME NEW t \in Type
      PROVE  t \in Applied(e) <=> t \in Applied(c)
  <2>1. t \in Applied(c) <=>
          \/ t \in c.redist /\ \A i \in 1 .. Len(c.in) : c.in[i] # Del(t)
          \/ \E i \in 1 .. Len(c.in) :
               c.in[i] = Add(t) /\ \A j \in 1 .. Len(c.in) : j > i => c.in[j] # Del(t)
    BY <1>2 DEF Applied, Add, Del
  <2>2. t \in Applied(e) <=>
          \/ t \in e.redist /\ \A i \in 1 .. Len(c.in) - 1 : e.in[i] # Del(t)
          \/ \E i \in 1 .. Len(c.in) - 1 :
               e.in[i] = Add(t) /\ \A j \in 1 .. Len(c.in) - 1 : j > i => e.in[j] # Del(t)
    BY <1>2 DEF Applied, Add, Del
  <2> DEFINE N == Len(c.in)
             s == c.in
             x == e.in
             A == Add(t)
             D == Del(t)
  <2>3. /\ N \in Nat \ {0} /\ s[1] = r /\ \A i \in 1 .. N - 1 : x[i] = s[i + 1]
        /\ A # D
    BY <1>2, <1>3
  <2>4. /\ r = A => t \in e.redist
        /\ r = D => t \notin e.redist
        /\ r # A /\ r # D => (t \in e.redist <=> t \in c.redist)
    BY <1>4
  <2> HIDE DEF N, s, x, A, D
  <2>5. (\A i \in 1 .. N : s[i] # D) <=> r # D /\ \A i \in 1 .. N - 1 : x[i] # D
    <3>1. ASSUME r # D, \A i \in 1 .. N - 1 : x[i] # D, NEW i \in 1 .. N PROVE s[i] # D
      <4>1. i = 1 \/ (i - 1 \in 1 .. N - 1 /\ (i - 1) + 1 = i)
        BY SMTT(120), <2>3
      <4> QED BY <4>1, <3>1, <2>3
    <3>2. ASSUME \A i \in 1 .. N : s[i] # D PROVE r # D /\ \A i \in 1 .. N - 1 : x[i] # D
      BY SMTT(120), <3>2, <2>3
    <3> QED BY <3>1, <3>2
  <2> DEFINE LastC(i) == s[i] = A /\ \A j \in 1 .. N : j > i => s[j] # D
             LastE(i) == x[i] = A /\ \A j \in 1 .. N - 1 : j > i => x[j] # D
  <2>6. ASSUME NEW i \in 1 .. N - 1 PROVE LastE(i) <=> LastC(i + 1)
    <3>1. i + 1 \in 1 .. N /\ x[i] = s[i + 1]
      BY SMTT(120), <2>3
    <3>2. ASSUME \A j \in 1 .. N - 1 : j > i => x[j] # D, NEW j \in 1 .. N, j > i + 1
          PROVE  s[j] # D
      <4>1. j - 1 \in 1 .. N - 1 /\ j - 1 > i /\ (j - 1) + 1 = j
        BY SMTT(120), <3>2, <2>3
      <4> QED BY <4>1, <3>2, <2>3
    <3>3. ASSUME \A j \in 1 .. N : j > i + 1 => s[j] # D, NEW j \in 1 .. N - 1, j > i
          PROVE  x[j] # D
      <4>1. j + 1 \in 1 .. N /\ j + 1 > i + 1
        BY SMTT(120), <3>3, <2>3
      <4> QED BY <4>1, <3>3, <2>3
    <3> QED BY <3>1, <3>2, <3>3
  <2>7. LastC(1) <=> r = A /\ \A i \in 1 .. N - 1 : x[i] # D
    <3>1. ASSUME \A j \in 1 .. N : j > 1 => s[j] # D, NEW i \in 1 .. N - 1 PROVE x[i] # D
      <4>1. i + 1 \in 1 .. N /\ i + 1 > 1
        BY SMTT(120), <2>3
      <4> QED BY <4>1, <3>1, <2>3
    <3>2. ASSUME \A i \in 1 .. N - 1 : x[i] # D, NEW j \in 1 .. N, j > 1 PROVE s[j] # D
      <4>1. j - 1 \in 1 .. N - 1 /\ (j - 1) + 1 = j
        BY SMTT(120), <3>2, <2>3
      <4> QED BY <4>1, <3>2, <2>3
    <3> QED BY <3>1, <3>2, <2>3
  <2>8. (\E i \in 1 .. N : LastC(i)) <=> LastC(1) \/ \E i \in 1 .. N - 1 : LastE(i)
    <3>1. ASSUME NEW i \in 1 .. N, LastC(i) PROVE LastC(1) \/ \E h \in 1 .. N - 1 : LastE(h)
      <4>1. i = 1 \/ (i - 1 \in 1 .. N - 1 /\ (i - 1) + 1 = i)
        BY SMTT(120), <2>3
      <4>2. CASE i = 1
        BY <4>2, <3>1
      <4>3. CASE i - 1 \in 1 .. N - 1 /\ (i - 1) + 1 = i
        <5>1. LastE(i - 1) <=> LastC((i - 1) + 1)
          BY <4>3, <2>6
        <5> QED BY <5>1, <4>3, <3>1
      <4> QED BY <4>1, <4>2, <4>3
    <3>2. ASSUME NEW i \in 1 .. N - 1, LastE(i) PROVE \E h \in 1 .. N : LastC(h)
      <4>1. i + 1 \in 1 .. N
        BY SMTT(120), <2>3
      <4> QED BY <4>1, <3>2, <2>6
    <3>3. 1 \in 1 .. N
      BY SMTT(120), <2>3
    <3> QED BY <3>1, <3>2, <3>3
  <2>9. t \in Applied(c) <=> (t \in c.redist /\ \A i \in 1 .. N : s[i] # D) \/ \E i \in 1 .. N : LastC(i)
    BY <2>1 DEF N, s, A, D
  <2>10. t \in Applied(e) <=>
           (t \in e.redist /\ \A i \in 1 .. N - 1 : x[i] # D) \/ \E i \in 1 .. N - 1 : LastE(i)
    BY <2>2 DEF N, x, A, D
  <2> HIDE DEF LastC, LastE
  <2> QED BY <2>3, <2>4, <2>5, <2>7, <2>8, <2>9, <2>10
<1> QED BY <1>5 DEF Applied

(* A request that is sent is applied last.                                    *)
LEMMA AppliedAsk ==
  ASSUME NEW c \in ConnType, NEW e \in ConnType, NEW r \in Requests,
         e.in = Append(c.in, r), e.redist = c.redist
  PROVE  Applied(e) = Answer(Applied(c), r)
<1> DEFINE Add(t) == Request("REDISTRIBUTE_ADD", t)
           Del(t) == Request("REDISTRIBUTE_DELETE", t)
<1>1. c.in \in Seq(Requests) /\ c.redist \in SUBSET Type
  BY DEF ConnType
<1>2. /\ DOMAIN c.in = 1 .. Len(c.in) /\ DOMAIN e.in = 1 .. Len(c.in) + 1
      /\ Len(c.in) \in Nat /\ e.in[Len(c.in) + 1] = r
      /\ \A i \in 1 .. Len(c.in) : e.in[i] = c.in[i]
  BY SMTT(120), <1>1
<1>3. ASSUME NEW t \in Type
      PROVE  /\ r = Add(t) => (t \in Answer(Applied(c), r))
             /\ r = Del(t) => (t \notin Answer(Applied(c), r))
             /\ r # Add(t) /\ r # Del(t) =>
                  (t \in Answer(Applied(c), r) <=> t \in Applied(c))
             /\ Add(t) # Del(t)
  BY SMTT(120) DEF Requests, Request, InterfaceAdd, Answer
<1>4. Answer(Applied(c), r) \subseteq Type
  <2>1. Applied(c) \subseteq Type
    BY DEF Applied
  <2>2. r.cmd = "INTERFACE_ADD" \/ r.type \in Type
    BY SMTT(120) DEF Requests, Request, InterfaceAdd
  <2> QED BY <2>1, <2>2 DEF Answer
<1> HIDE DEF Add, Del
<1>5. ASSUME NEW t \in Type
      PROVE  t \in Applied(e) <=> t \in Answer(Applied(c), r)
  <2> DEFINE N == Len(c.in)
             s == c.in
             x == e.in
             A == Add(t)
             D == Del(t)
             LastC(i) == s[i] = A /\ \A j \in 1 .. N : j > i => s[j] # D
             LastE(i) == x[i] = A /\ \A j \in 1 .. N + 1 : j > i => x[j] # D
  <2>1. t \in Applied(c) <=> (t \in c.redist /\ \A i \in 1 .. N : s[i] # D) \/ \E i \in 1 .. N : LastC(i)
    BY <1>2 DEF Applied, Add, Del
  <2>2. t \in Applied(e) <=>
          (t \in c.redist /\ \A i \in 1 .. N + 1 : x[i] # D) \/ \E i \in 1 .. N + 1 : LastE(i)
    BY <1>2 DEF Applied, Add, Del
  <2>3. /\ N \in Nat /\ x[N + 1] = r /\ A # D
        /\ \A i \in 1 .. N : x[i] = s[i]
    BY <1>2, <1>3
  <2> HIDE DEF N, s, x, A, D
  <2>4. ASSUME NEW i \in 1 .. N + 1 PROVE i \in 1 .. N \/ i = N + 1
    BY SMTT(120), <2>3
  <2>5. 1 .. N \subseteq 1 .. N + 1 /\ N + 1 \in 1 .. N + 1 /\ \A i \in 1 .. N : N + 1 > i
    BY SMTT(120), <2>3
  <2>6. (\A i \in 1 .. N + 1 : x[i] # D) <=> r # D /\ \A i \in 1 .. N : s[i] # D
    BY <2>3, <2>4, <2>5
  <2>7. ASSUME NEW i \in 1 .. N PROVE LastE(i) <=> r # D /\ LastC(i)
    BY <2>3, <2>4, <2>5
  <2>8. LastE(N + 1) <=> r = A
    <3>1. \A j \in 1 .. N + 1 : ~(j > N + 1)
      BY SMTT(120), <2>3
    <3> QED BY <3>1, <2>3
  <2> HIDE DEF LastC, LastE
  <2>9. (\E i \in 1 .. N + 1 : LastE(i)) <=> r = A \/ (r # D /\ \E i \in 1 .. N : LastC(i))
    BY <2>4, <2>5, <2>7, <2>8
  <2>10. t \in Applied(e) <=> r = A \/ (r # D /\ t \in Applied(c))
    BY <2>1, <2>2, <2>3, <2>6, <2>9
  <2> QED BY <2>10, <1>3, <2>3 DEF A, D
<1>6. Applied(e) \subseteq Type
  BY DEF Applied
<1> QED BY <1>4, <1>5, <1>6

(* A new connection asks for exactly the types its daemon is configured for.  *)
LEMMA AppliedHello ==
  ASSUME NEW c \in ClientType
  PROVE  /\ Hello(c) \in Seq(Requests)
         /\ \A e \in ConnType : e.in = Hello(c) /\ e.redist = {} => Applied(e) = c.redist
<1> DEFINE ts == Order[c.redist]
           n == Len(ts)
           as == [i \in 1 .. n |-> Request("REDISTRIBUTE_ADD", ts[i])]
           h == Hello(c)
<1>1. c.redist \in SUBSET Type
  BY DEF ClientType
<1>2. /\ ts \in Seq(c.redist)
      /\ \A x \in c.redist : \E i \in DOMAIN ts : ts[i] = x
  BY <1>1, ServAssumption DEF Members
<1> HIDE DEF ts
<1>3. /\ n \in Nat /\ DOMAIN ts = 1 .. n /\ \A i \in 1 .. n : ts[i] \in c.redist
  BY SMTT(120), <1>2
<1>4. ASSUME NEW i \in 1 .. n
      PROVE  Request("REDISTRIBUTE_ADD", ts[i]) \in Requests
  BY <1>1, <1>3 DEF Requests, Request
<1>5. as \in Seq(Requests) /\ Len(as) = n /\ \A i \in 1 .. n : as[i] = Request("REDISTRIBUTE_ADD", ts[i])
  BY SMTT(120), <1>3, <1>4
<1>6. h = <<InterfaceAdd>> \o as
  BY <1>3 DEF Hello, ts
<1> HIDE DEF as
<1>7. <<InterfaceAdd>> \in Seq(Requests) /\ Len(<<InterfaceAdd>>) = 1 /\ <<InterfaceAdd>>[1] = InterfaceAdd
  <2>1. InterfaceAdd \in Requests
    BY DEF Requests
  <2> QED BY SMTT(120), <2>1
<1>8. h \in Seq(Requests) /\ Len(h) = n + 1 /\ h[1] = InterfaceAdd
      /\ \A i \in 1 .. n : h[i + 1] = as[i]
  <2> DEFINE l == <<InterfaceAdd>>
             x == l \o as
  <2>1. l \in Seq(Requests) /\ Len(l) = 1 /\ l[1] = InterfaceAdd
    BY <1>7
  <2> HIDE DEF l
  <2>2. /\ x \in Seq(Requests) /\ Len(x) = Len(l) + Len(as)
        /\ \A i \in 1 .. Len(l) + Len(as) : x[i] = IF i <= Len(l) THEN l[i] ELSE as[i - Len(l)]
    BY <2>1, <1>5, ConcatProperties
  <2> HIDE DEF x
  <2>3. x[1] = InterfaceAdd
    <3>1. 1 \in 1 .. 1 + n /\ 1 <= 1
      BY SMTT(120), <1>3
    <3> QED BY <3>1, <2>1, <2>2, <1>5
  <2>4. ASSUME NEW i \in 1 .. n PROVE x[i + 1] = as[i]
    <3>1. i + 1 \in 1 .. 1 + n /\ ~(i + 1 <= 1) /\ (i + 1) - 1 = i
      BY SMTT(120), <1>3
    <3> QED BY <3>1, <2>1, <2>2, <1>5
  <2>5. h = x
    BY <1>6 DEF x, l
  <2>6. Len(x) = n + 1
    BY SMTT(120), <2>1, <2>2, <1>3, <1>5
  <2> QED BY <2>2, <2>3, <2>4, <2>5, <2>6
<1> HIDE DEF h
<1>9. ASSUME NEW e \in ConnType, e.in = h, e.redist = {}
      PROVE  Applied(e) = c.redist
  <2>1. DOMAIN e.in = 1 .. n + 1
    BY SMTT(120), <1>3, <1>8, <1>9
  <2>2. ASSUME NEW i \in 1 .. n + 1, NEW t \in Type
        PROVE  /\ h[i] # Request("REDISTRIBUTE_DELETE", t)
               /\ h[i] = Request("REDISTRIBUTE_ADD", t) => t \in c.redist
    <3>1. i = 1 \/ (i - 1 \in 1 .. n /\ (i - 1) + 1 = i)
      BY SMTT(120), <1>3
    <3>2. CASE i = 1
      BY SMTT(120), <3>2, <1>8 DEF InterfaceAdd, Request
    <3>3. CASE i - 1 \in 1 .. n /\ (i - 1) + 1 = i
      <4> DEFINE j == i - 1
      <4>1. j \in 1 .. n /\ j + 1 = i
        BY <3>3
      <4> HIDE DEF j
      <4>2. h[i] = Request("REDISTRIBUTE_ADD", ts[j]) /\ ts[j] \in c.redist
        BY <4>1, <1>3, <1>5, <1>8
      <4>3. ASSUME NEW u PROVE /\ Request("REDISTRIBUTE_ADD", u) # Request("REDISTRIBUTE_DELETE", t)
                               /\ Request("REDISTRIBUTE_ADD", u) = Request("REDISTRIBUTE_ADD", t) => u = t
        BY DEF Request
      <4> QED BY <4>2, <4>3
    <3> QED BY <3>1, <3>2, <3>3
  <2>3. ASSUME NEW t \in c.redist
        PROVE  \E i \in 1 .. n + 1 : h[i] = Request("REDISTRIBUTE_ADD", t)
    <3>1. PICK i \in 1 .. n : ts[i] = t
      BY <1>2, <1>3
    <3>2. i + 1 \in 1 .. n + 1
      BY SMTT(120), <1>3
    <3>3. h[i + 1] = Request("REDISTRIBUTE_ADD", t)
      BY <3>1, <1>5, <1>8
    <3> QED BY <3>2, <3>3
  <2>4. Applied(e) \subseteq c.redist
    BY <2>1, <2>2, <1>9 DEF Applied
  <2>5. ASSUME NEW t \in c.redist PROVE t \in Applied(e)
    <3>1. t \in Type
      BY <1>1
    <3>2. PICK i \in 1 .. n + 1 : h[i] = Request("REDISTRIBUTE_ADD", t)
      BY <2>3
    <3>3. /\ i \in DOMAIN e.in /\ e.in[i] = Request("REDISTRIBUTE_ADD", t)
          /\ \A j \in DOMAIN e.in : j > i => e.in[j] # Request("REDISTRIBUTE_DELETE", t)
      BY <3>1, <3>2, <2>1, <2>2, <1>9
    <3> QED BY <3>1, <3>3 DEF Applied
  <2> QED BY <2>4, <2>5
<1> QED BY <1>8, <1>9 DEF h

(* Taking an element out of a list that holds it at most once.                *)
LEMMA Unlisted ==
  ASSUME NEW s \in Seq(Fd), NEW v \in Fd,
         \A i, j \in DOMAIN s : s[i] = s[j] => i = j
  PROVE  /\ listnode_delete(s, v) \in Seq(Fd)
         /\ Members(listnode_delete(s, v)) = Members(s) \ {v}
         /\ \A i, j \in DOMAIN listnode_delete(s, v) :
              listnode_delete(s, v)[i] = listnode_delete(s, v)[j] => i = j
<1>1. CASE v \notin Members(s)
  BY <1>1 DEF listnode_delete
<1>2. CASE v \in Members(s)
  <2> DEFINE N == Len(s)
             First(i) == s[i] = v /\ \A j \in 1 .. i - 1 : s[j] # v
             k == CHOOSE i \in DOMAIN s : First(i)
             a == SubSeq(s, 1, k - 1)
             b == SubSeq(s, k + 1, N)
             d == a \o b
  <2>1. N \in Nat /\ DOMAIN s = 1 .. N
    BY SMTT(120)
  <2>2. \E i \in DOMAIN s : First(i)
    <3>1. PICK i \in DOMAIN s : s[i] = v
      BY <1>2 DEF Members
    <3>2. ASSUME NEW j \in 1 .. i - 1 PROVE s[j] # v
      <4>1. j \in DOMAIN s /\ j # i
        BY SMTT(120), <2>1
      <4> QED BY <4>1, <3>1
    <3> QED BY <3>1, <3>2
  <2>3. k \in DOMAIN s /\ First(k)
    BY <2>2
  <2>4. k \in 1 .. N /\ s[k] = v
    BY <2>1, <2>3
  <2>5. listnode_delete(s, v) = d
    BY <1>2 DEF listnode_delete
  <2> HIDE DEF k
  <2>6. /\ a \in Seq(Fd) /\ Len(a) = k - 1 /\ \A i \in 1 .. k - 1 : a[i] = s[i]
        /\ b \in Seq(Fd) /\ Len(b) = N - k /\ \A i \in 1 .. N - k : b[i] = s[k + i]
    <3>1. a \in Seq(Fd) /\ Len(a) = k - 1 /\ \A i \in 1 .. k - 1 : a[i] = s[i]
      BY SMTT(120), <2>1, <2>4
    <3> DEFINE m == k + 1
    <3>2. m = k + 1 /\ m \in Int /\ N \in Int /\ \A i \in m .. N : s[i] \in Fd
      BY SMTT(120), <2>1, <2>4
    <3> HIDE DEF m
    <3>3. /\ SubSeq(s, m, N) \in Seq(Fd)
          /\ Len(SubSeq(s, m, N)) = IF m <= N THEN N - m + 1 ELSE 0
          /\ \A i \in 1 .. N - m + 1 : SubSeq(s, m, N)[i] = s[m + i - 1]
      BY SMTT(120), <3>2, SubSeqProperties
    <3>4. /\ (IF m <= N THEN N - m + 1 ELSE 0) = N - k
          /\ N - m + 1 = N - k
      <4>1. N \in Nat /\ k \in 1 .. N /\ m = k + 1
        BY <3>2, <2>1, <2>4
      <4> HIDE DEF N
      <4>2. CASE m <= N
        BY SMTT(120), <4>1, <4>2
      <4>3. CASE ~(m <= N)
        BY SMTT(120), <4>1, <4>3
      <4> QED BY <4>2, <4>3
    <3>5. ASSUME NEW i \in 1 .. N - k PROVE m + i - 1 = k + i
      BY SMTT(120), <3>2, <2>1, <2>4
    <3>6. b = SubSeq(s, m, N)
      BY <3>2
    <3> HIDE DEF b
    <3>7. b \in Seq(Fd) /\ Len(b) = N - k
      BY <3>3, <3>4, <3>6
    <3>8. ASSUME NEW i \in 1 .. N - k PROVE b[i] = s[k + i]
      BY <3>3, <3>4, <3>5, <3>6
    <3> QED BY <3>1, <3>7, <3>8
  <2> HIDE DEF a, b
  <2>7. /\ d \in Seq(Fd) /\ Len(d) = N - 1
        /\ \A i \in 1 .. N - 1 : d[i] = IF i < k THEN s[i] ELSE s[i + 1]
    <3>0. /\ d \in Seq(Fd) /\ Len(d) = Len(a) + Len(b)
          /\ \A i \in 1 .. Len(a) + Len(b) : d[i] = IF i <= Len(a) THEN a[i] ELSE b[i - Len(a)]
      BY <2>6, ConcatProperties
    <3> HIDE DEF d
    <3>1. d \in Seq(Fd) /\ Len(d) = N - 1 /\ Len(a) + Len(b) = N - 1
      BY SMTT(120), <3>0, <2>1, <2>4, <2>6
    <3>2. ASSUME NEW i \in 1 .. N - 1 PROVE d[i] = IF i < k THEN s[i] ELSE s[i + 1]
      <4>1. CASE i < k
        BY SMTT(120), <4>1, <3>0, <3>1, <2>1, <2>4, <2>6
      <4>2. CASE ~(i < k)
        <5>1. i - (k - 1) \in 1 .. N - k /\ k + (i - (k - 1)) = i + 1 /\ i > k - 1
          BY SMTT(120), <4>2, <2>1, <2>4
        <5>2. d[i] = b[i - (k - 1)]
          <6>1. i \in 1 .. Len(a) + Len(b) /\ ~(i <= k - 1)
            BY SMTT(120), <5>1, <3>1, <2>1, <2>4
          <6> QED BY <6>1, <3>0, <2>6
        <5> QED BY <5>1, <5>2, <4>2, <2>6
      <4> QED BY <4>1, <4>2
    <3> QED BY <3>1, <3>2
  <2> HIDE DEF d
  <2>8. DOMAIN d = 1 .. N - 1
    BY SMTT(120), <2>1, <2>7
  <2> DEFINE p(i) == IF i < k THEN i ELSE i + 1
  <2>9. ASSUME NEW i \in 1 .. N - 1
        PROVE  p(i) \in 1 .. N /\ p(i) # k /\ d[i] = s[p(i)]
    BY SMTT(120), <2>1, <2>4, <2>7
  <2>10. ASSUME NEW i \in 1 .. N - 1, NEW j \in 1 .. N - 1, p(i) = p(j) PROVE i = j
    BY SMTT(120), <2>1, <2>4, <2>10
  <2>11. ASSUME NEW h \in 1 .. N, h # k PROVE \E i \in 1 .. N - 1 : p(i) = h
    <3>1. CASE h < k
      BY SMTT(120), <3>1, <2>1, <2>4
    <3>2. CASE ~(h < k)
      <4>1. h - 1 \in 1 .. N - 1 /\ p(h - 1) = h
        BY SMTT(120), <3>2, <2>1, <2>4, <2>11
      <4> QED BY <4>1
    <3> QED BY <3>1, <3>2
  <2> HIDE DEF p
  <2>12. Members(d) = Members(s) \ {v}
    <3>1. ASSUME NEW i \in 1 .. N - 1 PROVE d[i] \in Members(s) \ {v}
      <4>1. s[p(i)] # s[k]
        BY <2>9, <2>1, <2>4
      <4> QED BY <4>1, <2>9, <2>1, <2>4 DEF Members
    <3>2. ASSUME NEW h \in 1 .. N, s[h] # v PROVE s[h] \in Members(d)
      <4>1. h # k
        BY <3>2, <2>4
      <4>2. PICK i \in 1 .. N - 1 : p(i) = h
        BY <4>1, <2>11
      <4> QED BY <4>2, <2>8, <2>9 DEF Members
    <3>3. \A x \in Members(d) : x \in Members(s) \ {v}
      BY <3>1, <2>8 DEF Members
    <3>4. \A x \in Members(s) \ {v} : x \in Members(d)
      BY <3>2, <2>1 DEF Members
    <3> QED BY <3>3, <3>4
  <2>13. ASSUME NEW i \in DOMAIN d, NEW j \in DOMAIN d, d[i] = d[j] PROVE i = j
    <3>1. /\ p(i) \in DOMAIN s /\ d[i] = s[p(i)]
          /\ p(j) \in DOMAIN s /\ d[j] = s[p(j)]
      BY <2>1, <2>8, <2>9
    <3>2. p(i) = p(j)
      BY <3>1, <2>13
    <3> QED BY <3>2, <2>8, <2>10
  <2> QED BY <2>5, <2>7, <2>12, <2>13
<1> QED BY <1>1, <1>2

(* The message queue q, with the write thread armed for t, over the           *)
(* connections s: the queue is served, for open connections only, and what    *)
(* each client has yet to read is its socket buffer and then its queue.       *)
Orderly(s, q, t) ==
  /\ q # <<>> => t \in Fd
  /\ t \in Fd => s[t].state = "open"
  /\ \A i \in DOMAIN q : s[q[i].to].state = "open"
  /\ \A f \in Fd : s[f].state = "open" => s[f].due = s[f].out \o Queued(q, f)
  /\ \A f \in Fd : s[f].state # "open" => s[f].out = <<>> /\ s[f].due = <<>>

(* What is due to f is what o holds and then what q holds for it.             *)
Fits(d, o, q, f) == d = o \o Queued(q, f)

(* Another buffer, account and queue for an open connection.                  *)
LEMMA BufOrderly ==
  ASSUME NEW s \in [Fd -> ConnType], NEW f \in Fd, NEW o \in Seq(Unit), NEW d \in Seq(Unit),
         NEW q, NEW q2, NEW t, NEW t2, Orderly(s, q, t), s[f].state = "open",
         Fits(d, o, q2, f), \A g \in Fd \ {f} : Queued(q2, g) = Queued(q, g),
         q2 # <<>> => t2 \in Fd, t2 \in Fd => s[t2].state = "open",
         \A i \in DOMAIN q2 : q2[i].to \in Fd /\ s[q2[i].to].state = "open"
  PROVE  Orderly(Buf(s, f, o, d), q2, t2)
<1> DEFINE u == Buf(s, f, o, d)
<1>1. /\ u[f].out = o /\ u[f].due = d /\ u[f].state = s[f].state
      /\ \A g \in Fd \ {f} : u[g] = s[g]
  BY SMTT(120), BufFacts
<1> HIDE DEF u
<1>2. \A g \in Fd : u[g].state = s[g].state
  BY <1>1
<1>3. ASSUME NEW g \in Fd, u[g].state = "open" PROVE u[g].due = u[g].out \o Queued(q2, g)
  <2>1. CASE g = f
    BY <2>1, <1>1 DEF Fits
  <2>2. CASE g # f
    <3>1. u[g] = s[g] /\ s[g].state = "open" /\ Queued(q2, g) = Queued(q, g)
      BY <2>2, <1>1, <1>3
    <3> QED BY <3>1 DEF Orderly
  <2> QED BY <2>1, <2>2
<1>4. ASSUME NEW g \in Fd, u[g].state # "open" PROVE u[g].out = <<>> /\ u[g].due = <<>>
  <2>1. u[g] = s[g] /\ s[g].state # "open"
    BY <1>1, <1>4
  <2> QED BY <2>1 DEF Orderly
<1>5. Orderly(u, q2, t2)
  BY <1>2, <1>3, <1>4 DEF Orderly
<1> QED BY <1>5 DEF u

(* Sending to an open connection keeps the order.                             *)
LEMMA SendOrderly ==
  ASSUME NEW w \in WorldType, Small(w.srv), NEW f \in Fd,
         Orderly(w.srv, w.queue, w.t_write), w.srv[f].state = "open", ~w.srv[f].eof
  PROVE  LET v == zebra_server_send_message(w, f) IN Orderly(v.srv, v.queue, v.t_write)
<1> DEFINE s == w.srv
           q == w.queue
           t == w.t_write
           c == s[f]
           n == w.next
           k == Room(c, MsgLen)
           U == Units(n, 0)
           part == SubSeq(U, 1, k)
           e0 == Entry(f, n, 0)
           e1 == Entry(f, n, k)
           v == zebra_server_send_message(w, f)
<1>1. /\ s \in [Fd -> ConnType] /\ c \in ConnType /\ q \in Seq(Message)
      /\ t \in Fd \cup {NoFd} /\ n \in Numbers /\ NoFd \notin Fd
  BY ServAssumption DEF WorldType
<1>2. c.out \in Seq(Unit) /\ c.due \in Seq(Unit)
  BY <1>1 DEF ConnType
<1>3. /\ k \in 0 .. MsgLen
      /\ \/ q # <<>> /\ Sends(w, f, c.out, Append(q, e0), Armed(w, f))
         \/ q = <<>> /\ k = MsgLen /\ Sends(w, f, c.out \o U, q, t)
         \/ q = <<>> /\ k # MsgLen /\ Sends(w, f, c.out \o part, Append(q, e1), Armed(w, f))
  BY SendCases
<1>4. MsgLen = 2 /\ 0 \in 0 .. MsgLen /\ k \in 0 .. MsgLen - 0 /\ 0 + k = k
  BY SMTT(120), <1>3 DEF MsgLen
<1>5. U \in Seq(Unit) /\ part \in Seq(Unit) /\ U = part \o Units(n, k) /\ Units(n, k) \in Seq(Unit)
  <2>1. U \in Seq(Unit) /\ Units(n, k) \in Seq(Unit)
    BY <1>1, <1>3, <1>4, UnitsType
  <2>2. part \in Seq(Unit) /\ U = part \o Units(n, 0 + k)
    BY <1>1, <1>4, UnitsSplit
  <2> QED BY <2>1, <2>2, <1>4
<1>6. c.due = c.out \o Queued(q, f) /\ Queued(q, f) \in Seq(Unit) /\ (q = <<>> => Queued(q, f) = <<>>)
  BY <1>1, QueuedType DEF Orderly
<1> HIDE DEF s, q, t, c, n, k, U, part, e0, e1
<1>7. ASSUME NEW o \in Seq(Unit), NEW p \in Seq(Message), NEW r, Sends(w, f, o, p, r),
             c.due \o U = o \o Queued(p, f), \A g \in Fd \ {f} : Queued(p, g) = Queued(q, g),
             p # <<>> => r \in Fd, r \in Fd => s[r].state = "open",
             \A i \in DOMAIN p : p[i].to \in Fd /\ s[p[i].to].state = "open"
      PROVE  Orderly(v.srv, v.queue, v.t_write)
  <2> DEFINE d == c.due \o U
  <2>1. d \in Seq(Unit)
    BY <1>2, <1>5, ConcatProperties
  <2>2. v.srv = Buf(s, f, o, d) /\ v.queue = p /\ v.t_write = r
    BY <1>7 DEF Sends, s, c, U, n
  <2>3. Orderly(s, q, t) /\ s[f].state = "open" /\ Fits(d, o, p, f)
    BY <1>7 DEF s, q, t, Fits
  <2> HIDE DEF d
  <2>4. Orderly(Buf(s, f, o, d), p, r)
    BY <1>1, <1>7, <2>1, <2>3, BufOrderly
  <2> QED BY <2>2, <2>4
<1>8. ASSUME NEW m \in Message, m.to = f
      PROVE  /\ Append(q, m) \in Seq(Message) /\ Append(q, m) # <<>>
             /\ Queued(Append(q, m), f) = Queued(q, f) \o Units(m.n, m.written)
             /\ \A g \in Fd \ {f} : Queued(Append(q, m), g) = Queued(q, g)
             /\ \A i \in DOMAIN Append(q, m) :
                  Append(q, m)[i].to \in Fd /\ s[Append(q, m)[i].to].state = "open"
  <2>1. Append(q, m) \in Seq(Message) /\ Append(q, m) # <<>>
    <3>1. Append(q, m) \in Seq(Message) /\ Len(Append(q, m)) = Len(q) + 1 /\ Len(q) \in Nat
      BY SMTT(120), <1>1, AppendProperties
    <3>2. Len(Append(q, m)) # 0 /\ Len(<<>>) = 0
      BY SMTT(120), <3>1
    <3> QED BY <3>1, <3>2
  <2>2. Queued(Append(q, m), f) = Queued(q, f) \o Units(m.n, m.written)
    BY <1>1, <1>8, QueuedAppend DEF Rest
  <2>3. ASSUME NEW g \in Fd \ {f} PROVE Queued(Append(q, m), g) = Queued(q, g)
    <3>1. Queued(Append(q, m), g) = Queued(q, g) \o <<>>
      BY <1>1, <1>8, QueuedAppend DEF Rest
    <3>2. Queued(q, g) \in Seq(Unit)
      BY <1>1, QueuedType
    <3> QED BY <3>1, <3>2, ConcatEmptySeq
  <2>4. ASSUME NEW i \in DOMAIN Append(q, m)
        PROVE  Append(q, m)[i].to \in Fd /\ s[Append(q, m)[i].to].state = "open"
    <3>1. (i \in DOMAIN q /\ Append(q, m)[i] = q[i]) \/ Append(q, m)[i] = m
      BY SMTT(120), <1>1
    <3>2. CASE i \in DOMAIN q /\ Append(q, m)[i] = q[i]
      <4>1. q[i] \in Message
        BY SMTT(120), <3>2, <1>1
      <4>2. q[i].to \in Fd
        BY <4>1 DEF Message
      <4> QED BY <3>2, <4>2 DEF Orderly, s, q
    <3>3. CASE Append(q, m)[i] = m
      BY <3>3, <1>8 DEF s
    <3> QED BY <3>1, <3>2, <3>3
  <2> QED BY <2>1, <2>2, <2>3, <2>4
<1>9. Armed(w, f) \in Fd /\ s[Armed(w, f)].state = "open"
  <2>1. CASE t = NoFd
    BY <2>1 DEF Armed, t, s
  <2>2. CASE t # NoFd
    <3>1. t \in Fd /\ Armed(w, f) = t
      BY <2>2, <1>1 DEF Armed, t
    <3> QED BY <3>1 DEF Orderly, s, t
  <2> QED BY <2>1, <2>2
<1>10. CASE q # <<>> /\ Sends(w, f, c.out, Append(q, e0), Armed(w, f))
  <2>1. e0 \in Message /\ e0.to = f /\ e0.n = n /\ e0.written = 0
    BY SMTT(120), <1>1, <1>4 DEF e0, Entry, Message
  <2> DEFINE p == Append(q, e0)
  <2>2. /\ p \in Seq(Message) /\ p # <<>> /\ Queued(p, f) = Queued(q, f) \o U
        /\ \A g \in Fd \ {f} : Queued(p, g) = Queued(q, g)
        /\ \A i \in DOMAIN p : p[i].to \in Fd /\ s[p[i].to].state = "open"
    BY <2>1, <1>8 DEF U
  <2> DEFINE x == Queued(q, f)
             o == c.out
  <2>3. c.due \o U = o \o (x \o U)
    <3>1. c.due = o \o x
      BY <1>6
    <3>2. o \in Seq(Unit) /\ x \in Seq(Unit)
      BY <1>2, <1>6
    <3>3. U \in Seq(Unit)
      BY <1>5
    <3> HIDE DEF o, x
    <3>4. (o \o x) \o U = o \o (x \o U)
      BY SMTT(120), <3>2, <3>3, ConcatAssociative
    <3> QED BY <3>1, <3>4
  <2> DEFINE r == Armed(w, f)
  <2>4. c.due \o U = o \o Queued(p, f) /\ o \in Seq(Unit)
    BY <2>2, <2>3, <1>2
  <2>5. Sends(w, f, o, p, r) /\ r \in Fd /\ s[r].state = "open"
    BY <1>9, <1>10
  <2> HIDE DEF p, o, x, r, v
  <2>9. Orderly(v.srv, v.queue, v.t_write)
    BY <1>7, <2>2, <2>4, <2>5
  <2> QED BY <2>9 DEF v
<1>11. CASE q = <<>> /\ k = MsgLen /\ Sends(w, f, c.out \o U, q, t)
  <2> DEFINE o == c.out \o U
  <2>1. o \in Seq(Unit)
    BY <1>2, <1>5, ConcatProperties
  <2>2. c.due = c.out /\ Queued(q, f) = <<>>
    BY <1>2, <1>6, <1>11, ConcatEmptySeq
  <2>3. c.due \o U = o \o Queued(q, f)
    <3>1. o \o <<>> = o
      BY <2>1, ConcatEmptySeq
    <3> QED BY <3>1, <2>2
  <2>4. t \in Fd => s[t].state = "open"
    BY DEF Orderly, s, t
  <2>5. \A i \in DOMAIN q : q[i].to \in Fd /\ s[q[i].to].state = "open"
    <3>1. DOMAIN q = {}
      BY SMTT(120), <1>11
    <3> QED BY <3>1
  <2> HIDE DEF o, v
  <2>6. Sends(w, f, o, q, t)
    BY <1>11 DEF o
  <2>9. Orderly(v.srv, v.queue, v.t_write)
    BY <1>1, <1>7, <1>11, <2>1, <2>3, <2>4, <2>5, <2>6
  <2> QED BY <2>9 DEF v
<1>12. CASE q = <<>> /\ k # MsgLen /\ Sends(w, f, c.out \o part, Append(q, e1), Armed(w, f))
  <2>1. e1 \in Message /\ e1.to = f /\ e1.n = n /\ e1.written = k
    <3>1. k \in 0 .. MsgLen - 1
      BY SMTT(120), <1>4, <1>12
    <3> QED BY <1>1, <3>1 DEF e1, Entry, Message
  <2> DEFINE p == Append(q, e1)
             rest == Units(n, k)
             o == c.out \o part
             r == Armed(w, f)
  <2>2. /\ p \in Seq(Message) /\ p # <<>> /\ Queued(p, f) = Queued(q, f) \o rest
        /\ \A g \in Fd \ {f} : Queued(p, g) = Queued(q, g)
        /\ \A i \in DOMAIN p : p[i].to \in Fd /\ s[p[i].to].state = "open"
    BY <2>1, <1>8
  <2>3. c.due = c.out /\ Queued(p, f) = rest
    <3>1. c.out \o <<>> = c.out /\ <<>> \o rest = rest
      BY <1>2, <1>5, ConcatEmptySeq
    <3> QED BY <3>1, <2>2, <1>6, <1>12
  <2>4. o \in Seq(Unit) /\ c.due \o U = o \o Queued(p, f)
    <3> DEFINE a == c.out
    <3>0. U = part \o rest
      BY <1>5
    <3>1. a \in Seq(Unit) /\ part \in Seq(Unit) /\ rest \in Seq(Unit)
      BY <1>2, <1>5
    <3> HIDE DEF rest, a
    <3>2. a \o part \in Seq(Unit)
      BY <3>1, ConcatProperties
    <3>3. (a \o part) \o rest = a \o (part \o rest)
      BY SMTT(120), <3>1, ConcatAssociative
    <3> QED BY <3>0, <3>2, <3>3, <2>3 DEF a, rest
  <2>5. Sends(w, f, o, p, r) /\ r \in Fd /\ s[r].state = "open"
    BY <1>9, <1>12
  <2> HIDE DEF p, o, r, v
  <2>9. Orderly(v.srv, v.queue, v.t_write)
    BY <1>7, <2>2, <2>4, <2>5
  <2> QED BY <2>9 DEF v
<1> QED BY <1>3, <1>10, <1>11, <1>12

(* The write thread keeps the order when the first message is for the         *)
(* connection it writes to.                                                   *)
LEMMA DequeueOrderly ==
  ASSUME NEW w \in WorldType, Small(w.srv), w.t_write \in Fd, w.queue # <<>>,
         Orderly(w.srv, w.queue, w.t_write), Head(w.queue).to = w.t_write,
         ~w.srv[w.t_write].eof
  PROVE  LET v == zebra_server_dequeue(w) IN Orderly(v.srv, v.queue, v.t_write)
<1> DEFINE s == w.srv
           q == w.queue
           f == w.t_write
           c == s[f]
           m == Head(q)
           left == Units(m.n, m.written)
           k == Room(c, Len(left))
           part == SubSeq(left, 1, k)
           over == Units(m.n, m.written + k)
           p == Shorter(q, left, k)
           o == c.out \o part
           tail == Queued(Tail(q), f)
           v == zebra_server_dequeue(w)
<1>1. /\ s \in [Fd -> ConnType] /\ c \in ConnType /\ q \in Seq(Message) /\ m \in Message
      /\ Tail(q) \in Seq(Message) /\ NoFd \notin Fd
  <2>1. s \in [Fd -> ConnType] /\ q \in Seq(Message) /\ NoFd \notin Fd
    BY ServAssumption DEF WorldType
  <2> QED BY <2>1, HeadTailProperties
<1>2. c.state = "open" /\ c.due = c.out \o Queued(q, f)
  BY DEF Orderly
<1>3. Writes(w, v)
  BY <1>2, DequeueCases
<1>4. /\ k \in 0 .. Len(left)
      /\ v.srv = Buf(s, f, o, c.due) /\ v.queue = p
      /\ v.t_write = IF p = <<>> THEN NoFd ELSE f
  BY <1>3 DEF Writes
<1>5. /\ m.n \in Numbers /\ m.written \in 0 .. MsgLen /\ MsgLen = 2
  BY SMTT(120), <1>1 DEF Message, MsgLen
<1>6. left \in Seq(Unit) /\ Len(left) = MsgLen - m.written
  BY <1>5, UnitsType
<1>7. k \in 0 .. MsgLen - m.written
  BY <1>4, <1>6
<1>8. /\ part \in Seq(Unit) /\ left = part \o over
  BY <1>5, <1>7, UnitsSplit
<1>9. m.written + k \in 0 .. MsgLen /\ (k = Len(left) => m.written + k = MsgLen)
      /\ (k # Len(left) => m.written + k \in 0 .. MsgLen - 1)
  BY SMTT(120), <1>5, <1>6, <1>7
<1>10. over \in Seq(Unit) /\ Len(over) = MsgLen - (m.written + k)
  BY <1>5, <1>9, UnitsType
<1>11. p \in Seq(Message)
  BY <1>1, <1>7, ShorterType
<1>12. Queued(q, f) = left \o tail /\ tail \in Seq(Unit) /\ Queued(q, f) \in Seq(Unit)
  <2>1. Queued(q, f) = Rest(m, f) \o tail
    BY <1>1, QueuedHead
  <2>2. Rest(m, f) = left
    BY DEF Rest
  <2>3. tail \in Seq(Unit) /\ Queued(q, f) \in Seq(Unit)
    BY <1>1, QueuedType
  <2> QED BY <2>1, <2>2, <2>3
<1>13. c.out \in Seq(Unit) /\ c.due \in Seq(Unit)
  BY <1>1 DEF ConnType
<1> HIDE DEF s, q, f, c, m, left, k, part, over, p, o, tail, v
<1>14. ASSUME k = Len(left)
       PROVE  /\ Queued(p, f) = over \o tail
              /\ \A g \in Fd \ {f} : Queued(p, g) = Queued(q, g)
              /\ \A i \in DOMAIN p : p[i].to \in Fd /\ s[p[i].to].state = "open"
  <2>1. p = Tail(q)
    BY <1>14 DEF p, Shorter
  <2>2. over = <<>>
    <3>1. Len(over) = 0
      BY SMTT(120), <1>9, <1>10, <1>14, <1>5
    <3> QED BY <3>1, <1>10, EmptySeq
  <2>3. <<>> \o tail = tail
    BY <1>12, ConcatEmptySeq
  <2>4. Queued(p, f) = over \o tail
    BY <2>1, <2>2, <2>3 DEF tail
  <2>5. ASSUME NEW g \in Fd \ {f} PROVE Queued(p, g) = Queued(q, g)
    <3> DEFINE x == Queued(Tail(q), g)
    <3>1. Queued(q, g) = Rest(m, g) \o x
      BY <1>1, QueuedHead DEF m, q
    <3>2. Rest(m, g) = <<>>
      BY DEF Rest, m, q, f
    <3>3. x \in Seq(Unit)
      BY <1>1, QueuedType
    <3> HIDE DEF x
    <3>4. <<>> \o x = x
      BY <3>3, ConcatEmptySeq
    <3>5. Queued(p, g) = x
      BY <2>1 DEF x
    <3> QED BY <3>1, <3>2, <3>4, <3>5
  <2>6. ASSUME NEW i \in DOMAIN p PROVE p[i].to \in Fd /\ s[p[i].to].state = "open"
    <3>1. i + 1 \in DOMAIN q /\ p[i] = q[i + 1] /\ q[i + 1] \in Message
      <4>1. q \in Seq(Message) /\ q # <<>>
        BY <1>1 DEF q
      <4> QED BY SMTT(120), <4>1, <2>1, <2>6
    <3>2. q[i + 1].to \in Fd
      BY <3>1 DEF Message
    <3> QED BY <3>1, <3>2 DEF Orderly, s, q
  <2> QED BY <2>4, <2>5, <2>6
<1>15. ASSUME k # Len(left)
       PROVE  /\ Queued(p, f) = over \o tail
              /\ \A g \in Fd \ {f} : Queued(p, g) = Queued(q, g)
              /\ \A i \in DOMAIN p : p[i].to \in Fd /\ s[p[i].to].state = "open"
  <2> DEFINE j == m.written + k
             e == [m EXCEPT !.written = j]
  <2>1. /\ e \in Message /\ e.to = m.to /\ e.n = m.n /\ e.written = j
    <3>1. j \in 0 .. MsgLen - 1
      BY <1>9, <1>15
    <3> HIDE DEF j
    <3> QED BY <3>1, <1>1 DEF Message
  <2>2. p = [q EXCEPT ![1] = e]
    <3>1. q # <<>> /\ q[1] = m
      BY SMTT(120), <1>1 DEF m, q
    <3> QED BY <3>1, <1>15 DEF p, Shorter, m
  <2> HIDE DEF e, j
  <2>3. /\ Len(p) = Len(q) /\ Len(q) \in Nat \ {0} /\ p[1] = e /\ DOMAIN p = DOMAIN q /\ DOMAIN q = 1 .. Len(q)
        /\ \A i \in 1 .. Len(q) : i # 1 => p[i] = q[i]
    <3>1. q \in Seq(Message) /\ q # <<>>
      BY <1>1 DEF q
    <3>2. Len(q) \in Nat \ {0} /\ DOMAIN q = 1 .. Len(q) /\ 1 \in 1 .. Len(q)
      BY SMTT(120), <3>1
    <3>3. DOMAIN p = DOMAIN q /\ p[1] = e /\ \A i \in DOMAIN q : i # 1 => p[i] = q[i]
      BY <3>2, <2>2
    <3>4. Len(p) = Len(q)
      BY SMTT(120), <3>2, <3>3, <1>11
    <3> QED BY <3>2, <3>3, <3>4
  <2>4. p # <<>> /\ Head(p) = e
    <3>1. Len(p) # 0
      BY <2>3
    <3>2. p # <<>>
      BY SMTT(120), <3>1
    <3> QED BY SMTT(120), <2>3, <3>2, <1>11
  <2>5. Tail(p) = Tail(q)
    <3>1. /\ Len(Tail(p)) = Len(p) - 1 /\ Len(Tail(q)) = Len(q) - 1
          /\ \A i \in 1 .. Len(p) - 1 : Tail(p)[i] = p[i + 1]
          /\ \A i \in 1 .. Len(q) - 1 : Tail(q)[i] = q[i + 1]
          /\ Tail(p) \in Seq(Message) /\ Tail(q) \in Seq(Message)
      <4>1. q \in Seq(Message) /\ q # <<>>
        BY <1>1 DEF q
      <4> QED BY SMTT(120), <4>1, <2>4, <1>11
    <3>2. ASSUME NEW i \in 1 .. Len(q) - 1 PROVE Tail(p)[i] = Tail(q)[i]
      <4>1. i + 1 \in 1 .. Len(q) /\ i + 1 # 1
        BY SMTT(120), <2>3
      <4>2. p[i + 1] = q[i + 1]
        BY <4>1, <2>3
      <4> QED BY <4>2, <3>1, <2>3
    <3>3. Len(Tail(p)) = Len(Tail(q)) /\ Len(Tail(q)) = Len(q) - 1
      BY <3>1, <2>3
    <3> QED BY <3>1, <3>2, <3>3, SeqEqual
  <2>6. ASSUME NEW g \in Fd PROVE Queued(p, g) = Rest(e, g) \o Queued(Tail(q), g)
    BY <1>11, <2>4, <2>5, QueuedHead
  <2>7. Queued(p, f) = over \o tail
    <3>1. Rest(e, f) = over /\ f \in Fd
      BY <2>1 DEF Rest, over, j, m, q, f
    <3> QED BY <3>1, <2>6 DEF tail
  <2>8. ASSUME NEW g \in Fd \ {f} PROVE Queued(p, g) = Queued(q, g)
    <3>1. Rest(e, g) = <<>> /\ Rest(m, g) = <<>>
      BY <2>1 DEF Rest, m, q, f
    <3>2. Queued(q, g) = Rest(m, g) \o Queued(Tail(q), g)
      BY <1>1, QueuedHead DEF m, q
    <3> QED BY <3>1, <3>2, <2>6
  <2>9. ASSUME NEW i \in DOMAIN p PROVE p[i].to \in Fd /\ s[p[i].to].state = "open"
    <3>1. i \in DOMAIN q /\ 1 \in DOMAIN q
      BY SMTT(120), <2>3
    <3>2. p[i].to = q[i].to
      <4>1. CASE i = 1
        <5>1. q[1] = m
          BY SMTT(120), <1>1 DEF m, q
        <5> QED BY <4>1, <5>1, <2>1, <2>3
      <4>2. CASE i # 1
        BY <4>2, <2>3
      <4> QED BY <4>1, <4>2
    <3>3. q[i] \in Message
      BY SMTT(120), <3>1, <1>1
    <3>4. q[i].to \in Fd
      BY <3>3 DEF Message
    <3> QED BY <3>1, <3>2, <3>4 DEF Orderly, s, q
  <2> QED BY <2>7, <2>8, <2>9
<1>16. /\ Queued(p, f) = over \o tail
       /\ \A g \in Fd \ {f} : Queued(p, g) = Queued(q, g)
       /\ \A i \in DOMAIN p : p[i].to \in Fd /\ s[p[i].to].state = "open"
  BY <1>14, <1>15
<1>17. Fits(c.due, o, p, f) /\ o \in Seq(Unit)
  <2> DEFINE a == c.out
  <2>1. a \in Seq(Unit) /\ part \in Seq(Unit) /\ over \in Seq(Unit) /\ tail \in Seq(Unit)
    BY <1>8, <1>10, <1>12, <1>13
  <2> HIDE DEF a
  <2>2. over \o tail \in Seq(Unit) /\ a \o part \in Seq(Unit)
    BY <2>1, ConcatProperties
  <2>3. (part \o over) \o tail = part \o (over \o tail)
    BY SMTT(120), <2>1, ConcatAssociative
  <2> DEFINE b == over \o tail
  <2>4. a \in Seq(Unit) /\ part \in Seq(Unit) /\ b \in Seq(Unit)
    BY <2>1, <2>2
  <2> HIDE DEF b
  <2>5. (a \o part) \o b = a \o (part \o b)
    BY SMTT(120), <2>4, ConcatAssociative
  <2>6. c.due = a \o (left \o tail)
    BY <1>2, <1>12 DEF a
  <2>7. c.due = a \o (part \o b)
    BY <2>3, <2>6, <1>8 DEF b
  <2>8. o = a \o part /\ Queued(p, f) = b
    BY <1>16 DEF o, a, b
  <2> QED BY <2>2, <2>5, <2>7, <2>8 DEF Fits
<1>18. Orderly(Buf(s, f, o, c.due), p, v.t_write)
  <2> DEFINE r == v.t_write
             d == c.due
  <2>1. (p # <<>> => r \in Fd) /\ (r \in Fd => s[r].state = "open")
    BY <1>1, <1>2, <1>4 DEF f, c
  <2>2. Orderly(s, q, f) /\ s[f].state = "open" /\ f \in Fd /\ d \in Seq(Unit) /\ Fits(d, o, p, f)
    BY <1>2, <1>13, <1>17 DEF s, q, f, c
  <2> HIDE DEF r, d
  <2>3. Orderly(Buf(s, f, o, d), p, r)
    BY <1>1, <1>16, <1>17, <2>1, <2>2, BufOrderly
  <2> QED BY <2>3 DEF r, d
<1>19. Orderly(v.srv, v.queue, v.t_write)
  BY <1>4, <1>18
<1> QED BY <1>19 DEF v

(* Telling all clients keeps the order.                                       *)
LEMMA TellOrderly ==
  ASSUME NEW w \in WorldType, Small(w.srv), NEW l \in Seq(Fd),
         Orderly(w.srv, w.queue, w.t_write),
         \A i \in 1 .. Len(l) : w.srv[l[i]].state = "open" /\ ~w.srv[l[i]].eof
  PROVE  LET v == TellAll(w, l) IN Orderly(v.srv, v.queue, v.t_write)
<1>0. PICK G : Chain(G, w, l)
  BY TellSteps
<1>1. /\ G[0] = w /\ TellAll(w, l) = G[Len(l)]
      /\ \A i \in 1 .. Len(l) : G[i] = TellOne(G[i - 1], l[i])
  BY <1>0 DEF Chain
<1> DEFINE Good(v) == /\ v \in WorldType /\ Small(v.srv) /\ Alike(w.srv, v.srv)
                      /\ Orderly(v.srv, v.queue, v.t_write)
           T == {i \in 0 .. Len(l) : ~Good(G[i])}
<1>2. Len(l) \in Nat /\ \A i \in 1 .. Len(l) : l[i] \in Fd
  BY SMTT(120)
<1>3. T = {}
  <2> SUFFICES ASSUME T # {} PROVE FALSE
    OBVIOUS
  <2>1. T \in SUBSET Nat
    <3>1. \A i \in 0 .. Len(l) : i \in Nat
      BY SMTT(120), <1>2
    <3> QED BY <3>1
  <2> HIDE DEF T
  <2>2. PICK m \in T : \A y \in T : m <= y
    BY <2>1, NatMin
  <2> USE DEF T
  <2>3. m \in 0 .. Len(l) /\ ~Good(G[m])
    OBVIOUS
  <2>4. Good(w)
    BY DEF Alike
  <2>5. m # 0
    BY <2>3, <2>4, <1>1
  <2>6. m \in 1 .. Len(l) /\ m - 1 \in 0 .. Len(l) /\ ~(m <= m - 1)
    BY SMTT(120), <2>3, <2>5, <1>2
  <2>7. Good(G[m - 1])
    BY <2>2, <2>6
  <2> DEFINE v == G[m - 1]
             f == l[m]
  <2>8. G[m] = TellOne(v, f) /\ f \in Fd /\ w.srv[f].state = "open" /\ ~w.srv[f].eof
    BY <2>6, <1>1, <1>2
  <2>9. /\ v \in WorldType /\ Small(v.srv) /\ Alike(w.srv, v.srv)
        /\ Orderly(v.srv, v.queue, v.t_write)
    BY <2>7
  <2> HIDE DEF v, f, T
  <2>10. /\ TellOne(v, f) \in WorldType /\ Small(TellOne(v, f).srv)
         /\ Alike(v.srv, TellOne(v, f).srv)
    BY <2>8, <2>9, TellOneKeeps
  <2>11. Alike(w.srv, TellOne(v, f).srv)
    BY <2>9, <2>10, AlikeTrans
  <2>12. v.srv[f].state = "open" /\ ~v.srv[f].eof
    BY <2>8, <2>9 DEF Alike
  <2> DEFINE x == zebra_server_send_message(v, f)
  <2>13. Orderly(x.srv, x.queue, x.t_write)
    BY <2>8, <2>9, <2>12, SendOrderly
  <2> HIDE DEF x
  <2>14. TellOne(v, f) = v \/ TellOne(v, f) = x
    BY DEF TellOne, x
  <2>15. Orderly(TellOne(v, f).srv, TellOne(v, f).queue, TellOne(v, f).t_write)
    BY <2>9, <2>13, <2>14
  <2>16. Good(TellOne(v, f))
    BY <2>10, <2>11, <2>15
  <2> QED BY <2>3, <2>8, <2>16
<1>4. Len(l) \in 0 .. Len(l)
  BY SMTT(120), <1>2
<1>5. Good(G[Len(l)])
  BY <1>3, <1>4
<1> QED BY <1>1, <1>5

(* Only states, buffers and accounts matter.                                  *)
LEMMA SameOrder ==
  ASSUME NEW s, NEW t, NEW q \in Seq(Message), NEW r, Orderly(s, q, r),
         \A g \in Fd : /\ t[g].state = "open" <=> s[g].state = "open"
                       /\ t[g].out = s[g].out /\ t[g].due = s[g].due
  PROVE  Orderly(t, q, r)
<1>1. ASSUME NEW i \in DOMAIN q PROVE q[i].to \in Fd
  <2>1. q[i] \in Message
    BY SMTT(120)
  <2> QED BY <2>1 DEF Message
<1>2. \A i \in DOMAIN q : t[q[i].to].state = "open"
  BY <1>1 DEF Orderly
<1>3. \A f \in Fd : t[f].state = "open" => t[f].due = t[f].out \o Queued(q, f)
  BY DEF Orderly
<1>4. \A f \in Fd : t[f].state # "open" => t[f].out = <<>> /\ t[f].due = <<>>
  BY DEF Orderly
<1>5. (q # <<>> => r \in Fd) /\ (r \in Fd => t[r].state = "open")
  BY DEF Orderly
<1> QED BY <1>2, <1>3, <1>4, <1>5 DEF Orderly

(* The answer to a request keeps the order.                                   *)
LEMMA DispatchOrderly ==
  ASSUME NEW w \in WorldType, Small(w.srv), NEW f \in Fd, NEW r \in Requests,
         Orderly(w.srv, w.queue, w.t_write), w.srv[f].state = "open", ~w.srv[f].eof
  PROVE  LET v == Dispatch(w, f, r) IN Orderly(v.srv, v.queue, v.t_write)
<1> DEFINE s == w.srv
           R == s[f].redist
           Put(A, i) == [s EXCEPT ![f] = [s[f] EXCEPT !.redist = A, !.ifinfo = i]]
           d == Dispatch(w, f, r)
           V(A, i) == [w EXCEPT !.srv = Put(A, i)]
           X(A, i) == zebra_server_send_message(V(A, i), f)
<1>1. /\ s \in [Fd -> ConnType] /\ s[f] \in ConnType /\ w.queue \in Seq(Message)
      /\ Small(s) /\ Orderly(s, w.queue, w.t_write) /\ s[f].state = "open" /\ ~s[f].eof
  BY DEF WorldType
<1>2. R \in SUBSET Type /\ s[f].ifinfo \in BOOLEAN /\ TRUE \in BOOLEAN
  BY <1>1 DEF ConnType
<1>3. r.cmd # "INTERFACE_ADD" => r.type \in Type
  BY SMTT(120) DEF Requests, InterfaceAdd, Request
<1>4. R \cup {r.type} \in SUBSET Type \/ r.cmd = "INTERFACE_ADD"
  BY <1>2, <1>3
<1>5. R \ {r.type} \in SUBSET Type
  BY <1>2
<1>6. ASSUME NEW A \in SUBSET Type, NEW i \in BOOLEAN
      PROVE  /\ Orderly(V(A, i).srv, V(A, i).queue, V(A, i).t_write)
             /\ Orderly(X(A, i).srv, X(A, i).queue, X(A, i).t_write)
  <2> DEFINE t == Put(A, i)
             v == [w EXCEPT !.srv = t]
             x == zebra_server_send_message(v, f)
             e == [s[f] EXCEPT !.redist = A, !.ifinfo = i]
  <2>1. e.state = s[f].state /\ e.out = s[f].out /\ e.due = s[f].due /\ e.eof = s[f].eof
    BY <1>1 DEF ConnType
  <2>2. t[f] = e /\ \A g \in Fd \ {f} : t[g] = s[g]
    <3> HIDE DEF e
    <3>1. s \in [Fd -> ConnType]
      BY <1>1
    <3> QED BY <3>1 DEF e
  <2> HIDE DEF e
  <2>3. t \in [Fd -> ConnType] /\ Small(t)
    <3> HIDE DEF s
    <3> QED BY <1>1, SetRecord
  <2> HIDE DEF t, s
  <2>4. \A g \in Fd : /\ t[g].state = "open" <=> s[g].state = "open"
                     /\ t[g].out = s[g].out /\ t[g].due = s[g].due
    BY <2>1, <2>2
  <2>5. t[f].state = "open" /\ ~t[f].eof
    BY <2>1, <2>2, <1>1
  <2>6. Orderly(t, w.queue, w.t_write)
    BY <2>4, <1>1, SameOrder
  <2>7. v \in WorldType /\ v.srv = t /\ v.queue = w.queue /\ v.t_write = w.t_write
    BY <2>3, WithSrv
  <2> HIDE DEF v
  <2>8. Orderly(v.srv, v.queue, v.t_write)
    BY <2>6, <2>7
  <2>9. Orderly(x.srv, x.queue, x.t_write)
    BY <2>3, <2>5, <2>7, <2>8, SendOrderly
  <2> QED BY <2>8, <2>9 DEF v, t, x
<1>7. CASE r.cmd = "INTERFACE_ADD"
  <2>1. [w EXCEPT !.srv[f].ifinfo = TRUE] = V(R, TRUE)
    BY <1>1 DEF WorldType, ConnType
  <2>2. d = X(R, TRUE)
    BY <2>1, <1>7 DEF Dispatch
  <2> HIDE DEF X, V, d, R
  <2>3. Orderly(d.srv, d.queue, d.t_write)
    BY <2>2, <1>2, <1>6
  <2> QED BY <2>3 DEF d
<1>8. CASE r.cmd # "INTERFACE_ADD" /\ r.cmd = "REDISTRIBUTE_DELETE"
  <2>1. [w EXCEPT !.srv[f].redist = @ \ {r.type}] = V(R \ {r.type}, s[f].ifinfo)
    BY <1>1 DEF WorldType, ConnType
  <2>2. d = V(R \ {r.type}, s[f].ifinfo)
    BY <2>1, <1>8 DEF Dispatch
  <2> HIDE DEF X, V, d, R
  <2>3. Orderly(d.srv, d.queue, d.t_write)
    BY <2>2, <1>2, <1>5, <1>6
  <2> QED BY <2>3 DEF d
<1>9. CASE r.cmd # "INTERFACE_ADD" /\ r.cmd # "REDISTRIBUTE_DELETE" /\ r.type \in R
  <2>1. d = w
    BY <1>9 DEF Dispatch
  <2> QED BY <2>1
<1>10. CASE r.cmd # "INTERFACE_ADD" /\ r.cmd # "REDISTRIBUTE_DELETE" /\ r.type \notin R
  <2>1. [w EXCEPT !.srv[f].redist = @ \cup {r.type}] = V(R \cup {r.type}, s[f].ifinfo)
    BY <1>1 DEF WorldType, ConnType
  <2>2. d = X(R \cup {r.type}, s[f].ifinfo)
    BY <2>1, <1>10 DEF Dispatch
  <2> HIDE DEF X, V, d, R
  <2>3. Orderly(d.srv, d.queue, d.t_write)
    BY <2>2, <1>2, <1>4, <1>6, <1>10
  <2> QED BY <2>3 DEF d
<1> QED BY <1>7, <1>8, <1>9, <1>10
=============================================================================
