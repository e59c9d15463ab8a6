--------------------------- MODULE BgpFsmRecords ----------------------------
(* What the moves of BgpFsmMoves preserve of one structure, and where they   *)
(* may take its session. Nothing here depends on how the handlers get there. *)
EXTENDS BgpFsmMoves, TLAPS

(* The prover of every step that does not name another one.                  *)
USE ZenonT(60)

(* The timers of a status depend on no field besides these.                  *)
LEMMA TimersOfSame ==
  ASSUME NEW r \in PeerType, NEW s, NEW p, s.status = r.status, s.shut = r.shut,
         s.over = r.over, s.hold = r.hold
  PROVE  TimersOf(s, p) = TimersOf(r, p)
BY DEF TimersOf

(* The list of peers and peer_delete.                                        *)
Unique(s) == \A i, j \in 1..Len(s) : s[i] = s[j] => i = j

(* listnode_delete takes one occurrence off the list.                        *)
LEMMA DeleteAt ==
  ASSUME NEW s \in Seq(Peer), NEW v, Live(s, v)
  PROVE  LET t == listnode_delete(s, v)
         IN  \E k \in 1..Len(s) :
               /\ s[k] = v /\ Len(t) = Len(s) - 1
               /\ \A i \in 1..(k - 1) : t[i] = s[i]
               /\ \A i \in k..(Len(s) - 1) : t[i] = s[i + 1]
<1> DEFINE k == CHOOSE i \in 1..Len(s) : s[i] = v
           a == SubSeq(s, 1, k - 1)
           b == SubSeq(s, k + 1, Len(s))
<1>1. k \in 1..Len(s) /\ s[k] = v
  BY DEF Live
<1>2. listnode_delete(s, v) = a \o b
  BY DEF listnode_delete, Live
<1> HIDE DEF k
<1>3. /\ a \in Seq(Peer) /\ Len(a) = k - 1
      /\ \A i \in 1..(k - 1) : a[i] = s[i]
  BY SMTT(120), <1>1
<1>4. /\ b \in Seq(Peer) /\ Len(b) = Len(s) - k
      /\ \A i \in 1..(Len(s) - k) : b[i] = s[i + k]
  BY SMTT(120), <1>1
<1> HIDE DEF a, b
<1>5. /\ Len(a \o b) = Len(s) - 1
      /\ \A i \in 1..(k - 1) : (a \o b)[i] = s[i]
  <2>1. Len(a \o b) = Len(a) + Len(b)
    BY SMTT(120), <1>3, <1>4
  <2>2. \A i \in 1..Len(a) : (a \o b)[i] = a[i]
    BY SMTT(120), <1>3, <1>4
  <2> QED BY SMTT(120), <1>1, <1>3, <1>4, <2>1, <2>2
<1>6. ASSUME NEW i \in k..(Len(s) - 1)
      PROVE  (a \o b)[i] = s[i + 1]
  <2>1. (a \o b)[i] = b[i - (k - 1)]
    BY SMTT(120), <1>1, <1>3, <1>4
  <2>2. i - (k - 1) \in 1..(Len(s) - k) /\ i - (k - 1) + k = i + 1
    BY SMTT(120), <1>1
  <2> QED BY <1>4, <2>1, <2>2
<1> QED BY <1>1, <1>2, <1>5, <1>6

(* The other members of the list stay on it.                                 *)
LEMMA DeleteOthers ==
  ASSUME NEW s \in Seq(Peer), NEW v, NEW q, q # v
  PROVE  Live(listnode_delete(s, v), q) <=> Live(s, q)
<1> DEFINE t == listnode_delete(s, v)
<1>1. CASE ~Live(s, v)
  BY <1>1 DEF listnode_delete, Live
<1>2. CASE Live(s, v)
  <2>1. PICK k \in 1..Len(s) :
               /\ s[k] = v /\ Len(t) = Len(s) - 1
               /\ \A i \in 1..(k - 1) : t[i] = s[i]
               /\ \A i \in k..(Len(s) - 1) : t[i] = s[i + 1]
    BY SMTT(120), <1>2, DeleteAt
  <2> HIDE DEF t
  <2>2. ASSUME NEW i \in 1..Len(t), t[i] = q
        PROVE  \E j \in 1..Len(s) : s[j] = q
    <3>1. CASE i < k
      BY SMTT(120), <2>1, <2>2, <3>1
    <3>2. CASE i >= k
      <4>1. i + 1 \in 1..Len(s) /\ s[i + 1] = q
        BY SMTT(120), <2>1, <2>2, <3>2
      <4> QED BY <4>1
    <3> QED BY SMTT(120), <3>1, <3>2
  <2>3. ASSUME NEW i \in 1..Len(s), s[i] = q
        PROVE  \E j \in 1..Len(t) : t[j] = q
    <3>1. CASE i < k
      BY SMTT(120), <2>1, <2>3, <3>1
    <3>2. CASE i > k
      <4>1. i - 1 \in k..(Len(s) - 1) /\ i - 1 \in 1..Len(t) /\ (i - 1) + 1 = i
        BY SMTT(120), <2>1, <3>2
      <4>2. t[i - 1] = q
        BY <2>1, <2>3, <4>1
      <4> QED BY <4>1, <4>2
    <3>3. i # k
      BY <2>1, <2>3
    <3> QED BY SMTT(120), <3>1, <3>2, <3>3
  <2> QED BY <2>2, <2>3 DEF Live, t
<1> QED BY <1>1, <1>2

(* A list without duplicates stays one.                                      *)
LEMMA DeleteUnique ==
  ASSUME NEW s \in Seq(Peer), NEW v, Unique(s)
  PROVE  LET t == listnode_delete(s, v) IN Unique(t) /\ ~Live(t, v)
<1> DEFINE t == listnode_delete(s, v)
<1>1. CASE ~Live(s, v)
  BY <1>1 DEF listnode_delete, Live
<1>2. CASE Live(s, v)
  <2>1. PICK k \in 1..Len(s) :
               /\ s[k] = v /\ Len(t) = Len(s) - 1
               /\ \A i \in 1..(k - 1) : t[i] = s[i]
               /\ \A i \in k..(Len(s) - 1) : t[i] = s[i + 1]
    BY SMTT(120), <1>2, DeleteAt
  <2> HIDE DEF t
  <2> DEFINE at(i) == IF i < k THEN i ELSE i + 1
  <2>2. \A i \in 1..Len(t) : at(i) \in 1..Len(s) /\ at(i) # k /\ t[i] = s[at(i)]
    BY SMTT(120), <2>1
  <2>3. \A i, j \in 1..Len(t) : at(i) = at(j) => i = j
    BY SMTT(120)
  <2> HIDE DEF at
  <2>4. Unique(t)
    BY <2>2, <2>3 DEF Unique
  <2>5. ~Live(t, v)
    BY SMTT(120), <2>1, <2>2 DEF Live, Unique
  <2> QED BY <2>4, <2>5 DEF t
<1> QED BY <1>1, <1>2

(* How a status is entered and left.                                         *)
Law(st, entry) ==
  /\ entry[2] \in Status
  /\ entry[2] = "Established" =>
       \/ st = "OpenConfirm" /\ entry[1] = "bgp_establish"
       \/ st = "Established" /\ entry[1] \notin Stops \cup Dials
  /\ entry[1] = "bgp_establish" => st = "OpenConfirm" /\ entry[2] = "Established"
  /\ entry[2] = "OpenConfirm" =>
       \/ st = "OpenSent" /\ entry[1] = "bgp_fsm_open"
       \/ st = "OpenConfirm" /\ entry[1] = "bgp_ignore"
  /\ entry[2] = "OpenSent" =>
       \/ st \in {"Connect", "Active"} /\ entry[1] = "bgp_connect_success"
       \/ st = "OpenSent" /\ entry[1] = "bgp_ignore"
  /\ entry[1] = "bgp_connect_success" =>
       st \in {"Connect", "Active"} /\ entry[2] = "OpenSent"
  /\ entry[1] \in Dials => st \in {"Connect", "Active"} /\ entry[2] = "Connect"
  /\ entry[1] \in Stops => \/ entry[2] = "Idle"
                           \/ entry[2] = "Active" /\ st \in {"Connect", "OpenSent"}
  /\ entry[2] = "Connect" => st \in {"Connect", "Active"}
  /\ entry[2] = "Active" /\ entry[1] \notin Stops => st \in {"Idle", "Active"}
  /\ entry[1] = "bgp_fsm_holdtime_expire" => entry[2] = "Idle"

(* What some events are for.                                                 *)
EventLaw(st, e, entry) ==
  /\ entry[1] = "bgp_fsm_open" => e = "Receive_OPEN_message"
  /\ entry[1] = "bgp_establish" => e = "Receive_KEEPALIVE_message"
  /\ entry[1] \in Dials => e = "ConnectRetry_timer_expired"
  /\ entry[1] = "bgp_connect_success" => e = "TCP_connection_open"
  /\ entry[1] = "bgp_fsm_holdtime_expire" => e = "Hold_Timer_expired"
  /\ st = "Idle" /\ entry[2] # "Idle" => e = "BGP_Start" /\ entry[1] = "bgp_ignore"
  /\ st = "Established" /\ entry[2] # "Established" /\ entry[1] \notin Stops =>
       e \in {"TCP_connection_open_failed", "ConnectRetry_timer_expired"}
  /\ e = "BGP_Stop" => entry = <<"bgp_stop", "Idle">>
  /\ e = "BGP_Start" => entry = <<"bgp_ignore", IF st = "Idle" THEN "Active" ELSE st>>
  /\ e = "TCP_connection_open" /\ st = "Active" =>
       entry = <<"bgp_connect_success", "OpenSent">>
  /\ e = "Hold_Timer_expired" /\ st = "OpenSent" =>
       entry = <<"bgp_fsm_holdtime_expire", "Idle">>

(* Each of the entries of the table FSM obeys the laws of Law.               *)
LEMMA FsmLaw ==
  ASSUME NEW st \in Status, NEW e \in Event
  PROVE  Law(st, FSM[st][e]) /\ EventLaw(st, e, FSM[st][e])
<1> DEFINE entry == FSM[st][e]
<1> SUFFICES Law(st, entry) /\ EventLaw(st, e, entry)
  OBVIOUS
<1>1. CASE st = "Idle"
  <2>1. \/ /\ e \in {"BGP_Start"}
           /\ entry = <<"bgp_ignore", "Active">>
        \/ /\ e \in {"BGP_Stop", "TCP_connection_open",
                 "TCP_connection_closed", "TCP_fatal_error"}
           /\ entry = <<"bgp_stop", "Idle">>
        \/ /\ e \in {"TCP_connection_open_failed",
                 "ConnectRetry_timer_expired", "Hold_Timer_expired",
                 "KeepAlive_timer_expired", "Receive_OPEN_message",
                 "Receive_KEEPALIVE_message", "Receive_UPDATE_message",
                 "Receive_NOTIFICATION_message"}
           /\ entry = <<"bgp_ignore", "Idle">>
    BY SMTT(120), <1>1 DEF FSM, Row, Event
  <2> HIDE DEF entry
  <2> QED BY SMTT(120), <1>1, <2>1 DEF Law, EventLaw, Status, Stops, Dials
<1>2. CASE st = "Connect"
  <2>1. \/ /\ e \in {"BGP_Start"}
           /\ entry = <<"bgp_ignore", "Connect">>
        \/ /\ e \in {"BGP_Stop", "TCP_connection_closed",
                 "Receive_NOTIFICATION_message"}
           /\ entry = <<"bgp_stop", "Idle">>
        \/ /\ e \in {"TCP_connection_open"}
           /\ entry = <<"bgp_connect_success", "OpenSent">>
        \/ /\ e \in {"TCP_connection_open_failed"}
           /\ entry = <<"bgp_connect_fail", "Active">>
        \/ /\ e \in {"TCP_fatal_error"}
           /\ entry = <<"bgp_connect_fail", "Idle">>
        \/ /\ e \in {"ConnectRetry_timer_expired"}
           /\ entry = <<"bgp_reconnect", "Connect">>
        \/ /\ e \in {"Hold_Timer_expired", "KeepAlive_timer_expired",
                 "Receive_OPEN_message", "Receive_KEEPALIVE_message",
                 "Receive_UPDATE_message"}
           /\ entry = <<"bgp_ignore", "Idle">>
    BY SMTT(120), <1>2 DEF FSM, Row, Event
  <2> HIDE DEF entry
  <2> QED BY SMTT(120), <1>2, <2>1 DEF Law, EventLaw, Status, Stops, Dials
<1>3. CASE st = "Active"
  <2>1. \/ /\ e \in {"BGP_Start", "TCP_connection_open_failed"}
           /\ entry = <<"bgp_ignore", "Active">>
        \/ /\ e \in {"BGP_Stop", "TCP_connection_closed"}
           /\ entry = <<"bgp_stop", "Idle">>
        \/ /\ e \in {"TCP_connection_open"}
           /\ entry = <<"bgp_connect_success", "OpenSent">>
        \/ /\ e \in {"TCP_fatal_error", "Hold_Timer_expired",
                 "KeepAlive_timer_expired", "Receive_OPEN_message",
                 "Receive_KEEPALIVE_message", "Receive_UPDATE_message"}
           /\ entry = <<"bgp_ignore", "Idle">>
        \/ /\ e \in {"ConnectRetry_timer_expired"}
           /\ entry = <<"bgp_start", "Connect">>
        \/ /\ e \in {"Receive_NOTIFICATION_message"}
           /\ entry = <<"bgp_stop_with_error", "Idle">>
    BY SMTT(120), <1>3 DEF FSM, Row, Event
  <2> HIDE DEF entry
  <2> QED BY SMTT(120), <1>3, <2>1 DEF Law, EventLaw, Status, Stops, Dials
<1>4. CASE st = "OpenSent"
  <2>1. \/ /\ e \in {"BGP_Start"}
           /\ entry = <<"bgp_ignore", "OpenSent">>
        \/ /\ e \in {"BGP_Stop", "TCP_connection_open",
                 "TCP_fatal_error"}
           /\ entry = <<"bgp_stop", "Idle">>
        \/ /\ e \in {"TCP_connection_closed"}
           /\ entry = <<"bgp_stop", "Active">>
        \/ /\ e \in {"TCP_connection_open_failed",
                 "ConnectRetry_timer_expired", "KeepAlive_timer_expired",
                 "Receive_KEEPALIVE_message", "Receive_UPDATE_message"}
           /\ entry = <<"bgp_ignore", "Idle">>
        \/ /\ e \in {"Hold_Timer_expired"}
           /\ entry = <<"bgp_fsm_holdtime_expire", "Idle">>
        \/ /\ e \in {"Receive_OPEN_message"}
           /\ entry = <<"bgp_fsm_open", "OpenConfirm">>
        \/ /\ e \in {"Receive_NOTIFICATION_message"}
           /\ entry = <<"bgp_stop_with_error", "Idle">>
    BY SMTT(120), <1>4 DEF FSM, Row, Event
  <2> HIDE DEF entry
  <2> QED BY SMTT(120), <1>4, <2>1 DEF Law, EventLaw, Status, Stops, Dials
<1>5. CASE st = "OpenConfirm"
  <2>1. \/ /\ e \in {"BGP_Start", "KeepAlive_timer_expired"}
           /\ entry = <<"bgp_ignore", "OpenConfirm">>
        \/ /\ e \in {"BGP_Stop", "TCP_connection_open",
                 "TCP_connection_closed", "TCP_connection_open_failed",
                 "TCP_fatal_error"}
           /\ entry = <<"bgp_stop", "Idle">>
        \/ /\ e \in {"ConnectRetry_timer_expired",
                 "Receive_OPEN_message", "Receive_UPDATE_message"}
           /\ entry = <<"bgp_ignore", "Idle">>
        \/ /\ e \in {"Hold_Timer_expired"}
           /\ entry = <<"bgp_fsm_holdtime_expire", "Idle">>
        \/ /\ e \in {"Receive_KEEPALIVE_message"}
           /\ entry = <<"bgp_establish", "Established">>
        \/ /\ e \in {"Receive_NOTIFICATION_message"}
           /\ entry = <<"bgp_stop_with_error", "Idle">>
    BY SMTT(120), <1>5 DEF FSM, Row, Event
  <2> HIDE DEF entry
  <2> QED BY SMTT(120), <1>5, <2>1 DEF Law, EventLaw, Status, Stops, Dials
<1>6. CASE st = "Established"
  <2>1. \/ /\ e \in {"BGP_Start"}
           /\ entry = <<"bgp_ignore", "Established">>
        \/ /\ e \in {"BGP_Stop", "TCP_connection_open",
                 "TCP_connection_closed", "TCP_fatal_error",
                 "Receive_OPEN_message"}
           /\ entry = <<"bgp_stop", "Idle">>
        \/ /\ e \in {"TCP_connection_open_failed",
                 "ConnectRetry_timer_expired"}
           /\ entry = <<"bgp_ignore", "Idle">>
        \/ /\ e \in {"Hold_Timer_expired"}
           /\ entry = <<"bgp_fsm_holdtime_expire", "Idle">>
        \/ /\ e \in {"KeepAlive_timer_expired"}
           /\ entry = <<"bgp_fsm_keepalive_expire", "Established">>
        \/ /\ e \in {"Receive_KEEPALIVE_message"}
           /\ entry = <<"bgp_fsm_keepalive", "Established">>
        \/ /\ e \in {"Receive_UPDATE_message"}
           /\ entry = <<"bgp_fsm_update", "Established">>
        \/ /\ e \in {"Receive_NOTIFICATION_message"}
           /\ entry = <<"bgp_stop_with_error", "Idle">>
    BY SMTT(120), <1>6 DEF FSM, Row, Event
  <2> HIDE DEF entry
  <2> QED BY SMTT(120), <1>6, <2>1 DEF Law, EventLaw, Status, Stops, Dials
<1> QED BY <1>1, <1>2, <1>3, <1>4, <1>5, <1>6 DEF Status

Identity(r) ==
  \/ r.status \in {"OpenConfirm", "Established"}
  \/ r.ev = <<"Receive_OPEN_message">>
  => Known(r)

(* bgp_connect_success returns before bgp_timer_set when there is no         *)
(* descriptor, so that event must not find wrong timers.                     *)
Timers(r, p) ==
  \/ r.ev = <<>>
  \/ r.ev = <<"TCP_connection_open">> /\ r.fd = NoFd
  => Timed(r, p)

Mine(r) == Queue(r) /\ Identity(r) /\ Timers(r, Conf)

(* What is left of a record when its event or timer has been taken.          *)
LEMMA TakenIs ==
  ASSUME NEW r, NEW t, NEW e, Taken(r, t, e)
  PROVE  /\ e \in Event /\ t.ev = <<>>
         /\ t.status = r.status /\ t.fd = r.fd /\ t.rd = r.rd /\ t.wr = r.wr
         /\ t.rid = r.rid /\ t.shut = r.shut /\ t.over = r.over
         /\ t.routes = r.routes /\ t.nsf = r.nsf /\ t.wait = r.wait
         /\ t.gr = r.gr /\ t.hold = r.hold
         /\ t.tm \cap SideTimer = r.tm \cap SideTimer /\ t.tm \subseteq r.tm
         /\ t.init => r.init
<1>1. CASE e \in QueueEvent /\ r.ev = <<e>> /\ t.ev = <<>> /\ Only(r, t, {"ev"})
  BY <1>1 DEF Only, Field, QueueEvent
<1>2. ASSUME NEW i \in FsmTimer, r.ev = <<>>, i \in r.tm, e = TimerEvent[i],
             Only(r, t, {"tm", "init"}), t.tm = r.tm \ {i},
             t.init = (r.init /\ i # "start")
      PROVE  /\ e \in Event /\ t.ev = <<>>
             /\ t.tm \cap SideTimer = r.tm \cap SideTimer /\ t.tm \subseteq r.tm
             /\ t.init => r.init
  <2>1. e \in Event
    BY SMTT(120), <1>2 DEF FsmTimer, TimerEvent, Event
  <2>2. t.ev = r.ev
    BY <1>2 DEF Only, Field
  <2>3. t.tm \cap SideTimer = r.tm \cap SideTimer /\ t.tm \subseteq r.tm
    BY <1>2 DEF FsmTimer, SideTimer
  <2>4. t.init => r.init
    BY <1>2
  <2> QED BY <1>2, <2>1, <2>2, <2>3, <2>4
<1>3. ASSUME Only(r, t, {"tm", "init"})
      PROVE  /\ t.status = r.status /\ t.fd = r.fd /\ t.rd = r.rd /\ t.wr = r.wr
             /\ t.rid = r.rid /\ t.shut = r.shut /\ t.over = r.over
             /\ t.routes = r.routes /\ t.nsf = r.nsf /\ t.wait = r.wait
             /\ t.gr = r.gr /\ t.hold = r.hold
  BY <1>3 DEF Only, Field
<1> QED BY <1>1, <1>2, <1>3 DEF Taken

(* What the functions of the table leave alone.                              *)
LEMMA CalledKeeps ==
  ASSUME NEW func, NEW t \in PeerType, NEW s, Called(func, t, s), t.ev = <<>>
  PROVE  /\ s.init = t.init /\ s.shut = t.shut
         /\ func \notin Stops => s.over = t.over
         /\ func \notin Stops \cup Dials => s.rid = t.rid /\ s.fd = t.fd
         /\ \/ s.ev = <<>>
            \/ /\ func \in Dials
               /\ \/ s.ev = <<"TCP_connection_open">>
                  \/ s.ev = <<"TCP_connection_open_failed">>
<1>1. CASE func \in Stops
  <2>1. Halted(t, s)
    BY <1>1 DEF Called
  <2>2. s.init = t.init /\ s.shut = t.shut /\ s.ev = <<>>
    <3>1. CASE t.init
      <4>1. Only(t, s, {"obuf", "wr", "status", "tm"})
        BY <2>1, <3>1 DEF Halted
      <4> QED BY <4>1 DEF Only, Field
    <3>2. CASE ~t.init
      <4>1. Rested(t, s)
        BY <2>1, <3>2 DEF Halted
      <4> QED BY <4>1 DEF Rested
    <3> QED BY <3>1, <3>2
  <2> QED BY <1>1, <2>2
<1>2. CASE func \in Dials
  <2>1. Dialed(t, s) /\ func \notin Stops
    BY <1>2 DEF Called, Dials, Stops
  <2> QED BY <1>2, <2>1 DEF Dialed
<1>3. CASE func = "bgp_establish"
  <2>1. Raised(t, s) /\ func \notin Stops \cup Dials
    BY <1>3 DEF Called, Dials, Stops
  <2> QED BY <2>1 DEF Raised
<1>4. CASE func \notin Stops \cup Dials \cup {"bgp_establish"}
  <2>1. Only(t, s, {"rd", "wr", "obuf", "status", "tm"})
    BY <1>4 DEF Called, Kept
  <2>2. /\ s.init = t.init /\ s.shut = t.shut /\ s.over = t.over /\ s.rid = t.rid
        /\ s.fd = t.fd /\ s.ev = t.ev
    BY <2>1 DEF Only, Field
  <2> QED BY <1>4, <2>2
<1> QED BY <1>1, <1>2, <1>3, <1>4

(* An event of the table preserves what is known of the configured peer.     *)
LEMMA FiredMine ==
  ASSUME NEW r \in PeerType, NEW t \in PeerType, NEW s \in PeerType, NEW e,
         Taken(r, t, e), Fired(t, s, e), Mine(r)
  PROVE  Mine(s)
<1> DEFINE st == r.status
           entry == FSM[st][e]
<1>1. /\ e \in Event /\ t.ev = <<>> /\ t.status = st /\ t.fd = r.fd
      /\ t.rid = r.rid /\ t.shut = r.shut /\ t.over = r.over /\ t.hold = r.hold
  BY SMTT(120), TakenIs
<1>2. Law(st, entry) /\ EventLaw(st, e, entry)
  BY <1>1, FsmLaw DEF PeerType
<1>3. \/ entry[1] = "bgp_connect_success" /\ t.fd = NoFd /\ s = t
      \/ Called(entry[1], t, s) /\ s.status = entry[2] /\ Timed(s, Conf)
  BY <1>1 DEF Fired
<1> HIDE DEF entry
<1>4. CASE entry[1] = "bgp_connect_success" /\ t.fd = NoFd /\ s = t
  <2>1. e = "TCP_connection_open" /\ st \in {"Connect", "Active"}
    BY <1>2, <1>4 DEF Law, EventLaw
  <2>2. r.ev = <<e>> /\ Only(r, t, {"ev"})
    BY SMTT(120), <2>1 DEF Taken, TimerEvent, FsmTimer
  <2>3. Timed(r, Conf)
    BY <1>1, <1>4, <2>1, <2>2 DEF Mine, Timers
  <2>4. t.tm = r.tm
    BY <2>2 DEF Only, Field
  <2>5. Timed(t, Conf)
    BY <1>1, <2>3, <2>4, TimersOfSame DEF Timed
  <2>6. Identity(t) /\ Queue(t)
    BY SMTT(120), <1>1, <2>1 DEF Identity, Queue
  <2> QED BY <1>4, <2>5, <2>6 DEF Mine, Timers
<1>5. CASE Called(entry[1], t, s) /\ s.status = entry[2] /\ Timed(s, Conf)
  <2>1. /\ entry[1] \notin Stops \cup Dials => s.rid = t.rid /\ s.fd = t.fd
        /\ \/ s.ev = <<>>
           \/ s.ev = <<"TCP_connection_open">>
           \/ s.ev = <<"TCP_connection_open_failed">>
    <3> DEFINE func == entry[1]
    <3>1. Called(func, t, s)
      BY <1>5
    <3> HIDE DEF func
    <3>2. /\ func \notin Stops \cup Dials => s.rid = t.rid /\ s.fd = t.fd
          /\ \/ s.ev = <<>>
             \/ s.ev = <<"TCP_connection_open">>
             \/ s.ev = <<"TCP_connection_open_failed">>
      BY <1>1, <3>1, CalledKeeps
    <3> QED BY <3>2 DEF func
  <2>2. Queue(s)
    BY <2>1 DEF Queue, QueueEvent, Event
  <2>3. ASSUME s.status \in {"OpenConfirm", "Established"} PROVE Known(s)
    <3>1. entry[1] \notin Stops \cup Dials
      BY <1>2, <1>5, <2>3 DEF Law, Stops, Dials
    <3>2. \/ st \in {"OpenConfirm", "Established"}
          \/ st = "OpenSent" /\ e = "Receive_OPEN_message"
      BY <1>2, <1>5, <2>3 DEF Law, EventLaw
    <3>3. e = "Receive_OPEN_message" => r.ev = <<"Receive_OPEN_message">>
      BY SMTT(120) DEF Taken, TimerEvent, FsmTimer
    <3>4. Known(r)
      BY <3>2, <3>3 DEF Mine, Identity
    <3> QED BY <1>1, <2>1, <3>1, <3>4 DEF Known
  <2>4. s.ev # <<"Receive_OPEN_message">>
    BY SMTT(120), <2>1
  <2> QED BY <1>5, <2>2, <2>3, <2>4 DEF Mine, Identity, Timers
<1> QED BY <1>3, <1>4, <1>5

Routes(r) ==
  /\ "fresh" \in r.routes => r.status = "Established"
  /\ "stale" \in r.routes => /\ r.nsf /\ "gr_stale" \in r.tm
                             /\ r.wait \/ r.status = "Established"

Pending(r) == r.ev = <<"TCP_connection_open_failed">> => r.status = "Connect"

Unstarted(r) ==
  r.init => /\ r.status = "Idle" /\ r.fd = NoFd
            /\ r.rd = NoThread /\ r.wr = NoThread
            /\ r.tm \subseteq {"start"} /\ r.routes = {}
            /\ ~r.shut /\ ~r.over /\ ~r.wait
            /\ r.ev = <<>> \/ r.ev = <<"BGP_Stop">>

Sane(r) == Routes(r) /\ Pending(r) /\ Unstarted(r)

Shut(r) ==
  r.shut => \/ r.status = "Idle" /\ r.ev # <<"BGP_Start">>
            \/ r.ev = <<"BGP_Stop">>

(* Routes that survive a session that goes down are covered.                 *)
LEMMA SurviveRoutes ==
  ASSUME NEW r, NEW s, Survive(r, s), Routes(r)
  PROVE  Routes(s)
<1>1. CASE r.status = "Established"
  BY <1>1 DEF Survive, Routes
<1>2. CASE r.status # "Established"
  BY <1>2 DEF Survive, Routes
<1> QED BY <1>1, <1>2

(* An event of the table keeps routes tied to the session.                   *)
LEMMA FiredRoutes ==
  ASSUME NEW r \in PeerType, NEW t \in PeerType, NEW s \in PeerType, NEW e,
         Taken(r, t, e), Fired(t, s, e), Mine(r), Sane(r)
  PROVE  Routes(s)
<1> DEFINE st == r.status
           entry == FSM[st][e]
           func == entry[1]
<1>1. /\ e \in Event /\ t.ev = <<>> /\ t.status = st /\ t.fd = r.fd
      /\ t.routes = r.routes /\ t.nsf = r.nsf /\ t.wait = r.wait /\ t.gr = r.gr
      /\ t.tm \cap SideTimer = r.tm \cap SideTimer
      /\ t.init => r.init
  BY SMTT(120), TakenIs
<1>2. Law(st, entry) /\ EventLaw(st, e, entry)
  BY <1>1, FsmLaw DEF PeerType
<1>3. \/ s = t
      \/ Called(func, t, s) /\ s.status = entry[2]
  BY <1>1 DEF Fired
<1> HIDE DEF entry
<1>4. Routes(t)
  <2>1. "gr_stale" \in r.tm => "gr_stale" \in t.tm
    BY <1>1 DEF SideTimer
  <2>2. Routes(r)
    BY DEF Sane
  <2> QED BY <1>1, <2>1, <2>2 DEF Routes
<1>5. CASE Called(func, t, s) /\ s.status = entry[2]
  <2>1. CASE func \in Stops /\ ~t.init
    <3>1. Rested(t, s) /\ Side(s) = StoppedTm(t)
      BY <1>5, <2>1 DEF Called, Halted
    <3>2. CASE t.status = "Established"
      <4>1. CASE t.wait /\ t.nsf /\ "fresh" \in t.routes
        <5>1. s.routes = {"stale"} /\ s.nsf /\ s.wait
          BY <3>1, <3>2, <4>1 DEF Rested
        <5>2. "gr_stale" \in s.tm
          BY <3>1, <3>2, <4>1 DEF StoppedTm, GrTimer, Side
        <5> QED BY <5>1, <5>2 DEF Routes
      <4>2. CASE ~(t.wait /\ t.nsf /\ "fresh" \in t.routes)
        <5>1. s.routes = {}
          BY <3>1, <3>2, <4>2 DEF Rested
        <5> QED BY <5>1 DEF Routes
      <4> QED BY <4>1, <4>2
    <3>3. CASE t.status # "Established"
      <4>1. s.routes = t.routes /\ s.nsf = t.nsf /\ s.wait = t.wait
        BY <3>1, <3>3 DEF Rested
      <4>2. "gr_stale" \in t.tm => "gr_stale" \in s.tm
        BY <3>1, <3>3 DEF StoppedTm, Side, SideTimer
      <4> QED BY <1>4, <3>3, <4>1, <4>2 DEF Routes
    <3> QED BY <3>2, <3>3
  <2>2. CASE func \in Stops /\ t.init
    <3>1. Only(t, s, {"obuf", "wr", "status", "tm"})
      BY <1>5, <2>2 DEF Called, Halted
    <3>2. s.routes = {}
      BY <1>1, <2>2, <3>1 DEF Only, Field, Sane, Unstarted
    <3> QED BY <3>2 DEF Routes
  <2>3. CASE func \in Dials
    <3>1. Dialed(t, s) /\ t.status # "Established"
      BY <1>1, <1>2, <1>5, <2>3 DEF Called, Law
    <3>2. s.routes = t.routes /\ s.nsf = t.nsf /\ s.wait = t.wait
      BY <3>1 DEF Dialed
    <3>3. "gr_stale" \in t.tm => "gr_stale" \in s.tm
      BY <3>1 DEF Dialed, Side, SideTimer
    <3> QED BY <1>4, <3>1, <3>2, <3>3 DEF Routes
  <2>4. CASE func = "bgp_establish"
    <3>1. Raised(t, s) /\ t.status = "OpenConfirm" /\ s.status = "Established"
      BY <1>1, <1>2, <1>5, <2>4 DEF Called, Law
    <3>2. ASSUME "stale" \in s.routes PROVE s.nsf /\ "gr_stale" \in s.tm
      <4>1. "stale" \in t.routes /\ t.nsf /\ "gr_stale" \in t.tm
        BY <1>4, <3>1, <3>2 DEF Raised, Routes
      <4> QED BY <3>1, <3>2, <4>1 DEF Raised
    <3> QED BY <3>1, <3>2 DEF Routes
  <2>5. CASE func \notin Stops \cup Dials \cup {"bgp_establish"}
    <3>1. Only(t, s, {"rd", "wr", "obuf", "status", "tm"}) /\ Side(s) = Side(t)
      BY <1>5, <2>5 DEF Called, Kept
    <3>2. s.routes = t.routes /\ s.nsf = t.nsf /\ s.wait = t.wait
      BY <3>1 DEF Only, Field
    <3>3. "gr_stale" \in t.tm => "gr_stale" \in s.tm
      BY <3>1 DEF Side, SideTimer
    <3>4. ASSUME st = "Established" PROVE s.status = "Established"
      <4> SUFFICES ASSUME s.status # "Established" PROVE FALSE
        OBVIOUS
      <4>1. e \in {"TCP_connection_open_failed", "ConnectRetry_timer_expired"}
        BY <1>2, <1>5, <2>5, <3>4 DEF EventLaw
      <4>2. CASE r.ev = <<e>>
        <5>1. e \in QueueEvent
          BY SMTT(120), <4>2 DEF Taken, QueueEvent
        <5>2. r.ev = <<"TCP_connection_open_failed">>
          BY <4>1, <4>2, <5>1 DEF QueueEvent
        <5> QED BY <3>4, <5>2 DEF Sane, Pending
      <4>3. CASE r.ev # <<e>>
        <5>1. PICK i \in FsmTimer : r.ev = <<>> /\ i \in r.tm /\ e = TimerEvent[i]
          BY <4>3 DEF Taken
        <5>2. i = "connect"
          BY SMTT(120), <4>1, <5>1 DEF FsmTimer, TimerEvent
        <5>3. Timed(r, Conf)
          BY <5>1 DEF Mine, Timers
        <5>4. "connect" \in TimersOf(r, Conf)
          BY <5>1, <5>2, <5>3 DEF Timed
        <5> QED BY <3>4, <5>4 DEF TimersOf
      <4> QED BY <4>2, <4>3
    <3> QED BY <1>1, <1>4, <3>2, <3>3, <3>4 DEF Routes
  <2> QED BY <2>1, <2>2, <2>3, <2>4, <2>5
<1> QED BY <1>3, <1>4, <1>5

(* An event of the table preserves the rest of it as well.                   *)
LEMMA FiredSane ==
  ASSUME NEW r \in PeerType, NEW t \in PeerType, NEW s \in PeerType, NEW e,
         Taken(r, t, e), Fired(t, s, e), Mine(r), Sane(r)
  PROVE  Sane(s)
<1> DEFINE st == r.status
           entry == FSM[st][e]
           func == entry[1]
<1>0. Routes(s)
  BY FiredRoutes
<1>1. /\ e \in Event /\ t.ev = <<>> /\ t.status = st /\ t.fd = r.fd
      /\ t.rd = r.rd /\ t.wr = r.wr /\ t.wait = r.wait /\ t.routes = r.routes
      /\ t.shut = r.shut /\ t.over = r.over /\ t.tm \subseteq r.tm
      /\ t.init => r.init
  BY SMTT(120), TakenIs
<1>2. Law(st, entry) /\ EventLaw(st, e, entry)
  BY <1>1, FsmLaw DEF PeerType
<1>3. \/ func = "bgp_connect_success" /\ s = t
      \/ Called(func, t, s) /\ s.status = entry[2] /\ Timed(s, Conf)
  BY <1>1 DEF Fired
<1> HIDE DEF entry
<1>4. CASE func = "bgp_connect_success" /\ s = t
  <2>1. st # "Idle"
    BY <1>2, <1>4 DEF Law
  <2>2. ~t.init
    BY <1>1, <2>1 DEF Sane, Unstarted
  <2> QED BY SMTT(120), <1>0, <1>1, <1>4, <2>2 DEF Sane, Pending, Unstarted
<1>5. CASE Called(func, t, s) /\ s.status = entry[2] /\ Timed(s, Conf)
  <2> HIDE DEF func
  <2>1. /\ s.init = t.init
        /\ \/ s.ev = <<>>
           \/ func \in Dials
    BY <1>1, <1>5, CalledKeeps
  <2> USE DEF func
  <2>2. Pending(s)
    BY SMTT(120), <1>2, <1>5, <2>1 DEF Pending, Law
  <2>3. ASSUME s.init PROVE Unstarted(s)
    <3>1. r.init /\ t.init
      BY <1>1, <2>1, <2>3
    <3>2. /\ st = "Idle" /\ r.fd = NoFd
          /\ r.rd = NoThread /\ r.wr = NoThread
          /\ r.tm \subseteq {"start"} /\ r.routes = {}
          /\ ~r.shut /\ ~r.over /\ ~r.wait
          /\ r.ev = <<>> \/ r.ev = <<"BGP_Stop">>
      BY <3>1 DEF Sane, Unstarted
    <3>3. e = "BGP_Stop"
      <4>1. CASE e \in QueueEvent /\ r.ev = <<e>>
        BY SMTT(120), <3>2, <4>1
      <4>2. ASSUME NEW i \in FsmTimer, i \in r.tm, t.init = (r.init /\ i # "start")
            PROVE  FALSE
        <5>1. i = "start"
          BY <3>2, <4>2
        <5> QED BY <3>1, <4>2, <5>1
      <4> QED BY <4>1, <4>2 DEF Taken
    <3>4. entry = <<"bgp_stop", "Idle">>
      BY <1>2, <3>3 DEF EventLaw
    <3>5. Halted(t, s) /\ s.status = "Idle"
      BY <1>5, <3>4 DEF Called, Stops
    <3>6. /\ Only(t, s, {"obuf", "wr", "status", "tm"})
          /\ Side(s) = Side(t) /\ s.wr \in {t.wr, NoThread}
      BY <3>1, <3>5 DEF Halted
    <3>7. /\ s.fd = t.fd /\ s.rd = t.rd /\ s.routes = t.routes /\ s.shut = t.shut
          /\ s.over = t.over /\ s.wait = t.wait /\ s.ev = t.ev
      BY <3>6 DEF Only, Field
    <3>8. Side(t) = {}
      BY <1>1, <3>2 DEF Side, SideTimer
    <3>9. s.tm \subseteq {"start"}
      <4>1. TimersOf(s, Conf) \subseteq {"start"}
        BY <3>5 DEF TimersOf
      <4>2. s.tm \subseteq FsmTimer \cup SideTimer
        BY DEF PeerType
      <4> QED BY <1>5, <3>6, <3>8, <4>1, <4>2 DEF Timed, Side
    <3>10. s.wr = NoThread /\ s.fd = NoFd /\ s.rd = NoThread /\ s.routes = {}
      BY <1>1, <3>2, <3>6, <3>7
    <3>11. ~s.shut /\ ~s.over /\ ~s.wait /\ s.ev = <<>>
      BY <1>1, <3>2, <3>7
    <3> QED BY <3>5, <3>9, <3>10, <3>11 DEF Unstarted
  <2>4. Unstarted(s)
    BY <2>3 DEF Unstarted
  <2> QED BY <1>0, <2>2, <2>4 DEF Sane
<1> QED BY <1>3, <1>4, <1>5

(* No event of the table starts a peer that is shut down.                    *)
LEMMA FiredShut ==
  ASSUME NEW r \in PeerType, NEW t \in PeerType, NEW s \in PeerType, NEW e,
         Taken(r, t, e), Fired(t, s, e), Mine(r), Shut(r)
  PROVE  Shut(s)
<1> DEFINE st == r.status
           entry == FSM[st][e]
           func == entry[1]
<1>1. e \in Event /\ t.ev = <<>> /\ t.status = st /\ t.shut = r.shut
  BY SMTT(120), TakenIs
<1>2. Law(st, entry) /\ EventLaw(st, e, entry)
  BY <1>1, FsmLaw DEF PeerType
<1>3. \/ func = "bgp_connect_success" /\ s = t
      \/ Called(func, t, s) /\ s.status = entry[2]
  BY <1>1 DEF Fired
<1> HIDE DEF entry
<1> SUFFICES ASSUME s.shut PROVE s.status = "Idle" /\ s.ev # <<"BGP_Start">>
  BY DEF Shut
<1>4. /\ s.shut = t.shut
      /\ s.ev # <<"BGP_Start">>
  <2>1. CASE s = t
    <3>1. s.shut = t.shut /\ s.ev = <<>>
      BY <1>1, <2>1
    <3>2. s.ev # <<"BGP_Start">>
      BY SMTT(120), <3>1
    <3> QED BY <3>1, <3>2
  <2>2. CASE Called(func, t, s)
    <3> HIDE DEF func
    <3>1. /\ s.shut = t.shut
          /\ \/ s.ev = <<>>
             \/ s.ev = <<"TCP_connection_open">>
             \/ s.ev = <<"TCP_connection_open_failed">>
      BY <1>1, <2>2, CalledKeeps
    <3>2. s.ev # <<"BGP_Start">>
      BY SMTT(120), <3>1
    <3> QED BY <3>1, <3>2
  <2> QED BY <1>3, <2>1, <2>2
<1>5. r.shut
  BY <1>1, <1>4
<1>6. CASE r.ev = <<"BGP_Stop">>
  <2>1. e = "BGP_Stop"
    BY SMTT(120), <1>6 DEF Taken
  <2>2. entry = <<"bgp_stop", "Idle">>
    BY <1>2, <2>1 DEF EventLaw
  <2> QED BY <1>3, <1>4, <2>2
<1>7. CASE st = "Idle" /\ r.ev # <<"BGP_Start">>
  <2>1. e # "BGP_Start"
    <3>1. ASSUME NEW i \in FsmTimer, r.ev = <<>>, i \in r.tm PROVE FALSE
      <4>1. Timed(r, Conf)
        BY <3>1 DEF Mine, Timers
      <4>2. i \in TimersOf(r, Conf)
        BY <3>1, <4>1 DEF Timed
      <4> QED BY <1>5, <1>7, <4>2 DEF TimersOf
    <3> QED BY <1>7, <3>1 DEF Taken
  <2>2. entry[2] = "Idle" /\ func # "bgp_connect_success"
    BY <1>2, <1>7, <2>1 DEF EventLaw, Law
  <2> QED BY <1>3, <1>4, <2>2
<1> QED BY <1>5, <1>6, <1>7 DEF Shut

(* Changes to other fields preserve what is known of the peer.               *)
LEMMA KeepMine ==
  ASSUME NEW r \in PeerType, NEW s \in PeerType, Mine(r), r.ev = <<>>, s.ev = <<>>,
         s.status = r.status, s.rid = r.rid, s.shut = r.shut, s.over = r.over,
         s.hold = r.hold, s.tm \cap FsmTimer = r.tm \cap FsmTimer
  PROVE  Mine(s)
<1>1. Timed(r, Conf) /\ Identity(r)
  BY DEF Mine, Timers
<1>2. Timed(s, Conf)
  BY <1>1, TimersOfSame DEF Timed
<1>3. Identity(s)
  BY <1>1 DEF Identity, Known
<1> QED BY <1>2, <1>3 DEF Mine, Queue, Timers

(* So does an event that is queued, if its condition holds.                  *)
LEMMA EventMine ==
  ASSUME NEW r \in PeerType, NEW s \in PeerType, Mine(r), NEW e \in QueueEvent,
         s.ev = <<e>>, e # "TCP_connection_open", s.status = r.status,
         s.rid = r.rid \/ Known(s), e = "Receive_OPEN_message" => Known(s)
  PROVE  Mine(s)
<1>1. Queue(s)
  BY DEF Queue
<1>2. Timers(s, Conf)
  BY SMTT(120) DEF Timers
<1>3. Identity(s)
  BY SMTT(120) DEF Mine, Identity, Known
<1> QED BY <1>1, <1>2, <1>3 DEF Mine

(* So does a NOTIFICATION.                                                   *)
LEMMA NotedMine ==
  ASSUME NEW r \in PeerType, NEW s \in PeerType, Mine(r), r.ev = <<>>,
         Noted(r, s, Conf)
  PROVE  Mine(s)
<1>1. CASE ~r.init
  <2>1. s.status = "Idle" /\ s.ev = <<>> /\ Timed(s, Conf)
    BY <1>1 DEF Noted, Down
  <2> QED BY SMTT(120), <2>1 DEF Mine, Queue, Identity, Timers
<1>2. CASE r.init
  <2>1. s.ev = r.ev
    BY <1>2 DEF Noted, Only, Field
  <2>2. Timed(s, Conf)
    BY <1>2 DEF Noted
  <2>3. Identity(s)
    <3>1. \/ s.status = "Idle"
          \/ s.status = "Established" /\ r.status = "Established"
      BY <1>2 DEF Noted
    <3>2. s.rid = r.rid \/ Known(s)
      BY <1>2 DEF Noted
    <3> QED BY <2>1, <3>1, <3>2 DEF Mine, Identity, Known
  <2> QED BY <2>1, <2>2, <2>3 DEF Mine, Queue, Timers
<1> QED BY <1>1, <1>2

(* A session that goes down keeps stale routes only.                         *)
LEMMA DownStale ==
  ASSUME NEW r \in PeerType, NEW s, NEW p, Down(r, s, p)
  PROVE  Survive(r, s)
<1>1. CASE r.status = "Established"
  <2>1. CASE r.wait /\ r.nsf /\ "fresh" \in r.routes
    <3>1. s.routes = {"stale"} /\ s.nsf /\ s.wait
      BY <1>1, <2>1 DEF Down
    <3>2. "gr_stale" \in s.tm
      BY <1>1, <2>1 DEF Down, StoppedTm, GrTimer
    <3> QED BY <1>1, <3>1, <3>2 DEF Survive
  <2>2. CASE ~(r.wait /\ r.nsf /\ "fresh" \in r.routes)
    <3>1. s.routes = {}
      BY <1>1, <2>2 DEF Down
    <3> QED BY <1>1, <3>1 DEF Survive
  <2> QED BY <2>1, <2>2
<1>2. CASE r.status # "Established"
  <2>1. s.routes = r.routes /\ s.nsf = r.nsf /\ s.wait = r.wait
    BY <1>2 DEF Down
  <2>2. "gr_stale" \in r.tm => "gr_stale" \in s.tm
    BY <1>2 DEF Down, StoppedTm, SideTimer
  <2> QED BY <1>2, <2>1, <2>2 DEF Survive
<1> QED BY <1>1, <1>2

(* A NOTIFICATION also keeps routes, starts and shutdowns in order.          *)
LEMMA NotedSane ==
  ASSUME NEW r \in PeerType, NEW s \in PeerType, Sane(r), ~r.init,
         Noted(r, s, Conf)
  PROVE  Sane(s) /\ Shut(s) /\ ~s.init
<1>1. Down(r, s, Conf)
  BY DEF Noted
<1>2. s.status = "Idle" /\ s.ev = <<>> /\ ~s.init
  BY <1>1 DEF Down
<1>3. Routes(s)
  BY <1>1, DownStale, SurviveRoutes DEF Sane
<1> QED BY SMTT(120), <1>2, <1>3 DEF Sane, Pending, Unstarted, Shut

(* A message is handled by the configured peer.                              *)
LEMMA HandledMine ==
  ASSUME NEW r \in PeerType, NEW s \in PeerType, Mine(r), r.ev = <<>>,
         Handled(r, s, Conf)
  PROVE  Mine(s)
<1>1. CASE Touched(r, s)
  <2>1. /\ s.status = r.status /\ s.rid = r.rid /\ s.shut = r.shut
        /\ s.over = r.over /\ s.hold = r.hold /\ s.tm = r.tm /\ s.ev = r.ev
    BY <1>1 DEF Touched, Only, Field
  <2> QED BY <2>1, KeepMine
<1>2. CASE Noted(r, s, Conf)
  BY <1>2, NotedMine
<1>3. CASE Queued(r, s)
  <2>1. PICK e \in ReadEvent : /\ s.ev = <<e>>
                               /\ e = "Receive_OPEN_message" => Known(s)
                               /\ e # "Receive_OPEN_message" => s.rid = r.rid
    BY <1>3 DEF Queued
  <2>2. e \in QueueEvent /\ e # "TCP_connection_open"
    BY DEF ReadEvent, QueueEvent, Event
  <2>3. s.status = r.status
    BY <1>3 DEF Queued, Only, Field
  <2> QED BY <2>1, <2>2, <2>3, EventMine
<1> QED BY <1>1, <1>2, <1>3 DEF Handled

(* So does the handler of any message.                                       *)
LEMMA HandledSane ==
  ASSUME NEW r \in PeerType, NEW s \in PeerType, Sane(r), ~r.init, r.ev = <<>>,
         Handled(r, s, Conf)
  PROVE  Sane(s) /\ ~s.init /\ (Shut(r) => Shut(s))
<1>1. CASE Touched(r, s)
  <2>1. /\ s.status = r.status /\ s.routes = r.routes /\ s.shut = r.shut
        /\ s.nsf = r.nsf /\ s.wait = r.wait /\ s.tm = r.tm /\ s.ev = r.ev
        /\ s.init = r.init
    BY <1>1 DEF Touched, Only, Field
  <2>2. Routes(s)
    BY <2>1 DEF Sane, Routes
  <2> QED BY <2>1, <2>2 DEF Sane, Pending, Unstarted, Shut
<1>2. CASE Noted(r, s, Conf)
  BY <1>2, NotedSane
<1>3. CASE Queued(r, s)
  <2>1. PICK e \in ReadEvent : s.ev = <<e>>
    BY <1>3 DEF Queued
  <2>2. e # "TCP_connection_open_failed" /\ e # "BGP_Start"
    BY DEF ReadEvent
  <2>3. /\ s.status = r.status /\ s.shut = r.shut /\ s.nsf = r.nsf
        /\ s.tm = r.tm /\ s.init = r.init
    BY <1>3 DEF Queued, Only, Field
  <2>4. Routes(s)
    <3>1. /\ r.wait => s.wait
          /\ s.routes \subseteq r.routes \cup {"fresh"}
          /\ r.status # "Established" => s.routes = r.routes
      BY <1>3 DEF Queued
    <3> QED BY <2>3, <3>1 DEF Sane, Routes
  <2>5. Shut(r) => Shut(s)
    BY SMTT(120), <2>1, <2>2, <2>3 DEF Shut
  <2> QED BY SMTT(120), <2>1, <2>2, <2>3, <2>4, <2>5 DEF Sane, Pending, Unstarted
<1> QED BY <1>1, <1>2, <1>3 DEF Handled

(* The configured peer takes over a connection.                              *)
LEMMA TakenOverMine ==
  ASSUME NEW r \in PeerType, NEW s \in PeerType, NEW f, TakenOver(r, s, f)
  PROVE  Mine(s)
<1>1. "Receive_OPEN_message" \in QueueEvent
  BY DEF QueueEvent, Event
<1>2. CASE s.status = "Idle" /\ s.ev = <<>> /\ Timed(s, Conf)
  BY SMTT(120), <1>2 DEF Mine, Queue, Identity, Timers
<1>3. CASE s.status = "OpenSent" /\ s.ev = <<"Receive_OPEN_message">> /\ Known(s)
  BY SMTT(120), <1>1, <1>3 DEF Mine, Queue, Identity, Timers
<1> QED BY <1>2, <1>3 DEF TakenOver

(* So does the take-over of an accepted connection.                          *)
LEMMA TakenOverSane ==
  ASSUME NEW r \in PeerType, NEW s \in PeerType, NEW f, Sane(r), ~r.init,
         TakenOver(r, s, f)
  PROVE  Sane(s) /\ ~s.init /\ (~r.shut => Shut(s))
<1>1. Survive(r, s) /\ s.shut = r.shut /\ ~s.init
  BY DEF TakenOver
<1>2. Routes(s)
  BY <1>1, SurviveRoutes DEF Sane
<1>3. Pending(s)
  BY SMTT(120) DEF TakenOver, Pending
<1> QED BY <1>1, <1>2, <1>3 DEF Sane, Unstarted, Shut

(* bgp_connect_check preserves what is known of the peer.                    *)
LEMMA CheckedMine ==
  ASSUME NEW r \in PeerType, NEW s \in PeerType, Mine(r), r.ev = <<>>,
         r.status = "Connect", Checked(r, s)
  PROVE  /\ Mine(s)
         /\ Sane(r) => Sane(s) /\ ~s.init
         /\ Shut(r) => Shut(s)
<1>1. PICK e \in {"TCP_connection_open", "TCP_connection_open_failed",
                  "TCP_fatal_error"} : s.ev = <<e>>
  BY DEF Checked
<1>2. /\ s.status = r.status /\ s.rid = r.rid /\ s.shut = r.shut
      /\ s.over = r.over /\ s.hold = r.hold /\ s.tm = r.tm
      /\ s.routes = r.routes /\ s.nsf = r.nsf /\ s.wait = r.wait
      /\ s.init = r.init
  BY DEF Checked, Only, Field
<1>3. Timed(r, Conf)
  BY DEF Mine, Timers
<1>4. Timed(s, Conf)
  BY <1>2, <1>3, TimersOfSame DEF Timed
<1>5. e \in QueueEvent /\ e # "Receive_OPEN_message" /\ e # "BGP_Start"
  BY DEF QueueEvent, Event
<1>6. Mine(s)
  BY SMTT(120), <1>1, <1>2, <1>4, <1>5 DEF Mine, Queue, Identity, Timers
<1>7. Sane(r) => Sane(s) /\ ~s.init
  <2> SUFFICES ASSUME Sane(r) PROVE Sane(s) /\ ~s.init
    OBVIOUS
  <2>1. ~r.init
    BY DEF Sane, Unstarted
  <2>2. ~s.init
    BY <1>2, <2>1
  <2>3. Routes(s)
    BY <1>2 DEF Sane, Routes
  <2> QED BY <1>2, <2>2, <2>3 DEF Sane, Pending, Unstarted
<1>8. Shut(r) => Shut(s)
  BY SMTT(120), <1>2 DEF Shut
<1> QED BY <1>6, <1>7, <1>8

(* bgp_write preserves it.                                                   *)
LEMMA WrittenMine ==
  ASSUME NEW r \in PeerType, NEW s \in PeerType, Mine(r), r.ev = <<>>,
         Written(r, s, Conf)
  PROVE  /\ Mine(s)
         /\ Sane(r) /\ ~r.init => Sane(s) /\ ~s.init /\ (Shut(r) => Shut(s))
<1>1. CASE Only(r, s, {"wr", "obuf"})
  <2>1. Handled(r, s, Conf)
    BY <1>1 DEF Handled, Touched, Only
  <2> QED BY <2>1, HandledMine, HandledSane
<1>2. CASE Noted(r, s, Conf)
  BY <1>2, NotedMine, NotedSane
<1> QED BY <1>1, <1>2 DEF Written

(* The timers of the graceful restart preserve it.                           *)
LEMMA ExpiredMine ==
  ASSUME NEW r \in PeerType, NEW s \in PeerType, Mine(r), r.ev = <<>>,
         Expired(r, s)
  PROVE  /\ Mine(s)
         /\ Sane(r) => Sane(s) /\ ~r.init /\ ~s.init
         /\ Shut(r) => Shut(s)
<1>1. /\ s.status = r.status /\ s.rid = r.rid /\ s.shut = r.shut
      /\ s.over = r.over /\ s.hold = r.hold /\ s.ev = r.ev
      /\ s.nsf = r.nsf /\ s.init = r.init
  BY DEF Expired, Only, Field
<1>2. s.tm \cap FsmTimer = r.tm \cap FsmTimer
  <2>1. GrTimer \cap FsmTimer = {}
    BY DEF GrTimer, FsmTimer
  <2> QED BY <2>1 DEF Expired
<1>3. Mine(s)
  BY <1>1, <1>2, KeepMine
<1>4. Sane(r) => Sane(s) /\ ~r.init /\ ~s.init
  <2> SUFFICES ASSUME Sane(r) PROVE Sane(s) /\ ~r.init /\ ~s.init
    OBVIOUS
  <2>1. ~r.init
    <3> SUFFICES ASSUME r.init PROVE FALSE
      OBVIOUS
    <3>1. r.tm \subseteq {"start"}
      BY DEF Sane, Unstarted
    <3> QED BY <3>1 DEF Expired, GrTimer
  <2>2. ~s.init
    BY <1>1, <2>1
  <2>3. Routes(s)
    <3>1. "stale" \notin s.routes
      <4>1. "stale" \in r.routes => r.nsf
        BY DEF Sane, Routes
      <4> QED BY <4>1 DEF Expired, DropStale
    <3>2. "fresh" \in s.routes => "fresh" \in r.routes
      BY DEF Expired, DropStale
    <3> QED BY <1>1, <3>1, <3>2 DEF Sane, Routes
  <2>4. Pending(s)
    <3>1. s.ev = <<>>
      BY <1>1
    <3> QED BY SMTT(120), <3>1 DEF Pending
  <2> QED BY <2>1, <2>2, <2>3, <2>4 DEF Sane, Unstarted
<1>5. Shut(r) => Shut(s)
  BY <1>1 DEF Shut
<1> QED BY <1>3, <1>4, <1>5

(* The reset a command asks for preserves it.                                *)
LEMMA ResetMine ==
  ASSUME NEW r \in PeerType, NEW s \in PeerType, Identity(r), r.ev = <<>>,
         Reset(r, s, Conf)
  PROVE  /\ Mine(s)
         /\ s.init = r.init
         /\ Sane(r) => Sane(s) /\ Shut(s)
<1>1. CASE r.status = "Established" /\ Noted(r, s, Conf)
  <2>1. CASE r.init
    <3>1. Only(r, s, {"rd", "obuf", "wr", "status", "tm", "rid", "hold", "gr", "over"})
      BY <1>1, <2>1 DEF Noted
    <3>2. s.ev = <<>> /\ s.init = r.init
      BY <3>1 DEF Only, Field
    <3>3. Timed(s, Conf) /\ (s.rid = r.rid \/ Known(s))
      BY <1>1, <2>1 DEF Noted
    <3>4. Mine(s)
      BY <1>1, <3>2, <3>3 DEF Mine, Queue, Timers, Identity, Known
    <3>5. ~Sane(r)
      BY <1>1, <2>1 DEF Sane, Unstarted
    <3> QED BY <3>2, <3>4, <3>5
  <2>2. CASE ~r.init
    <3>1. s.status = "Idle" /\ s.ev = <<>> /\ Timed(s, Conf) /\ ~s.init
      BY <1>1, <2>2 DEF Noted, Down
    <3>2. Mine(s)
      BY SMTT(120), <3>1 DEF Mine, Queue, Identity, Timers
    <3>3. s.init = r.init
      BY <1>1, <2>2 DEF Noted, Down
    <3> QED BY <1>1, <2>2, <3>2, <3>3, NotedSane
  <2> QED BY <2>1, <2>2
<1>2. CASE r.status # "Established" /\ Only(r, s, {"ev"}) /\ s.ev = <<"BGP_Stop">>
  <2>1. /\ s.status = r.status /\ s.rid = r.rid /\ s.shut = r.shut
        /\ s.over = r.over /\ s.tm = r.tm /\ s.fd = r.fd /\ s.rd = r.rd
        /\ s.wr = r.wr /\ s.routes = r.routes /\ s.nsf = r.nsf
        /\ s.wait = r.wait /\ s.init = r.init
    BY <1>2 DEF Only, Field
  <2>2. "BGP_Stop" \in QueueEvent
    BY DEF QueueEvent, Event
  <2>3. Mine(s)
    BY SMTT(120), <1>2, <2>1, <2>2 DEF Mine, Queue, Identity, Timers, Known
  <2>4. Sane(r) => Sane(s)
    <3> SUFFICES ASSUME Sane(r) PROVE Sane(s)
      OBVIOUS
    <3>1. Routes(s)
      BY <2>1 DEF Sane, Routes
    <3>2. Unstarted(s)
      BY <1>2, <2>1 DEF Sane, Unstarted
    <3> QED BY SMTT(120), <1>2, <3>1, <3>2 DEF Sane, Pending
  <2>5. Shut(s)
    BY <1>2 DEF Shut
  <2> QED BY <2>1, <2>3, <2>4, <2>5
<1> QED BY <1>1, <1>2 DEF Reset

(* Giving up the graceful restart preserves it.                              *)
LEMMA NsfOffMine ==
  ASSUME NEW r \in PeerType, NEW s \in PeerType, Mine(r), r.ev = <<>>,
         NsfOff(r, s)
  PROVE  /\ Mine(s) /\ s.ev = <<>> /\ s.init = r.init /\ s.status = r.status
         /\ s.shut = r.shut /\ s.over = r.over
         /\ Sane(r) => Sane(s)
<1>1. CASE s = r /\ ~r.wait
  BY <1>1
<1>2. CASE NsfOff(r, s) /\ r.wait
  <2>1. /\ Only(r, s, {"wait", "mode", "nsf", "routes", "tm"})
        /\ s.routes = {} /\ ~s.wait /\ ~s.nsf /\ s.tm = r.tm \ GrTimer
    BY <1>2 DEF NsfOff
  <2>2. /\ s.status = r.status /\ s.rid = r.rid /\ s.shut = r.shut
        /\ s.over = r.over /\ s.hold = r.hold /\ s.ev = r.ev
        /\ s.init = r.init
    BY <2>1 DEF Only, Field
  <2>3. s.tm \cap FsmTimer = r.tm \cap FsmTimer
    BY <2>1 DEF GrTimer, FsmTimer
  <2>4. Mine(s)
    BY <2>2, <2>3, KeepMine
  <2>5. Sane(r) => Sane(s)
    <3> SUFFICES ASSUME Sane(r) PROVE Sane(s)
      OBVIOUS
    <3>1. ~r.init
      BY <1>2 DEF Sane, Unstarted
    <3>2. ~s.init
      BY <2>2, <3>1
    <3> QED BY <2>1, <2>2, <3>2 DEF Sane, Routes, Pending, Unstarted
  <2> QED BY <2>2, <2>4, <2>5
<1> QED BY <1>1, <1>2 DEF NsfOff

(* peer_clear preserves it.                                                  *)
LEMMA ClearedMine ==
  ASSUME NEW r \in PeerType, NEW s \in PeerType, Mine(r), r.ev = <<>>,
         Cleared(r, s, Conf)
  PROVE  /\ Mine(s) /\ s.init = r.init
         /\ Sane(r) => Sane(s)
         /\ Shut(r) => Shut(s) \/ ~Sane(r)
<1>1. CASE s = r
  BY <1>1
<1>2. CASE /\ ~r.shut /\ r.over /\ Only(r, s, {"over", "tm", "ev"})
           /\ s.ev = <<"BGP_Start">> /\ ~s.over /\ s.tm = r.tm \ {"pmax_restart"}
  <2>1. /\ s.status = r.status /\ s.rid = r.rid /\ s.shut = r.shut
        /\ s.routes = r.routes /\ s.nsf = r.nsf
        /\ s.wait = r.wait /\ s.init = r.init
    BY <1>2 DEF Only, Field
  <2>2. "BGP_Start" \in QueueEvent
    BY DEF QueueEvent, Event
  <2>3. Mine(s)
    BY <1>2, <2>1, <2>2, EventMine
  <2>4. Sane(r) => Sane(s)
    <3> SUFFICES ASSUME Sane(r) PROVE Sane(s)
      OBVIOUS
    <3>1. ~r.init
      BY <1>2 DEF Sane, Unstarted
    <3>2. ~s.init
      BY <2>1, <3>1
    <3>3. "gr_stale" \in r.tm => "gr_stale" \in s.tm
      BY <1>2
    <3>4. Routes(s)
      BY <2>1, <3>3 DEF Sane, Routes
    <3> QED BY SMTT(120), <1>2, <3>2, <3>4 DEF Sane, Pending, Unstarted
  <2>5. Shut(s)
    BY <1>2, <2>1 DEF Shut
  <2> QED BY <2>1, <2>3, <2>4, <2>5
<1>3. ASSUME NEW t \in PeerType, NsfOff(r, t), Reset(t, s, Conf)
      PROVE  /\ Mine(s) /\ s.init = r.init
             /\ Sane(r) => Sane(s) /\ Shut(s)
  <2>1. /\ Mine(t) /\ t.ev = <<>> /\ t.init = r.init
        /\ Sane(r) => Sane(t)
    BY <1>3, NsfOffMine
  <2>2. /\ Mine(s)
        /\ s.init = t.init
        /\ Sane(t) => Sane(s) /\ Shut(s)
    BY <1>3, <2>1, ResetMine DEF Mine
  <2> QED BY <2>1, <2>2
<1> QED BY <1>1, <1>2, <1>3 DEF Cleared

(* The prefix limit's restart timer has run before.                          *)
LEMMA RestartMine ==
  ASSUME NEW r \in PeerType, NEW t \in PeerType, Mine(r), r.ev = <<>>,
         "pmax_restart" \in r.tm, Only(r, t, {"tm"}), t.tm = r.tm \ {"pmax_restart"}
  PROVE  /\ Mine(t) /\ t.ev = <<>>
         /\ Sane(r) => Sane(t) /\ ~t.init
         /\ Shut(r) => Shut(t)
<1>1. /\ t.status = r.status /\ t.rid = r.rid /\ t.shut = r.shut
      /\ t.over = r.over /\ t.hold = r.hold /\ t.ev = r.ev
      /\ t.routes = r.routes /\ t.nsf = r.nsf
      /\ t.wait = r.wait /\ t.init = r.init
  BY DEF Only, Field
<1>2. t.tm \cap FsmTimer = r.tm \cap FsmTimer
  BY DEF FsmTimer
<1>3. Mine(t)
  BY <1>1, <1>2, KeepMine
<1>4. Sane(r) => Sane(t) /\ ~t.init
  <2> SUFFICES ASSUME Sane(r) PROVE Sane(t) /\ ~t.init
    OBVIOUS
  <2>1. ~r.init
    BY DEF Sane, Unstarted
  <2>2. ~t.init
    BY <1>1, <2>1
  <2>3. "gr_stale" \in r.tm => "gr_stale" \in t.tm
    OBVIOUS
  <2>4. Routes(t)
    BY <1>1, <2>3 DEF Sane, Routes
  <2> QED BY <1>1, <2>2, <2>4 DEF Sane, Pending, Unstarted
<1> QED BY <1>1, <1>3, <1>4 DEF Shut

(* "neighbor shutdown" preserves it.                                         *)
LEMMA DisabledMine ==
  ASSUME NEW r \in PeerType, NEW s \in PeerType, Mine(r), r.ev = <<>>,
         Disabled(r, s)
  PROVE  /\ Mine(s) /\ s.init = r.init
         /\ Sane(r) /\ ~r.init => Sane(s) /\ Shut(s)
<1>1. PICK t \in PeerType, u \in PeerType :
        /\ NsfOff(r, t) /\ Only(t, u, {"shut", "over", "tm"})
        /\ u.shut /\ ~u.over /\ u.tm = t.tm \ {"pmax_restart"}
        /\ Reset(u, s, Conf)
  BY DEF Disabled
<1>2. /\ Mine(t) /\ t.ev = <<>> /\ t.init = r.init
      /\ Sane(r) => Sane(t)
  BY SMTT(120), <1>1, NsfOffMine
<1>3. /\ u.status = t.status /\ u.rid = t.rid /\ u.ev = t.ev /\ u.init = t.init
      /\ u.routes = t.routes /\ u.nsf = t.nsf /\ u.wait = t.wait
  BY <1>1 DEF Only, Field
<1>4. Identity(u)
  BY <1>2, <1>3 DEF Mine, Identity, Known
<1>5. /\ Mine(s) /\ s.init = u.init
      /\ Sane(u) => Sane(s) /\ Shut(s)
  BY <1>1, <1>2, <1>3, <1>4, ResetMine
<1>6. Sane(r) /\ ~r.init => Sane(u)
  <2> SUFFICES ASSUME Sane(r), ~r.init PROVE Sane(u)
    OBVIOUS
  <2>1. Sane(t) /\ ~u.init
    BY <1>2, <1>3
  <2>2. "gr_stale" \in t.tm => "gr_stale" \in u.tm
    BY <1>1
  <2>3. Routes(u)
    BY <1>3, <2>1, <2>2 DEF Sane, Routes
  <2> QED BY <1>2, <1>3, <2>1, <2>3 DEF Sane, Pending, Unstarted
<1> QED BY <1>2, <1>3, <1>5, <1>6

(* "no neighbor shutdown" preserves it.                                      *)
LEMMA EnabledMine ==
  ASSUME NEW r \in PeerType, NEW s \in PeerType, Mine(r), Enabled(r, s)
  PROVE  /\ Mine(s) /\ s.init = r.init /\ Shut(s)
         /\ Sane(r) => Sane(s) /\ ~s.init
<1>1. /\ s.status = r.status /\ s.rid = r.rid /\ s.tm = r.tm
      /\ s.routes = r.routes /\ s.nsf = r.nsf
      /\ s.wait = r.wait /\ s.init = r.init
  BY DEF Enabled, Only, Field
<1>2. "BGP_Start" \in QueueEvent /\ s.ev = <<"BGP_Start">> /\ ~s.shut
  BY DEF QueueEvent, Event, Enabled
<1>3. Mine(s)
  BY <1>1, <1>2, EventMine
<1>4. Sane(r) => Sane(s) /\ ~s.init
  <2> SUFFICES ASSUME Sane(r) PROVE Sane(s) /\ ~s.init
    OBVIOUS
  <2>1. ~r.init
    BY DEF Sane, Unstarted, Enabled
  <2>2. ~s.init
    BY <1>1, <2>1
  <2>3. Routes(s)
    BY <1>1 DEF Sane, Routes
  <2> QED BY SMTT(120), <1>2, <2>2, <2>3 DEF Sane, Pending, Unstarted
<1> QED BY <1>1, <1>2, <1>3, <1>4 DEF Shut

(* What holds of every structure holds of a temporary peer.                  *)
LEMMA GuestBase ==
  ASSUME NEW r, NEW p, Guest(r, p)
  PROVE  Queue(r) /\ Identity(r) /\ Timers(r, p) /\ Routes(r)
<1>1. "TCP_connection_open" \in QueueEvent
  BY DEF QueueEvent, Event
<1>2. Queue(r)
  BY <1>1 DEF Guest, Queue
<1>3. Identity(r)
  BY SMTT(120) DEF Guest, Identity
<1>4. Timers(r, p)
  BY DEF Guest, Timers
<1>5. Routes(r)
  BY DEF Guest, Routes
<1> QED BY <1>2, <1>3, <1>4, <1>5

(* A structure that has come to rest in the list, or left it.                *)
LEMMA GuestIdle ==
  ASSUME NEW s \in PeerType, NEW p \in Accept, s.status = "Idle", s.ev = <<>>,
         s.rd = NoThread, ~s.shut, ~s.init, ~s.wait, s.routes = {},
         s.tm = {}
  PROVE  Guest(s, p)
<1>1. Timed(s, p)
  BY ConstantAssumption DEF Timed, TimersOf
<1> QED BY <1>1 DEF Guest

(* A temporary peer that was deleted is clean.                               *)
LEMMA GuestRemoved ==
  ASSUME NEW r \in PeerType, NEW s \in PeerType, NEW p \in Accept, Guest(r, p),
         Removed(r, s)
  PROVE  Guest(s, p)
<1>1. /\ s.status = "Idle" /\ s.ev = <<>> /\ s.rd = NoThread /\ ~s.init
      /\ ~s.wait /\ s.tm = {}
  BY DEF Removed
<1>2. ~s.shut /\ s.routes = {}
  BY DEF Removed, Guest
<1> QED BY <1>1, <1>2, GuestIdle

(* One that sent a NOTIFICATION is clean.                                    *)
LEMMA GuestNoted ==
  ASSUME NEW r \in PeerType, NEW s \in PeerType, NEW p \in Accept, Guest(r, p),
         Noted(r, s, p)
  PROVE  Guest(s, p) /\ s.ev = <<>> /\ s.status = "Idle"
<1>1. Down(r, s, p) /\ r.status # "Established"
  BY DEF Noted, Guest
<1>2. s.status = "Idle" /\ s.ev = <<>> /\ s.rd = NoThread
  BY <1>1 DEF Down
<1>3. ~s.shut /\ ~s.init /\ ~s.wait /\ s.routes = {}
  BY <1>1 DEF Down, Guest
<1>4. s.tm = {}
  <2>1. s.tm \cap SideTimer = {}
    BY <1>1 DEF Down, Guest, StoppedTm, SideTimer
  <2>2. s.tm \cap FsmTimer = {}
    BY <1>1, <1>2, ConstantAssumption DEF Down, Timed, TimersOf
  <2>3. s.tm \subseteq FsmTimer \cup SideTimer
    BY DEF PeerType
  <2> QED BY <2>1, <2>2, <2>3
<1> QED BY <1>2, <1>3, <1>4, GuestIdle

(* bgp_write leaves it as a temporary peer.                                  *)
LEMMA GuestWritten ==
  ASSUME NEW r \in PeerType, NEW s \in PeerType, NEW p \in Accept, Guest(r, p),
         r.ev = <<>>, Written(r, s, p)
  PROVE  Guest(s, p) /\ s.ev = <<>>
<1>1. CASE Only(r, s, {"wr", "obuf"})
  <2>1. /\ s.status = r.status /\ s.ev = r.ev /\ s.rd = r.rd /\ s.fd = r.fd
        /\ s.shut = r.shut /\ s.init = r.init /\ s.wait = r.wait
        /\ s.routes = r.routes /\ s.tm = r.tm /\ s.over = r.over /\ s.hold = r.hold
    BY <1>1 DEF Only, Field
  <2>2. Timed(s, p)
    BY SMTT(120), <2>1, TimersOfSame DEF Guest, Timed
  <2>3. ~s.shut /\ ~s.init /\ ~s.wait
    BY <2>1 DEF Guest
  <2> QED BY <2>1, <2>2, <2>3 DEF Guest
<1>2. CASE Noted(r, s, p)
  BY <1>2, GuestNoted
<1> QED BY <1>1, <1>2 DEF Written

(* So does an event of the table.                                            *)
LEMMA GuestTurn ==
  ASSUME NEW r \in PeerType, NEW s \in PeerType, NEW p \in Accept, Guest(r, p),
         GuestFired(r, s, p)
  PROVE  Guest(s, p) /\ s.ev = <<>>
<1>1. PICK t \in PeerType :
    \/ /\ r.ev = <<"TCP_connection_open">> /\ t.ev = <<>> /\ Only(r, t, {"ev"})
       /\ Called("bgp_connect_success", t, s) /\ s.status = "OpenSent"
       /\ Timed(s, p)
    \/ /\ r.ev = <<>> /\ r.status = "OpenSent" /\ Only(r, t, {"tm", "init"})
       /\ t.tm = r.tm \ {"hold"} /\ ~t.init
       /\ Called("bgp_fsm_holdtime_expire", t, s) /\ s.status = "Idle"
       /\ Timed(s, p)
  BY DEF GuestFired
<1>a. s.tm \subseteq FsmTimer \cup SideTimer
  BY DEF PeerType
<1>2. CASE /\ r.ev = <<"TCP_connection_open">> /\ t.ev = <<>> /\ Only(r, t, {"ev"})
           /\ Called("bgp_connect_success", t, s) /\ s.status = "OpenSent"
           /\ Timed(s, p)
  <2>1. Kept(t, s)
    BY <1>2 DEF Called, Stops, Dials
  <2>2. /\ s.ev = t.ev /\ s.shut = t.shut /\ s.init = t.init /\ s.wait = t.wait
        /\ s.routes = t.routes
    BY <2>1 DEF Kept, Only, Field
  <2>3. /\ t.shut = r.shut /\ t.init = r.init /\ t.wait = r.wait
        /\ t.routes = r.routes /\ t.tm = r.tm
    BY <1>2 DEF Only, Field
  <2>4. ~s.shut /\ ~s.init /\ ~s.wait /\ s.routes = {}
    BY <2>2, <2>3 DEF Guest
  <2>5. s.tm \cap SideTimer = {}
    BY <2>1, <2>3 DEF Kept, Side, Guest, SideTimer
  <2>6. TimersOf(s, p) \subseteq {"hold"}
    BY <1>2 DEF TimersOf
  <2>7. s.tm \subseteq {"hold"}
    BY <1>a, <1>2, <2>5, <2>6 DEF Timed
  <2> QED BY <1>2, <2>2, <2>4, <2>7 DEF Guest
<1>3. CASE /\ r.ev = <<>> /\ Only(r, t, {"tm", "init"})
           /\ t.tm = r.tm \ {"hold"} /\ ~t.init
           /\ Called("bgp_fsm_holdtime_expire", t, s) /\ s.status = "Idle"
           /\ Timed(s, p)
  <2>1. /\ t.status = r.status /\ t.shut = r.shut /\ t.wait = r.wait
        /\ t.routes = r.routes /\ t.tm = r.tm \ {"hold"}
    BY <1>3 DEF Only, Field
  <2>2. Rested(t, s) /\ Side(s) = StoppedTm(t) /\ t.status # "Established"
    BY <1>3, <2>1 DEF Called, Stops, Halted, Guest
  <2>3. /\ s.ev = <<>> /\ s.rd = NoThread /\ s.shut = t.shut /\ s.init = t.init
        /\ s.wait = t.wait /\ s.routes = t.routes
    BY <2>2 DEF Rested
  <2>4. ~s.shut /\ ~s.init /\ ~s.wait /\ s.routes = {}
    BY <1>3, <2>1, <2>3 DEF Guest
  <2>5. s.tm \cap SideTimer = {}
    BY <2>1, <2>2 DEF StoppedTm, Side, Guest, SideTimer
  <2>6. TimersOf(s, p) = {}
    BY <1>3, ConstantAssumption DEF TimersOf
  <2>7. s.tm = {}
    BY <1>a, <1>3, <2>5, <2>6 DEF Timed
  <2> QED BY <1>3, <2>3, <2>4, <2>7, GuestIdle
<1> QED BY <1>1, <1>2, <1>3

(* Who is on the list after listnode_add_head.                               *)
LEMMA ConsLive ==
  ASSUME NEW s \in Seq(Peer), NEW p \in Peer
  PROVE  /\ \A q : Live(<<p>> \o s, q) <=> q = p \/ Live(s, q)
         /\ Unique(s) /\ ~Live(s, p) => Unique(<<p>> \o s)
<1> DEFINE t == <<p>> \o s
<1>1. /\ t \in Seq(Peer) /\ Len(t) = Len(s) + 1 /\ t[1] = p
      /\ \A i \in 1..Len(s) : t[i + 1] = s[i]
  BY SMTT(120)
<1>2. \A i \in 2..Len(t) : i - 1 \in 1..Len(s) /\ t[i] = s[i - 1]
  BY SMTT(120), <1>1
<1> HIDE DEF t
<1>3. ASSUME NEW q
      PROVE  Live(t, q) <=> q = p \/ Live(s, q)
  <2>1. ASSUME Live(t, q) PROVE q = p \/ Live(s, q)
    <3>1. PICK i \in 1..Len(t) : t[i] = q
      BY <2>1 DEF Live
    <3>2. CASE i = 1
      BY <1>1, <3>1, <3>2
    <3>3. CASE i # 1
      <4>1. i \in 2..Len(t)
        BY SMTT(120), <3>1, <3>3, <1>1
      <4> QED BY <1>2, <3>1, <4>1 DEF Live
    <3> QED BY <3>2, <3>3
  <2>2. ASSUME q = p PROVE Live(t, q)
    <3>1. 1 \in 1..Len(t)
      BY SMTT(120), <1>1
    <3> QED BY <1>1, <2>2, <3>1 DEF Live
  <2>3. ASSUME Live(s, q) PROVE Live(t, q)
    <3>1. PICK i \in 1..Len(s) : s[i] = q
      BY <2>3 DEF Live
    <3>2. i + 1 \in 1..Len(t) /\ t[i + 1] = q
      BY SMTT(120), <1>1, <3>1
    <3> QED BY <3>2 DEF Live
  <2> QED BY <2>1, <2>2, <2>3
<1>4. ASSUME Unique(s), ~Live(s, p), NEW i \in 1..Len(t), NEW j \in 1..Len(t),
             t[i] = t[j]
      PROVE  i = j
  <2>1. CASE i = 1 /\ j = 1
    BY <2>1
  <2>2. CASE i = 1 /\ j # 1
    <3>1. j \in 2..Len(t)
      BY SMTT(120), <1>1, <2>2
    <3> QED BY <1>1, <1>2, <1>4, <2>2, <3>1 DEF Live
  <2>3. CASE i # 1 /\ j = 1
    <3>1. i \in 2..Len(t)
      BY SMTT(120), <1>1, <2>3
    <3> QED BY <1>1, <1>2, <1>4, <2>3, <3>1 DEF Live
  <2>4. CASE i # 1 /\ j # 1
    <3>1. i \in 2..Len(t) /\ j \in 2..Len(t)
      BY SMTT(120), <1>1, <2>4
    <3>2. i - 1 = j - 1
      BY <1>2, <1>4, <3>1 DEF Unique
    <3> QED BY SMTT(120), <3>1, <3>2
  <2> QED BY <2>1, <2>2, <2>3, <2>4
<1>5. Unique(s) /\ ~Live(s, p) => Unique(t)
  BY <1>4 DEF Unique
<1> QED BY <1>3, <1>5 DEF t

(* Who is on the list after listnode_add.                                    *)
LEMMA AppendLive ==
  ASSUME NEW s \in Seq(Peer), NEW p \in Peer
  PROVE  /\ \A q : Live(Append(s, p), q) <=> q = p \/ Live(s, q)
         /\ Unique(s) /\ ~Live(s, p) => Unique(Append(s, p))
<1> DEFINE t == Append(s, p)
<1>1. /\ t \in Seq(Peer) /\ Len(t) = Len(s) + 1 /\ t[Len(s) + 1] = p
      /\ \A i \in 1..Len(s) : t[i] = s[i]
      /\ Len(s) \in Nat
  BY SMTT(120)
<1> HIDE DEF t
<1>2. \A i \in 1..Len(t) : i = Len(s) + 1 \/ i \in 1..Len(s)
  BY SMTT(120), <1>1
<1>3. ASSUME NEW q
      PROVE  Live(t, q) <=> q = p \/ Live(s, q)
  <2>1. ASSUME Live(t, q) PROVE q = p \/ Live(s, q)
    BY <1>1, <1>2, <2>1 DEF Live
  <2>2. ASSUME q = p PROVE Live(t, q)
    <3>1. Len(s) + 1 \in 1..Len(t)
      BY SMTT(120), <1>1
    <3> QED BY <1>1, <2>2, <3>1 DEF Live
  <2>3. ASSUME Live(s, q) PROVE Live(t, q)
    <3>1. PICK i \in 1..Len(s) : s[i] = q
      BY <2>3 DEF Live
    <3>2. i \in 1..Len(t) /\ t[i] = q
      BY SMTT(120), <1>1, <3>1
    <3> QED BY <3>2 DEF Live
  <2> QED BY <2>1, <2>2, <2>3
<1>4. ASSUME Unique(s), ~Live(s, p), NEW i \in 1..Len(t), NEW j \in 1..Len(t),
             t[i] = t[j]
      PROVE  i = j
  <2>1. CASE i = Len(s) + 1 /\ j = Len(s) + 1
    BY <2>1
  <2>2. CASE i = Len(s) + 1 /\ j \in 1..Len(s)
    BY <1>1, <1>4, <2>2 DEF Live
  <2>3. CASE i \in 1..Len(s) /\ j = Len(s) + 1
    BY <1>1, <1>4, <2>3 DEF Live
  <2>4. CASE i \in 1..Len(s) /\ j \in 1..Len(s)
    BY <1>1, <1>4, <2>4 DEF Unique
  <2> QED BY <1>2, <2>1, <2>2, <2>3, <2>4
<1>5. Unique(s) /\ ~Live(s, p) => Unique(t)
  BY <1>4 DEF Unique
<1> QED BY <1>3, <1>5 DEF t

(* Every move of the configured peer preserves what is known of it.          *)
LEMMA ConfMoveMine ==
  ASSUME NEW r \in PeerType, NEW s \in PeerType, Mine(r), ConfMove(r, s)
  PROVE  Mine(s)
<1>1. CASE \E t \in PeerType, e \in Event : Taken(r, t, e) /\ Fired(t, s, e)
  BY <1>1, FiredMine
<1>2. CASE r.ev = <<>> /\ Expired(r, s)
  BY <1>2, ExpiredMine
<1>3. ASSUME r.ev = <<>>, NEW t \in PeerType, Restarting(r, t), Cleared(t, s, Conf)
      PROVE  Mine(s)
  <2>1. Mine(t) /\ t.ev = <<>>
    BY <1>3, RestartMine DEF Restarting
  <2> QED BY <1>3, <2>1, ClearedMine
<1>4. CASE r.ev = <<>> /\ Cleared(r, s, Conf)
  BY <1>4, ClearedMine
<1>5. CASE r.ev = <<>> /\ r.status = "Connect" /\ Checked(r, s)
  BY <1>5, CheckedMine
<1>6. CASE r.ev = <<>> /\ Written(r, s, Conf)
  BY <1>6, WrittenMine
<1>7. CASE r.ev = <<>> /\ Disabled(r, s)
  BY <1>7, DisabledMine
<1>8. CASE r.ev = <<>> /\ Enabled(r, s)
  BY <1>8, EnabledMine
<1> QED BY <1>1, <1>2, <1>3, <1>4, <1>5, <1>6, <1>7, <1>8 DEF ConfMove

(* Every move of a temporary peer leaves it one.                             *)
LEMMA GuestMoveGuest ==
  ASSUME NEW r \in PeerType, NEW s \in PeerType, NEW p \in Accept, Guest(r, p),
         GuestMove(r, s, p)
  PROVE  Guest(s, p) /\ s.ev = <<>>
BY GuestTurn, GuestWritten DEF GuestMove

(* The fields of a peer that peer_create made.                               *)
LEMMA CreateFacts ==
  /\ peer_create.status = "Idle" /\ peer_create.fd = NoFd
  /\ peer_create.rd = NoThread /\ peer_create.wr = NoThread
  /\ peer_create.ev = <<>> /\ peer_create.tm = {"start"} /\ peer_create.init
  /\ ~peer_create.shut /\ ~peer_create.over /\ ~peer_create.wait
  /\ peer_create.routes = {} /\ peer_create.rid = 0
BY DEF peer_create, peer_new

(* A created peer satisfies what is known of the configured peer.            *)
LEMMA CreateMine ==
  /\ Mine(peer_create) /\ Sane(peer_create) /\ Shut(peer_create)
<1>1. Timed(peer_create, Conf)
  BY CreateFacts DEF Timed, TimersOf, FsmTimer
<1>2. Mine(peer_create)
  BY SMTT(120), CreateFacts, <1>1 DEF Mine, Queue, Identity, Timers
<1>3. Routes(peer_create) /\ Unstarted(peer_create) /\ Shut(peer_create)
  BY CreateFacts DEF Routes, Unstarted, Shut
<1>4. Pending(peer_create)
  <2>1. peer_create.ev = <<>>
    BY CreateFacts
  <2> QED BY SMTT(120), <2>1 DEF Pending
<1> QED BY <1>2, <1>3, <1>4 DEF Sane

(* A structure that was never used is a clean temporary peer.                *)
LEMMA NewGuest ==
  /\ \A p \in Accept : Guest(peer_new, p)
  /\ peer_new.rd = NoThread /\ peer_new.wr = NoThread /\ peer_new.ev = <<>>
  /\ peer_new.tm = {}
<1>1. /\ peer_new.rd = NoThread /\ peer_new.wr = NoThread /\ peer_new.ev = <<>>
      /\ peer_new.tm = {} /\ peer_new.status = "Idle" /\ ~peer_new.shut
      /\ ~peer_new.init /\ ~peer_new.wait /\ peer_new.routes = {}
  BY DEF peer_new
<1>2. peer_new \in PeerType
  <2> DEFINE e0 == << >>
  <2>1. e0 \in Seq(Event)
    BY SMTT(120)
  <2>2. peer_new = [status |-> "Idle", fd |-> NoFd, rd |-> NoThread,
                    wr |-> NoThread, tm |-> {}, ev |-> e0, obuf |-> "none",
                    hold |-> 0, rid |-> 0, init |-> FALSE, shut |-> FALSE,
                    over |-> FALSE, gr |-> FALSE, mode |-> FALSE,
                    wait |-> FALSE, nsf |-> FALSE, routes |-> {}]
    BY DEF peer_new
  <2> HIDE DEF e0
  <2>3. 0 \in Nat
    OBVIOUS
  <2> QED BY <2>1, <2>2, <2>3 DEF PeerType, Status
<1> QED BY <1>1, <1>2, GuestIdle

(* So is the one bgp_accept fills in.                                        *)
LEMMA AcceptedGuest ==
  ASSUME NEW p \in Accept, NEW f \in Fd
  PROVE  Guest([peer_new EXCEPT !.fd = f, !.status = "Active",
                                !.ev = <<"TCP_connection_open">>], p)
<1> DEFINE q == <<"TCP_connection_open">>
           s == [peer_new EXCEPT !.fd = f, !.status = "Active", !.ev = q]
<1>1. q # <<>> /\ q = <<"TCP_connection_open">>
  OBVIOUS
<1>2. f # NoFd
  BY SMTT(120), ConstantAssumption DEF NoFd
<1> HIDE DEF q
<1>3. /\ s.rd = NoThread /\ s.ev = q
      /\ s.tm = {} /\ s.status = "Active" /\ ~s.shut
      /\ ~s.init /\ ~s.wait /\ s.routes = {} /\ s.fd = f
  BY DEF peer_new
<1> HIDE DEF s
<1>4. Guest(s, p)
  BY <1>1, <1>2, <1>3 DEF Guest
<1> QED BY <1>4 DEF s, q

(* What a step may do to one session, in the terms of BgpSession.            *)
LeftOf(r) == IF r.status = "Established" THEN {"stale"} ELSE r.routes

Stays(r, s) ==
  s.status = r.status /\ s.fd = r.fd /\ s.routes \subseteq r.routes

Leaves(r, s) == s.status = "Idle" /\ s.routes \subseteq LeftOf(r)

Goes(r, s) ==
  \/ /\ r.status \in {"Idle", "Connect", "Active", "OpenSent"}
     /\ s.status \in {"Connect", "Active"} /\ s.routes \subseteq r.routes
  \/ /\ r.status \in {"Connect", "Active"} /\ s.status = "OpenSent"
     /\ s.fd = r.fd /\ s.routes \subseteq r.routes
  \/ /\ r.status = "OpenSent" /\ s.status = "OpenConfirm"
     /\ s.fd = r.fd /\ s.routes \subseteq r.routes
  \/ /\ r.status = "OpenConfirm" /\ s.status = "Established"
     /\ s.fd = r.fd /\ s.routes \subseteq r.routes
  \/ /\ r.status = "Established" /\ s.status = "Established"
     /\ s.fd = r.fd /\ s.routes \subseteq r.routes \cup {"fresh"}

Swapped(r, s, f) ==
  s.status = "OpenSent" /\ s.fd = f /\ s.routes \subseteq LeftOf(r)

(* A change to other fields leaves the session where it was.                 *)
LEMMA OnlyStays ==
  ASSUME NEW r, NEW s, NEW F, Only(r, s, F), {"status", "fd", "routes"} \cap F = {}
  PROVE  Stays(r, s)
BY DEF Only, Field, Stays

(* A NOTIFICATION takes the session down.                                    *)
LEMMA NotedLeaves ==
  ASSUME NEW r, NEW s, NEW p, Noted(r, s, p), ~r.init
  PROVE  Leaves(r, s) /\ s.ev = <<>> /\ s.shut = r.shut
<1>1. Down(r, s, p)
  BY DEF Noted
<1>2. s.status = "Idle" /\ s.ev = <<>> /\ s.shut = r.shut
  BY <1>1 DEF Down
<1>3. s.routes \subseteq LeftOf(r)
  BY <1>1 DEF Down, LeftOf
<1> QED BY <1>2, <1>3 DEF Leaves

(* An event of the table takes the session one stage further at most.        *)
LEMMA FiredGoes ==
  ASSUME NEW r \in PeerType, NEW t \in PeerType, NEW s \in PeerType, NEW e,
         Taken(r, t, e), Fired(t, s, e), Mine(r), Sane(r)
  PROVE  Stays(r, s) \/ Leaves(r, s) \/ Goes(r, s)
<1> DEFINE st == r.status
           entry == FSM[st][e]
           func == entry[1]
           next == entry[2]
<1>1. /\ e \in Event /\ t.ev = <<>> /\ t.status = st /\ t.fd = r.fd
      /\ t.routes = r.routes
      /\ t.init => r.init
  BY SMTT(120), TakenIs
<1>2. Law(st, entry) /\ EventLaw(st, e, entry)
  BY <1>1, FsmLaw DEF PeerType
<1>3. \/ s = t
      \/ Called(func, t, s) /\ s.status = next
  BY <1>1 DEF Fired
<1>s. st \in Status
  BY DEF PeerType
<1> HIDE DEF entry
<1>l. /\ next \in Status
      /\ next = "Established" =>
           \/ st = "OpenConfirm" /\ func = "bgp_establish"
           \/ st = "Established" /\ func \notin Stops \cup Dials
      /\ func = "bgp_establish" => st = "OpenConfirm" /\ next = "Established"
      /\ next = "OpenConfirm" => st \in {"OpenSent", "OpenConfirm"}
      /\ next = "OpenSent" => st \in {"Connect", "Active", "OpenSent"}
      /\ func \in Dials => st \in {"Connect", "Active"} /\ next = "Connect"
      /\ func \in Stops => \/ next = "Idle"
                           \/ next = "Active" /\ st \in {"Connect", "OpenSent"}
      /\ next = "Connect" => st \in {"Connect", "Active"}
      /\ next = "Active" /\ func \notin Stops => st \in {"Idle", "Active"}
  BY <1>2 DEF Law
<1>e. st = "Established" /\ next # "Established" /\ func \notin Stops =>
        e \in {"TCP_connection_open_failed", "ConnectRetry_timer_expired"}
  BY <1>2 DEF EventLaw
<1> HIDE DEF func, next
<1>4. CASE s = t
  BY <1>1, <1>4 DEF Stays
<1>5. CASE Called(func, t, s) /\ s.status = next
  <2>1. CASE func \in Stops
    <3>1. s.routes \subseteq LeftOf(r)
      <4>1. CASE ~t.init
        <5>1. Rested(t, s)
          BY <1>5, <2>1, <4>1 DEF Called, Halted
        <5> QED BY <1>1, <5>1 DEF Rested, LeftOf
      <4>2. CASE t.init
        <5>1. s.routes = t.routes
          BY <1>5, <2>1, <4>2 DEF Called, Halted, Only, Field
        <5>2. r.routes = {}
          BY <1>1, <4>2 DEF Sane, Unstarted
        <5> QED BY <1>1, <5>1, <5>2
      <4> QED BY <4>1, <4>2
    <3>2. CASE next = "Idle"
      BY <1>5, <3>1, <3>2 DEF Leaves
    <3>3. CASE next = "Active" /\ st \in {"Connect", "OpenSent"}
      BY <1>5, <3>1, <3>3 DEF Goes, LeftOf
    <3> QED BY <1>l, <2>1, <3>2, <3>3
  <2>2. CASE func \in Dials
    <3>1. st \in {"Connect", "Active"} /\ next = "Connect"
      BY <1>l, <2>2
    <3>2. s.routes = t.routes
      BY <1>1, <1>5, <2>2, <3>1 DEF Called, Dialed
    <3> QED BY <1>1, <1>5, <3>1, <3>2 DEF Goes
  <2>3. CASE func = "bgp_establish"
    <3>1. st = "OpenConfirm" /\ next = "Established"
      BY <1>l, <2>3
    <3>2. s.fd = t.fd /\ s.routes \subseteq t.routes
      BY <1>5, <2>3 DEF Called, Raised
    <3> QED BY <1>1, <1>5, <3>1, <3>2 DEF Goes
  <2>4. CASE func \notin Stops \cup Dials \cup {"bgp_establish"}
    <3>1. s.fd = r.fd /\ s.routes = r.routes
      <4>1. Kept(t, s)
        BY <1>5, <2>4 DEF Called
      <4> QED BY <1>1, <4>1 DEF Kept, Only, Field
    <3>2. ~(st = "Established" /\ next # "Established")
      <4> SUFFICES ASSUME st = "Established", next # "Established" PROVE FALSE
        OBVIOUS
      <4>1. e \in {"TCP_connection_open_failed", "ConnectRetry_timer_expired"}
        BY <1>e, <2>4
      <4>2. CASE e = "TCP_connection_open_failed"
        <5>1. r.ev = <<"TCP_connection_open_failed">>
          BY SMTT(120), <4>2 DEF Taken, TimerEvent, FsmTimer
        <5> QED BY <5>1 DEF Sane, Pending
      <4>3. CASE e = "ConnectRetry_timer_expired"
        <5>1. r.ev = <<>> /\ "connect" \in r.tm
          BY SMTT(120), <4>3 DEF Taken, TimerEvent, FsmTimer, QueueEvent
        <5>2. Timed(r, Conf)
          BY <5>1 DEF Mine, Timers
        <5> QED BY <5>1, <5>2 DEF Timed, TimersOf, FsmTimer
      <4> QED BY <4>1, <4>2, <4>3
    <3>3. CASE next = "Idle"
      BY <1>5, <3>1, <3>2, <3>3 DEF Leaves, LeftOf
    <3>4. CASE next \in {"Connect", "Active"}
      <4>1. st \in {"Idle", "Connect", "Active"}
        BY <1>l, <2>4, <3>4
      <4> QED BY <1>5, <3>1, <3>4, <4>1 DEF Goes
    <3>5. CASE next = "OpenSent"
      <4>1. st \in {"Connect", "Active", "OpenSent"}
        BY <1>l, <3>5
      <4> QED BY <1>5, <3>1, <3>5, <4>1 DEF Goes, Stays
    <3>6. CASE next = "OpenConfirm"
      <4>1. st \in {"OpenSent", "OpenConfirm"}
        BY <1>l, <3>6
      <4> QED BY <1>5, <3>1, <3>6, <4>1 DEF Goes, Stays
    <3>7. CASE next = "Established"
      <4>1. st = "Established"
        BY <1>l, <2>4, <3>7
      <4> QED BY <1>5, <3>1, <3>7, <4>1 DEF Stays
    <3> QED BY <1>l, <3>3, <3>4, <3>5, <3>6, <3>7 DEF Status
  <2> QED BY <2>1, <2>2, <2>3, <2>4
<1> QED BY <1>3, <1>4, <1>5

(* A reset takes the session down now or by the event it queues.             *)
LEMMA ResetGoes ==
  ASSUME NEW r, NEW s, Reset(r, s, Conf), r.ev = <<>>,
         r.init => r.status # "Established"
  PROVE  /\ s.shut = r.shut
         /\ \/ Leaves(r, s) /\ s.ev = <<>>
            \/ Stays(r, s) /\ s.ev = <<"BGP_Stop">>
<1>1. CASE r.status = "Established" /\ Noted(r, s, Conf)
  BY <1>1, NotedLeaves
<1>2. CASE Only(r, s, {"ev"}) /\ s.ev = <<"BGP_Stop">>
  <2>1. s.shut = r.shut
    BY <1>2 DEF Only, Field
  <2>2. Stays(r, s)
    BY <1>2, OnlyStays
  <2> QED BY <1>2, <2>1, <2>2
<1> QED BY <1>1, <1>2 DEF Reset

(* Giving up the graceful restart leaves the session where it was.           *)
LEMMA NsfOffStays ==
  ASSUME NEW r, NEW t, NsfOff(r, t)
  PROVE  /\ Stays(r, t) /\ t.ev = r.ev /\ t.shut = r.shut /\ t.init = r.init
         /\ \A s : /\ Stays(t, s) => Stays(r, s)
                   /\ Leaves(t, s) => Leaves(r, s)
<1>1. /\ t.status = r.status /\ t.fd = r.fd /\ t.ev = r.ev
  BY DEF NsfOff, Only, Field
<1>2. t.shut = r.shut /\ t.init = r.init
  BY DEF NsfOff, Only, Field
<1>3. t.routes \subseteq r.routes
  BY DEF NsfOff
<1>4. \A s : Stays(t, s) => Stays(r, s)
  BY <1>1, <1>3 DEF Stays
<1>5. \A s : Leaves(t, s) => Leaves(r, s)
  BY <1>1, <1>3 DEF Leaves, LeftOf
<1>6. Stays(r, t)
  BY <1>1, <1>3 DEF Stays
<1> QED BY <1>1, <1>2, <1>4, <1>5, <1>6

(* peer_clear takes the session down or leaves it.                           *)
LEMMA ClearedGoes ==
  ASSUME NEW r, NEW s, Cleared(r, s, Conf), r.ev = <<>>,
         r.init => r.status # "Established"
  PROVE  /\ Stays(r, s) \/ Leaves(r, s)
         /\ s.shut = r.shut /\ (r.shut => s = r)
<1>1. CASE s = r
  BY <1>1 DEF Stays
<1>2. CASE ~r.shut /\ Only(r, s, {"over", "tm", "ev"})
  <2>1. Stays(r, s)
    BY <1>2, OnlyStays
  <2>2. s.shut = r.shut
    BY <1>2 DEF Only, Field
  <2> QED BY <1>2, <2>1, <2>2
<1>4. ASSUME ~r.shut, NEW t \in PeerType, NsfOff(r, t), Reset(t, s, Conf)
      PROVE  (Stays(r, s) \/ Leaves(r, s)) /\ s.shut = r.shut
  <2>1. /\ t.ev = r.ev /\ t.shut = r.shut /\ t.init = r.init
        /\ t.status = r.status
        /\ Stays(t, s) => Stays(r, s)
        /\ Leaves(t, s) => Leaves(r, s)
    BY <1>4, NsfOffStays DEF Stays
  <2>2. t.init => t.status # "Established"
    BY <2>1
  <2>3. s.shut = t.shut /\ (Leaves(t, s) \/ Stays(t, s))
    BY <1>4, <2>1, <2>2, ResetGoes
  <2> QED BY <2>1, <2>3
<1> QED BY <1>1, <1>2, <1>4 DEF Cleared

(* A peer whose first start timer runs has no session.                       *)
LEMMA UpNotInit ==
  ASSUME NEW r, Sane(r)
  PROVE  /\ r.init => r.status # "Established"
         /\ r.wr # NoThread \/ r.rd # NoThread \/ r.status # "Idle" => ~r.init
BY DEF Sane, Unstarted

(* bgp_write leaves the session or takes it down.                            *)
LEMMA WrittenGoes ==
  ASSUME NEW r, NEW s, Written(r, s, Conf), ~r.init, r.ev = <<>>
  PROVE  /\ Stays(r, s) \/ Leaves(r, s)
         /\ s.ev = <<>> /\ s.shut = r.shut
<1>1. CASE Only(r, s, {"wr", "obuf"})
  <2>1. Stays(r, s)
    BY <1>1, OnlyStays
  <2>2. s.ev = r.ev /\ s.shut = r.shut
    BY <1>1 DEF Only, Field
  <2> QED BY <2>1, <2>2
<1>2. CASE Noted(r, s, Conf)
  BY <1>2, NotedLeaves
<1> QED BY <1>1, <1>2 DEF Written

(* The timers of the graceful restart only remove routes.                    *)
LEMMA ExpiredGoes ==
  ASSUME NEW r, NEW s, Expired(r, s), r.ev = <<>>
  PROVE  Stays(r, s) /\ s.ev = <<>> /\ s.shut = r.shut
<1>1. s.status = r.status /\ s.fd = r.fd /\ s.ev = r.ev /\ s.shut = r.shut
  BY DEF Expired, Only, Field
<1>2. s.routes \subseteq r.routes
  BY DEF Expired, DropStale
<1> QED BY <1>1, <1>2 DEF Stays

(* bgp_connect_check only queues an event.                                   *)
LEMMA CheckedGoes ==
  ASSUME NEW r, NEW s, Checked(r, s)
  PROVE  Stays(r, s) /\ s.ev # <<"BGP_Stop">> /\ s.shut = r.shut
<1>1. Stays(r, s)
  BY OnlyStays DEF Checked
<1>2. s.shut = r.shut
  BY DEF Checked, Only, Field
<1>3. s.ev # <<"BGP_Stop">>
  BY SMTT(120) DEF Checked
<1> QED BY <1>1, <1>2, <1>3

(* The restart after too many prefixes is a peer_clear.                      *)
LEMMA RestartGoes ==
  ASSUME NEW r, NEW t, NEW s, Restarting(r, t), Cleared(t, s, Conf), r.ev = <<>>,
         r.init => r.status # "Established"
  PROVE  /\ Stays(r, s) \/ Leaves(r, s)
         /\ s.shut = r.shut /\ (r.shut => s.ev = <<>>)
<1>1. /\ t.status = r.status /\ t.fd = r.fd /\ t.routes = r.routes /\ t.ev = r.ev
  BY DEF Restarting, Only, Field
<1>2. t.shut = r.shut /\ t.init = r.init
  BY DEF Restarting, Only, Field
<1>3. t.init => t.status # "Established"
  BY <1>1, <1>2
<1>4. /\ Stays(t, s) \/ Leaves(t, s)
      /\ s.shut = t.shut /\ (t.shut => s = t)
  BY <1>1, <1>3, ClearedGoes
<1>5. Stays(r, s) \/ Leaves(r, s)
  BY <1>1, <1>4 DEF Stays, Leaves, LeftOf
<1> QED BY <1>1, <1>2, <1>4, <1>5

(* "neighbor shutdown" takes the session down, now or by its event.          *)
LEMMA DisabledGoes ==
  ASSUME NEW r, NEW s, Disabled(r, s), r.ev = <<>>, ~r.init
  PROVE  /\ s.shut
         /\ \/ Leaves(r, s) /\ s.ev = <<>>
            \/ Stays(r, s) /\ s.ev = <<"BGP_Stop">>
<1>1. PICK t \in PeerType, u \in PeerType :
        /\ NsfOff(r, t) /\ Only(t, u, {"shut", "over", "tm"})
        /\ u.shut /\ ~u.over /\ u.tm = t.tm \ {"pmax_restart"}
        /\ Reset(u, s, Conf)
  BY DEF Disabled
<1>2. /\ t.ev = r.ev /\ t.init = r.init /\ t.status = r.status
      /\ Stays(t, s) => Stays(r, s)
      /\ Leaves(t, s) => Leaves(r, s)
  BY <1>1, NsfOffStays DEF Stays
<1>3. /\ u.status = t.status /\ u.fd = t.fd /\ u.routes = t.routes /\ u.ev = t.ev
      /\ u.init = t.init
  BY <1>1 DEF Only, Field
<1>4. ~u.init /\ u.ev = <<>>
  BY <1>2, <1>3
<1>5. /\ s.shut = u.shut
      /\ \/ Leaves(u, s) /\ s.ev = <<>>
         \/ Stays(u, s) /\ s.ev = <<"BGP_Stop">>
  BY <1>1, <1>4, ResetGoes
<1>6. (Leaves(u, s) => Leaves(t, s)) /\ (Stays(u, s) => Stays(t, s))
  BY <1>3 DEF Leaves, Stays, LeftOf
<1> QED BY <1>1, <1>2, <1>5, <1>6

(* "no neighbor shutdown" leaves the session where it was.                   *)
LEMMA EnabledGoes ==
  ASSUME NEW r, NEW s, Enabled(r, s)
  PROVE  Stays(r, s) /\ r.shut /\ ~s.shut
<1>1. Stays(r, s)
  BY OnlyStays DEF Enabled
<1> QED BY <1>1 DEF Enabled

(* So every move of the configured peer is one stage at most.                *)
LEMMA ConfMoveGoes ==
  ASSUME NEW r \in PeerType, NEW s \in PeerType, Mine(r), ConfMove(r, s), Sane(r),
         ~EarlyShutdown
  PROVE  Stays(r, s) \/ Leaves(r, s) \/ Goes(r, s)
<1>0. r.init => r.status # "Established"
  BY UpNotInit
<1>1. CASE \E t \in PeerType, e \in Event : Taken(r, t, e) /\ Fired(t, s, e)
  BY <1>1, FiredGoes
<1>2. CASE r.ev = <<>> /\ Expired(r, s)
  BY <1>2, ExpiredGoes
<1>3. CASE r.ev = <<>> /\ \E t \in PeerType : Restarting(r, t) /\ Cleared(t, s, Conf)
  BY <1>0, <1>3, RestartGoes
<1>4. CASE r.ev = <<>> /\ Cleared(r, s, Conf)
  BY <1>0, <1>4, ClearedGoes
<1>5. CASE r.ev = <<>> /\ r.status = "Connect" /\ Checked(r, s)
  BY <1>5, CheckedGoes
<1>6. CASE /\ r.ev = <<>> /\ Written(r, s, Conf)
           /\ r.wr # NoThread \/ r.status = "Established"
  <2>1. ~r.init
    BY <1>6, UpNotInit
  <2> QED BY <1>6, <2>1, WrittenGoes
<1>7. CASE r.ev = <<>> /\ Disabled(r, s) /\ ~r.init
  BY <1>7, DisabledGoes
<1>8. CASE r.ev = <<>> /\ Enabled(r, s)
  BY <1>8, EnabledGoes
<1> QED BY <1>1, <1>2, <1>3, <1>4, <1>5, <1>6, <1>7, <1>8 DEF ConfMove

(* A message may add routes to a session that is up, or end it.              *)
LEMMA HandledGoes ==
  ASSUME NEW r, NEW s, Handled(r, s, Conf), ~r.init, r.ev = <<>>
  PROVE  /\ Stays(r, s) \/ Leaves(r, s) \/ Goes(r, s)
         /\ s.shut = r.shut
         /\ r.status # "Established" => s.ev # <<"BGP_Stop">>
         /\ s.status = r.status \/ s.status = "Idle"
<1>1. CASE Touched(r, s)
  <2>1. s.ev = r.ev /\ s.shut = r.shut /\ s.status = r.status
    BY <1>1 DEF Touched, Only, Field
  <2>2. Stays(r, s)
    BY <1>1, OnlyStays DEF Touched
  <2>3. s.ev # <<"BGP_Stop">>
    BY SMTT(120), <2>1
  <2> QED BY <2>1, <2>2, <2>3
<1>2. CASE Noted(r, s, Conf)
  <2>1. Leaves(r, s) /\ s.ev = <<>> /\ s.shut = r.shut
    BY <1>2, NotedLeaves
  <2>2. s.ev # <<"BGP_Stop">> /\ s.status = "Idle"
    BY SMTT(120), <2>1 DEF Leaves
  <2> QED BY <2>1, <2>2
<1>3. CASE Queued(r, s)
  <2>1. s.status = r.status /\ s.fd = r.fd /\ s.shut = r.shut
    BY <1>3 DEF Queued, Only, Field
  <2>2. PICK e \in ReadEvent : s.ev = <<e>> /\ (e = "BGP_Stop" => r.status = "Established")
    BY <1>3 DEF Queued
  <2>3. r.status # "Established" => s.ev # <<"BGP_Stop">>
    <3> SUFFICES ASSUME r.status # "Established", s.ev = <<"BGP_Stop">> PROVE FALSE
      OBVIOUS
    <3>1. s.ev[1] = e /\ s.ev[1] = "BGP_Stop"
      BY SMTT(120), <2>2
    <3> QED BY <2>2, <3>1
  <2>4. CASE r.status = "Established"
    <3>1. s.routes \subseteq r.routes \cup {"fresh"}
      BY <1>3 DEF Queued
    <3>2. Goes(r, s)
      BY <2>1, <2>4, <3>1 DEF Goes
    <3> QED BY <2>1, <2>3, <3>2
  <2>5. CASE r.status # "Established"
    <3>1. s.routes = r.routes
      BY <1>3, <2>5 DEF Queued
    <3>2. Stays(r, s)
      BY <2>1, <3>1 DEF Stays
    <3> QED BY <2>1, <2>3, <3>2
  <2> QED BY <2>4, <2>5
<1> QED BY <1>1, <1>2, <1>3 DEF Handled

(* A take-over starts the session again on the other connection.             *)
LEMMA TakenOverGoes ==
  ASSUME NEW r, NEW s, NEW f, TakenOver(r, s, f), ~r.init
  PROVE  /\ Leaves(r, s) \/ Swapped(r, s, f)
         /\ s.shut = r.shut /\ s.ev # <<"BGP_Stop">>
<1>1. s.routes \subseteq LeftOf(r)
  BY DEF TakenOver, Survive, LeftOf
<1>2. s.shut = r.shut
  BY DEF TakenOver
<1>3. \/ s.status = "Idle" /\ s.ev = <<>>
      \/ s.status = "OpenSent" /\ s.fd = f /\ s.ev = <<"Receive_OPEN_message">>
  BY DEF TakenOver
<1>4. s.ev # <<"BGP_Stop">>
  BY SMTT(120), <1>3
<1>5. Leaves(r, s) \/ Swapped(r, s, f)
  BY <1>1, <1>3 DEF Leaves, Swapped
<1> QED BY <1>2, <1>4, <1>5

(* A temporary peer gets as far as its OPEN.                                 *)
LEMMA GuestGoes ==
  ASSUME NEW r \in PeerType, NEW s \in PeerType, NEW p \in Accept, Guest(r, p),
         GuestMove(r, s, p)
  PROVE  Stays(r, s) \/ Leaves(r, s) \/ Goes(r, s)
<1>0. ~r.init /\ r.routes = {} /\ r.status # "Established"
  BY DEF Guest
<1>1. CASE Only(r, s, {"wr", "obuf"})
  BY <1>1, OnlyStays
<1>2. CASE Noted(r, s, p)
  BY <1>0, <1>2, NotedLeaves
<1>3. CASE GuestFired(r, s, p)
  <2>1. Guest(s, p)
    BY <1>3, GuestTurn
  <2>2. s.routes = {} /\ s.status \in {"Idle", "OpenSent"}
    BY <1>3, <2>1 DEF Guest, GuestFired
  <2>3. CASE s.status = "Idle"
    BY <2>2, <2>3 DEF Leaves
  <2>4. CASE s.status = "OpenSent"
    <3>1. PICK t \in PeerType :
            /\ r.ev = <<"TCP_connection_open">> /\ Only(r, t, {"ev"})
            /\ Called("bgp_connect_success", t, s)
      BY <1>3, <2>4 DEF GuestFired
    <3>2. Kept(t, s)
      BY <3>1 DEF Called, Stops, Dials
    <3>3. s.fd = t.fd /\ t.fd = r.fd
      BY <3>1, <3>2 DEF Kept, Only, Field
    <3>4. r.status = "Active"
      BY SMTT(120), <3>1 DEF Guest
    <3> QED BY <2>2, <2>4, <3>3, <3>4 DEF Goes
  <2> QED BY <2>2, <2>3, <2>4
<1> QED BY <1>1, <1>2, <1>3 DEF GuestMove, Written

(* What a step may do to the operator's state of the configured session.     *)
Administered(r, s) ==
  \/ Admin(r) # "closing" /\ Admin(s) = Admin(r)
  \/ Admin(r) = "on" /\ Admin(s) = "closing" /\ Stays(r, s)
  \/ Admin(r) # "off" /\ Admin(s) = "off" /\ Leaves(r, s)
  \/ Admin(r) = "off" /\ Admin(s) = "on" /\ s.status = "Idle"

(* A step that neither shuts down nor stops keeps the operator's state.      *)
LEMMA AdminKept ==
  ASSUME NEW r, NEW s, r.ev = <<>>, s.shut = r.shut, r.shut => s.ev # <<"BGP_Stop">>
  PROVE  Administered(r, s)
<1>1. r.ev # <<"BGP_Stop">>
  BY SMTT(120)
<1>2. CASE r.shut
  BY <1>1, <1>2 DEF Admin, Administered
<1>3. CASE ~r.shut
  <2>1. ~s.shut
    BY <1>3
  <2> QED BY <1>3, <2>1 DEF Admin, Administered
<1> QED BY <1>2, <1>3

(* An event of the table at most completes a shutdown.                       *)
LEMMA FiredAdmin ==
  ASSUME NEW r \in PeerType, NEW t \in PeerType, NEW s \in PeerType, NEW e \in Event,
         Taken(r, t, e), Fired(t, s, e), Mine(r), Sane(r), Shut(r)
  PROVE  Administered(r, s)
<1>1. t.ev = <<>> /\ t.shut = r.shut
  BY SMTT(120), TakenIs
<1>2. \/ s = t
      \/ Called(FSM[t.status][e][1], t, s)
  BY DEF Fired
<1>3. s.shut = r.shut /\ s.ev # <<"BGP_Stop">>
  <2>1. CASE s = t
    <3>1. s.ev = <<>>
      BY <1>1, <2>1
    <3>2. s.ev # <<"BGP_Stop">>
      BY SMTT(120), <3>1
    <3> QED BY <1>1, <2>1, <3>2
  <2>2. CASE Called(FSM[t.status][e][1], t, s)
    <3> DEFINE func == FSM[t.status][e][1]
    <3>0. Called(func, t, s)
      BY <2>2
    <3> HIDE DEF func
    <3>1. s.shut = t.shut
      BY <1>1, <3>0, CalledKeeps
    <3>2. \/ s.ev = <<>>
          \/ s.ev = <<"TCP_connection_open">>
          \/ s.ev = <<"TCP_connection_open_failed">>
      BY <1>1, <3>0, CalledKeeps
    <3>3. ASSUME s.ev = <<"BGP_Stop">> PROVE FALSE
      <4>1. s.ev # <<>> /\ s.ev[1] = "BGP_Stop"
        BY SMTT(120), <3>3
      <4>2. s.ev[1] \in {"TCP_connection_open", "TCP_connection_open_failed"}
        BY SMTT(120), <3>2, <4>1
      <4> QED BY <4>1, <4>2
    <3> QED BY <1>1, <3>1, <3>3
  <2> QED BY <1>2, <2>1, <2>2
<1>4. Shut(s)
  BY FiredShut
<1>5. Stays(r, s) \/ Leaves(r, s) \/ Goes(r, s)
  BY FiredGoes
<1>6. CASE r.shut
  <2>1. s.shut
    BY <1>3, <1>6
  <2>2. s.status = "Idle"
    BY <1>3, <1>4, <2>1 DEF Shut
  <2>3. Leaves(r, s)
    BY <1>5, <2>2 DEF Stays, Leaves, Goes, LeftOf
  <2>4. Admin(s) = "off" /\ Admin(r) # "on"
    BY <1>3, <1>6, <2>1 DEF Admin
  <2>5. Admin(r) \in {"closing", "off"}
    BY <1>6 DEF Admin
  <2> QED BY <2>2, <2>3, <2>4, <2>5 DEF Administered
<1>7. CASE ~r.shut
  <2>1. ~s.shut
    BY <1>3, <1>7
  <2> QED BY <1>7, <2>1 DEF Admin, Administered
<1> QED BY <1>6, <1>7

(* So does every move of the configured peer.                                *)
LEMMA ConfMoveAdmin ==
  ASSUME NEW r \in PeerType, NEW s \in PeerType, Mine(r), ConfMove(r, s), Sane(r),
         Shut(r), ~EarlyShutdown
  PROVE  Administered(r, s)
<1>0. r.init => r.status # "Established"
  BY UpNotInit
<1>1. CASE \E t \in PeerType, e \in Event : Taken(r, t, e) /\ Fired(t, s, e)
  BY <1>1, FiredAdmin
<1>2. CASE r.ev = <<>> /\ Expired(r, s)
  <2>1. Stays(r, s) /\ s.ev = <<>> /\ s.shut = r.shut
    BY <1>2, ExpiredGoes
  <2>2. s.ev # <<"BGP_Stop">> /\ s.status = r.status
    BY SMTT(120), <2>1 DEF Stays
  <2> QED BY <1>2, <2>1, <2>2, AdminKept
<1>3. CASE r.ev = <<>> /\ \E t \in PeerType : Restarting(r, t) /\ Cleared(t, s, Conf)
  <2>1. /\ Stays(r, s) \/ Leaves(r, s)
        /\ s.shut = r.shut /\ (r.shut => s.ev = <<>>)
    BY <1>0, <1>3, RestartGoes
  <2>2. r.shut => s.ev # <<"BGP_Stop">>
    BY SMTT(120), <2>1
  <2>3. r.status = "Idle" => s.status = "Idle"
    BY <2>1 DEF Stays, Leaves
  <2> QED BY <1>3, <2>1, <2>2, <2>3, AdminKept
<1>4. CASE r.ev = <<>> /\ Cleared(r, s, Conf)
  <2>1. /\ Stays(r, s) \/ Leaves(r, s)
        /\ s.shut = r.shut /\ (r.shut => s = r)
    BY <1>0, <1>4, ClearedGoes
  <2>2. r.shut => s.ev # <<"BGP_Stop">>
    BY SMTT(120), <1>4, <2>1
  <2>3. r.status = "Idle" => s.status = "Idle"
    BY <2>1 DEF Stays, Leaves
  <2> QED BY <1>4, <2>1, <2>2, <2>3, AdminKept
<1>5. CASE r.ev = <<>> /\ r.status = "Connect" /\ Checked(r, s)
  <2>1. s.ev # <<"BGP_Stop">> /\ s.shut = r.shut
    BY <1>5, CheckedGoes
  <2>2. Administered(r, s)
    BY <1>5, <2>1, AdminKept
  <2> QED BY <1>5, <2>2
<1>6. CASE /\ r.ev = <<>> /\ Written(r, s, Conf)
           /\ r.wr # NoThread \/ r.status = "Established"
  <2>1. ~r.init
    BY <1>6, UpNotInit
  <2>2. /\ Stays(r, s) \/ Leaves(r, s)
        /\ s.ev = <<>> /\ s.shut = r.shut
    BY <1>6, <2>1, WrittenGoes
  <2>3. s.ev # <<"BGP_Stop">> /\ (r.status = "Idle" => s.status = "Idle")
    BY SMTT(120), <2>2 DEF Stays, Leaves
  <2> QED BY <1>6, <2>2, <2>3, AdminKept
<1>7. CASE r.ev = <<>> /\ Disabled(r, s) /\ ~r.init /\ ~r.shut
  <2>1. /\ s.shut
        /\ \/ Leaves(r, s) /\ s.ev = <<>>
           \/ Stays(r, s) /\ s.ev = <<"BGP_Stop">>
    BY <1>7, DisabledGoes
  <2> QED BY SMTT(120), <1>7, <2>1 DEF Admin, Administered
<1>8. CASE r.ev = <<>> /\ Enabled(r, s)
  <2>1. Stays(r, s) /\ r.shut /\ ~s.shut
    BY <1>8, EnabledGoes
  <2>2. r.ev # <<"BGP_Stop">>
    BY SMTT(120), <1>8
  <2>3. r.status = "Idle"
    BY <2>1, <2>2 DEF Shut
  <2> QED BY <2>1, <2>2, <2>3 DEF Admin, Administered, Stays
<1> QED BY <1>1, <1>2, <1>3, <1>4, <1>5, <1>6, <1>7, <1>8 DEF ConfMove

=============================================================================
