-------------------------- MODULE BgpFsmInvariants --------------------------
(* The invariants of the BGP sessions, preserved by every move: Calm needs   *)
(* no hypothesis; SoundPeers needs a neighbor that is started before it is   *)
(* shut down or taken over. A move takes the sessions only where BgpSession  *)
(* allows it.                                                                *)
EXTENDS BgpFsmRecords

(* The prover of every step that does not name another one.                  *)
USE ZenonT(60)

(* Nothing is left that would run on the structure.                          *)
Detached(r) ==
  /\ r.status = "Idle" /\ r.rd = NoThread /\ r.wr = NoThread
  /\ r.ev = <<>> /\ r.tm = {}

(* The invariant that holds whatever the constants are.                      *)
Calm(P, L) ==
  /\ Queue(P[Conf]) /\ Identity(P[Conf])
  /\ Live(L, Conf) => Timers(P[Conf], Conf)
  /\ \A p \in Accept : Guest(P[p], p)
  /\ \A p \in Accept : Live(L, p) \/ Detached(P[p])
  /\ \A p, q \in Peer : P[p].ev # <<>> /\ P[q].ev # <<>> => p = q
  /\ Unique(L)

(* The types behind the invariant.                                           *)
LEMMA CalmTypes ==
  ASSUME TypeOK
  PROVE  /\ \A p \in Peer : peer[p] \in PeerType
         /\ plist \in Seq(Peer) /\ Conf \in Peer /\ Accept \subseteq Peer
         /\ Conf \notin Accept
BY ConstantAssumption DEF TypeOK, Peer

(* A step of one structure, which alone may have an event afterwards.        *)
LEMMA QueuesAlone ==
  ASSUME NEW P, NEW Q, NEW p \in Peer, \A q \in Peer \ {p} : Q[q].ev = <<>>
  PROVE  \A a, b \in Peer : Q[a].ev # <<>> /\ Q[b].ev # <<>> => a = b
OBVIOUS

(* While an event is queued no other peer has one.                           *)
LEMMA DueOthers ==
  ASSUME NEW p \in Peer, Due(p), Calm(peer, plist)
  PROVE  \A q \in Peer \ {p} : peer[q].ev = <<>>
BY DEF Due, Quiet, Calm

(* Moves of the configured peer preserve Calm.                               *)
LEMMA ConfStepsCalm ==
  ASSUME TypeOK, TypeOK', Calm(peer, plist), ConfSteps
  PROVE  Calm(peer', plist')
<1>0. /\ \A p \in Peer : peer[p] \in PeerType /\ peer'[p] \in PeerType
      /\ Conf \in Peer /\ Accept \subseteq Peer /\ Conf \notin Accept
  BY CalmTypes DEF TypeOK
<1>1. /\ Live(plist, Conf) /\ Due(Conf) /\ plist' = plist
      /\ \A q \in Peer \ {Conf} : peer'[q] = peer[q]
      /\ ConfMove(peer[Conf], peer'[Conf])
  BY DEF ConfSteps, Alone, Others
<1>2. Mine(peer[Conf])
  BY <1>1 DEF Calm, Mine
<1>3. Mine(peer'[Conf])
  BY <1>0, <1>1, <1>2, ConfMoveMine
<1>4. \A q \in Accept : peer'[q] = peer[q]
  BY <1>0, <1>1
<1>5. \A q \in Peer \ {Conf} : peer'[q].ev = <<>>
  BY <1>0, <1>1, DueOthers
<1>6. \A a, b \in Peer : peer'[a].ev # <<>> /\ peer'[b].ev # <<>> => a = b
  BY <1>0, <1>5, QueuesAlone
<1> QED BY <1>1, <1>3, <1>4, <1>6 DEF Calm, Mine

(* Moves of a temporary peer preserve Calm.                                  *)
LEMMA GuestStepsCalm ==
  ASSUME TypeOK, TypeOK', Calm(peer, plist), NEW p \in Accept, GuestSteps(p)
  PROVE  Calm(peer', plist')
<1>0. /\ \A q \in Peer : peer[q] \in PeerType /\ peer'[q] \in PeerType
      /\ Conf \in Peer /\ Accept \subseteq Peer /\ Conf \notin Accept
  BY CalmTypes DEF TypeOK
<1>1. /\ Live(plist, p) /\ Due(p) /\ plist' = plist
      /\ \A q \in Peer \ {p} : peer'[q] = peer[q]
      /\ GuestMove(peer[p], peer'[p], p)
  BY DEF GuestSteps, Alone, Others
<1>2. Guest(peer'[p], p) /\ peer'[p].ev = <<>>
  BY <1>0, <1>1, GuestMoveGuest DEF Calm
<1>3. peer'[Conf] = peer[Conf]
  BY <1>0, <1>1
<1>4. \A q \in Accept : Guest(peer'[q], q)
  BY <1>0, <1>1, <1>2 DEF Calm
<1>5. \A q \in Accept : Live(plist', q) \/ Detached(peer'[q])
  BY <1>0, <1>1 DEF Calm
<1>6. \A q \in Peer \ {p} : peer'[q].ev = <<>>
  BY <1>0, <1>1, DueOthers
<1>7. \A a, b \in Peer : peer'[a].ev # <<>> /\ peer'[b].ev # <<>> => a = b
  BY <1>0, <1>6, QueuesAlone
<1> QED BY <1>1, <1>3, <1>4, <1>5, <1>7 DEF Calm

(* A temporary peer that another handler may have stopped.                   *)
LEMMA BesideGuest ==
  ASSUME TypeOK, TypeOK', Calm(peer, plist), Quiet, NEW v, v.peer = peer',
         NEW q \in Accept, Beside(World, v, q)
  PROVE  /\ Guest(peer'[q], q) /\ peer'[q].ev = <<>>
         /\ Live(plist, q) \/ Detached(peer'[q])
<1>0. /\ peer[q] \in PeerType /\ peer'[q] \in PeerType /\ q \in Peer
      /\ World.peer = peer /\ World.plist = plist
  BY CalmTypes DEF TypeOK, World
<1>1. Guest(peer[q], q) /\ (Live(plist, q) \/ Detached(peer[q]))
  BY DEF Calm
<1>2. CASE peer'[q] = peer[q]
  BY <1>0, <1>1, <1>2 DEF Quiet
<1>3. CASE Live(plist, q) /\ Noted(peer[q], peer'[q], q)
  BY <1>0, <1>1, <1>3, GuestNoted
<1> QED BY <1>0, <1>2, <1>3 DEF Beside

(* A message read by the configured peer preserves Calm.                     *)
LEMMA HearsCalm ==
  ASSUME TypeOK, TypeOK', Calm(peer, plist), Hears
  PROVE  Calm(peer', plist')
<1>0. /\ \A q \in Peer : peer[q] \in PeerType /\ peer'[q] \in PeerType
      /\ Conf \in Peer /\ Accept \subseteq Peer /\ Conf \notin Accept
  BY CalmTypes DEF TypeOK
<1>1. PICK v : /\ v.peer = peer' /\ v.plist = plist' /\ plist' = plist
               /\ Handled(peer[Conf], peer'[Conf], Conf)
               /\ \A q \in Accept : Beside(World, v, q)
  BY DEF Hears
<1>2. Live(plist, Conf) /\ Quiet /\ peer[Conf].ev = <<>>
  BY <1>0 DEF Hears, Quiet
<1>3. Mine(peer[Conf])
  BY <1>2 DEF Calm, Mine
<1>4. Mine(peer'[Conf])
  BY <1>0, <1>1, <1>2, <1>3, HandledMine
<1>5. \A q \in Accept : /\ Guest(peer'[q], q) /\ peer'[q].ev = <<>>
                        /\ Live(plist, q) \/ Detached(peer'[q])
  BY <1>1, <1>2, BesideGuest
<1>6. \A q \in Peer \ {Conf} : peer'[q].ev = <<>>
  BY <1>5 DEF Peer
<1>7. \A a, b \in Peer : peer'[a].ev # <<>> /\ peer'[b].ev # <<>> => a = b
  BY <1>0, <1>6, QueuesAlone
<1> QED BY <1>1, <1>4, <1>5, <1>7 DEF Calm, Mine

(* A message read by a temporary peer, which ends it, preserves Calm.        *)
LEMMA FinishesCalm ==
  ASSUME TypeOK, TypeOK', Calm(peer, plist), NEW p \in Accept, Finishes(p)
  PROVE  Calm(peer', plist')
<1>0. /\ \A q \in Peer : peer[q] \in PeerType /\ peer'[q] \in PeerType
      /\ Conf \in Peer /\ Accept \subseteq Peer /\ Conf \notin Accept
      /\ plist \in Seq(Peer) /\ World.peer = peer /\ World.plist = plist
  BY CalmTypes DEF TypeOK, World
<1>1. PICK v : v.peer = peer' /\ v.plist = plist' /\ Finished(World, v, p)
  BY DEF Finishes
<1>2. Quiet /\ peer[Conf].ev = <<>>
  BY <1>0 DEF Finishes, Quiet
<1>3. plist' = listnode_delete(plist, p) /\ Removed(peer[p], peer'[p])
  BY <1>0, <1>1 DEF Finished
<1>4. Unique(plist') /\ ~Live(plist', p)
  BY <1>0, <1>3, DeleteUnique DEF Calm
<1>5. \A q : q # p => (Live(plist', q) <=> Live(plist, q))
  BY <1>0, <1>3, DeleteOthers
<1>6. Guest(peer'[p], p) /\ Detached(peer'[p])
  BY <1>0, <1>3, GuestRemoved DEF Calm, Removed, Detached
<1>7. \A q \in Accept \ {p} : /\ Guest(peer'[q], q) /\ peer'[q].ev = <<>>
                              /\ Live(plist, q) \/ Detached(peer'[q])
  <2>1. \A q \in Accept \ {p} : Beside(World, v, q)
    BY <1>0, <1>1 DEF Finished
  <2> QED BY <1>1, <1>2, <2>1, BesideGuest
<1>8. /\ Queue(peer'[Conf]) /\ Identity(peer'[Conf])
      /\ Live(plist', Conf) => Timers(peer'[Conf], Conf)
  <2>1. CASE peer'[Conf] = peer[Conf]
    BY <1>0, <1>5, <2>1 DEF Calm
  <2>2. CASE Live(plist, Conf) /\ Noted(peer[Conf], peer'[Conf], Conf)
    <3>1. Mine(peer[Conf])
      BY <2>2 DEF Calm, Mine
    <3> QED BY <1>0, <1>2, <2>2, <3>1, NotedMine DEF Mine
  <2>3. CASE TakenOver(peer[Conf], peer'[Conf], peer[p].fd)
    BY <1>0, <2>3, TakenOverMine DEF Mine
  <2> QED BY <1>0, <1>1, <2>1, <2>2, <2>3 DEF Finished, Beside
<1>9. \A q \in Accept : Guest(peer'[q], q) /\ peer'[q].ev = <<>>
  BY <1>6, <1>7 DEF Detached
<1>10. \A q \in Accept : Live(plist', q) \/ Detached(peer'[q])
  BY <1>5, <1>6, <1>7
<1>11. \A q \in Peer \ {Conf} : peer'[q].ev = <<>>
  BY <1>9 DEF Peer
<1>12. \A a, b \in Peer : peer'[a].ev # <<>> /\ peer'[b].ev # <<>> => a = b
  BY <1>0, <1>11, QueuesAlone
<1> QED BY <1>4, <1>8, <1>9, <1>10, <1>12 DEF Calm

(* bgp_accept preserves Calm, on a structure that was clean.                 *)
LEMMA AcceptCalm ==
  ASSUME TypeOK, TypeOK', Calm(peer, plist), NEW p \in Accept, bgp_accept(p)
  PROVE  /\ Calm(peer', plist') /\ Others(p) /\ plist' = <<p>> \o plist
         /\ peer[p].ev = <<>> /\ peer'[p].fd \in Fd
         /\ peer'[p].status = "Active" /\ peer'[p].routes = {}
<1>0. /\ \A q \in Peer : peer[q] \in PeerType /\ peer'[q] \in PeerType
      /\ Conf \in Peer /\ Accept \subseteq Peer /\ Conf \notin Accept
      /\ plist \in Seq(Peer) /\ peer \in [Peer -> PeerType]
  BY CalmTypes DEF TypeOK
<1>1. PICK f \in Fd \ open :
        /\ peer' = [peer EXCEPT ![p] =
                      [peer_new EXCEPT !.fd = f, !.status = "Active",
                                       !.ev = <<"TCP_connection_open">>]]
        /\ plist' = <<p>> \o plist
  BY DEF bgp_accept
<1> DEFINE e == <<"TCP_connection_open">>
           s == [peer_new EXCEPT !.fd = f, !.status = "Active", !.ev = e]
<1>2. Guest(s, p)
  BY <1>1, AcceptedGuest
<1>s. s.fd = f /\ s.status = "Active" /\ s.routes = {}
  <2> HIDE DEF e
  <2> QED BY DEF peer_new
<1>3. peer' = [peer EXCEPT ![p] = s]
  BY <1>1
<1> HIDE DEF s
<1>4. peer'[p] = s /\ \A q \in Peer \ {p} : peer'[q] = peer[q]
  BY <1>0, <1>3
<1>5. Quiet /\ ~Live(plist, p)
  BY DEF bgp_accept
<1>6. Unique(plist') /\ \A q : Live(plist', q) <=> q = p \/ Live(plist, q)
  BY <1>0, <1>1, <1>5, ConsLive DEF Calm
<1>7. /\ Queue(peer'[Conf]) /\ Identity(peer'[Conf])
      /\ Live(plist', Conf) => Timers(peer'[Conf], Conf)
  BY <1>0, <1>4, <1>6 DEF Calm
<1>8. \A q \in Accept : Guest(peer'[q], q)
  BY <1>0, <1>2, <1>4 DEF Calm
<1>9. \A q \in Accept : Live(plist', q) \/ Detached(peer'[q])
  BY <1>0, <1>4, <1>6 DEF Calm
<1>10. \A q \in Peer \ {p} : peer'[q].ev = <<>>
  BY <1>4, <1>5 DEF Quiet
<1>11. \A a, b \in Peer : peer'[a].ev # <<>> /\ peer'[b].ev # <<>> => a = b
  BY <1>0, <1>10, QueuesAlone
<1>12. Calm(peer', plist')
  BY <1>6, <1>7, <1>8, <1>9, <1>11 DEF Calm
<1>13. peer[p].ev = <<>>
  BY <1>0, <1>5 DEF Quiet
<1>14. Others(p) /\ plist' = <<p>> \o plist
  BY <1>1, <1>4 DEF Others
<1>15. /\ peer'[p].fd \in Fd /\ peer'[p].status = "Active"
       /\ peer'[p].routes = {}
  BY <1>s, <1>4
<1> QED BY <1>12, <1>13, <1>14, <1>15

(* peer_delete by the operator preserves Calm.                               *)
LEMMA DeletesCalm ==
  ASSUME TypeOK, TypeOK', Calm(peer, plist), Deletes
  PROVE  Calm(peer', plist') /\ ~Live(plist', Conf)
<1>0. /\ \A q \in Peer : peer[q] \in PeerType /\ peer'[q] \in PeerType
      /\ Conf \in Peer /\ Accept \subseteq Peer /\ Conf \notin Accept
      /\ plist \in Seq(Peer)
  BY CalmTypes DEF TypeOK
<1> DEFINE r == peer[Conf]
           s == peer'[Conf]
<1>1. /\ Quiet /\ plist' = listnode_delete(plist, Conf) /\ Gone(r, s)
      /\ \A q \in Peer \ {Conf} : peer'[q] = peer[q]
  BY DEF Deletes, Others
<1>2. Unique(plist') /\ ~Live(plist', Conf)
  BY <1>0, <1>1, DeleteUnique DEF Calm
<1>3. \A q : q # Conf => (Live(plist', q) <=> Live(plist, q))
  BY <1>0, <1>1, DeleteOthers
<1>4. r.ev = <<>> /\ Identity(r)
  BY <1>0, <1>1 DEF Quiet, Calm
<1>5. s.ev = <<>>
  BY <1>1, <1>4 DEF Gone
<1>6. Identity(s)
  <2>1. CASE ~r.init
    BY SMTT(120), <1>1, <1>5, <2>1 DEF Gone, Identity
  <2>2. CASE r.init
    BY <1>1, <1>4, <1>5, <2>2 DEF Gone, Identity, Known
  <2> QED BY <2>1, <2>2
<1>7. \A q \in Accept : peer'[q] = peer[q] /\ peer'[q].ev = <<>>
  BY <1>0, <1>1 DEF Quiet
<1>8. \A q \in Accept : Live(plist', q) \/ Detached(peer'[q])
  BY <1>0, <1>3, <1>7 DEF Calm
<1>9. \A q \in Peer \ {Conf} : peer'[q].ev = <<>>
  BY <1>7 DEF Peer
<1>10. \A a, b \in Peer : peer'[a].ev # <<>> /\ peer'[b].ev # <<>> => a = b
  BY <1>0, <1>9, QueuesAlone
<1> QED BY <1>2, <1>5, <1>6, <1>7, <1>8, <1>10 DEF Calm, Queue

(* peer_create by the operator preserves Calm.                               *)
LEMMA CreatesCalm ==
  ASSUME TypeOK, TypeOK', Calm(peer, plist), Creates
  PROVE  Calm(peer', plist') /\ Live(plist', Conf)
<1>0. /\ \A q \in Peer : peer[q] \in PeerType /\ peer'[q] \in PeerType
      /\ Conf \in Peer /\ Accept \subseteq Peer /\ Conf \notin Accept
      /\ plist \in Seq(Peer)
  BY CalmTypes DEF TypeOK
<1>1. /\ Quiet /\ plist' = Append(plist, Conf) /\ peer'[Conf] = peer_create
      /\ \A q \in Peer \ {Conf} : peer'[q] = peer[q]
      /\ ~Live(plist, Conf)
  BY DEF Creates, Others
<1>2. Unique(plist') /\ \A q : Live(plist', q) <=> q = Conf \/ Live(plist, q)
  BY <1>0, <1>1, AppendLive DEF Calm
<1>3. Mine(peer'[Conf])
  BY <1>1, CreateMine
<1>4. \A q \in Accept : peer'[q] = peer[q]
  BY <1>0, <1>1
<1>5. \A q \in Accept : Live(plist', q) \/ Detached(peer'[q])
  BY <1>2, <1>4 DEF Calm
<1>6. \A q \in Peer \ {Conf} : peer'[q].ev = <<>>
  BY <1>1 DEF Quiet
<1>7. \A a, b \in Peer : peer'[a].ev # <<>> /\ peer'[b].ev # <<>> => a = b
  BY <1>0, <1>6, QueuesAlone
<1> QED BY <1>2, <1>3, <1>4, <1>5, <1>7 DEF Calm, Mine

(* Every move preserves Calm.                                                *)
LEMMA MovedCalm ==
  ASSUME TypeOK, TypeOK', Calm(peer, plist), Moved
  PROVE  Calm(peer', plist')
<1>1. CASE ConfSteps \/ Hears
  BY <1>1, ConfStepsCalm, HearsCalm
<1>2. CASE Deletes \/ Creates
  BY <1>2, DeletesCalm, CreatesCalm
<1>3. ASSUME NEW p \in Accept, GuestSteps(p) \/ Finishes(p) \/ bgp_accept(p)
      PROVE  Calm(peer', plist')
  <2>1. CASE GuestSteps(p)
    BY <2>1, GuestStepsCalm
  <2>2. CASE Finishes(p)
    BY <2>2, FinishesCalm
  <2>3. CASE bgp_accept(p)
    BY <2>3, AcceptCalm
  <2> QED BY <1>3, <2>1, <2>2, <2>3
<1> QED BY <1>1, <1>2, <1>3 DEF Moved

(* One connection of the neighbour at a time waits for its OPEN.             *)
OneAtATime == \A a, b \in Accept : a = b

(* Nothing reaches a structure whose first start timer has not expired: the  *)
(* operator does not shut it down, and if there may be several accepted      *)
(* connections none of them is left over from a deleted neighbour.           *)
Started == ~EarlyShutdown /\ (OneAtATime \/ "create" \notin AdminOps)

(* The invariant that holds then.                                            *)
SoundPeers(P, L) ==
  /\ Live(L, Conf) => Sane(P[Conf])
  /\ OneAtATime /\ Live(L, Conf) => Shut(P[Conf])
  /\ ~Live(L, Conf) => /\ Detached(P[Conf]) /\ P[Conf].status = "Idle"
                       /\ P[Conf].routes = {}
  /\ P[Conf].init /\ ~OneAtATime => \A p \in Accept : ~Live(L, p)

(* A move of the configured peer keeps it sane, and shut down if it was.     *)
LEMMA ConfMoveSane ==
  ASSUME NEW r \in PeerType, NEW s \in PeerType, Mine(r), ConfMove(r, s), Sane(r),
         ~EarlyShutdown
  PROVE  Sane(s) /\ (s.init => r.init) /\ (Shut(r) => Shut(s))
<1>1. ASSUME NEW t \in PeerType, NEW e \in Event, Taken(r, t, e), Fired(t, s, e)
      PROVE  Sane(s) /\ (s.init => r.init) /\ (Shut(r) => Shut(s))
  <2>1. t.init => r.init
    BY <1>1, TakenIs
  <2>2. s.init = t.init
    <3>1. t.ev = <<>>
      BY <1>1, TakenIs
    <3>2. \/ s = t
          \/ Called(FSM[t.status][e][1], t, s)
      BY <1>1 DEF Fired
    <3> QED BY <1>1, <3>1, <3>2, CalledKeeps
  <2>3. s.init => r.init
    BY <2>1, <2>2
  <2> QED BY <1>1, <2>3, FiredSane, FiredShut
<1>2. CASE r.ev = <<>> /\ Expired(r, s)
  BY <1>2, ExpiredMine
<1>3. ASSUME r.ev = <<>>, NEW t \in PeerType, Restarting(r, t), Cleared(t, s, Conf)
      PROVE  Sane(s) /\ (s.init => r.init) /\ (Shut(r) => Shut(s))
  <2>1. Mine(t) /\ t.ev = <<>> /\ Sane(t) /\ ~t.init /\ (Shut(r) => Shut(t))
    BY <1>3, RestartMine DEF Restarting
  <2> QED BY <1>3, <2>1, ClearedMine
<1>4. CASE r.ev = <<>> /\ Cleared(r, s, Conf)
  BY <1>4, ClearedMine
<1>5. CASE r.ev = <<>> /\ r.status = "Connect" /\ Checked(r, s)
  BY <1>5, CheckedMine
<1>6. CASE /\ r.ev = <<>> /\ Written(r, s, Conf)
           /\ r.wr # NoThread \/ r.status = "Established"
  <2>1. ~r.init
    BY <1>6 DEF Sane, Unstarted
  <2> QED BY <1>6, <2>1, WrittenMine
<1>7. CASE r.ev = <<>> /\ Disabled(r, s) /\ ~r.init
  BY <1>7, DisabledMine
<1>8. CASE r.ev = <<>> /\ Enabled(r, s)
  BY <1>8, EnabledMine
<1> QED BY <1>1, <1>2, <1>3, <1>4, <1>5, <1>6, <1>7, <1>8 DEF ConfMove

(* The types behind the stronger invariant.                                  *)
LEMMA SoundTypes ==
  ASSUME TypeOK, TypeOK', Calm(peer, plist)
  PROVE  /\ peer[Conf] \in PeerType /\ peer'[Conf] \in PeerType
         /\ Conf \in Peer /\ Accept \subseteq Peer /\ Conf \notin Accept
         /\ plist \in Seq(Peer)
         /\ Live(plist, Conf) => Mine(peer[Conf])
BY CalmTypes DEF TypeOK, Calm, Mine

(* Moves of the configured peer preserve SoundPeers.                         *)
LEMMA ConfStepsSound ==
  ASSUME TypeOK, TypeOK', Calm(peer, plist), SoundPeers(peer, plist), Started, ConfSteps
  PROVE  SoundPeers(peer', plist')
<1> DEFINE r == peer[Conf]
           s == peer'[Conf]
<1>1. /\ Live(plist, Conf) /\ plist' = plist /\ ConfMove(r, s)
  BY DEF ConfSteps, Alone, Others
<1>2. /\ r \in PeerType /\ s \in PeerType /\ Mine(r)
  BY <1>1, SoundTypes
<1>3. Sane(r) /\ (OneAtATime => Shut(r))
  BY <1>1 DEF SoundPeers
<1>4. Sane(s) /\ (s.init => r.init) /\ (Shut(r) => Shut(s))
  BY <1>1, <1>2, <1>3, ConfMoveSane DEF Started
<1>5. s.init /\ ~OneAtATime => \A p \in Accept : ~Live(plist', p)
  BY <1>1, <1>4 DEF SoundPeers
<1> HIDE DEF r, s
<1> QED BY <1>1, <1>3, <1>4, <1>5 DEF SoundPeers, s

(* So do moves that leave it alone.                                          *)
LEMMA SameConfSound ==
  ASSUME SoundPeers(peer, plist), peer'[Conf] = peer[Conf],
         Live(plist', Conf) <=> Live(plist, Conf),
         \A q \in Accept : Live(plist', q) => Live(plist, q) \/ ~peer[Conf].init
  PROVE  SoundPeers(peer', plist')
BY DEF SoundPeers

(* So does a step that leaves it started.                                    *)
LEMMA NotedSound ==
  ASSUME SoundPeers(peer, plist), Live(plist', Conf), ~peer'[Conf].init,
         Sane(peer'[Conf]), OneAtATime => Shut(peer'[Conf])
  PROVE  SoundPeers(peer', plist')
BY DEF SoundPeers

(* A message it reads preserves SoundPeers.                                  *)
LEMMA HearsSound ==
  ASSUME TypeOK, TypeOK', Calm(peer, plist), SoundPeers(peer, plist), Hears
  PROVE  SoundPeers(peer', plist')
<1> DEFINE r == peer[Conf]
           s == peer'[Conf]
<1>1. /\ Live(plist, Conf) /\ plist' = plist /\ Handled(r, s, Conf)
      /\ r.rd # NoThread /\ r.ev = <<>>
  BY SoundTypes DEF Hears, Quiet
<1>2. /\ r \in PeerType /\ s \in PeerType
  BY SoundTypes
<1>3. Sane(r) /\ (OneAtATime => Shut(r))
  BY <1>1 DEF SoundPeers
<1>4. ~r.init
  BY <1>1, <1>3 DEF Sane, Unstarted
<1>5. Sane(s) /\ ~s.init /\ (Shut(r) => Shut(s))
  BY <1>1, <1>2, <1>3, <1>4, HandledSane
<1> HIDE DEF r, s
<1> QED BY <1>1, <1>3, <1>5, NotedSound DEF s

(* A temporary peer that ends, its take-over included, preserves it.         *)
LEMMA FinishesSound ==
  ASSUME TypeOK, TypeOK', Calm(peer, plist), SoundPeers(peer, plist), NEW p \in Accept,
         Finishes(p)
  PROVE  SoundPeers(peer', plist')
<1> DEFINE r == peer[Conf]
           s == peer'[Conf]
<1>0. World.peer = peer /\ World.plist = plist
  BY DEF World
<1>1. PICK v : v.peer = peer' /\ v.plist = plist' /\ Finished(World, v, p)
  BY DEF Finishes
<1>2. /\ r \in PeerType /\ s \in PeerType /\ plist \in Seq(Peer) /\ p # Conf
      /\ r.ev = <<>> /\ Live(plist, p)
  BY SoundTypes DEF Finishes, Quiet
<1>3. plist' = listnode_delete(plist, p)
  BY <1>0, <1>1 DEF Finished
<1>4. Live(plist', Conf) <=> Live(plist, Conf)
  BY <1>2, <1>3, DeleteOthers
<1>5. CASE s = r
  <2>1. ASSUME NEW q \in Accept, Live(plist', q)
        PROVE  Live(plist, q)
    BY <1>2, <1>3, <2>1, DeleteOthers
  <2> QED BY <1>4, <1>5, <2>1, SameConfSound
<1>6. CASE /\ Live(plist, Conf) /\ r.status \in {"OpenSent", "OpenConfirm"}
           /\ Noted(r, s, Conf)
  <2>1. Sane(r)
    BY <1>6 DEF SoundPeers
  <2>2. ~r.init
    BY <1>6, <2>1 DEF Sane, Unstarted
  <2>3. Sane(s) /\ Shut(s) /\ ~s.init
    BY <1>2, <1>6, <2>1, <2>2, NotedSane
  <2> HIDE DEF r, s
  <2> QED BY <1>4, <1>6, <2>3, NotedSound DEF s
<1>7. CASE Live(plist, Conf) /\ Busy(World, p) /\ TakenOver(r, s, peer[p].fd)
  <2>1. Sane(r) /\ (OneAtATime => Shut(r))
    BY <1>7 DEF SoundPeers
  <2>2. \/ r.status \in {"Active", "OpenSent", "OpenConfirm", "Established"}
        \/ \E q \in Accept \ {p} : Live(plist, q)
    BY <1>0, <1>7 DEF Busy
  <2>3. ~r.init
    <3>1. CASE r.status \in {"Active", "OpenSent", "OpenConfirm", "Established"}
      BY <2>1, <3>1 DEF Sane, Unstarted
    <3>2. CASE \E q \in Accept \ {p} : Live(plist, q)
      <4>1. ~OneAtATime
        BY <3>2 DEF OneAtATime
      <4> QED BY <1>2, <4>1 DEF SoundPeers
    <3> QED BY <2>2, <3>1, <3>2
  <2>4. ASSUME OneAtATime PROVE ~r.shut
    <3>1. r.status \in {"Active", "OpenSent", "OpenConfirm", "Established"}
      BY <2>2, <2>4 DEF OneAtATime
    <3>2. r.ev # <<"BGP_Stop">>
      BY SMTT(120), <1>2
    <3> QED BY <2>1, <2>4, <3>1, <3>2 DEF Shut
  <2>5. Sane(s) /\ ~s.init /\ (~r.shut => Shut(s))
    BY <1>2, <1>7, <2>1, <2>3, TakenOverSane
  <2> HIDE DEF r, s
  <2> QED BY <1>4, <1>7, <2>4, <2>5, NotedSound DEF s
<1> QED BY <1>0, <1>1, <1>5, <1>6, <1>7 DEF Finished, Beside

(* Deleting the configured peer leaves nothing that would run later.         *)
LEMMA DeletesSound ==
  ASSUME TypeOK, TypeOK', Calm(peer, plist), SoundPeers(peer, plist), Deletes
  PROVE  SoundPeers(peer', plist')
<1> DEFINE r == peer[Conf]
           s == peer'[Conf]
<1>1. /\ r \in PeerType /\ s \in PeerType /\ plist \in Seq(Peer)
      /\ Live(plist, Conf) /\ r.ev = <<>> /\ Gone(r, s)
      /\ plist' = listnode_delete(plist, Conf)
  BY SoundTypes DEF Deletes, Quiet
<1>2. ~Live(plist', Conf)
  BY DeletesCalm
<1>3. Sane(r)
  BY <1>1 DEF SoundPeers
<1>4. Detached(s)
  BY <1>1, <1>3 DEF Gone, Detached, Sane, Unstarted
<1>5. s.status = "Idle"
  BY <1>1, <1>3 DEF Gone, Sane, Unstarted
<1>6. s.routes = {}
  <2>1. CASE r.init
    BY <1>1, <1>3, <2>1 DEF Gone, Sane, Unstarted
  <2>2. CASE ~r.init
    <3>1. CASE r.wait \/ r.status = "Established"
      BY <1>1, <2>2, <3>1 DEF Gone
    <3>2. CASE ~r.wait /\ r.status # "Established"
      <4>1. r.routes = {}
        BY <1>1, <1>3, <3>2 DEF Sane, Routes, PeerType
      <4> QED BY <1>1, <2>2, <3>2, <4>1 DEF Gone
    <3> QED BY <3>1, <3>2
  <2> QED BY <2>1, <2>2
<1>7. s.init = r.init
  BY <1>1 DEF Gone
<1>8. \A q \in Accept : Live(plist', q) => Live(plist, q)
  <2>1. Conf \notin Accept
    BY SoundTypes
  <2> QED BY <1>1, <2>1, DeleteOthers
<1>9. s.init /\ ~OneAtATime => \A q \in Accept : ~Live(plist', q)
  BY <1>7, <1>8 DEF SoundPeers
<1> HIDE DEF r, s
<1> QED BY <1>2, <1>4, <1>5, <1>6, <1>9 DEF SoundPeers, s

(* Every move preserves SoundPeers.                                          *)
LEMMA MovedSound ==
  ASSUME TypeOK, TypeOK', Calm(peer, plist), SoundPeers(peer, plist), Started, Moved
  PROVE  SoundPeers(peer', plist')
<1>1. CASE ConfSteps \/ Hears
  BY <1>1, ConfStepsSound, HearsSound
<1>2. CASE Deletes
  BY <1>2, DeletesSound
<1>3. CASE Creates
  <2>1. peer'[Conf] = peer_create /\ Live(plist', Conf)
    BY <1>3, CreatesCalm DEF Creates
  <2>2. OneAtATime
    BY <1>3 DEF Creates, Started
  <2> QED BY <2>1, <2>2, CreateMine DEF SoundPeers
<1>4. ASSUME NEW p \in Accept, GuestSteps(p) \/ Finishes(p) \/ bgp_accept(p)
      PROVE  SoundPeers(peer', plist')
  <2>0. Conf \in Peer \ {p} /\ plist \in Seq(Peer) /\ p \in Peer
    BY SoundTypes
  <2>1. CASE GuestSteps(p)
    <3>1. plist' = plist /\ peer'[Conf] = peer[Conf]
      BY <2>0, <2>1 DEF GuestSteps, Alone, Others
    <3> QED BY <3>1, SameConfSound
  <2>2. CASE Finishes(p)
    BY <2>2, FinishesSound
  <2>3. CASE bgp_accept(p)
    <3>1. plist' = <<p>> \o plist /\ peer'[Conf] = peer[Conf]
      BY <2>0, <2>3, AcceptCalm DEF Others
    <3>2. \A q : Live(plist', q) <=> q = p \/ Live(plist, q)
      BY <2>0, <3>1, ConsLive
    <3>3. ~peer[Conf].init
      BY <2>3 DEF bgp_accept, SoundPeers, Sane, Unstarted
    <3> QED BY <2>0, <3>1, <3>2, <3>3, SameConfSound
  <2> QED BY <1>4, <2>1, <2>2, <2>3
<1> QED BY <1>1, <1>2, <1>3, <1>4 DEF Moved

(* The two invariants as state predicates.                                   *)
Settled == TypeOK /\ Calm(peer, plist)

Regular == Settled /\ SoundPeers(peer, plist)

(* The structures and the list when bgpd starts.                             *)
LEMMA InitLists ==
  ASSUME Init
  PROVE  /\ peer[Conf] = peer_create /\ \A p \in Accept : peer[p] = peer_new
         /\ Live(plist, Conf) /\ Unique(plist)
         /\ \A p \in Accept : ~Live(plist, p)
<1>1. Conf \in Peer /\ Accept \subseteq Peer /\ Conf \notin Accept
  BY ConstantAssumption DEF Peer
<1>2. peer[Conf] = peer_create /\ \A p \in Accept : peer[p] = peer_new
  BY <1>1 DEF Init
<1>3. plist = <<Conf>>
  BY DEF Init
<1>4. \A i : i \in 1..Len(plist) <=> i = 1
  BY SMTT(120), <1>3
<1>5. plist[1] = Conf
  BY <1>3
<1>6. Live(plist, Conf) /\ Unique(plist)
  BY SMTT(120), <1>4, <1>5 DEF Live, Unique
<1>7. \A p \in Accept : ~Live(plist, p)
  BY <1>1, <1>4, <1>5 DEF Live
<1> QED BY <1>2, <1>6, <1>7

(* Settled contains the properties that need no hypothesis.                  *)
LEMMA SettledSafe ==
  ASSUME Settled
  PROVE  IdentityKnown /\ TimersMatchStatus /\ OneQueue
<1>1. IdentityKnown
  BY DEF Settled, Calm, Identity, Known, Guest, IdentityKnown, Peer
<1>2. TimersMatchStatus
  BY DEF Settled, Calm, Timers, Timed, Guest, TimersMatchStatus, Quiet, Peer
<1>3. OneQueue
  BY DEF Settled, Calm, OneQueue
<1> QED BY <1>1, <1>2, <1>3

(* Regular contains the properties that need Started.                        *)
LEMMA RegularSafe ==
  ASSUME Regular
  PROVE  /\ RoutesFollowSession /\ DeletedIsDetached
         /\ OneAtATime => ShutIsDown
<1>0. \A p \in Accept : Guest(peer[p], p)
  BY DEF Regular, Settled, Calm
<1>1. Routes(peer[Conf])
  <2>1. CASE Live(plist, Conf)
    BY <2>1 DEF Regular, SoundPeers, Sane
  <2>2. CASE ~Live(plist, Conf)
    BY <2>2 DEF Regular, SoundPeers, Routes
  <2> QED BY <2>1, <2>2
<1>2. RoutesFollowSession
  <2> SUFFICES ASSUME NEW p \in Peer
               PROVE  /\ "fresh" \in peer[p].routes => peer[p].status = "Established"
                      /\ "stale" \in peer[p].routes =>
                           peer[p].tm \cap {"gr_restart", "gr_stale"} # {}
    BY DEF RoutesFollowSession
  <2>1. CASE p = Conf
    BY <1>1, <2>1 DEF Routes
  <2>2. CASE p \in Accept
    BY <1>0, <2>2 DEF Guest
  <2> QED BY <2>1, <2>2 DEF Peer
<1>3. DeletedIsDetached
  BY DEF Regular, Settled, Calm, SoundPeers, Detached, DeletedIsDetached, Peer
<1>4. ASSUME OneAtATime PROVE ShutIsDown
  <2> SUFFICES ASSUME Quiet, peer[Conf].shut PROVE peer[Conf].status = "Idle"
    BY DEF ShutIsDown
  <2>1. peer[Conf].ev = <<>>
    BY ConstantAssumption DEF Quiet, Peer
  <2>2. peer[Conf].ev # <<"BGP_Stop">>
    BY SMTT(120), <2>1
  <2>3. CASE Live(plist, Conf)
    BY <1>4, <2>2, <2>3 DEF Regular, SoundPeers, Shut
  <2>4. CASE ~Live(plist, Conf)
    BY <2>4 DEF Regular, SoundPeers
  <2> QED BY <2>3, <2>4
<1> QED BY <1>2, <1>3, <1>4

(* The session that moves, and the others, which at most go down.            *)
Rests(q) == Stays(peer[q], peer'[q]) \/ Leaves(peer[q], peer'[q])

Travels(p) ==
  \/ Rests(p)
  \/ Goes(peer[p], peer'[p])
  \/ /\ p = Conf
     /\ \E q \in Accept : /\ peer[q].status = "OpenSent"
                          /\ Leaves(peer[q], peer'[q])
                          /\ Swapped(peer[p], peer'[p], peer[q].fd)
     /\ OneAtATime => peer[p].status # "Idle"

Progress == \E p \in Peer : Travels(p) /\ \A q \in Peer \ {p} : Rests(q)

(* A session that did not change rests.                                      *)
LEMMA SameRests ==
  ASSUME NEW q, peer'[q] = peer[q]
  PROVE  Rests(q)
BY DEF Rests, Stays

(* So does one that bgp_collision_detect closed.                             *)
LEMMA BesideRests ==
  ASSUME NEW v, v.peer = peer', NEW q, Beside(World, v, q), ~peer[q].init
  PROVE  Rests(q)
<1>1. World.peer = peer /\ World.plist = plist
  BY DEF World
<1>2. CASE peer'[q] = peer[q]
  BY <1>2, SameRests
<1>3. CASE Noted(peer[q], peer'[q], q)
  BY <1>3, NotedLeaves DEF Rests
<1> QED BY <1>1, <1>2, <1>3 DEF Beside

(* A temporary peer that ends hands over its connection at most.             *)
LEMMA FinishesProgress ==
  ASSUME Regular, NEW p \in Accept, Finishes(p)
  PROVE  /\ Progress
         /\ peer[Conf].ev = <<>> /\ peer'[Conf].shut = peer[Conf].shut
         /\ peer'[Conf].ev # <<"BGP_Stop">>
<1> DEFINE r == peer[Conf]
           s == peer'[Conf]
<1>0. World.peer = peer /\ World.plist = plist /\ TypeOK /\ Calm(peer, plist)
      /\ SoundPeers(peer, plist)
  BY DEF World, Regular, Settled
<1>1. PICK v : v.peer = peer' /\ v.plist = plist' /\ Finished(World, v, p)
  BY DEF Finishes
<1>2. /\ Conf \in Peer \ {p} /\ Accept \subseteq Peer /\ r.ev = <<>>
      /\ peer[p].status = "OpenSent"
  BY <1>0, CalmTypes DEF Finishes, Quiet
<1>3. Leaves(peer[p], peer'[p])
  BY <1>0, <1>1, <1>2 DEF Finished, Removed, Leaves, LeftOf
<1>4. \A q \in Peer \ {p, Conf} : Rests(q)
  <2> SUFFICES ASSUME NEW q \in Peer \ {p, Conf} PROVE Rests(q)
    OBVIOUS
  <2>1. q \in Accept
    BY DEF Peer
  <2>2. ~peer[q].init
    BY <1>0, <2>1 DEF Calm, Guest
  <2>3. Beside(World, v, q)
    BY <1>1 DEF Finished
  <2> QED BY <1>1, <2>2, <2>3, BesideRests
<1>5. CASE s = r
  <2>0. s.ev = <<>>
    BY <1>2, <1>5
  <2>1. s.ev # <<"BGP_Stop">>
    BY SMTT(120), <2>0
  <2>2. Progress
    <3>1. Rests(Conf)
      BY <1>5, SameRests
    <3> QED BY <1>3, <1>4, <3>1 DEF Progress, Travels, Rests, Peer
  <2> QED BY <1>2, <1>5, <2>1, <2>2
<1>6. CASE /\ Live(plist, Conf) /\ r.status \in {"OpenSent", "OpenConfirm"}
           /\ Noted(r, s, Conf)
  <2>1. ~r.init
    BY <1>0, <1>6 DEF SoundPeers, Sane, Unstarted
  <2>2. Leaves(r, s) /\ s.ev = <<>> /\ s.shut = r.shut
    BY <1>6, <2>1, NotedLeaves
  <2>3. Rests(Conf) /\ s.ev # <<"BGP_Stop">> /\ s.status = "Idle"
    BY SMTT(120), <2>2 DEF Rests, Leaves
  <2>4. Progress
    BY <1>3, <1>4, <2>3 DEF Progress, Travels, Rests, Peer
  <2> QED BY <1>2, <2>2, <2>3, <2>4
<1>7. CASE Live(plist, Conf) /\ Busy(World, p) /\ TakenOver(r, s, peer[p].fd)
  <2>1. Sane(r) /\ (OneAtATime => Shut(r))
    BY <1>0, <1>7 DEF SoundPeers
  <2>2. \/ r.status \in {"Active", "OpenSent", "OpenConfirm", "Established"}
        \/ \E q \in Accept \ {p} : Live(plist, q)
    BY <1>0, <1>7 DEF Busy
  <2>3. ~r.init
    <3>1. CASE r.status \in {"Active", "OpenSent", "OpenConfirm", "Established"}
      BY <2>1, <3>1 DEF Sane, Unstarted
    <3>2. CASE \E q \in Accept \ {p} : Live(plist, q)
      <4>1. ~OneAtATime
        BY <3>2 DEF OneAtATime
      <4> QED BY <1>0, <1>2, <3>2, <4>1 DEF SoundPeers
    <3> QED BY <2>2, <3>1, <3>2
  <2>4. ASSUME OneAtATime PROVE r.status # "Idle"
    BY <2>2, <2>4 DEF OneAtATime
  <2>5. /\ Leaves(r, s) \/ Swapped(r, s, peer[p].fd)
        /\ s.shut = r.shut /\ s.ev # <<"BGP_Stop">>
    BY <1>7, <2>3, TakenOverGoes
  <2>6. Travels(Conf)
    BY <1>2, <1>3, <2>4, <2>5 DEF Travels, Rests
  <2>7. \A q \in Peer \ {Conf} : Rests(q)
    BY <1>3, <1>4 DEF Rests
  <2>8. Progress
    BY <1>2, <2>6, <2>7 DEF Progress
  <2> QED BY <1>2, <2>5, <2>8
<1> QED BY <1>0, <1>1, <1>5, <1>6, <1>7 DEF Finished, Beside

(* A step of one structure is progress.                                      *)
LEMMA AloneProgress ==
  ASSUME NEW p \in Peer, Others(p), Travels(p)
  PROVE  Progress
<1>1. \A q \in Peer \ {p} : Rests(q)
  BY SameRests DEF Others
<1> QED BY <1>1 DEF Progress

(* A message is progress, and stops no peer that is shut down.               *)
LEMMA HearsProgress ==
  ASSUME Regular, Hears
  PROVE  /\ Progress
         /\ peer[Conf].ev = <<>> /\ peer'[Conf].shut = peer[Conf].shut
         /\ OneAtATime /\ peer[Conf].shut => peer'[Conf].ev # <<"BGP_Stop">>
<1> DEFINE r == peer[Conf]
           s == peer'[Conf]
<1>0. TypeOK /\ Calm(peer, plist) /\ SoundPeers(peer, plist)
  BY DEF Regular, Settled
<1>1. PICK v : /\ v.peer = peer' /\ v.plist = plist' /\ plist' = plist
               /\ Handled(r, s, Conf)
               /\ \A q \in Accept : Beside(World, v, q)
  BY DEF Hears
<1>2. Conf \in Peer /\ r.ev = <<>> /\ r.rd # NoThread /\ Live(plist, Conf)
  BY <1>0, CalmTypes DEF Hears, Quiet
<1>3. Sane(r) /\ (OneAtATime => Shut(r))
  BY <1>0, <1>2 DEF SoundPeers
<1>4. ~r.init
  BY <1>2, <1>3, UpNotInit
<1>5. /\ Stays(r, s) \/ Leaves(r, s) \/ Goes(r, s)
      /\ s.shut = r.shut
      /\ r.status # "Established" => s.ev # <<"BGP_Stop">>
      /\ s.status = r.status \/ s.status = "Idle"
  BY <1>1, <1>2, <1>4, HandledGoes
<1>6. \A q \in Peer \ {Conf} : Rests(q)
  <2> SUFFICES ASSUME NEW q \in Peer \ {Conf} PROVE Rests(q)
    OBVIOUS
  <2>1. q \in Accept
    BY DEF Peer
  <2>2. ~peer[q].init
    BY <1>0, <2>1 DEF Calm, Guest
  <2> QED BY <1>1, <2>1, <2>2, BesideRests
<1>7. Travels(Conf)
  BY <1>5 DEF Travels, Rests
<1>8. Progress
  BY <1>2, <1>6, <1>7 DEF Progress
<1>9. ASSUME OneAtATime, r.shut PROVE s.ev # <<"BGP_Stop">>
  <2>1. r.ev # <<"BGP_Stop">>
    BY SMTT(120), <1>2
  <2>2. r.status # "Established"
    BY <1>3, <1>9, <2>1 DEF Shut
  <2> QED BY <1>5, <2>2
<1> QED BY <1>2, <1>5, <1>8, <1>9

(* A deleted peer's session is down.                                         *)
LEMMA GoneLeaves ==
  ASSUME NEW r, NEW s, Gone(r, s), Sane(r), r.ev = <<>>
  PROVE  Leaves(r, s) /\ s.ev = <<>> /\ s.shut = r.shut
<1>1. s.status = "Idle" /\ s.ev = <<>>
  BY DEF Gone, Sane, Unstarted
<1>2. s.shut = r.shut
  BY DEF Gone
<1>3. s.routes \subseteq LeftOf(r)
  <2>1. CASE r.init
    BY <2>1 DEF Gone, LeftOf, Sane, Unstarted
  <2>2. CASE ~r.init
    BY <2>2 DEF Gone, LeftOf
  <2> QED BY <2>1, <2>2
<1> QED BY <1>1, <1>2, <1>3 DEF Leaves

(* Every step of the program is progress of one session.                     *)
LEMMA MovedProgress ==
  ASSUME Regular, TypeOK', Started, Moved
  PROVE  Progress
<1>0. /\ TypeOK /\ Calm(peer, plist) /\ SoundPeers(peer, plist) /\ ~EarlyShutdown
      /\ Conf \in Peer /\ Accept \subseteq Peer
      /\ \A p \in Peer : peer[p] \in PeerType /\ peer'[p] \in PeerType
  BY CalmTypes DEF Regular, Settled, Started, TypeOK
<1>1. CASE ConfSteps
  <2>1. /\ Live(plist, Conf) /\ Others(Conf)
        /\ ConfMove(peer[Conf], peer'[Conf])
    BY <1>1 DEF ConfSteps, Alone
  <2>2. Mine(peer[Conf]) /\ Sane(peer[Conf])
    BY <1>0, <2>1 DEF Calm, SoundPeers, Mine
  <2>3. Travels(Conf)
    BY <1>0, <2>1, <2>2, ConfMoveGoes DEF Travels, Rests
  <2> QED BY <1>0, <2>1, <2>3, AloneProgress
<1>2. CASE Hears
  BY <1>2, HearsProgress
<1>3. CASE Deletes
  <2>1. /\ Live(plist, Conf) /\ Others(Conf) /\ Gone(peer[Conf], peer'[Conf])
        /\ peer[Conf].ev = <<>>
    BY <1>0, <1>3 DEF Deletes, Quiet
  <2>2. Sane(peer[Conf])
    BY <1>0, <2>1 DEF SoundPeers
  <2>3. Travels(Conf)
    BY <2>1, <2>2, GoneLeaves DEF Travels, Rests
  <2> QED BY <1>0, <2>1, <2>3, AloneProgress
<1>4. CASE Creates
  <2>1. Others(Conf) /\ peer'[Conf] = peer_create
    BY <1>4 DEF Creates
  <2>2. Travels(Conf)
    BY <2>1, CreateFacts DEF Travels, Rests, Leaves
  <2> QED BY <1>0, <2>1, <2>2, AloneProgress
<1>5. ASSUME NEW p \in Accept, GuestSteps(p) PROVE Progress
  <2>1. Others(p) /\ GuestMove(peer[p], peer'[p], p) /\ p \in Peer
    BY <1>0, <1>5 DEF GuestSteps, Alone
  <2>2. Guest(peer[p], p)
    BY <1>0 DEF Calm
  <2>3. Travels(p)
    BY <1>0, <2>1, <2>2, GuestGoes DEF Travels, Rests
  <2> QED BY <2>1, <2>3, AloneProgress
<1>6. ASSUME NEW p \in Accept, Finishes(p) PROVE Progress
  BY <1>6, FinishesProgress
<1>7. ASSUME NEW p \in Accept, bgp_accept(p) PROVE Progress
  <2>1. /\ Others(p) /\ peer[p].ev = <<>> /\ peer'[p].fd \in Fd
        /\ peer'[p].status = "Active" /\ peer'[p].routes = {}
    BY <1>0, <1>7, AcceptCalm
  <2>2. peer[p].status \in {"Idle", "OpenSent"}
    BY <1>0, <2>1 DEF Calm, Guest
  <2>3. Travels(p)
    BY <2>1, <2>2 DEF Travels, Goes
  <2> QED BY <1>0, <2>1, <2>3, AloneProgress
<1> QED BY <1>1, <1>2, <1>3, <1>4, <1>5, <1>6, <1>7 DEF Moved

(* What UpOnlyFromConfirm says of one session.                               *)
LEMMA TravelsUp ==
  ASSUME NEW p, Travels(p)
  PROVE  /\ /\ peer'[p].status = "Established"
            /\ peer[p].status # "Established"
            => peer[p].status = "OpenConfirm" /\ peer'[p].fd = peer[p].fd
         /\ /\ peer[p].status = "Established" /\ peer'[p].fd # peer[p].fd
            => "fresh" \notin peer'[p].routes
BY DEF Travels, Rests, Stays, Leaves, Goes, Swapped, LeftOf

(* No session does more than travel.                                         *)
LEMMA ProgressUp ==
  ASSUME Progress
  PROVE  \A p \in Peer : Travels(p)
BY DEF Progress, Travels

(* Every move respects the operator's state.                                 *)
LEMMA MovedAdmin ==
  ASSUME Regular, TypeOK', Started, OneAtATime, Moved
  PROVE  Administered(peer[Conf], peer'[Conf])
<1> DEFINE r == peer[Conf]
           s == peer'[Conf]
<1>0. /\ TypeOK /\ Calm(peer, plist) /\ SoundPeers(peer, plist) /\ ~EarlyShutdown
      /\ Conf \in Peer /\ Accept \subseteq Peer /\ Conf \notin Accept
      /\ r \in PeerType /\ s \in PeerType
  BY CalmTypes DEF Regular, Settled, Started, TypeOK
<1>1. CASE ConfSteps
  <2>1. Live(plist, Conf) /\ ConfMove(r, s)
    BY <1>1 DEF ConfSteps
  <2>2. Mine(r) /\ Sane(r) /\ Shut(r)
    BY <1>0, <2>1 DEF Calm, SoundPeers, Mine
  <2> QED BY <1>0, <2>1, <2>2, ConfMoveAdmin
<1>2. CASE Hears
  <2>1. /\ r.ev = <<>> /\ s.shut = r.shut
        /\ r.shut => s.ev # <<"BGP_Stop">>
    BY <1>2, HearsProgress
  <2> HIDE DEF r, s
  <2>2. Administered(r, s)
    BY <2>1, AdminKept
  <2> QED BY <2>2 DEF r, s
<1>3. CASE Deletes
  <2>1. Live(plist, Conf) /\ Gone(r, s) /\ r.ev = <<>>
    BY <1>0, <1>3 DEF Deletes, Quiet
  <2>2. Sane(r)
    BY <1>0, <2>1 DEF SoundPeers
  <2>3. s.ev = <<>> /\ s.shut = r.shut
    BY <2>1, <2>2, GoneLeaves
  <2>4. s.ev # <<"BGP_Stop">>
    BY SMTT(120), <2>3
  <2> HIDE DEF r, s
  <2>5. Administered(r, s)
    BY <2>1, <2>3, <2>4, AdminKept
  <2> QED BY <2>5 DEF r, s
<1>4. CASE Creates
  <2>1. s = peer_create /\ r.ev = <<>>
    BY <1>0, <1>4 DEF Creates, Quiet
  <2>2. ~s.shut /\ s.status = "Idle"
    BY <2>1, CreateFacts
  <2>3. Admin(s) = "on" /\ Admin(r) \in {"on", "off"}
    BY SMTT(120), <2>1, <2>2 DEF Admin
  <2> QED BY <2>2, <2>3 DEF Administered
<1>5. ASSUME s = r, r.ev = <<>> PROVE Administered(r, s)
  <2>1. Admin(r) \in {"on", "off"}
    BY SMTT(120), <1>5 DEF Admin
  <2> QED BY <1>5, <2>1 DEF Administered
<1>6. ASSUME NEW p \in Accept, GuestSteps(p) PROVE Administered(r, s)
  <2>1. Others(p) /\ Due(p) /\ p \in Peer /\ Conf \in Peer \ {p}
    BY <1>0, <1>6 DEF GuestSteps, Alone
  <2>2. s = r
    BY <2>1 DEF Others
  <2>3. r.ev = <<>>
    BY <1>0, <2>1, DueOthers
  <2> QED BY <1>5, <2>2, <2>3
<1>7. ASSUME NEW p \in Accept, Finishes(p) PROVE Administered(r, s)
  <2>1. r.ev = <<>> /\ s.shut = r.shut /\ s.ev # <<"BGP_Stop">>
    BY <1>7, FinishesProgress
  <2> HIDE DEF r, s
  <2>2. Administered(r, s)
    BY <2>1, AdminKept
  <2> QED BY <2>2 DEF r, s
<1>8. ASSUME NEW p \in Accept, bgp_accept(p) PROVE Administered(r, s)
  <2>0. Others(p)
    BY <1>0, <1>8, AcceptCalm
  <2>1. Others(p) /\ Conf \in Peer \ {p}
    BY <1>0, <2>0
  <2>2. s = r
    BY <2>1 DEF Others
  <2>3. r.ev = <<>>
    BY <1>0, <1>8 DEF bgp_accept, Quiet
  <2> QED BY <1>5, <2>2, <2>3
<1> QED BY <1>1, <1>2, <1>3, <1>4, <1>6, <1>7, <1>8 DEF Moved

(* A session that is not down after a step was allowed before it.            *)
LEMMA NotIdleAllowed ==
  ASSUME Regular', OneAtATime, Administered(peer[Conf], peer'[Conf]),
         peer'[Conf].status # "Idle"
  PROVE  Admin(peer[Conf]) = "on"
<1> DEFINE r == peer[Conf]
           s == peer'[Conf]
<1>1. SoundPeers(peer', plist')
  BY DEF Regular
<1>2. Shut(s)
  BY <1>1 DEF SoundPeers
<1>3. Admin(s) # "off"
  BY <1>2 DEF Shut, Admin
<1> QED BY <1>3 DEF Administered, Admin

(* How the states of the machine map to phases.                              *)
LEMMA PhaseStatus ==
  /\ PhaseOf("Idle") = "idle" /\ PhaseOf("Connect") = "trying"
  /\ PhaseOf("Active") = "trying" /\ PhaseOf("OpenSent") = "opening"
  /\ PhaseOf("OpenConfirm") = "confirmed" /\ PhaseOf("Established") = "up"
  /\ \A st \in Status : PhaseOf(st) = "up" <=> st = "Established"
BY DEF PhaseOf, Status

(* A session that stays keeps its phase.                                     *)
LEMMA StaysKeep ==
  ASSUME NEW p \in Peer, Stays(peer[p], peer'[p])
  PROVE  Session!Keep(p)
BY DEF Session!Keep, Stays

(* A session that leaves is dropped.                                         *)
LEMMA LeavesDrop ==
  ASSUME NEW p \in Peer, Leaves(peer[p], peer'[p]), peer[p].status \in Status
  PROVE  Session!Drop(p)
BY PhaseStatus DEF Session!Drop, Session!Left, Leaves, LeftOf

(* A session that goes makes a step of the abstract session.                 *)
LEMMA GoesMove ==
  ASSUME NEW p \in Peer, Goes(peer[p], peer'[p]),
         /\ p = Conf /\ peer'[p].status # "Idle" => Admin(peer[Conf]) = "on"
  PROVE  Session!Move(p)
<1> DEFINE r == peer[p]
           s == peer'[p]
<1>1. CASE /\ r.status = "Idle" /\ s.status \in {"Connect", "Active"}
           /\ s.routes \subseteq r.routes
  <2>1. Session!Start(p)
    BY <1>1, PhaseStatus DEF Session!Start, Session!Allowed
  <2> QED BY <2>1 DEF Session!Move
<1>2. CASE /\ r.status \in {"Connect", "Active", "OpenSent"}
           /\ s.status \in {"Connect", "Active"} /\ s.routes \subseteq r.routes
  <2>1. Session!Retry(p)
    BY <1>2, PhaseStatus DEF Session!Retry
  <2> QED BY <2>1 DEF Session!Move
<1>3. CASE /\ r.status \in {"Connect", "Active"} /\ s.status = "OpenSent"
           /\ s.fd = r.fd /\ s.routes \subseteq r.routes
  <2>1. Session!Open(p)
    BY <1>3, PhaseStatus DEF Session!Open
  <2> QED BY <2>1 DEF Session!Move
<1>4. CASE /\ r.status = "OpenSent" /\ s.status = "OpenConfirm"
           /\ s.fd = r.fd /\ s.routes \subseteq r.routes
  <2>1. Session!Confirm(p)
    BY <1>4, PhaseStatus DEF Session!Confirm
  <2> QED BY <2>1 DEF Session!Move
<1>5. CASE /\ r.status = "OpenConfirm" /\ s.status = "Established"
           /\ s.fd = r.fd /\ s.routes \subseteq r.routes
  <2>1. Session!Establish(p)
    BY <1>5, PhaseStatus DEF Session!Establish
  <2> QED BY <2>1 DEF Session!Move
<1>6. CASE /\ r.status = "Established" /\ s.status = "Established"
           /\ s.fd = r.fd /\ s.routes \subseteq r.routes \cup {"fresh"}
  <2>1. Session!Learn(p)
    BY <1>6, PhaseStatus DEF Session!Learn
  <2> QED BY <2>1 DEF Session!Move
<1> QED BY <1>1, <1>2, <1>3, <1>4, <1>5, <1>6 DEF Goes

(* The hand-over of a descriptor is a take-over.                             *)
LEMMA SwappedTakeOver ==
  ASSUME NEW q \in Accept, peer[q].status = "OpenSent",
         peer[Conf].status \in Status, peer[Conf].status # "Idle",
         Leaves(peer[q], peer'[q]), Swapped(peer[Conf], peer'[Conf], peer[q].fd),
         Admin(peer[Conf]) = "on"
  PROVE  Session!Move(Conf)
<1>0. Conf \in Peer /\ q \in Peer /\ q # Conf
  BY ConstantAssumption DEF Peer
<1>1. Session!Drop(q)
  BY <1>0, LeavesDrop DEF Status
<1>2. Session!Allowed(Conf)
  BY DEF Session!Allowed
<1>3. PhaseOf(peer[Conf].status) # "idle"
  BY DEF PhaseOf, Status
<1>4. Session!TakeOver(Conf, q)
  BY <1>0, <1>1, <1>2, <1>3, PhaseStatus
     DEF Session!TakeOver, Session!Left, Swapped, LeftOf
<1> QED BY <1>0, <1>4 DEF Session!Move

(* The operator's steps are those of the abstract session.                   *)
LEMMA AdministeredAdminister ==
  ASSUME Administered(peer[Conf], peer'[Conf]), peer[Conf].status \in Status
  PROVE  Session!Administer
<1>0. Conf \in Peer
  BY DEF Peer
<1>1. Stays(peer[Conf], peer'[Conf]) => Session!Keep(Conf)
  BY <1>0, StaysKeep
<1>2. Leaves(peer[Conf], peer'[Conf]) => Session!Drop(Conf)
  BY <1>0, LeavesDrop
<1> QED BY <1>0, <1>1, <1>2, PhaseStatus DEF Administered, Session!Administer

(* Progress is a step of the abstract sessions.                              *)
LEMMA ProgressNext ==
  ASSUME Regular, Regular', OneAtATime, Progress,
         Administered(peer[Conf], peer'[Conf])
  PROVE  Session!Next
<1>0. /\ \A p \in Peer : peer[p].status \in Status
      /\ Conf \in Peer /\ Accept \subseteq Peer
  BY CalmTypes DEF Regular, Settled, PeerType
<1>1. PICK p \in Peer : Travels(p) /\ \A q \in Peer \ {p} : Rests(q)
  BY DEF Progress
<1>2. \A q \in Peer : Rests(q) => Session!Keep(q) \/ Session!Drop(q)
  BY <1>0, StaysKeep, LeavesDrop DEF Rests
<1>3. Session!Move(p)
  <2>1. CASE Rests(p)
    BY <1>2, <2>1 DEF Session!Move
  <2>2. CASE Goes(peer[p], peer'[p])
    <3>1. p = Conf /\ peer'[p].status # "Idle" => Admin(peer[Conf]) = "on"
      BY NotIdleAllowed
    <3> QED BY <2>2, <3>1, GoesMove
  <2>3. ASSUME p = Conf, peer[p].status # "Idle",
               NEW q \in Accept, peer[q].status = "OpenSent",
               Leaves(peer[q], peer'[q]), Swapped(peer[p], peer'[p], peer[q].fd)
        PROVE  Session!Move(p)
    <3>1. peer'[Conf].status # "Idle"
      BY <2>3 DEF Swapped
    <3>2. Admin(peer[Conf]) = "on"
      BY <3>1, NotIdleAllowed
    <3> QED BY <1>0, <2>3, <3>2, SwappedTakeOver
  <2> QED BY <1>1, <2>1, <2>2, <2>3 DEF Travels
<1>4. Session!Administer
  BY <1>0, AdministeredAdminister
<1> QED BY <1>1, <1>2, <1>3, <1>4 DEF Session!Next

(* The program starts with every session down.                               *)
LEMMA InitSession == Init => Session!Init
<1> SUFFICES ASSUME Init PROVE Session!Init
  OBVIOUS
<1>1. \A p \in Peer : /\ peer[p].status = "Idle" /\ peer[p].fd = NoFd
                      /\ peer[p].routes = {}
  <2>1. /\ peer_new.status = "Idle" /\ peer_new.fd = NoFd /\ peer_new.routes = {}
    BY DEF peer_new
  <2> QED BY <2>1, InitLists, CreateFacts DEF Peer
<1>2. Admin(peer[Conf]) = "on"
  BY InitLists, CreateFacts DEF Admin
<1> QED BY <1>1, <1>2, PhaseStatus DEF Session!Init

=============================================================================
