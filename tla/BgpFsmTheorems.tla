--------------------------- MODULE BgpFsmTheorems ---------------------------
(* The theorems about the BGP sessions: every step is a move                 *)
(* (BgpFsmHandlers), and moves keep the invariants (BgpFsmInvariants).       *)
EXTENDS BgpFsmHandlers, BgpFsmInvariants

(* The prover of every step that does not name another one.                  *)
USE ZenonT(60)

(* The invariant holds when bgpd starts.                                     *)
LEMMA InitSettled == Init => IInv /\ Settled
<1> SUFFICES ASSUME Init PROVE IInv /\ Settled
  OBVIOUS
<1>1. IInv
  BY InitInv
<1>2. Mine(peer[Conf]) /\ Live(plist, Conf) /\ Unique(plist)
  BY InitLists, CreateMine
<1>3. \A p \in Accept : Guest(peer[p], p)
  BY InitLists, NewGuest
<1>4. peer_new.status = "Idle"
  BY DEF peer_new
<1>5. \A p \in Accept : Detached(peer[p])
  BY InitLists, NewGuest, <1>4 DEF Detached
<1>6. \A p \in Peer : peer[p].ev = <<>>
  BY InitLists, NewGuest, CreateFacts DEF Peer
<1>7. Calm(peer, plist)
  BY <1>2, <1>3, <1>5, <1>6 DEF Calm, Mine
<1> QED BY <1>1, <1>7 DEF Settled, IInv

(* From a state that satisfies it every step is a move.                      *)
LEMMA SettledMoved ==
  ASSUME IInv, Settled, Next
  PROVE  IInv' /\ TypeOK' /\ Moved
<1>1. IInv'
  BY NextInv
<1>2. TypeOK'
  BY <1>1 DEF IInv
<1>3. Queue(peer[Conf]) /\ \A p \in Accept : Guest(peer[p], p)
  BY DEF Settled, Calm
<1> QED BY <1>1, <1>2, <1>3, NextMoved

(* Every step preserves the invariant.                                       *)
LEMMA NextSettled ==
  ASSUME IInv, Settled, [Next]_vars
  PROVE  IInv' /\ Settled'
<1>1. CASE Next
  <2>1. IInv' /\ TypeOK' /\ Moved
    BY <1>1, SettledMoved
  <2>2. TypeOK /\ Calm(peer, plist)
    BY DEF Settled
  <2>3. Calm(peer', plist')
    BY <2>1, <2>2, MovedCalm
  <2> QED BY <2>1, <2>3 DEF Settled
<1>2. CASE UNCHANGED vars
  <2>1. IInv'
    BY NextInv
  <2>2. peer' = peer /\ plist' = plist
    BY <1>2 DEF vars
  <2>3. Calm(peer', plist')
    BY <2>2 DEF Settled
  <2>4. TypeOK'
    BY <2>1 DEF IInv
  <2> QED BY <2>1, <2>3, <2>4 DEF Settled
<1> QED BY <1>1, <1>2

(* The stronger invariant holds when bgpd starts.                            *)
LEMMA InitRegular == Init => IInv /\ Regular
<1> SUFFICES ASSUME Init PROVE IInv /\ Regular
  OBVIOUS
<1>1. IInv /\ Settled
  BY InitSettled
<1>2. SoundPeers(peer, plist)
  BY InitLists, CreateMine DEF SoundPeers
<1> QED BY <1>1, <1>2 DEF Regular

(* Every step preserves it, if peers are started before they are shut.       *)
LEMMA NextRegular ==
  ASSUME Started, IInv, Regular, [Next]_vars
  PROVE  IInv' /\ Regular'
<1>0. Settled /\ TypeOK /\ Calm(peer, plist) /\ SoundPeers(peer, plist)
  BY DEF Regular, Settled
<1>1. IInv' /\ Settled'
  BY <1>0, NextSettled
<1>2. CASE Next
  <2>1. TypeOK' /\ Moved
    BY <1>0, <1>2, SettledMoved
  <2>2. SoundPeers(peer', plist')
    BY <1>0, <2>1, MovedSound
  <2> QED BY <1>1, <2>2 DEF Regular
<1>3. CASE UNCHANGED vars
  <2>1. peer' = peer /\ plist' = plist
    BY <1>3 DEF vars
  <2>2. SoundPeers(peer', plist')
    BY <1>0, <2>1
  <2> QED BY <1>1, <2>2 DEF Regular
<1> QED BY <1>2, <1>3

(* Whenever no event is queued, each structure of the list runs exactly the  *)
(* timers that bgp_timer_set starts for its status, whatever handlers,       *)
(* commands and timeouts came before, for any number of pending connections. *)
THEOREM TimersExact == Spec => []TimersMatchStatus
<1>1. Settled => TimersMatchStatus
  BY SettledSafe
<1>2. IInv /\ Settled /\ [Next]_vars => (IInv /\ Settled)'
  BY NextSettled
<1> QED BY InitSettled, <1>1, <1>2, PTL DEF Spec

(* No session gets past OpenSent without the neighbour's identifier, which   *)
(* bgp_open_receive stores and checks against our own: the hand-over between *)
(* two structures does not lose it.                                          *)
THEOREM IdentityLearned == Spec => []IdentityKnown
<1>1. Settled => IdentityKnown
  BY SettledSafe
<1>2. IInv /\ Settled /\ [Next]_vars => (IInv /\ Settled)'
  BY NextSettled
<1> QED BY InitSettled, <1>1, <1>2, PTL DEF Spec

(* Only one structure at a time has a queued event (BGP_EVENT_ADD), so the   *)
(* order in which the events of two structures run is never open.            *)
THEOREM QueuesExact == Spec => []OneQueue
<1>1. Settled => OneQueue
  BY SettledSafe
<1>2. IInv /\ Settled /\ [Next]_vars => (IInv /\ Settled)'
  BY NextSettled
<1> QED BY InitSettled, <1>1, <1>2, PTL DEF Spec

(* Routes do not outlive the session, for any number of pending connections: *)
(* bgp_stop withdraws them or marks them stale under a running timer.        *)
THEOREM RoutesTrackSession == ASSUME Started PROVE Spec => []RoutesFollowSession
<1>1. Regular => RoutesFollowSession
  BY RegularSafe
<1>2. IInv /\ Regular /\ [Next]_vars => (IInv /\ Regular)'
  BY NextRegular
<1> QED BY InitRegular, <1>1, <1>2, PTL DEF Spec

(* peer_delete, by the operator or at the end of a temporary peer, leaves no *)
(* thread, event or timer that would run on the freed structure.             *)
THEOREM DeletionComplete == ASSUME Started PROVE Spec => []DeletedIsDetached
<1>1. Regular => DeletedIsDetached
  BY RegularSafe
<1>2. IInv /\ Regular /\ [Next]_vars => (IInv /\ Regular)'
  BY NextRegular
<1> QED BY InitRegular, <1>1, <1>2, PTL DEF Spec

(* A neighbor that was shut down is Idle once the queued events have run,    *)
(* and stays so: no timer, command or connection of the neighbour starts it  *)
(* again.                                                                    *)
THEOREM ShutdownHolds == ASSUME Started, OneAtATime PROVE Spec => []ShutIsDown
<1>1. Regular => ShutIsDown
  BY RegularSafe
<1>2. IInv /\ Regular /\ [Next]_vars => (IInv /\ Regular)'
  BY NextRegular
<1> QED BY InitRegular, <1>1, <1>2, PTL DEF Spec

(* A session becomes Established only from OpenConfirm and on the same       *)
(* descriptor, and one that changes its descriptor keeps no fresh route.     *)
THEOREM UpThroughConfirm == ASSUME Started PROVE Spec => UpOnlyFromConfirm
<1> DEFINE Up == /\ \A p \in Peer :
                      /\ peer'[p].status = "Established"
                      /\ peer[p].status # "Established"
                      => peer[p].status = "OpenConfirm" /\ peer'[p].fd = peer[p].fd
                 /\ \A p \in Peer :
                      /\ peer[p].status = "Established" /\ peer'[p].fd # peer[p].fd
                      => "fresh" \notin peer'[p].routes
<1>1. IInv /\ Regular /\ [Next]_vars => (IInv /\ Regular)'
  BY NextRegular
<1>2. IInv /\ Regular /\ [Next]_vars => [Up]_vars
  <2> SUFFICES ASSUME IInv, Regular, Next PROVE Up
    OBVIOUS
  <2>1. TypeOK' /\ Moved
    BY SettledMoved DEF Regular
  <2>2. \A p \in Peer : Travels(p)
    BY <2>1, MovedProgress, ProgressUp
  <2> QED BY <2>2, TravelsUp
<1> QED BY InitRegular, <1>1, <1>2, PTL DEF Spec, UpOnlyFromConfirm

(* The state machine of bgp_fsm.c with its packet handlers, timers and       *)
(* commands implements the sessions of BgpSession: every step takes one      *)
(* session a stage further and others at most down, and a shutdown is        *)
(* completed before anything else happens and holds until the operator lifts *)
(* it.                                                                       *)
THEOREM SessionsRefine == ASSUME Started, OneAtATime PROVE Spec => SessionPromise
<1>1. IInv /\ Regular /\ [Next]_vars => (IInv /\ Regular)'
  BY NextRegular
<1>2. IInv /\ Regular /\ Regular' /\ [Next]_vars => [Session!Next]_(Session!vars)
  <2>1. ASSUME IInv, Regular, Regular', Next PROVE Session!Next
    <3>1. TypeOK' /\ Moved
      BY <2>1, SettledMoved DEF Regular
    <3>2. Progress /\ Administered(peer[Conf], peer'[Conf])
      BY <2>1, <3>1, MovedProgress, MovedAdmin
    <3> QED BY <2>1, <3>2, ProgressNext
  <2>2. ASSUME UNCHANGED vars PROVE UNCHANGED Session!vars
    <3>1. peer' = peer
      BY <2>2 DEF vars
    <3> QED BY SMTT(120), <3>1 DEF Session!vars
  <2> QED BY <2>1, <2>2
<1> QED BY InitRegular, InitSession, <1>1, <1>2, PTL DEF Spec, SessionPromise, Session!Spec

=============================================================================
