----------------------------- MODULE BgpSession -----------------------------
(* What bgpd promises about the sessions with a neighbour, without saying    *)
(* how: one step of the program takes one session a stage further, and may   *)
(* take others down.  The configured neighbour is Conf; the other members of *)
(* Peer hold connections the neighbour opened until one is taken over.       *)
CONSTANTS Peer, Conf, None

VARIABLES
  phase,    \* how far each session has come
  conn,     \* the connection it runs on
  routes,   \* the kinds of routes learned from it that are in use
  admin     \* whether the operator allows the configured session

vars == <<phase, conn, routes, admin>>

Phase == {"idle", "trying", "opening", "confirmed", "up"}

Init ==
  /\ phase = [p \in Peer |-> "idle"]
  /\ routes = [p \in Peer |-> {}]
  /\ admin = "on"
  /\ conn = [p \in Peer |-> None]

Allowed(p) == p # Conf \/ admin = "on"

Keep(p) ==
  /\ phase'[p] = phase[p] /\ conn'[p] = conn[p]
  /\ routes'[p] \subseteq routes[p]

(* Routes of a session that goes down are withdrawn or become stale.         *)
Left(p) == IF phase[p] = "up" THEN {"stale"} ELSE routes[p]

Drop(p) == phase'[p] = "idle" /\ routes'[p] \subseteq Left(p)

Start(p) ==
  /\ phase[p] = "idle" /\ Allowed(p)
  /\ phase'[p] = "trying" /\ routes'[p] \subseteq routes[p]

Retry(p) ==
  /\ phase[p] \in {"trying", "opening"}
  /\ phase'[p] = "trying" /\ routes'[p] \subseteq routes[p]

Open(p) ==
  /\ phase[p] = "trying" /\ phase'[p] = "opening"
  /\ conn'[p] = conn[p] /\ routes'[p] \subseteq routes[p]

(* A session moves to the connection of q, which is given up.                *)
TakeOver(p, q) ==
  /\ p = Conf /\ q # Conf /\ Allowed(p)
  /\ phase[p] # "idle" /\ phase[q] = "opening"
  /\ phase'[p] = "opening" /\ conn'[p] = conn[q]
  /\ routes'[p] \subseteq Left(p)
  /\ Drop(q)

Confirm(p) ==
  /\ phase[p] = "opening" /\ phase'[p] = "confirmed"
  /\ conn'[p] = conn[p] /\ routes'[p] \subseteq routes[p]

Establish(p) ==
  /\ phase[p] = "confirmed" /\ phase'[p] = "up"
  /\ conn'[p] = conn[p] /\ routes'[p] \subseteq routes[p]

Learn(p) ==
  /\ phase[p] = "up" /\ phase'[p] = "up" /\ conn'[p] = conn[p]
  /\ routes'[p] \subseteq routes[p] \cup {"fresh"}

Move(p) ==
  \/ Keep(p) \/ Drop(p) \/ Start(p) \/ Retry(p) \/ Open(p)
  \/ Confirm(p) \/ Establish(p) \/ Learn(p)
  \/ \E q \in Peer : TakeOver(p, q)

(* The command takes a session down that is up; another one goes down next,  *)
(* before anything else happens.                                             *)
Administer ==
  \/ admin # "closing" /\ admin' = admin
  \/ admin = "on" /\ admin' = "closing" /\ Keep(Conf)
  \/ admin # "off" /\ admin' = "off" /\ Drop(Conf)
  \/ admin = "off" /\ admin' = "on" /\ phase'[Conf] = "idle"

Next ==
  /\ \E p \in Peer : /\ Move(p)
                     /\ \A q \in Peer \ {p} : Keep(q) \/ Drop(q)
  /\ Administer

Spec == Init /\ [][Next]_vars
=============================================================================
