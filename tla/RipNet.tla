------------------------------- MODULE RipNet -------------------------------
(***************************************************************************)
(* Several ripd processes on point-to-point links, one destination that     *)
(* router Origin is attached to.  Datagrams are delayed, lost (a budget of  *)
(* MaxLoss) and overtaken: a link direction holds one datagram, a later one *)
(* replaces it.  The timeout of a route fires only when no further update   *)
(* can refresh it: 180 seconds are six update periods.                      *)
(*   st    each router's daemon, as RipTable describes it                   *)
(*   wire  per direction <<sender, receiver>> the datagram under way        *)
(*   env   cables, links (the unbroken ones), origin (the destination is    *)
(*         attached),                                                       *)
(*         cuts (how often that may still change), split (split horizon),   *)
(*         loss (datagrams that may still be lost)                          *)
(***************************************************************************)
EXTENDS RipTable

CONSTANTS Routers,   \* the routers; an interface is named by the neighbour
          Origin,    \* the router that originates the destination
          Worlds     \* the first values of env

VARIABLES st, wire, env
vars == <<st, wire, env>>

Dest == CHOOSE p \in Prefixes : TRUE
Working(a, b) == {a, b} \in env.links
Nothing == {}
Conf == [denyIn |-> {}, denyOut |-> {}, own |-> {}, reach |-> Routers,
         covers |-> [p \in Prefixes |-> {}], mcast |-> {}, cost |-> [i \in Ifs |-> 1],
         offset |-> [d \in {"in", "out"} |-> [i \in Ifs \cup {NoIf} |->
                        [on |-> FALSE, permit |-> {}, metric |-> 0]]],
         rmap |-> [t \in {"rip", "connect"} |-> [on |-> FALSE, deny |-> {}, set |-> 0]],
         rmetric |-> [t \in {"rip", "connect"} |-> 0], defmetric |-> 1]

Daemon == [on |-> TRUE, table |-> [p \in Prefixes |-> NoInfo], trigUpd |-> FALSE,
           trigInt |-> FALSE, trigger |-> FALSE,
           zebra |-> [p \in Prefixes |-> NoZebra], pend |-> {}]

Init ==
    /\ env \in Worlds
    /\ st = [r \in Routers |-> IF r = Origin /\ env.origin
                               THEN rip_redistribute_add(Daemon, INTERFACE, Dest, NoIf, Zero)
                               ELSE Daemon]
    /\ wire = [d \in {x \in Routers \X Routers : {x[1], x[2]} \in env.cables} |-> Nothing]

(* rip_update_process: a datagram on every working link, none when there   *)
(* is nothing to say.                                                      *)
Sent(r, changedOnly) ==
    [d \in DOMAIN wire |->
        LET out == rip_output_process(st[r], Conf, d[2], env.split, changedOnly)
        IN  IF d[1] = r /\ Working(d[1], d[2]) /\ out # {} THEN out ELSE wire[d]]

(* The three moments the daemon sends.                                     *)
Update(r) ==
    /\ ~st[r].trigUpd
    /\ st' = [st EXCEPT ![r] = rip_update(@)]
    /\ wire' = Sent(r, FALSE)
    /\ UNCHANGED env
TriggeredUpdate(r) ==
    /\ st[r].trigUpd
    /\ st' = [st EXCEPT ![r] = rip_triggered_update(@)]
    /\ wire' = Sent(r, TRUE)
    /\ UNCHANGED env
TriggeredInterval(r) ==
    /\ st[r].trigInt
    /\ st' = [st EXCEPT ![r] = rip_triggered_interval(@)]
    /\ wire' = IF st[r].trigger THEN Sent(r, TRUE) ELSE wire
    /\ UNCHANGED env

Receive(a, b) ==
    /\ <<a, b>> \in DOMAIN wire /\ wire[a, b] # Nothing
    /\ st' = [st EXCEPT ![b] = rip_response_process(@, Conf, wire[a, b], 2, a, a)]
    /\ wire' = [wire EXCEPT ![a, b] = Nothing]
    /\ UNCHANGED env

Lose(a, b) ==
    /\ <<a, b>> \in DOMAIN wire /\ wire[a, b] # Nothing /\ env.loss > 0
    /\ wire' = [wire EXCEPT ![a, b] = Nothing]
    /\ env' = [env EXCEPT !.loss = @ - 1]
    /\ UNCHANGED st

(* The source has nothing left that would refresh the route.               *)
Stale(r) ==
    LET a == Info(st[r], Dest).from IN
    /\ Working(a, r) => ~\E e \in rip_output_process(st[a], Conf, r, env.split, FALSE) :
                            e.metric < Infinity
    /\ wire[a, r] = Nothing
Timeout(r) ==
    /\ Info(st[r], Dest).tmo /\ Stale(r)
    /\ st' = [st EXCEPT ![r] = rip_timeout(@, Dest)]
    /\ UNCHANGED <<wire, env>>

GarbageCollect(r) ==
    /\ Info(st[r], Dest).gc /\ st[r].pend = {}
    /\ st' = [st EXCEPT ![r] = rip_garbage_collect(@, Dest)]
    /\ UNCHANGED <<wire, env>>

(* A cable is cut or mended without the routers' noticing; the destination *)
(* is detached or attached.                                                *)
Recable(l) ==
    /\ env.cuts > 0
    /\ env' = [env EXCEPT !.cuts = @ - 1, !.links = IF l \in @ THEN @ \ {l} ELSE @ \cup {l}]
    /\ wire' = [d \in DOMAIN wire |-> IF {d[1], d[2]} = l THEN Nothing ELSE wire[d]]
    /\ UNCHANGED st
Attach(on) ==
    /\ env.cuts > 0 /\ env.origin # on
    /\ env' = [env EXCEPT !.cuts = @ - 1, !.origin = on]
    /\ st' = [st EXCEPT ![Origin] =
                 IF on THEN rip_redistribute_add(@, INTERFACE, Dest, NoIf, Zero)
                 ELSE rip_redistribute_delete(@, INTERFACE, Dest, NoIf)]
    /\ UNCHANGED wire

Next ==
    \/ \E r \in Routers : \/ Update(r)
                          \/ TriggeredUpdate(r)
                          \/ TriggeredInterval(r)
                          \/ Timeout(r)
                          \/ GarbageCollect(r)
    \/ \E a, b \in Routers : Receive(a, b) \/ Lose(a, b)
    \/ \E l \in env.cables : Recable(l)
    \/ \E on \in BOOLEAN : Attach(on)

(* Every router's timers are served again and again, and a datagram that   *)
(* is not lost arrives.                                                    *)
Spec ==
    /\ Init /\ [][Next]_vars
    /\ \A r \in Routers : /\ WF_vars(Update(r)) /\ WF_vars(TriggeredUpdate(r))
                          /\ WF_vars(TriggeredInterval(r)) /\ WF_vars(Timeout(r))
                          /\ WF_vars(GarbageCollect(r))
    /\ \A a, b \in Routers : WF_vars(Receive(a, b))

-----------------------------------------------------------------------------
(* How far each router is from the destination: the least number of hops,  *)
(* Infinity when there is no way (reference definition, by relaxation).    *)
Distance ==
    LET Relax(d) == [r \in Routers |->
            Min({d[r]} \cup {d[n] + 1 : n \in {m \in Routers : Working(r, m)}})]
        d0 == [r \in Routers |-> IF r = Origin /\ env.origin THEN 1 ELSE Infinity]
        far == Cardinality(Routers)
        D[k \in 0..far] == IF k = 0 THEN d0 ELSE Relax(D[k - 1])
    IN  D[far]
Metric(r) == IF Exists(Info(st[r], Dest)) THEN Info(st[r], Dest).metric ELSE Infinity

(* Once cables and destination rest, every router ends with the distance   *)
(* as its metric and keeps it, whatever was lost, delayed or overtaken     *)
(* before: no route to what is gone, a shortest one to what is there.      *)
Converges == <>[](\A r \in Routers : Metric(r) = Capped(Distance[r]))

=============================================================================
