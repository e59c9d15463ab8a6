-------------------------------- MODULE Rip ---------------------------------
(***************************************************************************)
(* One ripd process: the handlers the event loop runs for it, each one an   *)
(* action.  They are the datagrams of the neighbours, the timers, zebra's   *)
(* interface and route messages, and the configuration commands.            *)
(*   rt    the daemon: the fields RipTable describes, sock (the UDP socket  *)
(*         and its read and update threads exist), ifs (struct interface    *)
(*         and struct rip_interface per interface) and peers (peer_list)    *)
(*   conf  the configuration                                                *)
(*   zq    zebra's redistribution messages that ripd has not read yet       *)
(*   zrt   zebra's own routes and whether ripd subscribed to them           *)
(*   env   what may happen in this behaviour                                *)
(***************************************************************************)
EXTENDS RipTable, Sequences

CONSTANTS Default,      \* 0.0.0.0/0
          Nbrs,         \* the routers on the connected networks
          NbrIf,        \* the interface each is reached through
          NbrNet,       \* and the connected prefix its address is in
          Types,        \* the route types zebra can redistribute
          Environment   \* the possible values of env, with their first conf

VARIABLES rt, conf, zq, zrt, env
vars == <<rt, conf, zq, zrt, env>>

(* rip_interface_new                                                       *)
rip_interface_new ==
    [exists |-> FALSE, up |-> FALSE, addrs |-> {}, enNet |-> FALSE, enIf |-> FALSE,
     running |-> FALSE, wakeup |-> FALSE, joined |-> FALSE, passive |-> FALSE,
     split |-> TRUE, recv |-> {}, auth |-> "text", str |-> {}, chain |-> {}]

Init ==
    /\ env \in Environment
    /\ conf = env.conf
    /\ rt = [on |-> FALSE, sock |-> FALSE, dead |-> FALSE, table |-> [p \in Prefixes |-> NoInfo],
             trigUpd |-> FALSE, trigInt |-> FALSE, trigger |-> FALSE,
             zebra |-> [p \in Prefixes |-> NoZebra], pend |-> {}, peers |-> {},
             ifs |-> [i \in Ifs |-> [rip_interface_new EXCEPT !.exists = env.known,
                          !.up = env.known, !.addrs = IF env.known THEN env.addrs[i] ELSE {}]]]
    /\ zq = <<>>
    /\ zrt = [routes |-> [t \in Types |-> {}], sub |-> {}]

May(what) == what \in env.may /\ ~rt.dead

-----------------------------------------------------------------------------
(* Interfaces (ripd/rip_interface.c).                                      *)

(* The routes of the interface go, its multicast membership and running.   *)
rip_if_down(s, i) ==
    LET Mine(p) == /\ Info(s, p).ifx = i
                   /\ Info(s, p).kind[1] \notin {"static", "system"}
        Down(p, acc) ==
            LET r == Info(acc, p)
                z == IF rip_route_rte(r) THEN rip_zebra_ipv4_delete(acc, p, r.nh) ELSE acc
            IN  rip_redistribute_delete(z, r.kind, p, i)
        t == IF s.on THEN FoldSet(Down, s, {p \in Prefixes : Mine(p)}) ELSE s
    IN  IF s.ifs[i].running
        THEN [t EXCEPT !.ifs[i].joined = FALSE, !.ifs[i].running = FALSE] ELSE t

(* The networks of the interface enter the table, or leave it.             *)
rip_connect_set(s, i, set) ==
    LET On(p, acc) == rip_redistribute_add(acc, INTERFACE, p, i, Zero)
        Off(p, acc) ==
            LET t == rip_redistribute_delete(acc, INTERFACE, p, i)
            IN  IF "connect" \in conf.redist
                THEN rip_redistribute_add(t, REDIST("connect"), p, i, Zero) ELSE t
    IN  IF set THEN FoldSet(On, s, s.ifs[i].addrs) ELSE FoldSet(Off, s, s.ifs[i].addrs)

(* Does the configuration c enable RIP on the interface?                   *)
rip_enable_network_lookup(s, c, i) == s.ifs[i].addrs \cap c.nets # {}
rip_enable_if_lookup(c, i) == i \in c.ifnames

(* "Update interface status."                                              *)
rip_enable_apply(s, c, i) ==
    LET net == rip_enable_network_lookup(s, c, i)
        name == rip_enable_if_lookup(c, i) /\ s.ifs[i].addrs # {}
        t == [s EXCEPT !.ifs[i].enNet = net, !.ifs[i].enIf = name]
    IN  IF ~s.ifs[i].up THEN s
        ELSE IF net \/ name
        THEN IF s.ifs[i].running THEN t
             ELSE rip_connect_set([t EXCEPT !.ifs[i].wakeup = TRUE], i, TRUE)
        ELSE IF s.ifs[i].running
        THEN rip_connect_set(rip_if_down(t, i), i, FALSE) ELSE t

rip_enable_apply_all(s, c) ==
    FoldSet(LAMBDA i, acc : rip_enable_apply(acc, c, i), s,
            {i \in Ifs : s.ifs[i].exists})

rip_passive_interface_apply(s, c, i) == [s EXCEPT !.ifs[i].passive = i \in c.passive]
rip_passive_interface_apply_all(s, c) ==
    [s EXCEPT !.ifs = [i \in Ifs |-> IF s.ifs[i].exists
                                     THEN [@[i] EXCEPT !.passive = i \in c.passive]
                                     ELSE @[i]]]

(* The timer of rip_enable_apply: join the multicast group (only when the  *)
(* interface is up), run, ask for routes.                                  *)
Joinable(i) == rt.ifs[i].up /\ rt.ifs[i].addrs # {}
rip_interface_wakeup(i, joins) ==
    /\ rt.ifs[i].wakeup
    /\ joins \/ (May("join failure") /\ Joinable(i))
    /\ rt' = IF joins
             THEN [rt EXCEPT !.ifs[i].wakeup = FALSE, !.ifs[i].running = TRUE,
                             !.ifs[i].joined = @ \/ Joinable(i)]
             ELSE [rt EXCEPT !.ifs[i].wakeup = FALSE]
    /\ UNCHANGED <<conf, zq, zrt, env>>

rip_interface_add(i, up) ==
    /\ May("interfaces") /\ (~rt.ifs[i].exists \/ ~rt.ifs[i].up)
    /\ rt' = rip_enable_apply([rt EXCEPT !.ifs[i].exists = TRUE, !.ifs[i].up = up], conf, i)
    /\ UNCHANGED <<conf, zq, zrt, env>>

rip_interface_up(i) ==
    /\ May("interfaces") /\ rt.ifs[i].exists /\ ~rt.ifs[i].up
    /\ rt' = rip_passive_interface_apply(
                 rip_enable_apply([rt EXCEPT !.ifs[i].up = TRUE], conf, i), conf, i)
    /\ UNCHANGED <<conf, zq, zrt, env>>

rip_interface_down(i) ==
    /\ May("interfaces") /\ rt.ifs[i].exists /\ rt.ifs[i].up
    /\ rt' = rip_if_down([rt EXCEPT !.ifs[i].up = FALSE], i)
    /\ UNCHANGED <<conf, zq, zrt, env>>

(* The message carries the flags; the structure itself is kept.            *)
rip_interface_delete(i, up) ==
    /\ May("interfaces") /\ rt.ifs[i].exists
    /\ LET s == [rt EXCEPT !.ifs[i].up = up]
       IN  rt' = IF up THEN rip_if_down(s, i) ELSE s
    /\ UNCHANGED <<conf, zq, zrt, env>>

rip_interface_address_add(i, p) ==
    /\ May("addresses") /\ rt.ifs[i].exists /\ p \in env.addrs[i] \ rt.ifs[i].addrs
    /\ rt' = rip_enable_apply([rt EXCEPT !.ifs[i].addrs = @ \cup {p}], conf, i)
    /\ UNCHANGED <<conf, zq, zrt, env>>

rip_interface_address_delete(i, p) ==
    /\ May("addresses") /\ rt.ifs[i].exists /\ p \in rt.ifs[i].addrs
    /\ rt' = rip_enable_apply([rt EXCEPT !.ifs[i].addrs = @ \ {p}], conf, i)
    /\ UNCHANGED <<conf, zq, zrt, env>>

-----------------------------------------------------------------------------
(* Datagrams (rip_read).                                                   *)

rip_neighbor_lookup(n) == n \in conf.nbrs

(* The version the packet is treated as, and whether it is the wanted one. *)
Version(pkt) == IF pkt.version > 2 THEN 2 ELSE pkt.version
VersionFits(i, pkt) ==
    pkt.cmd = "response" =>
        IF rt.ifs[i].recv = {} THEN Version(pkt) = conf.version
        ELSE Version(pkt) \in rt.ifs[i].recv

(* The authentication entry: its kind and the key it was made with.        *)
rip_auth_ok(i, pkt) ==
    LET keys == rt.ifs[i].str \cup rt.ifs[i].chain IN
    CASE pkt.auth.kind = "none" -> keys = {}
      [] pkt.auth.kind \in {"text", "md5"} ->
             rt.ifs[i].auth = pkt.auth.kind /\ pkt.auth.key \in keys
      [] OTHER -> FALSE
AuthFits(i, pkt) ==
    pkt.rtes # {} => IF Version(pkt) = 1 THEN pkt.auth.kind = "none"
                     ELSE rip_auth_ok(i, pkt)

(* The checks of rip_read in front of the switch on the command.           *)
Admitted(i, n, pkt) ==
    /\ pkt.version # 0
    /\ rt.ifs[i].running \/ rip_neighbor_lookup(n)
    /\ VersionFits(i, pkt)
    /\ AuthFits(i, pkt)

(* rip_peer_get: the sender is entered, or its timer restarted.            *)
rip_peer_get(s, n) == [s EXCEPT !.peers = @ \cup {n}]

rip_read(n, pkt) ==
    LET i == NbrIf[n] IN
    /\ May("packets") /\ rt.sock
    /\ NbrNet[n] \in rt.ifs[i].addrs
    /\ rt' = IF ~Admitted(i, n, pkt) THEN rip_peer_get(rt, n)
             ELSE CASE pkt.cmd = "response" ->
                         rip_response_process(rip_peer_get(rt, n), conf, pkt.rtes,
                                              Version(pkt), n, i)
                    [] pkt.cmd = "request" ->
                         IF rt.ifs[i].passive THEN rt ELSE rip_peer_get(rt, n)
                    [] OTHER -> rip_peer_get(rt, n)
    /\ UNCHANGED <<conf, zq, zrt, env>>

rip_peer_timeout(n) ==
    /\ May("peers") /\ n \in rt.peers
    /\ rt' = [rt EXCEPT !.peers = @ \ {n}]
    /\ UNCHANGED <<conf, zq, zrt, env>>

-----------------------------------------------------------------------------
(* Timers and events.  The event list is served before the timer list.     *)

Quiet == ~rt.trigUpd

RouteTimeout(p) ==
    /\ rt.table[p].tmo /\ Quiet
    /\ rt' = rip_timeout(rt, p)
    /\ UNCHANGED <<conf, zq, zrt, env>>

(* The holding timer is at most as long as the shortest garbage time and   *)
(* was started before the route was poisoned.                              *)
GarbageCollect(p) ==
    /\ rt.table[p].gc /\ Quiet
    /\ ~(rt.trigInt /\ rt.trigger)
    /\ rt' = rip_garbage_collect(rt, p)
    /\ UNCHANGED <<conf, zq, zrt, env>>

(* What rip_update_process offers on the interface.                        *)
rip_update_process(i, changedOnly) ==
    IF rt.ifs[i].up /\ ~rt.ifs[i].passive /\ rt.ifs[i].running
    THEN rip_output_process(rt, conf, i, rt.ifs[i].split, changedOnly) ELSE {}

Update ==
    /\ rt.sock /\ Quiet
    /\ rt' = rip_update(rt)
    /\ UNCHANGED <<conf, zq, zrt, env>>

TriggeredUpdate ==
    /\ rt.trigUpd
    /\ rt' = rip_triggered_update(rt)
    /\ UNCHANGED <<conf, zq, zrt, env>>

TriggeredInterval ==
    /\ rt.trigInt /\ Quiet
    /\ rt' = rip_triggered_interval(rt)
    /\ UNCHANGED <<conf, zq, zrt, env>>

-----------------------------------------------------------------------------
(* Zebra's routes (ripd/rip_zebra.c).                                      *)

(* The interface zebra names with a route of the type.                     *)
RouteIf(type, p) ==
    IF type = "connect" /\ \E i \in Ifs : p \in env.addrs[i]
    THEN CHOOSE i \in Ifs : p \in env.addrs[i] ELSE NoIf

ZebraRoute(type, p) ==
    /\ May("redistribution") /\ Len(zq) < env.queue
    /\ LET has == p \in zrt.routes[type]
           cmd == IF has THEN "delete" ELSE "add"
       IN  /\ zrt' = [zrt EXCEPT !.routes[type] = IF has THEN @ \ {p} ELSE @ \cup {p}]
           /\ zq' = IF type \in zrt.sub
                    THEN Append(zq, [cmd |-> cmd, type |-> type, prefix |-> p]) ELSE zq
    /\ UNCHANGED <<rt, conf, env>>

rip_zebra_read_ipv4 ==
    /\ zq # <<>> /\ rt.on
    /\ LET m == Head(zq) IN
       rt' = IF m.cmd = "add"
             THEN rip_redistribute_add(rt, REDIST(m.type), m.prefix,
                                       RouteIf(m.type, m.prefix), Zero)
             ELSE rip_redistribute_delete(rt, REDIST(m.type), m.prefix,
                                          RouteIf(m.type, m.prefix))
    /\ zq' = Tail(zq)
    /\ UNCHANGED <<conf, zrt, env>>

(* rip_zebra_read_ipv4 does not ask whether rip is NULL.                   *)
ReadWithoutRip ==
    /\ zq # <<>> /\ ~rt.on /\ ~rt.dead
    /\ rt' = [rt EXCEPT !.dead = TRUE]
    /\ UNCHANGED <<conf, zq, zrt, env>>

-----------------------------------------------------------------------------
(* Commands.  All but the first and the last are those of `router rip'.    *)

(* rip_create; when the socket cannot be made the instance stays, without  *)
(* its read and update threads.                                            *)
router_rip(ok) ==
    /\ May("start") /\ ~rt.on
    /\ ok \/ May("socket failure")
    /\ rt' = [rt EXCEPT !.on = TRUE, !.sock = ok]
    /\ conf' = [conf EXCEPT !.version = 2, !.defmetric = 1, !.static = {}, !.deflt = FALSE,
                            !.nbrs = {}, !.rmetric = [t \in DOMAIN @ |-> 0],
                            !.rmap = [t \in DOMAIN @ |-> [@[t] EXCEPT !.on = FALSE]]]
    /\ UNCHANGED <<zq, zrt, env>>

(* What rip_clean leaves of the daemon and of the configuration.           *)
Cleaned(s) ==
    LET z == FoldSet(LAMBDA p, acc : rip_zebra_ipv4_delete(acc, p, Info(s, p).nh), s,
                     {p \in Prefixes : rip_route_rte(Info(s, p))})
    IN  [z EXCEPT !.on = FALSE, !.sock = FALSE, !.table = [p \in Prefixes |-> NoInfo],
                  !.trigUpd = FALSE, !.trigInt = FALSE, !.trigger = FALSE, !.pend = {},
                  !.ifs = [i \in Ifs |-> [@[i] EXCEPT
                      !.enNet = FALSE, !.enIf = FALSE, !.running = FALSE,
                      !.wakeup = FALSE, !.passive = FALSE, !.joined = FALSE]]]
CleanedConf(c) ==
    [c EXCEPT !.nets = {}, !.ifnames = {}, !.nbrs = {}, !.passive = {}, !.static = {},
              !.redist = {}, !.offset = [d \in DOMAIN @ |->
                  [o \in DOMAIN @[d] |-> [@[d][o] EXCEPT !.on = FALSE]]]]

no_router_rip ==
    /\ May("stop") /\ rt.on
    /\ rt' = Cleaned(rt)
    /\ conf' = CleanedConf(conf)
    /\ zrt' = [zrt EXCEPT !.sub = @ \ conf.redist]
    /\ UNCHANGED <<zq, env>>

(* sighup: rip_clean, rip_reset (interfaces, connection to zebra); the     *)
(* configuration file is then read like commands.                          *)
rip_interface_reset(f) ==
    [f EXCEPT !.enNet = FALSE, !.enIf = FALSE, !.running = FALSE, !.recv = {},
              !.auth = "text", !.str = {}, !.chain = {}, !.split = FALSE, !.wakeup = FALSE,
              !.passive = FALSE]
sighup ==
    /\ May("reload")
    /\ rt' = [(IF rt.on THEN Cleaned(rt) ELSE rt) EXCEPT
                  !.ifs = [i \in Ifs |-> rip_interface_reset(@[i])]]
    /\ conf' = CleanedConf(conf)
    /\ zq' = <<>>
    /\ zrt' = [zrt EXCEPT !.sub = {}]
    /\ UNCHANGED env

(* A command that changes the configuration to c and re-examines every     *)
(* interface.                                                              *)
Reenabled(c) ==
    /\ May("network") /\ rt.on
    /\ conf' = c /\ rt' = rip_enable_apply_all(rt, c)
    /\ UNCHANGED <<zq, zrt, env>>

rip_network(p) == p \notin conf.nets /\ Reenabled([conf EXCEPT !.nets = @ \cup {p}])
no_rip_network(p) == p \in conf.nets /\ Reenabled([conf EXCEPT !.nets = @ \ {p}])
rip_network_if(i) == i \notin conf.ifnames /\ Reenabled([conf EXCEPT !.ifnames = @ \cup {i}])
no_rip_network_if(i) == i \in conf.ifnames /\ Reenabled([conf EXCEPT !.ifnames = @ \ {i}])

rip_neighbor(n) ==
    /\ May("neighbor") /\ rt.on
    /\ conf' = [conf EXCEPT !.nbrs = IF n \in @ THEN @ \ {n} ELSE @ \cup {n}]
    /\ UNCHANGED <<rt, zq, zrt, env>>

rip_passive_interface(i) ==
    /\ May("passive") /\ rt.on
    /\ conf' = [conf EXCEPT !.passive = IF i \in @ THEN @ \ {i} ELSE @ \cup {i}]
    /\ rt' = rip_passive_interface_apply_all(rt, conf')
    /\ UNCHANGED <<zq, zrt, env>>

rip_route(p) ==
    /\ May("static") /\ rt.on /\ p \notin conf.static
    /\ conf' = [conf EXCEPT !.static = @ \cup {p}]
    /\ rt' = rip_redistribute_add(rt, STATIC, p, NoIf, Zero)
    /\ UNCHANGED <<zq, zrt, env>>

no_rip_route(p) ==
    /\ May("static") /\ rt.on /\ p \in conf.static
    /\ conf' = [conf EXCEPT !.static = @ \ {p}]
    /\ rt' = rip_redistribute_delete(rt, STATIC, p, NoIf)
    /\ UNCHANGED <<zq, zrt, env>>

rip_redistribute_type(type) ==
    /\ May("redistribution") /\ rt.on /\ type \notin conf.redist
    /\ Len(zq) + Cardinality(zrt.routes[type]) <= env.queue
    /\ conf' = [conf EXCEPT !.redist = @ \cup {type}]
    /\ zrt' = [zrt EXCEPT !.sub = @ \cup {type}]
    /\ zq' = FoldSet(LAMBDA p, q : Append(q, [cmd |-> "add", type |-> type, prefix |-> p]),
                     zq, zrt.routes[type])
    /\ UNCHANGED <<rt, env>>

(* rip_redistribute_unset                                                  *)
no_rip_redistribute_type(type) ==
    /\ May("redistribution") /\ rt.on /\ type \in conf.redist
    /\ conf' = [conf EXCEPT !.redist = @ \ {type}, !.rmetric[type] = 0,
                            !.rmap[type].on = FALSE]
    /\ zrt' = [zrt EXCEPT !.sub = @ \ {type}]
    /\ rt' = rip_redistribute_withdraw(rt, type)
    /\ UNCHANGED <<zq, env>>

(* The forms with a metric or a route-map name what is to be removed; the  *)
(* wrong one changes nothing, and redistribution is turned off only by the *)
(* right one.                                                              *)
rip_redistribute_type_metric(type, m) ==
    /\ May("policy") /\ rt.on /\ type \in conf.redist
    /\ conf' = [conf EXCEPT !.rmetric[type] = m]
    /\ UNCHANGED <<rt, zq, zrt, env>>
no_rip_redistribute_type_metric(type, m) ==
    /\ May("policy") /\ rt.on /\ type \in conf.redist /\ conf.rmetric[type] = m
    /\ conf' = [conf EXCEPT !.redist = @ \ {type}, !.rmetric[type] = 0]
    /\ zrt' = [zrt EXCEPT !.sub = @ \ {type}]
    /\ rt' = rip_redistribute_withdraw(rt, type)
    /\ UNCHANGED <<zq, env>>
rip_redistribute_type_routemap(type) ==
    /\ May("policy") /\ rt.on /\ type \in conf.redist
    /\ conf' = [conf EXCEPT !.rmap[type].on = TRUE]
    /\ UNCHANGED <<rt, zq, zrt, env>>
no_rip_redistribute_type_routemap(type) ==
    /\ May("policy") /\ rt.on /\ type \in conf.redist /\ conf.rmap[type].on
    /\ conf' = [conf EXCEPT !.redist = @ \ {type}, !.rmap[type].on = FALSE]
    /\ zrt' = [zrt EXCEPT !.sub = @ \ {type}]
    /\ rt' = rip_redistribute_withdraw(rt, type)
    /\ UNCHANGED <<zq, env>>

(* default-information originate and its negation, for the prefix          *)
(* 0.0.0.0/0, which is the member Default of Prefixes.                     *)
rip_default_information_originate ==
    /\ May("static") /\ rt.on /\ ~conf.deflt
    /\ conf' = [conf EXCEPT !.deflt = TRUE]
    /\ rt' = rip_redistribute_add(rt, STATIC, Default, NoIf, Zero)
    /\ UNCHANGED <<zq, zrt, env>>
no_rip_default_information_originate ==
    /\ May("static") /\ rt.on /\ conf.deflt
    /\ conf' = [conf EXCEPT !.deflt = FALSE]
    /\ rt' = rip_redistribute_delete(rt, STATIC, Default, NoIf)
    /\ UNCHANGED <<zq, zrt, env>>

(* Parameters that later packets and updates read.                         *)
Configure(what, c) ==
    /\ May(what) /\ rt.on /\ conf' = c
    /\ UNCHANGED <<rt, zq, zrt, env>>
rip_version(v) == Configure("version", [conf EXCEPT !.version = v])
rip_default_metric(m) == Configure("policy", [conf EXCEPT !.defmetric = m])
rip_offset_list_set(dir, i, m) ==
    Configure("offset", [conf EXCEPT !.offset[dir][i].on = TRUE, !.offset[dir][i].metric = m])
rip_offset_list_unset(dir, i) ==
    Configure("offset", [conf EXCEPT !.offset[dir][i].on = FALSE])

(* Commands of the interface node work with or without `router rip'.       *)
Interface(i, f) ==
    /\ May("interface policy") /\ rt' = [rt EXCEPT !.ifs[i] = f]
    /\ UNCHANGED <<conf, zq, zrt, env>>
ip_rip_receive_version(i, vs) == Interface(i, [rt.ifs[i] EXCEPT !.recv = vs])
rip_split_horizon(i, on) == Interface(i, [rt.ifs[i] EXCEPT !.split = on])
ip_rip_authentication_mode(i, mode) == Interface(i, [rt.ifs[i] EXCEPT !.auth = mode])
ip_rip_authentication_string(i, ks) ==
    (ks # {} => rt.ifs[i].chain = {}) /\ Interface(i, [rt.ifs[i] EXCEPT !.str = ks])
ip_rip_authentication_key_chain(i, ks) ==
    (ks # {} => rt.ifs[i].str = {}) /\ Interface(i, [rt.ifs[i] EXCEPT !.chain = ks])

Commands ==
    \/ \E ok \in BOOLEAN : router_rip(ok)
    \/ no_router_rip
    \/ sighup
    \/ \E p \in env.nets : rip_network(p) \/ no_rip_network(p)
    \/ \E i \in env.ifnames : rip_network_if(i) \/ no_rip_network_if(i) \/ rip_passive_interface(i)
    \/ \E n \in Nbrs : rip_neighbor(n)
    \/ \E p \in env.routes : rip_route(p) \/ no_rip_route(p)
    \/ rip_default_information_originate
    \/ no_rip_default_information_originate
    \/ \E type \in env.types :
          \/ rip_redistribute_type(type) \/ no_rip_redistribute_type(type)
          \/ rip_redistribute_type_routemap(type) \/ no_rip_redistribute_type_routemap(type)
          \/ \E m \in env.metrics : \/ rip_redistribute_type_metric(type, m)
                                     \/ no_rip_redistribute_type_metric(type, m)
    \/ \E v \in {1, 2} : rip_version(v)
    \/ \E m \in env.metrics : rip_default_metric(m)
    \/ \E dir \in env.dirs, i \in env.polifs :
          \/ rip_offset_list_unset(dir, i)
          \/ \E m \in env.metrics : rip_offset_list_set(dir, i, m)
    \/ \E i \in env.polifs \ {NoIf} :
          \/ \E vs \in SUBSET {1, 2} : ip_rip_receive_version(i, vs)
          \/ \E on \in BOOLEAN : rip_split_horizon(i, on)
          \/ \E mode \in {"text", "md5"} : ip_rip_authentication_mode(i, mode)
          \/ \E ks \in {{}, {"key"}} : \/ ip_rip_authentication_string(i, ks)
                                       \/ ip_rip_authentication_key_chain(i, ks)

Interfaces ==
    \E i \in Ifs :
      \/ \E joins \in BOOLEAN : rip_interface_wakeup(i, joins)
      \/ \E up \in BOOLEAN : rip_interface_add(i, up) \/ rip_interface_delete(i, up)
      \/ rip_interface_up(i)
      \/ rip_interface_down(i)
      \/ \E p \in Prefixes : rip_interface_address_add(i, p) \/ rip_interface_address_delete(i, p)

Timers ==
    \/ \E p \in Prefixes : RouteTimeout(p) \/ GarbageCollect(p)
    \/ \E n \in Nbrs : rip_peer_timeout(n)
    \/ Update
    \/ TriggeredUpdate
    \/ TriggeredInterval

Next ==
    \/ Commands
    \/ Interfaces
    \/ Timers
    \/ \E n \in Nbrs, pkt \in env.packets : rip_read(n, pkt)
    \/ \E type \in env.types, p \in env.routes : ZebraRoute(type, p)
    \/ rip_zebra_read_ipv4
    \/ ReadWithoutRip

Spec == Init /\ [][Next]_vars

-----------------------------------------------------------------------------
(* Properties.                                                             *)

TypeOK ==
    /\ env \in Environment
    /\ \A p \in Prefixes :
          /\ rt.table[p].metric \in 1..Infinity
          /\ rt.table[p].ifx \in Ifs \cup {NoIf}
          /\ rt.table[p].from \in Nbrs \cup {Zero}
    /\ rt.pend \subseteq Prefixes /\ rt.peers \subseteq Nbrs
    /\ \A k \in 1..Len(zq) : zq[k].type \in Types /\ zq[k].prefix \in Prefixes

(* A route that cannot be used is waiting to be removed, and only such a   *)
(* route; a usable route that was learned from a neighbour has its timeout *)
(* running, and nothing else has.  Over all the ways a route is replaced,  *)
(* poisoned, revived or redistributed (rip_rte_process, rip_timeout,       *)
(* rip_redistribute_add and _delete, rip_if_down).                         *)
TimersMatch ==
    \A p \in Prefixes : LET r == Info(rt, p) IN
        IF Exists(r) THEN /\ r.gc <=> r.metric = Infinity
                          /\ r.tmo <=> rip_route_rte(r) /\ r.metric # Infinity
        ELSE r = NoInfo

(* What zebra was told is the table: it holds a RIP route to a prefix      *)
(* exactly when the table has a usable one from a neighbour, with the same *)
(* next hop and metric.                                                    *)
FibAgrees ==
    \A p \in Prefixes : LET r == Info(rt, p) IN
        rt.zebra[p] = IF rip_route_rte(r) /\ r.metric # Infinity
                      THEN [nh |-> r.nh, metric |-> r.metric] ELSE NoZebra

(* No change is forgotten: while a changed route has not been offered to   *)
(* the interfaces, a triggered update is queued, or the holding timer runs *)
(* and remembers that one is wanted.  The two never wait side by side      *)
(* (rip_event, rip_triggered_update, rip_triggered_interval, rip_update).  *)
NoLostTrigger ==
    /\ ~(rt.trigUpd /\ rt.trigInt)
    /\ rt.pend # {} => rt.trigUpd \/ (rt.trigInt /\ rt.trigger)

(* After `no router rip' or a reload nothing of the instance is left: no   *)
(* timer or event that would use the freed structure, no interface that    *)
(* sends, no route of ours in zebra (rip_clean).                           *)
NothingLeft ==
    ~rt.on => /\ ~rt.trigUpd /\ ~rt.trigInt /\ ~rt.sock
              /\ \A p \in Prefixes : Info(rt, p) = NoInfo /\ rt.zebra[p] = NoZebra
              /\ \A i \in Ifs : ~rt.ifs[i].running /\ ~rt.ifs[i].wakeup


(* A poisoned route is announced as unreachable, and every metric lies     *)
(* between 1 and infinity, whatever offset lists, redistribution metrics   *)
(* and the default metric add; for routes whose metric no route-map sets.  *)
PoisonAnnounced ==
    \A i \in Ifs : \A e \in rip_update_process(i, FALSE) :
        LET r == Info(rt, e.prefix) IN
        ~conf.rmap[r.kind[1]].on =>
            /\ e.metric \in 1..Infinity
            /\ r.metric = Infinity => e.metric = Infinity

=============================================================================
