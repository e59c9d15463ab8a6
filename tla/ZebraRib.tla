------------------------------ MODULE ZebraRib ------------------------------
(* The routing information base of zebra: zebra_rib.c (selection, nexthop    *)
(* resolution, static routes, kernel routes), connected.c and interface.c    *)
(* (connected routes), the kernel side of rt_netlink.c and the route         *)
(* redistribution of redistribute.c.                                         *)
(*                                                                           *)
(* zebra is one thread.  A handler is an operator from a world record        *)
(*    w = [rib, kern, view, sub, up, refuse]                                 *)
(* to the next one; an action runs one handler to its end.  The kernel may   *)
(* refuse to install routes: the prefixes it refuses during a handler are    *)
(* picked when the handler starts (refuse).                                  *)
EXTENDS Naturals, FiniteSets, SequencesExt

CONSTANTS
  Prefix,        \* the prefixes of the table
  Default,       \* the member of Prefix that is 0.0.0.0/0
  Order,         \* Prefix as route_top/route_next visits it
  Gate,          \* gateway addresses
  Path,          \* [Gate -> Seq(Prefix)]: covering prefixes, longest first
  Iface,         \* interfaces
  Addr,          \* interface addresses, [net : Prefix, id]
  Client,        \* protocol daemons
  Martian,       \* members of Prefix zebra_check_addr rejects (127/8, class D)
  Environment,   \* what may happen to zebra in one behaviour, see EnvType
  rtm_table_default \* "table N" of the configuration, 0 without one

DISTANCE_INFINITY == 255
RT_TABLE_MAIN == 254
Type == {"KERNEL", "CONNECT", "STATIC", "OSPF", "BGP"}
RIB_SYSTEM_ROUTE(r) == r.type \in {"KERNEL", "CONNECT"}
Null0 == [kind |-> "blackhole", to |-> "null0"]
Hop == {Null0} \cup [kind : {"gate"}, to : Gate]
               \cup [kind : {"ifindex", "ifname"}, to : Iface]

\* The interfaces and addresses the host has, the routes daemons may announce,
\* those of the configuration, those an operator may add to the kernel and
\* those found there at start-up, the types a daemon may ask for ("default"
\* included), whether operators delete zebra's routes from the kernel, the sets
\* of prefixes the kernel may refuse, and MULTIPATH_NUM of the build (0: no limit).
EnvType(e) ==
  /\ e.iface \subseteq Iface /\ e.addr \subseteq Addr
  /\ e.announce \subseteq [type : {"OSPF", "BGP"}, p : Prefix, hops : Seq(Hop),
                           internal : BOOLEAN, ibgp : BOOLEAN, dist : 0 .. 255]
  /\ e.static \subseteq [p : Prefix, hop : Hop, dist : 1 .. 255]
  /\ e.kernel \subseteq [p : Prefix, g : Gate]
  /\ e.boot \subseteq [p : Prefix, g : Gate, self : BOOLEAN]
  /\ e.redist \subseteq Type \cup {"default"}
  /\ e.admin \in BOOLEAN /\ e.refusal \subseteq SUBSET Prefix /\ e.multipath \in Nat

ASSUME RibAssumption ==
  /\ Default \in Prefix
  /\ Range(Order) = Prefix /\ Len(Order) = Cardinality(Prefix)
  /\ \A g \in Gate : Path[g] \in Seq(Prefix)
  /\ \A a \in Addr : a.net \in Prefix
  /\ Martian \subseteq Prefix /\ rtm_table_default \in Nat
  /\ \A e \in Environment : EnvType(e)

VARIABLES
  env,      \* the environment of this behaviour
  phase,    \* "boot" until rib_sweep_route, "config" until rib_weed_tables
  rib,      \* per prefix the list rn->info, head first
  kern,     \* per prefix zebra's routes in the kernel, sequences of hops
  foreign,  \* per prefix the gateways of the operator's routes in the kernel
  up,       \* interfaces that are up
  conn,     \* per interface ifp->connected (the addresses the kernel has)
  static,   \* static route configuration
  clients,  \* client_list
  sub,      \* per client the types of redist[] that are set
  view      \* per client the <<prefix, type>> it was last told exist

vars == <<env, phase, rib, kern, foreign, up, conn, static, clients, sub, view>>

(***************************************************************************)
(* Nexthops and their resolution                                           *)
(***************************************************************************)
Each(s, Op(_)) == <<>> \o [i \in DOMAIN s |-> Op(s[i])]
Positions(s) == <<>> \o [i \in DOMAIN s |-> i]

Nexthop(h) ==
  [hop |-> h, active |-> FALSE, fib |-> FALSE, rec |-> FALSE, via |-> h]

\* The rib of type t with the hops hs; nothing ever sets rib->table.
Rib(t, d, hs) ==
  [type |-> t, dist |-> d, internal |-> FALSE, self |-> FALSE, table |-> 0,
   sel |-> FALSE, ref |-> 0, blackhole |-> Null0 \in Range(hs),
   nh |-> Each(hs, Nexthop)]

nexthop_add(r, h) ==
  [r EXCEPT !.nh = Append(@, Nexthop(h)), !.blackhole = @ \/ h = Null0]

nexthop_delete(r, h) ==
  [r EXCEPT !.nh = RemoveAt(@, SelectInSeq(@, LAMBDA n : n.hop = h))]

\* The selected route at which the lookup of gateway g for a route of node top
\* ends, as a sequence: nodes are visited from the longest match upwards, past
\* those without a selected route or with a BGP one; nothing is found when the
\* lookup meets top or runs off the tree.
Match(w, g, top) ==
  LET Sel(p)   == SelectSeq(w.rib[p], LAMBDA r : r.sel)
      Stops(p) == w.rib[p] # <<>> /\ (p = top \/ (Sel(p) # <<>> /\ Sel(p)[1].type # "BGP"))
      at       == SelectInSeq(Path[g], Stops)
  IN IF at = 0 THEN <<>>
     ELSE IF Path[g][at] = top THEN <<>> ELSE Sel(Path[g][at])

\* ACTIVE or not after a lookup that found match and, when set, RECURSIVE with
\* the nexthop it resolves to (via).
Resolve(match, r, n, set) ==
  LET new   == IF match = <<>> THEN <<>>
               ELSE SelectSeq(match[1].nh, LAMBDA x : x.fib /\ ~x.rec)
      plain == IF set THEN [n EXCEPT !.rec = FALSE, !.via = n.hop] ELSE n
  IN IF match = <<>> THEN [plain EXCEPT !.active = FALSE]
     ELSE IF match[1].type = "CONNECT" THEN [plain EXCEPT !.active = TRUE]
     ELSE IF ~r.internal \/ new = <<>> THEN [plain EXCEPT !.active = FALSE]
     ELSE IF set THEN [n EXCEPT !.active = TRUE, !.rec = TRUE, !.via = new[1].hop]
     ELSE [n EXCEPT !.active = TRUE]

nexthop_active_ipv4(w, r, n, set, top) == Resolve(Match(w, n.hop.to, top), r, n, set)

nexthop_active_check(w, r, n, set, top) ==
  CASE n.hop.kind = "gate"      -> nexthop_active_ipv4(w, r, n, set, top)
    [] n.hop.kind = "blackhole" -> [n EXCEPT !.active = TRUE]
    [] n.hop.kind \in {"ifindex", "ifname"} -> [n EXCEPT !.active = n.hop.to \in w.up]

nexthop_active_update(w, r, set, top) ==
  [r EXCEPT !.nh = Each(@, LAMBDA n : nexthop_active_check(w, r, n, set, top))]

Active(r) == SelectSeq(r.nh, LAMBDA n : n.active)
Changed(old, new) == \E i \in DOMAIN old.nh : old.nh[i].active # new.nh[i].active
NoFib(r) == [r EXCEPT !.nh = Each(@, LAMBDA n : [n EXCEPT !.fib = FALSE])]

(***************************************************************************)
(* The kernel (netlink)                                                    *)
(***************************************************************************)
\* The nexthops of r a request names, out of those with the flag.
Named(r, flag) ==
  LET ns    == SelectSeq(Positions(r.nh), LAMBDA i : r.nh[i][flag])
      limit == IF Len(Active(r)) = 1 \/ env.multipath = 1 THEN 1
               ELSE IF env.multipath = 0 THEN Len(ns) ELSE env.multipath
  IN SubSeq(ns, 1, IF limit < Len(ns) THEN limit ELSE Len(ns))

RouteHops(r, ns) ==
  IF r.blackhole THEN <<Null0>> ELSE Each(ns, LAMBDA i : r.nh[i].via)

\* RTM_NEWROUTE: marks the nexthops named FIB; on an error none is.
rib_install_kernel(w, p, i) ==
  LET r    == w.rib[p][i]
      ns   == Named(r, "active")
      req  == RouteHops(r, ns)
      mark == IF r.blackhole THEN DOMAIN r.nh ELSE Range(ns)
  IN IF req = <<>> THEN w
     ELSE IF p \in w.refuse \/ req \in w.kern[p]
     THEN [w EXCEPT !.rib[p][i] = NoFib(r)]
     ELSE [w EXCEPT !.kern[p] = @ \cup {req},
                    !.rib[p][i].nh = Each(Positions(@), LAMBDA j :
                                        [r.nh[j] EXCEPT !.fib = @ \/ j \in mark])]

\* RTM_DELROUTE: the kernel drops the route whose first hop the request names
\* first; a request without a hop drops a route of the prefix.
Dropped(routes, req) ==
  LET hit == {x \in routes : Head(req) \in {Null0, Head(x)}}
  IN routes \ (IF hit = {} THEN {} ELSE {CHOOSE x \in hit : TRUE})

rib_uninstall_kernel(w, p, r) ==
  LET req == RouteHops(r, Named(r, "fib"))
  IN IF req = <<>> THEN w ELSE [w EXCEPT !.kern[p] = Dropped(@, req)]

(***************************************************************************)
(* Redistribution                                                          *)
(***************************************************************************)
Wants(w, c, p, t) == t \in w.sub[c] \/ (p = Default /\ "default" \in w.sub[c])

redistribute_add(w, p, r) ==
  [w EXCEPT !.view = [c \in Client |->
     IF Wants(w, c, p, r.type) THEN @[c] \cup {<<p, r.type>>} ELSE @[c]]]

redistribute_delete(w, p, r) ==
  [w EXCEPT !.view = [c \in Client |->
     IF r.dist # DISTANCE_INFINITY /\ Wants(w, c, p, r.type)
     THEN @[c] \ {<<p, r.type>>} ELSE @[c]]]

(***************************************************************************)
(* Selection                                                               *)
(***************************************************************************)
\* Mutant: the route leaves the kernel but not the clients.
MutWithdrawQuiet(w, p, r) ==
  IF RIB_SYSTEM_ROUTE(r) THEN w ELSE rib_uninstall_kernel(w, p, r)

\* Takes the installed route r of p out of the kernel and from the clients.
Withdraw(w, p, r) ==
  LET w1 == redistribute_delete(w, p, r)
  IN IF RIB_SYSTEM_ROUTE(r) THEN w1 ELSE rib_uninstall_kernel(w1, p, r)

Uninstalled(r) == IF RIB_SYSTEM_ROUTE(r) THEN r ELSE NoFib(r)

SetReal(w, p, i) ==
  [w EXCEPT !.rib[p][i] = nexthop_active_update(w, @, TRUE, p)]

IntoKernel(w, p, i) ==
  IF RIB_SYSTEM_ROUTE(w.rib[p][i]) THEN w ELSE rib_install_kernel(w, p, i)

Install(w, p, i) ==
  redistribute_add([IntoKernel(SetReal(w, p, i), p, i) EXCEPT !.rib[p][i].sel = TRUE],
                   p, w.rib[p][i])

rib_uninstall(w, p, i) ==
  LET r == w.rib[p][i]
  IN IF r.sel
     THEN [Withdraw(w, p, r) EXCEPT !.rib[p][i] = [Uninstalled(r) EXCEPT !.sel = FALSE]]
     ELSE w

\* The scan of rib_process: nexthops refreshed, then the candidate of least
\* distance, a connected one before any other.
Choice(list) ==
  LET cand == {i \in DOMAIN list : Active(list[i]) # <<>>
                                   /\ list[i].dist # DISTANCE_INFINITY}
      Pick(s, i) == IF i \in cand /\ (s = 0 \/ list[i].dist < list[s].dist
                                            \/ list[i].type = "CONNECT")
                    THEN i ELSE s
  IN FoldLeft(Pick, 0, Positions(list))

\* The second half of rib_process: old is the list before its nexthops were
\* refreshed, select the position of the choice.
Settle(w, p, del, old, select) ==
  LET gone == del # <<>> /\ del[1].sel
      fib  == SelectLastInSeq(old, LAMBDA r : r.sel)
      Old  == IF gone THEN Withdraw(w, p, del[1])
              ELSE IF fib = 0 THEN w ELSE SetReal(rib_uninstall(w, p, fib), p, fib)
      New(x) == IF select = 0 THEN x ELSE Install(x, p, select)
  IN IF select = 0 \/ select # fib \/ gone THEN New(Old)
     ELSE IF Changed(old[fib], w.rib[p][fib]) THEN New(rib_uninstall(w, p, fib))
     ELSE w

\* del is <<r>> for a route r that has just left the list, else <<>>.
rib_process(w, p, del) ==
  LET list == Each(w.rib[p], LAMBDA r : nexthop_active_update(w, r, FALSE, p))
  IN IF w.rib[p] = <<>> /\ del = <<>> THEN w
     ELSE Settle([w EXCEPT !.rib[p] = list], p, del, w.rib[p], Choice(list))

rib_update(w) == FoldLeft(LAMBDA x, p : rib_process(x, p, <<>>), w, Order)

(***************************************************************************)
(* Adding and deleting routes                                              *)
(***************************************************************************)
DefaultDistance(t, ibgp) ==
  IF t = "BGP" /\ ibgp THEN 200
  ELSE CASE t \in {"KERNEL", "CONNECT"} -> 0 [] t = "STATIC" -> 1
         [] t = "OSPF" -> 110 [] t = "BGP" -> 20

\* KERNEL and CONNECT routes are in the kernel already.
FibSet(r) ==
  IF RIB_SYSTEM_ROUTE(r)
  THEN [r EXCEPT !.nh = Each(@, LAMBDA n : [n EXCEPT !.fib = TRUE])] ELSE r

\* Mutant: the route replaced is unlinked and forgotten.
MutReplaceForgets(w, p, r, same) ==
  LET rest == IF same = 0 THEN w.rib[p] ELSE RemoveAt(w.rib[p], same)
  IN rib_process([w EXCEPT !.rib[p] = <<FibSet(r)>> \o rest], p, <<>>)

\* Links r at the head of p's list after the implicit withdraw of same, the
\* position of the route it replaces, if any.
Replace(w, p, r, same) ==
  LET rest == IF same = 0 THEN w.rib[p] ELSE RemoveAt(w.rib[p], same)
      w1   == [w EXCEPT !.rib[p] = <<FibSet(r)>> \o rest]
  IN rib_process(w1, p, IF same = 0 THEN <<>> ELSE <<w.rib[p][same]>>)

ConnectedOn(r, i) == r.type = "CONNECT" /\ r.nh[1].hop = [kind |-> "ifindex", to |-> i]

\* A duplicate connected route is only counted.
rib_add_connected(w, p, i) ==
  LET dup == SelectInSeq(w.rib[p], LAMBDA r : ConnectedOn(r, i))
  IN IF dup # 0 THEN [w EXCEPT !.rib[p][dup].ref = @ + 1]
     ELSE Replace(w, p, Rib("CONNECT", 0, <<[kind |-> "ifindex", to |-> i]>>), 0)

rib_add_kernel(w, p, g, self) ==
  LET same == SelectInSeq(w.rib[p], LAMBDA r : r.type = "KERNEL")
      r    == Rib("KERNEL", 0, <<[kind |-> "gate", to |-> g]>>)
  IN Replace(w, p, [r EXCEPT !.self = self], same)

rib_add_ipv4_multipath(w, a) ==
  LET d    == IF a.dist = 0 THEN DefaultDistance(a.type, a.ibgp) ELSE a.dist
      same == SelectInSeq(w.rib[a.p], LAMBDA r : r.type = a.type)
  IN Replace(w, a.p, [Rib(a.type, d, a.hops) EXCEPT !.internal = a.internal], same)

Unlink(w, p, i) ==
  rib_process([w EXCEPT !.rib[p] = RemoveAt(@, i)], p, <<w.rib[p][i]>>)

\* Deletion of a connected route of interface i.
rib_delete_connected(w, p, i) ==
  LET same == SelectInSeq(w.rib[p], LAMBDA r : ConnectedOn(r, i))
  IN IF same = 0 THEN w
     ELSE IF w.rib[p][same].ref > 0 THEN [w EXCEPT !.rib[p][same].ref = @ - 1]
     ELSE Unlink(w, p, same)

\* Deletion of the route of type t.  When the kernel has deleted a route of
\* zebra's (no KERNEL route, but a selected one), selection starts afresh.
rib_delete_ipv4(w, t, p) ==
  LET same == SelectInSeq(w.rib[p], LAMBDA r : r.type = t)
      fib  == SelectLastInSeq(w.rib[p], LAMBDA r : r.sel)
  IN IF same # 0 THEN Unlink(w, p, same)
     ELSE IF fib # 0 /\ t = "KERNEL"
     THEN rib_process([w EXCEPT !.rib[p][fib] = [NoFib(@) EXCEPT !.sel = FALSE]], p, <<>>)
     ELSE w

(***************************************************************************)
(* Static routes                                                           *)
(***************************************************************************)
StaticRib(w, s) == SelectInSeq(w.rib[s.p], LAMBDA r : r.type = "STATIC" /\ r.dist = s.dist)

static_install_ipv4(w, s) ==
  LET i == StaticRib(w, s)
  IN IF i # 0
     THEN LET w1 == rib_uninstall(w, s.p, i)
          IN rib_process([w1 EXCEPT !.rib[s.p][i] = nexthop_add(@, s.hop)], s.p, <<>>)
     ELSE rib_process([w EXCEPT !.rib[s.p] = <<Rib("STATIC", s.dist, <<s.hop>>)>> \o @],
                      s.p, <<>>)

\* Mutant: the whole route goes with one of its nexthops.
MutUninstallWhole(w, s) ==
  LET i == StaticRib(w, s)
  IN IF i = 0 THEN w ELSE Unlink(w, s.p, i)

static_uninstall_ipv4(w, s) ==
  LET i == StaticRib(w, s)
      r == w.rib[s.p][i]
  IN IF i = 0 \/ s.hop \notin {n.hop : n \in Range(r.nh)} THEN w
     ELSE IF Len(r.nh) = 1 THEN Unlink(w, s.p, i)
     ELSE LET w1 == rib_uninstall(w, s.p, i)
          IN rib_process([w1 EXCEPT !.rib[s.p][i] = nexthop_delete(@, s.hop)], s.p, <<>>)

SameNexthop(s) == {x \in static : x.p = s.p /\ x.hop = s.hop}

(***************************************************************************)
(* Interfaces                                                              *)
(***************************************************************************)
\* An address 0.0.0.0/0 is a tunnel's and has no connected route.
connected_up_ipv4(w, i, a) ==
  IF a.net = Default THEN w ELSE rib_update(rib_add_connected(w, a.net, i))

\* Mutant: the other nodes are not processed.
MutDownNoUpdate(w, i, a) ==
  IF a.net = Default THEN w ELSE rib_delete_connected(w, a.net, i)

connected_down_ipv4(w, i, a) ==
  IF a.net = Default THEN w ELSE rib_update(rib_delete_connected(w, a.net, i))

if_up(w, i) ==
  rib_update(FoldLeft(LAMBDA x, a : connected_up_ipv4(x, i, a), w, conn[i]))

if_down(w, i) ==
  rib_update(FoldLeft(LAMBDA x, a : connected_down_ipv4(x, i, a), w, conn[i]))

if_delete_update(w, i) ==
  FoldLeft(LAMBDA x, a : connected_down_ipv4(x, i, a), w, conn[i])

(***************************************************************************)
(* Start-up and termination                                                *)
(***************************************************************************)
\* Routes a previous zebra left in the kernel are deleted; where the kernel
\* refuses, the route stays.  No node is processed.
rib_sweep_route(w) ==
  LET Old(r) == r.type = "KERNEL" /\ r.self
      Sweep(x, p) ==
        LET i == SelectInSeq(x.rib[p], Old)
        IN IF i = 0 THEN x
           ELSE IF p \in x.refuse THEN [x EXCEPT !.rib[p][i] = NoFib(@)]
           ELSE [rib_uninstall_kernel(x, p, x.rib[p][i])
                   EXCEPT !.rib[p] = RemoveAt(@, i)]
  IN FoldLeft(Sweep, w, Order)

rib_weed_tables(w) ==
  [w EXCEPT !.rib = [p \in Prefix |->
     SelectSeq(w.rib[p], LAMBDA r : r.table \in {rtm_table_default, RT_TABLE_MAIN})]]

\* Mutant: only the first route of a node is looked at.
MutCloseFirst(w) ==
  FoldLeft(LAMBDA x, p : IF x.rib[p] # <<>> /\ x.rib[p][1].sel /\ ~RIB_SYSTEM_ROUTE(x.rib[p][1])
                         THEN rib_uninstall_kernel(x, p, x.rib[p][1]) ELSE x, w, Order)

rib_close(w) ==
  LET Shut(x, p) ==
        FoldLeft(LAMBDA y, r : IF r.sel /\ ~RIB_SYSTEM_ROUTE(r)
                               THEN rib_uninstall_kernel(y, p, r) ELSE y,
                 x, x.rib[p])
      w1 == FoldLeft(Shut, w, Order)
  IN [w1 EXCEPT !.rib = [p \in Prefix |->
        Each(w.rib[p], LAMBDA r : IF r.sel THEN Uninstalled(r) ELSE r)]]

(***************************************************************************)
(* Actions                                                                 *)
(***************************************************************************)
World(refused) ==
  [rib |-> rib, kern |-> kern, view |-> view, sub |-> sub, up |-> up,
   refuse |-> refused]

Run(w) == rib' = w.rib /\ kern' = w.kern /\ view' = w.view

Init ==
  /\ env \in Environment
  /\ phase = "boot" /\ up = {} /\ static = {} /\ clients = {}
  /\ rib = [p \in Prefix |-> <<>>] /\ conn = [i \in Iface |-> <<>>]
  /\ kern = [p \in Prefix |-> {}] /\ foreign = [p \in Prefix |-> {}]
  /\ sub = [c \in Client |-> {}] /\ view = [c \in Client |-> {}]

\* At start-up zebra reads the links, then the addresses, then the routes.
LinksRead == \A j \in Iface : conn[j] = <<>>
AddressesRead == \A p \in Prefix : \A r \in Range(rib[p]) : r.type = "CONNECT"

IfUp(i) ==
  /\ phase = "run" \/ (phase = "boot" /\ LinksRead /\ rib = [p \in Prefix |-> <<>>])
  /\ i \notin up /\ up' = up \cup {i}
  /\ \E R \in env.refusal : Run(if_up([World(R) EXCEPT !.up = up'], i))
  /\ UNCHANGED <<env, phase, foreign, conn, static, clients, sub>>

IfDown(i) ==
  /\ phase = "run" /\ i \in up /\ up' = up \ {i}
  /\ \E R \in env.refusal : Run(if_down([World(R) EXCEPT !.up = up'], i))
  /\ UNCHANGED <<env, phase, foreign, conn, static, clients, sub>>

IfDelete(i) ==
  /\ phase = "run" /\ i \notin up /\ conn[i] # <<>>
  /\ conn' = [conn EXCEPT ![i] = <<>>]
  /\ \E R \in env.refusal : Run(if_delete_update(World(R), i))
  /\ UNCHANGED <<env, phase, foreign, up, static, clients, sub>>

connected_add_ipv4(i, a) ==
  /\ phase = "run" \/ (phase = "boot" /\ AddressesRead)
  /\ a \notin UNION {Range(conn[j]) : j \in Iface}
  /\ conn' = [conn EXCEPT ![i] = Append(@, a)]
  /\ \E R \in env.refusal :
       Run(IF i \in up THEN connected_up_ipv4(World(R), i, a) ELSE World(R))
  /\ UNCHANGED <<env, phase, foreign, up, static, clients, sub>>

connected_delete_ipv4(i, a) ==
  /\ phase = "run" /\ a \in Range(conn[i])
  /\ conn' = [conn EXCEPT ![i] = SelectSeq(@, LAMBDA x : x # a)]
  /\ \E R \in env.refusal : Run(connected_down_ipv4(World(R), i, a))
  /\ UNCHANGED <<env, phase, foreign, up, static, clients, sub>>

static_add_ipv4(s) ==
  /\ phase \in {"config", "run"} /\ s \notin static
  /\ static' = (static \ SameNexthop(s)) \cup {s}
  /\ \E R \in env.refusal :
       LET w == IF SameNexthop(s) = {} THEN World(R)
                ELSE static_uninstall_ipv4(World(R), CHOOSE x \in SameNexthop(s) : TRUE)
       IN Run(static_install_ipv4(w, s))
  /\ UNCHANGED <<env, phase, foreign, up, conn, clients, sub>>

\* The distance of the command plays no part in the lookup.
static_delete_ipv4(s) ==
  /\ phase = "run"
  /\ \E x \in SameNexthop(s) :
       /\ \A y \in SameNexthop(s) : x.dist <= y.dist
       /\ static' = static \ {x}
       /\ \E R \in env.refusal : Run(static_uninstall_ipv4(World(R), x))
  /\ UNCHANGED <<env, phase, foreign, up, conn, clients, sub>>

zread_ipv4_add(c, a) ==
  /\ phase = "run" /\ c \in clients
  /\ \E R \in env.refusal : Run(rib_add_ipv4_multipath(World(R), a))
  /\ UNCHANGED <<env, phase, foreign, up, conn, static, clients, sub>>

zread_ipv4_delete(c, a) ==
  /\ phase = "run" /\ c \in clients
  /\ \E R \in env.refusal : Run(rib_delete_ipv4(World(R), a.type, a.p))
  /\ UNCHANGED <<env, phase, foreign, up, conn, static, clients, sub>>

\* RTM_NEWROUTE of an operator's route.
KernelAdd(k) ==
  /\ phase = "run" /\ k.g \notin foreign[k.p]
  /\ foreign' = [foreign EXCEPT ![k.p] = @ \cup {k.g}]
  /\ \E R \in env.refusal : Run(rib_add_kernel(World(R), k.p, k.g, FALSE))
  /\ UNCHANGED <<env, phase, up, conn, static, clients, sub>>

\* RTM_DELROUTE of an operator's route.
KernelDelete(k) ==
  /\ phase = "run" /\ k.g \in foreign[k.p]
  /\ foreign' = [foreign EXCEPT ![k.p] = @ \ {k.g}]
  /\ \E R \in env.refusal : Run(rib_delete_ipv4(World(R), "KERNEL", k.p))
  /\ UNCHANGED <<env, phase, up, conn, static, clients, sub>>

\* RTM_DELROUTE of a route zebra had installed; that of a blackhole is ignored.
KernelDeleteOurs(p) ==
  /\ phase = "run" /\ env.admin
  /\ \E R \in env.refusal, x \in kern[p] :
       LET w == [World(R) EXCEPT !.kern[p] = @ \ {x}]
       IN Run(IF x = <<Null0>> THEN w ELSE rib_delete_ipv4(w, "KERNEL", p))
  /\ UNCHANGED <<env, phase, foreign, up, conn, static, clients, sub>>

zebra_client_create(c) ==
  /\ phase = "run" /\ c \notin clients /\ clients' = clients \cup {c}
  /\ UNCHANGED <<env, phase, rib, kern, foreign, up, conn, static, sub, view>>

\* The routes the daemon announced stay in the RIB.
zebra_client_close(c) ==
  /\ phase = "run" /\ c \in clients /\ clients' = clients \ {c}
  /\ sub' = [sub EXCEPT ![c] = {}] /\ view' = [view EXCEPT ![c] = {}]
  /\ UNCHANGED <<env, phase, rib, kern, foreign, up, conn, static>>

\* What a daemon that asks for t is sent at once.
Dump(t) ==
  LET Sent(p, r) == /\ r.sel /\ r.dist # DISTANCE_INFINITY
                    /\ IF t = "default" THEN p = Default
                       ELSE r.type = t /\ p \notin Martian
  IN UNION {{<<p, r.type>> : r \in {x \in Range(rib[p]) : Sent(p, x)}} : p \in Prefix}

zebra_redistribute_add(c, t) ==
  /\ phase = "run" /\ c \in clients /\ (t \notin sub[c] \/ t = "default")
  /\ sub' = [sub EXCEPT ![c] = @ \cup {t}]
  /\ view' = [view EXCEPT ![c] = @ \cup Dump(t)]
  /\ UNCHANGED <<env, phase, rib, kern, foreign, up, conn, static, clients>>

\* zebra clears the flag only; the daemon forgets what it no longer asks for.
zebra_redistribute_delete(c, t) ==
  /\ phase = "run" /\ t \in sub[c]
  /\ sub' = [sub EXCEPT ![c] = @ \ {t}]
  /\ view' = [view EXCEPT ![c] = {v \in @ : \/ v[2] \in sub'[c]
                                           \/ (v[1] = Default /\ "default" \in sub'[c])}]
  /\ UNCHANGED <<env, phase, rib, kern, foreign, up, conn, static, clients>>

\* A route of the kernel read at start-up.
netlink_routing_table(b) ==
  /\ phase = "boot" /\ b.g \notin foreign[b.p] /\ kern[b.p] = {}
  /\ LET w == World({})
         k == IF b.self THEN {<<[kind |-> "gate", to |-> b.g]>>} ELSE {}
     IN Run(rib_add_kernel([w EXCEPT !.kern[b.p] = @ \cup k], b.p, b.g, b.self))
  /\ foreign' = [foreign EXCEPT ![b.p] = IF b.self THEN @ ELSE @ \cup {b.g}]
  /\ UNCHANGED <<env, phase, up, conn, static, clients, sub>>

Sweep ==
  /\ phase = "boot" /\ phase' = "config"
  /\ \E R \in env.refusal : Run(rib_sweep_route(World(R)))
  /\ UNCHANGED <<env, foreign, up, conn, static, clients, sub>>

Weed ==
  /\ phase = "config" /\ phase' = "run"
  /\ Run(rib_weed_tables(World({})))
  /\ UNCHANGED <<env, foreign, up, conn, static, clients, sub>>

\* SIGINT or SIGTERM without -r.
sigint ==
  /\ phase = "run" /\ phase' = "closed"
  /\ Run(rib_close(World({})))
  /\ UNCHANGED <<env, foreign, up, conn, static, clients, sub>>

Next ==
  \/ \E i \in env.iface : IfUp(i) \/ IfDown(i) \/ IfDelete(i)
  \/ \E i \in env.iface, a \in env.addr : connected_add_ipv4(i, a) \/ connected_delete_ipv4(i, a)
  \/ \E s \in env.static : static_add_ipv4(s) \/ static_delete_ipv4(s)
  \/ \E c \in Client, a \in env.announce : zread_ipv4_add(c, a) \/ zread_ipv4_delete(c, a)
  \/ \E k \in env.kernel : KernelAdd(k) \/ KernelDelete(k)
  \/ \E p \in Prefix : KernelDeleteOurs(p)
  \/ \E c \in Client : zebra_client_create(c) \/ zebra_client_close(c)
  \/ \E c \in Client, t \in env.redist :
       zebra_redistribute_add(c, t) \/ zebra_redistribute_delete(c, t)
  \/ \E b \in env.boot : netlink_routing_table(b)
  \/ Sweep \/ Weed \/ sigint

Spec == Init /\ [][Next]_vars

(***************************************************************************)
(* Properties                                                              *)
(***************************************************************************)
NexthopType == [hop : Hop, active : BOOLEAN, fib : BOOLEAN, rec : BOOLEAN, via : Hop]
RibType == [type : Type, dist : 0 .. 255, internal : BOOLEAN, self : BOOLEAN,
            table : {0}, sel : BOOLEAN, ref : Nat, blackhole : BOOLEAN,
            nh : Seq(NexthopType)]

\* Every variable stays within its type.
TypeOK ==
  /\ env \in Environment /\ phase \in {"boot", "config", "run", "closed"}
  /\ rib \in [Prefix -> Seq(RibType)]
  /\ kern \in [Prefix -> SUBSET Seq(Hop)]
  /\ foreign \in [Prefix -> SUBSET Gate]
  /\ up \subseteq Iface /\ conn \in [Iface -> Seq(Addr)]
  /\ static \subseteq env.static /\ clients \subseteq Client
  /\ sub \in [Client -> SUBSET (Type \cup {"default"})]
  /\ view \in [Client -> SUBSET (Prefix \X Type)]

\* Usable now: some nexthop of r resolves in the present table.
Reachable(p, r) == Active(nexthop_active_update(World({}), r, FALSE, p)) # <<>>
Candidate(p, r) == r.dist # DISTANCE_INFINITY /\ Reachable(p, r)
\* Nodes whose routes resolve through connected routes only.
Direct(p) == \A i \in DOMAIN rib[p] : ~rib[p][i].internal

\* Between handlers at most one route of a prefix is SELECTED and, where no
\* route needs a recursive lookup, it is a usable route that no usable route
\* beats on distance, connected first; where a usable route exists one is
\* selected.  rib_process looks at one node only, so this needs every change
\* of an interface or of a connected route to be followed by rib_update.
SelectionCurrent ==
  \A p \in Prefix :
    LET sel  == {i \in DOMAIN rib[p] : rib[p][i].sel}
        cand == {i \in DOMAIN rib[p] : Candidate(p, rib[p][i])}
    IN /\ Cardinality(sel) <= 1
       /\ Direct(p) =>
            /\ sel \subseteq cand /\ (sel = {} => cand = {})
            /\ \A i \in sel, j \in cand :
                 /\ rib[p][i].dist <= rib[p][j].dist
                 /\ rib[p][j].type = "CONNECT" => rib[p][i].type = "CONNECT"

\* The route a previous zebra left and the sweep could not delete.
Leftover(p) == {<<r.nh[1].hop>> : r \in {x \in Range(rib[p]) : x.self}}

\* The kernel holds, for a prefix, no route but the one of the selected rib
\* that zebra installs, with the hops that are marked FIB, and a route of a
\* previous zebra that the sweep could not delete; and it holds that one unless
\* an operator deletes zebra's routes.  No order of installs, refusals and
\* withdrawals leaves anything else behind.
KernelInStep ==
  phase = "run" =>
  \A p \in Prefix :
    LET mine == {r \in Range(rib[p]) : /\ r.sel /\ ~RIB_SYSTEM_ROUTE(r)
                                       /\ \E n \in Range(r.nh) : n.fib}
        installed == {RouteHops(r, Named(r, "fib")) : r \in mine}
    IN /\ kern[p] \ Leftover(p) \subseteq installed
       /\ ~env.admin => installed \subseteq kern[p]

\* After an orderly exit (rib_close) the kernel keeps no route zebra installed.
CloseClean == phase = "closed" => \A p \in Prefix : kern[p] \subseteq Leftover(p)

\* What a daemon has been told exists is exactly the selected routes of the
\* types it asked for (plus the default route if it asked for that).
RedistExact ==
  phase = "run" =>
  \A c \in Client :
    {v \in view[c] : v[1] \notin Martian} =
      {<<p, t>> \in (Prefix \ Martian) \X Type :
         /\ Wants(World({}), c, p, t)
         /\ \E i \in DOMAIN rib[p] : rib[p][i].sel /\ rib[p][i].type = t}

\* A prefix has one connected route per interface that is up and has
\* addresses in it, and its reference count is one less than their number,
\* whatever the order of link and address events.
ConnectedExact ==
  phase = "run" =>
  \A p \in Prefix \ {Default}, i \in Iface :
    LET n    == IF i \in up THEN Cardinality({a \in Range(conn[i]) : a.net = p}) ELSE 0
        mine == {j \in DOMAIN rib[p] : ConnectedOn(rib[p][j], i)}
    IN Cardinality(mine) = (IF n = 0 THEN 0 ELSE 1)
       /\ \A j \in mine : rib[p][j].ref + 1 = n

\* The static routes of the RIB are those of the configuration: each
\* configured nexthop is in the route of its prefix and distance, once.
StaticExact ==
  phase \in {"config", "run"} =>
  \A p \in Prefix, d \in {s.dist : s \in env.static} :
    LET hops == {s.hop : s \in {x \in static : x.p = p /\ x.dist = d}}
        ribs == {i \in DOMAIN rib[p] : rib[p][i].type = "STATIC" /\ rib[p][i].dist = d}
    IN /\ Cardinality(ribs) = (IF hops = {} THEN 0 ELSE 1)
       /\ \A i \in ribs : /\ {n.hop : n \in Range(rib[p][i].nh)} = hops
                           /\ Len(rib[p][i].nh) = Cardinality(hops)

\* The routes zebra makes itself are those of the interfaces and of the
\* configuration.
OriginExact == ConnectedExact /\ StaticExact
=============================================================================
