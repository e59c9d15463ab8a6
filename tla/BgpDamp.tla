------------------------------- MODULE BgpDamp ------------------------------
(***************************************************************************)
(* Route flap dampening (bgpd/bgp_damp.c).                                 *)
(*                                                                         *)
(* d is the state of struct bgp_damp_config: on (BGP_CONFIG_DAMPENING),    *)
(* noreuse and reuse (the lists, as sets of route keys), offset, and       *)
(* damaged: a list operation was applied to an entry that is not on that   *)
(* list, which overwrites the links of other entries.  A route ri carries  *)
(* its struct bgp_damp_info in ri.damp: pen (the figure of merit when it   *)
(* was last updated), dt (time since), last (the last record), age (time   *)
(* since it was suppressed), index.                                        *)
(*                                                                         *)
(* Time advances in DELTA_REUSE steps; a half life is two of them.  A      *)
(* penalty unit is 250: DEFAULT_PENALTY is 4.                              *)
(***************************************************************************)
EXTENDS Integers, Sequences, FiniteSets

DEFAULT_PENALTY == 4
SUPPRESS_VALUE == 8
REUSE_LIMIT == 3
CEILING == 12                \* REUSE_LIMIT * 2^(MAX_SUPPRESS / half life)
MAX_SUPPRESS == 4
REUSE_LIST_SIZE == MAX_SUPPRESS + 1
DecayArray == <<707, 500, 354>>      \* 0.5^(i / 2) in thousandths

NoDamp == [pen |-> -1, dt |-> 0, last |-> "none", age |-> 0, index |-> -1]
DampOff ==
    [on |-> FALSE, noreuse |-> {}, reuse |-> [i \in 0..REUSE_LIST_SIZE - 1 |-> {}],
     offset |-> 0, damaged |-> FALSE]

bgp_damp_decay(dt, pen) ==
    IF dt = 0 THEN pen
    ELSE IF dt > Len(DecayArray) THEN 0
    ELSE (pen * DecayArray[dt]) \div 1000

(* How many steps from now the penalty has decayed to the reuse limit,     *)
(* rounded down: the largest k with REUSE_LIMIT * 2^(k/2) <= pen.          *)
bgp_reuse_index(d, pen) ==
    LET k == CHOOSE k \in 0..MAX_SUPPRESS :
                 /\ REUSE_LIMIT * REUSE_LIMIT * 2^k <= pen * pen \/ k = 0
                 /\ k = MAX_SUPPRESS \/ REUSE_LIMIT * REUSE_LIMIT * 2^(k + 1) > pen * pen
    IN  (d.offset + k) % REUSE_LIST_SIZE

bgp_reuse_list_add(d, key, pen) ==
    [d EXCEPT !.reuse[bgp_reuse_index(d, pen)] = @ \cup {key}]
bgp_reuse_list_delete(d, key) ==
    [d EXCEPT !.reuse = [i \in DOMAIN d.reuse |-> d.reuse[i] \ {key}]]
BGP_DAMP_LIST_ADD(d, key) == [d EXCEPT !.noreuse = @ \cup {key}]
BGP_DAMP_LIST_DEL(d, key) ==
    IF key \in d.noreuse THEN [d EXCEPT !.noreuse = @ \ {key}]
    ELSE [d EXCEPT !.damaged = @ \/ d.noreuse # {}]

Flag(ri, set, clear) == [ri EXCEPT !.flags = (@ \ clear) \cup set]
Damped(ri) == "damped" \in ri.flags
Half(pen) == 2 * pen <= REUSE_LIMIT

(* The functions below return the lists d, the route ri and a status; gone *)
(* tells that the route itself has been deleted.                           *)
Outcome(d, ri, status, gone) == [d |-> d, ri |-> ri, status |-> status, gone |-> gone]

bgp_damp_info_free(d, key, ri, withdraw) ==
    Outcome(IF Damped(ri) THEN bgp_reuse_list_delete(d, key) ELSE BGP_DAMP_LIST_DEL(d, key),
            [Flag(ri, {}, {"damped", "history"}) EXCEPT !.damp = NoDamp],
            "none", ri.damp.last = "withdraw" /\ withdraw)

(* A route becomes unreachable, or its attributes change.                  *)
bgp_damp_withdraw(d, key, ri, attrChange) ==
    LET old == ri.damp
        new == old = NoDamp
        add == IF attrChange THEN DEFAULT_PENALTY \div 2 ELSE DEFAULT_PENALTY
        sum == bgp_damp_decay(old.dt, old.pen) + add
        pen == IF new THEN add ELSE IF sum > CEILING THEN CEILING ELSE sum
        listed == IF new THEN BGP_DAMP_LIST_ADD(d, key) ELSE d
        rec == [Flag(ri, {"history"}, {}) EXCEPT
                   !.damp = [@ EXCEPT !.pen = pen, !.dt = 0, !.last = "withdraw"]]
    IN  IF Damped(ri)
        THEN Outcome(IF pen = old.pen THEN d
                     ELSE bgp_reuse_list_add(bgp_reuse_list_delete(d, key), key, pen),
                     rec, "suppressed", FALSE)
        ELSE IF pen >= SUPPRESS_VALUE
        THEN Outcome(bgp_reuse_list_add(BGP_DAMP_LIST_DEL(listed, key), key, pen),
                     [Flag(rec, {"damped"}, {}) EXCEPT !.damp.age = 0], "used", FALSE)
        ELSE Outcome(listed, rec, "used", FALSE)

(* The route is announced again.                                           *)
bgp_damp_update(d, key, ri) ==
    LET pen == bgp_damp_decay(ri.damp.dt, ri.damp.pen)
        rec == [Flag(ri, {}, {"history"}) EXCEPT !.damp = [@ EXCEPT !.pen = pen, !.last = "update"]]
        reused == Damped(ri) /\ pen < REUSE_LIMIT
        used == reused \/ (~Damped(ri) /\ pen < SUPPRESS_VALUE)
        d1 == IF reused THEN BGP_DAMP_LIST_ADD(bgp_reuse_list_delete(d, key), key) ELSE d
        ri1 == IF reused THEN [Flag(rec, {}, {"damped"}) EXCEPT !.damp.age = 0] ELSE rec
        status == IF used THEN "used" ELSE "suppressed"
    IN  IF ri.damp = NoDamp THEN Outcome(d, ri, "used", FALSE)
        ELSE IF Half(pen) THEN [bgp_damp_info_free(d1, key, ri1, FALSE) EXCEPT !.status = status]
        ELSE Outcome(d1, [ri1 EXCEPT !.damp.dt = 0], status, FALSE)

(* Called for every route by the scan.  The status is "reuse" when the     *)
(* route can be used again.                                                *)
bgp_damp_scan(d, key, ri) ==
    LET pen == bgp_damp_decay(ri.damp.dt, ri.damp.pen)
        decayed == [ri EXCEPT !.damp.pen = pen]
    IN  IF Damped(ri)
        THEN IF ri.damp.age < MAX_SUPPRESS THEN Outcome(d, ri, "none", FALSE)
             ELSE Outcome(BGP_DAMP_LIST_ADD(bgp_reuse_list_delete(d, key), key),
                          [Flag(ri, {}, {"damped"}) EXCEPT
                              !.damp = [@ EXCEPT !.pen = REUSE_LIMIT, !.age = 0, !.dt = 0]],
                          IF ri.damp.last = "update" THEN "reuse" ELSE "none", FALSE)
        ELSE IF Half(pen) THEN bgp_damp_info_free(d, key, decayed, TRUE)
        ELSE Outcome(d, [decayed EXCEPT !.damp.dt = 0], "none", FALSE)

(* One entry of the list that bgp_reuse_timer has detached.  The status    *)
(* "reuse" asks for the route to be processed before the entry is put back *)
(* on a list or freed.                                                     *)
ReuseEntry(d, key, ri) ==
    LET pen == bgp_damp_decay(ri.damp.dt, ri.damp.pen)
        rec == [ri EXCEPT !.damp.pen = pen, !.damp.dt = 0]
        update == ri.damp.last = "update"
        free == [Flag(rec, {}, {"damped"} \cup IF update THEN {"history"} ELSE {}) EXCEPT !.damp.age = 0]
    IN  IF pen >= REUSE_LIMIT THEN Outcome(bgp_reuse_list_add(d, key, pen), rec, "none", FALSE)
        ELSE Outcome(d, free, IF update THEN "reuse" ELSE "none", FALSE)
(* others: the detached list has other entries, linked to this one.        *)
ReuseEntryEnd(d, key, ri, others) ==
    IF Damped(ri) THEN Outcome(d, ri, "none", FALSE)
    ELSE IF Half(ri.damp.pen)
    THEN bgp_damp_info_free([d EXCEPT !.damaged = @ \/ others], key, ri, TRUE)
    ELSE Outcome(BGP_DAMP_LIST_ADD(d, key), ri, "none", FALSE)

(* Time passes.                                                            *)
Older(ri) ==
    IF ri.damp = NoDamp THEN ri
    ELSE [ri EXCEPT !.damp.dt = IF @ > Len(DecayArray) THEN @ ELSE @ + 1,
                    !.damp.age = IF Damped(ri) /\ @ < MAX_SUPPRESS THEN @ + 1 ELSE @]
=============================================================================
