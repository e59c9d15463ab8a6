------------------------------ MODULE BgpAspath -----------------------------
(***************************************************************************)
(* AS paths (bgpd/bgp_aspath.c).  struct aspath is a byte string of        *)
(* segments; here it is the sequence of the segments, each with its type   *)
(* and its AS numbers.  length is 0 exactly for the empty sequence.        *)
(***************************************************************************)
EXTENDS Naturals, Sequences
LOCAL INSTANCE SequencesExt
LOCAL INSTANCE FiniteSetsExt

AS_SET == "set"
AS_SEQUENCE == "seq"
AS_CONFED_SEQUENCE == "cseq"
AS_CONFED_SET == "cset"
SegmentTypes == {AS_SET, AS_SEQUENCE, AS_CONFED_SEQUENCE, AS_CONFED_SET}
BGP_PRIVATE_AS_MIN == 64512
BGP_PRIVATE_AS_MAX == 65535

Segment(type, as) == [type |-> type, as |-> as]
aspath_empty == <<>>

(* The AS numbers in the order of the bytes, and as a set.                 *)
AllAs(path) == FlattenSeq([i \in 1..Len(path) |-> path[i].as])
AsNumbers(path) == Range(AllAs(path))

(* as->count: a set counts once, confederation segments not at all.        *)
aspath_make_str_count(path) ==
    FoldSeq(LAMBDA seg, n : CASE seg.type = AS_SEQUENCE -> n + Len(seg.as)
                              [] seg.type = AS_SET -> n + 1
                              [] OTHER -> n, 0, path)

(* How often the AS occurs.                                                *)
aspath_loop_check(path, asno) ==
    Len(SelectSeq(AllAs(path), LAMBDA a : a = asno))

aspath_private_as_check(path) ==
    /\ path # <<>>
    /\ \A a \in AsNumbers(path) : a \in BGP_PRIVATE_AS_MIN..BGP_PRIVATE_AS_MAX

aspath_firstas_check(path, asno) ==
    path # <<>> /\ path[1].type = AS_SEQUENCE /\ path[1].as[1] = asno

aspath_merge(as1, as2) == as1 \o as2

(* A last and a first sequence become one; two sets stay two.              *)
aspath_prepend(as1, as2) ==
    IF as2 = <<>> THEN as1
    ELSE IF as1 = <<>> THEN as2
    ELSE IF Last(as1).type = AS_SEQUENCE /\ Head(as2).type = AS_SEQUENCE
    THEN Front(as1) \o <<Segment(AS_SEQUENCE, Last(as1).as \o Head(as2).as)>> \o Tail(as2)
    ELSE aspath_merge(as1, as2)

aspath_add_one_as(path, asno, type) ==
    IF path = <<>> \/ Head(path).as = <<>> THEN <<Segment(type, <<asno>>)>>
    ELSE IF Head(path).type = type
    THEN <<Segment(type, <<asno>> \o Head(path).as)>> \o Tail(path)
    ELSE <<Segment(type, <<asno>>)>> \o path
aspath_add_seq(path, asno) == aspath_add_one_as(path, asno, AS_SEQUENCE)
aspath_add_confed_seq(path, asno) == aspath_add_one_as(path, asno, AS_CONFED_SEQUENCE)

(* The path without the confederation sequences it begins with.            *)
aspath_delete_confed_seq(path) ==
    LET kept == {i \in 1..Len(path) : path[i].type # AS_CONFED_SEQUENCE}
    IN  IF kept = {} THEN <<>> ELSE SubSeq(path, Min(kept), Len(path))

(* The leftmost AS outside the confederation, 0 for none.  For a path of   *)
(* confederation segments only the code reads past the end of the data: no *)
(* such path is compared here.                                             *)
LeftAs(path) ==
    LET own == {i \in 1..Len(path) : path[i].type \notin {AS_CONFED_SEQUENCE, AS_CONFED_SET}}
    IN  IF own = {} THEN 0
        ELSE LET seg == path[Min(own)]
             IN  IF seg.type = AS_SEQUENCE /\ seg.as # <<>> THEN seg.as[1] ELSE 0
aspath_cmp_left(path1, path2) == LeftAs(path1) # 0 /\ LeftAs(path1) = LeftAs(path2)

LeftConfed(path) ==
    IF path # <<>> /\ path[1].type = AS_CONFED_SEQUENCE THEN path[1].as[1] ELSE 0
aspath_cmp_left_confed(path1, path2) ==
    /\ aspath_make_str_count(path1) = 0 /\ aspath_make_str_count(path2) = 0
    /\ LeftConfed(path1) # 0 /\ LeftConfed(path1) = LeftConfed(path2)

-----------------------------------------------------------------------------
(* Aggregation.                                                            *)

(* The number of ASes the two segments begin with alike.                   *)
Common(seg1, seg2) ==
    Max({k \in 0..Min({Len(seg1.as), Len(seg2.as)}) :
             \A i \in 1..k : seg1.as[i] = seg2.as[i]})

(* The loop that compares segment by segment: head is the common path,     *)
(* (at, match) where and with which match the loop was left.               *)
CommonLead(as1, as2) ==
    LET n == Min({Len(as1), Len(as2)})
        Lead(at, typed, match) ==
            [head |-> SubSeq(as1, 1, at) \o
                      (IF typed /\ match > 0
                       THEN <<Segment(as1[at + 1].type, SubSeq(as1[at + 1].as, 1, match))>> ELSE <<>>),
             at |-> at, match |-> match]
        Typed(at, typed) == Lead(at, typed, IF typed THEN Common(as1[at + 1], as2[at + 1])
                                            ELSE IF at > 0 THEN Len(as1[at].as) ELSE 0)
        At(at) == Typed(at, at < n /\ as1[at + 1].type = as2[at + 1].type)
    IN  At(Max({k \in 0..n : \A i \in 1..k : as1[i] = as2[i]}))

(* What is left of a path from segment at + 1 on: match leaves out the     *)
(* first ASes of that segment.                                             *)
Rest(path, at, match) ==
    IF at = Len(path) THEN <<>>
    ELSE SubSeq(path[at + 1].as, match + 1, Len(path[at + 1].as))
             \o AllAs(SubSeq(path, at + 2, Len(path)))

aspath_aggregate_as_set_add(set, as) == IF as \in Range(set) THEN set ELSE Append(set, as)

aspath_aggregate(as1, as2) ==
    LET AsSet(set) == IF set = <<>> THEN <<>> ELSE <<Segment(AS_SET, set)>>
        Merge(lead) == lead.head \o AsSet(FoldLeft(aspath_aggregate_as_set_add, <<>>,
                           Rest(as1, lead.at, lead.match) \o Rest(as2, lead.at, lead.match)))
    IN  Merge(CommonLead(as1, as2))

-----------------------------------------------------------------------------
(* The text of a path, as the sequence of its tokens.                      *)

Mark(c) == <<[tok |-> c, as |-> 0]>>
Space == <<>>
aspath_delimiter_char(type) ==
    CASE type = AS_SET -> [start |-> Mark("{"), end |-> Mark("}")]
      [] type = AS_CONFED_SEQUENCE -> [start |-> Mark("("), end |-> Mark(")")]
      [] type = AS_CONFED_SET -> [start |-> Mark("["), end |-> Mark("]")]
      [] OTHER -> [start |-> Space, end |-> Space]
aspath_print(path) ==
    FlattenSeq([i \in 1..Len(path) |->
        LET d == aspath_delimiter_char(path[i].type)
            numbers == [k \in 1..Len(path[i].as) |-> [tok |-> "as", as |-> path[i].as[k]]]
        IN  d.start \o numbers \o d.end])

(* One token: p the path so far, type the type of the next segment, need   *)
(* that the next number begins one; ok is FALSE after an unknown token.    *)
aspath_segment_add(s, type) ==
    [s EXCEPT !.p = Append(@, Segment(type, <<>>)), !.type = type, !.need = FALSE]
aspath_as_add(s, asno) == [s EXCEPT !.p[Len(s.p)].as = Append(@, asno)]
aspath_gettoken(s, t) ==
    CASE ~s.ok -> s
      [] t.tok = "{" -> aspath_segment_add(s, AS_SET)
      [] t.tok = "(" -> aspath_segment_add(s, AS_CONFED_SEQUENCE)
      [] t.tok \in {"}", ")"} -> [s EXCEPT !.type = AS_SEQUENCE, !.need = TRUE]
      [] t.tok = "as" -> aspath_as_add(IF s.need THEN aspath_segment_add(s, s.type) ELSE s, t.as)
      [] OTHER -> [s EXCEPT !.ok = FALSE]
aspath_str2aspath(text) ==
    FoldLeft(aspath_gettoken, [p |-> <<>>, type |-> AS_SEQUENCE, need |-> TRUE, ok |-> TRUE], text)
=============================================================================
