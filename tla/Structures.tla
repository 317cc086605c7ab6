----------------------------- MODULE Structures -----------------------------
(***************************************************************************)
(* One value of the keyspace down to its nodes and buckets: the list, hash *)
(* and sorted-set commands over list.cpp, htable.cpp, zset.cpp, dict.cpp   *)
(* and skiplist.cpp.  Every command is compared with what Objects, where a *)
(* value is a sequence or a map, says of it.                               *)
(*                                                                         *)
(* val is None while the key is missing.  The handlers' type and expiry    *)
(* tests are Keyspace's.  A score survives "%.17g" and strtod unchanged,   *)
(* so the index keeps the score itself.                                    *)
(***************************************************************************)
EXTENDS Dict, SkipList, List, Replies

CONSTANTS
    Elems, Fields, Members, Scores,
    OutMax,         \* size of the on-stack arrays of HGETALL and ZRANGE
    RangeMax,       \* and of LRANGE
    CStr,           \* member -> the member its bytes up to a NUL are
    Indices,        \* the indices clients give
    MaxLen,         \* bound on the length of lists and skip lists
    MaxOddLen       \* bound on skip lists once odd is set

ASSUME KeysAreHashed == Fields \cup Members \subseteq DOMAIN HashOf
ASSUME BoundsAreNumbers == /\ {OutMax, RangeMax, MaxLen, MaxOddLen} \subseteq Nat
                           /\ Indices \subseteq Int
ASSUME RanksAreNumbers == StrRank \in [Members -> Int]
ASSUME ScoresAreNumbers == Scores \subseteq Int /\ NaN \notin Scores

VARIABLES
    type,           \* the key's type, for good
    val,            \* its list, hash or sorted set
    odd             \* a NaN score or two strcmp-equal members were stored

vars == <<type, val, odd>>

O == INSTANCE Objects WITH
        Nil <- None, NotNum <- NaN, LLMin <- -1, LLMax <- 1,
        StrcmpRank <- StrRank

SkipNodes == [score : Int, member : Members \cup {0},
              forward : UNION {[1 .. h -> Int] : h \in 1 .. MaxLevel}]

\* None is no element, score or object, no list of up to two elements more
\* than MaxLen, no hash and no sorted set of up to one member more.
ASSUME NoneIsNoData ==
    /\ None \notin Elems \cup Scores \cup O!Objs
    /\ \A S \in SUBSET (1 .. MaxLen + 2) :
          None \notin [head : Nat, tail : Nat, len : Nat,
                       node : [S -> [value : Elems, prev : Nat, next : Nat]]]
    /\ None \notin [buckets : Seq(Seq([key : Fields, val : Elems])), count : Nat]
    /\ \A S \in SUBSET (0 .. MaxLen + 1) :
          None \notin [sl : [level : Nat, length : Nat, node : [S -> SkipNodes]],
                       ht : [buckets : Seq(Seq([key : Members, val : Scores])),
                             count : Nat]]

Init == /\ type \in {"list", "hash", "zset"}
        /\ val = None
        /\ odd = FALSE

Existing(new) == IF val = None THEN new ELSE val
Result(v, reply) == [val |-> v, reply |-> reply]
Become(r) == val' = r.val /\ UNCHANGED <<type, odd>>

-----------------------------------------------------------------------------
(* Lists *)

LPush(es) == LET l == FoldLeft(ListLPush, Existing(NewList), es)
             IN  Result(l, Integer(l.len))
RPush(es) == LET l == FoldLeft(ListRPush, Existing(NewList), es)
             IN  Result(l, Integer(l.len))

\* The key goes with its last element.
Popped(l) == IF l.len = 0 THEN None ELSE l
LPop == IF val = None THEN Result(None, NullBulk)
        ELSE Result(Popped(ListLPop(val)), Bulk(val.node[val.head].value))
RPop == IF val = None THEN Result(None, NullBulk)
        ELSE Result(Popped(ListRPop(val)), Bulk(val.node[val.tail].value))

LLen == Result(val, Integer(IF val = None THEN 0 ELSE val.len))
LRange(start, end) ==
    LET out == IF val = None THEN << >> ELSE ListRange(val, start, end, RangeMax)
    IN  Result(val, Array(Len(out), out))
LIndex(i) ==
    LET v == IF val = None THEN None ELSE ListIndex(val, i, None)
    IN  Result(val, IF v = None THEN NullBulk ELSE Bulk(v))

-----------------------------------------------------------------------------
(* Hashes *)

\* cmd_hset and cmd_hdel over their arguments: htable_exists, htable_set and
\* htable_del for each.
OnePair(r, p) == Result(DictSet(r.val, p[1], p[2]),
    Integer(r.reply.n + (IF DictGet(r.val, p[1]) = None THEN 1 ELSE 0)))
HSet(pairs) == FoldLeft(OnePair, Result(Existing(NewDict), Integer(0)), pairs)

OneField(r, f) == Result(DictDel(r.val, f),
    Integer(r.reply.n + (IF DictGet(r.val, f) = None THEN 0 ELSE 1)))
HDel(fs) == IF val = None THEN Result(None, Integer(0))
            ELSE FoldLeft(OneField, Result(val, Integer(0)), fs)

HGet(f) == LET v == IF val = None THEN None ELSE DictGet(val, f)
           IN  Result(val, IF v = None THEN NullBulk ELSE Bulk(v))
HLen == Result(val, Integer(IF val = None THEN 0 ELSE val.count))

\* htable_getall, its callback ending the walk when the arrays are full.
GetAll == LET es == IF val = None THEN << >> ELSE Entries(val)
          IN  SubSeq(es, 1, Min({OutMax, Len(es)}))
HGetAll == Result(val, Listing(2 * Len(GetAll),
                               {<<e.key, e.val>> : e \in Range(GetAll)}))
HKeys == Result(val, Listing(Len(GetAll), {e.key : e \in Range(GetAll)}))

-----------------------------------------------------------------------------
(* Sorted sets: a skip list and an index from members to scores *)

NewZSet == [sl |-> NewSkipList, ht |-> NewDict]

\* BUG: an update forgets the index.
ZSetAddOnly(z, m, score, lvl) ==
    [sl |-> SlInsert(z.sl, m, score, lvl),
     ht |-> IF DictGet(z.ht, m) = None THEN DictSet(z.ht, m, score) ELSE z.ht]

\* zset_add.
ZSetAdd(z, m, score, lvl) ==
    LET old == DictGet(z.ht, m)
        sl == IF old = None THEN z.sl ELSE SlDelete(z.sl, m, old)
    IN  [sl |-> SlInsert(sl, m, score, lvl), ht |-> DictSet(z.ht, m, score)]

\* zset_rem of a member that is there.
ZSetRem(z, m) == [sl |-> SlDelete(z.sl, m, DictGet(z.ht, m)),
                  ht |-> DictDel(z.ht, m)]

\* zset_add answers true for updates too.
ZAdd(m, score, lvl) ==
    Result(ZSetAdd(Existing(NewZSet), m, score, lvl), Integer(1))

OneMember(r, m) ==
    IF DictGet(r.val.ht, m) = None THEN r
    ELSE Result(ZSetRem(r.val, m), Integer(r.reply.n + 1))
ZRem(ms) == IF val = None THEN Result(None, Integer(0))
            ELSE FoldLeft(OneMember, Result(val, Integer(0)), ms)

ZScore(m) == LET s == IF val = None THEN None ELSE DictGet(val.ht, m)
             IN  Result(val, IF s = None THEN NullBulk ELSE Bulk(O!Decimal(s)))
ZCard == Result(val, Integer(IF val = None THEN 0 ELSE val.sl.length))
ZRank(m) == LET rank == IF val = None THEN -1 ELSE SlRank(val.sl, m)
            IN  Result(val, IF rank < 0 THEN NullBulk ELSE Integer(rank))
\* Members are answered by strlen.
ZRange(start, end) ==
    LET at == IF val = None THEN << >> ELSE SlRange(val.sl, start, end, OutMax)
    IN  Result(val, Array(Len(at),
            [i \in DOMAIN at |-> CStr[val.sl.node[at[i]].member]]))

-----------------------------------------------------------------------------
(* Behaviours *)

Upto2(S) == {<<x>> : x \in S} \cup (S \X S)

ListStep == /\ type = "list"
            /\ \/ \E es \in Upto2(Elems) :
                      /\ Existing(NewList).len + Len(es) <= MaxLen
                      /\ Become(LPush(es)) \/ Become(RPush(es))
               \/ Become(LPop) \/ Become(RPop)

HashStep == /\ type = "hash"
            /\ \/ \E pairs \in Upto2(Fields \X Elems) : Become(HSet(pairs))
               \/ \E fs \in Upto2(Fields) : Become(HDel(fs))

\* A stored member that strcmp takes for m though it is another.
Twins(m) == {n \in Members \ {m} : /\ StrRank[n] = StrRank[m]
                                   /\ DictGet(Existing(NewZSet).ht, n) # None}

\* The skip list keeps to its bound; a disordered one to a smaller bound.
ZAddStep == \E m \in Members, score \in Scores \cup {NaN}, lvl \in 1 .. MaxLevel :
                /\ odd' = (odd \/ score = NaN \/ Twins(m) # {})
                /\ val' = ZAdd(m, score, lvl).val
                /\ val'.sl.length <= IF odd' THEN MaxOddLen ELSE MaxLen
                /\ UNCHANGED type

ZSetStep == /\ type = "zset"
            /\ ZAddStep \/ \E ms \in Upto2(Members) : Become(ZRem(ms))

Next == ListStep \/ HashStep \/ ZSetStep

Spec == Init /\ [][Next]_vars

-----------------------------------------------------------------------------
(* Properties *)

\* The types of the variables.
TypeOK == /\ type \in {"list", "hash", "zset"} /\ odd \in BOOLEAN
          /\ val # None =>
                CASE type = "list" -> DOMAIN val = DOMAIN NewList /\ val.len \in Nat
                  [] type = "hash" -> DOMAIN val = DOMAIN NewDict /\ val.count \in Nat
                  [] type = "zset" -> DOMAIN val = DOMAIN NewZSet /\ val.sl.length \in Nat

Values(l) == [i \in 1 .. l.len |-> l.node[Forward(l, i - 1)].value]

\* The two directions of a list agree after any order of pushes and pops at
\* both ends: walking back from the tail meets the same nodes, all of them.
ListIsLinked ==
    type = "list" /\ val # None =>
        /\ val.len = Cardinality(DOMAIN val.node)
        /\ \A i \in 0 .. val.len - 1 : Forward(val, i) = Backward(val, val.len - 1 - i)
        /\ {Forward(val, i) : i \in 0 .. val.len - 1} = DOMAIN val.node

Sound(d) ==
    /\ d.count = Len(Entries(d))
    /\ \A i \in DOMAIN d.buckets : \A e \in Range(d.buckets[i]) :
          Index(e.key, Len(d.buckets)) = i
    /\ \A i, j \in DOMAIN Entries(d) :
          Entries(d)[i].key = Entries(d)[j].key => i = j

\* Whatever grows a table and whatever collides in it, each key is in its own
\* bucket and once, and the count is right.
DictIsSound ==
    val # None => /\ type = "hash" => Sound(val)
                  /\ type = "zset" => Sound(val.ht)

\* On every level the skip list is a subsequence of the level below, without
\* a pointer to a freed node, and what is in no level has been freed: also
\* with NaN scores and strcmp-equal members, where the order means nothing.
LevelsNest ==
    type = "zset" /\ val # None =>
        LET sl == val.sl
            all == Chain(sl, 1)
        IN  /\ \A a \in DOMAIN sl.node :
                  Range(sl.node[a].forward) \subseteq DOMAIN sl.node \cup {Null}
            /\ DOMAIN sl.node = {0} \cup Range(all)
            /\ sl.length = Len(all)
            /\ \A i \in 1 .. MaxLevel :
                  /\ Range(Chain(sl, i)) =
                        {a \in Range(all) : i \in DOMAIN sl.node[a].forward}
                  /\ \A j, k \in DOMAIN Chain(sl, i) : \A p, q \in DOMAIN all :
                        Chain(sl, i)[j] = all[p] /\ Chain(sl, i)[k] = all[q] =>
                            (j < k <=> p < q)
            /\ sl.level > 1 => Chain(sl, sl.level) # << >>

Map(d, keys) == [k \in keys |-> DictGet(d, k)]
Abs(v) == IF v = None THEN None
          ELSE O!NewObj(type, CASE type = "list" -> Values(v)
                                [] type = "hash" -> Map(v, Fields)
                                [] type = "zset" -> Map(v.ht, Members))
Is(r, ref) == O!Result(Abs(r.val), r.reply) = ref
Here == Abs(val)

\* The last value a field has in pairs.
AsMap(pairs, keys) ==
    [k \in keys |-> LET at == {i \in DOMAIN pairs : pairs[i][1] = k}
                    IN  IF at = {} THEN None ELSE pairs[Max(at)][2]]

\* Every command leaves the value and gives the answer that Objects says, for
\* all its arguments, in every shape the nodes and buckets can have.
ListsAsObjects ==
    type = "list" =>
        /\ \A es \in Upto2(Elems) : /\ Is(LPush(es), O!LPushTo(Here, es))
                                    /\ Is(RPush(es), O!RPushTo(Here, es))
        /\ Is(LPop, O!LPopOf(Here)) /\ Is(RPop, O!RPopOf(Here))
        /\ Is(LLen, O!LLenOf(Here))
        /\ \A i, j \in Indices : Is(LRange(i, j), O!LRangeOf(Here, i, j, RangeMax))
        /\ \A i \in Indices : Is(LIndex(i), O!LIndexOf(Here, i))

\* The fields that are there.
Shown == IF val = None THEN {} ELSE O!Present(Here.val)

\* Likewise, in every shape of the table.  HGETALL and HKEYS show the same
\* fields, all of them or as many as their arrays hold.
HashesAsObjects ==
    type = "hash" =>
        /\ \A pairs \in Upto2(Fields \X Elems) :
              Is(HSet(pairs), O!HSetTo(Here, AsMap(pairs, Fields)))
        /\ \A fs \in Upto2(Fields) : Is(HDel(fs), O!HDelOf(Here, Range(fs)))
        /\ \A f \in Fields : Is(HGet(f), O!HGetOf(Here, f))
        /\ Is(HLen, O!HLenOf(Here))
        /\ \E T \in SUBSET Shown :
              /\ Cardinality(T) = Min({OutMax, Cardinality(Shown)})
              /\ HGetAll = Result(val, Listing(2 * Cardinality(T),
                                              {<<f, Here.val[f]>> : f \in T}))
              /\ HKeys = Result(val, Listing(Cardinality(T), T))

NoNul(z) == z # None => \A a \in DOMAIN z.sl.node \ {0} :
                              CStr[z.sl.node[a].member] = z.sl.node[a].member

\* As long as no score is NaN and no two members are strcmp-equal.
ZSetsAsObjects ==
    type = "zset" /\ ~odd =>
        /\ \A m \in Members, s \in Scores, lvl \in 1 .. MaxLevel :
              Twins(m) = {} => Is(ZAdd(m, s, lvl), O!ZAddTo(Here, AsMap(<<<<m, s>>>>, Members)))
        /\ \A ms \in Upto2(Members) : Is(ZRem(ms), O!ZRemOf(Here, Range(ms)))
        /\ \A m \in Members : Is(ZScore(m), O!ZScoreOf(Here, m))
        /\ \A m \in Members : Twins(m) = {} => Is(ZRank(m), O!ZRankOf(Here, m))
        /\ \A i, j \in Indices :
              NoNul(val) => Is(ZRange(i, j), O!ZRangeOf(Here, i, j, FALSE))
        /\ Is(ZCard, O!ZCardOf(Here))
=============================================================================
