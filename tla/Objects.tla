------------------------------ MODULE Objects ------------------------------
(***************************************************************************)
(* The values stored under a key and what each command does to ONE value.  *)
(*                                                                         *)
(* An object is struct Obj of object.h: a type tag, a deadline in          *)
(* milliseconds (0 means "no TTL") and the union's live member.  Nil is    *)
(* the null pointer dict_get returns for a missing key.                    *)
(*                                                                         *)
(* Every command operator takes the object the handler looked up (Nil if   *)
(* there was none) and returns [obj, reply]: the object the key holds when *)
(* the handler returns (Nil: the key is gone) and the reply.  How the      *)
(* handlers find their object, and with what expiry check, is Keyspace.    *)
(*                                                                         *)
(* Data abstraction.  A string is the length of its text and the number    *)
(* strtoll reads from ALL of it (NotNum when strtoll stops early); list    *)
(* elements, hash fields and values and zset members are opaque names;     *)
(* scores are integers.  Texts that are not numbers contain a character no *)
(* number may contain, so nothing appended to them makes them one.         *)
(***************************************************************************)
EXTENDS Integers, FiniteSets, SequencesExt, Replies

CONSTANTS
    Nil,            \* the null Obj*
    NotNum,         \* what strtoll says of a text with trailing garbage
    LLMin, LLMax,   \* the range of long long
    Elems,          \* values pushed on lists and stored in hashes
    Fields,         \* hash fields
    Members,        \* zset members
    Scores,         \* zset scores
    StrcmpRank,     \* the place of each member in strcmp order
    OutMax          \* size of the on-stack arrays of HGETALL, ZRANGE (4096)

ASSUME LLRange == /\ LLMin \in Int /\ LLMax \in Int
                  /\ LLMin < 0 /\ 0 < LLMax
ASSUME ScoresAreInts == Scores \subseteq Int
ASSUME StrcmpIsTotal == /\ StrcmpRank \in [Members -> Nat]
                        /\ \A m, n \in Members :
                              StrcmpRank[m] = StrcmpRank[n] => m = n
ASSUME OutMaxIsNat == OutMax \in Nat
ASSUME NilIsNoData == Nil \notin Elems \cup Scores
ASSUME NotNumIsNoNumber == NotNum \notin Int

-----------------------------------------------------------------------------
(* Strings *)

Str == [len : Nat, num : Int \cup {NotNum}]

\* The text snprintf("%lld") makes of n (of at most ten digits).
Digits(n) == Cardinality({i \in 1..9 : 10^i <= n}) + 1
Decimal(n) == [len |-> IF n < 0 THEN 1 + Digits(-n) ELSE Digits(n), num |-> n]

\* sds_append: digits after a number make a longer number, a sign does not.
Concat(s, t) ==
    CASE s.len = 0 -> t
      [] s.len # 0 /\ t.len = 0 -> s
      [] OTHER ->
           [len |-> s.len + t.len,
            num |-> IF s.num = NotNum \/ t.num = NotNum THEN NotNum
                    ELSE IF t.num < 0 THEN NotNum
                    ELSE IF s.num < 0 THEN s.num * 10^t.len - t.num
                    ELSE s.num * 10^t.len + t.num]

\* strtoll saturates; adding two long longs wraps around.
Clamp(n) == IF n > LLMax THEN LLMax ELSE IF n < LLMin THEN LLMin ELSE n
Wrap(n)  == LLMin + ((n - LLMin) % (LLMax - LLMin + 1))

-----------------------------------------------------------------------------
(* Objects and replies *)

Hashes == [Fields -> Elems \cup {Nil}]      \* Nil: the field is absent
ZSets  == [Members -> Scores \cup {Nil}]    \* Nil: the member is absent

Objs == [type : {"string"}, val : [{1} -> Str],   exp : Int]
   \cup [type : {"list"},   val : Seq(Elems),     exp : Int]
   \cup [type : {"hash"},   val : Hashes,         exp : Int]
   \cup [type : {"zset"},   val : ZSets,          exp : Int]

ASSUME NilIsNoObj == Nil \notin Objs

\* Obj::Obj: a new object has no TTL.
NewObj(type, val) == [type |-> type, val |-> val, exp |-> 0]
StrObj(s)  == NewObj("string", [i \in {1} |-> s])
EmptyList  == NewObj("list", << >>)
EmptyHash  == NewObj("hash", [f \in Fields |-> Nil])
\* BUG: a new zset carries the tag of a hash.
EmptyZSetAsHash == NewObj("hash", [m \in Members |-> Nil])
EmptyZSet  == NewObj("zset", [m \in Members |-> Nil])

Present(h) == {x \in DOMAIN h : h[x] # Nil}

\* check_expiry's test: at its deadline a key is already expired.
Expired(o, now) == o # Nil /\ o.exp # 0 /\ o.exp <= now
Purge(o, now)   == IF Expired(o, now) THEN Nil ELSE o

Result(o, r) == [obj |-> o, reply |-> r]

\* The two shapes of the handlers' type test.  Strict handlers answer
\* WRONGTYPE; lenient ones answer as if the key were missing.
Strict(o, type, missing, found) ==
    IF o = Nil THEN missing
    ELSE IF o.type # type THEN Result(o, WrongType) ELSE found
Lenient(o, type, missing, found) ==
    IF o # Nil /\ o.type = type THEN found ELSE missing

\* get_or_create_list, _hash and _zset.
GetOrCreate(o, new) == IF o = Nil THEN new ELSE o
-----------------------------------------------------------------------------
(* Commands on any type *)

\* SET does not look the key up: dict_set frees whatever was there.
SetTo(s) == Result(StrObj(s), OK)

TypeOf(o) == Result(o, Simple(IF o = Nil THEN "none" ELSE o.type))

\* The deadline is set on whatever object is found, expired or not.
ExpireAt(o, deadline) ==
    IF o = Nil THEN Result(o, Integer(0))
    ELSE Result([o EXCEPT !.exp = deadline], Integer(1))

PersistOf(o) ==
    IF o = Nil THEN Result(o, Integer(0))
    ELSE IF o.exp = 0 THEN Result(o, Integer(0))
    ELSE Result([o EXCEPT !.exp = 0], Integer(1))

\* TTL has its own expiry test; it rounds up to whole seconds.
TtlOf(o, now, secMs) ==
    IF o = Nil THEN Result(o, Integer(-2))
    ELSE IF o.exp = 0 THEN Result(o, Integer(-1))
    ELSE IF o.exp - now <= 0 THEN Result(Nil, Integer(-2))
    ELSE Result(o, Integer((o.exp - now + secMs - 1) \div secMs))

-----------------------------------------------------------------------------
(* Strings *)

GetOf(o) ==
    Strict(o, "string", Result(o, NullBulk), Result(o, Bulk(o.val[1])))

SetNxTo(o, s) ==
    IF o # Nil THEN Result(o, Integer(0)) ELSE Result(StrObj(s), Integer(1))

\* BUG: the longer text goes into a new object, without the old deadline.
AppendToNewObj(o, s) ==
    Strict(o, "string", Result(StrObj(s), Integer(s.len)),
           LET t == Concat(o.val[1], s) IN Result(StrObj(t), Integer(t.len)))

AppendTo(o, s) ==
    Strict(o, "string", Result(StrObj(s), Integer(s.len)),
           LET t == Concat(o.val[1], s)
           IN  Result([o EXCEPT !.val = [i \in {1} |-> t]], Integer(t.len)))

StrlenOf(o) ==
    Strict(o, "string", Result(o, Integer(0)), Result(o, Integer(o.val[1].len)))

\* BUG: the old text is freed before strtoll's end pointer is looked at.
IncrByFreesFirst(o, delta) ==
    Strict(o, "string", Result(StrObj(Decimal(delta)), Integer(delta)),
           LET n == IF o.val[1].num = NotNum THEN delta
                    ELSE Wrap(Clamp(o.val[1].num) + delta)
           IN  Result([o EXCEPT !.val = [i \in {1} |-> Decimal(n)]],
                      IF o.val[1].num = NotNum THEN NotInteger ELSE Integer(n)))

\* do_incr: the new text replaces the old one in place, the object stays.
IncrBy(o, delta) ==
    Strict(o, "string", Result(StrObj(Decimal(delta)), Integer(delta)),
           IF o.val[1].num = NotNum THEN Result(o, NotInteger)
           ELSE LET n == Wrap(Clamp(o.val[1].num) + delta)
                IN  Result([o EXCEPT !.val = [i \in {1} |-> Decimal(n)]],
                           Integer(n)))

-----------------------------------------------------------------------------
(* Lists *)

LPushTo(o, es) ==
    LET l == GetOrCreate(o, EmptyList)
    IN  Strict(l, "list", Result(l, NullBulk),
               Result([l EXCEPT !.val = Reverse(es) \o @],
                      Integer(Len(l.val) + Len(es))))

RPushTo(o, es) ==
    LET l == GetOrCreate(o, EmptyList)
    IN  Strict(l, "list", Result(l, NullBulk),
               Result([l EXCEPT !.val = @ \o es], Integer(Len(l.val) + Len(es))))

\* BUG: the key stays when its list has become empty.
LPopKeepsKey(o) ==
    Lenient(o, "list", Result(o, NullBulk),
            IF o.val = << >> THEN Result(o, NullBulk)
            ELSE Result([o EXCEPT !.val = Tail(@)], Bulk(Head(o.val))))

\* A pop that empties the list deletes the key.
LPopOf(o) ==
    Lenient(o, "list", Result(o, NullBulk),
            IF o.val = << >> THEN Result(o, NullBulk)
            ELSE Result(IF Len(o.val) = 1 THEN Nil
                        ELSE [o EXCEPT !.val = Tail(@)],
                        Bulk(Head(o.val))))

RPopOf(o) ==
    Lenient(o, "list", Result(o, NullBulk),
            IF o.val = << >> THEN Result(o, NullBulk)
            ELSE Result(IF Len(o.val) = 1 THEN Nil
                        ELSE [o EXCEPT !.val = Front(@)],
                        Bulk(Last(o.val))))

LLenOf(o) ==
    Strict(o, "list", Result(o, Integer(0)), Result(o, Integer(Len(o.val))))

\* Indices count from 0, negative ones from the end.
NormalizeIndex(i, len) == IF i < 0 THEN len + i ELSE i

\* Ranks start..end (inclusive) of a sequence, at most max of them.
RangeByRank(seq, start, end, max) ==
    LET s == IF NormalizeIndex(start, Len(seq)) < 0 THEN 0
             ELSE NormalizeIndex(start, Len(seq))
        e == IF NormalizeIndex(end, Len(seq)) >= Len(seq) THEN Len(seq) - 1
             ELSE NormalizeIndex(end, Len(seq))
    IN  IF s > e THEN << >>
        ELSE SubSeq(seq, s + 1, IF e - s + 1 > max THEN s + max ELSE e + 1)

LRangeOf(o, start, end, max) ==
    LET out == RangeByRank(o.val, start, end, max)
    IN  Strict(o, "list", Result(o, Array(0, << >>)),
               Result(o, Array(Len(out), out)))

LIndexOf(o, i) ==
    Lenient(o, "list", Result(o, NullBulk),
            LET n == NormalizeIndex(i, Len(o.val))
            IN  IF n \in 0 .. Len(o.val) - 1 THEN Result(o, Bulk(o.val[n + 1]))
                ELSE Result(o, NullBulk))

-----------------------------------------------------------------------------
(* Hashes.  The pairs of one HSET are a map: of a field given twice the    *)
(* last value stays and it counts as new once.                             *)

HSetTo(o, pairs) ==
    LET h == GetOrCreate(o, EmptyHash)
    IN  Strict(h, "hash", Result(h, NullBulk),
               Result([h EXCEPT !.val =
                          [f \in Fields |-> IF pairs[f] # Nil THEN pairs[f]
                                            ELSE h.val[f]]],
                      Integer(Cardinality(Present(pairs) \ Present(h.val)))))

HGetOf(o, f) ==
    Lenient(o, "hash", Result(o, NullBulk),
            Result(o, IF o.val[f] = Nil THEN NullBulk ELSE Bulk(o.val[f])))

\* A hash that loses its last field stays, empty.
HDelOf(o, fs) ==
    Lenient(o, "hash", Result(o, Integer(0)),
            Result([o EXCEPT !.val =
                       [f \in Fields |-> IF f \in fs THEN Nil ELSE o.val[f]]],
                   Integer(Cardinality(fs \cap Present(o.val)))))

HExistsOf(o, f) ==
    Lenient(o, "hash", Result(o, Integer(0)),
            Result(o, Integer(IF o.val[f] = Nil THEN 0 ELSE 1)))

HLenOf(o) ==
    Lenient(o, "hash", Result(o, Integer(0)),
            Result(o, Integer(Cardinality(Present(o.val)))))

\* htable_getall: dict_each stops when the caller's arrays are full.
Shown(h) ==
    CHOOSE T \in SUBSET Present(h) :
        Cardinality(T) = IF Cardinality(Present(h)) > OutMax THEN OutMax
                         ELSE Cardinality(Present(h))

HGetAllOf(o) ==
    Lenient(o, "hash", Result(o, Listing(0, {})),
            Result(o, Listing(2 * Cardinality(Shown(o.val)),
                              {<<f, o.val[f]>> : f \in Shown(o.val)})))

HKeysOf(o) ==
    Lenient(o, "hash", Result(o, Listing(0, {})),
            Result(o, Listing(Cardinality(Shown(o.val)), Shown(o.val))))

\* The values as a bag: each with its number of occurrences.
HValsOf(o) ==
    Lenient(o, "hash", Result(o, Listing(0, {})),
            Result(o, Listing(Cardinality(Shown(o.val)),
                {<<o.val[f], Cardinality({g \in Shown(o.val) :
                                             o.val[g] = o.val[f]})>> :
                    f \in Shown(o.val)})))

-----------------------------------------------------------------------------
(* Sorted sets: the member -> score map; the skip list's order is by score *)
(* and then by strcmp.                                                     *)

Precedes(z, m, n) == \/ z[m] < z[n]
                     \/ z[m] = z[n] /\ StrcmpRank[m] < StrcmpRank[n]

\* How many members come before m.
RankOf(z, m) == Cardinality({n \in Present(z) : Precedes(z, n, m)})

\* The members, each at its rank.
InOrder(z) == [i \in 1 .. Cardinality(Present(z)) |->
                  CHOOSE m \in Present(z) : RankOf(z, m) = i - 1]

\* zset_add returns true for every pair: updates count as additions.
ZAddTo(o, pairs) ==
    LET z == GetOrCreate(o, EmptyZSet)
    IN  Strict(z, "zset", Result(z, NullBulk),
               Result([z EXCEPT !.val =
                          [m \in Members |-> IF pairs[m] # Nil THEN pairs[m]
                                             ELSE z.val[m]]],
                      Integer(Cardinality(Present(pairs)))))

ZScoreOf(o, m) ==
    Lenient(o, "zset", Result(o, NullBulk),
            Result(o, IF o.val[m] = Nil THEN NullBulk
                      ELSE Bulk(Decimal(o.val[m]))))

\* WITHSCORES doubles the header and sends each score after its member.
ZRangeOf(o, start, end, withscores) ==
    Lenient(o, "zset", Result(o, Array(0, << >>)),
            LET out == RangeByRank(InOrder(o.val), start, end, OutMax)
            IN  Result(o, Array(IF withscores THEN 2 * Len(out) ELSE Len(out),
                                out)))

ZRankOf(o, m) ==
    Lenient(o, "zset", Result(o, NullBulk),
            IF o.val[m] = Nil THEN Result(o, NullBulk)
            ELSE Result(o, Integer(RankOf(o.val, m))))

ZCardOf(o) ==
    Lenient(o, "zset", Result(o, Integer(0)),
            Result(o, Integer(Cardinality(Present(o.val)))))

\* A zset that loses its last member stays, empty.
ZRemOf(o, ms) ==
    Lenient(o, "zset", Result(o, Integer(0)),
            Result([o EXCEPT !.val =
                       [m \in Members |-> IF m \in ms THEN Nil ELSE o.val[m]]],
                   Integer(Cardinality(ms \cap Present(o.val)))))
=============================================================================
