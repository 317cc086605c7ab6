-------------------------- MODULE LazyExpiryProofs --------------------------
(***************************************************************************)
(* Proofs about the keyspace and its lazy expiry, for every set of keys,   *)
(* inputs and bounds.                                                      *)
(*                                                                         *)
(* A command operator of Objects is well behaved on object o when its      *)
(* result satisfies Good(result, o): the new object is an object again, no *)
(* empty list, and its deadline is either none or the one o had.  So a     *)
(* live object stays live, which makes the lazy step a step of the eager   *)
(* map.  The file goes from the operators (KeepGood ... ZSetGood) through  *)
(* one key's step (RespondStep) to the actions and the specification.      *)
(*                                                                         *)
(* The second part is about what the handlers may not do to an object:     *)
(* lose the deadline of a live key, or change anything before answering an *)
(* error.  A command operator is gentle on object o when its result keeps  *)
(* o's type and deadline, unless the key is gone (Steady), and is o itself *)
(* when the answer is an error (Honest).  All are gentle but SET, EXPIRE   *)
(* and PERSIST, which are honest.                                          *)
(*                                                                         *)
(* The third is about KEYS: the recursion of GlobMatch goes over the       *)
(* pattern from its end (MatchingExists), and each place it says yes to is *)
(* a way to cut the name into pieces, and the other way round, unless the  *)
(* pattern ends in two stars (MatchedCanBeCut, CutIsMatched).              *)
(***************************************************************************)
EXTENDS LazyExpiry, SequenceLemmas

NonEmpty(o) == o # Nil /\ o.type = "list" => o.val # << >>

Sane(o) == o \in Objs \cup {Nil} /\ NonEmpty(o)

Good(r, o) ==
    /\ r = Result(r.obj, r.reply)
    /\ Sane(r.obj)
    /\ r.obj # Nil => r.obj.exp = 0 \/ (o # Nil /\ r.obj.exp = o.exp)

-----------------------------------------------------------------------------
(* The shapes of a result *)

\* Answering without touching the object is well behaved.
LEMMA KeepGood == ASSUME NEW o, Sane(o), NEW rep PROVE Good(Result(o, rep), o)
  BY DEF Good, Result

\* So is leaving the key deleted.
LEMMA GoneGood == ASSUME NEW o, NEW rep PROVE Good(Result(Nil, rep), o)
  BY DEF Good, Result, Sane, NonEmpty

\* The type test of the strict and of the lenient handlers.
LEMMA StrictGood ==
    ASSUME NEW o, NEW type, NEW missing, NEW found, Sane(o),
           o = Nil => Good(missing, o),
           o # Nil /\ o.type = type => Good(found, o)
    PROVE  Good(Strict(o, type, missing, found), o)
  BY KeepGood DEF Strict

\* Likewise, with the answer for a missing key instead of WRONGTYPE.
LEMMA LenientGood ==
    ASSUME NEW o, NEW type, NEW missing, NEW found,
           Good(missing, o),
           o # Nil /\ o.type = type => Good(found, o)
    PROVE  Good(Lenient(o, type, missing, found), o)
  BY DEF Lenient

\* An object with its value replaced by another of the same type.
LEMMA NewValue ==
    ASSUME NEW o \in Objs, NEW v, NEW rep,
           \/ o.type = "string" /\ v \in [{1} -> Str]
           \/ o.type = "list" /\ v \in Seq(Elems) /\ v # << >>
           \/ o.type = "hash" /\ v \in Hashes
           \/ o.type = "zset" /\ v \in ZSets
    PROVE  o # Nil => Good(Result([o EXCEPT !.val = v], rep), o)
  <1>1. [o EXCEPT !.val = v] = [type |-> o.type, val |-> v, exp |-> o.exp]
    BY DEF Objs
  <1>2. [o EXCEPT !.val = v] \in Objs
    BY <1>1 DEF Objs
  <1> QED
    BY <1>1, <1>2 DEF Good, Result, Sane, NonEmpty

\* A new object, without a deadline.
LEMMA NewObject ==
    ASSUME NEW o, NEW v, NEW type, NEW rep,
           \/ type = "string" /\ v \in [{1} -> Str]
           \/ type = "list" /\ v \in Seq(Elems) /\ v # << >>
           \/ type = "hash" /\ v \in Hashes
           \/ type = "zset" /\ v \in ZSets
    PROVE  Good(Result(NewObj(type, v), rep), o)
  <1>1. NewObj(type, v) \in Objs
    BY DEF Objs, NewObj
  <1>2. NewObj(type, v).exp = 0 /\ NewObj(type, v).val = v
        /\ NewObj(type, v).type = type
    BY DEF NewObj
  <1> QED
    BY <1>1, <1>2 DEF Good, Result, Sane, NonEmpty

\* A new object is not the null pointer.
LEMMA NewObjNotNil ==
    /\ EmptyList # Nil /\ EmptyList.type = "list" /\ EmptyList.val = << >>
    /\ EmptyHash # Nil /\ EmptyHash.type = "hash"
    /\ EmptyZSet # Nil /\ EmptyZSet.type = "zset"
  <1>1. EmptyList \in Objs
    BY DEF EmptyList, NewObj, Objs
  <1>2. EmptyHash \in Objs
    BY DEF EmptyHash, NewObj, Objs, Hashes
  <1>3. EmptyZSet \in Objs
    BY DEF EmptyZSet, NewObj, Objs, ZSets
  <1> QED
    BY <1>1, <1>2, <1>3, NilIsNoObj DEF EmptyList, EmptyHash, EmptyZSet, NewObj

\* What the type tag says of the value.
LEMMA ValueOfType ==
    ASSUME NEW o \in Objs
    PROVE  /\ o.type = "string" => o.val \in [{1} -> Str] /\ o.val[1] \in Str
           /\ o.type = "list" => o.val \in Seq(Elems)
           /\ o.type = "hash" => o.val \in Hashes
           /\ o.type = "zset" => o.val \in ZSets
           /\ o.exp \in Int
  BY DEF Objs

-----------------------------------------------------------------------------
(* Strings *)

\* The arithmetic of long long stays among the integers.
LEMMA NumbersAreInts ==
    ASSUME NEW n \in Int
    PROVE  Wrap(n) \in Int /\ Clamp(n) \in Int
  BY LLRange DEF Wrap, Clamp

\* The text INCR writes is a string.
LEMMA DecimalIsStr == ASSUME NEW n \in Int PROVE Decimal(n) \in Str
  <1>1. ASSUME NEW m \in Int PROVE Digits(m) \in Nat
    <2>1. 1 \in Int /\ 9 \in Int
      OBVIOUS
    <2>2. IsFiniteSet(1..9)
      BY <2>1, FS_Interval, Zenon
    <2>3. {i \in 1..9 : 10^i <= m} \in SUBSET (1..9)
      OBVIOUS
    <2>4. Cardinality({i \in 1..9 : 10^i <= m}) \in Nat
      BY <2>2, <2>3, FS_Subset, FS_CardinalityType
    <2> QED
      BY <2>4 DEF Digits
  <1>2. Digits(n) \in Nat /\ Digits(-n) \in Nat
    BY <1>1
  <1> QED
    BY <1>2 DEF Decimal, Str

\* The text APPEND makes is a string.
LEMMA ConcatIsStr ==
    ASSUME NEW s \in Str, NEW t \in Str PROVE Concat(s, t) \in Str
  <1>1. s.len \in Nat /\ t.len \in Nat
        /\ s.num \in Int \cup {NotNum} /\ t.num \in Int \cup {NotNum}
    BY DEF Str
  <1>2. 10^t.len \in Int
    BY <1>1
  <1>3. ASSUME s.num # NotNum, t.num # NotNum
        PROVE  s.num * 10^t.len - t.num \in Int
               /\ s.num * 10^t.len + t.num \in Int
    BY <1>1, <1>2, <1>3
  <1>4. s.len + t.len \in Nat
    BY <1>1
  <1> QED
    BY <1>1, <1>3, <1>4 DEF Concat, Str

\* A string object, new or with its text replaced.
LEMMA StringValue ==
    ASSUME NEW o, Sane(o), NEW t \in Str, NEW rep
    PROVE  /\ Good(Result(StrObj(t), rep), o)
           /\ o # Nil /\ o.type = "string" =>
                Good(Result([o EXCEPT !.val = [i \in {1} |-> t]], rep), o)
  <1>1. [i \in {1} |-> t] \in [{1} -> Str]
    OBVIOUS
  <1> QED
    BY <1>1, NewObject, NewValue DEF StrObj, Sane

\* GET and STRLEN are well behaved.
LEMMA StringReadGood ==
    ASSUME NEW o, Sane(o)
    PROVE  Good(GetOf(o), o) /\ Good(StrlenOf(o), o)
  BY KeepGood, StrictGood DEF GetOf, StrlenOf

\* SET, SETNX and APPEND are well behaved.
LEMMA StringWriteGood ==
    ASSUME NEW o, Sane(o), NEW s \in Str
    PROVE  /\ Good(SetTo(s), o)
           /\ Good(SetNxTo(o, s), o)
           /\ Good(AppendTo(o, s), o)
  <1>1. o # Nil /\ o.type = "string" => o.val[1] \in Str
    BY ValueOfType DEF Sane
  <1>2. Good(SetTo(s), o) /\ Good(SetNxTo(o, s), o)
    BY StringValue, KeepGood DEF SetTo, SetNxTo
  <1>3. Good(AppendTo(o, s), o)
    BY <1>1, StringValue, ConcatIsStr, StrictGood DEF AppendTo
  <1> QED
    BY <1>2, <1>3

\* INCR and its kin are well behaved, whatever the text was.
LEMMA IncrGood ==
    ASSUME NEW o, Sane(o), NEW d \in Int
    PROVE  Good(IncrBy(o, d), o)
  <1> DEFINE n == Wrap(Clamp(o.val[1].num) + d)
  <1>1. Decimal(d) \in Str
    BY DecimalIsStr
  <1>2. ASSUME o # Nil, o.type = "string", o.val[1].num # NotNum
        PROVE  Decimal(n) \in Str
    <2>1. o.val[1] \in Str
      BY <1>2, ValueOfType DEF Sane
    <2>2. o.val[1].num \in Int
      BY <1>2, <2>1 DEF Str
    <2>3. n \in Int
      BY <2>2, NumbersAreInts
    <2> QED
      BY <2>3, DecimalIsStr
  <1> HIDE DEF n
  <1>3. ASSUME o # Nil, o.type = "string"
        PROVE  Good(IF o.val[1].num = NotNum THEN Result(o, NotInteger)
                    ELSE Result([o EXCEPT !.val = [i \in {1} |-> Decimal(n)]],
                                Integer(n)), o)
    BY <1>2, <1>3, StringValue, KeepGood
  <1> QED
    BY <1>1, <1>3, StringValue, StrictGood DEF IncrBy, n

-----------------------------------------------------------------------------
(* Lists *)

\* A list of two elements or more is not empty without one of its ends.
LEMMA AtLeastTwo ==
    ASSUME NEW S, NEW v \in Seq(S), v # << >>, Len(v) # 1
    PROVE  Len(v) \in Nat /\ Len(v) >= 2
  <1>1. Len(v) \in Nat /\ Len(v) # 0
    OBVIOUS
  <1>2. \A n \in Nat : n # 0 /\ n # 1 => n >= 2
    OBVIOUS
  <1> QED
    BY <1>1, <1>2, Zenon

\* Either end cut off a list leaves a list.
LEMMA ShorterByOne ==
    ASSUME NEW S, NEW v \in Seq(S), v # << >>, Len(v) # 1
    PROVE  /\ Tail(v) \in Seq(S) /\ Tail(v) # << >>
           /\ Front(v) \in Seq(S) /\ Front(v) # << >>
  <1>1. Len(Tail(v)) = Len(v) - 1 /\ Tail(v) \in Seq(S)
    BY AtLeastTwo
  <1>2. Len(Front(v)) = Len(v) - 1 /\ Front(v) \in Seq(S)
    BY AtLeastTwo DEF Front
  <1>3. Len(Tail(v)) # 0 /\ Len(Front(v)) # 0
    BY <1>1, <1>2, AtLeastTwo
  <1>4. Len(<< >>) = 0
    OBVIOUS
  <1> QED
    BY <1>1, <1>2, <1>3, <1>4

\* LLEN, LRANGE and LINDEX are well behaved.
LEMMA ListReadGood ==
    ASSUME NEW o, Sane(o), NEW i, NEW j, NEW max
    PROVE  /\ Good(LLenOf(o), o)
           /\ Good(LRangeOf(o, i, j, max), o)
           /\ Good(LIndexOf(o, i), o)
  <1>1. Good(LLenOf(o), o) /\ Good(LRangeOf(o, i, j, max), o)
    BY KeepGood, StrictGood DEF LLenOf, LRangeOf
  <1>2. Good(LIndexOf(o, i), o)
    BY KeepGood, LenientGood DEF LIndexOf
  <1> QED
    BY <1>1, <1>2

\* LPUSH and RPUSH are well behaved: they create a list only to fill it.
LEMMA PushGood ==
    ASSUME NEW o, Sane(o), NEW es \in Seq(Elems), es # << >>
    PROVE  /\ Good(LPushTo(o, es), o)
           /\ Good(RPushTo(o, es), o)
  <1>1. o # Nil /\ o.type = "list" => o.val \in Seq(Elems)
    BY ValueOfType DEF Sane
  <1>2. Reverse(es) \in Seq(Elems) /\ Reverse(es) # << >>
    <2>1. Len(es) \in Nat /\ Len(es) # 0
      OBVIOUS
    <2>2. Reverse(es) = [x \in 1..Len(es) |-> es[Len(es) - x + 1]]
      BY DEF Reverse
    <2>3. \A x \in 1..Len(es) : es[Len(es) - x + 1] \in Elems
      BY <2>1
    <2> QED
      BY <2>1, <2>2, <2>3
  <1>3. ASSUME NEW v \in Seq(Elems), v # << >>, NEW rep
        PROVE  /\ Good(Result([EmptyList EXCEPT !.val = v], rep), o)
               /\ o # Nil /\ o.type = "list" =>
                    Good(Result([o EXCEPT !.val = v], rep), o)
    <2>1. [EmptyList EXCEPT !.val = v] = NewObj("list", v)
      BY DEF EmptyList, NewObj
    <2> QED
      BY <1>3, <2>1, NewObject, NewValue DEF Sane
  <1>4. Good(LPushTo(o, es), o) /\ Good(RPushTo(o, es), o)
    <2>1. CASE o = Nil
      <3>1. Reverse(es) \o EmptyList.val \in Seq(Elems) /\ Reverse(es) \o EmptyList.val # << >>
        BY <1>2, NewObjNotNil
      <3>2. EmptyList.val \o es \in Seq(Elems) /\ EmptyList.val \o es # << >>
        BY NewObjNotNil
      <3> QED
        BY <2>1, <1>3, <3>1, <3>2, NewObjNotNil DEF LPushTo, RPushTo, GetOrCreate, Strict
    <2>2. CASE o # Nil /\ o.type = "list"
      <3>1. Reverse(es) \o o.val \in Seq(Elems) /\ Reverse(es) \o o.val # << >>
        BY <1>1, <1>2, <2>2
      <3>2. o.val \o es \in Seq(Elems) /\ o.val \o es # << >>
        BY <1>1, <2>2
      <3> QED
        BY <2>2, <1>3, <3>1, <3>2 DEF LPushTo, RPushTo, GetOrCreate, Strict
    <2>3. CASE o # Nil /\ o.type # "list"
      BY <2>3, KeepGood DEF LPushTo, RPushTo, GetOrCreate, Strict
    <2> QED
      BY <2>1, <2>2, <2>3
  <1> QED
    BY <1>4

\* LPOP and RPOP are well behaved: the emptied list goes with its key.
LEMMA PopGood ==
    ASSUME NEW o, Sane(o)
    PROVE  Good(LPopOf(o), o) /\ Good(RPopOf(o), o)
  <1>1. CASE o # Nil /\ o.type = "list" /\ o.val # << >> /\ Len(o.val) # 1
    <2>1. /\ Tail(o.val) \in Seq(Elems) /\ Tail(o.val) # << >>
          /\ Front(o.val) \in Seq(Elems) /\ Front(o.val) # << >>
      BY <1>1, ValueOfType, ShorterByOne DEF Sane
    <2> QED
      BY <1>1, <2>1, NewValue DEF LPopOf, RPopOf, Lenient, Sane
  <1>2. CASE o # Nil /\ o.type = "list" /\ Len(o.val) = 1
    BY <1>2, KeepGood, GoneGood DEF LPopOf, RPopOf, Lenient
  <1>3. CASE ~(o # Nil /\ o.type = "list") \/ o.val = << >>
    BY <1>3, KeepGood DEF LPopOf, RPopOf, Lenient
  <1> QED
    BY <1>1, <1>2, <1>3

-----------------------------------------------------------------------------
(* Hashes and sorted sets *)

\* A hash object, new or with its map replaced.
LEMMA HashValue ==
    ASSUME NEW o, Sane(o), NEW v \in Hashes, NEW rep
    PROVE  /\ Good(Result([EmptyHash EXCEPT !.val = v], rep), o)
           /\ o # Nil /\ o.type = "hash" =>
                Good(Result([o EXCEPT !.val = v], rep), o)
  <1>1. [EmptyHash EXCEPT !.val = v] = NewObj("hash", v)
    BY DEF EmptyHash, NewObj
  <1> QED
    BY <1>1, NewObject, NewValue DEF Sane

\* HSET is well behaved.
LEMMA HashWriteGood ==
    ASSUME NEW o, Sane(o), NEW p \in Hashes
    PROVE  Good(HSetTo(o, p), o)
  <1>1. CASE o = Nil
    <2>1. [g \in Fields |-> IF p[g] # Nil THEN p[g] ELSE EmptyHash.val[g]]
             \in Hashes
      BY DEF Hashes, EmptyHash, NewObj
    <2> QED
      BY <1>1, <2>1, HashValue, NewObjNotNil DEF HSetTo, GetOrCreate, Strict
  <1>2. CASE o # Nil /\ o.type = "hash"
    <2>1. [g \in Fields |-> IF p[g] # Nil THEN p[g] ELSE o.val[g]] \in Hashes
      BY <1>2, ValueOfType DEF Hashes, Sane
    <2> QED
      BY <1>2, <2>1, HashValue DEF HSetTo, GetOrCreate, Strict
  <1>3. CASE o # Nil /\ o.type # "hash"
    BY <1>3, KeepGood DEF HSetTo, GetOrCreate, Strict
  <1> QED
    BY <1>1, <1>2, <1>3

\* HDEL is well behaved.
LEMMA HashDelGood ==
    ASSUME NEW o, Sane(o), NEW fs
    PROVE  Good(HDelOf(o, fs), o)
  <1>1. ASSUME o # Nil, o.type = "hash"
        PROVE  [g \in Fields |-> IF g \in fs THEN Nil ELSE o.val[g]] \in Hashes
    BY <1>1, ValueOfType DEF Hashes, Sane
  <1> QED
    BY <1>1, HashValue, KeepGood, LenientGood DEF HDelOf

\* The commands that only look at a hash or a zset are well behaved.
LEMMA ReadGood ==
    ASSUME NEW o, Sane(o), NEW x, NEW i, NEW j, NEW ws
    PROVE  /\ Good(HGetOf(o, x), o)
           /\ Good(HExistsOf(o, x), o)
           /\ Good(HLenOf(o), o)
           /\ Good(HGetAllOf(o), o)
           /\ Good(HKeysOf(o), o)
           /\ Good(HValsOf(o), o)
           /\ Good(ZCardOf(o), o)
           /\ Good(ZScoreOf(o, x), o)
           /\ Good(ZRankOf(o, x), o)
           /\ Good(ZRangeOf(o, i, j, ws), o)
           /\ Good(TypeOf(o), o)
  BY KeepGood, LenientGood
     DEF HGetOf, HExistsOf, HLenOf, HGetAllOf, HKeysOf, HValsOf, ZCardOf,
         ZScoreOf, ZRankOf, ZRangeOf, TypeOf

\* A zset object, new or with its map replaced.
LEMMA ZSetValue ==
    ASSUME NEW o, Sane(o), NEW v \in ZSets, NEW rep
    PROVE  /\ Good(Result([EmptyZSet EXCEPT !.val = v], rep), o)
           /\ o # Nil /\ o.type = "zset" =>
                Good(Result([o EXCEPT !.val = v], rep), o)
  <1>1. [EmptyZSet EXCEPT !.val = v] = NewObj("zset", v)
    BY DEF EmptyZSet, NewObj
  <1> QED
    BY <1>1, NewObject, NewValue DEF Sane

\* ZADD is well behaved.
LEMMA ZSetWriteGood ==
    ASSUME NEW o, Sane(o), NEW p \in ZSets
    PROVE  Good(ZAddTo(o, p), o)
  <1>1. CASE o = Nil
    <2>1. [n \in Members |-> IF p[n] # Nil THEN p[n] ELSE EmptyZSet.val[n]]
             \in ZSets
      BY DEF ZSets, EmptyZSet, NewObj
    <2> QED
      BY <1>1, <2>1, ZSetValue, NewObjNotNil DEF ZAddTo, GetOrCreate, Strict
  <1>2. CASE o # Nil /\ o.type = "zset"
    <2>1. [n \in Members |-> IF p[n] # Nil THEN p[n] ELSE o.val[n]] \in ZSets
      BY <1>2, ValueOfType DEF ZSets, Sane
    <2> QED
      BY <1>2, <2>1, ZSetValue DEF ZAddTo, GetOrCreate, Strict
  <1>3. CASE o # Nil /\ o.type # "zset"
    BY <1>3, KeepGood DEF ZAddTo, GetOrCreate, Strict
  <1> QED
    BY <1>1, <1>2, <1>3

\* ZREM is well behaved.
LEMMA ZSetRemGood ==
    ASSUME NEW o, Sane(o), NEW ms
    PROVE  Good(ZRemOf(o, ms), o)
  <1>1. ASSUME o # Nil, o.type = "zset"
        PROVE  [n \in Members |-> IF n \in ms THEN Nil ELSE o.val[n]] \in ZSets
    BY <1>1, ValueOfType DEF ZSets, Sane
  <1> QED
    BY <1>1, ZSetValue, KeepGood, LenientGood DEF ZRemOf

-----------------------------------------------------------------------------
(* Deadlines: TTL, EXPIRE and PERSIST look at the object the dictionary    *)
(* holds, expired or not.                                                  *)

\* EXPIRE, PERSIST and TTL leave an object an object.
LEMMA DeadlineTyped ==
    ASSUME NEW o, Sane(o), NEW t \in Int, NEW d \in Int
    PROVE  /\ Sane(TtlOf(o, t, SecMs).obj)
           /\ Sane(ExpireAt(o, d).obj)
           /\ Sane(PersistOf(o).obj)
  <1>1. ASSUME o # Nil
        PROVE  /\ Sane([o EXCEPT !.exp = d])
               /\ Sane([o EXCEPT !.exp = 0])
    <2>1. ASSUME NEW e \in Int PROVE Sane([o EXCEPT !.exp = e])
      <3>1. [o EXCEPT !.exp = e] = [type |-> o.type, val |-> o.val, exp |-> e]
        BY <1>1 DEF Sane, Objs
      <3>2. [o EXCEPT !.exp = e] \in Objs
        BY <1>1, <3>1 DEF Sane, Objs
      <3> QED
        BY <1>1, <3>1, <3>2 DEF Sane, NonEmpty
    <2> QED
      BY <2>1
  <1>2. Sane(Nil)
    BY DEF Sane, NonEmpty
  <1> QED
    BY <1>1, <1>2 DEF TtlOf, ExpireAt, PersistOf, Result

-----------------------------------------------------------------------------
(* One key's step *)

Inv == TypeOK /\ NoEmptyList

\* What check_expiry and dict_get find under a key is sane and alive.
LEMMA Lookups ==
    ASSUME Inv, NEW k \in Keys
    PROVE  Sane(db[k]) /\ Sane(Lookup(k)) /\ ~Expired(Lookup(k), now)
           /\ live[k] = Lookup(k)
  BY DEF Inv, TypeOK, NoEmptyList, Sane, NonEmpty, Lookup, Purge, Expired, live

\* Storing a sane object keeps the invariant.
LEMMA RespondInv ==
    ASSUME Inv, NEW k \in Keys, NEW r, Sane(r.obj), Respond(k, r)
    PROVE  Inv'
  BY DEF Inv, TypeOK, NoEmptyList, Sane, NonEmpty, Respond

\* The live map after one key's step.
LEMMA RespondLive ==
    ASSUME Inv, NEW k \in Keys, NEW r, Respond(k, r)
    PROVE  /\ live' = [live EXCEPT ![k] = live'[k]]
           /\ live'[k] = Purge(r.obj, now)
           /\ reply' = r.reply
           /\ now' = now
  <1>1. db' = [db EXCEPT ![k] = r.obj] /\ reply' = r.reply /\ now' = now
    BY DEF Respond
  <1>2. db \in [Keys -> Objs \cup {Nil}]
    BY DEF Inv, TypeOK
  <1>3. live' = [j \in Keys |-> IF j = k THEN Purge(r.obj, now) ELSE live[j]]
    BY <1>1, <1>2 DEF live, Lookup
  <1> QED
    BY <1>1, <1>3 DEF live

\* A handler that calls check_expiry first (or, like SET, looks at nothing) and
\* is well behaved on what it finds makes a step of the eager map.
LEMMA RespondStep ==
    ASSUME Inv, NEW k \in Keys, NEW r, Respond(k, r),
           Good(r, Lookup(k)), Outcome(Lookup(k), r, now)
    PROVE  Inv' /\ Abs!OneKey(k)
  <1>1. Inv'
    BY RespondInv DEF Good
  <1>2. ~Expired(r.obj, now)
    BY Lookups DEF Good, Expired
  <1>3. live'[k] = r.obj
    BY <1>2, RespondLive DEF Purge
  <1>4. [obj |-> live'[k], reply |-> reply'] = r
    BY <1>3, RespondLive DEF Good, Result
  <1>5. Outcome(live[k], [obj |-> live'[k], reply |-> reply'], now)
    BY <1>4, Lookups
  <1> QED
    BY <1>1, <1>5, RespondLive DEF Abs!OneKey

\* A push has elements to push.
LEMMA PushesNonEmpty ==
    ASSUME NEW es \in Pushes PROVE es \in Seq(Elems) /\ es # << >>
  <1>1. CASE \E e \in Elems : es = <<e>>
    <2>1. es \in Seq(Elems) /\ Len(es) = 1
      BY <1>1
    <2> QED
      BY <2>1, Len(<< >>) = 0
  <1>2. CASE \E e, f \in Elems : es = <<e, f>>
    <2>1. es \in Seq(Elems) /\ Len(es) # 0
      BY <1>2
    <2> QED
      BY <2>1, Len(<< >>) = 0
  <1> QED
    BY <1>1, <1>2 DEF Pushes

-----------------------------------------------------------------------------
(* The actions on one key.  Each is Respond with an operator that is well  *)
(* behaved on the object looked up and is listed in Outcome.               *)

\* TTL's own expiry test amounts to check_expiry.
LEMMA TtlOfLookup ==
    ASSUME Inv, NEW k \in Keys
    PROVE  TtlOf(db[k], now, SecMs) = TtlOf(Lookup(k), now, SecMs)
  <1>1. now \in Int /\ (db[k] # Nil => db[k].exp \in Int)
    BY ValueOfType DEF Inv, TypeOK
  <1>2. CASE Expired(db[k], now)
    <2>1. Lookup(k) = Nil /\ db[k] # Nil /\ db[k].exp # 0
          /\ db[k].exp - now <= 0
      BY <1>1, <1>2 DEF Lookup, Purge, Expired
    <2> QED
      BY <2>1 DEF TtlOf, Result
  <1>3. CASE ~Expired(db[k], now)
    BY <1>3 DEF Lookup, Purge
  <1> QED
    BY <1>2, <1>3

\* EXPIRE keeps the invariant and, unless the key is stale, is an eager step.
LEMMA ExpireStep ==
    ASSUME Inv, NEW k \in Keys, NEW n \in Secs, Expire(k, n)
    PROVE  Inv' /\ (Abs!OneKey(k) \/ Departure)
  <1> DEFINE r == ExpireAt(db[k], now + n * SecMs)
  <1>1. Respond(k, r)
    BY DEF Expire
  <1>2. now + n * SecMs \in Int
    BY ClockIsNat, DeadlinesArePositive DEF Inv, TypeOK
  <1>3. Inv'
    <2>1. now \in Int
      BY DEF Inv, TypeOK
    <2>2. Sane(r.obj)
      BY <1>2, <2>1, Lookups, DeadlineTyped
    <2> QED
      BY <1>1, <2>2, RespondInv
  <1>4. CASE Expired(db[k], now)
    BY <1>3, <1>4 DEF Departure, Stale
  <1>5. CASE ~Expired(db[k], now)
    <2>1. Lookup(k) = db[k]
      BY <1>5 DEF Lookup, Purge
    <2>2. r = [obj |-> r.obj, reply |-> r.reply]
      BY DEF ExpireAt, Result
    <2>3. [obj |-> live'[k], reply |-> reply']
              = [r EXCEPT !.obj = Purge(@, now)]
      BY <1>1, <2>2, RespondLive
    <2>4. Outcome(live[k], [obj |-> live'[k], reply |-> reply'], now)
      BY <2>1, <2>3, Lookups DEF Outcome
    <2> QED
      BY <1>1, <1>3, <2>4, RespondLive DEF Abs!OneKey
  <1> QED
    BY <1>3, <1>4, <1>5

\* PERSIST keeps the invariant and, unless the key is stale, is an eager step.
LEMMA PersistStep ==
    ASSUME Inv, NEW k \in Keys, Persist(k)
    PROVE  Inv' /\ (Abs!OneKey(k) \/ Departure)
  <1>1. Respond(k, PersistOf(db[k]))
    BY DEF Persist
  <1>2. Inv'
    <2>1. Sane(PersistOf(db[k]).obj)
      <3>1. 0 \in Int
        OBVIOUS
      <3> QED
        BY <3>1, Lookups, DeadlineTyped
    <2> QED
      BY <1>1, <2>1, RespondInv
  <1>3. CASE Expired(db[k], now)
    BY <1>2, <1>3 DEF Departure, Stale
  <1>4. CASE ~Expired(db[k], now)
    <2>1. Lookup(k) = db[k]
      BY <1>4 DEF Lookup, Purge
    <2>2. Good(PersistOf(db[k]), Lookup(k))
      <3>1. Sane(PersistOf(db[k]).obj)
        <4>1. 0 \in Int
          OBVIOUS
        <4> QED
          BY <4>1, Lookups, DeadlineTyped
      <3>2. PersistOf(db[k]).obj # Nil => PersistOf(db[k]).obj.exp = 0
                                          \/ PersistOf(db[k]).obj = db[k]
        <4>1. CASE db[k] # Nil /\ db[k].exp # 0
          <5>1. [db[k] EXCEPT !.exp = 0].exp = 0
            BY <4>1 DEF Inv, TypeOK, Objs
          <5> QED
            BY <4>1, <5>1 DEF PersistOf, Result
        <4>2. CASE ~(db[k] # Nil /\ db[k].exp # 0)
          BY <4>2 DEF PersistOf, Result
        <4> QED
          BY <4>1, <4>2
      <3>3. PersistOf(db[k]) = Result(PersistOf(db[k]).obj,
                                      PersistOf(db[k]).reply)
        BY DEF PersistOf, Result
      <3> QED
        BY <2>1, <3>1, <3>2, <3>3 DEF Good
    <2>3. Outcome(Lookup(k), PersistOf(db[k]), now)
      BY <2>1 DEF Outcome
    <2> QED
      BY <1>1, <2>2, <2>3, RespondStep
  <1> QED
    BY <1>2, <1>3, <1>4

\* So do the other commands on any type.
LEMMA GenericStep ==
    ASSUME Inv, NEW k \in Keys, GenericNext(k)
    PROVE  Inv' /\ (Abs!OneKey(k) \/ Departure)
  <1>1. CASE Type(k)
    <2>1. Outcome(Lookup(k), TypeOf(Lookup(k)), now)
      BY DEF Outcome
    <2> QED
      BY <1>1, <2>1, Lookups, ReadGood, RespondStep DEF Type
  <1>2. CASE Ttl(k)
    <2> DEFINE r == TtlOf(Lookup(k), now, SecMs)
    <2>1. Respond(k, r)
      BY <1>2, TtlOfLookup DEF Ttl
    <2>2. Outcome(Lookup(k), r, now)
      BY DEF Outcome
    <2>3. Good(r, Lookup(k))
      BY Lookups, KeepGood, GoneGood DEF TtlOf
    <2> QED
      BY <2>1, <2>2, <2>3, RespondStep
  <1> QED
    BY <1>1, <1>2, PersistStep, ExpireStep DEF GenericNext


\* The string commands keep the invariant and are eager steps.
LEMMA StringStep ==
    ASSUME Inv, NEW k \in Keys, StringNext(k)
    PROVE  Inv' /\ Abs!OneKey(k)
  <1>1. Sane(Lookup(k))
    BY Lookups
  <1>2. CASE Get(k) \/ Strlen(k)
    <2>1. /\ Outcome(Lookup(k), GetOf(Lookup(k)), now)
          /\ Outcome(Lookup(k), StrlenOf(Lookup(k)), now)
      BY DEF Outcome
    <2> QED
      BY <1>1, <1>2, <2>1, StringReadGood, RespondStep
         DEF Get, Strlen
  <1>3. CASE Incr(k) \/ Decr(k)
    <2>1. /\ Outcome(Lookup(k), IncrBy(Lookup(k), 1), now)
          /\ Outcome(Lookup(k), IncrBy(Lookup(k), -1), now)
      BY DEF Outcome
    <2>2. 1 \in Int /\ -1 \in Int
      BY <1>3
    <2> QED
      BY <1>1, <1>3, <2>1, <2>2, IncrGood, RespondStep
         DEF Incr, Decr
  <1>4. ASSUME NEW s \in Inputs,
               Set(k, s) \/ SetNx(k, s) \/ AppendStr(k, s)
        PROVE  Inv' /\ Abs!OneKey(k)
    <2>1. /\ Outcome(Lookup(k), SetTo(s), now)
          /\ Outcome(Lookup(k), SetNxTo(Lookup(k), s), now)
          /\ Outcome(Lookup(k), AppendTo(Lookup(k), s), now)
      BY <1>4 DEF Outcome
    <2>2. s \in Str
      BY <1>4, InputsAreStrs
    <2> QED
      BY <1>1, <1>4, <2>1, <2>2, StringWriteGood, RespondStep
         DEF Set, SetNx, AppendStr
  <1>5. ASSUME NEW n \in Deltas,
               IncrByN(k, n) \/ DecrByN(k, n)
        PROVE  Inv' /\ Abs!OneKey(k)
    <2>1. /\ Outcome(Lookup(k), IncrBy(Lookup(k), n), now)
          /\ Outcome(Lookup(k), IncrBy(Lookup(k), Wrap(-n)), now)
      BY <1>5 DEF Outcome
    <2>2. n \in Int /\ Wrap(-n) \in Int
      BY <1>5, DeltasAreLongLongs, LLRange, NumbersAreInts
    <2> QED
      BY <1>1, <1>5, <2>1, <2>2, IncrGood, RespondStep
         DEF IncrByN, DecrByN
  <1> QED
    BY <1>2, <1>3, <1>4, <1>5 DEF StringNext

\* The list commands keep the invariant and are eager steps.
LEMMA ListStep ==
    ASSUME Inv, NEW k \in Keys, ListNext(k)
    PROVE  Inv' /\ Abs!OneKey(k)
  <1>1. Sane(Lookup(k))
    BY Lookups
  <1>2. CASE LPop(k) \/ RPop(k)
    <2>1. /\ Outcome(Lookup(k), LPopOf(Lookup(k)), now)
          /\ Outcome(Lookup(k), RPopOf(Lookup(k)), now)
      BY DEF Outcome
    <2> QED
      BY <1>1, <1>2, <2>1, PopGood, RespondStep
         DEF LPop, RPop
  <1>3. CASE LLen(k)
    <2>1. /\ Outcome(Lookup(k), LLenOf(Lookup(k)), now)
      BY DEF Outcome
    <2> QED
      BY <1>1, <1>3, <2>1, ListReadGood, RespondStep
         DEF LLen
  <1>4. ASSUME NEW es \in Pushes,
               LPush(k, es) \/ RPush(k, es)
        PROVE  Inv' /\ Abs!OneKey(k)
    <2>1. /\ Outcome(Lookup(k), LPushTo(Lookup(k), es), now)
          /\ Outcome(Lookup(k), RPushTo(Lookup(k), es), now)
      BY <1>4 DEF Outcome
    <2>2. es \in Seq(Elems) /\ es # << >>
      BY <1>4, PushesNonEmpty
    <2> QED
      BY <1>1, <1>4, <2>1, <2>2, PushGood, RespondStep
         DEF LPush, RPush
  <1>5. ASSUME NEW i \in Indices,
               LIndex(k, i)
        PROVE  Inv' /\ Abs!OneKey(k)
    <2>1. /\ Outcome(Lookup(k), LIndexOf(Lookup(k), i), now)
      BY <1>5 DEF Outcome
    <2> QED
      BY <1>1, <1>5, <2>1, ListReadGood, RespondStep
         DEF LIndex
  <1>6. ASSUME NEW i \in Indices, NEW j \in Indices,
               LRange(k, i, j)
        PROVE  Inv' /\ Abs!OneKey(k)
    <2>1. /\ Outcome(Lookup(k), LRangeOf(Lookup(k), i, j, RangeMax), now)
      BY <1>6 DEF Outcome
    <2> QED
      BY <1>1, <1>6, <2>1, ListReadGood, RespondStep
         DEF LRange
  <1> QED
    BY <1>2, <1>3, <1>4, <1>5, <1>6 DEF ListNext

\* The hash commands keep the invariant and are eager steps.
LEMMA HashStep ==
    ASSUME Inv, NEW k \in Keys, HashNext(k)
    PROVE  Inv' /\ Abs!OneKey(k)
  <1>1. Sane(Lookup(k))
    BY Lookups
  <1>2. CASE HLen(k) \/ HGetAll(k) \/ HKeys(k) \/ HVals(k)
    <2>1. /\ Outcome(Lookup(k), HLenOf(Lookup(k)), now)
          /\ Outcome(Lookup(k), HGetAllOf(Lookup(k)), now)
          /\ Outcome(Lookup(k), HKeysOf(Lookup(k)), now)
          /\ Outcome(Lookup(k), HValsOf(Lookup(k)), now)
      BY DEF Outcome
    <2> QED
      BY <1>1, <1>2, <2>1, ReadGood, RespondStep
         DEF HLen, HGetAll, HKeys, HVals
  <1>3. ASSUME NEW p \in HPairs,
               HSet(k, p)
        PROVE  Inv' /\ Abs!OneKey(k)
    <2>1. /\ Outcome(Lookup(k), HSetTo(Lookup(k), p), now)
      BY <1>3 DEF Outcome
    <2>2. p \in Hashes
      BY <1>3 DEF HPairs
    <2> QED
      BY <1>1, <1>3, <2>1, <2>2, HashWriteGood, RespondStep
         DEF HSet
  <1>4. ASSUME NEW f \in Fields,
               HGet(k, f) \/ HExists(k, f)
        PROVE  Inv' /\ Abs!OneKey(k)
    <2>1. /\ Outcome(Lookup(k), HGetOf(Lookup(k), f), now)
          /\ Outcome(Lookup(k), HExistsOf(Lookup(k), f), now)
      BY <1>4 DEF Outcome
    <2> QED
      BY <1>1, <1>4, <2>1, ReadGood, RespondStep
         DEF HGet, HExists
  <1>5. ASSUME NEW fs \in FieldSets,
               HDel(k, fs)
        PROVE  Inv' /\ Abs!OneKey(k)
    <2>1. /\ Outcome(Lookup(k), HDelOf(Lookup(k), fs), now)
      BY <1>5 DEF Outcome
    <2> QED
      BY <1>1, <1>5, <2>1, HashDelGood, RespondStep
         DEF HDel
  <1> QED
    BY <1>2, <1>3, <1>4, <1>5 DEF HashNext

\* The sorted-set commands keep the invariant and are eager steps.
LEMMA ZSetStep ==
    ASSUME Inv, NEW k \in Keys, ZSetNext(k)
    PROVE  Inv' /\ Abs!OneKey(k)
  <1>1. Sane(Lookup(k))
    BY Lookups
  <1>2. CASE ZCard(k)
    <2>1. /\ Outcome(Lookup(k), ZCardOf(Lookup(k)), now)
      BY DEF Outcome
    <2> QED
      BY <1>1, <1>2, <2>1, ReadGood, RespondStep
         DEF ZCard
  <1>3. ASSUME NEW p \in ZPairs,
               ZAdd(k, p)
        PROVE  Inv' /\ Abs!OneKey(k)
    <2>1. /\ Outcome(Lookup(k), ZAddTo(Lookup(k), p), now)
      BY <1>3 DEF Outcome
    <2>2. p \in ZSets
      BY <1>3 DEF ZPairs
    <2> QED
      BY <1>1, <1>3, <2>1, <2>2, ZSetWriteGood, RespondStep
         DEF ZAdd
  <1>4. ASSUME NEW m \in Members,
               ZScore(k, m) \/ ZRank(k, m)
        PROVE  Inv' /\ Abs!OneKey(k)
    <2>1. /\ Outcome(Lookup(k), ZScoreOf(Lookup(k), m), now)
          /\ Outcome(Lookup(k), ZRankOf(Lookup(k), m), now)
      BY <1>4 DEF Outcome
    <2> QED
      BY <1>1, <1>4, <2>1, ReadGood, RespondStep
         DEF ZScore, ZRank
  <1>5. ASSUME NEW ms \in MemberSets,
               ZRem(k, ms)
        PROVE  Inv' /\ Abs!OneKey(k)
    <2>1. /\ Outcome(Lookup(k), ZRemOf(Lookup(k), ms), now)
      BY <1>5 DEF Outcome
    <2> QED
      BY <1>1, <1>5, <2>1, ZSetRemGood, RespondStep
         DEF ZRem
  <1>6. ASSUME NEW i \in Indices, NEW j \in Indices, NEW ws \in BOOLEAN,
               ZRange(k, i, j, ws)
        PROVE  Inv' /\ Abs!OneKey(k)
    <2>1. /\ Outcome(Lookup(k), ZRangeOf(Lookup(k), i, j, ws), now)
      BY <1>6 DEF Outcome
    <2> QED
      BY <1>1, <1>6, <2>1, ReadGood, RespondStep
         DEF ZRange
  <1> QED
    BY <1>2, <1>3, <1>4, <1>5, <1>6 DEF ZSetNext

-----------------------------------------------------------------------------
(* The actions on several keys, the clock and the sweep *)

\* In the absence of an expired object db and the live map hold the same keys.
LEMMA NotStale ==
    ASSUME Inv, NEW K \in SUBSET Keys, ~Stale(K)
    PROVE  {k \in K : db[k] # Nil} = K \cap Abs!LiveKeys
  BY DEF Stale, live, Lookup, Purge, Abs!LiveKeys

\* DEL keeps the invariant and, unless it meets a stale key, is an eager step.
LEMMA DelStep ==
    ASSUME Inv, NEW K \in SUBSET Keys, Del(K)
    PROVE  Inv' /\ (Abs!Del(K) \/ Departure)
  <1>1. Inv'
    BY DEF Inv, TypeOK, NoEmptyList, Del
  <1>2. CASE Stale(K)
    BY <1>1, <1>2 DEF Departure
  <1>3. CASE ~Stale(K)
    <2>1. live' = [k \in Keys |-> IF k \in K THEN Nil ELSE live[k]]
      BY DEF Del, live, Lookup, Purge, Expired
    <2>2. reply' = Integer(Cardinality(K \cap Abs!LiveKeys)) /\ now' = now
      BY <1>3, NotStale DEF Del
    <2> QED
      BY <1>1, <2>1, <2>2 DEF Abs!Del, Integer, Reply, Abs!Integer, Abs!Reply,
             Cardinality, Abs!Cardinality
  <1> QED
    BY <1>2, <1>3

\* KEYS is an eager step unless it meets a stale key.
LEMMA KeysMatchingStep ==
    ASSUME Inv, NEW p \in Patterns, KeysMatching(p)
    PROVE  Inv' /\ (Abs!Next \/ Departure)
  <1> DEFINE K == Matched(p)
  <1>1. Inv'
    BY DEF Inv, TypeOK, NoEmptyList, KeysMatching
  <1>2. K \in SUBSET Keys
    BY DEF Matched
  <1>3. CASE Stale(K)
    BY <1>1, <1>3 DEF Departure
  <1>4. CASE ~Stale(K)
    <2>1. live' = live /\ now' = now
      BY DEF KeysMatching, live, Lookup
    <2>2. reply' = Listing(Cardinality(K \cap Abs!LiveKeys), K \cap Abs!LiveKeys)
      BY <1>2, <1>4, NotStale DEF KeysMatching
    <2>3. Abs!KeysMatching(K)
      BY <2>1, <2>2
         DEF Abs!KeysMatching, Listing, Reply, Abs!Listing,
             Abs!Reply, Cardinality, Abs!Cardinality
    <2> QED
      BY <1>1, <1>2, <2>3 DEF Abs!Next
  <1> QED
    BY <1>3, <1>4

\* DBSIZE is an eager step unless some key is stale.
LEMMA DbSizeStep ==
    ASSUME Inv, DbSize
    PROVE  Inv' /\ (Abs!DbSize \/ Departure)
  <1>1. Inv'
    BY DEF Inv, TypeOK, NoEmptyList, DbSize
  <1>2. CASE Stale(Keys)
    BY <1>1, <1>2 DEF Departure
  <1>3. CASE ~Stale(Keys)
    <2>1. live' = live /\ now' = now
      BY DEF DbSize, live, Lookup
    <2>2. {k \in Keys : db[k] # Nil} = Abs!LiveKeys
      BY <1>3, NotStale DEF Abs!LiveKeys
    <2>3. reply' = Integer(Cardinality(Abs!LiveKeys))
      BY <2>2 DEF DbSize
    <2> QED
      BY <1>1, <2>1, <2>3
         DEF Abs!DbSize, Integer, Reply, Abs!Integer, Abs!Reply,
             Cardinality, Abs!Cardinality
  <1> QED
    BY <1>2, <1>3

\* FLUSHDB empties the live map too.
LEMMA FlushDbStep ==
    ASSUME Inv, FlushDb
    PROVE  Inv' /\ Abs!FlushDb
  <1>1. Inv'
    BY DEF Inv, TypeOK, NoEmptyList, FlushDb
  <1>2. live' = [k \in Keys |-> Nil]
    BY DEF FlushDb, live, Lookup, Purge
  <1> QED
    BY <1>1, <1>2 DEF FlushDb, Abs!FlushDb, OK, Abs!OK, Simple, Abs!Simple,
                      Reply, Abs!Reply

\* Looking up a key that was just checked finds the same object again.
LEMMA PurgeTwice ==
    ASSUME NEW o, NEW t PROVE Purge(Purge(o, t), t) = Purge(o, t)
  BY DEF Purge

\* EXISTS checks every argument and so is an eager step.
LEMMA ExistsStep ==
    ASSUME Inv, NEW k1 \in Keys, NEW k2 \in Keys, Exists(<<k1, k2>>)
    PROVE  Inv' /\ Abs!Exists(<<k1, k2>>)
  <1> DEFINE ks == <<k1, k2>>
  <1>1. \A i \in DOMAIN ks : ks[i] \in Keys
    OBVIOUS
  <1> HIDE DEF ks
  <1>2. /\ db' = [k \in Keys |-> IF \E i \in DOMAIN ks : ks[i] = k
                                 THEN Lookup(k) ELSE db[k]]
        /\ reply' = Integer(Cardinality({i \in DOMAIN ks :
                                            Lookup(ks[i]) # Nil}))
        /\ now' = now
    BY DEF Exists, ks
  <1>3. Inv'
    BY <1>2, Lookups DEF Inv, TypeOK, NoEmptyList, Sane, NonEmpty
  <1>4. live' = live
    BY <1>2, PurgeTwice DEF live, Lookup
  <1>5. {i \in DOMAIN ks : Lookup(ks[i]) # Nil}
            = {i \in DOMAIN ks : live[ks[i]] # Nil}
    BY <1>1 DEF live
  <1> QED
    BY <1>2, <1>3, <1>4, <1>5
       DEF Abs!Exists, ks, Integer, Reply, Abs!Integer, Abs!Reply,
             Cardinality, Abs!Cardinality

\* The sweep's check_expiry changes nothing in the live map.
LEMMA SweepStep ==
    ASSUME Inv, NEW k \in Keys, SweepExpire(k)
    PROVE  Inv' /\ UNCHANGED <<live, now, reply>>
  <1>1. Inv'
    BY Lookups DEF SweepExpire, Inv, TypeOK, NoEmptyList, Sane, NonEmpty
  <1>2. live' = live
    BY PurgeTwice DEF SweepExpire, live, Lookup, Inv, TypeOK
  <1> QED
    BY <1>1, <1>2 DEF SweepExpire

\* The clock takes from the live map the keys whose deadline it reaches.
LEMMA TickStep ==
    ASSUME Inv, Tick
    PROVE  Inv' /\ Abs!Tick
  <1>1. now \in Nat /\ now' = now + 1 /\ now < MaxMs /\ db' = db
        /\ reply' = reply
    BY DEF Inv, TypeOK, Tick
  <1>2. Inv'
    BY <1>1 DEF Inv, TypeOK, NoEmptyList
  <1>3. ASSUME NEW k \in Keys
        PROVE  Purge(db[k], now') = IF Expired(live[k], now') THEN Nil
                                    ELSE live[k]
    <2>1. db[k] # Nil => db[k].exp \in Int
      BY ValueOfType DEF Inv, TypeOK
    <2>2. Expired(db[k], now) => Expired(db[k], now')
      BY <1>1, <2>1 DEF Expired
    <2>3. ~Expired(Nil, now')
      BY DEF Expired
    <2> QED
      BY <2>2, <2>3 DEF live, Lookup, Purge
  <1>4. live' = [k \in Keys |-> IF Expired(live[k], now') THEN Nil ELSE live[k]]
    BY <1>1, <1>3 DEF live, Lookup
  <1> QED
    BY <1>1, <1>2, <1>4 DEF Abs!Tick

-----------------------------------------------------------------------------
(* The specification *)

\* The initial state satisfies the invariant and is the eager map's.
LEMMA InitInv == Init => Inv /\ Abs!Init
  <1> SUFFICES ASSUME Init PROVE Inv /\ Abs!Init
    OBVIOUS
  <1>1. Inv
    BY ClockIsNat DEF Init, Inv, TypeOK, NoEmptyList
  <1>2. live = [k \in Keys |-> Nil]
    BY DEF Init, live, Lookup, Purge
  <1> QED
    BY <1>1, <1>2
       DEF Init, Abs!Init, Simple, Reply, Abs!Simple, Abs!Reply

\* Every step keeps the invariant and is an eager step or a departure.
LEMMA StepInv ==
    Inv /\ [Next]_vars
        => Inv' /\ [Abs!Next \/ Departure]_<<live, now, reply>>
  <1> SUFFICES ASSUME Inv, [Next]_vars
               PROVE  Inv' /\ [Abs!Next \/ Departure]_<<live, now, reply>>
    OBVIOUS
  <1>1. ASSUME NEW k \in Keys,
               \/ GenericNext(k) \/ StringNext(k) \/ ListNext(k)
               \/ HashNext(k) \/ ZSetNext(k)
        PROVE  Inv' /\ (Abs!Next \/ Departure)
    <2>1. Inv' /\ (Abs!OneKey(k) \/ Departure)
      BY <1>1, GenericStep, StringStep, ListStep, HashStep, ZSetStep
    <2> QED
      BY <2>1 DEF Abs!Next
  <1>2. ASSUME NEW k \in Keys, SweepExpire(k)
        PROVE  Inv' /\ UNCHANGED <<live, now, reply>>
    BY <1>2, SweepStep
  <1>3. ASSUME NEW k1 \in Keys, NEW k2 \in Keys, Exists(<<k1, k2>>)
        PROVE  Inv' /\ Abs!Next
    BY <1>3, ExistsStep DEF Abs!Next
  <1>4. /\ \A K \in SUBSET Keys : Del(K) => Inv' /\ (Abs!Next \/ Departure)
        /\ \A p \in Patterns : KeysMatching(p) => Inv' /\ (Abs!Next \/ Departure)
    BY DelStep, KeysMatchingStep DEF Abs!Next
  <1>5. CASE DbSize
    BY <1>5, DbSizeStep DEF Abs!Next
  <1>6. CASE FlushDb
    BY <1>6, FlushDbStep DEF Abs!Next
  <1>7. CASE Tick
    BY <1>7, TickStep DEF Abs!Next
  <1>8. CASE UNCHANGED vars
    BY <1>8 DEF vars, Inv, TypeOK, NoEmptyList, live, Lookup
  <1> QED
    BY <1>1, <1>2, <1>3, <1>4, <1>5, <1>6, <1>7, <1>8 DEF Next

\* Every object in the dictionary is well formed, after any commands.
THEOREM TypeCorrect == Spec => []TypeOK
  <1>1. Inv /\ [Next]_vars => Inv'
    BY StepInv
  <1>2. Inv => TypeOK
    BY DEF Inv
  <1> QED
    BY <1>1, <1>2, InitInv, PTL DEF Spec

\* No list is ever left empty (LPOP and RPOP, commands.cpp).
THEOREM NoListLeftEmpty == Spec => []NoEmptyList
  <1>1. Inv /\ [Next]_vars => Inv'
    BY StepInv
  <1>2. Inv => NoEmptyList
    BY DEF Inv
  <1> QED
    BY <1>1, <1>2, InitInv, PTL DEF Spec

\* Lazy expiry implements the eager map, but for the departures: what a client
\* sees of a handler that checks expiry is what it would see if keys vanished
\* at their deadlines.
THEOREM LazyImplementsEager == Spec => EagerExceptDepartures
  <1>1. Inv /\ [Next]_vars
           => Inv' /\ [Abs!Next \/ Departure]_<<live, now, reply>>
    BY StepInv
  <1> QED
    BY <1>1, InitInv, PTL DEF Spec, EagerExceptDepartures

-----------------------------------------------------------------------------
(* Gentle operators *)

Errors == {WrongType.kind, NotInteger.kind}

Steady(r, o) ==
    o # Nil /\ r.obj # Nil => r.obj.exp = o.exp /\ r.obj.type = o.type

Honest(r, o) == r.reply.kind \in Errors => r.obj = o

Gentle(r, o) == Steady(r, o) /\ Honest(r, o)

-----------------------------------------------------------------------------
(* Gentle: the shapes of a result *)

\* No other reply looks like an error.
LEMMA NoErrors ==
    /\ \A i : Integer(i).kind \notin Errors
    /\ \A s : Bulk(s).kind \notin Errors
    /\ \A n, s : Array(n, s).kind \notin Errors /\ Listing(n, s).kind \notin Errors
    /\ OK.kind \notin Errors
  BY DEF Errors, Integer, Bulk, Array, Listing, OK, WrongType, NotInteger, Simple, Reply

\* Answering without touching the object is gentle.
LEMMA SameIsGentle == ASSUME NEW o, NEW rep PROVE Gentle(Result(o, rep), o)
  BY DEF Gentle, Steady, Honest, Result

\* So is deleting the key, or creating one, if the answer is no error.
LEMMA ComesOrGoes ==
    ASSUME NEW o, NEW x, NEW rep, rep.kind \notin Errors
    PROVE  /\ Gentle(Result(Nil, rep), o)
           /\ o = Nil => Gentle(Result(x, rep), o)
  BY DEF Gentle, Steady, Honest, Result

\* So is giving the object another value.
LEMMA InPlace ==
    ASSUME NEW o \in Objs, NEW v, NEW rep, rep.kind \notin Errors
    PROVE  Gentle(Result([o EXCEPT !.val = v], rep), o)
  <1>1. [o EXCEPT !.val = v] = [type |-> o.type, val |-> v, exp |-> o.exp]
    BY DEF Objs
  <1> QED
    BY <1>1 DEF Gentle, Steady, Honest, Result

\* The type test answers WRONGTYPE only when nothing else was done.
LEMMA StrictGentle ==
    ASSUME NEW o, NEW type, NEW missing, NEW found,
           o = Nil => Gentle(missing, o),
           o # Nil /\ o.type = type => Gentle(found, o)
    PROVE  Gentle(Strict(o, type, missing, found), o)
  BY SameIsGentle DEF Strict

\* The lenient type test answers no error of its own.
LEMMA LenientGentle ==
    ASSUME NEW o, NEW type, NEW missing, NEW found,
           Gentle(missing, o),
           o # Nil /\ o.type = type => Gentle(found, o)
    PROVE  Gentle(Lenient(o, type, missing, found), o)
  BY DEF Lenient

-----------------------------------------------------------------------------
(* Gentle: the commands *)

\* The commands that only look.
LEMMA LookingIsGentle ==
    ASSUME NEW o
    PROVE  /\ Gentle(GetOf(o), o) /\ Gentle(StrlenOf(o), o)
           /\ Gentle(TypeOf(o), o) /\ \A t : Gentle(TtlOf(o, t, SecMs), o)
           /\ Gentle(LLenOf(o), o) /\ \A i : Gentle(LIndexOf(o, i), o)
           /\ \A i, j, max : Gentle(LRangeOf(o, i, j, max), o)
           /\ \A f : Gentle(HGetOf(o, f), o) /\ Gentle(HExistsOf(o, f), o)
           /\ Gentle(HLenOf(o), o) /\ Gentle(HGetAllOf(o), o)
           /\ Gentle(HKeysOf(o), o) /\ Gentle(HValsOf(o), o)
           /\ Gentle(ZCardOf(o), o)
           /\ \A m : Gentle(ZScoreOf(o, m), o) /\ Gentle(ZRankOf(o, m), o)
           /\ \A i, j, ws : Gentle(ZRangeOf(o, i, j, ws), o)
  <1>1. /\ Gentle(GetOf(o), o) /\ Gentle(StrlenOf(o), o)
        /\ Gentle(TypeOf(o), o) /\ Gentle(LLenOf(o), o)
    BY SameIsGentle, StrictGentle DEF GetOf, StrlenOf, TypeOf, LLenOf
  <1>2. \A i, j, max : Gentle(LRangeOf(o, i, j, max), o)
    BY SameIsGentle, StrictGentle DEF LRangeOf
  <1>3. \A i : Gentle(LIndexOf(o, i), o)
    BY SameIsGentle, LenientGentle DEF LIndexOf
  <1>4. \A f : Gentle(HGetOf(o, f), o) /\ Gentle(HExistsOf(o, f), o)
    BY SameIsGentle, LenientGentle DEF HGetOf, HExistsOf
  <1>5. /\ Gentle(HLenOf(o), o) /\ Gentle(HGetAllOf(o), o)
        /\ Gentle(HKeysOf(o), o) /\ Gentle(HValsOf(o), o) /\ Gentle(ZCardOf(o), o)
    BY SameIsGentle, LenientGentle DEF HLenOf, HGetAllOf, HKeysOf, HValsOf, ZCardOf
  <1>6. \A m : Gentle(ZScoreOf(o, m), o) /\ Gentle(ZRankOf(o, m), o)
    BY SameIsGentle, LenientGentle DEF ZScoreOf, ZRankOf
  <1>7. \A i, j, ws : Gentle(ZRangeOf(o, i, j, ws), o)
    BY SameIsGentle, LenientGentle DEF ZRangeOf
  <1>8. \A t : Gentle(TtlOf(o, t, SecMs), o)
    BY SameIsGentle, ComesOrGoes, NoErrors DEF TtlOf
  <1> QED
    BY <1>1, <1>2, <1>3, <1>4, <1>5, <1>6, <1>7, <1>8

\* SETNX, APPEND and INCR keep a string's deadline; a text that is no number
\* stays as it is.
LEMMA StringsAreGentle ==
    ASSUME NEW o, Sane(o)
    PROVE  /\ \A s : Gentle(SetNxTo(o, s), o) /\ Gentle(AppendTo(o, s), o)
           /\ \A d : Gentle(IncrBy(o, d), o)
  <1>1. o # Nil => o \in Objs
    BY DEF Sane
  <1>2. \A s : Gentle(SetNxTo(o, s), o)
    BY SameIsGentle, ComesOrGoes, NoErrors DEF SetNxTo
  <1>3. \A s : Gentle(AppendTo(o, s), o)
    BY <1>1, ComesOrGoes, InPlace, NoErrors, StrictGentle DEF AppendTo
  <1>4. \A d : Gentle(IncrBy(o, d), o)
    BY <1>1, SameIsGentle, ComesOrGoes, InPlace, NoErrors, StrictGentle DEF IncrBy
  <1> QED
    BY <1>2, <1>3, <1>4

\* A command that gets or creates its object, and then changes its value.
LEMMA CreateIsGentle ==
    ASSUME NEW o, Sane(o), NEW new \in Objs, NEW type, new.type = type,
           NEW v, NEW rep, rep.kind \notin Errors
    PROVE  LET l == GetOrCreate(o, new)
           IN  Gentle(Strict(l, type, Result(l, NullBulk),
                             Result([l EXCEPT !.val = v], rep)), o)
  <1>1. CASE o = Nil
    <2>1. GetOrCreate(o, new) = new /\ new # Nil
      BY <1>1, NilIsNoObj DEF GetOrCreate
    <2> QED
      BY <1>1, <2>1, ComesOrGoes DEF Strict
  <1>2. CASE o # Nil
    <2>1. GetOrCreate(o, new) = o /\ o \in Objs
      BY <1>2 DEF GetOrCreate, Sane
    <2> QED
      BY <1>2, <2>1, InPlace, SameIsGentle DEF Strict
  <1> QED
    BY <1>1, <1>2

\* A new list, hash or zset.
LEMMA NewOnes ==
    /\ EmptyList \in Objs /\ EmptyList.type = "list"
    /\ EmptyHash \in Objs /\ EmptyHash.type = "hash"
    /\ EmptyZSet \in Objs /\ EmptyZSet.type = "zset"
  BY DEF EmptyList, EmptyHash, EmptyZSet, NewObj, Objs, Hashes, ZSets

\* The pushes, HSET and ZADD keep the deadline of what they find.
LEMMA WritingIsGentle ==
    ASSUME NEW o, Sane(o)
    PROVE  /\ \A es : Gentle(LPushTo(o, es), o) /\ Gentle(RPushTo(o, es), o)
           /\ \A p : Gentle(HSetTo(o, p), o) /\ Gentle(ZAddTo(o, p), o)
  <1>1. \A es : Gentle(LPushTo(o, es), o)
    BY CreateIsGentle, NewOnes, NoErrors DEF LPushTo
  <1>2. \A es : Gentle(RPushTo(o, es), o)
    BY CreateIsGentle, NewOnes, NoErrors DEF RPushTo
  <1>3. \A p : Gentle(HSetTo(o, p), o)
    BY CreateIsGentle, NewOnes, NoErrors DEF HSetTo
  <1>4. \A p : Gentle(ZAddTo(o, p), o)
    BY CreateIsGentle, NewOnes, NoErrors DEF ZAddTo
  <1> QED
    BY <1>1, <1>2, <1>3, <1>4

\* The pops, HDEL and ZREM keep the deadline of what they leave.
LEMMA TakingIsGentle ==
    ASSUME NEW o, Sane(o)
    PROVE  /\ Gentle(LPopOf(o), o) /\ Gentle(RPopOf(o), o)
           /\ \A xs : Gentle(HDelOf(o, xs), o) /\ Gentle(ZRemOf(o, xs), o)
  <1>1. o # Nil => o \in Objs
    BY DEF Sane
  <1>2. Gentle(LPopOf(o), o)
    BY <1>1, SameIsGentle, ComesOrGoes, InPlace, NoErrors, LenientGentle DEF LPopOf
  <1>3. Gentle(RPopOf(o), o)
    BY <1>1, SameIsGentle, ComesOrGoes, InPlace, NoErrors, LenientGentle DEF RPopOf
  <1>4. \A xs : Gentle(HDelOf(o, xs), o) /\ Gentle(ZRemOf(o, xs), o)
    BY <1>1, SameIsGentle, InPlace, NoErrors, LenientGentle DEF HDelOf, ZRemOf
  <1> QED
    BY <1>2, <1>3, <1>4

\* SET, EXPIRE and PERSIST answer no error.
LEMMA NoErrorAtAll ==
    ASSUME NEW o, NEW s, NEW d
    PROVE  /\ SetTo(s).reply.kind \notin Errors
           /\ ExpireAt(o, d).reply.kind \notin Errors
           /\ PersistOf(o).reply.kind \notin Errors
  BY NoErrors DEF SetTo, ExpireAt, PersistOf, Result

-----------------------------------------------------------------------------
(* Gentle: the steps *)

\* The live key k keeps its deadline and type, or a command that sets them ran.
Kept(k) ==
    Lookup(k) # Nil /\ db'[k] # Nil =>
        \/ db'[k].exp = db[k].exp /\ db'[k].type = db[k].type
        \/ Persist(k)
        \/ \E n \in Secs : Expire(k, n)
        \/ \E s \in Inputs : Set(k, s)

\* If the answer is an error, a client sees under k what it saw before.
Unharmed(k) ==
    now' = now /\ reply'.kind \in Errors => Purge(db'[k], now') = Lookup(k)

\* A handler touches the object of its key alone.
LEMMA OthersStay ==
    ASSUME Inv, NEW k \in Keys, NEW r, Respond(k, r), NEW j \in Keys, j # k
    PROVE  Kept(j) /\ Unharmed(j)
  <1>1. db'[j] = db[j]
    BY DEF Inv, TypeOK, Respond
  <1> QED
    BY <1>1 DEF Kept, Unharmed, Lookup

\* A gentle command on what check_expiry found.
LEMMA GentleStep ==
    ASSUME Inv, NEW k \in Keys, NEW r, Respond(k, r), Gentle(r, Lookup(k))
    PROVE  \A j \in Keys : Kept(j) /\ Unharmed(j)
  <1>1. db'[k] = r.obj /\ reply' = r.reply /\ now' = now
    BY DEF Inv, TypeOK, Respond
  <1>2. Kept(k)
    BY <1>1 DEF Gentle, Steady, Kept, Lookup, Purge
  <1>3. Unharmed(k)
    BY <1>1, PurgeTwice DEF Gentle, Honest, Unharmed, Lookup
  <1> QED
    BY <1>2, <1>3, OthersStay

\* A command that sets the deadline, and answers no error.
LEMMA HonestStep ==
    ASSUME Inv, NEW k \in Keys, NEW r, Respond(k, r), r.reply.kind \notin Errors,
           Persist(k) \/ (\E n \in Secs : Expire(k, n)) \/ \E s \in Inputs : Set(k, s)
    PROVE  \A j \in Keys : Kept(j) /\ Unharmed(j)
  <1>1. Kept(k) /\ Unharmed(k)
    BY DEF Kept, Unharmed, Respond
  <1> QED
    BY <1>1, OthersStay

\* The commands on one key.
LEMMA OneKeyStep ==
    ASSUME Inv, NEW k \in Keys,
           \/ GenericNext(k) \/ StringNext(k) \/ ListNext(k)
           \/ HashNext(k) \/ ZSetNext(k)
    PROVE  \A j \in Keys : Kept(j) /\ Unharmed(j)
  <1> DEFINE o == Lookup(k)
             Goal == \A j \in Keys : Kept(j) /\ Unharmed(j)
  <1>1. Sane(o)
    BY Lookups
  <1> SUFFICES Goal
    OBVIOUS
  <1> HIDE DEF o, Goal
  <1>2. ASSUME NEW r, Respond(k, r), Gentle(r, o) PROVE Goal
    BY <1>2, GentleStep DEF o, Goal
  <1>3. CASE GenericNext(k)
    <2>1. CASE Type(k)
      BY <1>2, <2>1, LookingIsGentle DEF Type, o
    <2>2. CASE Ttl(k)
      BY <1>2, <2>2, LookingIsGentle, TtlOfLookup DEF Ttl, o
    <2>3. CASE Persist(k)
      BY <2>3, HonestStep, NoErrorAtAll DEF Persist, Goal
    <2>4. ASSUME NEW n \in Secs, Expire(k, n) PROVE Goal
      BY <2>4, HonestStep, NoErrorAtAll DEF Expire, Goal
    <2> QED
      BY <1>3, <2>1, <2>2, <2>3, <2>4 DEF GenericNext
  <1>4. CASE StringNext(k)
    <2>1. CASE Get(k) \/ Strlen(k)
      BY <1>2, <2>1, LookingIsGentle DEF Get, Strlen, o
    <2>2. ASSUME NEW d, Respond(k, IncrBy(o, d)) PROVE Goal
      BY <1>1, <1>2, <2>2, StringsAreGentle
    <2>3. ASSUME NEW s \in Inputs, Set(k, s) PROVE Goal
      BY <2>3, HonestStep, NoErrorAtAll DEF Set, Goal
    <2>4. ASSUME NEW s, SetNx(k, s) \/ AppendStr(k, s) PROVE Goal
      BY <1>1, <1>2, <2>4, StringsAreGentle DEF SetNx, AppendStr, o
    <2> QED
      BY <1>4, <2>1, <2>2, <2>3, <2>4 DEF StringNext, Incr, Decr, IncrByN, DecrByN, o
  <1>5. CASE ListNext(k)
    <2>1. CASE LPop(k) \/ RPop(k)
      BY <1>1, <1>2, <2>1, TakingIsGentle DEF LPop, RPop, o
    <2>2. ASSUME NEW es, LPush(k, es) \/ RPush(k, es) PROVE Goal
      BY <1>1, <1>2, <2>2, WritingIsGentle DEF LPush, RPush, o
    <2>3. ASSUME NEW i, NEW j, LLen(k) \/ LIndex(k, i) \/ LRange(k, i, j) PROVE Goal
      BY <1>2, <2>3, LookingIsGentle DEF LLen, LIndex, LRange, o
    <2> QED
      BY <1>5, <2>1, <2>2, <2>3 DEF ListNext
  <1>6. CASE HashNext(k)
    <2>1. ASSUME NEW f, \/ HLen(k) \/ HGetAll(k) \/ HKeys(k) \/ HVals(k)
                        \/ HGet(k, f) \/ HExists(k, f)
          PROVE  Goal
      BY <1>2, <2>1, LookingIsGentle
         DEF HLen, HGetAll, HKeys, HVals, HGet, HExists, o
    <2>2. ASSUME NEW x, HSet(k, x) \/ HDel(k, x) PROVE Goal
      BY <1>1, <1>2, <2>2, WritingIsGentle, TakingIsGentle DEF HSet, HDel, o
    <2> QED
      BY <1>6, <2>1, <2>2 DEF HashNext
  <1>7. CASE ZSetNext(k)
    <2>1. ASSUME NEW m, NEW i, NEW j, NEW ws,
                 ZCard(k) \/ ZScore(k, m) \/ ZRank(k, m) \/ ZRange(k, i, j, ws)
          PROVE  Goal
      BY <1>2, <2>1, LookingIsGentle DEF ZCard, ZScore, ZRank, ZRange, o
    <2>2. ASSUME NEW x, ZAdd(k, x) \/ ZRem(k, x) PROVE Goal
      BY <1>1, <1>2, <2>2, WritingIsGentle, TakingIsGentle DEF ZAdd, ZRem, o
    <2> QED
      BY <1>7, <2>1, <2>2 DEF ZSetNext
  <1> QED
    BY <1>3, <1>4, <1>5, <1>6, <1>7

\* No step loses a deadline or does harm and then complains.
LEMMA AnyStep ==
    ASSUME Inv, [Next]_vars
    PROVE  \A j \in Keys : Kept(j) /\ Unharmed(j)
  <1>1. ASSUME now' = now, \A j \in Keys : db'[j] \in {db[j], Lookup(j)}
        PROVE  \A j \in Keys : Kept(j) /\ Unharmed(j)
    BY <1>1, PurgeTwice DEF Kept, Unharmed, Lookup, Purge
  <1>2. ASSUME NEW k \in Keys, SweepExpire(k) PROVE \A j \in Keys : Kept(j) /\ Unharmed(j)
    BY <1>1, <1>2 DEF SweepExpire, Inv, TypeOK
  <1>3. ASSUME NEW k1 \in Keys, NEW k2 \in Keys, Exists(<<k1, k2>>)
        PROVE  \A j \in Keys : Kept(j) /\ Unharmed(j)
    BY <1>1, <1>3 DEF Exists
  <1>4. ASSUME NEW K \in SUBSET Keys, Del(K) PROVE \A j \in Keys : Kept(j) /\ Unharmed(j)
    <2>1. reply'.kind \notin Errors
      BY <1>4, NoErrors DEF Del
    <2> QED
      BY <1>4, <2>1 DEF Del, Kept, Unharmed
  <1>5. ASSUME NEW p, KeysMatching(p) PROVE \A j \in Keys : Kept(j) /\ Unharmed(j)
    BY <1>1, <1>5 DEF KeysMatching
  <1>6. CASE DbSize \/ UNCHANGED vars
    BY <1>1, <1>6 DEF DbSize, vars
  <1>7. CASE FlushDb
    <2>1. reply'.kind \notin Errors
      BY <1>7, NoErrors DEF FlushDb
    <2> QED
      BY <1>7, <2>1 DEF FlushDb, Kept, Unharmed
  <1>8. CASE Tick
    BY <1>8 DEF Tick, Kept, Unharmed, Inv, TypeOK
  <1> QED
    BY <1>2, <1>3, <1>4, <1>5, <1>6, <1>7, <1>8, OneKeyStep DEF Next

-----------------------------------------------------------------------------
(* Deadlines and errors *)

\* APPEND, INCR, the pushes and every other command but SET, EXPIRE and
\* PERSIST leave a live key its deadline and its type (commands.cpp).
THEOREM DeadlinesAreKept == Spec => DeadlineIsKept
  <1>1. Inv /\ [Next]_vars => \A k \in Keys : Kept(k)
    BY AnyStep
  <1>2. Inv /\ [Next]_vars => Inv'
    BY StepInv
  <1> QED
    BY <1>1, <1>2, InitInv, PTL DEF Spec, DeadlineIsKept, Kept

\* A handler that answers WRONGTYPE or "not an integer" has changed nothing a
\* client can see, under any key (commands.cpp).
THEOREM ErrorsAreHarmless == Spec => ErrorsChangeNothing
  <1>1. Inv /\ [Next]_vars =>
           (now' = now /\ reply'.kind \in {WrongType.kind, NotInteger.kind}
               => \A k \in Keys : Purge(db'[k], now') = Lookup(k))
    BY AnyStep DEF Unharmed, Errors
  <1>2. Inv /\ [Next]_vars => Inv'
    BY StepInv
  <1> QED
    BY <1>1, <1>2, InitInv, PTL DEF Spec, ErrorsChangeNothing

-----------------------------------------------------------------------------
(* KEYS: what glob_match says yes to *)

\* m is the recursion of GlobMatch, from the end of the pattern back to place l.
Matching(pattern, str, l, m) ==
    m = [p \in l .. Len(pattern) + 1 |->
            {s \in 1 .. Len(str) + 1 :
                IF p > Len(pattern) THEN s > Len(str)
                ELSE IF pattern[p] = "*"
                THEN p = Len(pattern) \/ \E t \in s .. Len(str) : t \in m[p + 1]
                ELSE /\ s <= Len(str)
                     /\ pattern[p] \in {"?", str[s]}
                     /\ s + 1 \in m[p + 1]}]

\* Such a function exists.
LEMMA MatchingExists ==
    ASSUME NEW pattern, Len(pattern) \in Nat, NEW str, Len(str) \in Nat
    PROVE  \E m : Matching(pattern, str, 1, m)
  <1>1. PICK n \in Nat : n = Len(pattern)
    OBVIOUS
  <1> DEFINE Row(p, next) == {s \in 1 .. Len(str) + 1 :
                                 IF p > n THEN s > Len(str)
                                 ELSE IF pattern[p] = "*"
                                 THEN p = n \/ \E t \in s .. Len(str) : t \in next
                                 ELSE /\ s <= Len(str)
                                      /\ pattern[p] \in {"?", str[s]}
                                      /\ s + 1 \in next}
             Rows(l, m) == m = [p \in l .. n + 1 |-> Row(p, m[p + 1])]
  <1>2. \A l, m : Matching(pattern, str, l, m) <=> Rows(l, m)
    BY <1>1 DEF Matching
  <1> HIDE DEF Row
  <1> DEFINE T == {k \in Nat : k <= n => \E m : Rows(n + 1 - k, m)}
  <1>3. 0 \in T
    <2> DEFINE m == [p \in n + 1 .. n + 1 |-> Row(n + 1, {})]
    <2>1. Row(n + 1, {}) = Row(n + 1, m[n + 2])
      BY DEF Row
    <2>2. \A p \in n + 1 .. n + 1 : p = n + 1
      OBVIOUS
    <2>3. m = [p \in n + 1 .. n + 1 |-> Row(p, m[p + 1])]
      <3> DEFINE g == [p \in n + 1 .. n + 1 |-> Row(p, m[p + 1])]
      <3>1. \A p \in n + 1 .. n + 1 : m[p] = g[p]
        BY <2>1, <2>2
      <3> QED
        BY <3>1
    <2> HIDE DEF m
    <2>4. n + 1 - 0 = n + 1
      OBVIOUS
    <2>5. Rows(n + 1 - 0, m)
      BY <2>3, <2>4
    <2> QED
      BY <2>5
  <1>4. ASSUME NEW k \in Nat, k \in T PROVE k + 1 \in T
    <2> SUFFICES ASSUME k + 1 <= n PROVE \E m : Rows(n + 1 - (k + 1), m)
      OBVIOUS
    <2>1. PICK l \in 1 .. n : l = n - k
      OBVIOUS
    <2>2. PICK m : Rows(l + 1, m)
      BY <1>4, <2>1
    <2> DEFINE g == [p \in l .. n + 1 |-> IF p = l THEN Row(l, m[l + 1]) ELSE m[p]]
    <2>3. ASSUME NEW p \in l .. n + 1 PROVE g[p] = Row(p, g[p + 1])
      <3>1. CASE p = l
        <4>1. g[p + 1] = m[l + 1]
          BY <3>1
        <4> QED
          BY <3>1, <4>1
      <3>2. CASE p # l /\ p <= n
        <4>1. p \in l + 1 .. n + 1 /\ p + 1 \in l .. n + 1 /\ p + 1 # l
          BY <3>2
        <4>2. g[p] = m[p] /\ g[p + 1] = m[p + 1]
          BY <3>2, <4>1
        <4> QED
          BY <2>2, <4>1, <4>2
      <3>3. CASE p = n + 1
        <4>1. p \in l + 1 .. n + 1 /\ p # l
          BY <3>3
        <4>2. g[p] = Row(p, m[p + 1])
          BY <2>2, <4>1
        <4>3. \A a, b : Row(p, a) = Row(p, b)
          BY <3>3 DEF Row
        <4> QED
          BY <4>2, <4>3
      <3> QED
        BY <3>1, <3>2, <3>3
    <2>4. g = [p \in l .. n + 1 |-> g[p]]
      OBVIOUS
    <2> HIDE DEF g
    <2>5. Rows(l, g)
      BY <2>3, <2>4
    <2> QED
      BY <2>1, <2>5
  <1> HIDE DEF T
  <1>5. Nat \subseteq T
    BY <1>3, <1>4, Climb
  <1>6. n \in T
    BY <1>5
  <1>7. \E m : Rows(1, m)
    BY <1>6 DEF T
  <1> QED
    BY <1>2, <1>7

\* Each place of the recursion, and what GlobMatch reads from it.
LEMMA MatchingIs ==
    ASSUME NEW pattern, Len(pattern) \in Nat, NEW str, Len(str) \in Nat
    PROVE  \E m : /\ Matching(pattern, str, 1, m)
                  /\ GlobMatch(pattern, str) <=> 1 \in m[1]
  <1> DEFINE C == CHOOSE m : Matching(pattern, str, 1, m)
  <1>1. Matching(pattern, str, 1, C)
    BY MatchingExists
  <1>2. GlobMatch(pattern, str) <=> 1 \in C[1]
    BY DEF GlobMatch, Matching
  <1> QED
    BY <1>1, <1>2

\* Each way GlobMatch goes on at place p of the pattern, s of the name.
LEMMA MatchingAt ==
    ASSUME NEW pattern, Len(pattern) \in Nat, NEW str, Len(str) \in Nat,
           NEW m, Matching(pattern, str, 1, m),
           NEW p \in 1 .. Len(pattern) + 1, NEW s \in 1 .. Len(str) + 1
    PROVE  /\ p > Len(pattern) => (s \in m[p] <=> s = Len(str) + 1)
           /\ p <= Len(pattern) /\ pattern[p] = "*" =>
                 (s \in m[p] <=> \/ p = Len(pattern)
                                 \/ \E t \in s .. Len(str) : t \in m[p + 1])
           /\ p <= Len(pattern) /\ pattern[p] # "*" =>
                 (s \in m[p] <=> /\ s <= Len(str)
                                 /\ pattern[p] \in {"?", str[s]}
                                 /\ s + 1 \in m[p + 1])
  <1>1. m[p] = {x \in 1 .. Len(str) + 1 :
                   IF p > Len(pattern) THEN x > Len(str)
                   ELSE IF pattern[p] = "*"
                   THEN p = Len(pattern) \/ \E t \in x .. Len(str) : t \in m[p + 1]
                   ELSE /\ x <= Len(str)
                        /\ pattern[p] \in {"?", str[x]}
                        /\ x + 1 \in m[p + 1]}
    BY DEF Matching
  <1>2. CASE p > Len(pattern)
    BY <1>1, <1>2
  <1>3. CASE p <= Len(pattern) /\ pattern[p] = "*"
    BY <1>1, <1>3
  <1>4. CASE p <= Len(pattern) /\ pattern[p] # "*"
    BY <1>1, <1>4
  <1> QED
    BY <1>2, <1>3, <1>4

\* cut divides str, from place a on, into a piece for each of pattern[l + 1],
\* pattern[l + 2], ...  With l = 0 and a = 0 this is Fits.
Cuts(pattern, str, l, a, cut) ==
    LET n == Len(pattern)
    IN  /\ cut \in [l .. n -> 0 .. Len(str)]
        /\ cut[l] = a /\ cut[n] = Len(str)
        /\ \A i \in l + 1 .. n :
              IF pattern[i] = "*" THEN cut[i] >= cut[i - 1]
              ELSE /\ cut[i] = cut[i - 1] + 1
                   /\ pattern[i] \in {"?", str[cut[i]]}

\* A piece more in front.
LEMMA CutInFront ==
    ASSUME NEW pattern, Len(pattern) \in Nat, NEW str, Len(str) \in Nat,
           NEW l \in 1 .. Len(pattern), NEW a \in 0 .. Len(str), NEW b \in 0 .. Len(str),
           NEW cut, Cuts(pattern, str, l, b, cut),
           IF pattern[l] = "*" THEN b >= a
           ELSE b = a + 1 /\ pattern[l] \in {"?", str[b]}
    PROVE  \E longer : Cuts(pattern, str, l - 1, a, longer)
  <1> DEFINE n == Len(pattern)
             g == [i \in l - 1 .. n |-> IF i = l - 1 THEN a ELSE cut[i]]
  <1>1. /\ cut \in [l .. n -> 0 .. Len(str)]
        /\ cut[l] = b /\ cut[n] = Len(str)
        /\ \A i \in l + 1 .. n :
              IF pattern[i] = "*" THEN cut[i] >= cut[i - 1]
              ELSE /\ cut[i] = cut[i - 1] + 1
                   /\ pattern[i] \in {"?", str[cut[i]]}
    BY DEF Cuts
  <1>2. \A i \in l .. n : i \in l - 1 .. n /\ i # l - 1
    OBVIOUS
  <1>3. g \in [l - 1 .. n -> 0 .. Len(str)]
    <2>1. ASSUME NEW i \in l - 1 .. n, i # l - 1 PROVE cut[i] \in 0 .. Len(str)
      <3>1. i \in l .. n
        BY <2>1
      <3> QED
        BY <1>1, <3>1
    <2> QED
      BY <2>1
  <1>4. g[l - 1] = a /\ \A i \in l .. n : g[i] = cut[i]
    BY <1>2
  <1>5. g[n] = Len(str)
    BY <1>1, <1>4
  <1> HIDE DEF g
  <1>6. ASSUME NEW i \in l .. n
        PROVE  IF pattern[i] = "*" THEN g[i] >= g[i - 1]
               ELSE /\ g[i] = g[i - 1] + 1
                    /\ pattern[i] \in {"?", str[g[i]]}
    <2>1. CASE i = l
      BY <1>1, <1>4, <2>1
    <2>2. CASE i # l
      <3>1. i \in l + 1 .. n /\ i - 1 \in l .. n
        BY <2>2
      <3> QED
        BY <1>1, <1>4, <3>1
    <2> QED
      BY <2>1, <2>2
  <1>7. l - 1 + 1 = l
    OBVIOUS
  <1> QED
    BY <1>3, <1>4, <1>5, <1>6, <1>7 DEF Cuts

\* What GlobMatch says yes to can be cut.
LEMMA MatchedCanBeCut ==
    ASSUME NEW pattern, Len(pattern) \in Nat, NEW str, Len(str) \in Nat,
           NEW m, Matching(pattern, str, 1, m)
    PROVE  \A s \in 1 .. Len(str) + 1 :
              s \in m[1] => \E cut : Cuts(pattern, str, 0, s - 1, cut)
  <1>1. PICK n \in Nat : n = Len(pattern)
    OBVIOUS
  <1> DEFINE T == {k \in Nat : k <= n =>
                      \A s \in 1 .. Len(str) + 1 :
                         s \in m[n + 1 - k] =>
                            \E cut : Cuts(pattern, str, n - k, s - 1, cut)}
  <1>2. 0 \in T
    <2> SUFFICES ASSUME NEW s \in 1 .. Len(str) + 1, s \in m[n + 1]
                 PROVE  \E cut : Cuts(pattern, str, n, s - 1, cut)
      <3>1. n + 1 - 0 = n + 1 /\ n - 0 = n
        OBVIOUS
      <3> QED
        BY <3>1
    <2>1. s = Len(str) + 1
      BY <1>1, MatchingAt
    <2> DEFINE cut == [i \in n .. n |-> Len(str)]
    <2>2. cut \in [n .. n -> 0 .. Len(str)] /\ cut[n] = Len(str) /\ n + 1 .. n = {}
      OBVIOUS
    <2> HIDE DEF cut
    <2>3. Cuts(pattern, str, n, s - 1, cut)
      BY <1>1, <2>1, <2>2 DEF Cuts
    <2> QED
      BY <2>3
  <1>3. ASSUME NEW k \in Nat, k \in T PROVE k + 1 \in T
    <2> SUFFICES ASSUME k + 1 <= n, NEW s \in 1 .. Len(str) + 1, s \in m[n + 1 - (k + 1)]
                 PROVE  \E cut : Cuts(pattern, str, n - (k + 1), s - 1, cut)
      OBVIOUS
    <2>1. PICK l \in 1 .. n : l = n - k
      OBVIOUS
    <2>2. l + 1 = n + 1 - k /\ l = n + 1 - (k + 1) /\ l - 1 = n - (k + 1)
      BY <2>1
    <2>3. ASSUME NEW t \in 1 .. Len(str) + 1, t \in m[l + 1]
          PROVE  \E cut : Cuts(pattern, str, l, t - 1, cut)
      BY <1>3, <2>1, <2>2, <2>3
    <2>4. s \in m[l] /\ s - 1 \in 0 .. Len(str)
      BY <2>2
    <2>5. CASE pattern[l] = "*" /\ l = n
      <3> DEFINE cut == [i \in n .. n |-> Len(str)]
      <3>1. cut \in [n .. n -> 0 .. Len(str)] /\ cut[n] = Len(str) /\ n + 1 .. n = {}
        OBVIOUS
      <3> HIDE DEF cut
      <3>2. Cuts(pattern, str, l, Len(str), cut)
        BY <1>1, <2>5, <3>1 DEF Cuts
      <3>3. Len(str) \in 0 .. Len(str) /\ Len(str) >= s - 1
        OBVIOUS
      <3>4. \E longer : Cuts(pattern, str, l - 1, s - 1, longer)
        BY <1>1, <2>4, <2>5, <3>2, <3>3, CutInFront
      <3> QED
        BY <2>2, <3>4
    <2>6. CASE pattern[l] = "*" /\ l # n
      <3>1. PICK t \in s .. Len(str) : t \in m[l + 1]
        BY <1>1, <2>4, <2>6, MatchingAt
      <3>2. PICK cut : Cuts(pattern, str, l, t - 1, cut)
        BY <2>3, <3>1
      <3>3. t - 1 \in 0 .. Len(str) /\ t - 1 >= s - 1
        BY <3>1
      <3>4. \E longer : Cuts(pattern, str, l - 1, s - 1, longer)
        BY <1>1, <2>4, <2>6, <3>2, <3>3, CutInFront
      <3> QED
        BY <2>2, <3>4
    <2>7. CASE pattern[l] # "*"
      <3>1. s <= Len(str) /\ pattern[l] \in {"?", str[s]} /\ s + 1 \in m[l + 1]
        BY <1>1, <2>4, <2>7, MatchingAt
      <3>2. s + 1 \in 1 .. Len(str) + 1 /\ s \in 0 .. Len(str)
            /\ s + 1 - 1 = s /\ s = s - 1 + 1
        BY <3>1
      <3>3. PICK cut : Cuts(pattern, str, l, s, cut)
        BY <2>3, <3>1, <3>2
      <3>4. \E longer : Cuts(pattern, str, l - 1, s - 1, longer)
        BY <1>1, <2>4, <2>7, <3>1, <3>2, <3>3, CutInFront
      <3> QED
        BY <2>2, <3>4
    <2> QED
      BY <2>5, <2>6, <2>7
  <1> HIDE DEF T
  <1>4. Nat \subseteq T
    BY <1>2, <1>3, Climb
  <1>5. n \in T
    BY <1>4
  <1>6. n + 1 - n = 1 /\ n - n = 0
    OBVIOUS
  <1> QED
    BY <1>5, <1>6 DEF T

\* Pieces do not run backwards: after one that ends with the name, all are
\* empty, and so taken by stars.
LEMMA StarsAfterTheEnd ==
    ASSUME NEW pattern, Len(pattern) \in Nat, NEW str, Len(str) \in Nat,
           NEW a, NEW cut, Cuts(pattern, str, 0, a, cut),
           NEW p \in 1 .. Len(pattern), p < Len(pattern), pattern[p] = "*",
           cut[p] = Len(str)
    PROVE  EndsInStars(pattern)
  <1>1. PICK n \in Nat : n = Len(pattern)
    OBVIOUS
  <1>2. /\ \A i \in 0 .. n : cut[i] \in 0 .. Len(str)
        /\ \A i \in 1 .. n :
              IF pattern[i] = "*" THEN cut[i] >= cut[i - 1]
              ELSE /\ cut[i] = cut[i - 1] + 1
                   /\ pattern[i] \in {"?", str[cut[i]]}
    BY <1>1 DEF Cuts
  <1> DEFINE T == {k \in Nat : p + k <= n => cut[p + k] = Len(str)}
  <1>3. 0 \in T
    <2>1. p + 0 = p
      OBVIOUS
    <2> QED
      BY <2>1
  <1>4. ASSUME NEW k \in Nat, k \in T PROVE k + 1 \in T
    <2> SUFFICES ASSUME p + (k + 1) <= n PROVE cut[p + (k + 1)] = Len(str)
      OBVIOUS
    <2>1. PICK i \in 1 .. n : i = p + (k + 1) /\ i - 1 = p + k
      BY <1>1
    <2>2. cut[i - 1] = Len(str)
      BY <1>4, <2>1
    <2>3. cut[i] \in 0 .. Len(str) /\ cut[i] >= cut[i - 1]
      BY <1>2, <2>1, <2>2
    <2> QED
      BY <2>1, <2>2, <2>3
  <1> HIDE DEF T
  <1>5. Nat \subseteq T
    BY <1>3, <1>4, Climb
  <1>6. \A i \in p .. n : cut[i] = Len(str)
    <2> SUFFICES ASSUME NEW i \in p .. n PROVE cut[i] = Len(str)
      OBVIOUS
    <2>1. i - p \in T /\ p + (i - p) = i /\ i <= n
      BY <1>5
    <2> QED
      BY <2>1 DEF T
  <1>7. \A i \in p + 1 .. n : pattern[i] = "*"
    <2> SUFFICES ASSUME NEW i \in p + 1 .. n PROVE pattern[i] = "*"
      OBVIOUS
    <2>1. i \in 1 .. n /\ i \in p .. n /\ i - 1 \in p .. n
      OBVIOUS
    <2>2. cut[i] = Len(str) /\ cut[i - 1] = Len(str)
      BY <1>6, <2>1
    <2> QED
      BY <1>2, <2>1, <2>2
  <1>8. pattern[n] = "*" /\ pattern[n - 1] = "*" /\ n >= 2
    <2>1. n \in p + 1 .. n /\ n >= 2 /\ (n - 1 = p \/ n - 1 \in p + 1 .. n)
      BY <1>1
    <2> QED
      BY <1>7, <2>1
  <1> QED
    BY <1>1, <1>8 DEF EndsInStars

\* What can be cut, GlobMatch says yes to, but for two stars at the end.
LEMMA CutIsMatched ==
    ASSUME NEW pattern, Len(pattern) \in Nat, NEW str, Len(str) \in Nat,
           NEW m, Matching(pattern, str, 1, m), ~EndsInStars(pattern),
           NEW a, NEW cut, Cuts(pattern, str, 0, a, cut)
    PROVE  a + 1 \in m[1]
  <1>1. PICK n \in Nat : n = Len(pattern)
    OBVIOUS
  <1>2. /\ \A i \in 0 .. n : cut[i] \in 0 .. Len(str)
        /\ cut[0] = a /\ cut[n] = Len(str)
        /\ \A i \in 1 .. n :
              IF pattern[i] = "*" THEN cut[i] >= cut[i - 1]
              ELSE /\ cut[i] = cut[i - 1] + 1
                   /\ pattern[i] \in {"?", str[cut[i]]}
    BY <1>1 DEF Cuts
  <1> DEFINE T == {k \in Nat : k <= n => cut[n - k] + 1 \in m[n + 1 - k]}
  <1>3. 0 \in T
    <2>1. n - 0 = n /\ n + 1 - 0 = n + 1
      OBVIOUS
    <2>2. Len(str) + 1 \in m[n + 1]
      BY <1>1, MatchingAt
    <2> QED
      BY <1>2, <2>1, <2>2
  <1>4. ASSUME NEW k \in Nat, k \in T PROVE k + 1 \in T
    <2> SUFFICES ASSUME k + 1 <= n
                 PROVE  cut[n - (k + 1)] + 1 \in m[n + 1 - (k + 1)]
      OBVIOUS
    <2>1. PICK p \in 1 .. n : p = n - k
      OBVIOUS
    <2>2. p + 1 = n + 1 - k /\ p = n + 1 - (k + 1) /\ p - 1 = n - (k + 1)
      BY <2>1
    <2>3. PICK s \in 1 .. Len(str) + 1 : s = cut[p - 1] + 1
      <3>1. p - 1 \in 0 .. n
        OBVIOUS
      <3> QED
        BY <1>2, <3>1
    <2>4. PICK t \in 1 .. Len(str) + 1 : t = cut[p] + 1
      <3>1. p \in 0 .. n
        OBVIOUS
      <3> QED
        BY <1>2, <3>1
    <2>5. t \in m[p + 1]
      BY <1>4, <2>1, <2>2, <2>4
    <2>6. s \in m[p]
      <3>1. CASE pattern[p] = "*" /\ p = n
        BY <1>1, <3>1, MatchingAt
      <3>2. CASE pattern[p] = "*" /\ p # n
        <4>1. cut[p] # Len(str)
          BY <1>1, <3>2, StarsAfterTheEnd
        <4>2. t \in s .. Len(str)
          BY <1>2, <2>3, <2>4, <3>2, <4>1
        <4> QED
          BY <1>1, <2>5, <3>2, <4>2, MatchingAt
      <3>3. CASE pattern[p] # "*"
        <4>1. cut[p] = cut[p - 1] + 1 /\ pattern[p] \in {"?", str[cut[p]]}
          BY <1>2, <3>3
        <4>2. cut[p] = s /\ t = s + 1 /\ s <= Len(str) /\ pattern[p] \in {"?", str[s]}
          BY <2>3, <2>4, <4>1
        <4>3. s + 1 \in m[p + 1]
          BY <2>5, <4>2
        <4>4. p \in 1 .. Len(pattern) + 1 /\ p <= Len(pattern)
          BY <1>1
        <4> QED
          BY <3>3, <4>2, <4>3, <4>4, MatchingAt
      <3> QED
        BY <3>1, <3>2, <3>3
    <2> QED
      BY <2>2, <2>3, <2>6
  <1> HIDE DEF T
  <1>5. Nat \subseteq T
    BY <1>3, <1>4, Climb
  <1>6. n \in T
    BY <1>5
  <1>7. n + 1 - n = 1 /\ n - n = 0
    OBVIOUS
  <1> QED
    BY <1>2, <1>6, <1>7 DEF T

\* glob_match says yes only to the names that fit, and to all of them unless
\* the pattern ends in two stars.
LEMMA GlobMatchIs ==
    ASSUME NEW pattern, Len(pattern) \in Nat, NEW str, Len(str) \in Nat
    PROVE  /\ GlobMatch(pattern, str) => Fits(pattern, str)
           /\ Fits(pattern, str) /\ ~EndsInStars(pattern) => GlobMatch(pattern, str)
  <1>1. PICK m : /\ Matching(pattern, str, 1, m)
                 /\ GlobMatch(pattern, str) <=> 1 \in m[1]
    BY MatchingIs
  <1>2. Fits(pattern, str) <=> \E cut : Cuts(pattern, str, 0, 0, cut)
    <2>1. 0 + 1 = 1
      OBVIOUS
    <2> QED
      BY <2>1 DEF Fits, Cuts
  <1>3. 1 \in m[1] => \E cut : Cuts(pattern, str, 0, 0, cut)
    <2>1. 1 \in 1 .. Len(str) + 1 /\ 1 - 1 = 0
      OBVIOUS
    <2> QED
      BY <1>1, <2>1, MatchedCanBeCut
  <1>4. ASSUME ~EndsInStars(pattern), NEW cut, Cuts(pattern, str, 0, 0, cut)
        PROVE  1 \in m[1]
    <2>1. 0 + 1 \in m[1]
      BY <1>1, <1>4, CutIsMatched
    <2> QED
      BY <2>1
  <1> QED
    BY <1>1, <1>2, <1>3, <1>4

\* KEYS lists stored keys whose names fit the pattern, and misses one only
\* under a pattern that ends in two stars (keys, glob_match, commands.cpp).
THEOREM KeysListed == Spec => KeysListsFitting
  <1>1. ASSUME NEW p \in Patterns, KeysMatching(p)
        PROVE  LET fitting == {k \in Keys : db[k] # Nil /\ Fits(p, NameOf[k])}
               IN  /\ reply'.names \subseteq fitting
                   /\ reply'.n = Cardinality(reply'.names)
                   /\ ~EndsInStars(p) => reply'.names = fitting
    <2> DEFINE found   == {k \in Matched(p) : db[k] # Nil}
               fitting == {k \in Keys : db[k] # Nil /\ Fits(p, NameOf[k])}
    <2>1. reply'.names = found /\ reply'.n = Cardinality(found)
      BY <1>1 DEF KeysMatching, Listing, Reply
    <2>2. ASSUME NEW k \in Keys
          PROVE  /\ GlobMatch(p, NameOf[k]) => Fits(p, NameOf[k])
                 /\ Fits(p, NameOf[k]) /\ ~EndsInStars(p) => GlobMatch(p, NameOf[k])
      <3>1. Len(p) \in Nat /\ Len(NameOf[k]) \in Nat
        BY TextsAreSeqs, LenProperties
      <3> QED
        BY <3>1, GlobMatchIs
    <2>3. found \subseteq fitting /\ (~EndsInStars(p) => found = fitting)
      BY <2>2 DEF Matched
    <2> QED
      BY <2>1, <2>3
  <1>2. [Next]_vars
           => [\A p \in Patterns :
                  KeysMatching(p) =>
                     LET fitting == {k \in Keys : db[k] # Nil /\ Fits(p, NameOf[k])}
                     IN  /\ reply'.names \subseteq fitting
                         /\ reply'.n = Cardinality(reply'.names)
                         /\ ~EndsInStars(p) => reply'.names = fitting]_vars
    BY <1>1
  <1> QED
    BY <1>2, PTL DEF Spec, KeysListsFitting
=============================================================================
