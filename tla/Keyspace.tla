------------------------------ MODULE Keyspace ------------------------------
(***************************************************************************)
(* The command handlers over g_dict, with lazy expiry.                     *)
(*                                                                         *)
(* db is g_dict: the object stored under each key, Nil for none.  An       *)
(* expired object stays in db until somebody runs check_expiry on its key. *)
(* now is the clock now_ms() reads; it moves between commands.  reply is   *)
(* what the last handler answered.                                         *)
(*                                                                         *)
(* One action per handler.  A handler runs to completion on the event-loop *)
(* thread.  SweepExpire is the sweep thread's check_expiry, taken here as  *)
(* one atomic step; SweepRace splits it.                                   *)
(***************************************************************************)
EXTENDS Objects, Glob

CONSTANTS
    Keys,
    StartMs,        \* the clock when the server starts
    MaxMs,          \* bound on the clock
    SecMs,          \* milliseconds in a second (1000)
    Inputs,         \* the strings clients send
    Deltas,         \* the numbers clients give INCRBY and DECRBY
    Secs,           \* the seconds clients give EXPIRE
    Indices,        \* the indices clients give LRANGE, LINDEX and ZRANGE
    Patterns,       \* the patterns clients give KEYS
    NameOf,         \* key -> its characters
    MaxLen,         \* bound on the length of strings and lists
    RangeMax        \* size of LRANGE's on-stack array (65536)

ASSUME ClockIsNat == /\ StartMs \in Nat /\ MaxMs \in Nat
                     /\ SecMs \in Nat \ {0}
ASSUME InputsAreStrs == Inputs \subseteq Str
ASSUME DeltasAreLongLongs == Deltas \subseteq LLMin .. LLMax
\* No deadline computed from the clock is 0, the mark of "no TTL".
ASSUME DeadlinesArePositive ==
    /\ Secs \subseteq Int
    /\ \A n \in Secs : StartMs + n * SecMs > 0
ASSUME RangesAreInts == Indices \subseteq Int /\ RangeMax \in Nat
ASSUME MaxLenIsNat == MaxLen \in Nat
\* Patterns and names are sequences of characters.
ASSUME TextsAreSeqs ==
    /\ \A p \in Patterns : p \in Seq(Range(p))
    /\ \A k \in Keys : NameOf[k] \in Seq(Range(NameOf[k]))

VARIABLES db, now, reply

vars == <<db, now, reply>>

-----------------------------------------------------------------------------
(* What the clients send *)

\* One or two elements to push.
Pushes == {<<e>> : e \in Elems} \cup {<<e, f>> : e, f \in Elems}

\* Non-empty maps of fields to values and of members to scores.
HPairs == {p \in Hashes : Present(p) # {}}
ZPairs == {p \in ZSets : Present(p) # {}}

FieldSets  == SUBSET Fields \ {{}}
MemberSets == SUBSET Members \ {{}}

-----------------------------------------------------------------------------
(* Looking up and answering *)

\* check_expiry followed by dict_get.
Lookup(k) == Purge(db[k], now)

Respond(k, r) == /\ db' = [db EXCEPT ![k] = r.obj]
                 /\ reply' = r.reply
                 /\ UNCHANGED now

Init == /\ db = [k \in Keys |-> Nil]
        /\ now = StartMs
        /\ reply = Simple("none")

-----------------------------------------------------------------------------
(* Generic commands *)

Set(k, s)       == Respond(k, SetTo(s))
Type(k)         == Respond(k, TypeOf(Lookup(k)))

\* EXPIRE and PERSIST look the key up without check_expiry.
Expire(k, secs) == Respond(k, ExpireAt(db[k], now + secs * SecMs))
Persist(k)      == Respond(k, PersistOf(db[k]))
Ttl(k)          == Respond(k, TtlOf(db[k], now, SecMs))

\* DEL, DBSIZE and KEYS take the dictionary as it is.
Del(K) ==
    /\ db' = [k \in Keys |-> IF k \in K THEN Nil ELSE db[k]]
    /\ reply' = Integer(Cardinality({k \in K : db[k] # Nil}))
    /\ UNCHANGED now

DbSize ==
    /\ reply' = Integer(Cardinality({k \in Keys : db[k] # Nil}))
    /\ UNCHANGED <<db, now>>

Matched(pattern) == {k \in Keys : GlobMatch(pattern, NameOf[k])}

KeysMatching(pattern) ==
    LET found == {k \in Matched(pattern) : db[k] # Nil}
    IN  /\ reply' = Listing(Cardinality(found), found)
        /\ UNCHANGED <<db, now>>

\* BUG: EXISTS without check_expiry.
ExistsUnchecked(ks) ==
    /\ reply' = Integer(Cardinality({i \in DOMAIN ks : db[ks[i]] # Nil}))
    /\ UNCHANGED <<db, now>>

\* EXISTS checks expiry of each argument and counts repetitions.
Exists(ks) ==
    /\ db' = [k \in Keys |-> IF \E i \in DOMAIN ks : ks[i] = k
                             THEN Lookup(k) ELSE db[k]]
    /\ reply' = Integer(Cardinality({i \in DOMAIN ks : Lookup(ks[i]) # Nil}))
    /\ UNCHANGED now

FlushDb ==
    /\ db' = [k \in Keys |-> Nil]
    /\ reply' = OK
    /\ UNCHANGED now

-----------------------------------------------------------------------------
(* Strings *)

\* BUG: GET without check_expiry.
GetUnchecked(k) == Respond(k, GetOf(db[k]))

Get(k)       == Respond(k, GetOf(Lookup(k)))
SetNx(k, s)  == Respond(k, SetNxTo(Lookup(k), s))
AppendStr(k, s) == Respond(k, AppendTo(Lookup(k), s))
Strlen(k)    == Respond(k, StrlenOf(Lookup(k)))
Incr(k)      == Respond(k, IncrBy(Lookup(k), 1))
IncrByN(k, n) == Respond(k, IncrBy(Lookup(k), n))
Decr(k)      == Respond(k, IncrBy(Lookup(k), -1))
DecrByN(k, n) == Respond(k, IncrBy(Lookup(k), Wrap(-n)))

(* Lists *)

LPush(k, es)     == Respond(k, LPushTo(Lookup(k), es))
RPush(k, es)     == Respond(k, RPushTo(Lookup(k), es))
LPop(k)          == Respond(k, LPopOf(Lookup(k)))
RPop(k)          == Respond(k, RPopOf(Lookup(k)))
LLen(k)          == Respond(k, LLenOf(Lookup(k)))
LRange(k, i, j)  == Respond(k, LRangeOf(Lookup(k), i, j, RangeMax))
LIndex(k, i)     == Respond(k, LIndexOf(Lookup(k), i))

(* Hashes *)

HSet(k, pairs)  == Respond(k, HSetTo(Lookup(k), pairs))
HGet(k, f)      == Respond(k, HGetOf(Lookup(k), f))
HDel(k, fs)     == Respond(k, HDelOf(Lookup(k), fs))
HExists(k, f)   == Respond(k, HExistsOf(Lookup(k), f))
HLen(k)         == Respond(k, HLenOf(Lookup(k)))
HGetAll(k)      == Respond(k, HGetAllOf(Lookup(k)))
HKeys(k)        == Respond(k, HKeysOf(Lookup(k)))
HVals(k)        == Respond(k, HValsOf(Lookup(k)))

(* Sorted sets *)

ZAdd(k, pairs)      == Respond(k, ZAddTo(Lookup(k), pairs))
ZScore(k, m)        == Respond(k, ZScoreOf(Lookup(k), m))
ZRange(k, i, j, ws) == Respond(k, ZRangeOf(Lookup(k), i, j, ws))
ZRank(k, m)         == Respond(k, ZRankOf(Lookup(k), m))
ZCard(k)            == Respond(k, ZCardOf(Lookup(k)))
ZRem(k, ms)         == Respond(k, ZRemOf(Lookup(k), ms))

-----------------------------------------------------------------------------
(* The clock and the sweep *)

Tick == /\ now < MaxMs
        /\ now' = now + 1
        /\ UNCHANGED <<db, reply>>

SweepExpire(k) == /\ db' = [db EXCEPT ![k] = Lookup(k)]
                  /\ UNCHANGED <<now, reply>>

-----------------------------------------------------------------------------
(* The bounds MaxLen keep texts and lists finite. *)

RoomFor(k, type, n) ==
    LET o == Lookup(k)
    IN  IF o # Nil /\ o.type = type
        THEN MaxLen >= n + IF type = "string" THEN o.val[1].len ELSE Len(o.val)
        ELSE TRUE

StringNext(k) ==
    \/ Get(k) \/ Strlen(k) \/ Incr(k) \/ Decr(k)
    \/ \E s \in Inputs : \/ Set(k, s) \/ SetNx(k, s)
                         \/ RoomFor(k, "string", s.len) /\ AppendStr(k, s)
    \/ \E n \in Deltas : IncrByN(k, n) \/ DecrByN(k, n)

ListNext(k) ==
    \/ LPop(k) \/ RPop(k) \/ LLen(k)
    \/ \E es \in Pushes : /\ RoomFor(k, "list", Len(es))
                          /\ LPush(k, es) \/ RPush(k, es)
    \/ \E i \in Indices : LIndex(k, i)
    \/ \E i, j \in Indices : LRange(k, i, j)

HashNext(k) ==
    \/ HLen(k) \/ HGetAll(k) \/ HKeys(k) \/ HVals(k)
    \/ \E p \in HPairs : HSet(k, p)
    \/ \E f \in Fields : HGet(k, f) \/ HExists(k, f)
    \/ \E fs \in FieldSets : HDel(k, fs)

ZSetNext(k) ==
    \/ ZCard(k)
    \/ \E p \in ZPairs : ZAdd(k, p)
    \/ \E m \in Members : ZScore(k, m) \/ ZRank(k, m)
    \/ \E ms \in MemberSets : ZRem(k, ms)
    \/ \E i, j \in Indices, ws \in BOOLEAN : ZRange(k, i, j, ws)

GenericNext(k) ==
    \/ Type(k) \/ Persist(k) \/ Ttl(k)
    \/ \E n \in Secs : Expire(k, n)

Next ==
    \/ \E k \in Keys : \/ GenericNext(k) \/ StringNext(k) \/ ListNext(k)
                       \/ HashNext(k) \/ ZSetNext(k) \/ SweepExpire(k)
    \/ \E k1, k2 \in Keys : Exists(<<k1, k2>>)
    \/ \E K \in SUBSET Keys : Del(K)
    \/ \E p \in Patterns : KeysMatching(p)
    \/ DbSize \/ FlushDb \/ Tick

Spec == Init /\ [][Next]_vars

-----------------------------------------------------------------------------
(* Properties *)

\* Every key holds nothing or a well-formed object of one of the four types;
\* an expired object is well-formed too.
TypeOK == /\ db \in [Keys -> Objs \cup {Nil}]
          /\ now \in Nat

\* A list is never left empty: LPOP and RPOP delete the key with its last
\* element, and LPUSH and RPUSH create a list only to push on it.
NoEmptyList == \A k \in Keys :
    db[k] # Nil /\ db[k].type = "list" => db[k].val # << >>

\* A live key keeps its type and its deadline through every command but SET,
\* EXPIRE, PERSIST and removal: APPEND, INCR and the pushes work in place.
DeadlineIsKept ==
    [][\A k \in Keys :
          Lookup(k) # Nil /\ db'[k] # Nil =>
              \/ db'[k].exp = db[k].exp /\ db'[k].type = db[k].type
              \/ Persist(k)
              \/ \E n \in Secs : Expire(k, n)
              \/ \E s \in Inputs : Set(k, s)]_vars

\* A command that answers an error has changed nothing a client can see: no
\* key is created, and none is removed but those already past their deadline.
ErrorsChangeNothing ==
    [][now' = now /\ reply'.kind \in {WrongType.kind, NotInteger.kind}
          => \A k \in Keys : Purge(db'[k], now') = Lookup(k)]_vars

\* KEYS lists each stored key whose name fits the pattern, and no other, but
\* for patterns that end in two stars, which glob_match may take too narrowly.
KeysListsFitting ==
    [][\A p \in Patterns :
          KeysMatching(p) =>
              LET fitting == {k \in Keys : db[k] # Nil /\ Fits(p, NameOf[k])}
              IN  /\ reply'.names \subseteq fitting
                  /\ reply'.n = Cardinality(reply'.names)
                  /\ ~EndsInStars(p) => reply'.names = fitting]_vars
=============================================================================
