----------------------------- MODULE LazyExpiry -----------------------------
(***************************************************************************)
(* What lazy expiry promises and where the code keeps the promise.         *)
(*                                                                         *)
(* The live map of a Keyspace state hides the expired objects db still     *)
(* holds.  Through it Keyspace implements TTLMap, the map whose keys       *)
(* disappear on time, except for the steps of Departure: the handlers that *)
(* go to the dictionary without check_expiry, when they meet an expired    *)
(* object.                                                                 *)
(***************************************************************************)
EXTENDS Keyspace

live == [k \in Keys |-> Lookup(k)]

Stale(K) == \E k \in K : Expired(db[k], now)

\* The results a command on one key may have when it meets object o.
Outcome(o, r, t) ==
    \/ r \in {GetOf(o), StrlenOf(o), TypeOf(o), PersistOf(o), TtlOf(o, t, SecMs),
              LPopOf(o), RPopOf(o), LLenOf(o),
              HLenOf(o), HGetAllOf(o), HKeysOf(o), HValsOf(o), ZCardOf(o)}
    \/ \E n \in Secs : LET e == ExpireAt(o, t + n * SecMs)
                        IN  r = [e EXCEPT !.obj = Purge(@, t)]
    \/ \E s \in Inputs : r \in {SetTo(s), SetNxTo(o, s), AppendTo(o, s)}
    \/ \E n \in Deltas \cup {1, -1} : r \in {IncrBy(o, n), IncrBy(o, Wrap(-n))}
    \/ \E es \in Pushes : r \in {LPushTo(o, es), RPushTo(o, es)}
    \/ \E i \in Indices : r = LIndexOf(o, i)
    \/ \E i, j \in Indices : r = LRangeOf(o, i, j, RangeMax)
    \/ \E p \in HPairs : r = HSetTo(o, p)
    \/ \E f \in Fields : r \in {HGetOf(o, f), HExistsOf(o, f)}
    \/ \E fs \in FieldSets : r = HDelOf(o, fs)
    \/ \E p \in ZPairs : r = ZAddTo(o, p)
    \/ \E m \in Members : r \in {ZScoreOf(o, m), ZRankOf(o, m)}
    \/ \E ms \in MemberSets : r = ZRemOf(o, ms)
    \/ \E i, j \in Indices, ws \in BOOLEAN : r = ZRangeOf(o, i, j, ws)

Abs == INSTANCE TTLMap WITH Dead <- Expired

Departure ==
    \/ \E k \in Keys : /\ Stale({k})
                       /\ Persist(k) \/ \E n \in Secs : Expire(k, n)
    \/ \E K \in SUBSET Keys : Stale(K) /\ Del(K)
    \/ \E p \in Patterns : Stale(Matched(p)) /\ KeysMatching(p)
    \/ Stale(Keys) /\ DbSize

\* Lazy expiry is invisible: but for the departures, every step of the
\* handlers, the sweep and the clock is a step of the map whose keys vanish
\* on time, or changes nothing a client can see (commands.cpp, expiry.cpp).
EagerExceptDepartures ==
    Abs!Init /\ [][Abs!Next \/ Departure]_<<live, now, reply>>

-----------------------------------------------------------------------------

\* The README's promise for EXPIRE and PERSIST: the command proceeds "as if
\* the key never existed", so a key past its deadline is not brought back.
ExpiredStaysGone ==
    [][\A k \in Keys : /\ Lookup(k) = Nil
                       /\ Persist(k) \/ \E n \in Secs : Expire(k, n)
                       => Lookup(k)' = Nil]_vars
=============================================================================
