------------------------------- MODULE TTLMap -------------------------------
(***************************************************************************)
(* The abstract keyspace: a map in which a key disappears at the very      *)
(* moment its deadline is reached.  A command that meets key k sees        *)
(* live[k] and nothing else, and every count and listing is of live keys:  *)
(* this is the README's promise that a command "proceeds as if the key     *)
(* never existed".                                                         *)
(*                                                                         *)
(* What a command does to the one object it meets is a parameter:          *)
(* Outcome(o, r, t) holds when r = [obj, reply] is a possible result of    *)
(* some command on o at time t.  Expiry is one too: Dead(o, t) says that   *)
(* o's deadline has been reached at time t.                                *)
(***************************************************************************)
EXTENDS FiniteSets, Replies

CONSTANTS Keys, Nil, StartMs, MaxMs, Outcome(_, _, _), Dead(_, _)

VARIABLES live, now, reply

vars == <<live, now, reply>>

LiveKeys == {k \in Keys : live[k] # Nil}

Init == /\ live = [k \in Keys |-> Nil]
        /\ now = StartMs
        /\ reply = Simple("none")

\* A command on one key; the others are not touched.
OneKey(k) ==
    /\ live' = [live EXCEPT ![k] = live'[k]]
    /\ Outcome(live[k], [obj |-> live'[k], reply |-> reply'], now)
    /\ UNCHANGED now

Exists(ks) ==
    /\ reply' = Integer(Cardinality({i \in DOMAIN ks : live[ks[i]] # Nil}))
    /\ UNCHANGED <<live, now>>

Del(K) ==
    /\ live' = [k \in Keys |-> IF k \in K THEN Nil ELSE live[k]]
    /\ reply' = Integer(Cardinality(K \cap LiveKeys))
    /\ UNCHANGED now

DbSize ==
    /\ reply' = Integer(Cardinality(LiveKeys))
    /\ UNCHANGED <<live, now>>

KeysMatching(K) ==
    /\ reply' = Listing(Cardinality(K \cap LiveKeys), K \cap LiveKeys)
    /\ UNCHANGED <<live, now>>

FlushDb ==
    /\ live' = [k \in Keys |-> Nil]
    /\ reply' = OK
    /\ UNCHANGED now

\* Time passes and takes with it the keys whose deadline it reaches.
Tick ==
    /\ now < MaxMs
    /\ now' = now + 1
    /\ live' = [k \in Keys |-> IF Dead(live[k], now') THEN Nil ELSE live[k]]
    /\ UNCHANGED reply

Next == \/ \E k \in Keys : OneKey(k)
        \/ \E k1, k2 \in Keys : Exists(<<k1, k2>>)
        \/ \E K \in SUBSET Keys : Del(K) \/ KeysMatching(K)
        \/ DbSize \/ FlushDb \/ Tick

Spec == Init /\ [][Next]_vars
=============================================================================
