---------------------------- MODULE MCLazyExpiry ----------------------------
(* Small instances of the keyspace and of its eager abstraction. *)
EXTENDS LazyExpiry

CONSTANTS e1, e2, f1, f2, m1, m2, k1, k2

\* The strings "1", "7" (the largest long long) and "x", and the empty string.
MCInputs == {[len |-> 1, num |-> 1], [len |-> 1, num |-> 7], [len |-> 1, num |-> NotNum],
             [len |-> 0, num |-> 0]}
OneInput == {[len |-> 1, num |-> 1]}
MCDeltas == {-8, 3}
MCSecs == {-1, 1}
MCIndices == {-1, 0, 1}
MCScores == {0, 1}
TinyLLMin == -1
MCLLMin == -8
MCRank == [m \in Members |-> IF m = m1 THEN 1 ELSE 2]

\* Every pattern of up to two characters and some of three, for names of one
\* and two letters.
MCNameOf == [k \in Keys |-> IF k = k1 THEN <<"a", "b">> ELSE <<"b">>]
MCPatterns ==
    UNION {[1 .. n -> {"a", "b", "*", "?"}] : n \in 0 .. 2}
        \cup {<<"a", "*", "b">>, <<"*", "?", "b">>, <<"*", "b", "*">>,
              <<"b", "*", "*">>, <<"?", "*", "?">>}
FewPatterns == {<<"*">>, <<"b">>}
=============================================================================
