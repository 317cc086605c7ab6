-------------------------------- MODULE Glob --------------------------------
(***************************************************************************)
(* glob_match (commands.cpp), the pattern of KEYS: * stands for any text   *)
(* and ? for any one character.  Patterns and names are sequences of       *)
(* characters.                                                             *)
(***************************************************************************)
EXTENDS Integers, Sequences

\* BUG: a star takes at least one character.
GlobMatchHungryStar(pattern, str) ==
    LET n == Len(pattern)
        starts[p \in 1 .. n + 1] ==
            {s \in 1 .. Len(str) + 1 :
                IF p > n THEN s > Len(str)
                ELSE IF pattern[p] = "*"
                THEN p = n \/ \E t \in s + 1 .. Len(str) : t \in starts[p + 1]
                ELSE /\ s <= Len(str)
                     /\ pattern[p] \in {"?", str[s]}
                     /\ s + 1 \in starts[p + 1]}
    IN  1 \in starts[1]

\* A star that ends the pattern takes the rest; another one tries the rest of
\* the pattern from each character that is left, but not from the end.
\* starts[p] holds the places of the name where what is left of the pattern at
\* p matches all that is left of the name.
GlobMatch(pattern, str) ==
    LET n == Len(pattern)
        starts[p \in 1 .. n + 1] ==
            {s \in 1 .. Len(str) + 1 :
                IF p > n THEN s > Len(str)
                ELSE IF pattern[p] = "*"
                THEN p = n \/ \E t \in s .. Len(str) : t \in starts[p + 1]
                ELSE /\ s <= Len(str)
                     /\ pattern[p] \in {"?", str[s]}
                     /\ s + 1 \in starts[p + 1]}
    IN  1 \in starts[1]

\* The meaning of a pattern: the name can be cut into one piece for each of
\* its characters.  cut[i] is where the i-th piece ends.
Fits(pattern, str) ==
    LET n == Len(pattern)
    IN  \E cut \in [0 .. n -> 0 .. Len(str)] :
            /\ cut[0] = 0 /\ cut[n] = Len(str)
            /\ \A i \in 1 .. n :
                  IF pattern[i] = "*" THEN cut[i] >= cut[i - 1]
                  ELSE /\ cut[i] = cut[i - 1] + 1
                       /\ pattern[i] \in {"?", str[cut[i]]}

\* Two stars at the end: the first one leaves nothing to the second only if
\* the name has no more characters, and then glob_match says no.
EndsInStars(pattern) ==
    LET n == Len(pattern) IN n >= 2 /\ pattern[n] = "*" /\ pattern[n - 1] = "*"
=============================================================================
