---------------------------- MODULE MCStructures ----------------------------
(* One value of each type on a few elements, fields and members. *)
EXTENDS Rdb

CONSTANTS f1, f2, f3, f4, m1, m2, m3, twin

\* f1, f2 and f3 collide in a table of two; f1 and f3 in one of four, too.
MCHash == [k \in Fields \cup Members |->
              IF k \in {f1, m1} THEN 1 ELSE IF k \in {f2, m2} THEN 3
              ELSE IF k \in {f3, m3} THEN 5 ELSE 2]

\* twin is m2 up to a NUL byte.
MCStrRank == [m \in Members |-> IF m = m1 THEN 1 ELSE IF m = m3 THEN 3 ELSE 2]
MCCStr == [m \in Members |-> IF m = twin THEN m2 ELSE m]
MCScores == {0, 1}
MCIndices == -3 .. 3
=============================================================================
