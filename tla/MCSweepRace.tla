---------------------------- MODULE MCSweepRace ----------------------------
(* The race on a few keys, entries, objects and tables. *)
EXTENDS SweepRace

CONSTANTS k1, k2, k3

\* k1 and k2 collide in a table of two buckets and part in one of four; k3 has
\* a bucket of its own.
MCHash == [k \in Keys |-> CASE k = k1 -> 0 [] k = k2 -> 2 [] k = k3 -> 1]

\* With the sweep EXPIRE is used on one key, the others are those that might go
\* with it.
OneDeadline == sweep_running => ttled \subseteq {k1}
=============================================================================
