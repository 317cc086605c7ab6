--------------------------- MODULE SkipListProofs ---------------------------
(***************************************************************************)
(* Proofs about the skip list, for every number of levels, every choice of *)
(* them, and every score and member, those that compare with nothing or as *)
(* equal included.                                                         *)
(*                                                                         *)
(* A skip list is a Tower: there is an order of its nodes, pos, that every *)
(* level follows, each pointer leading to the next node that has the level. *)
(* Nothing says that pos is the order of the scores: with NaN it need not  *)
(* be.  What the search finds is then still a place of the order, the same *)
(* on every level (UpdateIs), so that sl_delete unlinks a node where it is *)
(* linked and sl_insert links one where it belongs.  Walks are functions by *)
(* recursion, which exist by induction (Climb) and end because each step   *)
(* goes up in the order (WalkIs, RunIs).                                   *)
(***************************************************************************)
EXTENDS SkipList, SequenceLemmas

-----------------------------------------------------------------------------
(* The nodes of a level *)

\* The nodes that have level i.
On(sl, i) == {a \in DOMAIN sl.node : i \in DOMAIN sl.node[a].forward}

\* b is the next one after a in S, Null if there is none.
NextIn(S, pos, a, b) ==
    \/ b = Null /\ \A c \in S : pos[c] <= pos[a]
    \/ /\ b \in S /\ pos[a] < pos[b]
       /\ \A c \in S : pos[c] <= pos[a] \/ pos[b] <= pos[c]

\* nx leads through S in the order of pos, from 0 on.
Strand(S, pos, nx) ==
    /\ S \subseteq Nat /\ IsFiniteSet(S) /\ 0 \in S /\ pos[0] = 0
    /\ \A a \in S : pos[a] \in Nat
    /\ \A a, b \in S : pos[a] = pos[b] => a = b
    /\ \A a \in S : NextIn(S, pos, a, nx[a])

\* The nodes of S beyond a.
After(S, pos, a) == {c \in S : pos[a] < pos[c]}

\* They are finitely many.
LEMMA AfterIs ==
    ASSUME NEW S, NEW pos, NEW nx, Strand(S, pos, nx), NEW a \in S
    PROVE  IsFiniteSet(After(S, pos, a)) /\ Cardinality(After(S, pos, a)) \in Nat
  BY FS_Subset, FS_CardinalityType DEF After, Strand

\* They get fewer along the order.
LEMMA AfterStep ==
    ASSUME NEW S, NEW pos, NEW nx, Strand(S, pos, nx), NEW a \in S, NEW b \in S,
           pos[a] < pos[b]
    PROVE  Cardinality(After(S, pos, b)) + 1 <= Cardinality(After(S, pos, a))
  <1>1. b \in After(S, pos, a) /\ b \notin After(S, pos, b)
    BY DEF After, Strand
  <1>2. After(S, pos, b) \subseteq After(S, pos, a)
    <2>1. \A c \in S : pos[c] \in Nat
      BY DEF Strand
    <2>2. \A c \in S : pos[b] < pos[c] => pos[a] < pos[c]
      BY <2>1
    <2> QED
      BY <2>2 DEF After
  <1>3. IsFiniteSet(After(S, pos, a)) /\ IsFiniteSet(After(S, pos, b))
        /\ Cardinality(After(S, pos, a)) \in Nat /\ Cardinality(After(S, pos, b)) \in Nat
    BY AfterIs
  <1>4. /\ Cardinality(After(S, pos, b)) <= Cardinality(After(S, pos, a))
        /\ Cardinality(After(S, pos, b)) = Cardinality(After(S, pos, a)) =>
              After(S, pos, b) = After(S, pos, a)
    BY <1>2, <1>3, FS_Subset
  <1>5. Cardinality(After(S, pos, b)) # Cardinality(After(S, pos, a))
    BY <1>1, <1>4
  <1> QED
    BY <1>3, <1>4, <1>5

\* They are fewer than all.
LEMMA AfterFirst ==
    ASSUME NEW S, NEW pos, NEW nx, Strand(S, pos, nx), NEW a \in S
    PROVE  Cardinality(After(S, pos, a)) + 1 <= Cardinality(S)
  <1>1. a \in S /\ a \notin After(S, pos, a) /\ After(S, pos, a) \subseteq S
    BY DEF After, Strand
  <1>2. IsFiniteSet(S) /\ Cardinality(S) \in Nat /\ Cardinality(After(S, pos, a)) \in Nat
    BY FS_CardinalityType, AfterIs DEF Strand
  <1>3. /\ Cardinality(After(S, pos, a)) <= Cardinality(S)
        /\ Cardinality(After(S, pos, a)) = Cardinality(S) => After(S, pos, a) = S
    BY <1>1, <1>2, FS_Subset
  <1>4. Cardinality(After(S, pos, a)) # Cardinality(S)
    BY <1>1, <1>3
  <1> QED
    BY <1>2, <1>3, <1>4

-----------------------------------------------------------------------------
(* The search on one level *)

\* at goes on from a while the next one is in P.
Walks(nx, P, a, m, at) ==
    /\ at[0] = a
    /\ \A n \in 1 .. m :
          at[n] = IF nx[at[n - 1]] # Null /\ nx[at[n - 1]] \in P
                  THEN nx[at[n - 1]] ELSE at[n - 1]

\* Where the search is after some steps.
Passed(S, pos, P, a, r) ==
    /\ r \in S /\ pos[a] <= pos[r]
    /\ \A c \in S : pos[a] < pos[c] /\ pos[c] <= pos[r] => c \in P

\* The loop ends at r.
Stopped(nx, P, r) == nx[r] = Null \/ nx[r] \notin P

\* After as many steps as there are nodes the search has ended, and passed only
\* nodes in P.
LEMMA WalkIs ==
    ASSUME NEW S, NEW pos, NEW nx, Strand(S, pos, nx), NEW P, NEW a \in S,
           NEW m \in Nat, NEW at, Walks(nx, P, a, m, at), Cardinality(S) <= m
    PROVE  Passed(S, pos, P, a, at[m]) /\ Stopped(nx, P, at[m])
  <1> DEFINE Left(n) == Cardinality(After(S, pos, at[n]))
             T == {n \in Nat : n <= m =>
                      /\ Passed(S, pos, P, a, at[n])
                      /\ Stopped(nx, P, at[n]) \/ Left(n) + n + 1 <= Cardinality(S)}
  <1>1. 0 \in T
    <2>1. at[0] = a
      BY DEF Walks
    <2>2. Passed(S, pos, P, a, a)
      BY DEF Passed, Strand
    <2>3. Left(0) + 1 <= Cardinality(S)
      BY <2>1, AfterFirst
    <2>4. Left(0) + 0 + 1 <= Cardinality(S)
      BY <2>1, <2>3, AfterIs
    <2> QED
      BY <2>1, <2>2, <2>4
  <1>2. ASSUME NEW n \in Nat, n \in T PROVE n + 1 \in T
    <2> SUFFICES ASSUME n + 1 <= m
                 PROVE  /\ Passed(S, pos, P, a, at[n + 1])
                        /\ \/ Stopped(nx, P, at[n + 1])
                           \/ Left(n + 1) + (n + 1) + 1 <= Cardinality(S)
      OBVIOUS
    <2>1. PICK r : r = at[n]
      OBVIOUS
    <2>2. /\ Passed(S, pos, P, a, r)
          /\ Stopped(nx, P, r) \/ Cardinality(After(S, pos, r)) + n + 1 <= Cardinality(S)
      BY <1>2, <2>1
    <2>3. at[n + 1] = IF nx[r] # Null /\ nx[r] \in P THEN nx[r] ELSE r
      <3>1. n + 1 \in 1 .. m /\ (n + 1) - 1 = n
        OBVIOUS
      <3> QED
        BY <2>1, <3>1 DEF Walks
    <2>4. CASE Stopped(nx, P, r)
      <3>1. at[n + 1] = r
        BY <2>3, <2>4 DEF Stopped
      <3> QED
        BY <2>2, <2>4, <3>1
    <2>5. CASE ~Stopped(nx, P, r)
      <3>1. PICK q : q = nx[r]
        OBVIOUS
      <3>2. at[n + 1] = q /\ q # Null /\ q \in P
        BY <2>3, <2>5, <3>1 DEF Stopped
      <3>3. r \in S
        BY <2>2 DEF Passed
      <3>4. NextIn(S, pos, r, q)
        BY <3>1, <3>3 DEF Strand
      <3>5. q \in S /\ pos[r] < pos[q] /\ \A c \in S : pos[c] <= pos[r] \/ pos[q] <= pos[c]
        BY <3>2, <3>4 DEF NextIn
      <3>6. pos[a] \in Nat /\ pos[r] \in Nat /\ pos[q] \in Nat
            /\ (\A c \in S : pos[c] \in Nat) /\ \A c \in S : pos[c] = pos[q] => c = q
        BY <3>3, <3>5 DEF Strand
      <3>7. Passed(S, pos, P, a, q)
        <4>1. \A c \in S : pos[a] < pos[c] /\ pos[c] <= pos[q] => c \in P
          <5> SUFFICES ASSUME NEW c \in S, pos[a] < pos[c], pos[c] <= pos[q]
                       PROVE  c \in P
            OBVIOUS
          <5>1. CASE pos[c] <= pos[r]
            BY <2>2, <5>1 DEF Passed
          <5>2. CASE pos[q] <= pos[c]
            BY <3>2, <3>6, <5>2
          <5> QED
            BY <3>5, <5>1, <5>2
        <4> QED
          BY <2>2, <3>5, <3>6, <4>1 DEF Passed
      <3>8. Cardinality(After(S, pos, q)) + 1 <= Cardinality(After(S, pos, r))
        BY <3>3, <3>5, AfterStep
      <3>9. Cardinality(After(S, pos, r)) + n + 1 <= Cardinality(S)
        BY <2>2, <2>5
      <3>10. /\ Cardinality(After(S, pos, q)) \in Nat /\ Cardinality(After(S, pos, r)) \in Nat
             /\ Cardinality(S) \in Nat
        BY <3>3, <3>5, AfterIs, FS_CardinalityType DEF Strand
      <3>11. Cardinality(After(S, pos, q)) + (n + 1) + 1 <= Cardinality(S)
        BY <3>8, <3>9, <3>10
      <3> QED
        BY <3>2, <3>7, <3>11
    <2> QED
      BY <2>4, <2>5
  <1> HIDE DEF T
  <1>3. Nat \subseteq T
    BY <1>1, <1>2, Climb
  <1>4. m \in T
    BY <1>3
  <1>5. at[m] \in S /\ Cardinality(S) \in Nat
    BY <1>4, FS_CardinalityType DEF T, Passed, Strand
  <1>6. Cardinality(After(S, pos, at[m])) \in Nat
    BY <1>5, AfterIs
  <1>7. ~(Left(m) + m + 1 <= Cardinality(S))
    BY <1>5, <1>6
  <1> QED
    BY <1>4, <1>7 DEF T

\* The nodes of sl, all linked on each of their levels in one order, pos.
Tower(sl, pos) ==
    /\ DOMAIN sl = DOMAIN NewSkipList
    /\ DOMAIN sl.node \subseteq Nat /\ IsFiniteSet(DOMAIN sl.node) /\ 0 \in DOMAIN sl.node
    /\ sl.length \in Nat /\ Cardinality(DOMAIN sl.node) = sl.length + 1
    /\ pos[0] = 0
    /\ \A a \in DOMAIN sl.node : pos[a] \in Nat
    /\ \A a, b \in DOMAIN sl.node : pos[a] = pos[b] => a = b
    /\ sl.level \in 1 .. MaxLevel
    /\ \A a \in DOMAIN sl.node :
          /\ "forward" \in DOMAIN sl.node[a]
          /\ \E h \in 1 .. (IF a = 0 THEN MaxLevel ELSE sl.level) :
                DOMAIN sl.node[a].forward = 1 .. h
    /\ DOMAIN sl.node[0].forward = 1 .. MaxLevel
    /\ sl.level > 1 => On(sl, sl.level) # {0}
    /\ \A i \in 1 .. MaxLevel : \A a \in On(sl, i) :
          NextIn(On(sl, i), pos, a, Follow(sl, a, i))

\* Level i of a tower.
Level(sl, i) == [a \in On(sl, i) |-> Follow(sl, a, i)]

\* Each level is a strand of the nodes that have it.
LEMMA LevelIs ==
    ASSUME NEW sl, NEW pos, Tower(sl, pos), NEW i \in 1 .. MaxLevel
    PROVE  /\ Strand(On(sl, i), pos, Level(sl, i))
           /\ On(sl, i) \subseteq DOMAIN sl.node
           /\ Cardinality(On(sl, i)) <= Cardinality(DOMAIN sl.node)
  <1>1. On(sl, i) \subseteq DOMAIN sl.node /\ 0 \in On(sl, i)
    BY DEF On, Tower
  <1>2. IsFiniteSet(On(sl, i)) /\ Cardinality(On(sl, i)) <= Cardinality(DOMAIN sl.node)
    BY <1>1, FS_Subset DEF Tower
  <1>3. \A a \in On(sl, i) : NextIn(On(sl, i), pos, a, Level(sl, i)[a])
    BY DEF Tower, Level
  <1>4. /\ \A a \in DOMAIN sl.node : pos[a] \in Nat
        /\ \A a, b \in DOMAIN sl.node : pos[a] = pos[b] => a = b
        /\ DOMAIN sl.node \subseteq Nat /\ pos[0] = 0
    BY DEF Tower
  <1> QED
    BY <1>1, <1>2, <1>3, <1>4 DEF Strand

\* A node has the levels up to its own.
LEMMA LowerLevels ==
    ASSUME NEW sl, NEW pos, Tower(sl, pos), NEW i \in 1 .. MaxLevel, NEW j \in 1 .. i
    PROVE  On(sl, i) \subseteq On(sl, j)
  <1> SUFFICES ASSUME NEW a \in On(sl, i) PROVE a \in On(sl, j)
    OBVIOUS
  <1>1. a \in DOMAIN sl.node /\ i \in DOMAIN sl.node[a].forward
    BY DEF On
  <1>2. PICK n : n = IF a = 0 THEN MaxLevel ELSE sl.level
    OBVIOUS
  <1>3. PICK h \in 1 .. n : DOMAIN sl.node[a].forward = 1 .. h
    BY <1>1, <1>2 DEF Tower
  <1>4. n \in Nat
    BY <1>2, MaxLevelIsPositive DEF Tower
  <1>5. j \in DOMAIN sl.node[a].forward
    BY <1>1, <1>3, <1>4, MaxLevelIsPositive
  <1> QED
    BY <1>1, <1>5 DEF On

-----------------------------------------------------------------------------
(* Search *)

\* at is the recursion of Search.
Searching(sl, i, a, member, score, m, at) ==
    at = [n \in 0 .. m |->
            IF n = 0 THEN a
            ELSE IF /\ Follow(sl, at[n - 1], i) # Null
                    /\ ComesBefore(sl, Follow(sl, at[n - 1], i), member, score)
                 THEN Follow(sl, at[n - 1], i) ELSE at[n - 1]]

\* Such a function exists.
LEMMA SearchExists ==
    ASSUME NEW sl, NEW i, NEW a, NEW member, NEW score, NEW m \in Nat
    PROVE  \E at : Searching(sl, i, a, member, score, m, at)
  <1> DEFINE T == {k \in Nat : \E f : Searching(sl, i, a, member, score, k, f)}
  <1>1. 0 \in T
    <2> DEFINE g == [n \in 0 .. 0 |-> a]
    <2>1. Searching(sl, i, a, member, score, 0, g)
      BY DEF Searching
    <2> QED
      BY <2>1
  <1>2. ASSUME NEW k \in Nat, k \in T PROVE k + 1 \in T
    <2>1. PICK f : Searching(sl, i, a, member, score, k, f)
      BY <1>2
    <2>2. PICK b : b = IF /\ Follow(sl, f[k], i) # Null
                          /\ ComesBefore(sl, Follow(sl, f[k], i), member, score)
                       THEN Follow(sl, f[k], i) ELSE f[k]
      OBVIOUS
    <2> DEFINE g == [n \in 0 .. k + 1 |-> IF n = k + 1 THEN b ELSE f[n]]
    <2>3. ASSUME NEW n \in 0 .. k + 1
          PROVE  g[n] = IF n = 0 THEN a
                        ELSE IF /\ Follow(sl, g[n - 1], i) # Null
                                /\ ComesBefore(sl, Follow(sl, g[n - 1], i), member, score)
                             THEN Follow(sl, g[n - 1], i) ELSE g[n - 1]
      <3>1. CASE n = k + 1
        <4>1. n - 1 = k /\ n # 0 /\ n - 1 # k + 1 /\ n - 1 \in 0 .. k + 1
          BY <3>1
        <4>2. g[n - 1] = f[k] /\ g[n] = b
          BY <3>1, <4>1
        <4> QED
          BY <2>2, <4>1, <4>2
      <3>2. CASE n # k + 1
        <4>1. n \in 0 .. k /\ (n # 0 => n - 1 \in 0 .. k)
          BY <3>2
        <4>2. g[n] = f[n] /\ (n # 0 => g[n - 1] = f[n - 1])
          BY <4>1
        <4>3. f[n] = IF n = 0 THEN a
                     ELSE IF /\ Follow(sl, f[n - 1], i) # Null
                             /\ ComesBefore(sl, Follow(sl, f[n - 1], i), member, score)
                          THEN Follow(sl, f[n - 1], i) ELSE f[n - 1]
          BY <2>1, <4>1 DEF Searching
        <4> QED
          BY <4>2, <4>3
      <3> QED
        BY <3>1, <3>2
    <2>4. g = [n \in 0 .. k + 1 |-> g[n]]
      OBVIOUS
    <2> HIDE DEF g
    <2>5. Searching(sl, i, a, member, score, k + 1, g)
      BY <2>3, <2>4 DEF Searching
    <2> QED
      BY <2>5
  <1> HIDE DEF T
  <1>3. Nat \subseteq T
    BY <1>1, <1>2, Climb
  <1>4. m \in T
    BY <1>3
  <1> QED
    BY <1>4 DEF T

\* The nodes the search passes.
Ahead(sl, member, score) == {c \in DOMAIN sl.node : ComesBefore(sl, c, member, score)}

\* Where the search on level i ends.
LEMMA SearchIs ==
    ASSUME NEW sl, NEW pos, Tower(sl, pos), NEW i \in 1 .. MaxLevel, NEW a \in On(sl, i),
           NEW member, NEW score
    PROVE  /\ Passed(On(sl, i), pos, Ahead(sl, member, score), a,
                     Search(sl, i, a, member, score))
           /\ Stopped(Level(sl, i), Ahead(sl, member, score),
                      Search(sl, i, a, member, score))
  <1>1. PICK S : S = On(sl, i)
    OBVIOUS
  <1>2. PICK nx : nx = Level(sl, i)
    OBVIOUS
  <1>3. PICK P : P = Ahead(sl, member, score)
    OBVIOUS
  <1>4. Strand(S, pos, nx) /\ S \subseteq DOMAIN sl.node
        /\ Cardinality(S) <= Cardinality(DOMAIN sl.node)
    BY <1>1, <1>2, LevelIs
  <1>5. Cardinality(DOMAIN sl.node) \in Nat
    BY FS_CardinalityType DEF Tower
  <1>6. PICK m \in Nat : m = Cardinality(DOMAIN sl.node)
    BY <1>5
  <1> DEFINE C == CHOOSE at : Searching(sl, i, a, member, score, m, at)
  <1>7. Searching(sl, i, a, member, score, m, C)
    BY SearchExists
  <1>8. Search(sl, i, a, member, score) = C[m]
    BY <1>6 DEF Search, Searching
  <1> HIDE DEF C
  <1>9. C[0] = a
    BY <1>7 DEF Searching
  <1>10. \A b \in S : /\ nx[b] = Follow(sl, b, i)
                      /\ nx[b] # Null => nx[b] \in S
    BY <1>1, <1>2, <1>4 DEF Level, Strand, NextIn
  <1>11. \A b \in S : /\ nx[b] # Null /\ nx[b] \in P <=>
                            /\ Follow(sl, b, i) # Null
                            /\ ComesBefore(sl, Follow(sl, b, i), member, score)
    BY <1>3, <1>4, <1>10 DEF Ahead
  <1>12. \A n \in 1 .. m : C[n] = IF /\ Follow(sl, C[n - 1], i) # Null
                                     /\ ComesBefore(sl, Follow(sl, C[n - 1], i), member, score)
                                  THEN Follow(sl, C[n - 1], i) ELSE C[n - 1]
    BY <1>7 DEF Searching
  <1> DEFINE T == {n \in Nat : n <= m => C[n] \in S}
  <1>13. 0 \in T
    BY <1>1, <1>9
  <1>14. ASSUME NEW n \in Nat, n \in T PROVE n + 1 \in T
    <2> SUFFICES ASSUME n + 1 <= m PROVE C[n + 1] \in S
      OBVIOUS
    <2>1. PICK b \in S : b = C[n]
      BY <1>14
    <2>2. PICK l \in 1 .. m : l = n + 1 /\ l - 1 = n
      OBVIOUS
    <2>3. C[l] = b \/ (C[l] = Follow(sl, b, i) /\ Follow(sl, b, i) # Null)
      BY <1>12, <2>1, <2>2
    <2> QED
      BY <1>10, <2>1, <2>2, <2>3
  <1> HIDE DEF T
  <1>15. Nat \subseteq T
    BY <1>13, <1>14, Climb
  <1>16. \A n \in 1 .. m : C[n - 1] \in S
    <2> SUFFICES ASSUME NEW n \in 1 .. m PROVE C[n - 1] \in S
      OBVIOUS
    <2>1. n - 1 \in T /\ n - 1 <= m
      BY <1>15
    <2> QED
      BY <2>1 DEF T
  <1>17. Walks(nx, P, a, m, C)
    BY <1>9, <1>10, <1>11, <1>12, <1>16 DEF Walks
  <1>18. Passed(S, pos, P, a, C[m]) /\ Stopped(nx, P, C[m])
    BY <1>1, <1>4, <1>6, <1>17, WalkIs
  <1> QED
    BY <1>1, <1>2, <1>3, <1>8, <1>18

-----------------------------------------------------------------------------
(* Update *)

\* u is the recursion of Update, from the top level down to level l.
Updating(sl, member, score, l, u) ==
    u = [i \in l .. sl.level |->
            Search(sl, i, IF i = sl.level THEN 0 ELSE u[i + 1], member, score)]

\* Such a function exists.
LEMMA UpdateExists ==
    ASSUME NEW sl, sl.level \in Nat \ {0}, NEW member, NEW score
    PROVE  \E u : Updating(sl, member, score, 1, u)
  <1>1. PICK L \in Nat \ {0} : L = sl.level
    OBVIOUS
  <1> DEFINE T == {k \in Nat : k < L => \E u : Updating(sl, member, score, L - k, u)}
  <1>2. 0 \in T
    <2> DEFINE g == [i \in L .. L |-> Search(sl, i, 0, member, score)]
    <2>1. \A i \in L .. L : i = L
      OBVIOUS
    <2>2. g = [i \in L .. L |->
                  Search(sl, i, IF i = L THEN 0 ELSE g[i + 1], member, score)]
      BY <2>1
    <2>3. L - 0 = L
      OBVIOUS
    <2>4. Updating(sl, member, score, L - 0, g)
      BY <1>1, <2>2, <2>3 DEF Updating
    <2> QED
      BY <2>4
  <1>3. ASSUME NEW k \in Nat, k \in T PROVE k + 1 \in T
    <2> SUFFICES ASSUME k + 1 < L PROVE \E u : Updating(sl, member, score, L - (k + 1), u)
      OBVIOUS
    <2>1. PICK u : Updating(sl, member, score, L - k, u)
      BY <1>3
    <2>2. PICK l \in 1 .. L : l = L - (k + 1) /\ L - k = l + 1 /\ l < L
      BY <1>1
    <2>3. PICK r : r = Search(sl, l, u[l + 1], member, score)
      OBVIOUS
    <2> DEFINE g == [i \in l .. L |-> IF i = l THEN r ELSE u[i]]
    <2>4. ASSUME NEW i \in l .. L
          PROVE  g[i] = Search(sl, i, IF i = L THEN 0 ELSE g[i + 1], member, score)
      <3>1. CASE i = l
        <4>1. i # L /\ i + 1 # l /\ i + 1 \in l .. L
          BY <2>2, <3>1
        <4>2. g[i + 1] = u[i + 1] /\ g[i] = r
          BY <3>1, <4>1
        <4> QED
          BY <2>3, <3>1, <4>1, <4>2
      <3>2. CASE i # l
        <4>1. i \in l + 1 .. L /\ i + 1 # l /\ (i # L => i + 1 \in l .. L)
          BY <2>4, <3>2
        <4>2. g[i] = u[i] /\ (i # L => g[i + 1] = u[i + 1])
          BY <3>2, <4>1
        <4>3. u[i] = Search(sl, i, IF i = L THEN 0 ELSE u[i + 1], member, score)
          BY <1>1, <2>1, <2>2, <4>1 DEF Updating
        <4> QED
          BY <4>2, <4>3
      <3> QED
        BY <3>1, <3>2
    <2>5. g = [i \in l .. L |-> g[i]]
      OBVIOUS
    <2> HIDE DEF g
    <2>6. g = [i \in l .. L |->
                  Search(sl, i, IF i = L THEN 0 ELSE g[i + 1], member, score)]
      BY <2>4, <2>5
    <2>7. Updating(sl, member, score, l, g)
      BY <1>1, <2>6 DEF Updating
    <2> QED
      BY <2>2, <2>7
  <1> HIDE DEF T
  <1>4. Nat \subseteq T
    BY <1>2, <1>3, Climb
  <1>5. L - 1 \in T /\ L - 1 < L /\ L - (L - 1) = 1
    BY <1>4
  <1> QED
    BY <1>5 DEF T

\* u is on each level the last node up to u[1].
Guides(sl, pos, u) ==
    /\ DOMAIN u = 1 .. sl.level
    /\ \A i \in 1 .. sl.level :
          /\ u[i] \in On(sl, i) /\ pos[u[i]] <= pos[u[1]]
          /\ \A c \in On(sl, i) : pos[c] <= pos[u[i]] \/ pos[u[1]] < pos[c]

\* It ended at r, which it passed, and does not pass the next node.
EndedAt(sl, P, r) == (r = 0 \/ r \in P) /\ Stopped(Level(sl, 1), P, r)

\* The search, whatever its scores and members compare like, finds on each level
\* the last node that is not beyond the one it finds on the lowest.
LEMMA UpdateIs ==
    ASSUME NEW sl, NEW pos, Tower(sl, pos), NEW member, NEW score
    PROVE  /\ Guides(sl, pos, Update(sl, member, score))
           /\ EndedAt(sl, Ahead(sl, member, score), Update(sl, member, score)[1])
  <1>1. MaxLevel \in Nat /\ sl.level \in 1 .. MaxLevel
    BY MaxLevelIsPositive DEF Tower
  <1>2. PICK L \in Nat \ {0} : L = sl.level /\ 1 .. L \subseteq 1 .. MaxLevel
    BY <1>1
  <1>3. PICK P : P = Ahead(sl, member, score)
    OBVIOUS
  <1> DEFINE u == CHOOSE f : Updating(sl, member, score, 1, f)
  <1>4. Updating(sl, member, score, 1, u)
    BY <1>2, UpdateExists
  <1>5. Update(sl, member, score) = u
    BY DEF Update, Updating
  <1> HIDE DEF u
  <1>6. DOMAIN u = 1 .. L
    BY <1>2, <1>4 DEF Updating
  <1>7. \A i \in 1 .. L : u[i] = Search(sl, i, IF i = L THEN 0 ELSE u[i + 1], member, score)
    BY <1>2, <1>4 DEF Updating
  \* Where the search on level i starts.
  <1> DEFINE From(i) == IF i = L THEN 0 ELSE u[i + 1]
  <1>8. ASSUME NEW i \in 1 .. L, From(i) \in On(sl, i)
        PROVE  /\ Passed(On(sl, i), pos, P, From(i), u[i])
               /\ Stopped(Level(sl, i), P, u[i])
    <2>1. i \in 1 .. MaxLevel
      BY <1>2
    <2>2. u[i] = Search(sl, i, From(i), member, score)
      BY <1>7
    <2>3. PICK a \in On(sl, i) : a = From(i)
      BY <1>8
    <2> QED
      BY <1>3, <2>1, <2>2, <2>3, SearchIs
  <1>9. ASSUME NEW i \in 1 .. L, i = L \/ u[i + 1] \in On(sl, i + 1)
        PROVE  From(i) \in On(sl, i)
    <2>1. CASE i = L
      <3>1. i \in DOMAIN sl.node[0].forward /\ 0 \in DOMAIN sl.node
        BY <1>2 DEF Tower
      <3> QED
        BY <2>1, <3>1 DEF On
    <2>2. CASE i # L
      <3>1. i + 1 \in 1 .. MaxLevel /\ i \in 1 .. i + 1
        BY <1>1, <1>2, <2>2
      <3>2. On(sl, i + 1) \subseteq On(sl, i)
        BY <3>1, LowerLevels
      <3> QED
        BY <1>9, <2>2, <3>2
    <2> QED
      BY <2>1, <2>2
  <1>10. \A i \in 1 .. L : From(i) \in On(sl, i)
    <2> DEFINE T == {k \in Nat : k < L => From(L - k) \in On(sl, L - k)}
    <2>1. 0 \in T
      <3>1. L - 0 = L /\ L \in 1 .. L
        OBVIOUS
      <3> QED
        BY <1>9, <3>1
    <2>2. ASSUME NEW k \in Nat, k \in T PROVE k + 1 \in T
      <3> SUFFICES ASSUME k + 1 < L PROVE From(L - (k + 1)) \in On(sl, L - (k + 1))
        OBVIOUS
      <3>1. PICK j \in 1 .. L : j = L - (k + 1) /\ j + 1 = L - k /\ j # L /\ j + 1 \in 1 .. L
        OBVIOUS
      <3>2. From(j + 1) \in On(sl, j + 1)
        BY <2>2, <3>1
      <3>3. u[j + 1] \in On(sl, j + 1)
        BY <1>8, <3>1, <3>2 DEF Passed
      <3> QED
        BY <1>9, <3>1, <3>3
    <2> HIDE DEF T
    <2>3. Nat \subseteq T
      BY <2>1, <2>2, Climb
    <2>4. ASSUME NEW i \in 1 .. L PROVE From(i) \in On(sl, i)
      <3>1. L - i \in T /\ L - i < L /\ L - (L - i) = i
        BY <2>3
      <3> QED
        BY <3>1 DEF T
    <2> QED
      BY <2>4
  <1>11. \A i \in 1 .. L : /\ Passed(On(sl, i), pos, P, From(i), u[i])
                           /\ Stopped(Level(sl, i), P, u[i])
    BY <1>8, <1>10
  <1>12. \A i \in 1 .. L : u[i] \in On(sl, i) /\ u[i] \in DOMAIN sl.node
    BY <1>11 DEF Passed, On
  <1>13. \A c \in DOMAIN sl.node : pos[c] \in Nat
    BY DEF Tower
  <1>14. \A i \in 1 .. L : i # L => pos[u[i + 1]] <= pos[u[i]]
    BY <1>11 DEF Passed
  <1>15. ASSUME NEW i \in 1 .. L PROVE pos[u[i]] <= pos[u[1]]
    <2> DEFINE T == {k \in Nat : k + 1 <= L => pos[u[k + 1]] <= pos[u[1]]}
    <2>1. 0 \in T
      <3>1. pos[u[1]] \in Nat /\ 0 + 1 = 1
        BY <1>12, <1>13
      <3> QED
        BY <3>1
    <2>2. ASSUME NEW k \in Nat, k \in T PROVE k + 1 \in T
      <3> SUFFICES ASSUME (k + 1) + 1 <= L PROVE pos[u[(k + 1) + 1]] <= pos[u[1]]
        OBVIOUS
      <3>1. PICK j \in 1 .. L : j = k + 1 /\ j # L /\ j + 1 \in 1 .. L /\ 1 \in 1 .. L
        OBVIOUS
      <3>2. pos[u[j]] <= pos[u[1]] /\ pos[u[j + 1]] <= pos[u[j]]
        BY <1>14, <2>2, <3>1
      <3>3. pos[u[1]] \in Nat /\ pos[u[j]] \in Nat /\ pos[u[j + 1]] \in Nat
        BY <1>12, <1>13, <3>1
      <3>4. pos[u[j + 1]] <= pos[u[1]]
        BY <3>2, <3>3
      <3> QED
        BY <3>1, <3>4
    <2> HIDE DEF T
    <2>3. Nat \subseteq T
      BY <2>1, <2>2, Climb
    <2>4. i - 1 \in T /\ (i - 1) + 1 = i
      BY <2>3
    <2> QED
      BY <2>4 DEF T
  <1>16. ASSUME NEW i \in 1 .. L, NEW c \in On(sl, i), pos[u[i]] < pos[c]
         PROVE  pos[u[1]] < pos[c]
    <2>1. i \in 1 .. MaxLevel
      BY <1>2
    <2>2. Strand(On(sl, i), pos, Level(sl, i))
      BY <2>1, LevelIs
    <2>3. PICK b : b = Level(sl, i)[u[i]]
      OBVIOUS
    <2>4. NextIn(On(sl, i), pos, u[i], b)
      BY <1>12, <2>2, <2>3 DEF Strand
    <2>5. pos[c] \in Nat /\ pos[u[i]] \in Nat
      BY <1>12, <1>13 DEF On
    <2>6. b \in On(sl, i) /\ pos[u[i]] < pos[b] /\ pos[b] <= pos[c]
      BY <1>16, <2>4, <2>5 DEF NextIn
    <2>7. b \notin P
      <3>1. b \in Nat
        BY <2>6 DEF On, Tower
      <3>2. b # Null
        BY <3>1 DEF Null
      <3> QED
        BY <1>11, <2>3, <3>2 DEF Stopped
    <2>8. pos[b] \in Nat
      BY <1>13, <2>6 DEF On
    <2> DEFINE T == {k \in Nat : k < i => pos[u[i - k]] < pos[b]}
    <2>9. 0 \in T
      <3>1. i - 0 = i
        OBVIOUS
      <3> QED
        BY <2>6, <3>1
    <2>10. ASSUME NEW k \in Nat, k \in T PROVE k + 1 \in T
      <3> SUFFICES ASSUME k + 1 < i PROVE pos[u[i - (k + 1)]] < pos[b]
        OBVIOUS
      <3>1. PICK j \in 1 .. L : /\ j = i - (k + 1) /\ j + 1 = i - k /\ j # L
                                /\ j \in 1 .. i /\ j + 1 \in 1 .. L
        OBVIOUS
      <3>2. pos[u[j + 1]] < pos[b]
        BY <2>10, <3>1
      <3>3. b \in On(sl, j)
        BY <2>1, <2>6, <3>1, LowerLevels
      <3>4. \A d \in On(sl, j) : pos[u[j + 1]] < pos[d] /\ pos[d] <= pos[u[j]] => d \in P
        BY <1>11, <3>1 DEF Passed
      <3>5. ~(pos[b] <= pos[u[j]])
        BY <2>7, <3>2, <3>3, <3>4
      <3>6. pos[u[j]] \in Nat
        BY <1>12, <1>13
      <3>7. pos[u[j]] < pos[b]
        BY <2>8, <3>5, <3>6
      <3> QED
        BY <3>1, <3>7
    <2> HIDE DEF T
    <2>11. Nat \subseteq T
      BY <2>9, <2>10, Climb
    <2>12. i - 1 \in T /\ i - 1 < i /\ i - (i - 1) = 1
      BY <2>11
    <2>13. pos[u[1]] < pos[b]
      BY <2>12 DEF T
    <2>14. pos[u[1]] \in Nat
      <3>1. 1 \in 1 .. L
        OBVIOUS
      <3> QED
        BY <1>12, <1>13, <3>1
    <2> QED
      BY <2>5, <2>6, <2>8, <2>13, <2>14
  <1>17. ASSUME NEW i \in 1 .. L, NEW c \in On(sl, i)
         PROVE  pos[c] <= pos[u[i]] \/ pos[u[1]] < pos[c]
    <2>1. pos[c] \in Nat /\ pos[u[i]] \in Nat
      BY <1>12, <1>13 DEF On
    <2>2. CASE pos[u[i]] < pos[c]
      BY <1>16, <2>2
    <2> QED
      BY <2>1, <2>2
  <1>18. \A i \in 1 .. L : From(i) = 0 \/ From(i) \in P => u[i] = 0 \/ u[i] \in P
    <2> SUFFICES ASSUME NEW i \in 1 .. L, From(i) = 0 \/ From(i) \in P
                 PROVE  u[i] = 0 \/ u[i] \in P
      OBVIOUS
    <2>1. PICK a \in DOMAIN sl.node : a = From(i) /\ (a = 0 \/ a \in P)
      BY <1>10 DEF On
    <2>2. Passed(On(sl, i), pos, P, a, u[i])
      BY <1>11, <2>1
    <2>3. pos[a] \in Nat /\ pos[u[i]] \in Nat /\ pos[a] <= pos[u[i]]
      BY <1>12, <1>13, <2>2 DEF Passed
    <2>4. CASE pos[a] = pos[u[i]]
      <3>1. a = u[i]
        BY <1>12, <2>4 DEF Tower
      <3> QED
        BY <2>1, <3>1
    <2>5. CASE pos[a] # pos[u[i]]
      <3>1. pos[a] < pos[u[i]] /\ pos[u[i]] <= pos[u[i]]
        BY <2>3, <2>5
      <3> QED
        BY <1>12, <2>2, <3>1 DEF Passed
    <2> QED
      BY <2>4, <2>5
  <1>19. u[1] = 0 \/ u[1] \in P
    <2> DEFINE T == {k \in Nat : k < L => u[L - k] = 0 \/ u[L - k] \in P}
    <2>1. 0 \in T
      <3>1. L - 0 = L /\ L \in 1 .. L /\ From(L) = 0
        OBVIOUS
      <3> QED
        BY <1>18, <3>1
    <2>2. ASSUME NEW k \in Nat, k \in T PROVE k + 1 \in T
      <3> SUFFICES ASSUME k + 1 < L PROVE u[L - (k + 1)] = 0 \/ u[L - (k + 1)] \in P
        OBVIOUS
      <3>1. PICK j \in 1 .. L : j = L - (k + 1) /\ j + 1 = L - k /\ j # L
        OBVIOUS
      <3>2. u[j + 1] = 0 \/ u[j + 1] \in P
        BY <2>2, <3>1
      <3>3. From(j) = u[j + 1]
        BY <3>1
      <3>4. u[j] = 0 \/ u[j] \in P
        BY <1>18, <3>2, <3>3
      <3> QED
        BY <3>1, <3>4
    <2> HIDE DEF T
    <2>3. Nat \subseteq T
      BY <2>1, <2>2, Climb
    <2>4. L - 1 \in T /\ L - 1 < L /\ L - (L - 1) = 1
      BY <2>3
    <2> QED
      BY <2>4 DEF T
  <1>20. EndedAt(sl, P, u[1])
    <2>1. 1 \in 1 .. L
      OBVIOUS
    <2> QED
      BY <1>11, <1>19, <2>1 DEF EndedAt
  <1>21. Guides(sl, pos, u)
    BY <1>2, <1>6, <1>12, <1>15, <1>17 DEF Guides
  <1> QED
    BY <1>3, <1>5, <1>20, <1>21

-----------------------------------------------------------------------------
(* Taking a node out *)

\* The pointer past a node that is taken out.
LEMMA NextSkips ==
    ASSUME NEW S, NEW pos, \A c \in S : pos[c] \in Nat, \A c, d \in S : pos[c] = pos[d] => c = d,
           NEW a \in S, NEW x \in S, x # Null, NextIn(S, pos, a, x),
           NEW b, NextIn(S, pos, x, b)
    PROVE  NextIn(S \ {x}, pos, a, b)
  <1>1. pos[a] < pos[x] /\ \A c \in S : pos[c] <= pos[a] \/ pos[x] <= pos[c]
    BY DEF NextIn
  <1>2. ASSUME NEW c \in S \ {x}, pos[x] <= pos[c] PROVE pos[x] < pos[c]
    BY <1>2
  <1>3. CASE b = Null /\ \A c \in S : pos[c] <= pos[x]
    <2>1. \A c \in S \ {x} : pos[c] <= pos[a]
      <3> SUFFICES ASSUME NEW c \in S \ {x} PROVE pos[c] <= pos[a]
        OBVIOUS
      <3>1. pos[c] <= pos[x] /\ pos[c] \in Nat /\ pos[x] \in Nat
        BY <1>3
      <3>2. ~(pos[x] <= pos[c])
        BY <1>2, <3>1
      <3> QED
        BY <1>1, <3>2
    <2> QED
      BY <1>3, <2>1 DEF NextIn
  <1>4. CASE b \in S /\ pos[x] < pos[b] /\ \A c \in S : pos[c] <= pos[x] \/ pos[b] <= pos[c]
    <2>1. b # x /\ pos[a] < pos[b]
      BY <1>1, <1>4
    <2>2. ASSUME NEW c \in S \ {x} PROVE pos[c] <= pos[a] \/ pos[b] <= pos[c]
      <3>1. pos[c] \in Nat /\ pos[x] \in Nat
        OBVIOUS
      <3> QED
        BY <1>1, <1>2, <1>4, <3>1
    <2> QED
      BY <1>4, <2>1, <2>2 DEF NextIn
  <1> QED
    BY <1>3, <1>4 DEF NextIn

\* The pointers of the others stay right.
LEMMA NextStays ==
    ASSUME NEW S, NEW pos, \A c \in S : pos[c] \in Nat, \A c, d \in S : pos[c] = pos[d] => c = d,
           NEW a \in S, NEW x \in S, x # Null, NextIn(S, pos, a, x),
           NEW d \in S \ {x}, d # a, NEW b, NextIn(S, pos, d, b)
    PROVE  NextIn(S \ {x}, pos, d, b)
  <1>1. pos[a] < pos[x] /\ \A c \in S : pos[c] <= pos[a] \/ pos[x] <= pos[c]
    BY DEF NextIn
  <1>2. b # x
    <2> SUFFICES ASSUME b = x PROVE FALSE
      OBVIOUS
    <2>1. pos[d] < pos[x] /\ \A c \in S : pos[c] <= pos[d] \/ pos[x] <= pos[c]
      BY DEF NextIn
    <2>2. pos[a] \in Nat /\ pos[d] \in Nat /\ pos[x] \in Nat
      OBVIOUS
    <2>3. pos[a] <= pos[d] /\ pos[d] <= pos[a]
      BY <1>1, <2>1, <2>2
    <2> QED
      BY <2>2, <2>3
  <1> QED
    BY <1>2 DEF NextIn

\* The node the search ends before is linked there on each of its levels.
LEMMA LinkedIs ==
    ASSUME NEW sl, NEW pos, Tower(sl, pos), NEW u, Guides(sl, pos, u),
           NEW x, x = Follow(sl, u[1], 1), x # Null
    PROVE  /\ x \in DOMAIN sl.node \ {0}
           /\ \A i \in 1 .. sl.level : x \in On(sl, i) => Follow(sl, u[i], i) = x
           /\ \A i \in 1 .. sl.level : Follow(sl, u[i], i) = x => x \in On(sl, i)
  <1>1. MaxLevel \in Nat /\ sl.level \in 1 .. MaxLevel
    BY MaxLevelIsPositive DEF Tower
  <1>2. PICK L \in Nat \ {0} : L = sl.level /\ 1 .. L \subseteq 1 .. MaxLevel /\ 1 \in 1 .. L
    BY <1>1
  <1>3. \A i \in 1 .. L : NextIn(On(sl, i), pos, u[i], Follow(sl, u[i], i))
    BY <1>2 DEF Tower, Guides
  <1>4. \A c \in DOMAIN sl.node : pos[c] \in Nat
    BY DEF Tower
  <1>5. /\ x \in On(sl, 1) /\ pos[u[1]] < pos[x]
        /\ \A c \in On(sl, 1) : pos[c] <= pos[u[1]] \/ pos[x] <= pos[c]
    <2>1. NextIn(On(sl, 1), pos, u[1], x)
      BY <1>2, <1>3
    <2> QED
      BY <2>1 DEF NextIn
  <1>6. x \in DOMAIN sl.node \ {0}
    <2>1. u[1] \in DOMAIN sl.node
      BY <1>2 DEF Guides, On
    <2>2. pos[u[1]] \in Nat /\ pos[0] = 0
      BY <1>4, <2>1 DEF Tower
    <2>3. x # 0
      BY <1>5, <2>2
    <2> QED
      BY <1>5, <2>3 DEF On
  <1>7. ASSUME NEW i \in 1 .. L, x \in On(sl, i) PROVE Follow(sl, u[i], i) = x
    <2>1. PICK q : q = Follow(sl, u[i], i)
      OBVIOUS
    <2>2. NextIn(On(sl, i), pos, u[i], q)
      BY <1>3, <2>1
    <2>3. /\ u[i] \in On(sl, i) /\ pos[u[i]] <= pos[u[1]]
          /\ \A c \in On(sl, i) : pos[c] <= pos[u[i]] \/ pos[u[1]] < pos[c]
      BY <1>2 DEF Guides
    <2>4. u[1] \in On(sl, 1)
      BY <1>2 DEF Guides
    <2>5. pos[u[i]] \in Nat /\ pos[u[1]] \in Nat /\ pos[x] \in Nat
      BY <1>4, <1>6, <2>3, <2>4 DEF On
    <2>6. q \in On(sl, i) /\ pos[u[i]] < pos[q] /\ pos[q] <= pos[x]
      BY <1>5, <1>7, <2>2, <2>3, <2>5 DEF NextIn
    <2>7. On(sl, i) \subseteq On(sl, 1)
      <3>1. i \in 1 .. MaxLevel /\ 1 \in 1 .. i
        BY <1>2
      <3> QED
        BY <3>1, LowerLevels
    <2>8. q \in DOMAIN sl.node /\ pos[q] \in Nat
      BY <1>4, <2>6 DEF On
    <2>9. pos[u[1]] < pos[q]
      BY <2>3, <2>5, <2>6, <2>8
    <2>10. pos[x] <= pos[q]
      BY <1>5, <2>5, <2>6, <2>7, <2>8, <2>9
    <2>11. pos[x] = pos[q]
      BY <2>5, <2>6, <2>8, <2>10
    <2>12. \A c, d \in DOMAIN sl.node : pos[c] = pos[d] => c = d
      BY DEF Tower
    <2>13. x = q
      BY <1>6, <2>8, <2>11, <2>12
    <2> QED
      BY <2>1, <2>13
  <1>8. ASSUME NEW i \in 1 .. L, Follow(sl, u[i], i) = x PROVE x \in On(sl, i)
    BY <1>3, <1>8 DEF NextIn
  <1> QED
    BY <1>2, <1>6, <1>7, <1>8

\* The node at x is freed, the pointers to it lead past it.
Unlinked(sl, u, x, node) ==
    /\ DOMAIN node = DOMAIN sl.node \ {x}
    /\ \A a \in DOMAIN node :
          /\ "forward" \in DOMAIN node[a]
          /\ DOMAIN node[a].forward = DOMAIN sl.node[a].forward
          /\ \A i \in DOMAIN sl.node[a].forward :
                node[a].forward[i] =
                    IF x \in On(sl, i) /\ u[i] = a THEN Follow(sl, x, i)
                    ELSE Follow(sl, a, i)

\* sl_delete leaves a tower in the same order, NaN scores and strcmp-equal members
\* or not.
LEMMA DeleteIs ==
    ASSUME NEW sl, NEW pos, Tower(sl, pos), NEW member, NEW score
    PROVE  Tower(SlDelete(sl, member, score), pos)
  <1> DEFINE u == Update(sl, member, score)
             x == Follow(sl, u[1], 1)
             linked == {i \in 1 .. sl.level : \A j \in 1 .. i : Follow(sl, u[j], j) = x}
             node == [a \in DOMAIN sl.node \ {x} |->
                      [sl.node[a] EXCEPT !.forward = [i \in DOMAIN @ |->
                          IF i \in linked /\ u[i] = a THEN Follow(sl, x, i) ELSE @[i]]]]
             up == {i \in 1 .. sl.level : node[0].forward[i] # Null}
             t == [node |-> node, length |-> sl.length - 1, level |-> Max({1} \cup up)]
  <1>1. SlDelete(sl, member, score) = sl \/ (x # Null /\ SlDelete(sl, member, score) = t)
    BY DEF SlDelete
  <1>2. Guides(sl, pos, u)
    BY UpdateIs
  <1>3. x = Follow(sl, u[1], 1)
    OBVIOUS
  <1>4. linked = {i \in 1 .. sl.level : \A j \in 1 .. i : Follow(sl, u[j], j) = x}
    OBVIOUS
  <1> HIDE DEF u
  <1> HIDE DEF x
  <1> HIDE DEF linked
  <1>5. node = [a \in DOMAIN sl.node \ {x} |->
                      [sl.node[a] EXCEPT !.forward = [i \in DOMAIN @ |->
                          IF i \in linked /\ u[i] = a THEN Follow(sl, x, i) ELSE @[i]]]]
    OBVIOUS
  <1> HIDE DEF node
  <1>6. up = {i \in 1 .. sl.level : node[0].forward[i] # Null}
    OBVIOUS
  <1> HIDE DEF up
  <1>7. t = [node |-> node, length |-> sl.length - 1, level |-> Max({1} \cup up)]
    OBVIOUS
  <1> HIDE DEF t
  <1> SUFFICES ASSUME x # Null PROVE Tower(t, pos)
    BY <1>1
  <1>9. Unlinked(sl, u, x, node)
    <2>1. sl.level \in Nat /\ 1 .. sl.level \subseteq 1 .. MaxLevel
      BY MaxLevelIsPositive DEF Tower
    <2>2. \A i : i \in linked <=> x \in On(sl, i)
      <3>1. ASSUME NEW i \in linked PROVE x \in On(sl, i)
        <4>1. i \in 1 .. sl.level /\ i \in 1 .. i
          BY <1>4, <2>1, <3>1
        <4>2. Follow(sl, u[i], i) = x
          BY <1>4, <3>1, <4>1
        <4> QED
          BY <1>2, <1>3, <4>1, <4>2, LinkedIs
      <3>2. ASSUME NEW i, x \in On(sl, i) PROVE i \in linked
        <4>1. x \in DOMAIN sl.node \ {0} /\ i \in DOMAIN sl.node[x].forward
          BY <1>2, <1>3, <3>2, LinkedIs DEF On
        <4>2. PICK h \in 1 .. sl.level : DOMAIN sl.node[x].forward = 1 .. h
          BY <4>1 DEF Tower
        <4>3. i \in 1 .. sl.level
          BY <2>1, <4>1, <4>2
        <4>4. ASSUME NEW j \in 1 .. i PROVE Follow(sl, u[j], j) = x
          <5>1. x \in On(sl, j) /\ j \in 1 .. sl.level
            BY <2>1, <3>2, <4>3, LowerLevels
          <5> QED
            BY <1>2, <1>3, <5>1, LinkedIs
        <4> QED
          BY <1>4, <4>3, <4>4
      <3> QED
        BY <3>1, <3>2
    <2>3. ASSUME NEW a \in DOMAIN node
          PROVE  /\ "forward" \in DOMAIN node[a]
                 /\ DOMAIN node[a].forward = DOMAIN sl.node[a].forward
                 /\ \A i \in DOMAIN sl.node[a].forward :
                       node[a].forward[i] =
                           IF x \in On(sl, i) /\ u[i] = a THEN Follow(sl, x, i)
                           ELSE Follow(sl, a, i)
      <3>1. PICK f : f = [i \in DOMAIN sl.node[a].forward |->
                          IF i \in linked /\ u[i] = a THEN Follow(sl, x, i)
                          ELSE sl.node[a].forward[i]]
        OBVIOUS
      <3>2. a \in DOMAIN sl.node \ {x} /\ node[a] = [sl.node[a] EXCEPT !.forward = f]
        BY <1>5, <2>3, <3>1
      <3>3. "forward" \in DOMAIN sl.node[a]
        BY <3>2 DEF Tower
      <3>4. "forward" \in DOMAIN node[a] /\ node[a].forward = f
        BY <3>2, <3>3
      <3> QED
        BY <2>2, <3>1, <3>4 DEF Follow
    <2>4. DOMAIN node = DOMAIN sl.node \ {x}
      BY <1>5
    <2> QED
      BY <2>3, <2>4 DEF Unlinked
  <1>10. x \in DOMAIN sl.node \ {0}
    BY <1>2, <1>3, LinkedIs
  <1>11. t.node = node /\ t.length = sl.length - 1 /\ t.level = Max({1} \cup up)
         /\ DOMAIN t = DOMAIN NewSkipList
    BY <1>7 DEF NewSkipList
  <1>12. /\ MaxLevel \in Nat \ {0} /\ sl.level \in 1 .. MaxLevel
         /\ \A a \in DOMAIN sl.node : pos[a] \in Nat
         /\ \A a, b \in DOMAIN sl.node : pos[a] = pos[b] => a = b
         /\ DOMAIN sl.node \subseteq Nat /\ 0 \in DOMAIN sl.node /\ pos[0] = 0
    BY MaxLevelIsPositive DEF Tower
  <1>13. \A i : On(t, i) = On(sl, i) \ {x}
    BY <1>9, <1>11 DEF On, Unlinked
  <1>14. ASSUME NEW i \in 1 .. MaxLevel, NEW a \in On(t, i)
         PROVE  NextIn(On(t, i), pos, a, Follow(t, a, i))
    <2>1. a \in On(sl, i) /\ a # x /\ a \in DOMAIN node
      BY <1>9, <1>13, <1>14 DEF On, Unlinked
    <2>2. Follow(t, a, i) = IF x \in On(sl, i) /\ u[i] = a THEN Follow(sl, x, i)
                            ELSE Follow(sl, a, i)
      <3>1. i \in DOMAIN sl.node[a].forward
        BY <2>1 DEF On
      <3>2. node[a].forward[i] = IF x \in On(sl, i) /\ u[i] = a THEN Follow(sl, x, i)
                                 ELSE Follow(sl, a, i)
        BY <1>9, <2>1, <3>1 DEF Unlinked
      <3>3. Follow(t, a, i) = node[a].forward[i]
        BY <1>11 DEF Follow
      <3> QED
        BY <3>2, <3>3
    <2>3. PICK S : S = On(sl, i)
      OBVIOUS
    <2>4. \A c \in S : NextIn(S, pos, c, Follow(sl, c, i))
      BY <2>3 DEF Tower
    <2>5. /\ \A c \in S : pos[c] \in Nat
          /\ \A c, d \in S : pos[c] = pos[d] => c = d
      BY <1>12, <2>3 DEF On
    <2>6. CASE x \notin S
      <3>1. On(t, i) = S /\ Follow(t, a, i) = Follow(sl, a, i)
        BY <1>13, <2>2, <2>3, <2>6
      <3> QED
        BY <2>1, <2>3, <2>4, <3>1
    <2>7. CASE x \in S
      <3>1. i \in 1 .. sl.level
        <4>1. i \in DOMAIN sl.node[x].forward
          BY <2>3, <2>7 DEF On
        <4>2. PICK h \in 1 .. sl.level : DOMAIN sl.node[x].forward = 1 .. h
          BY <1>10 DEF Tower
        <4> QED
          BY <1>12, <4>1, <4>2
      <3>2. Follow(sl, u[i], i) = x
        BY <1>2, <1>3, <2>3, <2>7, <3>1, LinkedIs
      <3>3. u[i] \in S
        BY <1>2, <2>3, <3>1 DEF Guides
      <3>4. NextIn(S, pos, u[i], x)
        BY <2>4, <3>2, <3>3
      <3>5. x # Null
        BY <1>10, <1>12 DEF Null
      <3>6. CASE u[i] = a
        <4>1. Follow(t, a, i) = Follow(sl, x, i)
          BY <2>2, <2>3, <2>7, <3>6
        <4>2. PICK b : b = Follow(sl, x, i)
          OBVIOUS
        <4>3. NextIn(S, pos, x, b) /\ NextIn(S, pos, a, x)
          BY <2>4, <2>7, <3>4, <3>6, <4>2
        <4>4. NextIn(S \ {x}, pos, a, b)
          BY <2>1, <2>3, <2>5, <2>7, <3>5, <4>3, NextSkips
        <4> QED
          BY <1>13, <2>3, <4>1, <4>2, <4>4
      <3>7. CASE u[i] # a
        <4>1. PICK b : b = Follow(sl, a, i)
          OBVIOUS
        <4>2. Follow(t, a, i) = b
          BY <2>2, <3>7, <4>1
        <4>3. NextIn(S, pos, a, b) /\ a \in S \ {x}
          BY <2>1, <2>3, <2>4, <4>1
        <4>4. PICK w \in S : w = u[i]
          BY <3>3
        <4>5. NextIn(S, pos, w, x) /\ w # a
          BY <3>4, <3>7, <4>4
        <4>6. NextIn(S \ {x}, pos, a, b)
          BY <2>5, <2>7, <3>5, <4>3, <4>5, NextStays
        <4> QED
          BY <1>13, <2>3, <4>2, <4>6
      <3> QED
        BY <3>6, <3>7
    <2> QED
      BY <2>6, <2>7
  <1>15. IsFiniteSet(DOMAIN t.node) /\ t.length \in Nat
         /\ Cardinality(DOMAIN t.node) = t.length + 1
    <2>1. DOMAIN t.node = DOMAIN sl.node \ {x}
      BY <1>9, <1>11 DEF Unlinked
    <2>2. IsFiniteSet(DOMAIN sl.node) /\ Cardinality(DOMAIN sl.node) = sl.length + 1
          /\ sl.length \in Nat
      BY DEF Tower
    <2>3. IsFiniteSet(DOMAIN t.node) /\ Cardinality(DOMAIN t.node) = sl.length
      <3>1. Cardinality(DOMAIN t.node) = Cardinality(DOMAIN sl.node) - 1
            /\ IsFiniteSet(DOMAIN t.node)
        BY <1>10, <2>1, <2>2, FS_RemoveElement
      <3> QED
        BY <2>2, <3>1
    <2>4. 0 \in DOMAIN t.node
      BY <1>10, <1>12, <2>1
    <2>5. sl.length # 0
      BY <2>3, <2>4, FS_EmptySet
    <2> QED
      BY <1>11, <2>2, <2>3, <2>5
  <1>16. /\ 0 \in DOMAIN t.node /\ DOMAIN t.node \subseteq DOMAIN sl.node
         /\ \A a \in DOMAIN t.node : /\ "forward" \in DOMAIN t.node[a]
                                     /\ DOMAIN t.node[a].forward = DOMAIN sl.node[a].forward
    BY <1>9, <1>10, <1>11, <1>12 DEF Unlinked
  <1>17. DOMAIN t.node[0].forward = 1 .. MaxLevel
    BY <1>16 DEF Tower
  <1>18. PICK l : l = t.level
    OBVIOUS
  <1>19. up \subseteq 1 .. sl.level
    BY <1>6
  <1>20. l \in {1} \cup up /\ \A i \in up : i <= l
    <2>1. PICK U : U = {1} \cup up
      OBVIOUS
    <2>2. PICK m \in Nat : m = sl.level /\ 1 <= m
      BY <1>12
    <2>3. \A i \in U : i \in Nat /\ i <= m
      BY <1>19, <2>1, <2>2
    <2>4. Max(U) \in U /\ \A i \in U : i <= Max(U)
      BY <2>1, <2>2, <2>3, GreatestIs
    <2> QED
      BY <1>11, <1>18, <2>1, <2>4
  <1>21. l \in 1 .. MaxLevel /\ l <= sl.level
    BY <1>12, <1>19, <1>20
  <1>22. ASSUME NEW a \in DOMAIN t.node \ {0}, NEW i \in DOMAIN t.node[a].forward,
                i \in 1 .. MaxLevel
         PROVE  i <= l
    <2>1. a \in On(t, i) /\ 0 \in On(t, i)
      BY <1>16, <1>17, <1>22 DEF On
    <2>2. NextIn(On(t, i), pos, 0, Follow(t, 0, i))
      BY <1>14, <1>22, <2>1
    <2>3. pos[a] \in Nat /\ pos[a] # 0
      BY <1>12, <1>16, <1>22
    <2>4. Follow(t, 0, i) \in On(t, i)
      BY <1>12, <2>1, <2>2, <2>3 DEF NextIn
    <2>5. Follow(t, 0, i) # Null
      BY <1>12, <1>16, <2>4 DEF On, Null
    <2>6. i \in 1 .. sl.level
      <3>1. PICK h \in 1 .. sl.level : DOMAIN sl.node[a].forward = 1 .. h
        BY <1>16, <1>22 DEF Tower
      <3> QED
        BY <1>12, <1>16, <1>22, <3>1
    <2>7. i \in up
      BY <1>6, <1>11, <2>5, <2>6 DEF Follow
    <2> QED
      BY <1>20, <2>7
  <1>23. ASSUME NEW a \in DOMAIN t.node
         PROVE  \E h \in 1 .. (IF a = 0 THEN MaxLevel
ELSE l) : DOMAIN t.node[a].forward = 1 .. h
    <2>1. CASE a = 0
      BY <1>12, <1>17, <2>1
    <2>2. CASE a # 0
      <3>1. PICK h \in 1 .. sl.level : DOMAIN sl.node[a].forward = 1 .. h
        BY <1>16, <1>23, <2>2 DEF Tower
      <3>2. DOMAIN t.node[a].forward = 1 .. h /\ h \in 1 .. MaxLevel /\ h \in 1 .. h
        BY <1>12, <1>16, <3>1
      <3>3. h <= l
        BY <1>22, <1>23, <2>2, <3>2
      <3>4. h \in 1 .. l
        BY <1>21, <3>2, <3>3
      <3> QED
        BY <2>2, <3>2, <3>4
    <2> QED
      BY <2>1, <2>2
  <1>24. l > 1 => On(t, l) # {0}
    <2> SUFFICES ASSUME l > 1 PROVE On(t, l) # {0}
      OBVIOUS
    <2>1. Follow(t, 0, l) # Null
      BY <1>6, <1>11, <1>20, <1>21 DEF Follow
    <2>2. 0 \in On(t, l)
      BY <1>16, <1>17, <1>21 DEF On
    <2>3. NextIn(On(t, l), pos, 0, Follow(t, 0, l))
      BY <1>14, <1>21, <2>2
    <2>4. Follow(t, 0, l) \in On(t, l) /\ pos[0] < pos[Follow(t, 0, l)]
      BY <2>1, <2>3 DEF NextIn
    <2>5. Follow(t, 0, l) # 0
      BY <1>12, <2>4
    <2> QED
      BY <2>4, <2>5
  <1> QED
    BY <1>11, <1>12, <1>14, <1>15, <1>16, <1>17, <1>18, <1>21, <1>23, <1>24 DEF Tower

-----------------------------------------------------------------------------
(* Putting a node in *)

\* The nodes beyond place p make room for n: pos becomes q.
MakesRoom(D, pos, p, n, q) ==
    /\ n \notin D /\ p \in Nat /\ \A a \in D : pos[a] \in Nat
    /\ q = [a \in D \cup {n} |->
               IF a = n THEN p + 1 ELSE IF p < pos[a] THEN pos[a] + 1 ELSE pos[a]]

\* The others keep their places, or move up by one.
LEMMA RoomMade ==
    ASSUME NEW S, NEW D, S \subseteq D, NEW pos, NEW p, NEW n, NEW q,
           MakesRoom(D, pos, p, n, q)
    PROVE  /\ \A a \in S : q[a] \in Nat /\ pos[a] \in Nat
           /\ \A a \in S : /\ pos[a] <= p => q[a] = pos[a]
                           /\ p < pos[a] => q[a] = pos[a] + 1
           /\ q[n] = p + 1 /\ q[n] \in Nat
  <1>1. ASSUME NEW a \in S
        PROVE  /\ q[a] = IF p < pos[a] THEN pos[a] + 1 ELSE pos[a]
               /\ pos[a] \in Nat
    BY <1>1 DEF MakesRoom
  <1>2. p \in Nat /\ q[n] = p + 1
    BY DEF MakesRoom
  <1> QED
    BY <1>1, <1>2

\* What was next is still next.
LEMMA NextMoved ==
    ASSUME NEW S, NEW D, S \subseteq D, NEW pos, NEW p, NEW n, NEW q,
           MakesRoom(D, pos, p, n, q),
           NEW a \in S, NEW b, NextIn(S, pos, a, b)
    PROVE  NextIn(S, q, a, b)
  <1>1. /\ \A c \in S : q[c] \in Nat /\ pos[c] \in Nat
        /\ \A c \in S : /\ pos[c] <= p => q[c] = pos[c]
                        /\ p < pos[c] => q[c] = pos[c] + 1
        /\ p \in Nat
    BY RoomMade DEF MakesRoom
  <1>2. \A c, d \in S : pos[c] <= pos[d] => q[c] <= q[d]
    <2> SUFFICES ASSUME NEW c \in S, NEW d \in S, pos[c] <= pos[d] PROVE q[c] <= q[d]
      OBVIOUS
    <2>1. pos[c] \in Nat /\ pos[d] \in Nat
      BY <1>1
    <2>2. CASE p < pos[d]
      BY <1>1, <2>1, <2>2
    <2>3. CASE pos[d] <= p
      BY <1>1, <2>1, <2>3
    <2> QED
      BY <1>1, <2>1, <2>2, <2>3
  <1>3. \A c, d \in S : pos[c] < pos[d] => q[c] < q[d]
    <2> SUFFICES ASSUME NEW c \in S, NEW d \in S, pos[c] < pos[d] PROVE q[c] < q[d]
      OBVIOUS
    <2>1. pos[c] \in Nat /\ pos[d] \in Nat
      BY <1>1
    <2>2. CASE p < pos[d]
      BY <1>1, <2>1, <2>2
    <2>3. CASE pos[d] <= p
      BY <1>1, <2>1, <2>3
    <2> QED
      BY <1>1, <2>1, <2>2, <2>3
  <1> QED
    BY <1>2, <1>3 DEF NextIn

\* w is the last one of S up to place p.
LastUpTo(S, pos, p, w) ==
    w \in S /\ pos[w] <= p /\ \A c \in S : pos[c] <= pos[w] \/ p < pos[c]

\* The new node leads to what its predecessor led to.
LEMMA NextOfNew ==
    ASSUME NEW S, NEW D, S \subseteq D, NEW pos, NEW p, NEW n, NEW q,
           MakesRoom(D, pos, p, n, q),
           NEW w, LastUpTo(S, pos, p, w), NEW b, NextIn(S, pos, w, b)
    PROVE  NextIn(S \cup {n}, q, n, b)
  <1>1. /\ \A c \in S : q[c] \in Nat /\ pos[c] \in Nat
        /\ \A c \in S : /\ pos[c] <= p => q[c] = pos[c]
                        /\ p < pos[c] => q[c] = pos[c] + 1
        /\ q[n] = p + 1 /\ q[n] \in Nat /\ p \in Nat
    BY RoomMade DEF MakesRoom
  <1>2. w \in S /\ pos[w] <= p /\ \A c \in S : pos[c] <= pos[w] \/ p < pos[c]
    BY DEF LastUpTo
  <1>3. \A c \in S : pos[c] <= p => q[c] <= q[n]
    BY <1>1
  <1>4. CASE b = Null /\ \A c \in S : pos[c] <= pos[w]
    <2>1. \A c \in S : pos[c] <= p
      BY <1>1, <1>2, <1>4
    <2>2. \A c \in S \cup {n} : q[c] <= q[n]
      BY <1>1, <1>3, <2>1
    <2> QED
      BY <1>4, <2>2 DEF NextIn
  <1>5. CASE b \in S /\ pos[w] < pos[b] /\ \A c \in S : pos[c] <= pos[w] \/ pos[b] <= pos[c]
    <2>1. p < pos[b]
      BY <1>1, <1>2, <1>5
    <2>2. q[n] < q[b] /\ q[b] = pos[b] + 1
      BY <1>1, <1>5, <2>1
    <2>3. ASSUME NEW c \in S PROVE q[c] <= q[n] \/ q[b] <= q[c]
      <3>1. CASE pos[c] <= pos[w]
        <4>1. pos[c] <= p
          BY <1>1, <1>2, <3>1
        <4> QED
          BY <1>3, <4>1
      <3>2. CASE pos[b] <= pos[c]
        <4>1. p < pos[c]
          BY <1>1, <1>5, <2>1, <3>2
        <4>2. q[c] = pos[c] + 1
          BY <1>1, <4>1
        <4> QED
          BY <1>1, <1>5, <2>2, <3>2, <4>2
      <3> QED
        BY <1>5, <3>1, <3>2
    <2>4. \A c \in S \cup {n} : q[c] <= q[n] \/ q[b] <= q[c]
      BY <1>1, <2>3
    <2> QED
      BY <1>5, <2>2, <2>4 DEF NextIn
  <1> QED
    BY <1>4, <1>5 DEF NextIn

\* Its predecessor leads to it.
LEMMA NextIsNew ==
    ASSUME NEW S, NEW D, S \subseteq D, NEW pos, NEW p, NEW n, NEW q,
           MakesRoom(D, pos, p, n, q),
           NEW w, LastUpTo(S, pos, p, w)
    PROVE  NextIn(S \cup {n}, q, w, n)
  <1>1. /\ \A c \in S : q[c] \in Nat /\ pos[c] \in Nat
        /\ \A c \in S : /\ pos[c] <= p => q[c] = pos[c]
                        /\ p < pos[c] => q[c] = pos[c] + 1
        /\ q[n] = p + 1 /\ q[n] \in Nat /\ p \in Nat
    BY RoomMade DEF MakesRoom
  <1>2. w \in S /\ pos[w] <= p /\ \A c \in S : pos[c] <= pos[w] \/ p < pos[c]
    BY DEF LastUpTo
  <1>3. q[w] = pos[w] /\ q[w] < q[n]
    BY <1>1, <1>2
  <1>4. ASSUME NEW c \in S PROVE q[c] <= q[w] \/ q[n] <= q[c]
    <2>1. CASE pos[c] <= pos[w]
      BY <1>1, <1>2, <1>3, <2>1
    <2>2. CASE p < pos[c]
      BY <1>1, <2>2
    <2> QED
      BY <1>2, <2>1, <2>2
  <1> QED
    BY <1>1, <1>3, <1>4 DEF NextIn

\* All others lead to what they led to.
LEMMA NextOfOld ==
    ASSUME NEW S, NEW D, S \subseteq D, NEW pos, NEW p, NEW n, NEW q,
           MakesRoom(D, pos, p, n, q),
           \A c, d \in D : pos[c] = pos[d] => c = d,
           NEW w, LastUpTo(S, pos, p, w), NEW a \in S, a # w, NEW b, NextIn(S, pos, a, b)
    PROVE  NextIn(S \cup {n}, q, a, b)
  <1>1. /\ \A c \in S : q[c] \in Nat /\ pos[c] \in Nat
        /\ \A c \in S : /\ pos[c] <= p => q[c] = pos[c]
                        /\ p < pos[c] => q[c] = pos[c] + 1
        /\ q[n] = p + 1 /\ q[n] \in Nat /\ p \in Nat
    BY RoomMade DEF MakesRoom
  <1>2. w \in S /\ pos[w] <= p /\ \A c \in S : pos[c] <= pos[w] \/ p < pos[c]
    BY DEF LastUpTo
  <1>3. NextIn(S, q, a, b)
    BY NextMoved
  <1>4. pos[a] # pos[w]
    BY <1>2
  <1>5. CASE p < pos[a]
    <2>1. q[n] <= q[a]
      BY <1>1, <1>5
    <2> QED
      BY <1>3, <2>1 DEF NextIn
  <1>6. CASE pos[a] <= p
    <2>1. pos[a] < pos[w]
      BY <1>1, <1>2, <1>4, <1>6
    <2>2. b \in S /\ pos[b] <= pos[w]
      BY <1>1, <1>2, <2>1 DEF NextIn
    <2>3. q[b] <= q[n] /\ q[a] < q[w]
      BY <1>1, <1>2, <1>6, <2>1, <2>2
    <2>4. /\ q[a] < q[b] /\ \A c \in S : q[c] <= q[a] \/ q[b] <= q[c]
      BY <1>1, <1>2, <1>3, <2>3 DEF NextIn
    <2>5. \A c \in S \cup {n} : q[c] <= q[a] \/ q[b] <= q[c]
      BY <2>3, <2>4
    <2> QED
      BY <2>2, <2>4, <2>5 DEF NextIn
  <1> QED
    BY <1>1, <1>5, <1>6

\* The node at n is linked on levels 1 to lvl after the nodes before[i].
LinkedAfter(s, before, n, lvl, node) ==
    /\ DOMAIN node = DOMAIN s.node \cup {n}
    /\ "forward" \in DOMAIN node[n] /\ DOMAIN node[n].forward = 1 .. lvl
    /\ \A i \in 1 .. lvl : node[n].forward[i] = Follow(s, before[i], i)
    /\ \A a \in DOMAIN s.node :
          /\ "forward" \in DOMAIN node[a]
          /\ DOMAIN node[a].forward = DOMAIN s.node[a].forward
          /\ \A i \in DOMAIN s.node[a].forward :
                node[a].forward[i] =
                    IF i \in 1 .. lvl /\ before[i] = a THEN n ELSE Follow(s, a, i)

\* A tower with a node linked on the levels up to lvl is a tower.
LEMMA LinkedTower ==
    ASSUME NEW s, NEW pos, Tower(s, pos), NEW lvl \in 1 .. MaxLevel,
           NEW n \in Nat, n \notin DOMAIN s.node, NEW p \in Nat, NEW before,
           \A i \in 1 .. lvl : LastUpTo(On(s, i), pos, p, before[i]),
           NEW node, LinkedAfter(s, before, n, lvl, node),
           NEW q, MakesRoom(DOMAIN s.node, pos, p, n, q),
           NEW t, DOMAIN t = DOMAIN NewSkipList, t.node = node, t.length = s.length + 1,
           t.level = IF s.level < lvl THEN lvl ELSE s.level
    PROVE  Tower(t, q)
  <1>1. /\ MaxLevel \in Nat \ {0} /\ s.level \in 1 .. MaxLevel
        /\ \A a \in DOMAIN s.node : pos[a] \in Nat
        /\ \A a, b \in DOMAIN s.node : pos[a] = pos[b] => a = b
        /\ DOMAIN s.node \subseteq Nat /\ 0 \in DOMAIN s.node /\ pos[0] = 0
    BY MaxLevelIsPositive DEF Tower
  <1>2. PICK D : D = DOMAIN s.node
    OBVIOUS
  <1>3. DOMAIN t.node = D \cup {n} /\ n \notin D /\ n # 0
    BY <1>1, <1>2 DEF LinkedAfter
  <1>4. \A i : On(t, i) = IF i \in 1 .. lvl THEN On(s, i) \cup {n} ELSE On(s, i)
    <2>1. ASSUME NEW i, NEW a PROVE a \in On(t, i) <=> a \in On(s, i) \/ (i \in 1 .. lvl /\ a = n)
      <3>1. CASE a = n
        BY <1>2, <1>3, <3>1 DEF On, LinkedAfter
      <3>2. CASE a # n
        BY <1>2, <1>3, <3>2 DEF On, LinkedAfter
      <3> QED
        BY <3>1, <3>2
    <2> QED
      BY <2>1
  <1>5. \A i : On(s, i) \subseteq D
    BY <1>2 DEF On
  <1>6. MakesRoom(D, pos, p, n, q)
    BY <1>2
  <1>7. ASSUME NEW i \in 1 .. MaxLevel, NEW a \in On(t, i)
        PROVE  NextIn(On(t, i), q, a, Follow(t, a, i))
    <2>1. PICK S : S = On(s, i)
      OBVIOUS
    <2>2. S \subseteq D /\ \A c \in S : NextIn(S, pos, c, Follow(s, c, i))
      BY <1>5, <2>1 DEF Tower
    <2>3. a # n => /\ a \in S
                   /\ Follow(t, a, i) = IF i \in 1 .. lvl /\ before[i] = a THEN n
                                        ELSE Follow(s, a, i)
      <3> SUFFICES ASSUME a # n
                   PROVE  /\ a \in S
                          /\ Follow(t, a, i) = IF i \in 1 .. lvl /\ before[i] = a THEN n
                                               ELSE Follow(s, a, i)
        OBVIOUS
      <3>1. a \in On(s, i)
        BY <1>4, <1>7
      <3>2. a \in DOMAIN s.node /\ i \in DOMAIN s.node[a].forward
        BY <3>1 DEF On
      <3>3. node[a].forward[i] = IF i \in 1 .. lvl /\ before[i] = a THEN n
                                 ELSE Follow(s, a, i)
        BY <3>2 DEF LinkedAfter
      <3> QED
        BY <2>1, <3>1, <3>3 DEF Follow
    <2>4. CASE i \notin 1 .. lvl
      <3>1. On(t, i) = S /\ a \in S /\ a # n
        BY <1>3, <1>4, <1>5, <1>7, <2>1, <2>4
      <3>2. PICK b : b = Follow(s, a, i)
        OBVIOUS
      <3>3. NextIn(S, pos, a, b) /\ Follow(t, a, i) = b
        BY <2>2, <2>3, <2>4, <3>1, <3>2
      <3>4. NextIn(S, q, a, b)
        BY <1>6, <2>2, <3>1, <3>3, NextMoved
      <3> QED
        BY <3>1, <3>3, <3>4
    <2>5. CASE i \in 1 .. lvl
      <3>1. PICK w : w = before[i]
        OBVIOUS
      <3>2. LastUpTo(S, pos, p, w) /\ w \in S
        BY <2>1, <2>5, <3>1 DEF LastUpTo
      <3>3. On(t, i) = S \cup {n}
        BY <1>4, <2>1, <2>5
      <3>4. CASE a = n
        <4>1. PICK b : b = Follow(s, w, i)
          OBVIOUS
        <4>2. Follow(t, a, i) = b
          BY <2>5, <3>1, <3>4, <4>1 DEF Follow, LinkedAfter
        <4>3. NextIn(S, pos, w, b)
          BY <2>2, <3>2, <4>1
        <4>4. NextIn(S \cup {n}, q, n, b)
          BY <1>6, <2>2, <3>2, <4>3, NextOfNew
        <4> QED
          BY <3>3, <3>4, <4>2, <4>4
      <3>5. CASE a # n /\ a = w
        <4>1. Follow(t, a, i) = n
          BY <2>3, <2>5, <3>1, <3>5
        <4>2. NextIn(S \cup {n}, q, w, n)
          BY <1>6, <2>2, <3>2, NextIsNew
        <4> QED
          BY <3>3, <3>5, <4>1, <4>2
      <3>6. CASE a # n /\ a # w
        <4>1. PICK b : b = Follow(s, a, i)
          OBVIOUS
        <4>2. Follow(t, a, i) = b /\ a \in S
          BY <2>3, <3>1, <3>6, <4>1
        <4>3. NextIn(S, pos, a, b)
          BY <2>2, <4>1, <4>2
        <4>4. \A c, d \in D : pos[c] = pos[d] => c = d
          BY <1>1, <1>2
        <4>5. NextIn(S \cup {n}, q, a, b)
          BY <1>6, <2>2, <3>2, <3>6, <4>2, <4>3, <4>4, NextOfOld
        <4> QED
          BY <3>3, <4>2, <4>5
      <3> QED
        BY <3>4, <3>5, <3>6
    <2> QED
      BY <2>4, <2>5
  <1>8. /\ \A a \in D : q[a] \in Nat /\ pos[a] \in Nat
        /\ \A a \in D : /\ pos[a] <= p => q[a] = pos[a]
                        /\ p < pos[a] => q[a] = pos[a] + 1
        /\ q[n] = p + 1 /\ q[n] \in Nat
    BY <1>6, RoomMade
  <1>9. /\ \A a \in D \cup {n} : q[a] \in Nat
        /\ \A a, b \in D \cup {n} : q[a] = q[b] => a = b
    <2>1. ASSUME NEW a \in D PROVE q[a] # q[n]
      <3>1. q[a] \in Nat /\ pos[a] \in Nat
        BY <1>8
      <3>2. CASE pos[a] <= p
        BY <1>8, <3>1, <3>2
      <3>3. CASE p < pos[a]
        BY <1>8, <3>1, <3>3
      <3> QED
        BY <3>1, <3>2, <3>3
    <2>2. ASSUME NEW a \in D, NEW b \in D, q[a] = q[b] PROVE a = b
      <3>1. pos[a] \in Nat /\ pos[b] \in Nat
        BY <1>8
      <3>2. pos[a] = pos[b]
        <4>1. CASE pos[a] <= p /\ pos[b] <= p
          BY <1>8, <2>2, <4>1
        <4>2. CASE p < pos[a] /\ p < pos[b]
          BY <1>8, <2>2, <3>1, <4>2
        <4>3. CASE pos[a] <= p /\ p < pos[b]
          BY <1>8, <2>2, <3>1, <4>3
        <4>4. CASE p < pos[a] /\ pos[b] <= p
          BY <1>8, <2>2, <3>1, <4>4
        <4> QED
          BY <3>1, <4>1, <4>2, <4>3, <4>4
      <3> QED
        BY <1>1, <1>2, <3>2
    <2> QED
      BY <1>8, <2>1, <2>2
  <1>10. q[0] = 0
    BY <1>1, <1>2, <1>8
  <1>11. IsFiniteSet(D \cup {n}) /\ Cardinality(D \cup {n}) = t.length + 1 /\ t.length \in Nat
    <2>1. IsFiniteSet(D) /\ Cardinality(D) = s.length + 1 /\ s.length \in Nat
      BY <1>2 DEF Tower
    <2>2. IsFiniteSet(D \cup {n}) /\ Cardinality(D \cup {n}) = Cardinality(D) + 1
      BY <1>3, <2>1, FS_AddElement
    <2> QED
      BY <2>1, <2>2
  <1>12. PICK l : l = t.level
    OBVIOUS
  <1>13. l \in 1 .. MaxLevel /\ s.level <= l /\ lvl <= l /\ (l = lvl \/ (l = s.level /\ lvl < l))
    BY <1>1, <1>12
  <1>14. ASSUME NEW a \in D \cup {n}
         PROVE  /\ "forward" \in DOMAIN t.node[a]
                /\ \E h \in 1 .. (IF a = 0 THEN MaxLevel ELSE l) :
                      DOMAIN t.node[a].forward = 1 .. h
    <2>1. CASE a = n
      <3>1. "forward" \in DOMAIN t.node[a] /\ DOMAIN t.node[a].forward = 1 .. lvl
        BY <2>1 DEF LinkedAfter
      <3>2. lvl \in 1 .. l /\ a # 0
        BY <1>3, <1>13, <2>1
      <3> QED
        BY <3>1, <3>2
    <2>2. CASE a # n
      <3>1. a \in DOMAIN s.node
        BY <1>2, <1>14, <2>2
      <3>2. "forward" \in DOMAIN t.node[a]
            /\ DOMAIN t.node[a].forward = DOMAIN s.node[a].forward
        BY <3>1 DEF LinkedAfter
      <3>3. PICK m : m = IF a = 0 THEN MaxLevel ELSE s.level
        OBVIOUS
      <3>4. PICK h \in 1 .. m : DOMAIN s.node[a].forward = 1 .. h
        BY <3>1, <3>3 DEF Tower
      <3>5. h \in 1 .. (IF a = 0 THEN MaxLevel ELSE l)
        BY <1>1, <1>13, <3>3
      <3> QED
        BY <3>2, <3>4, <3>5
    <2> QED
      BY <2>1, <2>2
  <1>15. DOMAIN t.node[0].forward = 1 .. MaxLevel
    <2>1. DOMAIN t.node[0].forward = DOMAIN s.node[0].forward
      BY <1>1 DEF LinkedAfter
    <2> QED
      BY <2>1 DEF Tower
  <1>16. l > 1 => On(t, l) # {0}
    <2>1. CASE l = lvl
      <3>1. n \in On(t, l)
        BY <1>4, <1>13, <2>1
      <3> QED
        BY <1>3, <3>1
    <2>2. CASE l = s.level /\ lvl < l
      <3>1. On(t, l) = On(s, l)
        BY <1>4, <1>13, <2>2
      <3>2. s.level > 1 => On(s, s.level) # {0}
        BY DEF Tower
      <3> QED
        BY <2>2, <3>1, <3>2
    <2> QED
      BY <1>13, <2>1, <2>2
  <1>17. 0 \in DOMAIN t.node /\ DOMAIN t.node \subseteq Nat
    BY <1>1, <1>2, <1>3
  <1> QED
    BY <1>3, <1>7, <1>9, <1>10, <1>11, <1>12, <1>13, <1>14, <1>15, <1>16, <1>17 DEF Tower

\* sl without the node sl_find_member finds.
Cleaned(sl, member) ==
    IF FindMember(sl, member) = Null THEN sl
    ELSE SlDelete(sl, member, sl.node[FindMember(sl, member)].score)

\* f is a function.
IsFun(f) == f = [i \in DOMAIN f |-> f[i]]

\* t is s with a new node n at the place the search finds; pos becomes q.
Added(s, pos, member, score, t, n, q) ==
    /\ n \in 1 .. Cardinality(DOMAIN s.node) /\ n \notin DOMAIN s.node
    /\ MakesRoom(DOMAIN s.node, pos, pos[Update(s, member, score)[1]], n, q)
    /\ t = [level |-> t.level, length |-> t.length, node |-> t.node] /\ IsFun(t.node)
    /\ DOMAIN t.node = DOMAIN s.node \cup {n}
    /\ \A a \in DOMAIN t.node : IsFun(t.node[a].forward)
    /\ t.node[n] = [score |-> score, member |-> member, forward |-> t.node[n].forward]
    /\ \A a \in DOMAIN s.node : t.node[a] = [s.node[a] EXCEPT !.forward = t.node[a].forward]

\* sl_insert leaves a tower, NaN scores and strcmp-equal members or not.
LEMMA InsertIs ==
    ASSUME NEW sl, NEW pos, Tower(sl, pos), NEW member, NEW score, NEW lvl \in 1 .. MaxLevel
    PROVE  \E q, n : /\ Tower(SlInsert(sl, member, score, lvl), q)
                     /\ Added(Cleaned(sl, member), pos, member, score,
                              SlInsert(sl, member, score, lvl), n, q)
  <1> DEFINE old == FindMember(sl, member)
             s == IF old = Null THEN sl ELSE SlDelete(sl, member, sl.node[old].score)
             u == Update(s, member, score)
             Before(i) == IF i <= s.level THEN u[i] ELSE 0
             n == Min({a \in 1 .. Cardinality(DOMAIN s.node) : a \notin DOMAIN s.node})
             new == [score |-> score, member |-> member,
                     forward |-> [i \in 1 .. lvl |-> Follow(s, Before(i), i)]]
             node == [a \in DOMAIN s.node \cup {n} |->
                         IF a = n THEN new
                         ELSE [s.node[a] EXCEPT !.forward = [i \in DOMAIN @ |->
                                 IF i <= lvl /\ Before(i) = a THEN n ELSE @[i]]]]
             level == Max({s.level, lvl})
             t == [level |-> level, length |-> s.length + 1, node |-> node]
  <1>1. SlInsert(sl, member, score, lvl) = t
    BY DEF SlInsert
  <1>2. Tower(s, pos) /\ s = Cleaned(sl, member)
    BY DeleteIs DEF Cleaned
  <1> HIDE DEF s
  <1>3. Guides(s, pos, u) /\ u = Update(s, member, score)
    BY <1>2, UpdateIs
  <1> HIDE DEF u
  <1>4. n \in Nat \ {0} /\ n \notin DOMAIN s.node /\ n \in 1 .. Cardinality(DOMAIN s.node)
    <2>1. PICK D : D = DOMAIN s.node
      OBVIOUS
    <2>2. IsFiniteSet(D) /\ Cardinality(D) \in Nat /\ 0 \in D
      BY <1>2, <2>1, FS_CardinalityType DEF Tower
    <2>3. PICK c \in Nat : c = Cardinality(D)
      BY <2>2
    <2>4. PICK T : T = {a \in 1 .. c : a \notin D}
      OBVIOUS
    <2>5. T # {}
      <3> SUFFICES ASSUME T = {} PROVE FALSE
        OBVIOUS
      <3>1. 1 .. c \subseteq D /\ 0 \notin 1 .. c
        BY <2>4
      <3>2. IsFiniteSet(1 .. c) /\ Cardinality(1 .. c) = c
        BY FS_Interval
      <3>3. 1 .. c = D
        BY <2>2, <2>3, <3>1, <3>2, FS_Subset
      <3> QED
        BY <2>2, <3>1, <3>3
    <2>6. T \in SUBSET Nat
      BY <2>4
    <2>7. Min(T) \in T
      BY <2>5, <2>6, MinIs
    <2>8. n = Min(T)
      BY <2>1, <2>3, <2>4
    <2> QED
      BY <2>1, <2>3, <2>4, <2>7, <2>8
  <1> HIDE DEF n
  <1>5. PICK p : p = pos[u[1]]
    OBVIOUS
  <1>6. /\ MaxLevel \in Nat \ {0} /\ s.level \in 1 .. MaxLevel
        /\ \A a \in DOMAIN s.node : pos[a] \in Nat
        /\ 0 \in DOMAIN s.node /\ pos[0] = 0
    BY <1>2, MaxLevelIsPositive DEF Tower
  <1>7. p \in Nat
    <2>1. u[1] \in DOMAIN s.node
      BY <1>3, <1>6 DEF Guides, On
    <2> QED
      BY <1>5, <1>6, <2>1
  <1> DEFINE before == [i \in 1 .. lvl |-> Before(i)]
  <1>8. ASSUME NEW i \in 1 .. lvl PROVE LastUpTo(On(s, i), pos, p, before[i])
    <2>1. CASE i <= s.level
      <3>1. i \in 1 .. s.level /\ before[i] = u[i]
        BY <1>6, <2>1
      <3> QED
        BY <1>3, <1>5, <3>1 DEF Guides, LastUpTo
    <2>2. CASE ~(i <= s.level)
      <3>1. before[i] = 0
        BY <2>2
      <3>2. i \in 1 .. MaxLevel
        BY <1>6
      <3>3. 0 \in On(s, i)
        BY <1>2, <1>6, <3>2 DEF On, Tower
      <3>4. ASSUME NEW c \in On(s, i) PROVE c = 0
        <4> SUFFICES ASSUME c # 0 PROVE FALSE
          OBVIOUS
        <4>1. c \in DOMAIN s.node /\ i \in DOMAIN s.node[c].forward
          BY <3>4 DEF On
        <4>2. PICK h \in 1 .. s.level : DOMAIN s.node[c].forward = 1 .. h
          BY <1>2, <4>1 DEF Tower
        <4> QED
          BY <1>6, <2>2, <4>1, <4>2
      <3> QED
        BY <1>6, <1>7, <3>1, <3>3, <3>4 DEF LastUpTo
    <2> QED
      BY <2>1, <2>2
  <1>9. \A i \in 1 .. lvl : before[i] = Before(i)
    OBVIOUS
  <1> HIDE DEF before
  <1>10. LinkedAfter(s, before, n, lvl, node)
    <2>1. DOMAIN node = DOMAIN s.node \cup {n}
      OBVIOUS
    <2>2. node[n] = new /\ DOMAIN new = {"score", "member", "forward"}
          /\ new.forward = [i \in 1 .. lvl |-> Follow(s, Before(i), i)]
      OBVIOUS
    <2>3. ASSUME NEW a \in DOMAIN s.node
          PROVE  /\ "forward" \in DOMAIN node[a]
                 /\ DOMAIN node[a].forward = DOMAIN s.node[a].forward
                 /\ \A i \in DOMAIN s.node[a].forward :
                       node[a].forward[i] =
                           IF i \in 1 .. lvl /\ before[i] = a THEN n ELSE Follow(s, a, i)
      <3>1. PICK f : f = [i \in DOMAIN s.node[a].forward |->
                            IF i <= lvl /\ Before(i) = a THEN n ELSE s.node[a].forward[i]]
        OBVIOUS
      <3>2. a # n
        BY <1>4, <2>3
      <3>3. node[a] = [s.node[a] EXCEPT !.forward = f]
        BY <2>3, <3>1, <3>2
      <3>4. "forward" \in DOMAIN s.node[a]
        BY <1>2, <2>3 DEF Tower
      <3>5. "forward" \in DOMAIN node[a] /\ node[a].forward = f
        BY <3>3, <3>4
      <3>6. DOMAIN s.node[a].forward \subseteq Nat \ {0}
        <4>1. PICK m : m = IF a = 0 THEN MaxLevel ELSE s.level
          OBVIOUS
        <4>2. PICK h \in 1 .. m : DOMAIN s.node[a].forward = 1 .. h
          BY <1>2, <2>3, <4>1 DEF Tower
        <4>3. m \in Nat
          BY <1>6, <4>1
        <4> QED
          BY <4>2, <4>3
      <3>7. \A i \in DOMAIN s.node[a].forward : i <= lvl <=> i \in 1 .. lvl
        BY <1>6, <3>6
      <3>8. \A i \in DOMAIN s.node[a].forward :
               f[i] = IF i \in 1 .. lvl /\ before[i] = a THEN n ELSE Follow(s, a, i)
        BY <1>9, <3>1, <3>7 DEF Follow
      <3> QED
        BY <3>1, <3>5, <3>8
    <2> HIDE DEF node
    <2>4. /\ "forward" \in DOMAIN node[n] /\ DOMAIN node[n].forward = 1 .. lvl
          /\ \A i \in 1 .. lvl : node[n].forward[i] = Follow(s, before[i], i)
      BY <1>9, <2>2
    <2> QED
      BY <2>1, <2>3, <2>4 DEF LinkedAfter
  <1>19. /\ IsFun(node) /\ DOMAIN node = DOMAIN s.node \cup {n}
         /\ node[n] = [score |-> score, member |-> member, forward |-> node[n].forward]
         /\ \A a \in DOMAIN node : IsFun(node[a].forward)
         /\ \A a \in DOMAIN s.node :
               node[a] = [s.node[a] EXCEPT !.forward = node[a].forward]
    <2>1. IsFun(node) /\ DOMAIN node = DOMAIN s.node \cup {n}
      BY DEF IsFun
    <2>2. PICK g : g = [i \in 1 .. lvl |-> Follow(s, Before(i), i)]
      OBVIOUS
    <2>3. IsFun(g)
      BY <2>2 DEF IsFun
    <2>4. node[n] = [score |-> score, member |-> member, forward |-> g]
      BY <2>2
    <2>5. ASSUME NEW a \in DOMAIN s.node
          PROVE  /\ IsFun(node[a].forward)
                 /\ node[a] = [s.node[a] EXCEPT !.forward = node[a].forward]
      <3>1. PICK f : f = [i \in DOMAIN s.node[a].forward |->
                            IF i <= lvl /\ Before(i) = a THEN n ELSE s.node[a].forward[i]]
        OBVIOUS
      <3>2. a # n
        BY <1>4, <2>5
      <3>3. node[a] = [s.node[a] EXCEPT !.forward = f]
        BY <2>5, <3>1, <3>2
      <3>4. "forward" \in DOMAIN s.node[a]
        BY <1>2, <2>5 DEF Tower
      <3>5. node[a].forward = f
        BY <3>3, <3>4
      <3>6. IsFun(f)
        BY <3>1 DEF IsFun
      <3> QED
        BY <3>3, <3>5, <3>6
    <2> HIDE DEF node
    <2>6. node[n].forward = g
      BY <2>4
    <2>7. ASSUME NEW a \in DOMAIN node PROVE IsFun(node[a].forward)
      <3>1. a = n \/ a \in DOMAIN s.node
        BY <2>1
      <3> QED
        BY <2>3, <2>5, <2>6, <3>1
    <2> QED
      BY <2>1, <2>4, <2>5, <2>6, <2>7
  <1> HIDE DEF node
  <1>11. level = IF s.level < lvl THEN lvl ELSE s.level
    <2>1. s.level \in Int /\ lvl \in Int
      BY <1>6
    <2>2. PICK m : m = IF s.level < lvl THEN lvl ELSE s.level
      OBVIOUS
    <2>3. PICK S \in SUBSET Int : S = {s.level, lvl}
      BY <2>1
    <2>4. m \in S /\ \A x \in S : x <= m
      BY <2>1, <2>2, <2>3
    <2>5. Max(S) = m
      BY <2>4, MaxIs
    <2> QED
      BY <2>2, <2>3, <2>5
  <1> HIDE DEF level
  <1>12. DOMAIN t = DOMAIN NewSkipList /\ t.node = node /\ t.length = s.length + 1
         /\ t.level = level /\ t = [level |-> t.level, length |-> t.length, node |-> t.node]
    BY DEF NewSkipList
  <1> HIDE DEF t
  <1>13. PICK q : q = [a \in DOMAIN s.node \cup {n} |->
                          IF a = n THEN p + 1 ELSE IF p < pos[a] THEN pos[a] + 1 ELSE pos[a]]
    OBVIOUS
  <1>14. MakesRoom(DOMAIN s.node, pos, p, n, q)
    BY <1>4, <1>6, <1>7, <1>13 DEF MakesRoom
  <1>15. \A i \in 1 .. lvl : LastUpTo(On(s, i), pos, p, before[i])
    BY <1>8
  <1>16. t.level = IF s.level < lvl THEN lvl ELSE s.level
    BY <1>11, <1>12
  <1>17. Tower(t, q)
    BY <1>2, <1>4, <1>7, <1>10, <1>12, <1>14, <1>15, <1>16, LinkedTower
  <1>18. Added(s, pos, member, score, t, n, q)
    BY <1>3, <1>4, <1>5, <1>19, <1>12, <1>14 DEF Added
  <1> QED
    BY <1>1, <1>2, <1>17, <1>18

\* sl_create.
LEMMA NewTower == \E pos : Tower(NewSkipList, pos)
  <1>1. PICK pos : pos = [a \in {0} |-> 0]
    OBVIOUS
  <1>2. PICK sl : sl = NewSkipList
    OBVIOUS
  <1>3. /\ DOMAIN sl.node = {0} /\ sl.length = 0 /\ sl.level = 1
        /\ "forward" \in DOMAIN sl.node[0]
        /\ sl.node[0].forward = [i \in 1 .. MaxLevel |-> Null]
    BY <1>2 DEF NewSkipList
  <1>4. IsFiniteSet({0}) /\ Cardinality({0}) = 1
    BY FS_Singleton
  <1>5. \A i \in 1 .. MaxLevel : On(sl, i) = {0} /\ Follow(sl, 0, i) = Null
    BY <1>3 DEF On, Follow
  <1>6. \A i \in 1 .. MaxLevel : NextIn({0}, pos, 0, Null)
    BY <1>1 DEF NextIn
  <1>7. MaxLevel \in 1 .. MaxLevel /\ 1 \in 1 .. MaxLevel
    BY MaxLevelIsPositive
  <1>8. DOMAIN sl.node[0].forward = 1 .. MaxLevel
    BY <1>3
  <1>9. \A a \in DOMAIN sl.node :
           /\ "forward" \in DOMAIN sl.node[a]
           /\ \E h \in 1 .. (IF a = 0 THEN MaxLevel ELSE sl.level) :
                 DOMAIN sl.node[a].forward = 1 .. h
    BY <1>3, <1>7, <1>8
  <1>10. \A i \in 1 .. MaxLevel : \A a \in On(sl, i) :
            NextIn(On(sl, i), pos, a, Follow(sl, a, i))
    BY <1>5, <1>6
  <1>11. /\ \A a \in DOMAIN sl.node : pos[a] \in Nat
         /\ \A a, b \in DOMAIN sl.node : pos[a] = pos[b] => a = b
         /\ pos[0] = 0 /\ DOMAIN sl = DOMAIN NewSkipList
    BY <1>1, <1>2, <1>3
  <1>12. Tower(sl, pos)
    BY <1>3, <1>4, <1>7, <1>8, <1>9, <1>10, <1>11 DEF Tower
  <1> QED
    BY <1>2, <1>12

-----------------------------------------------------------------------------
(* Chains *)

\* at is the recursion of Chain.
Chaining(sl, i, m, at) ==
    at = [n \in 0 .. m |->
            IF n = 0 THEN 0
            ELSE IF at[n - 1] = Null THEN Null ELSE Follow(sl, at[n - 1], i)]

\* Such a function exists.
LEMMA ChainExists ==
    ASSUME NEW sl, NEW i, NEW m \in Nat
    PROVE  \E at : Chaining(sl, i, m, at)
  <1> DEFINE T == {k \in Nat : \E f : Chaining(sl, i, k, f)}
  <1>1. 0 \in T
    <2> DEFINE g == [n \in 0 .. 0 |-> 0]
    <2>1. Chaining(sl, i, 0, g)
      BY DEF Chaining
    <2> QED
      BY <2>1
  <1>2. ASSUME NEW k \in Nat, k \in T PROVE k + 1 \in T
    <2>1. PICK f : Chaining(sl, i, k, f)
      BY <1>2
    <2>2. PICK b : b = IF f[k] = Null THEN Null ELSE Follow(sl, f[k], i)
      OBVIOUS
    <2> DEFINE g == [n \in 0 .. k + 1 |-> IF n = k + 1 THEN b ELSE f[n]]
    <2>3. ASSUME NEW n \in 0 .. k + 1
          PROVE  g[n] = IF n = 0 THEN 0
                        ELSE IF g[n - 1] = Null THEN Null ELSE Follow(sl, g[n - 1], i)
      <3>1. CASE n = k + 1
        <4>1. n - 1 = k /\ n # 0 /\ n - 1 # k + 1 /\ n - 1 \in 0 .. k + 1
          BY <3>1
        <4>2. g[n - 1] = f[k] /\ g[n] = b
          BY <3>1, <4>1
        <4> QED
          BY <2>2, <4>1, <4>2
      <3>2. CASE n # k + 1
        <4>1. n \in 0 .. k /\ (n # 0 => n - 1 \in 0 .. k)
          BY <3>2
        <4>2. g[n] = f[n] /\ (n # 0 => g[n - 1] = f[n - 1])
          BY <4>1
        <4>3. f[n] = IF n = 0 THEN 0
                     ELSE IF f[n - 1] = Null THEN Null ELSE Follow(sl, f[n - 1], i)
          BY <2>1, <4>1 DEF Chaining
        <4> QED
          BY <4>2, <4>3
      <3> QED
        BY <3>1, <3>2
    <2>4. g = [n \in 0 .. k + 1 |-> g[n]]
      OBVIOUS
    <2> HIDE DEF g
    <2>5. Chaining(sl, i, k + 1, g)
      BY <2>3, <2>4 DEF Chaining
    <2> QED
      BY <2>5
  <1> HIDE DEF T
  <1>3. Nat \subseteq T
    BY <1>1, <1>2, Climb
  <1>4. m \in T
    BY <1>3
  <1> QED
    BY <1>4 DEF T

\* at goes from 0 along nx to the end.
Runs(nx, m, at) ==
    /\ at[0] = 0
    /\ \A n \in 1 .. m : at[n] = IF at[n - 1] = Null THEN Null ELSE nx[at[n - 1]]

\* The nodes up to the one at[n] are at[0] to at[n], in this order.
Reached(S, pos, n, at) ==
    /\ \A j \in 0 .. n : at[j] \in S
    /\ \A j, l \in 0 .. n : j < l => pos[at[j]] < pos[at[l]]
    /\ \A c \in S : pos[c] <= pos[at[n]] => \E j \in 0 .. n : c = at[j]

\* The run has passed the nodes up to the one where it is.
LEMMA RunIs ==
    ASSUME NEW S, NEW pos, NEW nx, Strand(S, pos, nx), NEW m \in Nat, NEW at,
           Runs(nx, m, at), NEW n \in 0 .. m, at[n] # Null
    PROVE  Reached(S, pos, n, at) /\ Cardinality(After(S, pos, at[n])) + n + 1 <= Cardinality(S)
  <1> DEFINE T == {k \in Nat : k <= m /\ at[k] # Null =>
                      /\ Reached(S, pos, k, at)
                      /\ Cardinality(After(S, pos, at[k])) + k + 1 <= Cardinality(S)}
  <1>1. 0 \in T
    <2>1. at[0] = 0 /\ 0 \in S
      BY DEF Runs, Strand
    <2>2. Cardinality(After(S, pos, at[0])) + 1 <= Cardinality(S)
      BY <2>1, AfterFirst
    <2>3. Cardinality(After(S, pos, at[0])) \in Nat
      BY <2>1, AfterIs
    <2>4. Cardinality(After(S, pos, at[0])) + 0 + 1 <= Cardinality(S)
      BY <2>2, <2>3
    <2>5. \A c \in S : pos[c] <= pos[0] => c = 0
      BY DEF Strand
    <2>6. \A j \in 0 .. 0 : j = 0
      OBVIOUS
    <2>7. Reached(S, pos, 0, at)
      BY <2>1, <2>5, <2>6 DEF Reached
    <2> QED
      BY <2>4, <2>7
  <1>2. ASSUME NEW k \in Nat, k \in T PROVE k + 1 \in T
    <2> SUFFICES ASSUME k + 1 <= m, at[k + 1] # Null
                 PROVE  /\ Reached(S, pos, k + 1, at)
                        /\ Cardinality(After(S, pos, at[k + 1])) + (k + 1) + 1 <= Cardinality(S)
      OBVIOUS
    <2>1. PICK l \in 1 .. m : l = k + 1 /\ l - 1 = k
      OBVIOUS
    <2>2. at[l] = IF at[k] = Null THEN Null ELSE nx[at[k]]
      BY <2>1 DEF Runs
    <2>3. PICK r : r = at[k]
      OBVIOUS
    <2>4. PICK b : b = at[l]
      OBVIOUS
    <2>5. r # Null /\ b # Null /\ b = nx[r]
      BY <2>1, <2>2, <2>3, <2>4
    <2>6. Reached(S, pos, k, at) /\ Cardinality(After(S, pos, r)) + k + 1 <= Cardinality(S)
      BY <1>2, <2>1, <2>3, <2>5
    <2>7. k \in 0 .. k
      OBVIOUS
    <2>8. r \in S
      BY <2>3, <2>6, <2>7 DEF Reached
    <2>9. NextIn(S, pos, r, b)
      BY <2>5, <2>8 DEF Strand
    <2>10. b \in S /\ pos[r] < pos[b] /\ \A c \in S : pos[c] <= pos[r] \/ pos[b] <= pos[c]
      BY <2>5, <2>9 DEF NextIn
    <2>11. /\ \A c \in S : pos[c] \in Nat
           /\ \A c, d \in S : pos[c] = pos[d] => c = d
      BY DEF Strand
    <2>12. Cardinality(After(S, pos, b)) + 1 <= Cardinality(After(S, pos, r))
      BY <2>8, <2>10, AfterStep
    <2>13. /\ Cardinality(After(S, pos, b)) \in Nat /\ Cardinality(After(S, pos, r)) \in Nat
           /\ Cardinality(S) \in Nat
      BY <2>8, <2>10, AfterIs, FS_CardinalityType DEF Strand
    <2>14. Cardinality(After(S, pos, b)) + (k + 1) + 1 <= Cardinality(S)
      BY <2>6, <2>12, <2>13
    <2>15. \A j \in 0 .. l : j \in 0 .. k \/ j = l
      BY <2>1
    <2>16. \A j \in 0 .. k : at[j] \in S /\ pos[at[j]] <= pos[r]
      <3> SUFFICES ASSUME NEW j \in 0 .. k PROVE at[j] \in S /\ pos[at[j]] <= pos[r]
        OBVIOUS
      <3>1. at[j] \in S
        BY <2>6 DEF Reached
      <3>2. CASE j = k
        BY <2>3, <2>11, <3>1, <3>2
      <3>3. CASE j # k
        <4>1. j < k
          BY <3>3
        <4>2. pos[at[j]] < pos[at[k]]
          BY <2>6, <2>7, <4>1 DEF Reached
        <4> QED
          BY <2>3, <2>8, <2>11, <3>1, <4>2
      <3> QED
        BY <3>2, <3>3
    <2>17. \A j \in 0 .. l : at[j] \in S
      BY <2>4, <2>10, <2>15, <2>16
    <2>18. ASSUME NEW j \in 0 .. l, NEW h \in 0 .. l, j < h PROVE pos[at[j]] < pos[at[h]]
      <3>1. j \in 0 .. k
        BY <2>1, <2>18
      <3>2. CASE h = l
        BY <2>4, <2>8, <2>10, <2>11, <2>16, <3>1, <3>2
      <3>3. CASE h # l
        <4>1. h \in 0 .. k
          BY <2>15, <3>3
        <4> QED
          BY <2>6, <2>18, <3>1, <4>1 DEF Reached
      <3> QED
        BY <3>2, <3>3
    <2>19. ASSUME NEW c \in S, pos[c] <= pos[b] PROVE \E j \in 0 .. l : c = at[j]
      <3>1. 0 .. k \subseteq 0 .. l /\ l \in 0 .. l
        BY <2>1
      <3>2. CASE pos[c] <= pos[r]
        BY <2>3, <2>6, <3>1, <3>2 DEF Reached
      <3>3. CASE pos[b] <= pos[c]
        BY <2>4, <2>10, <2>11, <2>19, <3>1, <3>3
      <3> QED
        BY <2>10, <3>2, <3>3
    <2>20. Reached(S, pos, l, at)
      BY <2>4, <2>17, <2>18, <2>19 DEF Reached
    <2> QED
      BY <2>1, <2>4, <2>14, <2>20
  <1> HIDE DEF T
  <1>3. Nat \subseteq T
    BY <1>1, <1>2, Climb
  <1>4. n \in T
    BY <1>3
  <1> QED
    BY <1>4 DEF T

\* c is the k nodes of S but 0 in the order of pos.
InOrder(S, pos, k, c) ==
    /\ k \in Nat /\ DOMAIN c = 1 .. k /\ Len(c) = k
    /\ \A j \in 1 .. k : c[j] \in S \ {0}
    /\ \A j, l \in 1 .. k : j < l <=> pos[c[j]] < pos[c[l]]
    /\ \A a \in S \ {0} : \E j \in 1 .. k : a = c[j]

\* The chain of a level is all its nodes in their order.
LEMMA ChainIs ==
    ASSUME NEW sl, NEW pos, Tower(sl, pos), NEW i \in 1 .. MaxLevel
    PROVE  \E k : InOrder(On(sl, i), pos, k, Chain(sl, i))
  <1>1. PICK S : S = On(sl, i)
    OBVIOUS
  <1>2. PICK nx : nx = Level(sl, i)
    OBVIOUS
  <1>3. Strand(S, pos, nx) /\ S \subseteq DOMAIN sl.node
        /\ Cardinality(S) <= Cardinality(DOMAIN sl.node)
    BY <1>1, <1>2, LevelIs
  <1>4. Cardinality(DOMAIN sl.node) \in Nat /\ Cardinality(S) \in Nat
    BY <1>3, FS_CardinalityType DEF Tower, Strand
  <1>5. PICK m \in Nat : m = Cardinality(DOMAIN sl.node)
    BY <1>4
  <1> DEFINE C == CHOOSE at : Chaining(sl, i, m, at)
  <1>6. Chaining(sl, i, m, C)
    BY ChainExists
  <1>7. Chain(sl, i) = [n \in 1 .. Max({n \in DOMAIN C : C[n] # Null}) |-> C[n]]
    BY <1>5 DEF Chain, Chaining
  <1> HIDE DEF C
  <1>8. DOMAIN C = 0 .. m /\ C[0] = 0
    BY <1>6 DEF Chaining
  <1>9. \A n \in 1 .. m : C[n] = IF C[n - 1] = Null THEN Null ELSE Follow(sl, C[n - 1], i)
    BY <1>6 DEF Chaining
  <1>10. \A b \in S : nx[b] = Follow(sl, b, i) /\ (nx[b] # Null => nx[b] \in S)
    BY <1>1, <1>2, <1>3 DEF Level, Strand, NextIn
  <1>11. \A n \in 0 .. m : C[n] # Null => C[n] \in S
    <2> DEFINE T == {n \in Nat : n <= m /\ C[n] # Null => C[n] \in S}
    <2>1. 0 \in T
      BY <1>3, <1>8 DEF Strand
    <2>2. ASSUME NEW n \in Nat, n \in T PROVE n + 1 \in T
      <3> SUFFICES ASSUME n + 1 <= m, C[n + 1] # Null PROVE C[n + 1] \in S
        OBVIOUS
      <3>1. PICK l \in 1 .. m : l = n + 1 /\ l - 1 = n
        OBVIOUS
      <3>2. C[l] = IF C[n] = Null THEN Null ELSE Follow(sl, C[n], i)
        BY <1>9, <3>1
      <3>3. C[n] \in S /\ C[l] = Follow(sl, C[n], i)
        BY <2>2, <3>1, <3>2
      <3> QED
        BY <1>10, <3>1, <3>3
    <2> HIDE DEF T
    <2>3. Nat \subseteq T
      BY <2>1, <2>2, Climb
    <2>4. ASSUME NEW n \in 0 .. m, C[n] # Null PROVE C[n] \in S
      <3>1. n \in T
        BY <2>3
      <3> QED
        BY <2>4, <3>1 DEF T
    <2> QED
      BY <2>4
  <1>12. Runs(nx, m, C)
    <2>1. ASSUME NEW n \in 1 .. m
          PROVE  C[n] = IF C[n - 1] = Null THEN Null ELSE nx[C[n - 1]]
      <3>1. n - 1 \in 0 .. m
        OBVIOUS
      <3>2. C[n - 1] # Null => nx[C[n - 1]] = Follow(sl, C[n - 1], i)
        BY <1>10, <1>11, <3>1
      <3> QED
        BY <1>9, <3>2
    <2> QED
      BY <1>8, <2>1 DEF Runs
  <1>13. PICK U : U = {n \in DOMAIN C : C[n] # Null}
    OBVIOUS
  <1>14. 0 \in U /\ \A n \in U : n \in Nat /\ n <= m
    BY <1>8, <1>13 DEF Null
  <1>15. Max(U) \in U /\ \A n \in U : n <= Max(U)
    BY <1>14, GreatestIs
  <1>16. PICK k \in 0 .. m : k = Max(U) /\ C[k] # Null
    BY <1>8, <1>13, <1>15
  <1>17. Reached(S, pos, k, C) /\ Cardinality(After(S, pos, C[k])) + k + 1 <= Cardinality(S)
    BY <1>3, <1>12, <1>16, RunIs
  <1>18. k < m
    <2>1. C[k] \in S
      BY <1>11, <1>16
    <2>2. Cardinality(After(S, pos, C[k])) \in Nat
      BY <1>3, <2>1, AfterIs
    <2> QED
      BY <1>3, <1>4, <1>5, <1>17, <2>2
  <1>19. nx[C[k]] = Null
    <2>1. PICK l \in 1 .. m : l = k + 1 /\ l - 1 = k
      BY <1>18
    <2>2. l \notin U
      BY <1>15, <1>16, <2>1
    <2>3. C[l] = Null
      BY <1>8, <1>13, <2>1, <2>2
    <2>4. C[l] = IF C[l - 1] = Null THEN Null ELSE nx[C[l - 1]]
      BY <1>12 DEF Runs
    <2> QED
      BY <1>16, <2>1, <2>3, <2>4
  <1>20. \A c \in S : pos[c] <= pos[C[k]]
    <2>1. C[k] \in S
      BY <1>11, <1>16
    <2>2. NextIn(S, pos, C[k], Null)
      BY <1>3, <1>19, <2>1 DEF Strand
    <2>3. Null \notin S
      BY <1>3 DEF Strand, Null
    <2> QED
      BY <2>2, <2>3 DEF NextIn
  <1>21. PICK c : c = [n \in 1 .. k |-> C[n]]
    OBVIOUS
  <1>22. Chain(sl, i) = c
    BY <1>7, <1>13, <1>16, <1>21
  <1>23. /\ \A j \in 0 .. k : C[j] \in S
         /\ \A j, l \in 0 .. k : j < l => pos[C[j]] < pos[C[l]]
         /\ \A a \in S : \E j \in 0 .. k : a = C[j]
    BY <1>17, <1>20 DEF Reached
  <1>24. \A j \in 1 .. k : c[j] = C[j] /\ c[j] \in S
    BY <1>21, <1>23
  <1>25. \A a \in S : pos[a] \in Nat
    BY <1>3 DEF Strand
  <1>26. \A j \in 1 .. k : c[j] # 0
    <2> SUFFICES ASSUME NEW j \in 1 .. k PROVE C[j] # 0
      BY <1>24
    <2>1. pos[C[0]] < pos[C[j]] /\ pos[C[0]] \in Nat
      BY <1>23, <1>25
    <2> QED
      BY <1>8, <2>1
  <1>27. \A a \in S \ {0} : \E j \in 1 .. k : a = c[j]
    <2> SUFFICES ASSUME NEW a \in S, a # 0 PROVE \E j \in 1 .. k : a = c[j]
      OBVIOUS
    <2>1. PICK j \in 0 .. k : a = C[j]
      BY <1>23
    <2>2. j \in 1 .. k
      BY <1>8, <2>1
    <2> QED
      BY <1>24, <2>1, <2>2
  <1>28. \A j, l \in 1 .. k : j < l <=> pos[c[j]] < pos[c[l]]
    <2> SUFFICES ASSUME NEW j \in 1 .. k, NEW l \in 1 .. k
                 PROVE  j < l <=> pos[C[j]] < pos[C[l]]
      BY <1>24
    <2>1. j \in 0 .. k /\ l \in 0 .. k /\ pos[C[j]] \in Nat /\ pos[C[l]] \in Nat
      BY <1>23, <1>25
    <2>2. (j < l => pos[C[j]] < pos[C[l]]) /\ (l < j => pos[C[l]] < pos[C[j]])
      BY <1>23, <2>1
    <2> QED
      BY <2>1, <2>2
  <1>29. DOMAIN c = 1 .. k /\ Len(c) = k
    <2>1. c \in [1 .. k -> S]
      BY <1>21, <1>24
    <2> QED
      BY <2>1, SeqOfFun
  <1>30. InOrder(S, pos, k, c)
    BY <1>24, <1>26, <1>27, <1>28, <1>29 DEF InOrder
  <1> QED
    BY <1>1, <1>22, <1>30

-----------------------------------------------------------------------------
(* What the properties say *)

\* What LevelsNest says of a skip list.
Nested(sl) ==
    LET all == Chain(sl, 1)
    IN  /\ \A a \in DOMAIN sl.node :
              Range(sl.node[a].forward) \subseteq DOMAIN sl.node \cup {Null}
        /\ DOMAIN sl.node = {0} \cup Range(all)
        /\ sl.length = Len(all)
        /\ \A i \in 1 .. MaxLevel :
              /\ Range(Chain(sl, i)) =
                    {a \in Range(all) : i \in DOMAIN sl.node[a].forward}
              /\ \A j, k \in DOMAIN Chain(sl, i) : \A p, q \in DOMAIN all :
                    Chain(sl, i)[j] = all[p] /\ Chain(sl, i)[k] = all[q] =>
                        (j < k <=> p < q)
        /\ sl.level > 1 => Chain(sl, sl.level) # << >>

\* A tower is so nested.
LEMMA TowerNests ==
    ASSUME NEW sl, NEW pos, Tower(sl, pos)
    PROVE  Nested(sl)
  <1>1. /\ MaxLevel \in Nat \ {0} /\ sl.level \in 1 .. MaxLevel
        /\ DOMAIN sl.node \subseteq Nat /\ 0 \in DOMAIN sl.node
    BY MaxLevelIsPositive DEF Tower
  <1>2. PICK D : D = DOMAIN sl.node
    OBVIOUS
  <1>3. PICK all : all = Chain(sl, 1)
    OBVIOUS
  <1>4. 1 \in 1 .. MaxLevel
    BY <1>1
  <1>5. PICK k : InOrder(On(sl, 1), pos, k, all)
    BY <1>3, <1>4, ChainIs
  <1>6. On(sl, 1) = D
    <2>1. ASSUME NEW a \in D PROVE 1 \in DOMAIN sl.node[a].forward
      <3>1. PICK m : m = IF a = 0 THEN MaxLevel ELSE sl.level
        OBVIOUS
      <3>2. PICK h \in 1 .. m : DOMAIN sl.node[a].forward = 1 .. h
        BY <1>2, <2>1, <3>1 DEF Tower
      <3>3. m \in Nat
        BY <1>1, <3>1
      <3> QED
        BY <3>2, <3>3
    <2> QED
      BY <1>2, <2>1 DEF On
  <1>7. /\ k \in Nat /\ DOMAIN all = 1 .. k /\ Len(all) = k
        /\ \A j \in 1 .. k : all[j] \in D \ {0}
        /\ \A j, l \in 1 .. k : j < l <=> pos[all[j]] < pos[all[l]]
        /\ \A a \in D \ {0} : \E j \in 1 .. k : a = all[j]
    BY <1>5, <1>6 DEF InOrder
  <1>8. \A a \in D : pos[a] \in Nat
    BY <1>2 DEF Tower
  <1>9. Range(all) = D \ {0}
    BY <1>7 DEF Range
  <1>10. DOMAIN sl.node = {0} \cup Range(all)
    BY <1>1, <1>2, <1>9
  <1>11. sl.length = Len(all)
    <2>1. ASSUME NEW i \in 1 .. k, NEW j \in 1 .. k, all[i] = all[j] PROVE i = j
      <3>1. pos[all[i]] \in Nat /\ pos[all[i]] = pos[all[j]]
        BY <1>7, <1>8, <2>1
      <3>2. ~(i < j) /\ ~(j < i)
        BY <1>7, <3>1
      <3> QED
        BY <3>2
    <2>2. Different(all, k)
      BY <1>7, <2>1 DEF Different
    <2>3. PICK S : S = D \ {0}
      OBVIOUS
    <2>4. S = {all[i] : i \in 1 .. k}
      BY <1>7, <2>3
    <2>5. Cardinality(S) = k
      BY <1>7, <2>2, <2>4, Numbered
    <2>6. IsFiniteSet(D) /\ Cardinality(D) = sl.length + 1 /\ sl.length \in Nat
      BY <1>2 DEF Tower
    <2>7. Cardinality(S) = Cardinality(D) - 1
      BY <1>1, <1>2, <2>3, <2>6, FS_RemoveElement
    <2> QED
      BY <1>7, <2>5, <2>6, <2>7
  <1>12. ASSUME NEW a \in D, NEW b \in Range(sl.node[a].forward) PROVE b \in D \cup {Null}
    <2>1. PICK i \in DOMAIN sl.node[a].forward : b = Follow(sl, a, i)
      BY <1>12 DEF Range, Follow
    <2>2. i \in 1 .. MaxLevel
      <3>1. PICK m : m = IF a = 0 THEN MaxLevel ELSE sl.level
        OBVIOUS
      <3>2. PICK h \in 1 .. m : DOMAIN sl.node[a].forward = 1 .. h
        BY <1>2, <1>12, <3>1 DEF Tower
      <3>3. m \in 1 .. MaxLevel
        BY <1>1, <3>1
      <3> QED
        BY <1>1, <2>1, <3>2, <3>3
    <2>3. a \in On(sl, i)
      BY <1>2, <1>12, <2>1 DEF On
    <2>4. NextIn(On(sl, i), pos, a, b)
      BY <2>1, <2>2, <2>3 DEF Tower
    <2> QED
      BY <1>2, <2>4 DEF NextIn, On
  <1>13. ASSUME NEW i \in 1 .. MaxLevel
         PROVE  /\ Range(Chain(sl, i)) = {a \in Range(all) : i \in DOMAIN sl.node[a].forward}
                /\ \A j, l \in DOMAIN Chain(sl, i) : \A p, q \in DOMAIN all :
                      Chain(sl, i)[j] = all[p] /\ Chain(sl, i)[l] = all[q] => (j < l <=> p < q)
    <2>1. PICK c : c = Chain(sl, i)
      OBVIOUS
    <2>2. PICK S : S = On(sl, i)
      OBVIOUS
    <2>3. PICK h : InOrder(S, pos, h, c)
      BY <1>13, <2>1, <2>2, ChainIs
    <2>4. /\ h \in Nat /\ DOMAIN c = 1 .. h
          /\ \A j \in 1 .. h : c[j] \in S \ {0}
          /\ \A j, l \in 1 .. h : j < l <=> pos[c[j]] < pos[c[l]]
          /\ \A a \in S \ {0} : \E j \in 1 .. h : a = c[j]
      BY <2>3 DEF InOrder
    <2>5. Range(c) = S \ {0}
      BY <2>4 DEF Range
    <2>6. S = {a \in D : i \in DOMAIN sl.node[a].forward}
      BY <1>2, <2>2 DEF On
    <2>7. Range(c) = {a \in Range(all) : i \in DOMAIN sl.node[a].forward}
      BY <1>9, <2>5, <2>6
    <2>8. ASSUME NEW j \in 1 .. h, NEW l \in 1 .. h, NEW p \in 1 .. k, NEW q \in 1 .. k,
                 c[j] = all[p], c[l] = all[q]
          PROVE  j < l <=> p < q
      <3>1. j < l <=> pos[c[j]] < pos[c[l]]
        BY <2>4, <2>8
      <3>2. p < q <=> pos[all[p]] < pos[all[q]]
        BY <1>7, <2>8
      <3> QED
        BY <2>8, <3>1, <3>2
    <2> QED
      BY <1>7, <2>1, <2>4, <2>7, <2>8
  <1>14. sl.level > 1 => Chain(sl, sl.level) # << >>
    <2> SUFFICES ASSUME sl.level > 1 PROVE Chain(sl, sl.level) # << >>
      OBVIOUS
    <2>1. PICK i \in 1 .. MaxLevel : i = sl.level
      BY <1>1
    <2>2. PICK c : c = Chain(sl, i)
      OBVIOUS
    <2>3. PICK S : S = On(sl, i)
      OBVIOUS
    <2>4. PICK h : InOrder(S, pos, h, c)
      BY <2>1, <2>2, <2>3, ChainIs
    <2>5. S # {0} /\ 0 \in S
      <3>1. 0 \in On(sl, i)
        BY <1>1, <2>1 DEF On, Tower
      <3> QED
        BY <2>1, <2>3, <3>1 DEF Tower
    <2>6. PICK a \in S \ {0} : TRUE
      BY <2>5
    <2>7. PICK j \in 1 .. h : a = c[j]
      BY <2>4, <2>6 DEF InOrder
    <2>8. DOMAIN c # {}
      BY <2>4, <2>7 DEF InOrder
    <2> QED
      BY <2>1, <2>2, <2>8
  <1> QED
    BY <1>2, <1>3, <1>10, <1>11, <1>12, <1>13, <1>14 DEF Nested

-----------------------------------------------------------------------------
(* The order of the nodes, where no score is NaN and no two members are    *)
(* strcmp-equal                                                            *)

\* The nodes but the header.
Inner(sl) == DOMAIN sl.node \ {0}

\* The order of scores s, t and then of ranks r, q.
Earlier(s, r, t, q) == s < t \/ (s = t /\ r < q)

\* Members of M have ranks, scores of S are numbers.
Ranked(M, S) == /\ \A m \in M : StrRank[m] \in Int
                /\ S \subseteq Int /\ NaN \notin S

\* A record of three fields, as its nodes are.
Formed(sl) ==
    /\ sl = [level |-> sl.level, length |-> sl.length, node |-> sl.node] /\ IsFun(sl.node)
    /\ \A a \in DOMAIN sl.node :
          /\ sl.node[a] = [score |-> sl.node[a].score, member |-> sl.node[a].member,
                           forward |-> sl.node[a].forward]
          /\ IsFun(sl.node[a].forward)
    /\ sl.node[0].score = 0 /\ sl.node[0].member = 0

\* The nodes have members of M and scores in S, no two strcmp-equal members, and pos
\* is their order.
Sorted(sl, pos, M, S) ==
    /\ Formed(sl)
    /\ \A a \in Inner(sl) : sl.node[a].member \in M /\ sl.node[a].score \in S
    /\ \A a, b \in Inner(sl) :
          StrRank[sl.node[a].member] = StrRank[sl.node[b].member] => a = b
    /\ \A a, b \in Inner(sl) : pos[a] < pos[b] =>
          Earlier(sl.node[a].score, StrRank[sl.node[a].member],
                  sl.node[b].score, StrRank[sl.node[b].member])

\* sl_create.
LEMMA NewSorted == ASSUME NEW pos, NEW M, NEW S PROVE Sorted(NewSkipList, pos, M, S)
  <1>1. DOMAIN NewSkipList.node = {0}
    BY DEF NewSkipList
  <1>2. Inner(NewSkipList) = {}
    BY <1>1 DEF Inner
  <1>3. Formed(NewSkipList)
    <2>1. PICK f : f = [i \in 1 .. MaxLevel |-> Null]
      OBVIOUS
    <2>2. IsFun(f)
      BY <2>1 DEF IsFun
    <2>3. PICK nodes : nodes = [a \in {0} |-> [score |-> 0, member |-> 0, forward |-> f]]
      OBVIOUS
    <2>4. /\ IsFun(nodes) /\ DOMAIN nodes = {0}
          /\ nodes[0] = [score |-> 0, member |-> 0, forward |-> f]
      BY <2>3 DEF IsFun
    <2>5. NewSkipList = [level |-> 1, length |-> 0, node |-> nodes]
      BY <2>1, <2>3 DEF NewSkipList
    <2>6. NewSkipList.level = 1 /\ NewSkipList.length = 0 /\ NewSkipList.node = nodes
      BY <2>5
    <2> QED
      BY <2>2, <2>4, <2>5, <2>6 DEF Formed
  <1> QED
    BY <1>2, <1>3 DEF Sorted

\* The test of the loops, where the scores are numbers.
LEMMA ComesBeforeIs ==
    ASSUME NEW sl, NEW pos, NEW M, NEW S, Ranked(M, S), Sorted(sl, pos, M, S),
           NEW a \in Inner(sl), NEW m \in M, NEW s \in S
    PROVE  ComesBefore(sl, a, m, s) <=>
              Earlier(sl.node[a].score, StrRank[sl.node[a].member], s, StrRank[m])
  <1>1. sl.node[a].score \in S
    BY DEF Sorted
  <1>2. PICK t \in S : t = sl.node[a].score
    BY <1>1
  <1>3. NaN # s /\ NaN # t
    BY DEF Ranked
  <1>4. Less(t, s) <=> t < s
    BY <1>3 DEF Less
  <1>5. Same(t, s) <=> t = s
    BY <1>3 DEF Same
  <1> QED
    <2>1. ComesBefore(sl, a, m, s) <=>
              Less(t, s) \/ (Same(t, s) /\ StrRank[sl.node[a].member] < StrRank[m])
      BY <1>2 DEF ComesBefore
    <2>2. Earlier(t, StrRank[sl.node[a].member], s, StrRank[m]) <=>
              t < s \/ (t = s /\ StrRank[sl.node[a].member] < StrRank[m])
      BY DEF Earlier
    <2> QED
      BY <1>2, <1>4, <1>5, <2>1, <2>2

\* The place where the search ends parts the nodes that come before from the others.
LEMMA Parts ==
    ASSUME NEW sl, NEW pos, Tower(sl, pos), NEW M, NEW S, Ranked(M, S), Sorted(sl, pos, M, S),
           NEW m \in M, NEW s \in S, NEW a \in Inner(sl)
    PROVE  /\ Earlier(sl.node[a].score, StrRank[sl.node[a].member], s, StrRank[m]) <=>
                 pos[a] <= pos[Update(sl, m, s)[1]]
           /\ a \in On(sl, 1)
  <1>1. PICK u : u = Update(sl, m, s)[1]
    OBVIOUS
  <1>2. PICK P : P = Ahead(sl, m, s)
    OBVIOUS
  <1>3. EndedAt(sl, P, u) /\ Guides(sl, pos, Update(sl, m, s))
    BY <1>1, <1>2, UpdateIs
  <1>4. /\ MaxLevel \in Nat \ {0} /\ 1 \in 1 .. MaxLevel /\ sl.level \in 1 .. MaxLevel
        /\ 1 \in 1 .. sl.level
    BY MaxLevelIsPositive DEF Tower
  <1>5. u \in On(sl, 1)
    BY <1>1, <1>3, <1>4 DEF Guides
  <1>6. ASSUME NEW c \in Inner(sl) PROVE c \in On(sl, 1)
    <2>1. c \in DOMAIN sl.node /\ c # 0
      BY <1>6 DEF Inner
    <2>2. PICK h \in 1 .. sl.level : DOMAIN sl.node[c].forward = 1 .. h
      BY <2>1 DEF Tower
    <2>3. 1 \in 1 .. h
      BY <1>4, <2>2
    <2> QED
      BY <2>1, <2>2, <2>3 DEF On
  <1> DEFINE Key(c) == Earlier(sl.node[c].score, StrRank[sl.node[c].member], s, StrRank[m])
  <1>7. \A c \in Inner(sl) : c \in P <=> Key(c)
    BY <1>2, ComesBeforeIs DEF Ahead, Inner
  <1>8. /\ \A c \in DOMAIN sl.node : pos[c] \in Nat
        /\ \A c, d \in DOMAIN sl.node : pos[c] = pos[d] => c = d
        /\ pos[0] = 0 /\ 0 \in DOMAIN sl.node /\ DOMAIN sl.node \subseteq Nat
    BY DEF Tower
  <1>9. /\ s \in Int /\ StrRank[m] \in Int
        /\ \A c \in Inner(sl) : sl.node[c].score \in Int /\ StrRank[sl.node[c].member] \in Int
    BY DEF Ranked, Sorted
  <1>10. \A c, d \in Inner(sl) : pos[c] < pos[d] /\ Key(d) => Key(c)
    <2> SUFFICES ASSUME NEW c \in Inner(sl), NEW d \in Inner(sl), pos[c] < pos[d], Key(d)
                 PROVE  Key(c)
      OBVIOUS
    <2>1. Earlier(sl.node[c].score, StrRank[sl.node[c].member],
                  sl.node[d].score, StrRank[sl.node[d].member])
      BY DEF Sorted
    <2> QED
      BY <1>9, <2>1 DEF Earlier
  <1>11. u \in DOMAIN sl.node /\ (u = 0 \/ (u \in Inner(sl) /\ Key(u)))
    BY <1>3, <1>5, <1>7 DEF EndedAt, On, Inner
  <1>12. a \in DOMAIN sl.node /\ a # 0
    BY DEF Inner
  <1> HIDE DEF Key
  <1>13. ASSUME pos[a] <= pos[u] PROVE Key(a)
    <2>1. CASE u = 0
      <3>1. pos[a] = pos[0]
        BY <1>8, <1>12, <1>13, <2>1
      <3> QED
        BY <1>8, <1>12, <3>1
    <2>2. CASE u # 0
      <3>1. pos[a] < pos[u] \/ a = u
        BY <1>8, <1>11, <1>12, <1>13
      <3> QED
        BY <1>10, <1>11, <2>2, <3>1
    <2> QED
      BY <2>1, <2>2
  <1>14. ASSUME ~(pos[a] <= pos[u]) PROVE ~Key(a)
    <2>1. pos[u] < pos[a]
      BY <1>8, <1>11, <1>12, <1>14
    <2>2. PICK x : x = Follow(sl, u, 1)
      OBVIOUS
    <2>3. NextIn(On(sl, 1), pos, u, x)
      BY <1>4, <1>5, <2>2 DEF Tower
    <2>4. a \in On(sl, 1)
      BY <1>6
    <2>5. x \in On(sl, 1) /\ pos[u] < pos[x] /\ pos[x] <= pos[a]
      BY <1>8, <1>11, <1>12, <2>1, <2>3, <2>4 DEF NextIn
    <2>6. x \in DOMAIN sl.node /\ x # Null /\ x # 0
      <3>1. x \in DOMAIN sl.node
        BY <2>5 DEF On
      <3> QED
        BY <1>8, <1>11, <2>5, <3>1 DEF Null
    <2>7. x \in Inner(sl) /\ x \notin P
      BY <1>3, <1>5, <2>2, <2>6 DEF EndedAt, Stopped, Level, Inner
    <2>8. ~Key(x)
      BY <1>7, <2>7 DEF Key
    <2>9. a = x \/ pos[x] < pos[a]
      BY <1>8, <1>12, <2>5, <2>6
    <2> QED
      BY <1>10, <2>7, <2>8, <2>9
  <1> QED
    BY <1>1, <1>6, <1>13, <1>14 DEF Key

\* t is sl without the nodes of X, the other nodes keep what they have.
Kept(sl, t, X) ==
    /\ Formed(t)
    /\ DOMAIN t.node = DOMAIN sl.node \ X
    /\ \A b \in DOMAIN t.node : /\ t.node[b].member = sl.node[b].member
                                /\ t.node[b].score = sl.node[b].score

\* A node with another pointers.
LEMMA Relinked ==
    ASSUME NEW r, r = [score |-> r.score, member |-> r.member, forward |-> r.forward],
           NEW f, IsFun(f), NEW q, q = [r EXCEPT !.forward = f]
    PROVE  /\ q.score = r.score /\ q.member = r.member /\ q.forward = f
           /\ q = [score |-> q.score, member |-> q.member, forward |-> q.forward]
  <1>1. q = [score |-> r.score, member |-> r.member, forward |-> f]
    <2>1. DOMAIN r = {"score", "member", "forward"}
      BY Zenon
    <2> QED
      BY <2>1
  <1> QED
    BY <1>1

\* Where the nodes are sorted sl_delete takes out the node with the member and the
\* score.
LEMMA DeleteTakes ==
    ASSUME NEW sl, NEW pos, Tower(sl, pos), NEW M, NEW S, Ranked(M, S), Sorted(sl, pos, M, S),
           NEW a \in Inner(sl), NEW t, t = SlDelete(sl, sl.node[a].member, sl.node[a].score)
    PROVE  Kept(sl, t, {a}) /\ Sorted(t, pos, M, S)
  <1>1. PICK m \in M : m = sl.node[a].member
    BY DEF Sorted
  <1>2. PICK s \in S : s = sl.node[a].score
    BY DEF Sorted
  <1> DEFINE u == Update(sl, m, s)
             x == Follow(sl, u[1], 1)
             linked == {i \in 1 .. sl.level : \A j \in 1 .. i : Follow(sl, u[j], j) = x}
             node == [b \in DOMAIN sl.node \ {x} |->
                        [sl.node[b] EXCEPT !.forward = [i \in DOMAIN @ |->
                            IF i \in linked /\ u[i] = b THEN Follow(sl, x, i) ELSE @[i]]]]
             level == Max({1} \cup {i \in 1 .. sl.level : node[0].forward[i] # Null})
  <1>3. t = IF x = Null THEN sl
            ELSE IF StrRank[sl.node[x].member] # StrRank[m] THEN sl
            ELSE [node |-> node, length |-> sl.length - 1, level |-> level]
    <2>1. t = SlDelete(sl, m, s)
      BY <1>1, <1>2
    <2> QED
      BY <2>1 DEF SlDelete
  <1>4. x = a
    <2>1. /\ \A c \in DOMAIN sl.node : pos[c] \in Nat
          /\ \A c, d \in DOMAIN sl.node : pos[c] = pos[d] => c = d
          /\ pos[0] = 0 /\ 0 \in DOMAIN sl.node /\ DOMAIN sl.node \subseteq Nat
          /\ a \in DOMAIN sl.node
      BY DEF Tower, Inner
    <2>2. s \in Int /\ StrRank[m] \in Int
      BY DEF Ranked
    <2>3. ~Earlier(sl.node[a].score, StrRank[sl.node[a].member], s, StrRank[m])
      BY <1>1, <1>2, <2>2 DEF Earlier
    <2>4. ~(pos[a] <= pos[u[1]]) /\ a \in On(sl, 1)
      BY <2>3, Parts
    <2>5. 1 \in 1 .. MaxLevel /\ 1 \in 1 .. sl.level
      BY MaxLevelIsPositive DEF Tower
    <2>6. u[1] \in On(sl, 1)
      BY <2>5, UpdateIs DEF Guides
    <2>7. NextIn(On(sl, 1), pos, u[1], x)
      BY <2>5, <2>6 DEF Tower
    <2>8. u[1] \in DOMAIN sl.node
      BY <2>6 DEF On
    <2> HIDE DEF x, u
    <2>9. x \in On(sl, 1) /\ pos[u[1]] < pos[x] /\ pos[x] <= pos[a]
      BY <2>1, <2>4, <2>7, <2>8 DEF NextIn
    <2>10. x \in DOMAIN sl.node
      BY <2>9 DEF On
    <2>11. x \in Inner(sl)
      BY <2>1, <2>8, <2>9, <2>10 DEF Inner
    <2>12. ~Earlier(sl.node[x].score, StrRank[sl.node[x].member], s, StrRank[m])
      <3>1. ~(pos[x] <= pos[u[1]])
        BY <2>1, <2>8, <2>9, <2>10
      <3> QED
        BY <2>11, <3>1, Parts DEF u
    <2>13. ~(pos[x] < pos[a])
      BY <1>1, <1>2, <2>11, <2>12 DEF Sorted
    <2> QED
      BY <2>1, <2>9, <2>10, <2>13
  <1>5. a \in DOMAIN sl.node /\ a # 0 /\ 0 \in DOMAIN sl.node /\ DOMAIN sl.node \subseteq Nat
    BY DEF Inner, Tower
  <1> HIDE DEF x, linked, u
  <1>6. t = [node |-> node, length |-> sl.length - 1, level |-> level]
    BY <1>1, <1>3, <1>4, <1>5 DEF Null
  <1>7. ASSUME NEW b \in DOMAIN sl.node \ {a}
        PROVE  /\ node[b].score = sl.node[b].score /\ node[b].member = sl.node[b].member
               /\ node[b] = [score |-> node[b].score, member |-> node[b].member,
                             forward |-> node[b].forward]
               /\ IsFun(node[b].forward)
    <2>1. PICK f : f = [i \in DOMAIN sl.node[b].forward |->
                          IF i \in linked /\ u[i] = b THEN Follow(sl, x, i)
                          ELSE sl.node[b].forward[i]]
      OBVIOUS
    <2>2. IsFun(f)
      BY <2>1 DEF IsFun
    <2>3. node[b] = [sl.node[b] EXCEPT !.forward = f]
      BY <1>4, <2>1
    <2>4. PICK r : r = sl.node[b]
      OBVIOUS
    <2>5. r = [score |-> r.score, member |-> r.member, forward |-> r.forward]
      BY <2>4 DEF Sorted, Formed
    <2>6. PICK q : q = node[b]
      OBVIOUS
    <2>7. q = [r EXCEPT !.forward = f]
      BY <2>3, <2>4, <2>6
    <2>8. /\ q.score = r.score /\ q.member = r.member /\ q.forward = f
          /\ q = [score |-> q.score, member |-> q.member, forward |-> q.forward]
      BY <2>2, <2>5, <2>7, Relinked
    <2> QED
      BY <2>2, <2>4, <2>6, <2>8
  <1>8. DOMAIN node = DOMAIN sl.node \ {a} /\ IsFun(node)
    BY <1>4 DEF IsFun
  <1> HIDE DEF node, level
  <1>9. t.node = node /\ t.length = sl.length - 1 /\ t.level = level
    BY <1>6
  <1>10. t = [level |-> t.level, length |-> t.length, node |-> t.node]
    BY <1>6, <1>9
  <1>11. Formed(t)
    <2>1. 0 \in DOMAIN sl.node \ {a}
      BY <1>5
    <2>2. t.node[0].score = 0 /\ t.node[0].member = 0
      BY <1>7, <1>9, <2>1 DEF Sorted, Formed
    <2> QED
      BY <1>7, <1>8, <1>9, <1>10, <2>2 DEF Formed
  <1>12. Kept(sl, t, {a})
    BY <1>7, <1>8, <1>9, <1>11 DEF Kept
  <1>13. Inner(t) \subseteq Inner(sl)
    BY <1>8, <1>9 DEF Inner
  <1>14. \A b \in Inner(t) :
             t.node[b].score = sl.node[b].score /\ t.node[b].member = sl.node[b].member
    BY <1>7, <1>8, <1>9 DEF Inner
  <1> QED
    <2>1. \A b \in Inner(t) : t.node[b].member \in M /\ t.node[b].score \in S
      BY <1>13, <1>14 DEF Sorted
    <2>2. \A b, c \in Inner(t) :
              StrRank[t.node[b].member] = StrRank[t.node[c].member] => b = c
      BY <1>13, <1>14 DEF Sorted
    <2>3. \A b, c \in Inner(t) : pos[b] < pos[c] =>
              Earlier(sl.node[b].score, StrRank[sl.node[b].member],
                      sl.node[c].score, StrRank[sl.node[c].member])
      BY <1>13 DEF Sorted
    <2>4. \A b, c \in Inner(t) : pos[b] < pos[c] =>
              Earlier(t.node[b].score, StrRank[t.node[b].member],
                      t.node[c].score, StrRank[t.node[c].member])
      BY <1>14, <2>3
    <2> QED
      BY <1>11, <1>12, <2>1, <2>2, <2>4 DEF Sorted

\* There is no node with the rank of member.
Missing(sl, member) ==
    \A a \in Inner(sl) : StrRank[sl.node[a].member] # StrRank[member]

\* The first node with the rank of a member, if there is one.
LEMMA PlaceOfIs ==
    ASSUME NEW sl, NEW pos, Tower(sl, pos), NEW member, NEW k,
           InOrder(On(sl, 1), pos, k, Chain(sl, 1)), NEW p, p = PlaceOf(sl, member)
    PROVE  \/ p = 0 /\ Missing(sl, member)
           \/ /\ p \in 1 .. k
              /\ StrRank[sl.node[Chain(sl, 1)[p]].member] = StrRank[member]
  <1>1. PICK c : c = Chain(sl, 1)
    OBVIOUS
  <1>2. PICK I : I = {i \in 1 .. Len(c) : StrRank[sl.node[c[i]].member] = StrRank[member]}
    OBVIOUS
  <1>3. p = IF I # {} THEN Min(I) ELSE 0
    BY <1>1, <1>2 DEF PlaceOf, SelectInSeq
  <1>4. Len(c) = k /\ k \in Nat
    BY <1>1 DEF InOrder
  <1>5. CASE I = {}
    <2>1. DOMAIN sl.node = {0} \cup Range(c)
      BY <1>1, TowerNests DEF Nested
    <2>2. DOMAIN c = 1 .. k
      BY <1>1 DEF InOrder
    <2>3. ASSUME NEW a \in Inner(sl) PROVE StrRank[sl.node[a].member] # StrRank[member]
      <3>1. PICK j \in 1 .. k : a = c[j]
        BY <2>1, <2>2 DEF Range, Inner
      <3> QED
        BY <1>2, <1>4, <1>5, <3>1
    <2>4. Missing(sl, member)
      BY <2>3 DEF Missing
    <2> QED
      BY <1>3, <1>5, <2>4
  <1>6. CASE I # {}
    <2>1. I \in SUBSET Nat
      BY <1>2, <1>4
    <2>2. Min(I) \in I
      BY <1>6, <2>1, MinIs
    <2> QED
      BY <1>1, <1>2, <1>3, <1>4, <1>6, <2>2
  <1> QED
    BY <1>5, <1>6

\* sl_find_member then finds none.
LEMMA NoneFound ==
    ASSUME NEW sl, NEW pos, Tower(sl, pos), NEW member, Missing(sl, member)
    PROVE  FindMember(sl, member) = Null
  <1>1. 1 \in 1 .. MaxLevel
    BY MaxLevelIsPositive
  <1>2. PICK k : InOrder(On(sl, 1), pos, k, Chain(sl, 1))
    BY <1>1, ChainIs
  <1>3. PICK p : p = PlaceOf(sl, member)
    OBVIOUS
  <1>4. ASSUME p \in 1 .. k, StrRank[sl.node[Chain(sl, 1)[p]].member] = StrRank[member]
        PROVE  FALSE
    <2>1. Chain(sl, 1)[p] \in On(sl, 1) \ {0}
      BY <1>2, <1>4 DEF InOrder
    <2>2. Chain(sl, 1)[p] \in Inner(sl)
      BY <2>1 DEF On, Inner
    <2> QED
      BY <1>4, <2>2 DEF Missing
  <1>5. p = 0
    <2>1. \/ p = 0 /\ Missing(sl, member)
          \/ /\ p \in 1 .. k
             /\ StrRank[sl.node[Chain(sl, 1)[p]].member] = StrRank[member]
      BY <1>2, <1>3, PlaceOfIs
    <2> QED
      BY <1>4, <2>1
  <1> QED
    BY <1>3, <1>5 DEF FindMember

\* t is sl with a new node n.
Puts(sl, m, s, t, n) ==
    /\ n \in 1 .. Cardinality(DOMAIN sl.node) /\ n \notin DOMAIN sl.node
    /\ DOMAIN t.node = DOMAIN sl.node \cup {n}
    /\ Kept(t, sl, {n})
    /\ t.node[n].member = m /\ t.node[n].score = s

\* sl_insert then puts a node in, at its place in the order.
LEMMA InsertPuts ==
    ASSUME NEW sl, NEW pos, Tower(sl, pos), NEW M, NEW S, Ranked(M, S), Sorted(sl, pos, M, S),
           NEW m \in M, NEW s \in S, Missing(sl, m), NEW lvl \in 1 .. MaxLevel,
           NEW t, t = SlInsert(sl, m, s, lvl)
    PROVE  \E q, n : Tower(t, q) /\ Sorted(t, q, M, S) /\ Puts(sl, m, s, t, n)
  <1>1. Cleaned(sl, m) = sl
    BY NoneFound DEF Cleaned
  <1>2. PICK q, n : Tower(t, q) /\ Added(sl, pos, m, s, t, n, q)
    BY <1>1, InsertIs
  <1>3. PICK p : p = pos[Update(sl, m, s)[1]]
    OBVIOUS
  <1>4. MakesRoom(DOMAIN sl.node, pos, p, n, q) /\ n \notin DOMAIN sl.node
    BY <1>2, <1>3 DEF Added
  <1>5. n # 0 /\ 0 \in DOMAIN sl.node /\ n \in 1 .. Cardinality(DOMAIN sl.node)
    BY <1>2 DEF Added, Tower
  <1>6. DOMAIN t.node = DOMAIN sl.node \cup {n}
    BY <1>2 DEF Added
  <1>7. ASSUME NEW a \in DOMAIN sl.node
        PROVE  /\ t.node[a].score = sl.node[a].score /\ t.node[a].member = sl.node[a].member
               /\ t.node[a] = [score |-> t.node[a].score, member |-> t.node[a].member,
                               forward |-> t.node[a].forward]
    <2>1. PICK r : r = sl.node[a]
      OBVIOUS
    <2>2. PICK g : g = t.node[a]
      OBVIOUS
    <2>3. PICK f : f = g.forward
      OBVIOUS
    <2>4. r = [score |-> r.score, member |-> r.member, forward |-> r.forward]
      BY <2>1 DEF Sorted, Formed
    <2>5. g = [r EXCEPT !.forward = f] /\ IsFun(f)
      BY <1>2, <1>6, <2>1, <2>2, <2>3 DEF Added
    <2>6. /\ g.score = r.score /\ g.member = r.member
          /\ g = [score |-> g.score, member |-> g.member, forward |-> g.forward]
      BY <2>4, <2>5, Relinked
    <2> QED
      BY <2>1, <2>2, <2>6
  <1>8. /\ t.node[n] = [score |-> s, member |-> m, forward |-> t.node[n].forward]
        /\ t.node[n].score = s /\ t.node[n].member = m
    <2>1. t.node[n] = [score |-> s, member |-> m, forward |-> t.node[n].forward]
      BY <1>2 DEF Added
    <2>2. PICK f : f = t.node[n].forward
      OBVIOUS
    <2>3. t.node[n] = [score |-> s, member |-> m, forward |-> f]
      BY <2>1, <2>2
    <2> QED
      BY <2>1, <2>3
  <1>9. \A a \in DOMAIN t.node :
            /\ t.node[a] = [score |-> t.node[a].score, member |-> t.node[a].member,
                            forward |-> t.node[a].forward]
            /\ IsFun(t.node[a].forward)
    <2>1. \A a \in DOMAIN t.node : IsFun(t.node[a].forward)
      BY <1>2 DEF Added
    <2>2. t.node[n] = [score |-> t.node[n].score, member |-> t.node[n].member,
                       forward |-> t.node[n].forward]
      BY <1>8
    <2> QED
      BY <1>6, <1>7, <2>1, <2>2
  <1>10. Formed(t)
    <2>1. t.node[0].score = 0 /\ t.node[0].member = 0
      BY <1>5, <1>7 DEF Sorted, Formed
    <2> QED
      BY <1>2, <1>9, <2>1 DEF Formed, Added
  <1>11. Inner(t) = Inner(sl) \cup {n}
    BY <1>5, <1>6 DEF Inner
  <1>12. \A a \in Inner(sl) : a # n /\ t.node[a].score = sl.node[a].score
                              /\ t.node[a].member = sl.node[a].member
    BY <1>4, <1>7 DEF Inner
  <1>13. \A a \in Inner(t) : t.node[a].member \in M /\ t.node[a].score \in S
    BY <1>8, <1>11, <1>12 DEF Sorted
  <1>14. \A a, b \in Inner(t) :
            StrRank[t.node[a].member] = StrRank[t.node[b].member] => a = b
    BY <1>8, <1>11, <1>12 DEF Sorted, Missing
  <1>15. /\ \A a \in Inner(sl) : pos[a] \in Nat /\ q[a] \in Nat
         /\ \A a \in Inner(sl) : /\ pos[a] <= p => q[a] = pos[a]
                                 /\ p < pos[a] => q[a] = pos[a] + 1
         /\ q[n] = p + 1 /\ p \in Nat
    BY <1>4, RoomMade DEF Inner, MakesRoom
  <1> DEFINE Key(a, b) == Earlier(t.node[a].score, StrRank[t.node[a].member],
                                  t.node[b].score, StrRank[t.node[b].member])
  <1>16. /\ s \in Int /\ StrRank[m] \in Int
         /\ \A a \in Inner(sl) : sl.node[a].score \in Int /\ StrRank[sl.node[a].member] \in Int
    BY DEF Ranked, Sorted
  <1>17. ASSUME NEW a \in Inner(sl), NEW b \in Inner(sl), q[a] < q[b] PROVE Key(a, b)
    <2>1. pos[a] < pos[b]
      BY <1>15, <1>17
    <2>2. Earlier(sl.node[a].score, StrRank[sl.node[a].member],
                  sl.node[b].score, StrRank[sl.node[b].member])
      BY <2>1 DEF Sorted
    <2> QED
      BY <1>12, <2>2
  <1>18. ASSUME NEW a \in Inner(sl), q[a] < q[n] PROVE Key(a, n)
    <2>1. pos[a] <= p
      BY <1>15, <1>18
    <2>2. Earlier(sl.node[a].score, StrRank[sl.node[a].member], s, StrRank[m])
      BY <1>3, <2>1, Parts
    <2> QED
      BY <1>8, <1>12, <2>2
  <1>19. ASSUME NEW a \in Inner(sl), q[n] < q[a] PROVE Key(n, a)
    <2>1. ~(pos[a] <= p)
      BY <1>15, <1>19
    <2>2. ~Earlier(sl.node[a].score, StrRank[sl.node[a].member], s, StrRank[m])
      BY <1>3, <2>1, Parts
    <2>3. StrRank[sl.node[a].member] # StrRank[m]
      BY DEF Missing
    <2>4. Earlier(s, StrRank[m], sl.node[a].score, StrRank[sl.node[a].member])
      BY <1>16, <2>2, <2>3 DEF Earlier
    <2> QED
      BY <1>8, <1>12, <2>4
  <1>20. ~(q[n] < q[n])
    BY <1>15
  <1> HIDE DEF Key
  <1>21. \A a, b \in Inner(t) : q[a] < q[b] => Key(a, b)
    BY <1>11, <1>17, <1>18, <1>19, <1>20
  <1>22. Sorted(t, q, M, S)
    BY <1>10, <1>13, <1>14, <1>21 DEF Sorted, Key
  <1>23. DOMAIN sl.node = DOMAIN t.node \ {n}
    BY <1>4, <1>6
  <1>24. Formed(sl) /\ n \in 1 .. Cardinality(DOMAIN sl.node)
    BY <1>5 DEF Sorted
  <1>25. Kept(t, sl, {n})
    BY <1>7, <1>23, <1>24 DEF Kept
  <1> QED
    BY <1>2, <1>4, <1>6, <1>8, <1>22, <1>24, <1>25 DEF Puts

\* Walked in its chain the list meets its nodes in the order of score and member, each once.
LEMMA ChainSorted ==
    ASSUME NEW sl, NEW pos, Tower(sl, pos), NEW M, NEW S, Ranked(M, S), Sorted(sl, pos, M, S),
           NEW c, c = Chain(sl, 1)
    PROVE  \E k \in Nat :
              /\ k = sl.length /\ Len(c) = k /\ DOMAIN c = 1 .. k
              /\ Inner(sl) = {c[i] : i \in 1 .. k}
              /\ \A i, j \in 1 .. k : c[i] = c[j] => i = j
              /\ \A i, j \in 1 .. k : i < j =>
                    Earlier(sl.node[c[i]].score, StrRank[sl.node[c[i]].member],
                            sl.node[c[j]].score, StrRank[sl.node[c[j]].member])
  <1>1. 1 \in 1 .. MaxLevel
    BY MaxLevelIsPositive
  <1>2. PICK k : InOrder(On(sl, 1), pos, k, c)
    BY <1>1, ChainIs
  <1>3. sl.length = Len(c) /\ DOMAIN sl.node = {0} \cup Range(c)
    BY TowerNests DEF Nested
  <1>4. /\ k \in Nat /\ DOMAIN c = 1 .. k /\ Len(c) = k
        /\ \A j \in 1 .. k : c[j] \in On(sl, 1) \ {0}
        /\ \A j, l \in 1 .. k : j < l <=> pos[c[j]] < pos[c[l]]
    BY <1>2 DEF InOrder
  <1>5. \A j \in 1 .. k : c[j] \in Inner(sl)
    BY <1>4 DEF On, Inner
  <1>6. Inner(sl) = {c[i] : i \in 1 .. k}
    <2>1. Range(c) = {c[i] : i \in 1 .. k}
      BY <1>4 DEF Range
    <2> QED
      BY <1>3, <1>5, <2>1 DEF Inner
  <1>7. ASSUME NEW i \in 1 .. k, NEW j \in 1 .. k, c[i] = c[j] PROVE i = j
    <2>1. pos[c[i]] \in Nat /\ pos[c[i]] = pos[c[j]]
      BY <1>5, <1>7 DEF Tower, Inner
    <2>2. ~(i < j) /\ ~(j < i)
      BY <1>4, <2>1
    <2> QED
      BY <2>2
  <1>8. \A i, j \in 1 .. k : i < j =>
            Earlier(sl.node[c[i]].score, StrRank[sl.node[c[i]].member],
                    sl.node[c[j]].score, StrRank[sl.node[c[j]].member])
    BY <1>4, <1>5 DEF Sorted
  <1> QED
    BY <1>3, <1>4, <1>6, <1>7, <1>8

\* Where sl_get_rank ends.
LEMMA PlaceEnds ==
    ASSUME NEW sl, NEW pos, Tower(sl, pos), NEW m, NEW p, p = PlaceOf(sl, m)
    PROVE  \/ p = 0 /\ Missing(sl, m)
           \/ /\ p \in 1 .. sl.length
              /\ StrRank[sl.node[Chain(sl, 1)[p]].member] = StrRank[m]
  <1>1. 1 \in 1 .. MaxLevel
    BY MaxLevelIsPositive
  <1>2. PICK l : InOrder(On(sl, 1), pos, l, Chain(sl, 1))
    BY <1>1, ChainIs
  <1>3. sl.length = l
    BY <1>2, TowerNests DEF Nested, InOrder
  <1> QED
    BY <1>2, <1>3, PlaceOfIs

\* sl_get_rank of a member that is there once, of one that is not.
LEMMA PlaceIn ==
    ASSUME NEW sl, NEW pos, Tower(sl, pos), NEW M, NEW S, Sorted(sl, pos, M, S),
           NEW c, c = Chain(sl, 1), NEW k \in Nat, k = sl.length,
           Inner(sl) = {c[i] : i \in 1 .. k}, \A i, j \in 1 .. k : c[i] = c[j] => i = j
    PROVE  /\ \A m : Missing(sl, m) => PlaceOf(sl, m) = 0
           /\ \A i \in 1 .. k : PlaceOf(sl, sl.node[c[i]].member) = i
  <1>1. \A m : \/ PlaceOf(sl, m) = 0 /\ Missing(sl, m)
               \/ /\ PlaceOf(sl, m) \in 1 .. sl.length
                  /\ StrRank[sl.node[Chain(sl, 1)[PlaceOf(sl, m)]].member] = StrRank[m]
    BY PlaceEnds
  <1>2. ASSUME NEW m, Missing(sl, m) PROVE PlaceOf(sl, m) = 0
    <2>1. \A p \in 1 .. k : c[p] \in Inner(sl)
      OBVIOUS
    <2> QED
      BY <1>1, <1>2, <2>1 DEF Missing
  <1>3. ASSUME NEW i \in 1 .. k PROVE PlaceOf(sl, sl.node[c[i]].member) = i
    <2>1. PICK m : m = sl.node[c[i]].member
      OBVIOUS
    <2>2. c[i] \in Inner(sl) /\ ~Missing(sl, m)
      BY <2>1 DEF Missing
    <2>3. PICK p \in 1 .. k : p = PlaceOf(sl, m) /\ StrRank[sl.node[c[p]].member] = StrRank[m]
      BY <1>1, <2>2
    <2>4. c[p] = c[i]
      BY <2>1, <2>2, <2>3 DEF Sorted
    <2> QED
      BY <2>1, <2>3, <2>4
  <1> QED
    BY <1>2, <1>3
=============================================================================
