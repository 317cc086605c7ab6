--------------------------- MODULE SnapshotProofs ---------------------------
(***************************************************************************)
(* Proofs about the snapshots, for any finite set of keys, any values, any *)
(* number of children and files, and any number of saves and failures.     *)
(*                                                                         *)
(* That the published file is whole is not inductive.  What is says where  *)
(* every untainted file stands: one process at most has it open, what is   *)
(* in it is what that process wrote, and what that process has still to    *)
(* write makes it the whole snapshot of the process's image (Writing); the *)
(* file under the server's path is nobody's any more and is the whole      *)
(* snapshot of the published image (Standing).  The two names never share  *)
(* a file, so an fopen of the one cannot empty the other (Names).          *)
(***************************************************************************)
EXTENDS Snapshot, SequenceLemmas, FiniteSetTheorems

\* The chunks there are; a checksum is computed from those of the first kind.
Plain  == ({"header"} \X Nat) \cup ({"entry"} \X Keys \X (Vals \cup {Nil})) \cup {Hole}
Chunks == Plain \cup ({"crc"} \X Seq(Plain))

Savers == [pc : {"none", "open", "write", "rename"}, img : Images,
           left : Seq(Plain), out : Seq(Chunks), ino : Inodes \cup {Nil}]

\* The whole snapshot of an image.
Whole(img) == Append(Body(img), Crc(Body(img)))

\* Who has no file open has written nothing; no checksum comes before the end.
Stage(p) ==
    /\ saver[p].pc \in {"none", "open"} =>
          saver[p].ino = Nil /\ saver[p].out = << >> /\ saver[p].left = << >>
    /\ saver[p].pc \in {"write", "rename"} => saver[p].ino \in Inodes
    /\ saver[p].pc = "write" => saver[p].out \in Seq(Plain)

Shape ==
    /\ db \in Images /\ published \in Images
    /\ up \in BOOLEAN /\ loaded \in {"nofile", "ok", "corrupt"}
    /\ answer \in {"none", "OK", "error", "started"}
    /\ saver \in [Procs -> Savers]
    /\ \A p \in Procs : Stage(p)
    /\ file \in [Inodes -> Seq(Chunks)]
    /\ tmp \in Inodes \cup {Nil} /\ path \in Inodes \cup {Nil}
    /\ tainted \subseteq Inodes

Names == tmp # Nil => tmp # path

\* The file p has open is its own, and what it writes is a snapshot.
Writing(p) ==
    saver[p].ino \in Inodes \ tainted =>
        /\ \A q \in Procs : saver[q].ino = saver[p].ino => q = p
        /\ file[saver[p].ino] = saver[p].out
        /\ saver[p].pc = "write" => saver[p].out \o saver[p].left = Body(saver[p].img)
        /\ saver[p].pc = "rename" => saver[p].out = Whole(saver[p].img)

Standing ==
    path # Nil /\ path \notin tainted =>
        /\ \A p \in Procs : saver[p].ino # path
        /\ file[path] = Whole(published)

IInv == Shape /\ Names /\ (\A p \in Procs : Writing(p)) /\ Standing

-----------------------------------------------------------------------------
(* What rdb_save writes is what rdb_load reads *)

\* dict_each visits every key that has a value once.
LEMMA KeysInOrder ==
    ASSUME NEW img \in Images
    PROVE  \E n \in Nat :
              /\ KeysIn(img) \in [1 .. n -> {k \in Keys : img[k] # Nil}]
              /\ \A i, j \in 1 .. n : KeysIn(img)[i] = KeysIn(img)[j] => i = j
              /\ \A k \in Keys : img[k] # Nil => \E i \in 1 .. n : KeysIn(img)[i] = k
  <1> DEFINE S == {k \in Keys : img[k] # Nil}
             n == Cardinality(S)
  <1>1. IsFiniteSet(S)
    BY KeysAreFinite, FS_Subset
  <1>2. n \in Nat /\ ExistsBijection(1 .. n, S)
    BY <1>1, FS_CardinalityType
  <1>3. \E f \in [1 .. n -> S] : IsInjective(f)
    BY <1>2 DEF ExistsBijection, Bijection, Injection
  <1>4. KeysIn(img) \in [1 .. n -> S] /\ IsInjective(KeysIn(img))
    BY <1>3 DEF KeysIn, SetToSeq
  <1>5. IsFiniteSet(1 .. n) /\ Cardinality(1 .. n) = n
    BY <1>2, FS_Interval
  <1>6. KeysIn(img) \in Surjection(1 .. n, S)
    <2>1. KeysIn(img) \in Injection(1 .. n, S)
      BY <1>4 DEF Injection
    <2> HIDE DEF n, S
    <2> QED
      BY <2>1, <1>1, <1>5, FS_Injection DEF n
  <1> QED
    BY <1>2, <1>4, <1>6 DEF Surjection, IsInjective

\* The body of a snapshot: the count, then an entry for every key with a value.
LEMMA BodyIs ==
    ASSUME NEW img \in Images
    PROVE  \E n \in Nat : \E K \in [1 .. n -> Keys] :
              /\ Body(img) \in Seq(Plain) /\ Len(Body(img)) = n + 1
              /\ Body(img)[1] = <<"header", n>>
              /\ \A i \in 1 .. n : Body(img)[i + 1] = <<"entry", K[i], img[K[i]]>>
              /\ \A i, j \in 1 .. n : K[i] = K[j] => i = j
              /\ \A k \in Keys : img[k] # Nil => \E i \in 1 .. n : K[i] = k
              /\ \A i \in 1 .. n : img[K[i]] # Nil
  <1> DEFINE K == KeysIn(img)
  <1>1. PICK n \in Nat :
              /\ K \in [1 .. n -> {k \in Keys : img[k] # Nil}]
              /\ \A i, j \in 1 .. n : K[i] = K[j] => i = j
              /\ \A k \in Keys : img[k] # Nil => \E i \in 1 .. n : K[i] = k
    BY KeysInOrder
  <1> HIDE DEF K
  <1> DEFINE E == [i \in DOMAIN K |-> Entry(K[i], img[K[i]])]
  <1>2. Len(K) = n /\ DOMAIN K = 1 .. n
    BY <1>1
  <1>3. E \in Seq(Plain) /\ Len(E) = n
    <2>1. \A i \in 1 .. n : Entry(K[i], img[K[i]]) \in Plain
      BY <1>1 DEF Entry, Plain, Images
    <2>2. E \in [1 .. n -> Plain]
      BY <1>2, <2>1
    <2> QED
      BY <2>2, <1>1
  <1>4. <<Header(n)>> \in Seq(Plain) /\ Len(<<Header(n)>>) = 1
    BY DEF Header, Plain
  <1>5. Body(img) = <<Header(n)>> \o E
    BY <1>2 DEF Body, K
  <1>6. /\ Body(img) \in Seq(Plain) /\ Len(Body(img)) = n + 1
        /\ Body(img)[1] = Header(n)
        /\ \A i \in 1 .. n : Body(img)[i + 1] = E[i]
    <2> HIDE DEF E
    <2>1. /\ Body(img) \in Seq(Plain) /\ Len(Body(img)) = 1 + n
          /\ \A i \in 1 .. 1 + n : Body(img)[i] =
                IF i <= 1 THEN <<Header(n)>>[i] ELSE E[i - 1]
      BY <1>3, <1>4, <1>5, ConcatProperties
    <2> QED
      BY <2>1
  <1>7. K \in [1 .. n -> Keys]
    BY <1>1
  <1>8. \A i \in 1 .. n : Body(img)[i + 1] = <<"entry", K[i], img[K[i]]>>
    BY <1>6, <1>2 DEF Entry
  <1> HIDE DEF E
  <1> QED
    BY <1>1, <1>6, <1>7, <1>8 DEF Header

\* The whole snapshot of an image is loaded without complaint, and what is
\* loaded is the image.
LEMMA WholeIsLoaded ==
    ASSUME NEW img \in Images
    PROVE  /\ Whole(img) \in Seq(Chunks)
           /\ LoadOK(Whole(img)) /\ DbOf(Whole(img)) = img
  <1> DEFINE b == Body(img)
             f == Whole(img)
  <1>0. PICK n \in Nat : \E K \in [1 .. n -> Keys] :
              /\ b \in Seq(Plain) /\ Len(b) = n + 1
              /\ b[1] = <<"header", n>>
              /\ \A i \in 1 .. n : b[i + 1] = <<"entry", K[i], img[K[i]]>>
              /\ \A i, j \in 1 .. n : K[i] = K[j] => i = j
              /\ \A k \in Keys : img[k] # Nil => \E i \in 1 .. n : K[i] = k
              /\ \A i \in 1 .. n : img[K[i]] # Nil
    BY BodyIs
  <1>1. PICK K \in [1 .. n -> Keys] :
              /\ b \in Seq(Plain) /\ Len(b) = n + 1
              /\ b[1] = <<"header", n>>
              /\ \A i \in 1 .. n : b[i + 1] = <<"entry", K[i], img[K[i]]>>
              /\ \A i, j \in 1 .. n : K[i] = K[j] => i = j
              /\ \A k \in Keys : img[k] # Nil => \E i \in 1 .. n : K[i] = k
              /\ \A i \in 1 .. n : img[K[i]] # Nil
    BY <1>0
  <1>2. b \in Seq(Chunks) /\ Crc(b) \in Chunks
    BY <1>1 DEF Chunks, Crc
  <1>3. f = Append(b, Crc(b))
    BY DEF Whole
  <1> HIDE DEF b, f
  <1>4. /\ f \in Seq(Chunks) /\ f # << >> /\ Len(f) = n + 2
        /\ \A i \in 1 .. n + 1 : f[i] = b[i]
        /\ f[n + 2] = Crc(b)
    BY <1>1, <1>2, <1>3, AppendProperties
  <1>5. f[1] = <<"header", n>> /\ \A i \in 1 .. n : f[i + 1] = <<"entry", K[i], img[K[i]]>>
    BY <1>1, <1>4
  <1>6. KeyCount(f) = n
    BY <1>4, <1>5 DEF KeyCount
  <1>7. Readable(f) = n
    <2> DEFINE P(m) == /\ \A i \in 1 .. m : i + 1 <= Len(f) /\ f[i + 1][1] = "entry"
                       /\ m < n => m + 2 > Len(f) \/ f[m + 2][1] # "entry"
    <2>1. ASSUME NEW m \in 0 .. n PROVE P(m) <=> m = n
      <3>1. ASSUME NEW i \in 1 .. n PROVE i + 1 <= Len(f) /\ f[i + 1][1] = "entry"
        <4>1. f[i + 1] = <<"entry", K[i], img[K[i]]>>
          BY <1>5
        <4> QED
          BY <1>4, <4>1
      <3>2. ASSUME m < n PROVE m + 2 <= Len(f) /\ f[m + 2][1] = "entry"
        <4> DEFINE i == m + 1
        <4>1. i \in 1 .. n /\ i + 1 = m + 2
          BY <3>2
        <4>2. i + 1 <= Len(f) /\ f[i + 1][1] = "entry"
          BY <3>1, <4>1
        <4> QED
          BY <4>1, <4>2, <1>4
      <3> QED
        BY <3>1, <3>2, <1>4
    <2>2. Readable(f) = CHOOSE m \in 0 .. n : P(m)
      BY <1>6 DEF Readable
    <2> HIDE DEF P
    <2> QED
      BY <2>1, <2>2
  <1>8. SubSeq(f, 1, n + 1) = b
    <2>1. SubSeq(f, 1, n + 1) = [i \in 1 .. n + 1 |-> f[i]]
      BY <1>4
    <2>2. b = [i \in 1 .. n + 1 |-> b[i]]
      BY <1>1
    <2> QED
      BY <2>1, <2>2, <1>4
  <1>9. LoadOK(f)
    <2>1. f[1][1] = "header"
      BY <1>5
    <2>2. Len(f) >= n + 2
      BY <1>4
    <2>3. f[n + 2] = Crc(SubSeq(f, 1, n + 1))
      BY <1>4, <1>8
    <2> QED
      BY <1>4, <1>6, <1>7, <2>1, <2>2, <2>3 DEF LoadOK
  <1>10. DbOf(f) = img
    <2> SUFFICES ASSUME NEW k \in Keys PROVE DbOf(f)[k] = img[k]
      BY DEF DbOf, Images
    <2> DEFINE at == {i \in 2 .. Readable(f) + 1 : f[i][2] = k}
    <2>1. DbOf(f)[k] = IF at = {} THEN Nil
                       ELSE f[CHOOSE i \in at : \A j \in at : j <= i][3]
      BY DEF DbOf
    <2>2. \A i \in 1 .. n : i + 1 \in at <=> K[i] = k
      BY <1>5, <1>7
    <2>3. \A i \in at : i \in Int /\ i - 1 \in 1 .. n /\ i = (i - 1) + 1
      BY <1>7
    <2> HIDE DEF at
    <2>4. CASE img[k] = Nil
      <3>1. at = {}
        BY <2>2, <2>3, <2>4, <1>1
      <3> QED
        BY <3>1, <2>1, <2>4
    <2>5. CASE img[k] # Nil
      <3>1. PICK i \in 1 .. n : K[i] = k
        BY <2>5, <1>1
      <3>2. at = {i + 1}
        BY <2>2, <2>3, <3>1, <1>1
      <3>3. (CHOOSE x \in at : \A j \in at : j <= x) = i + 1
        BY <3>2
      <3> QED
        BY <2>1, <3>1, <3>2, <3>3, <1>5
    <2> QED
      BY <2>4, <2>5
  <1> QED
    BY <1>4, <1>9, <1>10 DEF f

\* A set of numbers with a bound has a largest.
LEMMA Largest ==
    ASSUME NEW n \in Nat, NEW T \in SUBSET (0 .. n), T # {}
    PROVE  \E x \in T : \A y \in T : y <= x
  <1> DEFINE U == {n - x : x \in T}
  <1>1. U \subseteq Nat /\ U # {}
    <2>1. \A x \in T : n - x \in Nat
      OBVIOUS
    <2> QED
      BY <2>1
  <1>2. PICK u \in U : \A y \in U : ~ (<<y, u>> \in OpToRel(<, Nat))
    BY <1>1, NatLessThanWellFounded, WFMin
  <1>3. \A y \in U : u <= y
    <2> SUFFICES ASSUME NEW y \in U PROVE u <= y
      OBVIOUS
    <2>1. y \in Nat /\ u \in Nat
      BY <1>1
    <2>2. <<y, u>> \notin OpToRel(<, Nat)
      BY <1>2
    <2>3. ~ (y < u)
      BY <2>1, <2>2 DEF OpToRel
    <2> QED
      BY <2>1, <2>3
  <1>4. PICK x \in T : u = n - x
    OBVIOUS
  <1>5. \A y \in T : y <= x
    <2> SUFFICES ASSUME NEW y \in T PROVE y <= x
      OBVIOUS
    <2>1. n - y \in U
      OBVIOUS
    <2> QED
      BY <1>3, <1>4, <2>1
  <1> QED
    BY <1>5

\* Whatever is in the file, torn or mixed, what is loaded from it are values
\* under keys.
LEMMA LoadsAnImage ==
    ASSUME NEW f \in Seq(Chunks)
    PROVE  DbOf(f) \in Images
  <1>1. KeyCount(f) \in Nat
    <2>1. CASE f # << >> /\ f[1][1] = "header"
      <3>1. f[1] \in Chunks
        BY <2>1
      <3>2. f[1] \in {"header"} \X Nat
        BY <2>1, <3>1 DEF Chunks, Plain, Hole
      <3> QED
        BY <2>1, <3>2 DEF KeyCount
    <2> QED
      BY <2>1 DEF KeyCount
  <1> DEFINE n == KeyCount(f)
             ok(i) == i + 1 <= Len(f) /\ f[i + 1][1] = "entry"
             M == {m \in 0 .. n : \A i \in 1 .. m : ok(i)}
             P(m) == /\ \A i \in 1 .. m : ok(i)
                     /\ m < n => m + 2 > Len(f) \/ f[m + 2][1] # "entry"
  <1>2. PICK m \in M : \A y \in M : y <= m
    <2>1. 0 \in M
      BY <1>1
    <2>2. M \in SUBSET (0 .. n) /\ M # {}
      BY <2>1
    <2> HIDE DEF M, n
    <2> QED
      BY <1>1, <2>2, Largest DEF n
  <1>3. P(m)
    <2> SUFFICES ASSUME m < n PROVE m + 2 > Len(f) \/ f[m + 2][1] # "entry"
      OBVIOUS
    <2>1. m + 1 \notin M
      <3>1. m \in Nat
        BY <1>1
      <3> HIDE DEF M
      <3> QED
        BY <1>2, <3>1
    <2>2. ~ \A i \in 1 .. m + 1 : ok(i)
      BY <1>1, <2>1
    <2>3. ~ ok(m + 1)
      BY <2>2
    <2> QED
      BY <1>1, <2>3
  <1>4. Readable(f) \in 0 .. n /\ P(Readable(f))
    <2>1. Readable(f) = CHOOSE x \in 0 .. n : P(x)
      BY DEF Readable
    <2>2. m \in 0 .. n
      OBVIOUS
    <2> HIDE DEF P, n
    <2> QED
      BY <1>3, <2>1, <2>2
  <1> SUFFICES ASSUME NEW k \in Keys PROVE DbOf(f)[k] \in Vals \cup {Nil}
    BY DEF DbOf, Images
  <1> DEFINE r == Readable(f)
             at == {i \in 2 .. r + 1 : f[i][2] = k}
  <1>5. DbOf(f)[k] = IF at = {} THEN Nil
                     ELSE f[CHOOSE i \in at : \A j \in at : j <= i][3]
    BY DEF DbOf
  <1>6. ASSUME at # {} PROVE f[CHOOSE i \in at : \A j \in at : j <= i][3] \in Vals \cup {Nil}
    <2>1. r \in Nat /\ r + 1 \in Nat /\ at \in SUBSET (0 .. r + 1)
      BY <1>1, <1>4
    <2>2. \E i \in at : \A j \in at : j <= i
      <3> HIDE DEF at, r
      <3> QED
        BY <1>6, <2>1, Largest
    <2>3. PICK i \in at : i = CHOOSE x \in at : \A j \in at : j <= x
      BY <2>2
    <2>4. i - 1 \in 1 .. r /\ (i - 1) + 1 = i
      BY <2>1
    <2>5. ok(i - 1)
      BY <1>4, <2>4
    <2>6. i \in 1 .. Len(f) /\ f[i][1] = "entry"
      BY <2>4, <2>5
    <2>7. f[i] \in {"entry"} \X Keys \X (Vals \cup {Nil})
      BY <2>6 DEF Chunks, Plain, Hole
    <2> QED
      BY <2>3, <2>7
  <1> QED
    BY <1>5, <1>6

-----------------------------------------------------------------------------
(* Helpers of the steps *)

\* Moving the first chunk that is left to those written leaves their join.
LEMMA MoveChunk ==
    ASSUME NEW s \in Seq(Chunks), NEW t \in Seq(Plain), t # << >>
    PROVE  Append(s, Head(t)) \o Tail(t) = s \o t
  <1>1. IsSeq(s) /\ IsSeq(t)
    BY IsSeqOver
  <1>2. IsSeq(Tail(t)) /\ <<Head(t)>> \o Tail(t) = t
    BY <1>1, HeadAndTail
  <1>3. IsSeq(<<Head(t)>>) /\ Append(s, Head(t)) = s \o <<Head(t)>>
    BY <1>1, AppendIsSeq
  <1> QED
    BY <1>1, <1>2, <1>3, ConcatAssoc

\* Writing at an offset keeps files files; writing at the end appends.
LEMMA WriteAtIs ==
    ASSUME NEW f \in Seq(Chunks), NEW n \in Nat, NEW c \in Chunks
    PROVE  /\ WriteAt(f, n + 1, c) \in Seq(Chunks)
           /\ n = Len(f) => WriteAt(f, n + 1, c) = Append(f, c)
  <1> DEFINE m == IF n + 1 > Len(f) THEN n + 1 ELSE Len(f)
             w == WriteAt(f, n + 1, c)
  <1>1. m \in Nat /\ Len(f) \in Nat
    OBVIOUS
  <1>2. Hole \in Chunks
    BY DEF Chunks, Plain
  <1>3. w = [j \in 1 .. m |-> IF j = n + 1 THEN c ELSE IF j <= Len(f) THEN f[j] ELSE Hole]
    BY DEF WriteAt
  <1>4. w \in [1 .. m -> Chunks]
    <2> SUFFICES ASSUME NEW j \in 1 .. m
                 PROVE  (IF j = n + 1 THEN c ELSE IF j <= Len(f) THEN f[j] ELSE Hole) \in Chunks
      BY <1>3
    <2>1. j <= Len(f) => f[j] \in Chunks
      BY <1>1
    <2> QED
      BY <1>2, <2>1
  <1>5. w \in Seq(Chunks)
    BY <1>1, <1>4
  <1>6. ASSUME n = Len(f) PROVE w = Append(f, c)
    <2>1. m = n + 1
      BY <1>1, <1>6
    <2>2. PICK g : g = Append(f, c)
      OBVIOUS
    <2>3. /\ g \in Seq(Chunks) /\ Len(g) = n + 1
          /\ \A i \in 1 .. n : g[i] = f[i]
          /\ g[n + 1] = c
      BY <1>6, <2>2, AppendProperties
    <2>4. g = [j \in 1 .. n + 1 |-> g[j]]
      BY <2>3
    <2>5. \A j \in 1 .. n + 1 : w[j] = g[j]
      BY <1>1, <1>3, <1>6, <2>1, <2>3
    <2> HIDE DEF w
    <2> QED
      BY <1>4, <2>1, <2>2, <2>4, <2>5
  <1> QED
    BY <1>5, <1>6 DEF w

\* Bodies and whole snapshots are made of chunks.
LEMMA BodyIsPlain ==
    ASSUME NEW img \in Images
    PROVE  /\ Body(img) \in Seq(Plain) /\ Body(img) \in Seq(Chunks)
           /\ << >> \o Body(img) = Body(img)
  <1>1. Body(img) \in Seq(Plain)
    BY BodyIs
  <1>2. Body(img) \in Seq(Chunks)
    BY <1>1 DEF Chunks
  <1> QED
    BY <1>1, <1>2, ConcatEmptySeq

\* A process between two saves.
LEMMA RestingIs ==
    /\ Resting \in Savers /\ Resting.pc = "none" /\ Resting.ino = Nil
    /\ Resting.out = << >> /\ Resting.left = << >>
  BY DEF Resting, Savers, Empty, Images

-----------------------------------------------------------------------------
(* The steps *)

\* At the start nobody has a file open and there is none.
LEMMA InitIInv == Init => IInv
  <1> SUFFICES ASSUME Init PROVE IInv
    OBVIOUS
  <1>1. Shape
    BY RestingIs DEF Init, Shape, Stage, Empty, Images
  <1>2. Names /\ Standing
    BY DEF Init, Names, Standing
  <1>3. ASSUME NEW p \in Procs PROVE Writing(p)
    BY RestingIs, NilIsNothing DEF Init, Writing
  <1> QED
    BY <1>1, <1>2, <1>3 DEF IInv

\* fopen empties the file: whoever had it open makes it tainted.
LEMMA OpenKeeps ==
    ASSUME IInv, NEW p \in Procs, Open(p)
    PROVE  IInv'
  <1>1. /\ saver[p].ino = Nil /\ saver[p].out = << >> /\ saver[p] \in Savers
        /\ saver[p].img \in Images
    BY DEF IInv, Shape, Stage, Open, Savers
  <1>2. PICK i \in Inodes :
            /\ i # path /\ tmp' = i
            /\ file' = [file EXCEPT ![i] = << >>]
            /\ tainted' = IF Holders(i) = {} THEN tainted \ {i} ELSE tainted \cup {i}
            /\ saver' = [saver EXCEPT ![p].pc = "write", ![p].ino = i,
                                      ![p].left = Body(saver[p].img)]
            /\ UNCHANGED <<db, up, loaded, path, answer, published>>
    <2>1. CASE tmp # Nil
      BY <2>1 DEF Open, IInv, Shape, Names
    <2>2. CASE tmp = Nil
      <3>1. (CHOOSE i \in Free : TRUE) \in Free
        BY <2>2 DEF Open
      <3> QED
        BY <2>2, <3>1 DEF Open, Free
    <2> QED
      BY <2>1, <2>2
  <1>3. /\ saver' \in [Procs -> Savers]
        /\ saver'[p].pc = "write" /\ saver'[p].ino = i /\ saver'[p].out = << >>
        /\ saver'[p].left = Body(saver[p].img) /\ saver'[p].img = saver[p].img
        /\ \A q \in Procs : q # p => saver'[q] = saver[q]
    BY <1>1, <1>2, BodyIsPlain DEF IInv, Shape, Savers
  <1>4. Shape'
    <2>1. file' \in [Inodes -> Seq(Chunks)]
      BY <1>2 DEF IInv, Shape
    <2>2. ASSUME NEW q \in Procs PROVE Stage(q)'
      <3>1. CASE q = p
        BY <1>3, <3>1, EmptySeq DEF Stage
      <3>2. CASE q # p
        BY <1>3, <3>2 DEF IInv, Shape, Stage
      <3> QED
        BY <3>1, <3>2
    <2> QED
      BY <1>2, <1>3, <2>1, <2>2 DEF IInv, Shape
  <1>5. Names'
    BY <1>2 DEF Names
  <1>6. \A q \in Procs : q # p /\ i \notin tainted' => saver[q].ino # i
    BY <1>2 DEF Holders
  <1>7. ASSUME NEW q \in Procs PROVE Writing(q)'
    <2>1. CASE q = p
      <3>1. file'[i] = << >>
        BY <1>2 DEF IInv, Shape
      <3> QED
        BY <1>1, <1>3, <1>6, <2>1, <3>1, BodyIsPlain DEF Writing
    <2>2. CASE q # p
      <3> SUFFICES ASSUME saver[q].ino \in Inodes \ tainted' PROVE Writing(q)'
        BY <1>3, <2>2 DEF Writing
      <3>1. saver[q].ino # i /\ saver[q].ino \notin tainted
        BY <1>2, <1>6, <2>2
      <3>2. file'[saver[q].ino] = file[saver[q].ino]
        BY <1>2, <3>1 DEF IInv, Shape
      <3>3. Writing(q) /\ saver'[q] = saver[q] /\ saver'[p].ino # saver[q].ino
        BY <1>3, <2>2, <3>1 DEF IInv
      <3> QED
        BY <1>3, <3>1, <3>2, <3>3 DEF Writing
    <2> QED
      BY <2>1, <2>2
  <1>8. Standing'
    <2> SUFFICES ASSUME path # Nil, path \notin tainted' PROVE Standing'
      BY <1>2 DEF Standing
    <2>1. path \notin tainted /\ file'[path] = file[path]
      BY <1>2 DEF IInv, Shape
    <2> QED
      BY <1>2, <1>3, <2>1 DEF IInv, Standing
  <1> QED
    BY <1>4, <1>5, <1>7, <1>8 DEF IInv

\* One fwrite: in its own file a process's offset is the file's end.
LEMMA WriteKeeps ==
    ASSUME IInv, NEW p \in Procs, Write(p)
    PROVE  IInv'
  <1> DEFINE i   == saver[p].ino
             out == saver[p].out
             left == saver[p].left
             c   == Due(p)
  <1>1. /\ saver[p] \in Savers /\ saver[p].img \in Images /\ saver[p].pc = "write"
        /\ i \in Inodes /\ out \in Seq(Plain) /\ out \in Seq(Chunks) /\ left \in Seq(Plain)
    BY DEF IInv, Shape, Stage, Write, Savers
  <1>2. /\ file' = [file EXCEPT ![i] = WriteAt(@, Len(out) + 1, c)]
        /\ saver' = [saver EXCEPT ![p].out = Append(out, c),
                                  ![p].left = IF @ # << >> THEN Tail(@) ELSE @,
                                  ![p].pc = IF left # << >> THEN "write" ELSE "rename"]
        /\ UNCHANGED <<db, up, loaded, tmp, path, answer, published, tainted>>
    BY DEF Write, Advance
  <1>3. c \in Chunks /\ (left # << >> => c \in Plain /\ Tail(left) \in Seq(Plain))
    <2>1. CASE left # << >>
      BY <1>1, <2>1, HeadTailProperties DEF Due, Chunks
    <2>2. CASE left = << >>
      BY <1>1, <2>2 DEF Due, Crc, Chunks
    <2> QED
      BY <2>1, <2>2
  <1> HIDE DEF c
  <1>4. /\ Append(out, c) \in Seq(Chunks)
        /\ left # << >> => Append(out, c) \in Seq(Plain)
    BY <1>1, <1>3, AppendProperties
  <1>5. saver[p].ino = i /\ saver[p].out = out /\ saver[p].left = left
    OBVIOUS
  <1>6. PICK o, l : o = Append(out, c) /\ l = IF left # << >> THEN Tail(left) ELSE left
    OBVIOUS
  <1>7. /\ saver' \in [Procs -> Savers]
        /\ saver'[p].out = o /\ saver'[p].left = l
        /\ saver'[p].pc = (IF left # << >> THEN "write" ELSE "rename")
        /\ saver'[p].ino = i /\ saver'[p].img = saver[p].img
        /\ \A q \in Procs : q # p => saver'[q] = saver[q]
    BY <1>1, <1>2, <1>3, <1>4, <1>6 DEF IInv, Shape, Savers
  <1>8. \A q \in Procs : saver'[q].ino = saver[q].ino
    BY <1>7
  <1>9. /\ file' \in [Inodes -> Seq(Chunks)]
        /\ file[i] = out => file'[i] = Append(out, c)
        /\ \A j \in Inodes : j # i => file'[j] = file[j]
    <2>1. file[i] \in Seq(Chunks) /\ file \in [Inodes -> Seq(Chunks)]
      BY <1>1 DEF IInv, Shape
    <2>2. Len(out) \in Nat
      BY <1>1
    <2>3. /\ WriteAt(file[i], Len(out) + 1, c) \in Seq(Chunks)
          /\ file[i] = out => WriteAt(file[i], Len(out) + 1, c) = Append(out, c)
      BY <1>3, <2>1, <2>2, WriteAtIs
    <2> HIDE DEF i, out
    <2> QED
      BY <1>1, <1>2, <2>1, <2>3
  <1> HIDE DEF i, out, left
  <1>10. Shape'
    <2>1. ASSUME NEW q \in Procs PROVE Stage(q)'
      <3>1. CASE q = p
        BY <1>1, <1>4, <1>6, <1>7, <3>1 DEF Stage
      <3>2. CASE q # p
        BY <1>7, <3>2 DEF IInv, Shape, Stage
      <3> QED
        BY <3>1, <3>2
    <2> QED
      BY <1>2, <1>7, <1>9, <2>1 DEF IInv, Shape
  <1>11. Names'
    BY <1>2 DEF IInv, Names
  <1>12. ASSUME NEW q \in Procs PROVE Writing(q)'
    <2> SUFFICES ASSUME saver[q].ino \in Inodes \ tainted PROVE Writing(q)'
      BY <1>2, <1>8 DEF Writing
    <2>1. /\ \A r \in Procs : saver[r].ino = saver[q].ino => r = q
          /\ file[saver[q].ino] = saver[q].out
          /\ saver[q].pc = "write" => saver[q].out \o saver[q].left = Body(saver[q].img)
          /\ saver[q].pc = "rename" => saver[q].out = Whole(saver[q].img)
      BY DEF IInv, Writing
    <2>2. CASE q = p
      <3>1. file'[i] = o
        BY <1>5, <1>6, <1>9, <2>1, <2>2
      <3>2. CASE left # << >>
        <4>0. c = Head(left)
          BY <1>5, <3>2 DEF c, Due
        <4>1. o \o l = Body(saver[p].img)
          <5>1. o = Append(out, Head(left)) /\ l = Tail(left)
            BY <1>6, <3>2, <4>0
          <5>2. out \o left = Body(saver[p].img)
            BY <1>1, <1>5, <2>1, <2>2
          <5> QED
            BY <1>1, <3>2, <5>1, <5>2, MoveChunk
        <4> QED
          BY <1>7, <1>8, <2>1, <2>2, <3>1, <3>2, <4>1 DEF Writing
      <3>3. CASE left = << >>
        <4>1. out = Body(saver[p].img)
          BY <1>1, <1>5, <2>1, <2>2, <3>3, ConcatEmptySeq
        <4>2. o = Whole(saver[p].img)
          BY <1>5, <1>6, <3>3, <4>1 DEF Whole, Due, c
        <4> QED
          BY <1>7, <1>8, <2>1, <2>2, <3>1, <3>3, <4>2 DEF Writing
      <3> QED
        BY <3>2, <3>3
    <2>3. CASE q # p
      <3>1. saver[q].ino # i /\ saver'[q] = saver[q]
        BY <1>5, <1>7, <2>1, <2>3
      <3>2. file'[saver[q].ino] = file[saver[q].ino]
        BY <1>9, <3>1
      <3> QED
        BY <1>8, <2>1, <3>1, <3>2 DEF Writing
    <2> QED
      BY <2>2, <2>3
  <1>13. Standing'
    <2> SUFFICES ASSUME path # Nil, path \notin tainted PROVE Standing'
      BY <1>2 DEF Standing
    <2>1. (\A q \in Procs : saver[q].ino # path) /\ file[path] = Whole(published)
      BY DEF IInv, Standing
    <2>2. path # i /\ path \in Inodes
      BY <1>5, <2>1 DEF IInv, Shape
    <2> QED
      BY <1>2, <1>8, <1>9, <2>1, <2>2 DEF Standing
  <1> QED
    BY <1>10, <1>11, <1>12, <1>13 DEF IInv

\* A failed fwrite leaves the file short, and tainted.
LEMMA WriteFailsKeeps ==
    ASSUME IInv, NEW p \in Procs, WriteFails(p)
    PROVE  IInv'
  <1>1. /\ saver[p] \in Savers /\ saver[p].pc = "write" /\ saver[p].ino \in Inodes
        /\ saver[p].out \in Seq(Plain) /\ saver[p].out \in Seq(Chunks)
        /\ saver[p].left \in Seq(Plain)
    BY DEF IInv, Shape, Stage, WriteFails, Savers
  <1>2. PICK l : l = IF saver[p].left # << >> THEN Tail(saver[p].left) ELSE saver[p].left
    OBVIOUS
  <1>3. l \in Seq(Plain)
    BY <1>1, <1>2, HeadTailProperties
  <1>4. /\ tainted' = tainted \cup {saver[p].ino}
        /\ saver' = [saver EXCEPT ![p].out = saver[p].out, ![p].left = l,
              ![p].pc = IF saver[p].left # << >> THEN "write" ELSE "rename"]
        /\ UNCHANGED <<db, up, loaded, file, tmp, path, answer, published>>
    <2>1. saver' = [saver EXCEPT ![p].out = saver[p].out,
                       ![p].left = IF @ # << >> THEN Tail(@) ELSE @,
                       ![p].pc = IF saver[p].left # << >> THEN "write" ELSE "rename"]
      BY DEF WriteFails, Advance
    <2> QED
      BY <1>2, <2>1 DEF WriteFails
  <1>5. /\ saver' \in [Procs -> Savers]
        /\ saver'[p].out = saver[p].out /\ saver'[p].pc \in {"write", "rename"}
        /\ saver'[p].ino = saver[p].ino
        /\ \A q \in Procs : q # p => saver'[q] = saver[q]
    BY <1>1, <1>3, <1>4 DEF IInv, Shape, Savers
  <1>6. Shape'
    <2>1. ASSUME NEW q \in Procs PROVE Stage(q)'
      <3>1. CASE q = p
        BY <1>1, <1>5, <3>1 DEF Stage
      <3>2. CASE q # p
        BY <1>5, <3>2 DEF IInv, Shape, Stage
      <3> QED
        BY <3>1, <3>2
    <2> QED
      BY <1>1, <1>4, <1>5, <2>1 DEF IInv, Shape
  <1>7. ASSUME NEW q \in Procs PROVE Writing(q)'
    <2>1. CASE q = p
      BY <1>4, <1>5, <2>1 DEF Writing
    <2>2. CASE q # p
      <3>1. saver'[q] = saver[q] /\ \A r \in Procs : saver'[r].ino = saver[r].ino
        BY <1>5, <2>2
      <3>2. Writing(q) /\ UNCHANGED file /\ tainted \subseteq tainted'
        BY <1>4 DEF IInv
      <3> QED
        BY <3>1, <3>2 DEF Writing
    <2> QED
      BY <2>1, <2>2
  <1>8. Names' /\ Standing'
    <2>1. \A r \in Procs : saver'[r].ino = saver[r].ino
      BY <1>5
    <2> QED
      BY <1>4, <2>1 DEF IInv, Names, Standing
  <1> QED
    BY <1>6, <1>7, <1>8 DEF IInv

\* A process leaves rdb_save, by its return or by its death; files that keep
\* a name or a process stay as they are.
LEMMA LeavingKeeps ==
    ASSUME IInv, NEW p \in Procs, saver' = [saver EXCEPT ![p] = Resting],
           file' \in [Inodes -> Seq(Chunks)],
           \A i \in Inodes : i = path' \/ (\E q \in Procs : saver'[q].ino = i)
                              => file'[i] = file[i],
           tainted \subseteq tainted', tainted' \subseteq Inodes,
           tmp' \in {tmp, Nil}, path' \in Inodes \cup {Nil}, Names', Standing',
           db' \in Images, published' \in Images, up' \in BOOLEAN,
           loaded' \in {"nofile", "ok", "corrupt"},
           answer' \in {"none", "OK", "error", "started"}
    PROVE  IInv'
  <1>1. /\ saver' \in [Procs -> Savers] /\ saver'[p] = Resting
        /\ \A q \in Procs : q # p => saver'[q] = saver[q]
    BY RestingIs DEF IInv, Shape
  <1>2. Shape'
    <2>1. ASSUME NEW q \in Procs PROVE Stage(q)'
      <3>1. CASE q = p
        BY <1>1, <3>1, RestingIs DEF Stage
      <3>2. CASE q # p
        BY <1>1, <3>2 DEF IInv, Shape, Stage
      <3> QED
        BY <3>1, <3>2
    <2> QED
      BY <1>1, <2>1 DEF IInv, Shape
  <1>3. ASSUME NEW q \in Procs PROVE Writing(q)'
    <2>1. CASE q = p
      BY <1>1, <2>1, RestingIs, NilIsNothing DEF Writing
    <2>2. CASE q # p
      <3> SUFFICES ASSUME saver[q].ino \in Inodes \ tainted' PROVE Writing(q)'
        BY <1>1, <2>2 DEF Writing
      <3>1. saver'[q] = saver[q] /\ file'[saver[q].ino] = file[saver[q].ino]
        BY <1>1, <2>2
      <3>2. \A r \in Procs : saver'[r].ino = saver[q].ino => saver[r].ino = saver[q].ino
        BY <1>1, RestingIs, NilIsNothing
      <3>3. Writing(q) /\ saver[q].ino \in Inodes \ tainted
        BY DEF IInv
      <3> QED
        BY <3>1, <3>2, <3>3 DEF Writing
    <2> QED
      BY <2>1, <2>2
  <1> QED
    BY <1>2, <1>3 DEF IInv

\* Files are kept or emptied.
LEMMA KeptIs ==
    ASSUME Shape, file' = Kept
    PROVE  /\ file' \in [Inodes -> Seq(Chunks)]
           /\ \A i \in Inodes : i \in {tmp', path'} \/ (\E q \in Procs : saver'[q].ino = i)
                                  => file'[i] = file[i]
  <1>1. \A i \in Inodes : file[i] \in Seq(Chunks) /\ << >> \in Seq(Chunks)
    BY EmptySeq DEF Shape
  <1> QED
    BY <1>1 DEF Kept

\* The rename gives the path to the file of the one process that wrote it,
\* or to a tainted one.
LEMMA RenameKeeps ==
    ASSUME IInv, NEW p \in Procs, Rename(p)
    PROVE  IInv'
  <1>1. /\ saver[p] \in Savers /\ saver[p].img \in Images /\ saver[p].pc = "rename"
        /\ saver[p].ino \in Inodes
    BY DEF IInv, Shape, Stage, Rename, Savers
  <1>2. /\ saver' = [saver EXCEPT ![p] = Resting]
        /\ answer' \in {"none", "OK", "error", "started"}
        /\ UNCHANGED <<db, up, loaded>>
    BY DEF Rename, Return, IInv, Shape
  <1>3. /\ file' \in [Inodes -> Seq(Chunks)]
        /\ \A i \in Inodes : i \in {tmp', path'} \/ (\E q \in Procs : saver'[q].ino = i)
                               => file'[i] = file[i]
    BY KeptIs DEF Rename, IInv
  <1>4. /\ saver'[p] = Resting /\ \A q \in Procs : q # p => saver'[q] = saver[q]
    BY <1>2 DEF IInv, Shape
  <1>5. CASE tmp = Nil
    <2>1. UNCHANGED <<tmp, path, tainted, published>>
      BY <1>5 DEF Rename
    <2>2. Standing'
      <3> SUFFICES ASSUME path # Nil, path \notin tainted PROVE Standing'
        BY <2>1 DEF Standing
      <3>1. \A q \in Procs : saver'[q].ino # path
        BY <1>4, RestingIs DEF IInv, Standing
      <3>2. file'[path] = file[path]
        BY <1>3, <2>1 DEF IInv, Shape
      <3> QED
        BY <2>1, <3>1, <3>2 DEF IInv, Standing
    <2>3. Names'
      BY <2>1 DEF IInv, Names
    <2> QED
      BY <1>2, <1>3, <2>1, <2>2, <2>3, LeavingKeeps DEF IInv, Shape
  <1>6. CASE tmp # Nil
    <2>1. /\ path' = tmp /\ tmp' = Nil /\ published' = saver[p].img
          /\ tainted' = IF tmp = saver[p].ino THEN tainted ELSE tainted \cup {tmp}
          /\ tmp \in Inodes
      BY <1>6 DEF Rename, IInv, Shape
    <2>2. Standing'
      <3> SUFFICES ASSUME path' \notin tainted' PROVE Standing'
        BY DEF Standing
      <3>1. tmp = saver[p].ino /\ tmp \notin tainted
        BY <2>1
      <3>2. /\ \A q \in Procs : saver[q].ino = tmp => q = p
            /\ file[tmp] = Whole(saver[p].img)
        BY <1>1, <3>1 DEF IInv, Writing
      <3>3. \A q \in Procs : saver'[q].ino # tmp
        BY <1>4, <1>6, <3>2, RestingIs
      <3>4. file'[tmp] = file[tmp]
        BY <1>3, <2>1
      <3> QED
        BY <2>1, <3>2, <3>3, <3>4 DEF Standing
    <2>3. Names'
      BY <2>1 DEF Names
    <2> QED
      BY <1>1, <1>2, <1>3, <2>1, <2>2, <2>3, LeavingKeeps DEF IInv, Shape
  <1> QED
    BY <1>5, <1>6

\* A killed process lets go of its file; the names stay.
LEMMA KillKeeps ==
    ASSUME IInv, NEW p \in Procs, Kill(p)
    PROVE  IInv'
  <1>1. /\ saver' = [saver EXCEPT ![p] = Resting]
        /\ UNCHANGED <<tmp, path, tainted, published>>
        /\ db' \in Images /\ up' \in BOOLEAN /\ loaded' \in {"nofile", "ok", "corrupt"}
        /\ answer' \in {"none", "OK", "error", "started"}
    BY DEF Kill, IInv, Shape, Empty, Images
  <1>2. /\ file' \in [Inodes -> Seq(Chunks)]
        /\ \A i \in Inodes : i \in {tmp', path'} \/ (\E q \in Procs : saver'[q].ino = i)
                               => file'[i] = file[i]
    BY KeptIs DEF Kill, IInv
  <1>3. /\ saver'[p] = Resting /\ \A q \in Procs : q # p => saver'[q] = saver[q]
    BY <1>1 DEF IInv, Shape
  <1>4. Standing'
    <2> SUFFICES ASSUME path # Nil, path \notin tainted PROVE Standing'
      BY <1>1 DEF Standing
    <2>1. \A q \in Procs : saver'[q].ino # path
      BY <1>3, RestingIs DEF IInv, Standing
    <2>2. file'[path] = file[path]
      BY <1>1, <1>2 DEF IInv, Shape
    <2> QED
      BY <1>1, <2>1, <2>2 DEF IInv, Standing
  <1>5. Names'
    BY <1>1 DEF IInv, Names
  <1> QED
    BY <1>1, <1>2, <1>4, <1>5, LeavingKeeps DEF IInv, Shape

\* A command, a fork or an fopen that fails touches no file that is open.
LEMMA StepIInv == IInv /\ [Next]_vars => IInv'
  <1> SUFFICES ASSUME IInv, [Next]_vars PROVE IInv'
    OBVIOUS
  <1>1. ASSUME UNCHANGED <<saver, disk, published>>, db' \in Images, up' \in BOOLEAN,
               loaded' \in {"nofile", "ok", "corrupt"},
               answer' \in {"none", "OK", "error", "started"}
        PROVE  IInv'
    BY <1>1 DEF IInv, Shape, Stage, Names, Writing, Standing, disk
  <1>2. ASSUME NEW k \in Keys, Del(k) PROVE IInv'
    <2>1. db' \in Images
      BY <1>2 DEF Del, IInv, Shape, Images
    <2> QED
      BY <1>1, <1>2, <2>1 DEF Del, IInv, Shape
  <1>3. ASSUME NEW k \in Keys, NEW v \in Vals, Put(k, v) PROVE IInv'
    <2>1. db' \in Images
      BY <1>3 DEF Put, IInv, Shape, Images
    <2> QED
      BY <1>1, <1>3, <2>1 DEF Put, IInv, Shape
  <1>4. ASSUME NEW p \in Procs, saver[p].pc = "none", Begin(p),
               UNCHANGED <<db, up, loaded, disk, published>>,
               answer' \in {"none", "started"}
        PROVE  IInv'
    <2>1. /\ saver' \in [Procs -> Savers]
          /\ saver'[p].pc = "open" /\ saver'[p].ino = Nil
          /\ saver'[p].out = << >> /\ saver'[p].left = << >>
          /\ \A q \in Procs : q # p => saver'[q] = saver[q]
      <3>1. PICK r : r = Resting
        OBVIOUS
      <3>2. PICK s : s = [r EXCEPT !.pc = "open", !.img = db]
        OBVIOUS
      <3>3. /\ s \in Savers /\ s.pc = "open" /\ s.ino = Nil /\ s.out = << >> /\ s.left = << >>
        BY <3>1, <3>2, RestingIs DEF Savers, IInv, Shape
      <3>4. saver' = [saver EXCEPT ![p] = s]
        BY <1>4, <3>1, <3>2 DEF Begin
      <3> QED
        BY <3>3, <3>4 DEF IInv, Shape
    <2>2. \A q \in Procs : saver'[q].ino = saver[q].ino
      BY <1>4, <2>1 DEF IInv, Shape, Stage
    <2>3. ASSUME NEW q \in Procs PROVE Stage(q)' /\ Writing(q)'
      <3>1. CASE q = p
        BY <2>1, <3>1, NilIsNothing DEF Stage, Writing
      <3>2. CASE q # p
        <4>1. saver'[q] = saver[q] /\ UNCHANGED <<file, tainted>> /\ Stage(q) /\ Writing(q)
          BY <1>4, <2>1, <3>2 DEF disk, IInv, Shape
        <4> QED
          BY <2>2, <4>1 DEF Stage, Writing
      <3> QED
        BY <3>1, <3>2
    <2>4. Shape' /\ Names' /\ Standing'
      BY <1>4, <2>1, <2>2, <2>3 DEF IInv, Shape, Names, Standing, disk
    <2> QED
      BY <2>3, <2>4 DEF IInv
  <1>5. CASE Save
    <2>1. "server" \in Procs
      BY DEF Procs
    <2> QED
      BY <1>4, <1>5, <2>1 DEF Save, Serving
  <1>6. ASSUME NEW c \in Children, BgSave(c) PROVE IInv'
    <2>1. c \in Procs
      BY DEF Procs
    <2> QED
      BY <1>4, <1>6, <2>1 DEF BgSave
  <1>7. CASE BgSaveForkFails
    BY <1>1, <1>7 DEF BgSaveForkFails, IInv, Shape
  <1>8. CASE Start
    <2>1. db' \in Images
      <3>1. CASE path = Nil
        BY <1>8, <3>1 DEF Start, Empty, Images
      <3>2. CASE path # Nil
        <4>1. file[path] \in Seq(Chunks)
          BY <3>2 DEF IInv, Shape
        <4> QED
          BY <1>8, <3>2, <4>1, LoadsAnImage DEF Start
      <3> QED
        BY <3>1, <3>2
    <2>2. loaded' \in {"nofile", "ok", "corrupt"}
      BY <1>8 DEF Start
    <2> QED
      BY <1>1, <1>8, <2>1, <2>2 DEF Start
  <1>9. ASSUME NEW p \in Procs, RdbSave(p) PROVE IInv'
    <2>1. CASE OpenFails(p)
      <3>1. /\ saver' = [saver EXCEPT ![p] = Resting]
            /\ UNCHANGED <<db, up, loaded, file, tmp, path, tainted, published>>
            /\ answer' \in {"none", "OK", "error", "started"}
        BY <2>1 DEF OpenFails, Return, disk, IInv, Shape
      <3>2. \A q \in Procs : saver'[q].ino \in {saver[q].ino, Nil}
        BY <3>1, RestingIs DEF IInv, Shape
      <3>3. Names' /\ Standing'
        BY <3>1, <3>2 DEF IInv, Names, Standing
      <3> QED
        BY <3>1, <3>3, LeavingKeeps DEF IInv, Shape
    <2> QED
      BY <1>9, <2>1, OpenKeeps, WriteKeeps, WriteFailsKeeps, RenameKeeps DEF RdbSave
  <1>10. ASSUME NEW p \in Procs, Kill(p) PROVE IInv'
    BY <1>10, KillKeeps
  <1>11. CASE UNCHANGED vars
    BY <1>1, <1>11 DEF vars, disk, IInv, Shape
  <1> QED
    BY <1>2, <1>3, <1>5, <1>6, <1>7, <1>8, <1>9, <1>10, <1>11 DEF Next

\* What a start finds under the path, if nothing tainted it.
LEMMA StandingIsLoaded ==
    ASSUME IInv, path # Nil, path \notin tainted
    PROVE  LoadOK(file[path]) /\ DbOf(file[path]) = published
  <1>1. file[path] = Whole(published) /\ published \in Images
    BY DEF IInv, Standing, Shape
  <1> QED
    BY <1>1, WholeIsLoaded

-----------------------------------------------------------------------------
(* Theorems *)

\* Whatever is killed, torn or mixed, the dictionary that is loaded is one
\* (rdb.cpp:223-333), and who writes or renames has a file open (rdb.cpp:184-221).
THEOREM TypeCorrect == Spec => []TypeOK
  <1>1. IInv => TypeOK
    BY NilIsNothing DEF IInv, Shape, Stage, Savers, TypeOK
  <1> QED
    BY <1>1, InitIInv, StepIInv, PTL DEF Spec

\* The file under the path is the whole snapshot that was last published, if
\* one process alone opened, wrote and renamed it and no write of it failed
\* (rdb.cpp:184-221), for any number of processes, saves, kills and failures.
THEOREM PublishedStaysWhole == Spec => []PublishedIsWhole
  <1>1. IInv => PublishedIsWhole
    BY StandingIsLoaded DEF PublishedIsWhole
  <1> QED
    BY <1>1, InitIInv, StepIInv, PTL DEF Spec

\* A start loads exactly the dictionary of the save that published last
\* (rdb.cpp:223-333, main.cpp:45-57).
THEOREM RestartBringsBack == Spec => RestartRestores
  <1>1. IInv => Restored
    BY StandingIsLoaded DEF Restored, Start
  <1> QED
    BY <1>1, InitIInv, StepIInv, PTL DEF Spec, RestartRestores
=============================================================================
