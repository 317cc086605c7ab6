--------------------------- MODULE TwoThreadProofs ---------------------------
(***************************************************************************)
(* The thread of the event loop and the thread of the sweep racing in the  *)
(* dictionary: an answered SET stays in every bucket of keys that EXPIRE   *)
(* was never used on (DamageStays).                                        *)
(*                                                                         *)
(* A class is a bucket of the first table.  The sweep may break every      *)
(* bucket of a class that has deadlines, but pointers never lead from one  *)
(* class to another, and what the sweep has in hand is of a class with     *)
(* deadlines (Apart).  So the other classes are, at every program counter  *)
(* of main, what Solo of SweepRaceProofs says of the whole table (Kept).   *)
(* The inductive invariant is Duo: Apart, and Kept of every clean class.   *)
(***************************************************************************)
EXTENDS SweepRaceProofs

-----------------------------------------------------------------------------
(* Remainders *)

LEMMA RemIs ==
    ASSUME NEW a \in Nat, NEW m \in Nat \ {0}
    PROVE  a % m \in 0 .. m - 1 /\ \E q \in Int : a = q * m + (a % m)
<1>1. a % m \in 0 .. m - 1
    OBVIOUS
<1>2. a = (a \div m) * m + (a % m) /\ a \div m \in Int
    OBVIOUS
<1> QED
    BY <1>1, <1>2

\* A quotient and a remainder are the only ones.
LEMMA RemOnly ==
    ASSUME NEW m \in Nat \ {0}, NEW p \in Int, NEW q \in Int,
           NEW r \in 0 .. m - 1, NEW s \in 0 .. m - 1, p * m + r = q * m + s
    PROVE  r = s
<1>1. PICK d \in Int : d = p - q
    OBVIOUS
<1>2. d * m = s - r /\ s - r < m /\ r - s < m
    BY <1>1
<1>3. CASE d = 0
    BY <1>2, <1>3
<1>4. CASE d >= 1
    <2>1. d * m >= 1 * m
        BY <1>4
    <2> QED
        BY <2>1, <1>2
<1>5. CASE d <= -1
    <2>1. d * m <= (-1) * m
        BY <1>5
    <2> QED
        BY <2>1, <1>2
<1> QED
    BY <1>3, <1>4, <1>5

\* A larger table refines a smaller one.
LEMMA RemOfRem ==
    ASSUME NEW a \in Nat, NEW m \in Nat \ {0}, NEW k \in Nat \ {0},
           NEW n \in Nat \ {0}, n = k * m
    PROVE  (a % n) % m = a % m
<1>1. PICK b \in Nat : b = a % n
    OBVIOUS
<1>2. PICK q \in Int : a = q * n + b
    BY <1>1, RemIs
<1>3. PICK p \in Int : b = p * m + (b % m)
    BY RemIs
<1>4. PICK u \in Int : a = u * m + (a % m)
    BY RemIs
<1>5. q * n = (q * k) * m
    OBVIOUS
<1>6. a = (q * k + p) * m + (b % m)
    BY <1>2, <1>3, <1>5
<1>7. q * k + p \in Int /\ b % m \in 0 .. m - 1 /\ a % m \in 0 .. m - 1
    BY RemIs
<1>8. a % m = b % m
    BY <1>4, <1>6, <1>7, RemOnly
<1> QED
    BY <1>1, <1>8

-----------------------------------------------------------------------------
(* Classes *)

\* The bucket of the first table, counted from 0: of a key and of a place.
Class(k) == Hash[k] % InitialSize
ClassAt(p) == IF p \in Entries THEN Class(keyOf[p]) ELSE (p[2] - 1) % InitialSize
Classes == 0 .. InitialSize - 1

\* The entries S and the buckets a to b of the table t that are of class c.
Of(c, S) == {e \in S : Class(keyOf[e]) = c}
SlotsOf(c, t, a, b) == {<<t, i>> : i \in {j \in a .. b : (j - 1) % InitialSize = c}}

\* The table's size is a multiple of the first one's.
Multiple(n) == \E m \in 1 .. n : n = m * InitialSize

LEMMA ClassIs ==
    ASSUME NEW k \in Keys, NEW n \in Nat \ {0}, Multiple(n)
    PROVE  (BucketOf(k, n) - 1) % InitialSize = Class(k) /\ Class(k) \in Classes
<1>1. Hash[k] \in Nat /\ InitialSize \in Nat \ {0}
    BY Sizes
<1>2. PICK m \in 1 .. n : n = m * InitialSize
    BY DEF Multiple
<1>3. (Hash[k] % n) % InitialSize = Hash[k] % InitialSize
    BY <1>1, <1>2, RemOfRem
<1>4. BucketOf(k, n) - 1 = Hash[k] % n
    <2>1. Hash[k] % n \in Int
        BY <1>1
    <2> QED
        BY <2>1 DEF BucketOf
<1>5. Class(k) \in Classes
    BY <1>1 DEF Class, Classes
<1> QED
    BY <1>3, <1>4, <1>5 DEF Class

LEMMA Doubled ==
    ASSUME NEW n \in Nat \ {0}, Multiple(n)
    PROVE  Multiple(2 * n)
<1>1. PICK m \in 1 .. n : n = m * InitialSize
    BY DEF Multiple
<1>2. 2 * n = (2 * m) * InitialSize
    BY <1>1, Sizes
<1>3. 2 * m \in 1 .. 2 * n
    BY <1>1
<1> QED
    BY <1>2, <1>3 DEF Multiple

LEMMA SlotsOfAre ==
    ASSUME NEW c, NEW t \in Tables, NEW a \in Nat \ {0}, NEW b \in Nat, b <= MaxSize
    PROVE  /\ SlotsOf(c, t, a, b) \subseteq Places
           /\ SlotsOf(c, t, a, b) \cap Entries = {}
           /\ \A p \in SlotsOf(c, t, a, b) : ClassAt(p) = c /\ p[1] = t /\ p[2] \in a .. b
           /\ \A i \in a .. b : (i - 1) % InitialSize = c => <<t, i>> \in SlotsOf(c, t, a, b)
           /\ \A i \in a .. b : <<t, i>> \in Places \ Entries
<1>1. \A i \in a .. b : <<t, i>> \in Places \ Entries
    <2>1. \A i \in a .. b : i \in 1 .. MaxSize
        BY Sizes
    <2> QED
        BY <2>1, CellsAreDistinct DEF Places
<1>2. \A p \in SlotsOf(c, t, a, b) : \E i \in a .. b : p = <<t, i>> /\ (i - 1) % InitialSize = c
    BY DEF SlotsOf
<1>3. \A i \in a .. b : (i - 1) % InitialSize = c => <<t, i>> \in SlotsOf(c, t, a, b)
    BY DEF SlotsOf
<1>4. \A p \in SlotsOf(c, t, a, b) : ClassAt(p) = c /\ p[1] = t /\ p[2] \in a .. b
    BY <1>1, <1>2 DEF ClassAt
<1> QED
    BY <1>1, <1>2, <1>3, <1>4

\* The entries M are those in the buckets P of a table of n, each in its key's.
Fits(lk, ky, n, P, M) ==
    /\ \A p \in P : lk[p] # Nil => lk[p] \in M /\ BucketOf(ky[lk[p]], n) = p[2]
    /\ \A d \in M : lk[d] # Nil => lk[d] \in M /\ BucketOf(ky[lk[d]], n) = BucketOf(ky[d], n)

\* Unlinking and pushing keep the others in the buckets of their keys.
LEMMA UnlinkFits ==
    ASSUME NEW lk, NEW ky, NEW n, NEW P, NEW H, Fits(lk, ky, n, P, H),
           Tree(lk, H, P, Nil), Nil \notin H, P \cap H = {}, P \cup H \subseteq DOMAIN lk,
           NEW p \in P \cup H, NEW e \in H, lk[p] = e
    PROVE  Fits([lk EXCEPT ![p] = lk[e]], ky, n, P, H \ {e})
<1>1. PICK l : l = [lk EXCEPT ![p] = lk[e]]
    OBVIOUS
<1>2. l[p] = lk[e] /\ \A q \in P \cup H : q # p => l[q] = lk[q]
    BY <1>1
<1>3. lk[e] # e
    BY NoLoop
<1>4. \A q \in P \cup H : q # p => lk[q] # e
    BY <1>3 DEF Tree
<1>5. ASSUME NEW q \in P, l[q] # Nil
      PROVE  l[q] \in H \ {e} /\ BucketOf(ky[l[q]], n) = q[2]
    <2>1. CASE q = p
        BY <1>2, <1>3, <1>5, <2>1 DEF Fits
    <2>2. CASE q # p
        BY <1>2, <1>4, <1>5, <2>2 DEF Fits
    <2> QED
        BY <2>1, <2>2
<1>6. ASSUME NEW d \in H \ {e}, l[d] # Nil
      PROVE  l[d] \in H \ {e} /\ BucketOf(ky[l[d]], n) = BucketOf(ky[d], n)
    <2>1. CASE d = p
        BY <1>2, <1>3, <1>6, <2>1 DEF Fits
    <2>2. CASE d # p
        BY <1>2, <1>4, <1>6, <2>2 DEF Fits
    <2> QED
        BY <2>1, <2>2
<1> QED
    BY <1>1, <1>5, <1>6 DEF Fits

LEMMA PushFits ==
    ASSUME NEW lk, NEW ky, NEW n, NEW P, NEW H, Fits(lk, ky, n, P, H), Nil \notin H,
           P \cap H = {}, P \cup H \subseteq DOMAIN lk,
           NEW s \in P, NEW e, e \notin H \cup P \cup {Nil},
           lk[e] = lk[s], BucketOf(ky[e], n) = s[2]
    PROVE  Fits([lk EXCEPT ![s] = e], ky, n, P, H \cup {e})
<1>1. PICK l : l = [lk EXCEPT ![s] = e]
    OBVIOUS
<1>2. l[s] = e /\ l[e] = lk[e] /\ \A q \in P \cup H : q # s => l[q] = lk[q]
    BY <1>1
<1>3. ASSUME NEW q \in P, l[q] # Nil
      PROVE  l[q] \in H \cup {e} /\ BucketOf(ky[l[q]], n) = q[2]
    BY <1>2, <1>3 DEF Fits
<1>4. ASSUME NEW d \in H \cup {e}, l[d] # Nil
      PROVE  l[d] \in H \cup {e} /\ BucketOf(ky[l[d]], n) = BucketOf(ky[d], n)
    <2>1. CASE d = e
        BY <1>2, <1>4, <2>1 DEF Fits
    <2>2. CASE d # e
        BY <1>2, <1>4, <2>2 DEF Fits
    <2> QED
        BY <2>1, <2>2
<1> QED
    BY <1>1, <1>3, <1>4 DEF Fits

LEMMA SameFits ==
    ASSUME NEW lk, NEW ky, NEW n, NEW P, NEW M, Fits(lk, ky, n, P, M),
           NEW l, NEW y, \A p \in P \cup M : l[p] = lk[p], \A e \in M : y[e] = ky[e]
    PROVE  Fits(l, y, n, P, M)
BY DEF Fits

\* A walk for a key of class c passes linked entries of the class only, and finds
\* every one of them by its key.
LEMMA WalkMeetsOf ==
    ASSUME Heap, Fields, Multiple(size), NEW c, NEW H, H \subseteq Entries,
           Tree(link, H, SlotsOf(c, buckets, 1, size), Nil),
           Fits(link, keyOf, size, SlotsOf(c, buckets, 1, size), H),
           \A d, e \in H : keyOf[d] = keyOf[e] => d = e,
           NEW k \in Keys, Class(k) = c
    PROVE  /\ Visited(k) \subseteq H
           /\ Find(k) # Nil => /\ Find(k) \in H /\ keyOf[Find(k)] = k
                               /\ PrevOf(k) \in SlotsOf(c, buckets, 1, size) \cup H
                               /\ link[PrevOf(k)] = Find(k)
           /\ \A e \in H : keyOf[e] = k => Find(k) = e
<1> DEFINE V == Visited(k)
           P == SlotsOf(c, buckets, 1, size)
           b == BucketOf(k, size)
<1>1. /\ b \in 1 .. size /\ Bucket(k) = <<buckets, b>> /\ Bucket(k) \in P
      /\ \A p \in P : p[2] = b => p = Bucket(k)
    <2>1. b \in 1 .. size /\ (b - 1) % InitialSize = c
        BY ClassIs, BucketOfIs DEF Fields
    <2> QED
        BY <2>1 DEF Bucket, SlotsOf
<1>2. /\ Leads(Bucket(k), V)
      /\ \A e \in V : keyOf[e] = k \/ Leads(e, V)
    BY VisitedIsLeast
<1> HIDE DEF b, P
<1>3. V \subseteq H
    <2>1. Leads(Bucket(k), H) /\ \A e \in H : Leads(e, H)
        BY <1>1 DEF Tree, Leads, P
    <2> QED
        BY <2>1, VisitedIsLeast
<1>4. ASSUME NEW e \in H, keyOf[e] = k, e \notin V PROVE FALSE
    <2>1. PICK T : T = {x \in H : BucketOf(keyOf[x], size) # b \/ x \in V}
        OBVIOUS
    <2>2. ASSUME NEW p \in P PROVE link[p] \in T \cup {Nil}
        <3>1. CASE p[2] = b
            BY <1>1, <1>2, <1>3, <2>1, <3>1 DEF Leads
        <3>2. CASE p[2] # b
            BY <2>1, <3>2 DEF Fits, P
        <3> QED
            BY <3>1, <3>2
    <2>3. ASSUME NEW x \in T PROVE link[x] \in T \cup {Nil}
        <3>1. CASE x \in V
            <4>1. keyOf[x] # k
                BY <1>3, <1>4, <3>1
            <4> QED
                BY <1>2, <1>3, <2>1, <3>1, <4>1 DEF Leads
        <3>2. CASE x \notin V
            BY <2>1, <2>3, <3>2 DEF Fits
        <3> QED
            BY <3>1, <3>2
    <2>4. H \subseteq T
        BY <2>1, <2>2, <2>3, Met DEF P
    <2>5. BucketOf(keyOf[e], size) = b
        BY <1>4 DEF b
    <2> QED
        BY <1>4, <2>1, <2>4, <2>5
<1>5. Find(k) # Nil => Find(k) \in V /\ keyOf[Find(k)] = k
    BY FindIs
<1>6. Find(k) # Nil => PrevOf(k) \in {Bucket(k)} \cup V /\ link[PrevOf(k)] = Find(k)
    BY FindIs
<1>7. ASSUME NEW e \in H, keyOf[e] = k PROVE Find(k) = e
    <2>1. e \in V
        BY <1>4, <1>7
    <2>2. Find(k) # Nil
        BY <2>1, <1>7, FindIs
    <2> QED
        BY <1>3, <1>5, <1>7, <2>2
<1> QED
    BY <1>1, <1>3, <1>5, <1>6, <1>7 DEF P

-----------------------------------------------------------------------------
(* What the two threads leave alone *)

\* The entries malloc has handed out, freed or not.
Held == Entries \cap allocated

\* Where SET has made its object and given it to no entry yet.
BeforePcs == {"set_size", "set_find", "set_free", "set_val", "set_new"} \cup GrowPcs

\* Every pointer stays in its class, every object has one entry, and a deadline
\* is that of a key EXPIRE was used on.
Parting ==
    /\ Multiple(size)
    /\ \A p \in Places : link[p] # Nil /\ p \in allocated \cup (Places \ Entries)
                            => ClassAt(link[p]) = ClassAt(p)
    /\ \A d, e \in Held : val[d] = val[e] => d = e
    /\ \A e \in Held : exp[val[e]] # 0 => keyOf[e] \in ttled
    /\ \A o \in Objects \ allocated : exp[o] = 0
    /\ \A t \in Tables \ allocated : \A i \in 1 .. MaxSize : link[<<t, i>>] = Nil
    /\ \A i \in 1 .. Len(todo) : todo[i] \in ttled

\* In dict_del a thread has in hand what is of its key's class.
Deleting(r) ==
    /\ r.pc \in {"del_unlink", "del_free"} => keyOf[r.ent] = r.key
    /\ r.pc = "del_unlink" => /\ r.prev \in Places /\ Cell(r.prev) \in allocated
                              /\ ClassAt(r.prev) = Class(r.key)

\* What main has in hand, whatever the class.
InMainHand(r) ==
    /\ Deleting(r)
    /\ r.pc = "chk_exp" /\ exp[r.obj] # 0 => r.key \in ttled
    /\ r.pc \in {"set_free", "set_val", "set_link"} => keyOf[r.ent] = r.key
    /\ r.pc = "grow_move" /\ r.next # Nil => ClassAt(r.next) = ClassAt(r.ent)
    /\ r.pc \in {"exp_find", "exp_write"} => r.key \in ttled
    /\ r.pc = "exp_write" => \A e \in Held : val[e] = r.obj => keyOf[e] = r.key
    /\ r.pc \in BeforePcs => exp[r.obj] = 0 /\ \A e \in Held : val[e] # r.obj

\* The sweep works on keys EXPIRE was used on, and on no others.
InSweepHand(r) == Deleting(r) /\ (r.pc \in CheckPcs => r.key \in ttled)

Apart == Parting /\ InMainHand(main) /\ InSweepHand(sweep)

-----------------------------------------------------------------------------
(* A class without deadlines *)

Clean(c) == \A j \in Keys : Class(j) = c => j \notin ttled

\* The entry the loop of dict_resize or ~Dict is at, if it is of class c.
Walked(c, r) == IF r.ent # Nil /\ Class(keyOf[r.ent]) = c THEN r.ent ELSE Nil

\* The table t of n buckets is sound where it is of class c.
HangsIn(c, t, n) ==
    /\ Tree(link, Of(c, Hanging), SlotsOf(c, t, 1, n), Nil)
    /\ Fits(link, keyOf, n, SlotsOf(c, t, 1, n), Of(c, Hanging))

\* While the table grows the entries M are in the new one, as in Parted.
Halved(c, M) ==
    /\ Fits(link, keyOf, 2 * size, SlotsOf(c, main.tab, 1, 2 * size), M)
    /\ Walked(c, main) \notin M
    /\ \A p \in SlotsOf(c, buckets, main.n + 1, size) \cup (Of(c, Hanging) \ M) :
          link[p] \notin M

\* Where the entries of class c hang, at each program counter of main.
Shape(c) ==
    /\ main.pc \in SteadyPcs => HangsIn(c, buckets, size)
    /\ main.pc \in {"grow", "grow_move"} =>
          /\ Tree(link, Of(c, Hanging), SlotsOf(c, main.tab, 1, 2 * size)
                                        \cup SlotsOf(c, buckets, main.n + 1, size),
                  Walked(c, main))
          /\ \E M \in SUBSET Of(c, Hanging) : Halved(c, M)
    /\ main.pc \in {"grow_free", "grow_table"} => HangsIn(c, main.tab, 2 * size)
    /\ main.pc = "grow_size" => HangsIn(c, buckets, 2 * size)
    /\ main.pc = "flush" =>
          Tree(link, Of(c, Hanging), SlotsOf(c, buckets, main.n + 1, size), Walked(c, main))
    /\ main.pc \in {"flush_free", "flush_new"} => Of(c, Hanging) = {}
    /\ \A d, e \in Of(c, Live) : keyOf[d] = keyOf[e] => d = e

\* The key k has an entry with the object o, and both are in use.
Served(k, o) == \E e \in Live : keyOf[e] = k /\ val[e] = o /\ o \notin freed

PlacedPcs == {"set_link", "set_load", "set_store", "set_ack"}

\* What main has in hand for a key of class c.
HandFor(c, r) ==
    /\ r.pc \in DelPcs \cup SetPcs => acked[r.key] = Nil
    /\ r.pc = "del_unlink" => /\ r.ent \in Of(c, Hanging)
                              /\ r.prev \in SlotsOf(c, buckets, 1, size) \cup Of(c, Hanging)
                              /\ link[r.prev] = r.ent
    /\ r.pc = "set_new" => \A e \in Of(c, Live) : keyOf[e] # r.key
    /\ r.pc \in {"set_free", "set_val"} => r.ent \in Live
    /\ r.pc = "set_link" => r.ent \in Live /\ link[r.ent] = link[Bucket(r.key)]
    /\ r.pc \in BeforePcs => r.obj \notin freed
    /\ r.pc \in PlacedPcs => Served(r.key, r.obj)

\* ... and where it goes through the whole table.
Hand(c, r) ==
    /\ r.pc \in {"grow", "grow_move", "grow_free", "grow_table"} => r.tab # buckets
    /\ r.pc = "grow_move" /\ Walked(c, r) # Nil => r.next = link[r.ent]
    /\ r.pc \in FlushPcs => \A k \in Keys : acked[k] = Nil
    /\ r.pc \in DelPcs \cup SetPcs /\ Class(r.key) = c => HandFor(c, r)

\* Every answered SET of the class has its entry.
Promise(c) == \A k \in Keys : Class(k) = c /\ acked[k] # Nil => Served(k, acked[k])

Kept(c) == Shape(c) /\ Hand(c, main) /\ Promise(c)

\* The inductive invariant of the two threads.
Duo == /\ acked \in [Keys -> Objects \cup {Nil}]
       /\ Apart
       /\ \A c \in Classes : Clean(c) => Kept(c)

-----------------------------------------------------------------------------
(* Lemmas *)

\* Where the table stands and nothing is aside.
CalmPcs == SteadyPcs \ {"set_link", "del_free"}

LEMMA CalmPcsAre ==
    CalmPcs = {"idle", "chk_find", "chk_exp", "del_find", "del_unlink", "chk_done",
               "get_find", "get_read", "exp_find", "exp_write", "set_size", "set_find",
               "set_free", "set_new", "set_ack", "del_load", "del_store",
               "set_load", "set_store", "set_val"}
BY DEF CalmPcs, SteadyPcs, MainPcs, CheckPcs, SetPcs, ReadPcs, GrowPcs, FlushPcs

LEMMA LiveIs ==
    ASSUME TypeInv
    PROVE  /\ Live \subseteq Held /\ Held \subseteq Entries /\ Held \subseteq allocated
           /\ Live \cap freed = {} /\ Hanging \subseteq Live /\ Nil \notin Entries
           /\ Nil \notin Objects /\ Nil \notin Keys
           /\ Entries \subseteq Places /\ DOMAIN link = Places
           /\ Entries \cap Objects = {}
           /\ \A e \in Held : val[e] \in Objects /\ val[e] \in allocated /\ keyOf[e] \in Keys
           /\ size \in Nat \ {0} /\ size <= MaxSize /\ buckets \in Tables
           /\ buckets \in allocated
<1>1. Live \subseteq Held /\ Held \subseteq Entries /\ Held \subseteq allocated
    BY DEF Live, Held
<1>2. Live \cap freed = {} /\ Hanging \subseteq Live
    BY DEF Live, Hanging
<1>3. Nil \notin Entries /\ Nil \notin Objects /\ Nil \notin Keys /\ Entries \cap Objects = {}
    BY CellsAreDistinct DEF Cells
<1>4. Entries \subseteq Places /\ DOMAIN link = Places
    BY DEF Places, TypeInv, Heap
<1>5. \A e \in Held : val[e] \in Objects /\ val[e] \in allocated /\ keyOf[e] \in Keys
    BY DEF TypeInv, Heap, Held
<1>6. size \in Nat \ {0} /\ size <= MaxSize /\ buckets \in Tables /\ buckets \in allocated
    BY Sizes DEF TypeInv, Fields
<1> QED
    BY <1>1, <1>2, <1>3, <1>4, <1>5, <1>6

\* Pcs of main whose hands are empty.
LEMMA NoMainHand ==
    ASSUME main'.pc \in {"idle", "chk_find", "chk_done", "del_find", "del_load", "del_store",
                      "get_find", "get_read", "set_load", "set_store", "set_ack"} \cup FlushPcs
    PROVE  InMainHand(main)'
BY DEF InMainHand, Deleting, BeforePcs, GrowPcs, FlushPcs

LEMMA NoHand ==
    ASSUME main'.pc \in {"idle", "chk_find", "chk_exp", "chk_done", "get_find", "get_read",
                         "exp_find", "exp_write"}
    PROVE  \A c : Hand(c, main)'
BY DEF Hand, DelPcs, SetPcs, FlushPcs, GrowPcs

\* Nothing but the locals of the other thread changes.
LEMMA SweepHandStays ==
    ASSUME Apart, TypeInv, sweep' = sweep, allocated \subseteq allocated', ttled \subseteq ttled',
           \A p \in Held : keyOf'[p] = keyOf[p]
    PROVE  InSweepHand(sweep)'
<1>1. sweep \in Locals /\ InCheck(sweep) /\ sweep.ent \in allocated \cup {Nil}
    BY DEF TypeInv, Running, Sane, Threads, sweep
<1>2. sweep.pc \in {"del_unlink", "del_free"} => sweep.ent \in Held
    BY <1>1, LiveIs DEF Locals, InCheck, CheckPcs, Held
<1>3. sweep.pc = "del_unlink" => ClassAt(sweep.prev)' = ClassAt(sweep.prev)
    BY DEF Apart, InSweepHand, Deleting, ClassAt, Held, Cell
<1> QED
    BY <1>1, <1>2, <1>3 DEF Apart, InSweepHand, Deleting

LEMMA MainHandStays ==
    ASSUME Apart, main' = main, UNCHANGED <<keyOf, val, exp, allocated, ttled>>
    PROVE  InMainHand(main)'
BY DEF Apart, InMainHand, Deleting, ClassAt, Held, Places

\* The memory as it was, but for objects, tables and dictionaries handed out.
LEMMA PartingStays ==
    ASSUME Apart, UNCHANGED <<link, keyOf, val, exp, size>>, Held' = Held,
           allocated \subseteq allocated', ttled \subseteq ttled',
           \A i \in 1 .. Len(todo') : todo'[i] \in ttled'
    PROVE  Parting'
<1>1. \A p \in Places : ClassAt(p)' = ClassAt(p)
    BY DEF ClassAt
<1>2. \A e \in Entries : e \in allocated' <=> e \in allocated
    BY DEF Held
<1>3. \A p \in Places : link'[p] # Nil /\ p \in allocated' \cup (Places \ Entries)
                            => ClassAt(link[p])' = ClassAt(p)'
    BY <1>2 DEF ClassAt, Apart, Parting
<1>4. \A o \in Objects \ allocated' : exp'[o] = 0
    BY DEF Apart, Parting
<1>5. \A t \in Tables \ allocated' : \A i \in 1 .. MaxSize : link'[<<t, i>>] = Nil
    BY DEF Apart, Parting
<1>6. \A e \in Held : exp[val[e]] # 0 => keyOf[e] \in ttled'
    BY DEF Apart, Parting
<1> QED
    BY <1>3, <1>4, <1>5, <1>6 DEF Apart, Parting, Multiple

\* A promise is kept if the class's entries and objects are.
LEMMA PromiseStays ==
    ASSUME NEW c, Promise(c), \A k \in Keys : acked'[k] \in {acked[k], Nil},
           \A e \in Of(c, Live) : val[e] \notin freed /\ acked'[keyOf[e]] = val[e] =>
               e \in Live' /\ keyOf'[e] = keyOf[e] /\ val'[e] = val[e] /\ val[e] \notin freed'
    PROVE  Promise(c)'
<1> SUFFICES ASSUME NEW k \in Keys, Class(k) = c, acked'[k] # Nil
             PROVE  Served(k, acked[k])'
    BY DEF Promise, Class
<1>1. acked'[k] = acked[k]
    OBVIOUS
<1>2. PICK e \in Live : keyOf[e] = k /\ val[e] = acked[k] /\ acked[k] \notin freed
    BY <1>1 DEF Promise, Served
<1>3. e \in Of(c, Live)
    BY <1>2 DEF Of
<1> QED
    BY <1>1, <1>2, <1>3 DEF Served

\* The shape of a class that nothing touches.
LEMMA ShapeStays ==
    ASSUME TypeInv, NEW c, Kept(c), UNCHANGED <<link, keyOf, buckets, size>>, Live' = Live,
           main.pc \in CalmPcs, main'.pc \in CalmPcs
    PROVE  Shape(c)'
<1>1. /\ main.pc \in SteadyPcs /\ main'.pc \in SteadyPcs
      /\ Aside = {} /\ Aside' = {} /\ Hanging' = Hanging
    BY DEF CalmPcs, Aside, Hanging
<1>2. main'.pc \notin GrowPcs \cup FlushPcs
    BY <1>1 DEF SteadyPcs
<1>3. Of(c, Hanging)' = Of(c, Hanging) /\ Of(c, Live)' = Of(c, Live)
    BY <1>1 DEF Of, Class
<1>4. HangsIn(c, buckets, size)'
    BY <1>1, <1>3 DEF Kept, Shape, HangsIn
<1>5. \A d, e \in Of(c, Live)' : keyOf'[d] = keyOf'[e] => d = e
    BY <1>3 DEF Kept, Shape
<1> QED
    BY <1>2, <1>4, <1>5 DEF Shape, GrowPcs, FlushPcs

\* Steps of main after which the table and the memory are as they were.
LEMMA CalmStep ==
    ASSUME TypeInv, Duo, UNCHANGED <<link, keyOf, val, exp, freed, buckets, size, todo>>,
           sweep' = sweep, Held' = Held, allocated \subseteq allocated', ttled \subseteq ttled',
           acked' \in [Keys -> Objects \cup {Nil}],
           \A k \in Keys : acked'[k] \in {acked[k], Nil},
           main.pc \in CalmPcs, main'.pc \in CalmPcs, InMainHand(main)',
           \A c \in Classes : Clean(c) /\ Kept(c) /\ Clean(c)' => Hand(c, main)'
    PROVE  Duo'
<1>1. Apart'
    <2>1. Parting'
        BY PartingStays DEF Duo, Apart, Parting
    <2>2. InSweepHand(sweep)'
        BY SweepHandStays DEF Duo
    <2> QED
        BY <2>1, <2>2 DEF Apart
<1>2. Live' = Live
    BY DEF Live, Held
<1>3. ASSUME NEW c \in Classes, Clean(c)' PROVE Kept(c)'
    <2>1. Clean(c) /\ Kept(c)
        BY <1>3 DEF Clean, Class, Duo
    <2>2. Shape(c)'
        BY <1>2, <2>1, ShapeStays
    <2>3. Promise(c)'
        <3>1. \A e \in Of(c, Live) : e \in Live'
            BY <1>2 DEF Of
        <3>2. Promise(c)
            BY <2>1 DEF Kept
        <3> QED
            BY <3>1, <3>2, PromiseStays
    <2> QED
        BY <1>3, <2>1, <2>2, <2>3 DEF Kept
<1> QED
    BY <1>1, <1>3 DEF Duo

\* Freed memory was touched, or another variable changes.
LEMMA DuoSame ==
    ASSUME TypeInv, Duo, UNCHANGED <<heap, th, todo, ghost>>
    PROVE  Duo'
<1>1. UNCHANGED <<link, keyOf, val, exp, allocated, freed, g_dict, buckets, size, count,
                  th, todo, acked, ttled>> /\ main' = main /\ sweep' = sweep
    BY DEF heap, shape, memory, dict, fields, ghost, main, sweep
<1>2. Apart'
    BY <1>1 DEF Duo, Apart, Parting, Multiple, InMainHand, InSweepHand, Deleting, ClassAt, Held,
       Class
<1>3. \A c \in Classes : Clean(c)' = Clean(c) /\ Kept(c)' = Kept(c)
    BY <1>1 DEF Clean, Kept, Shape, Hand, HandFor, Promise, HangsIn, Halved, Walked, Of, Live,
       Aside, Hanging, Served, Bucket, Class
<1> QED
    BY <1>1, <1>2, <1>3 DEF Duo

-----------------------------------------------------------------------------
(* Where a step takes its thread *)

LEMMA BecomeMain ==
    ASSUME TypeInv, NEW r, Become("main", r)
    PROVE  main' = r /\ sweep' = sweep
BY MainGoesOn DEF TypeInv, Become

LEMMA BecomeSweep ==
    ASSUME TypeInv, NEW r, Become("sweep", r)
    PROVE  sweep' = r /\ main' = main
BY DEF TypeInv, Running, Threads, Become, main, sweep

LEMMA GoMain ==
    ASSUME TypeInv, NEW pc, Go("main", pc)
    PROVE  /\ main'.pc = pc /\ main'.key = main.key /\ main'.ent = main.ent
           /\ main'.prev = main.prev /\ main'.next = main.next /\ main'.obj = main.obj
           /\ main'.tab = main.tab /\ main'.n = main.n
           /\ sweep' = sweep
<1>1. PICK r : r = [main EXCEPT !.pc = pc]
    OBVIOUS
<1>2. main \in Locals
    BY MainIs DEF TypeInv
<1>3. th' = [th EXCEPT !["main"] = r]
    BY <1>1, MainIs DEF Go, TypeInv, Running, main
<1>4. main' = r /\ sweep' = sweep
    BY <1>3, MainGoesOn DEF TypeInv
<1>5. /\ r.pc = pc /\ r.key = main.key /\ r.ent = main.ent /\ r.prev = main.prev
      /\ r.next = main.next /\ r.obj = main.obj /\ r.tab = main.tab /\ r.n = main.n
    BY <1>1, <1>2 DEF Locals
<1> QED
    BY <1>4, <1>5

LEMMA GoSweep ==
    ASSUME TypeInv, NEW pc, Go("sweep", pc)
    PROVE  /\ sweep'.pc = pc /\ sweep'.key = sweep.key /\ sweep'.ent = sweep.ent
           /\ sweep'.prev = sweep.prev /\ main' = main
<1>1. PICK r : r = [sweep EXCEPT !.pc = pc]
    OBVIOUS
<1>2. sweep \in Locals
    BY SweepIs DEF TypeInv
<1>3. th' = [th EXCEPT !["sweep"] = r]
    BY <1>1, SweepIs DEF Go, TypeInv, Running, sweep
<1>4. sweep' = r /\ main' = main
    BY <1>3, BecomeSweep DEF TypeInv, Become
<1>5. /\ r.pc = pc /\ r.key = sweep.key /\ r.ent = sweep.ent /\ r.prev = sweep.prev
    BY <1>1, <1>2 DEF Locals
<1> QED
    BY <1>4, <1>5

LEMMA AheadMain ==
    ASSUME TypeInv, NEW pc, Ahead("main", pc)
    PROVE  main'.pc = pc /\ main'.key = main.key /\ sweep' = sweep
<1>1. PICK i : i = Idle
    OBVIOUS
<1>2. PICK r : r = [i EXCEPT !.pc = pc, !.op = main.op, !.key = main.key, !.d = main.d]
    OBVIOUS
<1>3. Become("main", r)
    BY <1>1, <1>2 DEF Ahead, main
<1>4. r.pc = pc /\ r.key = main.key
    BY <1>1, <1>2, IdleIs DEF Locals
<1> QED
    BY <1>3, <1>4, BecomeMain

LEMMA AheadSweep ==
    ASSUME TypeInv, NEW pc, Ahead("sweep", pc)
    PROVE  sweep'.pc = pc /\ sweep'.key = sweep.key /\ main' = main
<1>1. PICK i : i = Idle
    OBVIOUS
<1>2. PICK r : r = [i EXCEPT !.pc = pc, !.op = sweep.op, !.key = sweep.key, !.d = sweep.d]
    OBVIOUS
<1>3. Become("sweep", r)
    BY <1>1, <1>2 DEF Ahead, sweep
<1>4. r.pc = pc /\ r.key = sweep.key
    BY <1>1, <1>2, IdleIs DEF Locals
<1> QED
    BY <1>3, <1>4, BecomeSweep

LEMMA BeginMain ==
    ASSUME TypeInv, NEW op, NEW pc, NEW k, NEW o, Begin(op, pc, k, o)
    PROVE  main.pc = "idle" /\ main'.pc = pc /\ main'.key = k /\ main'.obj = o /\ sweep' = sweep
<1>1. PICK i : i = Idle
    OBVIOUS
<1>2. PICK r : r = [i EXCEPT !.op = op, !.pc = pc, !.key = k, !.obj = o, !.d = g_dict]
    OBVIOUS
<1>3. Become("main", r) /\ main = i
    BY <1>1, <1>2 DEF Begin, main
<1>4. r.pc = pc /\ r.key = k /\ r.obj = o /\ i.pc = "idle"
    BY <1>1, <1>2, IdleIs DEF Locals
<1> QED
    BY <1>3, <1>4, BecomeMain

LEMMA IdleMain ==
    ASSUME TypeInv, Become("main", Idle)
    PROVE  main'.pc = "idle" /\ sweep' = sweep
BY BecomeMain, IdleIs

\* What was answered for k counts no more.
LEMMA Forget ==
    ASSUME Duo, NEW k \in Keys, acked' = [acked EXCEPT ![k] = Nil]
    PROVE  /\ acked' \in [Keys -> Objects \cup {Nil}] /\ acked'[k] = Nil
           /\ \A j \in Keys : acked'[j] \in {acked[j], Nil}
BY DEF Duo

-----------------------------------------------------------------------------
(* Walks of either thread *)

LEMMA FindAny ==
    ASSUME TypeInv, Apart, NEW k \in Keys, Find(k) # Nil
    PROVE  /\ Find(k) \in Held /\ keyOf[Find(k)] = k
           /\ PrevOf(k) \in Places /\ Cell(PrevOf(k)) \in allocated
           /\ ClassAt(PrevOf(k)) = Class(k) /\ link[PrevOf(k)] = Find(k)
<1>1. /\ Visited(k) \subseteq Held /\ Find(k) \in Visited(k) /\ keyOf[Find(k)] = k
      /\ PrevOf(k) \in {Bucket(k)} \cup Visited(k) /\ link[PrevOf(k)] = Find(k)
    BY FindIs DEF TypeInv, Held
<1>2. Bucket(k) \in Places /\ Bucket(k) \notin Entries /\ Cell(Bucket(k)) = buckets
    <2>1. Bucket(k) \in Places
        BY BucketIsPlace DEF TypeInv
    <2>2. BucketOf(k, size) \in 1 .. MaxSize
        BY BucketOfIs, LiveIs, Sizes
    <2>3. Bucket(k) \in Tables \X (1 .. MaxSize)
        BY <2>2, LiveIs DEF Bucket
    <2> QED
        BY <2>1, <2>3, CellsAreDistinct DEF Cell, Bucket
<1>3. PrevOf(k) \in Places /\ PrevOf(k) \in allocated \cup (Places \ Entries)
      /\ Cell(PrevOf(k)) \in allocated
    BY <1>1, <1>2, LiveIs DEF Cell
<1>4. ClassAt(Find(k)) = Class(k)
    BY <1>1, LiveIs DEF ClassAt
<1>5. ClassAt(PrevOf(k)) = Class(k)
    BY <1>1, <1>3, <1>4 DEF Apart, Parting
<1> QED
    BY <1>1, <1>3, <1>5

\* In a class that is kept main finds what is there.
LEMMA FindOf ==
    ASSUME TypeInv, Duo, NEW k \in Keys, Clean(Class(k)), Class(k) \in Classes,
           main.pc \in CalmPcs
    PROVE  LET c == Class(k) IN
           /\ Hanging = Live
           /\ Find(k) # Nil => /\ Find(k) \in Of(c, Hanging) /\ keyOf[Find(k)] = k
                               /\ PrevOf(k) \in SlotsOf(c, buckets, 1, size) \cup Of(c, Hanging)
                               /\ link[PrevOf(k)] = Find(k)
           /\ \A e \in Of(c, Live) : keyOf[e] = k => Find(k) = e
<1> DEFINE c == Class(k)
<1>1. main.pc \in SteadyPcs /\ Hanging = Live
    BY DEF CalmPcs, Aside, Hanging
<1>2. Kept(c)
    BY DEF Duo
<1>3. HangsIn(c, buckets, size) /\ \A d, e \in Of(c, Live) : keyOf[d] = keyOf[e] => d = e
    BY <1>1, <1>2 DEF Kept, Shape
<1>4. Of(c, Hanging) \subseteq Entries
    BY LiveIs DEF Of
<1>5. Multiple(size) /\ Heap /\ Fields
    BY DEF Duo, Apart, Parting, TypeInv
<1> QED
    BY <1>1, <1>3, <1>4, <1>5, WalkMeetsOf DEF HangsIn

-----------------------------------------------------------------------------
(* Steps of main that leave the table alone *)

LEMMA GetBeginDuo ==
    ASSUME TypeInv, Duo, NEW k \in Keys, GetBegin(k) PROVE Duo'
<1>1. main.pc = "idle" /\ main'.pc = "chk_find" /\ sweep' = sweep
    BY BeginMain DEF GetBegin
<1>2. UNCHANGED <<link, keyOf, val, exp, freed, buckets, size, todo, allocated, ttled, acked>>
    BY DEF GetBegin, heap, shape, memory, dict, fields, ghost
<1>3. acked \in [Keys -> Objects \cup {Nil}]
    BY DEF Duo
<1> QED
    BY <1>1, <1>2, <1>3, CalmStep, CalmPcsAre, NoMainHand, NoHand DEF Held

LEMMA DelBeginDuo ==
    ASSUME TypeInv, Duo, NEW k \in Keys, DelBegin(k) PROVE Duo'
<1>1. main.pc = "idle" /\ main'.pc = "del_find" /\ main'.key = k /\ sweep' = sweep
    BY BeginMain DEF DelBegin
<1>2. /\ UNCHANGED <<link, keyOf, val, exp, freed, buckets, size, todo, allocated, ttled>>
      /\ acked' = [acked EXCEPT ![k] = Nil]
    BY DEF DelBegin, heap, shape, memory, dict, fields
<1>3. ASSUME NEW c \in Classes PROVE Hand(c, main)'
    BY <1>1, <1>2, Forget DEF Hand, HandFor, BeforePcs, PlacedPcs, GrowPcs, FlushPcs, SetPcs
<1> QED
    BY <1>1, <1>2, <1>3, Forget, CalmStep, CalmPcsAre, NoMainHand DEF Held

LEMMA ExpireBeginDuo ==
    ASSUME TypeInv, Duo, NEW k \in Keys, ExpireBegin(k) PROVE Duo'
<1>1. main.pc = "idle" /\ main'.pc = "exp_find" /\ main'.key = k /\ sweep' = sweep
    BY BeginMain DEF ExpireBegin
<1>2. /\ UNCHANGED <<link, keyOf, val, exp, freed, buckets, size, todo, allocated>>
      /\ acked' = [acked EXCEPT ![k] = Nil] /\ ttled' = ttled \cup {k}
    BY DEF ExpireBegin, heap, shape, memory, dict, fields
<1>3. InMainHand(main)'
    BY <1>1, <1>2 DEF InMainHand, Deleting, BeforePcs, GrowPcs
<1> QED
    BY <1>1, <1>2, <1>3, Forget, CalmStep, CalmPcsAre, NoHand DEF Held

LEMMA SetBeginDuo ==
    ASSUME TypeInv, Duo, NEW k \in Keys, SetBegin(k) PROVE Duo'
<1>1. PICK o : o = Fresh(Objects)
    OBVIOUS
<1>2. main.pc = "idle" /\ main'.pc = "set_size" /\ main'.key = k /\ main'.obj = o
      /\ sweep' = sweep
    BY <1>1, BeginMain DEF SetBegin
<1>3. /\ UNCHANGED <<link, keyOf, val, exp, freed, buckets, size, todo, ttled>>
      /\ acked' = [acked EXCEPT ![k] = Nil] /\ allocated' = allocated \cup {o}
    BY <1>1 DEF SetBegin, heap, shape, memory, dict, fields
<1>4. o \in Objects /\ o \notin allocated /\ o \notin freed
    BY <1>1, FreshIs DEF SetBegin, TypeInv, Heap
<1>5. Held' = Held
    BY <1>3, <1>4, LiveIs DEF Held
<1>6. \A e \in Held : val[e] # o
    BY <1>4, LiveIs
<1>7. InMainHand(main)'
    BY <1>2, <1>3, <1>4, <1>5, <1>6 DEF InMainHand, Deleting, BeforePcs, GrowPcs, Duo, Apart, Parting
<1>8. ASSUME NEW c \in Classes PROVE Hand(c, main)'
    BY <1>2, <1>3, <1>4, Forget DEF Hand, HandFor, BeforePcs, PlacedPcs, GrowPcs, FlushPcs, SetPcs
<1> QED
    BY <1>2, <1>3, <1>5, <1>7, <1>8, Forget, CalmStep, CalmPcsAre

LEMMA CheckFindDuo ==
    ASSUME TypeInv, Duo, CheckFind("main") PROVE Duo'
<1> DEFINE k == main.key
           e == Find(k)
<1>1. main.pc = "chk_find" /\ k \in Keys
    BY MainIs DEF CheckFind, TypeInv, InCheck, CheckPcs, main
<1>2. CASE Walk("main") \cap freed # {}
    BY <1>2, DuoSame DEF CheckFind, Touch
<1>3. CASE Walk("main") \cap freed = {}
    <2>1. UNCHANGED <<link, keyOf, val, exp, freed, buckets, size, todo, allocated, ttled, acked>>
        BY <1>3 DEF CheckFind, Touch, heap, shape, memory, dict, fields, ghost
    <2>2. acked \in [Keys -> Objects \cup {Nil}]
        BY DEF Duo
    <2>3. CASE e = Nil
        <3>1. Go("main", "chk_done")
            BY <1>3, <2>3 DEF CheckFind, Touch, main
        <3> QED
            BY <1>1, <2>1, <2>2, <3>1, GoMain, CalmStep, CalmPcsAre, NoMainHand, NoHand DEF Held
    <2>4. CASE e # Nil
        <3>1. PICK r : r = [main EXCEPT !.pc = "chk_exp", !.obj = val[e]]
            OBVIOUS
        <3>2. Become("main", r)
            BY <1>3, <2>4, <3>1 DEF CheckFind, Touch, main
        <3>3. main' = r /\ sweep' = sweep
            BY <3>2, BecomeMain
        <3>4. r.pc = "chk_exp" /\ r.obj = val[e] /\ r.key = k
            BY <3>1, MainIs DEF TypeInv, Locals
        <3>5. exp[val[e]] # 0 => k \in ttled
            BY <1>1, <2>4, FindAny DEF Duo, Apart, Parting
        <3>6. InMainHand(main)'
            BY <2>1, <3>3, <3>4, <3>5 DEF InMainHand, Deleting, BeforePcs, GrowPcs
        <3> QED
            BY <1>1, <2>1, <2>2, <3>3, <3>4, <3>6, CalmStep, CalmPcsAre, NoHand DEF Held
    <2> QED
        BY <2>3, <2>4
<1> QED
    BY <1>2, <1>3

LEMMA CheckExpDuo ==
    ASSUME TypeInv, Duo, CheckExp("main") PROVE Duo'
<1> DEFINE o == main.obj
<1>1. main.pc = "chk_exp" /\ main.key \in Keys
    BY MainIs DEF CheckExp, TypeInv, InCheck, CheckPcs, main
<1>2. CASE {o} \cap freed # {}
    BY <1>2, DuoSame DEF CheckExp, Touch, main
<1>3. CASE {o} \cap freed = {}
    <2>1. UNCHANGED <<link, keyOf, val, exp, freed, buckets, size, todo, allocated, ttled, acked>>
        BY <1>3 DEF CheckExp, Touch, main, heap, shape, memory, dict, fields, ghost
    <2>2. acked \in [Keys -> Objects \cup {Nil}]
        BY DEF Duo
    <2>3. CASE exp[o] = 0 \/ now < exp[o]
        <3>1. Ahead("main", "chk_done")
            BY <1>3, <2>3 DEF CheckExp, Touch, main
        <3>2. main'.pc = "chk_done" /\ sweep' = sweep
            BY <3>1, AheadMain
        <3> QED
            BY <1>1, <2>1, <2>2, <3>2, CalmStep, CalmPcsAre, NoMainHand, NoHand DEF Held
    <2>4. CASE ~(exp[o] = 0 \/ now < exp[o])
        <3>1. Ahead("main", "del_find")
            BY <1>3, <2>4 DEF CheckExp, Touch, main
        <3>2. main'.pc = "del_find" /\ main'.key = main.key /\ sweep' = sweep
            BY <3>1, AheadMain
        <3>3. main.key \in ttled
            BY <1>1, <2>4 DEF Duo, Apart, InMainHand
        <3>4. ASSUME NEW c \in Classes, Clean(c) PROVE Hand(c, main)'
            <4>1. Class(main.key) # c
                BY <1>1, <3>3, <3>4 DEF Clean
            <4> QED
                BY <3>2, <4>1 DEF Hand, FlushPcs, Class
        <3> QED
            BY <1>1, <2>1, <2>2, <3>2, <3>4, CalmStep, CalmPcsAre, NoMainHand DEF Held
    <2> QED
        BY <2>3, <2>4
<1> QED
    BY <1>2, <1>3

LEMMA DelFindDuo ==
    ASSUME TypeInv, Duo, DelFind("main") PROVE Duo'
<1> DEFINE k == main.key
           e == Find(k)
<1>1. main.pc = "del_find" /\ k \in Keys /\ main.pc \in CalmPcs
    BY MainIs, CalmPcsAre DEF DelFind, TypeInv, InCheck, CheckPcs, main
<1>2. CASE Walk("main") \cap freed # {}
    BY <1>2, DuoSame DEF DelFind, Touch
<1>3. CASE Walk("main") \cap freed = {}
    <2>1. UNCHANGED <<link, keyOf, val, exp, freed, buckets, size, todo, allocated, ttled, acked>>
        BY <1>3 DEF DelFind, Touch, heap, shape, memory, dict, fields, ghost
    <2>2. acked \in [Keys -> Objects \cup {Nil}]
        BY DEF Duo
    <2>3. CASE e = Nil
        <3>1. Go("main", "chk_done")
            BY <1>3, <2>3 DEF DelFind, Touch, main
        <3> QED
            BY <1>1, <2>1, <2>2, <3>1, GoMain, CalmStep, CalmPcsAre, NoMainHand, NoHand DEF Held
    <2>4. CASE e # Nil
        <3>1. PICK r : r = [main EXCEPT !.pc = "del_unlink", !.ent = e, !.prev = PrevOf(k)]
            OBVIOUS
        <3>2. Become("main", r)
            BY <1>3, <2>4, <3>1 DEF DelFind, Touch, main
        <3>3. main' = r /\ sweep' = sweep
            BY <3>2, BecomeMain
        <3>4. r.pc = "del_unlink" /\ r.ent = e /\ r.key = k /\ r.prev = PrevOf(k)
            BY <3>1, MainIs DEF TypeInv, Locals
        <3>5. /\ e \in Held /\ keyOf[e] = k
              /\ PrevOf(k) \in Places /\ Cell(PrevOf(k)) \in allocated
              /\ ClassAt(PrevOf(k)) = Class(k)
            BY <1>1, <2>4, FindAny DEF Duo
        <3>6. InMainHand(main)'
            BY <2>1, <3>3, <3>4, <3>5 DEF InMainHand, Deleting, BeforePcs, GrowPcs, ClassAt, Class
        <3>7. ASSUME NEW c \in Classes, Clean(c), Kept(c) PROVE Hand(c, main)'
            <4>1. CASE Class(k) # c
                BY <3>3, <3>4, <4>1 DEF Hand, FlushPcs, Class
            <4>2. CASE Class(k) = c
                <5>1. acked[k] = Nil
                    BY <1>1, <3>7, <4>2 DEF Kept, Hand, HandFor, DelPcs
                <5>2. /\ e \in Of(c, Hanging) /\ link[PrevOf(k)] = e
                      /\ PrevOf(k) \in SlotsOf(c, buckets, 1, size) \cup Of(c, Hanging)
                    BY <1>1, <2>4, <3>7, <4>2, FindOf
                <5>3. Of(c, Hanging)' = Of(c, Hanging)
                    <6>1. Live' = Live /\ Aside' = {} /\ Aside = {}
                        BY <1>1, <2>1, <3>3, <3>4 DEF Live, Aside
                    <6> QED
                        BY <2>1, <6>1 DEF Of, Hanging, Class
                <5>4. HandFor(c, main)'
                    BY <2>1, <3>3, <3>4, <5>1, <5>2, <5>3
                       DEF HandFor, BeforePcs, PlacedPcs, GrowPcs
                <5> QED
                    BY <3>3, <3>4, <5>4 DEF Hand, FlushPcs
            <4> QED
                BY <4>1, <4>2
        <3> QED
            BY <1>1, <2>1, <2>2, <3>3, <3>4, <3>6, <3>7, CalmStep, CalmPcsAre DEF Held
    <2> QED
        BY <2>3, <2>4
<1> QED
    BY <1>2, <1>3

\* The loads and stores of d->count.
LEMMA CountLoadDuo ==
    ASSUME TypeInv, Duo, CountLoad("main") PROVE Duo'
<1>1. main.pc \in {"del_load", "set_load"}
    BY DEF CountLoad, main
<1>2. CASE {main.d} \cap freed # {}
    BY <1>2, DuoSame DEF CountLoad, Touch, main
<1>3. CASE {main.d} \cap freed = {}
    <2>1. UNCHANGED <<link, keyOf, val, exp, freed, buckets, size, todo, allocated, ttled, acked>>
        BY <1>3 DEF CountLoad, Touch, main, heap, shape, memory, dict, fields, ghost
    <2>2. acked \in [Keys -> Objects \cup {Nil}]
        BY DEF Duo
    <2>3. PICK r : r = [main EXCEPT !.n = count,
                            !.pc = IF @ = "del_load" THEN "del_store" ELSE "set_store"]
        OBVIOUS
    <2>4. Become("main", r)
        BY <1>3, <2>3 DEF CountLoad, Touch, main
    <2>5. main' = r /\ sweep' = sweep
        BY <2>4, BecomeMain
    <2>6. /\ r.pc = IF main.pc = "del_load" THEN "del_store" ELSE "set_store"
          /\ r.key = main.key /\ r.obj = main.obj
        BY <2>3, MainIs DEF TypeInv, Locals
    <2>7. Live' = Live
        BY <2>1 DEF Live
    <2>8. ASSUME NEW c \in Classes, Kept(c) PROVE Hand(c, main)'
        BY <1>1, <2>1, <2>5, <2>6, <2>7, <2>8
           DEF Kept, Hand, HandFor, BeforePcs, PlacedPcs, GrowPcs, FlushPcs, DelPcs, SetPcs,
               Served, Class
    <2> QED
        BY <1>1, <2>1, <2>2, <2>5, <2>6, <2>8, CalmStep, CalmPcsAre, NoMainHand DEF Held
<1> QED
    BY <1>2, <1>3

LEMMA CountStoreDuo ==
    ASSUME TypeInv, Duo, CountStore("main") PROVE Duo'
<1>1. main.pc \in {"del_store", "set_store"}
    BY DEF CountStore, main
<1>2. CASE {main.d} \cap freed # {}
    BY <1>2, DuoSame DEF CountStore, Touch, main
<1>3. CASE {main.d} \cap freed = {}
    <2>1. UNCHANGED <<link, keyOf, val, exp, freed, buckets, size, todo, allocated, ttled, acked>>
        BY <1>3 DEF CountStore, Touch, main, heap, shape, memory, dict, fields, ghost
    <2>2. acked \in [Keys -> Objects \cup {Nil}]
        BY DEF Duo
    <2>3. CASE main.pc = "del_store"
        <3>1. Ahead("main", "chk_done")
            BY <1>3, <2>3 DEF CountStore, Touch, main
        <3>2. main'.pc = "chk_done" /\ sweep' = sweep
            BY <3>1, AheadMain
        <3> QED
            BY <1>1, <2>1, <2>2, <3>2, CalmStep, CalmPcsAre, NoMainHand, NoHand DEF Held
    <2>4. CASE main.pc = "set_store"
        <3>1. PICK r : r = [main EXCEPT !.pc = "set_ack", !.n = 0]
            OBVIOUS
        <3>2. Become("main", r)
            BY <1>3, <2>4, <3>1 DEF CountStore, Touch, main
        <3>3. main' = r /\ sweep' = sweep
            BY <3>2, BecomeMain
        <3>4. r.pc = "set_ack" /\ r.key = main.key /\ r.obj = main.obj
            BY <3>1, MainIs DEF TypeInv, Locals
        <3>5. Live' = Live
            BY <2>1 DEF Live
        <3>6. ASSUME NEW c \in Classes, Kept(c) PROVE Hand(c, main)'
            BY <2>1, <2>4, <3>3, <3>4, <3>5, <3>6
               DEF Kept, Hand, HandFor, BeforePcs, PlacedPcs, GrowPcs, FlushPcs, DelPcs, SetPcs,
                   Served, Class
        <3> QED
            BY <1>1, <2>1, <2>2, <3>3, <3>4, <3>6, CalmStep, CalmPcsAre, NoMainHand DEF Held
    <2> QED
        BY <1>1, <2>3, <2>4
<1> QED
    BY <1>2, <1>3

LEMMA CheckDoneDuo ==
    ASSUME TypeInv, Duo, CheckDone("main") PROVE Duo'
<1>1. main.pc = "chk_done" /\ main.op \in {"get", "del"}
    BY MainIs DEF CheckDone, TypeInv, InMain, CheckPcs, main
<1>2. UNCHANGED <<link, keyOf, val, exp, freed, buckets, size, todo, allocated, ttled, acked>>
    BY DEF CheckDone, heap, shape, memory, dict, fields, ghost
<1>3. acked \in [Keys -> Objects \cup {Nil}]
    BY DEF Duo
<1>4. main'.pc \in {"get_find", "idle"} /\ sweep' = sweep
    <2>1. CASE main.op = "get"
        <3>1. Go("main", "get_find")
            BY <2>1 DEF CheckDone, main
        <3> QED
            BY <3>1, GoMain
    <2>2. CASE main.op = "del"
        <3>1. Become("main", Idle)
            BY <2>2 DEF CheckDone, main
        <3> QED
            BY <3>1, IdleMain
    <2> QED
        BY <1>1, <2>1, <2>2
<1> QED
    BY <1>1, <1>2, <1>3, <1>4, CalmStep, CalmPcsAre, NoMainHand, NoHand DEF Held

LEMMA GetFindDuo ==
    ASSUME TypeInv, Duo, GetFind PROVE Duo'
<1> DEFINE e == Find(main.key)
<1>1. main.pc = "get_find"
    BY DEF GetFind
<1>2. CASE Walk("main") \cap freed # {}
    BY <1>2, DuoSame DEF GetFind, Touch
<1>3. CASE Walk("main") \cap freed = {}
    <2>1. UNCHANGED <<link, keyOf, val, exp, freed, buckets, size, todo, allocated, ttled, acked>>
        BY <1>3 DEF GetFind, Touch, heap, shape, memory, dict, fields, ghost
    <2>2. acked \in [Keys -> Objects \cup {Nil}]
        BY DEF Duo
    <2>3. main'.pc \in {"idle", "get_read"} /\ sweep' = sweep
        <3>1. CASE e = Nil
            BY <1>3, <3>1, IdleMain DEF GetFind, Touch
        <3>2. CASE e # Nil
            <4>1. PICK r : r = [main EXCEPT !.pc = "get_read", !.obj = val[e]]
                OBVIOUS
            <4>2. Become("main", r)
                BY <1>3, <3>2, <4>1 DEF GetFind, Touch
            <4>3. r.pc = "get_read"
                BY <4>1, MainIs DEF TypeInv, Locals
            <4> QED
                BY <4>2, <4>3, BecomeMain
        <3> QED
            BY <3>1, <3>2
    <2> QED
        BY <1>1, <2>1, <2>2, <2>3, CalmStep, CalmPcsAre, NoMainHand, NoHand DEF Held
<1> QED
    BY <1>2, <1>3

LEMMA GetReadDuo ==
    ASSUME TypeInv, Duo, GetRead PROVE Duo'
<1>1. main.pc = "get_read"
    BY DEF GetRead
<1>2. CASE {main.obj} \cap freed # {}
    BY <1>2, DuoSame DEF GetRead, Touch
<1>3. CASE {main.obj} \cap freed = {}
    <2>1. UNCHANGED <<link, keyOf, val, exp, freed, buckets, size, todo, allocated, ttled, acked>>
        BY <1>3 DEF GetRead, Touch, heap, shape, memory, dict, fields, ghost
    <2>2. acked \in [Keys -> Objects \cup {Nil}]
        BY DEF Duo
    <2>3. main'.pc = "idle" /\ sweep' = sweep
        BY <1>3, IdleMain DEF GetRead, Touch
    <2> QED
        BY <1>1, <2>1, <2>2, <2>3, CalmStep, CalmPcsAre, NoMainHand, NoHand DEF Held
<1> QED
    BY <1>2, <1>3

LEMMA ExpireFindDuo ==
    ASSUME TypeInv, Duo, ExpireFind PROVE Duo'
<1> DEFINE k == main.key
           e == Find(k)
<1>1. main.pc = "exp_find" /\ k \in Keys
    BY MainIs DEF ExpireFind, TypeInv, InMain, ReadPcs
<1>2. CASE Walk("main") \cap freed # {}
    BY <1>2, DuoSame DEF ExpireFind, Touch
<1>3. CASE Walk("main") \cap freed = {}
    <2>1. UNCHANGED <<link, keyOf, val, exp, freed, buckets, size, todo, allocated, ttled, acked>>
        BY <1>3 DEF ExpireFind, Touch, heap, shape, memory, dict, fields, ghost
    <2>2. acked \in [Keys -> Objects \cup {Nil}]
        BY DEF Duo
    <2>3. CASE e = Nil
        <3>1. main'.pc = "idle" /\ sweep' = sweep
            BY <1>3, <2>3, IdleMain DEF ExpireFind, Touch
        <3> QED
            BY <1>1, <2>1, <2>2, <3>1, CalmStep, CalmPcsAre, NoMainHand, NoHand DEF Held
    <2>4. CASE e # Nil
        <3>1. PICK r : r = [main EXCEPT !.pc = "exp_write", !.obj = val[e]]
            OBVIOUS
        <3>2. Become("main", r)
            BY <1>3, <2>4, <3>1 DEF ExpireFind, Touch
        <3>3. main' = r /\ sweep' = sweep
            BY <3>2, BecomeMain
        <3>4. r.pc = "exp_write" /\ r.obj = val[e] /\ r.key = k
            BY <3>1, MainIs DEF TypeInv, Locals
        <3>5. k \in ttled /\ \A d \in Held : val[d] = val[e] => keyOf[d] = k
            BY <1>1, <2>4, FindAny DEF Duo, Apart, Parting, InMainHand
        <3>6. InMainHand(main)'
            BY <2>1, <3>3, <3>4, <3>5 DEF InMainHand, Deleting, BeforePcs, GrowPcs, Held
        <3> QED
            BY <1>1, <2>1, <2>2, <3>3, <3>4, <3>6, CalmStep, CalmPcsAre, NoHand DEF Held
    <2> QED
        BY <2>3, <2>4
<1> QED
    BY <1>2, <1>3

LEMMA SetFindDuo ==
    ASSUME TypeInv, Duo, SetFind PROVE Duo'
<1> DEFINE k == main.key
           e == Find(k)
<1>1. main.pc = "set_find" /\ k \in Keys /\ main.pc \in CalmPcs
    BY MainIs, CalmPcsAre DEF SetFind, TypeInv, InMain, SetPcs
<1>2. CASE Walk("main") \cap freed # {}
    BY <1>2, DuoSame DEF SetFind, Touch
<1>3. CASE Walk("main") \cap freed = {}
    <2>1. UNCHANGED <<link, keyOf, val, exp, freed, buckets, size, todo, allocated, ttled, acked>>
        BY <1>3 DEF SetFind, Touch, heap, shape, memory, dict, fields, ghost
    <2>2. acked \in [Keys -> Objects \cup {Nil}]
        BY DEF Duo
    <2>3. PICK r : r = [main EXCEPT !.ent = e, !.pc = IF e = Nil THEN "set_new" ELSE "set_free"]
        OBVIOUS
    <2>4. Become("main", r)
        BY <1>3, <2>3 DEF SetFind, Touch
    <2>5. main' = r /\ sweep' = sweep
        BY <2>4, BecomeMain
    <2>6. /\ r.pc = (IF e = Nil THEN "set_new" ELSE "set_free")
          /\ r.ent = e /\ r.key = k /\ r.obj = main.obj
        BY <2>3, MainIs DEF TypeInv, Locals
    <2>7. e # Nil => keyOf[e] = k
        BY <1>1, FindAny DEF Duo
    <2>8. exp[main.obj] = 0 /\ \A d \in Held : val[d] # main.obj
        BY <1>1 DEF Duo, Apart, InMainHand, BeforePcs
    <2>9. InMainHand(main)'
        BY <2>1, <2>5, <2>6, <2>7, <2>8 DEF InMainHand, Deleting, BeforePcs, GrowPcs, Held
    <2>10. ASSUME NEW c \in Classes, Clean(c), Kept(c) PROVE Hand(c, main)'
        <3>1. CASE Class(k) # c
            BY <2>5, <2>6, <3>1 DEF Hand, FlushPcs, Class
        <3>2. CASE Class(k) = c
            <4>1. acked[k] = Nil /\ main.obj \notin freed
                BY <1>1, <2>10, <3>2 DEF Kept, Hand, HandFor, SetPcs, BeforePcs
            <4>2. /\ e # Nil => e \in Live
                  /\ \A d \in Of(c, Live) : keyOf[d] = k => e = d
                BY <1>1, <2>10, <3>2, FindOf DEF Of
            <4>3. Of(c, Live)' = Of(c, Live) /\ Live' = Live
                BY <2>1 DEF Of, Live, Class
            <4>4. e = Nil => \A d \in Of(c, Live) : keyOf[d] # k
                <5>1. \A d \in Of(c, Live) : d # Nil
                    BY LiveIs DEF Of
                <5> QED
                    BY <4>2, <5>1
            <4>5. HandFor(c, main)'
                BY <2>1, <2>5, <2>6, <4>1, <4>2, <4>3, <4>4
                   DEF HandFor, BeforePcs, PlacedPcs, GrowPcs
            <4> QED
                BY <2>5, <2>6, <4>5 DEF Hand, FlushPcs
        <3> QED
            BY <3>1, <3>2
    <2> QED
        BY <1>1, <2>1, <2>2, <2>5, <2>6, <2>9, <2>10, CalmStep, CalmPcsAre DEF Held
<1> QED
    BY <1>2, <1>3

-----------------------------------------------------------------------------
(* Steps of main that change objects and answers *)

\* The table is left alone, what is in it or answered is not.
LEMMA CalmKept ==
    ASSUME TypeInv, Duo, UNCHANGED <<link, keyOf, buckets, size>>, Live' = Live,
           main.pc \in CalmPcs, main'.pc \in CalmPcs, ttled \subseteq ttled',
           acked' \in [Keys -> Objects \cup {Nil}], Apart',
           \A c \in Classes : Clean(c) /\ Kept(c) => Hand(c, main)' /\ Promise(c)'
    PROVE  Duo'
<1>1. ASSUME NEW c \in Classes, Clean(c)' PROVE Kept(c)'
    <2>1. Clean(c) /\ Kept(c)
        BY <1>1 DEF Clean, Class, Duo
    <2>2. Shape(c)'
        BY <2>1, ShapeStays
    <2> QED
        BY <2>1, <2>2 DEF Kept
<1> QED
    BY <1>1 DEF Duo

LEMMA ExpireWriteDuo ==
    ASSUME TypeInv, Duo, NEW d \in Delays, ExpireWrite(d) PROVE Duo'
<1> DEFINE o == main.obj
<1>1. main.pc = "exp_write"
    BY DEF ExpireWrite
<1>2. CASE {o} \cap freed # {}
    BY <1>2, DuoSame DEF ExpireWrite, Touch
<1>3. CASE {o} \cap freed = {}
    <2>1. /\ UNCHANGED <<link, keyOf, val, freed, buckets, size, todo, allocated, ttled, acked>>
          /\ exp' = [exp EXCEPT ![o] = now + d] /\ Become("main", Idle)
        BY <1>3 DEF ExpireWrite, Touch, heap, shape, memory, dict, fields, ghost
    <2>2. main'.pc = "idle" /\ sweep' = sweep
        BY <2>1, IdleMain
    <2>3. o \in Objects \cap allocated
        <3>1. o # Nil /\ o \in Objects \cup {Nil} /\ o \in allocated \cup {Nil}
            BY <1>1, MainIs DEF TypeInv, InMain, Locals
        <3> QED
            BY <3>1
    <2>4. main.key \in ttled /\ \A e \in Held : val[e] = o => keyOf[e] = main.key
        BY <1>1 DEF Duo, Apart, InMainHand
    <2>5. Parting'
        <3>1. \A e \in Held : exp'[val[e]] # 0 => keyOf[e] \in ttled
            <4>1. \A e \in Held : val[e] # o => exp'[val[e]] = exp[val[e]]
                BY <2>1, LiveIs DEF TypeInv, Heap
            <4> QED
                BY <2>4, <4>1 DEF Duo, Apart, Parting
        <3>2. \A x \in Objects \ allocated : exp'[x] = 0
            BY <2>1, <2>3 DEF Duo, Apart, Parting, TypeInv, Heap
        <3>3. \A p \in Places : ClassAt(p)' = ClassAt(p)
            BY <2>1 DEF ClassAt, Class
        <3>4. \A p \in Places : link'[p] # Nil /\ p \in allocated' \cup (Places \ Entries)
                                    => ClassAt(link[p])' = ClassAt(p)'
            BY <2>1 DEF ClassAt, Class, Duo, Apart, Parting
        <3> QED
            BY <2>1, <3>1, <3>2, <3>4 DEF Duo, Apart, Parting, Held, Multiple
    <2>6. Apart'
        BY <2>1, <2>2, <2>5, SweepHandStays, NoMainHand DEF Apart, Duo
    <2>7. Live' = Live
        BY <2>1 DEF Live
    <2>8. \A c \in Classes : Promise(c) => Promise(c)'
        BY <2>1, <2>7 DEF Promise, Served, Class
    <2>9. acked' \in [Keys -> Objects \cup {Nil}]
        BY <2>1 DEF Duo
    <2> QED
        BY <1>1, <2>1, <2>2, <2>6, <2>7, <2>8, <2>9, CalmKept, CalmPcsAre, NoHand DEF Kept
<1> QED
    BY <1>2, <1>3

\* The entry dict_set has found.
LEMMA SettingIs ==
    ASSUME TypeInv, Duo, main.pc \in {"set_free", "set_val"}
    PROVE  /\ main.ent \in Held /\ main.key \in Keys /\ keyOf[main.ent] = main.key
           /\ main.obj \in Objects /\ exp[main.obj] = 0 /\ \A e \in Held : val[e] # main.obj
           /\ \A c \in Classes : Clean(c) /\ Class(main.key) = c =>
                 acked[main.key] = Nil /\ main.ent \in Live /\ main.obj \notin freed
<1>1. main.ent # Nil /\ main.key \in Keys /\ main.obj # Nil
    BY MainIs DEF TypeInv, InMain, SetPcs
<1>2. main.ent \in Held /\ main.obj \in Objects
    BY <1>1, MainIs DEF TypeInv, Locals, Held
<1>3. /\ keyOf[main.ent] = main.key /\ exp[main.obj] = 0
      /\ \A e \in Held : val[e] # main.obj
    BY DEF Duo, Apart, InMainHand, BeforePcs
<1>4. ASSUME NEW c \in Classes, Clean(c), Class(main.key) = c
      PROVE  acked[main.key] = Nil /\ main.ent \in Live /\ main.obj \notin freed
    BY <1>4 DEF Duo, Kept, Hand, HandFor, SetPcs, BeforePcs
<1> QED
    BY <1>1, <1>2, <1>3, <1>4

LEMMA SetFreeDuo ==
    ASSUME TypeInv, Duo, SetFree PROVE Duo'
<1> DEFINE e == main.ent
           o == main.obj
<1>1. main.pc = "set_free"
    BY DEF SetFree
<1>2. CASE {e, val[e]} \cap freed # {}
    BY <1>2, DuoSame DEF SetFree, Touch
<1>3. CASE {e, val[e]} \cap freed = {}
    <2>1. /\ UNCHANGED <<link, keyOf, val, exp, buckets, size, todo, allocated, ttled, acked>>
          /\ freed' = freed \cup {val[e]} /\ Go("main", "set_val")
        BY <1>3 DEF SetFree, Touch, heap, shape, memory, dict, fields, ghost
    <2>2. /\ main'.pc = "set_val" /\ main'.ent = e /\ main'.key = main.key /\ main'.obj = o
          /\ sweep' = sweep
        BY <2>1, GoMain
    <2>3. /\ e \in Held /\ main.key \in Keys /\ keyOf[e] = main.key /\ o \in Objects
          /\ exp[o] = 0 /\ \A x \in Held : val[x] # o
        BY <1>1, SettingIs
    <2>4. Live' = Live
        BY <2>1, <2>3, LiveIs DEF Live
    <2>5. Held' = Held
        BY <2>1 DEF Held
    <2>6. Apart'
        <3>1. InMainHand(main)'
            BY <2>1, <2>2, <2>3, <2>5 DEF InMainHand, Deleting, BeforePcs
        <3>2. Parting'
            BY <2>1, <2>5, PartingStays DEF Duo, Apart, Parting
        <3> QED
            BY <2>1, <2>2, <3>1, <3>2, SweepHandStays DEF Apart, Duo
    <2>7. ASSUME NEW c \in Classes, Clean(c), Kept(c) PROVE Hand(c, main)' /\ Promise(c)'
        <3>1. Hand(c, main)'
            <4>1. CASE Class(main.key) # c
                BY <2>2, <4>1 DEF Hand, FlushPcs, Class
            <4>2. CASE Class(main.key) = c
                <5>1. acked[main.key] = Nil /\ e \in Live /\ o \notin freed
                    BY <1>1, <2>7, <4>2, SettingIs
                <5>2. HandFor(c, main)'
                    BY <2>1, <2>2, <2>3, <2>4, <5>1 DEF HandFor, BeforePcs, PlacedPcs, GrowPcs
                <5> QED
                    BY <2>2, <5>2 DEF Hand, FlushPcs
            <4> QED
                BY <4>1, <4>2
        <3>2. Promise(c)'
            <4>1. ASSUME NEW x \in Of(c, Live), acked[keyOf[x]] = val[x]
                  PROVE  x \in Live /\ val[x] # val[e]
                <5>1. x \in Held /\ Class(keyOf[x]) = c /\ x \in Live /\ val[x] # Nil
                    BY LiveIs DEF Of
                <5>2. ASSUME val[x] = val[e] PROVE FALSE
                    <6>1. x = e
                        BY <2>3, <5>1, <5>2 DEF Duo, Apart, Parting
                    <6>2. acked[main.key] = Nil
                        BY <1>1, <2>3, <2>7, <5>1, <6>1, SettingIs
                    <6> QED
                        BY <2>3, <4>1, <5>1, <6>1, <6>2
                <5> QED
                    BY <5>1, <5>2
            <4>2. \A x \in Of(c, Live) : val[x] \notin freed /\ acked'[keyOf[x]] = val[x] =>
                      x \in Live' /\ keyOf'[x] = keyOf[x] /\ val'[x] = val[x] /\ val[x] \notin freed'
                BY <2>1, <2>4, <4>1
            <4> QED
                BY <2>1, <2>7, <4>2, PromiseStays DEF Kept
        <3> QED
            BY <3>1, <3>2
    <2>8. acked' \in [Keys -> Objects \cup {Nil}]
        BY <2>1 DEF Duo
    <2> QED
        BY <1>1, <2>1, <2>2, <2>4, <2>6, <2>7, <2>8, CalmKept, CalmPcsAre
<1> QED
    BY <1>2, <1>3

LEMMA SetValDuo ==
    ASSUME TypeInv, Duo, SetVal PROVE Duo'
<1> DEFINE e == main.ent
           o == main.obj
<1>1. main.pc = "set_val"
    BY DEF SetVal
<1>2. CASE {e} \cap freed # {}
    BY <1>2, DuoSame DEF SetVal, Touch
<1>3. CASE {e} \cap freed = {}
    <2>1. /\ UNCHANGED <<link, keyOf, exp, buckets, size, todo, allocated, freed, ttled, acked>>
          /\ val' = [val EXCEPT ![e] = o] /\ Go("main", "set_ack")
        BY <1>3 DEF SetVal, Touch, heap, shape, memory, dict, fields, ghost
    <2>2. main'.pc = "set_ack" /\ main'.key = main.key /\ main'.obj = o /\ sweep' = sweep
        BY <2>1, GoMain
    <2>3. /\ e \in Held /\ main.key \in Keys /\ keyOf[e] = main.key /\ o \in Objects
          /\ exp[o] = 0 /\ \A x \in Held : val[x] # o
        BY <1>1, SettingIs
    <2>4. Live' = Live /\ Held' = Held
        BY <2>1 DEF Live, Held
    <2>5. val'[e] = o /\ \A x \in Held : x # e => val'[x] = val[x]
        BY <2>1, <2>3, LiveIs DEF TypeInv, Heap
    <2>6. Apart'
        <3>1. \A x, y \in Held : val'[x] = val'[y] => x = y
            BY <2>3, <2>5 DEF Duo, Apart, Parting
        <3>2. \A x \in Held : exp[val'[x]] # 0 => keyOf[x] \in ttled
            BY <2>3, <2>5 DEF Duo, Apart, Parting
        <3>3. \A p \in Places : link'[p] # Nil /\ p \in allocated' \cup (Places \ Entries)
                                    => ClassAt(link[p])' = ClassAt(p)'
            BY <2>1 DEF ClassAt, Class, Duo, Apart, Parting
        <3>4. Parting'
            BY <2>1, <2>4, <3>1, <3>2, <3>3 DEF Duo, Apart, Parting, Multiple
        <3> QED
            BY <2>1, <2>2, <3>4, SweepHandStays, NoMainHand DEF Apart, Duo
    <2>7. ASSUME NEW c \in Classes, Clean(c), Kept(c) PROVE Hand(c, main)' /\ Promise(c)'
        <3>1. Hand(c, main)'
            <4>1. CASE Class(main.key) # c
                BY <2>2, <4>1 DEF Hand, FlushPcs, Class
            <4>2. CASE Class(main.key) = c
                <5>1. acked[main.key] = Nil /\ e \in Live /\ o \notin freed
                    BY <1>1, <2>7, <4>2, SettingIs
                <5>2. e \in Live' /\ keyOf'[e] = main.key /\ val'[e] = o /\ o \notin freed'
                    BY <2>1, <2>3, <2>4, <2>5, <5>1
                <5>3. HandFor(c, main)'
                    BY <2>1, <2>2, <5>1, <5>2 DEF HandFor, BeforePcs, PlacedPcs, GrowPcs, Served
                <5> QED
                    BY <2>2, <5>3 DEF Hand, FlushPcs
            <4> QED
                BY <4>1, <4>2
        <3>2. Promise(c)'
            <4>1. ASSUME NEW x \in Of(c, Live), acked[keyOf[x]] = val[x]
                  PROVE  x \in Live /\ x # e /\ x \in Held
                <5>1. x \in Held /\ Class(keyOf[x]) = c /\ x \in Live /\ val[x] # Nil
                    BY LiveIs DEF Of
                <5>2. ASSUME x = e PROVE FALSE
                    <6>1. acked[main.key] = Nil
                        BY <1>1, <2>3, <2>7, <5>1, <5>2, SettingIs
                    <6> QED
                        BY <2>3, <4>1, <5>1, <5>2, <6>1
                <5> QED
                    BY <5>1, <5>2
            <4>2. \A x \in Of(c, Live) : val[x] \notin freed /\ acked'[keyOf[x]] = val[x] =>
                      x \in Live' /\ keyOf'[x] = keyOf[x] /\ val'[x] = val[x] /\ val[x] \notin freed'
                BY <2>1, <2>4, <2>5, <4>1
            <4> QED
                BY <2>1, <2>7, <4>2, PromiseStays DEF Kept
        <3> QED
            BY <3>1, <3>2
    <2>8. acked' \in [Keys -> Objects \cup {Nil}]
        BY <2>1 DEF Duo
    <2> QED
        BY <1>1, <2>1, <2>2, <2>4, <2>6, <2>7, <2>8, CalmKept, CalmPcsAre
<1> QED
    BY <1>2, <1>3

LEMMA SetAckDuo ==
    ASSUME TypeInv, Duo, SetAck PROVE Duo'
<1> DEFINE k == main.key
           o == main.obj
<1>1. main.pc = "set_ack"
    BY DEF SetAck
<1>2. /\ UNCHANGED <<link, keyOf, val, exp, freed, buckets, size, todo, allocated, ttled>>
      /\ acked' = [acked EXCEPT ![k] = o] /\ Become("main", Idle)
    BY DEF SetAck, heap, shape, memory, dict, fields
<1>3. main'.pc = "idle" /\ sweep' = sweep
    BY <1>2, IdleMain
<1>4. k \in Keys /\ o \in Objects
    BY <1>1, MainIs DEF TypeInv, InMain, SetPcs, Locals
<1>5. Live' = Live /\ Held' = Held
    BY <1>2 DEF Live, Held
<1>6. Apart'
    <2>1. Parting'
        BY <1>2, <1>5, PartingStays DEF Duo, Apart, Parting
    <2> QED
        BY <1>2, <1>3, <2>1, SweepHandStays, NoMainHand DEF Apart, Duo
<1>7. acked' \in [Keys -> Objects \cup {Nil}]
    BY <1>2, <1>4 DEF Duo
<1>8. ASSUME NEW c \in Classes, Kept(c) PROVE Promise(c)'
    <2>1. Class(k) = c => Served(k, o)
        BY <1>1, <1>8 DEF Kept, Hand, HandFor, PlacedPcs, SetPcs
    <2>2. ASSUME NEW j \in Keys, Class(j) = c, acked'[j] # Nil PROVE Served(j, acked'[j])
        <3>1. CASE j = k
            BY <1>2, <1>4, <2>1, <2>2, <3>1 DEF Duo
        <3>2. CASE j # k
            BY <1>2, <1>8, <2>2, <3>2 DEF Duo, Kept, Promise
        <3> QED
            BY <3>1, <3>2
    <2> QED
        BY <1>2, <1>5, <2>2 DEF Promise, Served, Class
<1> QED
    BY <1>1, <1>2, <1>3, <1>5, <1>6, <1>7, <1>8, CalmKept, CalmPcsAre, NoHand

-----------------------------------------------------------------------------
(* Pointers that change *)

\* Pointers of places handed out are turned to entries of the places' classes.
LEMMA PartingLinked ==
    ASSUME TypeInv, Apart, UNCHANGED <<keyOf, val, exp, size, allocated, ttled, todo>>,
           \A p \in Places : \/ link'[p] = link[p]
                            \/ /\ Cell(p) \in allocated
                               /\ link'[p] # Nil => ClassAt(link'[p]) = ClassAt(p)
    PROVE  Parting'
<1>1. \A r : ClassAt(r)' = IF r \in Entries THEN Class(keyOf[r]) ELSE (r[2] - 1) % InitialSize
    BY DEF ClassAt, Class
<1>2. \A r \in Places : link'[r] # Nil /\ r \in allocated' \cup (Places \ Entries)
                            => ClassAt(link[r])' = ClassAt(r)'
    BY <1>1 DEF Apart, Parting, ClassAt
<1>3. ASSUME NEW t \in Tables \ allocated, NEW i \in 1 .. MaxSize PROVE link'[<<t, i>>] = Nil
    <2>1. <<t, i>> \in Places /\ Cell(<<t, i>>) \notin allocated
        BY CellsAreDistinct DEF Places, Cell
    <2> QED
        BY <2>1 DEF Apart, Parting
<1>4. Held' = Held
    BY DEF Held
<1> QED
    BY <1>2, <1>3, <1>4 DEF Apart, Parting, Multiple

\* The buckets of a class and its entries.
LEMMA NowSlots ==
    ASSUME TypeInv, NEW c
    PROVE  /\ SlotsOf(c, buckets, 1, size) \subseteq Places
           /\ SlotsOf(c, buckets, 1, size) \cap Entries = {}
           /\ \A p \in SlotsOf(c, buckets, 1, size) : ClassAt(p) = c
           /\ \A k \in Keys : Class(k) = c /\ Multiple(size) => Bucket(k) \in SlotsOf(c, buckets, 1, size)
           /\ Of(c, Hanging) \subseteq Entries /\ Nil \notin Of(c, Hanging)
           /\ SlotsOf(c, buckets, 1, size) \cap Of(c, Hanging) = {}
           /\ SlotsOf(c, buckets, 1, size) \cup Of(c, Hanging) \subseteq DOMAIN link
<1> DEFINE P == SlotsOf(c, buckets, 1, size)
<1>1. 1 \in Nat \ {0} /\ size \in Nat /\ size <= MaxSize /\ buckets \in Tables
    BY LiveIs, Sizes
<1>2. P \subseteq Places /\ P \cap Entries = {} /\ \A p \in P : ClassAt(p) = c
    <2>1. P \subseteq Places \ Entries /\ \A p \in P : ClassAt(p) = c
        BY LiveIs, SlotsOfAre, Sizes
    <2> QED
        BY <2>1
<1>3. ASSUME NEW k \in Keys, Class(k) = c, Multiple(size) PROVE Bucket(k) \in P
    <2>1. BucketOf(k, size) \in 1 .. size /\ (BucketOf(k, size) - 1) % InitialSize = c
        BY <1>3, ClassIs, BucketOfIs, LiveIs
    <2> QED
        BY <2>1 DEF Bucket, SlotsOf
<1>4. Of(c, Hanging) \subseteq Entries /\ Of(c, Hanging) \subseteq Places
    BY LiveIs DEF Of
<1> QED
    BY <1>2, <1>3, <1>4, LiveIs

LEMMA SteadyShape ==
    ASSUME NEW c, main'.pc \in SteadyPcs, HangsIn(c, buckets, size)',
           \A d, e \in Of(c, Live)' : keyOf'[d] = keyOf'[e] => d = e
    PROVE  Shape(c)'
<1>1. main'.pc \notin GrowPcs \cup FlushPcs
    BY DEF SteadyPcs
<1> QED
    BY <1>1 DEF Shape, GrowPcs, FlushPcs

\* Pointers that are changed elsewhere.
LEMMA HangsStay ==
    ASSUME TypeInv, NEW c, HangsIn(c, buckets, size), UNCHANGED <<buckets, size>>,
           Of(c, Hanging)' = Of(c, Hanging), \A e \in Of(c, Hanging) : keyOf'[e] = keyOf[e],
           \A p \in Places : ClassAt(p) = c /\ p \in allocated \cup (Places \ Entries)
                                => link'[p] = link[p]
    PROVE  HangsIn(c, buckets, size)'
<1> DEFINE P == SlotsOf(c, buckets, 1, size)
           H == Of(c, Hanging)
<1>1. P \subseteq Places /\ P \cap Entries = {} /\ \A p \in P : ClassAt(p) = c
    BY NowSlots
<1>2. \A e \in H : e \in Entries /\ e \in allocated /\ ClassAt(e) = c
    BY LiveIs DEF Of, ClassAt
<1>3. \A p \in P \cup H : link'[p] = link[p]
    BY <1>1, <1>2, LiveIs
<1>4. Tree(link, H, P, Nil) /\ Fits(link, keyOf, size, P, H) /\ \A e \in H : keyOf'[e] = keyOf[e]
    BY DEF HangsIn
<1>5. Tree(link', H, P, Nil) /\ Fits(link', keyOf', size, P, H)
    <2> HIDE DEF P, H
    <2>1. Tree(link', H, P, Nil)
        BY <1>3, <1>4, SameTree
    <2>2. Fits(link', keyOf', size, P, H)
        BY <1>3, <1>4, SameFits
    <2> QED
        BY <2>1, <2>2
<1> QED
    BY <1>5 DEF HangsIn, SlotsOf

\* Another class is changed.
LEMMA ShapeElsewhere ==
    ASSUME TypeInv, NEW c, Kept(c), main.pc \in SteadyPcs, main'.pc \in SteadyPcs,
           UNCHANGED <<buckets, size>>, Of(c, Hanging)' = Of(c, Hanging),
           \A e \in Of(c, Live)' : e \in Of(c, Live) /\ keyOf'[e] = keyOf[e],
           \A p \in Places : ClassAt(p) = c /\ p \in allocated \cup (Places \ Entries)
                                => link'[p] = link[p]
    PROVE  Shape(c)'
<1>1. HangsIn(c, buckets, size) /\ \A d, e \in Of(c, Live) : keyOf[d] = keyOf[e] => d = e
    BY DEF Kept, Shape
<1>2. ASSUME NEW e \in Of(c, Hanging) PROVE keyOf'[e] = keyOf[e]
    <2>1. e \in Of(c, Hanging)'
        OBVIOUS
    <2>2. e \in Of(c, Live)'
        BY <2>1 DEF Of, Hanging
    <2> QED
        BY <2>2
<1>3. HangsIn(c, buckets, size)'
    BY <1>1, <1>2, HangsStay
<1>4. \A d, e \in Of(c, Live)' : keyOf'[d] = keyOf'[e] => d = e
    BY <1>1
<1> QED
    BY <1>3, <1>4, SteadyShape

\* An entry and its object are freed, for which no answer stands.
LEMMA FreedPromise ==
    ASSUME TypeInv, Apart, NEW c, Promise(c), NEW e \in Held, freed' = freed \cup {e, val[e]},
           Class(keyOf[e]) = c => acked[keyOf[e]] = Nil,
           UNCHANGED <<keyOf, val, allocated, acked>>
    PROVE  Promise(c)'
<1>1. ASSUME NEW x \in Of(c, Live), val[x] \notin freed, acked'[keyOf[x]] = val[x]
      PROVE  x \in Live' /\ val[x] \notin freed'
    <2>1. x \in Held /\ Class(keyOf[x]) = c /\ x \in Live /\ val[x] # Nil /\ val[x] \in Objects
        BY LiveIs DEF Of
    <2>2. x # e
        BY <1>1, <2>1
    <2>3. val[x] # val[e]
        BY <2>1, <2>2 DEF Apart, Parting
    <2>4. val[x] # e /\ x # val[e]
        BY <2>1, LiveIs
    <2> QED
        BY <1>1, <2>1, <2>2, <2>3, <2>4 DEF Live
<1> QED
    BY <1>1, PromiseStays

\* A promise about entries and objects that are as they were.
LEMMA PromiseSame ==
    ASSUME NEW c, Promise(c), UNCHANGED <<keyOf, val, freed, acked>>, Live \subseteq Live'
    PROVE  Promise(c)'
<1>1. \A e \in Of(c, Live) : e \in Live'
    BY DEF Of
<1> QED
    BY <1>1, PromiseStays

LEMMA DelUnlinkDuo ==
    ASSUME TypeInv, Duo, DelUnlink("main") PROVE Duo'
<1> DEFINE e == main.ent
           p == main.prev
<1>1. main.pc = "del_unlink"
    BY DEF DelUnlink, main
<1>2. CASE {e, Cell(p)} \cap freed # {}
    BY <1>2, DuoSame DEF DelUnlink, Touch, main
<1>3. CASE {e, Cell(p)} \cap freed = {}
    <2>1. /\ UNCHANGED <<keyOf, val, exp, freed, buckets, size, todo, allocated, ttled, acked>>
          /\ link' = [link EXCEPT ![p] = link[e]] /\ Go("main", "del_free")
        BY <1>3 DEF DelUnlink, Touch, main, memory, dict, fields, ghost
    <2>2. /\ main'.pc = "del_free" /\ main'.ent = e /\ main'.key = main.key
          /\ sweep' = sweep
        BY <2>1, GoMain
    <2>3. e \in Held /\ main.key \in Keys
        BY <1>1, MainIs DEF TypeInv, InCheck, CheckPcs, Locals, Held
    <2>4. /\ keyOf[e] = main.key /\ p \in Places /\ Cell(p) \in allocated
          /\ ClassAt(p) = Class(main.key)
        BY <1>1 DEF Duo, Apart, InMainHand, Deleting
    <2>5. link[e] # Nil => ClassAt(link[e]) = ClassAt(p)
        BY <2>3, <2>4, LiveIs DEF Duo, Apart, Parting, ClassAt
    <2>6. Apart'
        <3>1. Parting'
            <4>1. \A r \in Places : link'[r] = IF r = p THEN link[e] ELSE link[r]
                BY <2>1, LiveIs
            <4> QED
                BY <2>1, <2>4, <2>5, <4>1, PartingLinked DEF Duo
        <3>2. InMainHand(main)'
            BY <2>1, <2>2, <2>4 DEF InMainHand, Deleting, BeforePcs, GrowPcs
        <3> QED
            BY <2>1, <2>2, <3>1, <3>2, SweepHandStays DEF Apart, Duo
    <2>7. Live' = Live /\ Aside = {} /\ Aside' = {e} /\ Hanging = Live /\ Hanging' = Live \ {e}
        BY <1>1, <2>1, <2>2 DEF Live, Aside, Hanging
    <2>8. \A c : Of(c, Live)' = Of(c, Live) /\ Of(c, Hanging)' = Of(c, Hanging) \ {e}
        BY <2>1, <2>7 DEF Of, Class
    <2>9. main.pc \in SteadyPcs /\ main'.pc \in SteadyPcs
        BY <1>1, <2>2, PcsAre
    <2>10. ASSUME NEW c \in Classes, Clean(c), Kept(c) PROVE Kept(c)'
        <3>1. Promise(c)'
            BY <2>1, <2>7, <2>10, PromiseSame DEF Kept
        <3>2. CASE Class(main.key) # c
            <4>1. Hand(c, main)'
                BY <2>2, <3>2 DEF Hand, FlushPcs, Class
            <4>2. Of(c, Hanging)' = Of(c, Hanging)
                BY <2>4, <2>8, <3>2 DEF Of
            <4>3. \A r \in Places : ClassAt(r) = c => link'[r] = link[r]
                BY <2>1, <2>4, <3>2
            <4>4. Shape(c)'
                BY <2>1, <2>8, <2>9, <2>10, <4>2, <4>3, ShapeElsewhere
            <4> QED
                BY <3>1, <4>1, <4>4 DEF Kept
        <3>3. CASE Class(main.key) = c
            <4> DEFINE P == SlotsOf(c, buckets, 1, size)
                       H == Of(c, Hanging)
            <4>1. /\ acked[main.key] = Nil /\ e \in H /\ p \in P \cup H /\ link[p] = e
                BY <1>1, <2>10, <3>3 DEF Kept, Hand, HandFor, DelPcs
            <4>2. Hand(c, main)'
                BY <2>1, <2>2, <4>1 DEF Hand, HandFor, FlushPcs, BeforePcs, PlacedPcs, GrowPcs
            <4>3. /\ Tree(link, H, P, Nil) /\ Fits(link, keyOf, size, P, H)
                  /\ \A x, y \in Of(c, Live) : keyOf[x] = keyOf[y] => x = y
                BY <2>9, <2>10 DEF Kept, Shape, HangsIn
            <4>5. /\ Nil \notin H /\ P \cap H = {} /\ P \cup H \subseteq DOMAIN link
                BY NowSlots
            <4>6. Tree(link', H \ {e}, P, Nil) /\ Fits(link', keyOf, size, P, H \ {e})
                <5> HIDE DEF P, H
                <5>1. Tree(link', H \ {e}, P, Nil)
                    BY <2>1, <4>1, <4>3, <4>5, UnlinkTree
                <5>2. Fits(link', keyOf, size, P, H \ {e})
                    BY <2>1, <4>1, <4>3, <4>5, UnlinkFits
                <5> QED
                    BY <5>1, <5>2
            <4>7. HangsIn(c, buckets, size)'
                BY <2>1, <2>8, <4>6 DEF HangsIn, SlotsOf
            <4>8. Shape(c)'
                BY <2>1, <2>8, <2>9, <4>3, <4>7, SteadyShape
            <4> QED
                BY <3>1, <4>2, <4>8 DEF Kept
        <3> QED
            BY <3>2, <3>3
    <2> QED
        BY <2>1, <2>6, <2>10 DEF Duo, Clean, Class
<1> QED
    BY <1>2, <1>3

LEMMA DelFreeDuo ==
    ASSUME TypeInv, Duo, DelFree("main") PROVE Duo'
<1> DEFINE e == main.ent
<1>1. main.pc = "del_free"
    BY DEF DelFree, main
<1>2. CASE {e, val[e]} \cap freed # {}
    BY <1>2, DuoSame DEF DelFree, Touch, main
<1>3. CASE {e, val[e]} \cap freed = {}
    <2>1. /\ UNCHANGED <<link, keyOf, val, exp, buckets, size, todo, allocated, ttled, acked>>
          /\ freed' = freed \cup {e, val[e]} /\ Ahead("main", "del_load")
        BY <1>3 DEF DelFree, Touch, main, shape, dict, fields, ghost
    <2>2. main'.pc = "del_load" /\ main'.key = main.key /\ sweep' = sweep
        BY <2>1, AheadMain
    <2>3. e \in Held /\ main.key \in Keys
        BY <1>1, MainIs DEF TypeInv, InCheck, CheckPcs, Locals, Held
    <2>4. keyOf[e] = main.key
        BY <1>1 DEF Duo, Apart, InMainHand, Deleting
    <2>5. Held' = Held /\ Live' = Live \ {e} /\ Hanging = Live \ {e} /\ Hanging' = Live \ {e}
        <3>1. Live' = Live \ {e}
            BY <2>1, <2>3, LiveIs DEF Live
        <3> QED
            BY <1>1, <2>1, <2>2, <3>1 DEF Held, Aside, Hanging
    <2>6. Apart'
        <3>1. Parting'
            BY <2>1, <2>5, PartingStays DEF Duo, Apart, Parting
        <3> QED
            BY <2>1, <2>2, <3>1, NoMainHand, SweepHandStays DEF Apart, Duo
    <2>7. main.pc \in SteadyPcs /\ main'.pc \in SteadyPcs
        BY <1>1, <2>2, PcsAre
    <2>8. ASSUME NEW c \in Classes, Kept(c) PROVE Kept(c)'
        <3>1. Class(main.key) = c => acked[main.key] = Nil
            BY <1>1, <2>8 DEF Kept, Hand, HandFor, DelPcs
        <3>2. Promise(c)'
            BY <2>1, <2>3, <2>4, <2>8, <3>1, FreedPromise DEF Kept, Duo
        <3>3. Hand(c, main)'
            BY <2>1, <2>2, <3>1
               DEF Hand, HandFor, FlushPcs, BeforePcs, PlacedPcs, GrowPcs, SetPcs, Class
        <3>4. Of(c, Hanging)' = Of(c, Hanging)
            BY <2>1, <2>5 DEF Of, Class
        <3>5. \A x \in Of(c, Live)' : x \in Of(c, Live)
            BY <2>1, <2>5 DEF Of, Class
        <3>6. Shape(c)'
            BY <2>1, <2>7, <2>8, <3>4, <3>5, ShapeElsewhere
        <3> QED
            BY <3>2, <3>3, <3>6 DEF Kept
    <2> QED
        BY <2>1, <2>6, <2>8 DEF Duo, Clean, Class
<1> QED
    BY <1>2, <1>3

-----------------------------------------------------------------------------
(* A new entry *)

LEMMA SetNewDuo ==
    ASSUME TypeInv, Duo, SetNew PROVE Duo'
<1> DEFINE k == main.key
           o == main.obj
<1>1. main.pc = "set_new" /\ k \in Keys /\ o \in Objects
    BY MainIs DEF SetNew, TypeInv, InMain, SetPcs, Locals
<1>2. PICK e : e = Fresh(Entries)
    OBVIOUS
<1>3. e \in Entries /\ e \notin allocated /\ e \notin freed /\ e \in Places /\ Nil # e
    <2>1. Entries \ allocated # {}
        BY <1>1, MainIs DEF TypeInv, InMain
    <2> QED
        BY <1>2, <2>1, FreshIs, LiveIs DEF TypeInv, Heap
<1>4. /\ allocated' = allocated \cup {e} /\ keyOf' = [keyOf EXCEPT ![e] = k]
      /\ val' = [val EXCEPT ![e] = o] /\ link' = [link EXCEPT ![e] = link[Bucket(k)]]
      /\ UNCHANGED <<exp, freed, buckets, size, todo, ttled, acked>>
    BY <1>2 DEF SetNew, dict, fields, ghost
<1>5. /\ main'.pc = "set_link" /\ main'.ent = e /\ main'.key = k /\ main'.obj = o
      /\ sweep' = sweep
    <2>1. PICK r : r = [main EXCEPT !.ent = e, !.pc = "set_link"]
        OBVIOUS
    <2>2. Become("main", r)
        BY <1>2, <2>1 DEF SetNew
    <2>3. r.pc = "set_link" /\ r.ent = e /\ r.key = k /\ r.obj = o
        BY <2>1, MainIs DEF TypeInv, Locals
    <2> QED
        BY <2>2, <2>3, BecomeMain
<1>6. /\ keyOf'[e] = k /\ val'[e] = o /\ link'[e] = link[Bucket(k)]
      /\ \A p \in Places : p # e => link'[p] = link[p]
      /\ \A x \in Held : keyOf'[x] = keyOf[x] /\ val'[x] = val[x] /\ x # e
    BY <1>3, <1>4, LiveIs DEF TypeInv, Heap, Held
<1>7. Held' = Held \cup {e} /\ Live' = Live \cup {e} /\ Hanging = Live /\ Hanging' = Live
    <2>1. Held' = Held \cup {e} /\ Live' = Live \cup {e}
        BY <1>3, <1>4 DEF Held, Live
    <2> QED
        BY <1>1, <1>3, <1>5, <2>1, LiveIs DEF Hanging, Aside
<1>8. Multiple(size) /\ exp[o] = 0 /\ \A x \in Held : val[x] # o
    BY <1>1 DEF Duo, Apart, Parting, InMainHand, BeforePcs
<1>9. /\ Class(k) \in Classes /\ Bucket(k) \in Places /\ Bucket(k) \notin Entries
      /\ ClassAt(Bucket(k)) = Class(k)
    BY <1>1, <1>8, NowSlots, ClassIs, LiveIs
<1>10. Apart'
    <2>1. \A p \in Places : p # e => ClassAt(p)' = ClassAt(p)
        BY <1>4 DEF ClassAt, Class
    <2>2. ClassAt(e)' = Class(k)
        BY <1>3, <1>6 DEF ClassAt, Class
    <2>3. \A p \in Places : link[p] # Nil => link[p] \in Places /\ link[p] # e
        BY <1>3, LiveIs DEF TypeInv, Heap
    <2>4. ASSUME NEW p \in Places, link'[p] # Nil, p \in allocated' \cup (Places \ Entries)
          PROVE  ClassAt(link[p])' = ClassAt(p)'
        <3>1. CASE p = e
            <4>1. link[Bucket(k)] # Nil /\ link[Bucket(k)] # e /\ link[Bucket(k)] \in Places
                BY <1>6, <1>9, <2>3, <2>4, <3>1
            <4>2. ClassAt(link[Bucket(k)]) = Class(k)
                BY <1>9, <4>1 DEF Duo, Apart, Parting
            <4>3. link'[p] = link[Bucket(k)]
                BY <1>6, <3>1
            <4>4. ClassAt(link[p])' = Class(k)
                <5>1. PICK q : q = link[Bucket(k)]
                    OBVIOUS
                <5>2. link'[p] = q /\ ClassAt(q)' = ClassAt(q) /\ ClassAt(q) = Class(k)
                    BY <2>1, <4>1, <4>2, <4>3, <5>1
                <5> QED
                    BY <5>2 DEF ClassAt
            <4> QED
                BY <2>2, <3>1, <4>4
        <3>2. CASE p # e
            <4>1. link'[p] = link[p] /\ p \in allocated \cup (Places \ Entries)
                BY <1>4, <1>6, <2>4, <3>2
            <4>2. ClassAt(link[p]) = ClassAt(p) /\ link[p] \in Places /\ link[p] # e
                BY <2>3, <2>4, <4>1 DEF Duo, Apart, Parting
            <4>3. PICK q : q = link[p]
                OBVIOUS
            <4>4. ClassAt(q)' = ClassAt(q) /\ ClassAt(p)' = ClassAt(p) /\ link'[p] = q
                BY <2>1, <3>2, <4>1, <4>2, <4>3
            <4> QED
                BY <4>2, <4>3, <4>4 DEF ClassAt
        <3> QED
            BY <3>1, <3>2
    <2>5. \A x, y \in Held' : val'[x] = val'[y] => x = y
        BY <1>6, <1>7, <1>8 DEF Duo, Apart, Parting
    <2>6. \A x \in Held' : exp'[val'[x]] # 0 => keyOf'[x] \in ttled'
        BY <1>4, <1>6, <1>7, <1>8 DEF Duo, Apart, Parting
    <2>7. \A x \in Objects \ allocated' : exp'[x] = 0
        BY <1>4 DEF Duo, Apart, Parting
    <2>8. ASSUME NEW t \in Tables \ allocated', NEW i \in 1 .. MaxSize PROVE link'[<<t, i>>] = Nil
        <3>1. <<t, i>> \in Places /\ <<t, i>> # e /\ t \notin allocated
            BY <1>3, <1>4, CellsAreDistinct DEF Places
        <3> QED
            BY <1>6, <3>1 DEF Duo, Apart, Parting
    <2>9. Parting'
        BY <1>4, <2>4, <2>5, <2>6, <2>7, <2>8 DEF Duo, Apart, Parting, Multiple
    <2>10. InMainHand(main)'
        BY <1>5, <1>6 DEF InMainHand, Deleting, BeforePcs, GrowPcs
    <2>11. InSweepHand(sweep)'
        BY <1>4, <1>5, <1>6, SweepHandStays DEF Duo
    <2> QED
        BY <2>9, <2>10, <2>11 DEF Apart
<1>11. ASSUME NEW c \in Classes, Clean(c), Kept(c) PROVE Kept(c)'
    <2>1. HangsIn(c, buckets, size) /\ \A x, y \in Of(c, Live) : keyOf[x] = keyOf[y] => x = y
        BY <1>1, <1>11, PcsAre DEF Kept, Shape
    <2>2. Of(c, Hanging)' = Of(c, Hanging) /\ Of(c, Live)' \subseteq Of(c, Live) \cup {e}
        BY <1>6, <1>7, LiveIs DEF Of, Class
    <2>3. HangsIn(c, buckets, size)'
        <3>1. \A x \in Of(c, Hanging) : keyOf'[x] = keyOf[x]
            BY <1>6, <1>7, LiveIs DEF Of
        <3>2. \A p \in Places : p \in allocated \cup (Places \ Entries) => link'[p] = link[p]
            BY <1>3, <1>6
        <3> QED
            BY <1>4, <2>1, <2>2, <3>1, <3>2, HangsStay
    <2>4. ASSUME NEW x \in Of(c, Live)', NEW y \in Of(c, Live)', keyOf'[x] = keyOf'[y]
          PROVE  x = y
        <3>1. \A z \in Of(c, Live) : keyOf'[z] = keyOf[z]
            BY <1>6, LiveIs DEF Of
        <3>2. ASSUME e \in Of(c, Live)' PROVE \A z \in Of(c, Live) : keyOf[z] # k
            <4>1. Class(k) = c
                BY <1>6, <3>2 DEF Of, Class
            <4> QED
                BY <1>1, <1>11, <4>1 DEF Kept, Hand, HandFor, SetPcs
        <3> QED
            BY <1>6, <2>1, <2>2, <2>4, <3>1, <3>2
    <2>5. Shape(c)'
        BY <1>5, <2>3, <2>4, SteadyShape, PcsAre
    <2>6. Promise(c)'
        <3>1. \A x \in Of(c, Live) : x \in Live' /\ keyOf'[x] = keyOf[x] /\ val'[x] = val[x]
            BY <1>6, <1>7, LiveIs DEF Of
        <3>2. Promise(c)
            BY <1>11 DEF Kept
        <3> QED
            BY <1>4, <3>1, <3>2, PromiseStays
    <2>7. Hand(c, main)'
        <3>1. CASE Class(k) # c
            BY <1>5, <3>1 DEF Hand, FlushPcs, Class
        <3>2. CASE Class(k) = c
            <4>1. acked[k] = Nil /\ o \notin freed
                BY <1>1, <1>11, <3>2 DEF Kept, Hand, HandFor, SetPcs, BeforePcs
            <4>2. Served(main.key, main.obj)'
                <5>1. e \in Live' /\ keyOf'[e] = k /\ val'[e] = o /\ o \notin freed'
                    BY <1>4, <1>6, <1>7, <4>1
                <5> QED
                    BY <1>5, <5>1 DEF Served
            <4>3. link'[main'.ent] = link'[Bucket(main.key)']
                <5>1. Bucket(main.key)' = Bucket(k) /\ Bucket(k) # e
                    BY <1>3, <1>4, <1>5, <1>9 DEF Bucket
                <5> QED
                    BY <1>5, <1>6, <1>9, <5>1
            <4>4. main'.ent \in Live'
                BY <1>5, <1>7
            <4>5. HandFor(c, main)'
                BY <1>4, <1>5, <4>1, <4>2, <4>3, <4>4 DEF HandFor, BeforePcs, GrowPcs
            <4> QED
                BY <1>5, <4>5 DEF Hand, FlushPcs
        <3> QED
            BY <3>1, <3>2
    <2> QED
        BY <2>5, <2>6, <2>7 DEF Kept
<1> QED
    BY <1>4, <1>10, <1>11 DEF Duo, Clean, Class

LEMMA SetLinkDuo ==
    ASSUME TypeInv, Duo, SetLink PROVE Duo'
<1> DEFINE k == main.key
           e == main.ent
<1>1. main.pc = "set_link" /\ k \in Keys /\ e \in Held
    BY MainIs DEF SetLink, TypeInv, InMain, SetPcs, Locals, Held
<1>2. /\ link' = [link EXCEPT ![Bucket(k)] = e] /\ Go("main", "set_load")
      /\ UNCHANGED <<keyOf, val, exp, freed, allocated, buckets, size, todo, ttled, acked>>
    BY DEF SetLink, memory, dict, fields, ghost
<1>3. main'.pc = "set_load" /\ main'.key = k /\ main'.obj = main.obj /\ sweep' = sweep
    BY <1>2, GoMain
<1>4. keyOf[e] = k /\ Multiple(size)
    BY <1>1 DEF Duo, Apart, Parting, InMainHand
<1>5. /\ Class(k) \in Classes /\ Bucket(k) \in Places /\ Bucket(k) \notin Entries
      /\ ClassAt(Bucket(k)) = Class(k) /\ Cell(Bucket(k)) = buckets
    BY <1>1, <1>4, NowSlots, ClassIs, LiveIs DEF Cell, Bucket
<1>6. link'[Bucket(k)] = e /\ \A p \in Places : p # Bucket(k) => link'[p] = link[p]
    BY <1>2, <1>5, LiveIs
<1>7. Apart'
    <2>1. ClassAt(e) = ClassAt(Bucket(k))
        BY <1>1, <1>4, <1>5, LiveIs DEF ClassAt
    <2>2. Parting'
        BY <1>2, <1>5, <1>6, <2>1, PartingLinked, LiveIs DEF Duo
    <2> QED
        BY <1>2, <1>3, <2>2, NoMainHand, SweepHandStays DEF Apart, Duo
<1>8. Live' = Live /\ Hanging = Live \ {e} /\ Hanging' = Live
    BY <1>1, <1>2, <1>3 DEF Live, Hanging, Aside
<1>9. main.pc \in SteadyPcs /\ main'.pc \in SteadyPcs
    BY <1>1, <1>3, PcsAre
<1>10. ASSUME NEW c \in Classes, Kept(c) PROVE Kept(c)'
    <2>1. Promise(c)'
        BY <1>2, <1>8, <1>10, PromiseSame DEF Kept
    <2>2. Of(c, Live)' = Of(c, Live)
        BY <1>2, <1>8 DEF Of, Class
    <2>3. CASE Class(k) # c
        <3>1. Hand(c, main)'
            BY <1>3, <2>3 DEF Hand, FlushPcs, Class
        <3>2. Of(c, Hanging)' = Of(c, Hanging)
            BY <1>2, <1>4, <1>8, <2>3 DEF Of, Class
        <3>3. \A p \in Places : ClassAt(p) = c => link'[p] = link[p]
            BY <1>5, <1>6, <2>3
        <3>4. Shape(c)'
            BY <1>2, <1>9, <1>10, <2>2, <3>2, <3>3, ShapeElsewhere
        <3> QED
            BY <2>1, <3>1, <3>4 DEF Kept
    <2>4. CASE Class(k) = c
        <3> DEFINE P == SlotsOf(c, buckets, 1, size)
                   H == Of(c, Hanging)
        <3>1. /\ acked[k] = Nil /\ e \in Live /\ link[e] = link[Bucket(k)]
              /\ Served(k, main.obj)
            BY <1>1, <1>10, <2>4 DEF Kept, Hand, HandFor, SetPcs, PlacedPcs
        <3>2. Hand(c, main)'
            <4>1. Served(k, main.obj)'
                BY <1>2, <1>3, <1>8, <3>1 DEF Served
            <4> QED
                BY <1>2, <1>3, <3>1, <4>1 DEF Hand, HandFor, FlushPcs, BeforePcs, GrowPcs
        <3>3. /\ Tree(link, H, P, Nil) /\ Fits(link, keyOf, size, P, H)
              /\ \A x, y \in Of(c, Live) : keyOf[x] = keyOf[y] => x = y
            BY <1>9, <1>10 DEF Kept, Shape, HangsIn
        <3>4. Nil \notin H /\ P \cap H = {} /\ P \cup H \subseteq DOMAIN link /\ Bucket(k) \in P
            BY <1>1, <1>4, <2>4, NowSlots
        <3>5. e \notin H \cup P \cup {Nil}
            BY <1>1, <1>8, NowSlots, LiveIs DEF Of
        <3>6. Of(c, Hanging)' = H \cup {e}
            BY <1>2, <1>4, <1>8, <2>4, <3>1 DEF Of, Class
        <3>7. BucketOf(keyOf[e], size) = Bucket(k)[2]
            BY <1>4 DEF Bucket
        <3>8. Tree(link', H \cup {e}, P, Nil) /\ Fits(link', keyOf, size, P, H \cup {e})
            <4> HIDE DEF P, H
            <4>1. Tree(link', H \cup {e}, P, Nil)
                BY <1>2, <3>1, <3>3, <3>4, <3>5, PushTree
            <4>2. Fits(link', keyOf, size, P, H \cup {e})
                BY <1>2, <3>1, <3>3, <3>4, <3>5, <3>7, PushFits
            <4> QED
                BY <4>1, <4>2
        <3>9. HangsIn(c, buckets, size)'
            BY <1>2, <3>6, <3>8 DEF HangsIn, SlotsOf
        <3>10. Shape(c)'
            BY <1>2, <1>9, <2>2, <3>3, <3>9, SteadyShape
        <3> QED
            BY <2>1, <3>2, <3>10 DEF Kept
    <2> QED
        BY <2>3, <2>4
<1> QED
    BY <1>2, <1>7, <1>10 DEF Duo, Clean, Class

-----------------------------------------------------------------------------
(* Loops over the buckets of a table *)

\* The first of the buckets a to b, if it is of class c, and the others.
LEMMA NextSlotsOf ==
    ASSUME NEW c, NEW t, NEW a \in Nat \ {0}, NEW b \in Nat, a <= b
    PROVE  /\ (a - 1) % InitialSize = c =>
                  /\ <<t, a>> \in SlotsOf(c, t, a, b)
                  /\ SlotsOf(c, t, a, b) \ {<<t, a>>} = SlotsOf(c, t, a + 1, b)
           /\ (a - 1) % InitialSize # c => SlotsOf(c, t, a, b) = SlotsOf(c, t, a + 1, b)
<1>1. \A i : i \in a .. b <=> i = a \/ i \in a + 1 .. b
    OBVIOUS
<1>2. \A i \in a + 1 .. b : i # a
    OBVIOUS
<1>3. CASE (a - 1) % InitialSize = c
    <2>1. {j \in a .. b : (j - 1) % InitialSize = c}
              = {a} \cup {j \in a + 1 .. b : (j - 1) % InitialSize = c}
        BY <1>1, <1>3
    <2> QED
        BY <1>2, <1>3, <2>1 DEF SlotsOf
<1>4. CASE (a - 1) % InitialSize # c
    <2>1. {j \in a .. b : (j - 1) % InitialSize = c} = {j \in a + 1 .. b : (j - 1) % InitialSize = c}
        BY <1>1, <1>4
    <2> QED
        BY <1>4, <2>1 DEF SlotsOf
<1> QED
    BY <1>3, <1>4

\* A loop with nothing in hand takes the head of the next bucket of the table.
LEMMA TakeBucket ==
    ASSUME TypeInv, Apart, NEW c, NEW H, H \subseteq Entries, NEW Q, Q \cap H = {},
           NEW a \in 1 .. size, <<buckets, a>> \notin Q,
           Tree(link, H, Q \cup SlotsOf(c, buckets, a, size), Nil),
           NEW r, r.ent = link[<<buckets, a>>]
    PROVE  /\ Tree(link, H, Q \cup SlotsOf(c, buckets, a + 1, size), Walked(c, r))
           /\ Walked(c, r) # Nil => <<buckets, a>> \in SlotsOf(c, buckets, a, size)
<1> DEFINE s == <<buckets, a>>
           P == Q \cup SlotsOf(c, buckets, a, size)
           R == Q \cup SlotsOf(c, buckets, a + 1, size)
<1>1. /\ a \in Nat \ {0} /\ size \in Nat /\ size <= MaxSize /\ a <= size
      /\ buckets \in Tables
    BY LiveIs, Sizes
<1>2. s \in Places \ Entries
    <2>1. a \in 1 .. MaxSize
        BY <1>1, Sizes
    <2> QED
        BY <1>1, <2>1, CellsAreDistinct DEF Places
<1>3. SlotsOf(c, buckets, a, size) \cap H = {}
    <2>1. SlotsOf(c, buckets, a, size) \cap Entries = {}
        BY <1>1, SlotsOfAre
    <2> QED
        BY <2>1
<1>4. link[s] # Nil => link[s] \in Entries /\ Class(keyOf[link[s]]) = (a - 1) % InitialSize
    <2>1. link[s] \in Entries \cup {Nil}
        BY <1>2 DEF TypeInv, Heap
    <2>2. link[s] # Nil => ClassAt(link[s]) = ClassAt(s)
        BY <1>2 DEF Apart, Parting
    <2>3. ClassAt(s) = (a - 1) % InitialSize
        BY <1>2 DEF ClassAt
    <2> QED
        BY <2>1, <2>2, <2>3 DEF ClassAt
<1>5. CASE (a - 1) % InitialSize = c
    <2>1. /\ s \in SlotsOf(c, buckets, a, size)
          /\ SlotsOf(c, buckets, a, size) \ {s} = SlotsOf(c, buckets, a + 1, size)
        BY <1>1, <1>5, NextSlotsOf
    <2>p. s \in P /\ P \ {s} = R
        BY <2>1
    <2>2. Walked(c, r) = link[s]
        BY <1>4, <1>5 DEF Walked
    <2>3. Nil \notin H /\ P \cap H = {}
        BY <1>3, LiveIs
    <2>4. Tree(link, H, P, Nil)
        OBVIOUS
    <2>5. Tree(link, H, R, link[s])
        <3> HIDE DEF P, R, s
        <3>1. Tree(link, H, P \ {s}, link[s])
            BY <2>p, <2>3, <2>4, AdvanceTree
        <3> QED
            BY <2>p, <3>1
    <2> QED
        BY <2>1, <2>2, <2>5
<1>6. CASE (a - 1) % InitialSize # c
    <2>1. P = R
        BY <1>1, <1>6, NextSlotsOf
    <2>2. Walked(c, r) = Nil
        BY <1>4, <1>6 DEF Walked
    <2> QED
        BY <2>1, <2>2
<1> QED
    BY <1>5, <1>6

\* Steps of main that free no entry and no object.
LEMMA TableStep ==
    ASSUME TypeInv, Duo, UNCHANGED <<keyOf, val, exp, todo, ttled, acked>>, sweep' = sweep,
           Held' = Held, Live' = Live, allocated \subseteq allocated',
           freed' \subseteq freed \cup Tables \cup Dicts, Parting', InMainHand(main)',
           \A c \in Classes : Clean(c) /\ Kept(c) => Shape(c)' /\ Hand(c, main)'
    PROVE  Duo'
<1>1. Apart'
    BY SweepHandStays DEF Apart, Duo
<1>2. ASSUME NEW c \in Classes, Clean(c)' PROVE Kept(c)'
    <2>1. Clean(c) /\ Kept(c)
        BY <1>2 DEF Clean, Class, Duo
    <2>2. Promise(c)'
        <3>1. \A e \in Of(c, Live) : e \in Live' /\ val[e] \in Objects
            BY LiveIs DEF Of
        <3>2. \A o \in Objects : o \notin freed => o \notin freed'
            BY CellsAreDistinct
        <3> QED
            BY <2>1, <3>1, <3>2, PromiseStays DEF Kept
    <2> QED
        BY <2>1, <2>2 DEF Kept
<1> QED
    BY <1>1, <1>2 DEF Duo

-----------------------------------------------------------------------------
(* The table grows *)

LEMMA SetSizeDuo ==
    ASSUME TypeInv, Duo, SetSize PROVE Duo'
<1> DEFINE o == main.obj
           k == main.key
<1>1. /\ main.pc = "set_size" /\ o \in Objects
      /\ exp[o] = 0 /\ \A e \in Held : val[e] # o
    BY MainIs DEF SetSize, TypeInv, InMain, SetPcs, Locals, Duo, Apart, InMainHand, BeforePcs
<1>2. UNCHANGED <<link, keyOf, val, exp, freed, buckets, size, todo, ttled, acked>>
    BY DEF SetSize, shape, dict, fields, ghost
<1>3. CASE Go("main", "set_find") /\ UNCHANGED allocated
    <2>1. /\ main'.pc = "set_find" /\ main'.key = k /\ main'.obj = o
          /\ sweep' = sweep
        BY <1>3, GoMain
    <2>2. Held' = Held /\ acked' \in [Keys -> Objects \cup {Nil}]
        BY <1>2, <1>3 DEF Held, Duo
    <2>3. InMainHand(main)'
        BY <1>1, <1>2, <2>1, <2>2 DEF InMainHand, Deleting, BeforePcs
    <2>4. ASSUME NEW c \in Classes, Kept(c) PROVE Hand(c, main)'
        BY <1>1, <1>2, <2>1, <2>4
           DEF Kept, Hand, HandFor, SetPcs, BeforePcs, PlacedPcs, FlushPcs, GrowPcs, Class
    <2> QED
        BY <1>1, <1>2, <1>3, <2>1, <2>2, <2>3, <2>4, CalmStep, CalmPcsAre
<1>4. CASE /\ CanGrow /\ allocated' = allocated \cup {Fresh(Tables)}
           /\ Become("main", [main EXCEPT !.pc = "grow", !.tab = Fresh(Tables),
                                          !.n = 1, !.ent = link[<<buckets, 1>>]])
    <2>1. PICK t : t = Fresh(Tables)
        OBVIOUS
    <2>2. /\ t \in Tables /\ t \notin allocated /\ t \notin Entries /\ t # buckets
          /\ 2 * size <= MaxSize
        BY <1>4, <2>1, FreshIs, CellsAreDistinct, LiveIs DEF CanGrow
    <2>3. PICK r : r = [main EXCEPT !.pc = "grow", !.tab = t, !.n = 1,
                                    !.ent = link[<<buckets, 1>>]]
        OBVIOUS
    <2>4. main' = r /\ sweep' = sweep /\ allocated' = allocated \cup {t}
        BY <1>4, <2>1, <2>3, BecomeMain
    <2>5. /\ r.pc = "grow" /\ r.tab = t /\ r.n = 1 /\ r.ent = link[<<buckets, 1>>]
          /\ r.key = k /\ r.obj = o
        BY <2>3, MainIs DEF TypeInv, Locals
    <2>6. Held' = Held /\ Live' = Live /\ Hanging' = Live /\ Hanging = Live
        <3>1. Held' = Held /\ Live' = Live
            BY <1>2, <2>2, <2>4 DEF Held, Live
        <3> QED
            BY <1>1, <2>4, <2>5, <3>1 DEF Aside, Hanging
    <2>7. Parting'
        BY <1>2, <2>4, <2>6, PartingStays DEF Duo, Apart, Parting
    <2>8. InMainHand(main)'
        BY <1>1, <1>2, <2>4, <2>5, <2>6 DEF InMainHand, Deleting, BeforePcs, GrowPcs
    <2>9. \A i \in 1 .. 2 * size : link[<<t, i>>] = Nil
        <3>1. \A i \in 1 .. 2 * size : i \in 1 .. MaxSize
            BY <2>2, LiveIs, Sizes
        <3> QED
            BY <2>2, <3>1 DEF Duo, Apart, Parting
    <2>10. ASSUME NEW c \in Classes, Kept(c) PROVE Shape(c)' /\ Hand(c, main)'
        <3> DEFINE H == Of(c, Hanging)
                   T == SlotsOf(c, t, 1, 2 * size)
        <3>1. Of(c, Hanging)' = H /\ Of(c, Live)' = Of(c, Live)
            BY <1>2, <2>6 DEF Of, Class
        <3>2. HangsIn(c, buckets, size) /\ \A d, e \in Of(c, Live) : keyOf[d] = keyOf[e] => d = e
            BY <1>1, <2>10, PcsAre DEF Kept, Shape
        <3>3. Tree(link, H, SlotsOf(c, buckets, 2, size), Walked(c, r))
            <4>1. Tree(link, H, {} \cup SlotsOf(c, buckets, 1, size), Nil)
                <5>1. PICK P : P = SlotsOf(c, buckets, 1, size)
                    OBVIOUS
                <5>2. {} \cup P = P
                    OBVIOUS
                <5> QED
                    BY <3>2, <5>1, <5>2 DEF HangsIn
            <4>2. 1 \in 1 .. size /\ 1 + 1 = 2
                BY LiveIs
            <4>3. Tree(link, H, {} \cup SlotsOf(c, buckets, 1 + 1, size), Walked(c, r))
                BY <2>5, <4>1, <4>2, NowSlots, TakeBucket DEF Duo
            <4>4. PICK P : P = SlotsOf(c, buckets, 2, size)
                OBVIOUS
            <4>5. {} \cup P = P
                OBVIOUS
            <4> QED
                BY <4>2, <4>3, <4>4, <4>5
        <3>4. \A p \in T : link[p] = Nil
            BY <2>9 DEF SlotsOf
        <3>5. Tree(link, H, T \cup SlotsOf(c, buckets, 2, size), Walked(c, r))
            <4>1. Nil \notin H
                BY NowSlots
            <4>2. PICK P : P = SlotsOf(c, buckets, 2, size)
                OBVIOUS
            <4> HIDE DEF T, H
            <4>3. Tree(link, H, P \cup T, Walked(c, r))
                BY <3>3, <3>4, <4>1, <4>2, WidenTree
            <4>4. P \cup T = T \cup P
                OBVIOUS
            <4> QED
                BY <4>2, <4>3, <4>4
        <3>6. Halved(c, {})'
            <4>1. Fits(link, keyOf, 2 * size, T, {})
                BY <3>4 DEF Fits
            <4> QED
                BY <1>2, <2>4, <2>5, <4>1 DEF Halved, SlotsOf
        <3>7. Shape(c)'
            <4>1. main'.pc = "grow" /\ main'.n + 1 = 2 /\ main'.tab = t
                BY <2>4, <2>5
            <4>2. Walked(c, main)' = Walked(c, r)
                BY <1>2, <2>4 DEF Walked, Class
            <4>3. Tree(link, Of(c, Hanging), SlotsOf(c, main.tab, 1, 2 * size)
                                        \cup SlotsOf(c, buckets, main.n + 1, size), Walked(c, main))'
                BY <1>2, <3>1, <3>5, <4>1, <4>2 DEF SlotsOf
            <4>4. \E M \in SUBSET Of(c, Hanging)' : Halved(c, M)'
                BY <3>6
            <4> QED
                BY <1>2, <3>1, <3>2, <4>1, <4>3, <4>4 DEF Shape, SteadyPcs, GrowPcs
        <3>8. Hand(c, main)'
            BY <1>1, <1>2, <2>2, <2>4, <2>5, <2>10
               DEF Kept, Hand, HandFor, SetPcs, BeforePcs, PlacedPcs, FlushPcs, GrowPcs, Class
        <3> QED
            BY <3>7, <3>8
    <2> QED
        BY <1>2, <2>4, <2>6, <2>7, <2>8, <2>10, TableStep
<1> QED
    BY <1>3, <1>4 DEF SetSize

\* While the entries move to the new table.
LEMMA GrowthIs ==
    ASSUME TypeInv, Duo, main.pc \in {"grow", "grow_move"}, NEW c
    PROVE  /\ main.n \in 1 .. size /\ 2 * size <= MaxSize /\ 2 * size \in Nat \ {0}
           /\ main.tab \in Tables /\ main.tab \in allocated /\ Hanging = Live
           /\ main.obj \in Objects /\ exp[main.obj] = 0 /\ \A e \in Held : val[e] # main.obj
           /\ SlotsOf(c, main.tab, 1, 2 * size) \subseteq Places
           /\ SlotsOf(c, main.tab, 1, 2 * size) \cap Entries = {}
           /\ \A p \in SlotsOf(c, main.tab, 1, 2 * size) : ClassAt(p) = c /\ p[1] = main.tab
           /\ SlotsOf(c, buckets, main.n + 1, size) \subseteq Places
           /\ SlotsOf(c, buckets, main.n + 1, size) \cap Entries = {}
           /\ \A p \in SlotsOf(c, buckets, main.n + 1, size) : ClassAt(p) = c /\ p[1] = buckets
           /\ Multiple(2 * size)
<1>1. /\ main.n \in 1 .. size /\ 2 * size <= MaxSize /\ main.tab \in Tables
      /\ main.tab \in allocated /\ main.obj \in Objects
    BY MainIs DEF TypeInv, InMain, GrowPcs, SetPcs, Locals
<1>2. size \in Nat \ {0} /\ buckets \in Tables /\ size <= MaxSize
    BY LiveIs
<1>3. 2 * size \in Nat \ {0} /\ main.n + 1 \in Nat \ {0} /\ 1 \in Nat \ {0} /\ size \in Nat
    BY <1>1, <1>2
<1>4. Hanging = Live
    BY DEF Hanging, Aside
<1>5. exp[main.obj] = 0 /\ \A e \in Held : val[e] # main.obj
    BY DEF Duo, Apart, InMainHand, BeforePcs, GrowPcs
<1>6. Multiple(2 * size)
    BY <1>2, Doubled DEF Duo, Apart, Parting
<1>7. /\ SlotsOf(c, main.tab, 1, 2 * size) \subseteq Places
      /\ SlotsOf(c, main.tab, 1, 2 * size) \cap Entries = {}
      /\ \A p \in SlotsOf(c, main.tab, 1, 2 * size) : ClassAt(p) = c /\ p[1] = main.tab
    BY <1>1, <1>3, SlotsOfAre
<1>8. PICK a \in Nat \ {0} : a = main.n + 1
    BY <1>3
<1>9. a \in Nat \ {0} /\ size \in Nat /\ size <= MaxSize /\ buckets \in Tables
    BY <1>2
<1>10. SlotsOf(c, buckets, a, size) \subseteq Places
    BY <1>9, SlotsOfAre
<1>11. SlotsOf(c, buckets, a, size) \cap Entries = {}
    BY <1>9, SlotsOfAre
<1>12. ASSUME NEW p \in SlotsOf(c, buckets, a, size) PROVE ClassAt(p) = c /\ p[1] = buckets
    <2>1. PICK i \in a .. size : p = <<buckets, i>> /\ (i - 1) % InitialSize = c
        BY DEF SlotsOf
    <2> QED
        BY <1>11, <2>1 DEF ClassAt
<1> QED
    BY <1>1, <1>3, <1>4, <1>5, <1>6, <1>7, <1>8, <1>10, <1>11, <1>12

\* What a class has while the entries move.
GrowShape(c, H, w) ==
    /\ Tree(link, H, SlotsOf(c, main.tab, 1, 2 * size)
                     \cup SlotsOf(c, buckets, main.n + 1, size), w)
    /\ \A d, e \in Of(c, Live) : keyOf[d] = keyOf[e] => d = e

LEMMA GrowShapes ==
    ASSUME NEW c, main.pc \in {"grow", "grow_move"}, Shape(c)
    PROVE  /\ GrowShape(c, Of(c, Hanging), Walked(c, main))
           /\ \E M \in SUBSET Of(c, Hanging) : Halved(c, M)
BY DEF Shape, GrowShape

LEMMA ShapeGrows ==
    ASSUME NEW c, main'.pc \in {"grow", "grow_move"},
           Tree(link, Of(c, Hanging), SlotsOf(c, main.tab, 1, 2 * size)
                \cup SlotsOf(c, buckets, main.n + 1, size), Walked(c, main))',
           (\A d, e \in Of(c, Live) : keyOf[d] = keyOf[e] => d = e)',
           \E M \in SUBSET Of(c, Hanging)' : Halved(c, M)'
    PROVE  Shape(c)'
BY DEF Shape, SteadyPcs, GrowPcs

LEMMA GrowReadDuo ==
    ASSUME TypeInv, Duo, GrowRead PROVE Duo'
<1> DEFINE e == main.ent
           o == main.obj
<1>1. main.pc = "grow" /\ e # Nil
    BY DEF GrowRead
<1>2. CASE {e} \cap freed # {}
    BY <1>2, DuoSame DEF GrowRead, Touch
<1>3. CASE {e} \cap freed = {}
    <2>1. UNCHANGED <<link, keyOf, val, exp, freed, allocated, buckets, size, todo, ttled, acked>>
        BY <1>3 DEF GrowRead, Touch, heap, shape, memory, dict, fields, ghost
    <2>2. PICK r : r = [main EXCEPT !.next = link[e], !.pc = "grow_move"]
        OBVIOUS
    <2>3. Become("main", r)
        BY <1>3, <2>2 DEF GrowRead, Touch
    <2>4. main' = r /\ sweep' = sweep
        BY <2>3, BecomeMain
    <2>5. /\ r.pc = "grow_move" /\ r.next = link[e] /\ r.ent = e /\ r.n = main.n
          /\ r.tab = main.tab /\ r.key = main.key /\ r.obj = o
        BY <2>2, MainIs DEF TypeInv, Locals
    <2>6. Held' = Held /\ Live' = Live /\ Hanging' = Hanging
        BY <1>1, <2>1, <2>4, <2>5 DEF Held, Live, Hanging, Aside
    <2>7. Parting'
        BY <2>1, <2>6, PartingStays DEF Duo, Apart, Parting
    <2>8. e \in Held /\ e \in Places
        BY <1>1, MainIs, LiveIs DEF TypeInv, Locals, Held
    <2>9. InMainHand(main)'
        <3>1. link[e] # Nil => ClassAt(link[e]) = ClassAt(e)
            BY <2>8, LiveIs DEF Duo, Apart, Parting
        <3>2. main'.next # Nil => ClassAt(main.next)' = ClassAt(main.ent)'
            BY <2>1, <2>4, <2>5, <3>1 DEF ClassAt, Class
        <3>3. exp'[o] = 0 /\ \A x \in Held' : val'[x] # o
            BY <1>1, <2>1, <2>6, GrowthIs
        <3> QED
            BY <2>4, <2>5, <3>2, <3>3 DEF InMainHand, Deleting, BeforePcs, GrowPcs
    <2>10. ASSUME NEW c \in Classes, Kept(c) PROVE Shape(c)' /\ Hand(c, main)'
        <3>1. Of(c, Hanging)' = Of(c, Hanging) /\ Of(c, Live)' = Of(c, Live)
            BY <2>1, <2>6 DEF Of, Class
        <3>2. Walked(c, main)' = Walked(c, main)
            BY <2>1, <2>4, <2>5 DEF Walked, Class
        <3>3. /\ GrowShape(c, Of(c, Hanging), Walked(c, main))
              /\ \E M \in SUBSET Of(c, Hanging) : Halved(c, M)
            BY <1>1, <2>10, GrowShapes DEF Kept
        <3>4. \A M : Halved(c, M)' = Halved(c, M)
            BY <2>1, <2>4, <2>5, <3>1, <3>2 DEF Halved, SlotsOf
        <3>5. Tree(link, Of(c, Hanging), SlotsOf(c, main.tab, 1, 2 * size)
                \cup SlotsOf(c, buckets, main.n + 1, size), Walked(c, main))'
            BY <2>1, <2>4, <2>5, <3>1, <3>2, <3>3 DEF GrowShape, SlotsOf
        <3>6. Shape(c)'
            BY <2>1, <2>4, <2>5, <3>1, <3>3, <3>4, <3>5, ShapeGrows DEF GrowShape
        <3>7. Hand(c, main)'
            BY <1>1, <2>1, <2>4, <2>5, <2>10, <3>2
               DEF Kept, Hand, HandFor, SetPcs, BeforePcs, PlacedPcs, FlushPcs, GrowPcs, Class
        <3> QED
            BY <3>6, <3>7
    <2> QED
        BY <2>1, <2>4, <2>6, <2>7, <2>9, <2>10, TableStep
<1> QED
    BY <1>2, <1>3

\* The entries M are in the buckets T, and no other entry of H leads to them.
Split(lk, H, T, B, M, n) ==
    Fits(lk, keyOf, n, T, M) /\ \A p \in B \cup (H \ M) : lk[p] \notin M

\* Of the entries H those of M are in the buckets T of the new table, e is next,
\* the others hang from the buckets B of the old one; s is the new bucket of e.
Moving(lk, H, T, B, M, n, e, s) ==
    /\ M \subseteq H /\ e \in H /\ s \in T /\ Nil \notin H
    /\ (T \cup B) \cap H = {} /\ T \cap B = {} /\ T \cup B \cup H \subseteq DOMAIN lk
    /\ Tree(lk, H, T \cup B, e) /\ Split(lk, H, T, B, M, n) /\ e \notin M
    /\ \A p \in T : p[2] = s[2] => p = s
    /\ BucketOf(keyOf[e], n) = s[2]

\* It moves to the front of its new bucket.
LEMMA MoveHalved ==
    ASSUME NEW lk, NEW H, NEW T, NEW B, NEW M, NEW n, NEW e, NEW s, Moving(lk, H, T, B, M, n, e, s)
    PROVE  /\ Split([lk EXCEPT ![e] = lk[s], ![s] = e], H, T, B, M \cup {e}, n)
           /\ lk[e] \notin M \cup {e}
<1>l. PICK l : l = [lk EXCEPT ![e] = lk[s], ![s] = e]
    OBVIOUS
<1>0. /\ M \subseteq H /\ e \in H /\ s \in T /\ Nil \notin H
      /\ (T \cup B) \cap H = {} /\ T \cap B = {} /\ T \cup B \cup H \subseteq DOMAIN lk
      /\ Tree(lk, H, T \cup B, e) /\ Fits(lk, keyOf, n, T, M) /\ e \notin M
      /\ \A p \in B \cup (H \ M) : lk[p] \notin M
      /\ \A p \in T : p[2] = s[2] => p = s
      /\ BucketOf(keyOf[e], n) = s[2]
    BY DEF Moving, Split
<1>1. l[s] = e /\ l[e] = lk[s] /\ \A p \in T \cup B \cup H : p # s /\ p # e => l[p] = lk[p]
    BY <1>0, <1>l
<1>2. e # Nil /\ s # e /\ s \notin B /\ s \notin H
    BY <1>0
<1>3. \A p \in T \cup B \cup H : lk[p] # e
    BY <1>0, <1>2 DEF Tree
<1>4. ASSUME NEW p \in T, l[p] # Nil
      PROVE  l[p] \in M \cup {e} /\ BucketOf(keyOf[l[p]], n) = p[2]
    <2>1. CASE p = s
        BY <1>0, <1>1, <2>1
    <2>2. CASE p # s
        BY <1>0, <1>1, <1>4, <2>2 DEF Fits
    <2> QED
        BY <2>1, <2>2
<1>5. ASSUME NEW d \in M \cup {e}, l[d] # Nil
      PROVE  l[d] \in M \cup {e} /\ BucketOf(keyOf[l[d]], n) = BucketOf(keyOf[d], n)
    <2>1. CASE d = e
        BY <1>0, <1>1, <1>5, <2>1 DEF Fits
    <2>2. CASE d # e
        BY <1>0, <1>1, <1>2, <1>5, <2>2 DEF Fits
    <2> QED
        BY <2>1, <2>2
<1>6. lk[e] \notin M \cup {e}
    BY <1>0, <1>3
<1>7. ASSUME NEW p \in B \cup (H \ (M \cup {e})) PROVE l[p] \notin M \cup {e}
    <2>1. p # s /\ p # e /\ p \in T \cup B \cup H
        BY <1>0, <1>2
    <2> QED
        BY <1>0, <1>1, <1>3, <2>1
<1> QED
    BY <1>l, <1>4, <1>5, <1>6, <1>7 DEF Fits, Split

LEMMA GrowMoveDuo ==
    ASSUME TypeInv, Duo, GrowMove PROVE Duo'
<1> DEFINE e == main.ent
           o == main.obj
           slot == <<main.tab, BucketOf(keyOf[e], 2 * size)>>
<1>1. main.pc = "grow_move" /\ e # Nil /\ e \in Held /\ e \in Places /\ main.next \in Entries \cup {Nil}
    BY MainIs, LiveIs DEF GrowMove, TypeInv, InMain, Locals, Held
<1>2. CASE {e} \cap freed # {}
    BY <1>2, DuoSame DEF GrowMove, Touch
<1>3. CASE {e} \cap freed = {}
    <2>1. /\ UNCHANGED <<keyOf, val, exp, freed, allocated, buckets, size, todo, ttled, acked>>
          /\ link' = [link EXCEPT ![e] = link[slot], ![slot] = e]
        BY <1>3 DEF GrowMove, Touch, memory, dict, fields, ghost
    <2>2. PICK r : r = [main EXCEPT !.ent = main.next, !.next = Nil, !.pc = "grow"]
        OBVIOUS
    <2>3. Become("main", r)
        BY <1>3, <2>2 DEF GrowMove, Touch
    <2>4. main' = r /\ sweep' = sweep
        BY <2>3, BecomeMain
    <2>5. /\ r.pc = "grow" /\ r.ent = main.next /\ r.n = main.n
          /\ r.tab = main.tab /\ r.key = main.key /\ r.obj = o
        BY <2>2, MainIs DEF TypeInv, Locals
    <2>6. Held' = Held /\ Live' = Live /\ Hanging' = Hanging
        BY <1>1, <2>1, <2>4, <2>5 DEF Held, Live, Hanging, Aside
    <2>7. /\ slot \in SlotsOf(Class(keyOf[e]), main.tab, 1, 2 * size)
          /\ slot \in Places /\ slot # e /\ slot \notin Entries
          /\ ClassAt(slot) = Class(keyOf[e]) /\ Cell(slot) = main.tab
        <3>1. /\ keyOf[e] \in Keys /\ 2 * size \in Nat \ {0} /\ Multiple(2 * size)
            BY <1>1, LiveIs, GrowthIs
        <3>2. slot \in SlotsOf(Class(keyOf[e]), main.tab, 1, 2 * size)
            BY <3>1, BucketOfIs, ClassIs DEF SlotsOf
        <3>3. slot \in Places /\ slot \notin Entries /\ ClassAt(slot) = Class(keyOf[e])
            BY <1>1, <3>2, GrowthIs
        <3> QED
            BY <1>1, <3>2, <3>3, LiveIs DEF Cell
    <2>8. /\ link'[slot] = e /\ link'[e] = link[slot]
          /\ \A p \in Places : p # slot /\ p # e => link'[p] = link[p]
        BY <1>1, <2>1, <2>7, LiveIs
    <2>9. Parting'
        <3>1. Cell(slot) \in allocated /\ Cell(e) \in allocated
            BY <1>1, <2>7, GrowthIs, LiveIs DEF Cell
        <3>2. ClassAt(e) = Class(keyOf[e])
            BY <1>1, LiveIs DEF ClassAt
        <3>3. link[slot] # Nil => ClassAt(link[slot]) = ClassAt(e)
            BY <2>7, <3>2 DEF Duo, Apart, Parting
        <3> QED
            BY <2>1, <2>7, <2>8, <3>1, <3>2, <3>3, PartingLinked DEF Duo
    <2>10. InMainHand(main)'
        <3>1. exp'[o] = 0 /\ \A x \in Held' : val'[x] # o
            BY <1>1, <2>1, <2>6, GrowthIs
        <3> QED
            BY <2>4, <2>5, <3>1 DEF InMainHand, Deleting, BeforePcs, GrowPcs
    <2>11. main.next # Nil => Class(keyOf[main.next]) = Class(keyOf[e])
        BY <1>1, LiveIs DEF Duo, Apart, InMainHand, ClassAt
    <2>12. ASSUME NEW c \in Classes, Kept(c) PROVE Shape(c)' /\ Hand(c, main)'
        <3> DEFINE H == Of(c, Hanging)
                   T == SlotsOf(c, main.tab, 1, 2 * size)
                   B == SlotsOf(c, buckets, main.n + 1, size)
        <3>1. Of(c, Hanging)' = H /\ Of(c, Live)' = Of(c, Live)
            BY <2>1, <2>6 DEF Of, Class
        <3>2. Tree(link, H, T \cup B, Walked(c, main))
              /\ \A x, y \in Of(c, Live) : keyOf[x] = keyOf[y] => x = y
            BY <1>1, <2>12, GrowShapes DEF Kept, GrowShape
        <3>3. PICK M \in SUBSET H : Halved(c, M)
            BY <1>1, <2>12, GrowShapes DEF Kept
        <3>4. main.tab # buckets
            BY <1>1, <2>12 DEF Kept, Hand
        <3>5. /\ T \subseteq Places /\ T \cap Entries = {} /\ \A p \in T : ClassAt(p) = c /\ p[1] = main.tab
              /\ B \subseteq Places /\ B \cap Entries = {} /\ \A p \in B : ClassAt(p) = c /\ p[1] = buckets
            BY <1>1, GrowthIs
        <3>6. /\ Nil \notin H /\ (T \cup B) \cap H = {} /\ T \cap B = {} /\ H \subseteq Entries
              /\ T \cup B \cup H \subseteq DOMAIN link
            BY <3>4, <3>5, NowSlots, LiveIs
        <3>7. /\ Fits(link, keyOf, 2 * size, T, M) /\ Walked(c, main) \notin M
              /\ \A p \in B \cup (H \ M) : link[p] \notin M
            BY <3>3 DEF Halved
        <3>8. \E N \in SUBSET H : /\ Tree(link', H, T \cup B, Walked(c, r))
                                  /\ Fits(link', keyOf, 2 * size, T, N)
                                  /\ Walked(c, r) \notin N
                                  /\ \A p \in B \cup (H \ N) : link'[p] \notin N
            <4>1. CASE Class(keyOf[e]) = c
                <5>1. Walked(c, main) = e /\ main.next = link[e]
                    BY <1>1, <2>12, <4>1 DEF Walked, Kept, Hand
                <5>2. Walked(c, r) = link[e]
                    BY <2>5, <2>11, <4>1, <5>1 DEF Walked
                <5>3. e \in H /\ slot \in T /\ BucketOf(keyOf[e], 2 * size) = slot[2]
                    BY <1>1, <2>7, <3>2, <4>1, <5>1 DEF Tree
                <5>4. \A p \in T : p[2] = slot[2] => p = slot
                    BY DEF SlotsOf
                <5>5. Tree(link, H, T \cup B, e)
                    BY <3>2, <5>1
                <5>m. e \notin M
                    BY <3>7, <5>1
                <5> HIDE DEF H, T, B, e, slot
                <5>6. Tree(link', H, T \cup B, link[e])
                    <6>1. PICK P : P = T \cup B
                        OBVIOUS
                    <6>2. slot \in P /\ P \cap H = {} /\ P \cup H \subseteq DOMAIN link /\ e # Nil
                        BY <1>1, <3>6, <5>3, <6>1
                    <6>3. Tree([link EXCEPT ![e] = link[slot], ![slot] = e], H, P, link[e])
                        BY <3>6, <5>5, <6>1, <6>2, MoveTree
                    <6> QED
                        BY <2>1, <6>1, <6>3
                <5>7. /\ Fits(link', keyOf, 2 * size, T, M \cup {e}) /\ link[e] \notin M \cup {e}
                      /\ \A p \in B \cup (H \ (M \cup {e})) : link'[p] \notin M \cup {e}
                    <6>1. PICK m : m = 2 * size
                        OBVIOUS
                    <6>2. Moving(link, H, T, B, M, m, e, slot)
                        BY <3>6, <3>7, <5>3, <5>4, <5>5, <5>m, <6>1 DEF Moving, Split
                    <6>3. /\ Split([link EXCEPT ![e] = link[slot], ![slot] = e], H, T, B, M \cup {e}, m)
                          /\ link[e] \notin M \cup {e}
                        BY <6>2, MoveHalved
                    <6> QED
                        BY <2>1, <6>1, <6>3 DEF Split
                <5> QED
                    BY <5>2, <5>3, <5>6, <5>7
            <4>2. CASE Class(keyOf[e]) # c
                <5>1. Walked(c, main) = Nil /\ Walked(c, r) = Nil
                    BY <2>5, <2>11, <4>2 DEF Walked
                <5>2. \A x \in H : x # e
                    BY <4>2 DEF Of
                <5>3. slot \notin T \cup B
                    BY <2>7, <3>5, <4>2
                <5>4. \A p \in T \cup B \cup H : link'[p] = link[p]
                    BY <1>1, <2>7, <2>8, <3>5, <3>6, <5>2, <5>3, LiveIs
                <5> HIDE DEF H, T, B, e, slot
                <5>5. Tree(link', H, T \cup B, Walked(c, r))
                    BY <3>2, <5>1, <5>4, SameTree
                <5>6. Fits(link', keyOf, 2 * size, T, M)
                    BY <3>7, <5>4, SameFits
                <5> QED
                    BY <3>7, <5>1, <5>4, <5>5, <5>6
            <4> QED
                BY <4>1, <4>2
        <3>9. PICK N \in SUBSET H : /\ Tree(link', H, T \cup B, Walked(c, r))
                                    /\ Fits(link', keyOf, 2 * size, T, N)
                                    /\ Walked(c, r) \notin N
                                    /\ \A p \in B \cup (H \ N) : link'[p] \notin N
            BY <3>8
        <3>10. Walked(c, main)' = Walked(c, r)
            BY <2>1, <2>4 DEF Walked, Class
        <3>11. Halved(c, N)'
            BY <2>1, <2>4, <2>5, <3>1, <3>9, <3>10 DEF Halved, SlotsOf
        <3>12. Tree(link, Of(c, Hanging), SlotsOf(c, main.tab, 1, 2 * size)
                \cup SlotsOf(c, buckets, main.n + 1, size), Walked(c, main))'
            BY <2>1, <2>4, <2>5, <3>1, <3>9, <3>10 DEF SlotsOf
        <3>13. Shape(c)'
            <4>1. main'.pc \in {"grow", "grow_move"}
                BY <2>4, <2>5
            <4>2. (\A x, y \in Of(c, Live) : keyOf[x] = keyOf[y] => x = y)'
                BY <2>1, <3>1, <3>2
            <4>3. \E L \in SUBSET Of(c, Hanging)' : Halved(c, L)'
                BY <3>1, <3>11
            <4> QED
                BY <3>12, <4>1, <4>2, <4>3, ShapeGrows
        <3>14. Hand(c, main)'
            BY <1>1, <2>1, <2>4, <2>5, <2>12
               DEF Kept, Hand, HandFor, SetPcs, BeforePcs, PlacedPcs, FlushPcs, GrowPcs, Class
        <3> QED
            BY <3>13, <3>14
    <2> QED
        BY <2>1, <2>4, <2>6, <2>9, <2>10, <2>12, TableStep
<1> QED
    BY <1>2, <1>3

LEMMA GrowBucketDuo ==
    ASSUME TypeInv, Duo, GrowBucket PROVE Duo'
<1> DEFINE o == main.obj
<1>1. main.pc = "grow" /\ main.ent = Nil
    BY DEF GrowBucket, NextBucket
<1>2. UNCHANGED <<link, keyOf, val, exp, freed, allocated, buckets, size, todo, ttled, acked>>
    BY DEF GrowBucket, NextBucket, heap, shape, memory, dict, fields, ghost
<1>3. Held' = Held
    BY <1>2 DEF Held
<1>4. Parting'
    BY <1>2, <1>3, PartingStays DEF Duo, Apart, Parting
<1>5. /\ main.n \in 1 .. size /\ 2 * size \in Nat \ {0} /\ main.tab \in Tables /\ Hanging = Live
      /\ exp[o] = 0 /\ \A e \in Held : val[e] # o
    BY <1>1, GrowthIs
<1>6. ASSUME NEW c \in Classes, Kept(c)
      PROVE  /\ Tree(link, Of(c, Hanging), SlotsOf(c, main.tab, 1, 2 * size)
                     \cup SlotsOf(c, buckets, main.n + 1, size), Nil)
             /\ \A x, y \in Of(c, Live) : keyOf[x] = keyOf[y] => x = y
             /\ \E M \in SUBSET Of(c, Hanging) : Halved(c, M)
    <2>1. Walked(c, main) = Nil
        BY <1>1 DEF Walked
    <2> QED
        BY <1>1, <1>6, <2>1, GrowShapes DEF Kept, GrowShape
<1>7. CASE main.n = size
    <2>1. PICK r : r = [main EXCEPT !.pc = "grow_free", !.n = 0]
        OBVIOUS
    <2>2. Become("main", r)
        BY <1>7, <2>1 DEF GrowBucket, NextBucket
    <2>3. main' = r /\ sweep' = sweep
        BY <2>2, BecomeMain
    <2>4. r.pc = "grow_free" /\ r.tab = main.tab /\ r.key = main.key /\ r.obj = o
        BY <2>1, MainIs DEF TypeInv, Locals
    <2>5. Live' = Live /\ Hanging' = Hanging
        BY <1>1, <1>2, <2>3, <2>4 DEF Live, Hanging, Aside
    <2>6. InMainHand(main)'
        BY <1>2, <1>3, <1>5, <2>3, <2>4 DEF InMainHand, Deleting, BeforePcs, GrowPcs
    <2>7. ASSUME NEW c \in Classes, Kept(c) PROVE Shape(c)' /\ Hand(c, main)'
        <3> DEFINE H == Of(c, Hanging)
                   T == SlotsOf(c, main.tab, 1, 2 * size)
        <3>1. Of(c, Hanging)' = H /\ Of(c, Live)' = Of(c, Live)
            BY <1>2, <2>5 DEF Of, Class
        <3>2. SlotsOf(c, buckets, main.n + 1, size) = {}
            <4>1. main.n + 1 .. size = {}
                BY <1>5, <1>7
            <4> QED
                BY <4>1 DEF SlotsOf
        <3>3. Tree(link, H, T, Nil)
            <4>1. T \cup SlotsOf(c, buckets, main.n + 1, size) = T
                BY <3>2
            <4> QED
                BY <1>6, <2>7, <4>1
        <3>4. PICK M \in SUBSET H : Fits(link, keyOf, 2 * size, T, M)
            BY <1>6, <2>7 DEF Halved
        <3>5. H \subseteq M
            <4> HIDE DEF H, T
            <4>1. \A p \in T \cup M : link[p] \in M \cup {Nil}
                BY <3>4 DEF Fits
            <4> QED
                BY <3>3, <3>4, <4>1, Met
        <3>6. M = H
            BY <3>4, <3>5
        <3>7. HangsIn(c, main.tab, 2 * size)'
            BY <1>2, <2>3, <2>4, <3>1, <3>3, <3>4, <3>6 DEF HangsIn, SlotsOf
        <3>8. Shape(c)'
            BY <1>2, <1>6, <2>3, <2>4, <2>7, <3>1, <3>7 DEF Shape, SteadyPcs, GrowPcs
        <3>9. Hand(c, main)'
            BY <1>1, <1>2, <2>3, <2>4, <2>7
               DEF Kept, Hand, HandFor, SetPcs, BeforePcs, PlacedPcs, FlushPcs, GrowPcs, Class
        <3> QED
            BY <3>8, <3>9
    <2> QED
        BY <1>2, <1>3, <1>4, <2>3, <2>5, <2>6, <2>7, TableStep
<1>8. CASE main.n # size
    <2>p. size \in Nat /\ main.n \in 1 .. size /\ main.n # size
        BY <1>5, <1>8, LiveIs
    <2>1. PICK a \in 1 .. size : a = main.n + 1
        BY <2>p
    <2>2. PICK r : r = [main EXCEPT !.n = a, !.ent = link[<<buckets, a>>]]
        OBVIOUS
    <2>3. Become("main", r)
        BY <1>8, <2>1, <2>2 DEF GrowBucket, NextBucket
    <2>4. main' = r /\ sweep' = sweep
        BY <2>3, BecomeMain
    <2>5. /\ r.pc = "grow" /\ r.tab = main.tab /\ r.key = main.key /\ r.obj = o
          /\ r.n = a /\ r.ent = link[<<buckets, a>>]
        BY <1>1, <2>2, MainIs DEF TypeInv, Locals
    <2>6. Live' = Live /\ Hanging' = Hanging
        BY <1>1, <1>2, <2>4, <2>5 DEF Live, Hanging, Aside
    <2>7. InMainHand(main)'
        BY <1>2, <1>3, <1>5, <2>4, <2>5 DEF InMainHand, Deleting, BeforePcs, GrowPcs
    <2>8. ASSUME NEW c \in Classes, Kept(c) PROVE Shape(c)' /\ Hand(c, main)'
        <3> DEFINE H == Of(c, Hanging)
                   T == SlotsOf(c, main.tab, 1, 2 * size)
        <3>1. Of(c, Hanging)' = H /\ Of(c, Live)' = Of(c, Live)
            BY <1>2, <2>6 DEF Of, Class
        <3>2. Tree(link, H, T \cup SlotsOf(c, buckets, a, size), Nil)
            BY <1>6, <2>1, <2>8
        <3>3. PICK M \in SUBSET H : Halved(c, M)
            BY <1>6, <2>8
        <3>4. main.tab # buckets
            BY <1>1, <2>8 DEF Kept, Hand
        <3>5. <<buckets, a>> \notin T /\ H \subseteq Entries /\ T \cap H = {}
            <4>1. T \cap Entries = {} /\ \A p \in T : p[1] = main.tab
                BY <1>1, GrowthIs
            <4> QED
                BY <3>4, <4>1, NowSlots
        <3>6. /\ Tree(link, H, T \cup SlotsOf(c, buckets, a + 1, size), Walked(c, r))
              /\ Walked(c, r) # Nil => <<buckets, a>> \in SlotsOf(c, buckets, a, size)
            <4> HIDE DEF H, T
            <4> QED
                BY <2>5, <3>2, <3>5, TakeBucket DEF Duo
        <3>7. /\ Fits(link, keyOf, 2 * size, T, M)
              /\ \A p \in SlotsOf(c, buckets, a, size) \cup (H \ M) : link[p] \notin M
            BY <2>1, <3>3 DEF Halved
        <3>8. Walked(c, r) \notin M
            <4>1. CASE Walked(c, r) = Nil
                BY <4>1, NowSlots
            <4>2. CASE Walked(c, r) # Nil
                BY <2>5, <3>6, <3>7, <4>2 DEF Walked
            <4> QED
                BY <4>1, <4>2
        <3>9. SlotsOf(c, buckets, a + 1, size) \subseteq SlotsOf(c, buckets, a, size)
            BY <2>1 DEF SlotsOf
        <3>10. Walked(c, main)' = Walked(c, r) /\ main'.n = a
            BY <1>2, <2>4, <2>5 DEF Walked, Class
        <3>11. Halved(c, M)'
            <4>1. \A p \in SlotsOf(c, buckets, a + 1, size) \cup (H \ M) : link[p] \notin M
                BY <3>7, <3>9
            <4> QED
                BY <1>2, <2>4, <2>5, <3>1, <3>7, <3>8, <3>10, <4>1 DEF Halved, SlotsOf
        <3>12. Tree(link, Of(c, Hanging), SlotsOf(c, main.tab, 1, 2 * size)
                \cup SlotsOf(c, buckets, main.n + 1, size), Walked(c, main))'
            BY <1>2, <2>4, <2>5, <3>1, <3>6, <3>10 DEF SlotsOf
        <3>13. Shape(c)'
            <4>1. main'.pc \in {"grow", "grow_move"}
                BY <2>4, <2>5
            <4>2. (\A x, y \in Of(c, Live) : keyOf[x] = keyOf[y] => x = y)'
                BY <1>2, <1>6, <2>8, <3>1
            <4>3. \E L \in SUBSET Of(c, Hanging)' : Halved(c, L)'
                BY <3>1, <3>11
            <4> QED
                BY <3>12, <4>1, <4>2, <4>3, ShapeGrows
        <3>14. Hand(c, main)'
            BY <1>1, <1>2, <2>4, <2>5, <2>8
               DEF Kept, Hand, HandFor, SetPcs, BeforePcs, PlacedPcs, FlushPcs, GrowPcs, Class
        <3> QED
            BY <3>13, <3>14
    <2> QED
        BY <1>2, <1>3, <1>4, <2>4, <2>6, <2>7, <2>8, TableStep
<1> QED
    BY <1>7, <1>8

LEMMA GrowFreeDuo ==
    ASSUME TypeInv, Duo, GrowFree PROVE Duo'
<1>1. main.pc = "grow_free" /\ buckets \in Tables
    BY LiveIs DEF GrowFree
<1>2. /\ UNCHANGED <<link, keyOf, val, exp, allocated, buckets, size, todo, ttled, acked>>
      /\ freed' = freed \cup {buckets} /\ Go("main", "grow_table")
    BY DEF GrowFree, shape, dict, fields, ghost
<1>3. /\ main'.pc = "grow_table" /\ main'.key = main.key /\ main'.obj = main.obj
      /\ main'.tab = main.tab /\ sweep' = sweep
    BY <1>2, GoMain
<1>4. Held' = Held /\ Live' = Live /\ Hanging' = Hanging
    <2>1. Held' = Held /\ Live' = Live
        BY <1>1, <1>2, CellsAreDistinct DEF Held, Live
    <2> QED
        BY <1>1, <1>3, <2>1 DEF Hanging, Aside
<1>5. Parting'
    BY <1>2, <1>4, PartingStays DEF Duo, Apart, Parting
<1>6. InMainHand(main)'
    BY <1>1, <1>2, <1>3, <1>4 DEF Duo, Apart, InMainHand, Deleting, BeforePcs, GrowPcs
<1>7. ASSUME NEW c \in Classes, Kept(c) PROVE Shape(c)' /\ Hand(c, main)'
    <2>1. Of(c, Hanging)' = Of(c, Hanging) /\ Of(c, Live)' = Of(c, Live)
        BY <1>2, <1>4 DEF Of, Class
    <2>2. HangsIn(c, main.tab, 2 * size) /\ \A x, y \in Of(c, Live) : keyOf[x] = keyOf[y] => x = y
        BY <1>1, <1>7 DEF Kept, Shape
    <2>3. HangsIn(c, main.tab, 2 * size)'
        BY <1>2, <1>3, <2>1, <2>2 DEF HangsIn, SlotsOf
    <2>4. Shape(c)'
        BY <1>2, <1>3, <2>1, <2>2, <2>3 DEF Shape, SteadyPcs, GrowPcs
    <2>5. main.obj # buckets
        BY <1>1, MainIs, CellsAreDistinct DEF TypeInv, InMain, SetPcs, GrowPcs, Locals
    <2>6. Hand(c, main)'
        BY <1>1, <1>2, <1>3, <1>7, <2>5
           DEF Kept, Hand, HandFor, SetPcs, BeforePcs, PlacedPcs, FlushPcs, GrowPcs, Class
    <2> QED
        BY <2>4, <2>6
<1> QED
    BY <1>1, <1>2, <1>3, <1>4, <1>5, <1>6, <1>7, TableStep

LEMMA GrowTableDuo ==
    ASSUME TypeInv, Duo, GrowTable PROVE Duo'
<1>1. main.pc = "grow_table"
    BY DEF GrowTable
<1>2. /\ UNCHANGED <<link, keyOf, val, exp, allocated, freed, size, todo, ttled, acked>>
      /\ buckets' = main.tab
    BY DEF GrowTable, shape, memory, ghost
<1>3. PICK r : r = [main EXCEPT !.pc = "grow_size", !.tab = Nil]
    OBVIOUS
<1>4. Become("main", r)
    BY <1>3 DEF GrowTable
<1>5. main' = r /\ sweep' = sweep
    BY <1>4, BecomeMain
<1>6. r.pc = "grow_size" /\ r.key = main.key /\ r.obj = main.obj
    BY <1>3, MainIs DEF TypeInv, Locals
<1>7. Held' = Held /\ Live' = Live /\ Hanging' = Hanging
    BY <1>1, <1>2, <1>5, <1>6 DEF Held, Live, Hanging, Aside
<1>8. Parting'
    BY <1>2, <1>7, PartingStays DEF Duo, Apart, Parting
<1>9. InMainHand(main)'
    BY <1>1, <1>2, <1>5, <1>6, <1>7 DEF Duo, Apart, InMainHand, Deleting, BeforePcs, GrowPcs
<1>10. ASSUME NEW c \in Classes, Kept(c) PROVE Shape(c)' /\ Hand(c, main)'
    <2>1. Of(c, Hanging)' = Of(c, Hanging) /\ Of(c, Live)' = Of(c, Live)
        BY <1>2, <1>7 DEF Of, Class
    <2>2. HangsIn(c, main.tab, 2 * size) /\ \A x, y \in Of(c, Live) : keyOf[x] = keyOf[y] => x = y
        BY <1>1, <1>10 DEF Kept, Shape
    <2>3. HangsIn(c, buckets, 2 * size)'
        BY <1>2, <2>1, <2>2 DEF HangsIn, SlotsOf
    <2>4. Shape(c)'
        BY <1>2, <1>5, <1>6, <2>1, <2>2, <2>3 DEF Shape, SteadyPcs, GrowPcs
    <2>5. Hand(c, main)'
        BY <1>1, <1>2, <1>5, <1>6, <1>10
           DEF Kept, Hand, HandFor, SetPcs, BeforePcs, PlacedPcs, FlushPcs, GrowPcs, Class
    <2> QED
        BY <2>4, <2>5
<1> QED
    BY <1>2, <1>5, <1>7, <1>8, <1>9, <1>10, TableStep

LEMMA GrowSizeDuo ==
    ASSUME TypeInv, Duo, GrowSize PROVE Duo'
<1>1. main.pc = "grow_size"
    BY DEF GrowSize
<1>2. /\ UNCHANGED <<link, keyOf, val, exp, allocated, freed, buckets, todo, ttled, acked>>
      /\ size' = 2 * size /\ Go("main", "set_find")
    BY DEF GrowSize, shape, memory, ghost
<1>3. /\ main'.pc = "set_find" /\ main'.key = main.key /\ main'.obj = main.obj
      /\ sweep' = sweep
    BY <1>2, GoMain
<1>4. Held' = Held /\ Live' = Live /\ Hanging' = Hanging
    BY <1>1, <1>2, <1>3 DEF Held, Live, Hanging, Aside
<1>5. Parting'
    <2>1. Multiple(size)'
        BY <1>2, LiveIs, Doubled DEF Duo, Apart, Parting, Multiple
    <2>2. \A p \in Places : link'[p] # Nil /\ p \in allocated' \cup (Places \ Entries)
                                => ClassAt(link[p])' = ClassAt(p)'
        BY <1>2 DEF Duo, Apart, Parting, ClassAt, Class
    <2> QED
        BY <1>2, <1>4, <2>1, <2>2 DEF Duo, Apart, Parting
<1>6. InMainHand(main)'
    BY <1>1, <1>2, <1>3, <1>4 DEF Duo, Apart, InMainHand, Deleting, BeforePcs, GrowPcs
<1>7. ASSUME NEW c \in Classes, Kept(c) PROVE Shape(c)' /\ Hand(c, main)'
    <2>1. Of(c, Hanging)' = Of(c, Hanging) /\ Of(c, Live)' = Of(c, Live)
        BY <1>2, <1>4 DEF Of, Class
    <2>2. HangsIn(c, buckets, 2 * size) /\ \A x, y \in Of(c, Live) : keyOf[x] = keyOf[y] => x = y
        BY <1>1, <1>7 DEF Kept, Shape
    <2>3. HangsIn(c, buckets, size)'
        BY <1>2, <2>1, <2>2 DEF HangsIn, SlotsOf
    <2>4. Shape(c)'
        BY <1>2, <1>3, <2>1, <2>2, <2>3, PcsAre, SteadyShape
    <2>5. Hand(c, main)'
        BY <1>1, <1>2, <1>3, <1>7
           DEF Kept, Hand, HandFor, SetPcs, BeforePcs, PlacedPcs, FlushPcs, GrowPcs, Class
    <2> QED
        BY <2>4, <2>5
<1> QED
    BY <1>2, <1>3, <1>4, <1>5, <1>6, <1>7, TableStep

-----------------------------------------------------------------------------
(* FLUSHDB *)

\* During it no answer stands.
LEMMA FlushStep ==
    ASSUME TypeInv, Duo, UNCHANGED <<keyOf, val, exp, todo, ttled>>, sweep' = sweep,
           Held' = Held, allocated \subseteq allocated', Parting',
           main'.pc \in FlushPcs \cup {"idle"},
           acked' \in [Keys -> Objects \cup {Nil}],
           \A c \in Classes : Clean(c) /\ Kept(c) => Shape(c)' /\ \A k \in Keys : acked'[k] = Nil
    PROVE  Duo'
<1>1. Apart'
    BY SweepHandStays, NoMainHand DEF Apart, Duo
<1>2. ASSUME NEW c \in Classes, Clean(c)' PROVE Kept(c)'
    <2>1. Clean(c) /\ Kept(c)
        BY <1>2 DEF Clean, Class, Duo
    <2>2. Hand(c, main)' /\ Promise(c)'
        BY <2>1 DEF Hand, Promise, FlushPcs, DelPcs, SetPcs, GrowPcs
    <2> QED
        BY <2>1, <2>2 DEF Kept
<1> QED
    BY <1>1, <1>2 DEF Duo

\* The shape of a class while the loop of ~Dict runs.
LEMMA FlushShape ==
    ASSUME NEW c, main'.pc = "flush",
           Tree(link, Of(c, Hanging), SlotsOf(c, buckets, main.n + 1, size), Walked(c, main))',
           (\A d, e \in Of(c, Live) : keyOf[d] = keyOf[e] => d = e)'
    PROVE  Shape(c)'
BY DEF Shape, SteadyPcs, GrowPcs, FlushPcs

\* The loop goes to the next bucket.
LEMMA TakeNext ==
    ASSUME TypeInv, Apart, NEW c, NEW a \in 1 .. size,
           Tree(link, Of(c, Hanging), SlotsOf(c, buckets, a, size), Nil),
           NEW r, r.ent = link[<<buckets, a>>]
    PROVE  Tree(link, Of(c, Hanging), SlotsOf(c, buckets, a + 1, size), Walked(c, r))
<1>1. PICK P, R : P = SlotsOf(c, buckets, a, size) /\ R = SlotsOf(c, buckets, a + 1, size)
    OBVIOUS
<1>2. PICK H, Q : H = Of(c, Hanging) /\ Q = {}
    OBVIOUS
<1>3. /\ H \subseteq Entries /\ Q \cap H = {} /\ <<buckets, a>> \notin Q
      /\ Q \cup P = P /\ Q \cup R = R
    BY <1>2, NowSlots
<1>4. Tree(link, H, Q \cup SlotsOf(c, buckets, a, size), Nil)
    BY <1>1, <1>2, <1>3
<1>5. Tree(link, H, Q \cup SlotsOf(c, buckets, a + 1, size), Walked(c, r))
    BY <1>3, <1>4, TakeBucket
<1> QED
    BY <1>1, <1>2, <1>3, <1>5

LEMMA FlushBeginDuo ==
    ASSUME TypeInv, Duo, FlushBegin PROVE Duo'
<1>1. main.pc = "idle"
    BY IdleIs DEF FlushBegin, main
<1>2. /\ UNCHANGED <<link, keyOf, val, exp, freed, allocated, buckets, size, todo, ttled>>
      /\ acked' = [k \in Keys |-> Nil]
    BY DEF FlushBegin, heap, shape, memory, dict, fields
<1>3. PICK i : i = Idle
    OBVIOUS
<1>4. PICK r : r = [i EXCEPT !.op = "flush", !.pc = "flush", !.n = 1, !.d = g_dict,
                             !.ent = link[<<buckets, 1>>]]
    OBVIOUS
<1>5. Become("main", r)
    BY <1>3, <1>4 DEF FlushBegin
<1>6. main' = r /\ sweep' = sweep
    BY <1>5, BecomeMain
<1>7. r.pc = "flush" /\ r.n = 1 /\ r.ent = link[<<buckets, 1>>]
    BY <1>3, <1>4, IdleIs DEF Locals
<1>8. Held' = Held /\ Live' = Live /\ Hanging' = Hanging
    BY <1>1, <1>2, <1>6, <1>7 DEF Held, Live, Hanging, Aside
<1>9. Parting'
    BY <1>2, <1>8, PartingStays DEF Duo, Apart, Parting
<1>10. ASSUME NEW c \in Classes, Kept(c) PROVE Shape(c)'
    <2>1. Of(c, Hanging)' = Of(c, Hanging) /\ Of(c, Live)' = Of(c, Live)
        BY <1>2, <1>8 DEF Of, Class
    <2>2. /\ Tree(link, Of(c, Hanging), SlotsOf(c, buckets, 1, size), Nil)
          /\ \A x, y \in Of(c, Live) : keyOf[x] = keyOf[y] => x = y
        BY <1>1, <1>10, PcsAre DEF Kept, Shape, HangsIn
    <2>3. 1 \in 1 .. size /\ main'.n + 1 = 1 + 1 /\ main'.pc = "flush"
        BY <1>6, <1>7, LiveIs
    <2>4. Tree(link, Of(c, Hanging), SlotsOf(c, buckets, 1 + 1, size), Walked(c, r))
        BY <1>7, <2>2, <2>3, TakeNext DEF Duo
    <2>5. Walked(c, main)' = Walked(c, r)
        BY <1>2, <1>6 DEF Walked, Class
    <2>6. Tree(link, Of(c, Hanging), SlotsOf(c, buckets, main.n + 1, size), Walked(c, main))'
        BY <1>2, <2>1, <2>3, <2>4, <2>5 DEF SlotsOf
    <2> QED
        BY <1>2, <2>1, <2>2, <2>3, <2>6, FlushShape
<1> QED
    BY <1>2, <1>6, <1>7, <1>8, <1>9, <1>10, FlushStep DEF FlushPcs

LEMMA FlushEntryDuo ==
    ASSUME TypeInv, Duo, FlushEntry PROVE Duo'
<1> DEFINE e == main.ent
<1>1. main.pc = "flush" /\ e # Nil /\ e \in Held
    BY MainIs DEF FlushEntry, TypeInv, Locals, Held
<1>2. CASE {e, val[e]} \cap freed # {}
    BY <1>2, DuoSame DEF FlushEntry, Touch
<1>3. CASE {e, val[e]} \cap freed = {}
    <2>1. /\ UNCHANGED <<link, keyOf, val, exp, allocated, buckets, size, todo, ttled, acked>>
          /\ freed' = freed \cup {e, val[e]}
        BY <1>3 DEF FlushEntry, Touch, shape, dict, fields, ghost
    <2>2. PICK r : r = [main EXCEPT !.ent = link[e]]
        OBVIOUS
    <2>3. Become("main", r)
        BY <1>3, <2>2 DEF FlushEntry, Touch
    <2>4. main' = r /\ sweep' = sweep
        BY <2>3, BecomeMain
    <2>5. r.pc = "flush" /\ r.ent = link[e] /\ r.n = main.n
        BY <1>1, <2>2, MainIs DEF TypeInv, Locals
    <2>6. /\ Held' = Held /\ Live' = Live \ {e} /\ Hanging = Live /\ Hanging' = Live \ {e}
        <3>1. Held' = Held /\ Live' = Live \ {e}
            BY <1>1, <2>1, LiveIs DEF Held, Live
        <3> QED
            BY <1>1, <2>4, <2>5, <3>1 DEF Hanging, Aside
    <2>7. Parting'
        BY <2>1, <2>6, PartingStays DEF Duo, Apart, Parting
    <2>8. link[e] # Nil => link[e] \in Entries /\ Class(keyOf[link[e]]) = Class(keyOf[e])
        <3>1. e \in Places /\ e \in allocated /\ e \in Entries
            BY <1>1, LiveIs
        <3>2. link[e] \in Entries \cup {Nil}
            BY <3>1 DEF TypeInv, Heap
        <3> QED
            BY <3>1, <3>2 DEF Duo, Apart, Parting, ClassAt
    <2>9. ASSUME NEW c \in Classes, Kept(c) PROVE Shape(c)' /\ \A k \in Keys : acked'[k] = Nil
        <3> DEFINE H == Of(c, Hanging)
                   P == SlotsOf(c, buckets, main.n + 1, size)
        <3>1. /\ Tree(link, H, P, Walked(c, main))
              /\ \A x, y \in Of(c, Live) : keyOf[x] = keyOf[y] => x = y
            BY <1>1, <2>9 DEF Kept, Shape
        <3>2. Of(c, Hanging)' = H \ {e} /\ Of(c, Live)' = Of(c, Live) \ {e}
            BY <2>1, <2>6 DEF Of, Class
        <3>3. Tree(link, H \ {e}, P, Walked(c, r))
            <4>1. CASE Class(keyOf[e]) = c
                <5>1. Walked(c, main) = e /\ Walked(c, r) = link[e]
                    BY <1>1, <2>5, <2>8, <4>1 DEF Walked
                <5>2. P \cap H = {} /\ Nil \notin H
                    <6>1. PICK a \in Nat \ {0} : a = main.n + 1
                        BY <1>1, MainIs DEF TypeInv, InMain
                    <6>2. SlotsOf(c, buckets, a, size) \cap Entries = {}
                        BY LiveIs, SlotsOfAre
                    <6> QED
                        BY <6>1, <6>2, NowSlots
                <5>3. Tree(link, H, P, e)
                    BY <3>1, <5>1
                <5> HIDE DEF H, P, e
                <5> QED
                    BY <1>1, <5>1, <5>2, <5>3, EatTree
            <4>2. CASE Class(keyOf[e]) # c
                <5>1. Walked(c, main) = Nil /\ Walked(c, r) = Nil
                    BY <2>5, <2>8, <4>2 DEF Walked
                <5>2. H \ {e} = H
                    BY <4>2 DEF Of
                <5> QED
                    BY <3>1, <5>1, <5>2
            <4> QED
                BY <4>1, <4>2
        <3>4. Walked(c, main)' = Walked(c, r)
            BY <2>1, <2>4 DEF Walked, Class
        <3>5. Tree(link, Of(c, Hanging), SlotsOf(c, buckets, main.n + 1, size), Walked(c, main))'
            BY <2>1, <2>4, <2>5, <3>2, <3>3, <3>4 DEF SlotsOf
        <3>6. Shape(c)'
            BY <2>1, <2>4, <2>5, <3>1, <3>2, <3>5, FlushShape
        <3>7. \A k \in Keys : acked'[k] = Nil
            BY <1>1, <2>1, <2>9 DEF Kept, Hand, FlushPcs
        <3> QED
            BY <3>6, <3>7
    <2>10. acked' \in [Keys -> Objects \cup {Nil}]
        BY <2>1 DEF Duo
    <2> QED
        BY <2>1, <2>4, <2>5, <2>6, <2>7, <2>9, <2>10, FlushStep DEF FlushPcs
<1> QED
    BY <1>2, <1>3

LEMMA FlushBucketDuo ==
    ASSUME TypeInv, Duo, FlushBucket PROVE Duo'
<1>1. main.pc = "flush" /\ main.ent = Nil /\ main.n \in 1 .. size /\ size \in Nat
    BY MainIs, LiveIs DEF FlushBucket, NextBucket, TypeInv, InMain
<1>2. UNCHANGED <<link, keyOf, val, exp, freed, allocated, buckets, size, todo, ttled, acked>>
    BY DEF FlushBucket, NextBucket, heap, shape, memory, dict, fields, ghost
<1>3. Held' = Held
    BY <1>2 DEF Held
<1>4. Parting'
    BY <1>2, <1>3, PartingStays DEF Duo, Apart, Parting
<1>5. ASSUME NEW c \in Classes, Kept(c)
      PROVE  /\ Tree(link, Of(c, Hanging), SlotsOf(c, buckets, main.n + 1, size), Nil)
             /\ \A x, y \in Of(c, Live) : keyOf[x] = keyOf[y] => x = y
             /\ \A k \in Keys : acked'[k] = Nil
    <2>1. Walked(c, main) = Nil
        BY <1>1 DEF Walked
    <2> QED
        BY <1>1, <1>2, <1>5, <2>1 DEF Kept, Shape, Hand, FlushPcs
<1>6. acked' \in [Keys -> Objects \cup {Nil}]
    BY <1>2 DEF Duo
<1>7. CASE main.n = size
    <2>1. PICK r : r = [main EXCEPT !.pc = "flush_free", !.n = 0]
        OBVIOUS
    <2>2. Become("main", r)
        BY <1>7, <2>1 DEF FlushBucket, NextBucket
    <2>3. main' = r /\ sweep' = sweep
        BY <2>2, BecomeMain
    <2>4. r.pc = "flush_free"
        BY <2>1, MainIs DEF TypeInv, Locals
    <2>5. Live' = Live /\ Hanging' = Hanging
        BY <1>1, <1>2, <2>3, <2>4 DEF Live, Hanging, Aside
    <2>6. ASSUME NEW c \in Classes, Kept(c) PROVE Shape(c)'
        <3>1. Of(c, Hanging)' = Of(c, Hanging) /\ Of(c, Live)' = Of(c, Live)
            BY <1>2, <2>5 DEF Of, Class
        <3>2. SlotsOf(c, buckets, main.n + 1, size) = {}
            <4>1. main.n + 1 .. size = {}
                BY <1>1, <1>7
            <4> QED
                BY <4>1 DEF SlotsOf
        <3>3. Of(c, Hanging) \subseteq {}
            BY <1>5, <2>6, <3>2, Met
        <3> QED
            BY <1>2, <1>5, <2>3, <2>4, <2>6, <3>1, <3>3 DEF Shape, SteadyPcs, GrowPcs, FlushPcs
    <2> QED
        BY <1>2, <1>3, <1>4, <1>5, <1>6, <2>3, <2>4, <2>6, FlushStep DEF FlushPcs
<1>8. CASE main.n # size
    <2>1. PICK a \in 1 .. size : a = main.n + 1
        BY <1>1, <1>8
    <2>2. PICK r : r = [main EXCEPT !.n = a, !.ent = link[<<buckets, a>>]]
        OBVIOUS
    <2>3. Become("main", r)
        BY <1>8, <2>1, <2>2 DEF FlushBucket, NextBucket
    <2>4. main' = r /\ sweep' = sweep
        BY <2>3, BecomeMain
    <2>5. r.pc = "flush" /\ r.n = a /\ r.ent = link[<<buckets, a>>]
        BY <1>1, <2>2, MainIs DEF TypeInv, Locals
    <2>6. Live' = Live /\ Hanging' = Hanging
        BY <1>1, <1>2, <2>4, <2>5 DEF Live, Hanging, Aside
    <2>7. ASSUME NEW c \in Classes, Kept(c) PROVE Shape(c)'
        <3>1. Of(c, Hanging)' = Of(c, Hanging) /\ Of(c, Live)' = Of(c, Live)
            BY <1>2, <2>6 DEF Of, Class
        <3>2. Tree(link, Of(c, Hanging), SlotsOf(c, buckets, a, size), Nil)
            BY <1>5, <2>1, <2>7
        <3>3. Tree(link, Of(c, Hanging), SlotsOf(c, buckets, a + 1, size), Walked(c, r))
            BY <2>5, <3>2, TakeNext DEF Duo
        <3>4. Walked(c, main)' = Walked(c, r)
            BY <1>2, <2>4 DEF Walked, Class
        <3>5. Tree(link, Of(c, Hanging), SlotsOf(c, buckets, main.n + 1, size), Walked(c, main))'
            BY <1>2, <2>4, <2>5, <3>1, <3>3, <3>4 DEF SlotsOf
        <3> QED
            BY <1>2, <1>5, <2>4, <2>5, <2>7, <3>1, <3>5, FlushShape
    <2> QED
        BY <1>2, <1>3, <1>4, <1>5, <1>6, <2>4, <2>5, <2>7, FlushStep DEF FlushPcs
<1> QED
    BY <1>7, <1>8

LEMMA FlushFreeDuo ==
    ASSUME TypeInv, Duo, FlushFree PROVE Duo'
<1>1. main.pc = "flush_free" /\ buckets \in Tables /\ g_dict \in Dicts
    BY LiveIs DEF FlushFree, TypeInv, Fields
<1>2. /\ UNCHANGED <<link, keyOf, val, exp, allocated, buckets, size, todo, ttled, acked>>
      /\ freed' = freed \cup {buckets, g_dict} /\ Go("main", "flush_new")
    BY DEF FlushFree, shape, dict, fields, ghost
<1>3. main'.pc = "flush_new" /\ sweep' = sweep
    BY <1>2, GoMain
<1>4. Held' = Held /\ Live' = Live /\ Hanging' = Hanging
    <2>1. Held' = Held /\ Live' = Live
        BY <1>1, <1>2, CellsAreDistinct DEF Held, Live
    <2> QED
        BY <1>1, <1>3, <2>1 DEF Hanging, Aside
<1>5. Parting'
    BY <1>2, <1>4, PartingStays DEF Duo, Apart, Parting
<1>6. ASSUME NEW c \in Classes, Kept(c) PROVE Shape(c)' /\ \A k \in Keys : acked'[k] = Nil
    <2>1. Of(c, Hanging)' = Of(c, Hanging) /\ Of(c, Live)' = Of(c, Live)
        BY <1>2, <1>4 DEF Of, Class
    <2>2. Shape(c)'
        BY <1>1, <1>2, <1>3, <1>6, <2>1 DEF Kept, Shape, SteadyPcs, GrowPcs, FlushPcs
    <2> QED
        BY <1>1, <1>2, <1>6, <2>2 DEF Kept, Hand, FlushPcs
<1>7. acked' \in [Keys -> Objects \cup {Nil}]
    BY <1>2 DEF Duo
<1> QED
    BY <1>2, <1>3, <1>4, <1>5, <1>6, <1>7, FlushStep DEF FlushPcs

LEMMA FlushNewDuo ==
    ASSUME TypeInv, Duo, FlushNew PROVE Duo'
<1>1. main.pc = "flush_new"
    BY DEF FlushNew
<1>2. PICK D, t : D = Fresh(Dicts) /\ t = Fresh(Tables)
    OBVIOUS
<1>3. /\ D \in Dicts /\ D \notin allocated /\ t \in Tables /\ t \notin allocated
      /\ D \notin Entries /\ t \notin Entries
    <2>1. Dicts \ allocated # {} /\ Tables \ allocated # {}
        BY <1>1, MainIs DEF TypeInv, InMain, FlushPcs
    <2> QED
        BY <1>2, <2>1, FreshIs, CellsAreDistinct
<1>4. /\ buckets' = t /\ allocated' = allocated \cup {D, t} /\ size' = InitialSize
      /\ UNCHANGED <<link, keyOf, val, exp, freed, todo, ttled, acked>> /\ Become("main", Idle)
    BY <1>2 DEF FlushNew, shape, ghost
<1>5. main'.pc = "idle" /\ sweep' = sweep
    BY <1>4, IdleMain
<1>6. Held' = Held /\ Live' = Live /\ Hanging' = Live /\ Hanging = Live
    <2>1. Held' = Held /\ Live' = Live
        BY <1>3, <1>4 DEF Held, Live
    <2> QED
        BY <1>1, <1>5, <2>1 DEF Hanging, Aside
<1>7. Parting'
    <2>1. Multiple(InitialSize)
        BY Sizes DEF Multiple
    <2>2. \A p \in Places : link'[p] # Nil /\ p \in allocated' \cup (Places \ Entries)
                                => ClassAt(link[p])' = ClassAt(p)'
        <3>1. \A p \in Places : p \in allocated' \cup (Places \ Entries)
                                    => p \in allocated \cup (Places \ Entries)
            BY <1>3, <1>4
        <3> QED
            BY <1>4, <3>1 DEF Duo, Apart, Parting, ClassAt, Class
    <2> QED
        BY <1>4, <1>6, <2>1, <2>2 DEF Duo, Apart, Parting, Multiple
<1>8. \A i \in 1 .. InitialSize : link[<<t, i>>] = Nil
    <2>1. \A i \in 1 .. InitialSize : i \in 1 .. MaxSize
        BY Sizes
    <2> QED
        BY <1>3, <2>1 DEF Duo, Apart, Parting
<1>9. ASSUME NEW c \in Classes, Kept(c) PROVE Shape(c)' /\ \A k \in Keys : acked'[k] = Nil
    <2> DEFINE P == SlotsOf(c, t, 1, InitialSize)
    <2>1. Of(c, Live) = {}
        BY <1>1, <1>6, <1>9 DEF Kept, Shape
    <2>2. Of(c, Hanging)' = {} /\ Of(c, Live)' = {}
        BY <1>4, <1>6, <2>1 DEF Of, Class
    <2>3. \A p \in P : link[p] = Nil
        BY <1>8 DEF SlotsOf
    <2>4. Tree(link, {}, P, Nil) /\ Fits(link, keyOf, InitialSize, P, {})
        BY <2>3 DEF Tree, Fits
    <2>5. HangsIn(c, buckets, size)'
        BY <1>4, <2>2, <2>4 DEF HangsIn, SlotsOf
    <2>6. Shape(c)'
        BY <1>5, <2>2, <2>5, SteadyShape, PcsAre
    <2> QED
        BY <1>1, <1>4, <1>9, <2>6 DEF Kept, Hand, FlushPcs
<1>10. acked' \in [Keys -> Objects \cup {Nil}]
    BY <1>4 DEF Duo
<1> QED
    BY <1>4, <1>5, <1>6, <1>7, <1>9, <1>10, FlushStep

-----------------------------------------------------------------------------
(* What the sweep leaves alone *)

\* A step of the sweep that changes nothing of class c: no pointer, no entry, no
\* object of an entry, nor the one SET has yet to place.
Spares(c) ==
    /\ \A p \in Places : ClassAt(p) = c /\ p \in allocated \cup (Places \ Entries)
                            => link'[p] = link[p]
    /\ \A e \in Of(c, Held) : /\ e \in freed' => e \in freed
                              /\ val[e] \in freed' => val[e] \in freed
    /\ main.pc \in BeforePcs /\ main.obj \in freed' => main.obj \in freed
    /\ freed \subseteq freed'
    /\ main' = main /\ UNCHANGED <<keyOf, val, allocated, buckets, size, acked>>

\* The same entries of the class live and hang.
LEMMA SparedLive ==
    ASSUME TypeInv, NEW c, Spares(c)
    PROVE  Of(c, Live)' = Of(c, Live) /\ Of(c, Hanging)' = Of(c, Hanging)
<1>1. \A e \in Held : Class(keyOf[e]) = c => (e \in freed' <=> e \in freed)
    BY DEF Spares, Of
<1>2. Aside' = Aside /\ Held' = Held /\ Live = Held \ freed /\ Live' = Held \ freed'
    BY DEF Spares, Aside, Held, Live
<1>3. keyOf' = keyOf
    BY DEF Spares
<1> QED
    BY <1>1, <1>2, <1>3 DEF Of, Hanging, Class

\* What hangs from buckets of the class hangs there still.
LEMMA SparedTree ==
    ASSUME TypeInv, NEW c, Spares(c), NEW P, P \subseteq Places, P \cap Entries = {},
           \A p \in P : ClassAt(p) = c
    PROVE  /\ \A p \in P \cup Of(c, Held) : link'[p] = link[p]
           /\ \A w : Tree(link, Of(c, Hanging), P, w) => Tree(link', Of(c, Hanging), P, w)
           /\ \A n, M : M \subseteq Of(c, Hanging) /\ Fits(link, keyOf, n, P, M)
                           => Fits(link', keyOf, n, P, M)
<1>1. \A e \in Of(c, Held) : e \in Places /\ e \in allocated /\ ClassAt(e) = c
    BY LiveIs DEF Of, ClassAt
<1>2. \A p \in P \cup Of(c, Held) : link'[p] = link[p]
    BY <1>1 DEF Spares
<1>3. PICK H : H = Of(c, Hanging)
    OBVIOUS
<1>4. H \subseteq Of(c, Held)
    BY <1>3, LiveIs DEF Of
<1>5. \A w : Tree(link, H, P, w) => Tree(link', H, P, w)
    BY <1>2, <1>4, SameTree
<1>6. \A n, M : M \subseteq H /\ Fits(link, keyOf, n, P, M) => Fits(link', keyOf, n, P, M)
    BY <1>2, <1>4, SameFits
<1> QED
    BY <1>2, <1>3, <1>5, <1>6

LEMMA SparedHangs ==
    ASSUME TypeInv, NEW c, Spares(c), NEW t \in Tables, NEW n \in Nat, n <= MaxSize,
           HangsIn(c, t, n)
    PROVE  /\ Tree(link', Of(c, Hanging), SlotsOf(c, t, 1, n), Nil)
           /\ Fits(link', keyOf, n, SlotsOf(c, t, 1, n), Of(c, Hanging))
<1>1. PICK P : P = SlotsOf(c, t, 1, n)
    OBVIOUS
<1>2. P \subseteq Places /\ P \cap Entries = {} /\ \A p \in P : ClassAt(p) = c
    <2>1. 1 \in Nat \ {0}
        OBVIOUS
    <2>2. P \subseteq Places
        BY <1>1, <2>1, SlotsOfAre
    <2>3. P \cap Entries = {}
        BY <1>1, <2>1, SlotsOfAre
    <2>4. ASSUME NEW p \in P PROVE ClassAt(p) = c
        <3>1. PICK i \in 1 .. n : p = <<t, i>> /\ (i - 1) % InitialSize = c
            BY <1>1 DEF SlotsOf
        <3> QED
            BY <2>3, <3>1 DEF ClassAt
    <2> QED
        BY <2>2, <2>3, <2>4
<1> QED
    BY <1>1, <1>2, SparedTree DEF HangsIn

\* Wherever main is, it finds of the class what it left there.
LEMMA SparedShape ==
    ASSUME TypeInv, Duo, NEW c, Kept(c), Spares(c)
    PROVE  Shape(c)'
<1>0. /\ main' = main /\ UNCHANGED <<keyOf, buckets, size>>
      /\ Of(c, Hanging)' = Of(c, Hanging) /\ Of(c, Live)' = Of(c, Live)
      /\ Walked(c, main)' = Walked(c, main)
    BY SparedLive DEF Spares, Walked, Class
<1>1. /\ size \in Nat \ {0} /\ size <= MaxSize /\ buckets \in Tables
      /\ main.pc \in GrowPcs => 2 * size <= MaxSize
      /\ main.pc \in {"grow_free", "grow_table"} => main.tab \in Tables
    BY LiveIs, MainIs DEF TypeInv, InMain, GrowPcs
<1>2. PICK m : m = 2 * size
    OBVIOUS
<1>3. m \in Nat /\ size \in Nat
    BY <1>1, <1>2
<1>4. main.pc \in SteadyPcs => HangsIn(c, buckets, size)'
    <2> SUFFICES ASSUME main.pc \in SteadyPcs PROVE HangsIn(c, buckets, size)'
        OBVIOUS
    <2>1. HangsIn(c, buckets, size)
        BY DEF Kept, Shape
    <2> QED
        BY <1>0, <1>1, <1>3, <2>1, SparedHangs DEF HangsIn, SlotsOf
<1>5. main.pc \in {"grow_free", "grow_table"} => HangsIn(c, main.tab, 2 * size)'
    <2> SUFFICES ASSUME main.pc \in {"grow_free", "grow_table"}
                 PROVE  HangsIn(c, main.tab, 2 * size)'
        OBVIOUS
    <2>1. HangsIn(c, main.tab, m) /\ m <= MaxSize /\ main.tab \in Tables
        BY <1>1, <1>2 DEF Kept, Shape, GrowPcs
    <2> QED
        BY <1>0, <1>2, <1>3, <2>1, SparedHangs DEF HangsIn, SlotsOf
<1>6. main.pc = "grow_size" => HangsIn(c, buckets, 2 * size)'
    <2> SUFFICES ASSUME main.pc = "grow_size" PROVE HangsIn(c, buckets, 2 * size)'
        OBVIOUS
    <2>1. HangsIn(c, buckets, m) /\ m <= MaxSize
        BY <1>1, <1>2 DEF Kept, Shape, GrowPcs
    <2> QED
        BY <1>0, <1>1, <1>2, <1>3, <2>1, SparedHangs DEF HangsIn, SlotsOf
<1>7. ASSUME main.pc \in {"grow", "grow_move"} PROVE Shape(c)'
    <2>1. PICK H, T, B : /\ H = Of(c, Hanging) /\ T = SlotsOf(c, main.tab, 1, 2 * size)
                         /\ B = SlotsOf(c, buckets, main.n + 1, size)
        OBVIOUS
    <2>2. /\ T \subseteq Places /\ T \cap Entries = {} /\ \A p \in T : ClassAt(p) = c
          /\ B \subseteq Places /\ B \cap Entries = {} /\ \A p \in B : ClassAt(p) = c
        BY <1>7, <2>1, GrowthIs
    <2>3. (T \cup B) \subseteq Places /\ (T \cup B) \cap Entries = {}
          /\ \A p \in T \cup B : ClassAt(p) = c
        BY <2>2
    <2>4. /\ GrowShape(c, H, Walked(c, main))
          /\ \E M \in SUBSET H : Halved(c, M)
        BY <1>7, <2>1, GrowShapes DEF Kept
    <2>5. PICK M \in SUBSET H : Halved(c, M)
        BY <2>4
    <2>6. Tree(link, H, T \cup B, Walked(c, main))
        BY <2>1, <2>4 DEF GrowShape
    <2>7. Tree(link', H, T \cup B, Walked(c, main))
        BY <2>1, <2>3, <2>6, SparedTree
    <2>8. /\ Fits(link, keyOf, 2 * size, T, M) /\ Walked(c, main) \notin M
          /\ \A p \in B \cup (H \ M) : link[p] \notin M
        BY <2>1, <2>5 DEF Halved
    <2>9. Fits(link', keyOf, 2 * size, T, M)
        BY <2>1, <2>2, <2>8, SparedTree
    <2>10. H \subseteq Of(c, Held)
        BY <2>1, LiveIs DEF Of
    <2>11. \A p \in B \cup H : link'[p] = link[p]
        BY <2>2, <2>10, SparedTree
    <2>12. SlotsOf(c, main.tab, 1, 2 * size)' = T /\ SlotsOf(c, buckets, main.n + 1, size)' = B
           /\ Of(c, Hanging)' = H
        BY <1>0, <2>1 DEF SlotsOf
    <2>13. Halved(c, M)'
        BY <1>0, <2>8, <2>9, <2>11, <2>12 DEF Halved
    <2>14. (\A d, e \in Of(c, Live) : keyOf[d] = keyOf[e] => d = e)'
        BY <1>0, <2>4 DEF GrowShape
    <2>15. Tree(link, Of(c, Hanging), SlotsOf(c, main.tab, 1, 2 * size)
                \cup SlotsOf(c, buckets, main.n + 1, size), Walked(c, main))'
        BY <1>0, <2>7, <2>12
    <2>16. \E N \in SUBSET Of(c, Hanging)' : Halved(c, N)'
        BY <2>12, <2>13
    <2> QED
        BY <1>0, <1>7, <2>14, <2>15, <2>16, ShapeGrows
<1>8. ASSUME main.pc = "flush" PROVE Shape(c)'
    <2>1. PICK a \in Nat \ {0} : a = main.n + 1
        BY <1>8, MainIs DEF TypeInv, InMain
    <2>2. PICK P : P = SlotsOf(c, buckets, a, size)
        OBVIOUS
    <2>3. P \subseteq Places /\ P \cap Entries = {} /\ \A p \in P : ClassAt(p) = c
        BY <1>1, <1>3, <2>2, SlotsOfAre
    <2>4. /\ Tree(link, Of(c, Hanging), P, Walked(c, main))
          /\ \A d, e \in Of(c, Live) : keyOf[d] = keyOf[e] => d = e
        BY <1>8, <2>1, <2>2 DEF Kept, Shape
    <2>5. Tree(link', Of(c, Hanging), P, Walked(c, main))
        BY <2>3, <2>4, SparedTree
    <2>6. Tree(link, Of(c, Hanging), SlotsOf(c, buckets, main.n + 1, size), Walked(c, main))'
        BY <1>0, <2>1, <2>2, <2>5 DEF SlotsOf
    <2> QED
        BY <1>0, <1>8, <2>4, <2>6, FlushShape
<1>9. main.pc \in {"flush_free", "flush_new"} => Of(c, Hanging)' = {}
    BY <1>0 DEF Kept, Shape
<1>10. (\A d, e \in Of(c, Live) : keyOf[d] = keyOf[e] => d = e)'
    BY <1>0 DEF Kept, Shape
<1>11. CASE main.pc \notin {"grow", "grow_move", "flush"}
    BY <1>0, <1>4, <1>5, <1>6, <1>9, <1>10, <1>11 DEF Shape
<1> QED
    BY <1>7, <1>8, <1>11

\* What main has in hand for the class is as good as before.
LEMMA SparedHand ==
    ASSUME TypeInv, Duo, NEW c, Kept(c), Spares(c)
    PROVE  Hand(c, main)'
<1>0. /\ main' = main /\ UNCHANGED <<keyOf, val, buckets, size, acked>>
      /\ Of(c, Hanging)' = Of(c, Hanging) /\ Of(c, Live)' = Of(c, Live)
    BY SparedLive DEF Spares
<1>1. PICK P : P = SlotsOf(c, buckets, 1, size)
    OBVIOUS
<1>2. /\ P \subseteq Places /\ P \cap Entries = {} /\ \A p \in P : ClassAt(p) = c
      /\ P' = P /\ SlotsOf(c, buckets, 1, size)' = P
    BY <1>0, <1>1, NowSlots DEF SlotsOf
<1>3. \A p \in P \cup Of(c, Held) : link'[p] = link[p]
    BY <1>2, SparedTree
<1>4. main.ent # Nil => main.ent \in Held
    BY MainIs DEF TypeInv, Locals, Held
<1>5. main.pc = "grow_move" /\ Walked(c, main) # Nil => link'[main.ent] = link[main.ent]
    BY <1>3, <1>4 DEF Walked, Of
<1>6. ASSUME main.pc \in DelPcs \cup SetPcs, Class(main.key) = c PROVE HandFor(c, main)'
    <2>1. HandFor(c, main)
        BY <1>6 DEF Kept, Hand
    <2>2. main.key \in Keys
        BY <1>6, MainIs DEF TypeInv, InMain, InCheck, DelPcs, CheckPcs
    <2>3. main.pc = "del_unlink" => link'[main.prev] = link[main.prev]
        <3>1. Of(c, Hanging) \subseteq Of(c, Held)
            BY LiveIs DEF Of
        <3> QED
            BY <1>1, <1>3, <2>1, <3>1 DEF HandFor
    <2>4. main.pc \in {"set_free", "set_val", "set_link"} => /\ main.ent \in Of(c, Live)
                                                           /\ main.ent \in Of(c, Held)
        BY <1>6, <2>1, LiveIs DEF HandFor, Duo, Apart, InMainHand, Of
    <2>5. main.pc = "set_link" =>
             link'[main.ent] = link[main.ent] /\ link'[Bucket(main.key)] = link[Bucket(main.key)]
        <3>1. Bucket(main.key) \in P
            BY <1>1, <1>6, <2>2, NowSlots DEF Duo, Apart, Parting
        <3> QED
            BY <1>3, <2>4, <3>1
    <2>6. ASSUME Served(main.key, main.obj) PROVE Served(main.key, main.obj)'
        <3>1. PICK e \in Live : keyOf[e] = main.key /\ val[e] = main.obj /\ main.obj \notin freed
            BY <2>6 DEF Served
        <3>2. e \in Of(c, Live) /\ e \in Of(c, Held)
            BY <1>6, <3>1, LiveIs DEF Of
        <3>3. e \in Live' /\ val[e] \notin freed'
            BY <1>0, <3>1, <3>2 DEF Spares, Of
        <3> QED
            BY <1>0, <3>1, <3>3 DEF Served
    <2>7. main.pc \in BeforePcs => main.obj \notin freed'
        BY <2>1 DEF HandFor, Spares
    <2>8. main.pc \in {"set_free", "set_val", "set_link"} => main.ent \in Live'
        BY <1>0, <2>4 DEF Of
    <2>9. Bucket(main.key)' = Bucket(main.key)
        BY <1>0 DEF Bucket
    <2> QED
        BY <1>0, <1>1, <1>2, <2>1, <2>3, <2>5, <2>6, <2>7, <2>8, <2>9 DEF HandFor
<1> QED
    BY <1>0, <1>5, <1>6 DEF Kept, Hand, Walked, Class

LEMMA Spared ==
    ASSUME TypeInv, Duo, NEW c, Kept(c), Spares(c)
    PROVE  Kept(c)'
<1>1. Of(c, Live)' = Of(c, Live) /\ keyOf' = keyOf /\ val' = val /\ acked' = acked
    BY SparedLive DEF Spares
<1>2. Promise(c)'
    <2>1. ASSUME NEW e \in Of(c, Live), val[e] \notin freed
          PROVE  e \in Live' /\ val[e] \notin freed'
        <3>1. e \in Of(c, Held)
            BY LiveIs DEF Of
        <3>2. e \in Live'
            BY <1>1 DEF Of
        <3> QED
            BY <2>1, <3>1, <3>2 DEF Spares
    <2>2. Promise(c)
        BY DEF Kept
    <2>3. \A k \in Keys : acked'[k] \in {acked[k], Nil}
        BY <1>1
    <2> QED
        BY <1>1, <2>1, <2>2, <2>3, PromiseStays
<1> QED
    BY <1>2, SparedShape, SparedHand DEF Kept

-----------------------------------------------------------------------------
(* Steps of the sweep thread *)

\* A step of the sweep keeps the invariant if it keeps to what it may touch.
LEMMA SweepStep ==
    ASSUME TypeInv, Duo, main' = main,
           UNCHANGED <<keyOf, val, exp, allocated, buckets, size, acked, ttled>>,
           Parting', InSweepHand(sweep)', \A c \in Classes : Clean(c) => Spares(c)
    PROVE  Duo'
<1>1. Apart'
    BY MainHandStays DEF Apart, Duo
<1>2. \A c \in Classes : Clean(c)' => Kept(c)'
    BY Spared DEF Duo, Clean, Class
<1> QED
    BY <1>1, <1>2 DEF Duo

\* It reads only.
LEMMA SweepReads ==
    ASSUME TypeInv, Duo, main' = main, UNCHANGED <<heap, ghost>>, InSweepHand(sweep)',
           \A i \in 1 .. Len(todo') : todo'[i] \in ttled
    PROVE  Duo'
<1>1. UNCHANGED <<link, keyOf, val, exp, allocated, freed, buckets, size, acked, ttled>>
    BY DEF heap, shape, memory, dict, fields, ghost
<1>2. Parting'
    BY <1>1, PartingStays DEF Duo, Held
<1>3. \A c : Spares(c)
    BY <1>1 DEF Spares
<1> QED
    BY <1>1, <1>2, <1>3, SweepStep

\* What the sweep has collected.
LEMMA Collected ==
    ASSUME Duo, todo' = todo
    PROVE  \A i \in 1 .. Len(todo') : todo'[i] \in ttled
BY DEF Duo, Apart, Parting

\* Away from dict_del and check_expiry it has nothing in hand.
LEMMA NoSweepHand ==
    ASSUME sweep'.pc \in {"idle", "scan", "next"} PROVE InSweepHand(sweep)'
BY DEF InSweepHand, Deleting, CheckPcs

\* In check_expiry its key is one EXPIRE was used on.
LEMMA SameSweepKey ==
    ASSUME Duo, sweep.pc \in CheckPcs, sweep'.key = sweep.key, ttled' = ttled,
           sweep'.pc \in CheckPcs \ {"del_unlink", "del_free"}
    PROVE  InSweepHand(sweep)'
BY DEF InSweepHand, Deleting, Duo, Apart

LEMMA ScanEnds ==
    ASSUME TypeInv, EndScan PROVE sweep'.pc = "next" /\ main' = main
<1>1. PICK i : i = Idle
    OBVIOUS
<1>2. PICK r : r = [i EXCEPT !.pc = "next", !.op = "sweep"]
    OBVIOUS
<1>3. Become("sweep", r) /\ r.pc = "next"
    BY <1>1, <1>2, IdleIs DEF EndScan, Locals
<1> QED
    BY <1>3, BecomeSweep

LEMMA SweepWakeDuo ==
    ASSUME TypeInv, Duo, SweepWake PROVE Duo'
<1>1. CASE {g_dict, buckets} \cap freed # {}
    BY <1>1, DuoSame DEF SweepWake, Touch
<1>2. CASE {g_dict, buckets} \cap freed = {}
    <2>1. UNCHANGED <<heap, ghost>> /\ todo' = todo
        BY <1>2 DEF SweepWake, Touch
    <2>2. PICK i : i = Idle
        OBVIOUS
    <2>3. PICK r : r = [i EXCEPT !.pc = "scan", !.op = "sweep", !.n = 1,
                                 !.d = g_dict, !.ent = link[<<buckets, 1>>]]
        OBVIOUS
    <2>4. Become("sweep", r)
        BY <1>2, <2>2, <2>3 DEF SweepWake, Touch
    <2>5. r.pc = "scan"
        BY <2>2, <2>3, IdleIs DEF Locals
    <2>6. sweep'.pc = "scan" /\ main' = main
        BY <2>4, <2>5, BecomeSweep
    <2> QED
        BY <2>1, <2>6, Collected, NoSweepHand, SweepReads
<1> QED
    BY <1>1, <1>2

LEMMA SweepBucketDuo ==
    ASSUME TypeInv, Duo, SweepBucket PROVE Duo'
<1>1. CASE {sweep.d, buckets} \cap freed # {}
    BY <1>1, DuoSame DEF SweepBucket, Touch
<1>2. CASE {sweep.d, buckets} \cap freed = {}
    <2>1. UNCHANGED <<heap, ghost>> /\ todo' = todo
        BY <1>2 DEF SweepBucket, Touch
    <2>2. sweep'.pc \in {"scan", "next"} /\ main' = main
        <3>1. CASE sweep.n >= size
            BY <1>2, <3>1, ScanEnds DEF SweepBucket, Touch
        <3>2. CASE ~(sweep.n >= size)
            <4>1. PICK r : r = [sweep EXCEPT !.n = @ + 1,
                                             !.ent = link[<<buckets, sweep.n + 1>>]]
                OBVIOUS
            <4>2. Become("sweep", r)
                BY <1>2, <3>2, <4>1 DEF SweepBucket, Touch
            <4>3. r.pc = "scan"
                BY <4>1, SweepIs DEF SweepBucket, TypeInv, Locals
            <4> QED
                BY <4>2, <4>3, BecomeSweep
        <3> QED
            BY <3>1, <3>2
    <2> QED
        BY <2>1, <2>2, Collected, NoSweepHand, SweepReads
<1> QED
    BY <1>1, <1>2

LEMMA SweepEntryDuo ==
    ASSUME TypeInv, Duo, SweepEntry PROVE Duo'
<1> DEFINE e == sweep.ent
<1>1. sweep.pc = "scan" /\ e # Nil /\ e \in Held /\ todo \in Seq(Keys)
    BY SweepIs DEF SweepEntry, TypeInv, Rest, Locals, Held
<1>2. CASE {e, val[e]} \cap freed # {}
    BY <1>2, DuoSame DEF SweepEntry, Touch
<1>3. CASE {e, val[e]} \cap freed = {}
    <2>1. UNCHANGED <<heap, ghost>>
        BY <1>3 DEF SweepEntry, Touch
    <2>2. CASE Len(todo) >= SweepMax
        <3>1. EndScan /\ todo' = todo
            BY <1>3, <2>2 DEF SweepEntry, Touch
        <3> QED
            BY <2>1, <3>1, ScanEnds, Collected, NoSweepHand, SweepReads
    <2>3. CASE ~(Len(todo) >= SweepMax)
        <3>1. PICK r : r = [sweep EXCEPT !.ent = link[e]]
            OBVIOUS
        <3>2. /\ Become("sweep", r)
              /\ todo' = IF exp[val[e]] # 0 THEN Append(todo, keyOf[e]) ELSE todo
            BY <1>3, <2>3, <3>1 DEF SweepEntry, Touch
        <3>3. r.pc = "scan"
            BY <1>1, <3>1, SweepIs DEF TypeInv, Locals
        <3>4. sweep'.pc = "scan" /\ main' = main
            BY <3>2, <3>3, BecomeSweep
        <3>5. \A i \in 1 .. Len(todo') : todo'[i] \in ttled
            <4>1. CASE exp[val[e]] = 0
                BY <3>2, <4>1, Collected
            <4>2. CASE exp[val[e]] # 0
                <5>1. todo' = Append(todo, keyOf[e]) /\ keyOf[e] \in ttled /\ keyOf[e] \in Keys
                    BY <1>1, <3>2, <4>2, LiveIs DEF Duo, Apart, Parting
                <5>2. \A i \in 1 .. Len(todo) : todo[i] \in ttled
                    BY DEF Duo, Apart, Parting
                <5> QED
                    BY <1>1, <5>1, <5>2
            <4> QED
                BY <4>1, <4>2
        <3> QED
            BY <2>1, <3>4, <3>5, NoSweepHand, SweepReads
    <2> QED
        BY <2>2, <2>3
<1> QED
    BY <1>2, <1>3

LEMMA SweepNextDuo ==
    ASSUME TypeInv, Duo, SweepNext PROVE Duo'
<1>1. UNCHANGED <<heap, ghost>> /\ todo \in Seq(Keys)
    BY DEF SweepNext, TypeInv, Rest
<1>2. CASE todo = << >>
    <2>1. Become("sweep", Idle) /\ todo' = todo
        BY <1>2 DEF SweepNext
    <2>2. sweep'.pc = "idle" /\ main' = main
        BY <2>1, BecomeSweep, IdleIs
    <2> QED
        BY <1>1, <2>1, <2>2, Collected, NoSweepHand, SweepReads
<1>3. CASE todo # << >>
    <2>1. PICK r : r = [sweep EXCEPT !.pc = "chk_find", !.key = Head(todo), !.d = g_dict]
        OBVIOUS
    <2>2. Become("sweep", r) /\ todo' = Tail(todo)
        BY <1>3, <2>1 DEF SweepNext
    <2>3. r.pc = "chk_find" /\ r.key = todo[1]
        BY <1>1, <1>3, <2>1, SweepIs DEF TypeInv, Locals
    <2>4. sweep' = r /\ main' = main
        BY <2>2, BecomeSweep
    <2>5. \A i \in 1 .. Len(todo) : todo[i] \in ttled
        BY DEF Duo, Apart, Parting
    <2>6. \A i \in 1 .. Len(todo') : todo'[i] \in ttled
        BY <1>1, <1>3, <2>2, <2>5
    <2>7. 1 \in 1 .. Len(todo) /\ ttled' = ttled
        BY <1>1, <1>3 DEF ghost
    <2>8. InSweepHand(sweep)'
        BY <2>3, <2>4, <2>5, <2>7 DEF InSweepHand, Deleting
    <2> QED
        BY <1>1, <2>4, <2>6, <2>8, SweepReads
<1> QED
    BY <1>2, <1>3

LEMMA CheckFindSwept ==
    ASSUME TypeInv, Duo, CheckFind("sweep") PROVE Duo'
<1> DEFINE e == Find(sweep.key)
<1>1. sweep.pc = "chk_find" /\ sweep.pc \in CheckPcs
    BY DEF CheckFind, CheckPcs, sweep
<1>2. CASE Walk("sweep") \cap freed # {}
    BY <1>2, DuoSame DEF CheckFind, Touch
<1>3. CASE Walk("sweep") \cap freed = {}
    <2>1. UNCHANGED <<heap, ghost>> /\ todo' = todo /\ ttled' = ttled
        BY <1>3 DEF CheckFind, Touch, ghost
    <2>2. sweep'.pc \in {"chk_done", "chk_exp"} /\ sweep'.key = sweep.key /\ main' = main
        <3>1. CASE e = Nil
            BY <1>3, <3>1, GoSweep DEF CheckFind, Touch, sweep
        <3>2. CASE e # Nil
            <4>1. PICK r : r = [sweep EXCEPT !.pc = "chk_exp", !.obj = val[e]]
                OBVIOUS
            <4>2. Become("sweep", r)
                BY <1>3, <3>2, <4>1 DEF CheckFind, Touch, sweep
            <4>3. r.pc = "chk_exp" /\ r.key = sweep.key
                BY <4>1, SweepIs DEF TypeInv, Locals
            <4> QED
                BY <4>2, <4>3, BecomeSweep
        <3> QED
            BY <3>1, <3>2
    <2>3. InSweepHand(sweep)'
        BY <1>1, <2>1, <2>2, SameSweepKey DEF CheckPcs
    <2> QED
        BY <2>1, <2>2, <2>3, Collected, SweepReads
<1> QED
    BY <1>2, <1>3

LEMMA CheckExpSwept ==
    ASSUME TypeInv, Duo, CheckExp("sweep") PROVE Duo'
<1> DEFINE o == sweep.obj
<1>1. sweep.pc = "chk_exp" /\ sweep.pc \in CheckPcs
    BY DEF CheckExp, CheckPcs, sweep
<1>2. CASE {o} \cap freed # {}
    BY <1>2, DuoSame DEF CheckExp, Touch, sweep
<1>3. CASE {o} \cap freed = {}
    <2>1. UNCHANGED <<heap, ghost>> /\ todo' = todo /\ ttled' = ttled
        BY <1>3 DEF CheckExp, Touch, sweep, ghost
    <2>2. PICK pc \in {"chk_done", "del_find"} : Ahead("sweep", pc)
        BY <1>3 DEF CheckExp, Touch, sweep
    <2>3. sweep'.pc \in {"chk_done", "del_find"} /\ sweep'.key = sweep.key /\ main' = main
        BY <2>2, AheadSweep
    <2>4. InSweepHand(sweep)'
        BY <1>1, <2>1, <2>3, SameSweepKey DEF CheckPcs
    <2> QED
        BY <2>1, <2>3, <2>4, Collected, SweepReads
<1> QED
    BY <1>2, <1>3

LEMMA DelFindSwept ==
    ASSUME TypeInv, Duo, DelFind("sweep") PROVE Duo'
<1> DEFINE k == sweep.key
           e == Find(k)
<1>1. sweep.pc = "del_find" /\ sweep.pc \in CheckPcs /\ k \in Keys
    BY SweepIs DEF DelFind, CheckPcs, TypeInv, InCheck, sweep
<1>2. CASE Walk("sweep") \cap freed # {}
    BY <1>2, DuoSame DEF DelFind, Touch
<1>3. CASE Walk("sweep") \cap freed = {}
    <2>1. UNCHANGED <<heap, ghost>> /\ todo' = todo /\ ttled' = ttled
        BY <1>3 DEF DelFind, Touch, ghost
    <2>2. CASE e = Nil
        <3>1. Go("sweep", "chk_done")
            BY <1>3, <2>2 DEF DelFind, Touch, sweep
        <3>2. sweep'.pc = "chk_done" /\ sweep'.key = k /\ main' = main
            BY <3>1, GoSweep
        <3>3. InSweepHand(sweep)'
            BY <1>1, <2>1, <3>2, SameSweepKey DEF CheckPcs
        <3> QED
            BY <2>1, <3>2, <3>3, Collected, SweepReads
    <2>3. CASE e # Nil
        <3>1. PICK r : r = [sweep EXCEPT !.pc = "del_unlink", !.ent = e, !.prev = PrevOf(k)]
            OBVIOUS
        <3>2. Become("sweep", r)
            BY <1>3, <2>3, <3>1 DEF DelFind, Touch, sweep
        <3>3. sweep' = r /\ main' = main
            BY <3>2, BecomeSweep
        <3>4. r.pc = "del_unlink" /\ r.ent = e /\ r.key = k /\ r.prev = PrevOf(k)
            BY <3>1, SweepIs DEF TypeInv, Locals
        <3>5. /\ keyOf[e] = k /\ PrevOf(k) \in Places /\ Cell(PrevOf(k)) \in allocated
              /\ ClassAt(PrevOf(k)) = Class(k) /\ k \in ttled
            BY <1>1, <2>3, FindAny DEF Duo, Apart, InSweepHand
        <3>6. UNCHANGED <<keyOf, allocated>>
            BY <2>1 DEF heap, shape, memory
        <3>7. InSweepHand(sweep)'
            BY <2>1, <3>3, <3>4, <3>5, <3>6 DEF InSweepHand, Deleting, ClassAt, Class
        <3> QED
            BY <2>1, <3>3, <3>7, Collected, SweepReads
    <2> QED
        BY <2>2, <2>3
<1> QED
    BY <1>2, <1>3

\* The sweep unlinks an entry of a class that has deadlines, and no other pointer.
LEMMA DelUnlinkSwept ==
    ASSUME TypeInv, Duo, DelUnlink("sweep") PROVE Duo'
<1> DEFINE e == sweep.ent
           p == sweep.prev
<1>1. sweep.pc = "del_unlink"
    BY DEF DelUnlink, sweep
<1>2. CASE {e, Cell(p)} \cap freed # {}
    BY <1>2, DuoSame DEF DelUnlink, Touch, sweep
<1>3. CASE {e, Cell(p)} \cap freed = {}
    <2>1. /\ UNCHANGED <<keyOf, val, exp, freed, buckets, size, todo, allocated, ttled, acked>>
          /\ link' = [link EXCEPT ![p] = link[e]] /\ Go("sweep", "del_free")
        BY <1>3 DEF DelUnlink, Touch, sweep, memory, dict, fields, ghost
    <2>2. sweep'.pc = "del_free" /\ sweep'.ent = e /\ sweep'.key = sweep.key /\ main' = main
        BY <2>1, GoSweep
    <2>3. e \in Held /\ sweep.key \in Keys
        BY <1>1, SweepIs DEF TypeInv, InCheck, CheckPcs, Locals, Held
    <2>4. /\ keyOf[e] = sweep.key /\ p \in Places /\ Cell(p) \in allocated
          /\ ClassAt(p) = Class(sweep.key) /\ sweep.key \in ttled
        BY <1>1 DEF Duo, Apart, InSweepHand, Deleting, CheckPcs
    <2>5. link[e] # Nil => ClassAt(link[e]) = ClassAt(p)
        BY <2>3, <2>4, LiveIs DEF Duo, Apart, Parting, ClassAt
    <2>6. \A r \in Places : link'[r] = IF r = p THEN link[e] ELSE link[r]
        BY <2>1, LiveIs
    <2>7. Parting'
        BY <2>1, <2>4, <2>5, <2>6, PartingLinked DEF Duo
    <2>8. InSweepHand(sweep)'
        BY <2>1, <2>2, <2>4 DEF InSweepHand, Deleting
    <2>9. ASSUME NEW c \in Classes, Clean(c) PROVE Spares(c)
        <3>1. ClassAt(p) # c
            BY <2>3, <2>4, <2>9 DEF Clean
        <3> QED
            BY <2>1, <2>2, <2>6, <3>1 DEF Spares
    <2> QED
        BY <2>1, <2>2, <2>7, <2>8, <2>9, SweepStep
<1> QED
    BY <1>2, <1>3

\* It frees that entry and its object, which is of no other entry.
LEMMA DelFreeSwept ==
    ASSUME TypeInv, Duo, DelFree("sweep") PROVE Duo'
<1> DEFINE e == sweep.ent
<1>1. sweep.pc = "del_free"
    BY DEF DelFree, sweep
<1>2. CASE {e, val[e]} \cap freed # {}
    BY <1>2, DuoSame DEF DelFree, Touch, sweep
<1>3. CASE {e, val[e]} \cap freed = {}
    <2>1. /\ UNCHANGED <<link, keyOf, val, exp, buckets, size, todo, allocated, ttled, acked>>
          /\ freed' = freed \cup {e, val[e]} /\ Ahead("sweep", "del_load")
        BY <1>3 DEF DelFree, Touch, sweep, shape, dict, fields, ghost
    <2>2. sweep'.pc = "del_load" /\ sweep'.key = sweep.key /\ main' = main
        BY <2>1, AheadSweep
    <2>3. e \in Held /\ sweep.key \in Keys
        BY <1>1, SweepIs DEF TypeInv, InCheck, CheckPcs, Locals, Held
    <2>4. keyOf[e] = sweep.key /\ sweep.key \in ttled
        BY <1>1 DEF Duo, Apart, InSweepHand, Deleting, CheckPcs
    <2>5. Parting'
        BY <2>1, PartingStays DEF Duo, Apart, Parting, Held
    <2>6. InSweepHand(sweep)'
        BY <1>1, <2>1, <2>2, SameSweepKey DEF CheckPcs
    <2>7. ASSUME NEW c \in Classes, Clean(c) PROVE Spares(c)
        <3>1. Class(keyOf[e]) # c
            BY <2>3, <2>4, <2>7 DEF Clean
        <3>2. ASSUME NEW x \in Of(c, Held)
              PROVE  x # e /\ x # val[e] /\ val[x] # e /\ val[x] # val[e]
            <4>1. x \in Held /\ x # e
                BY <3>1, <3>2 DEF Of
            <4>2. x \in Entries /\ e \in Entries /\ val[x] \in Objects /\ val[e] \in Objects
                BY <2>3, <4>1, LiveIs
            <4>3. val[x] # val[e]
                BY <2>3, <4>1 DEF Duo, Apart, Parting
            <4> QED
                BY <4>1, <4>2, <4>3, LiveIs
        <3>3. main.pc \in BeforePcs => main.obj \notin {e, val[e]}
            <4> SUFFICES ASSUME main.pc \in BeforePcs PROVE main.obj \notin {e, val[e]}
                OBVIOUS
            <4>1. main.obj # val[e]
                BY <2>3 DEF Duo, Apart, InMainHand
            <4>2. main.obj # e
                <5>1. main.obj \in Objects \cup {Nil}
                    BY MainIs DEF TypeInv, Locals
                <5> QED
                    BY <2>3, <5>1, LiveIs
            <4> QED
                BY <4>1, <4>2
        <3> QED
            BY <2>1, <2>2, <3>2, <3>3 DEF Spares
    <2> QED
        BY <2>1, <2>2, <2>5, <2>6, <2>7, SweepStep
<1> QED
    BY <1>2, <1>3

LEMMA CountLoadSwept ==
    ASSUME TypeInv, Duo, CountLoad("sweep") PROVE Duo'
<1>1. sweep.pc = "del_load" /\ sweep.pc \in CheckPcs
    BY SweepIs DEF CountLoad, sweep, TypeInv, InSweep, SweepPcs, CheckPcs
<1>2. CASE {sweep.d} \cap freed # {}
    BY <1>2, DuoSame DEF CountLoad, Touch, sweep
<1>3. CASE {sweep.d} \cap freed = {}
    <2>1. UNCHANGED <<heap, ghost>> /\ todo' = todo /\ ttled' = ttled
        BY <1>3 DEF CountLoad, Touch, sweep, ghost
    <2>2. PICK r : r = [sweep EXCEPT !.n = count, !.pc = "del_store"]
        OBVIOUS
    <2>3. Become("sweep", r)
        BY <1>1, <1>3, <2>2, SweepIs DEF CountLoad, Touch, sweep, TypeInv, Locals
    <2>4. r.pc = "del_store" /\ r.key = sweep.key
        BY <2>2, SweepIs DEF TypeInv, Locals
    <2>5. sweep'.pc = "del_store" /\ sweep'.key = sweep.key /\ main' = main
        BY <2>3, <2>4, BecomeSweep
    <2>6. InSweepHand(sweep)'
        BY <1>1, <2>1, <2>5, SameSweepKey DEF CheckPcs
    <2> QED
        BY <2>1, <2>5, <2>6, Collected, SweepReads
<1> QED
    BY <1>2, <1>3

\* Only the count changes.
LEMMA CountStoreSwept ==
    ASSUME TypeInv, Duo, CountStore("sweep") PROVE Duo'
<1>1. sweep.pc = "del_store" /\ sweep.pc \in CheckPcs
    BY SweepIs DEF CountStore, sweep, TypeInv, InSweep, SweepPcs, CheckPcs
<1>2. CASE {sweep.d} \cap freed # {}
    BY <1>2, DuoSame DEF CountStore, Touch, sweep
<1>3. CASE {sweep.d} \cap freed = {}
    <2>1. UNCHANGED <<link, keyOf, val, exp, allocated, freed, buckets, size, todo, acked, ttled>>
        BY <1>3 DEF CountStore, Touch, sweep, shape, memory, fields, ghost
    <2>2. Ahead("sweep", "chk_done")
        BY <1>1, <1>3 DEF CountStore, Touch, sweep
    <2>3. sweep'.pc = "chk_done" /\ sweep'.key = sweep.key /\ main' = main
        BY <2>2, AheadSweep
    <2>4. InSweepHand(sweep)'
        BY <1>1, <2>1, <2>3, SameSweepKey DEF CheckPcs
    <2>5. Parting'
        BY <2>1, PartingStays DEF Duo, Apart, Parting, Held
    <2>6. \A c : Spares(c)
        BY <2>1, <2>3 DEF Spares
    <2> QED
        BY <2>1, <2>3, <2>4, <2>5, <2>6, SweepStep
<1> QED
    BY <1>2, <1>3

LEMMA CheckDoneSwept ==
    ASSUME TypeInv, Duo, CheckDone("sweep") PROVE Duo'
<1>1. sweep.pc = "chk_done" /\ sweep.op = "sweep"
    BY SweepIs DEF CheckDone, sweep, TypeInv, InSweep
<1>2. UNCHANGED <<heap, ghost>> /\ todo' = todo
    BY DEF CheckDone
<1>3. EndScan
    BY <1>1 DEF CheckDone, EndScan, sweep
<1> QED
    BY <1>2, <1>3, ScanEnds, Collected, NoSweepHand, SweepReads

-----------------------------------------------------------------------------
(* The theorems *)

LEMMA DuoInit == ASSUME Init PROVE Duo
<1>1. main.pc = "idle" /\ sweep.pc = "idle"
    BY IdleIs DEF Init, Threads, main, sweep
<1>2. buckets \in Tables /\ g_dict \in Dicts /\ TypeInv
    BY CellsAreDistinct, InitTyped DEF Init
<1>3. Held = {} /\ Live = {} /\ Hanging = {}
    BY <1>2, CellsAreDistinct DEF Init, Held, Live, Hanging
<1>4. \A p \in Places : link[p] = Nil
    BY DEF Init
<1>5. Parting
    <2>1. Multiple(size)
        BY Sizes DEF Init, Multiple
    <2>2. Len(todo) = 0
        BY DEF Init
    <2>3. \A t \in Tables : \A i \in 1 .. MaxSize : link[<<t, i>>] = Nil
        BY <1>4 DEF Places
    <2>4. \A o \in Objects : exp[o] = 0
        BY DEF Init
    <2> QED
        BY <1>3, <1>4, <2>1, <2>2, <2>3, <2>4 DEF Parting
<1>6. Apart
    BY <1>1, <1>5 DEF Apart, InMainHand, InSweepHand, Deleting, BeforePcs, GrowPcs, CheckPcs
<1>7. ASSUME NEW c PROVE Kept(c)
    <2>1. Of(c, Hanging) = {} /\ Of(c, Live) = {}
        BY <1>3 DEF Of
    <2>2. \A p \in SlotsOf(c, buckets, 1, size) : link[p] = Nil
        BY <1>2, <1>4, NowSlots
    <2>3. HangsIn(c, buckets, size)
        BY <2>1, <2>2 DEF HangsIn, Tree, Fits
    <2>4. Shape(c)
        BY <1>1, <2>1, <2>3 DEF Shape
    <2>5. Hand(c, main)
        BY <1>1 DEF Hand, FlushPcs, DelPcs, SetPcs, GrowPcs
    <2>6. Promise(c)
        BY DEF Init, Promise
    <2> QED
        BY <2>4, <2>5, <2>6 DEF Kept
<1>8. acked \in [Keys -> Objects \cup {Nil}]
    BY DEF Init
<1> QED
    BY <1>6, <1>7, <1>8 DEF Duo

\* Every step of either thread keeps Duo.
LEMMA DuoStep ==
    ASSUME TypeInv, Duo, [Next]_vars PROVE Duo'
<1>1. CASE \E k \in Keys : GetBegin(k) \/ DelBegin(k) \/ SetBegin(k) \/ ExpireBegin(k)
    BY <1>1, GetBeginDuo, DelBeginDuo, SetBeginDuo, ExpireBeginDuo
<1>2. CASE GetFind \/ GetRead \/ ExpireFind \/ (\E d \in Delays : ExpireWrite(d))
    BY <1>2, GetFindDuo, GetReadDuo, ExpireFindDuo, ExpireWriteDuo
<1>3. CASE SetSize \/ GrowRead \/ GrowMove \/ GrowBucket \/ GrowFree \/ GrowTable \/ GrowSize
    BY <1>3, SetSizeDuo, GrowReadDuo, GrowMoveDuo, GrowBucketDuo, GrowFreeDuo,
       GrowTableDuo, GrowSizeDuo
<1>4. CASE SetFind \/ SetFree \/ SetVal \/ SetNew \/ SetLink \/ SetAck
    BY <1>4, SetFindDuo, SetFreeDuo, SetValDuo, SetNewDuo, SetLinkDuo, SetAckDuo
<1>5. CASE FlushBegin \/ FlushEntry \/ FlushBucket \/ FlushFree \/ FlushNew
    BY <1>5, FlushBeginDuo, FlushEntryDuo, FlushBucketDuo, FlushFreeDuo, FlushNewDuo
<1>6. CASE CheckExpiry("main")
    BY <1>6, CheckFindDuo, CheckExpDuo, DelFindDuo, DelUnlinkDuo, DelFreeDuo,
       CountLoadDuo, CountStoreDuo, CheckDoneDuo DEF CheckExpiry
<1>7. CASE SweepWake \/ SweepBucket \/ SweepEntry \/ SweepNext
    BY <1>7, SweepWakeDuo, SweepBucketDuo, SweepEntryDuo, SweepNextDuo
<1>8. CASE CheckExpiry("sweep")
    BY <1>8, CheckFindSwept, CheckExpSwept, DelFindSwept, DelUnlinkSwept, DelFreeSwept,
       CountLoadSwept, CountStoreSwept, CheckDoneSwept DEF CheckExpiry
<1>9. CASE Tick
    BY <1>9, DuoSame DEF Tick
<1>10. CASE UNCHANGED vars
    BY <1>10, DuoSame DEF vars
<1> QED
    BY <1>1, <1>2, <1>3, <1>4, <1>5, <1>6, <1>7, <1>8, <1>9, <1>10 DEF Next, Main, Sweep

\* The two threads race in the same dictionary, and still every class of keys that
\* EXPIRE was never used on keeps its table, its entries and its answers.
THEOREM TwoThreads == Spec => []Duo
BY DuoInit, DuoStep, TypeInvariant, PTL DEF Spec

\* Keys of one bucket of the first table are of one class.
LEMMA NeighboursAre ==
    ASSUME NEW j \in Keys, NEW k \in Keys, Class(j) = Class(k)
    PROVE  Neighbours(j, k)
BY DEF Neighbours, BucketOf, Class

\* An answered SET stays, but for the buckets of keys that once had a deadline,
\* whatever CheckFind, DelUnlink and DelFree of the sweep thread do between any two
\* accesses of SET, DEL, FLUSHDB or the growth of the table.
THEOREM DamageStays == Spec => []DamageStaysInBucket
<1>1. TypeInv /\ Duo /\ (~sweep_running => AckedSetKept) => DamageStaysInBucket
    <2> SUFFICES ASSUME TypeInv, Duo, ~sweep_running => AckedSetKept, NEW k \in Keys,
                        sweep_running => \A j \in Keys : Neighbours(j, k) => j \notin ttled
                 PROVE  Intact(k)
        BY DEF DamageStaysInBucket
    <2>1. CASE ~sweep_running
        BY <2>1 DEF AckedSetKept
    <2>2. CASE sweep_running
        <3> SUFFICES ASSUME acked[k] # Nil, main = Idle
                     PROVE  /\ Find(k) # Nil /\ val[Find(k)] = acked[k]
                            /\ acked[k] \notin freed
            BY DEF Intact
        <3>1. Clean(Class(k))
            BY <2>2, NeighboursAre DEF Clean
        <3>2. Class(k) \in Classes
            <4>1. Multiple(InitialSize) /\ InitialSize \in Nat \ {0}
                BY Sizes DEF Multiple
            <4> QED
                BY <4>1, ClassIs
        <3>3. main.pc \in CalmPcs
            BY IdleIs, CalmPcsAre
        <3>4. Promise(Class(k))
            BY <3>1, <3>2 DEF Duo, Kept
        <3>5. PICK e \in Live : keyOf[e] = k /\ val[e] = acked[k] /\ acked[k] \notin freed
            BY <3>4 DEF Promise, Served
        <3>6. e \in Of(Class(k), Live) /\ e # Nil
            BY <3>5, LiveIs DEF Of
        <3>7. Find(k) = e
            BY <3>1, <3>2, <3>3, <3>5, <3>6, FindOf
        <3> QED
            BY <3>5, <3>6, <3>7
    <2> QED
        BY <2>1, <2>2
<1> QED
    BY <1>1, TwoThreads, AnsweredStays, TypeInvariant, PTL

=============================================================================
