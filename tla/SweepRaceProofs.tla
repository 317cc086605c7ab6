--------------------------- MODULE SweepRaceProofs ---------------------------
(****************************************************************************)
(* The types of the shared dictionary (SweepRace.tla), for the thread of    *)
(* the event loop and the thread of the sweep racing in it without a lock   *)
(* and for any number of keys, cells, buckets and calls.                    *)
(*                                                                          *)
(* TypeOK alone is not inductive: a step that follows a pointer is well     *)
(* typed only if the pointer leads to a cell that malloc has handed out,    *)
(* whether or not free has taken it back since.  TypeInv says so of the     *)
(* heap, of the dictionary's fields and of both threads' locals, and says   *)
(* for each program counter which locals the rest of the call relies on.    *)
(*                                                                          *)
(* Then the dictionary where main starts no sweep thread: nothing that was  *)
(* freed is touched, d->count is exact between two commands, and an         *)
(* answered SET stays.  The three follow from the inductive invariant Solo, *)
(* which describes the table at every program counter of main.              *)
(*                                                                          *)
(* A chain of entries is described without recursion, by sets of entries    *)
(* closed under the pointers (Tree).  The lemmas about it are about any     *)
(* pointers, so that each step of a command, a resize or a flush is one     *)
(* change of a tree: an entry leaves it, joins it, or moves within it.      *)
(*                                                                          *)
(* TwoThreadProofs has what stays true while the sweep thread runs.         *)
(****************************************************************************)
EXTENDS SweepRace, FiniteSetTheorems, FunctionTheorems, TLAPS

\* The program counters of each operation.
CheckPcs == {"chk_find", "chk_exp", "del_find", "del_unlink", "del_free",
             "del_load", "del_store", "chk_done"}
GrowPcs  == {"grow", "grow_move", "grow_free", "grow_table", "grow_size"}
SetPcs   == {"set_size", "set_find", "set_free", "set_val", "set_new", "set_link",
             "set_load", "set_store", "set_ack"} \cup GrowPcs
FlushPcs == {"flush", "flush_free", "flush_new"}
ReadPcs  == {"get_find", "get_read", "exp_find", "exp_write"}
MainPcs  == {"idle"} \cup CheckPcs \cup SetPcs \cup FlushPcs \cup ReadPcs
SweepPcs == {"idle", "scan", "next"} \cup CheckPcs
Ops      == {"none", "get", "del", "set", "expire", "flush", "sweep"}

\* What a thread keeps in its stack frame.
Locals == [pc : MainPcs \cup SweepPcs, op : Ops, key : Keys \cup {Nil},
           ent : Entries \cup {Nil}, prev : Places \cup {Nil},
           next : Entries \cup {Nil}, obj : Objects \cup {Nil},
           tab : Tables \cup {Nil}, d : Dicts \cup {Nil}, n : Int]

\* What a thread in the shared part may rely on.
InCheck(r) ==
    r.pc \in CheckPcs => /\ r.key \in Keys
                         /\ r.pc = "chk_exp" => r.obj # Nil
                         /\ r.pc \in {"del_unlink", "del_free"} => r.ent # Nil

\* What the locals of main are good for at its program counter, if known are
\* the cells handed out and the table has sz buckets.
InMain(r, known, sz) ==
    /\ r.pc \in MainPcs
    /\ r.pc \in CheckPcs => r.op \in {"get", "del"}
    /\ r.pc \in SetPcs => r.key \in Keys /\ r.obj # Nil /\ r.op = "set"
    /\ r.pc \in ReadPcs => r.key \in Keys
    /\ r.pc \in {"set_size", "set_find", "set_new"} \cup GrowPcs => Entries \ known # {}
    /\ r.pc \in {"set_free", "set_val", "set_link", "grow_move"} => r.ent # Nil
    /\ r.pc \in {"get_read", "exp_write"} => r.obj # Nil
    /\ r.pc \in GrowPcs => 2 * sz <= MaxSize
    /\ r.pc \in GrowPcs \ {"grow_size"} => r.tab \in Tables \cap known
    /\ r.pc \in {"grow", "grow_move", "flush"} => r.n \in 1 .. sz
    /\ r.pc \in FlushPcs => Dicts \ known # {} /\ Tables \ known # {}

\* The same for the thread of the sweep.
InSweep(r) == /\ r.pc \in SweepPcs
              /\ r.pc # "idle" => r.op = "sweep"
              /\ r.pc = "scan" => r.n \in Nat \ {0}

\* The locals r of thread t: every pointer leads to a cell handed out, and the
\* ones its program counter is about to use are there.
Sane(t, r, known, sz) ==
    /\ r \in Locals
    /\ {r.ent, r.next, r.obj, r.tab, r.d} \subseteq known \cup {Nil}
    /\ InCheck(r)
    /\ t = "main" => InMain(r, known, sz)
    /\ t = "sweep" => InSweep(r)

\* The memory: links and objects, dangling or not, lead to cells handed out.
Heap == /\ link \in [Places -> Entries \cup {Nil}]
        /\ keyOf \in [Entries -> Keys \cup {Nil}]
        /\ val \in [Entries -> Objects \cup {Nil}]
        /\ exp \in [Objects -> Int]
        /\ allocated \subseteq Cells /\ freed \subseteq allocated
        /\ \A p \in Places : link[p] \in allocated \cup {Nil}
        /\ \A e \in Entries \cap allocated :
              keyOf[e] \in Keys /\ val[e] \in Objects \cap allocated

\* The fields of the dictionary and of g_dict.
Fields == /\ g_dict \in Dicts \cap allocated /\ buckets \in Tables \cap allocated
          /\ size \in 1 .. MaxSize /\ count \in Int

Rest == /\ ub \in BOOLEAN /\ now \in Int
        /\ todo \in Seq(Keys) /\ Len(todo) <= SweepMax

Running == /\ th \in [Threads -> Locals]
           /\ \A t \in Threads : Sane(t, th[t], allocated, size)

\* The inductive invariant.
TypeInv == Heap /\ Fields /\ Rest /\ Running

-----------------------------------------------------------------------------
(* What the operators return *)

LEMMA BucketOfIs ==
    ASSUME NEW k \in Keys, NEW sz \in Nat \ {0}
    PROVE  BucketOf(k, sz) \in 1 .. sz
<1>1. Hash[k] \in Nat
    BY Sizes
<1>2. Hash[k] % sz \in 0 .. sz - 1
    BY <1>1
<1> QED
    BY <1>2 DEF BucketOf

LEMMA BucketIsPlace ==
    ASSUME Fields, NEW k \in Keys
    PROVE  Bucket(k) \in Places
<1>1. BucketOf(k, size) \in 1 .. size
    BY BucketOfIs, Sizes DEF Fields
<1> QED
    BY <1>1, Sizes DEF Fields, Bucket, Places

LEMMA FreshIs ==
    ASSUME NEW cells, cells \ allocated # {}
    PROVE  Fresh(cells) \in cells \ allocated
BY DEF Fresh

\* What the walk passes is a walk itself, and no walk has less.
LEMMA VisitedIsLeast ==
    ASSUME Heap, Fields, NEW k \in Keys
    PROVE  /\ Leads(Bucket(k), Visited(k))
           /\ \A e \in Visited(k) : keyOf[e] = k \/ Leads(e, Visited(k))
           /\ Visited(k) \subseteq Entries
           /\ \A S \in SUBSET Entries :
                 Leads(Bucket(k), S) /\ (\A e \in S : keyOf[e] = k \/ Leads(e, S))
                     => Visited(k) \subseteq S
<1> DEFINE Passes(S) == /\ Leads(Bucket(k), S)
                      /\ \A e \in S : keyOf[e] = k \/ Leads(e, S)
           V == Visited(k)
<1>1. \A e : e \in V <=> e \in Entries /\ \A S \in SUBSET Entries : Passes(S) => e \in S
    BY DEF Visited
<1>2. \A p \in Places : Leads(p, Entries)
    BY DEF Heap, Leads
<1>3. Entries \subseteq Places /\ Bucket(k) \in Places
    BY BucketIsPlace DEF Places
<1>4. Passes(Entries)
    BY <1>2, <1>3
<1> HIDE DEF V
<1>5. Leads(Bucket(k), V)
    BY <1>1, <1>2, <1>3 DEF Leads
<1>6. ASSUME NEW e \in V, keyOf[e] # k PROVE Leads(e, V)
    <2>1. e \in Entries
        BY <1>1
    <2>2. ASSUME link[e] # Nil PROVE link[e] \in V
        <3>1. link[e] \in Entries
            BY <2>1, <2>2, <1>2, <1>3 DEF Leads
        <3>2. ASSUME NEW S \in SUBSET Entries, Passes(S) PROVE link[e] \in S
            BY <3>2, <2>2, <1>1, <1>6 DEF Leads
        <3> QED
            BY <3>1, <3>2, <1>1
    <2> QED
        BY <2>2 DEF Leads
<1> QED
    BY <1>1, <1>5, <1>6 DEF V

LEMMA FindIs ==
    ASSUME Heap, Fields, NEW k \in Keys
    PROVE  /\ Visited(k) \subseteq Entries \cap allocated
           /\ Find(k) # Nil => Find(k) \in Visited(k) /\ keyOf[Find(k)] = k
           /\ Find(k) = Nil => \A e \in Visited(k) : keyOf[e] # k
           /\ Find(k) # Nil => /\ PrevOf(k) \in {Bucket(k)} \cup Visited(k)
                               /\ link[PrevOf(k)] = Find(k)
<1> DEFINE V == Visited(k)
<1>1. V \subseteq Entries \cap allocated
    <2>1. \A p \in Places : Leads(p, Entries \cap allocated)
        BY DEF Heap, Leads
    <2>2. Entries \subseteq Places /\ Bucket(k) \in Places
        BY BucketIsPlace DEF Places
    <2> QED
        BY <2>1, <2>2, VisitedIsLeast
<1>2. Nil \notin V
    BY <1>1, CellsAreDistinct DEF Cells
<1>3. Find(k) # Nil => Find(k) \in V /\ keyOf[Find(k)] = k
    BY DEF Find
<1>4. Find(k) = Nil => \A e \in V : keyOf[e] # k
    BY <1>2 DEF Find
<1>5. ASSUME Find(k) # Nil
      PROVE  \E p \in {Bucket(k)} \cup V : link[p] = Find(k)
    <2> SUFFICES ASSUME \A p \in {Bucket(k)} \cup V : link[p] # Find(k) PROVE FALSE
        OBVIOUS
    <2> DEFINE S == V \ {Find(k)}
    <2>1. Leads(Bucket(k), V) /\ \A e \in V : keyOf[e] = k \/ Leads(e, V)
        BY VisitedIsLeast
    <2>2. Leads(Bucket(k), S) /\ \A e \in S : keyOf[e] = k \/ Leads(e, S)
        BY <2>1 DEF Leads
    <2>3. S \in SUBSET Entries
        BY <1>1
    <2>4. V \subseteq S
        BY <2>2, <2>3, VisitedIsLeast
    <2> QED
        BY <2>4, <1>3, <1>5
<1> QED
    BY <1>1, <1>3, <1>4, <1>5 DEF PrevOf

-----------------------------------------------------------------------------
(* Steps of one thread *)

LEMMA Hop ==
    ASSUME Running, NEW t \in Threads, NEW r,
           Sane(t, r, allocated', size'), th' = [th EXCEPT ![t] = r],
           allocated \subseteq allocated',
           t = "sweep" => allocated' = allocated /\ size' = size
    PROVE  Running'
<1>1. th' \in [Threads -> Locals]
    BY DEF Running, Sane
<1>2. ASSUME NEW u \in Threads PROVE Sane(u, th'[u], allocated', size')
    <2>1. CASE u = t
        BY <2>1 DEF Running
    <2>2. CASE u # t
        <3>1. th'[u] = th[u] /\ Sane(u, th[u], allocated, size)
            BY <2>2 DEF Running
        <3>2. CASE u = "main"
            <4>1. allocated' = allocated /\ size' = size
                BY <3>2, <2>2 DEF Threads
            <4> QED
                BY <3>1, <4>1
        <3>3. CASE u = "sweep"
            BY <3>1, <3>3 DEF Sane
        <3> QED
            BY <3>2, <3>3 DEF Threads
    <2> QED
        BY <2>1, <2>2
<1> QED
    BY <1>1, <1>2 DEF Running

LEMMA IdleIs ==
    /\ Idle \in Locals
    /\ Idle.pc = "idle" /\ Idle.op = "none" /\ Idle.n = 0
    /\ Idle.key = Nil /\ Idle.ent = Nil /\ Idle.prev = Nil /\ Idle.next = Nil
    /\ Idle.obj = Nil /\ Idle.tab = Nil /\ Idle.d = Nil
BY DEF Idle, Locals, MainPcs, SweepPcs, Ops

\* Freed memory was touched: nothing else moves.
LEMMA Undefined ==
    ASSUME TypeInv, ub' = TRUE, UNCHANGED <<heap, now, th, todo, ghost>>
    PROVE  TypeInv'
BY DEF TypeInv, Heap, Fields, Rest, Running, heap, shape, memory, dict, fields

\* A step that changes nothing but the locals of t.
LEMMA LocalStep ==
    ASSUME TypeInv, NEW t \in Threads, NEW r, Sane(t, r, allocated, size),
           th' = [th EXCEPT ![t] = r], UNCHANGED <<heap, now, todo, ub>>
    PROVE  TypeInv'
<1>1. UNCHANGED <<link, keyOf, val, exp, allocated, freed, g_dict, buckets, size, count>>
    BY DEF heap, shape, memory, dict, fields
<1>2. Heap' /\ Fields' /\ Rest'
    BY <1>1 DEF TypeInv, Heap, Fields, Rest
<1>3. Running'
    BY <1>1, Hop DEF TypeInv
<1> QED
    BY <1>2, <1>3 DEF TypeInv

-----------------------------------------------------------------------------
(* check_expiry and dict_del *)

\* Inside check_expiry and dict_del a thread keeps its key and its caller.
LEMMA CheckOn ==
    ASSUME Running, NEW t \in Threads, th[t].pc \in CheckPcs,
           NEW r \in Locals, r.pc \in CheckPcs, r.op = th[t].op, r.key = th[t].key,
           {r.ent, r.next, r.obj, r.tab, r.d} \subseteq allocated \cup {Nil},
           r.pc = "chk_exp" => r.obj # Nil,
           r.pc \in {"del_unlink", "del_free"} => r.ent # Nil
    PROVE  Sane(t, r, allocated, size)
<1>1. Sane(t, th[t], allocated, size)
    BY DEF Running
<1>2. InCheck(r)
    BY <1>1 DEF Sane, InCheck
<1>3. t = "main" => InMain(r, allocated, size)
    BY <1>1 DEF Sane, InMain, MainPcs, CheckPcs, SetPcs, ReadPcs, GrowPcs, FlushPcs
<1>4. t = "sweep" => InSweep(r)
    BY <1>1 DEF Sane, InSweep, SweepPcs, CheckPcs
<1> QED
    BY <1>2, <1>3, <1>4 DEF Sane

LEMMA CheckPcsAre ==
    ASSUME NEW t \in Threads, Running, th[t].pc \in CheckPcs
    PROVE  /\ CheckPcs \subseteq MainPcs \cup SweepPcs
           /\ th[t] \in Locals /\ th[t].key \in Keys
           /\ {th[t].ent, th[t].next, th[t].obj, th[t].tab, th[t].d}
                 \subseteq allocated \cup {Nil}
           /\ th[t].pc = "chk_exp" => th[t].obj \in Objects
           /\ th[t].pc \in {"del_unlink", "del_free"} => th[t].ent \in Entries
BY DEF Running, Sane, InCheck, Locals, MainPcs

\* Ahead in there.
LEMMA AheadIs ==
    ASSUME Running, NEW t \in Threads, th[t].pc \in CheckPcs, NEW pc \in CheckPcs,
           pc \notin {"chk_exp", "del_unlink", "del_free"}
    PROVE  Sane(t, [Idle EXCEPT !.pc = pc, !.op = th[t].op,
                                !.key = th[t].key, !.d = th[t].d], allocated, size)
<1>1. PICK i : i = Idle
    OBVIOUS
<1>2. PICK r : r = [i EXCEPT !.pc = pc, !.op = th[t].op,
                             !.key = th[t].key, !.d = th[t].d]
    OBVIOUS
<1>3. /\ i \in Locals /\ th[t] \in Locals
      /\ i.ent = Nil /\ i.next = Nil /\ i.obj = Nil /\ i.tab = Nil
    BY <1>1, IdleIs, CheckPcsAre
<1>4. /\ r.pc = pc /\ r.op = th[t].op /\ r.key = th[t].key /\ r.d = th[t].d
      /\ r.ent = Nil /\ r.next = Nil /\ r.obj = Nil /\ r.tab = Nil
    BY <1>2, <1>3 DEF Locals
<1>5. r \in Locals
    BY <1>2, <1>3, CheckPcsAre DEF Locals
<1>6. r.d \in allocated \cup {Nil}
    BY <1>4, CheckPcsAre
<1> QED
    BY <1>1, <1>2, <1>4, <1>5, <1>6, CheckOn

LEMMA CheckFindTyped ==
    ASSUME TypeInv, NEW t \in Threads, CheckFind(t) PROVE TypeInv'
<1> DEFINE k == th[t].key
           e == Find(k)
<1>1. Running /\ th[t].pc \in CheckPcs
    BY DEF TypeInv, CheckFind, CheckPcs
<1>2. k \in Keys /\ th[t] \in Locals
    BY <1>1, CheckPcsAre
<1>3. e # Nil => val[e] \in Objects \cap allocated
    BY <1>2, FindIs DEF TypeInv, Heap
<1>4. Nil \notin Objects
    BY CellsAreDistinct DEF Cells
<1>5. CASE Walk(t) \cap freed # {}
    BY <1>5, Undefined DEF CheckFind, Touch
<1>6. CASE Walk(t) \cap freed = {}
    <2>1. UNCHANGED <<heap, now, todo, ub>>
        BY <1>6 DEF CheckFind, Touch
    <2>2. CASE e = Nil
        <3>1. PICK r : r = [th[t] EXCEPT !.pc = "chk_done"]
            OBVIOUS
        <3>2. th' = [th EXCEPT ![t] = r]
            BY <1>6, <2>2, <3>1 DEF CheckFind, Touch, Go
        <3>3. /\ r \in Locals /\ r.pc = "chk_done" /\ r.op = th[t].op /\ r.key = k
              /\ r.ent = th[t].ent /\ r.next = th[t].next /\ r.obj = th[t].obj
              /\ r.tab = th[t].tab /\ r.d = th[t].d
            BY <1>2, <3>1 DEF Locals, SweepPcs, CheckPcs
        <3>4. Sane(t, r, allocated, size)
            BY <1>1, <3>3, CheckOn, CheckPcsAre DEF CheckPcs
        <3> QED
            BY <2>1, <3>2, <3>4, LocalStep
    <2>3. CASE e # Nil
        <3>1. PICK r : r = [th[t] EXCEPT !.pc = "chk_exp", !.obj = val[e]]
            OBVIOUS
        <3>2. th' = [th EXCEPT ![t] = r]
            BY <1>6, <2>3, <3>1 DEF CheckFind, Touch, Become
        <3>3. /\ r \in Locals /\ r.pc = "chk_exp" /\ r.op = th[t].op /\ r.key = k
              /\ r.ent = th[t].ent /\ r.next = th[t].next /\ r.obj = val[e]
              /\ r.tab = th[t].tab /\ r.d = th[t].d
            BY <1>2, <1>3, <2>3, <3>1 DEF Locals, SweepPcs, CheckPcs
        <3>4. Sane(t, r, allocated, size)
            BY <1>1, <1>3, <1>4, <2>3, <3>3, CheckOn, CheckPcsAre DEF CheckPcs
        <3> QED
            BY <2>1, <3>2, <3>4, LocalStep
    <2> QED
        BY <2>2, <2>3
<1> QED
    BY <1>5, <1>6

\* Going on in there with nothing but the program counter changed.
LEMMA GoOn ==
    ASSUME Running, NEW t \in Threads, th[t].pc \in CheckPcs, NEW pc \in CheckPcs,
           pc = "chk_exp" => th[t].obj # Nil,
           pc \in {"del_unlink", "del_free"} => th[t].ent # Nil
    PROVE  Sane(t, [th[t] EXCEPT !.pc = pc], allocated, size)
<1>1. PICK r : r = [th[t] EXCEPT !.pc = pc]
    OBVIOUS
<1>2. th[t] \in Locals
    BY CheckPcsAre
<1>3. /\ r \in Locals /\ r.pc = pc /\ r.op = th[t].op /\ r.key = th[t].key
      /\ r.ent = th[t].ent /\ r.next = th[t].next /\ r.obj = th[t].obj
      /\ r.tab = th[t].tab /\ r.d = th[t].d
    BY <1>1, <1>2, CheckPcsAre DEF Locals, SweepPcs
<1> QED
    BY <1>1, <1>3, CheckOn, CheckPcsAre

LEMMA GoIs == ASSUME Running, NEW t \in Threads, NEW pc, Go(t, pc)
              PROVE  th' = [th EXCEPT ![t] = [th[t] EXCEPT !.pc = pc]]
BY DEF Running, Go

LEMMA CheckExpTyped ==
    ASSUME TypeInv, NEW t \in Threads, CheckExp(t) PROVE TypeInv'
<1>1. Running /\ th[t].pc = "chk_exp" /\ th[t].pc \in CheckPcs
    BY DEF TypeInv, CheckExp, CheckPcs
<1>2. CASE {th[t].obj} \cap freed # {}
    BY <1>2, Undefined DEF CheckExp, Touch
<1>3. CASE {th[t].obj} \cap freed = {}
    <2>1. PICK pc \in {"chk_done", "del_find"} : Ahead(t, pc)
        BY <1>3 DEF CheckExp, Touch
    <2>2. UNCHANGED <<heap, now, todo, ub>>
        BY <1>3 DEF CheckExp, Touch
    <2>3. pc \in CheckPcs \ {"chk_exp", "del_unlink", "del_free"}
        BY DEF CheckPcs
    <2> QED
        BY <1>1, <2>1, <2>2, <2>3, AheadIs, LocalStep DEF Ahead, Become
<1> QED
    BY <1>2, <1>3

LEMMA DelFindTyped ==
    ASSUME TypeInv, NEW t \in Threads, DelFind(t) PROVE TypeInv'
<1> DEFINE k == th[t].key
           e == Find(k)
<1>1. Running /\ th[t].pc = "del_find" /\ th[t].pc \in CheckPcs
    BY DEF TypeInv, DelFind, CheckPcs
<1>2. k \in Keys /\ th[t] \in Locals
    BY <1>1, CheckPcsAre
<1>3. e # Nil => e \in Entries \cap allocated /\ PrevOf(k) \in Places
    BY <1>2, FindIs, BucketIsPlace DEF TypeInv, Places
<1>4. Nil \notin Entries
    BY CellsAreDistinct DEF Cells
<1>5. CASE Walk(t) \cap freed # {}
    BY <1>5, Undefined DEF DelFind, Touch
<1>6. CASE Walk(t) \cap freed = {}
    <2>1. UNCHANGED <<heap, now, todo, ub>>
        BY <1>6 DEF DelFind, Touch
    <2>2. CASE e = Nil
        <3>1. Go(t, "chk_done")
            BY <1>6, <2>2 DEF DelFind, Touch
        <3> QED
            BY <1>1, <2>1, <3>1, GoIs, GoOn, LocalStep DEF CheckPcs
    <2>3. CASE e # Nil
        <3>1. PICK r : r = [th[t] EXCEPT !.pc = "del_unlink", !.ent = e, !.prev = PrevOf(k)]
            OBVIOUS
        <3>2. th' = [th EXCEPT ![t] = r]
            BY <1>6, <2>3, <3>1 DEF DelFind, Touch, Become
        <3>3. /\ r \in Locals /\ r.pc = "del_unlink" /\ r.op = th[t].op /\ r.key = k
              /\ r.ent = e /\ r.next = th[t].next /\ r.obj = th[t].obj
              /\ r.tab = th[t].tab /\ r.d = th[t].d
            BY <1>2, <1>3, <2>3, <3>1 DEF Locals, SweepPcs, CheckPcs
        <3>4. Sane(t, r, allocated, size)
            BY <1>1, <1>3, <1>4, <2>3, <3>3, CheckOn, CheckPcsAre DEF CheckPcs
        <3> QED
            BY <2>1, <3>2, <3>4, LocalStep
    <2> QED
        BY <2>2, <2>3
<1> QED
    BY <1>5, <1>6

LEMMA DelUnlinkTyped ==
    ASSUME TypeInv, NEW t \in Threads, DelUnlink(t) PROVE TypeInv'
<1> DEFINE e == th[t].ent
<1>1. Running /\ th[t].pc = "del_unlink" /\ th[t].pc \in CheckPcs
    BY DEF TypeInv, DelUnlink, CheckPcs
<1>2. e \in Entries /\ e # Nil
    BY <1>1, CheckPcsAre, CellsAreDistinct DEF Cells
<1>3. CASE {e, Cell(th[t].prev)} \cap freed # {}
    BY <1>3, Undefined DEF DelUnlink, Touch
<1>4. CASE {e, Cell(th[t].prev)} \cap freed = {}
    <2>1. /\ link' = [link EXCEPT ![th[t].prev] = link[e]]
          /\ Go(t, "del_free")
          /\ UNCHANGED <<keyOf, val, exp, memory, dict, now, todo, ub>>
        BY <1>4 DEF DelUnlink, Touch
    <2>2. e \in Places
        BY <1>2 DEF Places
    <2>3. Heap'
        BY <2>1, <2>2 DEF TypeInv, Heap, memory
    <2>4. Fields' /\ Rest'
        BY <2>1 DEF TypeInv, Fields, Rest, dict, fields, memory
    <2>5. Running'
        BY <1>1, <1>2, <2>1, GoIs, GoOn, Hop DEF CheckPcs, memory, dict, fields
    <2> QED
        BY <2>3, <2>4, <2>5 DEF TypeInv
<1> QED
    BY <1>3, <1>4

LEMMA DelFreeTyped ==
    ASSUME TypeInv, NEW t \in Threads, DelFree(t) PROVE TypeInv'
<1> DEFINE e == th[t].ent
<1>1. Running /\ th[t].pc = "del_free" /\ th[t].pc \in CheckPcs
    BY DEF TypeInv, DelFree, CheckPcs
<1>2. e \in Entries \cap allocated
    BY <1>1, CheckPcsAre, CellsAreDistinct DEF Cells
<1>3. CASE {e, val[e]} \cap freed # {}
    BY <1>3, Undefined DEF DelFree, Touch
<1>4. CASE {e, val[e]} \cap freed = {}
    <2>1. /\ freed' = freed \cup {e, val[e]}
          /\ Ahead(t, "del_load")
          /\ UNCHANGED <<shape, exp, allocated, dict, now, todo, ub>>
        BY <1>4 DEF DelFree, Touch
    <2>2. Heap'
        BY <1>2, <2>1 DEF TypeInv, Heap, shape
    <2>3. Fields' /\ Rest'
        BY <2>1 DEF TypeInv, Fields, Rest, dict, fields
    <2>4. Running'
        BY <1>1, <2>1, AheadIs, Hop DEF CheckPcs, dict, fields, Ahead, Become
    <2> QED
        BY <2>2, <2>3, <2>4 DEF TypeInv
<1> QED
    BY <1>3, <1>4

\* What the locals of the two threads are good for, spelled out.
LEMMA MainIs ==
    ASSUME Running
    PROVE  /\ "main" \in Threads /\ main \in Locals /\ InCheck(main)
           /\ InMain(main, allocated, size)
           /\ {main.ent, main.next, main.obj, main.tab, main.d}
                 \subseteq allocated \cup {Nil}
BY DEF Running, Sane, Threads, main

LEMMA SweepIs ==
    ASSUME Running
    PROVE  /\ "sweep" \in Threads /\ sweep \in Locals /\ InCheck(sweep)
           /\ InSweep(sweep)
           /\ {sweep.ent, sweep.next, sweep.obj, sweep.tab, sweep.d}
                 \subseteq allocated \cup {Nil}
BY DEF Running, Sane, Threads, sweep

LEMMA CountLoadTyped ==
    ASSUME TypeInv, NEW t \in Threads, CountLoad(t) PROVE TypeInv'
<1>1. Running /\ th[t].pc \in {"del_load", "set_load"}
    BY DEF TypeInv, CountLoad
<1>2. th[t] \in Locals /\ Sane(t, th[t], allocated, size) /\ count \in Int
    BY DEF TypeInv, Running, Fields
<1>3. CASE {th[t].d} \cap freed # {}
    BY <1>3, Undefined DEF CountLoad, Touch
<1>4. CASE {th[t].d} \cap freed = {}
    <2>1. UNCHANGED <<heap, now, todo, ub>>
        BY <1>4 DEF CountLoad, Touch
    <2> DEFINE then == IF th[t].pc = "del_load" THEN "del_store" ELSE "set_store"
    <2>2. PICK r : r = [th[t] EXCEPT !.n = count, !.pc = then]
        OBVIOUS
    <2>3. th' = [th EXCEPT ![t] = r]
        BY <1>2, <1>4, <2>2 DEF CountLoad, Touch, Become, Locals
    <2>a. then \in MainPcs
        BY DEF MainPcs, CheckPcs, SetPcs
    <2> HIDE DEF then
    <2>b. /\ r \in Locals /\ r.op = th[t].op /\ r.key = th[t].key
          /\ r.ent = th[t].ent /\ r.next = th[t].next /\ r.obj = th[t].obj
          /\ r.tab = th[t].tab /\ r.d = th[t].d /\ r.pc = then
        BY <1>2, <2>2, <2>a DEF Locals
    <2>4. /\ r \in Locals /\ r.op = th[t].op /\ r.key = th[t].key
          /\ r.ent = th[t].ent /\ r.next = th[t].next /\ r.obj = th[t].obj
          /\ r.tab = th[t].tab /\ r.d = th[t].d
          /\ r.pc = IF th[t].pc = "del_load" THEN "del_store" ELSE "set_store"
        BY <2>b DEF then
    <2>5. CASE th[t].pc = "del_load"
        <3>1. Sane(t, r, allocated, size)
            BY <1>1, <2>4, <2>5, CheckOn, CheckPcsAre DEF CheckPcs
        <3> QED
            BY <2>1, <2>3, <3>1, LocalStep
    <2>6. CASE th[t].pc = "set_load"
        <3>1. t = "main" /\ InMain(th[t], allocated, size)
            BY <1>2, <2>6 DEF Sane, InSweep, SweepPcs, CheckPcs, Threads
        <3>2. InMain(r, allocated, size) /\ InCheck(r)
            BY <2>4, <2>6, <3>1 DEF InMain, InCheck, MainPcs, CheckPcs, SetPcs, ReadPcs,
                                    GrowPcs, FlushPcs
        <3>3. Sane(t, r, allocated, size)
            BY <1>2, <2>4, <3>1, <3>2 DEF Sane
        <3> QED
            BY <2>1, <2>3, <3>3, LocalStep
    <2> QED
        BY <1>1, <2>5, <2>6
<1> QED
    BY <1>3, <1>4

LEMMA CountStoreTyped ==
    ASSUME TypeInv, NEW t \in Threads, CountStore(t) PROVE TypeInv'
<1>1. Running /\ th[t].pc \in {"del_store", "set_store"}
    BY DEF TypeInv, CountStore
<1>2. th[t] \in Locals /\ Sane(t, th[t], allocated, size) /\ th[t].n \in Int
    BY DEF TypeInv, Running, Locals
<1>3. CASE {th[t].d} \cap freed # {}
    BY <1>3, Undefined DEF CountStore, Touch
<1>4. CASE {th[t].d} \cap freed = {}
    <2>1. UNCHANGED <<shape, exp, memory, fields, now, todo, ub>>
        BY <1>4 DEF CountStore, Touch
    <2>2. count' \in Int
        BY <1>2, <1>4 DEF CountStore, Touch
    <2>3. Heap' /\ Fields' /\ Rest'
        BY <2>1, <2>2 DEF TypeInv, Heap, Fields, Rest, shape, memory, fields
    <2>4. Running'
        <3>1. CASE th[t].pc = "del_store"
            <4>1. Ahead(t, "chk_done")
                BY <1>4, <3>1 DEF CountStore, Touch
            <4> QED
                BY <1>1, <3>1, <4>1, <2>1, AheadIs, Hop
                   DEF CheckPcs, memory, fields, Ahead, Become
        <3>2. CASE th[t].pc = "set_store"
            <4>1. t = "main" /\ InMain(th[t], allocated, size)
                BY <1>2, <3>2 DEF Sane, InSweep, SweepPcs, CheckPcs, Threads
            <4>z. PICK zero : zero = 0
                OBVIOUS
            <4>2. PICK r : r = [th[t] EXCEPT !.pc = "set_ack", !.n = zero]
                OBVIOUS
            <4>3. th' = [th EXCEPT ![t] = r]
                BY <1>4, <3>2, <4>2, <4>z DEF CountStore, Touch, Become
            <4>a. "set_ack" \in MainPcs
                BY DEF MainPcs, SetPcs
            <4>4. /\ r \in Locals /\ r.op = th[t].op /\ r.key = th[t].key
                  /\ r.ent = th[t].ent /\ r.next = th[t].next /\ r.obj = th[t].obj
                  /\ r.tab = th[t].tab /\ r.d = th[t].d /\ r.pc = "set_ack"
                <5>1. zero \in Int
                    BY <4>z
                <5> QED
                    BY <1>2, <4>2, <4>a, <5>1 DEF Locals
            <4>5. InMain(r, allocated, size) /\ InCheck(r)
                BY <4>1, <4>4, <3>2 DEF InMain, InCheck, MainPcs, CheckPcs, SetPcs, ReadPcs,
                                        GrowPcs, FlushPcs
            <4>6. Sane(t, r, allocated, size)
                BY <1>2, <4>1, <4>4, <4>5 DEF Sane
            <4> QED
                BY <1>1, <2>1, <4>3, <4>6, Hop DEF memory, fields
        <3> QED
            BY <1>1, <3>1, <3>2
    <2> QED
        BY <2>3, <2>4 DEF TypeInv
<1> QED
    BY <1>3, <1>4

LEMMA IdleIsSane ==
    ASSUME NEW t \in Threads, NEW known, NEW sz PROVE Sane(t, Idle, known, sz)
BY IdleIs DEF Sane, InCheck, InMain, InSweep, MainPcs, SweepPcs, CheckPcs, SetPcs,
              ReadPcs, GrowPcs, FlushPcs

LEMMA NextIsSane ==
    ASSUME NEW known, NEW sz
    PROVE  Sane("sweep", [Idle EXCEPT !.pc = "next", !.op = "sweep"], known, sz)
<1>1. PICK i : i = Idle
    OBVIOUS
<1>2. PICK r : r = [i EXCEPT !.pc = "next", !.op = "sweep"]
    OBVIOUS
<1>3. /\ r \in Locals /\ r.pc = "next"
      /\ r.ent = Nil /\ r.next = Nil /\ r.obj = Nil /\ r.tab = Nil /\ r.d = Nil
    BY <1>1, <1>2, IdleIs DEF Locals, SweepPcs, Ops
<1> QED
    BY <1>1, <1>2, <1>3 DEF Sane, InCheck, InSweep, SweepPcs, CheckPcs

LEMMA CheckDoneTyped ==
    ASSUME TypeInv, NEW t \in Threads, CheckDone(t) PROVE TypeInv'
<1>1. Running /\ th[t].pc = "chk_done"
    BY DEF TypeInv, CheckDone
<1>2. th[t] \in Locals /\ Sane(t, th[t], allocated, size)
    BY <1>1 DEF Running
<1>3. UNCHANGED <<heap, now, todo, ub>>
    BY DEF CheckDone
<1>4. CASE t = "sweep"
    <2>1. th[t].op = "sweep"
        BY <1>1, <1>2, <1>4 DEF Sane, InSweep, CheckPcs
    <2>2. th' = [th EXCEPT ![t] = [Idle EXCEPT !.pc = "next", !.op = "sweep"]]
        BY <2>1 DEF CheckDone, Become
    <2> QED
        BY <1>3, <1>4, <2>2, NextIsSane, LocalStep
<1>5. CASE t = "main"
    <2>1. InMain(th[t], allocated, size) /\ th[t].op \in {"get", "del"}
        BY <1>1, <1>2, <1>5 DEF Sane, InMain, CheckPcs
    <2>2. CASE th[t].op = "get"
        <3>1. PICK r : r = [th[t] EXCEPT !.pc = "get_find"]
            OBVIOUS
        <3>2. th' = [th EXCEPT ![t] = r]
            BY <1>1, <2>2, <3>1, GoIs DEF CheckDone
        <3>3. /\ r \in Locals /\ r.op = th[t].op /\ r.key = th[t].key
              /\ r.ent = th[t].ent /\ r.next = th[t].next /\ r.obj = th[t].obj
              /\ r.tab = th[t].tab /\ r.d = th[t].d /\ r.pc = "get_find"
            BY <1>2, <3>1 DEF Locals, MainPcs, ReadPcs
        <3>4. th[t].key \in Keys
            BY <1>1, CheckPcsAre DEF CheckPcs
        <3>5. InMain(r, allocated, size) /\ InCheck(r)
            BY <3>3, <3>4 DEF InMain, InCheck, MainPcs, CheckPcs, SetPcs, ReadPcs,
                                    GrowPcs, FlushPcs
        <3>6. Sane(t, r, allocated, size)
            BY <1>2, <1>5, <3>3, <3>5 DEF Sane
        <3> QED
            BY <1>3, <3>2, <3>6, LocalStep
    <2>3. CASE th[t].op = "del"
        BY <1>3, <2>3, IdleIsSane, LocalStep DEF CheckDone, Become
    <2> QED
        BY <2>1, <2>2, <2>3
<1> QED
    BY <1>4, <1>5 DEF Threads

LEMMA CheckExpiryTyped ==
    ASSUME TypeInv, NEW t \in Threads, CheckExpiry(t) PROVE TypeInv'
BY CheckFindTyped, CheckExpTyped, DelFindTyped, DelUnlinkTyped, DelFreeTyped,
   CountLoadTyped, CountStoreTyped, CheckDoneTyped DEF CheckExpiry

-----------------------------------------------------------------------------
(* The event loop *)

LEMMA GetBeginTyped ==
    ASSUME TypeInv, NEW k \in Keys, GetBegin(k) PROVE TypeInv'
<1>1. Running /\ g_dict \in Dicts \cap allocated
    BY DEF TypeInv, Fields
<1>i. PICK i : i = Idle
    OBVIOUS
<1>r. PICK r : r = [i EXCEPT !.op = "get", !.pc = "chk_find", !.key = k, !.obj = Nil,
                             !.d = g_dict]
    OBVIOUS
<1>t. th' = [th EXCEPT !["main"] = r]
    BY <1>r, <1>i DEF GetBegin, Begin, Become, Go, main, Running
<1>p. "chk_find" \in MainPcs
    BY DEF MainPcs, CheckPcs, SetPcs, ReadPcs, GrowPcs, FlushPcs
<1>l. i \in Locals
    BY <1>1, IdleIs, <1>i
<1>f. /\ r \in Locals /\ r.pc = "chk_find" /\ r.op = "get" /\ r.key = k
       /\ r.ent = i.ent /\ r.next = i.next /\ r.obj = Nil /\ r.tab = i.tab
       /\ r.d = g_dict /\ r.n = i.n
    BY <1>r, <1>l, <1>p, <1>1 DEF Locals, Ops
<1>m. InMain(r, allocated, size) /\ InCheck(r)
    BY <1>f, IdleIs, <1>i, <1>1
       DEF InMain, InCheck, MainPcs, CheckPcs, SetPcs, ReadPcs, GrowPcs, FlushPcs
<1>s. Sane("main", r, allocated, size)
    BY <1>f, <1>m, IdleIs, <1>i, <1>1 DEF Sane
<1> QED
    BY <1>t, <1>s, MainIs, LocalStep DEF GetBegin, TypeInv

LEMMA DelBeginTyped ==
    ASSUME TypeInv, NEW k \in Keys, DelBegin(k) PROVE TypeInv'
<1>1. Running /\ g_dict \in Dicts \cap allocated
    BY DEF TypeInv, Fields
<1>i. PICK i : i = Idle
    OBVIOUS
<1>r. PICK r : r = [i EXCEPT !.op = "del", !.pc = "del_find", !.key = k, !.obj = Nil,
                             !.d = g_dict]
    OBVIOUS
<1>t. th' = [th EXCEPT !["main"] = r]
    BY <1>r, <1>i DEF DelBegin, Begin, Become, Go, main, Running
<1>p. "del_find" \in MainPcs
    BY DEF MainPcs, CheckPcs, SetPcs, ReadPcs, GrowPcs, FlushPcs
<1>l. i \in Locals
    BY <1>1, IdleIs, <1>i
<1>f. /\ r \in Locals /\ r.pc = "del_find" /\ r.op = "del" /\ r.key = k
       /\ r.ent = i.ent /\ r.next = i.next /\ r.obj = Nil /\ r.tab = i.tab
       /\ r.d = g_dict /\ r.n = i.n
    BY <1>r, <1>l, <1>p, <1>1 DEF Locals, Ops
<1>m. InMain(r, allocated, size) /\ InCheck(r)
    BY <1>f, IdleIs, <1>i, <1>1
       DEF InMain, InCheck, MainPcs, CheckPcs, SetPcs, ReadPcs, GrowPcs, FlushPcs
<1>s. Sane("main", r, allocated, size)
    BY <1>f, <1>m, IdleIs, <1>i, <1>1 DEF Sane
<1> QED
    BY <1>t, <1>s, MainIs, LocalStep DEF DelBegin, TypeInv

LEMMA ExpireBeginTyped ==
    ASSUME TypeInv, NEW k \in Keys, ExpireBegin(k) PROVE TypeInv'
<1>1. Running /\ g_dict \in Dicts \cap allocated
    BY DEF TypeInv, Fields
<1>i. PICK i : i = Idle
    OBVIOUS
<1>r. PICK r : r = [i EXCEPT !.op = "expire", !.pc = "exp_find", !.key = k, !.obj = Nil,
                             !.d = g_dict]
    OBVIOUS
<1>t. th' = [th EXCEPT !["main"] = r]
    BY <1>r, <1>i DEF ExpireBegin, Begin, Become, Go, main, Running
<1>p. "exp_find" \in MainPcs
    BY DEF MainPcs, CheckPcs, SetPcs, ReadPcs, GrowPcs, FlushPcs
<1>l. i \in Locals
    BY <1>1, IdleIs, <1>i
<1>f. /\ r \in Locals /\ r.pc = "exp_find" /\ r.op = "expire" /\ r.key = k
       /\ r.ent = i.ent /\ r.next = i.next /\ r.obj = Nil /\ r.tab = i.tab
       /\ r.d = g_dict /\ r.n = i.n
    BY <1>r, <1>l, <1>p, <1>1 DEF Locals, Ops
<1>m. InMain(r, allocated, size) /\ InCheck(r)
    BY <1>f, IdleIs, <1>i, <1>1
       DEF InMain, InCheck, MainPcs, CheckPcs, SetPcs, ReadPcs, GrowPcs, FlushPcs
<1>s. Sane("main", r, allocated, size)
    BY <1>f, <1>m, IdleIs, <1>i, <1>1 DEF Sane
<1> QED
    BY <1>t, <1>s, MainIs, LocalStep DEF ExpireBegin, TypeInv

LEMMA GetFindTyped ==
    ASSUME TypeInv, GetFind PROVE TypeInv'
<1>1. Running /\ main.pc = "get_find"
    BY DEF TypeInv, GetFind
<1>k. main.key \in Keys
    BY <1>1, MainIs DEF InMain, SetPcs, ReadPcs
<1>e. Find(main.key) # Nil =>
          /\ Find(main.key) \in Entries \cap allocated
          /\ val[Find(main.key)] \in Objects \cap allocated
    BY <1>k, FindIs DEF TypeInv, Heap
<1>n. Nil \notin Objects \cup Entries
    BY CellsAreDistinct DEF Cells
<1>u. CASE (Walk("main")) \cap freed # {}
    BY <1>u, Undefined DEF GetFind, Touch
<1>v. CASE (Walk("main")) \cap freed = {}
    <2>1. UNCHANGED <<heap, now, todo, ub>>
        BY <1>v DEF GetFind, Touch
    <2>2. CASE Find(main.key) = Nil
        <3>1. th' = [th EXCEPT !["main"] = Idle]
            BY <1>1, <1>v, <2>2 DEF GetFind, Touch, Become
        <3> QED
            BY <1>1, <2>1, <3>1, MainIs, IdleIsSane, LocalStep
    <2>3. CASE Find(main.key) # Nil
        <3>r. PICK r : r = [main EXCEPT !.pc = "get_read", !.obj = val[Find(main.key)]]
            OBVIOUS
        <3>t. th' = [th EXCEPT !["main"] = r]
            BY <1>1, <1>v, <2>3, <3>r, MainIs DEF GetFind, Touch, Become, Go, main, Running
        <3>p. "get_read" \in MainPcs
            BY DEF MainPcs, CheckPcs, SetPcs, ReadPcs, GrowPcs, FlushPcs
        <3>l. main \in Locals
            BY <1>1, MainIs
        <3>f. /\ r \in Locals /\ r.pc = "get_read" /\ r.op = main.op /\ r.key = main.key
               /\ r.ent = main.ent /\ r.next = main.next /\ r.obj = val[Find(main.key)]
               /\ r.tab = main.tab /\ r.d = main.d /\ r.n = main.n
            BY <3>r, <3>l, <3>p, <1>e, <2>3 DEF Locals, Ops
        <3>m. InMain(r, allocated, size) /\ InCheck(r)
            BY <3>f, MainIs, <1>1, <1>e, <1>n, <2>3
               DEF InMain, InCheck, MainPcs, CheckPcs, SetPcs, ReadPcs, GrowPcs, FlushPcs
        <3>s. Sane("main", r, allocated, size)
            BY <3>f, <3>m, MainIs, <1>1, <1>e, <1>n, <2>3 DEF Sane
        <3> QED
            BY <1>1, <2>1, <3>t, <3>s, MainIs, LocalStep
    <2> QED
        BY <2>2, <2>3
<1> QED
    BY <1>u, <1>v

LEMMA GetReadTyped ==
    ASSUME TypeInv, GetRead PROVE TypeInv'
<1>1. CASE {main.obj} \cap freed # {}
    BY <1>1, Undefined DEF GetRead, Touch
<1>2. CASE {main.obj} \cap freed = {}
    BY <1>2, MainIs, IdleIsSane, LocalStep DEF GetRead, Touch, Become, TypeInv
<1> QED
    BY <1>1, <1>2

LEMMA ExpireFindTyped ==
    ASSUME TypeInv, ExpireFind PROVE TypeInv'
<1>1. Running /\ main.pc = "exp_find"
    BY DEF TypeInv, ExpireFind
<1>k. main.key \in Keys
    BY <1>1, MainIs DEF InMain, SetPcs, ReadPcs
<1>e. Find(main.key) # Nil =>
          /\ Find(main.key) \in Entries \cap allocated
          /\ val[Find(main.key)] \in Objects \cap allocated
    BY <1>k, FindIs DEF TypeInv, Heap
<1>n. Nil \notin Objects \cup Entries
    BY CellsAreDistinct DEF Cells
<1>u. CASE (Walk("main")) \cap freed # {}
    BY <1>u, Undefined DEF ExpireFind, Touch
<1>v. CASE (Walk("main")) \cap freed = {}
    <2>1. UNCHANGED <<heap, now, todo, ub>>
        BY <1>v DEF ExpireFind, Touch
    <2>2. CASE Find(main.key) = Nil
        <3>1. th' = [th EXCEPT !["main"] = Idle]
            BY <1>1, <1>v, <2>2 DEF ExpireFind, Touch, Become
        <3> QED
            BY <1>1, <2>1, <3>1, MainIs, IdleIsSane, LocalStep
    <2>3. CASE Find(main.key) # Nil
        <3>r. PICK r : r = [main EXCEPT !.pc = "exp_write", !.obj = val[Find(main.key)]]
            OBVIOUS
        <3>t. th' = [th EXCEPT !["main"] = r]
            BY <1>1, <1>v, <2>3, <3>r, MainIs
               DEF ExpireFind, Touch, Become, Go, main, Running
        <3>p. "exp_write" \in MainPcs
            BY DEF MainPcs, CheckPcs, SetPcs, ReadPcs, GrowPcs, FlushPcs
        <3>l. main \in Locals
            BY <1>1, MainIs
        <3>f. /\ r \in Locals /\ r.pc = "exp_write" /\ r.op = main.op
               /\ r.key = main.key /\ r.ent = main.ent /\ r.next = main.next
               /\ r.obj = val[Find(main.key)] /\ r.tab = main.tab /\ r.d = main.d
               /\ r.n = main.n
            BY <3>r, <3>l, <3>p, <1>e, <2>3 DEF Locals, Ops
        <3>m. InMain(r, allocated, size) /\ InCheck(r)
            BY <3>f, MainIs, <1>1, <1>e, <1>n, <2>3
               DEF InMain, InCheck, MainPcs, CheckPcs, SetPcs, ReadPcs, GrowPcs, FlushPcs
        <3>s. Sane("main", r, allocated, size)
            BY <3>f, <3>m, MainIs, <1>1, <1>e, <1>n, <2>3 DEF Sane
        <3> QED
            BY <1>1, <2>1, <3>t, <3>s, MainIs, LocalStep
    <2> QED
        BY <2>2, <2>3
<1> QED
    BY <1>u, <1>v

LEMMA ExpireWriteTyped ==
    ASSUME TypeInv, NEW d \in Delays, ExpireWrite(d) PROVE TypeInv'
<1>1. CASE {main.obj} \cap freed # {}
    BY <1>1, Undefined DEF ExpireWrite, Touch
<1>2. CASE {main.obj} \cap freed = {}
    <2>1. /\ exp' = [exp EXCEPT ![main.obj] = now + d]
          /\ th' = [th EXCEPT !["main"] = Idle]
          /\ UNCHANGED <<shape, memory, dict, now, todo, ub>>
        BY <1>2 DEF ExpireWrite, Touch, Become
    <2>2. now + d \in Int
        BY ClockBounds DEF TypeInv, Rest
    <2>3. Heap' /\ Fields' /\ Rest'
        BY <2>1, <2>2 DEF TypeInv, Heap, Fields, Rest, shape, memory, dict, fields
    <2>4. Running'
        BY <2>1, MainIs, IdleIsSane, Hop DEF TypeInv, memory, dict, fields
    <2> QED
        BY <2>3, <2>4 DEF TypeInv
<1> QED
    BY <1>1, <1>2

LEMMA SetFindTyped ==
    ASSUME TypeInv, SetFind PROVE TypeInv'
<1>1. Running /\ main.pc = "set_find"
    BY DEF TypeInv, SetFind
<1>k. main.key \in Keys
    BY <1>1, MainIs DEF InMain, SetPcs, ReadPcs
<1>e. Find(main.key) # Nil =>
          /\ Find(main.key) \in Entries \cap allocated
          /\ val[Find(main.key)] \in Objects \cap allocated
    BY <1>k, FindIs DEF TypeInv, Heap
<1>n. Nil \notin Objects \cup Entries
    BY CellsAreDistinct DEF Cells
<1>u. CASE (Walk("main")) \cap freed # {}
    BY <1>u, Undefined DEF SetFind, Touch
<1>v. CASE (Walk("main")) \cap freed = {}
    <2>1. UNCHANGED <<heap, now, todo, ub>>
        BY <1>v DEF SetFind, Touch
    <2>2. CASE Find(main.key) = Nil
        <3>r. PICK r : r = [main EXCEPT !.pc = "set_new", !.ent = Nil]
            OBVIOUS
        <3>t. th' = [th EXCEPT !["main"] = r]
            BY <1>1, <1>v, <2>2, <3>r, MainIs DEF SetFind, Touch, Become, Go, main, Running
        <3>p. "set_new" \in MainPcs
            BY DEF MainPcs, CheckPcs, SetPcs, ReadPcs, GrowPcs, FlushPcs
        <3>l. main \in Locals
            BY <1>1, MainIs
        <3>f. /\ r \in Locals /\ r.pc = "set_new" /\ r.op = main.op /\ r.key = main.key
               /\ r.ent = Nil /\ r.next = main.next /\ r.obj = main.obj
               /\ r.tab = main.tab /\ r.d = main.d /\ r.n = main.n
            BY <3>r, <3>l, <3>p, <2>2 DEF Locals, Ops
        <3>m. InMain(r, allocated, size) /\ InCheck(r)
            BY <3>f, MainIs, <1>1, <2>2
               DEF InMain, InCheck, MainPcs, CheckPcs, SetPcs, ReadPcs, GrowPcs, FlushPcs
        <3>s. Sane("main", r, allocated, size)
            BY <3>f, <3>m, MainIs, <1>1, <2>2 DEF Sane
        <3> QED
            BY <1>1, <2>1, <3>t, <3>s, MainIs, LocalStep
    <2>3. CASE Find(main.key) # Nil
        <3>r. PICK r : r = [main EXCEPT !.pc = "set_free", !.ent = Find(main.key)]
            OBVIOUS
        <3>t. th' = [th EXCEPT !["main"] = r]
            BY <1>1, <1>v, <2>3, <3>r, MainIs DEF SetFind, Touch, Become, Go, main, Running
        <3>p. "set_free" \in MainPcs
            BY DEF MainPcs, CheckPcs, SetPcs, ReadPcs, GrowPcs, FlushPcs
        <3>l. main \in Locals
            BY <1>1, MainIs
        <3>f. /\ r \in Locals /\ r.pc = "set_free" /\ r.op = main.op /\ r.key = main.key
               /\ r.ent = Find(main.key) /\ r.next = main.next /\ r.obj = main.obj
               /\ r.tab = main.tab /\ r.d = main.d /\ r.n = main.n
            BY <3>r, <3>l, <3>p, <1>e, <2>3 DEF Locals, Ops
        <3>m. InMain(r, allocated, size) /\ InCheck(r)
            BY <3>f, MainIs, <1>1, <1>e, <1>n, <2>3
               DEF InMain, InCheck, MainPcs, CheckPcs, SetPcs, ReadPcs, GrowPcs, FlushPcs
        <3>s. Sane("main", r, allocated, size)
            BY <3>f, <3>m, MainIs, <1>1, <1>e, <1>n, <2>3 DEF Sane
        <3> QED
            BY <1>1, <2>1, <3>t, <3>s, MainIs, LocalStep
    <2> QED
        BY <2>2, <2>3
<1> QED
    BY <1>u, <1>v

LEMMA SetAckTyped ==
    ASSUME TypeInv, SetAck PROVE TypeInv'
BY MainIs, IdleIsSane, LocalStep DEF SetAck, Become, TypeInv

LEMMA SetBeginTyped ==
    ASSUME TypeInv, NEW k \in Keys, SetBegin(k) PROVE TypeInv'
<1>1. Running /\ g_dict \in Dicts \cap allocated
    BY DEF TypeInv, Fields
<1>o. PICK o : o = Fresh(Objects)
    OBVIOUS
<1>2. /\ o \in Objects \ allocated /\ Entries \ allocated # {}
      /\ allocated' = allocated \cup {o}
      /\ UNCHANGED <<shape, exp, freed, dict, now, todo, ub>>
    BY <1>o, FreshIs DEF SetBegin
<1>3. /\ Nil \notin Objects /\ Objects \cap Entries = {}
      /\ Entries \ (allocated \cup {o}) # {}
    BY <1>2, CellsAreDistinct DEF Cells
<1>i. PICK i : i = Idle
    OBVIOUS
<1>r. PICK r : r = [i EXCEPT !.op = "set", !.pc = "set_size", !.key = k, !.obj = o,
                             !.d = g_dict]
    OBVIOUS
<1>t. th' = [th EXCEPT !["main"] = r]
    BY <1>o, <1>r, <1>i DEF SetBegin, Begin, Become, Go, main, Running
<1>p. "set_size" \in MainPcs
    BY DEF MainPcs, CheckPcs, SetPcs, ReadPcs, GrowPcs, FlushPcs
<1>l. i \in Locals
    BY <1>1, IdleIs, <1>i
<1>f. /\ r \in Locals /\ r.pc = "set_size" /\ r.op = "set" /\ r.key = k
       /\ r.ent = i.ent /\ r.next = i.next /\ r.obj = o /\ r.tab = i.tab
       /\ r.d = g_dict /\ r.n = i.n
    BY <1>r, <1>l, <1>p, <1>1, <1>2 DEF Locals, Ops
<1>m. InMain(r, allocated \cup {o}, size) /\ InCheck(r)
    BY <1>f, IdleIs, <1>i, <1>1, <1>2, <1>3
       DEF InMain, InCheck, MainPcs, CheckPcs, SetPcs, ReadPcs, GrowPcs, FlushPcs
<1>s. Sane("main", r, allocated \cup {o}, size)
    BY <1>f, <1>m, IdleIs, <1>i, <1>1, <1>2, <1>3 DEF Sane
<1>4. Heap'
    BY <1>2, <1>3 DEF TypeInv, Heap, shape, Cells
<1>5. Fields' /\ Rest'
    BY <1>2 DEF TypeInv, Fields, Rest, dict, fields
<1>6. Running'
    BY <1>1, <1>2, <1>t, <1>s, MainIs, Hop DEF dict, fields
<1> QED
    BY <1>4, <1>5, <1>6 DEF TypeInv

LEMMA SetSizeTyped ==
    ASSUME TypeInv, SetSize PROVE TypeInv'
<1>1. Running /\ main.pc = "set_size" /\ size \in 1 .. MaxSize /\ buckets \in Tables
    BY DEF TypeInv, SetSize, Fields
<1>2. CASE ~Crowded
    <2>1. UNCHANGED <<heap, now, todo, ub>>
        BY <1>2 DEF SetSize, heap, memory
    <2>r. PICK r : r = [main EXCEPT !.pc = "set_find"]
        OBVIOUS
    <2>t. th' = [th EXCEPT !["main"] = r]
        BY <1>1, <1>2, <2>r, MainIs DEF SetSize, Become, Go, main, Running
    <2>p. "set_find" \in MainPcs
        BY DEF MainPcs, CheckPcs, SetPcs, ReadPcs, GrowPcs, FlushPcs
    <2>l. main \in Locals
        BY <1>1, MainIs
    <2>f. /\ r \in Locals /\ r.pc = "set_find" /\ r.op = main.op /\ r.key = main.key
           /\ r.ent = main.ent /\ r.next = main.next /\ r.obj = main.obj
           /\ r.tab = main.tab /\ r.d = main.d /\ r.n = main.n
        BY <2>r, <2>l, <2>p DEF Locals, Ops
    <2>m. InMain(r, allocated, size) /\ InCheck(r)
        BY <2>f, MainIs, <1>1
           DEF InMain, InCheck, MainPcs, CheckPcs, SetPcs, ReadPcs, GrowPcs, FlushPcs
    <2>s. Sane("main", r, allocated, size)
        BY <2>f, <2>m, MainIs, <1>1 DEF Sane
    <2> QED
        BY <1>1, <2>1, <2>t, <2>s, MainIs, LocalStep
<1>3. CASE Crowded
    <2>t1. PICK tab : tab = Fresh(Tables)
        OBVIOUS
    <2>1. /\ CanGrow /\ tab \in Tables \ allocated
          /\ allocated' = allocated \cup {tab}
          /\ UNCHANGED <<shape, exp, freed, dict, now, todo, ub>>
        BY <1>3, <2>t1, FreshIs DEF SetSize, CanGrow
    <2>2. <<buckets, 1>> \in Places
        BY <1>1, Sizes DEF Places
    <2>3. PICK e : e = link[<<buckets, 1>>]
        OBVIOUS
    <2>4. e \in Entries \cup {Nil} /\ e \in allocated \cup {Nil}
        BY <2>2, <2>3 DEF TypeInv, Heap
    <2>5. Entries \ (allocated \cup {tab}) # {}
        BY <1>1, <2>1, MainIs, CellsAreDistinct DEF InMain, Cells
    <2>6. 2 * size <= MaxSize /\ 1 \in 1 .. size /\ 1 \in Int
        BY <2>1, <1>1, Sizes DEF CanGrow
    <2>one. PICK one : one = 1
        OBVIOUS
    <2>7. one \in 1 .. size /\ one \in Int
        BY <2>one, <2>6
    <2>r. PICK r : r = [main EXCEPT !.pc = "grow", !.tab = tab, !.n = one, !.ent = e]
        OBVIOUS
    <2>t. th' = [th EXCEPT !["main"] = r]
        BY <1>1, <1>3, <2>t1, <2>3, <2>one, <2>r, MainIs
           DEF SetSize, Become, Go, main, Running
    <2>p. "grow" \in MainPcs
        BY DEF MainPcs, CheckPcs, SetPcs, ReadPcs, GrowPcs, FlushPcs
    <2>l. main \in Locals
        BY <1>1, MainIs
    <2>f. /\ r \in Locals /\ r.pc = "grow" /\ r.op = main.op /\ r.key = main.key
           /\ r.ent = e /\ r.next = main.next /\ r.obj = main.obj /\ r.tab = tab
           /\ r.d = main.d /\ r.n = one
        BY <2>r, <2>l, <2>p, <2>1, <2>4, <2>7 DEF Locals, Ops
    <2>m. InMain(r, allocated \cup {tab}, size) /\ InCheck(r)
        BY <2>f, MainIs, <1>1, <2>1, <2>4, <2>5, <2>6, <2>7
           DEF InMain, InCheck, MainPcs, CheckPcs, SetPcs, ReadPcs, GrowPcs, FlushPcs
    <2>s. Sane("main", r, allocated \cup {tab}, size)
        BY <2>f, <2>m, MainIs, <1>1, <2>1, <2>4, <2>5, <2>6, <2>7 DEF Sane
    <2>8. Heap'
        BY <2>1, CellsAreDistinct DEF TypeInv, Heap, shape, Cells
    <2>9. Fields' /\ Rest'
        BY <2>1 DEF TypeInv, Fields, Rest, dict, fields
    <2>10. Running'
        BY <1>1, <2>1, <2>t, <2>s, MainIs, Hop DEF dict, fields
    <2> QED
        BY <2>8, <2>9, <2>10 DEF TypeInv
<1> QED
    BY <1>2, <1>3

LEMMA GrowReadTyped ==
    ASSUME TypeInv, GrowRead PROVE TypeInv'
<1>1. Running /\ main.pc = "grow" /\ main.ent # Nil
    BY DEF TypeInv, GrowRead
<1>2. main.ent \in Entries
    BY <1>1, MainIs DEF Locals
<1>3. PICK f : f = link[main.ent]
    OBVIOUS
<1>4. f \in Entries \cup {Nil} /\ f \in allocated \cup {Nil}
    BY <1>2, <1>3 DEF TypeInv, Heap, Places
<1>5. CASE {main.ent} \cap freed # {}
    BY <1>5, Undefined DEF GrowRead, Touch
<1>6. CASE {main.ent} \cap freed = {}
    <2>r. PICK r : r = [main EXCEPT !.pc = "grow_move", !.next = f]
        OBVIOUS
    <2>t. th' = [th EXCEPT !["main"] = r]
        BY <1>3, <1>6, <2>r, MainIs DEF GrowRead, Touch, Become, Go, main, Running
    <2>p. "grow_move" \in MainPcs
        BY DEF MainPcs, CheckPcs, SetPcs, ReadPcs, GrowPcs, FlushPcs
    <2>l. main \in Locals
        BY <1>1, MainIs
    <2>f. /\ r \in Locals /\ r.pc = "grow_move" /\ r.op = main.op
           /\ r.key = main.key /\ r.ent = main.ent /\ r.next = f /\ r.obj = main.obj
           /\ r.tab = main.tab /\ r.d = main.d /\ r.n = main.n
        BY <2>r, <2>l, <2>p, <1>4 DEF Locals, Ops
    <2>m. InMain(r, allocated, size) /\ InCheck(r)
        BY <2>f, MainIs, <1>1, <1>4
           DEF InMain, InCheck, MainPcs, CheckPcs, SetPcs, ReadPcs, GrowPcs, FlushPcs
    <2>s. Sane("main", r, allocated, size)
        BY <2>f, <2>m, MainIs, <1>1, <1>4 DEF Sane
    <2>1. UNCHANGED <<heap, now, todo, ub>>
        BY <1>6 DEF GrowRead, Touch
    <2> QED
        BY <1>1, <2>1, <2>t, <2>s, MainIs, LocalStep
<1> QED
    BY <1>5, <1>6

LEMMA GrowMoveTyped ==
    ASSUME TypeInv, GrowMove PROVE TypeInv'
<1>1. Running /\ main.pc = "grow_move"
    BY DEF TypeInv, GrowMove
<1>2. main.ent \in Entries \cap allocated /\ main.tab \in Tables
    BY <1>1, MainIs DEF Locals, InMain, GrowPcs
<1>3. CASE {main.ent} \cap freed # {}
    BY <1>3, Undefined DEF GrowMove, Touch
<1>4. CASE {main.ent} \cap freed = {}
    <2> DEFINE slot == <<main.tab, BucketOf(keyOf[main.ent], 2 * size)>>
    <2>1. /\ link' = [link EXCEPT ![main.ent] = link[slot], ![slot] = main.ent]
          /\ UNCHANGED <<keyOf, val, exp, memory, dict, now, todo, ub>>
        BY <1>4 DEF GrowMove, Touch
    <2>2. keyOf[main.ent] \in Keys /\ 2 * size \in Nat \ {0} /\ 2 * size <= MaxSize
        BY <1>1, <1>2, MainIs DEF TypeInv, Heap, Fields, InMain, GrowPcs
    <2>3. BucketOf(keyOf[main.ent], 2 * size) \in 1 .. MaxSize
        BY <2>2, BucketOfIs, Sizes
    <2>4. slot \in Places /\ main.ent \in Places
        BY <1>2, <2>3 DEF Places
    <2>5. Heap'
        <3> HIDE DEF slot
        <3>1. link[slot] \in Entries \cup {Nil} /\ link[slot] \in allocated \cup {Nil}
            BY <2>4 DEF TypeInv, Heap
        <3>2. /\ link' \in [Places -> Entries \cup {Nil}]
              /\ \A p \in Places : link'[p] \in allocated \cup {Nil}
            BY <1>2, <2>1, <2>4, <3>1 DEF TypeInv, Heap
        <3> QED
            BY <2>1, <3>2 DEF TypeInv, Heap, memory
    <2>6. Fields' /\ Rest'
        BY <2>1 DEF TypeInv, Fields, Rest, dict, fields, memory
    <2>r. PICK r : r = [main EXCEPT !.ent = main.next, !.next = Nil, !.pc = "grow"]
        OBVIOUS
    <2>t. th' = [th EXCEPT !["main"] = r]
        BY <1>4, <2>r, MainIs DEF GrowMove, Touch, Become, Go, main, Running
    <2>p. "grow" \in MainPcs
        BY DEF MainPcs, CheckPcs, SetPcs, ReadPcs, GrowPcs, FlushPcs
    <2>l. main \in Locals
        BY <1>1, MainIs
    <2>f. /\ r \in Locals /\ r.pc = "grow" /\ r.op = main.op /\ r.key = main.key
           /\ r.ent = main.next /\ r.next = Nil /\ r.obj = main.obj
           /\ r.tab = main.tab /\ r.d = main.d /\ r.n = main.n
        BY <2>r, <2>l, <2>p DEF Locals, Ops
    <2>m. InMain(r, allocated, size) /\ InCheck(r)
        BY <2>f, MainIs, <1>1
           DEF InMain, InCheck, MainPcs, CheckPcs, SetPcs, ReadPcs, GrowPcs, FlushPcs
    <2>s. Sane("main", r, allocated, size)
        BY <2>f, <2>m, MainIs, <1>1 DEF Sane
    <2>7. Running'
        BY <1>1, <2>1, <2>t, <2>s, MainIs, Hop DEF dict, fields, memory
    <2> QED
        BY <2>5, <2>6, <2>7 DEF TypeInv
<1> QED
    BY <1>3, <1>4

\* GrowBucket and FlushBucket.
LEMMA NextBucketTyped ==
    ASSUME TypeInv, NEW pc, NEW end, NextBucket(pc, end),
           <<pc, end>> \in {<<"grow", "grow_free">>, <<"flush", "flush_free">>}
    PROVE  TypeInv'
<1>1. /\ Running /\ main.pc = pc /\ main.ent = Nil /\ size \in 1 .. MaxSize
      /\ buckets \in Tables
    BY DEF TypeInv, NextBucket, Fields
<1>2. /\ pc \in {"grow", "flush"} /\ end \in {"grow_free", "flush_free"}
      /\ pc = "grow" <=> end = "grow_free"
    OBVIOUS
<1>3. UNCHANGED <<heap, now, todo, ub>>
    BY DEF NextBucket
<1>4. main.n \in 1 .. size
    BY <1>1, <1>2, MainIs DEF InMain
<1>5. CASE main.n = size
    <2>zero. PICK zero : zero = 0
        OBVIOUS
    <2>1. zero \in Int
        BY <2>zero
    <2>r. PICK r : r = [main EXCEPT !.pc = end, !.n = zero]
        OBVIOUS
    <2>t. th' = [th EXCEPT !["main"] = r]
        BY <1>5, <2>zero, <2>r, MainIs DEF NextBucket, Become, Go, main, Running
    <2>p. end \in MainPcs
        BY <1>2 DEF MainPcs, CheckPcs, SetPcs, ReadPcs, GrowPcs, FlushPcs
    <2>l. main \in Locals
        BY <1>1, MainIs
    <2>f. /\ r \in Locals /\ r.pc = end /\ r.op = main.op /\ r.key = main.key
           /\ r.ent = main.ent /\ r.next = main.next /\ r.obj = main.obj
           /\ r.tab = main.tab /\ r.d = main.d /\ r.n = zero
        BY <2>r, <2>l, <2>p, <2>1 DEF Locals, Ops
    <2>m. InMain(r, allocated, size) /\ InCheck(r)
        BY <2>f, MainIs, <1>1, <1>2
           DEF InMain, InCheck, MainPcs, CheckPcs, SetPcs, ReadPcs, GrowPcs, FlushPcs
    <2>s. Sane("main", r, allocated, size)
        BY <2>f, <2>m, MainIs, <1>1, <1>2 DEF Sane
    <2> QED
        BY <1>1, <1>3, <2>t, <2>s, MainIs, LocalStep
<1>6. CASE main.n # size
    <2>next. PICK m : m = main.n + 1
        OBVIOUS
    <2>1. m \in 1 .. size /\ m \in Int /\ m \in 1 .. MaxSize
        BY <1>1, <1>4, <1>6, <2>next, Sizes
    <2>2. PICK f : f = link[<<buckets, m>>]
        OBVIOUS
    <2>3. f \in Entries \cup {Nil} /\ f \in allocated \cup {Nil}
        BY <1>1, <2>1, <2>2 DEF TypeInv, Heap, Places
    <2>r. PICK r : r = [main EXCEPT !.n = m, !.ent = f]
        OBVIOUS
    <2>t. th' = [th EXCEPT !["main"] = r]
        BY <1>6, <2>next, <2>2, <2>r, MainIs
           DEF NextBucket, Locals, Become, Go, main, Running
    <2>l. main \in Locals
        BY <1>1, MainIs
    <2>f. /\ r \in Locals /\ r.pc = main.pc /\ r.op = main.op /\ r.key = main.key
           /\ r.ent = f /\ r.next = main.next /\ r.obj = main.obj /\ r.tab = main.tab
           /\ r.d = main.d /\ r.n = m
        BY <2>r, <2>l, <2>1, <2>3 DEF Locals, Ops
    <2>m. InMain(r, allocated, size) /\ InCheck(r)
        BY <2>f, MainIs, <1>1, <1>2, <2>1, <2>3
           DEF InMain, InCheck, MainPcs, CheckPcs, SetPcs, ReadPcs, GrowPcs, FlushPcs
    <2>s. Sane("main", r, allocated, size)
        BY <2>f, <2>m, MainIs, <1>1, <1>2, <2>1, <2>3 DEF Sane
    <2> QED
        BY <1>1, <1>3, <2>t, <2>s, MainIs, LocalStep
<1> QED
    BY <1>5, <1>6

LEMMA GrowFreeTyped ==
    ASSUME TypeInv, GrowFree PROVE TypeInv'
<1>1. Running /\ main.pc = "grow_free"
    BY DEF TypeInv, GrowFree
<1>2. /\ freed' = freed \cup {buckets}
      /\ UNCHANGED <<shape, exp, allocated, dict, now, todo, ub>>
    BY DEF GrowFree
<1>r. PICK r : r = [main EXCEPT !.pc = "grow_table"]
    OBVIOUS
<1>t. th' = [th EXCEPT !["main"] = r]
    BY <1>r, MainIs DEF GrowFree, Become, Go, main, Running
<1>p. "grow_table" \in MainPcs
    BY DEF MainPcs, CheckPcs, SetPcs, ReadPcs, GrowPcs, FlushPcs
<1>l. main \in Locals
    BY <1>1, MainIs
<1>f. /\ r \in Locals /\ r.pc = "grow_table" /\ r.op = main.op
       /\ r.key = main.key /\ r.ent = main.ent /\ r.next = main.next
       /\ r.obj = main.obj /\ r.tab = main.tab /\ r.d = main.d /\ r.n = main.n
    BY <1>r, <1>l, <1>p DEF Locals, Ops
<1>m. InMain(r, allocated, size) /\ InCheck(r)
    BY <1>f, MainIs, <1>1
       DEF InMain, InCheck, MainPcs, CheckPcs, SetPcs, ReadPcs, GrowPcs, FlushPcs
<1>s. Sane("main", r, allocated, size)
    BY <1>f, <1>m, MainIs, <1>1 DEF Sane
<1>3. Heap' /\ Fields' /\ Rest'
    BY <1>2 DEF TypeInv, Heap, Fields, Rest, shape, dict, fields
<1>4. Running'
    BY <1>1, <1>2, <1>t, <1>s, MainIs, Hop DEF dict, fields
<1> QED
    BY <1>3, <1>4 DEF TypeInv

LEMMA GrowTableTyped ==
    ASSUME TypeInv, GrowTable PROVE TypeInv'
<1>1. Running /\ main.pc = "grow_table"
    BY DEF TypeInv, GrowTable
<1>2. /\ buckets' = main.tab
      /\ UNCHANGED <<shape, exp, memory, g_dict, size, count, now, todo, ub>>
    BY DEF GrowTable
<1>5. main.tab \in Tables \cap allocated
    BY <1>1, MainIs DEF InMain, GrowPcs
<1>r. PICK r : r = [main EXCEPT !.pc = "grow_size", !.tab = Nil]
    OBVIOUS
<1>t. th' = [th EXCEPT !["main"] = r]
    BY <1>r, MainIs DEF GrowTable, Become, Go, main, Running
<1>p. "grow_size" \in MainPcs
    BY DEF MainPcs, CheckPcs, SetPcs, ReadPcs, GrowPcs, FlushPcs
<1>l. main \in Locals
    BY <1>1, MainIs
<1>f. /\ r \in Locals /\ r.pc = "grow_size" /\ r.op = main.op
       /\ r.key = main.key /\ r.ent = main.ent /\ r.next = main.next
       /\ r.obj = main.obj /\ r.tab = Nil /\ r.d = main.d /\ r.n = main.n
    BY <1>r, <1>l, <1>p DEF Locals, Ops
<1>m. InMain(r, allocated, size) /\ InCheck(r)
    BY <1>f, MainIs, <1>1
       DEF InMain, InCheck, MainPcs, CheckPcs, SetPcs, ReadPcs, GrowPcs, FlushPcs
<1>s. Sane("main", r, allocated, size)
    BY <1>f, <1>m, MainIs, <1>1 DEF Sane
<1>3. Heap' /\ Fields' /\ Rest'
    BY <1>2, <1>5 DEF TypeInv, Heap, Fields, Rest, shape, memory
<1>4. Running'
    BY <1>1, <1>2, <1>t, <1>s, MainIs, Hop DEF memory
<1> QED
    BY <1>3, <1>4 DEF TypeInv

LEMMA GrowSizeTyped ==
    ASSUME TypeInv, GrowSize PROVE TypeInv'
<1>1. Running /\ main.pc = "grow_size"
    BY DEF TypeInv, GrowSize
<1>2. /\ size' = 2 * size
      /\ UNCHANGED <<shape, exp, memory, g_dict, buckets, count, now, todo, ub>>
    BY DEF GrowSize
<1>5. 2 * size \in 1 .. MaxSize
    BY <1>1, MainIs, Sizes DEF InMain, GrowPcs, TypeInv, Fields
<1>r. PICK r : r = [main EXCEPT !.pc = "set_find"]
    OBVIOUS
<1>t. th' = [th EXCEPT !["main"] = r]
    BY <1>r, MainIs DEF GrowSize, Become, Go, main, Running
<1>p. "set_find" \in MainPcs
    BY DEF MainPcs, CheckPcs, SetPcs, ReadPcs, GrowPcs, FlushPcs
<1>l. main \in Locals
    BY <1>1, MainIs
<1>f. /\ r \in Locals /\ r.pc = "set_find" /\ r.op = main.op /\ r.key = main.key
       /\ r.ent = main.ent /\ r.next = main.next /\ r.obj = main.obj
       /\ r.tab = main.tab /\ r.d = main.d /\ r.n = main.n
    BY <1>r, <1>l, <1>p DEF Locals, Ops
<1>m. InMain(r, allocated, 2 * size) /\ InCheck(r)
    BY <1>f, MainIs, <1>1
       DEF InMain, InCheck, MainPcs, CheckPcs, SetPcs, ReadPcs, GrowPcs, FlushPcs
<1>s. Sane("main", r, allocated, 2 * size)
    BY <1>f, <1>m, MainIs, <1>1 DEF Sane
<1>3. Heap' /\ Fields' /\ Rest'
    BY <1>2, <1>5 DEF TypeInv, Heap, Fields, Rest, shape, memory
<1>4. Running'
    BY <1>1, <1>2, <1>t, <1>s, MainIs, Hop DEF memory
<1> QED
    BY <1>3, <1>4 DEF TypeInv

LEMMA SetFreeTyped ==
    ASSUME TypeInv, SetFree PROVE TypeInv'
<1>1. Running /\ main.pc = "set_free"
    BY DEF TypeInv, SetFree
<1>2. main.ent \in Entries \cap allocated
    BY <1>1, MainIs DEF Locals, InMain
<1>3. CASE {main.ent, val[main.ent]} \cap freed # {}
    BY <1>3, Undefined DEF SetFree, Touch
<1>4. CASE {main.ent, val[main.ent]} \cap freed = {}
    <2>1. /\ freed' = freed \cup {val[main.ent]}
          /\ UNCHANGED <<shape, exp, allocated, dict, now, todo, ub>>
        BY <1>4 DEF SetFree, Touch
    <2>r. PICK r : r = [main EXCEPT !.pc = "set_val"]
        OBVIOUS
    <2>t. th' = [th EXCEPT !["main"] = r]
        BY <1>4, <2>r, MainIs DEF SetFree, Touch, Become, Go, main, Running
    <2>p. "set_val" \in MainPcs
        BY DEF MainPcs, CheckPcs, SetPcs, ReadPcs, GrowPcs, FlushPcs
    <2>l. main \in Locals
        BY <1>1, MainIs
    <2>f. /\ r \in Locals /\ r.pc = "set_val" /\ r.op = main.op /\ r.key = main.key
           /\ r.ent = main.ent /\ r.next = main.next /\ r.obj = main.obj
           /\ r.tab = main.tab /\ r.d = main.d /\ r.n = main.n
        BY <2>r, <2>l, <2>p DEF Locals, Ops
    <2>m. InMain(r, allocated, size) /\ InCheck(r)
        BY <2>f, MainIs, <1>1
           DEF InMain, InCheck, MainPcs, CheckPcs, SetPcs, ReadPcs, GrowPcs, FlushPcs
    <2>s. Sane("main", r, allocated, size)
        BY <2>f, <2>m, MainIs, <1>1 DEF Sane
    <2>2. Heap'
        BY <1>2, <2>1 DEF TypeInv, Heap, shape
    <2>3. Fields' /\ Rest'
        BY <2>1 DEF TypeInv, Fields, Rest, dict, fields
    <2>4. Running'
        BY <1>1, <2>1, <2>t, <2>s, MainIs, Hop DEF dict, fields
    <2> QED
        BY <2>2, <2>3, <2>4 DEF TypeInv
<1> QED
    BY <1>3, <1>4

LEMMA SetValTyped ==
    ASSUME TypeInv, SetVal PROVE TypeInv'
<1>1. Running /\ main.pc = "set_val"
    BY DEF TypeInv, SetVal
<1>2. main.obj \in Objects \cap allocated
    BY <1>1, MainIs DEF Locals, InMain, SetPcs
<1>3. CASE {main.ent} \cap freed # {}
    BY <1>3, Undefined DEF SetVal, Touch
<1>4. CASE {main.ent} \cap freed = {}
    <2>1. /\ val' = [val EXCEPT ![main.ent] = main.obj]
          /\ UNCHANGED <<link, keyOf, exp, memory, dict, now, todo, ub>>
        BY <1>4 DEF SetVal, Touch
    <2>r. PICK r : r = [main EXCEPT !.pc = "set_ack"]
        OBVIOUS
    <2>t. th' = [th EXCEPT !["main"] = r]
        BY <1>4, <2>r, MainIs DEF SetVal, Touch, Become, Go, main, Running
    <2>p. "set_ack" \in MainPcs
        BY DEF MainPcs, CheckPcs, SetPcs, ReadPcs, GrowPcs, FlushPcs
    <2>l. main \in Locals
        BY <1>1, MainIs
    <2>f. /\ r \in Locals /\ r.pc = "set_ack" /\ r.op = main.op /\ r.key = main.key
           /\ r.ent = main.ent /\ r.next = main.next /\ r.obj = main.obj
           /\ r.tab = main.tab /\ r.d = main.d /\ r.n = main.n
        BY <2>r, <2>l, <2>p DEF Locals, Ops
    <2>m. InMain(r, allocated, size) /\ InCheck(r)
        BY <2>f, MainIs, <1>1
           DEF InMain, InCheck, MainPcs, CheckPcs, SetPcs, ReadPcs, GrowPcs, FlushPcs
    <2>s. Sane("main", r, allocated, size)
        BY <2>f, <2>m, MainIs, <1>1 DEF Sane
    <2>2. Heap'
        BY <1>2, <2>1 DEF TypeInv, Heap, memory
    <2>3. Fields' /\ Rest'
        BY <2>1 DEF TypeInv, Fields, Rest, dict, fields, memory
    <2>4. Running'
        BY <1>1, <2>1, <2>t, <2>s, MainIs, Hop DEF dict, fields, memory
    <2> QED
        BY <2>2, <2>3, <2>4 DEF TypeInv
<1> QED
    BY <1>3, <1>4

LEMMA SetNewTyped ==
    ASSUME TypeInv, SetNew PROVE TypeInv'
<1>1. Running /\ main.pc = "set_new"
    BY DEF TypeInv, SetNew
<1>2. /\ main.key \in Keys /\ main.obj \in Objects \cap allocated
      /\ Entries \ allocated # {}
    BY <1>1, MainIs DEF Locals, InMain, SetPcs
<1>e. PICK e : e = Fresh(Entries)
    OBVIOUS
<1>3. /\ e \in Entries \ allocated /\ e \in Places /\ e # Nil
      /\ allocated' = allocated \cup {e}
      /\ keyOf' = [keyOf EXCEPT ![e] = main.key]
      /\ val' = [val EXCEPT ![e] = main.obj]
      /\ link' = [link EXCEPT ![e] = link[Bucket(main.key)]]
      /\ UNCHANGED <<exp, freed, dict, now, todo, ub>>
    BY <1>2, <1>e, FreshIs, CellsAreDistinct DEF SetNew, Places, Cells
<1>4. Bucket(main.key) \in Places
    BY <1>2, BucketIsPlace DEF TypeInv
<1>r. PICK r : r = [main EXCEPT !.pc = "set_link", !.ent = e]
    OBVIOUS
<1>t. th' = [th EXCEPT !["main"] = r]
    BY <1>e, <1>r, MainIs DEF SetNew, Become, Go, main, Running
<1>p. "set_link" \in MainPcs
    BY DEF MainPcs, CheckPcs, SetPcs, ReadPcs, GrowPcs, FlushPcs
<1>l. main \in Locals
    BY <1>1, MainIs
<1>f. /\ r \in Locals /\ r.pc = "set_link" /\ r.op = main.op /\ r.key = main.key
       /\ r.ent = e /\ r.next = main.next /\ r.obj = main.obj /\ r.tab = main.tab
       /\ r.d = main.d /\ r.n = main.n
    BY <1>r, <1>l, <1>p, <1>3 DEF Locals, Ops
<1>m. InMain(r, allocated \cup {e}, size) /\ InCheck(r)
    BY <1>f, MainIs, <1>1, <1>3
       DEF InMain, InCheck, MainPcs, CheckPcs, SetPcs, ReadPcs, GrowPcs, FlushPcs
<1>s. Sane("main", r, allocated \cup {e}, size)
    BY <1>f, <1>m, MainIs, <1>1, <1>3 DEF Sane
<1>5. Heap'
    <2>1. /\ link[Bucket(main.key)] \in Entries \cup {Nil}
          /\ link[Bucket(main.key)] \in allocated \cup {Nil}
        BY <1>4 DEF TypeInv, Heap
    <2>2. /\ link' \in [Places -> Entries \cup {Nil}]
          /\ \A p \in Places : link'[p] \in allocated' \cup {Nil}
        BY <1>3, <2>1 DEF TypeInv, Heap
    <2>3. /\ keyOf' \in [Entries -> Keys \cup {Nil}]
          /\ val' \in [Entries -> Objects \cup {Nil}]
          /\ \A f \in Entries \cap allocated' :
                keyOf'[f] \in Keys /\ val'[f] \in Objects \cap allocated'
        BY <1>2, <1>3 DEF TypeInv, Heap
    <2> QED
        BY <1>3, <2>2, <2>3 DEF TypeInv, Heap, Cells
<1>6. Fields' /\ Rest'
    BY <1>3 DEF TypeInv, Fields, Rest, dict, fields
<1>7. Running'
    BY <1>1, <1>3, <1>t, <1>s, MainIs, Hop DEF dict, fields
<1> QED
    BY <1>5, <1>6, <1>7 DEF TypeInv

LEMMA SetLinkTyped ==
    ASSUME TypeInv, SetLink PROVE TypeInv'
<1>1. Running /\ main.pc = "set_link"
    BY DEF TypeInv, SetLink
<1>2. main.ent \in Entries \cap allocated
    BY <1>1, MainIs DEF Locals, InMain
<1>3. /\ link' = [link EXCEPT ![Bucket(main.key)] = main.ent]
      /\ UNCHANGED <<keyOf, val, exp, memory, dict, now, todo, ub>>
    BY DEF SetLink
<1>r. PICK r : r = [main EXCEPT !.pc = "set_load"]
    OBVIOUS
<1>t. th' = [th EXCEPT !["main"] = r]
    BY <1>r, MainIs DEF SetLink, Become, Go, main, Running
<1>p. "set_load" \in MainPcs
    BY DEF MainPcs, CheckPcs, SetPcs, ReadPcs, GrowPcs, FlushPcs
<1>l. main \in Locals
    BY <1>1, MainIs
<1>f. /\ r \in Locals /\ r.pc = "set_load" /\ r.op = main.op /\ r.key = main.key
       /\ r.ent = main.ent /\ r.next = main.next /\ r.obj = main.obj
       /\ r.tab = main.tab /\ r.d = main.d /\ r.n = main.n
    BY <1>r, <1>l, <1>p DEF Locals, Ops
<1>m. InMain(r, allocated, size) /\ InCheck(r)
    BY <1>f, MainIs, <1>1
       DEF InMain, InCheck, MainPcs, CheckPcs, SetPcs, ReadPcs, GrowPcs, FlushPcs
<1>s. Sane("main", r, allocated, size)
    BY <1>f, <1>m, MainIs, <1>1 DEF Sane
<1>4. Heap'
    BY <1>2, <1>3 DEF TypeInv, Heap, memory
<1>5. Fields' /\ Rest'
    BY <1>3 DEF TypeInv, Fields, Rest, dict, fields, memory
<1>6. Running'
    BY <1>1, <1>3, <1>t, <1>s, MainIs, Hop DEF dict, fields, memory
<1> QED
    BY <1>4, <1>5, <1>6 DEF TypeInv

LEMMA FlushBeginTyped ==
    ASSUME TypeInv, FlushBegin PROVE TypeInv'
<1>1. /\ Running /\ g_dict \in Dicts \cap allocated /\ buckets \in Tables
      /\ size \in 1 .. MaxSize
      /\ Dicts \ allocated # {} /\ Tables \ allocated # {}
    BY DEF TypeInv, Fields, FlushBegin
<1>one. PICK one : one = 1
    OBVIOUS
<1>2. one \in 1 .. size /\ one \in Int
    BY <1>1, <1>one, Sizes
<1>3. PICK e : e = link[<<buckets, 1>>]
    OBVIOUS
<1>4. e \in Entries \cup {Nil} /\ e \in allocated \cup {Nil}
    <2>1. <<buckets, 1>> \in Places
        BY <1>1, Sizes DEF Places
    <2> QED
        BY <1>3, <2>1 DEF TypeInv, Heap
<1>i. PICK i : i = Idle
    OBVIOUS
<1>r. PICK r : r = [i EXCEPT !.op = "flush", !.pc = "flush", !.n = one, !.d = g_dict,
                             !.ent = e]
    OBVIOUS
<1>t. th' = [th EXCEPT !["main"] = r]
    BY <1>one, <1>3, <1>r, <1>i DEF FlushBegin, Become, Go, main, Running
<1>p. "flush" \in MainPcs
    BY DEF MainPcs, CheckPcs, SetPcs, ReadPcs, GrowPcs, FlushPcs
<1>l. i \in Locals
    BY <1>1, IdleIs, <1>i
<1>f. /\ r \in Locals /\ r.pc = "flush" /\ r.op = "flush" /\ r.key = i.key
       /\ r.ent = e /\ r.next = i.next /\ r.obj = i.obj /\ r.tab = i.tab
       /\ r.d = g_dict /\ r.n = one
    BY <1>r, <1>l, <1>p, <1>1, <1>2, <1>4 DEF Locals, Ops
<1>m. InMain(r, allocated, size) /\ InCheck(r)
    BY <1>f, IdleIs, <1>i, <1>1, <1>2, <1>4
       DEF InMain, InCheck, MainPcs, CheckPcs, SetPcs, ReadPcs, GrowPcs, FlushPcs
<1>s. Sane("main", r, allocated, size)
    BY <1>f, <1>m, IdleIs, <1>i, <1>1, <1>2, <1>4 DEF Sane
<1>5. UNCHANGED <<heap, now, todo, ub>>
    BY DEF FlushBegin
<1> QED
    BY <1>1, <1>5, <1>t, <1>s, MainIs, LocalStep

LEMMA FlushEntryTyped ==
    ASSUME TypeInv, FlushEntry PROVE TypeInv'
<1>1. Running /\ main.pc = "flush" /\ main.ent # Nil
    BY DEF TypeInv, FlushEntry
<1>2. main.ent \in Entries \cap allocated /\ main.ent \in Places
    BY <1>1, MainIs DEF Locals, Places
<1>3. CASE {main.ent, val[main.ent]} \cap freed # {}
    BY <1>3, Undefined DEF FlushEntry, Touch
<1>4. CASE {main.ent, val[main.ent]} \cap freed = {}
    <2>1. /\ freed' = freed \cup {main.ent, val[main.ent]}
          /\ UNCHANGED <<shape, exp, allocated, dict, now, todo, ub>>
        BY <1>4 DEF FlushEntry, Touch
    <2>2. PICK f : f = link[main.ent]
        OBVIOUS
    <2>3. f \in Entries \cup {Nil} /\ f \in allocated \cup {Nil}
        BY <1>2, <2>2 DEF TypeInv, Heap
    <2>r. PICK r : r = [main EXCEPT !.ent = f]
        OBVIOUS
    <2>t. th' = [th EXCEPT !["main"] = r]
        BY <1>4, <2>2, <2>r, MainIs DEF FlushEntry, Touch, Become, Go, main, Running
    <2>l. main \in Locals
        BY <1>1, MainIs
    <2>f. /\ r \in Locals /\ r.pc = main.pc /\ r.op = main.op /\ r.key = main.key
           /\ r.ent = f /\ r.next = main.next /\ r.obj = main.obj /\ r.tab = main.tab
           /\ r.d = main.d /\ r.n = main.n
        BY <2>r, <2>l, <2>3 DEF Locals, Ops
    <2>m. InMain(r, allocated, size) /\ InCheck(r)
        BY <2>f, MainIs, <1>1, <2>3
           DEF InMain, InCheck, MainPcs, CheckPcs, SetPcs, ReadPcs, GrowPcs, FlushPcs
    <2>s. Sane("main", r, allocated, size)
        BY <2>f, <2>m, MainIs, <1>1, <2>3 DEF Sane
    <2>4. Heap'
        BY <1>2, <2>1 DEF TypeInv, Heap, shape
    <2>5. Fields' /\ Rest'
        BY <2>1 DEF TypeInv, Fields, Rest, dict, fields
    <2>6. Running'
        BY <1>1, <2>1, <2>t, <2>s, MainIs, Hop DEF dict, fields
    <2> QED
        BY <2>4, <2>5, <2>6 DEF TypeInv
<1> QED
    BY <1>3, <1>4

LEMMA FlushFreeTyped ==
    ASSUME TypeInv, FlushFree PROVE TypeInv'
<1>1. Running /\ main.pc = "flush_free"
    BY DEF TypeInv, FlushFree
<1>2. /\ freed' = freed \cup {buckets, g_dict}
      /\ UNCHANGED <<shape, exp, allocated, dict, now, todo, ub>>
    BY DEF FlushFree
<1>r. PICK r : r = [main EXCEPT !.pc = "flush_new"]
    OBVIOUS
<1>t. th' = [th EXCEPT !["main"] = r]
    BY <1>r, MainIs DEF FlushFree, Become, Go, main, Running
<1>p. "flush_new" \in MainPcs
    BY DEF MainPcs, CheckPcs, SetPcs, ReadPcs, GrowPcs, FlushPcs
<1>l. main \in Locals
    BY <1>1, MainIs
<1>f. /\ r \in Locals /\ r.pc = "flush_new" /\ r.op = main.op
       /\ r.key = main.key /\ r.ent = main.ent /\ r.next = main.next
       /\ r.obj = main.obj /\ r.tab = main.tab /\ r.d = main.d /\ r.n = main.n
    BY <1>r, <1>l, <1>p DEF Locals, Ops
<1>m. InMain(r, allocated, size) /\ InCheck(r)
    BY <1>f, MainIs, <1>1
       DEF InMain, InCheck, MainPcs, CheckPcs, SetPcs, ReadPcs, GrowPcs, FlushPcs
<1>s. Sane("main", r, allocated, size)
    BY <1>f, <1>m, MainIs, <1>1 DEF Sane
<1>3. Heap' /\ Fields' /\ Rest'
    BY <1>2 DEF TypeInv, Heap, Fields, Rest, shape, dict, fields
<1>4. Running'
    BY <1>1, <1>2, <1>t, <1>s, MainIs, Hop DEF dict, fields
<1> QED
    BY <1>3, <1>4 DEF TypeInv

LEMMA FlushNewTyped ==
    ASSUME TypeInv, FlushNew PROVE TypeInv'
<1>1. Running /\ main.pc = "flush_new"
    BY DEF TypeInv, FlushNew
<1>2. Dicts \ allocated # {} /\ Tables \ allocated # {}
    BY <1>1, MainIs DEF InMain, FlushPcs
<1>3. PICK d, tab : d = Fresh(Dicts) /\ tab = Fresh(Tables)
    OBVIOUS
<1>4. /\ d \in Dicts /\ tab \in Tables
      /\ g_dict' = d /\ buckets' = tab /\ size' = InitialSize /\ count' = 0
      /\ allocated' = allocated \cup {d, tab}
      /\ th' = [th EXCEPT !["main"] = Idle]
      /\ UNCHANGED <<shape, exp, freed, now, todo, ub>>
    BY <1>2, <1>3, FreshIs DEF FlushNew, Become
<1>5. Heap'
    BY <1>4, CellsAreDistinct DEF TypeInv, Heap, shape, Cells
<1>6. Fields' /\ Rest'
    BY <1>4, Sizes DEF TypeInv, Fields, Rest
<1>7. Running'
    BY <1>1, <1>4, MainIs, IdleIsSane, Hop
<1> QED
    BY <1>5, <1>6, <1>7 DEF TypeInv

LEMMA MainTyped ==
    ASSUME TypeInv, Main PROVE TypeInv'
<1>1. ASSUME NEW k \in Keys, GetBegin(k) \/ DelBegin(k) \/ SetBegin(k) \/ ExpireBegin(k)
      PROVE  TypeInv'
    BY <1>1, GetBeginTyped, DelBeginTyped, SetBeginTyped, ExpireBeginTyped
<1>2. CASE GetFind \/ GetRead \/ ExpireFind \/ \E d \in Delays : ExpireWrite(d)
    BY <1>2, GetFindTyped, GetReadTyped, ExpireFindTyped, ExpireWriteTyped
<1>3. CASE SetSize \/ GrowRead \/ GrowMove \/ GrowFree \/ GrowTable \/ GrowSize
    BY <1>3, SetSizeTyped, GrowReadTyped, GrowMoveTyped, GrowFreeTyped, GrowTableTyped,
       GrowSizeTyped
<1>4. CASE SetFind \/ SetFree \/ SetVal \/ SetNew \/ SetLink \/ SetAck
    BY <1>4, SetFindTyped, SetFreeTyped, SetValTyped, SetNewTyped, SetLinkTyped, SetAckTyped
<1>5. CASE FlushBegin \/ FlushEntry \/ FlushFree \/ FlushNew
    BY <1>5, FlushBeginTyped, FlushEntryTyped, FlushFreeTyped, FlushNewTyped
<1>6. CASE GrowBucket \/ FlushBucket
    BY <1>6, NextBucketTyped DEF GrowBucket, FlushBucket
<1>7. CASE CheckExpiry("main")
    BY <1>7, CheckExpiryTyped DEF Threads
<1> QED
    BY <1>1, <1>2, <1>3, <1>4, <1>5, <1>6, <1>7 DEF Main

-----------------------------------------------------------------------------
(* The sweep thread *)

LEMMA EndScanTyped ==
    ASSUME TypeInv, EndScan, UNCHANGED <<heap, now, todo, ub>> PROVE TypeInv'
BY NextIsSane, SweepIs, LocalStep DEF TypeInv, EndScan, Become

LEMMA SweepWakeTyped ==
    ASSUME TypeInv, SweepWake PROVE TypeInv'
<1>1. /\ Running /\ g_dict \in Dicts \cap allocated /\ buckets \in Tables
      /\ size \in 1 .. MaxSize
    BY DEF TypeInv, Fields
<1>2. CASE {g_dict, buckets} \cap freed # {}
    BY <1>2, Undefined DEF SweepWake, Touch
<1>3. CASE {g_dict, buckets} \cap freed = {}
    <2>one. PICK one : one = 1
        OBVIOUS
    <2>1. one \in Nat \ {0} /\ one \in Int
        BY <2>one
    <2>2. PICK e : e = link[<<buckets, 1>>]
        OBVIOUS
    <2>3. e \in Entries \cup {Nil} /\ e \in allocated \cup {Nil}
        <3>1. <<buckets, 1>> \in Places
            BY <1>1, Sizes DEF Places
        <3> QED
            BY <2>2, <3>1 DEF TypeInv, Heap
    <2>i. PICK i : i = Idle
        OBVIOUS
    <2>r. PICK r : r = [i EXCEPT !.pc = "scan", !.op = "sweep", !.n = one, !.d = g_dict,
                                 !.ent = e]
        OBVIOUS
    <2>t. th' = [th EXCEPT !["sweep"] = r]
        BY <1>3, <2>one, <2>2, <2>r, <2>i DEF SweepWake, Touch, Become, Go, sweep, Running
    <2>p. "scan" \in SweepPcs
        BY DEF SweepPcs, CheckPcs
    <2>l. i \in Locals
        BY <1>1, IdleIs, <2>i
    <2>f. /\ r \in Locals /\ r.pc = "scan" /\ r.op = "sweep" /\ r.key = i.key
           /\ r.ent = e /\ r.next = i.next /\ r.obj = i.obj /\ r.tab = i.tab
           /\ r.d = g_dict /\ r.n = one
        BY <2>r, <2>l, <2>p, <1>1, <2>1, <2>3 DEF Locals, Ops
    <2>m. InSweep(r) /\ InCheck(r)
        BY <2>f, IdleIs, <2>i, <1>1, <2>1, <2>3 DEF InSweep, InCheck, SweepPcs, CheckPcs
    <2>s. Sane("sweep", r, allocated, size)
        BY <2>f, <2>m, IdleIs, <2>i, <1>1, <2>1, <2>3 DEF Sane
    <2>4. UNCHANGED <<heap, now, todo, ub>>
        BY <1>3 DEF SweepWake, Touch
    <2> QED
        BY <1>1, <2>4, <2>t, <2>s, SweepIs, LocalStep
<1> QED
    BY <1>2, <1>3

LEMMA SweepBucketTyped ==
    ASSUME TypeInv, SweepBucket PROVE TypeInv'
<1>1. /\ Running /\ buckets \in Tables /\ size \in 1 .. MaxSize
      /\ sweep.pc = "scan"
    BY DEF TypeInv, Fields, SweepBucket
<1>2. CASE {sweep.d, buckets} \cap freed # {}
    BY <1>2, Undefined DEF SweepBucket, Touch
<1>3. CASE {sweep.d, buckets} \cap freed = {}
    <2>4. UNCHANGED <<heap, now, todo, ub>>
        BY <1>3 DEF SweepBucket, Touch
    <2>5. CASE sweep.n >= size
        BY <1>3, <2>4, <2>5, EndScanTyped DEF SweepBucket, Touch
    <2>6. CASE ~(sweep.n >= size)
        <3>n. PICK m : m = sweep.n + 1
            OBVIOUS
        <3>1. m \in Nat \ {0} /\ m \in Int /\ m \in 1 .. MaxSize
            BY <1>1, <2>6, <3>n, SweepIs, Sizes DEF InSweep
        <3>2. PICK e : e = link[<<buckets, m>>]
            OBVIOUS
        <3>3. e \in Entries \cup {Nil} /\ e \in allocated \cup {Nil}
            BY <1>1, <3>1, <3>2 DEF TypeInv, Heap, Places
        <3>r. PICK r : r = [sweep EXCEPT !.n = m, !.ent = e]
            OBVIOUS
        <3>t. th' = [th EXCEPT !["sweep"] = r]
            BY <1>3, <2>6, <3>n, <3>2, <3>r, SweepIs
               DEF SweepBucket, Touch, Locals, Become, Go, sweep, Running
        <3>l. sweep \in Locals
            BY <1>1, SweepIs
        <3>f. /\ r \in Locals /\ r.pc = sweep.pc /\ r.op = sweep.op /\ r.key = sweep.key
               /\ r.ent = e /\ r.next = sweep.next /\ r.obj = sweep.obj /\ r.tab = sweep.tab
               /\ r.d = sweep.d /\ r.n = m
            BY <3>r, <3>l, <3>1, <3>3 DEF Locals, Ops
        <3>m. InSweep(r) /\ InCheck(r)
            BY <3>f, SweepIs, <1>1, <3>1, <3>3 DEF InSweep, InCheck, SweepPcs, CheckPcs
        <3>s. Sane("sweep", r, allocated, size)
            BY <3>f, <3>m, SweepIs, <1>1, <3>1, <3>3 DEF Sane
        <3> QED
            BY <1>1, <2>4, <3>t, <3>s, SweepIs, LocalStep
    <2> QED
        BY <2>5, <2>6
<1> QED
    BY <1>2, <1>3

LEMMA SweepEntryTyped ==
    ASSUME TypeInv, SweepEntry PROVE TypeInv'
<1> DEFINE e == sweep.ent
<1>1. Running /\ sweep.pc = "scan" /\ e # Nil
    BY DEF TypeInv, SweepEntry
<1>2. e \in Entries \cap allocated /\ e \in Places
    BY <1>1, SweepIs DEF Locals, Places
<1>3. CASE {e, val[e]} \cap freed # {}
    BY <1>3, Undefined DEF SweepEntry, Touch
<1>4. CASE {e, val[e]} \cap freed = {}
    <2>4. UNCHANGED <<heap, now, ub>>
        BY <1>4 DEF SweepEntry, Touch
    <2>5. CASE Len(todo) >= SweepMax
        BY <1>4, <2>4, <2>5, EndScanTyped DEF SweepEntry, Touch
    <2>6. CASE ~(Len(todo) >= SweepMax)
        <3>1. todo' = todo \/ todo' = Append(todo, keyOf[e])
            BY <1>4, <2>6 DEF SweepEntry, Touch
        <3>2. keyOf[e] \in Keys
            BY <1>2 DEF TypeInv, Heap
        <3>3. todo' \in Seq(Keys) /\ Len(todo') <= SweepMax
            BY <2>6, <3>1, <3>2, SweepConstants DEF TypeInv, Rest
        <3>4. PICK f : f = link[e]
            OBVIOUS
        <3>5. f \in Entries \cup {Nil} /\ f \in allocated \cup {Nil}
            BY <1>2, <3>4 DEF TypeInv, Heap
        <3>r. PICK r : r = [sweep EXCEPT !.ent = f]
            OBVIOUS
        <3>t. th' = [th EXCEPT !["sweep"] = r]
            BY <1>4, <2>6, <3>4, <3>r, SweepIs
               DEF SweepEntry, Touch, Become, Go, sweep, Running
        <3>l. sweep \in Locals
            BY <1>1, SweepIs
        <3>f. /\ r \in Locals /\ r.pc = sweep.pc /\ r.op = sweep.op /\ r.key = sweep.key
               /\ r.ent = f /\ r.next = sweep.next /\ r.obj = sweep.obj /\ r.tab = sweep.tab
               /\ r.d = sweep.d /\ r.n = sweep.n
            BY <3>r, <3>l, <3>5 DEF Locals, Ops
        <3>m. InSweep(r) /\ InCheck(r)
            BY <3>f, SweepIs, <1>1, <3>5 DEF InSweep, InCheck, SweepPcs, CheckPcs
        <3>s. Sane("sweep", r, allocated, size)
            BY <3>f, <3>m, SweepIs, <1>1, <3>5 DEF Sane
        <3>6. Heap' /\ Fields' /\ Rest'
            BY <2>4, <3>3 DEF TypeInv, Heap, Fields, Rest, heap, shape, memory, dict, fields
        <3>7. Running'
            BY <1>1, <2>4, <3>t, <3>s, SweepIs, Hop DEF heap, memory, dict, fields
        <3> QED
            BY <3>6, <3>7 DEF TypeInv
    <2> QED
        BY <2>5, <2>6
<1> QED
    BY <1>3, <1>4

LEMMA SweepNextTyped ==
    ASSUME TypeInv, SweepNext PROVE TypeInv'
<1>1. /\ Running /\ sweep.pc = "next" /\ g_dict \in Dicts \cap allocated
      /\ UNCHANGED <<heap, now, ub>>
    BY DEF TypeInv, Fields, SweepNext
<1>2. CASE todo = << >>
    BY <1>1, <1>2, IdleIsSane, SweepIs, LocalStep DEF SweepNext, Become
<1>3. CASE todo # << >>
    <2>1. PICK k : k = Head(todo)
        OBVIOUS
    <2>2. k \in Keys /\ todo' \in Seq(Keys) /\ Len(todo') <= SweepMax
        BY <1>3, <2>1, SweepConstants DEF SweepNext, TypeInv, Rest
    <2>r. PICK r : r = [sweep EXCEPT !.pc = "chk_find", !.key = k, !.d = g_dict]
        OBVIOUS
    <2>t. th' = [th EXCEPT !["sweep"] = r]
        BY <1>3, <2>1, <2>r, SweepIs DEF SweepNext, Become, Go, sweep, Running
    <2>p. "chk_find" \in SweepPcs
        BY DEF SweepPcs, CheckPcs
    <2>l. sweep \in Locals
        BY <1>1, SweepIs
    <2>f. /\ r \in Locals /\ r.pc = "chk_find" /\ r.op = sweep.op /\ r.key = k
           /\ r.ent = sweep.ent /\ r.next = sweep.next /\ r.obj = sweep.obj
           /\ r.tab = sweep.tab /\ r.d = g_dict /\ r.n = sweep.n
        BY <2>r, <2>l, <2>p, <1>1, <2>2 DEF Locals, Ops
    <2>m. InSweep(r) /\ InCheck(r)
        BY <2>f, SweepIs, <1>1, <2>2 DEF InSweep, InCheck, SweepPcs, CheckPcs
    <2>s. Sane("sweep", r, allocated, size)
        BY <2>f, <2>m, SweepIs, <1>1, <2>2 DEF Sane
    <2>3. Heap' /\ Fields' /\ Rest'
        BY <1>1, <2>2 DEF TypeInv, Heap, Fields, Rest, heap, shape, memory, dict, fields
    <2>4. Running'
        BY <1>1, <2>t, <2>s, SweepIs, Hop DEF heap, memory, dict, fields
    <2> QED
        BY <2>3, <2>4 DEF TypeInv
<1> QED
    BY <1>2, <1>3

LEMMA SweepTyped ==
    ASSUME TypeInv, Sweep PROVE TypeInv'
BY SweepWakeTyped, SweepBucketTyped, SweepEntryTyped, SweepNextTyped, CheckExpiryTyped
   DEF Sweep, Threads

-----------------------------------------------------------------------------
(* The types *)

LEMMA InitTyped ==
    ASSUME Init PROVE TypeInv
<1>1. g_dict \in Dicts /\ buckets \in Tables
    BY CellsAreDistinct DEF Init
<1>2. Heap
    BY <1>1, CellsAreDistinct DEF Init, Heap, Cells
<1>3. Fields
    BY <1>1, Sizes DEF Init, Fields
<1>4. Rest
    <2>1. todo = << >> /\ ub = FALSE /\ now = 1
        BY DEF Init
    <2>2. << >> \in Seq(Keys) /\ Len(<< >>) = 0
        OBVIOUS
    <2>3. todo \in Seq(Keys) /\ Len(todo) <= SweepMax
        BY <2>1, <2>2, SweepConstants
    <2>4. ub \in BOOLEAN
        BY <2>1
    <2>5. now \in Int
        BY <2>1
    <2> QED
        BY <2>3, <2>4, <2>5 DEF Rest
<1>5. Running
    BY IdleIs, IdleIsSane DEF Init, Running
<1> QED
    BY <1>2, <1>3, <1>4, <1>5 DEF TypeInv

LEMMA StepTyped ==
    ASSUME TypeInv, [Next]_vars PROVE TypeInv'
<1>1. CASE Main
    BY <1>1, MainTyped
<1>2. CASE Sweep
    BY <1>2, SweepTyped
<1>3. CASE Tick
    BY <1>3, ClockBounds
       DEF Tick, TypeInv, Heap, Fields, Rest, Running, heap, shape, memory,
                             dict, fields
<1>4. CASE UNCHANGED vars
    BY <1>4
       DEF vars, TypeInv, Heap, Fields, Rest, Running, heap, shape, memory, dict, fields
<1> QED
    BY <1>1, <1>2, <1>3, <1>4 DEF Next

\* Whatever the two threads do to each other in CheckFind, DelUnlink, SetLink,
\* the growth or the flush, TypeInv holds: they pass on only pointers to cells
\* that were handed out.
THEOREM TypeInvariant == Spec => []TypeInv
BY InitTyped, StepTyped, PTL DEF Spec

\* The variables keep their types whatever the two threads do to each other, up
\* to the moment freed memory is touched.
THEOREM TypeCorrect == Spec => []TypeOK
<1>1. TypeInv => TypeOK
    BY DEF TypeInv, Heap, Fields, Rest, TypeOK
<1> QED
    BY <1>1, TypeInvariant, PTL

-----------------------------------------------------------------------------
(* Trees of entries *)

\* The buckets a to b of the table t.
Slots(t, a, b) == {<<t, i>> : i \in a .. b}

\* Through the pointers lk the entries H hang from the places P, with the entry c
\* in the hands of a loop: nothing leads out of H, no two places lead to one
\* entry, none to c, and every entry is met on some way from P or from c.
Tree(lk, H, P, c) ==
    /\ c \in H \cup {Nil}
    /\ \A p \in P \cup H : lk[p] = Nil \/ (lk[p] \in H /\ lk[p] # c)
    /\ \A p, q \in P \cup H : lk[p] = lk[q] /\ lk[p] # Nil => p = q
    /\ \A S \in SUBSET H :
          c \in S \cup {Nil} /\ (\A p \in P \cup S : lk[p] \in S \cup {Nil}) => H \subseteq S

\* The entries M are those in the n buckets of t, each in the bucket of its key.
Home(lk, ky, t, n, M) ==
    /\ \A i \in 1 .. n : LET e == lk[<<t, i>>]
                         IN  e # Nil => e \in M /\ BucketOf(ky[e], n) = i
    /\ \A d \in M : LET e == lk[d]
                    IN  e # Nil => e \in M /\ BucketOf(ky[e], n) = BucketOf(ky[d], n)

\* What Tree is used for: a set closed under the pointers holds all of H.
LEMMA Met ==
    ASSUME NEW lk, NEW H, NEW P, NEW c, Tree(lk, H, P, c),
           NEW S, S \subseteq H, c \in S \cup {Nil},
           \A p \in P \cup S : lk[p] \in S \cup {Nil}
    PROVE  H \subseteq S
BY DEF Tree

\* No entry points to itself.
LEMMA NoLoop ==
    ASSUME NEW lk, NEW H, NEW P, Tree(lk, H, P, Nil), Nil \notin H, P \cap H = {},
           NEW e \in H
    PROVE  lk[e] # e
<1> SUFFICES ASSUME lk[e] = e PROVE FALSE
    OBVIOUS
<1>1. PICK S : S = H \ {e}
    OBVIOUS
<1>2. \A p \in P \cup S : lk[p] \in S \cup {Nil}
    BY <1>1 DEF Tree
<1>3. H \subseteq S
    BY <1>1, <1>2, Met
<1> QED
    BY <1>1, <1>3

\* *prev = e->next.
LEMMA UnlinkTree ==
    ASSUME NEW lk, NEW H, NEW P, Tree(lk, H, P, Nil), Nil \notin H, P \cap H = {},
           P \cup H \subseteq DOMAIN lk,
           NEW p \in P \cup H, NEW e \in H, lk[p] = e
    PROVE  Tree([lk EXCEPT ![p] = lk[e]], H \ {e}, P, Nil)
<1>1. PICK l : l = [lk EXCEPT ![p] = lk[e]]
    OBVIOUS
<1>2. l[p] = lk[e] /\ \A q \in P \cup H : q # p => l[q] = lk[q]
    BY <1>1
<1>3. lk[e] # e
    BY NoLoop
<1>4. p # e
    BY <1>3
<1>5. \A q \in P \cup (H \ {e}) : l[q] = Nil \/ l[q] \in H \ {e}
    BY <1>2, <1>3 DEF Tree
<1>6. \A q, r \in P \cup (H \ {e}) : l[q] = l[r] /\ l[q] # Nil => q = r
    BY <1>2, <1>3 DEF Tree
<1>7. ASSUME NEW S \in SUBSET (H \ {e}), \A q \in P \cup S : l[q] \in S \cup {Nil}
      PROVE  H \ {e} \subseteq S
    <2>1. CASE p \in P \cup S
        <3>1. PICK T : T = S \cup {e}
            OBVIOUS
        <3>2. \A q \in P \cup T : lk[q] \in T \cup {Nil}
            BY <1>2, <1>4, <1>7, <2>1, <3>1
        <3>3. H \subseteq T
            BY <3>1, <3>2, Met
        <3> QED
            BY <3>1, <3>3
    <2>2. CASE p \notin P \cup S
        <3>1. \A q \in P \cup S : lk[q] \in S \cup {Nil}
            BY <1>2, <1>7, <2>2
        <3> QED
            BY <3>1, Met
    <2> QED
        BY <2>1, <2>2
<1> QED
    BY <1>1, <1>5, <1>6, <1>7 DEF Tree

\* The entry e, which has read the head of the bucket s, becomes its head.
LEMMA PushTree ==
    ASSUME NEW lk, NEW H, NEW P, Tree(lk, H, P, Nil), Nil \notin H, P \cap H = {},
           P \cup H \subseteq DOMAIN lk,
           NEW s \in P, NEW e, e \notin H \cup P \cup {Nil}, lk[e] = lk[s]
    PROVE  Tree([lk EXCEPT ![s] = e], H \cup {e}, P, Nil)
<1>1. PICK l : l = [lk EXCEPT ![s] = e]
    OBVIOUS
<1>2. l[s] = e /\ l[e] = lk[e] /\ \A q \in P \cup H : q # s => l[q] = lk[q]
    BY <1>1
<1>3. \A q \in P \cup (H \cup {e}) : l[q] = Nil \/ l[q] \in H \cup {e}
    BY <1>2 DEF Tree
<1>4. \A q, r \in P \cup (H \cup {e}) : l[q] = l[r] /\ l[q] # Nil => q = r
    BY <1>2 DEF Tree
<1>5. ASSUME NEW S \in SUBSET (H \cup {e}), \A q \in P \cup S : l[q] \in S \cup {Nil}
      PROVE  H \cup {e} \subseteq S
    <2>1. e \in S
        BY <1>2, <1>5
    <2>2. lk[s] \in (S \ {e}) \cup {Nil}
        BY <1>2, <1>5, <2>1 DEF Tree
    <2>3. PICK T : T = S \ {e}
        OBVIOUS
    <2>4. \A q \in P \cup T : lk[q] \in T \cup {Nil}
        BY <1>2, <1>5, <2>2, <2>3 DEF Tree
    <2>5. H \subseteq T
        BY <2>3, <2>4, Met
    <2> QED
        BY <2>1, <2>3, <2>5
<1> QED
    BY <1>1, <1>3, <1>4, <1>5 DEF Tree

\* A loop with nothing in hand takes the head of the bucket s and goes past it.
LEMMA AdvanceTree ==
    ASSUME NEW lk, NEW H, NEW P, Tree(lk, H, P, Nil), Nil \notin H, P \cap H = {},
           NEW s \in P
    PROVE  Tree(lk, H, P \ {s}, lk[s])
<1>1. \A S \in SUBSET H :
          lk[s] \in S \cup {Nil} /\ (\A p \in (P \ {s}) \cup S : lk[p] \in S \cup {Nil})
              => H \subseteq S
    BY DEF Tree
<1> QED
    BY <1>1 DEF Tree

\* The entry in hand is freed, the loop takes the next one.
LEMMA EatTree ==
    ASSUME NEW lk, NEW H, NEW P, NEW c, Tree(lk, H, P, c), Nil \notin H, P \cap H = {},
           c # Nil
    PROVE  Tree(lk, H \ {c}, P, lk[c])
<1>1. c \in H /\ \A p \in P \cup H : lk[p] # c
    BY DEF Tree
<1>2. ASSUME NEW S \in SUBSET (H \ {c}), lk[c] \in S \cup {Nil},
             \A p \in P \cup S : lk[p] \in S \cup {Nil}
      PROVE  H \ {c} \subseteq S
    <2>1. PICK T : T = S \cup {c}
        OBVIOUS
    <2>2. \A p \in P \cup T : lk[p] \in T \cup {Nil}
        BY <1>2, <2>1
    <2>3. H \subseteq T
        BY <1>1, <2>1, <2>2, Met
    <2> QED
        BY <2>1, <2>3
<1> QED
    BY <1>1, <1>2 DEF Tree

\* The entry in hand becomes the head of the bucket s, the loop takes the next one.
LEMMA MoveTree ==
    ASSUME NEW lk, NEW H, NEW P, NEW c, Tree(lk, H, P, c), Nil \notin H, P \cap H = {},
           P \cup H \subseteq DOMAIN lk, c # Nil, NEW s \in P
    PROVE  Tree([lk EXCEPT ![c] = lk[s], ![s] = c], H, P, lk[c])
<1>1. PICK l : l = [lk EXCEPT ![c] = lk[s], ![s] = c]
    OBVIOUS
<1>2. c \in H /\ s # c /\ \A p \in P \cup H : lk[p] # c
    BY DEF Tree
<1>3. l[s] = c /\ l[c] = lk[s] /\ \A q \in P \cup H : q # s /\ q # c => l[q] = lk[q]
    BY <1>1, <1>2
<1>4. \A q \in P \cup H : l[q] = Nil \/ (l[q] \in H /\ l[q] # lk[c])
    BY <1>2, <1>3 DEF Tree
<1>5. \A q, r \in P \cup H : l[q] = l[r] /\ l[q] # Nil => q = r
    BY <1>2, <1>3 DEF Tree
<1>6. ASSUME NEW S \in SUBSET H, lk[c] \in S \cup {Nil},
             \A q \in P \cup S : l[q] \in S \cup {Nil}
      PROVE  H \subseteq S
    <2>1. c \in S /\ lk[s] \in S \cup {Nil}
        BY <1>2, <1>3, <1>6
    <2>2. \A q \in P \cup S : lk[q] \in S \cup {Nil}
        BY <1>3, <1>6, <2>1
    <2> QED
        BY <2>1, <2>2 DEF Tree
<1>7. lk[c] \in H \cup {Nil}
    BY <1>2 DEF Tree
<1> QED
    BY <1>1, <1>4, <1>5, <1>6, <1>7 DEF Tree

\* Empty buckets more.
LEMMA WidenTree ==
    ASSUME NEW lk, NEW H, NEW P, NEW c, Tree(lk, H, P, c), Nil \notin H,
           NEW Q, \A p \in Q : lk[p] = Nil
    PROVE  Tree(lk, H, P \cup Q, c)
BY DEF Tree

\* Pointers that are changed elsewhere.
LEMMA SameTree ==
    ASSUME NEW lk, NEW H, NEW P, NEW c, Tree(lk, H, P, c),
           NEW l, \A p \in P \cup H : l[p] = lk[p]
    PROVE  Tree(l, H, P, c)
BY DEF Tree

\* Buckets are places and no entries.
LEMMA SlotsAre ==
    ASSUME NEW t \in Tables, NEW a \in Nat \ {0}, NEW b \in Nat, b <= MaxSize
    PROVE  /\ Slots(t, a, b) \subseteq Places
           /\ Slots(t, a, b) \cap Entries = {}
           /\ \A i \in a .. b : <<t, i>> \in Slots(t, a, b)
<1>1. \A i \in a .. b : i \in 1 .. MaxSize
    BY Sizes
<1>2. Slots(t, a, b) \subseteq Tables \X (1 .. MaxSize)
    BY <1>1 DEF Slots
<1> QED
    BY <1>2, CellsAreDistinct DEF Slots, Places

-----------------------------------------------------------------------------
(* Buckets *)

\* *prev = e->next keeps the others in the buckets of their keys.
LEMMA UnlinkHome ==
    ASSUME NEW lk, NEW ky, NEW t, NEW n, NEW H, Home(lk, ky, t, n, H),
           Tree(lk, H, Slots(t, 1, n), Nil), Nil \notin H, Slots(t, 1, n) \cap H = {},
           Slots(t, 1, n) \cup H \subseteq DOMAIN lk,
           NEW p \in Slots(t, 1, n) \cup H, NEW e \in H, lk[p] = e
    PROVE  Home([lk EXCEPT ![p] = lk[e]], ky, t, n, H \ {e})
<1>1. PICK l : l = [lk EXCEPT ![p] = lk[e]]
    OBVIOUS
<1>2. \A i \in 1 .. n : <<t, i>> \in Slots(t, 1, n)
    BY DEF Slots
<1>3. l[p] = lk[e] /\ \A q \in Slots(t, 1, n) \cup H : q # p => l[q] = lk[q]
    BY <1>1
<1>4. lk[e] # e
    BY NoLoop
<1>5. \A q \in Slots(t, 1, n) \cup H : q # p => lk[q] # e
    BY <1>4 DEF Tree
<1>6. ASSUME NEW i \in 1 .. n, l[<<t, i>>] # Nil
      PROVE  l[<<t, i>>] \in H \ {e} /\ BucketOf(ky[l[<<t, i>>]], n) = i
    <2>1. CASE <<t, i>> = p
        BY <1>3, <1>4, <1>6, <2>1 DEF Home
    <2>2. CASE <<t, i>> # p
        BY <1>2, <1>3, <1>5, <1>6, <2>2 DEF Home
    <2> QED
        BY <2>1, <2>2
<1>7. ASSUME NEW d \in H \ {e}, l[d] # Nil
      PROVE  l[d] \in H \ {e} /\ BucketOf(ky[l[d]], n) = BucketOf(ky[d], n)
    <2>1. CASE d = p
        BY <1>3, <1>4, <1>7, <2>1 DEF Home
    <2>2. CASE d # p
        BY <1>3, <1>5, <1>7, <2>2 DEF Home
    <2> QED
        BY <2>1, <2>2
<1> QED
    BY <1>1, <1>6, <1>7 DEF Home

\* An entry outside becomes the head of its own bucket.
LEMMA PushHome ==
    ASSUME NEW lk, NEW ky, NEW t, NEW n, NEW H, Home(lk, ky, t, n, H), Nil \notin H,
           Slots(t, 1, n) \cap H = {}, Slots(t, 1, n) \cup H \subseteq DOMAIN lk,
           NEW i \in 1 .. n, NEW e, e \notin H \cup Slots(t, 1, n) \cup {Nil},
           lk[e] = lk[<<t, i>>], BucketOf(ky[e], n) = i
    PROVE  Home([lk EXCEPT ![<<t, i>>] = e], ky, t, n, H \cup {e})
<1>1. PICK l : l = [lk EXCEPT ![<<t, i>>] = e]
    OBVIOUS
<1>2. \A j \in 1 .. n : <<t, j>> \in Slots(t, 1, n)
    BY DEF Slots
<1>3. /\ l[<<t, i>>] = e /\ l[e] = lk[e]
      /\ \A q \in Slots(t, 1, n) \cup H : q # <<t, i>> => l[q] = lk[q]
    BY <1>1, <1>2
<1>4. ASSUME NEW j \in 1 .. n, l[<<t, j>>] # Nil
      PROVE  l[<<t, j>>] \in H \cup {e} /\ BucketOf(ky[l[<<t, j>>]], n) = j
    <2>1. CASE j = i
        BY <1>3, <2>1
    <2>2. CASE j # i
        BY <1>2, <1>3, <1>4, <2>2 DEF Home
    <2> QED
        BY <2>1, <2>2
<1>5. ASSUME NEW d \in H \cup {e}, l[d] # Nil
      PROVE  l[d] \in H \cup {e} /\ BucketOf(ky[l[d]], n) = BucketOf(ky[d], n)
    <2>1. CASE d = e
        BY <1>3, <1>5, <2>1 DEF Home
    <2>2. CASE d # e
        BY <1>2, <1>3, <1>5, <2>2 DEF Home
    <2> QED
        BY <2>1, <2>2
<1> QED
    BY <1>1, <1>4, <1>5 DEF Home

\* Pointers and keys that are changed elsewhere.
LEMMA SameHome ==
    ASSUME NEW lk, NEW ky, NEW t, NEW n, NEW M, Home(lk, ky, t, n, M),
           NEW l, NEW y, \A i \in 1 .. n : l[<<t, i>>] = lk[<<t, i>>],
           \A e \in M : l[e] = lk[e] /\ y[e] = ky[e]
    PROVE  Home(l, y, t, n, M)
BY DEF Home

\* A walk passes linked entries only, and finds every linked entry by its key.
LEMMA WalkMeets ==
    ASSUME Heap, Fields, NEW H, H \subseteq Entries,
           Tree(link, H, Slots(buckets, 1, size), Nil),
           Home(link, keyOf, buckets, size, H),
           \A d, e \in H : keyOf[d] = keyOf[e] => d = e,
           NEW k \in Keys
    PROVE  /\ Visited(k) \subseteq H
           /\ Find(k) # Nil => /\ Find(k) \in H /\ keyOf[Find(k)] = k
                               /\ PrevOf(k) \in Slots(buckets, 1, size) \cup H
                               /\ link[PrevOf(k)] = Find(k)
           /\ \A e \in H : keyOf[e] = k => Find(k) = e
<1> DEFINE V == Visited(k)
           b == BucketOf(k, size)
<1>1. /\ b \in 1 .. size /\ Bucket(k) = <<buckets, b>>
      /\ \A i \in 1 .. size : <<buckets, i>> \in Slots(buckets, 1, size)
    BY BucketOfIs, Sizes DEF Fields, Bucket, Slots
<1>2. /\ Leads(Bucket(k), V)
      /\ \A e \in V : keyOf[e] = k \/ Leads(e, V)
    BY VisitedIsLeast
<1> HIDE DEF b
<1>3. V \subseteq H
    <2>1. Leads(Bucket(k), H) /\ \A e \in H : Leads(e, H)
        BY <1>1 DEF Tree, Leads
    <2> QED
        BY <2>1, VisitedIsLeast
<1>4. ASSUME NEW e \in H, keyOf[e] = k, e \notin V PROVE FALSE
    <2>1. PICK T : T = {x \in H : BucketOf(keyOf[x], size) # b \/ x \in V}
        OBVIOUS
    <2>2. ASSUME NEW p \in Slots(buckets, 1, size) PROVE link[p] \in T \cup {Nil}
        <3>1. PICK i \in 1 .. size : p = <<buckets, i>>
            BY DEF Slots
        <3>2. CASE i = b
            BY <1>1, <1>2, <1>3, <2>1, <3>1, <3>2 DEF Leads
        <3>3. CASE i # b
            BY <2>1, <3>1, <3>3 DEF Home
        <3> QED
            BY <3>2, <3>3
    <2>3. ASSUME NEW x \in T PROVE link[x] \in T \cup {Nil}
        <3>1. CASE x \in V
            <4>1. keyOf[x] # k
                BY <1>3, <1>4, <3>1
            <4> QED
                BY <1>2, <1>3, <2>1, <3>1, <4>1 DEF Leads
        <3>2. CASE x \notin V
            BY <2>1, <2>3, <3>2 DEF Home
        <3> QED
            BY <3>1, <3>2
    <2>4. H \subseteq T
        BY <2>1, <2>2, <2>3, Met
    <2>5. BucketOf(keyOf[e], size) = b
        BY <1>4 DEF b
    <2> QED
        BY <1>4, <2>1, <2>4, <2>5
<1>5. Find(k) # Nil => Find(k) \in V /\ keyOf[Find(k)] = k
    BY FindIs
<1>6. Find(k) # Nil => PrevOf(k) \in {Bucket(k)} \cup V /\ link[PrevOf(k)] = Find(k)
    BY FindIs
<1>7. ASSUME NEW e \in H, keyOf[e] = k PROVE Find(k) = e
    <2>1. e \in V
        BY <1>4, <1>7
    <2>2. Find(k) # Nil
        BY <2>1, <1>7, FindIs
    <2> QED
        BY <1>3, <1>5, <1>7, <2>2
<1> QED
    BY <1>1, <1>3, <1>5, <1>6, <1>7

-----------------------------------------------------------------------------
(* The invariant of the main thread alone *)

\* The entries in use; the one a command holds that is not in the table, or no
\* longer; those that are in a table.
Live    == (Entries \cap allocated) \ freed
Aside   == IF main.pc \in {"set_link", "del_free"} THEN {main.ent} ELSE {}
Hanging == Live \ Aside

\* Where no table grows or goes.
SteadyPcs == MainPcs \ (GrowPcs \cup FlushPcs)

\* The table is sound.
InBuckets(t, n) == /\ Tree(link, Hanging, Slots(t, 1, n), Nil)
                   /\ Home(link, keyOf, t, n, Hanging)

\* While the table grows the entries M are in the new one, the others are not
\* yet, and nothing of the old table leads into the new one.
Parted(M) == /\ Home(link, keyOf, main.tab, 2 * size, M)
             /\ main.ent \notin M
             /\ \A p \in Slots(buckets, main.n + 1, size) \cup (Hanging \ M) : link[p] \notin M

\* Where the entries hang, at each program counter.
Buckets ==
    /\ main.pc \in SteadyPcs => InBuckets(buckets, size)
    /\ main.pc \in {"grow", "grow_move"} =>
          /\ Tree(link, Hanging,
                  Slots(main.tab, 1, 2 * size) \cup Slots(buckets, main.n + 1, size), main.ent)
          /\ \E M \in SUBSET Hanging : Parted(M)
    /\ main.pc \in {"grow_free", "grow_table"} => InBuckets(main.tab, 2 * size)
    /\ main.pc = "grow_size" => InBuckets(buckets, 2 * size)
    /\ main.pc = "flush" =>
          Tree(link, Hanging, Slots(buckets, main.n + 1, size), main.ent)
    /\ main.pc \in {"flush_free", "flush_new"} => Hanging = {}

\* One entry per key, one object per entry, fresh tables empty; who may hold a
\* pointer to what was freed, and where.
Owned ==
    /\ \A d, e \in Live : keyOf[d] = keyOf[e] => d = e
    /\ \A d, e \in Live : val[d] = val[e] => d = e
    /\ \A e \in Live : val[e] \in freed => main.pc = "set_val" /\ e = main.ent
    /\ \A t \in Tables \ allocated : \A i \in 1 .. MaxSize : link[<<t, i>>] = Nil
    /\ g_dict \in freed => main.pc = "flush_new"
    /\ buckets \in freed => main.pc \in {"grow_table", "flush_new"}

\* What main has in hand is what it takes it for.
Hold ==
    /\ main.pc # "idle" => main.d = g_dict
    /\ main.pc \in {"chk_exp", "get_read", "exp_write"} => main.obj \notin freed
    /\ main.pc = "del_unlink" => /\ main.ent \in Hanging
                                 /\ main.prev \in Slots(buckets, 1, size) \cup Hanging
                                 /\ link[main.prev] = main.ent
    /\ main.pc \in {"del_free", "set_link"} => main.ent \in Live
    /\ main.pc \in {"grow", "grow_move", "grow_free", "grow_table"} =>
          main.tab # buckets /\ main.tab \notin freed
    /\ main.pc = "grow_move" => main.next = link[main.ent]
    /\ main.pc \in {"set_size", "set_find", "set_free", "set_val", "set_new"} \cup GrowPcs =>
          main.obj \notin freed /\ \A e \in Live : val[e] # main.obj
    /\ main.pc = "set_new" => \A e \in Live : keyOf[e] # main.key
    /\ main.pc \in {"set_free", "set_val"} => main.ent \in Hanging
    /\ main.pc = "set_link" => /\ keyOf[main.ent] = main.key
                               /\ link[main.ent] = link[Bucket(main.key)]

\* Where d->count lags behind.
UnderWay == {"del_free", "del_load", "del_store", "set_load", "set_store"} \cup FlushPcs

\* d->count, apart from the step it lags behind.
Counted ==
    /\ IsFiniteSet(allocated)
    /\ main.pc \in {"del_free", "del_load", "del_store"} => count = Cardinality(Hanging) + 1
    /\ main.pc \in {"set_load", "set_store"} => count = Cardinality(Hanging) - 1
    /\ main.pc \notin UnderWay => count = Cardinality(Hanging)
    /\ main.pc \in {"del_store", "set_store"} => main.n = count

\* Every answered SET has its entry, and its object no deadline.
Answered ==
    /\ acked \in [Keys -> Objects \cup {Nil}]
    /\ \A k \in Keys : acked[k] # Nil =>
          \E e \in Live : keyOf[e] = k /\ val[e] = acked[k] /\ exp[acked[k]] = 0
    /\ \A o \in Objects \ allocated : exp[o] = 0

DelPcs == {"del_find", "del_unlink", "del_free", "del_load", "del_store"}

\* Whose entry and object a command has in hand.
Answering ==
    /\ main.pc \in DelPcs \cup SetPcs \cup {"exp_find", "exp_write"} =>
          acked[main.key] = Nil
    /\ main.pc \in FlushPcs => acked = [k \in Keys |-> Nil]
    /\ main.pc = "chk_exp" => acked[main.key] \in {Nil, main.obj}
    /\ main.pc = "exp_write" => \A k \in Keys : acked[k] # main.obj
    /\ main.pc \in {"del_unlink", "del_free", "set_free", "set_val"} =>
          keyOf[main.ent] = main.key
    /\ main.pc \in SetPcs => exp[main.obj] = 0
    /\ main.pc \in {"set_link", "set_load", "set_store", "set_ack"} =>
          \E e \in Live : keyOf[e] = main.key /\ val[e] = main.obj

\* The inductive invariant of the main thread alone.
Solo == /\ sweep.pc = "idle" /\ ~ub
        /\ Buckets /\ Owned /\ Hold /\ Counted /\ Answered /\ Answering

-----------------------------------------------------------------------------
(* Steps that leave the memory alone *)

\* Where every live entry hangs and d->count is exact.
QuietPcs == SteadyPcs \ {"set_link", "del_free", "del_load", "del_store",
                         "set_load", "set_store", "set_val"}

structure == <<link, keyOf, val, allocated, freed, g_dict, buckets, size, count>>

\* The program counters, spelled out.
LEMMA PcsAre ==
    /\ QuietPcs = {"idle", "chk_find", "chk_exp", "del_find", "del_unlink", "chk_done",
                   "get_find", "get_read", "exp_find", "exp_write", "set_size", "set_find",
                   "set_free", "set_new", "set_ack"}
    /\ SteadyPcs = QuietPcs \cup {"set_link", "del_free", "del_load", "del_store",
                                  "set_load", "set_store", "set_val"}
BY DEF QuietPcs, SteadyPcs, MainPcs, CheckPcs, SetPcs, ReadPcs, GrowPcs, FlushPcs

\* A step that changes no memory leaves what is said of the memory true.
LEMMA Quiet ==
    ASSUME Solo, UNCHANGED structure, sweep'.pc = "idle", ub' = FALSE,
           main.pc \in QuietPcs, main'.pc \in QuietPcs, Hold', Answered', Answering'
    PROVE  Solo'
<1> USE DEF structure
<1>1. Live' = Live /\ Aside = {} /\ Aside' = {} /\ Hanging' = Hanging
    BY DEF Live, Aside, Hanging, QuietPcs
<1>2. main.pc \in SteadyPcs /\ main'.pc \in SteadyPcs
    BY DEF QuietPcs
<1>3. main.pc \notin GrowPcs \cup FlushPcs /\ main'.pc \notin GrowPcs \cup FlushPcs
    BY <1>2 DEF SteadyPcs
<1>4. Buckets'
    <2>1. InBuckets(buckets, size)'
        BY <1>1, <1>2 DEF Solo, Buckets, InBuckets
    <2> QED
        BY <1>3, <2>1 DEF Buckets, GrowPcs, FlushPcs
<1>5. Owned'
    <2>1. main.pc \notin {"set_val", "flush_new", "grow_table"}
        BY <1>3 DEF QuietPcs, GrowPcs, FlushPcs
    <2> QED
        BY <1>1, <2>1 DEF Solo, Owned
<1>6. Counted'
    <2>1. main.pc \notin UnderWay /\ main'.pc \notin UnderWay
        BY <1>3 DEF QuietPcs, UnderWay
    <2> QED
        BY <1>1, <2>1 DEF Solo, Counted, UnderWay
<1> QED
    BY <1>4, <1>5, <1>6 DEF Solo

\* No object that was answered for loses its entry.
LEMMA StaysAnswered ==
    ASSUME Answered, UNCHANGED exp, allocated \subseteq allocated',
           acked' \in [Keys -> Objects \cup {Nil}],
           \A k \in Keys : acked'[k] \in {acked[k], Nil},
           \A e \in Live : acked'[keyOf[e]] = val[e] =>
               e \in Live' /\ keyOf'[e] = keyOf[e] /\ val'[e] = val[e]
    PROVE  Answered'
<1>1. ASSUME NEW k \in Keys, acked'[k] # Nil
      PROVE  \E e \in Live' : keyOf'[e] = k /\ val'[e] = acked'[k] /\ exp'[acked'[k]] = 0
    <2>1. acked'[k] = acked[k]
        BY <1>1
    <2>2. PICK e \in Live : keyOf[e] = k /\ val[e] = acked[k] /\ exp[acked[k]] = 0
        BY <1>1, <2>1 DEF Answered
    <2>3. e \in Live' /\ keyOf'[e] = keyOf[e] /\ val'[e] = val[e]
        BY <2>1, <2>2
    <2> QED
        BY <2>1, <2>2, <2>3
<1>2. \A o \in Objects \ allocated' : exp'[o] = 0
    BY DEF Answered
<1> QED
    BY <1>1, <1>2 DEF Answered

\* ... so none does where no entry, object or answer changes.
LEMMA StillAnswered ==
    ASSUME Answered, UNCHANGED <<keyOf, val, exp, allocated, freed, acked>>
    PROVE  Answered'
BY DEF Answered, Live

\* What a step of main leaves of the sweep thread, and the locals it goes on with.
LEMMA MainGoesOn ==
    ASSUME Running, NEW r, th' = [th EXCEPT !["main"] = r]
    PROVE  main' = r /\ sweep' = sweep
BY DEF Running, Threads, main, sweep

\* Where the table stands still a walk for the key finds its entry, and
\* nothing on its way was freed.
LEMMA WalkIsSafe ==
    ASSUME TypeInv, Solo, main.pc \in QuietPcs \ {"idle"}, main.key \in Keys
    PROVE  /\ Walk("main") \cap freed = {}
           /\ Find(main.key) # Nil =>
                 /\ Find(main.key) \in Live /\ keyOf[Find(main.key)] = main.key
                 /\ PrevOf(main.key) \in Slots(buckets, 1, size) \cup Hanging
                 /\ link[PrevOf(main.key)] = Find(main.key)
                 /\ val[Find(main.key)] \notin freed
           /\ Find(main.key) = Nil => \A e \in Live : keyOf[e] # main.key
           /\ Hanging = Live
<1>1. Aside = {} /\ Hanging = Live /\ Live \subseteq Entries
    BY DEF Aside, Hanging, Live, QuietPcs
<1>2. main.pc \in SteadyPcs /\ main.pc \notin GrowPcs \cup FlushPcs /\ main.pc # "set_val"
    BY DEF QuietPcs, SteadyPcs
<1>3. InBuckets(buckets, size)
    BY <1>2 DEF Solo, Buckets
<1>4. /\ Visited(main.key) \subseteq Hanging
      /\ Find(main.key) # Nil =>
            /\ Find(main.key) \in Hanging /\ keyOf[Find(main.key)] = main.key
            /\ PrevOf(main.key) \in Slots(buckets, 1, size) \cup Hanging
            /\ link[PrevOf(main.key)] = Find(main.key)
      /\ \A e \in Hanging : keyOf[e] = main.key => Find(main.key) = e
    BY <1>1, <1>3, WalkMeets DEF TypeInv, Solo, Owned, InBuckets
<1>5. main.d = g_dict /\ g_dict \notin freed /\ buckets \notin freed
    BY <1>2 DEF Solo, Hold, Owned, GrowPcs, FlushPcs
<1>6. Walk("main") = {main.d, buckets} \cup Visited(main.key)
    BY DEF Walk, main
<1>7. Nil \notin Live
    BY CellsAreDistinct DEF Live, Cells
<1>8. \A e \in Live : val[e] \notin freed
    BY <1>2 DEF Solo, Owned
<1> QED
    BY <1>1, <1>4, <1>5, <1>6, <1>7, <1>8 DEF Live

\* What the types and Solo say of live and hanging entries.
LEMMA Solid ==
    ASSUME TypeInv, Solo
    PROVE  /\ Live \subseteq Entries /\ Live \subseteq allocated /\ Live \cap freed = {}
           /\ Hanging \subseteq Live /\ Nil \notin Entries
           /\ Entries \subseteq Places /\ DOMAIN link = Places
           /\ Slots(buckets, 1, size) \subseteq Places
           /\ Slots(buckets, 1, size) \cap Entries = {}
           /\ IsFiniteSet(Hanging)
           /\ \A p \in Slots(buckets, 1, size) : Cell(p) = buckets
           /\ \A e \in Entries : Cell(e) = e
           /\ \A e \in Live : val[e] \in Objects /\ val[e] \in allocated /\ keyOf[e] \in Keys
<1>1. /\ Live \subseteq Entries /\ Live \subseteq allocated /\ Live \cap freed = {}
      /\ Hanging \subseteq Live
    BY DEF Live, Hanging
<1>2. Nil \notin Entries
    BY CellsAreDistinct DEF Cells
<1>3. Entries \subseteq Places /\ DOMAIN link = Places
    BY DEF Places, TypeInv, Heap
<1>4. Slots(buckets, 1, size) \subseteq Places /\ Slots(buckets, 1, size) \cap Entries = {}
    BY SlotsAre, Sizes DEF TypeInv, Fields
<1>5. IsFiniteSet(Hanging)
    BY <1>1, FS_Subset DEF Solo, Counted
<1>6. \A p \in Slots(buckets, 1, size) : Cell(p) = buckets
    BY <1>4 DEF Cell, Slots
<1>7. \A e \in Entries : Cell(e) = e
    BY DEF Cell
<1>8. \A e \in Live : val[e] \in Objects /\ val[e] \in allocated /\ keyOf[e] \in Keys
    BY <1>1 DEF TypeInv, Heap
<1> QED
    BY <1>1, <1>2, <1>3, <1>4, <1>5, <1>6, <1>7, <1>8

-----------------------------------------------------------------------------
(* The steps that only look *)

LEMMA GetBeginAlone ==
    ASSUME TypeInv, Solo, NEW k \in Keys, GetBegin(k) PROVE Solo'
<1>1. main = Idle /\ main.pc = "idle" /\ UNCHANGED structure /\ ub' = FALSE
    BY IdleIs DEF GetBegin, Begin, main, Solo, structure, heap, shape, memory, dict, fields
<1>i. PICK i : i = Idle
    OBVIOUS
<1>r. PICK r : r = [i EXCEPT !.op = "get", !.pc = "chk_find", !.key = k, !.obj = Nil,
                             !.d = g_dict]
    OBVIOUS
<1>t. th' = [th EXCEPT !["main"] = r]
    BY <1>r, <1>i DEF GetBegin, Begin, Become, Go, Ahead, main, Running
<1>b. main' = r /\ sweep' = sweep
    BY <1>t, MainGoesOn DEF TypeInv
<1>l. i \in Locals
    BY IdleIs, <1>i DEF TypeInv
<1>f. /\ r.pc = "chk_find" /\ r.key = k /\ r.ent = i.ent /\ r.prev = i.prev
       /\ r.next = i.next /\ r.obj = Nil /\ r.tab = i.tab /\ r.d = g_dict
       /\ r.n = i.n
    BY <1>r, <1>l, IdleIs, <1>i DEF Locals
<1>2. main.pc \in QuietPcs /\ main'.pc \in QuietPcs
    BY <1>1, <1>b, <1>f, PcsAre DEF GrowPcs, FlushPcs
<1>3. Hold'
    BY <1>1, <1>b, <1>f DEF Hold, structure, GrowPcs
<1>e. UNCHANGED <<exp, acked>> /\ UNCHANGED <<keyOf, val, allocated, freed>>
    BY <1>1 DEF GetBegin, heap, shape, memory, dict, fields, ghost, structure
<1>ans. Answered'
    BY <1>e, StillAnswered DEF Solo
<1>ing. Answering'
    BY <1>b, <1>f DEF Solo, Answering, DelPcs, SetPcs, GrowPcs, FlushPcs
<1> QED
    BY <1>1, <1>2, <1>3, <1>b, <1>ans, <1>ing, Quiet DEF Solo

LEMMA DelBeginAlone ==
    ASSUME TypeInv, Solo, NEW k \in Keys, DelBegin(k) PROVE Solo'
<1>1. main = Idle /\ main.pc = "idle" /\ UNCHANGED structure /\ ub' = FALSE
    BY IdleIs DEF DelBegin, Begin, main, Solo, structure, heap, shape, memory, dict, fields
<1>i. PICK i : i = Idle
    OBVIOUS
<1>r. PICK r : r = [i EXCEPT !.op = "del", !.pc = "del_find", !.key = k, !.obj = Nil,
                             !.d = g_dict]
    OBVIOUS
<1>t. th' = [th EXCEPT !["main"] = r]
    BY <1>r, <1>i DEF DelBegin, Begin, Become, Go, Ahead, main, Running
<1>b. main' = r /\ sweep' = sweep
    BY <1>t, MainGoesOn DEF TypeInv
<1>l. i \in Locals
    BY IdleIs, <1>i DEF TypeInv
<1>f. /\ r.pc = "del_find" /\ r.key = k /\ r.ent = i.ent /\ r.prev = i.prev
       /\ r.next = i.next /\ r.obj = Nil /\ r.tab = i.tab /\ r.d = g_dict
       /\ r.n = i.n
    BY <1>r, <1>l, IdleIs, <1>i DEF Locals
<1>2. main.pc \in QuietPcs /\ main'.pc \in QuietPcs
    BY <1>1, <1>b, <1>f, PcsAre DEF GrowPcs, FlushPcs
<1>3. Hold'
    BY <1>1, <1>b, <1>f DEF Hold, structure, GrowPcs
<1>e. /\ acked' = [acked EXCEPT ![k] = Nil]
      /\ UNCHANGED <<keyOf, val, exp, allocated, freed>>
       /\ acked' \in [Keys -> Objects \cup {Nil}] /\ acked'[k] = Nil
    BY <1>1
       DEF DelBegin, heap, shape, memory, dict, fields, ghost, structure, Solo, Answered
<1>ans. Answered'
    BY <1>e, StaysAnswered DEF Solo, Answered, Live
<1>ing. Answering'
    BY <1>b, <1>f, <1>e DEF Solo, Answering, DelPcs, SetPcs, GrowPcs, FlushPcs
<1> QED
    BY <1>1, <1>2, <1>3, <1>b, <1>ans, <1>ing, Quiet DEF Solo

LEMMA ExpireBeginAlone ==
    ASSUME TypeInv, Solo, NEW k \in Keys, ExpireBegin(k) PROVE Solo'
<1>1. main = Idle /\ main.pc = "idle" /\ UNCHANGED structure /\ ub' = FALSE
    BY IdleIs
       DEF ExpireBegin, Begin, main, Solo, structure, heap, shape, memory, dict, fields
<1>i. PICK i : i = Idle
    OBVIOUS
<1>r. PICK r : r = [i EXCEPT !.op = "expire", !.pc = "exp_find", !.key = k, !.obj = Nil,
                             !.d = g_dict]
    OBVIOUS
<1>t. th' = [th EXCEPT !["main"] = r]
    BY <1>r, <1>i DEF ExpireBegin, Begin, Become, Go, Ahead, main, Running
<1>b. main' = r /\ sweep' = sweep
    BY <1>t, MainGoesOn DEF TypeInv
<1>l. i \in Locals
    BY IdleIs, <1>i DEF TypeInv
<1>f. /\ r.pc = "exp_find" /\ r.key = k /\ r.ent = i.ent /\ r.prev = i.prev
       /\ r.next = i.next /\ r.obj = Nil /\ r.tab = i.tab /\ r.d = g_dict
       /\ r.n = i.n
    BY <1>r, <1>l, IdleIs, <1>i DEF Locals
<1>2. main.pc \in QuietPcs /\ main'.pc \in QuietPcs
    BY <1>1, <1>b, <1>f, PcsAre DEF GrowPcs, FlushPcs
<1>3. Hold'
    BY <1>1, <1>b, <1>f DEF Hold, structure, GrowPcs
<1>e. /\ acked' = [acked EXCEPT ![k] = Nil]
      /\ UNCHANGED <<keyOf, val, exp, allocated, freed>>
       /\ acked' \in [Keys -> Objects \cup {Nil}] /\ acked'[k] = Nil
    BY <1>1
       DEF ExpireBegin, heap, shape, memory, dict, fields, ghost, structure, Solo, Answered
<1>ans. Answered'
    BY <1>e, StaysAnswered DEF Solo, Answered, Live
<1>ing. Answering'
    BY <1>b, <1>f, <1>e DEF Solo, Answering, DelPcs, SetPcs, GrowPcs, FlushPcs
<1> QED
    BY <1>1, <1>2, <1>3, <1>b, <1>ans, <1>ing, Quiet DEF Solo

LEMMA CheckFindAlone ==
    ASSUME TypeInv, Solo, CheckFind("main") PROVE Solo'
<1>1. main.pc = "chk_find"
    BY DEF CheckFind, main
<1>2. main.pc \in QuietPcs
    BY <1>1, PcsAre DEF GrowPcs, FlushPcs
<1>k. main.key \in Keys
    BY <1>1, MainIs DEF TypeInv, InMain, InCheck, CheckPcs, SetPcs, ReadPcs
<1>3. /\ Walk("main") \cap freed = {}
      /\ Find(main.key) # Nil =>
            /\ Find(main.key) \in Live /\ keyOf[Find(main.key)] = main.key
            /\ PrevOf(main.key) \in Slots(buckets, 1, size) \cup Hanging
            /\ link[PrevOf(main.key)] = Find(main.key)
            /\ val[Find(main.key)] \notin freed
      /\ Find(main.key) = Nil => \A e \in Live : keyOf[e] # main.key
      /\ Hanging = Live
    BY <1>1, <1>2, <1>k, WalkIsSafe
<1>4. UNCHANGED structure /\ ub' = FALSE
    BY <1>3 DEF CheckFind, Touch, main, Solo, structure, heap, shape, memory, dict, fields
<1>5. CASE Find(main.key) = Nil
    <2>r. PICK r : r = [main EXCEPT !.pc = "chk_done"]
        OBVIOUS
    <2>t. th' = [th EXCEPT !["main"] = r]
        BY <1>1, <1>3, <1>5, <2>r, MainIs
           DEF CheckFind, Touch, Become, Go, Ahead, main, Running
    <2>b. main' = r /\ sweep' = sweep
        BY <2>t, MainGoesOn DEF TypeInv
    <2>l. main \in Locals
        BY MainIs DEF TypeInv
    <2>f. /\ r.pc = "chk_done" /\ r.key = main.key /\ r.ent = main.ent
           /\ r.prev = main.prev /\ r.next = main.next /\ r.obj = main.obj
           /\ r.tab = main.tab /\ r.d = main.d /\ r.n = main.n
        BY <2>r, <2>l DEF Locals
    <2>q. main'.pc \in QuietPcs
        BY <2>b, <2>f, PcsAre DEF GrowPcs, FlushPcs
    <2>h. Hold'
        BY <1>1, <1>2, <1>4, <2>b, <2>f, <1>5 DEF Hold, Solo, structure, GrowPcs, Live
    <2>e. UNCHANGED <<exp, acked>> /\ UNCHANGED <<keyOf, val, allocated, freed>>
        BY <1>3, <1>4
           DEF CheckFind, Touch, main, heap, shape, memory, dict, fields, ghost, structure
    <2>ans. Answered'
        BY <2>e, StillAnswered DEF Solo
    <2>ing. Answering'
        BY <1>1, <2>b, <2>f, <2>e, <1>5
           DEF Solo, Answering, DelPcs, SetPcs, GrowPcs, FlushPcs, structure, Live
    <2> QED
        BY <1>2, <1>4, <2>b, <2>q, <2>h, <2>ans, <2>ing, Quiet DEF Solo
<1>6. CASE Find(main.key) # Nil
    <2>r. PICK r : r = [main EXCEPT !.pc = "chk_exp", !.obj = val[Find(main.key)]]
        OBVIOUS
    <2>t. th' = [th EXCEPT !["main"] = r]
        BY <1>1, <1>3, <1>6, <2>r, MainIs
           DEF CheckFind, Touch, Become, Go, Ahead, main, Running
    <2>b. main' = r /\ sweep' = sweep
        BY <2>t, MainGoesOn DEF TypeInv
    <2>l. main \in Locals
        BY MainIs DEF TypeInv
    <2>f. /\ r.pc = "chk_exp" /\ r.key = main.key /\ r.ent = main.ent
           /\ r.prev = main.prev /\ r.next = main.next /\ r.obj = val[Find(main.key)]
           /\ r.tab = main.tab /\ r.d = main.d /\ r.n = main.n
        BY <2>r, <2>l DEF Locals
    <2>q. main'.pc \in QuietPcs
        BY <2>b, <2>f, PcsAre DEF GrowPcs, FlushPcs
    <2>h. Hold'
        BY <1>1, <1>2, <1>4, <2>b, <2>f, <1>3, <1>6 DEF Hold, Solo, structure, GrowPcs, Live
    <2>e. UNCHANGED <<exp, acked>> /\ UNCHANGED <<keyOf, val, allocated, freed>>
        BY <1>3, <1>4
           DEF CheckFind, Touch, main, heap, shape, memory, dict, fields, ghost, structure
    <2>ans. Answered'
        BY <2>e, StillAnswered DEF Solo
    <2>own. acked[main.key] \in {Nil, val[Find(main.key)]}
        BY <1>k, <1>3, <1>6 DEF Solo, Answered, Owned
    <2>ing. Answering'
        BY <1>1, <2>b, <2>f, <2>e, <2>own, <1>6
           DEF Solo, Answering, DelPcs, SetPcs, GrowPcs, FlushPcs, structure, Live
    <2> QED
        BY <1>2, <1>4, <2>b, <2>q, <2>h, <2>ans, <2>ing, Quiet DEF Solo
<1> QED
    BY <1>5, <1>6

LEMMA CheckExpAlone ==
    ASSUME TypeInv, Solo, CheckExp("main") PROVE Solo'
<1>1. main.pc = "chk_exp"
    BY DEF CheckExp, main
<1>2. main.pc \in QuietPcs
    BY <1>1, PcsAre DEF GrowPcs, FlushPcs
<1>3. {main.obj} \cap freed = {}
    BY <1>1 DEF Solo, Hold
<1>4. UNCHANGED structure /\ ub' = FALSE
    BY <1>3 DEF CheckExp, Touch, main, Solo, structure, heap, shape, memory, dict, fields
<1>5. CASE exp[main.obj] = 0 \/ now < exp[main.obj]
    <2>i. PICK i : i = Idle
        OBVIOUS
    <2>r. PICK r : r = [i EXCEPT !.pc = "chk_done", !.op = main.op, !.key = main.key,
                                 !.d = main.d]
        OBVIOUS
    <2>t. th' = [th EXCEPT !["main"] = r]
        BY <1>1, <1>3, <1>5, <2>r, <2>i
           DEF CheckExp, Touch, Become, Go, Ahead, main, Running
    <2>b. main' = r /\ sweep' = sweep
        BY <2>t, MainGoesOn DEF TypeInv
    <2>l. i \in Locals
        BY IdleIs, <2>i DEF TypeInv
    <2>f. /\ r.pc = "chk_done" /\ r.key = main.key /\ r.ent = i.ent
           /\ r.prev = i.prev /\ r.next = i.next /\ r.obj = i.obj /\ r.tab = i.tab
           /\ r.d = main.d /\ r.n = i.n
        BY <2>r, <2>l, IdleIs, <2>i DEF Locals
    <2>q. main'.pc \in QuietPcs
        BY <2>b, <2>f, PcsAre DEF GrowPcs, FlushPcs
    <2>h. Hold'
        BY <1>1, <1>2, <1>4, <2>b, <2>f, <1>5 DEF Hold, Solo, structure, GrowPcs, Live
    <2>e. UNCHANGED <<exp, acked>> /\ UNCHANGED <<keyOf, val, allocated, freed>>
        BY <1>3, <1>4
           DEF CheckExp, Touch, main, heap, shape, memory, dict, fields, ghost, structure
    <2>ans. Answered'
        BY <2>e, StillAnswered DEF Solo
    <2>ing. Answering'
        BY <1>1, <2>b, <2>f, <2>e
           DEF Solo, Answering, DelPcs, SetPcs, GrowPcs, FlushPcs, structure, Live
    <2> QED
        BY <1>2, <1>4, <2>b, <2>q, <2>h, <2>ans, <2>ing, Quiet DEF Solo
<1>6. CASE ~(exp[main.obj] = 0 \/ now < exp[main.obj])
    <2>i. PICK i : i = Idle
        OBVIOUS
    <2>r. PICK r : r = [i EXCEPT !.pc = "del_find", !.op = main.op, !.key = main.key,
                                 !.d = main.d]
        OBVIOUS
    <2>t. th' = [th EXCEPT !["main"] = r]
        BY <1>1, <1>3, <1>6, <2>r, <2>i
           DEF CheckExp, Touch, Become, Go, Ahead, main, Running
    <2>b. main' = r /\ sweep' = sweep
        BY <2>t, MainGoesOn DEF TypeInv
    <2>l. i \in Locals
        BY IdleIs, <2>i DEF TypeInv
    <2>f. /\ r.pc = "del_find" /\ r.key = main.key /\ r.ent = i.ent
           /\ r.prev = i.prev /\ r.next = i.next /\ r.obj = i.obj /\ r.tab = i.tab
           /\ r.d = main.d /\ r.n = i.n
        BY <2>r, <2>l, IdleIs, <2>i DEF Locals
    <2>q. main'.pc \in QuietPcs
        BY <2>b, <2>f, PcsAre DEF GrowPcs, FlushPcs
    <2>h. Hold'
        BY <1>1, <1>2, <1>4, <2>b, <2>f, <1>6 DEF Hold, Solo, structure, GrowPcs, Live
    <2>e. UNCHANGED <<exp, acked>> /\ UNCHANGED <<keyOf, val, allocated, freed>>
        BY <1>3, <1>4
           DEF CheckExp, Touch, main, heap, shape, memory, dict, fields, ghost, structure
    <2>ans. Answered'
        BY <2>e, StillAnswered DEF Solo
    <2>own. acked[main.key] = Nil
        <3>1. main.key \in Keys
            BY <1>1, MainIs DEF TypeInv, InCheck, CheckPcs
        <3> QED
            BY <1>1, <1>6, <3>1 DEF Solo, Answered, Answering
    <2>ing. Answering'
        BY <1>1, <2>b, <2>f, <2>e, <2>own
           DEF Solo, Answering, DelPcs, SetPcs, GrowPcs, FlushPcs, structure, Live
    <2> QED
        BY <1>2, <1>4, <2>b, <2>q, <2>h, <2>ans, <2>ing, Quiet DEF Solo
<1> QED
    BY <1>5, <1>6

LEMMA DelFindAlone ==
    ASSUME TypeInv, Solo, DelFind("main") PROVE Solo'
<1>1. main.pc = "del_find"
    BY DEF DelFind, main
<1>2. main.pc \in QuietPcs
    BY <1>1, PcsAre DEF GrowPcs, FlushPcs
<1>k. main.key \in Keys
    BY <1>1, MainIs DEF TypeInv, InMain, InCheck, CheckPcs, SetPcs, ReadPcs
<1>3. /\ Walk("main") \cap freed = {}
      /\ Find(main.key) # Nil =>
            /\ Find(main.key) \in Live /\ keyOf[Find(main.key)] = main.key
            /\ PrevOf(main.key) \in Slots(buckets, 1, size) \cup Hanging
            /\ link[PrevOf(main.key)] = Find(main.key)
            /\ val[Find(main.key)] \notin freed
      /\ Find(main.key) = Nil => \A e \in Live : keyOf[e] # main.key
      /\ Hanging = Live
    BY <1>1, <1>2, <1>k, WalkIsSafe
<1>4. UNCHANGED structure /\ ub' = FALSE
    BY <1>3 DEF DelFind, Touch, main, Solo, structure, heap, shape, memory, dict, fields
<1>5. CASE Find(main.key) = Nil
    <2>r. PICK r : r = [main EXCEPT !.pc = "chk_done"]
        OBVIOUS
    <2>t. th' = [th EXCEPT !["main"] = r]
        BY <1>1, <1>3, <1>5, <2>r, MainIs
           DEF DelFind, Touch, Become, Go, Ahead, main, Running
    <2>b. main' = r /\ sweep' = sweep
        BY <2>t, MainGoesOn DEF TypeInv
    <2>l. main \in Locals
        BY MainIs DEF TypeInv
    <2>f. /\ r.pc = "chk_done" /\ r.key = main.key /\ r.ent = main.ent
           /\ r.prev = main.prev /\ r.next = main.next /\ r.obj = main.obj
           /\ r.tab = main.tab /\ r.d = main.d /\ r.n = main.n
        BY <2>r, <2>l DEF Locals
    <2>q. main'.pc \in QuietPcs
        BY <2>b, <2>f, PcsAre DEF GrowPcs, FlushPcs
    <2>h. Hold'
        BY <1>1, <1>2, <1>4, <2>b, <2>f, <1>5 DEF Hold, Solo, structure, GrowPcs, Live
    <2>e. UNCHANGED <<exp, acked>> /\ UNCHANGED <<keyOf, val, allocated, freed>>
        BY <1>3, <1>4
           DEF DelFind, Touch, main, heap, shape, memory, dict, fields, ghost, structure
    <2>ans. Answered'
        BY <2>e, StillAnswered DEF Solo
    <2>ing. Answering'
        BY <1>1, <2>b, <2>f, <2>e, <1>5
           DEF Solo, Answering, DelPcs, SetPcs, GrowPcs, FlushPcs, structure, Live
    <2> QED
        BY <1>2, <1>4, <2>b, <2>q, <2>h, <2>ans, <2>ing, Quiet DEF Solo
<1>6. CASE Find(main.key) # Nil
    <2>r. PICK r : r = [main EXCEPT !.pc = "del_unlink", !.ent = Find(main.key),
                                    !.prev = PrevOf(main.key)]
        OBVIOUS
    <2>t. th' = [th EXCEPT !["main"] = r]
        BY <1>1, <1>3, <1>6, <2>r, MainIs
           DEF DelFind, Touch, Become, Go, Ahead, main, Running
    <2>b. main' = r /\ sweep' = sweep
        BY <2>t, MainGoesOn DEF TypeInv
    <2>l. main \in Locals
        BY MainIs DEF TypeInv
    <2>f. /\ r.pc = "del_unlink" /\ r.key = main.key /\ r.ent = Find(main.key)
           /\ r.prev = PrevOf(main.key) /\ r.next = main.next /\ r.obj = main.obj
           /\ r.tab = main.tab /\ r.d = main.d /\ r.n = main.n
        BY <2>r, <2>l DEF Locals
    <2>q. main'.pc \in QuietPcs
        BY <2>b, <2>f, PcsAre DEF GrowPcs, FlushPcs
    <2>hang. Hanging' = Hanging /\ Live' = Live
        BY <1>1, <1>2, <1>4, <2>q DEF Hanging, Live, Aside, structure, QuietPcs
    <2>h. Hold'
        BY <1>1, <1>2, <1>4, <2>b, <2>f, <1>3, <2>hang, <1>6
           DEF Hold, Solo, structure, GrowPcs, Live
    <2>e. UNCHANGED <<exp, acked>> /\ UNCHANGED <<keyOf, val, allocated, freed>>
        BY <1>3, <1>4
           DEF DelFind, Touch, main, heap, shape, memory, dict, fields, ghost, structure
    <2>ans. Answered'
        BY <2>e, StillAnswered DEF Solo
    <2>ing. Answering'
        BY <1>1, <2>b, <2>f, <2>e, <1>3, <1>6
           DEF Solo, Answering, DelPcs, SetPcs, GrowPcs, FlushPcs, structure, Live
    <2> QED
        BY <1>2, <1>4, <2>b, <2>q, <2>h, <2>ans, <2>ing, Quiet DEF Solo
<1> QED
    BY <1>5, <1>6

LEMMA CheckDoneAlone ==
    ASSUME TypeInv, Solo, CheckDone("main") PROVE Solo'
<1>1. main.pc = "chk_done"
    BY DEF CheckDone, main
<1>2. main.pc \in QuietPcs
    BY <1>1, PcsAre DEF GrowPcs, FlushPcs
<1>3. main.op \in {"get", "del"}
    BY <1>1, MainIs DEF TypeInv, InMain, CheckPcs
<1>4. UNCHANGED structure /\ ub' = FALSE
    BY <1>3 DEF CheckDone, Touch, main, Solo, structure, heap, shape, memory, dict, fields
<1>5. CASE main.op = "get"
    <2>r. PICK r : r = [main EXCEPT !.pc = "get_find"]
        OBVIOUS
    <2>t. th' = [th EXCEPT !["main"] = r]
        BY <1>1, <1>3, <1>5, <2>r, MainIs
           DEF CheckDone, Touch, Become, Go, Ahead, main, Running
    <2>b. main' = r /\ sweep' = sweep
        BY <2>t, MainGoesOn DEF TypeInv
    <2>l. main \in Locals
        BY MainIs DEF TypeInv
    <2>f. /\ r.pc = "get_find" /\ r.key = main.key /\ r.ent = main.ent
           /\ r.prev = main.prev /\ r.next = main.next /\ r.obj = main.obj
           /\ r.tab = main.tab /\ r.d = main.d /\ r.n = main.n
        BY <2>r, <2>l DEF Locals
    <2>q. main'.pc \in QuietPcs
        BY <2>b, <2>f, PcsAre DEF GrowPcs, FlushPcs
    <2>h. Hold'
        BY <1>1, <1>2, <1>4, <2>b, <2>f, <1>5 DEF Hold, Solo, structure, GrowPcs, Live
    <2>e. UNCHANGED <<exp, acked>> /\ UNCHANGED <<keyOf, val, allocated, freed>>
        BY <1>3, <1>4
           DEF CheckDone, Touch, main, heap, shape, memory, dict, fields, ghost, structure
    <2>ans. Answered'
        BY <2>e, StillAnswered DEF Solo
    <2>ing. Answering'
        BY <1>1, <2>b, <2>f, <2>e
           DEF Solo, Answering, DelPcs, SetPcs, GrowPcs, FlushPcs, structure, Live
    <2> QED
        BY <1>2, <1>4, <2>b, <2>q, <2>h, <2>ans, <2>ing, Quiet DEF Solo
<1>6. CASE main.op = "del"
    <2>t. th' = [th EXCEPT !["main"] = Idle]
        BY <1>1, <1>3, <1>6 DEF CheckDone, Touch, Become, main
    <2>b. main' = Idle /\ sweep' = sweep
        BY <2>t, MainGoesOn DEF TypeInv
    <2>q. main'.pc \in QuietPcs /\ Hold'
        BY <2>b, IdleIs, PcsAre DEF Hold, GrowPcs, FlushPcs
    <2>e. UNCHANGED <<exp, acked>> /\ UNCHANGED <<keyOf, val, allocated, freed>>
        BY <1>3, <1>4
           DEF CheckDone, Touch, main, heap, shape, memory, dict, fields, ghost, structure
    <2>ans. Answered'
        BY <2>e, StillAnswered DEF Solo
    <2>ing. Answering'
        BY <2>b, IdleIs DEF Solo, Answering, DelPcs, SetPcs, GrowPcs, FlushPcs
    <2> QED
        BY <1>2, <1>4, <2>b, <2>q, <2>ans, <2>ing, Quiet DEF Solo
<1> QED
    BY <1>3, <1>5, <1>6

LEMMA GetFindAlone ==
    ASSUME TypeInv, Solo, GetFind PROVE Solo'
<1>1. main.pc = "get_find"
    BY DEF GetFind, main
<1>2. main.pc \in QuietPcs
    BY <1>1, PcsAre DEF GrowPcs, FlushPcs
<1>k. main.key \in Keys
    BY <1>1, MainIs DEF TypeInv, InMain, InCheck, CheckPcs, SetPcs, ReadPcs
<1>3. /\ Walk("main") \cap freed = {}
      /\ Find(main.key) # Nil =>
            /\ Find(main.key) \in Live /\ keyOf[Find(main.key)] = main.key
            /\ PrevOf(main.key) \in Slots(buckets, 1, size) \cup Hanging
            /\ link[PrevOf(main.key)] = Find(main.key)
            /\ val[Find(main.key)] \notin freed
      /\ Find(main.key) = Nil => \A e \in Live : keyOf[e] # main.key
      /\ Hanging = Live
    BY <1>1, <1>2, <1>k, WalkIsSafe
<1>4. UNCHANGED structure /\ ub' = FALSE
    BY <1>3 DEF GetFind, Touch, main, Solo, structure, heap, shape, memory, dict, fields
<1>5. CASE Find(main.key) = Nil
    <2>t. th' = [th EXCEPT !["main"] = Idle]
        BY <1>1, <1>3, <1>5 DEF GetFind, Touch, Become, main
    <2>b. main' = Idle /\ sweep' = sweep
        BY <2>t, MainGoesOn DEF TypeInv
    <2>q. main'.pc \in QuietPcs /\ Hold'
        BY <2>b, IdleIs, PcsAre DEF Hold, GrowPcs, FlushPcs
    <2>e. UNCHANGED <<exp, acked>> /\ UNCHANGED <<keyOf, val, allocated, freed>>
        BY <1>3, <1>4
           DEF GetFind, Touch, main, heap, shape, memory, dict, fields, ghost, structure
    <2>ans. Answered'
        BY <2>e, StillAnswered DEF Solo
    <2>ing. Answering'
        BY <2>b, IdleIs DEF Solo, Answering, DelPcs, SetPcs, GrowPcs, FlushPcs
    <2> QED
        BY <1>2, <1>4, <2>b, <2>q, <2>ans, <2>ing, Quiet DEF Solo
<1>6. CASE Find(main.key) # Nil
    <2>r. PICK r : r = [main EXCEPT !.pc = "get_read", !.obj = val[Find(main.key)]]
        OBVIOUS
    <2>t. th' = [th EXCEPT !["main"] = r]
        BY <1>1, <1>3, <1>6, <2>r, MainIs
           DEF GetFind, Touch, Become, Go, Ahead, main, Running
    <2>b. main' = r /\ sweep' = sweep
        BY <2>t, MainGoesOn DEF TypeInv
    <2>l. main \in Locals
        BY MainIs DEF TypeInv
    <2>f. /\ r.pc = "get_read" /\ r.key = main.key /\ r.ent = main.ent
           /\ r.prev = main.prev /\ r.next = main.next /\ r.obj = val[Find(main.key)]
           /\ r.tab = main.tab /\ r.d = main.d /\ r.n = main.n
        BY <2>r, <2>l DEF Locals
    <2>q. main'.pc \in QuietPcs
        BY <2>b, <2>f, PcsAre DEF GrowPcs, FlushPcs
    <2>h. Hold'
        BY <1>1, <1>2, <1>4, <2>b, <2>f, <1>3, <1>6 DEF Hold, Solo, structure, GrowPcs, Live
    <2>e. UNCHANGED <<exp, acked>> /\ UNCHANGED <<keyOf, val, allocated, freed>>
        BY <1>3, <1>4
           DEF GetFind, Touch, main, heap, shape, memory, dict, fields, ghost, structure
    <2>ans. Answered'
        BY <2>e, StillAnswered DEF Solo
    <2>ing. Answering'
        BY <1>1, <2>b, <2>f, <2>e
           DEF Solo, Answering, DelPcs, SetPcs, GrowPcs, FlushPcs, structure, Live
    <2> QED
        BY <1>2, <1>4, <2>b, <2>q, <2>h, <2>ans, <2>ing, Quiet DEF Solo
<1> QED
    BY <1>5, <1>6

LEMMA GetReadAlone ==
    ASSUME TypeInv, Solo, GetRead PROVE Solo'
<1>1. main.pc = "get_read"
    BY DEF GetRead, main
<1>2. main.pc \in QuietPcs
    BY <1>1, PcsAre DEF GrowPcs, FlushPcs
<1>3. {main.obj} \cap freed = {}
    BY <1>1 DEF Solo, Hold
<1>4. UNCHANGED structure /\ ub' = FALSE
    BY <1>3 DEF GetRead, Touch, main, Solo, structure, heap, shape, memory, dict, fields
<1>t. th' = [th EXCEPT !["main"] = Idle]
    BY <1>1, <1>3 DEF GetRead, Touch, Become, main
<1>b. main' = Idle /\ sweep' = sweep
    BY <1>t, MainGoesOn DEF TypeInv
<1>q. main'.pc \in QuietPcs /\ Hold'
    BY <1>b, IdleIs, PcsAre DEF Hold, GrowPcs, FlushPcs
<1>e. UNCHANGED <<exp, acked>> /\ UNCHANGED <<keyOf, val, allocated, freed>>
    BY <1>3, <1>4
       DEF GetRead, Touch, main, heap, shape, memory, dict, fields, ghost, structure
<1>ans. Answered'
    BY <1>e, StillAnswered DEF Solo
<1>ing. Answering'
    BY <1>b, IdleIs DEF Solo, Answering, DelPcs, SetPcs, GrowPcs, FlushPcs
<1> QED
    BY <1>2, <1>4, <1>b, <1>q, <1>ans, <1>ing, Quiet DEF Solo

LEMMA ExpireFindAlone ==
    ASSUME TypeInv, Solo, ExpireFind PROVE Solo'
<1>1. main.pc = "exp_find"
    BY DEF ExpireFind, main
<1>2. main.pc \in QuietPcs
    BY <1>1, PcsAre DEF GrowPcs, FlushPcs
<1>k. main.key \in Keys
    BY <1>1, MainIs DEF TypeInv, InMain, InCheck, CheckPcs, SetPcs, ReadPcs
<1>3. /\ Walk("main") \cap freed = {}
      /\ Find(main.key) # Nil =>
            /\ Find(main.key) \in Live /\ keyOf[Find(main.key)] = main.key
            /\ PrevOf(main.key) \in Slots(buckets, 1, size) \cup Hanging
            /\ link[PrevOf(main.key)] = Find(main.key)
            /\ val[Find(main.key)] \notin freed
      /\ Find(main.key) = Nil => \A e \in Live : keyOf[e] # main.key
      /\ Hanging = Live
    BY <1>1, <1>2, <1>k, WalkIsSafe
<1>4. UNCHANGED structure /\ ub' = FALSE
    BY <1>3 DEF ExpireFind, Touch, main, Solo, structure, heap, shape, memory, dict, fields
<1>5. CASE Find(main.key) = Nil
    <2>t. th' = [th EXCEPT !["main"] = Idle]
        BY <1>1, <1>3, <1>5 DEF ExpireFind, Touch, Become, main
    <2>b. main' = Idle /\ sweep' = sweep
        BY <2>t, MainGoesOn DEF TypeInv
    <2>q. main'.pc \in QuietPcs /\ Hold'
        BY <2>b, IdleIs, PcsAre DEF Hold, GrowPcs, FlushPcs
    <2>e. UNCHANGED <<exp, acked>> /\ UNCHANGED <<keyOf, val, allocated, freed>>
        BY <1>3, <1>4
           DEF ExpireFind, Touch, main, heap, shape, memory, dict, fields, ghost, structure
    <2>ans. Answered'
        BY <2>e, StillAnswered DEF Solo
    <2>ing. Answering'
        BY <2>b, IdleIs DEF Solo, Answering, DelPcs, SetPcs, GrowPcs, FlushPcs
    <2> QED
        BY <1>2, <1>4, <2>b, <2>q, <2>ans, <2>ing, Quiet DEF Solo
<1>6. CASE Find(main.key) # Nil
    <2>r. PICK r : r = [main EXCEPT !.pc = "exp_write", !.obj = val[Find(main.key)]]
        OBVIOUS
    <2>t. th' = [th EXCEPT !["main"] = r]
        BY <1>1, <1>3, <1>6, <2>r, MainIs
           DEF ExpireFind, Touch, Become, Go, Ahead, main, Running
    <2>b. main' = r /\ sweep' = sweep
        BY <2>t, MainGoesOn DEF TypeInv
    <2>l. main \in Locals
        BY MainIs DEF TypeInv
    <2>f. /\ r.pc = "exp_write" /\ r.key = main.key /\ r.ent = main.ent
           /\ r.prev = main.prev /\ r.next = main.next /\ r.obj = val[Find(main.key)]
           /\ r.tab = main.tab /\ r.d = main.d /\ r.n = main.n
        BY <2>r, <2>l DEF Locals
    <2>q. main'.pc \in QuietPcs
        BY <2>b, <2>f, PcsAre DEF GrowPcs, FlushPcs
    <2>h. Hold'
        BY <1>1, <1>2, <1>4, <2>b, <2>f, <1>3, <1>6 DEF Hold, Solo, structure, GrowPcs, Live
    <2>e. UNCHANGED <<exp, acked>> /\ UNCHANGED <<keyOf, val, allocated, freed>>
        BY <1>3, <1>4
           DEF ExpireFind, Touch, main, heap, shape, memory, dict, fields, ghost, structure
    <2>ans. Answered'
        BY <2>e, StillAnswered DEF Solo
    <2>own. \A k \in Keys : acked[k] # val[Find(main.key)]
        <3>1. acked[main.key] = Nil
            BY <1>1 DEF Solo, Answering
        <3>2. val[Find(main.key)] # Nil
            BY <1>3, <1>6, Solid, CellsAreDistinct DEF Cells
        <3> QED
            BY <1>3, <1>6, <3>1, <3>2 DEF Solo, Answered, Owned
    <2>ing. Answering'
        BY <1>1, <2>b, <2>f, <2>e, <2>own
           DEF Solo, Answering, DelPcs, SetPcs, GrowPcs, FlushPcs, structure, Live
    <2> QED
        BY <1>2, <1>4, <2>b, <2>q, <2>h, <2>ans, <2>ing, Quiet DEF Solo
<1> QED
    BY <1>5, <1>6

LEMMA SetFindAlone ==
    ASSUME TypeInv, Solo, SetFind PROVE Solo'
<1>1. main.pc = "set_find"
    BY DEF SetFind, main
<1>2. main.pc \in QuietPcs
    BY <1>1, PcsAre DEF GrowPcs, FlushPcs
<1>k. main.key \in Keys
    BY <1>1, MainIs DEF TypeInv, InMain, InCheck, CheckPcs, SetPcs, ReadPcs
<1>3. /\ Walk("main") \cap freed = {}
      /\ Find(main.key) # Nil =>
            /\ Find(main.key) \in Live /\ keyOf[Find(main.key)] = main.key
            /\ PrevOf(main.key) \in Slots(buckets, 1, size) \cup Hanging
            /\ link[PrevOf(main.key)] = Find(main.key)
            /\ val[Find(main.key)] \notin freed
      /\ Find(main.key) = Nil => \A e \in Live : keyOf[e] # main.key
      /\ Hanging = Live
    BY <1>1, <1>2, <1>k, WalkIsSafe
<1>4. UNCHANGED structure /\ ub' = FALSE
    BY <1>3 DEF SetFind, Touch, main, Solo, structure, heap, shape, memory, dict, fields
<1>5. CASE Find(main.key) = Nil
    <2>r. PICK r : r = [main EXCEPT !.pc = "set_new", !.ent = Find(main.key)]
        OBVIOUS
    <2>t. th' = [th EXCEPT !["main"] = r]
        BY <1>1, <1>3, <1>5, <2>r, MainIs
           DEF SetFind, Touch, Become, Go, Ahead, main, Running
    <2>b. main' = r /\ sweep' = sweep
        BY <2>t, MainGoesOn DEF TypeInv
    <2>l. main \in Locals
        BY MainIs DEF TypeInv
    <2>f. /\ r.pc = "set_new" /\ r.key = main.key /\ r.ent = Find(main.key)
           /\ r.prev = main.prev /\ r.next = main.next /\ r.obj = main.obj
           /\ r.tab = main.tab /\ r.d = main.d /\ r.n = main.n
        BY <2>r, <2>l DEF Locals
    <2>q. main'.pc \in QuietPcs
        BY <2>b, <2>f, PcsAre DEF GrowPcs, FlushPcs
    <2>hang. Hanging' = Hanging /\ Live' = Live
        BY <1>1, <1>2, <1>4, <2>q DEF Hanging, Live, Aside, structure, QuietPcs
    <2>h. Hold'
        BY <1>1, <1>2, <1>4, <2>b, <2>f, <1>3, <2>hang, <1>5
           DEF Hold, Solo, structure, GrowPcs, Live
    <2>e. UNCHANGED <<exp, acked>> /\ UNCHANGED <<keyOf, val, allocated, freed>>
        BY <1>3, <1>4
           DEF SetFind, Touch, main, heap, shape, memory, dict, fields, ghost, structure
    <2>ans. Answered'
        BY <2>e, StillAnswered DEF Solo
    <2>ing. Answering'
        BY <1>1, <2>b, <2>f, <2>e
           DEF Solo, Answering, DelPcs, SetPcs, GrowPcs, FlushPcs, structure, Live
    <2> QED
        BY <1>2, <1>4, <2>b, <2>q, <2>h, <2>ans, <2>ing, Quiet DEF Solo
<1>6. CASE Find(main.key) # Nil
    <2>r. PICK r : r = [main EXCEPT !.pc = "set_free", !.ent = Find(main.key)]
        OBVIOUS
    <2>t. th' = [th EXCEPT !["main"] = r]
        BY <1>1, <1>3, <1>6, <2>r, MainIs
           DEF SetFind, Touch, Become, Go, Ahead, main, Running
    <2>b. main' = r /\ sweep' = sweep
        BY <2>t, MainGoesOn DEF TypeInv
    <2>l. main \in Locals
        BY MainIs DEF TypeInv
    <2>f. /\ r.pc = "set_free" /\ r.key = main.key /\ r.ent = Find(main.key)
           /\ r.prev = main.prev /\ r.next = main.next /\ r.obj = main.obj
           /\ r.tab = main.tab /\ r.d = main.d /\ r.n = main.n
        BY <2>r, <2>l DEF Locals
    <2>q. main'.pc \in QuietPcs
        BY <2>b, <2>f, PcsAre DEF GrowPcs, FlushPcs
    <2>hang. Hanging' = Hanging /\ Live' = Live
        BY <1>1, <1>2, <1>4, <2>q DEF Hanging, Live, Aside, structure, QuietPcs
    <2>h. Hold'
        BY <1>1, <1>2, <1>4, <2>b, <2>f, <1>3, <2>hang, <1>6
           DEF Hold, Solo, structure, GrowPcs, Live
    <2>e. UNCHANGED <<exp, acked>> /\ UNCHANGED <<keyOf, val, allocated, freed>>
        BY <1>3, <1>4
           DEF SetFind, Touch, main, heap, shape, memory, dict, fields, ghost, structure
    <2>ans. Answered'
        BY <2>e, StillAnswered DEF Solo
    <2>ing. Answering'
        BY <1>1, <2>b, <2>f, <2>e, <1>3, <1>6
           DEF Solo, Answering, DelPcs, SetPcs, GrowPcs, FlushPcs, structure, Live
    <2> QED
        BY <1>2, <1>4, <2>b, <2>q, <2>h, <2>ans, <2>ing, Quiet DEF Solo
<1> QED
    BY <1>5, <1>6

LEMMA SetAckAlone ==
    ASSUME TypeInv, Solo, SetAck PROVE Solo'
<1>1. main.pc = "set_ack"
    BY DEF SetAck, main
<1>2. main.pc \in QuietPcs
    BY <1>1, PcsAre DEF GrowPcs, FlushPcs
<1>3. TRUE
    OBVIOUS
<1>4. UNCHANGED structure /\ ub' = FALSE
    BY <1>3 DEF SetAck, Touch, main, Solo, structure, heap, shape, memory, dict, fields
<1>t. th' = [th EXCEPT !["main"] = Idle]
    BY <1>1, <1>3 DEF SetAck, Touch, Become, main
<1>b. main' = Idle /\ sweep' = sweep
    BY <1>t, MainGoesOn DEF TypeInv
<1>q. main'.pc \in QuietPcs /\ Hold'
    BY <1>b, IdleIs, PcsAre DEF Hold, GrowPcs, FlushPcs
<1>e. /\ acked' = [acked EXCEPT ![main.key] = main.obj]
     /\ UNCHANGED <<keyOf, val, exp, allocated>> /\ Live' = Live
    BY <1>4 DEF SetAck, heap, shape, memory, dict, fields, ghost, structure, Live
<1>k. main.key \in Keys /\ main.obj \in Objects
    BY <1>1, MainIs DEF TypeInv, InMain, SetPcs, Locals
<1>w. exp[main.obj] = 0 /\ \E e \in Live : keyOf[e] = main.key /\ val[e] = main.obj
    BY <1>1 DEF Solo, Answering, SetPcs
<1>ans. Answered'
    BY <1>e, <1>k, <1>w DEF Solo, Answered
<1>ing. Answering'
    BY <1>b, IdleIs DEF Solo, Answering, DelPcs, SetPcs, GrowPcs, FlushPcs
<1> QED
    BY <1>2, <1>4, <1>b, <1>q, <1>ans, <1>ing, Quiet DEF Solo

LEMMA ExpireWriteAlone ==
    ASSUME TypeInv, Solo, NEW del \in Delays, ExpireWrite(del) PROVE Solo'
<1>1. main.pc = "exp_write"
    BY DEF ExpireWrite, main
<1>2. main.pc \in QuietPcs
    BY <1>1, PcsAre DEF GrowPcs, FlushPcs
<1>3. {main.obj} \cap freed = {}
    BY <1>1 DEF Solo, Hold
<1>4. UNCHANGED structure /\ ub' = FALSE
    BY <1>3 DEF ExpireWrite, Touch, main, Solo, structure, heap, shape, memory, dict, fields
<1>t. th' = [th EXCEPT !["main"] = Idle]
    BY <1>1, <1>3 DEF ExpireWrite, Touch, Become, main
<1>b. main' = Idle /\ sweep' = sweep
    BY <1>t, MainGoesOn DEF TypeInv
<1>q. main'.pc \in QuietPcs /\ Hold'
    BY <1>b, IdleIs, PcsAre DEF Hold, GrowPcs, FlushPcs
<1>e. /\ exp' = [exp EXCEPT ![main.obj] = now + del]
     /\ UNCHANGED <<keyOf, val, allocated, acked>> /\ Live' = Live
    BY <1>3, <1>4
       DEF ExpireWrite, Touch, heap, shape, memory, dict, fields, ghost, structure, Live
<1>k. main.obj \in allocated /\ \A k \in Keys : acked[k] # main.obj
    <2>1. main.obj # Nil
        BY <1>1, MainIs DEF TypeInv, InMain
    <2>2. main.obj \in allocated
        BY <2>1, MainIs DEF TypeInv
    <2> QED
        BY <2>2, <1>1 DEF Solo, Answering
<1>x. \A o \in Objects : o # main.obj => exp'[o] = exp[o]
    BY <1>e DEF TypeInv, Heap
<1>ans. Answered'
    BY <1>e, <1>k, <1>x DEF Solo, Answered
<1>ing. Answering'
    BY <1>b, IdleIs DEF Solo, Answering, DelPcs, SetPcs, GrowPcs, FlushPcs
<1> QED
    BY <1>2, <1>4, <1>b, <1>q, <1>ans, <1>ing, Quiet DEF Solo

-----------------------------------------------------------------------------
(* The steps that change the memory *)

LEMMA DelUnlinkAlone ==
    ASSUME TypeInv, Solo, DelUnlink("main") PROVE Solo'
<1>1. main.pc = "del_unlink"
    BY DEF DelUnlink, main
<1>2. main.pc \in SteadyPcs /\ Aside = {} /\ Hanging = Live
    BY <1>1, PcsAre DEF Aside, Hanging, GrowPcs, FlushPcs
<1> DEFINE e == main.ent
           p == main.prev
           P == Slots(buckets, 1, size)
<1>3. e \in Hanging /\ p \in P \cup Hanging /\ link[p] = e
    BY <1>1 DEF Solo, Hold
<1>4. Tree(link, Hanging, P, Nil) /\ Home(link, keyOf, buckets, size, Hanging)
    BY <1>2 DEF Solo, Buckets, InBuckets
<1>5. e \notin freed /\ Cell(p) \notin freed
    <2>1. buckets \notin freed
        BY <1>1 DEF Solo, Owned
    <2> QED
        BY <2>1, <1>3, Solid
<1>6. /\ link' = [link EXCEPT ![p] = link[e]]
      /\ UNCHANGED <<keyOf, val, allocated, freed, g_dict, buckets, size, count>>
      /\ ub' = ub
    BY <1>5 DEF DelUnlink, Touch, main, memory, dict, fields
<1>r. PICK r : r = [main EXCEPT !.pc = "del_free"]
    OBVIOUS
<1>t. th' = [th EXCEPT !["main"] = r]
    BY <1>5, <1>r, MainIs DEF DelUnlink, Touch, Become, Go, Ahead, main, Running
<1>b. main' = r /\ sweep' = sweep
    BY <1>t, MainGoesOn DEF TypeInv
<1>l. main \in Locals
    BY MainIs DEF TypeInv
<1>f. /\ r.pc = "del_free" /\ r.key = main.key /\ r.ent = main.ent
       /\ r.prev = main.prev /\ r.next = main.next /\ r.obj = main.obj
       /\ r.tab = main.tab /\ r.d = main.d /\ r.n = main.n
    BY <1>r, <1>l DEF Locals
<1>7. main'.pc = "del_free" /\ main'.ent = e /\ main'.d = main.d
    BY <1>b, <1>f
<1>8. Live' = Live /\ Aside' = {e} /\ Hanging' = Hanging \ {e}
    BY <1>2, <1>6, <1>7 DEF Live, Aside, Hanging
<1>9. InBuckets(buckets, size)'
    <2>1. Tree(link', Hanging', P, Nil)
        BY Solid, <1>3, <1>4, <1>6, <1>8, UnlinkTree
    <2>2. Home(link', keyOf, buckets, size, Hanging')
        <3>1. /\ Nil \notin Hanging /\ P \cap Hanging = {}
              /\ P \cup Hanging \subseteq DOMAIN link
              /\ p \in P \cup Hanging /\ e \in Hanging
            BY Solid, <1>3
        <3> QED
            BY <3>1, <1>3, <1>4, <1>6, <1>8, UnlinkHome
    <2> QED
        BY <2>1, <2>2, <1>6 DEF InBuckets
<1>10. Buckets'
    BY <1>7, <1>9, PcsAre DEF Buckets, GrowPcs, FlushPcs
<1>11. Owned'
    <2>1. \A t \in Tables \ allocated : \A i \in 1 .. MaxSize :
              link'[<<t, i>>] = link[<<t, i>>]
        <3>1. buckets \in allocated
            BY DEF TypeInv, Fields
        <3>2. \A t \in Tables \ allocated : \A i \in 1 .. MaxSize : <<t, i>> # p
            BY <3>1, <1>3, Solid, CellsAreDistinct DEF Slots
        <3> QED
            BY <3>2, <1>6 DEF Places
    <2> QED
        BY <2>1, <1>1, <1>6, <1>7, <1>8 DEF Solo, Owned
<1>12. Hold'
    BY <1>1, <1>3, <1>6, <1>7, <1>8, Solid DEF Solo, Hold, GrowPcs
<1>13. Counted'
    <2>1. Cardinality(Hanging') = Cardinality(Hanging) - 1
        BY <1>3, <1>8, Solid, FS_RemoveElement
    <2>2. Cardinality(Hanging) \in Nat
        BY Solid, FS_CardinalityType
    <2>3. count = Cardinality(Hanging)
        BY <1>1 DEF Solo, Counted, UnderWay, FlushPcs
    <2> QED
        BY <2>1, <2>2, <2>3, <1>6, <1>7 DEF Solo, Counted, UnderWay
<1>e. UNCHANGED <<exp, acked>>
    BY <1>5 DEF DelUnlink, Touch, main, heap, shape, memory, dict, fields, ghost
<1>ans. Answered'
    BY <1>6, <1>e, StillAnswered DEF Solo
<1>ing. Answering'
    BY <1>1, <1>e, <1>6, <1>7, <1>8, <1>b, <1>f
       DEF Solo, Answering, DelPcs, SetPcs, GrowPcs, FlushPcs
<1> QED
    BY <1>6, <1>10, <1>11, <1>12, <1>13, <1>b, <1>ans, <1>ing DEF Solo

LEMMA DelFreeAlone ==
    ASSUME TypeInv, Solo, DelFree("main") PROVE Solo'
<1>1. main.pc = "del_free"
    BY DEF DelFree, main
<1>2. main.pc \in SteadyPcs /\ Aside = {main.ent} /\ Hanging = Live \ {main.ent}
    BY <1>1, PcsAre DEF Aside, Hanging, GrowPcs, FlushPcs
<1> DEFINE e == main.ent
<1>3. e \in Live
    BY <1>1 DEF Solo, Hold
<1>4. e \notin freed /\ val[e] \notin freed
    BY <1>1, <1>3, Solid DEF Solo, Owned
<1>5. \A d \in Live : val[d] = val[e] => d = e
    BY <1>3 DEF Solo, Owned
<1>6. /\ freed' = freed \cup {e, val[e]}
      /\ UNCHANGED <<link, keyOf, val, allocated, g_dict, buckets, size, count>> /\ ub' = ub
    BY <1>4 DEF DelFree, Touch, main, shape, dict, fields
<1>i. PICK i : i = Idle
    OBVIOUS
<1>r. PICK r : r = [i EXCEPT !.pc = "del_load", !.op = main.op, !.key = main.key,
                             !.d = main.d]
    OBVIOUS
<1>t. th' = [th EXCEPT !["main"] = r]
    BY <1>4, <1>r, <1>i DEF DelFree, Touch, Become, Go, Ahead, main, Running
<1>b. main' = r /\ sweep' = sweep
    BY <1>t, MainGoesOn DEF TypeInv
<1>l. i \in Locals
    BY IdleIs, <1>i DEF TypeInv
<1>f. /\ r.pc = "del_load" /\ r.key = main.key /\ r.ent = i.ent
       /\ r.prev = i.prev /\ r.next = i.next /\ r.obj = i.obj /\ r.tab = i.tab
       /\ r.d = main.d /\ r.n = i.n
    BY <1>r, <1>l, IdleIs, <1>i DEF Locals
<1>7. main'.pc = "del_load" /\ main'.d = main.d
    BY <1>b, <1>f
<1>8. Live' = Live \ {e} /\ Aside' = {} /\ Hanging' = Hanging
    <2>1. val[e] \notin Entries
        BY <1>3, Solid, CellsAreDistinct
    <2> QED
        BY <2>1, <1>2, <1>6, <1>7 DEF Live, Aside, Hanging
<1>9. Buckets'
    BY <1>2, <1>6, <1>7, <1>8, PcsAre DEF Solo, Buckets, InBuckets, GrowPcs, FlushPcs
<1>10. Owned'
    <2>1. \A d \in Live' : val[d] \notin freed'
        BY <1>1, <1>3, <1>5, <1>6, <1>8, Solid, CellsAreDistinct DEF Solo, Owned
    <2>2. g_dict \notin freed' /\ buckets \notin freed'
        BY <1>1, <1>3, <1>4, <1>6, Solid, CellsAreDistinct DEF Solo, Owned, TypeInv, Fields
    <2> QED
        BY <2>1, <2>2, <1>6, <1>8 DEF Solo, Owned
<1>11. Hold'
    BY <1>1, <1>6, <1>7 DEF Solo, Hold, GrowPcs
<1>12. Counted'
    BY <1>1, <1>6, <1>7, <1>8 DEF Solo, Counted, UnderWay
<1>e. UNCHANGED <<exp, acked>>
    BY <1>4 DEF DelFree, Touch, main, heap, shape, memory, dict, fields, ghost
<1>own. acked[keyOf[e]] # val[e]
    <2>1. acked[main.key] = Nil /\ keyOf[e] = main.key
        BY <1>1 DEF Solo, Answering, DelPcs
    <2>2. val[e] # Nil
        BY <1>3, Solid, CellsAreDistinct DEF Cells
    <2> QED
        BY <2>1, <2>2
<1>ans. Answered'
    BY <1>6, <1>8, <1>e, <1>own, StaysAnswered DEF Solo, Answered
<1>ing. Answering'
    BY <1>1, <1>e, <1>7, <1>b, <1>f DEF Solo, Answering, DelPcs, SetPcs, GrowPcs, FlushPcs
<1> QED
    BY <1>6, <1>9, <1>10, <1>11, <1>12, <1>b, <1>ans, <1>ing DEF Solo

\* Steps of dict_set and dict_del after which as much hangs in the buckets.
LEMMA Still ==
    ASSUME Solo, UNCHANGED <<link, keyOf, val, allocated, freed, g_dict, buckets, size>>,
           main.pc \in SteadyPcs \ {"set_link", "del_free", "set_val"},
           main'.pc \in SteadyPcs \ {"set_link", "del_free"}
    PROVE  Live' = Live /\ Hanging' = Hanging /\ Buckets' /\ Owned'
<1>1. Live' = Live /\ Hanging' = Hanging
    BY DEF Live, Hanging, Aside
<1>2. InBuckets(buckets, size)'
    BY <1>1 DEF Solo, Buckets, InBuckets
<1>3. main.pc \notin GrowPcs \cup FlushPcs /\ main'.pc \notin GrowPcs \cup FlushPcs
    BY DEF SteadyPcs
<1>4. Buckets'
    BY <1>2, <1>3 DEF Buckets, GrowPcs, FlushPcs
<1>5. Owned'
    BY <1>1, <1>3 DEF Solo, Owned, GrowPcs, FlushPcs
<1> QED
    BY <1>1, <1>4, <1>5

LEMMA CountLoadAlone ==
    ASSUME TypeInv, Solo, CountLoad("main") PROVE Solo'
<1>1. main.pc \in {"del_load", "set_load"}
    BY DEF CountLoad, main
<1>2. main.d \notin freed
    BY <1>1 DEF Solo, Hold, Owned
<1>3. /\ UNCHANGED <<link, keyOf, val, allocated, freed, g_dict, buckets, size, count>>
      /\ ub' = ub
    BY <1>2 DEF CountLoad, Touch, main, heap, shape, memory, dict, fields
<1> DEFINE q == IF main.pc = "del_load" THEN "del_store" ELSE "set_store"
<1>r. PICK r : r = [main EXCEPT !.n = count, !.pc = q]
    OBVIOUS
<1>t. th' = [th EXCEPT !["main"] = r]
    BY <1>2, <1>r, MainIs DEF CountLoad, Touch, Become, Go, Ahead, main, Running
<1>b. main' = r /\ sweep' = sweep
    BY <1>t, MainGoesOn DEF TypeInv
<1>l. main \in Locals
    BY MainIs DEF TypeInv
<1>f. /\ r.pc = q /\ r.key = main.key /\ r.ent = main.ent /\ r.prev = main.prev
       /\ r.next = main.next /\ r.obj = main.obj /\ r.tab = main.tab
       /\ r.d = main.d /\ r.n = count
    BY <1>r, <1>l DEF Locals
<1>4. /\ main'.pc \in {"del_store", "set_store"}
      /\ (main'.pc = "del_store" <=> main.pc = "del_load")
    BY <1>1, <1>b, <1>f
<1>5. main'.d = main.d /\ main'.n = count
    BY <1>b, <1>f
<1>6. Live' = Live /\ Hanging' = Hanging /\ Buckets' /\ Owned'
    BY <1>1, <1>3, <1>4, Still, PcsAre DEF GrowPcs, FlushPcs
<1>7. Hold'
    BY <1>1, <1>3, <1>4, <1>5 DEF Solo, Hold, GrowPcs
<1>8. Counted'
    BY <1>1, <1>3, <1>4, <1>5, <1>6 DEF Solo, Counted, UnderWay
<1>e. UNCHANGED <<exp, acked>>
    BY <1>2 DEF CountLoad, Touch, main, heap, shape, memory, dict, fields, ghost
<1>ans. Answered'
    BY <1>3, <1>e, StillAnswered DEF Solo
<1>ing. Answering'
    BY <1>1, <1>e, <1>3, <1>4, <1>5, <1>6, <1>b, <1>f
       DEF Solo, Answering, DelPcs, SetPcs, GrowPcs, FlushPcs
<1> QED
    BY <1>3, <1>6, <1>7, <1>8, <1>b, <1>ans, <1>ing DEF Solo

LEMMA CountStoreAlone ==
    ASSUME TypeInv, Solo, CountStore("main") PROVE Solo'
<1>1. main.pc \in {"del_store", "set_store"}
    BY DEF CountStore, main
<1>2. main.d \notin freed
    BY <1>1 DEF Solo, Hold, Owned
<1>3. UNCHANGED <<link, keyOf, val, allocated, freed, g_dict, buckets, size>> /\ ub' = ub
    BY <1>2 DEF CountStore, Touch, main, heap, shape, memory, dict, fields
<1>4. /\ main.n = count /\ count \in Int /\ IsFiniteSet(Hanging)
      /\ Cardinality(Hanging) \in Nat
    BY <1>1, Solid, FS_CardinalityType DEF Solo, Counted, TypeInv, Fields
<1>5. CASE main.pc = "del_store"
    <2>i. PICK i : i = Idle
        OBVIOUS
    <2>r. PICK r : r = [i EXCEPT !.pc = "chk_done", !.op = main.op, !.key = main.key,
                                 !.d = main.d]
        OBVIOUS
    <2>t. th' = [th EXCEPT !["main"] = r]
        BY <1>2, <1>5, <2>r, <2>i DEF CountStore, Touch, Become, Go, Ahead, main, Running
    <2>b. main' = r /\ sweep' = sweep
        BY <2>t, MainGoesOn DEF TypeInv
    <2>l. i \in Locals
        BY IdleIs, <2>i DEF TypeInv
    <2>f. /\ r.pc = "chk_done" /\ r.key = main.key /\ r.ent = i.ent
           /\ r.prev = i.prev /\ r.next = i.next /\ r.obj = i.obj /\ r.tab = i.tab
           /\ r.d = main.d /\ r.n = i.n
        BY <2>r, <2>l, IdleIs, <2>i DEF Locals
    <2>1. main'.pc = "chk_done" /\ main'.d = main.d
        BY <2>b, <2>f
    <2>2. count' = Cardinality(Hanging)
        BY <1>2, <1>4, <1>5 DEF CountStore, Touch, main, Solo, Counted
    <2>3. Live' = Live /\ Hanging' = Hanging /\ Buckets' /\ Owned'
        BY <1>3, <1>5, <2>1, Still, PcsAre DEF GrowPcs, FlushPcs
    <2>4. Hold'
        BY <1>3, <1>5, <2>1 DEF Solo, Hold, GrowPcs
    <2>5. Counted'
        BY <1>3, <2>1, <2>2, <2>3 DEF Solo, Counted, UnderWay, FlushPcs
    <2>e. UNCHANGED <<exp, acked>>
        BY <1>2 DEF CountStore, Touch, main, heap, shape, memory, dict, fields, ghost
    <2>ans. Answered'
        BY <1>3, <2>e, StillAnswered DEF Solo
    <2>ing. Answering'
        BY <1>1, <2>e, <1>3, <1>5, <2>1, <2>3, <2>b, <2>f
           DEF Solo, Answering, DelPcs, SetPcs, GrowPcs, FlushPcs
    <2> QED
        BY <1>3, <2>3, <2>4, <2>5, <2>b, <2>ans, <2>ing DEF Solo
<1>6. CASE main.pc = "set_store"
    <2>r. PICK r : r = [main EXCEPT !.pc = "set_ack", !.n = 0]
        OBVIOUS
    <2>t. th' = [th EXCEPT !["main"] = r]
        BY <1>2, <1>6, <2>r, MainIs DEF CountStore, Touch, Become, Go, Ahead, main, Running
    <2>b. main' = r /\ sweep' = sweep
        BY <2>t, MainGoesOn DEF TypeInv
    <2>l. main \in Locals
        BY MainIs DEF TypeInv
    <2>f. /\ r.pc = "set_ack" /\ r.key = main.key /\ r.ent = main.ent
           /\ r.prev = main.prev /\ r.next = main.next /\ r.obj = main.obj
           /\ r.tab = main.tab /\ r.d = main.d /\ r.n = 0
        BY <2>r, <2>l DEF Locals
    <2>1. main'.pc = "set_ack" /\ main'.d = main.d
        BY <2>b, <2>f
    <2>2. count' = Cardinality(Hanging)
        BY <1>2, <1>4, <1>6 DEF CountStore, Touch, main, Solo, Counted
    <2>3. Live' = Live /\ Hanging' = Hanging /\ Buckets' /\ Owned'
        BY <1>3, <1>6, <2>1, Still, PcsAre DEF GrowPcs, FlushPcs
    <2>4. Hold'
        BY <1>3, <1>6, <2>1 DEF Solo, Hold, GrowPcs
    <2>5. Counted'
        BY <1>3, <2>1, <2>2, <2>3 DEF Solo, Counted, UnderWay, FlushPcs
    <2>e. UNCHANGED <<exp, acked>>
        BY <1>2 DEF CountStore, Touch, main, heap, shape, memory, dict, fields, ghost
    <2>ans. Answered'
        BY <1>3, <2>e, StillAnswered DEF Solo
    <2>ing. Answering'
        BY <1>1, <2>e, <1>3, <1>6, <2>1, <2>3, <2>b, <2>f
           DEF Solo, Answering, DelPcs, SetPcs, GrowPcs, FlushPcs
    <2> QED
        BY <1>3, <2>3, <2>4, <2>5, <2>b, <2>ans, <2>ing DEF Solo
<1> QED
    BY <1>1, <1>5, <1>6

\* A cell that is no entry is handed out.
LEMMA More ==
    ASSUME TypeInv, Solo, NEW c, c \notin Entries \cup allocated, allocated' = allocated \cup {c},
           UNCHANGED freed
    PROVE  Live' = Live /\ IsFiniteSet(allocated') /\ c \notin freed
BY FS_AddElement DEF Live, Solo, Counted, TypeInv, Heap

LEMMA SetBeginAlone ==
    ASSUME TypeInv, Solo, NEW k \in Keys, SetBegin(k) PROVE Solo'
<1> DEFINE o == Fresh(Objects)
<1>1. main = Idle /\ main.pc = "idle"
    BY IdleIs DEF SetBegin, Begin, main
<1>2. o \in Objects /\ o \notin allocated /\ o \notin Entries
    BY FreshIs, CellsAreDistinct DEF SetBegin
<1> HIDE DEF o
<1>3. /\ allocated' = allocated \cup {o} /\ ub' = ub
      /\ UNCHANGED <<link, keyOf, val, freed, g_dict, buckets, size, count>>
    BY DEF SetBegin, shape, dict, fields, o
<1>i. PICK i : i = Idle
    OBVIOUS
<1>r. PICK r : r = [i EXCEPT !.op = "set", !.pc = "set_size", !.key = k, !.obj = o,
                             !.d = g_dict]
    OBVIOUS
<1>t. th' = [th EXCEPT !["main"] = r]
    BY <1>r, <1>i DEF SetBegin, Begin, o, Become, Go, Ahead, main, Running
<1>b. main' = r /\ sweep' = sweep
    BY <1>t, MainGoesOn DEF TypeInv
<1>l. i \in Locals
    BY IdleIs, <1>i DEF TypeInv
<1>f. /\ r.pc = "set_size" /\ r.key = k /\ r.ent = i.ent /\ r.prev = i.prev
       /\ r.next = i.next /\ r.obj = o /\ r.tab = i.tab /\ r.d = g_dict
       /\ r.n = i.n
    BY <1>r, <1>l, IdleIs, <1>i DEF Locals
<1>4. main'.pc = "set_size" /\ main'.obj = o /\ main'.d = g_dict
    BY <1>b, <1>f
<1>5. Live' = Live /\ IsFiniteSet(allocated') /\ o \notin freed
    BY <1>2, <1>3, More
<1>6. Aside = {} /\ Aside' = {} /\ Hanging' = Hanging
    BY <1>1, <1>4, <1>5 DEF Aside, Hanging
<1>7. Buckets'
    BY <1>1, <1>3, <1>4, <1>6, PcsAre DEF Solo, Buckets, InBuckets, GrowPcs, FlushPcs
<1>8. Owned'
    BY <1>1, <1>3, <1>5 DEF Solo, Owned
<1>9. Hold'
    BY <1>2, <1>3, <1>4, <1>5, Solid DEF Hold, GrowPcs
<1>10. Counted'
    BY <1>1, <1>3, <1>4, <1>5, <1>6 DEF Solo, Counted, UnderWay, FlushPcs
<1>e. /\ acked' = [acked EXCEPT ![k] = Nil] /\ UNCHANGED <<keyOf, val, exp, freed>>
       /\ acked' \in [Keys -> Objects \cup {Nil}] /\ acked'[k] = Nil
    BY DEF SetBegin, heap, shape, memory, dict, fields, ghost, Solo, Answered
<1>ans. Answered'
    BY <1>3, <1>5, <1>e, StaysAnswered DEF Solo, Answered
<1>o. exp'[o] = 0 /\ main'.key = k
    BY <1>2, <1>e, <1>b, <1>f DEF Solo, Answered
<1>ing. Answering'
    BY <1>4, <1>e, <1>o DEF Solo, Answering, DelPcs, SetPcs, GrowPcs, FlushPcs
<1> QED
    BY <1>3, <1>7, <1>8, <1>9, <1>10, <1>b, <1>ans, <1>ing DEF Solo

\* The bucket a loop has come to is no longer among those to come.
LEMMA NextSlots ==
    ASSUME NEW t, NEW a \in Nat \ {0}, NEW b \in Nat, a <= b
    PROVE  <<t, a>> \in Slots(t, a, b) /\ Slots(t, a, b) \ {<<t, a>>} = Slots(t, a + 1, b)
<1>1. \A i : i \in a .. b <=> i = a \/ i \in a + 1 .. b
    OBVIOUS
<1>2. \A i \in a + 1 .. b : i # a
    OBVIOUS
<1> QED
    BY <1>1, <1>2 DEF Slots

LEMMA SetSizeAlone ==
    ASSUME TypeInv, Solo, SetSize PROVE Solo'
<1>1. main.pc = "set_size"
    BY DEF SetSize
<1>2. main.pc \in QuietPcs
    BY <1>1, PcsAre DEF GrowPcs, FlushPcs
<1>3. CASE allocated' = allocated /\ th' = [th EXCEPT !["main"].pc = "set_find"]
    <2>1. UNCHANGED structure /\ ub' = FALSE
        BY <1>3 DEF SetSize, Solo, structure, heap, shape, memory, dict, fields
    <2>r. PICK r : r = [main EXCEPT !.pc = "set_find"]
        OBVIOUS
    <2>t. th' = [th EXCEPT !["main"] = r]
        BY <1>3, <2>r, MainIs DEF SetSize, Become, Go, Ahead, main, Running
    <2>b. main' = r /\ sweep' = sweep
        BY <2>t, MainGoesOn DEF TypeInv
    <2>l. main \in Locals
        BY MainIs DEF TypeInv
    <2>f. /\ r.pc = "set_find" /\ r.key = main.key /\ r.ent = main.ent
           /\ r.prev = main.prev /\ r.next = main.next /\ r.obj = main.obj
           /\ r.tab = main.tab /\ r.d = main.d /\ r.n = main.n
        BY <2>r, <2>l DEF Locals
    <2>q. main'.pc \in QuietPcs
        BY <2>b, <2>f, PcsAre DEF GrowPcs, FlushPcs
    <2>h. Hold'
        BY <1>1, <1>2, <2>1, <2>b, <2>f DEF Hold, Solo, structure, GrowPcs, Live
    <2>e. UNCHANGED <<exp, acked>> /\ UNCHANGED <<keyOf, val, allocated, freed>>
        BY <2>1 DEF SetSize, heap, shape, memory, dict, fields, ghost, structure
    <2>ans. Answered'
        BY <2>e, StillAnswered DEF Solo
    <2>ing. Answering'
        BY <1>1, <2>b, <2>f, <2>e DEF Solo, Answering, DelPcs, SetPcs, GrowPcs, FlushPcs
    <2> QED
        BY <1>2, <2>1, <2>b, <2>q, <2>h, <2>ans, <2>ing, Quiet DEF Solo
<1>4. CASE Crowded /\ CanGrow /\ allocated' = allocated \cup {Fresh(Tables)}
           /\ th' = [th EXCEPT !["main"] = [main EXCEPT !.pc = "grow", !.tab = Fresh(Tables),
                                                !.n = 1, !.ent = link[<<buckets, 1>>]]]
    <2> DEFINE t == Fresh(Tables)
    <2>2. t \in Tables /\ t \notin allocated /\ t \notin Entries /\ 2 * size <= MaxSize
        BY <1>4, FreshIs, CellsAreDistinct DEF CanGrow
    <2> HIDE DEF t
    <2>3. /\ allocated' = allocated \cup {t} /\ ub' = ub
          /\ UNCHANGED <<link, keyOf, val, freed, g_dict, buckets, size, count>>
        BY <1>4 DEF SetSize, heap, shape, memory, dict, fields, t
    <2>r. PICK r : r = [main EXCEPT !.pc = "grow", !.tab = t, !.n = 1,
                                    !.ent = link[<<buckets, 1>>]]
        OBVIOUS
    <2>t. th' = [th EXCEPT !["main"] = r]
        BY <1>4, <2>r, MainIs DEF t, Become, Go, Ahead, main, Running
    <2>b. main' = r /\ sweep' = sweep
        BY <2>t, MainGoesOn DEF TypeInv
    <2>l. main \in Locals
        BY MainIs DEF TypeInv
    <2>f. /\ r.pc = "grow" /\ r.key = main.key /\ r.ent = link[<<buckets, 1>>]
           /\ r.prev = main.prev /\ r.next = main.next /\ r.obj = main.obj
           /\ r.tab = t /\ r.d = main.d /\ r.n = 1
        BY <2>r, <2>l DEF Locals
    <2>4. /\ main'.pc = "grow" /\ main'.ent = link[<<buckets, 1>>] /\ main'.n = 1
          /\ main'.tab = t
        BY <2>b, <2>f
    <2>5. main'.d = main.d /\ main'.obj = main.obj
        BY <2>b, <2>f
    <2>6. Live' = Live /\ IsFiniteSet(allocated') /\ t \notin freed
        BY <2>2, <2>3, More
    <2>7. Aside = {} /\ Aside' = {} /\ Hanging' = Hanging
        BY <1>1, <2>4, <2>6 DEF Aside, Hanging
    <2>8. size \in Nat \ {0} /\ buckets \in Tables /\ buckets \in allocated
        BY Sizes DEF TypeInv, Fields
    <2>9. InBuckets(buckets, size)
        BY <1>2 DEF Solo, Buckets, QuietPcs
    <2>10. \A i \in 1 .. 2 * size : link[<<t, i>>] = Nil
        <3>1. \A i \in 1 .. 2 * size : i \in 1 .. MaxSize
            BY <2>2, <2>8, Sizes
        <3> QED
            BY <3>1, <2>2 DEF Solo, Owned
    <2>11. Tree(link, Hanging, Slots(t, 1, 2 * size) \cup Slots(buckets, 2, size),
                link[<<buckets, 1>>])
        <3>1. <<buckets, 1>> \in Slots(buckets, 1, size)
              /\ Slots(buckets, 1, size) \ {<<buckets, 1>>} = Slots(buckets, 2, size)
            BY <2>8, NextSlots
        <3>2. Nil \notin Hanging /\ Slots(buckets, 1, size) \cap Hanging = {}
            BY Solid
        <3>3. Tree(link, Hanging, Slots(buckets, 2, size), link[<<buckets, 1>>])
            BY <2>9, <3>1, <3>2, AdvanceTree DEF InBuckets
        <3>4. \A p \in Slots(t, 1, 2 * size) : link[p] = Nil
            BY <2>10 DEF Slots
        <3>5. Tree(link, Hanging, Slots(buckets, 2, size) \cup Slots(t, 1, 2 * size),
                   link[<<buckets, 1>>])
            BY <3>2, <3>3, <3>4, WidenTree
        <3>6. PICK P : P = Slots(t, 1, 2 * size) \cup Slots(buckets, 2, size)
            OBVIOUS
        <3>7. P = Slots(buckets, 2, size) \cup Slots(t, 1, 2 * size)
            BY <3>6
        <3> QED
            BY <3>5, <3>6, <3>7
    <2>12. Parted({})'
        <3>1. Home(link, keyOf, t, 2 * size, {})
            BY <2>10 DEF Home
        <3> QED
            BY <3>1, <2>3, <2>4 DEF Parted
    <2>13. Buckets'
        <3>1. (main.n + 1)' = 2
            BY <2>4
        <3>2. {} \in SUBSET Hanging'
            OBVIOUS
        <3>3. \E M \in SUBSET Hanging' : Parted(M)'
            BY <3>2, <2>12
        <3>4. Tree(link, Hanging,
                   Slots(main'.tab, 1, 2 * size) \cup Slots(buckets, main'.n + 1, size),
                   main'.ent)
            BY <3>1, <2>4, <2>11
        <3> QED
            BY <3>3, <3>4, <2>3, <2>4, <2>7 DEF Buckets, SteadyPcs, GrowPcs
    <2>14. Owned'
        BY <1>1, <2>3, <2>6 DEF Solo, Owned
    <2>15. Hold'
        BY <1>1, <2>2, <2>3, <2>4, <2>5, <2>6, <2>8 DEF Hold, GrowPcs, Solo
    <2>16. Counted'
        BY <1>1, <2>3, <2>4, <2>6, <2>7 DEF Solo, Counted, UnderWay, FlushPcs
    <2>e. UNCHANGED <<exp, acked>>
        BY DEF SetSize, heap, shape, memory, dict, fields, ghost
    <2>ans. Answered'
        BY <2>3, <2>6, <2>e, StaysAnswered DEF Solo, Answered
    <2>ing. Answering'
        BY <1>1, <2>b, <2>f, <2>e DEF Solo, Answering, DelPcs, SetPcs, GrowPcs, FlushPcs
    <2> QED
        BY <2>3, <2>13, <2>14, <2>15, <2>16, <2>b, <2>ans, <2>ing DEF Solo
<1> QED
    BY <1>3, <1>4 DEF SetSize, Go, Become, main

\* While the table grows.
LEMMA Growing ==
    ASSUME TypeInv, Solo, main.pc \in {"grow", "grow_move"}
    PROVE  /\ main.n \in 1 .. size /\ size \in Nat \ {0} /\ 2 * size <= MaxSize /\ 2 * size \in Nat
           /\ main.tab \in Tables /\ main.tab \in allocated /\ main.tab # buckets
           /\ Hanging = Live /\ main.ent \in Hanging \cup {Nil}
           /\ Slots(main.tab, 1, 2 * size) \subseteq Places \ Entries
           /\ Slots(buckets, main.n + 1, size) \subseteq Places \ Entries
           /\ Slots(buckets, main.n + 1, size) \cap Slots(main.tab, 1, 2 * size) = {}
           /\ \A i \in 1 .. 2 * size : <<main.tab, i>> \in Slots(main.tab, 1, 2 * size)
<1>1. /\ main.n \in 1 .. size /\ 2 * size <= MaxSize /\ main.tab \in Tables
      /\ main.tab \in allocated
    BY MainIs DEF TypeInv, InMain, GrowPcs
<1>2. size \in Nat \ {0} /\ buckets \in Tables
    BY Sizes DEF TypeInv, Fields
<1>3. 2 * size \in Nat /\ size <= MaxSize /\ main.n + 1 \in Nat \ {0}
    BY <1>1, <1>2, Sizes DEF TypeInv, Fields
<1>4. main.tab # buckets
    BY DEF Solo, Hold
<1>5. Hanging = Live /\ main.ent \in Hanging \cup {Nil}
    BY DEF Hanging, Aside, Solo, Buckets, Tree
<1>6. /\ Slots(main.tab, 1, 2 * size) \subseteq Places \ Entries
      /\ \A i \in 1 .. 2 * size : <<main.tab, i>> \in Slots(main.tab, 1, 2 * size)
    BY <1>1, <1>3, SlotsAre
<1>7. Slots(buckets, main.n + 1, size) \subseteq Places \ Entries
    BY <1>2, <1>3, SlotsAre
<1>8. Slots(buckets, main.n + 1, size) \cap Slots(main.tab, 1, 2 * size) = {}
    BY <1>4 DEF Slots
<1> QED
    BY <1>1, <1>2, <1>3, <1>4, <1>5, <1>6, <1>7, <1>8

LEMMA GrowReadAlone ==
    ASSUME TypeInv, Solo, GrowRead PROVE Solo'
<1>1. main.pc = "grow"
    BY DEF GrowRead, main
<1>2. main.ent # Nil /\ main.ent \notin freed
    BY <1>1, Growing, Solid DEF GrowRead
<1>3. /\ ub' = ub
      /\ UNCHANGED <<link, keyOf, val, allocated, freed, g_dict, buckets, size, count>>
    BY <1>2 DEF GrowRead, Touch, heap, shape, memory, dict, fields
<1>r. PICK r : r = [main EXCEPT !.next = link[main.ent], !.pc = "grow_move"]
    OBVIOUS
<1>t. th' = [th EXCEPT !["main"] = r]
    BY <1>2, <1>r, MainIs DEF GrowRead, Touch, Become, Go, Ahead, main, Running
<1>b. main' = r /\ sweep' = sweep
    BY <1>t, MainGoesOn DEF TypeInv
<1>l. main \in Locals
    BY MainIs DEF TypeInv
<1>f. /\ r.pc = "grow_move" /\ r.key = main.key /\ r.ent = main.ent
       /\ r.prev = main.prev /\ r.next = link[main.ent] /\ r.obj = main.obj
       /\ r.tab = main.tab /\ r.d = main.d /\ r.n = main.n
    BY <1>r, <1>l DEF Locals
<1>4. /\ main'.pc = "grow_move" /\ main'.next = link[main.ent] /\ main'.ent = main.ent
      /\ main'.n = main.n
      /\ main'.tab = main.tab
    BY <1>b, <1>f
<1>5. main'.obj = main.obj /\ main'.d = main.d
    BY <1>b, <1>f
<1>6. Live' = Live /\ Aside = {} /\ Aside' = {} /\ Hanging' = Hanging
    BY <1>1, <1>3, <1>4 DEF Live, Aside, Hanging
<1>7. Buckets'
    <2>1. Tree(link, Hanging,
               Slots(main.tab, 1, 2 * size) \cup Slots(buckets, main.n + 1, size), main.ent)
        BY <1>1 DEF Solo, Buckets
    <2>2. PICK M \in SUBSET Hanging : Parted(M)
        BY <1>1 DEF Solo, Buckets
    <2>3. Parted(M)'
        BY <1>3, <1>4, <1>6, <2>2 DEF Parted
    <2>4. \E N \in SUBSET Hanging' : Parted(N)'
        BY <1>6, <2>3
    <2> QED
        BY <1>3, <1>4, <1>6, <2>1, <2>4 DEF Buckets, SteadyPcs, GrowPcs
<1>8. Owned'
    BY <1>1, <1>3, <1>4, <1>6 DEF Solo, Owned
<1>9. Hold'
    BY <1>1, <1>3, <1>4, <1>5, <1>6 DEF Solo, Hold, GrowPcs
<1>10. Counted'
    BY <1>1, <1>3, <1>4, <1>6 DEF Solo, Counted, UnderWay, FlushPcs
<1>e. UNCHANGED <<exp, acked>>
    BY <1>2 DEF GrowRead, Touch, main, heap, shape, memory, dict, fields, ghost
<1>ans. Answered'
    BY <1>3, <1>e, StillAnswered DEF Solo
<1>ing. Answering'
    BY <1>1, <1>e, <1>3, <1>4, <1>5, <1>6, <1>b, <1>f
       DEF Solo, Answering, DelPcs, SetPcs, GrowPcs, FlushPcs
<1> QED
    BY <1>3, <1>7, <1>8, <1>9, <1>10, <1>b, <1>ans, <1>ing DEF Solo

LEMMA GrowMoveAlone ==
    ASSUME TypeInv, Solo, GrowMove PROVE Solo'
<1>1. main.pc = "grow_move"
    BY DEF GrowMove, main
<1> DEFINE e == main.ent
           i == BucketOf(keyOf[e], 2 * size)
           slot == <<main.tab, i>>
           P == Slots(main.tab, 1, 2 * size) \cup Slots(buckets, main.n + 1, size)
<1>2. e \in Hanging /\ e \notin freed
    <2>1. e # Nil
        BY <1>1, MainIs DEF TypeInv, InMain
    <2> QED
        BY <1>1, <2>1, Growing, Solid
<1>3. /\ link' = [link EXCEPT ![e] = link[slot], ![slot] = e] /\ ub' = ub
      /\ UNCHANGED <<keyOf, val, allocated, freed, g_dict, buckets, size, count>>
    BY <1>2 DEF GrowMove, Touch, heap, shape, memory, dict, fields
<1>4. i \in 1 .. 2 * size /\ slot \in Slots(main.tab, 1, 2 * size)
    <2>1. keyOf[e] \in Keys /\ 2 * size \in Nat \ {0}
        BY <1>1, <1>2, Solid, Growing
    <2>2. i \in 1 .. 2 * size
        BY <2>1, BucketOfIs
    <2> QED
        BY <1>1, <2>2, Growing
<1>5. /\ slot \in P /\ slot \notin Entries /\ slot \notin Slots(buckets, main.n + 1, size)
      /\ slot # e
    BY <1>1, <1>2, <1>4, Growing, Solid
<1>r. PICK r : r = [main EXCEPT !.ent = main.next, !.next = Nil, !.pc = "grow"]
    OBVIOUS
<1>t. th' = [th EXCEPT !["main"] = r]
    BY <1>2, <1>r, MainIs DEF GrowMove, Touch, Become, Go, Ahead, main, Running
<1>b. main' = r /\ sweep' = sweep
    BY <1>t, MainGoesOn DEF TypeInv
<1>l. main \in Locals
    BY MainIs DEF TypeInv
<1>f. /\ r.pc = "grow" /\ r.key = main.key /\ r.ent = main.next
       /\ r.prev = main.prev /\ r.next = Nil /\ r.obj = main.obj
       /\ r.tab = main.tab /\ r.d = main.d /\ r.n = main.n
    BY <1>r, <1>l DEF Locals
<1>6. /\ main'.pc = "grow" /\ main'.ent = main.next /\ main'.n = main.n
      /\ main'.tab = main.tab
    BY <1>b, <1>f
<1>7. main'.obj = main.obj /\ main'.d = main.d /\ main.next = link[e]
    BY <1>1, <1>b, <1>f DEF Solo, Hold
<1>8. Live' = Live /\ Aside = {} /\ Aside' = {} /\ Hanging' = Hanging
    BY <1>1, <1>3, <1>6 DEF Live, Aside, Hanging
<1>9. Tree(link, Hanging, P, e)
    BY <1>1 DEF Solo, Buckets
<1>10. PICK M \in SUBSET Hanging : Parted(M)
    BY <1>1 DEF Solo, Buckets
<1>11. P \subseteq Places \ Entries
    BY <1>1, Growing
<1> HIDE DEF P, i
<1>12. Tree(link', Hanging, P, main'.ent)
    <2>1. /\ P \cap Hanging = {} /\ P \cup Hanging \subseteq DOMAIN link
          /\ Nil \notin Hanging /\ e # Nil
        BY <1>11, <1>2, Solid
    <2>2. Tree([link EXCEPT ![e] = link[slot], ![slot] = e], Hanging, P, link[e])
        BY <2>1, <1>5, <1>9, MoveTree
    <2> QED
        BY <2>2, <1>3, <1>6, <1>7
<1>13. /\ link'[slot] = e /\ link'[e] = link[slot]
       /\ \A p \in Places : p # slot /\ p # e => link'[p] = link[p]
    BY <1>1, <1>2, <1>3, <1>4, <1>5, Growing, Solid
<1>14. /\ e \notin M /\ Home(link, keyOf, main.tab, 2 * size, M)
       /\ \A p \in Slots(buckets, main.n + 1, size) \cup (Hanging \ M) : link[p] \notin M
    BY <1>10 DEF Parted
<1>15. \A p \in P \cup Hanging : link[p] # e
    BY <1>2, <1>9, Solid DEF Tree
<1>16. PICK N : N = M \cup {e}
    OBVIOUS
<1>17. Home(link', keyOf, main.tab, 2 * size, N)
    <2>1. ASSUME NEW j \in 1 .. 2 * size, link'[<<main.tab, j>>] # Nil
          PROVE  link'[<<main.tab, j>>] \in N /\ BucketOf(keyOf[link'[<<main.tab, j>>]], 2 * size) = j
        <3>1. CASE j = i
            BY <3>1, <1>13, <1>16 DEF i
        <3>2. CASE j # i
            <4>1. /\ <<main.tab, j>> # slot /\ <<main.tab, j>> # e
                  /\ <<main.tab, j>> \in Places
                BY <1>1, <3>2, Growing, <1>2, Solid
            <4> QED
                BY <2>1, <4>1, <1>13, <1>14, <1>16 DEF Home
        <3> QED
            BY <3>1, <3>2
    <2>2. ASSUME NEW d \in N, link'[d] # Nil
          PROVE  link'[d] \in N /\ BucketOf(keyOf[link'[d]], 2 * size) = BucketOf(keyOf[d], 2 * size)
        <3>1. CASE d = e
            <4>1. link'[d] = link[slot] /\ link[slot] # Nil
                BY <2>2, <3>1, <1>13
            <4>2. link[slot] \in M /\ BucketOf(keyOf[link[slot]], 2 * size) = i
                BY <4>1, <1>4, <1>14 DEF Home
            <4> QED
                BY <3>1, <4>1, <4>2, <1>16 DEF i
        <3>2. CASE d # e
            <4>1. d \in M /\ d # slot /\ d \in Places
                BY <3>2, <1>5, <1>10, <1>16, Solid
            <4> QED
                BY <2>2, <3>2, <4>1, <1>13, <1>14, <1>16 DEF Home
        <3> QED
            BY <3>1, <3>2
    <2> QED
        BY <2>1, <2>2 DEF Home
<1>18. main'.ent \notin N
    <2>1. link[e] \notin M /\ link[e] # e
        BY <1>2, <1>14, <1>15
    <2> QED
        BY <2>1, <1>6, <1>7, <1>16
<1>19. \A p \in Slots(buckets, main.n + 1, size) \cup (Hanging \ N) : link'[p] \notin N
    <2>1. ASSUME NEW p \in Slots(buckets, main.n + 1, size) \cup (Hanging \ N)
          PROVE  link'[p] \notin N
        <3>1. p # slot /\ p # e /\ p \in Places /\ p \in P \cup Hanging
            BY <1>1, Growing, Solid, <1>2, <1>5, <1>16 DEF P
        <3>2. link[p] \notin M
            BY <1>14, <1>16
        <3> QED
            BY <3>1, <3>2, <1>13, <1>15, <1>16
    <2> QED
        BY <2>1
<1>20. Parted(N)'
    BY <1>3, <1>6, <1>8, <1>17, <1>18, <1>19 DEF Parted
<1>21. Buckets'
    <2>1. N \in SUBSET Hanging'
        BY <1>2, <1>8, <1>10, <1>16
    <2>2. \E L \in SUBSET Hanging' : Parted(L)'
        BY <2>1, <1>20
    <2>3. Tree(link', Hanging',
               Slots(main'.tab, 1, 2 * size') \cup Slots(buckets', main'.n + 1, size'),
               main'.ent)
        BY <1>3, <1>6, <1>8, <1>12 DEF P
    <2> QED
        BY <2>2, <2>3, <1>6 DEF Buckets, SteadyPcs, GrowPcs
<1>22. Owned'
    <2>1. \A t \in Tables \ allocated : \A j \in 1 .. MaxSize :
              link'[<<t, j>>] = link[<<t, j>>]
        <3>1. \A t \in Tables \ allocated : \A j \in 1 .. MaxSize :
                  <<t, j>> # slot /\ <<t, j>> # e /\ <<t, j>> \in Places
            BY <1>1, Growing, <1>2, Solid, CellsAreDistinct DEF Places
        <3> QED
            BY <3>1, <1>13
    <2> QED
        BY <2>1, <1>1, <1>3, <1>6, <1>8 DEF Solo, Owned
<1>23. Hold'
    BY <1>1, <1>3, <1>6, <1>7, <1>8 DEF Solo, Hold, GrowPcs
<1>24. Counted'
    BY <1>1, <1>3, <1>6, <1>8 DEF Solo, Counted, UnderWay, FlushPcs
<1>e. UNCHANGED <<exp, acked>>
    BY <1>2 DEF GrowMove, Touch, main, heap, shape, memory, dict, fields, ghost
<1>ans. Answered'
    BY <1>3, <1>e, StillAnswered DEF Solo
<1>ing. Answering'
    BY <1>1, <1>e, <1>3, <1>6, <1>7, <1>8, <1>b, <1>f
       DEF Solo, Answering, DelPcs, SetPcs, GrowPcs, FlushPcs
<1> QED
    BY <1>3, <1>21, <1>22, <1>23, <1>24, <1>b, <1>ans, <1>ing DEF Solo

LEMMA GrowBucketAlone ==
    ASSUME TypeInv, Solo, GrowBucket PROVE Solo'
<1>1. main.pc = "grow"
    BY DEF GrowBucket, NextBucket
<1>2. /\ main.ent = Nil /\ ub' = ub
      /\ UNCHANGED <<link, keyOf, val, allocated, freed, g_dict, buckets, size, count>>
    BY DEF GrowBucket, NextBucket, heap, shape, memory, dict, fields
<1>3. Tree(link, Hanging,
           Slots(main.tab, 1, 2 * size) \cup Slots(buckets, main.n + 1, size),
           main.ent)
    BY <1>1 DEF Solo, Buckets
<1>4. PICK M \in SUBSET Hanging : Parted(M)
    BY <1>1 DEF Solo, Buckets
<1>5. CASE main.n = size
    <2>r. PICK r : r = [main EXCEPT !.pc = "grow_free", !.n = 0]
        OBVIOUS
    <2>t. th' = [th EXCEPT !["main"] = r]
        BY <1>5, <2>r, MainIs DEF GrowBucket, NextBucket, Become, Go, Ahead, main, Running
    <2>b. main' = r /\ sweep' = sweep
        BY <2>t, MainGoesOn DEF TypeInv
    <2>l. main \in Locals
        BY MainIs DEF TypeInv
    <2>f. /\ r.pc = "grow_free" /\ r.key = main.key /\ r.ent = main.ent
           /\ r.prev = main.prev /\ r.next = main.next /\ r.obj = main.obj
           /\ r.tab = main.tab /\ r.d = main.d /\ r.n = 0
        BY <2>r, <2>l DEF Locals
    <2>1. main'.pc = "grow_free" /\ main'.tab = main.tab
        BY <2>b, <2>f
    <2>2. main'.obj = main.obj /\ main'.d = main.d
        BY <2>b, <2>f
    <2>3. Live' = Live /\ Aside = {} /\ Aside' = {} /\ Hanging' = Hanging
        BY <1>1, <1>2, <2>1 DEF Live, Aside, Hanging
    <2>4. Tree(link, Hanging, Slots(main.tab, 1, 2 * size), Nil)
        <3>1. Slots(buckets, main.n + 1, size) = {}
            <4>1. main.n + 1 .. size = {}
                BY <1>1, <1>5, Growing
            <4> QED
                BY <4>1 DEF Slots
        <3>2. Slots(main.tab, 1, 2 * size) \cup Slots(buckets, main.n + 1, size) = Slots(main.tab, 1, 2 * size)
            BY <3>1
        <3> QED
            BY <1>2, <1>3, <3>2
    <2>5. Home(link, keyOf, main.tab, 2 * size, M)
        BY <1>4 DEF Parted
    <2>6. Hanging \subseteq M
        <3>1. \A p \in Slots(main.tab, 1, 2 * size) : link[p] \in M \cup {Nil}
            BY <2>5 DEF Home, Slots
        <3>2. \A p \in M : link[p] \in M \cup {Nil}
            BY <2>5 DEF Home
        <3> QED
            BY <1>4, <2>4, <3>1, <3>2, Met
    <2>7. M = Hanging
        BY <2>6, <1>4
    <2>8. Buckets'
        BY <1>2, <2>1, <2>3, <2>4, <2>5, <2>7 DEF Buckets, InBuckets, SteadyPcs, GrowPcs
    <2>9. Owned'
        BY <1>1, <1>2, <2>1, <2>3 DEF Solo, Owned
    <2>10. Hold'
        BY <1>1, <1>2, <2>1, <2>2, <2>3 DEF Solo, Hold, GrowPcs
    <2>11. Counted'
        BY <1>1, <1>2, <2>1, <2>3 DEF Solo, Counted, UnderWay, FlushPcs
    <2>e. UNCHANGED <<exp, acked>>
        BY DEF GrowBucket, NextBucket, heap, shape, memory, dict, fields, ghost
    <2>ans. Answered'
        BY <1>2, <2>e, StillAnswered DEF Solo
    <2>ing. Answering'
        BY <1>1, <2>e, <1>2, <2>1, <2>2, <2>3, <2>b, <2>f
           DEF Solo, Answering, DelPcs, SetPcs, GrowPcs, FlushPcs
    <2> QED
        BY <1>2, <2>8, <2>9, <2>10, <2>11, <2>b, <2>ans, <2>ing DEF Solo
<1>6. CASE main.n # size
    <2>r. PICK r : r = [main EXCEPT !.n = main.n + 1, !.ent = link[<<buckets, main.n + 1>>]]
        OBVIOUS
    <2>t. th' = [th EXCEPT !["main"] = r]
        BY <1>6, <2>r, MainIs DEF GrowBucket, NextBucket, Become, Go, Ahead, main, Running
    <2>b. main' = r /\ sweep' = sweep
        BY <2>t, MainGoesOn DEF TypeInv
    <2>l. main \in Locals
        BY MainIs DEF TypeInv
    <2>f. /\ r.pc = main.pc /\ r.key = main.key
           /\ r.ent = link[<<buckets, main.n + 1>>] /\ r.prev = main.prev
           /\ r.next = main.next /\ r.obj = main.obj /\ r.tab = main.tab
           /\ r.d = main.d /\ r.n = main.n + 1
        BY <2>r, <2>l DEF Locals
    <2>1. main'.pc = "grow" /\ main'.tab = main.tab /\ main'.n = main.n + 1
        BY <1>1, <2>b, <2>f
    <2>2. /\ main'.obj = main.obj /\ main'.d = main.d
          /\ main'.ent = link[<<buckets, main.n + 1>>]
        BY <2>b, <2>f
    <2>3. Live' = Live /\ Aside = {} /\ Aside' = {} /\ Hanging' = Hanging
        BY <1>1, <1>2, <2>1 DEF Live, Aside, Hanging
    <2> DEFINE s == <<buckets, main.n + 1>>
               T == Slots(main.tab, 1, 2 * size)
               P == T \cup Slots(buckets, main.n + 1, size)
               R == T \cup Slots(buckets, main.n + 1 + 1, size)
    <2>4. s \in Slots(buckets, main.n + 1, size)
          /\ Slots(buckets, main.n + 1, size) \ {s} = Slots(buckets, main.n + 1 + 1, size)
        <3>1. main.n + 1 \in Nat \ {0} /\ size \in Nat /\ main.n + 1 <= size
            BY <1>1, <1>6, Growing
        <3> QED
            BY <3>1, NextSlots
    <2>5. s \in P /\ s \notin T
        BY <1>1, <2>4, Growing
    <2>6. P \ {s} = R
        BY <2>4, <2>5
    <2>7. Tree(link, Hanging, R, link[s])
        <3>1. P \cap Hanging = {} /\ Nil \notin Hanging
            BY <1>1, Growing, Solid
        <3>2. Tree(link, Hanging, P, Nil)
            BY <1>2, <1>3
        <3> HIDE DEF P, R
        <3>3. Tree(link, Hanging, P \ {s}, link[s])
            BY <2>5, <3>1, <3>2, AdvanceTree
        <3> QED
            BY <3>3, <2>6
    <2>8. Parted(M)'
        <3>1. link[s] \notin M
            BY <1>4, <2>4 DEF Parted
        <3>2. Slots(buckets, main.n + 1 + 1, size) \subseteq Slots(buckets, main.n + 1, size)
            BY <2>4
        <3>3. main'.n + 1 = main.n + 1 + 1
            BY <2>1
        <3> QED
            BY <1>2, <1>4, <2>1, <2>2, <2>3, <3>1, <3>2, <3>3 DEF Parted
    <2>9. Buckets'
        <3>1. \E N \in SUBSET Hanging' : Parted(N)'
            BY <1>4, <2>3, <2>8
        <3>2. main'.n + 1 = main.n + 1 + 1
            BY <2>1
        <3>3. Tree(link', Hanging',
                   Slots(main'.tab, 1, 2 * size') \cup Slots(buckets', main'.n + 1, size'),
                   main'.ent)
            BY <1>2, <2>1, <2>2, <2>3, <2>7, <3>2
        <3> QED
            BY <2>1, <3>1, <3>3 DEF Buckets, SteadyPcs, GrowPcs
    <2>10. Owned'
        BY <1>1, <1>2, <2>1, <2>3 DEF Solo, Owned
    <2>11. Hold'
        BY <1>1, <1>2, <2>1, <2>2, <2>3 DEF Solo, Hold, GrowPcs
    <2>12. Counted'
        BY <1>1, <1>2, <2>1, <2>3 DEF Solo, Counted, UnderWay, FlushPcs
    <2>e. UNCHANGED <<exp, acked>>
        BY DEF GrowBucket, NextBucket, heap, shape, memory, dict, fields, ghost
    <2>ans. Answered'
        BY <1>2, <2>e, StillAnswered DEF Solo
    <2>ing. Answering'
        BY <1>1, <2>e, <1>2, <2>1, <2>2, <2>3, <2>b, <2>f
           DEF Solo, Answering, DelPcs, SetPcs, GrowPcs, FlushPcs
    <2> QED
        BY <1>2, <2>9, <2>10, <2>11, <2>12, <2>b, <2>ans, <2>ing DEF Solo
<1> QED
    BY <1>5, <1>6

LEMMA GrowFreeAlone ==
    ASSUME TypeInv, Solo, GrowFree PROVE Solo'
<1>1. main.pc = "grow_free"
    BY DEF GrowFree
<1>2. /\ freed' = freed \cup {buckets} /\ ub' = ub
      /\ UNCHANGED <<link, keyOf, val, allocated, g_dict, buckets, size, count>>
    BY DEF GrowFree, heap, shape, memory, dict, fields
<1>r. PICK r : r = [main EXCEPT !.pc = "grow_table"]
    OBVIOUS
<1>t. th' = [th EXCEPT !["main"] = r]
    BY <1>r, MainIs DEF GrowFree, Become, Go, Ahead, main, Running
<1>b. main' = r /\ sweep' = sweep
    BY <1>t, MainGoesOn DEF TypeInv
<1>l. main \in Locals
    BY MainIs DEF TypeInv
<1>f. /\ r.pc = "grow_table" /\ r.key = main.key /\ r.ent = main.ent
       /\ r.prev = main.prev /\ r.next = main.next /\ r.obj = main.obj
       /\ r.tab = main.tab /\ r.d = main.d /\ r.n = main.n
    BY <1>r, <1>l DEF Locals
<1>3. /\ main'.pc = "grow_table" /\ main'.tab = main.tab /\ main'.obj = main.obj
      /\ main'.d = main.d
    BY <1>b, <1>f
<1>4. /\ buckets \in Tables /\ buckets \in allocated /\ g_dict # buckets
      /\ buckets \notin Entries
      /\ buckets \notin Objects
    BY CellsAreDistinct DEF TypeInv, Fields
<1>5. Live' = Live /\ Aside = {} /\ Aside' = {} /\ Hanging' = Hanging
    BY <1>1, <1>2, <1>3, <1>4 DEF Live, Aside, Hanging
<1>6. Buckets'
    BY <1>1, <1>2, <1>3, <1>5 DEF Solo, Buckets, InBuckets, SteadyPcs, GrowPcs
<1>7. Owned'
    BY <1>1, <1>2, <1>3, <1>4, <1>5, Solid DEF Solo, Owned
<1>8. Hold'
    <2>1. main.obj \notin freed'
        <3>1. main.obj \in Objects
            BY <1>1, MainIs DEF TypeInv, InMain, GrowPcs, SetPcs, Locals
        <3> QED
            BY <3>1, <1>1, <1>2, <1>4 DEF Solo, Hold, GrowPcs
    <2> QED
        BY <2>1, <1>1, <1>2, <1>3, <1>5 DEF Solo, Hold, GrowPcs
<1>9. Counted'
    BY <1>1, <1>2, <1>3, <1>5 DEF Solo, Counted, UnderWay, FlushPcs
<1>e. UNCHANGED <<exp, acked>>
    BY DEF GrowFree, heap, shape, memory, dict, fields, ghost
<1>ans. Answered'
    BY <1>2, <1>5, <1>e, StaysAnswered DEF Solo, Answered
<1>ing. Answering'
    BY <1>1, <1>e, <1>2, <1>5, <1>3, <1>b, <1>f
       DEF Solo, Answering, DelPcs, SetPcs, GrowPcs, FlushPcs
<1> QED
    BY <1>2, <1>6, <1>7, <1>8, <1>9, <1>b, <1>ans, <1>ing DEF Solo

LEMMA GrowTableAlone ==
    ASSUME TypeInv, Solo, GrowTable PROVE Solo'
<1>1. main.pc = "grow_table"
    BY DEF GrowTable
<1>2. /\ buckets' = main.tab /\ ub' = ub
      /\ UNCHANGED <<link, keyOf, val, allocated, freed, g_dict, size, count>>
    BY DEF GrowTable, heap, shape, memory, dict, fields
<1>r. PICK r : r = [main EXCEPT !.pc = "grow_size", !.tab = Nil]
    OBVIOUS
<1>t. th' = [th EXCEPT !["main"] = r]
    BY <1>r, MainIs DEF GrowTable, Become, Go, Ahead, main, Running
<1>b. main' = r /\ sweep' = sweep
    BY <1>t, MainGoesOn DEF TypeInv
<1>l. main \in Locals
    BY MainIs DEF TypeInv
<1>f. /\ r.pc = "grow_size" /\ r.key = main.key /\ r.ent = main.ent
       /\ r.prev = main.prev /\ r.next = main.next /\ r.obj = main.obj
       /\ r.tab = Nil /\ r.d = main.d /\ r.n = main.n
    BY <1>r, <1>l DEF Locals
<1>3. main'.pc = "grow_size" /\ main'.obj = main.obj /\ main'.d = main.d
    BY <1>b, <1>f
<1>4. Live' = Live /\ Aside = {} /\ Aside' = {} /\ Hanging' = Hanging
    BY <1>1, <1>2, <1>3 DEF Live, Aside, Hanging
<1>5. Buckets'
    BY <1>1, <1>2, <1>3, <1>4 DEF Solo, Buckets, InBuckets, SteadyPcs, GrowPcs
<1>6. Owned'
    BY <1>1, <1>2, <1>3, <1>4 DEF Solo, Owned, Hold
<1>7. Hold'
    BY <1>1, <1>2, <1>3, <1>4 DEF Solo, Hold, GrowPcs
<1>8. Counted'
    BY <1>1, <1>2, <1>3, <1>4 DEF Solo, Counted, UnderWay, FlushPcs
<1>e. UNCHANGED <<exp, acked>>
    BY DEF GrowTable, heap, shape, memory, dict, fields, ghost
<1>ans. Answered'
    BY <1>2, <1>e, StillAnswered DEF Solo
<1>ing. Answering'
    BY <1>1, <1>e, <1>2, <1>3, <1>4, <1>b, <1>f
       DEF Solo, Answering, DelPcs, SetPcs, GrowPcs, FlushPcs
<1> QED
    BY <1>2, <1>5, <1>6, <1>7, <1>8, <1>b, <1>ans, <1>ing DEF Solo

LEMMA GrowSizeAlone ==
    ASSUME TypeInv, Solo, GrowSize PROVE Solo'
<1>1. main.pc = "grow_size"
    BY DEF GrowSize
<1>2. /\ size' = 2 * size /\ ub' = ub
      /\ UNCHANGED <<link, keyOf, val, allocated, freed, g_dict, buckets, count>>
    BY DEF GrowSize, heap, shape, memory, dict, fields
<1>r. PICK r : r = [main EXCEPT !.pc = "set_find"]
    OBVIOUS
<1>t. th' = [th EXCEPT !["main"] = r]
    BY <1>r, MainIs DEF GrowSize, Become, Go, Ahead, main, Running
<1>b. main' = r /\ sweep' = sweep
    BY <1>t, MainGoesOn DEF TypeInv
<1>l. main \in Locals
    BY MainIs DEF TypeInv
<1>f. /\ r.pc = "set_find" /\ r.key = main.key /\ r.ent = main.ent
       /\ r.prev = main.prev /\ r.next = main.next /\ r.obj = main.obj
       /\ r.tab = main.tab /\ r.d = main.d /\ r.n = main.n
    BY <1>r, <1>l DEF Locals
<1>3. main'.pc = "set_find" /\ main'.obj = main.obj /\ main'.d = main.d
    BY <1>b, <1>f
<1>4. Live' = Live /\ Aside = {} /\ Aside' = {} /\ Hanging' = Hanging
    BY <1>1, <1>2, <1>3 DEF Live, Aside, Hanging
<1>5. Buckets'
    BY <1>1, <1>2, <1>3, <1>4 DEF Solo, Buckets, InBuckets, SteadyPcs, GrowPcs
<1>6. Owned'
    BY <1>1, <1>2, <1>3, <1>4 DEF Solo, Owned
<1>7. Hold'
    BY <1>1, <1>2, <1>3, <1>4 DEF Solo, Hold, GrowPcs
<1>8. Counted'
    BY <1>1, <1>2, <1>3, <1>4 DEF Solo, Counted, UnderWay, FlushPcs
<1>e. UNCHANGED <<exp, acked>>
    BY DEF GrowSize, heap, shape, memory, dict, fields, ghost
<1>ans. Answered'
    BY <1>2, <1>e, StillAnswered DEF Solo
<1>ing. Answering'
    BY <1>1, <1>e, <1>2, <1>3, <1>4, <1>b, <1>f
       DEF Solo, Answering, DelPcs, SetPcs, GrowPcs, FlushPcs
<1> QED
    BY <1>2, <1>5, <1>6, <1>7, <1>8, <1>b, <1>ans, <1>ing DEF Solo

LEMMA SetFreeAlone ==
    ASSUME TypeInv, Solo, SetFree PROVE Solo'
<1>1. main.pc = "set_free"
    BY DEF SetFree
<1> DEFINE e == main.ent
<1>2. main.pc \in SteadyPcs /\ Aside = {} /\ Hanging = Live /\ e \in Live
    BY <1>1, PcsAre DEF Aside, Hanging, Solo, Hold, GrowPcs, FlushPcs
<1>3. e \notin freed /\ val[e] \notin freed
    BY <1>1, <1>2, Solid DEF Solo, Owned
<1>4. \A d \in Live : val[d] = val[e] => d = e
    BY <1>2 DEF Solo, Owned
<1>5. /\ freed' = freed \cup {val[e]} /\ ub' = ub
      /\ UNCHANGED <<link, keyOf, val, allocated, g_dict, buckets, size, count>>
    BY <1>3 DEF SetFree, Touch, heap, shape, memory, dict, fields
<1>r. PICK r : r = [main EXCEPT !.pc = "set_val"]
    OBVIOUS
<1>t. th' = [th EXCEPT !["main"] = r]
    BY <1>3, <1>r, MainIs DEF SetFree, Touch, Become, Go, Ahead, main, Running
<1>b. main' = r /\ sweep' = sweep
    BY <1>t, MainGoesOn DEF TypeInv
<1>l. main \in Locals
    BY MainIs DEF TypeInv
<1>f. /\ r.pc = "set_val" /\ r.key = main.key /\ r.ent = main.ent
       /\ r.prev = main.prev /\ r.next = main.next /\ r.obj = main.obj
       /\ r.tab = main.tab /\ r.d = main.d /\ r.n = main.n
    BY <1>r, <1>l DEF Locals
<1>6. main'.pc = "set_val" /\ main'.ent = e /\ main'.obj = main.obj /\ main'.d = main.d
    BY <1>b, <1>f
<1>7. Live' = Live /\ Aside' = {} /\ Hanging' = Hanging
    <2>1. val[e] \notin Entries
        BY <1>2, Solid, CellsAreDistinct
    <2> QED
        BY <2>1, <1>2, <1>5, <1>6 DEF Live, Aside, Hanging
<1>8. Buckets'
    BY <1>2, <1>5, <1>6, <1>7, PcsAre DEF Solo, Buckets, InBuckets, GrowPcs, FlushPcs
<1>9. Owned'
    <2>1. \A d \in Live : val[d] \in freed' => d = e
        BY <1>1, <1>4, <1>5 DEF Solo, Owned
    <2>2. g_dict \notin freed' /\ buckets \notin freed'
        BY <1>1, <1>2, <1>5, Solid, CellsAreDistinct DEF Solo, Owned, TypeInv, Fields
    <2> QED
        BY <2>1, <2>2, <1>5, <1>6, <1>7 DEF Solo, Owned
<1>10. Hold'
    BY <1>1, <1>2, <1>5, <1>6, <1>7 DEF Solo, Hold, GrowPcs
<1>11. Counted'
    BY <1>1, <1>5, <1>6, <1>7 DEF Solo, Counted, UnderWay, FlushPcs
<1>e. UNCHANGED <<exp, acked>>
    BY <1>3 DEF SetFree, Touch, heap, shape, memory, dict, fields, ghost
<1>ans. Answered'
    BY <1>5, <1>7, <1>e, StaysAnswered DEF Solo, Answered
<1>ing. Answering'
    BY <1>1, <1>e, <1>5, <1>7, <1>6, <1>7, <1>b, <1>f
       DEF Solo, Answering, DelPcs, SetPcs, GrowPcs, FlushPcs
<1> QED
    BY <1>5, <1>8, <1>9, <1>10, <1>11, <1>b, <1>ans, <1>ing DEF Solo

LEMMA SetValAlone ==
    ASSUME TypeInv, Solo, SetVal PROVE Solo'
<1>1. main.pc = "set_val"
    BY DEF SetVal
<1> DEFINE e == main.ent
<1>2. main.pc \in SteadyPcs /\ Aside = {} /\ Hanging = Live /\ e \in Live
    BY <1>1, PcsAre DEF Aside, Hanging, Solo, Hold, GrowPcs, FlushPcs
<1>3. e \notin freed /\ e \in DOMAIN val
    BY <1>2, Solid DEF TypeInv, Heap
<1>4. val' = [val EXCEPT ![e] = main.obj] /\ ub' = ub
      /\ UNCHANGED <<link, keyOf, allocated, freed, g_dict, buckets, size, count>>
    BY <1>3 DEF SetVal, Touch, heap, shape, memory, dict, fields
<1>r. PICK r : r = [main EXCEPT !.pc = "set_ack"]
    OBVIOUS
<1>t. th' = [th EXCEPT !["main"] = r]
    BY <1>3, <1>r, MainIs DEF SetVal, Touch, Become, Go, Ahead, main, Running
<1>b. main' = r /\ sweep' = sweep
    BY <1>t, MainGoesOn DEF TypeInv
<1>l. main \in Locals
    BY MainIs DEF TypeInv
<1>f. /\ r.pc = "set_ack" /\ r.key = main.key /\ r.ent = main.ent
       /\ r.prev = main.prev /\ r.next = main.next /\ r.obj = main.obj
       /\ r.tab = main.tab /\ r.d = main.d /\ r.n = main.n
    BY <1>r, <1>l DEF Locals
<1>5. main'.pc = "set_ack" /\ main'.d = main.d
    BY <1>b, <1>f
<1>6. Live' = Live /\ Aside' = {} /\ Hanging' = Hanging
    BY <1>2, <1>4, <1>5 DEF Live, Aside, Hanging
<1>7. Buckets'
    BY <1>2, <1>4, <1>5, <1>6, PcsAre DEF Solo, Buckets, InBuckets, GrowPcs, FlushPcs
<1>8. Owned'
    <2>1. main.obj \notin freed /\ \A d \in Live : val[d] # main.obj
        BY <1>1 DEF Solo, Hold
    <2>2. val'[e] = main.obj /\ \A d \in Live : d # e => val'[d] = val[d]
        BY <1>3, <1>4, Solid
    <2>3. \A c, d \in Live : val'[c] = val'[d] => c = d
        BY <2>1, <2>2 DEF Solo, Owned
    <2>4. \A d \in Live : val'[d] \notin freed
        BY <2>1, <2>2 DEF Solo, Owned
    <2> QED
        BY <2>3, <2>4, <1>1, <1>4, <1>5, <1>6 DEF Solo, Owned
<1>9. Hold'
    BY <1>1, <1>4, <1>5 DEF Solo, Hold, GrowPcs
<1>10. Counted'
    BY <1>1, <1>4, <1>5, <1>6 DEF Solo, Counted, UnderWay, FlushPcs
<1>e. UNCHANGED <<exp, acked>>
    BY <1>3 DEF SetVal, Touch, heap, shape, memory, dict, fields, ghost
<1>own. acked[main.key] = Nil /\ keyOf[e] = main.key /\ val[e] # Nil
    <2>1. val[e] # Nil
        BY <1>2, Solid, CellsAreDistinct DEF Cells
    <2> QED
        BY <2>1, <1>1 DEF Solo, Answering, SetPcs
<1>v. val'[e] = main.obj /\ \A d \in Live : d # e => val'[d] = val[d]
    BY <1>3, <1>4, Solid
<1>ans. Answered'
    BY <1>4, <1>6, <1>e, <1>own, <1>v, StaysAnswered DEF Solo, Answered
<1>w. \E d \in Live' : keyOf'[d] = main.key /\ val'[d] = main.obj
    BY <1>2, <1>4, <1>6, <1>own, <1>v
<1>ing. Answering'
    BY <1>1, <1>e, <1>w, <1>b, <1>f DEF Solo, Answering, DelPcs, SetPcs, GrowPcs, FlushPcs
<1> QED
    BY <1>4, <1>7, <1>8, <1>9, <1>10, <1>b, <1>ans, <1>ing DEF Solo

LEMMA SetNewAlone ==
    ASSUME TypeInv, Solo, SetNew PROVE Solo'
<1>1. main.pc = "set_new"
    BY DEF SetNew
<1>k. /\ main.key \in Keys /\ size \in Nat \ {0} /\ BucketOf(main.key, size) \in 1 .. size
      /\ Bucket(main.key) = <<buckets, BucketOf(main.key, size)>>
      /\ Bucket(main.key) \in Slots(buckets, 1, size)
    <2>1. main.key \in Keys /\ size \in Nat \ {0}
        BY <1>1, MainIs, Sizes DEF TypeInv, InMain, SetPcs, Fields
    <2>2. BucketOf(main.key, size) \in 1 .. size
        BY <2>1, BucketOfIs
    <2> QED
        BY <2>1, <2>2 DEF Bucket, Slots
<1> DEFINE e == Fresh(Entries)
           P == Slots(buckets, 1, size)
<1>2. main.pc \in SteadyPcs /\ Aside = {} /\ Hanging = Live
    BY <1>1, PcsAre DEF Aside, Hanging, GrowPcs, FlushPcs
<1>3. e \in Entries /\ e \notin allocated
    <2>1. Entries \ allocated # {}
        BY <1>1, MainIs DEF TypeInv, InMain
    <2> QED
        BY <2>1, FreshIs
<1>4. /\ allocated' = allocated \cup {e} /\ keyOf' = [keyOf EXCEPT ![e] = main.key]
      /\ val' = [val EXCEPT ![e] = main.obj]
      /\ link' = [link EXCEPT ![e] = link[Bucket(main.key)]] /\ ub' = ub
      /\ UNCHANGED <<freed, g_dict, buckets, size, count>>
    BY DEF SetNew, heap, shape, memory, dict, fields
<1>r. PICK r : r = [main EXCEPT !.ent = e, !.pc = "set_link"]
    OBVIOUS
<1>t. th' = [th EXCEPT !["main"] = r]
    BY <1>r, MainIs DEF SetNew, Become, Go, Ahead, main, Running
<1>b. main' = r /\ sweep' = sweep
    BY <1>t, MainGoesOn DEF TypeInv
<1>l. main \in Locals
    BY MainIs DEF TypeInv
<1>f. /\ r.pc = "set_link" /\ r.key = main.key /\ r.ent = e
       /\ r.prev = main.prev /\ r.next = main.next /\ r.obj = main.obj
       /\ r.tab = main.tab /\ r.d = main.d /\ r.n = main.n
    BY <1>r, <1>l DEF Locals
<1>5. main'.pc = "set_link" /\ main'.ent = e /\ main'.d = main.d /\ main'.key = main.key
    BY <1>b, <1>f
<1> HIDE DEF e
<1>6. e \notin freed /\ e \notin Live
    BY <1>3, Solid DEF TypeInv, Heap
<1>7. Live' = Live \cup {e} /\ Aside' = {e} /\ Hanging' = Hanging
    BY <1>2, <1>3, <1>4, <1>5, <1>6 DEF Live, Aside, Hanging
<1>8. /\ link'[e] = link[Bucket(main.key)] /\ keyOf'[e] = main.key /\ val'[e] = main.obj
      /\ \A p \in Places : p # e => link'[p] = link[p]
      /\ \A d \in Live : keyOf'[d] = keyOf[d] /\ val'[d] = val[d] /\ link'[d] = link[d]
    BY <1>3, <1>4, <1>6, Solid DEF TypeInv, Heap
<1>9. InBuckets(buckets, size)'
    <2>1. Tree(link, Hanging, P, Nil) /\ Home(link, keyOf, buckets, size, Hanging)
        BY <1>2 DEF Solo, Buckets, InBuckets
    <2>2. \A p \in P \cup Hanging : link'[p] = link[p]
        BY <1>2, <1>3, <1>6, <1>8, Solid
    <2>3. Tree(link', Hanging, P, Nil)
        BY <2>1, <2>2, SameTree
    <2>4. \A i \in 1 .. size : link'[<<buckets, i>>] = link[<<buckets, i>>]
        BY <2>2 DEF Slots
    <2>5. Home(link', keyOf', buckets, size, Hanging)
        BY <1>2, <1>8, <2>1, <2>4, SameHome
    <2> QED
        BY <2>3, <2>5, <1>4, <1>7 DEF InBuckets
<1>10. Buckets'
    BY <1>5, <1>9, PcsAre DEF Buckets, GrowPcs, FlushPcs
<1>11. Owned'
    <2>1. main.obj \notin freed /\ \A d \in Live : val[d] # main.obj /\ keyOf[d] # main.key
        BY <1>1 DEF Solo, Hold
    <2>2. \A c, d \in Live' : keyOf'[c] = keyOf'[d] => c = d
        BY <2>1, <1>7, <1>8 DEF Solo, Owned
    <2>3. \A c, d \in Live' : val'[c] = val'[d] => c = d
        BY <2>1, <1>7, <1>8 DEF Solo, Owned
    <2>4. \A d \in Live' : val'[d] \notin freed
        BY <2>1, <1>1, <1>7, <1>8 DEF Solo, Owned
    <2>5. \A t \in Tables \ allocated' : \A i \in 1 .. MaxSize : link'[<<t, i>>] = Nil
        <3>1. \A t \in Tables \ allocated : \A i \in 1 .. MaxSize :
                  <<t, i>> # e /\ <<t, i>> \in Places
            BY <1>3, CellsAreDistinct DEF Places
        <3>2. \A t \in Tables \ allocated : \A i \in 1 .. MaxSize : link[<<t, i>>] = Nil
            BY DEF Solo, Owned
        <3>3. Tables \ allocated' \subseteq Tables \ allocated
            BY <1>4
        <3> QED
            BY <3>1, <3>2, <3>3, <1>8
    <2> QED
        BY <2>2, <2>3, <2>4, <2>5, <1>1, <1>4, <1>5 DEF Solo, Owned
<1>12. Hold'
    <2>1. Bucket(main.key) # e /\ Bucket(main.key) \in Places
        BY <1>k, <1>3, Solid
    <2>2. Bucket(main.key)' = Bucket(main.key)
        BY <1>4, <1>5 DEF Bucket
    <2>3. link'[main'.ent] = link'[Bucket(main.key)']
        BY <2>1, <2>2, <1>5, <1>8
    <2>4. main'.ent \in Live' /\ keyOf'[main'.ent] = main'.key
        BY <1>5, <1>7, <1>8
    <2> QED
        BY <2>3, <2>4, <1>1, <1>4, <1>5 DEF Solo, Hold, GrowPcs
<1>13. Counted'
    BY <1>1, <1>4, <1>5, <1>7, FS_AddElement DEF Solo, Counted, UnderWay, FlushPcs
<1>e. UNCHANGED <<exp, acked>>
    BY DEF SetNew, heap, shape, memory, dict, fields, ghost
<1>ans. Answered'
    BY <1>4, <1>7, <1>8, <1>e, StaysAnswered DEF Solo, Answered
<1>w. \E d \in Live' : keyOf'[d] = main.key /\ val'[d] = main.obj
    BY <1>7, <1>8
<1>ing. Answering'
    BY <1>1, <1>e, <1>w, <1>b, <1>f DEF Solo, Answering, DelPcs, SetPcs, GrowPcs, FlushPcs
<1> QED
    BY <1>4, <1>10, <1>11, <1>12, <1>13, <1>b, <1>ans, <1>ing DEF Solo

LEMMA SetLinkAlone ==
    ASSUME TypeInv, Solo, SetLink PROVE Solo'
<1>1. main.pc = "set_link"
    BY DEF SetLink
<1>k. /\ main.key \in Keys /\ size \in Nat \ {0} /\ BucketOf(main.key, size) \in 1 .. size
      /\ Bucket(main.key) = <<buckets, BucketOf(main.key, size)>>
      /\ Bucket(main.key) \in Slots(buckets, 1, size)
    <2>1. main.key \in Keys /\ size \in Nat \ {0}
        BY <1>1, MainIs, Sizes DEF TypeInv, InMain, SetPcs, Fields
    <2>2. BucketOf(main.key, size) \in 1 .. size
        BY <2>1, BucketOfIs
    <2> QED
        BY <2>1, <2>2 DEF Bucket, Slots
<1> DEFINE e == main.ent
           P == Slots(buckets, 1, size)
           i == BucketOf(main.key, size)
<1>2. main.pc \in SteadyPcs /\ Aside = {e} /\ Hanging = Live \ {e}
    BY <1>1, PcsAre DEF Aside, Hanging, GrowPcs, FlushPcs
<1>3. e \in Live /\ keyOf[e] = main.key /\ link[e] = link[<<buckets, i>>]
    BY <1>1, <1>k DEF Solo, Hold
<1>4. /\ link' = [link EXCEPT ![<<buckets, i>>] = e] /\ ub' = ub
      /\ UNCHANGED <<keyOf, val, allocated, freed, g_dict, buckets, size, count>>
    BY <1>k DEF SetLink, heap, shape, memory, dict, fields
<1>r. PICK r : r = [main EXCEPT !.pc = "set_load"]
    OBVIOUS
<1>t. th' = [th EXCEPT !["main"] = r]
    BY <1>r, MainIs DEF SetLink, Become, Go, Ahead, main, Running
<1>b. main' = r /\ sweep' = sweep
    BY <1>t, MainGoesOn DEF TypeInv
<1>l. main \in Locals
    BY MainIs DEF TypeInv
<1>f. /\ r.pc = "set_load" /\ r.key = main.key /\ r.ent = main.ent
       /\ r.prev = main.prev /\ r.next = main.next /\ r.obj = main.obj
       /\ r.tab = main.tab /\ r.d = main.d /\ r.n = main.n
    BY <1>r, <1>l DEF Locals
<1>5. main'.pc = "set_load" /\ main'.d = main.d
    BY <1>b, <1>f
<1>6. Live' = Live /\ Aside' = {} /\ Hanging' = Hanging \cup {e}
    BY <1>2, <1>3, <1>4, <1>5 DEF Live, Aside, Hanging
<1>7. e \notin Hanging \cup P \cup {Nil}
    BY <1>2, <1>3, Solid
<1> HIDE DEF i
<1>8. InBuckets(buckets, size)'
    <2>1. Tree(link, Hanging, P, Nil) /\ Home(link, keyOf, buckets, size, Hanging)
        BY <1>2 DEF Solo, Buckets, InBuckets
    <2>2. /\ Nil \notin Hanging /\ P \cap Hanging = {}
          /\ P \cup Hanging \subseteq DOMAIN link
          /\ i \in 1 .. size /\ <<buckets, i>> \in P /\ BucketOf(keyOf[e], size) = i
        BY <1>3, <1>k, Solid DEF i
    <2>3. Tree(link', Hanging', P, Nil)
        BY <2>1, <2>2, <1>3, <1>4, <1>6, <1>7, PushTree
    <2>4. Home(link', keyOf, buckets, size, Hanging')
        BY <2>1, <2>2, <1>3, <1>4, <1>6, <1>7, PushHome
    <2> QED
        BY <2>3, <2>4, <1>4 DEF InBuckets
<1>9. Buckets'
    BY <1>5, <1>8, PcsAre DEF Buckets, GrowPcs, FlushPcs
<1>10. Owned'
    <2>1. \A t \in Tables \ allocated : \A j \in 1 .. MaxSize :
              link'[<<t, j>>] = link[<<t, j>>]
        <3>1. buckets \in allocated
            BY DEF TypeInv, Fields
        <3>2. \A t \in Tables \ allocated : \A j \in 1 .. MaxSize :
                  <<t, j>> # <<buckets, i>>
            BY <3>1
        <3> QED
            BY <3>2, <1>4 DEF Places
    <2> QED
        BY <2>1, <1>1, <1>4, <1>5, <1>6 DEF Solo, Owned
<1>11. Hold'
    BY <1>1, <1>4, <1>5 DEF Solo, Hold, GrowPcs
<1>12. Counted'
    <2>1. Cardinality(Hanging') = Cardinality(Hanging) + 1
        BY <1>6, <1>7, Solid, FS_AddElement
    <2>2. Cardinality(Hanging) \in Nat
        BY Solid, FS_CardinalityType
    <2>3. count = Cardinality(Hanging)
        BY <1>1 DEF Solo, Counted, UnderWay, FlushPcs
    <2> QED
        BY <2>1, <2>2, <2>3, <1>4, <1>5 DEF Solo, Counted, UnderWay, FlushPcs
<1>e. UNCHANGED <<exp, acked>>
    BY DEF SetLink, heap, shape, memory, dict, fields, ghost
<1>ans. Answered'
    BY <1>4, <1>e, StillAnswered DEF Solo
<1>ing. Answering'
    BY <1>1, <1>e, <1>4, <1>5, <1>6, <1>b, <1>f
       DEF Solo, Answering, DelPcs, SetPcs, GrowPcs, FlushPcs
<1> QED
    BY <1>4, <1>9, <1>10, <1>11, <1>12, <1>b, <1>ans, <1>ing DEF Solo

LEMMA FlushBeginAlone ==
    ASSUME TypeInv, Solo, FlushBegin PROVE Solo'
<1>1. main = Idle /\ main.pc = "idle"
    BY IdleIs DEF FlushBegin, main
<1>2. /\ ub' = ub
      /\ UNCHANGED <<link, keyOf, val, allocated, freed, g_dict, buckets, size, count>>
    BY DEF FlushBegin, heap, shape, memory, dict, fields
<1>i. PICK i : i = Idle
    OBVIOUS
<1>r. PICK r : r = [i EXCEPT !.op = "flush", !.pc = "flush", !.n = 1, !.d = g_dict,
                             !.ent = link[<<buckets, 1>>]]
    OBVIOUS
<1>t. th' = [th EXCEPT !["main"] = r]
    BY <1>r, <1>i DEF FlushBegin, Become, Go, Ahead, main, Running
<1>b. main' = r /\ sweep' = sweep
    BY <1>t, MainGoesOn DEF TypeInv
<1>l. i \in Locals
    BY IdleIs, <1>i DEF TypeInv
<1>f. /\ r.pc = "flush" /\ r.key = i.key /\ r.ent = link[<<buckets, 1>>]
       /\ r.prev = i.prev /\ r.next = i.next /\ r.obj = i.obj /\ r.tab = i.tab
       /\ r.d = g_dict /\ r.n = 1
    BY <1>r, <1>l, IdleIs, <1>i DEF Locals
<1>3. /\ main'.pc = "flush" /\ main'.d = g_dict /\ main'.n = 1
      /\ main'.ent = link[<<buckets, 1>>]
    BY <1>b, <1>f
<1>4. Live' = Live /\ Aside = {} /\ Aside' = {} /\ Hanging' = Hanging
    BY <1>1, <1>2, <1>3 DEF Live, Aside, Hanging
<1>5. Tree(link, Hanging, Slots(buckets, 2, size), link[<<buckets, 1>>])
    <2>1. size \in Nat \ {0}
        BY Sizes DEF TypeInv, Fields
    <2>2. /\ <<buckets, 1>> \in Slots(buckets, 1, size)
          /\ Slots(buckets, 1, size) \ {<<buckets, 1>>} = Slots(buckets, 2, size)
        BY <2>1, NextSlots
    <2>3. Nil \notin Hanging /\ Slots(buckets, 1, size) \cap Hanging = {}
        BY Solid
    <2>4. Tree(link, Hanging, Slots(buckets, 1, size), Nil)
        BY <1>1, PcsAre DEF Solo, Buckets, InBuckets, GrowPcs, FlushPcs
    <2> QED
        BY <2>2, <2>3, <2>4, AdvanceTree
<1>6. Buckets'
    <2>1. main'.n + 1 = 2
        BY <1>3
    <2> QED
        BY <2>1, <1>2, <1>3, <1>4, <1>5 DEF Buckets, SteadyPcs, GrowPcs, FlushPcs
<1>7. Owned'
    BY <1>1, <1>2, <1>3, <1>4 DEF Solo, Owned
<1>8. Hold'
    BY <1>2, <1>3 DEF Hold, GrowPcs
<1>9. Counted'
    BY <1>2, <1>3 DEF Solo, Counted, UnderWay, FlushPcs
<1>e. acked' = [k \in Keys |-> Nil] /\ UNCHANGED exp
    BY DEF FlushBegin, heap, shape, memory, dict, fields, ghost
<1>ans. Answered'
    BY <1>2, <1>4, <1>e, StaysAnswered DEF Solo
<1>ing. Answering'
    BY <1>e, <1>3 DEF Solo, Answering, DelPcs, SetPcs, GrowPcs, FlushPcs
<1> QED
    BY <1>2, <1>6, <1>7, <1>8, <1>9, <1>b, <1>ans, <1>ing DEF Solo

LEMMA FlushEntryAlone ==
    ASSUME TypeInv, Solo, FlushEntry PROVE Solo'
<1>1. main.pc = "flush"
    BY DEF FlushEntry
<1> DEFINE e == main.ent
           P == Slots(buckets, main.n + 1, size)
<1>2. Tree(link, Hanging, P, e) /\ Aside = {} /\ Hanging = Live
    BY <1>1 DEF Solo, Buckets, Aside, Hanging
<1>3. e # Nil /\ e \in Live
    BY <1>2 DEF FlushEntry, Tree
<1>4. e \notin freed /\ val[e] \notin freed
    BY <1>1, <1>3, Solid DEF Solo, Owned
<1>5. \A d \in Live : val[d] = val[e] => d = e
    BY <1>3 DEF Solo, Owned
<1>6. /\ freed' = freed \cup {e, val[e]} /\ ub' = ub
      /\ UNCHANGED <<link, keyOf, val, allocated, g_dict, buckets, size, count>>
    BY <1>3, <1>4 DEF FlushEntry, Touch, heap, shape, memory, dict, fields
<1>r. PICK r : r = [main EXCEPT !.ent = link[main.ent]]
    OBVIOUS
<1>t. th' = [th EXCEPT !["main"] = r]
    BY <1>4, <1>r, MainIs DEF FlushEntry, Touch, Become, Go, Ahead, main, Running
<1>b. main' = r /\ sweep' = sweep
    BY <1>t, MainGoesOn DEF TypeInv
<1>l. main \in Locals
    BY MainIs DEF TypeInv
<1>f. /\ r.pc = main.pc /\ r.key = main.key /\ r.ent = link[main.ent]
       /\ r.prev = main.prev /\ r.next = main.next /\ r.obj = main.obj
       /\ r.tab = main.tab /\ r.d = main.d /\ r.n = main.n
    BY <1>r, <1>l DEF Locals
<1>7. main'.pc = "flush" /\ main'.ent = link[e] /\ main'.n = main.n /\ main'.d = main.d
    BY <1>1, <1>b, <1>f
<1>8. Live' = Live \ {e} /\ Aside' = {} /\ Hanging' = Hanging \ {e}
    <2>1. val[e] \notin Entries
        BY <1>3, Solid, CellsAreDistinct
    <2> QED
        BY <2>1, <1>2, <1>6, <1>7 DEF Live, Aside, Hanging
<1>9. Tree(link, Hanging \ {e}, P, link[e])
    <2>1. P \cap Hanging = {} /\ Nil \notin Hanging
        <3>1. /\ main.n + 1 \in Nat \ {0} /\ size \in Nat /\ size <= MaxSize
              /\ buckets \in Tables
            BY <1>1, MainIs, Sizes DEF TypeInv, InMain, Fields
        <3>2. P \cap Entries = {}
            BY <3>1, SlotsAre
        <3> QED
            BY <3>2, Solid
    <2> HIDE DEF P
    <2> QED
        BY <2>1, <1>2, <1>3, EatTree
<1>10. Buckets'
    BY <1>6, <1>7, <1>8, <1>9 DEF Buckets, SteadyPcs, GrowPcs, FlushPcs
<1>11. Owned'
    <2>1. \A d \in Live' : val[d] \notin freed'
        BY <1>1, <1>3, <1>5, <1>6, <1>8, Solid, CellsAreDistinct DEF Solo, Owned
    <2>2. g_dict \notin freed' /\ buckets \notin freed'
        BY <1>1, <1>3, <1>4, <1>6, Solid, CellsAreDistinct DEF Solo, Owned, TypeInv, Fields
    <2> QED
        BY <2>1, <2>2, <1>6, <1>8 DEF Solo, Owned
<1>12. Hold'
    BY <1>1, <1>6, <1>7 DEF Solo, Hold, GrowPcs
<1>13. Counted'
    BY <1>6, <1>7 DEF Solo, Counted, UnderWay, FlushPcs
<1>e. UNCHANGED <<exp, acked>> /\ acked = [k \in Keys |-> Nil]
    BY <1>1, <1>4
       DEF FlushEntry, Touch, Solo, Answering, FlushPcs, heap, shape, memory, dict, fields,
           ghost
<1>own. acked[keyOf[e]] # val[e]
    <2>1. keyOf[e] \in Keys /\ val[e] # Nil
        BY <1>3, Solid, CellsAreDistinct DEF Cells
    <2> QED
        BY <2>1, <1>e
<1>ans. Answered'
    BY <1>e, <1>6, <1>8, <1>own, StaysAnswered DEF Solo, Answered
<1>ing. Answering'
    BY <1>e, <1>7 DEF Solo, Answering, DelPcs, SetPcs, GrowPcs, FlushPcs
<1> QED
    BY <1>6, <1>10, <1>11, <1>12, <1>13, <1>b, <1>ans, <1>ing DEF Solo

LEMMA FlushBucketAlone ==
    ASSUME TypeInv, Solo, FlushBucket PROVE Solo'
<1>1. main.pc = "flush"
    BY DEF FlushBucket, NextBucket
<1> DEFINE P == Slots(buckets, main.n + 1, size)
<1>2. /\ main.ent = Nil /\ ub' = ub
      /\ UNCHANGED <<link, keyOf, val, allocated, freed, g_dict, buckets, size, count>>
    BY DEF FlushBucket, NextBucket, heap, shape, memory, dict, fields
<1>3. Tree(link, Hanging, P, Nil)
    BY <1>1, <1>2 DEF Solo, Buckets
<1>n. main.n \in 1 .. size /\ size \in Nat /\ size <= MaxSize /\ buckets \in Tables
    BY <1>1, MainIs, Sizes DEF TypeInv, InMain, Fields
<1>5. CASE main.n = size
    <2>r. PICK r : r = [main EXCEPT !.pc = "flush_free", !.n = 0]
        OBVIOUS
    <2>t. th' = [th EXCEPT !["main"] = r]
        BY <1>5, <2>r, MainIs DEF FlushBucket, NextBucket, Become, Go, Ahead, main, Running
    <2>b. main' = r /\ sweep' = sweep
        BY <2>t, MainGoesOn DEF TypeInv
    <2>l. main \in Locals
        BY MainIs DEF TypeInv
    <2>f. /\ r.pc = "flush_free" /\ r.key = main.key /\ r.ent = main.ent
           /\ r.prev = main.prev /\ r.next = main.next /\ r.obj = main.obj
           /\ r.tab = main.tab /\ r.d = main.d /\ r.n = 0
        BY <2>r, <2>l DEF Locals
    <2>1. main'.pc = "flush_free" /\ main'.d = main.d
        BY <2>b, <2>f
    <2>2. Hanging = {}
        <3>1. P = {}
            <4>1. main.n + 1 .. size = {}
                BY <1>5, <1>n
            <4> QED
                BY <4>1 DEF Slots
        <3>0. PICK S : S = {}
            OBVIOUS
        <3>2. \A p \in P \cup S : link[p] \in S \cup {Nil}
            BY <3>0, <3>1
        <3> HIDE DEF P
        <3>3. Hanging \subseteq S
            BY <1>3, <3>0, <3>2, Met
        <3> QED
            BY <3>0, <3>3
    <2>3. Live' = Live /\ Aside = {} /\ Aside' = {} /\ Hanging' = Hanging
        BY <1>1, <1>2, <2>1 DEF Live, Aside, Hanging
    <2>4. Buckets'
        BY <2>1, <2>2, <2>3 DEF Buckets, SteadyPcs, GrowPcs, FlushPcs
    <2>5. Owned'
        BY <1>1, <1>2, <2>1, <2>3 DEF Solo, Owned
    <2>6. Hold'
        BY <1>1, <1>2, <2>1 DEF Solo, Hold, GrowPcs
    <2>7. Counted'
        BY <1>2, <2>1 DEF Solo, Counted, UnderWay, FlushPcs
    <2>e. UNCHANGED <<exp, acked>> /\ acked = [k \in Keys |-> Nil]
        BY <1>1
           DEF FlushBucket, NextBucket, Solo, Answering, FlushPcs, heap, shape, memory, dict,
               fields, ghost
    <2>ans. Answered'
        BY <2>e, <1>2, <2>3, StaysAnswered DEF Solo, Answered
    <2>ing. Answering'
        BY <2>e, <2>1 DEF Solo, Answering, DelPcs, SetPcs, GrowPcs, FlushPcs
    <2> QED
        BY <1>2, <2>4, <2>5, <2>6, <2>7, <2>b, <2>ans, <2>ing DEF Solo
<1>6. CASE main.n # size
    <2>r. PICK r : r = [main EXCEPT !.n = main.n + 1, !.ent = link[<<buckets, main.n + 1>>]]
        OBVIOUS
    <2>t. th' = [th EXCEPT !["main"] = r]
        BY <1>6, <2>r, MainIs DEF FlushBucket, NextBucket, Become, Go, Ahead, main, Running
    <2>b. main' = r /\ sweep' = sweep
        BY <2>t, MainGoesOn DEF TypeInv
    <2>l. main \in Locals
        BY MainIs DEF TypeInv
    <2>f. /\ r.pc = main.pc /\ r.key = main.key
           /\ r.ent = link[<<buckets, main.n + 1>>] /\ r.prev = main.prev
           /\ r.next = main.next /\ r.obj = main.obj /\ r.tab = main.tab
           /\ r.d = main.d /\ r.n = main.n + 1
        BY <2>r, <2>l DEF Locals
    <2>1. main'.pc = "flush" /\ main'.d = main.d /\ main'.n = main.n + 1
        BY <1>1, <2>b, <2>f
    <2>2. main'.ent = link[<<buckets, main.n + 1>>]
        BY <2>b, <2>f
    <2>3. Live' = Live /\ Aside = {} /\ Aside' = {} /\ Hanging' = Hanging
        BY <1>1, <1>2, <2>1 DEF Live, Aside, Hanging
    <2> DEFINE s == <<buckets, main.n + 1>>
    <2>4. main.n + 1 \in Nat \ {0} /\ main.n + 1 <= size
        BY <1>6, <1>n
    <2>5. s \in P /\ P \ {s} = Slots(buckets, main.n + 1 + 1, size)
        BY <2>4, <1>n, NextSlots
    <2>6. P \cap Hanging = {} /\ Nil \notin Hanging
        <3>1. P \cap Entries = {}
            BY <2>4, <1>n, SlotsAre
        <3> QED
            BY <3>1, Solid
    <2>7. Tree(link, Hanging, P \ {s}, link[s])
        <3> HIDE DEF P, s
        <3> QED
            BY <1>3, <2>5, <2>6, AdvanceTree
    <2>8. Buckets'
        <3>1. main'.n + 1 = main.n + 1 + 1
            BY <2>1
        <3>2. Tree(link', Hanging', Slots(buckets', main'.n + 1, size'), main'.ent)
            BY <1>2, <2>2, <2>3, <2>5, <2>7, <3>1
        <3> QED
            BY <2>1, <3>2 DEF Buckets, SteadyPcs, GrowPcs, FlushPcs
    <2>9. Owned'
        BY <1>1, <1>2, <2>1, <2>3 DEF Solo, Owned
    <2>10. Hold'
        BY <1>1, <1>2, <2>1 DEF Solo, Hold, GrowPcs
    <2>11. Counted'
        BY <1>2, <2>1 DEF Solo, Counted, UnderWay, FlushPcs
    <2>e. UNCHANGED <<exp, acked>> /\ acked = [k \in Keys |-> Nil]
        BY <1>1
           DEF FlushBucket, NextBucket, Solo, Answering, FlushPcs, heap, shape, memory, dict,
               fields, ghost
    <2>ans. Answered'
        BY <2>e, <1>2, <2>3, StaysAnswered DEF Solo, Answered
    <2>ing. Answering'
        BY <2>e, <2>1 DEF Solo, Answering, DelPcs, SetPcs, GrowPcs, FlushPcs
    <2> QED
        BY <1>2, <2>8, <2>9, <2>10, <2>11, <2>b, <2>ans, <2>ing DEF Solo
<1> QED
    BY <1>5, <1>6

LEMMA FlushFreeAlone ==
    ASSUME TypeInv, Solo, FlushFree PROVE Solo'
<1>1. main.pc = "flush_free"
    BY DEF FlushFree
<1>2. /\ freed' = freed \cup {buckets, g_dict} /\ ub' = ub
      /\ UNCHANGED <<link, keyOf, val, allocated, g_dict, buckets, size, count>>
    BY DEF FlushFree, heap, shape, memory, dict, fields
<1>r. PICK r : r = [main EXCEPT !.pc = "flush_new"]
    OBVIOUS
<1>t. th' = [th EXCEPT !["main"] = r]
    BY <1>r, MainIs DEF FlushFree, Become, Go, Ahead, main, Running
<1>b. main' = r /\ sweep' = sweep
    BY <1>t, MainGoesOn DEF TypeInv
<1>l. main \in Locals
    BY MainIs DEF TypeInv
<1>f. /\ r.pc = "flush_new" /\ r.key = main.key /\ r.ent = main.ent
       /\ r.prev = main.prev /\ r.next = main.next /\ r.obj = main.obj
       /\ r.tab = main.tab /\ r.d = main.d /\ r.n = main.n
    BY <1>r, <1>l DEF Locals
<1>3. main'.pc = "flush_new" /\ main'.d = main.d
    BY <1>b, <1>f
<1>4. Live = {} /\ Live' = {} /\ Hanging' = {}
    BY <1>1, <1>2 DEF Live, Aside, Hanging, Solo, Buckets
<1>5. Buckets'
    BY <1>3, <1>4 DEF Buckets, SteadyPcs, GrowPcs, FlushPcs
<1>6. Owned'
    BY <1>2, <1>3, <1>4 DEF Solo, Owned
<1>7. Hold'
    BY <1>1, <1>2, <1>3 DEF Solo, Hold, GrowPcs
<1>8. Counted'
    BY <1>2, <1>3 DEF Solo, Counted, UnderWay, FlushPcs
<1>e. UNCHANGED <<exp, acked>> /\ acked = [k \in Keys |-> Nil]
    BY <1>1
       DEF FlushFree, Solo, Answering, FlushPcs, heap, shape, memory, dict, fields, ghost
<1>ans. Answered'
    BY <1>e, <1>2, <1>4, StaysAnswered DEF Solo, Answered
<1>ing. Answering'
    BY <1>e, <1>3 DEF Solo, Answering, DelPcs, SetPcs, GrowPcs, FlushPcs
<1> QED
    BY <1>2, <1>5, <1>6, <1>7, <1>8, <1>b, <1>ans, <1>ing DEF Solo

LEMMA FlushNewAlone ==
    ASSUME TypeInv, Solo, FlushNew PROVE Solo'
<1>1. main.pc = "flush_new"
    BY DEF FlushNew
<1> DEFINE D == Fresh(Dicts)
           t == Fresh(Tables)
<1>2. /\ D \in Dicts /\ D \notin allocated /\ t \in Tables /\ t \notin allocated
      /\ D \notin Entries /\ t \notin Entries
    <2>1. Dicts \ allocated # {} /\ Tables \ allocated # {}
        BY <1>1, MainIs DEF TypeInv, InMain, FlushPcs
    <2> QED
        BY <2>1, FreshIs, CellsAreDistinct
<1> HIDE DEF D, t
<1>3. /\ g_dict' = D /\ buckets' = t /\ allocated' = allocated \cup {D, t}
      /\ size' = InitialSize /\ count' = 0 /\ ub' = ub
      /\ UNCHANGED <<link, keyOf, val, freed>>
    BY DEF FlushNew, heap, shape, memory, dict, fields, D, t
<1>4. main' = Idle /\ sweep' = sweep
    <2>1. th' = [th EXCEPT !["main"] = Idle]
        BY DEF FlushNew, Become
    <2> QED
        BY <2>1, MainGoesOn DEF TypeInv
<1>5. main'.pc = "idle"
    BY <1>4, IdleIs
<1>6. Live = {} /\ Live' = {} /\ Hanging' = {}
    BY <1>1, <1>2, <1>3 DEF Live, Aside, Hanging, Solo, Buckets
<1>7. \A i \in 1 .. InitialSize : link[<<t, i>>] = Nil
    <2>1. \A i \in 1 .. InitialSize : i \in 1 .. MaxSize
        BY Sizes
    <2> QED
        BY <2>1, <1>2 DEF Solo, Owned
<1>8. Buckets'
    <2>1. Tree(link, {}, Slots(t, 1, InitialSize), Nil)
        BY <1>7 DEF Tree, Slots
    <2>2. Home(link, keyOf, t, InitialSize, {})
        BY <1>7 DEF Home
    <2> QED
        BY <2>1, <2>2, <1>3, <1>5, <1>6 DEF Buckets, InBuckets, GrowPcs, FlushPcs
<1>9. Owned'
    <2>1. D \notin freed /\ t \notin freed
        BY <1>2 DEF TypeInv, Heap
    <2> QED
        BY <2>1, <1>3, <1>6 DEF Solo, Owned
<1>10. Hold'
    BY <1>5 DEF Hold, GrowPcs
<1>11. Counted'
    <2>1. IsFiniteSet(allocated')
        <3>1. IsFiniteSet(allocated \cup {D})
            BY FS_AddElement DEF Solo, Counted
        <3>2. allocated' = (allocated \cup {D}) \cup {t}
            BY <1>3
        <3> QED
            BY <3>1, <3>2, FS_AddElement
    <2>2. Cardinality(Hanging') = 0
        BY <1>6, FS_EmptySet
    <2> QED
        BY <2>1, <2>2, <1>3, <1>5 DEF Counted, UnderWay, FlushPcs
<1>e. UNCHANGED <<exp, acked>> /\ acked = [k \in Keys |-> Nil]
    BY <1>1
       DEF FlushNew, Solo, Answering, FlushPcs, heap, shape, memory, dict, fields, ghost
<1>ans. Answered'
    BY <1>e, <1>3, <1>6, StaysAnswered DEF Solo, Answered
<1>ing. Answering'
    BY <1>5 DEF Solo, Answering, DelPcs, SetPcs, GrowPcs, FlushPcs
<1> QED
    BY <1>3, <1>4, <1>8, <1>9, <1>10, <1>11, <1>ans, <1>ing DEF Solo

-----------------------------------------------------------------------------
(* What holds of the main thread alone *)

\* The first state: one empty table.
LEMMA SoloInit == ASSUME Init PROVE Solo
<1>1. main = Idle /\ main.pc = "idle" /\ sweep = Idle
    BY IdleIs DEF Init, Threads, main, sweep
<1>2. buckets \in Tables /\ g_dict \in Dicts
    BY CellsAreDistinct DEF Init
<1>3. Live = {} /\ Hanging = {}
    BY <1>2, CellsAreDistinct DEF Init, Live, Hanging
<1>4. \A t \in Tables : \A i \in 1 .. MaxSize : link[<<t, i>>] = Nil
    BY DEF Init, Places
<1>5. Buckets
    <2>1. \A i \in 1 .. size : link[<<buckets, i>>] = Nil
        <3>1. \A i \in 1 .. size : i \in 1 .. MaxSize
            BY Sizes DEF Init
        <3> QED
            BY <3>1, <1>2, <1>4
    <2>2. /\ Tree(link, {}, Slots(buckets, 1, size), Nil)
          /\ Home(link, keyOf, buckets, size, {})
        BY <2>1 DEF Tree, Home, Slots
    <2> QED
        BY <2>2, <1>1, <1>3 DEF Buckets, InBuckets, GrowPcs, FlushPcs
<1>6. Owned
    BY <1>3, <1>4 DEF Init, Owned
<1>7. Hold
    BY <1>1 DEF Hold, GrowPcs
<1>8. Counted
    <2>1. IsFiniteSet({buckets} \cup {g_dict})
        BY FS_EmptySet, FS_AddElement, FS_Singleton, FS_Union
    <2>2. allocated = {buckets} \cup {g_dict}
        BY DEF Init
    <2> QED
        BY <2>1, <2>2, <1>1, <1>3, FS_EmptySet DEF Init, Counted, UnderWay, FlushPcs
<1>u. ~ub /\ sweep.pc = "idle"
    BY <1>1, IdleIs DEF Init
<1>ans. Answered
    BY <1>3 DEF Init, Answered
<1>ing. Answering
    BY <1>1 DEF Answering, DelPcs, SetPcs, GrowPcs, FlushPcs
<1> QED
    BY <1>1, <1>5, <1>6, <1>7, <1>8, <1>u, <1>ans, <1>ing DEF Solo

\* A step of the clock, or none.
LEMMA SoloStutter ==
    ASSUME Solo, UNCHANGED structure, UNCHANGED <<th, ub, exp, acked>>
    PROVE  Solo'
<1>1. main' = main /\ sweep' = sweep
    BY DEF main, sweep
<1>2. Live' = Live /\ Hanging' = Hanging
    BY <1>1 DEF structure, Live, Hanging, Aside
<1>3. Buckets'
    <2>1. ASSUME NEW M \in SUBSET Hanging, Parted(M) PROVE Parted(M)'
        BY <1>1, <1>2, <2>1 DEF structure, Parted
    <2>2. InBuckets(buckets, size) => InBuckets(buckets, size)'
        BY <1>2 DEF structure, InBuckets
    <2>3. InBuckets(buckets, 2 * size) => InBuckets(buckets, 2 * size)'
        BY <1>2 DEF structure, InBuckets
    <2>4. InBuckets(main.tab, 2 * size) => InBuckets(main.tab, 2 * size)'
        BY <1>1, <1>2 DEF structure, InBuckets
    <2> QED
        BY <1>1, <1>2, <2>1, <2>2, <2>3, <2>4 DEF Solo, Buckets, structure
<1>4. Owned'
    BY <1>1, <1>2 DEF Solo, Owned, structure
<1>5. Hold'
    <2>1. Bucket(main.key)' = Bucket(main.key)
        BY <1>1 DEF Bucket, structure
    <2> QED
        BY <1>1, <1>2, <2>1 DEF Solo, Hold, structure
<1>6. Counted'
    BY <1>1, <1>2 DEF Solo, Counted, structure
<1>ans. Answered'
    BY StillAnswered DEF Solo, structure
<1>ing. Answering'
    BY <1>1, <1>2 DEF Solo, Answering, structure
<1> QED
    BY <1>1, <1>3, <1>4, <1>5, <1>6, <1>ans, <1>ing DEF Solo

\* Every step of main keeps Solo; the sweep thread never wakes.
LEMMA SoloStep ==
    ASSUME TypeInv, Solo, ~sweep_running, [Next]_vars PROVE Solo'
<1>1. CASE \E k \in Keys : GetBegin(k) \/ DelBegin(k) \/ SetBegin(k) \/ ExpireBegin(k)
    BY <1>1, GetBeginAlone, DelBeginAlone, SetBeginAlone, ExpireBeginAlone
<1>2. CASE GetFind \/ GetRead \/ ExpireFind \/ (\E d \in Delays : ExpireWrite(d))
    BY <1>2, GetFindAlone, GetReadAlone, ExpireFindAlone, ExpireWriteAlone
<1>3. CASE SetSize \/ GrowRead \/ GrowMove \/ GrowBucket \/ GrowFree \/ GrowTable \/ GrowSize
    BY <1>3, SetSizeAlone, GrowReadAlone, GrowMoveAlone, GrowBucketAlone, GrowFreeAlone,
       GrowTableAlone, GrowSizeAlone
<1>4. CASE SetFind \/ SetFree \/ SetVal \/ SetNew \/ SetLink \/ SetAck
    BY <1>4, SetFindAlone, SetFreeAlone, SetValAlone, SetNewAlone, SetLinkAlone, SetAckAlone
<1>5. CASE FlushBegin \/ FlushEntry \/ FlushBucket \/ FlushFree \/ FlushNew
    BY <1>5, FlushBeginAlone, FlushEntryAlone, FlushBucketAlone, FlushFreeAlone,
       FlushNewAlone
<1>6. CASE CheckExpiry("main")
    BY <1>6, CheckFindAlone, CheckExpAlone, DelFindAlone, DelUnlinkAlone, DelFreeAlone,
       CountLoadAlone, CountStoreAlone, CheckDoneAlone DEF CheckExpiry
<1>7. CASE Sweep
    BY <1>7
       DEF Sweep, SweepWake, SweepBucket, SweepEntry, SweepNext, CheckExpiry, CheckFind,
       CheckExp, DelFind, DelUnlink, DelFree, CountLoad, CountStore, CheckDone, Solo, sweep
<1>8. CASE Tick
    BY <1>8, SoloStutter DEF Tick, structure, ghost, heap, shape, memory, dict, fields
<1>9. CASE UNCHANGED vars
    BY <1>9, SoloStutter DEF vars, structure, ghost, heap, shape, memory, dict, fields
<1> QED
    BY <1>1, <1>2, <1>3, <1>4, <1>5, <1>6, <1>7, <1>8, <1>9 DEF Next, Main

\* Where main starts no sweep thread, Solo holds throughout.
THEOREM OneThread == Spec => [](~sweep_running => Solo)
<1> DEFINE I == ~sweep_running => Solo
<1>1. Init => I
    BY SoloInit
<1>2. TypeInv /\ I /\ [Next]_vars => I'
    <2>1. [Next]_vars => sweep_running' = sweep_running
        BY DEF Next, vars
    <2> QED
        BY <2>1, SoloStep
<1> HIDE DEF I
<1>3. Spec => []I
    BY <1>1, <1>2, TypeInvariant, PTL DEF Spec
<1> QED
    BY <1>3 DEF I

\* Without the sweep thread no command ever touches memory that was freed.
THEOREM NothingFreedIsTouched == Spec => []NoUseAfterFree
<1>1. (~sweep_running => Solo) => NoUseAfterFree
    BY DEF Solo, NoUseAfterFree
<1> QED
    BY <1>1, OneThread, PTL

\* Between two commands a lookup finds exactly the entries that hang in the table.
LEMMA LookupIs ==
    ASSUME TypeInv, Solo, main.pc = "idle", NEW k \in Keys
    PROVE  /\ Hanging = Live
           /\ Find(k) # Nil => Find(k) \in Hanging /\ keyOf[Find(k)] = k
           /\ \A e \in Hanging : keyOf[e] = k => Find(k) = e
<1>1. Hanging \subseteq Entries /\ Hanging = Live
    BY Solid DEF Hanging, Aside
<1>2. \A d, e \in Hanging : keyOf[d] = keyOf[e] => d = e
    BY <1>1 DEF Solo, Owned
<1>3. InBuckets(buckets, size)
    BY PcsAre DEF Solo, Buckets, GrowPcs, FlushPcs
<1> QED
    BY <1>1, <1>2, <1>3, WalkMeets DEF TypeInv, InBuckets

\* Linked keys and hanging entries are as many: one entry per key.
LEMMA LinkedIsHanging ==
    ASSUME TypeInv, Solo, main.pc = "idle"
    PROVE  Cardinality(Linked) = Cardinality(Hanging)
<1>1. /\ Nil \notin Hanging /\ IsFiniteSet(Hanging)
      /\ \A e \in Hanging : keyOf[e] \in Keys
    BY Solid DEF Hanging, Aside
<1>2. \A d, e \in Hanging : keyOf[d] = keyOf[e] => d = e
    BY DEF Solo, Owned, Hanging
<1>4. \A k \in Keys : /\ Find(k) # Nil => Find(k) \in Hanging /\ keyOf[Find(k)] = k
                      /\ \A e \in Hanging : keyOf[e] = k => Find(k) = e
    BY LookupIs
<1>5. Linked = {keyOf[e] : e \in Hanging}
    <2>1. ASSUME NEW k \in Linked PROVE k \in {keyOf[e] : e \in Hanging}
        BY <1>4 DEF Linked
    <2>2. ASSUME NEW e \in Hanging PROVE keyOf[e] \in Linked
        BY <1>1, <1>4 DEF Linked
    <2> QED
        BY <2>1, <2>2
<1>6. [e \in Hanging |-> keyOf[e]] \in Bijection(Hanging, Linked)
    BY <1>2, <1>5, Fun_IsBij
<1> QED
    BY <1>1, <1>6, FS_Bijection DEF ExistsBijection

\* Without the sweep thread d->count is the number of keys that a lookup finds,
\* whenever no command is under way.
THEOREM CountedExactly == Spec => []CountIsExact
<1>1. TypeInv /\ (~sweep_running => Solo) => CountIsExact
    <2> SUFFICES ASSUME TypeInv, Solo, th["main"] = Idle PROVE count = Cardinality(Linked)
        BY DEF CountIsExact
    <2>1. main.pc = "idle"
        BY IdleIs DEF main
    <2>2. count = Cardinality(Hanging)
        BY <2>1 DEF Solo, Counted, UnderWay, FlushPcs
    <2> QED
        BY <2>1, <2>2, LinkedIsHanging
<1> QED
    BY <1>1, OneThread, TypeInvariant, PTL

\* Without the sweep thread a key whose last command was an answered SET is
\* there with that value, in memory that is in use.
THEOREM AnsweredStays == Spec => [](~sweep_running => AckedSetKept)
<1>1. TypeInv /\ (~sweep_running => Solo) => (~sweep_running => AckedSetKept)
    <2> SUFFICES ASSUME TypeInv, Solo, NEW k \in Keys, acked[k] # Nil, main = Idle
                 PROVE  /\ Find(k) # Nil /\ val[Find(k)] = acked[k]
                        /\ acked[k] \notin freed
        BY DEF AckedSetKept, Intact
    <2>1. main.pc = "idle"
        BY IdleIs
    <2>2. PICK e \in Live : keyOf[e] = k /\ val[e] = acked[k]
        BY DEF Solo, Answered
    <2>3. Find(k) = e /\ e # Nil
        BY <2>1, <2>2, LookupIs, Solid
    <2>4. val[e] \notin freed
        BY <2>1, <2>2 DEF Solo, Owned
    <2> QED
        BY <2>2, <2>3, <2>4
<1> QED
    BY <1>1, OneThread, TypeInvariant, PTL

=============================================================================
