------------------------------ MODULE SweepRace ------------------------------
(***************************************************************************)
(* The dictionary shared by two threads without a lock: the event loop,    *)
(* which runs the command handlers, and the sweep thread, which wakes up   *)
(* every second, collects keys with a deadline and runs check_expiry on    *)
(* each (expiry.cpp).  The main of src/src starts it, the older one of     *)
(* src/main.cpp does not: sweep_running.                                   *)
(*                                                                         *)
(* One action per access to shared memory that the other thread can tell   *)
(* apart; a walk along a bucket that only reads is one step.  SET may find *)
(* the table crowded and replace it by one of twice its size, FLUSHDB      *)
(* replaces the dictionary.  Memory is never reused.                       *)
(* Touching freed memory is undefined: the model stops there with ub TRUE, *)
(* having shown that the program gets there.                               *)
(***************************************************************************)
EXTENDS Integers, FiniteSets, Sequences

CONSTANTS
    Keys, Nil,
    Entries,    \* the DictEntry cells malloc may return
    Objects,    \* the Obj cells new may return
    Tables,     \* the bucket arrays calloc may return
    Dicts,      \* the Dict cells new may return
    Hash,       \* key -> its hash
    InitialSize,\* the number of buckets of a new dictionary (16)
    MaxSize,    \* bound on the number of buckets
    SweepMax,   \* how many keys one sweep collects (20)
    Mains,      \* whether main starts the sweep thread: TRUE, FALSE
    Delays,     \* what EXPIRE adds to the clock
    MaxNow      \* bound on the clock

Cells == Entries \cup Objects \cup Tables \cup Dicts

ASSUME Sizes == /\ InitialSize \in Nat \ {0} /\ MaxSize \in Nat
                /\ InitialSize <= MaxSize /\ Hash \in [Keys -> Nat]
ASSUME SweepConstants == SweepMax \in Nat /\ Mains \subseteq BOOLEAN
ASSUME ClockBounds == Delays \subseteq Int /\ MaxNow \in Nat
ASSUME CellsAreDistinct ==
    /\ Nil \notin Cells \cup Keys
    /\ Entries \cap (Objects \cup Tables \cup Dicts) = {}
    /\ Objects \cap (Tables \cup Dicts) = {} /\ Tables \cap Dicts = {}
    /\ Entries \cap (Tables \X (1..MaxSize)) = {}
    /\ Tables # {} /\ Dicts # {}

VARIABLES
    link,       \* bucket or entry -> the entry it points to (e->next)
    keyOf,      \* entry -> its key
    val,        \* entry -> its object (e->val)
    exp,        \* object -> expire_at_ms
    allocated,  \* cells handed out so far
    freed,      \* cells given back
    g_dict,     \* the dictionary, and its fields
    buckets, size, count,
    sweep_running,
    now,
    th,         \* thread -> where it is, with its locals
    todo,       \* the sweep's collected keys (SweepCtx::keys)
    acked,      \* key -> object of the answered SET nothing has undone, or Nil
    ttled,      \* keys EXPIRE was ever used on
    ub          \* freed memory was touched

Places  == (Tables \X (1..MaxSize)) \cup Entries
Threads == {"main", "sweep"}

shape  == <<link, keyOf, val>>
memory == <<allocated, freed>>
fields == <<g_dict, buckets, size>>
dict   == <<fields, count>>
heap   == <<shape, exp, memory, dict>>
ghost  == <<acked, ttled>>
vars   == <<heap, sweep_running, now, th, todo, ghost, ub>>

\* A thread's program counter, the operation it is in, and its locals.
Idle == [pc |-> "idle", op |-> "none", key |-> Nil, ent |-> Nil, prev |-> Nil,
         next |-> Nil, obj |-> Nil, tab |-> Nil, d |-> Nil, n |-> 0]

\* A cell that was never handed out.
Fresh(cells) == CHOOSE x \in cells \ allocated : TRUE

Init ==
    /\ link = [p \in Places |-> Nil]
    /\ keyOf = [e \in Entries |-> Nil]
    /\ val = [e \in Entries |-> Nil]
    /\ exp = [o \in Objects |-> 0]
    /\ buckets = CHOOSE t \in Tables : TRUE
    /\ g_dict = CHOOSE d \in Dicts : TRUE
    /\ size = InitialSize /\ count = 0
    /\ allocated = {buckets, g_dict} /\ freed = {}
    /\ sweep_running \in Mains
    /\ now = 1
    /\ th = [t \in Threads |-> Idle]
    /\ todo = << >>
    /\ acked = [k \in Keys |-> Nil] /\ ttled = {}
    /\ ub = FALSE

Go(t, pc) == th' = [th EXCEPT ![t].pc = pc]
Become(t, r) == th' = [th EXCEPT ![t] = r]
\* The same operation at pc, its locals dead.
Ahead(t, pc) == Become(t, [Idle EXCEPT !.pc = pc, !.op = th[t].op,
                                       !.key = th[t].key, !.d = th[t].d])

\* A step of thread t that first touches the cells in touched.
Touch(touched, step) ==
    IF touched \cap freed = {} THEN step /\ UNCHANGED ub
    ELSE ub' = TRUE /\ UNCHANGED <<heap, now, th, todo, ghost>>

-----------------------------------------------------------------------------
(* Walking a bucket *)

\* dict_hash(key) & (size - 1), and the bucket of that index.
BucketOf(k, sz) == (Hash[k] % sz) + 1
Bucket(k) == <<buckets, BucketOf(k, size)>>
Cell(place) == IF place \in Entries THEN place ELSE place[1]

\* The entries a walk looking for k passes or ends at: the least set with the
\* head of the bucket and, for each entry of another key, the next one.
Leads(p, S) == link[p] = Nil \/ link[p] \in S
Visited(k) ==
    LET walks == {S \in SUBSET Entries :
                     Leads(Bucket(k), S) /\ \A e \in S : keyOf[e] = k \/ Leads(e, S)}
    IN  {e \in Entries : \A S \in walks : e \in S}

\* The entry of k (Nil: none) and the place that points to it.
Find(k) == LET here == {e \in Visited(k) : keyOf[e] = k}
           IN  IF here = {} THEN Nil ELSE CHOOSE e \in here : TRUE
PrevOf(k) == CHOOSE p \in {Bucket(k)} \cup Visited(k) : link[p] = Find(k)

\* The cells t reads when it looks for its key.
Walk(t) == {th[t].d, buckets} \cup Visited(th[t].key)

Linked == {k \in Keys : Find(k) # Nil}

-----------------------------------------------------------------------------
(* check_expiry and dict_del, run by either thread *)

\* dict_get at the head of check_expiry.
CheckFind(t) ==
    LET k == th[t].key
        e == Find(k)
    IN  /\ th[t].pc = "chk_find"
        /\ Touch(Walk(t),
              /\ IF e = Nil THEN Go(t, "chk_done")
                 ELSE Become(t, [th[t] EXCEPT !.pc = "chk_exp", !.obj = val[e]])
              /\ UNCHANGED <<heap, now, todo, ghost>>)

\* The reads of expire_at_ms and of the clock.
CheckExp(t) ==
    LET o == th[t].obj
    IN  /\ th[t].pc = "chk_exp"
        /\ Touch({o},
              /\ Ahead(t, IF exp[o] = 0 \/ now < exp[o] THEN "chk_done"
                          ELSE "del_find")
              /\ UNCHANGED <<heap, now, todo, ghost>>)

\* dict_del walks the bucket anew.
DelFind(t) ==
    LET k == th[t].key
        e == Find(k)
    IN  /\ th[t].pc = "del_find"
        /\ Touch(Walk(t),
              /\ IF e = Nil THEN Go(t, "chk_done")
                 ELSE Become(t, [th[t] EXCEPT !.pc = "del_unlink", !.ent = e,
                                              !.prev = PrevOf(k)])
              /\ UNCHANGED <<heap, now, todo, ghost>>)

\* BUG: the entry is freed but stays in its bucket.
DelUnlinkForgotten(t) ==
    /\ th[t].pc = "del_unlink"
    /\ Touch({th[t].ent}, /\ Go(t, "del_free")
                          /\ UNCHANGED <<heap, now, todo, ghost>>)

\* *prev = e->next.
DelUnlink(t) ==
    LET e == th[t].ent
    IN  /\ th[t].pc = "del_unlink"
        /\ Touch({e, Cell(th[t].prev)},
              /\ link' = [link EXCEPT ![th[t].prev] = link[e]]
              /\ Go(t, "del_free")
              /\ UNCHANGED <<keyOf, val, exp, memory, dict, now, todo, ghost>>)

\* BUG: the successor is freed in place of the entry.
DelFreeNext(t) ==
    LET e == th[t].ent
    IN  /\ th[t].pc = "del_free"
        /\ Touch({e, val[e]},
              /\ freed' = freed \cup {link[e], val[e]}
              /\ Ahead(t, "del_load")
              /\ UNCHANGED <<shape, exp, allocated, dict, now, todo, ghost>>)

\* sds_free(e->key), delete e->val, free(e).
DelFree(t) ==
    LET e == th[t].ent
    IN  /\ th[t].pc = "del_free"
        /\ Touch({e, val[e]},
              /\ freed' = freed \cup {e, val[e]}
              /\ Ahead(t, "del_load")
              /\ UNCHANGED <<shape, exp, allocated, dict, now, todo, ghost>>)

\* d->count-- and d->count++ load, then store.
CountLoad(t) ==
    /\ th[t].pc \in {"del_load", "set_load"}
    /\ Touch({th[t].d},
          /\ Become(t, [th[t] EXCEPT !.n = count,
                      !.pc = IF @ = "del_load" THEN "del_store" ELSE "set_store"])
          /\ UNCHANGED <<heap, now, todo, ghost>>)

CountStore(t) ==
    /\ th[t].pc \in {"del_store", "set_store"}
    /\ Touch({th[t].d},
          /\ \/ /\ th[t].pc = "del_store"
                /\ count' = th[t].n - 1
                /\ Ahead(t, "chk_done")
             \/ /\ th[t].pc = "set_store"
                /\ count' = th[t].n + 1
                /\ Become(t, [th[t] EXCEPT !.pc = "set_ack", !.n = 0])
          /\ UNCHANGED <<shape, exp, memory, fields, now, todo, ghost>>)

\* The caller goes on: GET reads, DEL answers, the sweep takes its next key.
CheckDone(t) ==
    /\ th[t].pc = "chk_done"
    /\ CASE th[t].op = "sweep" -> Become(t, [Idle EXCEPT !.pc = "next", !.op = "sweep"])
         [] th[t].op = "get"   -> Go(t, "get_find")
         [] th[t].op = "del"   -> Become(t, Idle)
    /\ UNCHANGED <<heap, now, todo, ghost, ub>>

CheckExpiry(t) == \/ CheckFind(t) \/ CheckExp(t)
                  \/ DelFind(t) \/ DelUnlink(t) \/ DelFree(t)
                  \/ CountLoad(t) \/ CountStore(t) \/ CheckDone(t)

-----------------------------------------------------------------------------
(* The event loop: one command at a time *)

Begin(op, pc, k, o) ==
    /\ th["main"] = Idle
    /\ Become("main", [Idle EXCEPT !.op = op, !.pc = pc, !.key = k, !.obj = o,
                                   !.d = g_dict])

GetBegin(k) == /\ Begin("get", "chk_find", k, Nil)
               /\ UNCHANGED <<heap, now, todo, ghost, ub>>

DelBegin(k) == /\ Begin("del", "del_find", k, Nil)
               /\ acked' = [acked EXCEPT ![k] = Nil]
               /\ UNCHANGED <<heap, now, todo, ttled, ub>>

\* dict_set's test.  A count below zero is a huge size_t.
Crowded == count < 0 \/ 4 * count > 3 * size
CanGrow == 2 * size <= MaxSize /\ Tables \ allocated # {}

\* SET makes its object before it calls dict_set.
SetBegin(k) ==
    LET o == Fresh(Objects)
    IN  /\ Objects \ allocated # {} /\ Entries \ allocated # {}
        /\ Crowded => CanGrow
        /\ Begin("set", "set_size", k, o)
        /\ allocated' = allocated \cup {o}
        /\ acked' = [acked EXCEPT ![k] = Nil]
        /\ UNCHANGED <<shape, exp, freed, dict, now, todo, ttled, ub>>

\* From here on the key has, or may have, a deadline.
ExpireBegin(k) == /\ Begin("expire", "exp_find", k, Nil)
                  /\ acked' = [acked EXCEPT ![k] = Nil]
                  /\ ttled' = ttled \cup {k}
                  /\ UNCHANGED <<heap, now, todo, ub>>

main == th["main"]

\* dict_get, then the use of the object it returned.
GetFind ==
    LET e == Find(main.key)
    IN  /\ main.pc = "get_find"
        /\ Touch(Walk("main"),
              /\ IF e = Nil THEN Become("main", Idle)
                 ELSE Become("main", [main EXCEPT !.pc = "get_read", !.obj = val[e]])
              /\ UNCHANGED <<heap, now, todo, ghost>>)

GetRead == /\ main.pc = "get_read"
           /\ Touch({main.obj}, /\ Become("main", Idle)
                                /\ UNCHANGED <<heap, now, todo, ghost>>)

ExpireFind ==
    LET e == Find(main.key)
    IN  /\ main.pc = "exp_find"
        /\ Touch(Walk("main"),
              /\ IF e = Nil THEN Become("main", Idle)
                 ELSE Become("main", [main EXCEPT !.pc = "exp_write", !.obj = val[e]])
              /\ UNCHANGED <<heap, now, todo, ghost>>)

ExpireWrite(d) ==
    /\ main.pc = "exp_write"
    /\ Touch({main.obj}, /\ exp' = [exp EXCEPT ![main.obj] = now + d]
                         /\ Become("main", Idle)
                         /\ UNCHANGED <<shape, memory, dict, now,
                                        todo, ghost>>)

\* dict_set: a crowded table grows first.
SetSize ==
    /\ main.pc = "set_size"
    /\ \/ /\ ~Crowded
          /\ Go("main", "set_find")
          /\ UNCHANGED allocated
       \/ /\ Crowded /\ CanGrow
          /\ allocated' = allocated \cup {Fresh(Tables)}
          /\ Become("main", [main EXCEPT !.pc = "grow", !.tab = Fresh(Tables),
                                         !.n = 1, !.ent = link[<<buckets, 1>>]])
    /\ UNCHANGED <<shape, exp, freed, dict, now, todo, ghost, ub>>

\* dict_resize's walk over the old table: e->next is read ...
GrowRead ==
    LET e == main.ent
    IN  /\ main.pc = "grow" /\ e # Nil
        /\ Touch({e}, /\ Become("main", [main EXCEPT !.next = link[e], !.pc = "grow_move"])
                      /\ UNCHANGED <<heap, now, todo, ghost>>)

\* BUG: the new index is computed with the old size.
GrowMoveOldIndex ==
    LET e == main.ent
        slot == <<main.tab, BucketOf(keyOf[e], size)>>
    IN  /\ main.pc = "grow_move"
        /\ Touch({e},
              /\ link' = [link EXCEPT ![e] = link[slot], ![slot] = e]
              /\ Become("main", [main EXCEPT !.ent = main.next, !.next = Nil, !.pc = "grow"])
              /\ UNCHANGED <<keyOf, val, exp, memory, dict, now, todo, ghost>>)

\* ... and the entry becomes the head of its new bucket.
GrowMove ==
    LET e == main.ent
        slot == <<main.tab, BucketOf(keyOf[e], 2 * size)>>
    IN  /\ main.pc = "grow_move"
        /\ Touch({e},
              /\ link' = [link EXCEPT ![e] = link[slot], ![slot] = e]
              /\ Become("main", [main EXCEPT !.ent = main.next, !.next = Nil, !.pc = "grow"])
              /\ UNCHANGED <<keyOf, val, exp, memory, dict, now, todo, ghost>>)

\* The loops of dict_resize and ~Dict pass to the next bucket of the table.
NextBucket(pc, end) ==
    /\ main.pc = pc /\ main.ent = Nil
    /\ IF main.n = size THEN Become("main", [main EXCEPT !.pc = end, !.n = 0])
       ELSE Become("main", [main EXCEPT !.n = @ + 1, !.ent = link[<<buckets, main.n + 1>>]])
    /\ UNCHANGED <<heap, now, todo, ghost, ub>>
GrowBucket == NextBucket("grow", "grow_free")

\* The old table is freed, the new one installed, the size doubled.
GrowFree == /\ main.pc = "grow_free"
            /\ freed' = freed \cup {buckets}
            /\ Go("main", "grow_table")
            /\ UNCHANGED <<shape, exp, allocated, dict, now, todo, ghost, ub>>

GrowTable == /\ main.pc = "grow_table"
             /\ buckets' = main.tab
             /\ Become("main", [main EXCEPT !.pc = "grow_size", !.tab = Nil])
             /\ UNCHANGED <<shape, exp, memory, g_dict, size, count, now, todo, ghost, ub>>

GrowSize == /\ main.pc = "grow_size"
            /\ size' = 2 * size
            /\ Go("main", "set_find")
            /\ UNCHANGED <<shape, exp, memory, g_dict, buckets, count, now, todo, ghost, ub>>

\* Then the walk, and either the value is replaced ...
SetFind ==
    LET e == Find(main.key)
    IN  /\ main.pc = "set_find"
        /\ Touch(Walk("main"),
              /\ Become("main", [main EXCEPT !.ent = e,
                             !.pc = IF e = Nil THEN "set_new" ELSE "set_free"])
              /\ UNCHANGED <<heap, now, todo, ghost>>)

SetFree ==
    /\ main.pc = "set_free"
    /\ Touch({main.ent, val[main.ent]},
          /\ freed' = freed \cup {val[main.ent]}
          /\ Go("main", "set_val")
          /\ UNCHANGED <<shape, exp, allocated, dict, now, todo, ghost>>)

SetVal ==
    /\ main.pc = "set_val"
    /\ Touch({main.ent},
          /\ val' = [val EXCEPT ![main.ent] = main.obj]
          /\ Go("main", "set_ack")
          /\ UNCHANGED <<link, keyOf, exp, memory, dict, now, todo,
                         ghost>>)

\* ... or a new entry reads the head of its bucket and then becomes the head.
SetNew ==
    LET e == Fresh(Entries)
    IN  /\ main.pc = "set_new"
        /\ allocated' = allocated \cup {e}
        /\ keyOf' = [keyOf EXCEPT ![e] = main.key]
        /\ val' = [val EXCEPT ![e] = main.obj]
        /\ link' = [link EXCEPT ![e] = link[Bucket(main.key)]]
        /\ Become("main", [main EXCEPT !.ent = e, !.pc = "set_link"])
        /\ UNCHANGED <<exp, freed, dict, now, todo, ghost, ub>>

\* BUG: count++ is missing.
SetLinkUncounted ==
    /\ main.pc = "set_link"
    /\ link' = [link EXCEPT ![Bucket(main.key)] = main.ent]
    /\ Go("main", "set_ack")
    /\ UNCHANGED <<keyOf, val, exp, memory, dict, now, todo, ghost, ub>>

SetLink ==
    /\ main.pc = "set_link"
    /\ link' = [link EXCEPT ![Bucket(main.key)] = main.ent]
    /\ Go("main", "set_load")
    /\ UNCHANGED <<keyOf, val, exp, memory, dict, now, todo, ghost, ub>>

\* The handler answers OK.
SetAck ==
    /\ main.pc = "set_ack"
    /\ acked' = [acked EXCEPT ![main.key] = main.obj]
    /\ Become("main", Idle)
    /\ UNCHANGED <<heap, now, todo, ttled, ub>>

\* FLUSHDB: ~Dict deletes entry by entry, ...
FlushBegin ==
    /\ Dicts \ allocated # {} /\ Tables \ allocated # {}
    /\ th["main"] = Idle
    /\ Become("main", [Idle EXCEPT !.op = "flush", !.pc = "flush", !.n = 1,
                           !.d = g_dict, !.ent = link[<<buckets, 1>>]])
    /\ acked' = [k \in Keys |-> Nil]
    /\ UNCHANGED <<heap, now, todo, ttled, ub>>

FlushEntry ==
    LET e == main.ent
    IN  /\ main.pc = "flush" /\ e # Nil
        /\ Touch({e, val[e]},
              /\ freed' = freed \cup {e, val[e]}
              /\ Become("main", [main EXCEPT !.ent = link[e]])
              /\ UNCHANGED <<shape, exp, allocated, dict, now, todo, ghost>>)

FlushBucket == NextBucket("flush", "flush_free")

FlushFree == /\ main.pc = "flush_free"
             /\ freed' = freed \cup {buckets, g_dict}
             /\ Go("main", "flush_new")
             /\ UNCHANGED <<shape, exp, allocated, dict, now, todo, ghost, ub>>

\* BUG: g_dict keeps the dictionary that was deleted.
FlushNotReplaced ==
    /\ main.pc = "flush_new"
    /\ Become("main", Idle)
    /\ UNCHANGED <<heap, now, todo, ghost, ub>>

\* ... and g_dict gets a new one, empty and of the initial size.
FlushNew ==
    /\ main.pc = "flush_new"
    /\ g_dict' = Fresh(Dicts) /\ buckets' = Fresh(Tables)
    /\ allocated' = allocated \cup {Fresh(Dicts), Fresh(Tables)}
    /\ size' = InitialSize /\ count' = 0
    /\ Become("main", Idle)
    /\ UNCHANGED <<shape, exp, freed, now, todo, ghost, ub>>

Main == \/ \E k \in Keys : GetBegin(k) \/ DelBegin(k) \/ SetBegin(k) \/ ExpireBegin(k)
        \/ GetFind \/ GetRead \/ ExpireFind \/ \E d \in Delays : ExpireWrite(d)
        \/ SetSize \/ GrowRead \/ GrowMove \/ GrowBucket
        \/ GrowFree \/ GrowTable \/ GrowSize
        \/ SetFind \/ SetFree \/ SetVal \/ SetNew \/ SetLink \/ SetAck
        \/ FlushBegin \/ FlushEntry \/ FlushBucket \/ FlushFree \/ FlushNew
        \/ CheckExpiry("main")

-----------------------------------------------------------------------------
(* The sweep thread *)

sweep == th["sweep"]

\* The second is over; dict_each starts at the first bucket of *dict_ptr.
SweepWake ==
    /\ sweep_running /\ sweep.pc = "idle"
    /\ Touch({g_dict, buckets},
          /\ Become("sweep", [Idle EXCEPT !.pc = "scan", !.op = "sweep", !.n = 1,
                                          !.d = g_dict, !.ent = link[<<buckets, 1>>]])
          /\ UNCHANGED <<heap, now, todo, ghost>>)

\* The callback stopped dict_each, or the table is at its end.
EndScan == Become("sweep", [Idle EXCEPT !.pc = "next", !.op = "sweep"])

\* dict_each passes from an empty rest of a bucket to the next bucket.
SweepBucket ==
    /\ sweep.pc = "scan" /\ sweep.ent = Nil
    /\ Touch({sweep.d, buckets},
          /\ IF sweep.n >= size THEN EndScan
             ELSE Become("sweep", [sweep EXCEPT !.n = @ + 1,
                                       !.ent = link[<<buckets, sweep.n + 1>>]])
          /\ UNCHANGED <<heap, now, todo, ghost>>)

\* BUG: sweep_cb ends the walk at the first key without a deadline.
SweepEntryStopsEarly ==
    LET e == sweep.ent
    IN  /\ sweep.pc = "scan" /\ e # Nil
        /\ Touch({e, val[e]},
              /\ IF Len(todo) >= SweepMax \/ exp[val[e]] = 0
                 THEN /\ EndScan
                      /\ UNCHANGED todo
                 ELSE /\ Become("sweep", [sweep EXCEPT !.ent = link[e]])
                      /\ todo' = Append(todo, keyOf[e])
              /\ UNCHANGED <<heap, now, ghost>>)

\* dict_each reads e->next and calls sweep_cb, which collects keys with a
\* deadline until it has SweepMax of them.
SweepEntry ==
    LET e == sweep.ent
    IN  /\ sweep.pc = "scan" /\ e # Nil
        /\ Touch({e, val[e]},
              /\ IF Len(todo) >= SweepMax
                 THEN /\ EndScan
                      /\ UNCHANGED todo
                 ELSE /\ Become("sweep", [sweep EXCEPT !.ent = link[e]])
                      /\ todo' = IF exp[val[e]] # 0 THEN Append(todo, keyOf[e])
                                 ELSE todo
              /\ UNCHANGED <<heap, now, ghost>>)

\* The loop over the collected keys; after the last one the thread sleeps.
SweepNext ==
    /\ sweep.pc = "next"
    /\ IF todo = << >> THEN Become("sweep", Idle) /\ UNCHANGED todo
       ELSE /\ Become("sweep", [sweep EXCEPT !.pc = "chk_find", !.key = Head(todo),
                                           !.d = g_dict])
            /\ todo' = Tail(todo)
    /\ UNCHANGED <<heap, now, ghost, ub>>

Sweep == SweepWake \/ SweepBucket \/ SweepEntry \/ SweepNext \/ CheckExpiry("sweep")

Tick == now < MaxNow /\ now' = now + 1 /\ UNCHANGED <<heap, th, todo, ghost, ub>>

Next == ~ub /\ (Main \/ Sweep \/ Tick) /\ UNCHANGED sweep_running

\* Both threads are scheduled; clients need not send anything.
Busy == th["main"] # Idle
Spec == /\ Init /\ [][Next]_vars
        /\ WF_vars(~ub /\ Sweep /\ UNCHANGED sweep_running)
        /\ WF_vars(~ub /\ Busy /\ Main /\ UNCHANGED sweep_running)

-----------------------------------------------------------------------------
(* Properties *)

\* The types of the variables; what was freed had been allocated.
TypeOK ==
    /\ link \in [Places -> Entries \cup {Nil}]
    /\ val \in [Entries -> Objects \cup {Nil}]
    /\ exp \in [Objects -> Int]
    /\ freed \subseteq allocated /\ allocated \subseteq Cells
    /\ g_dict \in Dicts /\ buckets \in Tables /\ size \in 1..MaxSize
    /\ todo \in Seq(Keys) /\ Len(todo) <= SweepMax
    /\ ub \in BOOLEAN

\* What a client may rely on after SET k is answered: by the time of the next
\* command the key is there with that value and its memory is in use.
Intact(k) == acked[k] # Nil /\ main = Idle =>
                 LET e == Find(k)
                 IN  e # Nil /\ val[e] = acked[k] /\ acked[k] \notin freed

\* The README's "all data structure manipulation happens on one thread": a key
\* whose last command was an answered SET is there with that value, whatever
\* EXPIREs came before that SET (dict_set gives it a new object without a
\* deadline) and whatever else goes on.
AckedSetKept == \A k \in Keys : Intact(k)

\* Keys of one bucket, as long as the table does not grow.
Neighbours(j, k) == BucketOf(j, InitialSize) = BucketOf(k, InitialSize)

\* An answered SET stays, but for what the sweep can damage: the buckets of
\* keys that were once given a deadline, since it collects only those and
\* unlinks nothing but their entries.  The bucket is that of the first table:
\* entries that a growing table drives apart may still be reached from each
\* other by what the sweep remembers.
DamageStaysInBucket ==
    \A k \in Keys :
        (sweep_running => \A j \in Keys : Neighbours(j, k) => j \notin ttled) => Intact(k)

\* Without the sweep d->count, the key count of DBSIZE and of the snapshot's
\* header, is the number of entries linked whenever no command is under way.
CountIsExact ==
    ~sweep_running /\ th["main"] = Idle => count = Cardinality(Linked)

\* BGSAVE forks between two commands, whatever the sweep is at.  The README's
\* "the child inherits a snapshot of memory" and "on restart the server reads
\* the snapshot": what the child inherits is a dictionary that can be loaded,
\* with as many entries as the header will say.
ForkInheritsWhole == th["main"] = Idle => count = Cardinality(Linked)

\* Without the sweep no entry, object, table or dictionary is touched after it
\* was freed.
NoUseAfterFree == ~sweep_running => ~ub

Overdue(k) == LET e == Find(k)
              IN  e # Nil /\ exp[val[e]] # 0 /\ exp[val[e]] <= now

\* The keys a sweep collects again and again without ever deleting one, if
\* the clock does not reach their deadlines: as many as it can collect.
CrowdedOut(k) ==
    LET ToCome(e) == e # Nil /\ exp[val[e]] > now
    IN  Cardinality({j \in Keys \ {k} : ToCome(Find(j))}) >= SweepMax

\* A key past its deadline does not stay for good, though no client ever
\* names it again: the sweep gets to it, unless SweepMax other keys have
\* deadlines that are still to come, or the program ran into undefined
\* behaviour.
SweepProgress ==
    sweep_running => \A k \in Keys : Overdue(k) ~> ub \/ ~Overdue(k) \/ CrowdedOut(k)
=============================================================================
