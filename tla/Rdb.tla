-------------------------------- MODULE Rdb --------------------------------
(***************************************************************************)
(* The snapshot file of rdb.cpp, field by field, over the structures of    *)
(* Structures: what rdb_save writes of a value and what rdb_load rebuilds. *)
(* (Snapshot has the processes, the file system and damaged files.)        *)
(*                                                                         *)
(* An entry is a record of key, type, exp and val.  A field of the file is *)
(* a pair of its kind and its value: a reader that asks for another kind   *)
(* is out of step with the writer, and nothing is said of what it loads    *)
(* from there on.                                                          *)
(***************************************************************************)
EXTENDS Structures

CONSTANT SaveMax        \* size of write_entry's on-stack arrays (4096)

ASSUME SaveMaxIsNat == SaveMax \in Nat

Field(kind, v) == <<kind, v>>
Blob(v) == Field("blob", v)

\* BUG: the reader is told of the fields that were cut.
HashFieldsUncut(h) ==
    LET es == SubSeq(Entries(h), 1, Min({SaveMax, h.count}))
    IN  <<Field("u32", h.count)>> \o
        FlattenSeq([i \in DOMAIN es |-> <<Blob(es[i].key), Blob(es[i].val)>>])

\* hash_collect_cb ends the walk when the arrays are full.
HashFields(h) ==
    LET es == SubSeq(Entries(h), 1, Min({SaveMax, h.count}))
    IN  <<Field("u32", Len(es))>> \o
        FlattenSeq([i \in DOMAIN es |-> <<Blob(es[i].key), Blob(es[i].val)>>])

\* Members are written by strlen.
ZSetFields(z) ==
    LET at == SlRange(z.sl, 0, z.sl.length - 1, SaveMax)
    IN  <<Field("u32", z.sl.length)>> \o
        FlattenSeq([i \in DOMAIN at |-> <<Field("double", z.sl.node[at[i]].score),
                                          Blob(CStr[z.sl.node[at[i]].member])>>])

ListFields(l) == <<Field("u32", l.len)>> \o
    [i \in 1 .. l.len |-> Blob(l.node[Forward(l, i - 1)].value)]

FieldsOf(e) == CASE e.type = "string" -> <<Blob(e.val)>>
                 [] e.type = "list" -> ListFields(e.val)
                 [] e.type = "hash" -> HashFields(e.val)
                 [] e.type = "zset" -> ZSetFields(e.val)

WriteEntry(e) == <<Field("u8", e.type), Field("i64", e.exp), Blob(e.key)>> \o FieldsOf(e)

\* The file rdb_save makes of the entries, in the order of dict_each; its magic
\* and version left out.
RdbSave(entries) ==
    LET body == <<Field("u64", Len(entries))>> \o
                FlattenSeq([i \in DOMAIN entries |-> WriteEntry(entries[i])])
    IN  Append(body, Field("crc", Len(body)))

ItemKinds(t) == CASE t = "list" -> <<"blob">>
                  [] t = "hash" -> <<"blob", "blob">>
                  [] t = "zset" -> <<"double", "blob">>

\* The value built from the items read; level is random_level's choice.
Rebuild(t, items, level) ==
    CASE t = "list" ->
            FoldLeft(LAMBDA l, x : ListRPush(l, x[1]), NewList, items)
      [] t = "hash" ->
            FoldLeft(LAMBDA h, x : DictSet(h, x[1], x[2]), NewDict, items)
      [] t = "zset" ->
            FoldLeft(LAMBDA z, x : ZSetAdd(z, x[2], x[1], level), NewZSet, items)

\* One turn of rdb_load's loop, from field p on: the entry, and where the next
\* one starts; 0 if the reader is out of step.
LoadEntry(file, p, level) ==
    LET Read(i) == file[p + i][2]
        t       == Read(0)
        Loaded(v) == [key |-> Read(2), type |-> t, exp |-> Read(1), val |-> v]
        kinds   == ItemKinds(t)
        w       == Len(kinds)
        InStep(n) == /\ p + 3 + w * n <= Len(file)
                     /\ \A i \in 1 .. n, j \in 1 .. w :
                            file[p + 3 + w * (i - 1) + j][1] = kinds[j]
        Items(n) == [i \in 1 .. n |-> [j \in 1 .. w |-> Read(3 + w * (i - 1) + j)]]
    IN  IF t = "string" THEN [next |-> p + 4, entry |-> Loaded(Read(3))]
        ELSE IF InStep(Read(3))
        THEN [next |-> p + 4 + w * Read(3),
              entry |-> Loaded(Rebuild(t, Items(Read(3)), level))]
        ELSE [next |-> 0, entry |-> << >>]

\* rdb_load at time now: what it puts into the dictionary, expired entries
\* left out, and what it answers.
RdbLoad(file, now, level) ==
    LET Live(e) == e.exp = 0 \/ now <= e.exp
        from[p \in 1 .. Len(file), n \in 0 .. file[1][2]] ==
            IF n = 0 THEN [entries |-> << >>, ok |-> file[p] = Field("crc", p - 1)]
            ELSE LET After(r) ==
                        IF r.next = 0 THEN [entries |-> << >>, ok |-> FALSE]
                        ELSE [from[r.next, n - 1] EXCEPT !.entries =
                                 (IF Live(r.entry) THEN <<r.entry>> ELSE << >>) \o @]
                 IN  After(LoadEntry(file, p, level))
    IN  from[2, file[1][2]]

-----------------------------------------------------------------------------

Size(v) == CASE type = "list" -> v.len
             [] type = "hash" -> v.count
             [] type = "zset" -> v.sl.length

String == [key |-> "behind", type |-> "string", exp |-> 0, val |-> "text"]

Entry(exp) == [key |-> "key", type |-> type, exp |-> exp, val |-> val]

\* e is the entry of val, but for the fields that the writer's arrays did not
\* hold.
Restored(exp, e) ==
    /\ e.exp = exp /\ e.type = type
    /\ IF type = "hash" /\ Size(val) > SaveMax
       THEN /\ Size(e.val) = SaveMax
            /\ \A f \in Fields : DictGet(e.val, f) \in {None, DictGet(val, f)}
       ELSE Abs(e.val) = Abs(val)

\* What is saved is loaded: any value and the key written behind it, unless
\* it has passed its deadline.  Only a hash too large for the writer's arrays
\* loses fields.  Of a sorted set too large for them nothing is promised, nor
\* with members cut at a NUL byte or with NaN scores.
SavedIsLoaded ==
    val # None /\ (type = "zset" => NoNul(val) /\ ~odd /\ Size(val) <= SaveMax) =>
        \A exp \in 0 .. 2 : \A file \in {RdbSave(<<Entry(exp), String>>)} :
            \A now \in 1 .. 3, level \in 1 .. MaxLevel :
                \A r \in {RdbLoad(file, now, level)} :
                    /\ r.ok /\ Last(r.entries) = String
                    /\ IF exp = 0 \/ now <= exp
                       THEN Len(r.entries) = 2 /\ Restored(exp, r.entries[1])
                       ELSE Len(r.entries) = 1
=============================================================================
