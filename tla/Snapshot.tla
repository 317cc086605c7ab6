------------------------------ MODULE Snapshot ------------------------------
(***************************************************************************)
(* SAVE, BGSAVE, the snapshot file and the restart (rdb.cpp, commands.cpp, *)
(* main.cpp).                                                              *)
(*                                                                         *)
(* SAVE runs rdb_save in the server process, BGSAVE in a forked child that *)
(* works on a copy of the dictionary and outlives a killed server.  Every  *)
(* rdb_save writes path.tmp and renames it to path, whoever else is doing  *)
(* the same.  Processes die at any moment; a write fails when the disk is  *)
(* full, and nobody looks at its result.                                   *)
(*                                                                         *)
(* A file is the sequence of chunks in it: the header with the key count,  *)
(* one chunk per entry, and the checksum, which stands for the chunks it   *)
(* was computed from.  Chunks have one size, so that what two writers of   *)
(* one file leave behind is decided chunk by chunk.                        *)
(***************************************************************************)
EXTENDS Integers, SequencesExt

CONSTANTS
    Keys, Vals, Nil,
    Children,       \* the processes fork may create
    Inodes,         \* the files the disk has room for
    MaxSaves,       \* bound on the number of rdb_saves begun
    MaxFails        \* bound on the number of writes that fail

ASSUME KeysAreFinite == IsFiniteSet(Keys)
ASSUME NilIsNothing == Nil \notin Vals \cup Inodes
ASSUME ServerIsNoChild == "server" \notin Children
ASSUME BoundsAreNats == MaxSaves \in Nat /\ MaxFails \in Nat

VARIABLES
    db,         \* g_dict of the running server
    up,         \* whether the server runs
    loaded,     \* what rdb_load said at the last start
    saver,      \* process -> the rdb_save it is in
    file,       \* inode -> its chunks
    tmp, path,  \* the inodes the two names point to, or Nil
    answer,     \* the server's last answer to SAVE or BGSAVE
    saves,      \* how many rdb_saves were begun
    fails,      \* how many writes failed
    published,  \* the image of the last rdb_save that renamed its file
    tainted     \* inodes two processes opened, one renamed that another wrote,
                \* or that miss a failed write

vars == <<db, up, loaded, saver, file, tmp, path, answer, saves, fails, published,
          tainted>>
counts == <<saves, fails>>
disk == <<file, tmp, path, tainted>>

Procs  == Children \cup {"server"}
Images == [Keys -> Vals \cup {Nil}]
Empty  == [k \in Keys |-> Nil]

Header(n)   == <<"header", n>>
Entry(k, v) == <<"entry", k, v>>
Crc(cs)     == <<"crc", cs>>
Hole        == <<"hole">>

\* What an rdb_save of img writes before the checksum: dict_each visits the
\* keys in the order of their slots, which may be any.
KeysIn(img) == SetToSeq({k \in Keys : img[k] # Nil})
Body(img) == <<Header(Len(KeysIn(img)))>>
                \o [i \in DOMAIN KeysIn(img) |-> Entry(KeysIn(img)[i], img[KeysIn(img)[i]])]

Resting == [pc |-> "none", img |-> Empty, left |-> << >>, out |-> << >>, ino |-> Nil]

Holders(i) == {p \in Procs : saver[p].ino = i}
\* A file nobody names or has open is gone.
Kept == [i \in Inodes |-> IF i \in {tmp', path'} \/ \E p \in Procs : saver'[p].ino = i
                          THEN file[i] ELSE << >>]
Free == {i \in Inodes : i # tmp /\ i # path /\ Holders(i) = {}}

Init ==
    /\ db = Empty /\ up = TRUE /\ loaded = "nofile"
    /\ saver = [p \in Procs |-> Resting]
    /\ file = [i \in Inodes |-> << >>]
    /\ tmp = Nil /\ path = Nil
    /\ answer = "none"
    /\ saves = 0 /\ fails = 0
    /\ published = Empty
    /\ tainted = {}

-----------------------------------------------------------------------------
(* The server's commands; it serves nobody while it saves *)

Serving == up /\ saver["server"].pc = "none"

Put(k, v) == /\ Serving
             /\ db' = [db EXCEPT ![k] = v]
             /\ UNCHANGED <<up, loaded, saver, disk, answer, counts, published>>

Del(k) == /\ Serving
             /\ db' = [db EXCEPT ![k] = Nil]
             /\ UNCHANGED <<up, loaded, saver, disk, answer, counts, published>>

Begin(p) == /\ saves < MaxSaves /\ saves' = saves + 1 /\ UNCHANGED fails
            /\ saver' = [saver EXCEPT ![p] = [Resting EXCEPT !.pc = "open", !.img = db]]

Save == /\ Serving
        /\ Begin("server")
        /\ answer' = "none"
        /\ UNCHANGED <<db, up, loaded, disk, published>>

\* The child saves the dictionary as it was at the fork.
BgSave(c) == /\ Serving /\ saver[c].pc = "none"
             /\ Begin(c)
             /\ answer' = "started"
             /\ UNCHANGED <<db, up, loaded, disk, published>>

BgSaveForkFails == /\ Serving
                   /\ answer' = "error"
                   /\ UNCHANGED <<db, up, loaded, saver, disk, counts, published>>

-----------------------------------------------------------------------------
(* rdb_save, in process p *)

\* cmd_save answers with what rdb_save returned; a child just exits.
Return(p, ok) ==
    /\ saver' = [saver EXCEPT ![p] = Resting]
    /\ answer' = IF p # "server" THEN answer ELSE IF ok THEN "OK" ELSE "error"

\* fopen(tmp, "wb") empties the file that is there, or makes one.
Open(p) ==
    /\ saver[p].pc = "open"
    /\ LET i == IF tmp # Nil THEN tmp ELSE CHOOSE i \in Free : TRUE
       IN  /\ tmp # Nil \/ Free # {}
           /\ tmp' = i
           /\ file' = [file EXCEPT ![i] = << >>]
           /\ tainted' = IF Holders(i) = {} THEN tainted \ {i} ELSE tainted \cup {i}
           /\ saver' = [saver EXCEPT ![p].pc = "write", ![p].ino = i,
                                     ![p].left = Body(saver[p].img)]
    /\ UNCHANGED <<db, up, loaded, path, answer, counts, published>>

\* BUG: rdb_save goes on without its file.
OpenFailsGoesOn(p) ==
    /\ saver[p].pc = "open"
    /\ saver' = [saver EXCEPT ![p].pc = "write", ![p].left = Body(saver[p].img)]
    /\ UNCHANGED <<db, up, loaded, disk, answer, counts, published>>

OpenFails(p) ==
    /\ saver[p].pc = "open"
    /\ Return(p, FALSE)
    /\ UNCHANGED <<db, up, loaded, disk, counts, published>>

\* The chunk that is due: the body's next one, then the checksum of what
\* was written, then nothing.
Due(p) == IF saver[p].left # << >> THEN Head(saver[p].left) ELSE Crc(saver[p].out)

WriteAt(f, i, c) ==
    [j \in 1 .. (IF i > Len(f) THEN i ELSE Len(f)) |->
        IF j = i THEN c ELSE IF j <= Len(f) THEN f[j] ELSE Hole]

\* BUG: the file is renamed before the checksum is in it.
AdvanceTooSoon(p, out) ==
    saver' = [saver EXCEPT ![p].out = out, ![p].left = Tail(@),
                           ![p].pc = IF Len(saver[p].left) > 1 THEN "write" ELSE "rename"]

Advance(p, out) ==
    saver' = [saver EXCEPT
                 ![p].out = out,
                 ![p].left = IF @ # << >> THEN Tail(@) ELSE @,
                 ![p].pc = IF saver[p].left # << >> THEN "write" ELSE "rename"]

\* Each process has its own offset in the file.
Write(p) ==
    LET i == saver[p].ino
        at == Len(saver[p].out) + 1
    IN  /\ saver[p].pc = "write"
        /\ file' = [file EXCEPT ![i] = WriteAt(@, at, Due(p))]
        /\ Advance(p, Append(saver[p].out, Due(p)))
        /\ UNCHANGED <<db, up, loaded, tmp, path, answer, counts, published, tainted>>

\* A failed write is not in the file and not in the checksum, and rdb_save
\* goes on: write_entry always returns true.
WriteFails(p) ==
    /\ fails < MaxFails /\ fails' = fails + 1
    /\ saver[p].pc = "write"
    /\ tainted' = tainted \cup {saver[p].ino}
    /\ Advance(p, saver[p].out)
    /\ UNCHANGED <<db, up, loaded, file, tmp, path, answer, saves, published>>

\* rename(tmp, path); without a tmp it fails.
Rename(p) ==
    /\ saver[p].pc = "rename"
    /\ Return(p, tmp # Nil)
    /\ IF tmp # Nil
       THEN /\ path' = tmp /\ tmp' = Nil
            /\ published' = saver[p].img
            /\ tainted' = IF tmp = saver[p].ino THEN tainted ELSE tainted \cup {tmp}
       ELSE UNCHANGED <<tmp, path, tainted, published>>
    /\ file' = Kept
    /\ UNCHANGED <<db, up, loaded, counts>>

RdbSave(p) == Open(p) \/ OpenFails(p) \/ Write(p) \/ WriteFails(p) \/ Rename(p)

-----------------------------------------------------------------------------
(* rdb_load: entries go into the dictionary as they are read, and the      *)
(* checksum is looked at afterwards.                                       *)

KeyCount(f) == IF f # << >> /\ f[1][1] = "header" THEN f[1][2] ELSE 0

\* How many of the announced entries can be read one after the other.
Readable(f) ==
    CHOOSE m \in 0 .. KeyCount(f) :
        /\ \A i \in 1 .. m : i + 1 <= Len(f) /\ f[i + 1][1] = "entry"
        /\ m < KeyCount(f) => m + 2 > Len(f) \/ f[m + 2][1] # "entry"

\* BUG: the load stops one entry short.
DbOfShort(f) ==
    [k \in Keys |->
        LET at == {i \in 2 .. Readable(f) : f[i][2] = k}
        IN  IF at = {} THEN Nil
            ELSE f[CHOOSE i \in at : \A j \in at : j <= i][3]]

DbOf(f) ==
    [k \in Keys |->
        LET at == {i \in 2 .. Readable(f) + 1 : f[i][2] = k}
        IN  IF at = {} THEN Nil
            ELSE f[CHOOSE i \in at : \A j \in at : j <= i][3]]

LoadOK(f) ==
    LET n == KeyCount(f)
    IN  /\ f # << >> /\ f[1][1] = "header"
        /\ Readable(f) = n
        /\ Len(f) >= n + 2
        /\ f[n + 2] = Crc(SubSeq(f, 1, n + 1))

\* main goes on whatever rdb_load returned.  (While a child lives, which has
\* the listening socket too, a new server must be given another --port.)
Start ==
    /\ ~up
    /\ up' = TRUE
    /\ answer' = "none"
    /\ IF path = Nil THEN db' = Empty /\ loaded' = "nofile"
       ELSE /\ db' = DbOf(file[path])
            /\ loaded' = IF LoadOK(file[path]) THEN "ok" ELSE "corrupt"
    /\ UNCHANGED <<saver, disk, counts, published>>

\* The server, or a child, is killed; what it wrote stays.
Kill(p) ==
    /\ IF p = "server"
       THEN up /\ up' = FALSE /\ db' = Empty /\ loaded' = "nofile" /\ answer' = "none"
       ELSE saver[p].pc # "none" /\ UNCHANGED <<up, db, loaded, answer>>
    /\ saver' = [saver EXCEPT ![p] = Resting]
    /\ UNCHANGED <<tmp, path, tainted, counts, published>>
    /\ file' = Kept

Next ==
    \/ \E k \in Keys : Del(k) \/ \E v \in Vals : Put(k, v)
    \/ Save \/ BgSaveForkFails \/ \E c \in Children : BgSave(c)
    \/ \E p \in Procs : RdbSave(p) \/ Kill(p)
    \/ Start

Spec == Init /\ [][Next]_vars

-----------------------------------------------------------------------------
(* Properties *)

\* The types of the variables; who writes or renames has a file open.
TypeOK ==
    /\ db \in Images /\ published \in Images
    /\ up \in BOOLEAN /\ loaded \in {"nofile", "ok", "corrupt"}
    /\ answer \in {"none", "OK", "error", "started"}
    /\ DOMAIN saver = Procs
    /\ \A p \in Procs : /\ saver[p].img \in Images
                        /\ saver[p].ino \in Inodes \cup {Nil}
                        /\ saver[p].pc \in {"none", "open", "write", "rename"}
                        /\ saver[p].pc \in {"write", "rename"} => saver[p].ino # Nil
    /\ tmp \in Inodes \cup {Nil} /\ path \in Inodes \cup {Nil}
    /\ tainted \subseteq Inodes

\* Whatever is killed and whenever, the snapshot under the server's path is
\* the whole of the dictionary some SAVE or BGSAVE last published, if one process
\* alone opened, wrote and renamed that file and no write of it failed.
PublishedIsWhole ==
    path # Nil /\ path \notin tainted =>
        LoadOK(file[path]) /\ DbOf(file[path]) = published

\* What a restart finds under an untainted path it takes for what was published.
Restored == Start /\ path # Nil /\ path \notin tainted =>
                db' = published /\ loaded' = "ok"

\* A restart brings back the dictionary an answered SAVE had written, unless
\* a later save took its place.
RestartRestores == [][Restored]_vars

\* The README: if the checksum does not match on load, the server refuses to
\* start.
CorruptRefused == up => loaded # "corrupt"
=============================================================================
