-------------------------------- MODULE Dict --------------------------------
(***************************************************************************)
(* The chained hash table of dict.cpp, one call at a time: the keyspace,   *)
(* every hash and the member index of every sorted set is one of these.    *)
(* (SweepRace takes the calls on the keyspace apart.)                      *)
(*                                                                         *)
(* A dict is its buckets, each the entries from the head on, and the count *)
(* it keeps.  Keys are compared whole.                                     *)
(***************************************************************************)
EXTENDS Integers, SequencesExt

CONSTANTS
    None,           \* dict_get's null pointer
    HashOf,         \* key -> its hash
    InitialSize     \* DICT_INITIAL_SIZE (16), a power of two

ASSUME InitialSizeIsPositive == InitialSize \in Nat \ {0}
ASSUME HashesAreNumbers == \A key \in DOMAIN HashOf : HashOf[key] \in Nat

NewDict == [buckets |-> [i \in 1 .. InitialSize |-> << >>], count |-> 0]

Index(key, size) == (HashOf[key] % size) + 1

\* The order of dict_each.
Entries(d) == FlattenSeq(d.buckets)

\* e at the head of bucket i.
Prepended(buckets, i, e) ==
    [j \in DOMAIN buckets |-> IF j = i THEN <<e>> \o buckets[j] ELSE buckets[j]]

\* BUG: the entries keep the indices of the old table.
DictResizeOldIndex(d, size) ==
    LET es == Entries(d)
        moved[n \in 0 .. Len(es)] ==
            IF n = 0 THEN [i \in 1 .. size |-> << >>]
            ELSE Prepended(moved[n - 1], Index(es[n].key, Len(d.buckets)), es[n])
    IN  [d EXCEPT !.buckets = moved[Len(es)]]

\* Entries are moved in that order, each to the head of its new bucket.
DictResize(d, size) ==
    LET es == Entries(d)
        moved[n \in 0 .. Len(es)] ==
            IF n = 0 THEN [i \in 1 .. size |-> << >>]
            ELSE Prepended(moved[n - 1], Index(es[n].key, size), es[n])
    IN  [d EXCEPT !.buckets = moved[Len(es)]]

Bucket(d, key) == d.buckets[Index(key, Len(d.buckets))]

\* The place of key in its bucket, 0 if it has none.
Place(d, key) == SelectInSeq(Bucket(d, key), LAMBDA e : e.key = key)

DictGet(d, key) ==
    IF Place(d, key) = 0 THEN None ELSE Bucket(d, key)[Place(d, key)].val

\* BUG: an entry that is there keeps its value.
DictSetKeepsOld(d, key, val) ==
    LET i == Index(key, Len(d.buckets))
    IN  IF Place(d, key) # 0 THEN d
        ELSE [buckets |-> Prepended(d.buckets, i, [key |-> key, val |-> val]),
              count |-> d.count + 1]

\* DICT_LOAD_FACTOR is 0.75; the test comes before the look for the key.
DictSet(d, key, val) ==
    LET size == Len(d.buckets)
        t == IF 4 * d.count > 3 * size THEN DictResize(d, 2 * size) ELSE d
        i == Index(key, Len(t.buckets))
        entry == [key |-> key, val |-> val]
    IN  IF Place(t, key) # 0
        THEN [t EXCEPT !.buckets[i] =
                 [p \in DOMAIN @ |-> IF p = Place(t, key) THEN entry ELSE @[p]]]
        ELSE [buckets |-> Prepended(t.buckets, i, entry),
              count |-> t.count + 1]

\* BUG: the count drops for a key that is not there.
DictDelMiscounts(d, key) ==
    [buckets |-> [d.buckets EXCEPT ![Index(key, Len(d.buckets))] =
                     SelectSeq(@, LAMBDA e : e.key # key)],
     count |-> d.count - 1]

DictDel(d, key) ==
    IF Place(d, key) = 0 THEN d
    ELSE [buckets |-> [d.buckets EXCEPT ![Index(key, Len(d.buckets))] =
                          RemoveAt(@, Place(d, key))],
          count |-> d.count - 1]
=============================================================================
