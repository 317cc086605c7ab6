------------------------------ MODULE SkipList ------------------------------
(***************************************************************************)
(* The skip list of skiplist.cpp.  A skip list is its level, its length    *)
(* and its nodes, each at an address with one forward pointer per level of *)
(* its own; the header is at address 0 and Null is the null pointer.       *)
(*                                                                         *)
(* Scores are compared as doubles (no comparison with NaN holds), members  *)
(* with strcmp, which ends at a NUL byte: members of one StrRank are       *)
(* strcmp-equal.  random_level is the caller's choice.                     *)
(***************************************************************************)
EXTENDS Integers, SequencesExt

CONSTANTS
    NaN,            \* the score that is no number
    StrRank,        \* the place of each member in strcmp order
    MaxLevel        \* SKIPLIST_MAX_LEVEL

ASSUME MaxLevelIsPositive == MaxLevel \in Nat \ {0}

Null == -1
Less(s, t) == NaN \notin {s, t} /\ s < t
Same(s, t) == NaN \notin {s, t} /\ s = t

NewSkipList == [level |-> 1, length |-> 0,
                node |-> [a \in {0} |->
                    [score |-> 0, member |-> 0,
                     forward |-> [i \in 1 .. MaxLevel |-> Null]]]]

Follow(sl, a, i) == sl.node[a].forward[i]

\* The test of the search loops: the node at a comes before (score, member).
ComesBefore(sl, a, member, score) ==
    \/ Less(sl.node[a].score, score)
    \/ /\ Same(sl.node[a].score, score)
       /\ StrRank[sl.node[a].member] < StrRank[member]

\* Where the loop on level i ends that starts at node a: it goes on while the
\* next node comes before (score, member), past each node once at most.
Search(sl, i, a, member, score) ==
    LET steps == Cardinality(DOMAIN sl.node)
        at[n \in 0 .. steps] ==
            IF n = 0 THEN a
            ELSE LET b == at[n - 1]
                     next == Follow(sl, b, i)
                 IN  IF next # Null /\ ComesBefore(sl, next, member, score)
                     THEN next ELSE b
    IN  at[steps]

\* update: on each level, from the top one down, the last node that comes
\* before (score, member), searched from where the level above ended.
Update(sl, member, score) ==
    LET update[i \in 1 .. sl.level] ==
            Search(sl, i, IF i = sl.level THEN 0 ELSE update[i + 1], member, score)
    IN  update

\* The nodes of level i in their order.
Chain(sl, i) ==
    LET at[n \in 0 .. Cardinality(DOMAIN sl.node)] ==
            IF n = 0 THEN 0
            ELSE LET a == at[n - 1]
                 IN  IF a = Null THEN Null ELSE Follow(sl, a, i)
    IN  [n \in 1 .. Max({n \in DOMAIN at : at[n] # Null}) |-> at[n]]

\* sl_delete: levels are relinked from the bottom up to the first one on which
\* the node does not follow; then empty top levels go.
SlDelete(sl, member, score) ==
    LET update == Update(sl, member, score)
        x == Follow(sl, update[1], 1)
        linked == {i \in 1 .. sl.level : \A j \in 1 .. i : Follow(sl, update[j], j) = x}
        node == [a \in DOMAIN sl.node \ {x} |->
                    [sl.node[a] EXCEPT !.forward = [i \in DOMAIN @ |->
                        IF i \in linked /\ update[i] = a THEN Follow(sl, x, i) ELSE @[i]]]]
    IN  IF x = Null THEN sl
        ELSE IF StrRank[sl.node[x].member] # StrRank[member] THEN sl
        ELSE [node |-> node, length |-> sl.length - 1,
              level |-> Max({1} \cup {i \in 1 .. sl.level :
                                         node[0].forward[i] # Null})]

\* The place of the first node strcmp-equal to member, 0 if there is none.
PlaceOf(sl, member) ==
    SelectInSeq(Chain(sl, 1), LAMBDA a : StrRank[sl.node[a].member] = StrRank[member])

\* The node there.
FindMember(sl, member) ==
    IF PlaceOf(sl, member) = 0 THEN Null ELSE Chain(sl, 1)[PlaceOf(sl, member)]

\* BUG: levels above the current one are not linked from the header.
SlInsertNoHeader(sl, member, score, lvl) ==
    LET update == Update(sl, member, score)
        n == Min({a \in 1 .. Cardinality(DOMAIN sl.node) : a \notin DOMAIN sl.node})
        new == [score |-> score, member |-> member,
                forward |-> [i \in 1 .. lvl |->
                    IF i <= sl.level THEN Follow(sl, update[i], i) ELSE Null]]
    IN  [level |-> Max({sl.level, lvl}), length |-> sl.length + 1,
         node |-> [a \in DOMAIN sl.node \cup {n} |->
             IF a = n THEN new
             ELSE [sl.node[a] EXCEPT !.forward = [i \in DOMAIN @ |->
                     IF i <= Min({lvl, sl.level}) /\ update[i] = a THEN n ELSE @[i]]]]]

\* sl_insert: a node of that member is deleted first and the search repeated.
SlInsert(sl, member, score, lvl) ==
    LET old == FindMember(sl, member)
        s == IF old = Null THEN sl ELSE SlDelete(sl, member, sl.node[old].score)
        update == Update(s, member, score)
        Before(i) == IF i <= s.level THEN update[i] ELSE 0
        n == Min({a \in 1 .. Cardinality(DOMAIN s.node) : a \notin DOMAIN s.node})
        new == [score |-> score, member |-> member,
                forward |-> [i \in 1 .. lvl |-> Follow(s, Before(i), i)]]
    IN  [level |-> Max({s.level, lvl}), length |-> s.length + 1,
         node |-> [a \in DOMAIN s.node \cup {n} |->
             IF a = n THEN new
             ELSE [s.node[a] EXCEPT !.forward = [i \in DOMAIN @ |->
                     IF i <= lvl /\ Before(i) = a THEN n ELSE @[i]]]]]

\* sl_get_rank: the members before the first strcmp-equal one, -1 without one.
SlRank(sl, member) == PlaceOf(sl, member) - 1

\* sl_range_by_rank: at most max members and scores.
SlRange(sl, start, end, max) ==
    LET from == Max({0, IF start < 0 THEN sl.length + start ELSE start})
        last == Min({sl.length - 1, IF end < 0 THEN sl.length + end ELSE end})
        n    == Min({max, last - from + 1, Len(Chain(sl, 1)) - from})
    IN  [i \in 1 .. n |-> Chain(sl, 1)[from + i]]
=============================================================================
