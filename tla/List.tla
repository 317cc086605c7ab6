-------------------------------- MODULE List --------------------------------
(***************************************************************************)
(* The doubly linked list of list.cpp.  A list is its two ends, its length *)
(* and its nodes, each at an address; 0 is the null pointer.               *)
(***************************************************************************)
EXTENDS Integers, SequencesExt

NewList == [head |-> 0, tail |-> 0, len |-> 0, node |-> << >>]

\* new ListNode: an address that is not in use, linked to nothing.
FreeAddress(used) == Min({a \in 1 .. Cardinality(used) + 1 : a \notin used})
ListNode(value) == [value |-> value, prev |-> 0, next |-> 0]
With(node, n, new) == [a \in DOMAIN node \cup {n} |-> IF a = n THEN new ELSE node[a]]

\* list_lpush and list_rpush.
ListLPush(l, value) ==
    LET n == FreeAddress(DOMAIN l.node)
        node == With(l.node, n, ListNode(value))
    IN  [head |-> n, tail |-> IF l.head = 0 THEN n ELSE l.tail, len |-> l.len + 1,
         node |-> IF l.head = 0 THEN node
                  ELSE [node EXCEPT ![n].next = l.head, ![l.head].prev = n]]

\* BUG: the old tail's next pointer is not set.
ListRPushHalf(l, value) ==
    LET n == FreeAddress(DOMAIN l.node)
        node == With(l.node, n, ListNode(value))
    IN  [head |-> IF l.tail = 0 THEN n ELSE l.head, tail |-> n, len |-> l.len + 1,
         node |-> IF l.tail = 0 THEN node ELSE [node EXCEPT ![n].prev = l.tail]]

ListRPush(l, value) ==
    LET n == FreeAddress(DOMAIN l.node)
        node == With(l.node, n, ListNode(value))
    IN  [head |-> IF l.tail = 0 THEN n ELSE l.head, tail |-> n, len |-> l.len + 1,
         node |-> IF l.tail = 0 THEN node
                  ELSE [node EXCEPT ![n].prev = l.tail, ![l.tail].next = n]]

Without(node, n) == [a \in DOMAIN node \ {n} |-> node[a]]

\* list_lpop and list_rpop of a list that is not empty.
ListLPop(l) ==
    LET next == l.node[l.head].next
        node == Without(l.node, l.head)
    IN  [head |-> next, tail |-> IF next = 0 THEN 0 ELSE l.tail, len |-> l.len - 1,
         node |-> IF next = 0 THEN node ELSE [node EXCEPT ![next].prev = 0]]

ListRPop(l) ==
    LET prev == l.node[l.tail].prev
        node == Without(l.node, l.tail)
    IN  [head |-> IF prev = 0 THEN 0 ELSE l.head, tail |-> prev, len |-> l.len - 1,
         node |-> IF prev = 0 THEN node ELSE [node EXCEPT ![prev].next = 0]]

\* The node n steps from the head along next, or from the tail along prev.
Forward(l, n)  == LET at[i \in 0 .. n] ==
                          IF i = 0 THEN l.head ELSE l.node[at[i - 1]].next
                  IN  at[n]
Backward(l, n) == LET at[i \in 0 .. n] ==
                          IF i = 0 THEN l.tail ELSE l.node[at[i - 1]].prev
                  IN  at[n]

\* list_index starts at the nearer end.  The caller's null pointer is none.
ListIndex(l, index, none) ==
    LET i == IF index < 0 THEN l.len + index ELSE index
    IN  IF i < 0 \/ i >= l.len THEN none
        ELSE IF i < l.len \div 2 THEN l.node[Forward(l, i)].value
        ELSE l.node[Backward(l, l.len - 1 - i)].value

\* BUG: end is taken as exclusive.
ListRangeShort(l, start, end, max) ==
    LET from == Max({0, IF start < 0 THEN l.len + start ELSE start})
        last == Min({l.len - 1, IF end < 0 THEN l.len + end ELSE end})
    IN  [i \in 1 .. Min({max, last - from}) |-> l.node[Forward(l, from + i - 1)].value]

\* list_range: the values from start to end, at most max of them.
ListRange(l, start, end, max) ==
    LET from == Max({0, IF start < 0 THEN l.len + start ELSE start})
        last == Min({l.len - 1, IF end < 0 THEN l.len + end ELSE end})
        n    == Min({max, last - from + 1})
    IN  [i \in 1 .. n |-> l.node[Forward(l, from + i - 1)].value]
=============================================================================
