-------------------------- MODULE StructuresProofs --------------------------
(***************************************************************************)
(* Proofs about the nodes and buckets of a value, for all elements, fields, *)
(* members and scores, every hash function, size of the first table, choice *)
(* of skip-list levels, and with NaN scores and strcmp-equal members.      *)
(*                                                                         *)
(* A list is Strung on a sequence of addresses.  A dict is a Table: each   *)
(* entry is in the bucket of its key, and in it once; what it holds is then *)
(* a set of entries, and dict_set and dict_delete change one of them,      *)
(* resizing or not.  A sorted set is a Tower and a dict.  IInv says this of *)
(* the value.                                                              *)
(***************************************************************************)
EXTENDS Structures, SkipListProofs

-----------------------------------------------------------------------------
(* Lists: the nodes *)

\* The nodes of a list.
ListNodes == [value : Elems, prev : Nat, next : Nat]

\* The nodes of l are s[1] to s[l.len], and they are linked in this order both
\* ways.
Strung(l, s) ==
    /\ l.len \in Nat
    /\ s \in [1 .. l.len -> Nat \ {0}]
    /\ \A i, j \in 1 .. l.len : s[i] = s[j] => i = j
    /\ l.node \in [{s[i] : i \in 1 .. l.len} -> ListNodes]
    /\ l.head = IF l.len = 0 THEN 0 ELSE s[1]
    /\ l.tail = IF l.len = 0 THEN 0 ELSE s[l.len]
    /\ \A i \in 1 .. l.len :
          /\ l.node[s[i]].next = IF i = l.len THEN 0 ELSE s[i + 1]
          /\ l.node[s[i]].prev = IF i = 1 THEN 0 ELSE s[i - 1]

\* A record of the fields of a list.
Shaped(l) == l = [head |-> l.head, tail |-> l.tail, len |-> l.len, node |-> l.node]

\* A list with its nodes in some order.
IsList(l) == Shaped(l) /\ \E s : Strung(l, s)

\* A list has as many nodes as its length says.
LEMMA StrungSize ==
    ASSUME NEW l, NEW s, Strung(l, s)
    PROVE  IsFiniteSet(DOMAIN l.node) /\ Cardinality(DOMAIN l.node) = l.len
  <1>1. DOMAIN l.node = {s[i] : i \in 1 .. l.len} /\ l.len \in Nat /\ DOMAIN s = 1 .. l.len
    BY DEF Strung
  <1>2. PICK n \in Nat : n = l.len
    BY <1>1
  <1>3. \A i, j \in 1 .. n : s[i] = s[j] => i = j
    BY <1>2 DEF Strung
  <1>4. Different(s, n)
    BY <1>1, <1>2, <1>3 DEF Different
  <1>5. DOMAIN l.node = {s[i] : i \in 1 .. n}
    BY <1>1, <1>2
  <1>6. IsFiniteSet(DOMAIN l.node) /\ Cardinality(DOMAIN l.node) = n
    BY <1>4, <1>5, Numbered
  <1> QED
    BY <1>2, <1>6

\* Following next from the head passes the nodes in their order.
LEMMA ForwardIs ==
    ASSUME NEW l, NEW s, Strung(l, s), NEW n \in 0 .. l.len - 1
    PROVE  Forward(l, n) = s[n + 1]
  <1> DEFINE Fits(f) == f = [i \in 0 .. n |-> IF i = 0 THEN l.head
                                           ELSE l.node[f[i - 1]].next]
             at == CHOOSE f : Fits(f)
  <1>1. l.len \in Nat /\ n \in Nat /\ n < l.len
    BY DEF Strung
  <1>2. Fits([i \in 0 .. n |-> s[i + 1]])
    BY <1>1 DEF Strung
  <1>3. Fits(at)
    BY <1>2
  <1>4. Forward(l, n) = at[n]
    BY DEF Forward
  <1> HIDE DEF at
  <1> DEFINE T == {i \in Nat : i <= n => at[i] = s[i + 1]}
  <1>5. 0 \in T
    BY <1>1, <1>3 DEF Strung
  <1>6. ASSUME NEW i \in Nat, i \in T PROVE i + 1 \in T
    BY <1>1, <1>3, <1>6 DEF Strung
  <1> HIDE DEF T
  <1>7. Nat \subseteq T
    BY <1>5, <1>6, Climb
  <1> QED
    BY <1>1, <1>4, <1>7 DEF T

\* Following prev from the tail passes them in the opposite one.
LEMMA BackwardIs ==
    ASSUME NEW l, NEW s, Strung(l, s), NEW n \in 0 .. l.len - 1
    PROVE  Backward(l, n) = s[l.len - n]
  <1> DEFINE Fits(f) == f = [i \in 0 .. n |-> IF i = 0 THEN l.tail
                                           ELSE l.node[f[i - 1]].prev]
             at == CHOOSE f : Fits(f)
  <1>1. l.len \in Nat /\ n \in Nat /\ n < l.len
    BY DEF Strung
  <1>2. Fits([i \in 0 .. n |-> s[l.len - i]])
    BY <1>1 DEF Strung
  <1>3. Fits(at)
    BY <1>2
  <1>4. Backward(l, n) = at[n]
    BY DEF Backward
  <1> HIDE DEF at
  <1> DEFINE T == {i \in Nat : i <= n => at[i] = s[l.len - i]}
  <1>5. 0 \in T
    BY <1>1, <1>3 DEF Strung
  <1>6. ASSUME NEW i \in Nat, i \in T PROVE i + 1 \in T
    <2>1. CASE i + 1 <= n
      <3>1. at[i] = s[l.len - i] /\ at[i + 1] = l.node[at[i]].prev
        BY <1>1, <1>3, <1>6, <2>1
      <3>2. l.len - i \in 1 .. l.len /\ l.len - i # 1
        BY <1>1, <1>6, <2>1
      <3>3. l.node[s[l.len - i]].prev = s[l.len - i - 1] /\ l.len - i - 1 = l.len - (i + 1)
        BY <1>1, <3>2 DEF Strung
      <3> QED
        BY <3>1, <3>3, <1>6
    <2> QED
      BY <1>6, <2>1
  <1> HIDE DEF T
  <1>7. Nat \subseteq T
    BY <1>5, <1>6, Climb
  <1> QED
    BY <1>1, <1>4, <1>7 DEF T

\* malloc returns an address that is not in use.
LEMMA FreeAddressIs ==
    ASSUME NEW used, IsFiniteSet(used)
    PROVE  /\ FreeAddress(used) \in Nat \ {0} /\ FreeAddress(used) \notin used
           /\ FreeAddress(used) <= Cardinality(used) + 1
  <1>1. Cardinality(used) \in Nat
    BY FS_CardinalityType
  <1>2. PICK n \in Nat : n = Cardinality(used) + 1
    BY <1>1
  <1>3. ~(1 .. n \subseteq used)
    <2>1. Cardinality(1 .. n) = n
      BY <1>2, FS_Interval
    <2> QED
      BY <1>1, <1>2, <2>1, FS_Subset
  <1>4. PICK T : T = {a \in 1 .. n : a \notin used}
    OBVIOUS
  <1>5. T \in SUBSET Nat /\ T # {}
    BY <1>3, <1>4
  <1>6. Min(T) \in T
    BY <1>5, MinIs
  <1>7. FreeAddress(used) = Min(T)
    BY <1>2, <1>4 DEF FreeAddress
  <1>8. Min(T) \in 1 .. n /\ Min(T) \notin used
    BY <1>4, <1>6
  <1>9. PICK a : a = FreeAddress(used)
    OBVIOUS
  <1>10. a \in 1 .. n /\ a \notin used
    BY <1>7, <1>8, <1>9
  <1>11. a \in Nat \ {0} /\ a <= n
    BY <1>10
  <1> QED
    BY <1>2, <1>9, <1>10, <1>11

\* A push on the left puts a new node before the first and moves no other.
LEMMA LPushIs ==
    ASSUME NEW l, NEW s, Strung(l, s), NEW v \in Elems
    PROVE  \E t : /\ Strung(ListLPush(l, v), t)
                  /\ ListLPush(l, v).len = l.len + 1
                  /\ \A i \in 1 .. l.len + 1 : ListLPush(l, v).node[t[i]].value =
                        IF i = 1 THEN v ELSE l.node[s[i - 1]].value
  <1>1. PICK n : n = FreeAddress(DOMAIN l.node)
    OBVIOUS
  <1>2. n \in Nat \ {0} /\ n \notin DOMAIN l.node
    BY <1>1, StrungSize, FreeAddressIs
  <1>3. PICK len \in Nat : len = l.len
    BY DEF Strung
  <1>4. PICK t : t = [i \in 1 .. len + 1 |-> IF i = 1 THEN n ELSE s[i - 1]]
    OBVIOUS
  <1>5. PICK r : r = ListLPush(l, v)
    OBVIOUS
  <1>6. PICK node : node = With(l.node, n, ListNode(v))
    OBVIOUS
  <1>7. r = [head |-> n, tail |-> IF l.head = 0 THEN n ELSE l.tail, len |-> l.len + 1,
             node |-> IF l.head = 0 THEN node
                      ELSE [node EXCEPT ![n].next = l.head, ![l.head].prev = n]]
    BY <1>1, <1>5, <1>6 DEF ListLPush
  <1>8. /\ DOMAIN l.node = {s[i] : i \in 1 .. len}
        /\ s \in [1 .. len -> Nat \ {0}]
        /\ \A a \in DOMAIN l.node : l.node[a] \in ListNodes
        /\ \A i, j \in 1 .. len : s[i] = s[j] => i = j
    BY <1>3 DEF Strung
  <1>9. node \in [DOMAIN l.node \cup {n} -> ListNodes] /\ node[n] = ListNode(v)
        /\ \A a \in DOMAIN l.node : node[a] = l.node[a]
    BY <1>2, <1>6, <1>8 DEF ListNodes, ListNode, With
  <1>10. l.head = (IF len = 0 THEN 0 ELSE s[1]) /\ (l.head = 0 <=> len = 0)
         /\ l.tail = (IF len = 0 THEN 0 ELSE s[len])
    BY <1>3, <1>8 DEF Strung
  <1>11. {t[i] : i \in 1 .. len + 1} = DOMAIN l.node \cup {n}
    <2>1. \A i \in 1 .. len : t[i + 1] = s[i] /\ i + 1 \in 1 .. len + 1
      BY <1>4
    <2>2. \A i \in 1 .. len + 1 : t[i] = n \/ (i - 1 \in 1 .. len /\ t[i] = s[i - 1])
      <3> SUFFICES ASSUME NEW i \in 1 .. len + 1
                   PROVE  t[i] = n \/ (i - 1 \in 1 .. len /\ t[i] = s[i - 1])
        OBVIOUS
      <3>1. CASE i = 1
        BY <1>4, <3>1
      <3>2. CASE i # 1
        BY <1>4, <3>2
      <3> QED
        BY <3>1, <3>2
    <2>3. t[1] = n
      BY <1>4
    <2>4. \A a \in DOMAIN l.node : \E i \in 1 .. len + 1 : t[i] = a
      <3> SUFFICES ASSUME NEW a \in DOMAIN l.node
                   PROVE  \E i \in 1 .. len + 1 : t[i] = a
        OBVIOUS
      <3>1. PICK i \in 1 .. len : s[i] = a
        BY <1>8
      <3> QED
        BY <2>1, <3>1
    <2>5. \E i \in 1 .. len + 1 : t[i] = n
      BY <2>3
    <2>6. \A i \in 1 .. len + 1 : t[i] \in DOMAIN l.node \cup {n}
      BY <1>8, <2>2
    <2> QED
      BY <2>4, <2>5, <2>6
  <1>12. \A i, j \in 1 .. len + 1 : t[i] = t[j] => i = j
    BY <1>2, <1>4, <1>8
  <1>13. t \in [1 .. len + 1 -> Nat \ {0}]
    BY <1>2, <1>4, <1>8
  <1>14. /\ r.node \in [DOMAIN l.node \cup {n} -> ListNodes]
         /\ r.node[n].value = v
         /\ r.node[n].prev = 0 /\ r.node[n].next = l.head
         /\ \A i \in 1 .. len : /\ r.node[s[i]].value = l.node[s[i]].value
                                /\ r.node[s[i]].next = l.node[s[i]].next
                                /\ r.node[s[i]].prev = IF i = 1 THEN n ELSE l.node[s[i]].prev
    <2>1. CASE len = 0
      BY <2>1, <1>7, <1>8, <1>9, <1>10 DEF ListNode
    <2>2. CASE len # 0
      <3>1. /\ l.head = s[1] /\ s[1] \in DOMAIN l.node /\ n # s[1] /\ s[1] # 0
            /\ n \in Nat
        BY <2>2, <1>2, <1>8, <1>10
      <3>2. r.node = [node EXCEPT ![n].next = s[1], ![s[1]].prev = n]
        BY <1>7, <3>1
      <3>3. /\ r.node[n] = [ListNode(v) EXCEPT !.next = s[1]]
            /\ r.node[s[1]] = [l.node[s[1]] EXCEPT !.prev = n]
            /\ \A a \in DOMAIN l.node : a # s[1] => r.node[a] = l.node[a]
            /\ DOMAIN r.node = DOMAIN l.node \cup {n}
        BY <3>1, <3>2, <1>2, <1>9
      <3>4. r.node \in [DOMAIN l.node \cup {n} -> ListNodes]
        <4>1. r.node[n] \in ListNodes
          BY <3>1, <3>3, <1>13, <1>8, <2>2 DEF ListNodes, ListNode
        <4>2. r.node[s[1]] \in ListNodes
          BY <3>1, <3>3, <1>8 DEF ListNodes
        <4> QED
          BY <4>1, <4>2, <3>3, <1>8, <3>2, <1>9
      <3>5. \A i \in 1 .. len : i # 1 => s[i] # s[1] /\ s[i] \in DOMAIN l.node
        BY <1>8, <2>2
      <3>6. r.node[n].value = v /\ r.node[n].prev = 0 /\ r.node[n].next = l.head
        BY <3>1, <3>3 DEF ListNode
      <3>7. /\ r.node[s[1]].value = l.node[s[1]].value
            /\ r.node[s[1]].next = l.node[s[1]].next
            /\ r.node[s[1]].prev = n
        BY <3>1, <3>3, <1>8 DEF ListNodes
      <3> QED
        BY <3>3, <3>4, <3>5, <3>6, <3>7
    <2> QED
      BY <2>1, <2>2
  <1>15. r.head = n /\ r.tail = (IF len = 0 THEN n ELSE s[len]) /\ r.len = len + 1
    BY <1>3, <1>7, <1>10
  <1>16. \A i \in 1 .. len + 1 :
            /\ r.node[t[i]].next = IF i = len + 1 THEN 0 ELSE t[i + 1]
            /\ r.node[t[i]].prev = IF i = 1 THEN 0 ELSE t[i - 1]
    <2> SUFFICES ASSUME NEW i \in 1 .. len + 1
                 PROVE  /\ r.node[t[i]].next = IF i = len + 1 THEN 0 ELSE t[i + 1]
                        /\ r.node[t[i]].prev = IF i = 1 THEN 0 ELSE t[i - 1]
      OBVIOUS
    <2>1. CASE i = 1
      BY <2>1, <1>4, <1>10, <1>14
    <2>2. CASE i # 1
      <3>1. i - 1 \in 1 .. len /\ t[i] = s[i - 1]
        BY <2>2, <1>4
      <3>2. l.node[s[i - 1]].next = IF i - 1 = len THEN 0 ELSE s[i - 1 + 1]
        BY <3>1, <1>3 DEF Strung
      <3>3. l.node[s[i - 1]].prev = IF i - 1 = 1 THEN 0 ELSE s[i - 1 - 1]
        BY <3>1, <1>3 DEF Strung
      <3> QED
        BY <2>2, <3>1, <3>2, <3>3, <1>4, <1>14
    <2> QED
      BY <2>1, <2>2
  <1>17. r.head = t[1] /\ r.tail = t[len + 1]
    BY <1>4, <1>15
  <1>18. \A i \in 1 .. len + 1 : r.node[t[i]].value = IF i = 1 THEN v
                                                      ELSE l.node[s[i - 1]].value
    BY <1>4, <1>14
  <1>19. Strung(r, t)
    <2>1. r.len = len + 1 /\ r.len \in Nat /\ r.len # 0
      BY <1>15
    <2>2. r.node \in [{t[i] : i \in 1 .. r.len} -> ListNodes]
      BY <2>1, <1>11, <1>14
    <2>3. t \in [1 .. r.len -> Nat \ {0}] /\ \A i, j \in 1 .. r.len : t[i] = t[j] => i = j
      BY <2>1, <1>12, <1>13
    <2>4. r.head = t[1] /\ r.tail = t[r.len]
      BY <2>1, <1>17
    <2>5. \A i \in 1 .. r.len :
          /\ r.node[t[i]].next = IF i = r.len THEN 0 ELSE t[i + 1]
          /\ r.node[t[i]].prev = IF i = 1 THEN 0 ELSE t[i - 1]
      BY <2>1, <1>16
    <2> QED
      BY <2>1, <2>2, <2>3, <2>4, <2>5 DEF Strung
  <1> QED
    BY <1>3, <1>5, <1>15, <1>18, <1>19

\* A push on the right puts it after the last.
LEMMA RPushIs ==
    ASSUME NEW l, NEW s, Strung(l, s), NEW v \in Elems
    PROVE  \E t : /\ Strung(ListRPush(l, v), t)
                  /\ ListRPush(l, v).len = l.len + 1
                  /\ \A i \in 1 .. l.len + 1 : ListRPush(l, v).node[t[i]].value =
                        IF i = l.len + 1 THEN v ELSE l.node[s[i]].value
  <1>1. PICK n : n = FreeAddress(DOMAIN l.node)
    OBVIOUS
  <1>2. n \in Nat \ {0} /\ n \notin DOMAIN l.node
    BY <1>1, StrungSize, FreeAddressIs
  <1>3. PICK len \in Nat : len = l.len
    BY DEF Strung
  <1>4. PICK t : t = [i \in 1 .. len + 1 |-> IF i = len + 1 THEN n ELSE s[i]]
    OBVIOUS
  <1>5. PICK r : r = ListRPush(l, v)
    OBVIOUS
  <1>6. PICK node : node = With(l.node, n, ListNode(v))
    OBVIOUS
  <1>7. r = [head |-> IF l.tail = 0 THEN n ELSE l.head, tail |-> n, len |-> l.len + 1,
             node |-> IF l.tail = 0 THEN node
                      ELSE [node EXCEPT ![n].prev = l.tail, ![l.tail].next = n]]
    BY <1>1, <1>5, <1>6 DEF ListRPush
  <1>8. /\ DOMAIN l.node = {s[i] : i \in 1 .. len}
        /\ s \in [1 .. len -> Nat \ {0}]
        /\ \A a \in DOMAIN l.node : l.node[a] \in ListNodes
        /\ \A i, j \in 1 .. len : s[i] = s[j] => i = j
    BY <1>3 DEF Strung
  <1>9. node \in [DOMAIN l.node \cup {n} -> ListNodes] /\ node[n] = ListNode(v)
        /\ \A a \in DOMAIN l.node : node[a] = l.node[a]
    BY <1>2, <1>6, <1>8 DEF ListNodes, ListNode, With
  <1>10. l.tail = (IF len = 0 THEN 0 ELSE s[len]) /\ (l.tail = 0 <=> len = 0)
         /\ l.head = (IF len = 0 THEN 0 ELSE s[1])
    BY <1>3, <1>8 DEF Strung
  <1>11. {t[i] : i \in 1 .. len + 1} = DOMAIN l.node \cup {n}
    <2>1. \A i \in 1 .. len : t[i] = s[i] /\ i \in 1 .. len + 1
      BY <1>4
    <2>2. \A i \in 1 .. len + 1 : t[i] = n \/ (i \in 1 .. len /\ t[i] = s[i])
      BY <1>4
    <2>3. t[len + 1] = n /\ len + 1 \in 1 .. len + 1
      BY <1>4
    <2>4. \A a \in DOMAIN l.node : \E i \in 1 .. len + 1 : t[i] = a
      <3> SUFFICES ASSUME NEW a \in DOMAIN l.node
                   PROVE  \E i \in 1 .. len + 1 : t[i] = a
        OBVIOUS
      <3>1. PICK i \in 1 .. len : s[i] = a
        BY <1>8
      <3> QED
        BY <2>1, <3>1
    <2>5. \E i \in 1 .. len + 1 : t[i] = n
      BY <2>3
    <2>6. \A i \in 1 .. len + 1 : t[i] \in DOMAIN l.node \cup {n}
      BY <1>8, <2>2
    <2> QED
      BY <2>4, <2>5, <2>6
  <1>12. \A i, j \in 1 .. len + 1 : t[i] = t[j] => i = j
    BY <1>2, <1>4, <1>8
  <1>13. t \in [1 .. len + 1 -> Nat \ {0}]
    BY <1>2, <1>4, <1>8
  <1>14. /\ r.node \in [DOMAIN l.node \cup {n} -> ListNodes]
         /\ r.node[n].value = v
         /\ r.node[n].next = 0 /\ r.node[n].prev = l.tail
         /\ \A i \in 1 .. len : /\ r.node[s[i]].value = l.node[s[i]].value
                                /\ r.node[s[i]].prev = l.node[s[i]].prev
                                /\ r.node[s[i]].next = IF i = len THEN n
                                                       ELSE l.node[s[i]].next
    <2>1. CASE len = 0
      BY <2>1, <1>7, <1>8, <1>9, <1>10 DEF ListNode
    <2>2. CASE len # 0
      <3> DEFINE e == s[len]
      <3>1. /\ l.tail = e /\ e \in DOMAIN l.node /\ n # e /\ e # 0
            /\ n \in Nat
        BY <2>2, <1>2, <1>8, <1>10
      <3>2. r.node = [node EXCEPT ![n].prev = e, ![e].next = n]
        BY <1>7, <3>1
      <3>3. /\ r.node[n] = [ListNode(v) EXCEPT !.prev = e]
            /\ r.node[e] = [l.node[e] EXCEPT !.next = n]
            /\ \A a \in DOMAIN l.node : a # e => r.node[a] = l.node[a]
            /\ DOMAIN r.node = DOMAIN l.node \cup {n}
        BY <3>1, <3>2, <1>2, <1>9
      <3>4. r.node \in [DOMAIN l.node \cup {n} -> ListNodes]
        <4>1. r.node[n] \in ListNodes
          BY <3>1, <3>3, <1>13, <1>8, <2>2 DEF ListNodes, ListNode
        <4>2. r.node[e] \in ListNodes
          BY <3>1, <3>3, <1>8 DEF ListNodes
        <4> QED
          BY <4>1, <4>2, <3>3, <1>8, <3>2, <1>9
      <3>5. \A i \in 1 .. len : i # len => s[i] # e /\ s[i] \in DOMAIN l.node
        BY <1>8, <2>2
      <3>6. r.node[n].value = v /\ r.node[n].next = 0 /\ r.node[n].prev = l.tail
        BY <3>1, <3>3 DEF ListNode
      <3>7. /\ r.node[e].value = l.node[e].value
            /\ r.node[e].prev = l.node[e].prev
            /\ r.node[e].next = n
        BY <3>1, <3>3, <1>8 DEF ListNodes
      <3> QED
        BY <3>3, <3>4, <3>5, <3>6, <3>7
    <2> QED
      BY <2>1, <2>2
  <1>15. r.tail = n /\ r.head = (IF len = 0 THEN n ELSE s[1]) /\ r.len = len + 1
    BY <1>3, <1>7, <1>10
  <1>16. \A i \in 1 .. len + 1 :
            /\ r.node[t[i]].next = IF i = len + 1 THEN 0 ELSE t[i + 1]
            /\ r.node[t[i]].prev = IF i = 1 THEN 0 ELSE t[i - 1]
    <2> SUFFICES ASSUME NEW i \in 1 .. len + 1
                 PROVE  /\ r.node[t[i]].next = IF i = len + 1 THEN 0 ELSE t[i + 1]
                        /\ r.node[t[i]].prev = IF i = 1 THEN 0 ELSE t[i - 1]
      OBVIOUS
    <2>1. CASE i = len + 1
      BY <2>1, <1>4, <1>10, <1>14
    <2>2. CASE i # len + 1
      <3>1. i \in 1 .. len /\ t[i] = s[i]
        BY <2>2, <1>4
      <3>2. l.node[s[i]].next = IF i = len THEN 0 ELSE s[i + 1]
        BY <3>1, <1>3 DEF Strung
      <3>3. l.node[s[i]].prev = IF i = 1 THEN 0 ELSE s[i - 1]
        BY <3>1, <1>3 DEF Strung
      <3> QED
        BY <2>2, <3>1, <3>2, <3>3, <1>4, <1>14
    <2> QED
      BY <2>1, <2>2
  <1>17. r.head = t[1] /\ r.tail = t[len + 1]
    BY <1>4, <1>15
  <1>18. \A i \in 1 .. len + 1 : r.node[t[i]].value = IF i = len + 1 THEN v
                                                      ELSE l.node[s[i]].value
    BY <1>4, <1>14
  <1>19. Strung(r, t)
    <2>1. r.len = len + 1 /\ r.len \in Nat /\ r.len # 0
      BY <1>15
    <2>2. r.node \in [{t[i] : i \in 1 .. r.len} -> ListNodes]
      BY <2>1, <1>11, <1>14
    <2>3. t \in [1 .. r.len -> Nat \ {0}] /\ \A i, j \in 1 .. r.len : t[i] = t[j] => i = j
      BY <2>1, <1>12, <1>13
    <2>4. r.head = t[1] /\ r.tail = t[r.len]
      BY <2>1, <1>17
    <2>5. \A i \in 1 .. r.len :
          /\ r.node[t[i]].next = IF i = r.len THEN 0 ELSE t[i + 1]
          /\ r.node[t[i]].prev = IF i = 1 THEN 0 ELSE t[i - 1]
      BY <2>1, <1>16
    <2> QED
      BY <2>1, <2>2, <2>3, <2>4, <2>5 DEF Strung
  <1> QED
    BY <1>3, <1>5, <1>15, <1>18, <1>19

\* A pop on the left frees the first node and moves no other.
LEMMA LPopIs ==
    ASSUME NEW l, NEW s, Strung(l, s), l.len # 0
    PROVE  \E t : /\ Strung(ListLPop(l), t)
                  /\ ListLPop(l).len = l.len - 1
                  /\ \A i \in 1 .. l.len - 1 :
                        ListLPop(l).node[t[i]].value = l.node[s[i + 1]].value
  <1>1. PICK len \in Nat \ {0} : len = l.len
    BY DEF Strung
  <1>2. PICK r : r = ListLPop(l)
    OBVIOUS
  <1>3. PICK t : t = [i \in 1 .. len - 1 |-> s[i + 1]]
    OBVIOUS
  <1>4. PICK node : node = Without(l.node, l.head)
    OBVIOUS
  <1>5. PICK next : next = l.node[l.head].next
    OBVIOUS
  <1>6. r = [head |-> next, tail |-> IF next = 0 THEN 0 ELSE l.tail, len |-> l.len - 1,
             node |-> IF next = 0 THEN node ELSE [node EXCEPT ![next].prev = 0]]
    BY <1>2, <1>4, <1>5 DEF ListLPop
  <1>8. /\ DOMAIN l.node = {s[i] : i \in 1 .. len}
        /\ s \in [1 .. len -> Nat \ {0}]
        /\ \A a \in DOMAIN l.node : l.node[a] \in ListNodes
        /\ \A i, j \in 1 .. len : s[i] = s[j] => i = j
        /\ l.head = s[1] /\ l.tail = s[len]
    BY <1>1 DEF Strung
  <1>9. node \in [DOMAIN l.node \ {s[1]} -> ListNodes]
        /\ \A a \in DOMAIN l.node \ {s[1]} : node[a] = l.node[a]
    BY <1>4, <1>8 DEF Without
  <1>10. next = IF len = 1 THEN 0 ELSE s[2]
    BY <1>1, <1>5, <1>8 DEF Strung
  <1>11. {t[i] : i \in 1 .. len - 1} = DOMAIN l.node \ {s[1]}
    <2>1. \A i \in 1 .. len - 1 : t[i] = s[i + 1] /\ i + 1 \in 1 .. len /\ i + 1 # 1
      BY <1>3
    <2>2. \A i \in 1 .. len : i # 1 => i - 1 \in 1 .. len - 1 /\ t[i - 1] = s[i]
      BY <1>3
    <2>4. \A a \in DOMAIN l.node \ {s[1]} : \E i \in 1 .. len - 1 : t[i] = a
      <3> SUFFICES ASSUME NEW a \in DOMAIN l.node \ {s[1]}
                   PROVE  \E i \in 1 .. len - 1 : t[i] = a
        OBVIOUS
      <3>1. PICK i \in 1 .. len : a = s[i]
        BY <1>8
      <3> QED
        BY <3>1, <2>2
    <2>6. \A i \in 1 .. len - 1 : t[i] \in DOMAIN l.node \ {s[1]}
      BY <1>8, <2>1
    <2> QED
      BY <2>4, <2>6
  <1>12. \A i, j \in 1 .. len - 1 : t[i] = t[j] => i = j
    BY <1>3, <1>8
  <1>13. t \in [1 .. len - 1 -> Nat \ {0}]
    BY <1>3, <1>8
  <1>14. /\ r.node \in [DOMAIN l.node \ {s[1]} -> ListNodes]
         /\ \A i \in 2 .. len : /\ r.node[s[i]].value = l.node[s[i]].value
                                /\ r.node[s[i]].next = l.node[s[i]].next
                                /\ r.node[s[i]].prev = IF i = 2 THEN 0 ELSE l.node[s[i]].prev
    <2>1. CASE len = 1
      BY <2>1, <1>6, <1>9, <1>10
    <2>2. CASE len # 1
      <3> DEFINE e == s[2]
      <3>1. /\ next = e /\ e \in DOMAIN l.node \ {s[1]} /\ e # 0
        BY <2>2, <1>8, <1>10
      <3>2. r.node = [node EXCEPT ![e].prev = 0]
        BY <1>6, <3>1
      <3>3. /\ r.node[e] = [l.node[e] EXCEPT !.prev = 0]
            /\ \A a \in DOMAIN l.node \ {s[1]} : a # e => r.node[a] = l.node[a]
            /\ DOMAIN r.node = DOMAIN l.node \ {s[1]}
        BY <3>1, <3>2, <1>9
      <3>4. r.node[e] \in ListNodes
        BY <3>1, <3>3, <1>8 DEF ListNodes
      <3>5. \A i \in 2 .. len : s[i] \in DOMAIN l.node \ {s[1]} /\ (i # 2 => s[i] # e)
        BY <1>8, <2>2
      <3>6. r.node \in [DOMAIN l.node \ {s[1]} -> ListNodes]
        BY <3>2, <3>3, <3>4, <1>9, <1>8
      <3>7. /\ r.node[e].value = l.node[e].value
            /\ r.node[e].next = l.node[e].next
            /\ r.node[e].prev = 0
        BY <3>1, <3>3, <1>8 DEF ListNodes
      <3> QED
        BY <3>3, <3>5, <3>6, <3>7
    <2> QED
      BY <2>1, <2>2
  <1>15. r.head = next /\ r.tail = (IF next = 0 THEN 0 ELSE s[len]) /\ r.len = len - 1
    BY <1>1, <1>6, <1>8
  <1>16. \A i \in 1 .. len - 1 :
            /\ r.node[t[i]].next = IF i = len - 1 THEN 0 ELSE t[i + 1]
            /\ r.node[t[i]].prev = IF i = 1 THEN 0 ELSE t[i - 1]
    <2> SUFFICES ASSUME NEW i \in 1 .. len - 1
                 PROVE  /\ r.node[t[i]].next = IF i = len - 1 THEN 0 ELSE t[i + 1]
                        /\ r.node[t[i]].prev = IF i = 1 THEN 0 ELSE t[i - 1]
      OBVIOUS
    <2>1. i + 1 \in 2 .. len /\ t[i] = s[i + 1]
      BY <1>3
    <2>2. PICK j \in 2 .. len : j = i + 1
      BY <2>1
    <2>3. /\ l.node[s[j]].next = IF j = len THEN 0 ELSE s[j + 1]
          /\ l.node[s[j]].prev = s[j - 1]
      <3>1. j \in 1 .. l.len /\ j # 1
        BY <1>1, <2>2
      <3> QED
        BY <3>1, <1>1 DEF Strung
    <2>4. /\ r.node[t[i]].next = IF j = len THEN 0 ELSE s[j + 1]
          /\ r.node[t[i]].prev = IF j = 2 THEN 0 ELSE s[j - 1]
      BY <2>1, <2>2, <2>3, <1>14
    <2>5. /\ j # len => i # len - 1 /\ t[i + 1] = s[j + 1]
          /\ j = len => i = len - 1
      BY <2>2, <1>3
    <2>6. /\ j # 2 => i # 1 /\ t[i - 1] = s[j - 1]
          /\ j = 2 => i = 1
      BY <2>2, <1>3
    <2> QED
      BY <2>4, <2>5, <2>6
  <1>17. /\ r.head = IF len - 1 = 0 THEN 0 ELSE t[1]
         /\ r.tail = IF len - 1 = 0 THEN 0 ELSE t[len - 1]
    BY <1>3, <1>8, <1>10, <1>15
  <1>18. \A i \in 1 .. len - 1 : r.node[t[i]].value = l.node[s[i + 1]].value
    BY <1>3, <1>14
  <1>19. Strung(r, t)
    <2>1. r.len = len - 1 /\ r.len \in Nat
      BY <1>15
    <2>2. r.node \in [{t[i] : i \in 1 .. r.len} -> ListNodes]
      BY <2>1, <1>11, <1>14
    <2>3. t \in [1 .. r.len -> Nat \ {0}] /\ \A i, j \in 1 .. r.len : t[i] = t[j] => i = j
      BY <2>1, <1>12, <1>13
    <2>4. r.head = (IF r.len = 0 THEN 0
ELSE t[1]) /\ r.tail = IF r.len = 0 THEN 0 ELSE t[r.len]
      BY <2>1, <1>17
    <2>5. \A i \in 1 .. r.len :
          /\ r.node[t[i]].next = IF i = r.len THEN 0 ELSE t[i + 1]
          /\ r.node[t[i]].prev = IF i = 1 THEN 0 ELSE t[i - 1]
      BY <2>1, <1>16
    <2> QED
      BY <2>1, <2>2, <2>3, <2>4, <2>5 DEF Strung
  <1> QED
    BY <1>1, <1>2, <1>15, <1>18, <1>19

\* A pop on the right frees the last.
LEMMA RPopIs ==
    ASSUME NEW l, NEW s, Strung(l, s), l.len # 0
    PROVE  \E t : /\ Strung(ListRPop(l), t)
                  /\ ListRPop(l).len = l.len - 1
                  /\ \A i \in 1 .. l.len - 1 :
                        ListRPop(l).node[t[i]].value = l.node[s[i]].value
  <1>1. PICK len \in Nat \ {0} : len = l.len
    BY DEF Strung
  <1>2. PICK r : r = ListRPop(l)
    OBVIOUS
  <1>3. PICK t : t = [i \in 1 .. len - 1 |-> s[i]]
    OBVIOUS
  <1>4. PICK node : node = Without(l.node, l.tail)
    OBVIOUS
  <1>5. PICK prev : prev = l.node[l.tail].prev
    OBVIOUS
  <1>6. r = [head |-> IF prev = 0 THEN 0 ELSE l.head, tail |-> prev, len |-> l.len - 1,
             node |-> IF prev = 0 THEN node ELSE [node EXCEPT ![prev].next = 0]]
    BY <1>2, <1>4, <1>5 DEF ListRPop
  <1>8. /\ DOMAIN l.node = {s[i] : i \in 1 .. len}
        /\ s \in [1 .. len -> Nat \ {0}]
        /\ \A a \in DOMAIN l.node : l.node[a] \in ListNodes
        /\ \A i, j \in 1 .. len : s[i] = s[j] => i = j
        /\ l.head = s[1] /\ l.tail = s[len]
    BY <1>1 DEF Strung
  <1>9. node \in [DOMAIN l.node \ {s[len]} -> ListNodes]
        /\ \A a \in DOMAIN l.node \ {s[len]} : node[a] = l.node[a]
    BY <1>4, <1>8 DEF Without
  <1>10. prev = IF len = 1 THEN 0 ELSE s[len - 1]
    BY <1>1, <1>5, <1>8 DEF Strung
  <1>11. {t[i] : i \in 1 .. len - 1} = DOMAIN l.node \ {s[len]}
    <2>1. \A i \in 1 .. len - 1 : t[i] = s[i] /\ i \in 1 .. len /\ i # len
      BY <1>3
    <2>2. \A i \in 1 .. len : i # len => i \in 1 .. len - 1 /\ t[i] = s[i]
      BY <1>3
    <2>4. \A a \in DOMAIN l.node \ {s[len]} : \E i \in 1 .. len - 1 : t[i] = a
      <3> SUFFICES ASSUME NEW a \in DOMAIN l.node \ {s[len]}
                   PROVE  \E i \in 1 .. len - 1 : t[i] = a
        OBVIOUS
      <3>1. PICK i \in 1 .. len : a = s[i]
        BY <1>8
      <3> QED
        BY <3>1, <2>2
    <2>6. \A i \in 1 .. len - 1 : t[i] \in DOMAIN l.node \ {s[len]}
      BY <1>8, <2>1
    <2> QED
      BY <2>4, <2>6
  <1>12. \A i, j \in 1 .. len - 1 : t[i] = t[j] => i = j
    BY <1>3, <1>8
  <1>13. t \in [1 .. len - 1 -> Nat \ {0}]
    BY <1>3, <1>8
  <1>14. /\ r.node \in [DOMAIN l.node \ {s[len]} -> ListNodes]
         /\ \A i \in 1 .. len - 1 : /\ r.node[s[i]].value = l.node[s[i]].value
                                /\ r.node[s[i]].prev = l.node[s[i]].prev
                                /\ r.node[s[i]].next = IF i = len - 1 THEN 0
                                                       ELSE l.node[s[i]].next
    <2>1. CASE len = 1
      BY <2>1, <1>6, <1>9, <1>10
    <2>2. CASE len # 1
      <3> DEFINE e == s[len - 1]
      <3>1. /\ prev = e /\ e \in DOMAIN l.node \ {s[len]} /\ e # 0
        BY <2>2, <1>8, <1>10
      <3>2. r.node = [node EXCEPT ![e].next = 0]
        BY <1>6, <3>1
      <3>3. /\ r.node[e] = [l.node[e] EXCEPT !.next = 0]
            /\ \A a \in DOMAIN l.node \ {s[len]} : a # e => r.node[a] = l.node[a]
            /\ DOMAIN r.node = DOMAIN l.node \ {s[len]}
        BY <3>1, <3>2, <1>9
      <3>4. r.node[e] \in ListNodes
        BY <3>1, <3>3, <1>8 DEF ListNodes
      <3>5. \A i \in 1 .. len - 1 : s[i] \in DOMAIN l.node \ {s[len]} /\ (i # len - 1 => s[i] # e)
        BY <1>8, <2>2
      <3>6. r.node \in [DOMAIN l.node \ {s[len]} -> ListNodes]
        BY <3>2, <3>3, <3>4, <1>9, <1>8
      <3>7. /\ r.node[e].value = l.node[e].value
            /\ r.node[e].prev = l.node[e].prev
            /\ r.node[e].next = 0
        BY <3>1, <3>3, <1>8 DEF ListNodes
      <3> QED
        BY <3>3, <3>5, <3>6, <3>7
    <2> QED
      BY <2>1, <2>2
  <1>15. r.tail = prev /\ r.head = (IF prev = 0 THEN 0 ELSE s[1]) /\ r.len = len - 1
    BY <1>1, <1>6, <1>8
  <1>16. \A i \in 1 .. len - 1 :
            /\ r.node[t[i]].next = IF i = len - 1 THEN 0 ELSE t[i + 1]
            /\ r.node[t[i]].prev = IF i = 1 THEN 0 ELSE t[i - 1]
    <2> SUFFICES ASSUME NEW i \in 1 .. len - 1
                 PROVE  /\ r.node[t[i]].next = IF i = len - 1 THEN 0 ELSE t[i + 1]
                        /\ r.node[t[i]].prev = IF i = 1 THEN 0 ELSE t[i - 1]
      OBVIOUS
    <2>1. i \in 1 .. len /\ i # len /\ t[i] = s[i]
      BY <1>3
    <2>2. l.node[s[i]].next = IF i = len THEN 0 ELSE s[i + 1]
      BY <2>1, <1>1 DEF Strung
    <2>3. l.node[s[i]].prev = IF i = 1 THEN 0 ELSE s[i - 1]
      BY <2>1, <1>1 DEF Strung
    <2> QED
      BY <2>1, <2>2, <2>3, <1>3, <1>14
  <1>17. /\ r.head = IF len - 1 = 0 THEN 0 ELSE t[1]
         /\ r.tail = IF len - 1 = 0 THEN 0 ELSE t[len - 1]
    BY <1>3, <1>8, <1>10, <1>15
  <1>18. \A i \in 1 .. len - 1 : r.node[t[i]].value = l.node[s[i]].value
    BY <1>3, <1>14
  <1>19. Strung(r, t)
    <2>1. r.len = len - 1 /\ r.len \in Nat
      BY <1>15
    <2>2. r.node \in [{t[i] : i \in 1 .. r.len} -> ListNodes]
      BY <2>1, <1>11, <1>14
    <2>3. t \in [1 .. r.len -> Nat \ {0}] /\ \A i, j \in 1 .. r.len : t[i] = t[j] => i = j
      BY <2>1, <1>12, <1>13
    <2>4. r.head = (IF r.len = 0 THEN 0
ELSE t[1]) /\ r.tail = IF r.len = 0 THEN 0 ELSE t[r.len]
      BY <2>1, <1>17
    <2>5. \A i \in 1 .. r.len :
          /\ r.node[t[i]].next = IF i = r.len THEN 0 ELSE t[i + 1]
          /\ r.node[t[i]].prev = IF i = 1 THEN 0 ELSE t[i - 1]
      BY <2>1, <1>16
    <2> QED
      BY <2>1, <2>2, <2>3, <2>4, <2>5 DEF Strung
  <1> QED
    BY <1>1, <1>2, <1>15, <1>18, <1>19

-----------------------------------------------------------------------------
(* Lists: the values *)

\* The empty list.
LEMMA NewListIs == IsList(NewList) /\ NewList.len = 0 /\ DOMAIN NewList.node = {}
  <1>1. Strung(NewList, << >>)
    BY DEF Strung, NewList
  <1>2. Shaped(NewList)
    BY DEF Shaped, NewList
  <1> QED
    BY <1>1, <1>2 DEF IsList, NewList

\* The values of a list are those of its nodes in their order.
LEMMA ValuesAre ==
    ASSUME NEW l, NEW s, Strung(l, s)
    PROVE  /\ Values(l) = [i \in 1 .. l.len |-> l.node[s[i]].value]
           /\ Values(l) \in Seq(Elems) /\ Len(Values(l)) = l.len /\ l.len \in Nat
  <1>1. l.len \in Nat
    BY DEF Strung
  <1>2. \A i \in 1 .. l.len : Forward(l, i - 1) = s[i]
    BY <1>1, ForwardIs
  <1>3. Values(l) = [i \in 1 .. l.len |-> l.node[s[i]].value]
    BY <1>2 DEF Values
  <1>4. \A i \in 1 .. l.len : l.node[s[i]].value \in Elems
    BY <1>1 DEF Strung, ListNodes
  <1> QED
    BY <1>1, <1>3, <1>4

\* What list_lpush does to the values.
LEMMA LPushed ==
    ASSUME NEW l, IsList(l), NEW v \in Elems
    PROVE  /\ IsList(ListLPush(l, v))
           /\ Values(ListLPush(l, v)) = <<v>> \o Values(l)
           /\ ListLPush(l, v).len = l.len + 1
  <1>1. PICK s : Strung(l, s)
    BY DEF IsList
  <1>2. PICK t : /\ Strung(ListLPush(l, v), t)
                 /\ ListLPush(l, v).len = l.len + 1
                 /\ \A i \in 1 .. l.len + 1 : ListLPush(l, v).node[t[i]].value =
                       IF i = 1 THEN v ELSE l.node[s[i - 1]].value
    BY <1>1, LPushIs
  <1>3. PICK r : r = ListLPush(l, v)
    OBVIOUS
  <1>4. Shaped(r)
    BY <1>3 DEF ListLPush, Shaped
  <1>5. /\ Values(r) = [i \in 1 .. l.len + 1 |-> IF i = 1 THEN v ELSE l.node[s[i - 1]].value]
        /\ Values(r) \in Seq(Elems) /\ Len(Values(r)) = l.len + 1
    BY <1>2, <1>3, ValuesAre
  <1>6. /\ Values(l) = [i \in 1 .. l.len |-> l.node[s[i]].value]
        /\ Values(l) \in Seq(Elems) /\ Len(Values(l)) = l.len /\ l.len \in Nat
    BY <1>1, ValuesAre
  <1>7. Values(r) = <<v>> \o Values(l)
    <2>1. <<v>> \in Seq(Elems) /\ Len(<<v>>) = 1 /\ <<v>>[1] = v
      OBVIOUS
    <2>2. /\ <<v>> \o Values(l) \in Seq(Elems)
          /\ Len(<<v>> \o Values(l)) = l.len + 1
          /\ \A i \in 1 .. l.len + 1 : (<<v>> \o Values(l))[i] =
                IF i <= 1 THEN <<v>>[i] ELSE Values(l)[i - 1]
      BY <1>6, <2>1, ConcatProperties
    <2>3. \A i \in 1 .. l.len + 1 : Values(r)[i] = (<<v>> \o Values(l))[i]
      BY <1>5, <1>6, <2>1, <2>2
    <2> QED
      BY <1>5, <2>2, <2>3, SeqEqual
  <1> QED
    BY <1>2, <1>3, <1>4, <1>7 DEF IsList

\* What list_rpush does to the values.
LEMMA RPushed ==
    ASSUME NEW l, IsList(l), NEW v \in Elems
    PROVE  /\ IsList(ListRPush(l, v))
           /\ Values(ListRPush(l, v)) = Values(l) \o <<v>>
           /\ ListRPush(l, v).len = l.len + 1
  <1>1. PICK s : Strung(l, s)
    BY DEF IsList
  <1>2. PICK t : /\ Strung(ListRPush(l, v), t)
                 /\ ListRPush(l, v).len = l.len + 1
                 /\ \A i \in 1 .. l.len + 1 : ListRPush(l, v).node[t[i]].value =
                       IF i = l.len + 1 THEN v ELSE l.node[s[i]].value
    BY <1>1, RPushIs
  <1>3. PICK r : r = ListRPush(l, v)
    OBVIOUS
  <1>4. Shaped(r)
    BY <1>3 DEF ListRPush, Shaped
  <1>5. /\ Values(r) = [i \in 1 .. l.len + 1 |-> IF i = l.len + 1 THEN v
                                                 ELSE l.node[s[i]].value]
        /\ Values(r) \in Seq(Elems) /\ Len(Values(r)) = l.len + 1
    BY <1>2, <1>3, ValuesAre
  <1>6. /\ Values(l) = [i \in 1 .. l.len |-> l.node[s[i]].value]
        /\ Values(l) \in Seq(Elems) /\ Len(Values(l)) = l.len /\ l.len \in Nat
    BY <1>1, ValuesAre
  <1>7. Values(r) = Values(l) \o <<v>>
    <2>1. <<v>> \in Seq(Elems) /\ Len(<<v>>) = 1 /\ <<v>>[1] = v
      OBVIOUS
    <2>2. /\ Values(l) \o <<v>> \in Seq(Elems)
          /\ Len(Values(l) \o <<v>>) = l.len + 1
          /\ \A i \in 1 .. l.len + 1 : (Values(l) \o <<v>>)[i] =
                IF i <= l.len THEN Values(l)[i] ELSE <<v>>[i - l.len]
      BY <1>6, <2>1, ConcatProperties
    <2>3. \A i \in 1 .. l.len + 1 : Values(r)[i] = (Values(l) \o <<v>>)[i]
      <3> SUFFICES ASSUME NEW i \in 1 .. l.len + 1
                   PROVE  Values(r)[i] = (Values(l) \o <<v>>)[i]
        OBVIOUS
      <3>1. CASE i = l.len + 1
        BY <1>5, <1>6, <2>1, <2>2, <3>1
      <3>2. CASE i # l.len + 1
        BY <1>5, <1>6, <2>2, <3>2
      <3> QED
        BY <3>1, <3>2
    <2> QED
      BY <1>5, <2>2, <2>3, SeqEqual
  <1> QED
    BY <1>2, <1>3, <1>4, <1>7 DEF IsList

\* What list_lpop does to the values, and the one it returns.
LEMMA LPopped ==
    ASSUME NEW l, IsList(l), l.len # 0
    PROVE  /\ IsList(ListLPop(l))
           /\ Values(ListLPop(l)) = Tail(Values(l))
           /\ l.node[l.head].value = Head(Values(l))
           /\ ListLPop(l).len = l.len - 1
  <1>1. PICK s : Strung(l, s)
    BY DEF IsList
  <1>2. PICK t : /\ Strung(ListLPop(l), t)
                 /\ ListLPop(l).len = l.len - 1
                 /\ \A i \in 1 .. l.len - 1 :
                       ListLPop(l).node[t[i]].value = l.node[s[i + 1]].value
    BY <1>1, LPopIs
  <1>3. PICK r : r = ListLPop(l)
    OBVIOUS
  <1>4. Shaped(r)
    BY <1>3 DEF ListLPop, Shaped
  <1>5. /\ Values(r) = [i \in 1 .. l.len - 1 |-> l.node[s[i + 1]].value]
        /\ Values(r) \in Seq(Elems) /\ Len(Values(r)) = l.len - 1
    BY <1>2, <1>3, ValuesAre
  <1>6. /\ Values(l) = [i \in 1 .. l.len |-> l.node[s[i]].value]
        /\ Values(l) \in Seq(Elems) /\ Len(Values(l)) = l.len /\ l.len \in Nat
    BY <1>1, ValuesAre
  <1>7. Values(r) = Tail(Values(l))
    <2>1. Values(l) # << >>
      BY <1>6
    <2>2. /\ Tail(Values(l)) \in Seq(Elems) /\ Len(Tail(Values(l))) = l.len - 1
          /\ \A i \in 1 .. l.len - 1 : Tail(Values(l))[i] = Values(l)[i + 1]
      BY <1>6, <2>1, HeadTailProperties
    <2>3. \A i \in 1 .. l.len - 1 : Values(r)[i] = Tail(Values(l))[i]
      BY <1>5, <1>6, <2>2
    <2> QED
      BY <1>5, <2>2, <2>3, SeqEqual
  <1>8. l.node[l.head].value = Head(Values(l))
    BY <1>1, <1>6 DEF Strung
  <1> QED
    BY <1>2, <1>3, <1>4, <1>7, <1>8 DEF IsList

\* What list_rpop does to the values, and the one it returns.
LEMMA RPopped ==
    ASSUME NEW l, IsList(l), l.len # 0
    PROVE  /\ IsList(ListRPop(l))
           /\ Values(ListRPop(l)) = Front(Values(l))
           /\ l.node[l.tail].value = Last(Values(l))
           /\ ListRPop(l).len = l.len - 1
  <1>1. PICK s : Strung(l, s)
    BY DEF IsList
  <1>2. PICK t : /\ Strung(ListRPop(l), t)
                 /\ ListRPop(l).len = l.len - 1
                 /\ \A i \in 1 .. l.len - 1 :
                       ListRPop(l).node[t[i]].value = l.node[s[i]].value
    BY <1>1, RPopIs
  <1>3. PICK r : r = ListRPop(l)
    OBVIOUS
  <1>4. Shaped(r)
    BY <1>3 DEF ListRPop, Shaped
  <1>5. /\ Values(r) = [i \in 1 .. l.len - 1 |-> l.node[s[i]].value]
        /\ Values(r) \in Seq(Elems) /\ Len(Values(r)) = l.len - 1
    BY <1>2, <1>3, ValuesAre
  <1>6. /\ Values(l) = [i \in 1 .. l.len |-> l.node[s[i]].value]
        /\ Values(l) \in Seq(Elems) /\ Len(Values(l)) = l.len /\ l.len \in Nat
    BY <1>1, ValuesAre
  <1>7. Values(r) = Front(Values(l))
    <2>2. /\ Front(Values(l)) \in Seq(Elems) /\ Len(Front(Values(l))) = l.len - 1
          /\ \A i \in 1 .. l.len - 1 : Front(Values(l))[i] = Values(l)[i]
      BY <1>6 DEF Front
    <2>3. \A i \in 1 .. l.len - 1 : Values(r)[i] = Front(Values(l))[i]
      BY <1>5, <1>6, <2>2
    <2> QED
      BY <1>5, <2>2, <2>3, SeqEqual
  <1>8. l.node[l.tail].value = Last(Values(l))
    BY <1>1, <1>6 DEF Strung, Last
  <1> QED
    BY <1>2, <1>3, <1>4, <1>7, <1>8 DEF IsList

\* What ListIsLinked says of one list.
LEMMA BothWays ==
    ASSUME NEW l, IsList(l)
    PROVE  /\ l.len = Cardinality(DOMAIN l.node)
           /\ \A i \in 0 .. l.len - 1 : Forward(l, i) = Backward(l, l.len - 1 - i)
           /\ {Forward(l, i) : i \in 0 .. l.len - 1} = DOMAIN l.node
  <1>1. PICK s : Strung(l, s)
    BY DEF IsList
  <1>2. l.len \in Nat
    BY <1>1 DEF Strung
  <1>3. \A i \in 0 .. l.len - 1 : Forward(l, i) = s[i + 1]
    BY <1>1, ForwardIs
  <1>4. \A i \in 0 .. l.len - 1 : Backward(l, l.len - 1 - i) = s[i + 1]
    <2> SUFFICES ASSUME NEW i \in 0 .. l.len - 1 PROVE Backward(l, l.len - 1 - i) = s[i + 1]
      OBVIOUS
    <2>1. PICK j \in 0 .. l.len - 1 : j = l.len - 1 - i
      BY <1>2
    <2>2. Backward(l, j) = s[l.len - j]
      BY <1>1, BackwardIs
    <2>3. l.len - j = i + 1
      BY <1>2, <2>1
    <2> QED
      BY <2>1, <2>2, <2>3
  <1>5. DOMAIN l.node = {s[i] : i \in 1 .. l.len}
    BY <1>1 DEF Strung
  <1>6. {Forward(l, i) : i \in 0 .. l.len - 1} = {s[i] : i \in 1 .. l.len}
    <2>1. \A i \in 0 .. l.len - 1 : i + 1 \in 1 .. l.len /\ Forward(l, i) = s[i + 1]
      BY <1>2, <1>3
    <2>2. \A i \in 1 .. l.len : i - 1 \in 0 .. l.len - 1 /\ Forward(l, i - 1) = s[i]
      BY <1>2, <1>3
    <2> QED
      BY <2>1, <2>2
  <1> QED
    BY <1>1, <1>3, <1>4, <1>5, <1>6, StrungSize

-----------------------------------------------------------------------------
(* The loops over arguments *)

\* The handlers' loops over their arguments, over one and over two.
LPushAll(b, seq) == FoldLeft(ListLPush, b, seq)

\* The same for RPUSH.
RPushAll(b, seq) == FoldLeft(ListRPush, b, seq)

\* HSET.
SetAll(b, seq) == FoldLeft(OnePair, b, seq)

\* HDEL.
DelAll(b, seq) == FoldLeft(OneField, b, seq)

\* ZREM.
RemAll(b, seq) == FoldLeft(OneMember, b, seq)

\* LPUSH of one argument.
LEMMA FoldLPush1 ==
    ASSUME NEW b, NEW seq, NEW x, seq = <<x>>
    PROVE  LPushAll(b, seq) = ListLPush(b, x)
  <1>2. seq[1] = x /\ DOMAIN seq = {1}
    OBVIOUS
  <1>3. Max({1}) = 1
    BY MaxIs
  <1>4. PICK g : g = [s \in SUBSET {1} |->
                 IF s = {} THEN b ELSE ListLPush(b, x)]
    OBVIOUS
  <1> DEFINE Fits(f) == f = [s \in SUBSET {1} |->
                 IF s = {} THEN b ELSE LET i == Max(s) IN ListLPush(f[s \ {i}], seq[i])]
             C == CHOOSE f : Fits(f)
  <1>5. \A s \in SUBSET {1} : s = {} \/ s = {1}
    OBVIOUS
  <1>6. {1} \ {1} = {}
    OBVIOUS
  <1>7. \A s \in SUBSET {1} : g[s] = IF s = {} THEN b
                                     ELSE LET i == Max(s) IN ListLPush(g[s \ {i}], seq[i])
    <2> SUFFICES ASSUME NEW s \in SUBSET {1}
                 PROVE  g[s] = IF s = {} THEN b
                               ELSE LET i == Max(s) IN ListLPush(g[s \ {i}], seq[i])
      OBVIOUS
    <2>1. CASE s = {}
      BY <2>1, <1>2, <1>3, <1>4, <1>6
    <2>2. CASE s = {1}
      BY <2>2, <1>2, <1>3, <1>4, <1>6
    <2> QED
      BY <1>5, <2>1, <2>2
  <1>8. Fits(g)
    BY <1>4, <1>7
  <1>9. Fits(C)
    BY <1>8
  <1>10. LPushAll(b, seq) = C[{1}]
    BY <1>2 DEF LPushAll, FoldLeft, MapThenFoldSet
  <1> HIDE DEF C
  <1>11. C[{}] = b
    BY <1>9
  <1>12. C[{1}] = ListLPush(b, x)
    <2>1. C[{1}] = LET i == Max({1}) IN ListLPush(C[{1} \ {i}], seq[i])
      BY <1>9
    <2> QED
      BY <1>2, <1>3, <1>6, <1>11, <2>1
  <1> QED
    BY <1>10, <1>12

\* LPUSH of two arguments.
LEMMA FoldLPush2 ==
    ASSUME NEW b, NEW seq, NEW x, NEW y, seq = <<x, y>>
    PROVE  LPushAll(b, seq) = ListLPush(ListLPush(b, x), y)
  <1>2. seq[1] = x /\ seq[2] = y /\ DOMAIN seq = {1, 2}
    OBVIOUS
  <1>3. Max({1}) = 1 /\ Max({2}) = 2 /\ Max({1, 2}) = 2
    BY MaxIs
  <1>4. PICK g : g = [s \in SUBSET {1, 2} |->
                 IF s = {} THEN b ELSE IF s = {1} THEN ListLPush(b, x)
                 ELSE IF s = {2} THEN ListLPush(b, y) ELSE ListLPush(ListLPush(b, x), y)]
    OBVIOUS
  <1> DEFINE Fits(f) == f = [s \in SUBSET {1, 2} |->
                 IF s = {} THEN b ELSE LET i == Max(s) IN ListLPush(f[s \ {i}], seq[i])]
             C == CHOOSE f : Fits(f)
  <1>5. \A s \in SUBSET {1, 2} : s = {} \/ s = {1} \/ s = {2} \/ s = {1, 2}
    OBVIOUS
  <1>6. {1} \ {1} = {} /\ {2} \ {2} = {} /\ {1, 2} \ {2} = {1}
    OBVIOUS
  <1>7. \A s \in SUBSET {1, 2} : g[s] = IF s = {} THEN b
                                        ELSE LET i == Max(s) IN ListLPush(g[s \ {i}], seq[i])
    <2> SUFFICES ASSUME NEW s \in SUBSET {1, 2}
                 PROVE  g[s] = IF s = {} THEN b
                               ELSE LET i == Max(s) IN ListLPush(g[s \ {i}], seq[i])
      OBVIOUS
    <2>1. CASE s = {}
      BY <2>1, <1>2, <1>3, <1>4, <1>6
    <2>2. CASE s = {1}
      BY <2>2, <1>2, <1>3, <1>4, <1>6
    <2>3. CASE s = {2}
      BY <2>3, <1>2, <1>3, <1>4, <1>6
    <2>4. CASE s = {1, 2}
      BY <2>4, <1>2, <1>3, <1>4, <1>6
    <2> QED
      BY <1>5, <2>1, <2>2, <2>3, <2>4
  <1>8. Fits(g)
    BY <1>4, <1>7
  <1>9. Fits(C)
    BY <1>8
  <1>10. LPushAll(b, seq) = C[{1, 2}]
    BY <1>2 DEF LPushAll, FoldLeft, MapThenFoldSet
  <1> HIDE DEF C
  <1>11. C[{}] = b
    BY <1>9
  <1>12. C[{1}] = ListLPush(b, x)
    <2>1. C[{1}] = LET i == Max({1}) IN ListLPush(C[{1} \ {i}], seq[i])
      BY <1>9
    <2> QED
      BY <1>2, <1>3, <1>6, <1>11, <2>1
  <1>13. C[{1, 2}] = ListLPush(ListLPush(b, x), y)
    <2>1. C[{1, 2}] = LET i == Max({1, 2}) IN ListLPush(C[{1, 2} \ {i}], seq[i])
      BY <1>9
    <2> QED
      BY <1>2, <1>3, <1>6, <1>12, <2>1
  <1> QED
    BY <1>10, <1>13

\* RPUSH of one argument.
LEMMA FoldRPush1 ==
    ASSUME NEW b, NEW seq, NEW x, seq = <<x>>
    PROVE  RPushAll(b, seq) = ListRPush(b, x)
  <1>2. seq[1] = x /\ DOMAIN seq = {1}
    OBVIOUS
  <1>3. Max({1}) = 1
    BY MaxIs
  <1>4. PICK g : g = [s \in SUBSET {1} |->
                 IF s = {} THEN b ELSE ListRPush(b, x)]
    OBVIOUS
  <1> DEFINE Fits(f) == f = [s \in SUBSET {1} |->
                 IF s = {} THEN b ELSE LET i == Max(s) IN ListRPush(f[s \ {i}], seq[i])]
             C == CHOOSE f : Fits(f)
  <1>5. \A s \in SUBSET {1} : s = {} \/ s = {1}
    OBVIOUS
  <1>6. {1} \ {1} = {}
    OBVIOUS
  <1>7. \A s \in SUBSET {1} : g[s] = IF s = {} THEN b
                                     ELSE LET i == Max(s) IN ListRPush(g[s \ {i}], seq[i])
    <2> SUFFICES ASSUME NEW s \in SUBSET {1}
                 PROVE  g[s] = IF s = {} THEN b
                               ELSE LET i == Max(s) IN ListRPush(g[s \ {i}], seq[i])
      OBVIOUS
    <2>1. CASE s = {}
      BY <2>1, <1>2, <1>3, <1>4, <1>6
    <2>2. CASE s = {1}
      BY <2>2, <1>2, <1>3, <1>4, <1>6
    <2> QED
      BY <1>5, <2>1, <2>2
  <1>8. Fits(g)
    BY <1>4, <1>7
  <1>9. Fits(C)
    BY <1>8
  <1>10. RPushAll(b, seq) = C[{1}]
    BY <1>2 DEF RPushAll, FoldLeft, MapThenFoldSet
  <1> HIDE DEF C
  <1>11. C[{}] = b
    BY <1>9
  <1>12. C[{1}] = ListRPush(b, x)
    <2>1. C[{1}] = LET i == Max({1}) IN ListRPush(C[{1} \ {i}], seq[i])
      BY <1>9
    <2> QED
      BY <1>2, <1>3, <1>6, <1>11, <2>1
  <1> QED
    BY <1>10, <1>12

\* RPUSH of two arguments.
LEMMA FoldRPush2 ==
    ASSUME NEW b, NEW seq, NEW x, NEW y, seq = <<x, y>>
    PROVE  RPushAll(b, seq) = ListRPush(ListRPush(b, x), y)
  <1>2. seq[1] = x /\ seq[2] = y /\ DOMAIN seq = {1, 2}
    OBVIOUS
  <1>3. Max({1}) = 1 /\ Max({2}) = 2 /\ Max({1, 2}) = 2
    BY MaxIs
  <1>4. PICK g : g = [s \in SUBSET {1, 2} |->
                 IF s = {} THEN b ELSE IF s = {1} THEN ListRPush(b, x)
                 ELSE IF s = {2} THEN ListRPush(b, y) ELSE ListRPush(ListRPush(b, x), y)]
    OBVIOUS
  <1> DEFINE Fits(f) == f = [s \in SUBSET {1, 2} |->
                 IF s = {} THEN b ELSE LET i == Max(s) IN ListRPush(f[s \ {i}], seq[i])]
             C == CHOOSE f : Fits(f)
  <1>5. \A s \in SUBSET {1, 2} : s = {} \/ s = {1} \/ s = {2} \/ s = {1, 2}
    OBVIOUS
  <1>6. {1} \ {1} = {} /\ {2} \ {2} = {} /\ {1, 2} \ {2} = {1}
    OBVIOUS
  <1>7. \A s \in SUBSET {1, 2} : g[s] = IF s = {} THEN b
                                        ELSE LET i == Max(s) IN ListRPush(g[s \ {i}], seq[i])
    <2> SUFFICES ASSUME NEW s \in SUBSET {1, 2}
                 PROVE  g[s] = IF s = {} THEN b
                               ELSE LET i == Max(s) IN ListRPush(g[s \ {i}], seq[i])
      OBVIOUS
    <2>1. CASE s = {}
      BY <2>1, <1>2, <1>3, <1>4, <1>6
    <2>2. CASE s = {1}
      BY <2>2, <1>2, <1>3, <1>4, <1>6
    <2>3. CASE s = {2}
      BY <2>3, <1>2, <1>3, <1>4, <1>6
    <2>4. CASE s = {1, 2}
      BY <2>4, <1>2, <1>3, <1>4, <1>6
    <2> QED
      BY <1>5, <2>1, <2>2, <2>3, <2>4
  <1>8. Fits(g)
    BY <1>4, <1>7
  <1>9. Fits(C)
    BY <1>8
  <1>10. RPushAll(b, seq) = C[{1, 2}]
    BY <1>2 DEF RPushAll, FoldLeft, MapThenFoldSet
  <1> HIDE DEF C
  <1>11. C[{}] = b
    BY <1>9
  <1>12. C[{1}] = ListRPush(b, x)
    <2>1. C[{1}] = LET i == Max({1}) IN ListRPush(C[{1} \ {i}], seq[i])
      BY <1>9
    <2> QED
      BY <1>2, <1>3, <1>6, <1>11, <2>1
  <1>13. C[{1, 2}] = ListRPush(ListRPush(b, x), y)
    <2>1. C[{1, 2}] = LET i == Max({1, 2}) IN ListRPush(C[{1, 2} \ {i}], seq[i])
      BY <1>9
    <2> QED
      BY <1>2, <1>3, <1>6, <1>12, <2>1
  <1> QED
    BY <1>10, <1>13

\* HSET of one argument.
LEMMA FoldSet1 ==
    ASSUME NEW b, NEW seq, NEW x, seq = <<x>>
    PROVE  SetAll(b, seq) = OnePair(b, x)
  <1>2. seq[1] = x /\ DOMAIN seq = {1}
    OBVIOUS
  <1>3. Max({1}) = 1
    BY MaxIs
  <1>4. PICK g : g = [s \in SUBSET {1} |->
                 IF s = {} THEN b ELSE OnePair(b, x)]
    OBVIOUS
  <1> DEFINE Fits(f) == f = [s \in SUBSET {1} |->
                 IF s = {} THEN b ELSE LET i == Max(s) IN OnePair(f[s \ {i}], seq[i])]
             C == CHOOSE f : Fits(f)
  <1>5. \A s \in SUBSET {1} : s = {} \/ s = {1}
    OBVIOUS
  <1>6. {1} \ {1} = {}
    OBVIOUS
  <1>7. \A s \in SUBSET {1} : g[s] = IF s = {} THEN b
                                     ELSE LET i == Max(s) IN OnePair(g[s \ {i}], seq[i])
    <2> SUFFICES ASSUME NEW s \in SUBSET {1}
                 PROVE  g[s] = IF s = {} THEN b
                               ELSE LET i == Max(s) IN OnePair(g[s \ {i}], seq[i])
      OBVIOUS
    <2>1. CASE s = {}
      BY <2>1, <1>2, <1>3, <1>4, <1>6
    <2>2. CASE s = {1}
      BY <2>2, <1>2, <1>3, <1>4, <1>6
    <2> QED
      BY <1>5, <2>1, <2>2
  <1>8. Fits(g)
    BY <1>4, <1>7
  <1>9. Fits(C)
    BY <1>8
  <1>10. SetAll(b, seq) = C[{1}]
    BY <1>2 DEF SetAll, FoldLeft, MapThenFoldSet
  <1> HIDE DEF C
  <1>11. C[{}] = b
    BY <1>9
  <1>12. C[{1}] = OnePair(b, x)
    <2>1. C[{1}] = LET i == Max({1}) IN OnePair(C[{1} \ {i}], seq[i])
      BY <1>9
    <2> QED
      BY <1>2, <1>3, <1>6, <1>11, <2>1
  <1> QED
    BY <1>10, <1>12

\* HSET of two arguments.
LEMMA FoldSet2 ==
    ASSUME NEW b, NEW seq, NEW x, NEW y, seq = <<x, y>>
    PROVE  SetAll(b, seq) = OnePair(OnePair(b, x), y)
  <1>2. seq[1] = x /\ seq[2] = y /\ DOMAIN seq = {1, 2}
    OBVIOUS
  <1>3. Max({1}) = 1 /\ Max({2}) = 2 /\ Max({1, 2}) = 2
    BY MaxIs
  <1>4. PICK g : g = [s \in SUBSET {1, 2} |->
                 IF s = {} THEN b ELSE IF s = {1} THEN OnePair(b, x)
                 ELSE IF s = {2} THEN OnePair(b, y) ELSE OnePair(OnePair(b, x), y)]
    OBVIOUS
  <1> DEFINE Fits(f) == f = [s \in SUBSET {1, 2} |->
                 IF s = {} THEN b ELSE LET i == Max(s) IN OnePair(f[s \ {i}], seq[i])]
             C == CHOOSE f : Fits(f)
  <1>5. \A s \in SUBSET {1, 2} : s = {} \/ s = {1} \/ s = {2} \/ s = {1, 2}
    OBVIOUS
  <1>6. {1} \ {1} = {} /\ {2} \ {2} = {} /\ {1, 2} \ {2} = {1}
    OBVIOUS
  <1>7. \A s \in SUBSET {1, 2} : g[s] = IF s = {} THEN b
                                        ELSE LET i == Max(s) IN OnePair(g[s \ {i}], seq[i])
    <2> SUFFICES ASSUME NEW s \in SUBSET {1, 2}
                 PROVE  g[s] = IF s = {} THEN b
                               ELSE LET i == Max(s) IN OnePair(g[s \ {i}], seq[i])
      OBVIOUS
    <2>1. CASE s = {}
      BY <2>1, <1>2, <1>3, <1>4, <1>6
    <2>2. CASE s = {1}
      BY <2>2, <1>2, <1>3, <1>4, <1>6
    <2>3. CASE s = {2}
      BY <2>3, <1>2, <1>3, <1>4, <1>6
    <2>4. CASE s = {1, 2}
      BY <2>4, <1>2, <1>3, <1>4, <1>6
    <2> QED
      BY <1>5, <2>1, <2>2, <2>3, <2>4
  <1>8. Fits(g)
    BY <1>4, <1>7
  <1>9. Fits(C)
    BY <1>8
  <1>10. SetAll(b, seq) = C[{1, 2}]
    BY <1>2 DEF SetAll, FoldLeft, MapThenFoldSet
  <1> HIDE DEF C
  <1>11. C[{}] = b
    BY <1>9
  <1>12. C[{1}] = OnePair(b, x)
    <2>1. C[{1}] = LET i == Max({1}) IN OnePair(C[{1} \ {i}], seq[i])
      BY <1>9
    <2> QED
      BY <1>2, <1>3, <1>6, <1>11, <2>1
  <1>13. C[{1, 2}] = OnePair(OnePair(b, x), y)
    <2>1. C[{1, 2}] = LET i == Max({1, 2}) IN OnePair(C[{1, 2} \ {i}], seq[i])
      BY <1>9
    <2> QED
      BY <1>2, <1>3, <1>6, <1>12, <2>1
  <1> QED
    BY <1>10, <1>13

\* HDEL of one argument.
LEMMA FoldDel1 ==
    ASSUME NEW b, NEW seq, NEW x, seq = <<x>>
    PROVE  DelAll(b, seq) = OneField(b, x)
  <1>2. seq[1] = x /\ DOMAIN seq = {1}
    OBVIOUS
  <1>3. Max({1}) = 1
    BY MaxIs
  <1>4. PICK g : g = [s \in SUBSET {1} |->
                 IF s = {} THEN b ELSE OneField(b, x)]
    OBVIOUS
  <1> DEFINE Fits(f) == f = [s \in SUBSET {1} |->
                 IF s = {} THEN b ELSE LET i == Max(s) IN OneField(f[s \ {i}], seq[i])]
             C == CHOOSE f : Fits(f)
  <1>5. \A s \in SUBSET {1} : s = {} \/ s = {1}
    OBVIOUS
  <1>6. {1} \ {1} = {}
    OBVIOUS
  <1>7. \A s \in SUBSET {1} : g[s] = IF s = {} THEN b
                                     ELSE LET i == Max(s) IN OneField(g[s \ {i}], seq[i])
    <2> SUFFICES ASSUME NEW s \in SUBSET {1}
                 PROVE  g[s] = IF s = {} THEN b
                               ELSE LET i == Max(s) IN OneField(g[s \ {i}], seq[i])
      OBVIOUS
    <2>1. CASE s = {}
      BY <2>1, <1>2, <1>3, <1>4, <1>6
    <2>2. CASE s = {1}
      BY <2>2, <1>2, <1>3, <1>4, <1>6
    <2> QED
      BY <1>5, <2>1, <2>2
  <1>8. Fits(g)
    BY <1>4, <1>7
  <1>9. Fits(C)
    BY <1>8
  <1>10. DelAll(b, seq) = C[{1}]
    BY <1>2 DEF DelAll, FoldLeft, MapThenFoldSet
  <1> HIDE DEF C
  <1>11. C[{}] = b
    BY <1>9
  <1>12. C[{1}] = OneField(b, x)
    <2>1. C[{1}] = LET i == Max({1}) IN OneField(C[{1} \ {i}], seq[i])
      BY <1>9
    <2> QED
      BY <1>2, <1>3, <1>6, <1>11, <2>1
  <1> QED
    BY <1>10, <1>12

\* HDEL of two arguments.
LEMMA FoldDel2 ==
    ASSUME NEW b, NEW seq, NEW x, NEW y, seq = <<x, y>>
    PROVE  DelAll(b, seq) = OneField(OneField(b, x), y)
  <1>2. seq[1] = x /\ seq[2] = y /\ DOMAIN seq = {1, 2}
    OBVIOUS
  <1>3. Max({1}) = 1 /\ Max({2}) = 2 /\ Max({1, 2}) = 2
    BY MaxIs
  <1>4. PICK g : g = [s \in SUBSET {1, 2} |->
                 IF s = {} THEN b ELSE IF s = {1} THEN OneField(b, x)
                 ELSE IF s = {2} THEN OneField(b, y) ELSE OneField(OneField(b, x), y)]
    OBVIOUS
  <1> DEFINE Fits(f) == f = [s \in SUBSET {1, 2} |->
                 IF s = {} THEN b ELSE LET i == Max(s) IN OneField(f[s \ {i}], seq[i])]
             C == CHOOSE f : Fits(f)
  <1>5. \A s \in SUBSET {1, 2} : s = {} \/ s = {1} \/ s = {2} \/ s = {1, 2}
    OBVIOUS
  <1>6. {1} \ {1} = {} /\ {2} \ {2} = {} /\ {1, 2} \ {2} = {1}
    OBVIOUS
  <1>7. \A s \in SUBSET {1, 2} : g[s] = IF s = {} THEN b
                                        ELSE LET i == Max(s) IN OneField(g[s \ {i}], seq[i])
    <2> SUFFICES ASSUME NEW s \in SUBSET {1, 2}
                 PROVE  g[s] = IF s = {} THEN b
                               ELSE LET i == Max(s) IN OneField(g[s \ {i}], seq[i])
      OBVIOUS
    <2>1. CASE s = {}
      BY <2>1, <1>2, <1>3, <1>4, <1>6
    <2>2. CASE s = {1}
      BY <2>2, <1>2, <1>3, <1>4, <1>6
    <2>3. CASE s = {2}
      BY <2>3, <1>2, <1>3, <1>4, <1>6
    <2>4. CASE s = {1, 2}
      BY <2>4, <1>2, <1>3, <1>4, <1>6
    <2> QED
      BY <1>5, <2>1, <2>2, <2>3, <2>4
  <1>8. Fits(g)
    BY <1>4, <1>7
  <1>9. Fits(C)
    BY <1>8
  <1>10. DelAll(b, seq) = C[{1, 2}]
    BY <1>2 DEF DelAll, FoldLeft, MapThenFoldSet
  <1> HIDE DEF C
  <1>11. C[{}] = b
    BY <1>9
  <1>12. C[{1}] = OneField(b, x)
    <2>1. C[{1}] = LET i == Max({1}) IN OneField(C[{1} \ {i}], seq[i])
      BY <1>9
    <2> QED
      BY <1>2, <1>3, <1>6, <1>11, <2>1
  <1>13. C[{1, 2}] = OneField(OneField(b, x), y)
    <2>1. C[{1, 2}] = LET i == Max({1, 2}) IN OneField(C[{1, 2} \ {i}], seq[i])
      BY <1>9
    <2> QED
      BY <1>2, <1>3, <1>6, <1>12, <2>1
  <1> QED
    BY <1>10, <1>13

\* ZREM of one argument.
LEMMA FoldRem1 ==
    ASSUME NEW b, NEW seq, NEW x, seq = <<x>>
    PROVE  RemAll(b, seq) = OneMember(b, x)
  <1>2. seq[1] = x /\ DOMAIN seq = {1}
    OBVIOUS
  <1>3. Max({1}) = 1
    BY MaxIs
  <1>4. PICK g : g = [s \in SUBSET {1} |->
                 IF s = {} THEN b ELSE OneMember(b, x)]
    OBVIOUS
  <1> DEFINE Fits(f) == f = [s \in SUBSET {1} |->
                 IF s = {} THEN b ELSE LET i == Max(s) IN OneMember(f[s \ {i}], seq[i])]
             C == CHOOSE f : Fits(f)
  <1>5. \A s \in SUBSET {1} : s = {} \/ s = {1}
    OBVIOUS
  <1>6. {1} \ {1} = {}
    OBVIOUS
  <1>7. \A s \in SUBSET {1} : g[s] = IF s = {} THEN b
                                     ELSE LET i == Max(s) IN OneMember(g[s \ {i}], seq[i])
    <2> SUFFICES ASSUME NEW s \in SUBSET {1}
                 PROVE  g[s] = IF s = {} THEN b
                               ELSE LET i == Max(s) IN OneMember(g[s \ {i}], seq[i])
      OBVIOUS
    <2>1. CASE s = {}
      BY <2>1, <1>2, <1>3, <1>4, <1>6
    <2>2. CASE s = {1}
      BY <2>2, <1>2, <1>3, <1>4, <1>6
    <2> QED
      BY <1>5, <2>1, <2>2
  <1>8. Fits(g)
    BY <1>4, <1>7
  <1>9. Fits(C)
    BY <1>8
  <1>10. RemAll(b, seq) = C[{1}]
    BY <1>2 DEF RemAll, FoldLeft, MapThenFoldSet
  <1> HIDE DEF C
  <1>11. C[{}] = b
    BY <1>9
  <1>12. C[{1}] = OneMember(b, x)
    <2>1. C[{1}] = LET i == Max({1}) IN OneMember(C[{1} \ {i}], seq[i])
      BY <1>9
    <2> QED
      BY <1>2, <1>3, <1>6, <1>11, <2>1
  <1> QED
    BY <1>10, <1>12

\* ZREM of two arguments.
LEMMA FoldRem2 ==
    ASSUME NEW b, NEW seq, NEW x, NEW y, seq = <<x, y>>
    PROVE  RemAll(b, seq) = OneMember(OneMember(b, x), y)
  <1>2. seq[1] = x /\ seq[2] = y /\ DOMAIN seq = {1, 2}
    OBVIOUS
  <1>3. Max({1}) = 1 /\ Max({2}) = 2 /\ Max({1, 2}) = 2
    BY MaxIs
  <1>4. PICK g : g = [s \in SUBSET {1, 2} |->
                 IF s = {} THEN b ELSE IF s = {1} THEN OneMember(b, x)
                 ELSE IF s = {2} THEN OneMember(b, y) ELSE OneMember(OneMember(b, x), y)]
    OBVIOUS
  <1> DEFINE Fits(f) == f = [s \in SUBSET {1, 2} |->
                 IF s = {} THEN b ELSE LET i == Max(s) IN OneMember(f[s \ {i}], seq[i])]
             C == CHOOSE f : Fits(f)
  <1>5. \A s \in SUBSET {1, 2} : s = {} \/ s = {1} \/ s = {2} \/ s = {1, 2}
    OBVIOUS
  <1>6. {1} \ {1} = {} /\ {2} \ {2} = {} /\ {1, 2} \ {2} = {1}
    OBVIOUS
  <1>7. \A s \in SUBSET {1, 2} : g[s] = IF s = {} THEN b
                                        ELSE LET i == Max(s) IN OneMember(g[s \ {i}], seq[i])
    <2> SUFFICES ASSUME NEW s \in SUBSET {1, 2}
                 PROVE  g[s] = IF s = {} THEN b
                               ELSE LET i == Max(s) IN OneMember(g[s \ {i}], seq[i])
      OBVIOUS
    <2>1. CASE s = {}
      BY <2>1, <1>2, <1>3, <1>4, <1>6
    <2>2. CASE s = {1}
      BY <2>2, <1>2, <1>3, <1>4, <1>6
    <2>3. CASE s = {2}
      BY <2>3, <1>2, <1>3, <1>4, <1>6
    <2>4. CASE s = {1, 2}
      BY <2>4, <1>2, <1>3, <1>4, <1>6
    <2> QED
      BY <1>5, <2>1, <2>2, <2>3, <2>4
  <1>8. Fits(g)
    BY <1>4, <1>7
  <1>9. Fits(C)
    BY <1>8
  <1>10. RemAll(b, seq) = C[{1, 2}]
    BY <1>2 DEF RemAll, FoldLeft, MapThenFoldSet
  <1> HIDE DEF C
  <1>11. C[{}] = b
    BY <1>9
  <1>12. C[{1}] = OneMember(b, x)
    <2>1. C[{1}] = LET i == Max({1}) IN OneMember(C[{1} \ {i}], seq[i])
      BY <1>9
    <2> QED
      BY <1>2, <1>3, <1>6, <1>11, <2>1
  <1>13. C[{1, 2}] = OneMember(OneMember(b, x), y)
    <2>1. C[{1, 2}] = LET i == Max({1, 2}) IN OneMember(C[{1, 2} \ {i}], seq[i])
      BY <1>9
    <2> QED
      BY <1>2, <1>3, <1>6, <1>12, <2>1
  <1> QED
    BY <1>10, <1>13

-----------------------------------------------------------------------------
(* Lists: the commands *)

\* The addresses of its nodes are at most m.
Within(l, m) == DOMAIN l.node \subseteq 1 .. m

\* A push takes a free address, at most one beyond the number of nodes.
LEMMA PushWithin ==
    ASSUME NEW l, IsList(l), NEW v \in Elems, NEW m \in Nat, Within(l, m), l.len + 1 <= m
    PROVE  Within(ListLPush(l, v), m) /\ Within(ListRPush(l, v), m)
  <1>1. PICK s : Strung(l, s)
    BY DEF IsList
  <1>2. PICK n : n = FreeAddress(DOMAIN l.node)
    OBVIOUS
  <1>3. l.len \in Nat /\ IsFiniteSet(DOMAIN l.node) /\ Cardinality(DOMAIN l.node) = l.len
    BY <1>1, StrungSize DEF Strung
  <1>4. n \in 1 .. m
    BY <1>2, <1>3, FreeAddressIs
  <1>5. DOMAIN With(l.node, n, ListNode(v)) = DOMAIN l.node \cup {n}
    BY DEF With
  <1>6. /\ DOMAIN ListLPush(l, v).node = DOMAIN l.node \cup {n}
        /\ DOMAIN ListRPush(l, v).node = DOMAIN l.node \cup {n}
    BY <1>2, <1>5 DEF ListLPush, ListRPush
  <1> QED
    BY <1>4, <1>6 DEF Within

\* A pop takes none.
LEMMA PopWithin ==
    ASSUME NEW l, NEW m, Within(l, m)
    PROVE  Within(ListLPop(l), m) /\ Within(ListRPop(l), m)
  <1>1. /\ DOMAIN Without(l.node, l.head) \subseteq DOMAIN l.node
        /\ DOMAIN Without(l.node, l.tail) \subseteq DOMAIN l.node
    BY DEF Without
  <1> QED
    BY <1>1 DEF Within, ListLPop, ListRPop

\* A list the keyspace may hold: the key of an empty one is deleted.
GoodList(l) == IsList(l) /\ l.len # 0

\* k has as many values more than l as es has.
Longer(k, l, es, m) ==
    GoodList(k) /\ k.len = l.len + Len(es) /\ Within(k, m)

\* What one or two pushes do to the values.
LEMMA Pushed ==
    ASSUME NEW l, IsList(l), NEW es \in Upto2(Elems),
           NEW m \in Nat, Within(l, m), l.len + Len(es) <= m
    PROVE  /\ Longer(LPushAll(l, es), l, es, m)
           /\ Values(LPushAll(l, es)) = Reverse(es) \o Values(l)
           /\ Longer(RPushAll(l, es), l, es, m)
           /\ Values(RPushAll(l, es)) = Values(l) \o es
  <1>1. PICK n \in Nat : n = l.len
    BY DEF IsList, Strung
  <1>2. Values(l) \in Seq(Elems)
    BY ValuesAre DEF IsList
  <1>3. CASE \E x \in Elems : es = <<x>>
    <2>1. PICK x \in Elems : es = <<x>>
      BY <1>3
    <2>2. Len(es) = 1 /\ n + 1 <= m /\ n + 1 # 0
      BY <1>1, <2>1
    <2>3. LPushAll(l, es) = ListLPush(l, x) /\ RPushAll(l, es) = ListRPush(l, x)
      BY <2>1, FoldLPush1, FoldRPush1
    <2>4. Within(ListLPush(l, x), m) /\ Within(ListRPush(l, x), m)
      BY <1>1, <2>2, PushWithin
    <2>5. Reverse(es) = <<x>>
      BY <2>1, PairIs
    <2>6. /\ IsList(ListLPush(l, x)) /\ ListLPush(l, x).len = n + 1
          /\ IsList(ListRPush(l, x)) /\ ListRPush(l, x).len = n + 1
          /\ Values(ListLPush(l, x)) = <<x>> \o Values(l)
          /\ Values(ListRPush(l, x)) = Values(l) \o <<x>>
      BY <1>1, LPushed, RPushed
    <2>7. Longer(ListLPush(l, x), l, es, m) /\ Longer(ListRPush(l, x), l, es, m)
      BY <1>1, <2>2, <2>4, <2>6 DEF Longer, GoodList
    <2> QED
      BY <2>1, <2>3, <2>5, <2>6, <2>7
  <1>4. CASE \E x, y \in Elems : es = <<x, y>>
    <2>1. PICK x \in Elems, y \in Elems : es = <<x, y>>
      BY <1>4
    <2>2. Len(es) = 2 /\ n + 1 <= m /\ n + 1 + 1 = n + 2 /\ n + 2 <= m /\ n + 2 # 0
      BY <1>1, <2>1
    <2>3. PICK a : a = ListLPush(l, x)
      OBVIOUS
    <2>4. PICK b : b = ListRPush(l, x)
      OBVIOUS
    <2>5. LPushAll(l, es) = ListLPush(a, y) /\ RPushAll(l, es) = ListRPush(b, y)
      BY <2>1, <2>3, <2>4, FoldLPush2, FoldRPush2
    <2>6. /\ IsList(a) /\ a.len = n + 1 /\ Values(a) = <<x>> \o Values(l)
          /\ IsList(b) /\ b.len = n + 1 /\ Values(b) = Values(l) \o <<x>>
      BY <1>1, <2>3, <2>4, LPushed, RPushed
    <2>7. Within(a, m) /\ Within(b, m)
      BY <1>1, <2>2, <2>3, <2>4, PushWithin
    <2>8. Within(ListLPush(a, y), m) /\ Within(ListRPush(b, y), m)
      BY <2>2, <2>6, <2>7, PushWithin
    <2>9. /\ IsList(ListLPush(a, y)) /\ ListLPush(a, y).len = n + 2
          /\ Values(ListLPush(a, y)) = <<y>> \o Values(a)
      BY <2>2, <2>6, LPushed
    <2>10. /\ IsList(ListRPush(b, y)) /\ ListRPush(b, y).len = n + 2
           /\ Values(ListRPush(b, y)) = Values(b) \o <<y>>
      BY <2>2, <2>6, RPushed
    <2>11. Longer(ListLPush(a, y), l, es, m) /\ Longer(ListRPush(b, y), l, es, m)
      BY <1>1, <2>2, <2>8, <2>9, <2>10 DEF Longer, GoodList
    <2>12. Reverse(es) = <<y>> \o <<x>> /\ es = <<x>> \o <<y>>
      BY <2>1, PairIs
    <2>13. <<x>> \in Seq(Elems) /\ <<y>> \in Seq(Elems)
      OBVIOUS
    <2>14. /\ (<<y>> \o <<x>>) \o Values(l) = <<y>> \o (<<x>> \o Values(l))
           /\ Values(l) \o (<<x>> \o <<y>>) = (Values(l) \o <<x>>) \o <<y>>
      BY <1>2, <2>13, ConcatAssociative
    <2> QED
      BY <2>5, <2>6, <2>9, <2>10, <2>11, <2>12, <2>14
  <1> QED
    BY <1>3, <1>4 DEF Upto2

\* The part of the inductive invariant about lists.
ListInv ==
    type = "list" /\ val # None =>
        GoodList(val) /\ val.len <= MaxLen /\ Within(val, MaxLen)

\* The list the handlers work on, a new one if the key is missing.
LEMMA ListThere ==
    ASSUME ListInv, type = "list", NEW l, l = Existing(NewList)
    PROVE  IsList(l) /\ l.len \in Nat /\ l.len <= MaxLen /\ Within(l, MaxLen)
  <1>1. MaxLen \in Nat
    BY BoundsAreNumbers
  <1>2. CASE val = None
    BY <1>1, <1>2, NewListIs DEF Existing, Within
  <1>3. CASE val # None
    <2>1. l = val
      BY <1>3 DEF Existing
    <2>2. IsList(val) /\ val.len <= MaxLen /\ Within(val, MaxLen)
      BY <1>3 DEF ListInv, GoodList
    <2>3. val.len \in Nat
      BY <2>2 DEF IsList, Strung
    <2> QED
      BY <2>1, <2>2, <2>3
  <1> QED
    BY <1>2, <1>3

\* The list commands preserve it.
LEMMA ListSteps ==
    ASSUME ListInv, ListStep
    PROVE  ListInv' /\ UNCHANGED <<type, odd>>
  <1>1. type = "list" /\ MaxLen \in Nat
    BY BoundsAreNumbers DEF ListStep
  <1>2. ASSUME NEW es \in Upto2(Elems), Existing(NewList).len + Len(es) <= MaxLen,
               Become(LPush(es)) \/ Become(RPush(es))
        PROVE  ListInv' /\ UNCHANGED <<type, odd>>
    <2>1. PICK l : l = Existing(NewList)
      OBVIOUS
    <2>2. IsList(l) /\ Within(l, MaxLen) /\ l.len \in Nat
      BY <1>1, <2>1, ListThere
    <2>3. l.len + Len(es) <= MaxLen
      BY <1>2, <2>1
    <2>4. Longer(LPushAll(l, es), l, es, MaxLen) /\ Longer(RPushAll(l, es), l, es, MaxLen)
      BY <1>1, <2>2, <2>3, Pushed
    <2>5. /\ val' = LPushAll(l, es) \/ val' = RPushAll(l, es)
          /\ UNCHANGED <<type, odd>>
      BY <1>2, <2>1 DEF Become, LPush, RPush, Result, LPushAll, RPushAll
    <2>6. GoodList(val') /\ val'.len <= MaxLen /\ Within(val', MaxLen)
      BY <2>3, <2>4, <2>5 DEF Longer
    <2> QED
      BY <2>5, <2>6 DEF ListInv, GoodList, Within, IsList, Shaped, Strung
  <1>3. ASSUME Become(LPop) \/ Become(RPop)
        PROVE  ListInv' /\ UNCHANGED <<type, odd>>
    <2>1. CASE val = None
      BY <1>3, <2>1 DEF Become, LPop, RPop, Result, ListInv
    <2>2. CASE val # None
      <3>1. IsList(val) /\ val.len # 0 /\ val.len <= MaxLen /\ Within(val, MaxLen)
        BY <1>1, <2>2 DEF ListInv, GoodList
      <3>2. val.len \in Nat
        BY <3>1 DEF IsList, Strung
      <3>3. /\ IsList(ListLPop(val)) /\ ListLPop(val).len = val.len - 1
            /\ IsList(ListRPop(val)) /\ ListRPop(val).len = val.len - 1
        BY <3>1, LPopped, RPopped
      <3>4. Within(ListLPop(val), MaxLen) /\ Within(ListRPop(val), MaxLen)
        BY <3>1, PopWithin
      <3>5. /\ val' = Popped(ListLPop(val)) \/ val' = Popped(ListRPop(val))
            /\ UNCHANGED <<type, odd>>
        BY <1>3, <2>2 DEF Become, LPop, RPop, Result
      <3>6. val' # None => GoodList(val') /\ val'.len <= MaxLen /\ Within(val', MaxLen)
        BY <1>1, <3>1, <3>2, <3>3, <3>4, <3>5 DEF Popped, GoodList
      <3> QED
        BY <3>5, <3>6 DEF ListInv
    <2> QED
      BY <2>1, <2>2
  <1> QED
    BY <1>2, <1>3 DEF ListStep

-----------------------------------------------------------------------------
(* Tables *)

\* The entries of a dict.
Pairs(K, V) == [key : K, val : V]

\* The n buckets bs hold each key once, in its bucket.
Table(bs, n, K, V) ==
    /\ n \in Nat \ {0}
    /\ K \subseteq DOMAIN HashOf
    /\ bs \in [1 .. n -> Seq(Pairs(K, V))]
    /\ \A i \in 1 .. n : \A p \in 1 .. Len(bs[i]) : Index(bs[i][p].key, n) = i
    /\ \A i \in 1 .. n : \A p, q \in 1 .. Len(bs[i]) :
          bs[i][p].key = bs[i][q].key => p = q

\* The entries in them.
Held(bs) == UNION {Range(bs[i]) : i \in DOMAIN bs}

\* An entry of the table is at a place of a bucket.
LEMMA HeldIs ==
    ASSUME NEW bs, NEW n, NEW K, NEW V, Table(bs, n, K, V), NEW e
    PROVE  e \in Held(bs) <=> \E i \in 1 .. n : \E p \in 1 .. Len(bs[i]) : e = bs[i][p]
  <1>1. \A i \in 1 .. n : Range(bs[i]) = {bs[i][p] : p \in 1 .. Len(bs[i])}
    BY DEF Table, Range
  <1>2. DOMAIN bs = 1 .. n
    BY DEF Table
  <1> QED
    BY <1>1, <1>2 DEF Held

\* The hash leads to a bucket of the table.
LEMMA IndexIs ==
    ASSUME NEW key \in DOMAIN HashOf, NEW n \in Nat \ {0}
    PROVE  Index(key, n) \in 1 .. n
  <1>1. PICK h \in Nat : h = HashOf[key]
    BY HashesAreNumbers
  <1>2. h % n \in 0 .. n - 1
    OBVIOUS
  <1> QED
    BY <1>1, <1>2 DEF Index

\* The places of the buckets up to the i-th.
Places(bs, m) == {q \in (1 .. m) \X Nat : q[2] \in 1 .. Len(bs[q[1]])}

\* The sequences of bs up to the m-th, joined one after the other.
Joins(bs, f, m) == f = [i \in 1 .. m |-> IF i = 1 THEN bs[i] ELSE f[i - 1] \o bs[i]]

\* The function that joins them exists.
LEMMA JoinsExist ==
    ASSUME NEW n \in Nat \ {0}, NEW bs
    PROVE  \E f : Joins(bs, f, n)
  <1> DEFINE T == {m \in Nat : m = 0 \/ \E f : Joins(bs, f, m)}
  <1>1. 0 \in T
    OBVIOUS
  <1>2. ASSUME NEW m \in Nat, m \in T PROVE m + 1 \in T
    <2>1. CASE m = 0
      <3> DEFINE g == [i \in 1 .. 1 |-> bs[i]]
      <3>1. g = [i \in 1 .. 1 |-> IF i = 1 THEN bs[i] ELSE g[i - 1] \o bs[i]]
        OBVIOUS
      <3> HIDE DEF g
      <3>2. Joins(bs, g, m + 1)
        BY <2>1, <3>1 DEF Joins
      <3> QED
        BY <3>2
    <2>2. CASE m # 0
      <3>1. PICK f : Joins(bs, f, m)
        BY <1>2, <2>2
      <3> DEFINE g == [i \in 1 .. m + 1 |-> IF i = m + 1 THEN f[m] \o bs[m + 1] ELSE f[i]]
      <3>2. ASSUME NEW i \in 1 .. m + 1
            PROVE  g[i] = IF i = 1 THEN bs[i] ELSE g[i - 1] \o bs[i]
        <4>1. CASE i = m + 1
          <5>1. i - 1 = m /\ i # 1 /\ i - 1 # m + 1 /\ i - 1 \in 1 .. m + 1
            BY <2>2, <4>1
          <5>2. g[i - 1] = f[m] /\ g[i] = f[m] \o bs[m + 1]
            BY <4>1, <5>1
          <5> QED
            BY <4>1, <5>1, <5>2
        <4>2. CASE i # m + 1
          <5>1. i \in 1 .. m /\ (i # 1 => i - 1 \in 1 .. m)
            BY <4>2
          <5>2. g[i] = f[i] /\ (i # 1 => g[i - 1] = f[i - 1])
            BY <5>1
          <5>3. f[i] = IF i = 1 THEN bs[i] ELSE f[i - 1] \o bs[i]
            BY <3>1, <5>1 DEF Joins
          <5> QED
            BY <5>2, <5>3
        <4> QED
          BY <4>1, <4>2
      <3>3. g = [i \in 1 .. m + 1 |-> g[i]]
        OBVIOUS
      <3> HIDE DEF g
      <3>4. Joins(bs, g, m + 1)
        BY <3>2, <3>3 DEF Joins
      <3> QED
        BY <3>4
    <2> QED
      BY <2>1, <2>2
  <1> HIDE DEF T
  <1>3. Nat \subseteq T
    BY <1>1, <1>2, Climb
  <1> QED
    BY <1>3 DEF T

\* s lists what is at the places up to the m-th bucket, at telling which one is where.
Lists(bs, E, s, at, m) ==
    /\ s \in Seq(E)
    /\ at \in [1 .. Len(s) -> Places(bs, m)]
    /\ \A j \in 1 .. Len(s) : s[j] = bs[at[j][1]][at[j][2]]
    /\ \A j, k \in 1 .. Len(s) : at[j] = at[k] => j = k
    /\ \A q \in Places(bs, m) : \E j \in 1 .. Len(s) : at[j] = q

\* The first bucket lists its places.
LEMMA ListsFirst ==
    ASSUME NEW n \in Nat \ {0}, NEW E, NEW bs \in [1 .. n -> Seq(E)]
    PROVE  \E at : Lists(bs, E, bs[1], at, 1)
  <1>1. PICK s \in Seq(E) : s = bs[1]
    OBVIOUS
  <1>2. \A q \in Places(bs, 1) : \E j \in 1 .. Len(s) : q = <<1, j>>
    BY <1>1 DEF Places
  <1>3. \A j \in 1 .. Len(s) : <<1, j>> \in Places(bs, 1)
    BY <1>1 DEF Places
  <1>4. PICK at : at = [j \in 1 .. Len(s) |-> <<1, j>>]
    OBVIOUS
  <1>5. Lists(bs, E, s, at, 1)
    BY <1>1, <1>2, <1>3, <1>4 DEF Lists
  <1> QED
    BY <1>1, <1>5

\* Joining the next bucket lists its places too.
LEMMA ListsNext ==
    ASSUME NEW n \in Nat \ {0}, NEW E, NEW bs \in [1 .. n -> Seq(E)],
           NEW m \in 1 .. n - 1, NEW s, NEW at, Lists(bs, E, s, at, m)
    PROVE  \E bt : Lists(bs, E, s \o bs[m + 1], bt, m + 1)
  <1>1. m + 1 \in 1 .. n
    OBVIOUS
  <1>2. PICK t \in Seq(E) : t = bs[m + 1]
    BY <1>1
  <1>3. s \in Seq(E)
    BY DEF Lists
  <1>4. s \o t \in Seq(E) /\ Len(s \o t) = Len(s) + Len(t)
    BY <1>2, <1>3, ConcatProperties
  <1>5. \A j \in 1 .. Len(s) + Len(t) :
           (s \o t)[j] = IF j <= Len(s) THEN s[j] ELSE t[j - Len(s)]
    BY <1>2, <1>3, ConcatProperties
  <1>6. PICK bt : bt = [j \in 1 .. Len(s) + Len(t) |->
                       IF j <= Len(s) THEN at[j] ELSE <<m + 1, j - Len(s)>>]
    OBVIOUS
  <1>8. Len(s) \in Nat /\ Len(t) \in Nat
    BY <1>2, <1>3
  <1>9. \A q \in Places(bs, m + 1) : q \in Places(bs, m)
                                     \/ \E j \in 1 .. Len(t) : q = <<m + 1, j>>
    BY <1>2 DEF Places
  <1>10. \A q \in Places(bs, m) : q \in Places(bs, m + 1) /\ q[1] # m + 1
    BY DEF Places
  <1>11. \A j \in 1 .. Len(t) : <<m + 1, j>> \in Places(bs, m + 1)
    BY <1>2 DEF Places
  <1>12. bt \in [1 .. Len(s) + Len(t) -> Places(bs, m + 1)]
    <2>1. \A j \in 1 .. Len(s) : at[j] \in Places(bs, m)
      BY DEF Lists
    <2>2. ASSUME NEW j \in 1 .. Len(s) + Len(t) PROVE bt[j] \in Places(bs, m + 1)
      <3>1. CASE j <= Len(s)
        BY <1>6, <1>8, <1>10, <2>1, <3>1
      <3>2. CASE ~(j <= Len(s))
        BY <1>6, <1>8, <1>11, <3>2
      <3> QED
        BY <3>1, <3>2
    <2> QED
      BY <1>6, <2>2
  <1>13. \A j \in 1 .. Len(s) + Len(t) : (s \o t)[j] = bs[bt[j][1]][bt[j][2]]
    <2> SUFFICES ASSUME NEW j \in 1 .. Len(s) + Len(t)
                 PROVE  (s \o t)[j] = bs[bt[j][1]][bt[j][2]]
      OBVIOUS
    <2>1. CASE j <= Len(s)
      <3>1. bt[j] = at[j] /\ (s \o t)[j] = s[j] /\ j \in 1 .. Len(s)
        BY <1>5, <1>6, <1>8, <2>1
      <3>2. s[j] = bs[at[j][1]][at[j][2]]
        BY <3>1 DEF Lists
      <3> QED
        BY <3>1, <3>2
    <2>2. CASE ~(j <= Len(s))
      <3>1. bt[j] = <<m + 1, j - Len(s)>>
        BY <1>6, <2>2
      <3> QED
        BY <1>2, <1>5, <1>8, <2>2, <3>1
    <2> QED
      BY <2>1, <2>2
  <1>14. \A j, k \in 1 .. Len(s) + Len(t) : bt[j] = bt[k] => j = k
    <2> SUFFICES ASSUME NEW j \in 1 .. Len(s) + Len(t), NEW k \in 1 .. Len(s) + Len(t),
                        bt[j] = bt[k]
                 PROVE  j = k
      OBVIOUS
    <2>1. \A i \in 1 .. Len(s) : at[i] \in Places(bs, m) /\ at[i][1] # m + 1
      BY <1>10 DEF Lists
    <2>2. CASE j <= Len(s) /\ k <= Len(s)
      BY <1>6, <1>8, <2>2 DEF Lists
    <2>3. CASE ~(j <= Len(s)) /\ ~(k <= Len(s))
      BY <1>6, <1>8, <2>3
    <2>4. CASE j <= Len(s) /\ ~(k <= Len(s))
      BY <1>6, <1>8, <2>1, <2>4
    <2>5. CASE ~(j <= Len(s)) /\ k <= Len(s)
      BY <1>6, <1>8, <2>1, <2>5
    <2> QED
      BY <2>2, <2>3, <2>4, <2>5
  <1>15. \A q \in Places(bs, m + 1) : \E j \in 1 .. Len(s) + Len(t) : bt[j] = q
    <2> SUFFICES ASSUME NEW q \in Places(bs, m + 1)
                 PROVE  \E j \in 1 .. Len(s) + Len(t) : bt[j] = q
      OBVIOUS
    <2>1. CASE q \in Places(bs, m)
      <3>1. PICK j \in 1 .. Len(s) : at[j] = q
        BY <2>1 DEF Lists
      <3>2. j \in 1 .. Len(s) + Len(t) /\ bt[j] = q
        BY <1>6, <1>8, <3>1
      <3> QED
        BY <3>2
    <2>2. CASE \E j \in 1 .. Len(t) : q = <<m + 1, j>>
      <3>1. PICK j \in 1 .. Len(t) : q = <<m + 1, j>>
        BY <2>2
      <3>2. PICK k : k = Len(s) + j
        OBVIOUS
      <3>3. k \in 1 .. Len(s) + Len(t) /\ ~(k <= Len(s)) /\ k - Len(s) = j
        BY <1>8, <3>2
      <3> QED
        BY <1>6, <3>1, <3>3
    <2> QED
      BY <1>9, <2>1, <2>2
  <1>16. Lists(bs, E, s \o t, bt, m + 1)
    BY <1>4, <1>12, <1>13, <1>14, <1>15 DEF Lists
  <1> QED
    BY <1>2, <1>16

\* The entries in the order of dict_each are those of the places, each once.
LEMMA FlatPlaces ==
    ASSUME NEW n \in Nat \ {0}, NEW E, NEW bs \in [1 .. n -> Seq(E)]
    PROVE  \E at : Lists(bs, E, FlattenSeq(bs), at, n)
  <1> DEFINE Fits(f) == f = [i \in 1 .. n |-> IF i = 1 THEN bs[i] ELSE f[i - 1] \o bs[i]]
             C == CHOOSE f : Fits(f)
  <1>1. Len(bs) = n
    BY SeqOfFun
  <1>2. FlattenSeq(bs) = C[n]
    BY <1>1 DEF FlattenSeq
  <1>3. \E f : Fits(f)
    BY JoinsExist DEF Joins
  <1>4. Fits(C)
    BY <1>3
  <1> HIDE DEF C
  <1> DEFINE U == {m \in Nat : m \in 1 .. n => \E at : Lists(bs, E, C[m], at, m)}
  <1>5. 0 \in U
    OBVIOUS
  <1>6. ASSUME NEW m \in Nat, m \in U PROVE m + 1 \in U
    <2> SUFFICES ASSUME m + 1 \in 1 .. n
                 PROVE  \E at : Lists(bs, E, C[m + 1], at, m + 1)
      OBVIOUS
    <2>1. CASE m = 0
      <3>1. C[1] = bs[1]
        BY <1>4
      <3> QED
        BY <2>1, <3>1, ListsFirst
    <2>2. CASE m # 0
      <3>1. m \in 1 .. n - 1 /\ m + 1 # 1 /\ m \in 1 .. n
        BY <2>2
      <3>2. C[m + 1] = C[m] \o bs[m + 1]
        <4>1. PICK k \in 1 .. n : k = m + 1
          OBVIOUS
        <4>2. k - 1 = m /\ k # 1
          BY <3>1, <4>1
        <4>3. C[k] = C[k - 1] \o bs[k]
          BY <1>4, <4>2
        <4> QED
          BY <4>1, <4>2, <4>3
      <3>3. PICK at : Lists(bs, E, C[m], at, m)
        BY <1>6, <3>1
      <3>4. \E bt : Lists(bs, E, C[m] \o bs[m + 1], bt, m + 1)
        BY <3>1, <3>3, ListsNext
      <3> QED
        BY <3>2, <3>4
    <2> QED
      BY <2>1, <2>2
  <1> HIDE DEF U
  <1>7. Nat \subseteq U
    BY <1>5, <1>6, Climb
  <1>8. n \in U /\ n \in 1 .. n
    BY <1>7
  <1>9. \E at : Lists(bs, E, C[n], at, n)
    BY <1>8 DEF U
  <1> QED
    BY <1>2, <1>9

\* Such a place.
LEMMA HeldAt ==
    ASSUME NEW bs, NEW n, NEW K, NEW V, Table(bs, n, K, V), NEW e \in Held(bs)
    PROVE  \E i, p : i \in 1 .. n /\ p \in 1 .. Len(bs[i]) /\ e = bs[i][p]
  <1>1. PICK i \in 1 .. n : \E p \in 1 .. Len(bs[i]) : e = bs[i][p]
    BY HeldIs
  <1>2. PICK p \in 1 .. Len(bs[i]) : e = bs[i][p]
    BY <1>1
  <1> QED
    BY <1>2

\* Buckets without entries are a table.
LEMMA EmptyTable ==
    ASSUME NEW n \in Nat \ {0}, NEW K \in SUBSET DOMAIN HashOf, NEW V, NEW bs,
           bs = [i \in 1 .. n |-> << >>]
    PROVE  Table(bs, n, K, V) /\ Held(bs) = {}
  <1>1. Table(bs, n, K, V)
    BY DEF Table
  <1>2. \A i \in 1 .. n : ~ \E p \in 1 .. Len(bs[i]) : TRUE
    OBVIOUS
  <1> QED
    BY <1>1, <1>2, HeldIs

\* No two entries have one key.
LEMMA KeysDiffer ==
    ASSUME NEW bs, NEW n, NEW K, NEW V, Table(bs, n, K, V),
           NEW e \in Held(bs), NEW f \in Held(bs), e.key = f.key
    PROVE  e = f
  <1>1. PICK i, p : i \in 1 .. n /\ p \in 1 .. Len(bs[i]) /\ e = bs[i][p]
    BY HeldAt
  <1>2. PICK j, q : j \in 1 .. n /\ q \in 1 .. Len(bs[j]) /\ f = bs[j][q]
    BY HeldAt
  <1>3. i = j
    <2>1. Index(bs[i][p].key, n) = i /\ Index(bs[j][q].key, n) = j
      BY <1>1, <1>2 DEF Table
    <2> QED
      BY <1>1, <1>2, <2>1
  <1>4. q \in 1 .. Len(bs[i]) /\ bs[i][p].key = bs[i][q].key
    BY <1>1, <1>2, <1>3
  <1>5. p = q
    BY <1>1, <1>4 DEF Table
  <1> QED
    BY <1>1, <1>2, <1>3, <1>5

\* Its entries are pairs of a key and a value.
LEMMA EntriesAre ==
    ASSUME NEW bs, NEW n, NEW K, NEW V, Table(bs, n, K, V)
    PROVE  Held(bs) \subseteq Pairs(K, V)
  <1> SUFFICES ASSUME NEW e \in Held(bs) PROVE e \in Pairs(K, V)
    OBVIOUS
  <1>1. PICK i, p : i \in 1 .. n /\ p \in 1 .. Len(bs[i]) /\ e = bs[i][p]
    BY HeldAt
  <1>2. bs[i] \in Seq(Pairs(K, V))
    BY <1>1 DEF Table
  <1> QED
    BY <1>1, <1>2

\* t may be the i-th of n buckets.
BucketOf(t, i, n, K, V) ==
    /\ t \in Seq(Pairs(K, V))
    /\ \A p \in 1 .. Len(t) : Index(t[p].key, n) = i
    /\ \A p, q \in 1 .. Len(t) : t[p].key = t[q].key => p = q

\* The i-th bucket becomes t and the others are left alone.
Swapped(bs, i, t, cs) == cs = [bs EXCEPT ![i] = t]

\* A table with another bucket in one place is a table, of the entries of the
\* others and of the new one.
LEMMA OneBucket ==
    ASSUME NEW bs, NEW n, NEW K, NEW V, Table(bs, n, K, V), NEW i \in 1 .. n,
           NEW t, BucketOf(t, i, n, K, V), NEW cs, Swapped(bs, i, t, cs)
    PROVE  Table(cs, n, K, V) /\ Held(cs) = (Held(bs) \ Range(bs[i])) \cup Range(t)
  <1>2. n \in Nat \ {0} /\ K \subseteq DOMAIN HashOf /\ bs \in [1 .. n -> Seq(Pairs(K, V))]
    BY DEF Table
  <1>3. cs \in [1 .. n -> Seq(Pairs(K, V))] /\ cs[i] = t
        /\ \A j \in 1 .. n : j # i => cs[j] = bs[j]
    BY <1>2 DEF BucketOf, Swapped
  <1>4. Table(cs, n, K, V)
    BY <1>2, <1>3 DEF Table, BucketOf
  <1>5. \A f : f \in Range(t) <=> \E p \in 1 .. Len(t) : f = t[p]
    BY DEF Range, BucketOf
  <1>6. \A f : f \in Range(bs[i]) <=> \E p \in 1 .. Len(bs[i]) : f = bs[i][p]
    BY <1>2 DEF Range
  <1>7. \A f : f \in Held(cs) <=> \E j \in 1 .. n : \E p \in 1 .. Len(cs[j]) : f = cs[j][p]
    BY <1>4, HeldIs
  <1>8. \A f : f \in Held(bs) <=> \E j \in 1 .. n : \E p \in 1 .. Len(bs[j]) : f = bs[j][p]
    BY HeldIs
  <1>9. \A j \in 1 .. n : \A p \in 1 .. Len(bs[j]) : j # i => bs[j][p] \notin Range(bs[i])
    <2> SUFFICES ASSUME NEW j \in 1 .. n, NEW p \in 1 .. Len(bs[j]), j # i,
                        bs[j][p] \in Range(bs[i])
                 PROVE  FALSE
      OBVIOUS
    <2>1. PICK q \in 1 .. Len(bs[i]) : bs[j][p] = bs[i][q]
      BY <1>6
    <2>2. Index(bs[j][p].key, n) = j /\ Index(bs[i][q].key, n) = i
      BY DEF Table
    <2> QED
      BY <2>1, <2>2
  <1>10. ASSUME NEW f \in Held(cs) PROVE f \in (Held(bs) \ Range(bs[i])) \cup Range(t)
    <2>1. PICK j \in 1 .. n : \E p \in 1 .. Len(cs[j]) : f = cs[j][p]
      BY <1>7, <1>10
    <2>2. PICK p \in 1 .. Len(cs[j]) : f = cs[j][p]
      BY <2>1
    <2>3. CASE j = i
      BY <1>3, <1>5, <2>2, <2>3
    <2>4. CASE j # i
      BY <1>3, <1>8, <1>9, <2>2, <2>4
    <2> QED
      BY <2>3, <2>4
  <1>11. ASSUME NEW f \in (Held(bs) \ Range(bs[i])) \cup Range(t) PROVE f \in Held(cs)
    <2>1. CASE f \in Range(t)
      BY <1>3, <1>5, <1>7, <2>1
    <2>2. CASE f \in Held(bs) /\ f \notin Range(bs[i])
      <3>1. PICK j \in 1 .. n : \E p \in 1 .. Len(bs[j]) : f = bs[j][p]
        BY <1>8, <2>2
      <3>2. j # i
        BY <1>6, <2>2, <3>1
      <3> QED
        BY <1>3, <1>7, <3>1, <3>2
    <2> QED
      BY <1>11, <2>1, <2>2
  <1>12. Held(cs) = (Held(bs) \ Range(bs[i])) \cup Range(t)
    BY <1>10, <1>11
  <1> QED
    BY <1>4, <1>12

\* What is in a bucket is in the table.
LEMMA BucketHeld ==
    ASSUME NEW bs, NEW n, NEW K, NEW V, Table(bs, n, K, V), NEW i \in 1 .. n
    PROVE  /\ Range(bs[i]) \subseteq Held(bs)
           /\ \A p \in 1 .. Len(bs[i]) : bs[i][p] \in Range(bs[i])
  <1>1. DOMAIN bs = 1 .. n /\ bs[i] \in Seq(Pairs(K, V))
    BY DEF Table
  <1>2. Range(bs[i]) \subseteq Held(bs)
    BY <1>1 DEF Held
  <1>3. \A p \in 1 .. Len(bs[i]) : bs[i][p] \in Range(bs[i])
    BY <1>1 DEF Range
  <1> QED
    BY <1>2, <1>3

\* There is an entry at place p of bucket i.
EntryAt(bs, n, i, p) == i \in 1 .. n /\ p \in 1 .. Len(bs[i])

\* Another entry in its place.
Replaced(bs, i, p, e) == [bs EXCEPT ![i] = [q \in DOMAIN @ |-> IF q = p THEN e ELSE @[q]]]

\* An entry of the i-th bucket removed.
Removed(bs, i, p)     == [bs EXCEPT ![i] = RemoveAt(@, p)]

\* An entry with a new key goes to the head of its bucket.
LEMMA PutFirst ==
    ASSUME NEW bs, NEW n, NEW K, NEW V, Table(bs, n, K, V),
           NEW e \in Pairs(K, V), \A f \in Held(bs) : f.key # e.key, NEW i, i = Index(e.key, n)
    PROVE  /\ Table(Prepended(bs, i, e), n, K, V)
           /\ Held(Prepended(bs, i, e)) = Held(bs) \cup {e}
  <1>1. n \in Nat \ {0} /\ K \subseteq DOMAIN HashOf /\ bs \in [1 .. n -> Seq(Pairs(K, V))]
    BY DEF Table
  <1>2. e.key \in K /\ e.key \in DOMAIN HashOf
    BY <1>1 DEF Pairs
  <1>3. i \in 1 .. n
    BY <1>1, <1>2, IndexIs
  <1>4. PICK s \in Seq(Pairs(K, V)) : s = bs[i]
    BY <1>1, <1>3
  <1>5. <<e>> \in Seq(Pairs(K, V)) /\ Len(<<e>>) = 1 /\ <<e>>[1] = e
    OBVIOUS
  <1>6. PICK t : t = <<e>> \o s
    OBVIOUS
  <1>7. /\ t \in Seq(Pairs(K, V)) /\ Len(t) = 1 + Len(s) /\ Len(s) \in Nat
        /\ \A p \in 1 .. Len(t) : t[p] = IF p = 1 THEN e ELSE s[p - 1]
    <2>1. \A p \in 1 .. 1 + Len(s) : (<<e>> \o s)[p] = IF p <= 1 THEN <<e>>[p] ELSE s[p - 1]
      BY <1>4, <1>5, ConcatProperties
    <2>2. t \in Seq(Pairs(K, V)) /\ Len(t) = 1 + Len(s) /\ Len(s) \in Nat
      BY <1>4, <1>5, <1>6, ConcatProperties
    <2> QED
      BY <1>4, <1>5, <1>6, <2>1, <2>2
  <1>8. \A p \in 1 .. Len(s) : s[p].key # e.key /\ Index(s[p].key, n) = i
    BY <1>3, <1>4, BucketHeld DEF Table
  <1>9. \A p, q \in 1 .. Len(s) : s[p].key = s[q].key => p = q
    BY <1>3, <1>4 DEF Table
  <1>10. \A a \in 1 .. Len(t) : a # 1 => a - 1 \in 1 .. Len(s) /\ t[a] = s[a - 1]
    BY <1>7
  <1>11. ASSUME NEW p \in 1 .. Len(t) PROVE Index(t[p].key, n) = i
    <2>1. CASE p = 1
      BY <1>7, <2>1
    <2>2. CASE p # 1
      BY <1>8, <1>10, <1>11, <2>2
    <2> QED
      BY <2>1, <2>2
  <1>12. \A p, q \in 1 .. Len(t) : t[p].key = t[q].key => p = q
    <2> SUFFICES ASSUME NEW p \in 1 .. Len(t), NEW q \in 1 .. Len(t), t[p].key = t[q].key
                 PROVE  p = q
      OBVIOUS
    <2>1. CASE p = 1 \/ q = 1
      BY <1>7, <1>8, <1>10, <2>1
    <2>2. CASE p # 1 /\ q # 1
      <3>1. p - 1 \in 1 .. Len(s) /\ q - 1 \in 1 .. Len(s) /\ s[p - 1].key = s[q - 1].key
        BY <1>10, <2>2
      <3>2. p - 1 = q - 1
        BY <1>9, <3>1
      <3> QED
        BY <1>7, <3>2
    <2> QED
      BY <2>1, <2>2
  <1>13. Range(t) = Range(s) \cup {e}
    <2>1. \A f \in Range(t) : f \in Range(s) \cup {e}
      BY <1>4, <1>7, <1>10 DEF Range
    <2>2. e \in Range(t)
      BY <1>7 DEF Range
    <2>3. ASSUME NEW p \in 1 .. Len(s) PROVE s[p] \in Range(t)
      <3>1. p + 1 \in 1 .. Len(t) /\ t[p + 1] = s[p]
        BY <1>7, <2>3
      <3> QED
        BY <1>7, <3>1 DEF Range
    <2> QED
      BY <1>4, <2>1, <2>2, <2>3 DEF Range
  <1>14. Range(s) \subseteq Held(bs)
    BY <1>3, <1>4, BucketHeld
  <1>15. Prepended(bs, i, e) = [bs EXCEPT ![i] = t]
    BY <1>1, <1>3, <1>4, <1>6 DEF Prepended
  <1>16. PICK cs : cs = [bs EXCEPT ![i] = t]
    OBVIOUS
  <1>17. Table(cs, n, K, V) /\ Held(cs) = (Held(bs) \ Range(bs[i])) \cup Range(t)
    <2>1. BucketOf(t, i, n, K, V)
      BY <1>3, <1>7, <1>11, <1>12 DEF BucketOf
    <2>2. Swapped(bs, i, t, cs)
      BY <1>16 DEF Swapped
    <2> QED
      BY <1>3, <2>1, <2>2, OneBucket
  <1>18. Held(cs) = Held(bs) \cup {e}
    BY <1>4, <1>13, <1>14, <1>17
  <1> QED
    BY <1>15, <1>16, <1>17, <1>18

\* An entry takes the place of another with its key.
LEMMA PutThere ==
    ASSUME NEW bs, NEW n, NEW K, NEW V, Table(bs, n, K, V),
           NEW e \in Pairs(K, V), NEW i, NEW p, EntryAt(bs, n, i, p), bs[i][p].key = e.key
    PROVE  /\ Table(Replaced(bs, i, p, e), n, K, V)
           /\ Held(Replaced(bs, i, p, e)) = (Held(bs) \ {bs[i][p]}) \cup {e}
  <1> i \in 1 .. n /\ p \in 1 .. Len(bs[i])
    BY DEF EntryAt
  <1>1. n \in Nat \ {0} /\ K \subseteq DOMAIN HashOf /\ bs \in [1 .. n -> Seq(Pairs(K, V))]
    BY DEF Table
  <1>2. PICK s \in Seq(Pairs(K, V)) : s = bs[i]
    BY <1>1
  <1>3. PICK t : t = [q \in DOMAIN s |-> IF q = p THEN e ELSE s[q]]
    OBVIOUS
  <1>4. /\ t \in Seq(Pairs(K, V)) /\ Len(t) = Len(s) /\ Len(s) \in Nat /\ p \in 1 .. Len(s)
        /\ \A q \in 1 .. Len(s) : t[q] = IF q = p THEN e ELSE s[q]
    BY <1>2, <1>3
  <1>5. \A q \in 1 .. Len(s) : t[q].key = s[q].key
    BY <1>2, <1>4
  <1>6. \A q \in 1 .. Len(t) : Index(t[q].key, n) = i
    BY <1>2, <1>4, <1>5 DEF Table
  <1>7. \A a, b \in 1 .. Len(s) : s[a].key = s[b].key => a = b
    BY <1>2 DEF Table
  <1>8. \A a, b \in 1 .. Len(t) : t[a].key = t[b].key => a = b
    BY <1>4, <1>5, <1>7
  <1>9. Range(t) = (Range(s) \ {s[p]}) \cup {e}
    <2>1. \A q \in 1 .. Len(s) : q # p => s[q] # s[p]
      BY <1>4, <1>7
    <2>2. Range(s) = {s[q] : q \in 1 .. Len(s)} /\ Range(t) = {t[q] : q \in 1 .. Len(s)}
      BY <1>2, <1>4 DEF Range
    <2> QED
      BY <1>4, <2>1, <2>2
  <1>10. Range(s) \subseteq Held(bs) /\ s[p] \in Range(s)
    BY <1>2, BucketHeld
  <1>11. Replaced(bs, i, p, e) = [bs EXCEPT ![i] = t]
    BY <1>1, <1>2, <1>3 DEF Replaced
  <1>12. PICK cs : cs = [bs EXCEPT ![i] = t]
    OBVIOUS
  <1>13. Table(cs, n, K, V) /\ Held(cs) = (Held(bs) \ Range(bs[i])) \cup Range(t)
    <2>1. BucketOf(t, i, n, K, V)
      BY <1>4, <1>6, <1>8 DEF BucketOf
    <2>2. Swapped(bs, i, t, cs)
      BY <1>12 DEF Swapped
    <2> QED
      BY <2>1, <2>2, OneBucket
  <1>14. Held(cs) = (Held(bs) \ {s[p]}) \cup {e}
    BY <1>2, <1>9, <1>10, <1>13
  <1> QED
    BY <1>2, <1>11, <1>12, <1>13, <1>14

\* t is s without its p-th element.
Dropped(s, p, t, E) ==
    /\ t \in Seq(E) /\ Len(t) = Len(s) - 1
    /\ \A q \in 1 .. Len(s) - 1 : t[q] = IF q < p THEN s[q] ELSE s[q + 1]

\* What RemoveAt leaves.
LEMMA RemoveAtIs ==
    ASSUME NEW E, NEW s \in Seq(E), NEW p \in 1 .. Len(s), NEW t, t = RemoveAt(s, p)
    PROVE  Dropped(s, p, t, E)
  <1>1. PICK n \in Nat : n = Len(s)
    OBVIOUS
  <1>2. PICK a : a = SubSeq(s, 1, p - 1)
    OBVIOUS
  <1>3. PICK b : b = SubSeq(s, p + 1, n)
    OBVIOUS
  <1>4. a \in Seq(E) /\ Len(a) = p - 1 /\ \A q \in 1 .. p - 1 : a[q] = s[q]
    BY <1>1, <1>2
  <1>5. b \in Seq(E) /\ Len(b) = n - p /\ \A q \in 1 .. n - p : b[q] = s[p + q]
    BY <1>1, <1>3
  <1>6. RemoveAt(s, p) = a \o b
    BY <1>1, <1>2, <1>3 DEF RemoveAt
  <1>7. /\ a \o b \in Seq(E) /\ Len(a \o b) = Len(a) + Len(b)
        /\ \A q \in 1 .. Len(a) + Len(b) :
              (a \o b)[q] = IF q <= Len(a) THEN a[q] ELSE b[q - Len(a)]
    BY <1>4, <1>5, ConcatProperties
  <1>8. \A q \in 1 .. n - 1 : (a \o b)[q] = IF q < p THEN s[q] ELSE s[q + 1]
    <2> SUFFICES ASSUME NEW q \in 1 .. n - 1
                 PROVE  (a \o b)[q] = IF q < p THEN s[q] ELSE s[q + 1]
      OBVIOUS
    <2>1. CASE q < p
      BY <1>1, <1>4, <1>5, <1>7, <2>1
    <2>2. CASE ~(q < p)
      <3>1. PICK r \in 1 .. n - p : r = q - (p - 1)
        BY <1>1, <2>2
      <3>2. (a \o b)[q] = b[r] /\ p + r = q + 1
        BY <1>1, <1>4, <1>5, <1>7, <2>2, <3>1
      <3> QED
        BY <1>5, <2>2, <3>1, <3>2
    <2> QED
      BY <2>1, <2>2
  <1> QED
    <2>1. PICK c : c = a \o b
      OBVIOUS
    <2>2. c \in Seq(E) /\ Len(c) = n - 1
      BY <1>1, <1>4, <1>5, <1>7, <2>1
    <2>3. \A q \in 1 .. n - 1 : c[q] = IF q < p THEN s[q] ELSE s[q + 1]
      BY <1>8, <2>1
    <2>4. t = c
      BY <1>6, <2>1
    <2> QED
      BY <1>1, <2>2, <2>3, <2>4 DEF Dropped

\* An entry leaves its bucket.
LEMMA TakeOut ==
    ASSUME NEW bs, NEW n, NEW K, NEW V, Table(bs, n, K, V),
           NEW i, NEW p, EntryAt(bs, n, i, p)
    PROVE  /\ Table(Removed(bs, i, p), n, K, V)
           /\ Held(Removed(bs, i, p)) = Held(bs) \ {bs[i][p]}
  <1> i \in 1 .. n /\ p \in 1 .. Len(bs[i])
    BY DEF EntryAt
  <1>1. n \in Nat \ {0} /\ K \subseteq DOMAIN HashOf /\ bs \in [1 .. n -> Seq(Pairs(K, V))]
    BY DEF Table
  <1>2. PICK s \in Seq(Pairs(K, V)) : s = bs[i]
    BY <1>1
  <1>3. PICK t : t = RemoveAt(s, p)
    OBVIOUS
  <1>4. /\ t \in Seq(Pairs(K, V)) /\ Len(t) = Len(s) - 1 /\ Len(s) \in Nat /\ p \in 1 .. Len(s)
        /\ \A q \in 1 .. Len(s) - 1 : t[q] = IF q < p THEN s[q] ELSE s[q + 1]
    <2>1. p \in 1 .. Len(s)
      BY <1>2
    <2>2. PICK E : E = Pairs(K, V)
      OBVIOUS
    <2>3. s \in Seq(E)
      BY <1>2, <2>2
    <2>4. Dropped(s, p, t, E)
      BY <1>3, <2>1, <2>3, RemoveAtIs
    <2>5. Len(s) \in Nat
      BY <2>3, LenProperties
    <2>6. t \in Seq(Pairs(K, V))
      BY <2>2, <2>4 DEF Dropped
    <2> QED
      BY <2>1, <2>4, <2>5, <2>6 DEF Dropped
  <1> DEFINE old(q) == IF q < p THEN q ELSE q + 1
  <1>5. \A q \in 1 .. Len(t) : old(q) \in 1 .. Len(s) /\ t[q] = s[old(q)] /\ old(q) # p
    BY <1>4
  <1>6. \A q \in 1 .. Len(s) : q # p => \E r \in 1 .. Len(t) : t[r] = s[q]
    <2> SUFFICES ASSUME NEW q \in 1 .. Len(s), q # p
                 PROVE  \E r \in 1 .. Len(t) : t[r] = s[q]
      OBVIOUS
    <2>1. PICK r : r = IF q < p THEN q ELSE q - 1
      OBVIOUS
    <2>2. r \in 1 .. Len(t) /\ old(r) = q
      BY <1>4, <2>1
    <2> QED
      BY <1>5, <2>2
  <1>7. \A a, b \in 1 .. Len(t) : old(a) = old(b) => a = b
    BY <1>4
  <1> HIDE DEF old
  <1>8. \A q \in 1 .. Len(s) : Index(s[q].key, n) = i
    BY <1>2 DEF Table
  <1>9. \A a, b \in 1 .. Len(s) : s[a].key = s[b].key => a = b
    BY <1>2 DEF Table
  <1>10. \A q \in 1 .. Len(t) : Index(t[q].key, n) = i
    BY <1>5, <1>8
  <1>11. \A a, b \in 1 .. Len(t) : t[a].key = t[b].key => a = b
    <2> SUFFICES ASSUME NEW a \in 1 .. Len(t), NEW b \in 1 .. Len(t), t[a].key = t[b].key
                 PROVE  a = b
      OBVIOUS
    <2>1. old(a) = old(b)
      BY <1>5, <1>9
    <2> QED
      BY <1>7, <2>1
  <1>12. Range(t) = Range(s) \ {s[p]}
    <2>1. \A q \in 1 .. Len(s) : q # p => s[q] # s[p]
      BY <1>4, <1>9
    <2>2. Range(s) = {s[q] : q \in 1 .. Len(s)} /\ Range(t) = {t[q] : q \in 1 .. Len(t)}
      BY <1>2, <1>4 DEF Range
    <2>3. \A r \in 1 .. Len(t) : t[r] \in Range(s) \ {s[p]}
      BY <1>5, <2>1, <2>2
    <2>4. \A q \in 1 .. Len(s) : q # p => s[q] \in Range(t)
      BY <1>6, <2>2
    <2> QED
      BY <2>2, <2>3, <2>4
  <1>13. Range(s) \subseteq Held(bs) /\ s[p] \in Range(s)
    BY <1>2, BucketHeld
  <1>14. Removed(bs, i, p) = [bs EXCEPT ![i] = t]
    BY <1>1, <1>2, <1>3 DEF Removed
  <1>15. PICK cs : cs = [bs EXCEPT ![i] = t]
    OBVIOUS
  <1>16. Table(cs, n, K, V) /\ Held(cs) = (Held(bs) \ Range(bs[i])) \cup Range(t)
    <2>1. BucketOf(t, i, n, K, V)
      BY <1>4, <1>10, <1>11 DEF BucketOf
    <2>2. Swapped(bs, i, t, cs)
      BY <1>15 DEF Swapped
    <2> QED
      BY <2>1, <2>2, OneBucket
  <1>17. Held(cs) = Held(bs) \ {s[p]}
    BY <1>2, <1>12, <1>13, <1>16
  <1> QED
    BY <1>2, <1>14, <1>15, <1>16, <1>17

\* A record of the two fields of a dict.
Boxed(d) == d = [buckets |-> d.buckets, count |-> d.count]

\* Such a record.
LEMMA Boxes ==
    ASSUME NEW b, NEW n, NEW c, c = [buckets |-> b, count |-> n]
    PROVE  c.buckets = b /\ c.count = n /\ Boxed(c)
  BY DEF Boxed

\* Such a record with other buckets.
LEMMA Reboxed ==
    ASSUME NEW d, Boxed(d), NEW b, NEW c, c = [d EXCEPT !.buckets = b]
    PROVE  c.buckets = b /\ c.count = d.count /\ Boxed(c)
  <1>1. c = [buckets |-> b, count |-> d.count]
    BY DEF Boxed
  <1> QED
    BY <1>1, Boxes

\* d is a dict of keys K and values V.
IsDict(d, K, V) ==
    /\ Boxed(d)
    /\ Table(d.buckets, Len(d.buckets), K, V)
    /\ IsFiniteSet(Held(d.buckets))
    /\ d.count = Cardinality(Held(d.buckets))

\* dict_create.
LEMMA NewDictIs ==
    ASSUME NEW K \in SUBSET DOMAIN HashOf, NEW V
    PROVE  IsDict(NewDict, K, V) /\ Held(NewDict.buckets) = {}
  <1>1. PICK bs : bs = [i \in 1 .. InitialSize |-> << >>]
    OBVIOUS
  <1>2. InitialSize \in Nat \ {0}
    BY InitialSizeIsPositive
  <1>3. Table(bs, InitialSize, K, V) /\ Held(bs) = {}
    BY <1>1, <1>2, EmptyTable
  <1>4. Len(bs) = InitialSize
    BY <1>1, <1>2
  <1>5. NewDict.buckets = bs /\ NewDict.count = 0 /\ Boxed(NewDict)
    BY <1>1, Boxes DEF NewDict
  <1> QED
    BY <1>3, <1>4, <1>5, FS_EmptySet DEF IsDict

\* p is the place of key in its bucket, 0 if it is in none.
Found(bs, n, key, p) ==
    LET i == Index(key, n)
    IN  /\ i \in 1 .. n
        /\ \/ p = 0 /\ \A e \in Held(bs) : e.key # key
           \/ /\ p # 0 /\ p \in 1 .. Len(bs[i])
              /\ bs[i][p].key = key /\ bs[i][p] \in Held(bs)

\* The search in the bucket of a key finds its entry, if there is one.
LEMMA PlaceIs ==
    ASSUME NEW d, NEW K, NEW V, Table(d.buckets, Len(d.buckets), K, V), NEW key \in K
    PROVE  Found(d.buckets, Len(d.buckets), key, Place(d, key))
  <1>1. PICK bs : bs = d.buckets
    OBVIOUS
  <1>2. PICK n : n = Len(bs)
    OBVIOUS
  <1>3. Table(bs, n, K, V)
    BY <1>1, <1>2
  <1>4. n \in Nat \ {0} /\ key \in DOMAIN HashOf /\ bs \in [1 .. n -> Seq(Pairs(K, V))]
    BY <1>3 DEF Table
  <1>5. PICK i \in 1 .. n : i = Index(key, n)
    BY <1>4, IndexIs
  <1>6. PICK s \in Seq(Pairs(K, V)) : s = bs[i]
    BY <1>4
  <1>7. Bucket(d, key) = s
    BY <1>1, <1>2, <1>5, <1>6 DEF Bucket
  <1>8. PICK I : I = {p \in 1 .. Len(s) : s[p].key = key}
    OBVIOUS
  <1>9. Place(d, key) = IF I # {} THEN Min(I) ELSE 0
    BY <1>7, <1>8 DEF Place, SelectInSeq
  <1>10. CASE I = {}
    <2>1. ASSUME NEW e \in Held(bs), e.key = key PROVE FALSE
      <3>1. PICK j, p : j \in 1 .. n /\ p \in 1 .. Len(bs[j]) /\ e = bs[j][p]
        BY <1>3, <2>1, HeldAt
      <3>2. Index(bs[j][p].key, n) = j
        BY <1>3, <3>1 DEF Table
      <3>3. j = i
        BY <1>5, <2>1, <3>1, <3>2
      <3> QED
        BY <1>6, <1>8, <1>10, <2>1, <3>1, <3>3
    <2> QED
      BY <1>1, <1>2, <1>5, <1>9, <1>10, <2>1 DEF Found
  <1>11. CASE I # {}
    <2>1. I \in SUBSET Nat
      BY <1>8
    <2>2. Min(I) \in I
      BY <1>11, <2>1, MinIs
    <2>3. PICK p : p = Min(I)
      OBVIOUS
    <2>4. p \in 1 .. Len(s) /\ s[p].key = key
      BY <1>8, <2>2, <2>3
    <2>5. s[p] \in Held(bs)
      BY <1>3, <1>5, <1>6, <2>4, HeldIs
    <2> QED
      BY <1>1, <1>2, <1>5, <1>6, <1>9, <1>11, <2>3, <2>4, <2>5 DEF Found
  <1> QED
    BY <1>10, <1>11

\* dict_get finds the value of the entry with the key, if there is one.
LEMMA DictGetIs ==
    ASSUME NEW d, NEW K, NEW V, IsDict(d, K, V), NEW key \in K
    PROVE  \/ DictGet(d, key) = None /\ \A e \in Held(d.buckets) : e.key # key
           \/ [key |-> key, val |-> DictGet(d, key)] \in Held(d.buckets)
  <1>1. PICK bs : bs = d.buckets
    OBVIOUS
  <1>2. PICK n : n = Len(bs)
    OBVIOUS
  <1>3. Table(bs, n, K, V)
    BY <1>1, <1>2 DEF IsDict
  <1>4. PICK i : i = Index(key, n)
    OBVIOUS
  <1>5. PICK p : p = Place(d, key)
    OBVIOUS
  <1>6. /\ Bucket(d, key) = bs[i]
        /\ \/ p = 0 /\ \A e \in Held(bs) : e.key # key
           \/ p # 0 /\ bs[i][p].key = key /\ bs[i][p] \in Held(bs)
    <2>1. Found(bs, n, key, p)
      BY <1>1, <1>2, <1>3, <1>5, PlaceIs
    <2>2. Bucket(d, key) = bs[i]
      BY <1>1, <1>2, <1>4 DEF Bucket
    <2> QED
      BY <1>4, <2>1, <2>2 DEF Found
  <1>7. CASE p = 0 /\ \A e \in Held(bs) : e.key # key
    BY <1>1, <1>5, <1>7 DEF DictGet
  <1>8. CASE p # 0 /\ bs[i][p].key = key /\ bs[i][p] \in Held(bs)
    <2>1. DictGet(d, key) = bs[i][p].val
      BY <1>5, <1>6, <1>8 DEF DictGet
    <2>2. PICK e \in Held(bs) : e = bs[i][p]
      BY <1>8
    <2>3. e \in Pairs(K, V)
      BY <1>3, EntriesAre
    <2>4. e = [key |-> e.key, val |-> e.val]
      BY <2>3 DEF Pairs
    <2> QED
      BY <1>1, <1>8, <2>1, <2>2, <2>4
  <1> QED
    BY <1>6, <1>7, <1>8

\* The entries of a table with those of key taken out.
But(H, key) == {e \in H : e.key # key}

\* dict_delete takes out that entry and no other.
LEMMA DictDelIs ==
    ASSUME NEW d, NEW K, NEW V, IsDict(d, K, V), NEW key \in K
    PROVE  /\ IsDict(DictDel(d, key), K, V)
           /\ Held(DictDel(d, key).buckets) = But(Held(d.buckets), key)
  <1>1. PICK bs : bs = d.buckets
    OBVIOUS
  <1>2. PICK n : n = Len(bs)
    OBVIOUS
  <1>3. Table(bs, n, K, V)
    BY <1>1, <1>2 DEF IsDict
  <1>4. PICK i : i = Index(key, n)
    OBVIOUS
  <1>5. PICK p : p = Place(d, key)
    OBVIOUS
  <1>6. Found(bs, n, key, p)
    BY <1>1, <1>2, <1>3, <1>5, PlaceIs
  <1>7. CASE p = 0
    <2>1. DictDel(d, key) = d
      BY <1>5, <1>7 DEF DictDel
    <2>2. But(Held(bs), key) = Held(bs)
      BY <1>6, <1>7 DEF But, Found
    <2> QED
      BY <1>1, <2>1, <2>2
  <1>8. CASE p # 0
    <2>1. i \in 1 .. n /\ p \in 1 .. Len(bs[i]) /\ bs[i][p].key = key /\ bs[i][p] \in Held(bs)
      BY <1>4, <1>6, <1>8 DEF Found
    <2>2. PICK cs : cs = Removed(bs, i, p)
      OBVIOUS
    <2>21. EntryAt(bs, n, i, p)
      BY <2>1 DEF EntryAt
    <2>3. Table(cs, n, K, V) /\ Held(cs) = Held(bs) \ {bs[i][p]}
      BY <1>3, <2>2, <2>21, TakeOut
    <2>4. DictDel(d, key) = [buckets |-> cs, count |-> d.count - 1]
      BY <1>1, <1>2, <1>4, <1>5, <1>8, <2>2 DEF DictDel, Removed
    <2>5. But(Held(bs), key) = Held(bs) \ {bs[i][p]}
      BY <1>3, <2>1, KeysDiffer DEF But
    <2>6. Len(cs) = n
      BY <2>3, SeqOfFun DEF Table
    <2>7. IsFiniteSet(Held(cs)) /\ Cardinality(Held(cs)) = d.count - 1
      BY <1>1, <2>1, <2>3, FS_RemoveElement DEF IsDict
    <2>9. PICK c : c = DictDel(d, key)
      OBVIOUS
    <2>10. c.buckets = cs /\ c.count = d.count - 1 /\ Boxed(c)
      BY <2>4, <2>9, Boxes
    <2> QED
      BY <1>1, <2>3, <2>5, <2>6, <2>7, <2>9, <2>10 DEF IsDict
  <1> QED
    BY <1>7, <1>8

\* f[m] is a table of another size after the first m entries were moved to it.
Moved(es, size, f) ==
    f = [m \in 0 .. Len(es) |->
           IF m = 0 THEN [i \in 1 .. size |-> << >>]
           ELSE Prepended(f[m - 1], Index(es[m].key, size), es[m])]

\* The same for the first k entries.
MovedUpto(es, size, f, k) ==
    f = [m \in 0 .. k |->
           IF m = 0 THEN [i \in 1 .. size |-> << >>]
           ELSE Prepended(f[m - 1], Index(es[m].key, size), es[m])]

\* The function that moves them exists.
LEMMA MovedExists ==
    ASSUME NEW es, NEW size, NEW n \in Nat
    PROVE  \E f : MovedUpto(es, size, f, n)
  <1> DEFINE T == {k \in Nat : \E f : MovedUpto(es, size, f, k)}
  <1>1. 0 \in T
    <2> DEFINE g == [m \in 0 .. 0 |-> [i \in 1 .. size |-> << >>]]
    <2>1. g = [m \in 0 .. 0 |->
           IF m = 0 THEN [i \in 1 .. size |-> << >>]
           ELSE Prepended(g[m - 1], Index(es[m].key, size), es[m])]
      OBVIOUS
    <2> HIDE DEF g
    <2>2. MovedUpto(es, size, g, 0)
      BY <2>1 DEF MovedUpto
    <2> QED
      BY <2>2
  <1>2. ASSUME NEW k \in Nat, k \in T PROVE k + 1 \in T
    <2>1. PICK f : MovedUpto(es, size, f, k)
      BY <1>2
    <2>2. PICK a : a = Prepended(f[k], Index(es[k + 1].key, size), es[k + 1])
      OBVIOUS
    <2> DEFINE g == [m \in 0 .. k + 1 |-> IF m = k + 1 THEN a ELSE f[m]]
    <2>3. ASSUME NEW m \in 0 .. k + 1
          PROVE  g[m] = IF m = 0 THEN [i \in 1 .. size |-> << >>]
                        ELSE Prepended(g[m - 1], Index(es[m].key, size), es[m])
      <3>1. CASE m = k + 1
        <4>1. m - 1 = k /\ m # 0 /\ m - 1 # k + 1 /\ m - 1 \in 0 .. k + 1
          BY <3>1
        <4>2. g[m - 1] = f[k] /\ g[m] = a
          BY <3>1, <4>1
        <4> QED
          BY <2>2, <3>1, <4>1, <4>2
      <3>2. CASE m # k + 1
        <4>1. m \in 0 .. k /\ (m # 0 => m - 1 \in 0 .. k)
          BY <3>2
        <4>2. g[m] = f[m] /\ (m # 0 => g[m - 1] = f[m - 1])
          BY <4>1
        <4>3. f[m] = IF m = 0 THEN [i \in 1 .. size |-> << >>]
                     ELSE Prepended(f[m - 1], Index(es[m].key, size), es[m])
          BY <2>1, <4>1 DEF MovedUpto
        <4> QED
          BY <4>2, <4>3
      <3> QED
        BY <3>1, <3>2
    <2>4. g = [m \in 0 .. k + 1 |-> g[m]]
      OBVIOUS
    <2> HIDE DEF g
    <2>5. MovedUpto(es, size, g, k + 1)
      BY <2>3, <2>4 DEF MovedUpto
    <2> QED
      BY <2>5
  <1> HIDE DEF T
  <1>3. Nat \subseteq T
    BY <1>1, <1>2, Climb
  <1> QED
    BY <1>3 DEF T

\* es is the entries of bs, each once.
Order(es, bs, K, V) ==
    /\ es \in Seq(Pairs(K, V))
    /\ \A e : e \in Held(bs) <=> \E j \in 1 .. Len(es) : e = es[j]
    /\ \A j, k \in 1 .. Len(es) : es[j].key = es[k].key => j = k

\* dict_each meets each entry once.
LEMMA FlatIs ==
    ASSUME NEW bs, NEW n, NEW K, NEW V, Table(bs, n, K, V)
    PROVE  Order(FlattenSeq(bs), bs, K, V)
  <1>1. n \in Nat \ {0} /\ bs \in [1 .. n -> Seq(Pairs(K, V))]
    BY DEF Table
  <1>2. PICK es : es = FlattenSeq(bs)
    OBVIOUS
  <1>3. PICK at : Lists(bs, Pairs(K, V), es, at, n)
    BY <1>1, <1>2, FlatPlaces
  <1>4. /\ es \in Seq(Pairs(K, V)) /\ at \in [1 .. Len(es) -> Places(bs, n)]
        /\ \A j \in 1 .. Len(es) : es[j] = bs[at[j][1]][at[j][2]]
        /\ \A j, k \in 1 .. Len(es) : at[j] = at[k] => j = k
        /\ \A q \in Places(bs, n) : \E j \in 1 .. Len(es) : at[j] = q
    BY <1>3 DEF Lists
  <1>5. \A j \in 1 .. Len(es) : /\ at[j] \in (1 .. n) \X Nat
                                /\ at[j][2] \in 1 .. Len(bs[at[j][1]])
    BY <1>4 DEF Places
  <1>6. ASSUME NEW j \in 1 .. Len(es) PROVE es[j] \in Held(bs)
    <2>1. at[j][1] \in 1 .. n /\ at[j][2] \in 1 .. Len(bs[at[j][1]])
      BY <1>5, <1>6
    <2>2. es[j] = bs[at[j][1]][at[j][2]]
      BY <1>4, <1>6
    <2> QED
      BY <2>1, <2>2, HeldIs
  <1>7. ASSUME NEW e \in Held(bs) PROVE \E j \in 1 .. Len(es) : e = es[j]
    <2>1. PICK i, p : i \in 1 .. n /\ p \in 1 .. Len(bs[i]) /\ e = bs[i][p]
      BY <1>7, HeldAt
    <2>2. <<i, p>> \in Places(bs, n)
      BY <1>1, <2>1 DEF Places
    <2>3. PICK j \in 1 .. Len(es) : at[j] = <<i, p>>
      BY <1>4, <2>2
    <2>4. at[j][1] = i /\ at[j][2] = p
      BY <2>3
    <2> QED
      BY <1>4, <2>1, <2>4
  <1>8. ASSUME NEW j \in 1 .. Len(es), NEW k \in 1 .. Len(es), es[j].key = es[k].key
        PROVE  j = k
    <2>1. PICK i, p : i = at[j][1] /\ p = at[j][2]
      OBVIOUS
    <2>2. PICK h, q : h = at[k][1] /\ q = at[k][2]
      OBVIOUS
    <2>3. i \in 1 .. n /\ p \in 1 .. Len(bs[i]) /\ h \in 1 .. n /\ q \in 1 .. Len(bs[h])
      BY <1>5, <1>8, <2>1, <2>2
    <2>4. bs[i][p].key = bs[h][q].key
      BY <1>4, <1>8, <2>1, <2>2
    <2>5. Index(bs[i][p].key, n) = i /\ Index(bs[h][q].key, n) = h
      BY <2>3 DEF Table
    <2>6. i = h
      BY <2>4, <2>5
    <2>7. p = q
      BY <2>3, <2>4, <2>6 DEF Table
    <2>8. at[j] = <<i, p>> /\ at[k] = <<h, q>>
      BY <1>5, <1>8, <2>1, <2>2
    <2> QED
      BY <1>4, <1>8, <2>6, <2>7, <2>8
  <1>9. Order(es, bs, K, V)
    BY <1>4, <1>6, <1>7, <1>8 DEF Order
  <1> QED
    BY <1>2, <1>9

\* The first m of the entries es are held.
FirstHeld(es, m, bs) ==
    \A e : e \in Held(bs) <=> \E j \in 1 .. m : e = es[j]

\* In the course of moving the new table is sound and holds what was moved.
LEMMA MovedIs ==
    ASSUME NEW bs, NEW K \in SUBSET DOMAIN HashOf, NEW V, NEW es, Order(es, bs, K, V),
           NEW size \in Nat \ {0}, NEW f, Moved(es, size, f), NEW m \in 0 .. Len(es)
    PROVE  Table(f[m], size, K, V) /\ FirstHeld(es, m, f[m])
  <1> DEFINE T == {k \in Nat : k <= Len(es) => Table(f[k], size, K, V) /\ FirstHeld(es, k, f[k])}
  <1>1. Len(es) \in Nat
    BY DEF Order
  <1>2. 0 \in T
    <2>1. f[0] = [i \in 1 .. size |-> << >>]
      BY <1>1 DEF Moved
    <2>2. Table(f[0], size, K, V) /\ Held(f[0]) = {}
      BY <2>1, EmptyTable
    <2> QED
      BY <2>2 DEF FirstHeld
  <1>3. ASSUME NEW k \in Nat, k \in T PROVE k + 1 \in T
    <2> SUFFICES ASSUME k + 1 <= Len(es)
                 PROVE  Table(f[k + 1], size, K, V) /\ FirstHeld(es, k + 1, f[k + 1])
      OBVIOUS
    <2>1. Table(f[k], size, K, V) /\ FirstHeld(es, k, f[k])
      BY <1>1, <1>3
    <2>2. PICK e : e = es[k + 1]
      OBVIOUS
    <2>3. PICK l : l = k + 1
      OBVIOUS
    <2>4. l \in 0 .. Len(es) /\ l # 0 /\ l - 1 = k
      BY <1>1, <2>3
    <2>5. f[l] = Prepended(f[k], Index(e.key, size), e)
      BY <2>2, <2>3, <2>4 DEF Moved
    <2>6. e \in Pairs(K, V)
      BY <1>1, <2>2 DEF Order
    <2>7. \A g \in Held(f[k]) : g.key # e.key
      <3> SUFFICES ASSUME NEW g \in Held(f[k]), g.key = e.key PROVE FALSE
        OBVIOUS
      <3>1. PICK j \in 1 .. k : g = es[j]
        BY <2>1 DEF FirstHeld
      <3>2. j \in 1 .. Len(es) /\ k + 1 \in 1 .. Len(es) /\ j # k + 1
        BY <1>1
      <3> QED
        BY <2>2, <3>1, <3>2 DEF Order
    <2>8. Table(f[l], size, K, V) /\ Held(f[l]) = Held(f[k]) \cup {e}
      BY <2>1, <2>5, <2>6, <2>7, PutFirst
    <2>9. FirstHeld(es, l, f[l])
      <3>1. ASSUME NEW g PROVE g \in Held(f[l]) <=> \E j \in 1 .. l : g = es[j]
        <4>1. g \in Held(f[k]) <=> \E j \in 1 .. k : g = es[j]
          BY <2>1 DEF FirstHeld
        <4>2. \A j : j \in 1 .. l <=> j \in 1 .. k \/ j = l
          BY <2>3
        <4> QED
          BY <2>2, <2>3, <2>8, <4>1, <4>2
      <3> QED
        BY <3>1 DEF FirstHeld
    <2> QED
      BY <2>3, <2>8, <2>9
  <1> HIDE DEF T
  <1>4. Nat \subseteq T
    BY <1>2, <1>3, Climb
  <1>5. m \in T
    BY <1>1, <1>4
  <1> QED
    BY <1>1, <1>5 DEF T

\* dict_resize loses no entry.
LEMMA DictResizeIs ==
    ASSUME NEW d, NEW K, NEW V, IsDict(d, K, V), NEW size \in Nat \ {0}
    PROVE  /\ IsDict(DictResize(d, size), K, V)
           /\ Held(DictResize(d, size).buckets) = Held(d.buckets)
  <1>1. PICK bs : bs = d.buckets
    OBVIOUS
  <1>2. PICK n : n = Len(bs)
    OBVIOUS
  <1>3. Table(bs, n, K, V)
    BY <1>1, <1>2 DEF IsDict
  <1>4. PICK es : es = FlattenSeq(bs)
    OBVIOUS
  <1>5. Order(es, bs, K, V)
    BY <1>3, <1>4, FlatIs
  <1> DEFINE C == CHOOSE f : Moved(es, size, f)
  <1>6. Len(es) \in Nat
    BY <1>5 DEF Order
  <1>7. \E f : Moved(es, size, f)
    <2>1. PICK f : MovedUpto(es, size, f, Len(es))
      BY <1>6, MovedExists
    <2> QED
      BY <2>1 DEF Moved, MovedUpto
  <1>8. Moved(es, size, C)
    BY <1>7
  <1>9. DictResize(d, size) = [d EXCEPT !.buckets = C[Len(es)]]
    BY <1>1, <1>4 DEF DictResize, Entries, Moved
  <1> HIDE DEF C
  <1>10. PICK cs : cs = C[Len(es)]
    OBVIOUS
  <1>11. K \in SUBSET DOMAIN HashOf
    BY <1>3 DEF Table
  <1>12. Table(cs, size, K, V) /\ FirstHeld(es, Len(es), cs)
    <2>1. Len(es) \in 0 .. Len(es)
      BY <1>6
    <2>2. PICK m \in 0 .. Len(es) : m = Len(es)
      BY <2>1
    <2>3. Table(C[m], size, K, V) /\ FirstHeld(es, m, C[m])
      BY <1>5, <1>8, <1>11, MovedIs
    <2> QED
      BY <1>10, <2>2, <2>3
  <1>13. Held(cs) = Held(bs)
    BY <1>5, <1>12 DEF FirstHeld, Order
  <1>14. Len(cs) = size
    BY <1>12, SeqOfFun DEF Table
  <1>15. PICK c : c = DictResize(d, size)
    OBVIOUS
  <1>16. c.buckets = cs /\ c.count = d.count /\ Boxed(c)
    <2>1. Boxed(d)
      BY <1>1 DEF IsDict
    <2>2. c = [d EXCEPT !.buckets = cs]
      BY <1>9, <1>10, <1>15
    <2> QED
      BY <2>1, <2>2, Reboxed
  <1> QED
    BY <1>1, <1>12, <1>13, <1>14, <1>15, <1>16 DEF IsDict

\* dict_set, resizing or not, puts in one entry for the key in the place of the
\* old one.
LEMMA DictSetIs ==
    ASSUME NEW d, NEW K, NEW V, IsDict(d, K, V), NEW key \in K, NEW v \in V
    PROVE  /\ IsDict(DictSet(d, key, v), K, V)
           /\ Held(DictSet(d, key, v).buckets) =
                 But(Held(d.buckets), key) \cup {[key |-> key, val |-> v]}
  <1>1. PICK t : t = IF 4 * d.count > 3 * Len(d.buckets)
                     THEN DictResize(d, 2 * Len(d.buckets)) ELSE d
    OBVIOUS
  <1>2. IsDict(t, K, V) /\ Held(t.buckets) = Held(d.buckets)
    <2>1. PICK n \in Nat \ {0} : n = Len(d.buckets)
      BY DEF IsDict, Table
    <2>2. 2 * n \in Nat \ {0}
      OBVIOUS
    <2>3. 2 * Len(d.buckets) \in Nat \ {0}
      BY <2>1, <2>2
    <2>4. PICK size \in Nat \ {0} : size = 2 * Len(d.buckets)
      BY <2>3
    <2>5. /\ IsDict(DictResize(d, size), K, V)
          /\ Held(DictResize(d, size).buckets) = Held(d.buckets)
      BY DictResizeIs
    <2>6. CASE t = d
      BY <2>6
    <2>7. CASE t = DictResize(d, size)
      BY <2>5, <2>7
    <2> QED
      BY <1>1, <2>4, <2>6, <2>7
  <1>3. PICK bs : bs = t.buckets
    OBVIOUS
  <1>4. PICK n : n = Len(bs)
    OBVIOUS
  <1>5. Table(bs, n, K, V)
    BY <1>2, <1>3, <1>4 DEF IsDict
  <1>6. PICK i : i = Index(key, n)
    OBVIOUS
  <1>7. PICK p : p = Place(t, key)
    OBVIOUS
  <1>8. Found(bs, n, key, p)
    BY <1>3, <1>4, <1>5, <1>7, PlaceIs
  <1>9. PICK e : e = [key |-> key, val |-> v]
    OBVIOUS
  <1>10. e \in Pairs(K, V) /\ e.key = key
    BY <1>9 DEF Pairs
  <1>11. PICK c : c = DictSet(d, key, v)
    OBVIOUS
  <1>12. c = IF p # 0 THEN [t EXCEPT !.buckets = Replaced(bs, i, p, e)]
             ELSE [buckets |-> Prepended(bs, i, e), count |-> t.count + 1]
    BY <1>1, <1>3, <1>4, <1>6, <1>7, <1>9, <1>11 DEF DictSet, Replaced
  <1>13. Boxed(t) /\ IsFiniteSet(Held(bs)) /\ t.count = Cardinality(Held(bs))
    BY <1>2, <1>3 DEF IsDict
  <1>14. CASE p = 0
    <2>1. \A f \in Held(bs) : f.key # e.key
      BY <1>8, <1>10, <1>14 DEF Found
    <2>2. PICK cs : cs = Prepended(bs, i, e)
      OBVIOUS
    <2>3. Table(cs, n, K, V) /\ Held(cs) = Held(bs) \cup {e}
      BY <1>5, <1>6, <1>10, <2>1, <2>2, PutFirst
    <2>4. c.buckets = cs /\ c.count = t.count + 1 /\ Boxed(c)
      BY <1>12, <1>14, <2>2, Boxes
    <2>5. IsFiniteSet(Held(cs)) /\ Cardinality(Held(cs)) = t.count + 1
      <3>1. e \notin Held(bs)
        BY <2>1
      <3> QED
        BY <1>13, <2>3, <3>1, FS_AddElement
    <2>6. Len(cs) = n
      BY <2>3, SeqOfFun DEF Table
    <2>7. But(Held(bs), key) = Held(bs)
      BY <1>10, <2>1 DEF But
    <2> QED
      BY <1>2, <1>3, <1>9, <1>11, <2>3, <2>4, <2>5, <2>6, <2>7 DEF IsDict
  <1>15. CASE p # 0
    <2>1. i \in 1 .. n /\ p \in 1 .. Len(bs[i]) /\ bs[i][p].key = key /\ bs[i][p] \in Held(bs)
      BY <1>6, <1>8, <1>15 DEF Found
    <2>2. PICK cs : cs = Replaced(bs, i, p, e)
      OBVIOUS
    <2>3. EntryAt(bs, n, i, p) /\ bs[i][p].key = e.key
      BY <1>10, <2>1 DEF EntryAt
    <2>4. Table(cs, n, K, V) /\ Held(cs) = (Held(bs) \ {bs[i][p]}) \cup {e}
      BY <1>5, <1>10, <2>2, <2>3, PutThere
    <2>5. c = [t EXCEPT !.buckets = cs]
      BY <1>12, <1>15, <2>2
    <2>6. c.buckets = cs /\ c.count = t.count /\ Boxed(c)
      BY <1>13, <2>5, Reboxed
    <2>7. But(Held(bs), key) = Held(bs) \ {bs[i][p]}
      BY <1>5, <2>1, KeysDiffer DEF But
    <2>8. IsFiniteSet(Held(cs)) /\ Cardinality(Held(cs)) = t.count
      <3>1. PICK H : H = Held(bs) \ {bs[i][p]}
        OBVIOUS
      <3>2. IsFiniteSet(H) /\ Cardinality(H) = t.count - 1 /\ t.count \in Nat
        BY <1>13, <2>1, <3>1, FS_RemoveElement, FS_CardinalityType
      <3>3. e \notin H
        BY <1>10, <2>7, <3>1 DEF But
      <3>4. IsFiniteSet(H \cup {e}) /\ Cardinality(H \cup {e}) = Cardinality(H) + 1
        BY <3>2, <3>3, FS_AddElement
      <3> QED
        BY <2>4, <3>1, <3>2, <3>4
    <2>9. Len(cs) = n
      BY <2>4, SeqOfFun DEF Table
    <2> QED
      BY <1>2, <1>3, <1>9, <1>11, <2>4, <2>6, <2>7, <2>8, <2>9 DEF IsDict
  <1> QED
    BY <1>14, <1>15

\* What the order of dict_each says of a table.
LEMMA DictSound ==
    ASSUME NEW d, NEW K, NEW V, IsDict(d, K, V)
    PROVE  Sound(d)
  <1>1. PICK bs : bs = d.buckets
    OBVIOUS
  <1>2. PICK n : n = Len(bs)
    OBVIOUS
  <1>3. Table(bs, n, K, V)
    BY <1>1, <1>2 DEF IsDict
  <1>4. PICK es : es = FlattenSeq(bs)
    OBVIOUS
  <1>5. Order(es, bs, K, V)
    BY <1>3, <1>4, FlatIs
  <1>6. Entries(d) = es
    BY <1>1, <1>4 DEF Entries
  <1>70. Len(es) \in Nat
    BY <1>5 DEF Order
  <1>7. PICK k \in Nat : k = Len(es)
    BY <1>70
  <1>8. /\ k \in Nat /\ DOMAIN es = 1 .. k
        /\ Held(bs) = {es[j] : j \in 1 .. k}
        /\ \A i, j \in 1 .. k : es[i].key = es[j].key => i = j
    BY <1>5, <1>7 DEF Order
  <1>9. \A i, j \in 1 .. k : es[i] = es[j] => i = j
    BY <1>8
  <1>10. Cardinality(Held(bs)) = k
    <2>1. Different(es, k)
      BY <1>8, <1>9 DEF Different
    <2>2. Held(bs) = {es[j] : j \in 1 .. k}
      BY <1>8
    <2> QED
      BY <2>1, <2>2, Numbered
  <1>11. d.count = Len(Entries(d))
    BY <1>1, <1>6, <1>7, <1>8, <1>10 DEF IsDict
  <1>12. ASSUME NEW i \in DOMAIN bs, NEW e \in Range(bs[i]) PROVE Index(e.key, n) = i
    <2>1. bs \in [1 .. n -> Seq(Pairs(K, V))]
      BY <1>3 DEF Table
    <2>2. PICK p \in 1 .. Len(bs[i]) : e = bs[i][p]
      BY <1>12, <2>1 DEF Range
    <2> QED
      BY <1>3, <1>12, <2>1, <2>2 DEF Table
  <1>13. \A i, j \in DOMAIN es : es[i].key = es[j].key => i = j
    BY <1>8
  <1> QED
    BY <1>1, <1>2, <1>6, <1>11, <1>12, <1>13 DEF Sound

-----------------------------------------------------------------------------
(* Hashes *)

\* Every field and member has a hash.
HashKeys == Fields \in SUBSET DOMAIN HashOf /\ Members \in SUBSET DOMAIN HashOf

\* As KeysAreHashed says.
LEMMA Hashed == HashKeys
  BY KeysAreHashed DEF HashKeys

\* A hash of the keyspace.
IsHash(d) == IsDict(d, Fields, Elems)

\* htable_create.
LEMMA NewHash == IsHash(NewDict)
  BY Hashed, NewDictIs DEF HashKeys, IsHash

\* One field of HSET leaves a hash.
LEMMA OnePairIs ==
    ASSUME NEW r, IsHash(r.val), NEW p \in Fields \X Elems
    PROVE  IsHash(OnePair(r, p).val)
  <1>1. PICK f \in Fields, v \in Elems : f = p[1] /\ v = p[2]
    OBVIOUS
  <1>2. PICK d : d = r.val
    OBVIOUS
  <1>3. IsDict(DictSet(d, f, v), Fields, Elems)
    BY <1>2, DictSetIs DEF IsHash
  <1> QED
    BY <1>1, <1>2, <1>3 DEF IsHash, OnePair, Result

\* So does one of HDEL.
LEMMA OneFieldIs ==
    ASSUME NEW r, IsHash(r.val), NEW f \in Fields
    PROVE  IsHash(OneField(r, f).val)
  <1>1. PICK d : d = r.val
    OBVIOUS
  <1>2. IsDict(DictDel(d, f), Fields, Elems)
    BY <1>1, DictDelIs DEF IsHash
  <1> QED
    BY <1>1, <1>2 DEF IsHash, OneField, Result

\* So does HSET.
LEMMA SetAllIs ==
    ASSUME NEW r, IsHash(r.val), NEW pairs \in Upto2(Fields \X Elems)
    PROVE  IsHash(SetAll(r, pairs).val)
  <1>1. CASE \E x \in Fields \X Elems : pairs = <<x>>
    <2>1. PICK x \in Fields \X Elems : pairs = <<x>>
      BY <1>1
    <2>2. SetAll(r, pairs) = OnePair(r, x)
      BY <2>1, FoldSet1
    <2> QED
      BY <2>2, OnePairIs
  <1>2. CASE \E x, y \in Fields \X Elems : pairs = <<x, y>>
    <2>1. PICK x \in Fields \X Elems, y \in Fields \X Elems : pairs = <<x, y>>
      BY <1>2
    <2>2. SetAll(r, pairs) = OnePair(OnePair(r, x), y)
      BY <2>1, FoldSet2
    <2>3. PICK q : q = OnePair(r, x)
      OBVIOUS
    <2>4. IsHash(q.val)
      BY <2>3, OnePairIs
    <2>5. IsHash(OnePair(q, y).val)
      BY <2>4, OnePairIs
    <2> QED
      BY <2>2, <2>3, <2>5
  <1>3. \/ pairs \in {<<x>> : x \in Fields \X Elems}
        \/ pairs \in (Fields \X Elems) \X (Fields \X Elems)
    BY DEF Upto2
  <1>4. ASSUME pairs \in (Fields \X Elems) \X (Fields \X Elems)
        PROVE  \E x, y \in Fields \X Elems : pairs = <<x, y>>
    BY <1>4
  <1> QED
    BY <1>1, <1>2, <1>3, <1>4

\* So does HDEL.
LEMMA DelAllIs ==
    ASSUME NEW r, IsHash(r.val), NEW fs \in Upto2(Fields)
    PROVE  IsHash(DelAll(r, fs).val)
  <1>1. CASE \E x \in Fields : fs = <<x>>
    <2>1. PICK x \in Fields : fs = <<x>>
      BY <1>1
    <2>2. DelAll(r, fs) = OneField(r, x)
      BY <2>1, FoldDel1
    <2> QED
      BY <2>2, OneFieldIs
  <1>2. CASE \E x, y \in Fields : fs = <<x, y>>
    <2>1. PICK x \in Fields, y \in Fields : fs = <<x, y>>
      BY <1>2
    <2>2. DelAll(r, fs) = OneField(OneField(r, x), y)
      BY <2>1, FoldDel2
    <2>3. PICK q : q = OneField(r, x)
      OBVIOUS
    <2>4. IsHash(q.val)
      BY <2>3, OneFieldIs
    <2>5. IsHash(OneField(q, y).val)
      BY <2>4, OneFieldIs
    <2> QED
      BY <2>2, <2>3, <2>5
  <1>3. fs \in {<<x>> : x \in Fields} \/ fs \in Fields \X Fields
    BY DEF Upto2
  <1>4. ASSUME fs \in Fields \X Fields PROVE \E x, y \in Fields : fs = <<x, y>>
    BY <1>4
  <1> QED
    BY <1>1, <1>2, <1>3, <1>4

\* The part of the inductive invariant about hashes.
HashInv == type = "hash" /\ val # None => IsHash(val)

\* The hash commands preserve it.
LEMMA HashSteps ==
    ASSUME HashInv, HashStep
    PROVE  HashInv' /\ UNCHANGED <<type, odd>>
  <1>1. type = "hash"
    BY DEF HashStep
  <1>2. IsHash(Existing(NewDict))
    BY <1>1, NewHash DEF HashInv, Existing
  <1>3. ASSUME NEW pairs \in Upto2(Fields \X Elems), Become(HSet(pairs))
        PROVE  HashInv' /\ UNCHANGED <<type, odd>>
    <2>1. PICK r : r = Result(Existing(NewDict), Integer(0))
      OBVIOUS
    <2>2. IsHash(r.val)
      BY <1>2, <2>1 DEF Result
    <2>3. IsHash(SetAll(r, pairs).val)
      BY <1>3, <2>2, SetAllIs
    <2>4. HSet(pairs) = SetAll(r, pairs)
      BY <2>1 DEF HSet, SetAll
    <2> QED
      BY <1>3, <2>3, <2>4 DEF Become, HashInv
  <1>4. ASSUME NEW fs \in Upto2(Fields), Become(HDel(fs))
        PROVE  HashInv' /\ UNCHANGED <<type, odd>>
    <2>1. CASE val = None
      BY <1>4, <2>1 DEF HDel, Become, HashInv, Result
    <2>2. CASE val # None
      <3>1. PICK r : r = Result(val, Integer(0))
        OBVIOUS
      <3>2. IsHash(r.val)
        BY <1>1, <2>2, <3>1 DEF Result, HashInv
      <3>3. IsHash(DelAll(r, fs).val)
        BY <1>4, <3>2, DelAllIs
      <3>4. HDel(fs) = DelAll(r, fs)
        BY <2>2, <3>1 DEF HDel, DelAll
      <3> QED
        BY <1>4, <3>3, <3>4 DEF Become, HashInv
    <2> QED
      BY <2>1, <2>2
  <1> QED
    BY <1>3, <1>4 DEF HashStep

-----------------------------------------------------------------------------
(* Sorted sets *)

\* The member index of a sorted set; NaN may be a score.
IsIndex(d) == IsDict(d, Members, Scores \cup {NaN})

\* A sorted set of the keyspace.
IsZSet(z) == DOMAIN z = DOMAIN NewZSet /\ IsIndex(z.ht) /\ \E pos : Tower(z.sl, pos)

\* zset_create.
LEMMA NewZSetIs == IsZSet(NewZSet)
  <1>1. IsIndex(NewDict)
    BY Hashed, NewDictIs DEF HashKeys, IsIndex
  <1> QED
    BY <1>1, NewTower DEF IsZSet, NewZSet

\* zset_add leaves a sorted set, whatever the scores and members are.
LEMMA ZSetAddIs ==
    ASSUME NEW z, IsZSet(z), NEW m \in Members, NEW score \in Scores \cup {NaN},
           NEW lvl \in 1 .. MaxLevel
    PROVE  IsZSet(ZSetAdd(z, m, score, lvl))
  <1>1. PICK old : old = DictGet(z.ht, m)
    OBVIOUS
  <1>2. PICK s : s = IF old = None THEN z.sl ELSE SlDelete(z.sl, m, old)
    OBVIOUS
  <1>3. PICK pos : Tower(z.sl, pos)
    BY DEF IsZSet
  <1>4. Tower(s, pos)
    <2>1. PICK sl : sl = z.sl
      OBVIOUS
    <2>2. Tower(SlDelete(sl, m, old), pos)
      BY <1>3, <2>1, DeleteIs
    <2> QED
      BY <1>2, <1>3, <2>1, <2>2
  <1>5. \E q : Tower(SlInsert(s, m, score, lvl), q)
    BY <1>4, InsertIs
  <1>6. PICK d : d = z.ht
    OBVIOUS
  <1>7. IsDict(DictSet(d, m, score), Members, Scores \cup {NaN})
    BY <1>6, DictSetIs DEF IsZSet, IsIndex
  <1>8. PICK r : r = ZSetAdd(z, m, score, lvl)
    OBVIOUS
  <1>9. r = [sl |-> SlInsert(s, m, score, lvl), ht |-> DictSet(d, m, score)]
    BY <1>1, <1>2, <1>6, <1>8 DEF ZSetAdd
  <1>10. DOMAIN r = DOMAIN NewZSet /\ r.sl = SlInsert(s, m, score, lvl)
         /\ r.ht = DictSet(d, m, score)
    BY <1>9 DEF NewZSet
  <1> QED
    BY <1>5, <1>7, <1>8, <1>10 DEF IsZSet, IsIndex

\* So does one member of ZREM.
LEMMA OneMemberIs ==
    ASSUME NEW r, IsZSet(r.val), NEW m \in Members
    PROVE  IsZSet(OneMember(r, m).val)
  <1>1. PICK z : z = r.val
    OBVIOUS
  <1>2. IsZSet(z)
    BY <1>1
  <1>3. PICK pos : Tower(z.sl, pos)
    BY <1>2 DEF IsZSet
  <1>4. PICK sl : sl = z.sl
    OBVIOUS
  <1>5. PICK d : d = z.ht
    OBVIOUS
  <1>6. PICK old : old = DictGet(d, m)
    OBVIOUS
  <1>7. Tower(SlDelete(sl, m, old), pos)
    BY <1>3, <1>4, DeleteIs
  <1>8. IsDict(DictDel(d, m), Members, Scores \cup {NaN})
    BY <1>2, <1>5, DictDelIs DEF IsZSet, IsIndex
  <1>9. PICK t : t = ZSetRem(z, m)
    OBVIOUS
  <1>10. DOMAIN t = DOMAIN NewZSet /\ t.sl = SlDelete(sl, m, old) /\ t.ht = DictDel(d, m)
    BY <1>4, <1>5, <1>6, <1>9 DEF ZSetRem, NewZSet
  <1>11. IsZSet(t)
    BY <1>7, <1>8, <1>10 DEF IsZSet, IsIndex
  <1> QED
    BY <1>1, <1>2, <1>9, <1>11 DEF OneMember, Result

\* So does ZREM.
LEMMA RemAllIs ==
    ASSUME NEW r, IsZSet(r.val), NEW ms \in Upto2(Members)
    PROVE  IsZSet(RemAll(r, ms).val)
  <1>1. CASE \E x \in Members : ms = <<x>>
    <2>1. PICK x \in Members : ms = <<x>>
      BY <1>1
    <2>2. RemAll(r, ms) = OneMember(r, x)
      BY <2>1, FoldRem1
    <2> QED
      BY <2>2, OneMemberIs
  <1>2. CASE \E x, y \in Members : ms = <<x, y>>
    <2>1. PICK x \in Members, y \in Members : ms = <<x, y>>
      BY <1>2
    <2>2. RemAll(r, ms) = OneMember(OneMember(r, x), y)
      BY <2>1, FoldRem2
    <2>3. PICK q : q = OneMember(r, x)
      OBVIOUS
    <2>4. IsZSet(q.val)
      BY <2>3, OneMemberIs
    <2>5. IsZSet(OneMember(q, y).val)
      BY <2>4, OneMemberIs
    <2> QED
      BY <2>2, <2>3, <2>5
  <1>3. ms \in {<<x>> : x \in Members} \/ ms \in Members \X Members
    BY DEF Upto2
  <1>4. ASSUME ms \in Members \X Members PROVE \E x, y \in Members : ms = <<x, y>>
    BY <1>4
  <1> QED
    BY <1>1, <1>2, <1>3, <1>4

\* The part of the inductive invariant about sorted sets.
ZSetInv == type = "zset" /\ val # None => IsZSet(val)

\* The sorted-set commands preserve it.
LEMMA ZSetSteps ==
    ASSUME ZSetInv, ZSetStep
    PROVE  ZSetInv' /\ type' = type /\ odd' \in {odd, TRUE, FALSE}
  <1>1. type = "zset"
    BY DEF ZSetStep
  <1>2. IsZSet(Existing(NewZSet))
    BY <1>1, NewZSetIs DEF ZSetInv, Existing
  <1>3. ASSUME ZAddStep PROVE ZSetInv' /\ type' = type /\ odd' \in {odd, TRUE, FALSE}
    <2>1. PICK m \in Members, score \in Scores \cup {NaN}, lvl \in 1 .. MaxLevel :
              /\ odd' = (odd \/ score = NaN \/ Twins(m) # {})
              /\ val' = ZAdd(m, score, lvl).val
              /\ UNCHANGED type
      BY <1>3 DEF ZAddStep
    <2>2. PICK z : z = Existing(NewZSet)
      OBVIOUS
    <2>3. IsZSet(ZSetAdd(z, m, score, lvl))
      BY <1>2, <2>2, ZSetAddIs
    <2>4. val' = ZSetAdd(z, m, score, lvl)
      BY <2>1, <2>2 DEF ZAdd, Result
    <2>5. odd' \in BOOLEAN
      BY <2>1
    <2> QED
      BY <2>1, <2>3, <2>4, <2>5 DEF ZSetInv
  <1>4. ASSUME NEW ms \in Upto2(Members), Become(ZRem(ms))
        PROVE  ZSetInv' /\ type' = type /\ odd' \in {odd, TRUE, FALSE}
    <2>1. CASE val = None
      BY <1>4, <2>1 DEF ZRem, Become, ZSetInv, Result
    <2>2. CASE val # None
      <3>1. PICK r : r = Result(val, Integer(0))
        OBVIOUS
      <3>2. IsZSet(r.val)
        BY <1>1, <2>2, <3>1 DEF Result, ZSetInv
      <3>3. IsZSet(RemAll(r, ms).val)
        BY <1>4, <3>2, RemAllIs
      <3>4. ZRem(ms) = RemAll(r, ms)
        BY <2>2, <3>1 DEF ZRem, RemAll
      <3> QED
        BY <1>4, <3>3, <3>4 DEF Become, ZSetInv
    <2> QED
      BY <2>1, <2>2
  <1> QED
    BY <1>3, <1>4 DEF ZSetStep

-----------------------------------------------------------------------------
(* The specification *)

\* The two directions of a list agree after any order of pushes and pops at both
\* ends (list.cpp).
THEOREM ListLinked == Spec => []ListIsLinked
  <1>1. Init => ListInv
    BY DEF Init, ListInv
  <1>2. ListInv /\ [Next]_vars => ListInv'
    <2> SUFFICES ASSUME ListInv, [Next]_vars PROVE ListInv'
      OBVIOUS
    <2>1. CASE ListStep
      BY <2>1, ListSteps
    <2>2. CASE HashStep
      BY <2>2 DEF HashStep, Become, ListInv
    <2>3. CASE ZSetStep
      BY <2>3 DEF ZSetStep, ZAddStep, Become, ListInv
    <2>4. CASE UNCHANGED vars
      BY <2>4 DEF vars, ListInv
    <2> QED
      BY <2>1, <2>2, <2>3, <2>4 DEF Next
  <1>3. ListInv => ListIsLinked
    BY BothWays DEF ListInv, ListIsLinked, GoodList
  <1> QED
    BY <1>1, <1>2, <1>3, PTL DEF Spec

\* The inductive invariant: TypeOK's first line, and the value is what its type
\* says, linked and bucketed as it must be.
IInv == /\ type \in {"list", "hash", "zset"} /\ odd \in BOOLEAN
        /\ ListInv /\ HashInv /\ ZSetInv

\* It holds of the missing key.
LEMMA InitInv == Init => IInv
  BY DEF Init, IInv, ListInv, HashInv, ZSetInv

\* Every command preserves it.
LEMMA StepInv == IInv /\ [Next]_vars => IInv'
  <1> SUFFICES ASSUME IInv, [Next]_vars PROVE IInv'
    OBVIOUS
  <1>1. CASE ListStep
    <2>1. type = "list" /\ ListInv' /\ UNCHANGED <<type, odd>>
      BY <1>1, ListSteps DEF ListStep, IInv
    <2> QED
      BY <2>1 DEF IInv, HashInv, ZSetInv
  <1>2. CASE HashStep
    <2>1. type = "hash" /\ HashInv' /\ UNCHANGED <<type, odd>>
      BY <1>2, HashSteps DEF HashStep, IInv
    <2> QED
      BY <2>1 DEF IInv, ListInv, ZSetInv
  <1>3. CASE ZSetStep
    <2>1. type = "zset" /\ ZSetInv' /\ type' = type /\ odd' \in {odd, TRUE, FALSE}
      BY <1>3, ZSetSteps DEF ZSetStep, IInv
    <2>2. odd \in BOOLEAN
      BY DEF IInv
    <2>3. odd' \in BOOLEAN
      BY <2>1, <2>2
    <2> QED
      BY <2>1, <2>3 DEF IInv, ListInv, HashInv
  <1>4. CASE UNCHANGED vars
    BY <1>4 DEF vars, IInv, ListInv, HashInv, ZSetInv
  <1> QED
    BY <1>1, <1>2, <1>3, <1>4 DEF Next

\* The nodes and buckets of the value are right after every command, for every hash
\* function, choice of levels, score and member.
THEOREM Inductive == Spec => []IInv
  BY InitInv, StepInv, PTL DEF Spec

\* The types of the variables.
THEOREM TypeCorrect == Spec => []TypeOK
  <1>1. IInv => TypeOK
    <2> SUFFICES ASSUME IInv PROVE TypeOK
      OBVIOUS
    <2>1. type \in {"list", "hash", "zset"} /\ odd \in BOOLEAN
      BY DEF IInv
    <2>2. ASSUME val # None, type = "list" PROVE DOMAIN val = DOMAIN NewList /\ val.len \in Nat
      BY <2>2 DEF IInv, ListInv, GoodList, IsList, Shaped, Strung, NewList
    <2>3. ASSUME val # None, type = "hash" PROVE DOMAIN val = DOMAIN NewDict /\ val.count \in Nat
      <3>1. IsDict(val, Fields, Elems)
        BY <2>3 DEF IInv, HashInv, IsHash
      <3> QED
        BY <3>1, FS_CardinalityType DEF IsDict, Boxed, NewDict
    <2>4. ASSUME val # None, type = "zset"
          PROVE  DOMAIN val = DOMAIN NewZSet /\ val.sl.length \in Nat
      BY <2>4 DEF IInv, ZSetInv, IsZSet, Tower
    <2> QED
      BY <2>1, <2>2, <2>3, <2>4 DEF TypeOK
  <1> QED
    BY <1>1, Inductive, PTL

\* Whatever grows a table and whatever collides in it, each key is in its own bucket
\* and once, and the count is right (dict.cpp).
THEOREM DictsSound == Spec => []DictIsSound
  <1>1. IInv => DictIsSound
    <2> SUFFICES ASSUME IInv, val # None
                 PROVE  (type = "hash" => Sound(val)) /\ (type = "zset" => Sound(val.ht))
      BY DEF DictIsSound
    <2>1. CASE type = "hash"
      <3>1. IsDict(val, Fields, Elems)
        BY <2>1 DEF IInv, HashInv, IsHash
      <3> QED
        BY <2>1, <3>1, DictSound
    <2>2. CASE type = "zset"
      <3>1. PICK d : d = val.ht
        OBVIOUS
      <3>2. IsDict(d, Members, Scores \cup {NaN})
        BY <2>2, <3>1 DEF IInv, ZSetInv, IsZSet, IsIndex
      <3>3. Sound(d)
        BY <3>2, DictSound
      <3> QED
        BY <2>2, <3>1, <3>3
    <2> QED
      BY <2>1, <2>2
  <1> QED
    BY <1>1, Inductive, PTL

\* On every level the skip list is a subsequence of the level below, and no pointer
\* leads to a freed node, also with NaN scores and strcmp-equal members
\* (skiplist.cpp).
THEOREM LevelsNested == Spec => []LevelsNest
  <1>1. IInv => LevelsNest
    <2> SUFFICES ASSUME IInv, type = "zset", val # None PROVE Nested(val.sl)
      BY DEF LevelsNest, Nested
    <2>1. PICK sl : sl = val.sl
      OBVIOUS
    <2>2. PICK pos : Tower(sl, pos)
      BY <2>1 DEF IInv, ZSetInv, IsZSet
    <2> QED
      BY <2>1, <2>2, TowerNests
  <1> QED
    BY <1>1, Inductive, PTL

-----------------------------------------------------------------------------
(* Lists as Objects has them *)

\* A list object of Objects.
LEMMA ObjIs ==
    ASSUME NEW s \in Seq(Elems), NEW o, o = O!NewObj("list", s)
    PROVE  /\ o # None /\ o.type = "list" /\ o.val = s
           /\ \A t : [o EXCEPT !.val = t] = O!NewObj("list", t)
  <1>1. o = [type |-> "list", val |-> s, exp |-> 0]
    BY DEF O!NewObj
  <1>2. o \in O!Objs
    BY <1>1 DEF O!Objs
  <1>3. o # None
    BY <1>2, NoneIsNoData
  <1> QED
    BY <1>1, <1>3 DEF O!NewObj

\* What the properties take a list for.
LEMMA AbsList ==
    ASSUME type = "list", NEW l, IsList(l), Within(l, MaxLen + 2)
    PROVE  l # None /\ Abs(l) = O!NewObj("list", Values(l))
  <1>1. PICK s : Strung(l, s)
    BY DEF IsList
  <1>2. PICK S : S = DOMAIN l.node
    OBVIOUS
  <1>3. S \in SUBSET (1 .. MaxLen + 2)
    BY <1>2 DEF Within
  <1>4. l = [head |-> l.head, tail |-> l.tail, len |-> l.len, node |-> l.node]
    BY DEF IsList, Shaped
  <1>5. /\ l.len \in Nat /\ l.head \in Nat /\ l.tail \in Nat
        /\ l.node \in [S -> [value : Elems, prev : Nat, next : Nat]]
    <2>1. l.node \in [{s[i] : i \in 1 .. l.len} -> [value : Elems, prev : Nat, next : Nat]]
      BY <1>1 DEF Strung, ListNodes
    <2>2. l.len \in Nat /\ s \in [1 .. l.len -> Nat \ {0}]
      BY <1>1 DEF Strung
    <2>3. l.head \in Nat /\ l.tail \in Nat
      BY <1>1, <2>2 DEF Strung
    <2> QED
      BY <1>2, <2>1, <2>2, <2>3
  <1>6. l \in [head : Nat, tail : Nat, len : Nat,
               node : [S -> [value : Elems, prev : Nat, next : Nat]]]
    BY <1>4, <1>5
  <1>7. l # None
    BY <1>3, <1>6, NoneIsNoData
  <1> QED
    BY <1>7 DEF Abs

\* The value at a place, met from either end.
LEMMA ValueAt ==
    ASSUME NEW l, IsList(l), NEW i \in 0 .. l.len - 1
    PROVE  /\ l.node[Forward(l, i)].value = Values(l)[i + 1]
           /\ l.node[Backward(l, l.len - 1 - i)].value = Values(l)[i + 1]
           /\ Values(l)[i + 1] \in Elems
  <1>1. PICK s : Strung(l, s)
    BY DEF IsList
  <1>2. PICK n \in Nat : n = l.len
    BY <1>1 DEF Strung
  <1>3. PICK k \in 1 .. n : k = i + 1
    BY <1>2
  <1>4. PICK j \in 0 .. n - 1 : j = n - 1 - i /\ n - j = k
    BY <1>2, <1>3
  <1>5. Forward(l, i) = s[k]
    BY <1>1, <1>3, ForwardIs
  <1>6. Backward(l, j) = s[k]
    BY <1>1, <1>2, <1>4, BackwardIs
  <1>7. Values(l)[k] = l.node[s[k]].value
    BY <1>1, <1>2, ValuesAre
  <1>8. Values(l)[k] \in Elems
    <2>1. Values(l) \in Seq(Elems) /\ Len(Values(l)) = n
      BY <1>1, <1>2, ValuesAre
    <2> QED
      BY <2>1, ElementOfSeq
  <1> QED
    BY <1>2, <1>3, <1>4, <1>5, <1>6, <1>7, <1>8

\* list_index finds the value at the place the index means, from the nearer end.
LEMMA IndexOf ==
    ASSUME NEW l, IsList(l), NEW i \in Int, NEW v, v = ListIndex(l, i, None),
           NEW n, n = O!NormalizeIndex(i, l.len)
    PROVE  /\ v = None <=> n \notin 0 .. l.len - 1
           /\ n \in 0 .. l.len - 1 => v = Values(l)[n + 1]
  <1>1. l.len \in Nat
    BY DEF IsList, Strung
  <1>2. n \in Int /\ n = IF i < 0 THEN l.len + i ELSE i
    BY <1>1 DEF O!NormalizeIndex
  <1>3. CASE n \notin 0 .. l.len - 1
    <2>1. n < 0 \/ n >= l.len
      BY <1>1, <1>2, <1>3
    <2> QED
      BY <1>2, <1>3, <2>1 DEF ListIndex
  <1>4. CASE n \in 0 .. l.len - 1
    <2>1. ~(n < 0 \/ n >= l.len)
      BY <1>1, <1>4
    <2>2. /\ l.node[Forward(l, n)].value = Values(l)[n + 1]
          /\ l.node[Backward(l, l.len - 1 - n)].value = Values(l)[n + 1]
          /\ Values(l)[n + 1] \in Elems
      BY <1>4, ValueAt
    <2>3. v = Values(l)[n + 1]
      BY <1>2, <2>1, <2>2 DEF ListIndex
    <2> QED
      BY <1>4, <2>2, <2>3, NoneIsNoData
  <1> QED
    BY <1>3, <1>4

\* The first place of a range of ranks, and how many it takes of n things.
First(i, n) == IF O!NormalizeIndex(i, n) < 0 THEN 0 ELSE O!NormalizeIndex(i, n)
Final(j, n) == IF O!NormalizeIndex(j, n) >= n THEN n - 1 ELSE O!NormalizeIndex(j, n)
Taken(i, j, n, max) ==
    IF Final(j, n) - First(i, n) + 1 > max THEN max ELSE Final(j, n) - First(i, n) + 1

\* They are numbers, and within what is there.
LEMMA TakenIs ==
    ASSUME NEW i \in Int, NEW j \in Int, NEW n \in Nat, NEW max \in Nat
    PROVE  /\ First(i, n) \in Nat /\ Final(j, n) \in Int /\ Taken(i, j, n, max) \in Int
           /\ \A k \in 1 .. Taken(i, j, n, max) : First(i, n) + k \in 1 .. n
  <1>1. O!NormalizeIndex(i, n) \in Int /\ O!NormalizeIndex(j, n) \in Int
    BY DEF O!NormalizeIndex
  <1>2. PICK s \in Nat : s = First(i, n)
    BY <1>1 DEF First
  <1>3. PICK e \in Int : e = Final(j, n) /\ e <= n - 1
    BY <1>1 DEF Final
  <1>4. PICK m : m = Taken(i, j, n, max)
    OBVIOUS
  <1>5. m = IF e - s + 1 > max THEN max ELSE e - s + 1
    BY <1>2, <1>3, <1>4 DEF Taken
  <1>6. m \in Int /\ m <= e - s + 1
    BY <1>5
  <1>7. \A k \in 1 .. m : s + k \in 1 .. n
    BY <1>3, <1>6
  <1> QED
    BY <1>2, <1>3, <1>4, <1>6, <1>7

\* What RangeByRank answers.
LEMMA RankRange ==
    ASSUME NEW V, NEW vs \in Seq(V), NEW n \in Nat, n = Len(vs),
           NEW i \in Int, NEW j \in Int, NEW max \in Nat
    PROVE  O!RangeByRank(vs, i, j, max) =
               [k \in 1 .. Taken(i, j, n, max) |-> vs[First(i, n) + k]]
  <1>1. PICK s \in Nat : s = First(i, n)
    BY TakenIs
  <1>2. PICK e \in Int : e = Final(j, n)
    BY TakenIs
  <1>3. PICK m \in Int : m = Taken(i, j, n, max)
    BY TakenIs
  <1>4. m = IF e - s + 1 > max THEN max ELSE e - s + 1
    BY <1>1, <1>2, <1>3 DEF Taken
  <1>5. \A k \in 1 .. m : s + k \in 1 .. n
    BY <1>1, <1>3, TakenIs
  <1>6. O!RangeByRank(vs, i, j, max) =
            IF s > e THEN << >>
            ELSE SubSeq(vs, s + 1, IF e - s + 1 > max THEN s + max ELSE e + 1)
    BY <1>1, <1>2 DEF O!RangeByRank, First, Final
  <1>7. PICK r : r = [k \in 1 .. m |-> vs[s + k]]
    OBVIOUS
  <1>8. CASE s > e
    <2>1. 1 .. m = {}
      BY <1>4, <1>8
    <2>2. r = << >>
      BY <1>7, <2>1
    <2> QED
      BY <1>1, <1>3, <1>6, <1>7, <1>8, <2>2
  <1>9. CASE ~(s > e)
    <2>1. m \in Nat /\ (IF e - s + 1 > max THEN s + max ELSE e + 1) = s + m
      BY <1>4, <1>9
    <2>2. \A k \in 1 .. m : r[k] = vs[s + k] /\ r[k] \in V
      BY <1>5, <1>7, ElementOfSeq
    <2>3. r \in [1 .. m -> V]
      BY <1>7, <2>2
    <2>4. r \in Seq(V) /\ Len(r) = m
      BY <2>1, <2>3, SeqOfFun
    <2>5. PICK t : t = SubSeq(vs, s + 1, s + m)
      OBVIOUS
    <2>6. ASSUME NEW k \in s + 1 .. s + m PROVE vs[k] \in V
      <3>1. PICK p \in 1 .. m : k = s + p
        <4>1. k - s \in 1 .. m /\ k = s + (k - s)
          BY <2>1
        <4> QED
          BY <4>1
      <3> QED
        BY <1>5, <3>1, ElementOfSeq
    <2>7. /\ t \in Seq(V)
          /\ Len(t) = IF s + 1 <= s + m THEN (s + m) - (s + 1) + 1 ELSE 0
          /\ \A k \in 1 .. (s + m) - (s + 1) + 1 : t[k] = vs[(s + 1) + k - 1]
      BY <2>1, <2>5, <2>6, SubSeqProperties
    <2>8. Len(t) = m /\ \A k \in 1 .. m : t[k] = vs[s + k]
      <3>1. (s + m) - (s + 1) + 1 = m
        BY <2>1
      <3>2. \A k \in 1 .. m : (s + 1) + k - 1 = s + k
        OBVIOUS
      <3>3. (s + 1 <= s + m) <=> (1 <= m)
        BY <2>1
      <3>4. Len(t) = IF 1 <= m THEN m ELSE 0
        BY <2>7, <3>1, <3>3
      <3>5. Len(t) = m
        BY <2>1, <3>4
      <3>6. \A k \in 1 .. m : t[k] = vs[(s + 1) + k - 1]
        BY <2>7, <3>1
      <3> QED
        BY <3>2, <3>5, <3>6
    <2>9. r = t
      BY <2>2, <2>4, <2>7, <2>8, SeqEqual
    <2> QED
      BY <1>1, <1>3, <1>6, <1>7, <1>9, <2>1, <2>5, <2>9
  <1> QED
    BY <1>8, <1>9

\* The bounds list_range and sl_range_by_rank work out of a and b, counted from 0.
Bounded(a, b, n, max, s, e, m) ==
    /\ Max({0, a}) = s /\ Min({n - 1, b}) = e
    /\ Min({max, e - s + 1}) = m /\ Min({max, e - s + 1, n - s}) = m

\* They are the same.
LEMMA BoundsAre ==
    ASSUME NEW i \in Int, NEW j \in Int, NEW n \in Nat, NEW max \in Nat,
           NEW a \in Int, a = O!NormalizeIndex(i, n),
           NEW b \in Int, b = O!NormalizeIndex(j, n),
           NEW s \in Nat, s = First(i, n), NEW e \in Int, e = Final(j, n),
           NEW m \in Int, m = Taken(i, j, n, max)
    PROVE  Bounded(a, b, n, max, s, e, m)
  <1>3. s \in Nat /\ s = (IF a < 0 THEN 0 ELSE a)
    BY TakenIs DEF First
  <1>4. e \in Int /\ e = (IF b >= n THEN n - 1 ELSE b)
    BY TakenIs DEF Final
  <1>5. Max({0, a}) = s
    BY <1>3, PairMax
  <1>6. Min({n - 1, b}) = e
    BY <1>4, PairMin
  <1>8. m = IF e - s + 1 > max THEN max ELSE e - s + 1
    BY DEF Taken
  <1>9. Min({max, e - s + 1}) = m
    BY <1>3, <1>4, <1>8, PairMin
  <1>10. Min({max, e - s + 1, n - s}) = m
    <2>1. PICK T : T = {max, e - s + 1, n - s}
      OBVIOUS
    <2>2. e - s + 1 <= n - s /\ n - s \in Int
      BY <1>3, <1>4
    <2>3. m \in T /\ \A x \in T : m <= x
      BY <1>3, <1>4, <1>8, <2>1, <2>2
    <2>4. \A x \in T : x \in Int
      BY <1>3, <1>4, <2>1, <2>2
    <2>5. \A p \in T : (\A x \in T : p <= x) => p = m
      BY <2>3, <2>4
    <2> QED
      BY <2>1, <2>3, <2>5 DEF Min
  <1> QED
    BY <1>5, <1>6, <1>9, <1>10 DEF Bounded

\* list_range copies the values at the places the ranks mean.
LEMMA RangeIs ==
    ASSUME NEW l, IsList(l), NEW i \in Int, NEW j \in Int, NEW max \in Nat
    PROVE  ListRange(l, i, j, max) = O!RangeByRank(Values(l), i, j, max)
  <1>1. PICK n \in Nat : n = l.len
    BY DEF IsList, Strung
  <1>2. PICK vs \in Seq(Elems) : vs = Values(l) /\ Len(vs) = n
    BY <1>1, ValuesAre DEF IsList
  <1>3. PICK a \in Int : a = O!NormalizeIndex(i, n) /\ a = IF i < 0 THEN n + i ELSE i
    BY <1>1 DEF O!NormalizeIndex
  <1>4. PICK b \in Int : b = O!NormalizeIndex(j, n) /\ b = IF j < 0 THEN n + j ELSE j
    BY <1>1 DEF O!NormalizeIndex
  <1>5. PICK s \in Nat : s = First(i, n)
    BY TakenIs
  <1>6. PICK e \in Int : e = Final(j, n)
    BY TakenIs
  <1>7. PICK m \in Int : m = Taken(i, j, n, max)
    BY TakenIs
  <1>8. Bounded(a, b, n, max, s, e, m)
    BY <1>3, <1>4, <1>5, <1>6, <1>7, BoundsAre
  <1>9. ListRange(l, i, j, max) = [k \in 1 .. m |-> l.node[Forward(l, s + k - 1)].value]
    BY <1>1, <1>3, <1>4, <1>8 DEF ListRange, Bounded
  <1>10. \A k \in 1 .. m : l.node[Forward(l, s + k - 1)].value = vs[s + k]
    <2> SUFFICES ASSUME NEW k \in 1 .. m
                 PROVE  l.node[Forward(l, s + k - 1)].value = vs[s + k]
      OBVIOUS
    <2>1. s + k \in 1 .. n
      BY <1>5, <1>7, TakenIs
    <2>2. PICK q \in 0 .. l.len - 1 : q = s + k - 1 /\ q + 1 = s + k
      BY <1>1, <2>1
    <2> QED
      BY <1>2, <2>2, ValueAt
  <1>11. O!RangeByRank(vs, i, j, max) = [k \in 1 .. m |-> vs[s + k]]
    <2>1. O!RangeByRank(vs, i, j, max) =
              [k \in 1 .. Taken(i, j, n, max) |-> vs[First(i, n) + k]]
      BY <1>2, RankRange
    <2> QED
      BY <1>5, <1>7, <2>1
  <1> QED
    BY <1>2, <1>9, <1>10, <1>11

\* What the properties take the key for.
LEMMA ListHere ==
    ASSUME ListInv, type = "list"
    PROVE  /\ MaxLen \in Nat /\ RangeMax \in Nat
           /\ val = None => Here = None
           /\ val # None => /\ IsList(val) /\ val.len \in Nat \ {0} /\ val.len <= MaxLen
                            /\ Within(val, MaxLen) /\ Within(val, MaxLen + 2)
                            /\ Values(val) \in Seq(Elems) /\ Len(Values(val)) = val.len
                            /\ Here = O!NewObj("list", Values(val)) /\ Here # None
  <1>1. MaxLen \in Nat /\ RangeMax \in Nat
    BY BoundsAreNumbers
  <1>2. val = None => Here = None
    BY DEF Here, Abs
  <1>3. ASSUME val # None
        PROVE  /\ IsList(val) /\ val.len \in Nat \ {0} /\ val.len <= MaxLen
               /\ Within(val, MaxLen) /\ Within(val, MaxLen + 2)
               /\ Values(val) \in Seq(Elems) /\ Len(Values(val)) = val.len
               /\ Here = O!NewObj("list", Values(val)) /\ Here # None
    <2>1. IsList(val) /\ val.len # 0 /\ val.len <= MaxLen /\ Within(val, MaxLen)
      BY <1>3 DEF ListInv, GoodList
    <2>2. val.len \in Nat \ {0}
      BY <2>1 DEF IsList, Strung
    <2>3. Within(val, MaxLen + 2)
      BY <1>1, <2>1 DEF Within
    <2>4. Here = O!NewObj("list", Values(val))
      BY <2>1, <2>3, AbsList DEF Here
    <2>5. Values(val) \in Seq(Elems) /\ Len(Values(val)) = val.len
      BY <2>1, ValuesAre DEF IsList
    <2>6. Here # None
      BY <2>4, <2>5, ObjIs
    <2> QED
      BY <2>1, <2>2, <2>3, <2>4, <2>5, <2>6
  <1> QED
    BY <1>1, <1>2, <1>3

\* LPUSH and RPUSH.
LEMMA PushesAgree ==
    ASSUME ListInv, type = "list", NEW es \in Upto2(Elems)
    PROVE  Is(LPush(es), O!LPushTo(Here, es)) /\ Is(RPush(es), O!RPushTo(Here, es))
  <1>1. PICK l : l = Existing(NewList)
    OBVIOUS
  <1>2. IsList(l) /\ l.len \in Nat /\ l.len <= MaxLen /\ Within(l, MaxLen) /\ MaxLen \in Nat
    BY <1>1, ListThere, BoundsAreNumbers
  <1>3. PICK vs \in Seq(Elems) : vs = Values(l) /\ Len(vs) = l.len
    BY <1>2, ValuesAre DEF IsList
  <1>4. PICK h : h = O!GetOrCreate(Here, O!EmptyList)
    OBVIOUS
  <1>5. h = O!NewObj("list", vs)
    <2>1. CASE val = None
      <3>1. vs = << >>
        BY <1>1, <1>3, <2>1, NewListIs, EmptySeq DEF Existing
      <3>2. Here = None
        BY <2>1, ListHere
      <3> QED
        BY <1>4, <3>1, <3>2 DEF O!GetOrCreate, O!EmptyList
    <2>2. CASE val # None
      BY <1>1, <1>3, <1>4, <2>2, ListHere DEF O!GetOrCreate, Existing
    <2> QED
      BY <2>1, <2>2
  <1>6. /\ h # None /\ h.type = "list" /\ h.val = vs
        /\ \A t : [h EXCEPT !.val = t] = O!NewObj("list", t)
    BY <1>5, ObjIs
  <1>7. Len(es) = 1 \/ Len(es) = 2
    BY DEF Upto2
  <1>8. PICK m \in Nat : m = MaxLen + 2
    BY <1>2
  <1>9. Within(l, m) /\ l.len + Len(es) <= m
    <2>1. 1 .. MaxLen \subseteq 1 .. m
      BY <1>2, <1>8
    <2>2. l.len + Len(es) <= m
      <3>1. PICK k \in Nat : k = l.len /\ k <= MaxLen
        BY <1>2
      <3>2. k + 1 <= m /\ k + 2 <= m
        BY <1>2, <1>8, <3>1
      <3> QED
        BY <1>7, <3>1, <3>2
    <2> QED
      BY <1>2, <2>1, <2>2 DEF Within
  <1>10. PICK p : p = LPushAll(l, es)
    OBVIOUS
  <1>11. PICK q : q = RPushAll(l, es)
    OBVIOUS
  <1>12. /\ IsList(p) /\ Within(p, MaxLen + 2) /\ p.len = Len(vs) + Len(es)
         /\ Values(p) = Reverse(es) \o vs
         /\ IsList(q) /\ Within(q, MaxLen + 2) /\ q.len = Len(vs) + Len(es)
         /\ Values(q) = vs \o es
    BY <1>2, <1>3, <1>8, <1>9, <1>10, <1>11, Pushed DEF Longer, GoodList
  <1>13. /\ Abs(p) = O!NewObj("list", Reverse(es) \o vs)
         /\ Abs(q) = O!NewObj("list", vs \o es)
    BY <1>12, AbsList
  <1>14. LPush(es) = Result(p, Integer(Len(vs) + Len(es)))
    BY <1>1, <1>10, <1>12 DEF LPush, LPushAll
  <1>15. RPush(es) = Result(q, Integer(Len(vs) + Len(es)))
    BY <1>1, <1>11, <1>12 DEF RPush, RPushAll
  <1>16. O!LPushTo(Here, es) =
             O!Result(O!NewObj("list", Reverse(es) \o vs), Integer(Len(vs) + Len(es)))
    <2>1. [h EXCEPT !.val = Reverse(es) \o @] = O!NewObj("list", Reverse(es) \o vs)
      BY <1>6
    <2> QED
      BY <1>4, <1>6, <2>1 DEF O!LPushTo, O!Strict, O!Integer, O!Reply, Integer, Reply,
                                  O!Reverse, Reverse
  <1>17. O!RPushTo(Here, es) =
             O!Result(O!NewObj("list", vs \o es), Integer(Len(vs) + Len(es)))
    <2>1. [h EXCEPT !.val = @ \o es] = O!NewObj("list", vs \o es)
      BY <1>6
    <2> QED
      BY <1>4, <1>6, <2>1 DEF O!RPushTo, O!Strict, O!Integer, O!Reply, Integer, Reply
  <1>18. Is(LPush(es), O!LPushTo(Here, es))
    BY <1>13, <1>14, <1>16 DEF Is, Result
  <1>19. Is(RPush(es), O!RPushTo(Here, es))
    BY <1>13, <1>15, <1>17 DEF Is, Result
  <1> QED
    BY <1>18, <1>19

\* LPOP and RPOP: the key goes with the last element.
LEMMA PopsAgree ==
    ASSUME ListInv, type = "list"
    PROVE  Is(LPop, O!LPopOf(Here)) /\ Is(RPop, O!RPopOf(Here))
  <1>1. CASE val = None
    <2>1. Here = None
      BY <1>1, ListHere
    <2>2. LPop = Result(None, NullBulk) /\ RPop = Result(None, NullBulk)
      BY <1>1 DEF LPop, RPop
    <2>3. /\ O!LPopOf(Here) = O!Result(None, NullBulk)
          /\ O!RPopOf(Here) = O!Result(None, NullBulk)
      BY <2>1 DEF O!LPopOf, O!RPopOf, O!Lenient, O!NullBulk, NullBulk,
                  O!Simple, Simple, O!Reply, Reply
    <2>4. Abs(None) = None
      BY DEF Abs
    <2> QED
      BY <2>2, <2>3, <2>4 DEF Is, Result
  <1>2. CASE val # None
    <2>1. /\ IsList(val) /\ val.len \in Nat \ {0} /\ Within(val, MaxLen + 2)
          /\ Values(val) \in Seq(Elems) /\ Len(Values(val)) = val.len
          /\ Here = O!NewObj("list", Values(val)) /\ Here # None
      BY <1>2, ListHere
    <2>2. PICK vs \in Seq(Elems) : vs = Values(val)
      BY <2>1
    <2>3. vs # << >> /\ Len(vs) \in Nat \ {0}
      BY <2>1, <2>2
    <2>4. PICK h : h = Here
      OBVIOUS
    <2>5. /\ h # None /\ h.type = "list" /\ h.val = vs
          /\ \A t : [h EXCEPT !.val = t] = O!NewObj("list", t)
      BY <2>1, <2>2, <2>4, ObjIs
    <2>6. PICK p : p = ListLPop(val)
      OBVIOUS
    <2>7. PICK q : q = ListRPop(val)
      OBVIOUS
    <2>8. /\ IsList(p) /\ Values(p) = Tail(vs) /\ p.len = Len(vs) - 1
          /\ val.node[val.head].value = Head(vs)
      BY <2>1, <2>2, <2>6, LPopped
    <2>9. /\ IsList(q) /\ Values(q) = Front(vs) /\ q.len = Len(vs) - 1
          /\ val.node[val.tail].value = Last(vs)
      BY <2>1, <2>2, <2>7, RPopped
    <2>10. Within(p, MaxLen + 2) /\ Within(q, MaxLen + 2)
      BY <2>1, <2>6, <2>7, PopWithin
    <2>11. /\ p # None /\ Abs(p) = O!NewObj("list", Tail(vs))
           /\ q # None /\ Abs(q) = O!NewObj("list", Front(vs))
      BY <2>8, <2>9, <2>10, AbsList
    <2>12. /\ LPop = Result(Popped(p), Bulk(Head(vs)))
           /\ RPop = Result(Popped(q), Bulk(Last(vs)))
      BY <1>2, <2>6, <2>7, <2>8, <2>9 DEF LPop, RPop
    <2>13. /\ Abs(Popped(p)) = IF Len(vs) = 1 THEN None ELSE O!NewObj("list", Tail(vs))
           /\ Abs(Popped(q)) = IF Len(vs) = 1 THEN None ELSE O!NewObj("list", Front(vs))
      <3>1. CASE Len(vs) = 1
        <4>1. Popped(p) = None /\ Popped(q) = None
          BY <2>8, <2>9, <3>1 DEF Popped
        <4> QED
          BY <3>1, <4>1 DEF Abs
      <3>2. CASE Len(vs) # 1
        <4>1. Popped(p) = p /\ Popped(q) = q
          BY <2>3, <2>8, <2>9, <3>2 DEF Popped
        <4> QED
          BY <2>11, <3>2, <4>1
      <3> QED
        BY <3>1, <3>2
    <2>14. [h EXCEPT !.val = Tail(@)] = O!NewObj("list", Tail(vs))
      BY <2>5
    <2>15. [h EXCEPT !.val = Front(@)] = O!NewObj("list", Front(vs))
      BY <2>5
    <2>16. O!LPopOf(h) = O!Result(IF Len(vs) = 1 THEN None ELSE O!NewObj("list", Tail(vs)),
                                  Bulk(Head(vs)))
      BY <2>3, <2>5, <2>14 DEF O!LPopOf, O!Lenient, O!Bulk, Bulk, O!Reply, Reply
    <2>17. O!Front(vs) = Front(vs) /\ O!Last(vs) = Last(vs)
      BY DEF O!Front, Front, O!Last, Last
    <2>18. O!RPopOf(h) = O!Result(IF Len(vs) = 1 THEN None ELSE O!NewObj("list", Front(vs)),
                                  Bulk(Last(vs)))
      <3>1. [h EXCEPT !.val = O!Front(@)] = O!NewObj("list", Front(vs))
        BY <2>5, <2>17
      <3> QED
        BY <2>3, <2>5, <2>17, <3>1 DEF O!RPopOf, O!Lenient, O!Bulk, Bulk, O!Reply, Reply
    <2>19. Is(LPop, O!LPopOf(Here))
      BY <2>4, <2>12, <2>13, <2>16 DEF Is, Result
    <2>20. Is(RPop, O!RPopOf(Here))
      BY <2>4, <2>12, <2>13, <2>18 DEF Is, Result
    <2> QED
      BY <2>19, <2>20
  <1> QED
    BY <1>1, <1>2

\* LLEN, LRANGE and LINDEX.
LEMMA ReadsAgree ==
    ASSUME ListInv, type = "list", NEW i \in Int, NEW j \in Int
    PROVE  /\ Is(LLen, O!LLenOf(Here))
           /\ Is(LRange(i, j), O!LRangeOf(Here, i, j, RangeMax))
           /\ Is(LIndex(i), O!LIndexOf(Here, i))
  <1>1. CASE val = None
    <2>1. Here = None
      BY <1>1, ListHere
    <2>2. /\ LLen = Result(None, Integer(0))
          /\ LRange(i, j) = Result(None, Array(0, << >>))
          /\ LIndex(i) = Result(None, NullBulk)
      <3>1. Len(<< >>) = 0
        OBVIOUS
      <3> QED
        BY <1>1, <3>1 DEF LLen, LRange, LIndex
    <2>3. /\ O!LLenOf(Here) = O!Result(None, Integer(0))
          /\ O!LRangeOf(Here, i, j, RangeMax) = O!Result(None, Array(0, << >>))
          /\ O!LIndexOf(Here, i) = O!Result(None, NullBulk)
      BY <2>1 DEF O!LLenOf, O!LRangeOf, O!LIndexOf, O!Strict, O!Lenient, O!NullBulk,
                  NullBulk, O!Simple, Simple, O!Reply, Reply, O!Integer, Integer,
                  O!Array, Array
    <2>4. Abs(None) = None
      BY DEF Abs
    <2> QED
      BY <2>2, <2>3, <2>4 DEF Is, Result
  <1>2. CASE val # None
    <2>1. /\ IsList(val) /\ RangeMax \in Nat
          /\ Values(val) \in Seq(Elems) /\ Len(Values(val)) = val.len
          /\ Here = O!NewObj("list", Values(val)) /\ Here # None
      BY <1>2, ListHere
    <2>2. PICK vs \in Seq(Elems) : vs = Values(val)
      BY <2>1
    <2>3. PICK h : h = Here
      OBVIOUS
    <2>4. h # None /\ h.type = "list" /\ h.val = vs
      BY <2>1, <2>2, <2>3, ObjIs
    <2>5. Is(LLen, O!LLenOf(Here))
      <3>1. LLen = Result(val, Integer(Len(vs)))
        BY <1>2, <2>1, <2>2 DEF LLen
      <3>2. O!LLenOf(h) = O!Result(h, Integer(Len(vs)))
        BY <2>4 DEF O!LLenOf, O!Strict, O!Integer, Integer, O!Reply, Reply
      <3> QED
        BY <2>3, <3>1, <3>2 DEF Is, Result, Here
    <2>6. Is(LRange(i, j), O!LRangeOf(Here, i, j, RangeMax))
      <3>1. PICK r : r = ListRange(val, i, j, RangeMax)
        OBVIOUS
      <3>2. r = O!RangeByRank(vs, i, j, RangeMax)
        BY <2>1, <2>2, <3>1, RangeIs
      <3>3. LRange(i, j) = Result(val, Array(Len(r), r))
        BY <1>2, <3>1 DEF LRange
      <3>4. O!LRangeOf(h, i, j, RangeMax) = O!Result(h, Array(Len(r), r))
        BY <2>4, <3>2 DEF O!LRangeOf, O!Strict, O!Array, Array, O!Reply, Reply
      <3> QED
        BY <2>3, <3>3, <3>4 DEF Is, Result, Here
    <2>7. Is(LIndex(i), O!LIndexOf(Here, i))
      <3>1. PICK v : v = ListIndex(val, i, None)
        OBVIOUS
      <3>2. PICK n : n = O!NormalizeIndex(i, Len(vs))
        OBVIOUS
      <3>3. /\ v = None <=> n \notin 0 .. Len(vs) - 1
            /\ n \in 0 .. Len(vs) - 1 => v = vs[n + 1]
        BY <2>1, <2>2, <3>1, <3>2, IndexOf
      <3>4. LIndex(i) = Result(val, IF v = None THEN NullBulk ELSE Bulk(v))
        BY <1>2, <3>1 DEF LIndex
      <3>5. O!LIndexOf(h, i) = IF n \in 0 .. Len(vs) - 1 THEN O!Result(h, O!Bulk(vs[n + 1]))
                               ELSE O!Result(h, O!NullBulk)
        BY <2>4, <3>2 DEF O!LIndexOf, O!Lenient
      <3>6. O!NullBulk = NullBulk /\ \A e : O!Bulk(e) = Bulk(e)
        BY DEF O!Bulk, Bulk, O!Reply, Reply, O!NullBulk, NullBulk, O!Simple, Simple
      <3>7. O!LIndexOf(h, i) = O!Result(h, IF v = None THEN NullBulk ELSE Bulk(v))
        BY <3>3, <3>5, <3>6
      <3> QED
        BY <2>3, <3>4, <3>7 DEF Is, Result, Here
    <2> QED
      BY <2>5, <2>6, <2>7
  <1> QED
    BY <1>1, <1>2

\* The list commands do what Objects says.
LEMMA ListsAgree == IInv => ListsAsObjects
  <1> SUFFICES ASSUME ListInv, type = "list" PROVE ListsAsObjects
    BY DEF IInv, ListsAsObjects
  <1>1. \A es \in Upto2(Elems) : /\ Is(LPush(es), O!LPushTo(Here, es))
                                 /\ Is(RPush(es), O!RPushTo(Here, es))
    BY PushesAgree
  <1>2. Is(LPop, O!LPopOf(Here)) /\ Is(RPop, O!RPopOf(Here))
    BY PopsAgree
  <1>3. \A i \in Indices : i \in Int
    BY BoundsAreNumbers
  <1>4. Is(LLen, O!LLenOf(Here))
    <2>1. 0 \in Int
      OBVIOUS
    <2> QED
      BY <2>1, ReadsAgree
  <1>5. \A i, j \in Indices : Is(LRange(i, j), O!LRangeOf(Here, i, j, RangeMax))
    BY <1>3, ReadsAgree
  <1>6. \A i \in Indices : Is(LIndex(i), O!LIndexOf(Here, i))
    BY <1>3, ReadsAgree
  <1> QED
    BY <1>1, <1>2, <1>4, <1>5, <1>6 DEF ListsAsObjects

\* Every list command leaves the value and gives the answer that Objects says, in
\* every shape the nodes can have.
THEOREM ListsRefine == Spec => []ListsAsObjects
  BY Inductive, ListsAgree, PTL

-----------------------------------------------------------------------------
(* Hashes as Objects has them *)

\* m is the map of a set H of entries.
MapOf(m, H, K, V) ==
    /\ m \in [K -> V \cup {None}]
    /\ \A e \in H : e \in Pairs(K, V) /\ m[e.key] = e.val
    /\ \A f \in K : m[f] = None \/ [key |-> f, val |-> m[f]] \in H

\* The map of a hash is that of the entries it holds.
LEMMA DictMap ==
    ASSUME NEW K, NEW V, NEW d, IsDict(d, K, V)
    PROVE  MapOf(Map(d, K), Held(d.buckets), K, V)
  <1>1. IsDict(d, K, V)
    OBVIOUS
  <1>2. PICK H : H = Held(d.buckets)
    OBVIOUS
  <1>3. Table(d.buckets, Len(d.buckets), K, V)
    BY <1>1 DEF IsDict
  <1>4. H \subseteq Pairs(K, V)
    BY <1>2, <1>3, EntriesAre
  <1>5. \A f \in K : \/ DictGet(d, f) = None /\ \A e \in H : e.key # f
                     \/ [key |-> f, val |-> DictGet(d, f)] \in H
    BY <1>1, <1>2, DictGetIs
  <1>6. \A e, g \in H : e.key = g.key => e = g
    BY <1>2, <1>3, KeysDiffer
  <1>7. \A f \in K : DictGet(d, f) \in V \cup {None}
    <2> SUFFICES ASSUME NEW f \in K, DictGet(d, f) # None PROVE DictGet(d, f) \in V
      OBVIOUS
    <2>1. PICK e \in H : e = [key |-> f, val |-> DictGet(d, f)]
      BY <1>5
    <2>2. e \in Pairs(K, V) /\ e.val = DictGet(d, f)
      BY <1>4, <2>1
    <2> QED
      BY <2>2 DEF Pairs
  <1>8. \A e \in H : DictGet(d, e.key) = e.val
    <2> SUFFICES ASSUME NEW e \in H PROVE DictGet(d, e.key) = e.val
      OBVIOUS
    <2>1. e.key \in K
      BY <1>4 DEF Pairs
    <2>2. PICK g \in H : g = [key |-> e.key, val |-> DictGet(d, e.key)]
      BY <1>5, <2>1
    <2>3. g.key = e.key /\ g.val = DictGet(d, e.key)
      BY <2>2
    <2> QED
      BY <1>6, <2>3
  <1>9. PICK m : m = Map(d, K)
    OBVIOUS
  <1>10. m = [k \in K |-> DictGet(d, k)]
    BY <1>9 DEF Map
  <1>11. m \in [K -> V \cup {None}]
    BY <1>7, <1>10
  <1>12. \A e \in H : e.key \in K
    BY <1>4 DEF Pairs
  <1>13. \A e \in H : e \in Pairs(K, V) /\ m[e.key] = e.val
    BY <1>4, <1>8, <1>10, <1>12
  <1>14. \A f \in K : m[f] = None \/ [key |-> f, val |-> m[f]] \in H
    BY <1>5, <1>10
  <1> QED
    BY <1>2, <1>9, <1>11, <1>13, <1>14 DEF MapOf

\* A hash is not the null pointer.
LEMMA HashNotNone ==
    ASSUME NEW d, IsHash(d)
    PROVE  d # None /\ d.count \in Nat
  <1>1. /\ Boxed(d) /\ Table(d.buckets, Len(d.buckets), Fields, Elems)
        /\ d.count \in Nat
    BY FS_CardinalityType DEF IsHash, IsDict
  <1>2. PICK n \in Nat : d.buckets \in [1 .. n -> Seq(Pairs(Fields, Elems))]
    BY <1>1 DEF Table
  <1>3. d.buckets \in Seq(Seq([key : Fields, val : Elems]))
    BY <1>2, SeqOfFun DEF Pairs
  <1>4. d \in [buckets : Seq(Seq([key : Fields, val : Elems])), count : Nat]
    BY <1>1, <1>3 DEF Boxed
  <1> QED
    BY <1>1, <1>4, NoneIsNoData

\* f has the value v in n, and every other field the one it has in m.
Bound(m, f, v, n, K) == n = [g \in K |-> IF g = f THEN v ELSE m[g]]

\* Entries of the same other keys give the same values to the other fields.
LEMMA Elsewhere ==
    ASSUME NEW K, NEW V, NEW m, NEW H, MapOf(m, H, K, V), NEW n, NEW J, MapOf(n, J, K, V),
           NEW f \in K, But(J, f) = But(H, f), NEW g \in K, g # f
    PROVE  n[g] = m[g]
  <1>1. CASE m[g] = None
    <2>1. ASSUME n[g] # None PROVE FALSE
      <3>1. PICK x \in J : x = [key |-> g, val |-> n[g]]
        BY <2>1 DEF MapOf
      <3>2. x.key = g
        BY <3>1
      <3>3. x \in H
        BY <3>2 DEF But
      <3>4. m[g] = x.val
        BY <3>2, <3>3 DEF MapOf
      <3> QED
        BY <1>1, <2>1, <3>1, <3>4
    <2> QED
      BY <1>1, <2>1
  <1>2. CASE m[g] # None
    <2>1. PICK x \in H : x = [key |-> g, val |-> m[g]]
      BY <1>2 DEF MapOf
    <2>2. x.key = g /\ x.val = m[g]
      BY <2>1
    <2>3. x \in J
      BY <2>2 DEF But
    <2> QED
      BY <2>2, <2>3 DEF MapOf
  <1> QED
    BY <1>1, <1>2

\* What htable_set does to the map.
LEMMA SetBinds ==
    ASSUME NEW K, NEW V, NEW d, IsDict(d, K, V), NEW f \in K, NEW v \in V
    PROVE  /\ IsDict(DictSet(d, f, v), K, V)
           /\ Bound(Map(d, K), f, v, Map(DictSet(d, f, v), K), K)
  <1>1. PICK c : c = DictSet(d, f, v)
    OBVIOUS
  <1>2. PICK H : H = Held(d.buckets)
    OBVIOUS
  <1>3. PICK J : J = Held(c.buckets)
    OBVIOUS
  <1>4. PICK e : e = [key |-> f, val |-> v]
    OBVIOUS
  <1>5. IsDict(c, K, V) /\ J = But(H, f) \cup {e}
    BY <1>1, <1>2, <1>3, <1>4, DictSetIs
  <1>6. PICK m : m = Map(d, K)
    OBVIOUS
  <1>7. PICK n : n = Map(c, K)
    OBVIOUS
  <1>8. MapOf(m, H, K, V) /\ MapOf(n, J, K, V)
    BY <1>2, <1>3, <1>5, <1>6, <1>7, DictMap
  <1>9. n[f] = v
    <2>1. e \in J /\ e.key = f /\ e.val = v
      BY <1>4, <1>5
    <2> QED
      BY <1>8, <2>1 DEF MapOf
  <1>10. ASSUME NEW g \in K, g # f PROVE n[g] = m[g]
    <2>1. But(J, f) = But(H, f)
      BY <1>4, <1>5 DEF But
    <2> QED
      BY <1>8, <1>10, <2>1, Elsewhere
  <1>11. n = [g \in K |-> IF g = f THEN v ELSE m[g]]
    <2>1. DOMAIN n = K /\ n = [g \in K |-> n[g]]
      BY <1>8 DEF MapOf
    <2> QED
      BY <1>9, <1>10, <2>1
  <1> QED
    BY <1>1, <1>5, <1>6, <1>7, <1>11 DEF Bound

\* What htable_del does to it.
LEMMA DelBinds ==
    ASSUME NEW K, NEW V, NEW d, IsDict(d, K, V), NEW f \in K
    PROVE  /\ IsDict(DictDel(d, f), K, V)
           /\ Bound(Map(d, K), f, None, Map(DictDel(d, f), K), K)
  <1>1. PICK c : c = DictDel(d, f)
    OBVIOUS
  <1>2. PICK H : H = Held(d.buckets)
    OBVIOUS
  <1>3. PICK J : J = Held(c.buckets)
    OBVIOUS
  <1>5. IsDict(c, K, V) /\ J = But(H, f)
    BY <1>1, <1>2, <1>3, DictDelIs
  <1>6. PICK m : m = Map(d, K)
    OBVIOUS
  <1>7. PICK n : n = Map(c, K)
    OBVIOUS
  <1>8. MapOf(m, H, K, V) /\ MapOf(n, J, K, V)
    BY <1>2, <1>3, <1>5, <1>6, <1>7, DictMap
  <1>9. n[f] = None
    <2> SUFFICES ASSUME n[f] # None PROVE FALSE
      OBVIOUS
    <2>1. PICK x \in J : x = [key |-> f, val |-> n[f]]
      BY <1>8 DEF MapOf
    <2>2. x.key = f
      BY <2>1
    <2> QED
      BY <1>5, <2>1, <2>2 DEF But
  <1>10. ASSUME NEW g \in K, g # f PROVE n[g] = m[g]
    <2>1. But(J, f) = But(H, f)
      BY <1>5 DEF But
    <2> QED
      BY <1>8, <1>10, <2>1, Elsewhere
  <1>11. n = [g \in K |-> IF g = f THEN None ELSE m[g]]
    <2>1. DOMAIN n = K /\ n = [g \in K |-> n[g]]
      BY <1>8 DEF MapOf
    <2> QED
      BY <1>9, <1>10, <2>1
  <1> QED
    BY <1>1, <1>5, <1>6, <1>7, <1>11 DEF Bound

\* The map of a new hash.
LEMMA EmptyMap ==
    ASSUME NEW K \in SUBSET DOMAIN HashOf
    PROVE  Map(NewDict, K) = [f \in K |-> None]
  <1>1. PICK V : V = {}
    OBVIOUS
  <1>2. IsDict(NewDict, K, V) /\ Held(NewDict.buckets) = {}
    BY NewDictIs
  <1>3. PICK m : m = Map(NewDict, K)
    OBVIOUS
  <1>4. MapOf(m, {}, K, V)
    BY <1>2, <1>3, DictMap
  <1>5. \A f \in K : m[f] = None
    BY <1>4 DEF MapOf
  <1>6. m = [f \in K |-> m[f]]
    BY <1>4 DEF MapOf
  <1> QED
    BY <1>3, <1>5, <1>6

\* A hash counts the fields that are there.
LEMMA PresentIs ==
    ASSUME NEW K, NEW V, None \notin V, NEW d, IsDict(d, K, V)
    PROVE  /\ IsFiniteSet(O!Present(Map(d, K)))
           /\ Cardinality(O!Present(Map(d, K))) = d.count
           /\ O!Present(Map(d, K)) = {e.key : e \in Held(d.buckets)}
  <1>1. PICK H : H = Held(d.buckets)
    OBVIOUS
  <1>2. PICK m : m = Map(d, K)
    OBVIOUS
  <1>3. MapOf(m, H, K, V)
    BY <1>1, <1>2, DictMap
  <1>4. PICK P : P = {f \in K : m[f] # None}
    OBVIOUS
  <1>5. O!Present(m) = P
    BY <1>3, <1>4 DEF O!Present, MapOf
  <1>6. IsFiniteSet(H) /\ Cardinality(H) = d.count
    BY <1>1 DEF IsDict
  <1>7. \A e \in H : e.key \in P /\ m[e.key] = e.val /\ e = [key |-> e.key, val |-> m[e.key]]
    <2> SUFFICES ASSUME NEW e \in H
                 PROVE  e.key \in P /\ m[e.key] = e.val /\ e = [key |-> e.key, val |-> m[e.key]]
      OBVIOUS
    <2>1. e \in [key : K, val : V] /\ m[e.key] = e.val
      BY <1>3 DEF MapOf, Pairs
    <2>2. e.key \in K /\ e.val \in V /\ e = [key |-> e.key, val |-> e.val]
      BY <2>1
    <2>3. e.val # None
      BY <2>2
    <2> QED
      BY <1>4, <2>1, <2>2, <2>3
  <1>8. \A f \in P : \E e \in H : e.key = f
    <2> SUFFICES ASSUME NEW f \in P PROVE \E e \in H : e.key = f
      OBVIOUS
    <2>1. [key |-> f, val |-> m[f]] \in H
      BY <1>3, <1>4 DEF MapOf
    <2> QED
      BY <2>1
  <1>9. P = {e.key : e \in H}
    BY <1>7, <1>8
  <1>10. PICK b : b = [e \in H |-> e.key]
    OBVIOUS
  <1>11. b \in Bijection(H, P)
    <2>1. b \in [H -> P]
      BY <1>7, <1>10
    <2>2. \A e, g \in H : b[e] = b[g] => e = g
      BY <1>7, <1>10
    <2>3. \A f \in P : \E e \in H : b[e] = f
      BY <1>8, <1>10
    <2> QED
      BY <2>1, <2>2, <2>3 DEF Bijection, Injection, Surjection, IsInjective
  <1>12. IsFiniteSet(P) /\ Cardinality(P) = d.count
    BY <1>6, <1>11, FS_Bijection DEF ExistsBijection
  <1> QED
    BY <1>1, <1>2, <1>5, <1>9, <1>12

\* Objects counts in the same way.
LEMMA SameCardinality == \A S : O!Cardinality(S) = Cardinality(S)
  BY DEF O!Cardinality, Cardinality

\* A hash object of Objects.
LEMMA HashObj ==
    ASSUME NEW m \in [Fields -> Elems \cup {None}], NEW o, o = O!NewObj("hash", m)
    PROVE  /\ o # None /\ o.type = "hash" /\ o.val = m
           /\ \A t : [o EXCEPT !.val = t] = O!NewObj("hash", t)
  <1>1. o = [type |-> "hash", val |-> m, exp |-> 0]
    BY DEF O!NewObj
  <1>2. o \in O!Objs
    BY <1>1 DEF O!Objs, O!Hashes
  <1>3. o # None
    BY <1>2, NoneIsNoData
  <1> QED
    BY <1>1, <1>3 DEF O!NewObj

\* What the properties take a hash for.
LEMMA AbsHash ==
    ASSUME type = "hash", NEW d, IsHash(d)
    PROVE  /\ d # None /\ Abs(d) = O!NewObj("hash", Map(d, Fields))
           /\ Map(d, Fields) \in [Fields -> Elems \cup {None}]
  <1>1. d # None
    BY HashNotNone
  <1>2. Map(d, Fields) \in [Fields -> Elems \cup {None}]
    BY DictMap DEF MapOf, IsHash
  <1> QED
    BY <1>1, <1>2 DEF Abs

\* One pair of HSET: the reply counts a field that is new.
LEMMA PairCounts ==
    ASSUME NEW r, IsHash(r.val), NEW n \in Nat, r.reply = Integer(n),
           NEW p \in Fields \X Elems, NEW c, c = OnePair(r, p)
    PROVE  /\ IsHash(c.val)
           /\ Bound(Map(r.val, Fields), p[1], p[2], Map(c.val, Fields), Fields)
           /\ c.reply = Integer(n + (IF Map(r.val, Fields)[p[1]] = None THEN 1 ELSE 0))
  <1>1. PICK f \in Fields, v \in Elems : f = p[1] /\ v = p[2]
    OBVIOUS
  <1>2. PICK d : d = r.val
    OBVIOUS
  <1>3. c = Result(DictSet(d, f, v), Integer(n + (IF DictGet(d, f) = None THEN 1 ELSE 0)))
    BY <1>1, <1>2 DEF OnePair, Integer, Reply
  <1>4. c.val = DictSet(d, f, v)
    BY <1>3 DEF Result
  <1>5. IsHash(c.val) /\ Bound(Map(d, Fields), f, v, Map(c.val, Fields), Fields)
    BY <1>2, <1>4, SetBinds DEF IsHash
  <1>6. Map(d, Fields)[f] = DictGet(d, f)
    BY DEF Map
  <1> QED
    BY <1>1, <1>2, <1>3, <1>5, <1>6 DEF Result

\* One field of HDEL: the reply counts a field that was there.
LEMMA FieldCounts ==
    ASSUME NEW r, IsHash(r.val), NEW n \in Nat, r.reply = Integer(n),
           NEW f \in Fields, NEW c, c = OneField(r, f)
    PROVE  /\ IsHash(c.val)
           /\ Bound(Map(r.val, Fields), f, None, Map(c.val, Fields), Fields)
           /\ c.reply = Integer(n + (IF Map(r.val, Fields)[f] = None THEN 0 ELSE 1))
  <1>1. PICK d : d = r.val
    OBVIOUS
  <1>2. c = Result(DictDel(d, f), Integer(n + (IF DictGet(d, f) = None THEN 0 ELSE 1)))
    BY <1>1 DEF OneField, Integer, Reply
  <1>3. c.val = DictDel(d, f)
    BY <1>2 DEF Result
  <1>4. IsHash(c.val) /\ Bound(Map(d, Fields), f, None, Map(c.val, Fields), Fields)
    BY <1>1, <1>3, DelBinds DEF IsHash
  <1>5. Map(d, Fields)[f] = DictGet(d, f)
    BY DEF Map
  <1> QED
    BY <1>1, <1>2, <1>4, <1>5 DEF Result

\* n is m with the fields of pm; k of them are new.
Joined(m, pm, n, k, K) ==
    /\ n = [f \in K |-> IF pm[f] # None THEN pm[f] ELSE m[f]]
    /\ k = Cardinality(O!Present(pm) \ O!Present(m))

\* The map of one pair.
LEMMA OneMap ==
    ASSUME NEW K, NEW V, None \notin V, NEW f \in K, NEW v \in V,
           NEW pm, pm = AsMap(<<<<f, v>>>>, K)
    PROVE  /\ O!Present(pm) = {f} /\ Cardinality(O!Present(pm)) = 1
           /\ \A g \in K : pm[g] = IF g = f THEN v ELSE None
  <1>1. \A g \in K : pm[g] = IF g = f THEN v ELSE None
    <2> SUFFICES ASSUME NEW g \in K PROVE pm[g] = IF g = f THEN v ELSE None
      OBVIOUS
    <2>1. PICK s : s = <<<<f, v>>>>
      OBVIOUS
    <2>2. DOMAIN s = {1} /\ s[1][1] = f /\ s[1][2] = v
      BY <2>1
    <2>3. PICK at : at = {i \in DOMAIN s : s[i][1] = g}
      OBVIOUS
    <2>4. pm[g] = IF at = {} THEN None ELSE s[Max(at)][2]
      BY <2>1, <2>3 DEF AsMap
    <2>5. CASE g = f
      <3>1. at = {1}
        BY <2>2, <2>3, <2>5
      <3>2. Max({1}) = 1
        BY MaxIs
      <3> QED
        BY <2>2, <2>4, <2>5, <3>1, <3>2
    <2>6. CASE g # f
      <3>1. at = {}
        BY <2>2, <2>3, <2>6
      <3> QED
        BY <2>4, <2>6, <3>1
    <2> QED
      BY <2>5, <2>6
  <1>2. DOMAIN pm = K
    BY DEF AsMap
  <1>3. O!Present(pm) = {f}
    BY <1>1, <1>2 DEF O!Present
  <1> QED
    BY <1>1, <1>3, FS_Singleton

\* One pair.
LEMMA Joined1 ==
    ASSUME NEW K, NEW V, None \notin V, NEW m \in [K -> V \cup {None}], NEW p \in K \X V,
           NEW n, Bound(m, p[1], p[2], n, K), NEW pm, pm = AsMap(<<p>>, K)
    PROVE  Joined(m, pm, n, 0 + (IF m[p[1]] = None THEN 1 ELSE 0), K)
  <1>1. PICK f \in K, v \in V : f = p[1] /\ v = p[2]
    OBVIOUS
  <1>2. v # None
    OBVIOUS
  <1>3. p = <<f, v>>
    BY <1>1
  <1>4. O!Present(pm) = {f} /\ \A g \in K : pm[g] = IF g = f THEN v ELSE None
    BY <1>3, OneMap
  <1>5. n = [g \in K |-> IF pm[g] # None THEN pm[g] ELSE m[g]]
    BY <1>1, <1>2, <1>4 DEF Bound
  <1>6. CASE m[f] = None
    <2>1. {f} \ O!Present(m) = {f}
      BY <1>6 DEF O!Present
    <2>2. Cardinality({f}) = 1
      BY FS_Singleton
    <2> QED
      BY <1>1, <1>4, <1>5, <1>6, <2>1, <2>2 DEF Joined
  <1>7. CASE m[f] # None
    <2>1. {f} \ O!Present(m) = {}
      BY <1>7 DEF O!Present
    <2>2. Cardinality({}) = 0
      BY FS_EmptySet
    <2> QED
      BY <1>1, <1>4, <1>5, <1>7, <2>1, <2>2 DEF Joined
  <1> QED
    BY <1>6, <1>7

\* How many of two things are in S, one after the other.
LEMMA CountTwo ==
    ASSUME NEW S, NEW a, NEW b, NEW T, T = {a, b} \cap S
    PROVE  Cardinality(T) = (IF a \in S THEN 1 ELSE 0) + (IF b \in S \ {a} THEN 1 ELSE 0)
  <1>1. PICK U : U = {a} \cap S
    OBVIOUS
  <1>2. IsFiniteSet(U) /\ Cardinality(U) = IF a \in S THEN 1 ELSE 0
    <2>1. CASE a \in S
      <3>1. U = {a}
        BY <1>1, <2>1
      <3> QED
        BY <2>1, <3>1, FS_Singleton
    <2>2. CASE a \notin S
      <3>1. U = {}
        BY <1>1, <2>2
      <3> QED
        BY <2>2, <3>1, FS_EmptySet
    <2> QED
      BY <2>1, <2>2
  <1>3. CASE b \in S \ {a}
    <2>1. T = U \cup {b} /\ b \notin U
      BY <1>1, <1>3
    <2>2. Cardinality(T) = Cardinality(U) + 1
      BY <1>2, <2>1, FS_AddElement
    <2> QED
      BY <1>2, <1>3, <2>2
  <1>4. CASE b \notin S \ {a}
    <2>1. T = U
      BY <1>1, <1>4
    <2> QED
      BY <1>2, <1>4, <2>1
  <1> QED
    BY <1>3, <1>4

\* The last value of a field counts.
LEMMA LastPair ==
    ASSUME NEW K, NEW V, NEW p \in K \X V, NEW q \in K \X V,
           NEW pm, pm = AsMap(<<p, q>>, K), NEW g \in K
    PROVE  pm[g] = IF g = q[1] THEN q[2] ELSE IF g = p[1] THEN p[2] ELSE None
  <1>1. PICK s : s = <<p, q>>
    OBVIOUS
  <1>2. DOMAIN s = {1, 2} /\ s[1] = p /\ s[2] = q
    BY <1>1
  <1>3. PICK at : at = {i \in {1, 2} : s[i][1] = g}
    OBVIOUS
  <1>4. pm[g] = IF at = {} THEN None ELSE s[Max(at)][2]
    BY <1>1, <1>2, <1>3 DEF AsMap
  <1>5. CASE g = q[1]
    <2>1. 2 \in at /\ at \subseteq {1, 2}
      BY <1>2, <1>3, <1>5
    <2>2. Max(at) = 2
      <3>1. at \in SUBSET Int /\ \A x \in at : x <= 2
        BY <2>1
      <3> QED
        BY <2>1, <3>1, MaxIs
    <2> QED
      BY <1>2, <1>4, <1>5, <2>1, <2>2
  <1>6. CASE g # q[1] /\ g = p[1]
    <2>1. at = {1}
      BY <1>2, <1>3, <1>6
    <2>2. Max({1}) = 1
      BY MaxIs
    <2> QED
      BY <1>2, <1>4, <1>6, <2>1, <2>2
  <1>7. CASE g # q[1] /\ g # p[1]
    <2>1. at = {}
      BY <1>2, <1>3, <1>7
    <2> QED
      BY <1>4, <1>7, <2>1
  <1> QED
    BY <1>5, <1>6, <1>7

\* Two pairs, of one field or of two.
LEMMA Joined2 ==
    ASSUME NEW K, NEW V, None \notin V, NEW m \in [K -> V \cup {None}],
           NEW p \in K \X V, NEW q \in K \X V,
           NEW l, Bound(m, p[1], p[2], l, K), NEW n, Bound(l, q[1], q[2], n, K),
           NEW pm, pm = AsMap(<<p, q>>, K)
    PROVE  Joined(m, pm, n, (0 + (IF m[p[1]] = None THEN 1 ELSE 0))
                            + (IF l[q[1]] = None THEN 1 ELSE 0), K)
  <1>1. PICK f \in K, v \in V : f = p[1] /\ v = p[2]
    OBVIOUS
  <1>2. PICK g \in K, w \in V : g = q[1] /\ w = q[2]
    OBVIOUS
  <1>3. v # None /\ w # None
    OBVIOUS
  <1>4. \A x \in K : pm[x] = IF x = g THEN w ELSE IF x = f THEN v ELSE None
    BY <1>1, <1>2, LastPair
  <1>5. DOMAIN pm = K /\ DOMAIN m = K
    BY DEF AsMap
  <1>6. O!Present(pm) = {f, g}
    BY <1>3, <1>4, <1>5 DEF O!Present
  <1>7. \A x \in K : l[x] = IF x = f THEN v ELSE m[x]
    BY <1>1 DEF Bound
  <1>8. n = [x \in K |-> IF pm[x] # None THEN pm[x] ELSE m[x]]
    <2>1. n = [x \in K |-> IF x = g THEN w ELSE l[x]]
      BY <1>2 DEF Bound
    <2>2. \A x \in K : n[x] = IF pm[x] # None THEN pm[x] ELSE m[x]
      BY <1>3, <1>4, <1>7, <2>1
    <2> QED
      BY <2>1, <2>2
  <1>9. PICK S : S = {x \in K : m[x] = None}
    OBVIOUS
  <1>10. PICK T : T = {f, g} \cap S
    OBVIOUS
  <1>11. O!Present(pm) \ O!Present(m) = T
    BY <1>5, <1>6, <1>9, <1>10 DEF O!Present
  <1>12. Cardinality(T) = (IF f \in S THEN 1 ELSE 0) + (IF g \in S \ {f} THEN 1 ELSE 0)
    BY <1>10, CountTwo
  <1>13. (f \in S <=> m[f] = None) /\ (g \in S \ {f} <=> l[g] = None)
    BY <1>3, <1>7, <1>9
  <1>14. Cardinality(T) = (0 + (IF m[f] = None THEN 1
ELSE 0)) + (IF l[g] = None THEN 1 ELSE 0)
    BY <1>12, <1>13
  <1> QED
    BY <1>1, <1>2, <1>8, <1>11, <1>14 DEF Joined

\* n is m without the fields fs; k of them were there.
Cleared(m, fs, n, k, K) ==
    /\ n = [f \in K |-> IF f \in fs THEN None ELSE m[f]]
    /\ k = Cardinality(fs \cap O!Present(m))

\* One field.
LEMMA Cleared1 ==
    ASSUME NEW K, NEW V, NEW m \in [K -> V \cup {None}], NEW f \in K,
           NEW n, Bound(m, f, None, n, K)
    PROVE  Cleared(m, {f}, n, 0 + (IF m[f] = None THEN 0 ELSE 1), K)
  <1>1. n = [g \in K |-> IF g \in {f} THEN None ELSE m[g]]
    BY DEF Bound
  <1>2. CASE m[f] = None
    <2>1. {f} \cap O!Present(m) = {}
      BY <1>2 DEF O!Present
    <2> QED
      BY <1>1, <1>2, <2>1, FS_EmptySet DEF Cleared
  <1>3. CASE m[f] # None
    <2>1. {f} \cap O!Present(m) = {f}
      BY <1>3 DEF O!Present
    <2>2. Cardinality({f}) = 1
      BY FS_Singleton
    <2> QED
      BY <1>1, <1>3, <2>1, <2>2 DEF Cleared
  <1> QED
    BY <1>2, <1>3

\* Two fields, or one twice.
LEMMA Cleared2 ==
    ASSUME NEW K, NEW V, NEW m \in [K -> V \cup {None}], NEW f \in K, NEW g \in K,
           NEW l, Bound(m, f, None, l, K), NEW n, Bound(l, g, None, n, K)
    PROVE  Cleared(m, {f, g}, n, (0 + (IF m[f] = None THEN 0 ELSE 1))
                                 + (IF l[g] = None THEN 0 ELSE 1), K)
  <1>1. \A x \in K : l[x] = IF x = f THEN None ELSE m[x]
    BY DEF Bound
  <1>2. n = [x \in K |-> IF x \in {f, g} THEN None ELSE m[x]]
    <2>1. n = [x \in K |-> IF x = g THEN None ELSE l[x]]
      BY DEF Bound
    <2>2. \A x \in K : n[x] = IF x \in {f, g} THEN None ELSE m[x]
      BY <1>1, <2>1
    <2> QED
      BY <2>1, <2>2
  <1>3. PICK S : S = O!Present(m)
    OBVIOUS
  <1>4. S = {x \in K : m[x] # None}
    BY <1>3 DEF O!Present
  <1>5. PICK T : T = {f, g} \cap S
    OBVIOUS
  <1>6. Cardinality(T) = (IF f \in S THEN 1 ELSE 0) + (IF g \in S \ {f} THEN 1 ELSE 0)
    BY <1>5, CountTwo
  <1>7. (f \in S <=> m[f] # None) /\ (g \in S \ {f} <=> l[g] # None)
    BY <1>1, <1>4
  <1>8. Cardinality(T) = (0 + (IF m[f] = None THEN 0 ELSE 1)) + (IF l[g] = None THEN 0 ELSE 1)
    BY <1>6, <1>7
  <1> QED
    BY <1>2, <1>3, <1>5, <1>8 DEF Cleared

\* What the properties take the key for.
LEMMA HashHere ==
    ASSUME HashInv, type = "hash"
    PROVE  /\ val = None => Here = None
           /\ val # None => /\ IsHash(val) /\ Here # None
                            /\ Here = O!NewObj("hash", Map(val, Fields))
                            /\ Map(val, Fields) \in [Fields -> Elems \cup {None}]
  <1>1. val = None => Here = None
    BY DEF Here, Abs
  <1>2. ASSUME val # None
        PROVE  /\ IsHash(val) /\ Here # None
               /\ Here = O!NewObj("hash", Map(val, Fields))
               /\ Map(val, Fields) \in [Fields -> Elems \cup {None}]
    <2>1. IsHash(val)
      BY <1>2 DEF HashInv
    <2>2. /\ Here = O!NewObj("hash", Map(val, Fields))
          /\ Map(val, Fields) \in [Fields -> Elems \cup {None}]
      BY <2>1, AbsHash DEF Here
    <2>3. Here # None
      BY <2>2, HashObj
    <2> QED
      BY <2>1, <2>2, <2>3
  <1> QED
    BY <1>1, <1>2

\* HSET.
LEMMA HSetAgrees ==
    ASSUME HashInv, type = "hash", NEW pairs \in Upto2(Fields \X Elems)
    PROVE  Is(HSet(pairs), O!HSetTo(Here, AsMap(pairs, Fields)))
  <1>1. PICK d : d = Existing(NewDict)
    OBVIOUS
  <1>2. PICK m : m = Map(d, Fields)
    OBVIOUS
  <1>3. IsHash(d) /\ m \in [Fields -> Elems \cup {None}]
    <2>1. IsHash(d)
      BY <1>1, NewHash DEF HashInv, Existing
    <2> QED
      BY <1>2, <2>1, DictMap DEF MapOf, IsHash
  <1>4. PICK h : h = O!GetOrCreate(Here, O!EmptyHash)
    OBVIOUS
  <1>5. h = O!NewObj("hash", m)
    <2>1. CASE val = None
      <3>1. m = [f \in Fields |-> None]
        BY <1>1, <1>2, <2>1, EmptyMap, Hashed DEF Existing, HashKeys
      <3>2. Here = None
        BY <2>1, HashHere
      <3> QED
        BY <1>4, <3>1, <3>2 DEF O!GetOrCreate, O!EmptyHash
    <2>2. CASE val # None
      BY <1>1, <1>2, <1>4, <2>2, HashHere DEF O!GetOrCreate, Existing
    <2> QED
      BY <2>1, <2>2
  <1>6. /\ h # None /\ h.type = "hash" /\ h.val = m
        /\ \A t : [h EXCEPT !.val = t] = O!NewObj("hash", t)
    BY <1>3, <1>5, HashObj
  <1>7. PICK r : r = Result(d, Integer(0))
    OBVIOUS
  <1>8. r.val = d /\ r.reply = Integer(0) /\ 0 \in Nat
    BY <1>7 DEF Result
  <1>9. PICK c : c = SetAll(r, pairs)
    OBVIOUS
  <1>10. HSet(pairs) = c
    BY <1>1, <1>7, <1>9 DEF HSet, SetAll
  <1>11. PICK pm : pm = AsMap(pairs, Fields)
    OBVIOUS
  <1>12. PICK n : n = Map(c.val, Fields)
    OBVIOUS
  <1>13. \E k : IsHash(c.val) /\ c = Result(c.val, Integer(k)) /\ Joined(m, pm, n, k, Fields)
    <2>1. CASE \E x \in Fields \X Elems : pairs = <<x>>
      <3>1. PICK x \in Fields \X Elems : pairs = <<x>>
        BY <2>1
      <3>2. c = OnePair(r, x)
        BY <1>9, <3>1, FoldSet1
      <3>3. PICK k : k = 0 + (IF m[x[1]] = None THEN 1 ELSE 0)
        OBVIOUS
      <3>4. IsHash(c.val) /\ Bound(m, x[1], x[2], n, Fields) /\ c.reply = Integer(k)
        BY <1>2, <1>3, <1>8, <1>12, <3>2, <3>3, PairCounts
      <3>5. Joined(m, pm, n, k, Fields)
        BY <1>3, <1>11, <3>1, <3>3, <3>4, NoneIsNoData, Joined1
      <3>6. c = Result(c.val, c.reply)
        BY <3>2 DEF OnePair, Result
      <3> QED
        BY <3>4, <3>5, <3>6
    <2>2. CASE \E x, y \in Fields \X Elems : pairs = <<x, y>>
      <3>1. PICK x \in Fields \X Elems, y \in Fields \X Elems : pairs = <<x, y>>
        BY <2>2
      <3>2. PICK b : b = OnePair(r, x)
        OBVIOUS
      <3>3. c = OnePair(b, y)
        BY <1>9, <3>1, <3>2, FoldSet2
      <3>4. PICK j \in Nat : j = 0 + (IF m[x[1]] = None THEN 1 ELSE 0)
        OBVIOUS
      <3>5. PICK l : l = Map(b.val, Fields)
        OBVIOUS
      <3>6. IsHash(b.val) /\ Bound(m, x[1], x[2], l, Fields) /\ b.reply = Integer(j)
        BY <1>2, <1>3, <1>8, <3>2, <3>4, <3>5, PairCounts
      <3>7. PICK k : k = j + (IF l[y[1]] = None THEN 1 ELSE 0)
        OBVIOUS
      <3>8. IsHash(c.val) /\ Bound(l, y[1], y[2], n, Fields) /\ c.reply = Integer(k)
        BY <1>12, <3>3, <3>5, <3>6, <3>7, PairCounts
      <3>9. Joined(m, pm, n, k, Fields)
        BY <1>3, <1>11, <3>1, <3>4, <3>6, <3>7, <3>8, NoneIsNoData, Joined2
      <3>10. c = Result(c.val, c.reply)
        BY <3>3 DEF OnePair, Result
      <3> QED
        BY <3>8, <3>9, <3>10
    <2> QED
      <3>1. \/ pairs \in {<<x>> : x \in Fields \X Elems}
            \/ pairs \in (Fields \X Elems) \X (Fields \X Elems)
        BY DEF Upto2
      <3>2. ASSUME pairs \in (Fields \X Elems) \X (Fields \X Elems)
            PROVE  \E x, y \in Fields \X Elems : pairs = <<x, y>>
        BY <3>2
      <3> QED
        BY <2>1, <2>2, <3>1, <3>2
  <1>14. PICK k : IsHash(c.val) /\ c = Result(c.val, Integer(k)) /\ Joined(m, pm, n, k, Fields)
    BY <1>13
  <1>15. Abs(c.val) = O!NewObj("hash", n)
    BY <1>12, <1>14, AbsHash
  <1>16. [h EXCEPT !.val = [f \in Fields |-> IF pm[f] # None THEN pm[f] ELSE h.val[f]]] =
             O!NewObj("hash", n)
    BY <1>6, <1>14 DEF Joined
  <1>17. O!HSetTo(Here, pm) = O!Result(O!NewObj("hash", n), Integer(k))
    <2>1. PICK w : w = [h EXCEPT !.val = [f \in Fields |-> IF pm[f] # None THEN pm[f]
                                                           ELSE h.val[f]]]
      OBVIOUS
    <2>2. O!HSetTo(Here, pm) =
              O!Strict(h, "hash", O!Result(h, O!NullBulk),
                  O!Result(w, O!Integer(Cardinality(O!Present(pm) \ O!Present(h.val)))))
      BY <1>4, <2>1, SameCardinality DEF O!HSetTo
    <2>3. Cardinality(O!Present(pm) \ O!Present(h.val)) = k
      BY <1>6, <1>14 DEF Joined
    <2>4. O!HSetTo(Here, pm) = O!Result(w, O!Integer(k))
      BY <1>6, <2>2, <2>3 DEF O!Strict
    <2> QED
      BY <1>16, <2>1, <2>4 DEF O!Integer, Integer, O!Reply, Reply
  <1> QED
    BY <1>10, <1>11, <1>14, <1>15, <1>17 DEF Is, Result

\* HDEL.
LEMMA HDelAgrees ==
    ASSUME HashInv, type = "hash", NEW fs \in Upto2(Fields)
    PROVE  Is(HDel(fs), O!HDelOf(Here, Range(fs)))
  <1>1. CASE val = None
    <2>1. Here = None
      BY <1>1, HashHere
    <2>2. HDel(fs) = Result(None, Integer(0))
      BY <1>1 DEF HDel
    <2>3. O!HDelOf(Here, Range(fs)) = O!Result(None, Integer(0))
      BY <2>1 DEF O!HDelOf, O!Lenient, O!Integer, Integer, O!Reply, Reply
    <2>4. Abs(None) = None
      BY DEF Abs
    <2> QED
      BY <2>2, <2>3, <2>4 DEF Is, Result
  <1>2. CASE val # None
    <2>1. PICK m : m = Map(val, Fields)
      OBVIOUS
    <2>2. PICK h : h = Here
      OBVIOUS
    <2>3. IsHash(val) /\ m \in [Fields -> Elems \cup {None}] /\ h = O!NewObj("hash", m)
      BY <1>2, <2>1, <2>2, HashHere
    <2>4. /\ h # None /\ h.type = "hash" /\ h.val = m
          /\ \A t : [h EXCEPT !.val = t] = O!NewObj("hash", t)
      BY <2>3, HashObj
    <2>5. PICK r : r = Result(val, Integer(0))
      OBVIOUS
    <2>6. r.val = val /\ r.reply = Integer(0) /\ 0 \in Nat
      BY <2>5 DEF Result
    <2>7. PICK c : c = DelAll(r, fs)
      OBVIOUS
    <2>8. HDel(fs) = c
      BY <1>2, <2>5, <2>7 DEF HDel, DelAll
    <2>9. PICK n : n = Map(c.val, Fields)
      OBVIOUS
    <2>10. PICK F : F = Range(fs)
      OBVIOUS
    <2>11. \E k : IsHash(c.val) /\ c = Result(c.val, Integer(k)) /\ Cleared(m, F, n, k, Fields)
      <3>1. CASE \E x \in Fields : fs = <<x>>
        <4>1. PICK x \in Fields : fs = <<x>>
          BY <3>1
        <4>2. c = OneField(r, x)
          BY <2>7, <4>1, FoldDel1
        <4>3. PICK k : k = 0 + (IF m[x] = None THEN 0 ELSE 1)
          OBVIOUS
        <4>4. IsHash(c.val) /\ Bound(m, x, None, n, Fields) /\ c.reply = Integer(k)
          BY <2>1, <2>3, <2>6, <2>9, <4>2, <4>3, FieldCounts
        <4>5. F = {x}
          BY <2>10, <4>1 DEF Range
        <4>6. Cleared(m, F, n, k, Fields)
          BY <2>3, <4>3, <4>4, <4>5, Cleared1
        <4>7. c = Result(c.val, c.reply)
          BY <4>2 DEF OneField, Result
        <4> QED
          BY <4>4, <4>6, <4>7
      <3>2. CASE \E x, y \in Fields : fs = <<x, y>>
        <4>1. PICK x \in Fields, y \in Fields : fs = <<x, y>>
          BY <3>2
        <4>2. PICK b : b = OneField(r, x)
          OBVIOUS
        <4>3. c = OneField(b, y)
          BY <2>7, <4>1, <4>2, FoldDel2
        <4>4. PICK j \in Nat : j = 0 + (IF m[x] = None THEN 0 ELSE 1)
          OBVIOUS
        <4>5. PICK l : l = Map(b.val, Fields)
          OBVIOUS
        <4>6. IsHash(b.val) /\ Bound(m, x, None, l, Fields) /\ b.reply = Integer(j)
          BY <2>1, <2>3, <2>6, <4>2, <4>4, <4>5, FieldCounts
        <4>7. PICK k : k = j + (IF l[y] = None THEN 0 ELSE 1)
          OBVIOUS
        <4>8. IsHash(c.val) /\ Bound(l, y, None, n, Fields) /\ c.reply = Integer(k)
          BY <2>9, <4>3, <4>5, <4>6, <4>7, FieldCounts
        <4>9. F = {x, y}
          BY <2>10, <4>1 DEF Range
        <4>10. Cleared(m, F, n, k, Fields)
          BY <2>3, <4>4, <4>6, <4>7, <4>8, <4>9, Cleared2
        <4>11. c = Result(c.val, c.reply)
          BY <4>3 DEF OneField, Result
        <4> QED
          BY <4>8, <4>10, <4>11
      <3> QED
        <4>1. fs \in {<<x>> : x \in Fields} \/ fs \in Fields \X Fields
          BY DEF Upto2
        <4>2. ASSUME fs \in Fields \X Fields PROVE \E x, y \in Fields : fs = <<x, y>>
          BY <4>2
        <4> QED
          BY <3>1, <3>2, <4>1, <4>2
    <2>12. PICK k : IsHash(c.val) /\ c = Result(c.val, Integer(k)) /\ Cleared(m, F, n, k, Fields)
      BY <2>11
    <2>13. Abs(c.val) = O!NewObj("hash", n)
      BY <2>9, <2>12, AbsHash
    <2>14. PICK w : w = [h EXCEPT !.val = [f \in Fields |-> IF f \in F THEN None
                                                            ELSE h.val[f]]]
      OBVIOUS
    <2>15. w = O!NewObj("hash", n)
      BY <2>4, <2>12, <2>14 DEF Cleared
    <2>16. O!HDelOf(h, F) = O!Lenient(h, "hash", O!Result(h, O!Integer(0)),
               O!Result(w, O!Integer(Cardinality(F \cap O!Present(h.val)))))
      BY <2>14, SameCardinality DEF O!HDelOf
    <2>17. Cardinality(F \cap O!Present(h.val)) = k
      BY <2>4, <2>12 DEF Cleared
    <2>18. O!HDelOf(h, F) = O!Result(w, O!Integer(k))
      BY <2>4, <2>16, <2>17 DEF O!Lenient
    <2>19. O!HDelOf(h, F) = O!Result(O!NewObj("hash", n), Integer(k))
      BY <2>15, <2>18 DEF O!Integer, Integer, O!Reply, Reply
    <2> QED
      BY <2>2, <2>8, <2>10, <2>12, <2>13, <2>19 DEF Is, Result
  <1> QED
    BY <1>1, <1>2

\* HGET.
LEMMA HashReadsAgree ==
    ASSUME HashInv, type = "hash", NEW f \in Fields
    PROVE  Is(HGet(f), O!HGetOf(Here, f))
  <1>1. /\ O!NullBulk = NullBulk
        /\ \A e : O!Bulk(e) = Bulk(e)
    BY DEF O!Bulk, Bulk, O!Reply, Reply, O!NullBulk, NullBulk, O!Simple, Simple
  <1>2. CASE val = None
    <2>1. Here = None
      BY <1>2, HashHere
    <2>2. HGet(f) = Result(None, NullBulk)
      BY <1>2 DEF HGet
    <2>3. O!HGetOf(Here, f) = O!Result(None, NullBulk)
      BY <1>1, <2>1 DEF O!HGetOf, O!Lenient
    <2>4. Abs(None) = None
      BY DEF Abs
    <2> QED
      BY <2>2, <2>3, <2>4 DEF Is, Result
  <1>3. CASE val # None
    <2>1. PICK m : m = Map(val, Fields)
      OBVIOUS
    <2>2. PICK h : h = Here
      OBVIOUS
    <2>3. m \in [Fields -> Elems \cup {None}] /\ h = O!NewObj("hash", m)
      BY <1>3, <2>1, <2>2, HashHere
    <2>4. h # None /\ h.type = "hash" /\ h.val = m
      BY <2>3, HashObj
    <2>5. PICK v : v = DictGet(val, f)
      OBVIOUS
    <2>6. m[f] = v
      BY <2>1, <2>5 DEF Map
    <2>7. HGet(f) = Result(val, IF v = None THEN NullBulk ELSE Bulk(v))
      BY <1>3, <2>5 DEF HGet
    <2>8. O!HGetOf(h, f) = O!Result(h, IF v = None THEN NullBulk ELSE Bulk(v))
      BY <1>1, <2>4, <2>6 DEF O!HGetOf, O!Lenient
    <2> QED
      BY <2>2, <2>7, <2>8 DEF Is, Result, Here
  <1> QED
    BY <1>2, <1>3

\* HLEN.
LEMMA HLenAgrees ==
    ASSUME HashInv, type = "hash"
    PROVE  Is(HLen, O!HLenOf(Here))
  <1>1. CASE val = None
    <2>1. Here = None
      BY <1>1, HashHere
    <2>2. HLen = Result(None, Integer(0))
      BY <1>1 DEF HLen
    <2>3. O!HLenOf(Here) = O!Result(None, Integer(0))
      BY <2>1 DEF O!HLenOf, O!Lenient, O!Integer, Integer, O!Reply, Reply
    <2>4. Abs(None) = None
      BY DEF Abs
    <2> QED
      BY <2>2, <2>3, <2>4 DEF Is, Result
  <1>2. CASE val # None
    <2>1. PICK m : m = Map(val, Fields)
      OBVIOUS
    <2>2. PICK h : h = Here
      OBVIOUS
    <2>3. IsHash(val) /\ m \in [Fields -> Elems \cup {None}] /\ h = O!NewObj("hash", m)
      BY <1>2, <2>1, <2>2, HashHere
    <2>4. h # None /\ h.type = "hash" /\ h.val = m
      BY <2>3, HashObj
    <2>5. Cardinality(O!Present(m)) = val.count
      BY <2>1, <2>3, NoneIsNoData, PresentIs DEF IsHash
    <2>6. HLen = Result(val, Integer(val.count))
      BY <1>2 DEF HLen
    <2>7. O!HLenOf(h) = O!Result(h, O!Integer(Cardinality(O!Present(m))))
      BY <2>4, SameCardinality DEF O!HLenOf, O!Lenient
    <2>8. O!HLenOf(h) = O!Result(h, Integer(val.count))
      BY <2>5, <2>7 DEF O!Integer, Integer, O!Reply, Reply
    <2> QED
      BY <2>2, <2>6, <2>8 DEF Is, Result, Here
  <1> QED
    BY <1>1, <1>2

\* T is what HGETALL and HKEYS show.
Listed(T) ==
    /\ T \in SUBSET Shown
    /\ Cardinality(T) = Min({OutMax, Cardinality(Shown)})
    /\ HGetAll = Result(val, Listing(2 * Cardinality(T), {<<f, Here.val[f]>> : f \in T}))
    /\ HKeys = Result(val, Listing(Cardinality(T), T))

\* There is such a T, however many fields there are.
LEMMA ListingsAgree ==
    ASSUME HashInv, type = "hash"
    PROVE  \E T : Listed(T)
  <1>1. OutMax \in Nat
    BY BoundsAreNumbers
  <1>2. CASE val = None
    <2>1. Shown = {} /\ Cardinality({}) = 0
      BY <1>2, FS_EmptySet DEF Shown
    <2>2. Min({OutMax, 0}) = 0
      BY <1>1, PairMin
    <2>3. GetAll = SubSeq(<< >>, 1, 0)
      <3>1. Len(<< >>) = 0
        OBVIOUS
      <3> QED
        BY <1>2, <2>2, <3>1 DEF GetAll
    <2>4. GetAll = << >>
      BY <2>3, SubSeqEmpty
    <2>5. Range(GetAll) = {} /\ Len(GetAll) = 0
      BY <2>4 DEF Range
    <2>6. HGetAll = Result(val, Listing(2 * 0, {})) /\ HKeys = Result(val, Listing(0, {}))
      BY <2>5 DEF HGetAll, HKeys
    <2>7. {<<f, Here.val[f]>> : f \in {}} = {}
      OBVIOUS
    <2> QED
      BY <2>1, <2>2, <2>6, <2>7 DEF Listed
  <1>3. CASE val # None
    <2>1. PICK m : m = Map(val, Fields)
      OBVIOUS
    <2>2. PICK H : H = Held(val.buckets)
      OBVIOUS
    <2>3. IsHash(val) /\ m \in [Fields -> Elems \cup {None}] /\ Here = O!NewObj("hash", m)
      BY <1>3, <2>1, HashHere
    <2>4. Here.val = m
      BY <2>3, HashObj
    <2>5. MapOf(m, H, Fields, Elems)
      BY <2>1, <2>2, <2>3, DictMap DEF IsHash
    <2>6. PICK es : es = Entries(val)
      OBVIOUS
    <2>7. Order(es, val.buckets, Fields, Elems)
      BY <2>3, <2>6, FlatIs DEF IsHash, IsDict, Entries
    <2>8. PICK n \in Nat : n = Len(es)
      BY <2>7 DEF Order
    <2>9. PICK k \in Nat : k = IF OutMax <= n THEN OutMax ELSE n
      BY <1>1
    <2>10. Min({OutMax, n}) = k /\ k <= n
      BY <1>1, <2>9, PairMin
    <2>11. PICK g : g = SubSeq(es, 1, k)
      OBVIOUS
    <2>12. GetAll = g
      BY <1>3, <2>6, <2>8, <2>10, <2>11 DEF GetAll
    <2>13. \A i \in 1 .. n : es[i] \in H
      BY <2>2, <2>7, <2>8 DEF Order
    <2>14. Len(g) = k /\ DOMAIN g = 1 .. k /\ \A i \in 1 .. k : g[i] = es[i]
      <3>1. \A i \in 1 .. k : es[i] \in H
        BY <2>10, <2>13
      <3>2. g \in Seq(H) /\ Len(g) = (IF 1 <= k THEN k - 1 + 1 ELSE 0)
              /\ \A i \in 1 .. k - 1 + 1 : g[i] = es[1 + i - 1]
        BY <2>11, <3>1, SubSeqProperties
      <3>3. Len(g) = k
        BY <3>2
      <3>4. k - 1 + 1 = k /\ \A i \in 1 .. k : 1 + i - 1 = i
        OBVIOUS
      <3> QED
        BY <3>2, <3>3, <3>4, LenProperties
    <2>15. PICK t : t = [i \in 1 .. k |-> es[i].key]
      OBVIOUS
    <2>16. PICK T : T = {t[i] : i \in 1 .. k}
      OBVIOUS
    <2>17. Different(t, k)
      BY <2>7, <2>8, <2>10, <2>15 DEF Different, Order
    <2>18. Cardinality(T) = k
      BY <2>16, <2>17, Numbered
    <2>19. Range(g) = {es[i] : i \in 1 .. k}
      BY <2>14 DEF Range
    <2>20. T = {e.key : e \in Range(g)}
      BY <2>15, <2>16, <2>19
    <2>21. {<<e.key, e.val>> : e \in Range(g)} = {<<f, m[f]>> : f \in T}
      <3>1. \A e \in Range(g) : m[e.key] = e.val
        BY <2>5, <2>10, <2>13, <2>19 DEF MapOf
      <3> QED
        BY <2>20, <3>1
    <2>22. Shown = O!Present(m)
      BY <1>3, <2>4 DEF Shown
    <2>23. O!Present(m) = {e.key : e \in H} /\ Cardinality(O!Present(m)) = val.count
      BY <2>1, <2>2, <2>3, NoneIsNoData, PresentIs DEF IsHash
    <2>24. val.count = n
      <3>1. Sound(val)
        BY <2>3, DictSound DEF IsHash
      <3> QED
        BY <2>6, <2>8, <3>1 DEF Sound
    <2>25. T \in SUBSET Shown
      <3>1. \A e \in Range(g) : e \in H
        BY <2>10, <2>13, <2>19
      <3> QED
        BY <2>20, <2>22, <2>23, <3>1
    <2>26. Cardinality(T) = Min({OutMax, Cardinality(Shown)})
      BY <2>10, <2>18, <2>22, <2>23, <2>24
    <2>27. HGetAll = Result(val, Listing(2 * k, {<<f, m[f]>> : f \in T}))
      BY <2>12, <2>14, <2>21 DEF HGetAll
    <2>28. HKeys = Result(val, Listing(k, T))
      BY <2>12, <2>14, <2>20 DEF HKeys
    <2> QED
      BY <2>4, <2>18, <2>25, <2>26, <2>27, <2>28 DEF Listed
  <1> QED
    BY <1>2, <1>3

\* So does every hash command, in every shape of the table; HGETALL and HKEYS show
\* the same fields, all of them or as many as their arrays hold.
THEOREM HashesRefine == Spec => []HashesAsObjects
  <1>1. IInv => HashesAsObjects
    <2> SUFFICES ASSUME HashInv, type = "hash" PROVE HashesAsObjects
      BY DEF IInv, HashesAsObjects
    <2>1. PICK T : Listed(T)
      BY ListingsAgree
    <2>2. \A pairs \in Upto2(Fields \X Elems) :
              Is(HSet(pairs), O!HSetTo(Here, AsMap(pairs, Fields)))
      BY HSetAgrees
    <2>3. \A fs \in Upto2(Fields) : Is(HDel(fs), O!HDelOf(Here, Range(fs)))
      BY HDelAgrees
    <2>4. \A f \in Fields : Is(HGet(f), O!HGetOf(Here, f))
      BY HashReadsAgree
    <2>5. Is(HLen, O!HLenOf(Here))
      BY HLenAgrees
    <2> QED
      BY <2>1, <2>2, <2>3, <2>4, <2>5 DEF HashesAsObjects, Listed
  <1> QED
    BY <1>1, Inductive, PTL

-----------------------------------------------------------------------------
(* Sorted sets as Objects has them, where no score is NaN and no two       *)
(* members are strcmp-equal                                                *)

\* As RanksAreNumbers and ScoresAreNumbers say.
LEMMA RankedMembers == Ranked(Members, Scores)
  BY RanksAreNumbers, ScoresAreNumbers DEF Ranked

\* What the index holds of the node at a.
Entry(sl, a) == [key |-> sl.node[a].member, val |-> sl.node[a].score]

\* sl is sorted, along pos.
Ordered(sl, pos) == Tower(sl, pos) /\ Sorted(sl, pos, Members, Scores)

\* The entries H of the index are the nodes of sl.
Indexes(H, sl) == H = {Entry(sl, a) : a \in Inner(sl)}

\* The node of a member that is in the index.
LEMMA NodeOf ==
    ASSUME NEW d, IsDict(d, Members, Scores), NEW sl, Indexes(Held(d.buckets), sl),
           NEW m \in Members, DictGet(d, m) # None
    PROVE  \E a \in Inner(sl) : sl.node[a].member = m /\ sl.node[a].score = DictGet(d, m)
  <1>1. PICK e \in Held(d.buckets) : e = [key |-> m, val |-> DictGet(d, m)]
    BY DictGetIs
  <1>2. PICK a \in Inner(sl) : e = Entry(sl, a)
    BY DEF Indexes
  <1>3. e.key = m /\ e.val = DictGet(d, m)
    BY <1>1
  <1>4. e.key = sl.node[a].member /\ e.val = sl.node[a].score
    BY <1>2 DEF Entry
  <1> QED
    BY <1>3, <1>4

\* Where the index does not have a member, nor one strcmp-equal to it, the list has none.
LEMMA NoNodeOf ==
    ASSUME NEW d, IsDict(d, Members, Scores), NEW sl, NEW pos, Ordered(sl, pos),
           Indexes(Held(d.buckets), sl), NEW m \in Members,
           \A n \in Members : StrRank[n] = StrRank[m] => DictGet(d, n) = None
    PROVE  Missing(sl, m)
  <1> SUFFICES ASSUME NEW a \in Inner(sl), StrRank[sl.node[a].member] = StrRank[m] PROVE FALSE
    BY DEF Missing
  <1>1. PICK n \in Members : n = sl.node[a].member
    BY DEF Ordered, Sorted
  <1>2. DictGet(d, n) = None
    BY <1>1
  <1>3. PICK e \in Held(d.buckets) : e = Entry(sl, a)
    BY DEF Indexes
  <1>4. e.key = n
    BY <1>1, <1>3 DEF Entry
  <1>5. [key |-> n, val |-> DictGet(d, n)] \in Held(d.buckets)
    BY <1>4, DictGetIs
  <1>6. MapOf(Map(d, Members), Held(d.buckets), Members, Scores)
    BY DictMap
  <1>7. e \in Pairs(Members, Scores) /\ Map(d, Members)[e.key] = e.val
    BY <1>3, <1>6 DEF MapOf
  <1>8. Map(d, Members)[n] = DictGet(d, n)
    BY DEF Map
  <1>9. e.val \in Scores
    BY <1>7 DEF Pairs
  <1> QED
    BY <1>2, <1>4, <1>7, <1>8, <1>9, NoneIsNoData

\* sl_delete of a member with the score the index has for it.
LEMMA TakeAgrees ==
    ASSUME NEW d, IsDict(d, Members, Scores), NEW sl, NEW pos, Ordered(sl, pos),
           Indexes(Held(d.buckets), sl), NEW m \in Members, DictGet(d, m) # None,
           NEW t, t = SlDelete(sl, m, DictGet(d, m))
    PROVE  /\ Ordered(t, pos) /\ Missing(t, m) /\ Indexes(But(Held(d.buckets), m), t)
           /\ DOMAIN t.node \subseteq DOMAIN sl.node /\ t.length <= sl.length
  <1>1. PICK a \in Inner(sl) : sl.node[a].member = m /\ sl.node[a].score = DictGet(d, m)
    BY NodeOf
  <1>2. t = SlDelete(sl, sl.node[a].member, sl.node[a].score)
    BY <1>1
  <1>3. Kept(sl, t, {a}) /\ Sorted(t, pos, Members, Scores)
    BY <1>2, RankedMembers, DeleteTakes DEF Ordered
  <1>4. Tower(t, pos)
    BY DeleteIs DEF Ordered
  <1>5. Inner(t) = Inner(sl) \ {a} /\ DOMAIN t.node = DOMAIN sl.node \ {a}
    BY <1>3 DEF Kept, Inner
  <1>6. \A b \in Inner(t) :
            t.node[b].member = sl.node[b].member /\ t.node[b].score = sl.node[b].score
    BY <1>3 DEF Kept, Inner
  <1>7. \A b \in Inner(sl) : StrRank[sl.node[b].member] = StrRank[m] => b = a
    BY <1>1 DEF Ordered, Sorted
  <1>8. Missing(t, m)
    BY <1>5, <1>6, <1>7 DEF Missing
  <1>9. \A b \in Inner(t) : Entry(t, b) = Entry(sl, b)
    BY <1>6 DEF Entry
  <1>10. \A b \in Inner(sl) : Entry(sl, b).key # m <=> b # a
    <2>1. \A b \in Inner(sl) : Entry(sl, b).key = sl.node[b].member
      BY DEF Entry
    <2> QED
      BY <1>1, <1>7, <2>1
  <1>11. But(Held(d.buckets), m) = {Entry(sl, b) : b \in Inner(sl) \ {a}}
    BY <1>10 DEF But, Indexes
  <1>12. Indexes(But(Held(d.buckets), m), t)
    <2>1. {Entry(sl, b) : b \in Inner(sl) \ {a}} = {Entry(t, b) : b \in Inner(t)}
      BY <1>5, <1>9
    <2> QED
      BY <1>11, <2>1 DEF Indexes
  <1>13. t.length <= sl.length
    <2>1. /\ IsFiniteSet(DOMAIN sl.node) /\ Cardinality(DOMAIN sl.node) = sl.length + 1
          /\ sl.length \in Nat /\ t.length \in Nat
          /\ Cardinality(DOMAIN t.node) = t.length + 1
      BY <1>4 DEF Ordered, Tower
    <2>2. Cardinality(DOMAIN t.node) <= Cardinality(DOMAIN sl.node)
      BY <1>5, <2>1, FS_Subset
    <2> QED
      BY <2>1, <2>2
  <1> QED
    BY <1>3, <1>4, <1>5, <1>8, <1>12, <1>13 DEF Ordered

\* t has one node more than sl, at an address that is not beyond its length.
Grown(sl, t) == /\ DOMAIN t.node \subseteq DOMAIN sl.node \cup 1 .. t.length
                /\ t.length = sl.length + 1

\* sl_insert of a member the list has not, and its score in the index.
LEMMA PutAgrees ==
    ASSUME NEW H, NEW sl, NEW pos, Ordered(sl, pos), NEW m \in Members, Missing(sl, m),
           Indexes(H, sl), NEW s \in Scores, NEW lvl \in 1 .. MaxLevel,
           NEW t, t = SlInsert(sl, m, s, lvl)
    PROVE  /\ \E q : Ordered(t, q)
           /\ Indexes(H \cup {[key |-> m, val |-> s]}, t)
           /\ Grown(sl, t)
  <1>1. PICK q, n : Ordered(t, q) /\ Puts(sl, m, s, t, n)
    <2>1. \E q, n : Tower(t, q) /\ Sorted(t, q, Members, Scores) /\ Puts(sl, m, s, t, n)
      BY RankedMembers, InsertPuts DEF Ordered
    <2> QED
      BY <2>1 DEF Ordered
  <1>9. /\ n \in 1 .. Cardinality(DOMAIN sl.node) /\ n \notin DOMAIN sl.node
        /\ DOMAIN t.node = DOMAIN sl.node \cup {n}
        /\ Kept(t, sl, {n})
        /\ t.node[n].member = m /\ t.node[n].score = s
    BY <1>1 DEF Puts
  <1>2. \A b \in Inner(sl) :
            t.node[b].member = sl.node[b].member /\ t.node[b].score = sl.node[b].score
    BY <1>1, <1>9 DEF Kept, Inner
  <1>3. \A b \in Inner(sl) : Entry(t, b) = Entry(sl, b)
    BY <1>2 DEF Entry
  <1>4. Inner(t) = Inner(sl) \cup {n}
    <2>1. 0 \in DOMAIN sl.node
      BY DEF Ordered, Tower
    <2> QED
      BY <1>1, <1>9, <2>1 DEF Inner
  <1>5. Entry(t, n) = [key |-> m, val |-> s]
    BY <1>1, <1>9 DEF Entry
  <1>6. {Entry(t, b) : b \in Inner(t)} = {Entry(sl, b) : b \in Inner(sl)} \cup {Entry(t, n)}
    BY <1>3, <1>4
  <1>7. Indexes(H \cup {[key |-> m, val |-> s]}, t)
    BY <1>5, <1>6 DEF Indexes
  <1>8. n \in 1 .. t.length /\ t.length = sl.length + 1
    <2>1. /\ IsFiniteSet(DOMAIN sl.node) /\ Cardinality(DOMAIN sl.node) \in Nat
          /\ t.length \in Nat /\ Cardinality(DOMAIN t.node) = t.length + 1
          /\ sl.length \in Nat /\ Cardinality(DOMAIN sl.node) = sl.length + 1
      BY <1>1, <1>9, FS_CardinalityType DEF Ordered, Tower
    <2>2. Cardinality(DOMAIN t.node) = Cardinality(DOMAIN sl.node) + 1
      BY <1>1, <1>9, <2>1, FS_AddElement
    <2> QED
      BY <1>1, <1>9, <2>1, <2>2
  <1> QED
    BY <1>1, <1>7, <1>8, <1>9 DEF Grown

\* A sorted set whose order means something: no score is NaN, no two members are
\* strcmp-equal, and the index has what the skip list has.
FineZ(z) ==
    /\ z = [sl |-> z.sl, ht |-> z.ht]
    /\ IsDict(z.ht, Members, Scores)
    /\ Indexes(Held(z.ht.buckets), z.sl)
    /\ \E pos : Ordered(z.sl, pos)

\* zset_create.
LEMMA NewFine == FineZ(NewZSet)
  <1>1. NewZSet.sl = NewSkipList /\ NewZSet.ht = NewDict
        /\ NewZSet = [sl |-> NewZSet.sl, ht |-> NewZSet.ht]
    BY DEF NewZSet
  <1>2. IsDict(NewDict, Members, Scores) /\ Held(NewDict.buckets) = {}
    BY Hashed, NewDictIs DEF HashKeys
  <1>3. PICK pos : Tower(NewSkipList, pos)
    BY NewTower
  <1>4. Ordered(NewSkipList, pos)
    BY <1>3, NewSorted DEF Ordered
  <1>5. DOMAIN NewSkipList.node = {0}
    BY DEF NewSkipList
  <1>6. Inner(NewSkipList) = {}
    BY <1>5 DEF Inner
  <1>7. Indexes({}, NewSkipList)
    BY <1>6 DEF Indexes
  <1> QED
    BY <1>1, <1>2, <1>4, <1>7 DEF FineZ

\* It is not the null pointer, with up to one node more than MaxLen.
LEMMA FineNotNone ==
    ASSUME NEW z, FineZ(z), DOMAIN z.sl.node \subseteq 0 .. MaxLen + 1
    PROVE  z # None
  <1>1. PICK sl : sl = z.sl
    OBVIOUS
  <1>2. PICK d : d = z.ht
    OBVIOUS
  <1>3. PICK pos : Tower(sl, pos) /\ Sorted(sl, pos, Members, Scores)
    BY <1>1 DEF FineZ, Ordered
  <1>4. PICK D \in SUBSET (0 .. MaxLen + 1) : D = DOMAIN sl.node
    BY <1>1
  <1>5. ASSUME NEW a \in D PROVE sl.node[a] \in SkipNodes
    <2>1. PICK r : r = sl.node[a]
      OBVIOUS
    <2>2. PICK f : f = r.forward
      OBVIOUS
    <2>3. r = [score |-> r.score, member |-> r.member, forward |-> f] /\ IsFun(f)
      BY <1>3, <1>4, <2>1, <2>2 DEF Sorted, Formed
    <2>4. r.score \in Int /\ r.member \in Members \cup {0}
      <3>1. CASE a = 0
        BY <1>3, <2>1, <3>1 DEF Sorted, Formed
      <3>2. CASE a # 0
        <4>1. a \in Inner(sl)
          BY <1>4, <3>2 DEF Inner
        <4> QED
          BY <1>3, <2>1, <4>1, ScoresAreNumbers DEF Sorted
      <3> QED
        BY <3>1, <3>2
    <2>5. PICK h \in 1 .. MaxLevel : f \in [1 .. h -> Int]
      <3>1. PICK m : m = IF a = 0 THEN MaxLevel ELSE sl.level
        OBVIOUS
      <3>2. PICK h \in 1 .. m : DOMAIN f = 1 .. h
        BY <1>3, <1>4, <2>1, <2>2, <3>1 DEF Tower
      <3>3. m \in 1 .. MaxLevel /\ MaxLevel \in Nat
        BY <1>3, <3>1, MaxLevelIsPositive DEF Tower
      <3>4. h \in 1 .. MaxLevel
        BY <3>2, <3>3
      <3>5. ASSUME NEW i \in 1 .. h PROVE f[i] \in Int
        <4>1. f[i] = Follow(sl, a, i)
          BY <2>1, <2>2 DEF Follow
        <4>2. a \in On(sl, i) /\ i \in 1 .. MaxLevel
          BY <1>4, <2>1, <2>2, <3>2, <3>3, <3>4 DEF On
        <4>3. NextIn(On(sl, i), pos, a, f[i])
          BY <1>3, <4>1, <4>2 DEF Tower
        <4>4. f[i] = Null \/ f[i] \in DOMAIN sl.node
          BY <4>3 DEF NextIn, On
        <4>5. \A x \in D : x \in Int
          BY BoundsAreNumbers
        <4> QED
          BY <1>4, <4>4, <4>5 DEF Null
      <3>6. f \in [1 .. h -> Int]
        BY <2>3, <3>2, <3>5 DEF IsFun
      <3> QED
        BY <3>4, <3>6
    <2>6. f \in UNION {[1 .. i -> Int] : i \in 1 .. MaxLevel}
      BY <2>5
    <2> QED
      BY <2>1, <2>3, <2>4, <2>6 DEF SkipNodes
  <1>6. sl.node \in [D -> SkipNodes]
    BY <1>3, <1>4, <1>5 DEF Sorted, Formed, IsFun
  <1>7. sl.level \in Nat /\ sl.length \in Nat
    BY <1>3, MaxLevelIsPositive DEF Tower
  <1>8. sl \in [level : Nat, length : Nat, node : [D -> SkipNodes]]
    <2>1. sl = [level |-> sl.level, length |-> sl.length, node |-> sl.node]
      BY <1>3 DEF Sorted, Formed
    <2> QED
      BY <1>6, <1>7, <2>1
  <1>9. d \in [buckets : Seq(Seq([key : Members, val : Scores])), count : Nat]
    <2>1. /\ Boxed(d) /\ Table(d.buckets, Len(d.buckets), Members, Scores)
          /\ d.count \in Nat
      BY <1>2, FS_CardinalityType DEF FineZ, IsDict
    <2>2. PICK n \in Nat : d.buckets \in [1 .. n -> Seq(Pairs(Members, Scores))]
      BY <2>1 DEF Table
    <2>3. d.buckets \in Seq(Seq([key : Members, val : Scores]))
      BY <2>2, SeqOfFun DEF Pairs
    <2> QED
      BY <2>1, <2>3 DEF Boxed
  <1>10. z = [sl |-> sl, ht |-> d]
    BY <1>1, <1>2 DEF FineZ
  <1>11. z \in [sl : [level : Nat, length : Nat, node : [D -> SkipNodes]],
                ht : [buckets : Seq(Seq([key : Members, val : Scores])), count : Nat]]
    BY <1>8, <1>9, <1>10
  <1> QED
    BY <1>11, NoneIsNoData

\* No other member that is strcmp-equal to m is there.
Apart(d, m) == \A n \in Members \ {m} : StrRank[n] = StrRank[m] => DictGet(d, n) = None

\* zset_add, of a new member or of one that is there.
LEMMA AddAgrees ==
    ASSUME NEW z, FineZ(z), NEW m \in Members, Apart(z.ht, m), NEW s \in Scores,
           NEW lvl \in 1 .. MaxLevel, NEW y, y = ZSetAdd(z, m, s, lvl)
    PROVE  /\ FineZ(y)
           /\ Bound(Map(z.ht, Members), m, s, Map(y.ht, Members), Members)
           /\ DOMAIN y.sl.node \subseteq DOMAIN z.sl.node \cup 1 .. y.sl.length
           /\ y.sl.length <= z.sl.length + 1
  <1>1. PICK sl : sl = z.sl
    OBVIOUS
  <1>2. PICK d : d = z.ht
    OBVIOUS
  <1>3. PICK pos : Ordered(sl, pos)
    BY <1>1 DEF FineZ
  <1>4. IsDict(d, Members, Scores) /\ Indexes(Held(d.buckets), sl)
    BY <1>1, <1>2 DEF FineZ
  <1>5. PICK old : old = DictGet(d, m)
    OBVIOUS
  <1>6. PICK k : k = IF old = None THEN sl ELSE SlDelete(sl, m, old)
    OBVIOUS
  <1>7. PICK H : H = But(Held(d.buckets), m)
    OBVIOUS
  <1>8. /\ Ordered(k, pos) /\ Missing(k, m) /\ Indexes(H, k)
        /\ DOMAIN k.node \subseteq DOMAIN sl.node /\ k.length <= sl.length
    <2>1. CASE old = None
      <3>1. \A n \in Members : StrRank[n] = StrRank[m] => DictGet(d, n) = None
        BY <1>2, <1>5, <2>1 DEF Apart
      <3>2. Missing(sl, m)
        BY <1>3, <1>4, <3>1, NoNodeOf
      <3>3. H = Held(d.buckets)
        <4>1. ASSUME NEW e \in Held(d.buckets), e.key = m PROVE FALSE
          <5>1. PICK a \in Inner(sl) : e = Entry(sl, a)
            BY <1>4 DEF Indexes
          <5>2. sl.node[a].member = m
            BY <4>1, <5>1 DEF Entry
          <5> QED
            BY <3>2, <5>2 DEF Missing
        <4> QED
          BY <1>7, <4>1 DEF But
      <3>4. sl.length \in Nat
        BY <1>3 DEF Ordered, Tower
      <3> QED
        BY <1>3, <1>4, <1>6, <2>1, <3>2, <3>3, <3>4
    <2>2. CASE old # None
      BY <1>3, <1>4, <1>5, <1>6, <1>7, <2>2, TakeAgrees
    <2> QED
      BY <2>1, <2>2
  <1>9. PICK t : t = SlInsert(k, m, s, lvl)
    OBVIOUS
  <1>10. PICK q : Ordered(t, q)
    BY <1>8, <1>9, PutAgrees
  <1>11. /\ Indexes(H \cup {[key |-> m, val |-> s]}, t)
         /\ DOMAIN t.node \subseteq DOMAIN k.node \cup 1 .. t.length
         /\ t.length = k.length + 1
    <2>1. Indexes(H \cup {[key |-> m, val |-> s]}, t) /\ Grown(k, t)
      BY <1>8, <1>9, PutAgrees
    <2> QED
      BY <2>1 DEF Grown
  <1>12. PICK e : e = DictSet(d, m, s)
    OBVIOUS
  <1>13. /\ IsDict(e, Members, Scores)
         /\ Bound(Map(d, Members), m, s, Map(e, Members), Members)
         /\ Held(e.buckets) = H \cup {[key |-> m, val |-> s]}
    BY <1>4, <1>7, <1>12, SetBinds, DictSetIs
  <1>14. y = [sl |-> t, ht |-> e]
    BY <1>1, <1>2, <1>5, <1>6, <1>9, <1>12 DEF ZSetAdd
  <1>15. y.sl = t /\ y.ht = e /\ y = [sl |-> y.sl, ht |-> y.ht]
    BY <1>14
  <1>16. FineZ(y)
    BY <1>10, <1>11, <1>13, <1>15 DEF FineZ
  <1>17. t.length <= sl.length + 1
    <2>1. sl.length \in Nat /\ k.length \in Nat
      BY <1>3, <1>8 DEF Ordered, Tower
    <2> QED
      BY <1>8, <1>11, <2>1
  <1> QED
    BY <1>1, <1>2, <1>8, <1>11, <1>13, <1>15, <1>16, <1>17

\* zset_rem of a member that is there.
LEMMA RemAgrees ==
    ASSUME NEW z, FineZ(z), NEW m \in Members, DictGet(z.ht, m) # None,
           NEW y, y = ZSetRem(z, m)
    PROVE  /\ FineZ(y)
           /\ Bound(Map(z.ht, Members), m, None, Map(y.ht, Members), Members)
           /\ DOMAIN y.sl.node \subseteq DOMAIN z.sl.node
           /\ y.sl.length <= z.sl.length
  <1>1. PICK sl : sl = z.sl
    OBVIOUS
  <1>2. PICK d : d = z.ht
    OBVIOUS
  <1>3. PICK pos : Ordered(sl, pos)
    BY <1>1 DEF FineZ
  <1>4. IsDict(d, Members, Scores) /\ Indexes(Held(d.buckets), sl)
    BY <1>1, <1>2 DEF FineZ
  <1>5. PICK t : t = SlDelete(sl, m, DictGet(d, m))
    OBVIOUS
  <1>6. /\ Ordered(t, pos) /\ Indexes(But(Held(d.buckets), m), t)
        /\ DOMAIN t.node \subseteq DOMAIN sl.node /\ t.length <= sl.length
    BY <1>2, <1>3, <1>4, <1>5, TakeAgrees
  <1>7. PICK e : e = DictDel(d, m)
    OBVIOUS
  <1>8. /\ IsDict(e, Members, Scores)
        /\ Bound(Map(d, Members), m, None, Map(e, Members), Members)
        /\ Held(e.buckets) = But(Held(d.buckets), m)
    BY <1>4, <1>7, DelBinds, DictDelIs
  <1>9. y = [sl |-> t, ht |-> e]
    BY <1>1, <1>2, <1>5, <1>7 DEF ZSetRem
  <1>10. y.sl = t /\ y.ht = e /\ y = [sl |-> y.sl, ht |-> y.ht]
    BY <1>9
  <1>11. FineZ(y)
    BY <1>6, <1>8, <1>10 DEF FineZ
  <1> QED
    BY <1>1, <1>2, <1>6, <1>8, <1>10, <1>11

\* y has no node z has not.
Shrunk(z, y) == DOMAIN y.sl.node \subseteq DOMAIN z.sl.node /\ y.sl.length <= z.sl.length

\* The index of a sorted set as a map.
LEMMA FineMap ==
    ASSUME NEW z, FineZ(z)
    PROVE  /\ Map(z.ht, Members) \in [Members -> Scores \cup {None}]
           /\ z.sl.length \in Nat
  <1>1. IsDict(z.ht, Members, Scores)
    BY DEF FineZ
  <1>2. PICK pos : Tower(z.sl, pos)
    BY DEF FineZ, Ordered
  <1> QED
    BY <1>1, <1>2, DictMap DEF MapOf, Tower

\* One member of ZREM: the reply counts a member that was there.
LEMMA MemberCounts ==
    ASSUME NEW r, FineZ(r.val), r = Result(r.val, r.reply), NEW n \in Nat, r.reply = Integer(n),
           NEW m \in Members, NEW c, c = OneMember(r, m)
    PROVE  /\ FineZ(c.val) /\ Shrunk(r.val, c.val) /\ c = Result(c.val, c.reply)
           /\ Bound(Map(r.val.ht, Members), m, None, Map(c.val.ht, Members), Members)
           /\ c.reply = Integer(n + (IF Map(r.val.ht, Members)[m] = None THEN 0 ELSE 1))
  <1>1. PICK z : z = r.val
    OBVIOUS
  <1>2. PICK mp : mp = Map(z.ht, Members)
    OBVIOUS
  <1>3. mp \in [Members -> Scores \cup {None}] /\ z.sl.length \in Nat
    BY <1>1, <1>2, FineMap
  <1>4. mp[m] = DictGet(z.ht, m)
    BY <1>2 DEF Map
  <1>5. CASE DictGet(z.ht, m) = None
    <2>1. c = r
      BY <1>1, <1>5 DEF OneMember
    <2>2. mp = [g \in Members |-> IF g = m THEN None ELSE mp[g]]
      BY <1>3, <1>4, <1>5
    <2>3. Bound(mp, m, None, mp, Members)
      BY <2>2 DEF Bound
    <2>4. n + 0 = n
      OBVIOUS
    <2>5. Shrunk(z, z)
      BY <1>3 DEF Shrunk
    <2> QED
      BY <1>1, <1>2, <1>4, <1>5, <2>1, <2>3, <2>4, <2>5
  <1>6. CASE DictGet(z.ht, m) # None
    <2>1. PICK y : y = ZSetRem(z, m)
      OBVIOUS
    <2>2. c = Result(y, Integer(r.reply.n + 1))
      BY <1>1, <1>6, <2>1 DEF OneMember
    <2>3. r.reply.n = n
      BY DEF Integer, Reply
    <2>4. c.val = y /\ c.reply = Integer(n + 1)
      BY <2>2, <2>3 DEF Result
    <2>5. /\ FineZ(y) /\ Bound(mp, m, None, Map(y.ht, Members), Members)
          /\ DOMAIN y.sl.node \subseteq DOMAIN z.sl.node /\ y.sl.length <= z.sl.length
      BY <1>1, <1>2, <1>6, <2>1, RemAgrees
    <2>6. Shrunk(z, y)
      BY <2>5 DEF Shrunk
    <2> QED
      BY <1>1, <1>2, <1>4, <1>6, <2>2, <2>3, <2>4, <2>5, <2>6
  <1> QED
    BY <1>5, <1>6

\* What ZREM leaves and answers.
ZRemoved(z, ms, c, k) ==
    /\ FineZ(c.val) /\ Shrunk(z, c.val) /\ c = Result(c.val, Integer(k))
    /\ Cleared(Map(z.ht, Members), Range(ms), Map(c.val.ht, Members), k, Members)

\* One member or two, or one twice.
LEMMA RemAllAgrees ==
    ASSUME NEW z, FineZ(z), NEW ms \in Upto2(Members),
           NEW c, c = RemAll(Result(z, Integer(0)), ms)
    PROVE  \E k : ZRemoved(z, ms, c, k)
  <1>1. PICK m : m = Map(z.ht, Members)
    OBVIOUS
  <1>2. PICK r : r = Result(z, Integer(0))
    OBVIOUS
  <1>3. r.val = z /\ r.reply = Integer(0) /\ 0 \in Nat /\ r = Result(r.val, r.reply)
    BY <1>2 DEF Result
  <1>4. PICK F : F = Range(ms)
    OBVIOUS
  <1>5. PICK n : n = Map(c.val.ht, Members)
    OBVIOUS
  <1>6. m \in [Members -> Scores \cup {None}]
    BY <1>1, FineMap
  <1>7. CASE \E x \in Members : ms = <<x>>
    <2>1. PICK x \in Members : ms = <<x>>
      BY <1>7
    <2>2. c = OneMember(r, x)
      BY <1>2, <2>1, FoldRem1
    <2>3. PICK k : k = 0 + (IF m[x] = None THEN 0 ELSE 1)
      OBVIOUS
    <2>4. /\ FineZ(c.val) /\ Shrunk(z, c.val) /\ c = Result(c.val, c.reply)
          /\ Bound(m, x, None, n, Members) /\ c.reply = Integer(k)
      BY <1>1, <1>3, <1>5, <2>2, <2>3, MemberCounts
    <2>5. F = {x}
      BY <1>4, <2>1 DEF Range
    <2>6. Cleared(m, F, n, k, Members)
      BY <1>6, <2>3, <2>4, <2>5, Cleared1
    <2> QED
      BY <1>1, <1>4, <1>5, <2>4, <2>6 DEF ZRemoved
  <1>8. CASE \E x, y \in Members : ms = <<x, y>>
    <2>1. PICK x \in Members, y \in Members : ms = <<x, y>>
      BY <1>8
    <2>2. PICK b : b = OneMember(r, x)
      OBVIOUS
    <2>3. c = OneMember(b, y)
      BY <1>2, <2>1, <2>2, FoldRem2
    <2>4. PICK j \in Nat : j = 0 + (IF m[x] = None THEN 0 ELSE 1)
      OBVIOUS
    <2>5. PICK l : l = Map(b.val.ht, Members)
      OBVIOUS
    <2>6. /\ FineZ(b.val) /\ Shrunk(z, b.val) /\ b = Result(b.val, b.reply)
          /\ Bound(m, x, None, l, Members) /\ b.reply = Integer(j)
      BY <1>1, <1>3, <2>2, <2>4, <2>5, MemberCounts
    <2>7. PICK k : k = j + (IF l[y] = None THEN 0 ELSE 1)
      OBVIOUS
    <2>8. /\ FineZ(c.val) /\ Shrunk(b.val, c.val) /\ c = Result(c.val, c.reply)
          /\ Bound(l, y, None, n, Members) /\ c.reply = Integer(k)
      BY <1>5, <2>3, <2>5, <2>6, <2>7, MemberCounts
    <2>9. F = {x, y}
      BY <1>4, <2>1 DEF Range
    <2>10. Cleared(m, F, n, k, Members)
      BY <1>6, <2>4, <2>6, <2>7, <2>8, <2>9, Cleared2
    <2>11. Shrunk(z, c.val)
      <3>1. z.sl.length \in Nat /\ b.val.sl.length \in Nat /\ c.val.sl.length \in Nat
        BY <2>6, <2>8, FineMap
      <3> QED
        BY <2>6, <2>8, <3>1 DEF Shrunk
    <2> QED
      BY <1>1, <1>4, <1>5, <2>8, <2>10, <2>11 DEF ZRemoved
  <1> QED
    <2>1. ms \in {<<x>> : x \in Members} \/ ms \in Members \X Members
      BY DEF Upto2
    <2>2. ASSUME ms \in Members \X Members PROVE \E x, y \in Members : ms = <<x, y>>
      BY <2>2
    <2> QED
      BY <1>7, <1>8, <2>1, <2>2

\* The nodes keep to the bound.
Roomy(z, n) == z.sl.length <= n /\ DOMAIN z.sl.node \subseteq 0 .. n

\* The part of the invariant about sorted sets whose order means something.
FineInv == type = "zset" /\ ~odd /\ val # None => FineZ(val) /\ Roomy(val, MaxLen)

\* The sorted set a command finds or makes.
LEMMA ExistingFine ==
    ASSUME FineInv, type = "zset", ~odd, NEW z, z = Existing(NewZSet)
    PROVE  FineZ(z) /\ Roomy(z, MaxLen)
  <1>1. CASE val = None
    <2>1. z = NewZSet
      BY <1>1 DEF Existing
    <2>2. z.sl = NewSkipList
      BY <2>1 DEF NewZSet
    <2>3. z.sl.length = 0 /\ DOMAIN z.sl.node = {0}
      BY <2>2 DEF NewSkipList
    <2>4. MaxLen \in Nat
      BY BoundsAreNumbers
    <2> QED
      BY <2>1, <2>3, <2>4, NewFine DEF Roomy
  <1>2. CASE val # None
    BY <1>2 DEF FineInv, Existing
  <1> QED
    BY <1>1, <1>2

\* No twins: no other member strcmp-equal to m.
LEMMA NoTwins ==
    ASSUME NEW m \in Members, Twins(m) = {}, NEW z, z = Existing(NewZSet)
    PROVE  Apart(z.ht, m)
  BY DEF Twins, Apart

\* The commands preserve it.
LEMMA FineSteps ==
    ASSUME FineInv, odd \in BOOLEAN, ZSetStep
    PROVE  FineInv'
  <1>1. type = "zset" /\ MaxLen \in Nat
    BY BoundsAreNumbers DEF ZSetStep
  <1>2. ASSUME ZAddStep PROVE FineInv'
    <2> SUFFICES ASSUME ~odd' PROVE FineZ(val') /\ Roomy(val', MaxLen)
      BY DEF FineInv
    <2>1. PICK m \in Members, s \in Scores \cup {NaN}, lvl \in 1 .. MaxLevel :
              /\ odd' = (odd \/ s = NaN \/ Twins(m) # {})
              /\ val' = ZAdd(m, s, lvl).val
              /\ val'.sl.length <= IF odd' THEN MaxOddLen ELSE MaxLen
      BY <1>2 DEF ZAddStep
    <2>2. ~odd /\ s \in Scores /\ Twins(m) = {}
      BY <2>1
    <2>3. val'.sl.length <= MaxLen
      BY <2>1
    <2>4. PICK z : z = Existing(NewZSet)
      OBVIOUS
    <2>5. FineZ(z) /\ Roomy(z, MaxLen)
      BY <1>1, <2>2, <2>4, ExistingFine
    <2>6. Apart(z.ht, m)
      BY <2>2, <2>4, NoTwins
    <2>7. PICK y : y = ZSetAdd(z, m, s, lvl)
      OBVIOUS
    <2>8. val' = y
      BY <2>1, <2>4, <2>7 DEF ZAdd, Result
    <2>9. FineZ(y) /\ DOMAIN y.sl.node \subseteq DOMAIN z.sl.node \cup 1 .. y.sl.length
      BY <2>2, <2>5, <2>6, <2>7, AddAgrees
    <2>10. y.sl.length \in Nat /\ y.sl.length <= MaxLen
      BY <2>3, <2>8, <2>9, FineMap
    <2>11. DOMAIN y.sl.node \subseteq 0 .. MaxLen
      <3>1. 1 .. y.sl.length \subseteq 0 .. MaxLen
        BY <1>1, <2>10
      <3> QED
        BY <2>5, <2>9, <3>1 DEF Roomy
    <2> QED
      BY <2>8, <2>9, <2>10, <2>11 DEF Roomy
  <1>3. ASSUME NEW ms \in Upto2(Members), Become(ZRem(ms)) PROVE FineInv'
    <2>1. CASE val = None
      BY <1>3, <2>1 DEF ZRem, Become, FineInv, Result
    <2>2. CASE val # None /\ ~odd
      <3>1. FineZ(val) /\ Roomy(val, MaxLen) /\ val.sl.length \in Nat
        BY <1>1, <2>2, FineMap DEF FineInv
      <3>2. PICK c : c = RemAll(Result(val, Integer(0)), ms)
        OBVIOUS
      <3>3. PICK k : ZRemoved(val, ms, c, k)
        BY <1>3, <3>1, <3>2, RemAllAgrees
      <3>4. ZRem(ms) = c
        BY <2>2, <3>2 DEF ZRem, RemAll
      <3>5. FineZ(c.val) /\ Shrunk(val, c.val)
        BY <3>3 DEF ZRemoved
      <3>6. c.val.sl.length \in Nat
        BY <3>5, FineMap
      <3>7. Roomy(c.val, MaxLen)
        BY <1>1, <3>1, <3>5, <3>6 DEF Roomy, Shrunk
      <3>8. val' = c.val
        BY <1>3, <3>4 DEF Become
      <3> QED
        BY <3>5, <3>7, <3>8 DEF FineInv
    <2>3. CASE odd
      BY <1>3, <2>3 DEF Become, FineInv
    <2> QED
      BY <2>1, <2>2, <2>3
  <1> QED
    BY <1>2, <1>3 DEF ZSetStep

\* It holds of the missing key and every command preserves it.
LEMMA FineStep == FineInv /\ IInv /\ [Next]_vars => FineInv'
  <1> SUFFICES ASSUME FineInv, IInv, [Next]_vars PROVE FineInv'
    OBVIOUS
  <1>1. CASE ListStep
    BY <1>1 DEF ListStep, Become, FineInv
  <1>2. CASE HashStep
    BY <1>2 DEF HashStep, Become, FineInv
  <1>3. CASE ZSetStep
    BY <1>3, FineSteps DEF IInv
  <1>4. CASE UNCHANGED vars
    BY <1>4 DEF vars, FineInv
  <1> QED
    BY <1>1, <1>2, <1>3, <1>4 DEF Next

\* A sorted set object of Objects.
LEMMA ZSetObj ==
    ASSUME NEW m \in [Members -> Scores \cup {None}], NEW o, o = O!NewObj("zset", m)
    PROVE  /\ o # None /\ o.type = "zset" /\ o.val = m
           /\ \A t : [o EXCEPT !.val = t] = O!NewObj("zset", t)
  <1>1. o = [type |-> "zset", val |-> m, exp |-> 0]
    BY DEF O!NewObj
  <1>2. o \in O!Objs
    BY <1>1 DEF O!Objs, O!ZSets
  <1>3. o # None
    BY <1>2, NoneIsNoData
  <1> QED
    BY <1>1, <1>3 DEF O!NewObj

\* What the properties take a sorted set for.
LEMMA AbsZSet ==
    ASSUME type = "zset", NEW z, FineZ(z), DOMAIN z.sl.node \subseteq 0 .. MaxLen + 1
    PROVE  z # None /\ Abs(z) = O!NewObj("zset", Map(z.ht, Members))
  <1>1. z # None
    BY FineNotNone
  <1> QED
    BY <1>1 DEF Abs

\* A node more than the bound is allowed for.
LEMMA RoomyIs ==
    ASSUME NEW z, Roomy(z, MaxLen)
    PROVE  DOMAIN z.sl.node \subseteq 0 .. MaxLen + 1
  <1>1. MaxLen \in Nat
    BY BoundsAreNumbers
  <1>2. 0 .. MaxLen \subseteq 0 .. MaxLen + 1
    BY <1>1
  <1> QED
    BY <1>2 DEF Roomy

\* What the properties take the key for.
LEMMA ZSetHere ==
    ASSUME FineInv, type = "zset", ~odd
    PROVE  /\ val = None => Here = None
           /\ val # None => /\ FineZ(val) /\ Roomy(val, MaxLen) /\ Here # None
                            /\ Here = O!NewObj("zset", Map(val.ht, Members))
                            /\ Map(val.ht, Members) \in [Members -> Scores \cup {None}]
  <1>1. val = None => Here = None
    BY DEF Here, Abs
  <1>2. ASSUME val # None
        PROVE  /\ FineZ(val) /\ Roomy(val, MaxLen) /\ Here # None
               /\ Here = O!NewObj("zset", Map(val.ht, Members))
               /\ Map(val.ht, Members) \in [Members -> Scores \cup {None}]
    <2>1. FineZ(val) /\ Roomy(val, MaxLen)
      BY <1>2 DEF FineInv
    <2>2. Here = O!NewObj("zset", Map(val.ht, Members))
      BY <2>1, RoomyIs, AbsZSet DEF Here
    <2>3. Map(val.ht, Members) \in [Members -> Scores \cup {None}]
      BY <2>1, FineMap
    <2>4. Here # None
      BY <2>2, <2>3, ZSetObj
    <2> QED
      BY <2>1, <2>2, <2>3, <2>4
  <1> QED
    BY <1>1, <1>2

\* ZADD.
LEMMA ZAddAgrees ==
    ASSUME FineInv, type = "zset", ~odd, NEW m \in Members, NEW s \in Scores,
           NEW lvl \in 1 .. MaxLevel, Twins(m) = {}
    PROVE  Is(ZAdd(m, s, lvl), O!ZAddTo(Here, AsMap(<<<<m, s>>>>, Members)))
  <1>1. PICK z : z = Existing(NewZSet)
    OBVIOUS
  <1>2. PICK mp : mp = Map(z.ht, Members)
    OBVIOUS
  <1>3. FineZ(z) /\ Roomy(z, MaxLen) /\ mp \in [Members -> Scores \cup {None}]
    BY <1>1, <1>2, ExistingFine, FineMap
  <1>4. PICK h : h = O!GetOrCreate(Here, O!EmptyZSet)
    OBVIOUS
  <1>5. h = O!NewObj("zset", mp)
    <2>1. CASE val = None
      <3>1. z.ht = NewDict
        BY <1>1, <2>1 DEF Existing, NewZSet
      <3>2. mp = [f \in Members |-> None]
        BY <1>2, <3>1, EmptyMap, Hashed DEF HashKeys
      <3>3. Here = None
        BY <2>1, ZSetHere
      <3> QED
        BY <1>4, <3>2, <3>3 DEF O!GetOrCreate, O!EmptyZSet
    <2>2. CASE val # None
      BY <1>1, <1>2, <1>4, <2>2, ZSetHere DEF O!GetOrCreate, Existing
    <2> QED
      BY <2>1, <2>2
  <1>6. /\ h # None /\ h.type = "zset" /\ h.val = mp
        /\ \A t : [h EXCEPT !.val = t] = O!NewObj("zset", t)
    BY <1>3, <1>5, ZSetObj
  <1>7. PICK y : y = ZSetAdd(z, m, s, lvl)
    OBVIOUS
  <1>8. PICK n : n = Map(y.ht, Members)
    OBVIOUS
  <1>9. Apart(z.ht, m)
    BY <1>1, NoTwins
  <1>10. /\ FineZ(y) /\ Bound(mp, m, s, n, Members)
         /\ DOMAIN y.sl.node \subseteq DOMAIN z.sl.node \cup 1 .. y.sl.length
         /\ y.sl.length <= z.sl.length + 1
    BY <1>2, <1>3, <1>7, <1>8, <1>9, AddAgrees
  <1>11. DOMAIN y.sl.node \subseteq 0 .. MaxLen + 1
    <2>1. MaxLen \in Nat /\ y.sl.length \in Nat /\ z.sl.length \in Nat
      BY <1>3, <1>10, BoundsAreNumbers, FineMap
    <2>2. y.sl.length <= MaxLen + 1
      BY <1>3, <1>10, <2>1 DEF Roomy
    <2>3. 1 .. y.sl.length \subseteq 0 .. MaxLen + 1
      BY <2>1, <2>2
    <2> QED
      BY <1>3, <1>10, <2>3, RoomyIs
  <1>12. Abs(y) = O!NewObj("zset", n)
    BY <1>8, <1>10, <1>11, AbsZSet
  <1>13. PICK pm : pm = AsMap(<<<<m, s>>>>, Members)
    OBVIOUS
  <1>14. None \notin Scores
    BY NoneIsNoData
  <1>15. Cardinality(O!Present(pm)) = 1
    BY <1>13, <1>14, OneMap
  <1>16. n = [f \in Members |-> IF pm[f] # None THEN pm[f] ELSE mp[f]]
    <2>1. PICK p \in Members \X Scores : p = <<m, s>>
      OBVIOUS
    <2>2. p[1] = m /\ p[2] = s
      BY <2>1
    <2>3. Bound(mp, p[1], p[2], n, Members) /\ pm = AsMap(<<p>>, Members)
      BY <1>10, <1>13, <2>1, <2>2
    <2>4. \E k : Joined(mp, pm, n, k, Members)
      BY <1>3, <1>14, <2>3, Joined1
    <2> QED
      BY <2>4 DEF Joined
  <1>17. [h EXCEPT !.val = [f \in Members |-> IF pm[f] # None THEN pm[f] ELSE h.val[f]]] =
             O!NewObj("zset", n)
    BY <1>6, <1>16
  <1>18. O!ZAddTo(Here, pm) = O!Result(O!NewObj("zset", n), Integer(1))
    <2>1. PICK w : w = [h EXCEPT !.val = [f \in Members |-> IF pm[f] # None THEN pm[f]
                                                            ELSE h.val[f]]]
      OBVIOUS
    <2>2. O!ZAddTo(Here, pm) =
              O!Strict(h, "zset", O!Result(h, O!NullBulk),
                  O!Result(w, O!Integer(Cardinality(O!Present(pm)))))
      BY <1>4, <2>1, SameCardinality DEF O!ZAddTo
    <2>3. O!ZAddTo(Here, pm) = O!Result(w, O!Integer(1))
      BY <1>6, <1>15, <2>2 DEF O!Strict
    <2> QED
      BY <1>17, <2>1, <2>3 DEF O!Integer, Integer, O!Reply, Reply
  <1>19. ZAdd(m, s, lvl) = Result(y, Integer(1))
    BY <1>1, <1>7 DEF ZAdd
  <1> QED
    BY <1>12, <1>13, <1>18, <1>19 DEF Is, Result

\* ZREM.
LEMMA ZRemAgrees ==
    ASSUME FineInv, type = "zset", ~odd, NEW ms \in Upto2(Members)
    PROVE  Is(ZRem(ms), O!ZRemOf(Here, Range(ms)))
  <1>1. CASE val = None
    <2>1. Here = None
      BY <1>1, ZSetHere
    <2>2. ZRem(ms) = Result(None, Integer(0))
      BY <1>1 DEF ZRem
    <2>3. O!ZRemOf(Here, Range(ms)) = O!Result(None, Integer(0))
      BY <2>1 DEF O!ZRemOf, O!Lenient, O!Integer, Integer, O!Reply, Reply
    <2>4. Abs(None) = None
      BY DEF Abs
    <2> QED
      BY <2>2, <2>3, <2>4 DEF Is, Result
  <1>2. CASE val # None
    <2>1. PICK mp : mp = Map(val.ht, Members)
      OBVIOUS
    <2>2. PICK h : h = Here
      OBVIOUS
    <2>3. /\ FineZ(val) /\ Roomy(val, MaxLen)
          /\ mp \in [Members -> Scores \cup {None}] /\ h = O!NewObj("zset", mp)
      BY <1>2, <2>1, <2>2, ZSetHere
    <2>4. /\ h # None /\ h.type = "zset" /\ h.val = mp
          /\ \A t : [h EXCEPT !.val = t] = O!NewObj("zset", t)
      BY <2>3, ZSetObj
    <2>5. PICK c : c = RemAll(Result(val, Integer(0)), ms)
      OBVIOUS
    <2>6. ZRem(ms) = c
      BY <1>2, <2>5 DEF ZRem, RemAll
    <2>7. PICK n : n = Map(c.val.ht, Members)
      OBVIOUS
    <2>8. PICK F : F = Range(ms)
      OBVIOUS
    <2>9. PICK k : ZRemoved(val, ms, c, k)
      BY <2>3, <2>5, RemAllAgrees
    <2>10. /\ FineZ(c.val) /\ Shrunk(val, c.val) /\ c = Result(c.val, Integer(k))
           /\ Cleared(mp, F, n, k, Members)
      BY <2>1, <2>7, <2>8, <2>9 DEF ZRemoved
    <2>11. DOMAIN c.val.sl.node \subseteq 0 .. MaxLen + 1
      BY <2>3, <2>10, RoomyIs DEF Shrunk
    <2>12. Abs(c.val) = O!NewObj("zset", n)
      BY <2>7, <2>10, <2>11, AbsZSet
    <2>13. PICK w : w = [h EXCEPT !.val = [f \in Members |-> IF f \in F THEN None
                                                             ELSE h.val[f]]]
      OBVIOUS
    <2>14. w = O!NewObj("zset", n)
      BY <2>4, <2>10, <2>13 DEF Cleared
    <2>15. O!ZRemOf(h, F) = O!Lenient(h, "zset", O!Result(h, O!Integer(0)),
               O!Result(w, O!Integer(Cardinality(F \cap O!Present(h.val)))))
      BY <2>13, SameCardinality DEF O!ZRemOf
    <2>16. Cardinality(F \cap O!Present(h.val)) = k
      BY <2>4, <2>10 DEF Cleared
    <2>17. O!ZRemOf(h, F) = O!Result(w, O!Integer(k))
      BY <2>4, <2>15, <2>16 DEF O!Lenient
    <2>18. O!ZRemOf(h, F) = O!Result(O!NewObj("zset", n), Integer(k))
      BY <2>14, <2>17 DEF O!Integer, Integer, O!Reply, Reply
    <2> QED
      BY <2>2, <2>6, <2>8, <2>10, <2>12, <2>18 DEF Is, Result
  <1> QED
    BY <1>1, <1>2

\* b is the members of z as its list meets them, k of them.
Lined(z, b, k) ==
    /\ k \in Nat /\ k = z.sl.length /\ Len(Chain(z.sl, 1)) = k
    /\ b = [i \in 1 .. k |-> z.sl.node[Chain(z.sl, 1)[i]].member]
    /\ \A i \in 1 .. k : Chain(z.sl, 1)[i] \in Inner(z.sl) /\ b[i] \in Members
    /\ \A i \in 1 .. k : PlaceOf(z.sl, b[i]) = i
    /\ \A m : Missing(z.sl, m) => PlaceOf(z.sl, m) = 0

\* As Objects ranks them.
Rated(mp, b, k) ==
    /\ O!Present(mp) = {b[i] : i \in 1 .. k} /\ Cardinality(O!Present(mp)) = k
    /\ \A i \in 1 .. k : O!RankOf(mp, b[i]) = i - 1

\* The order of the nodes is that of their members.
LEMMA LinedUp ==
    ASSUME NEW z, FineZ(z), NEW mp, mp = Map(z.ht, Members)
    PROVE  \E b, k : Lined(z, b, k) /\ Rated(mp, b, k)
  <1>1. PICK sl : sl = z.sl
    OBVIOUS
  <1>2. PICK pos : Ordered(sl, pos)
    BY <1>1 DEF FineZ
  <1>3. Tower(sl, pos) /\ Sorted(sl, pos, Members, Scores)
    BY <1>2 DEF Ordered
  <1>4. PICK c : c = Chain(sl, 1)
    OBVIOUS
  <1>5. PICK k \in Nat :
           /\ k = sl.length /\ Len(c) = k /\ DOMAIN c = 1 .. k
           /\ Inner(sl) = {c[i] : i \in 1 .. k}
           /\ \A i, j \in 1 .. k : c[i] = c[j] => i = j
           /\ \A i, j \in 1 .. k : i < j =>
                 Earlier(sl.node[c[i]].score, StrRank[sl.node[c[i]].member],
                         sl.node[c[j]].score, StrRank[sl.node[c[j]].member])
    BY <1>3, <1>4, RankedMembers, ChainSorted
  <1>6. PICK H : H = Held(z.ht.buckets)
    OBVIOUS
  <1>7. MapOf(mp, H, Members, Scores) /\ Indexes(H, sl)
    <2>1. IsDict(z.ht, Members, Scores)
      BY DEF FineZ
    <2> QED
      BY <1>1, <1>6, <2>1, DictMap DEF FineZ
  <1>8. PICK b : b = [i \in 1 .. k |-> sl.node[c[i]].member]
    OBVIOUS
  <1>9. PICK s : s = [i \in 1 .. k |-> sl.node[c[i]].score]
    OBVIOUS
  <1>10. ASSUME NEW i \in 1 .. k
         PROVE  /\ c[i] \in Inner(sl) /\ b[i] \in Members /\ s[i] \in Scores
                /\ b[i] = sl.node[c[i]].member /\ s[i] = sl.node[c[i]].score
                /\ mp[b[i]] = s[i]
    <2>1. c[i] \in Inner(sl) /\ b[i] = sl.node[c[i]].member /\ s[i] = sl.node[c[i]].score
      BY <1>5, <1>8, <1>9
    <2>2. b[i] \in Members /\ s[i] \in Scores
      BY <1>3, <2>1 DEF Sorted
    <2>3. PICK e \in H : e = Entry(sl, c[i])
      BY <1>7, <2>1 DEF Indexes
    <2>4. e.key = b[i] /\ e.val = s[i]
      BY <2>1, <2>3 DEF Entry
    <2>5. mp[e.key] = e.val
      BY <1>7 DEF MapOf
    <2> QED
      BY <2>1, <2>2, <2>4, <2>5
  <1>11. O!Present(mp) = {b[i] : i \in 1 .. k}
    <2>1. O!Present(mp) = {m \in Members : mp[m] # None}
      BY <1>7 DEF O!Present, MapOf
    <2>2. \A i \in 1 .. k : b[i] \in Members /\ mp[b[i]] # None
      BY <1>10, NoneIsNoData
    <2>3. ASSUME NEW m \in Members, mp[m] # None PROVE \E i \in 1 .. k : m = b[i]
      <3>1. PICK e \in H : e = [key |-> m, val |-> mp[m]]
        BY <1>7, <2>3 DEF MapOf
      <3>2. PICK a \in Inner(sl) : e = Entry(sl, a)
        BY <1>7 DEF Indexes
      <3>3. m = sl.node[a].member
        <4>1. e.key = m
          BY <3>1
        <4> QED
          BY <3>2, <4>1 DEF Entry
      <3>4. PICK i \in 1 .. k : a = c[i]
        BY <1>5
      <3> QED
        BY <1>10, <3>3, <3>4
    <2> QED
      BY <2>1, <2>2, <2>3
  <1>12. Different(b, k)
    <2>1. ASSUME NEW i \in 1 .. k, NEW j \in 1 .. k, b[i] = b[j] PROVE i = j
      <3>1. c[i] = c[j]
        BY <1>3, <1>10, <2>1 DEF Sorted
      <3> QED
        BY <1>5, <3>1
    <2> QED
      BY <1>8, <2>1 DEF Different
  <1>13. Cardinality(O!Present(mp)) = k
    BY <1>11, <1>12, Numbered
  <1>14. ASSUME NEW i \in 1 .. k, NEW j \in 1 .. k
         PROVE  O!Precedes(mp, b[i], b[j]) <=> i < j
    <2>1. PICK p \in Int, q \in Int : p = StrRank[b[i]] /\ q = StrRank[b[j]]
      BY <1>10, RanksAreNumbers
    <2>2. PICK t \in Int, u \in Int : t = s[i] /\ u = s[j]
      BY <1>10, ScoresAreNumbers
    <2>3. O!Precedes(mp, b[i], b[j]) <=> (t < u \/ (t = u /\ p < q))
      BY <1>10, <2>1, <2>2 DEF O!Precedes
    <2>4. i < j => (t < u \/ (t = u /\ p < q))
      BY <1>5, <1>10, <2>1, <2>2 DEF Earlier
    <2>5. j < i => (u < t \/ (u = t /\ q < p))
      BY <1>5, <1>10, <2>1, <2>2 DEF Earlier
    <2>6. i = j => t = u /\ p = q
      BY <2>1, <2>2
    <2> QED
      BY <2>3, <2>4, <2>5, <2>6
  <1>15. ASSUME NEW j \in 1 .. k PROVE O!RankOf(mp, b[j]) = j - 1
    <2>1. PICK n \in Nat : n = j - 1
      OBVIOUS
    <2>2. PICK S : S = {m \in O!Present(mp) : O!Precedes(mp, m, b[j])}
      OBVIOUS
    <2>3. PICK f : f = [i \in 1 .. n |-> b[i]]
      OBVIOUS
    <2>4. \A i \in 1 .. n : i \in 1 .. k /\ i < j
      BY <2>1
    <2>5. \A i \in 1 .. k : i < j => i \in 1 .. n
      BY <2>1
    <2>6. S = {f[i] : i \in 1 .. n}
      BY <1>11, <1>14, <2>2, <2>3, <2>4, <2>5
    <2>7. Different(f, n)
      BY <1>12, <2>3, <2>4 DEF Different
    <2>8. Cardinality(S) = n
      BY <2>6, <2>7, Numbered
    <2> QED
      BY <2>1, <2>2, <2>8, SameCardinality DEF O!RankOf
  <1>16. \A m : Missing(sl, m) => PlaceOf(sl, m) = 0
    BY <1>3, <1>4, <1>5, PlaceIn
  <1>17. \A i \in 1 .. k : PlaceOf(sl, b[i]) = i
    <2>1. \A i \in 1 .. k : PlaceOf(sl, sl.node[c[i]].member) = i
      BY <1>3, <1>4, <1>5, PlaceIn
    <2> QED
      BY <1>10, <2>1
  <1>18. Lined(z, b, k)
    BY <1>1, <1>4, <1>5, <1>8, <1>10, <1>16, <1>17 DEF Lined
  <1>19. Rated(mp, b, k)
    BY <1>11, <1>13, <1>15 DEF Rated
  <1> QED
    BY <1>18, <1>19

\* So the order Objects gives the members is the list's.
LEMMA OrderIs ==
    ASSUME NEW mp, NEW b, NEW k \in Nat, DOMAIN b = 1 .. k, b = [i \in 1 .. k |-> b[i]],
           Rated(mp, b, k)
    PROVE  O!InOrder(mp) = b
  <1>1. ASSUME NEW i \in 1 .. k
        PROVE  (CHOOSE m \in O!Present(mp) : O!RankOf(mp, m) = i - 1) = b[i]
    <2>1. b[i] \in O!Present(mp) /\ O!RankOf(mp, b[i]) = i - 1
      BY DEF Rated
    <2>2. ASSUME NEW m \in O!Present(mp), O!RankOf(mp, m) = i - 1 PROVE m = b[i]
      <3>1. PICK j \in 1 .. k : m = b[j]
        BY DEF Rated
      <3>2. j - 1 = i - 1
        BY <2>2, <3>1 DEF Rated
      <3> QED
        BY <3>1, <3>2
    <2> QED
      BY <2>1, <2>2
  <1>2. O!InOrder(mp) = [i \in 1 .. k |-> CHOOSE m \in O!Present(mp) : O!RankOf(mp, m) = i - 1]
    BY SameCardinality DEF O!InOrder, Rated
  <1> QED
    BY <1>1, <1>2

\* ZSCORE.
LEMMA ZScoreAgrees ==
    ASSUME FineInv, type = "zset", ~odd, NEW m \in Members
    PROVE  Is(ZScore(m), O!ZScoreOf(Here, m))
  <1>1. /\ O!NullBulk = NullBulk
        /\ \A e : O!Bulk(e) = Bulk(e)
    BY DEF O!Bulk, Bulk, O!Reply, Reply, O!NullBulk, NullBulk, O!Simple, Simple
  <1>2. CASE val = None
    <2>1. Here = None
      BY <1>2, ZSetHere
    <2>2. ZScore(m) = Result(None, NullBulk)
      BY <1>2 DEF ZScore
    <2>3. O!ZScoreOf(Here, m) = O!Result(None, NullBulk)
      BY <1>1, <2>1 DEF O!ZScoreOf, O!Lenient
    <2>4. Abs(None) = None
      BY DEF Abs
    <2> QED
      BY <2>2, <2>3, <2>4 DEF Is, Result
  <1>3. CASE val # None
    <2>1. PICK mp : mp = Map(val.ht, Members)
      OBVIOUS
    <2>2. PICK h : h = Here
      OBVIOUS
    <2>3. mp \in [Members -> Scores \cup {None}] /\ h = O!NewObj("zset", mp)
      BY <1>3, <2>1, <2>2, ZSetHere
    <2>4. h # None /\ h.type = "zset" /\ h.val = mp
      BY <2>3, ZSetObj
    <2>5. PICK v : v = DictGet(val.ht, m)
      OBVIOUS
    <2>6. mp[m] = v
      BY <2>1, <2>5 DEF Map
    <2>7. ZScore(m) = Result(val, IF v = None THEN NullBulk ELSE Bulk(O!Decimal(v)))
      BY <1>3, <2>5 DEF ZScore
    <2>8. O!ZScoreOf(h, m) = O!Result(h, IF v = None THEN NullBulk ELSE Bulk(O!Decimal(v)))
      BY <1>1, <2>4, <2>6 DEF O!ZScoreOf, O!Lenient
    <2> QED
      BY <2>2, <2>7, <2>8 DEF Is, Result, Here
  <1> QED
    BY <1>2, <1>3

\* ZCARD.
LEMMA ZCardAgrees ==
    ASSUME FineInv, type = "zset", ~odd
    PROVE  Is(ZCard, O!ZCardOf(Here))
  <1>1. CASE val = None
    <2>1. Here = None
      BY <1>1, ZSetHere
    <2>2. ZCard = Result(None, Integer(0))
      BY <1>1 DEF ZCard
    <2>3. O!ZCardOf(Here) = O!Result(None, Integer(0))
      BY <2>1 DEF O!ZCardOf, O!Lenient, O!Integer, Integer, O!Reply, Reply
    <2>4. Abs(None) = None
      BY DEF Abs
    <2> QED
      BY <2>2, <2>3, <2>4 DEF Is, Result
  <1>2. CASE val # None
    <2>1. PICK mp : mp = Map(val.ht, Members)
      OBVIOUS
    <2>2. PICK h : h = Here
      OBVIOUS
    <2>3. FineZ(val) /\ mp \in [Members -> Scores \cup {None}] /\ h = O!NewObj("zset", mp)
      BY <1>2, <2>1, <2>2, ZSetHere
    <2>4. h # None /\ h.type = "zset" /\ h.val = mp
      BY <2>3, ZSetObj
    <2>5. PICK k : k = val.sl.length /\ Cardinality(O!Present(mp)) = k
      BY <2>1, <2>3, LinedUp DEF Lined, Rated
    <2>6. ZCard = Result(val, Integer(k))
      BY <1>2, <2>5 DEF ZCard
    <2>7. O!ZCardOf(h) = O!Result(h, O!Integer(Cardinality(O!Present(mp))))
      BY <2>4, SameCardinality DEF O!ZCardOf, O!Lenient
    <2>8. O!ZCardOf(h) = O!Result(h, Integer(k))
      BY <2>5, <2>7 DEF O!Integer, Integer, O!Reply, Reply
    <2> QED
      BY <2>2, <2>6, <2>8 DEF Is, Result, Here
  <1> QED
    BY <1>1, <1>2

\* ZRANK.
LEMMA ZRankAgrees ==
    ASSUME FineInv, type = "zset", ~odd, NEW m \in Members, Twins(m) = {}
    PROVE  Is(ZRank(m), O!ZRankOf(Here, m))
  <1>1. /\ O!NullBulk = NullBulk
        /\ \A e : O!Integer(e) = Integer(e)
    BY DEF O!Integer, Integer, O!Reply, Reply, O!NullBulk, NullBulk, O!Simple, Simple
  <1>2. CASE val = None
    <2>1. Here = None
      BY <1>2, ZSetHere
    <2>2. ZRank(m) = Result(None, NullBulk)
      BY <1>2 DEF ZRank
    <2>3. O!ZRankOf(Here, m) = O!Result(None, NullBulk)
      BY <1>1, <2>1 DEF O!ZRankOf, O!Lenient
    <2>4. Abs(None) = None
      BY DEF Abs
    <2> QED
      BY <2>2, <2>3, <2>4 DEF Is, Result
  <1>3. CASE val # None
    <2>1. PICK mp : mp = Map(val.ht, Members)
      OBVIOUS
    <2>2. PICK h : h = Here
      OBVIOUS
    <2>3. FineZ(val) /\ mp \in [Members -> Scores \cup {None}] /\ h = O!NewObj("zset", mp)
      BY <1>3, <2>1, <2>2, ZSetHere
    <2>4. h # None /\ h.type = "zset" /\ h.val = mp
      BY <2>3, ZSetObj
    <2>5. PICK b, k : Lined(val, b, k) /\ Rated(mp, b, k)
      BY <2>1, <2>3, LinedUp
    <2>6. PICK r : r = SlRank(val.sl, m)
      OBVIOUS
    <2>7. ZRank(m) = Result(val, IF r < 0 THEN NullBulk ELSE Integer(r))
      BY <1>3, <2>6 DEF ZRank
    <2>8. O!ZRankOf(h, m) =
              O!Result(h, IF mp[m] = None THEN NullBulk ELSE Integer(O!RankOf(mp, m)))
      BY <1>1, <2>4 DEF O!ZRankOf, O!Lenient
    <2>9. mp[m] = DictGet(val.ht, m)
      BY <2>1 DEF Map
    <2>10. CASE mp[m] = None
      <3>1. Apart(val.ht, m)
        BY <1>3, NoTwins DEF Existing
      <3>2. \A n \in Members : StrRank[n] = StrRank[m] => DictGet(val.ht, n) = None
        BY <2>9, <2>10, <3>1 DEF Apart
      <3>3. PICK pos : Ordered(val.sl, pos)
        BY <2>3 DEF FineZ
      <3>4. Missing(val.sl, m)
        BY <2>3, <3>2, <3>3, NoNodeOf DEF FineZ
      <3>5. r = -1
        BY <2>5, <2>6, <3>4 DEF Lined, SlRank
      <3> QED
        BY <2>2, <2>7, <2>8, <2>10, <3>5 DEF Is, Result, Here
    <2>11. CASE mp[m] # None
      <3>1. m \in O!Present(mp)
        BY <2>3, <2>11 DEF O!Present
      <3>2. PICK i \in 1 .. k : m = b[i]
        BY <2>5, <3>1 DEF Rated
      <3>3. r = i - 1 /\ O!RankOf(mp, m) = r /\ i \in Nat \ {0}
        <4>1. k \in Nat /\ PlaceOf(val.sl, m) = i
          BY <2>5, <3>2 DEF Lined
        <4>2. O!RankOf(mp, m) = i - 1
          BY <2>5, <3>2 DEF Rated
        <4> QED
          BY <2>6, <4>1, <4>2 DEF SlRank
      <3>4. ~(r < 0)
        BY <3>3
      <3> QED
        BY <2>2, <2>7, <2>8, <2>11, <3>3, <3>4 DEF Is, Result, Here
    <2> QED
      BY <2>10, <2>11
  <1> QED
    BY <1>2, <1>3

\* ZRANGE.
LEMMA ZRangeAgrees ==
    ASSUME FineInv, type = "zset", ~odd, NEW i \in Indices, NEW j \in Indices, NoNul(val)
    PROVE  Is(ZRange(i, j), O!ZRangeOf(Here, i, j, FALSE))
  <1>1. i \in Int /\ j \in Int /\ OutMax \in Nat
    BY BoundsAreNumbers
  <1>2. \A n, q : O!Array(n, q) = Array(n, q)
    BY DEF O!Array, Array, O!Reply, Reply
  <1> DEFINE ref == O!ZRangeOf(Here, i, j, FALSE)
  <1>3. CASE val = None
    <2>1. Here = None
      BY <1>3, ZSetHere
    <2>2. PICK at : at = << >>
      OBVIOUS
    <2>3. PICK out : out = [p \in DOMAIN at |-> CStr[val.sl.node[at[p]].member]]
      OBVIOUS
    <2>4. ZRange(i, j) = Result(None, Array(Len(at), out))
      BY <1>3, <2>2, <2>3 DEF ZRange
    <2>5. Len(at) = 0 /\ DOMAIN at = {}
      BY <2>2
    <2>6. out = << >>
      BY <2>3, <2>5
    <2>7. PICK r : r = Array(0, << >>)
      OBVIOUS
    <2>8. ZRange(i, j) = Result(None, r)
      BY <2>4, <2>5, <2>6, <2>7
    <2>9. ref = O!Result(None, r)
      BY <1>2, <2>1, <2>7 DEF O!ZRangeOf, O!Lenient
    <2>10. Abs(None) = None
      BY DEF Abs
    <2> HIDE DEF ref
    <2>11. Is(ZRange(i, j), ref)
      BY <2>8, <2>9, <2>10 DEF Is, Result
    <2> QED
      BY <2>11, Zenon DEF ref
  <1>4. CASE val # None
    <2>1. PICK mp : mp = Map(val.ht, Members)
      OBVIOUS
    <2>2. PICK h : h = Here
      OBVIOUS
    <2>3. FineZ(val) /\ mp \in [Members -> Scores \cup {None}] /\ h = O!NewObj("zset", mp)
      BY <1>4, <2>1, <2>2, ZSetHere
    <2>4. h # None /\ h.type = "zset" /\ h.val = mp
      BY <2>3, ZSetObj
    <2>5. PICK b, k : Lined(val, b, k) /\ Rated(mp, b, k)
      BY <2>1, <2>3, LinedUp
    <2>6. PICK sl : sl = val.sl
      OBVIOUS
    <2>7. PICK c : c = Chain(sl, 1)
      OBVIOUS
    <2>8. /\ k \in Nat /\ k = sl.length /\ Len(c) = k
          /\ b = [p \in 1 .. k |-> sl.node[c[p]].member]
          /\ \A p \in 1 .. k : c[p] \in Inner(sl) /\ b[p] \in Members
      BY <2>5, <2>6, <2>7 DEF Lined
    <2>9. PICK s \in Nat : s = First(i, k)
      BY <1>1, <2>8, TakenIs
    <2>10. PICK e \in Int : e = Final(j, k)
      BY <1>1, <2>8, TakenIs
    <2>11. PICK m \in Int : m = Taken(i, j, k, OutMax)
      BY <1>1, <2>8, TakenIs
    <2>12. \A p \in 1 .. m : s + p \in 1 .. k
      BY <1>1, <2>8, <2>9, <2>11, TakenIs
    <2>13. PICK at : at = [p \in 1 .. m |-> c[s + p]]
      OBVIOUS
    <2>14. SlRange(sl, i, j, OutMax) = at
      <3>1. /\ Max({0, IF i < 0 THEN sl.length + i ELSE i}) = s
            /\ Min({sl.length - 1, IF j < 0 THEN sl.length + j ELSE j}) = e
            /\ Min({OutMax, e - s + 1, Len(Chain(sl, 1)) - s}) = m
        <4>1. k \in Nat
          BY <2>8
        <4>2. PICK x \in Int : x = O!NormalizeIndex(i, k) /\ x = IF i < 0 THEN k + i ELSE i
          BY <1>1, <4>1 DEF O!NormalizeIndex
        <4>3. PICK y \in Int : y = O!NormalizeIndex(j, k) /\ y = IF j < 0 THEN k + j ELSE j
          BY <1>1, <4>1 DEF O!NormalizeIndex
        <4>4. Bounded(x, y, k, OutMax, s, e, m)
          BY <1>1, <2>9, <2>10, <2>11, <4>1, <4>2, <4>3, BoundsAre
        <4> QED
          BY <2>7, <2>8, <4>2, <4>3, <4>4 DEF Bounded
      <3> QED
        BY <2>7, <2>13, <3>1 DEF SlRange
    <2>15. PICK out : out = [p \in 1 .. m |-> b[s + p]]
      OBVIOUS
    <2>16. [p \in DOMAIN at |-> CStr[sl.node[at[p]].member]] = out
      <3>1. ASSUME NEW p \in 1 .. m PROVE CStr[sl.node[at[p]].member] = b[s + p]
        <4>1. at[p] = c[s + p] /\ c[s + p] \in Inner(sl) /\ b[s + p] = sl.node[c[s + p]].member
          BY <2>8, <2>12, <2>13
        <4>2. \A a \in Inner(sl) : CStr[sl.node[a].member] = sl.node[a].member
          BY <1>4, <2>6 DEF NoNul, Inner
        <4> QED
          BY <4>1, <4>2
      <3> QED
        BY <2>13, <2>15, <3>1
    <2>17. O!InOrder(mp) = b
      BY <2>5, <2>8, OrderIs
    <2>18. b \in Seq(Members) /\ Len(b) = k
      <3>1. b \in [1 .. k -> Members]
        BY <2>8
      <3> QED
        BY <2>8, <3>1, SeqOfFun
    <2>19. O!RangeByRank(b, i, j, OutMax) = out
      <3>1. O!RangeByRank(b, i, j, OutMax) =
                [p \in 1 .. Taken(i, j, k, OutMax) |-> b[First(i, k) + p]]
        <4>1. k \in Nat /\ i \in Int /\ j \in Int
          BY <1>1, <2>8
        <4> QED
          BY <1>1, <2>18, <4>1, RankRange
      <3> QED
        BY <2>9, <2>11, <2>15, <3>1
    <2>20. Len(at) = Len(out)
      <3>1. PICK q \in Nat : 1 .. m = 1 .. q
        <4>1. CASE m \in Nat
          BY <4>1
        <4>2. CASE m \notin Nat
          <5>1. 1 .. m = {} /\ 1 .. 0 = {}
            BY <4>2
          <5> QED
            BY <5>1
        <4> QED
          BY <4>1, <4>2
      <3>2. Len([p \in 1 .. q |-> c[s + p]]) = q /\ Len([p \in 1 .. q |-> b[s + p]]) = q
        OBVIOUS
      <3> QED
        BY <2>13, <2>15, <3>1, <3>2
    <2>21. PICK r : r = Array(Len(out), out)
      OBVIOUS
    <2>22. ZRange(i, j) = Result(val, r)
      BY <1>4, <2>6, <2>14, <2>16, <2>20, <2>21 DEF ZRange
    <2>23. ref = O!Result(h, r)
      BY <1>2, <2>2, <2>4, <2>17, <2>19, <2>21 DEF O!ZRangeOf, O!Lenient
    <2> HIDE DEF ref
    <2>24. Is(ZRange(i, j), ref)
      BY <2>2, <2>22, <2>23 DEF Is, Result, Here
    <2> QED
      BY <2>24, Zenon DEF ref
  <1> QED
    BY <1>3, <1>4

\* So does every sorted-set command, with any choice of levels, as long as no score
\* is NaN and no two members are strcmp-equal (zset.cpp, skiplist.cpp).
THEOREM ZSetsRefine == Spec => []ZSetsAsObjects
  <1>1. Init => FineInv
    BY DEF Init, FineInv
  <1>2. FineInv => ZSetsAsObjects
    <2> SUFFICES ASSUME FineInv, type = "zset", ~odd PROVE ZSetsAsObjects
      BY DEF ZSetsAsObjects
    <2>1. \A m \in Members, s \in Scores, lvl \in 1 .. MaxLevel : Twins(m) = {} =>
              Is(ZAdd(m, s, lvl), O!ZAddTo(Here, AsMap(<<<<m, s>>>>, Members)))
      BY ZAddAgrees
    <2>2. \A ms \in Upto2(Members) : Is(ZRem(ms), O!ZRemOf(Here, Range(ms)))
      BY ZRemAgrees
    <2>3. \A m \in Members : Is(ZScore(m), O!ZScoreOf(Here, m))
      BY ZScoreAgrees
    <2>4. \A m \in Members : Twins(m) = {} => Is(ZRank(m), O!ZRankOf(Here, m))
      BY ZRankAgrees
    <2>5. \A i, j \in Indices : NoNul(val) => Is(ZRange(i, j), O!ZRangeOf(Here, i, j, FALSE))
      BY ZRangeAgrees
    <2>6. Is(ZCard, O!ZCardOf(Here))
      BY ZCardAgrees
    <2> QED
      BY <2>1, <2>2, <2>3, <2>4, <2>5, <2>6 DEF ZSetsAsObjects
  <1> QED
    BY <1>1, <1>2, FineStep, Inductive, PTL DEF Spec
=============================================================================
