--------------------------- MODULE SequenceLemmas ---------------------------
(***************************************************************************)
(* Facts about sequences whose elements are of no particular set: cutting  *)
(* one in two, joining them again, and prefixes.  The event loop moves     *)
(* replies from buffer to buffer and never looks at them.                  *)
(*                                                                         *)
(* And about numbers: the least of a set, induction, counting.             *)
(***************************************************************************)
EXTENDS SequencesExt, SequenceTheorems, FiniteSetTheorems, FunctionTheorems,
        WellFoundedInduction, TLAPS

\* s is a finite sequence of whatever.
IsSeq(s) == s \in Seq(Range(s))

\* Whatever set its elements are of.
LEMMA IsSeqOver == ASSUME NEW S, NEW s \in Seq(S) PROVE IsSeq(s)
  BY SeqOfRange DEF IsSeq

\* The empty buffer.
LEMMA EmptyIsSeq == IsSeq(<< >>)
  BY IsSeqOver, EmptySeq

\* Two sequences have a set in common that holds their elements.
LEMMA Together ==
    ASSUME NEW s, NEW t, IsSeq(s), IsSeq(t)
    PROVE  \E S : s \in Seq(S) /\ t \in Seq(S)
  <1>1. s \in Seq(Range(s) \cup Range(t)) /\ t \in Seq(Range(s) \cup Range(t))
    BY SeqMonotonic DEF IsSeq
  <1> QED
    BY <1>1

\* Joining keeps sequences.
LEMMA ConcatIsSeq ==
    ASSUME NEW s, NEW t, IsSeq(s), IsSeq(t)
    PROVE  IsSeq(s \o t)
  <1>1. PICK S : s \in Seq(S) /\ t \in Seq(S)
    BY Together
  <1> QED
    BY <1>1, ConcatProperties, IsSeqOver

\* In which order they are joined does not matter.
LEMMA ConcatAssoc ==
    ASSUME NEW s, NEW t, NEW u, IsSeq(s), IsSeq(t), IsSeq(u)
    PROVE  (s \o t) \o u = s \o (t \o u)
  <1> DEFINE S == Range(s) \cup Range(t) \cup Range(u)
  <1>1. s \in Seq(S) /\ t \in Seq(S) /\ u \in Seq(S)
    BY SeqMonotonic DEF IsSeq
  <1> HIDE DEF S
  <1> QED
    BY <1>1, ConcatAssociative

\* Joining with nothing.
LEMMA ConcatEmpty ==
    ASSUME NEW s, IsSeq(s) PROVE s \o << >> = s /\ << >> \o s = s
  BY ConcatEmptySeq DEF IsSeq

\* Appending is joining with one element.
LEMMA AppendIsSeq ==
    ASSUME NEW s, NEW x, IsSeq(s)
    PROVE  IsSeq(Append(s, x)) /\ IsSeq(<<x>>) /\ Append(s, x) = s \o <<x>>
  <1> DEFINE S == Range(s) \cup {x}
  <1>1. s \in Seq(S) /\ x \in S
    BY SeqMonotonic DEF IsSeq
  <1>2. <<x>> \in Seq(S)
    BY <1>1
  <1> HIDE DEF S
  <1> QED
    BY <1>1, <1>2, AppendProperties, AppendIsConcat, IsSeqOver

\* Nothing is lost when a sequence is cut in two.
LEMMA Cut ==
    ASSUME NEW s, IsSeq(s), NEW n \in 0 .. Len(s)
    PROVE  /\ IsSeq(SubSeq(s, 1, n)) /\ IsSeq(SubSeq(s, n + 1, Len(s)))
           /\ Len(SubSeq(s, 1, n)) = n
           /\ SubSeq(s, 1, n) \o SubSeq(s, n + 1, Len(s)) = s
  <1>1. s \in Seq(Range(s)) /\ Len(s) \in Nat
    BY LenProperties DEF IsSeq
  <1>2. SubSeq(s, 1, n) \in Seq(Range(s)) /\ SubSeq(s, n + 1, Len(s)) \in Seq(Range(s))
    BY <1>1
  <1>3. SubSeq(s, 1, n) \o SubSeq(s, n + 1, Len(s)) = SubSeq(s, 1, Len(s))
    <2>1. 1 \in 1 .. Len(s) + 1 /\ n \in 1 - 1 .. Len(s) /\ Len(s) \in n .. Len(s)
      BY <1>1
    <2> QED
      BY <1>1, <2>1, ConcatAdjacentSubSeq
  <1>4. SubSeq(s, 1, Len(s)) = s
    BY <1>1, SubSeqFull
  <1>5. Len(SubSeq(s, 1, n)) = n
    BY <1>1
  <1> QED
    BY <1>2, <1>3, <1>4, <1>5, IsSeqOver

\* Taking the first element leaves the rest.
LEMMA HeadAndTail ==
    ASSUME NEW s, IsSeq(s), s # << >>
    PROVE  IsSeq(Tail(s)) /\ <<Head(s)>> \o Tail(s) = s /\ Len(Tail(s)) = Len(s) - 1
  <1>1. s \in Seq(Range(s)) /\ Len(s) \in Nat \ {0}
    BY EmptySeq DEF IsSeq
  <1>2. SubSeq(s, 1, Len(s)) = << s[1] >> \o SubSeq(s, 2, Len(s))
    BY <1>1, SubSeqRecursiveFirst
  <1>3. SubSeq(s, 1, Len(s)) = s /\ Tail(s) = SubSeq(s, 2, Len(s)) /\ Head(s) = s[1]
    BY <1>1, SubSeqFull, TailIsSubSeq
  <1>4. Tail(s) \in Seq(Range(s)) /\ Len(Tail(s)) = Len(s) - 1
    BY <1>1, HeadTailProperties
  <1> QED
    BY <1>2, <1>3, <1>4, IsSeqOver

\* The first part of a joined sequence is a prefix of it.
LEMMA PrefixOfConcat ==
    ASSUME NEW s, NEW t, IsSeq(s), IsSeq(t)
    PROVE  IsPrefix(s, s \o t)
  <1>1. PICK S : s \in Seq(S) /\ t \in Seq(S)
    BY Together
  <1>2. Len(s \o t) = Len(s) + Len(t) /\ Len(s) \in Nat /\ Len(t) \in Nat
    BY <1>1, ConcatProperties
  <1>3. SubSeq(s, 1, Len(s)) = SubSeq(s \o t, 1, Len(s))
    <2>1. CASE Len(s) = 0
      BY <2>1, SubSeqEmpty
    <2>2. CASE Len(s) # 0
      BY <2>2, <1>1, <1>2, SubSeqOfConcat1
    <2> QED
      BY <2>1, <2>2
  <1> QED
    BY <1>2, <1>3 DEF IsPrefix

\* Nothing is a prefix of everything.
LEMMA EmptyPrefix == ASSUME NEW t, IsSeq(t) PROVE IsPrefix(<< >>, t)
  <1>1. IsPrefix(<< >>, << >> \o t)
    BY PrefixOfConcat, EmptyIsSeq
  <1>2. << >> \o t = t
    BY ConcatEmpty
  <1> QED
    BY <1>1, <1>2

\* What follows a prefix is a sequence.
LEMMA PrefixSplits ==
    ASSUME NEW s, NEW t, IsSeq(s), IsSeq(t), IsPrefix(s, t)
    PROVE  \E u : IsSeq(u) /\ t = s \o u
  <1>1. Len(s) \in 0 .. Len(t)
    BY LenProperties DEF IsSeq, IsPrefix
  <1>2. SubSeq(t, 1, Len(s)) = s
    BY SubSeqFull DEF IsSeq, IsPrefix
  <1> QED
    BY <1>1, <1>2, Cut

-----------------------------------------------------------------------------
(* Numbers *)

\* A set of numbers that is not empty has a least one.
LEMMA Least ==
    ASSUME NEW T \in SUBSET Nat, T # {}
    PROVE  \E n \in T : \A m \in T : n <= m
  <1>1. PICK n \in T : \A m \in T : ~ (<<m, n>> \in OpToRel(<, Nat))
    BY WFMin, NatLessThanWellFounded
  <1>2. \A m \in T : ~(m < n)
    BY <1>1 DEF OpToRel
  <1> QED
    BY <1>2

\* Induction, with a set in the place of a predicate.
LEMMA Climb ==
    ASSUME NEW T, 0 \in T, \A n \in Nat : n \in T => n + 1 \in T
    PROVE  Nat \subseteq T
  <1> SUFFICES ASSUME ~(Nat \subseteq T) PROVE FALSE
    OBVIOUS
  <1>1. PICK n \in Nat \ T : \A m \in Nat \ T : n <= m
    BY Least
  <1>2. n - 1 \in Nat /\ n - 1 \in T
    BY <1>1
  <1> QED
    BY <1>1, <1>2

\* The least number of a set is the one CHOOSE finds.
LEMMA MinIs ==
    ASSUME NEW T \in SUBSET Nat, T # {}
    PROVE  Min(T) \in T /\ \A m \in T : Min(T) <= m
  BY Least DEF Min

\* A number of a set that none exceeds is its greatest.
LEMMA MaxIs ==
    ASSUME NEW S \in SUBSET Int, NEW m \in S, \A x \in S : x <= m
    PROVE  Max(S) = m
  <1>1. m \in S /\ \A x \in S : m >= x
    OBVIOUS
  <1>2. Max(S) \in S /\ \A x \in S : Max(S) >= x
    BY <1>1 DEF Max
  <1>3. Max(S) \in Int /\ Max(S) >= m /\ m >= Max(S) /\ m \in Int
    BY <1>1, <1>2
  <1> QED
    BY <1>3

\* The lesser of two numbers.
LEMMA PairMin ==
    ASSUME NEW a \in Int, NEW b \in Int
    PROVE  Min({a, b}) = IF a <= b THEN a ELSE b
  <1>1. PICK m : m = IF a <= b THEN a ELSE b
    OBVIOUS
  <1>2. m \in {a, b} /\ \A x \in {a, b} : m <= x
    BY <1>1
  <1>3. \A n \in {a, b} : (\A x \in {a, b} : n <= x) => n = m
    BY <1>1
  <1> QED
    BY <1>1, <1>2, <1>3 DEF Min

\* The greater of two.
LEMMA PairMax ==
    ASSUME NEW a \in Int, NEW b \in Int
    PROVE  Max({a, b}) = IF a <= b THEN b ELSE a
  <1>1. PICK m : m = IF a <= b THEN b ELSE a
    OBVIOUS
  <1>2. m \in {a, b} /\ \A x \in {a, b} : x <= m
    BY <1>1
  <1>3. \A n \in {a, b} : (\A x \in {a, b} : n >= x) => n = m
    BY <1>1
  <1> QED
    BY <1>1, <1>2, <1>3 DEF Max

\* A function on 1 .. n is a sequence.
LEMMA SeqOfFun ==
    ASSUME NEW n \in Nat, NEW S, NEW f \in [1 .. n -> S]
    PROVE  f \in Seq(S) /\ Len(f) = n
  OBVIOUS

\* Sequences of one and of two.
LEMMA PairIs ==
    ASSUME NEW S, NEW x \in S, NEW y \in S
    PROVE  /\ <<x>> \o <<y>> = <<x, y>>
           /\ Reverse(<<x>>) = <<x>>
           /\ Reverse(<<x, y>>) = <<y, x>>
  <1>1. /\ <<x>> \in Seq(S) /\ Len(<<x>>) = 1 /\ <<x>>[1] = x
        /\ <<y>> \in Seq(S) /\ Len(<<y>>) = 1 /\ <<y>>[1] = y
        /\ <<x, y>> \in Seq(S) /\ Len(<<x, y>>) = 2 /\ <<x, y>>[1] = x /\ <<x, y>>[2] = y
        /\ <<y, x>> \in Seq(S) /\ Len(<<y, x>>) = 2 /\ <<y, x>>[1] = y /\ <<y, x>>[2] = x
    OBVIOUS
  <1>2. PICK s : s = <<x>>
    OBVIOUS
  <1>3. PICK t : t = <<y>>
    OBVIOUS
  <1>4. PICK u : u = <<x, y>>
    OBVIOUS
  <1>5. PICK w : w = <<y, x>>
    OBVIOUS
  <1>6. s \o t = u
    <2>1. s \in Seq(S) /\ t \in Seq(S) /\ Len(s) = 1 /\ Len(t) = 1 /\ s[1] = x /\ t[1] = y
      BY <1>1, <1>2, <1>3
    <2>2. u \in Seq(S) /\ Len(u) = 2 /\ u[1] = x /\ u[2] = y
      BY <1>1, <1>4
    <2>3. PICK c : c = s \o t
      OBVIOUS
    <2>4. c \in Seq(S) /\ Len(c) = 2 /\ c[1] = x /\ c[2] = y
      <3>1. /\ c \in Seq(S) /\ Len(c) = Len(s) + Len(t)
            /\ \A i \in 1 .. Len(s) + Len(t) :
                  c[i] = IF i <= Len(s) THEN s[i] ELSE t[i - Len(s)]
        BY <2>1, <2>3, ConcatProperties
      <3>2. 1 \in 1 .. Len(s) + Len(t) /\ 2 \in 1 .. Len(s) + Len(t)
        BY <2>1
      <3>3. c[1] = s[1]
        BY <2>1, <3>1, <3>2
      <3>4. c[2] = t[2 - 1]
        BY <2>1, <3>1, <3>2
      <3>5. Len(c) = 2 /\ 2 - 1 = 1
        BY <2>1, <3>1
      <3> QED
        BY <2>1, <3>1, <3>3, <3>4, <3>5
    <2>5. \A i \in 1 .. Len(c) : c[i] = u[i]
      BY <2>2, <2>4
    <2> QED
      BY <2>2, <2>3, <2>4, <2>5, SeqEqual
  <1>7. Reverse(s) = s
    <2>1. s = [i \in 1 .. 1 |-> x]
      BY <1>2
    <2>2. Reverse(s) = [i \in 1 .. 1 |-> s[(1 - i) + 1]]
      BY <1>1, <1>2 DEF Reverse
    <2> QED
      BY <1>1, <1>2, <2>1, <2>2
  <1>8. Reverse(u) = w
    <2>1. u[1] = x /\ u[2] = y /\ Len(u) = 2 /\ w[1] = y /\ w[2] = x /\ Len(w) = 2
      BY <1>1, <1>4, <1>5
    <2>2. PICK r : r = [i \in 1 .. 2 |-> u[(2 - i) + 1]]
      OBVIOUS
    <2>3. Reverse(u) = r
      BY <2>1, <2>2 DEF Reverse
    <2>4. r[1] = y /\ r[2] = x
      BY <2>1, <2>2
    <2>5. r \in Seq(S) /\ Len(r) = 2
      <3>1. r \in [1 .. 2 -> S]
        BY <2>2, <2>4
      <3> QED
        BY <3>1, SeqOfFun
    <2>6. \A i \in 1 .. Len(r) : r[i] = w[i]
      BY <2>1, <2>4, <2>5
    <2>7. w \in Seq(S)
      BY <1>1, <1>5
    <2> QED
      BY <2>1, <2>3, <2>5, <2>6, <2>7, SeqEqual
  <1> QED
    BY <1>2, <1>3, <1>4, <1>5, <1>6, <1>7, <1>8

\* s is n different things.
Different(s, n) == DOMAIN s = 1 .. n /\ \A i, j \in 1 .. n : s[i] = s[j] => i = j

\* There are n of them.
LEMMA Numbered ==
    ASSUME NEW n \in Nat, NEW s, Different(s, n), NEW S, S = {s[i] : i \in 1 .. n}
    PROVE  IsFiniteSet(S) /\ Cardinality(S) = n
  <1> DEFINE b == [i \in 1 .. n |-> s[i]]
  <1>1. b \in [1 .. n -> S] /\ \A t \in S : \E i \in 1 .. n : b[i] = t
    OBVIOUS
  <1>2. \A i, j \in 1 .. n : b[i] = b[j] => i = j
    BY DEF Different
  <1> HIDE DEF b
  <1>3. b \in Bijection(1 .. n, S)
    BY <1>1, <1>2, Fun_IsBij
  <1>4. IsFiniteSet(1 .. n) /\ Cardinality(1 .. n) = n
    BY FS_Interval
  <1>5. IsFiniteSet(S) /\ Cardinality(S) = n
    BY <1>3, <1>4, FS_Bijection DEF ExistsBijection
  <1> QED
    BY <1>5

(* Lists *)

\* A set of numbers that m bounds has a greatest one.
LEMMA GreatestIs ==
    ASSUME NEW U, U # {}, NEW m \in Nat, \A i \in U : i \in Nat /\ i <= m
    PROVE  Max(U) \in U /\ \A i \in U : i <= Max(U)
  <1> DEFINE R == {r \in Nat : \A i \in U : i <= r}
  <1>1. R \in SUBSET Nat /\ m \in R
    OBVIOUS
  <1> HIDE DEF R
  <1>2. PICK r \in R : \A q \in R : r <= q
    BY <1>1, Least
  <1>3. r \in Nat /\ \A i \in U : i <= r
    BY <1>2 DEF R
  <1>4. r \in U
    <2> SUFFICES ASSUME r \notin U PROVE FALSE
      OBVIOUS
    <2>1. 1 <= r
      BY <1>3
    <2>2. \A i \in U : i <= r - 1
      BY <1>3
    <2>3. r - 1 \in R
      BY <1>3, <2>1, <2>2 DEF R
    <2> QED
      BY <1>2, <1>3, <2>3
  <1>5. U \in SUBSET Int
    OBVIOUS
  <1>6. Max(U) = r
    BY <1>3, <1>4, <1>5, MaxIs
  <1> QED
    BY <1>3, <1>4, <1>6
=============================================================================
