------------------------------ MODULE IFCProofs ------------------------------
(***************************************************************************)
(* Proofs about IFC, for any finite set of fibers, any functions, programs *)
(* and depth of joins.                                                     *)
(*                                                                         *)
(* The argument has four parts.  What the model does with its lists is     *)
(* stated by what they contain.  Every step is described once, by what it  *)
(* does to each variable (the definitions that end in Done, JoinAttached,  *)
(* JoinQueued, QuietMove, QuietPlace).  The invariant, IFCInv, is stated   *)
(* per fiber, per server and per queue, and each of its parts is kept by   *)
(* the steps so described.  The properties follow from it.                 *)
(***************************************************************************)
EXTENDS IFC, FiniteSetTheorems, SequenceTheorems, TLAPS

\* No element is in the list twice.
Distinct(list) == \A i, j \in DOMAIN list : list[i] = list[j] => i = j

\* The places of kept up to i: their number is the rank of i.
Upto(kept, i) == {j \in kept : j =< i}

\* The places of a set of places have the ranks from 1 on, each one rank.
LEMMA RanksAreOnto ==
    ASSUME NEW n \in Nat, NEW kept \in SUBSET (1..n)
    PROVE  /\ Cardinality(kept) \in Nat
           /\ \A k \in 1..Cardinality(kept) :
                \E i \in kept : Cardinality(Upto(kept, i)) = k
           /\ \A i \in kept : Cardinality(Upto(kept, i)) \in 1..Cardinality(kept)
           /\ \A i, j \in kept :
                Cardinality(Upto(kept, i)) = Cardinality(Upto(kept, j)) => i = j
<1> DEFINE ranks == 1..Cardinality(kept)
           Rank(i) == Cardinality(Upto(kept, i))
           rank == [i \in kept |-> Rank(i)]
<1>1. IsFiniteSet(kept) /\ Cardinality(kept) \in Nat
  <2>1. IsFiniteSet(1..n)
    BY FS_Interval
  <2> QED
    BY <2>1, FS_Subset, FS_CardinalityType
<1>2. \A i \in kept : IsFiniteSet(Upto(kept, i)) /\ Rank(i) \in ranks
  <2> TAKE i \in kept
  <2>1. Upto(kept, i) \subseteq kept /\ i \in Upto(kept, i)
    BY DEF Upto
  <2>2. IsFiniteSet(Upto(kept, i)) /\ Rank(i) =< Cardinality(kept) /\ Rank(i) \in Nat
    BY <1>1, <2>1, FS_Subset, FS_CardinalityType
  <2>3. Rank(i) # 0
    BY <2>1, <2>2, FS_EmptySet
  <2> QED
    BY <1>1, <2>2, <2>3
<1>3. \A i, j \in kept : i < j => Rank(i) # Rank(j)
  <2> SUFFICES ASSUME NEW i \in kept, NEW j \in kept, i < j, Rank(i) = Rank(j)
               PROVE  FALSE
    OBVIOUS
  <2>1. j \in Upto(kept, j) /\ j \notin Upto(kept, i)
    BY DEF Upto
  <2>2. Upto(kept, i) \subseteq Upto(kept, j)
    <3> SUFFICES ASSUME NEW k \in kept, k =< i
                 PROVE  k =< j
      BY DEF Upto
    <3> QED
      OBVIOUS
  <2> QED
    BY <1>2, <2>1, <2>2, FS_Subset
<1>4. \A i, j \in kept : Rank(i) = Rank(j) => i = j
  BY <1>3
<1>5. rank \in Injection(kept, ranks)
  BY <1>2, <1>4 DEF Injection, IsInjective
<1>6. IsFiniteSet(ranks) /\ Cardinality(ranks) = Cardinality(kept)
  BY <1>1, FS_Interval
<1>7. rank \in Surjection(kept, ranks)
  BY <1>5, <1>6, FS_Injection
<1>8. \A k \in ranks : \E i \in kept : Rank(i) = k
  BY <1>7 DEF Surjection
<1> QED
  BY <1>1, <1>2, <1>4, <1>8

(* What Without returns: the elements that are not gone, each as often as before. *)
LEMMA WithoutIs ==
    ASSUME NEW S, NEW list \in Seq(S), NEW gone
    PROVE  /\ Without(list, gone) \in Seq(S)
           /\ \A x : Contains(Without(list, gone), x) <=> Contains(list, x) /\ x \notin gone
           /\ Distinct(list) => Distinct(Without(list, gone))
<1> DEFINE n == Len(list)
           kept == {i \in 1..n : list[i] \notin gone}
           m == Cardinality(kept)
           at_(k) == CHOOSE i \in kept : Cardinality(Upto(kept, i)) = k
           new == [k \in 1..m |-> list[at_(k)]]
<1>1. n \in Nat /\ list \in [1..n -> S] /\ DOMAIN list = 1..n
  BY LenProperties
<1>2. kept \in SUBSET (1..n)
  OBVIOUS
<1>3. \A i \in kept : Upto(kept, i) = {j \in 1..i : list[j] \notin gone}
  <2> TAKE i \in kept
  <2>1. \A j : j \in Upto(kept, i) <=> j \in 1..i /\ list[j] \notin gone
    BY <1>1 DEF Upto
  <2> QED
    BY <2>1
<1>4. Without(list, gone) = new
  <2>1. \A k \in 1..m : \A i \in kept :
            Cardinality({j \in 1..i : list[j] \notin gone}) = Cardinality(Upto(kept, i))
    BY <1>3
  <2>2. \A k \in 1..m :
            (CHOOSE i \in kept : Cardinality({j \in 1..i : list[j] \notin gone}) = k) = at_(k)
    BY <2>1
  <2>3. Without(list, gone) =
            [k \in 1..m |-> list[CHOOSE i \in kept :
                Cardinality({j \in 1..i : list[j] \notin gone}) = k]]
    BY DEF Without
  <2> HIDE DEF m, kept
  <2> QED
    BY <2>2, <2>3
<1> HIDE DEF kept
<1>5. /\ m \in Nat
      /\ \A k \in 1..m : \E i \in kept : Cardinality(Upto(kept, i)) = k
      /\ \A i \in kept : Cardinality(Upto(kept, i)) \in 1..m
      /\ \A i, j \in kept :
            Cardinality(Upto(kept, i)) = Cardinality(Upto(kept, j)) => i = j
  BY <1>1, <1>2, RanksAreOnto
<1>6. \A k \in 1..m : at_(k) \in kept /\ Cardinality(Upto(kept, at_(k))) = k
  BY <1>5
<1> HIDE DEF m, at_
<1>7. new \in Seq(S) /\ Len(new) = m /\ DOMAIN new = 1..m
  <2>1. \A k \in 1..m : at_(k) \in 1..n
    BY <1>2, <1>6
  <2>2. new \in [1..m -> S]
    BY <1>1, <2>1
  <2>3. m \in Nat
    BY <1>5 DEF m
  <2> QED
    BY <2>2, <2>3, SeqDef
<1>8. \A x : Contains(new, x) <=> Contains(list, x) /\ x \notin gone
  <2> TAKE x
  <2>1. ASSUME NEW k \in 1..m, new[k] = x
        PROVE  Contains(list, x) /\ x \notin gone
    BY <1>6, <2>1 DEF Contains, kept
  <2>2. ASSUME NEW i \in 1..n, list[i] = x, x \notin gone
        PROVE  \E k \in 1..m : new[k] = x
    <3>1. i \in kept
      BY <2>2 DEF kept
    <3> DEFINE k == Cardinality(Upto(kept, i))
    <3>2. k \in 1..m
      BY <1>5, <3>1 DEF m
    <3>3. at_(k) = i
      BY <1>5, <1>6, <3>1, <3>2 DEF m
    <3> QED
      BY <2>2, <3>2, <3>3
  <2> QED
    BY <1>7, <2>1, <2>2 DEF Contains
<1>9. Distinct(list) => Distinct(new)
  <2> SUFFICES ASSUME Distinct(list), NEW k \in 1..m, NEW l \in 1..m, new[k] = new[l]
               PROVE  k = l
    BY <1>7 DEF Distinct
  <2>1. at_(k) = at_(l)
    BY <1>1, <1>6 DEF Distinct, kept
  <2> QED
    BY <1>6, <2>1
<1> QED
  BY <1>4, <1>7, <1>8, <1>9

\* A set of places that is not empty has a first.
LEMMA LeastNatural ==
    ASSUME NEW n \in Nat, NEW kept \in SUBSET (1..n), kept # {}
    PROVE  \E i \in kept : \A j \in kept : i =< j
<1>1. Cardinality(kept) \in Nat /\ IsFiniteSet(kept)
  <2>1. IsFiniteSet(1..n)
    BY FS_Interval
  <2> QED
    BY <2>1, FS_Subset, FS_CardinalityType
<1>2. Cardinality(kept) # 0
  BY <1>1, FS_EmptySet
<1>3. 1 \in 1..Cardinality(kept)
  BY <1>1, <1>2
<1>4. PICK i \in kept : Cardinality(Upto(kept, i)) = 1
  BY <1>3, RanksAreOnto
<1>5. ASSUME NEW j \in kept, ~(i =< j)
      PROVE  FALSE
  <2>1. i \in Upto(kept, i) /\ j \in Upto(kept, i) /\ i # j
    BY <1>5 DEF Upto
  <2>2. IsFiniteSet(Upto(kept, i))
    BY <1>1, FS_Subset DEF Upto
  <2> QED
    BY <1>4, <2>1, <2>2, FS_Singleton
<1> QED
  BY <1>5

(* What From returns: the list is what was passed, nothing of it wanted, and then *)
(* the rest, which starts with a wanted element or is empty.                      *)
LEMMA FromIs ==
    ASSUME NEW S, NEW list \in Seq(S), NEW wanted
    PROVE  LET rest == From(list, wanted)
               passed == SubSeq(list, 1, Len(list) - Len(rest))
           IN /\ rest \in Seq(S)
              /\ passed \in Seq(S)
              /\ rest # <<>> => Head(rest) \in wanted
              /\ \A x : Contains(list, x) <=> Contains(passed, x) \/ Contains(rest, x)
              /\ \A x : Contains(passed, x) => x \notin wanted
              /\ Distinct(list) =>
                    /\ Distinct(passed)
                    /\ Distinct(rest)
                    /\ \A x : ~(Contains(passed, x) /\ Contains(rest, x))
<1> DEFINE n == Len(list)
           places == {i \in 1..n : list[i] \in wanted}
           rest == From(list, wanted)
           passed == SubSeq(list, 1, n - Len(rest))
<1>1. n \in Nat /\ list \in [1..n -> S] /\ DOMAIN list = 1..n
  BY LenProperties
<1>2. CASE places = {}
  <2>1. rest = <<>>
    BY <1>2 DEF From, SelectInSeq
  <2>2. passed = list
    BY <1>1, <2>1
  <2>3. rest \in Seq(S) /\ \A x : ~Contains(rest, x)
    BY <2>1 DEF Contains
  <2>4. \A x : Contains(passed, x) => x \notin wanted
    BY <1>2, <2>2 DEF Contains
  <2>5. Distinct(rest)
    BY <2>1 DEF Distinct
  <2> QED
    BY <2>1, <2>2, <2>3, <2>4, <2>5
<1>3. CASE places # {}
  <2> DEFINE first == CHOOSE i \in places : \A j \in places : i =< j
  <2>1. \E i \in places : \A j \in places : i =< j
    BY <1>1, <1>3, LeastNatural
  <2>2. first \in places /\ \A j \in places : first =< j
    BY <2>1
  <2>3. rest = SubSeq(list, first, n)
    BY <1>1, <1>3, <2>2 DEF From, SelectInSeq, Min
  <2> HIDE DEF first
  <2>4. first \in 1..n /\ list[first] \in wanted /\ \A i \in 1..(first - 1) : list[i] \notin wanted
    BY <1>1, <2>2
  <2>5. /\ rest \in Seq(S) /\ Len(rest) = n - first + 1 /\ rest # <<>>
        /\ DOMAIN rest = 1..(n - first + 1)
        /\ \A i \in 1..(n - first + 1) : rest[i] = list[first + i - 1]
    <3>1. first \in 1..(n + 1) /\ n \in (first - 1)..n /\ n - first + 1 \in Nat \ {0}
      BY <1>1, <2>4
    <3>2. /\ rest \in Seq(S) /\ Len(rest) = n - first + 1
          /\ \A i \in 1..(n - first + 1) : rest[i] = list[first + i - 1]
      BY <1>1, <2>3, <3>1, SubSeqProperties
    <3> QED
      BY <3>1, <3>2, LenProperties
  <2>6. passed = SubSeq(list, 1, first - 1)
    BY <1>1, <2>4, <2>5
  <2>7. /\ passed \in Seq(S) /\ Len(passed) = first - 1 /\ DOMAIN passed = 1..(first - 1)
        /\ \A i \in 1..(first - 1) : passed[i] = list[i]
    BY <1>1, <2>4, <2>6
  <2> HIDE DEF rest, passed
  <2>8. Head(rest) \in wanted
    BY <1>1, <2>4, <2>5
  <2>9. \A x : Contains(list, x) <=> Contains(passed, x) \/ Contains(rest, x)
    <3> TAKE x
    <3>1. ASSUME NEW i \in 1..n, list[i] = x
          PROVE  Contains(passed, x) \/ Contains(rest, x)
      <4>1. CASE i < first
        BY <1>1, <2>4, <2>7, <3>1, <4>1 DEF Contains
      <4>2. CASE ~(i < first)
        <5>1. i - first + 1 \in 1..(n - first + 1) /\ rest[i - first + 1] = list[i]
          BY <1>1, <2>4, <2>5, <4>2
        <5> QED
          BY <2>5, <3>1, <5>1 DEF Contains
      <4> QED
        BY <4>1, <4>2
    <3>2. ASSUME Contains(passed, x) \/ Contains(rest, x)
          PROVE  Contains(list, x)
      <4>1. \A i \in 1..(n - first + 1) : first + i - 1 \in 1..n
        BY <1>1, <2>4
      <4>2. \A i \in 1..(first - 1) : i \in 1..n
        BY <1>1, <2>4
      <4> QED
        BY <2>5, <2>7, <3>2, <4>1, <4>2 DEF Contains
    <3> QED
      BY <3>1, <3>2 DEF Contains
  <2>10. \A x : Contains(passed, x) => x \notin wanted
    BY <2>4, <2>7 DEF Contains
  <2>11. Distinct(list) => Distinct(passed) /\ Distinct(rest)
    <3> SUFFICES ASSUME Distinct(list)
                 PROVE  Distinct(passed) /\ Distinct(rest)
      OBVIOUS
    <3>1. Distinct(passed)
      BY <1>1, <2>4, <2>7 DEF Distinct
    <3>2. ASSUME NEW i \in DOMAIN rest, NEW j \in DOMAIN rest, rest[i] = rest[j]
          PROVE  i = j
      <4>1. first + i - 1 \in 1..n /\ first + j - 1 \in 1..n
        BY <1>1, <2>4, <2>5
      <4>2. first + i - 1 = first + j - 1
        BY <1>1, <2>5, <3>2, <4>1 DEF Distinct
      <4> QED
        BY <2>4, <2>5, <4>2
    <3> QED
      BY <3>1, <3>2 DEF Distinct
  <2>12. Distinct(list) => \A x : ~(Contains(passed, x) /\ Contains(rest, x))
    <3> SUFFICES ASSUME Distinct(list), NEW i \in 1..(first - 1),
                        NEW j \in 1..(n - first + 1), passed[i] = rest[j]
                 PROVE  FALSE
      BY <2>5, <2>7 DEF Contains
    <3>1. first + j - 1 \in 1..n /\ i \in 1..n /\ i # first + j - 1
      BY <1>1, <2>4
    <3> QED
      BY <1>1, <2>5, <2>7, <3>1 DEF Distinct
  <2> QED
    BY <2>5, <2>7, <2>8, <2>9, <2>10, <2>11, <2>12 DEF rest, passed
<1> QED
  BY <1>2, <1>3

\* A list after another: what is in either, and once if the two share nothing.
LEMMA ConcatIs ==
    ASSUME NEW S, NEW front \in Seq(S), NEW back \in Seq(S)
    PROVE  /\ front \o back \in Seq(S)
           /\ \A x : Contains(front \o back, x) <=> Contains(front, x) \/ Contains(back, x)
           /\ Distinct(front \o back) <=>
                 /\ Distinct(front)
                 /\ Distinct(back)
                 /\ \A x : ~(Contains(front, x) /\ Contains(back, x))
<1> DEFINE m == Len(front)
           n == Len(back)
           both == front \o back
<1>1. /\ m \in Nat /\ n \in Nat /\ DOMAIN front = 1..m /\ DOMAIN back = 1..n
      /\ both \in Seq(S) /\ Len(both) = m + n /\ DOMAIN both = 1..(m + n)
  BY ConcatProperties, LenProperties
<1>2. \A i \in 1..m : i \in 1..(m + n) /\ both[i] = front[i]
  BY <1>1
<1>3. \A i \in 1..n : m + i \in 1..(m + n) /\ both[m + i] = back[i]
  BY <1>1
<1>4. \A i \in 1..(m + n) : i \in 1..m \/ (i - m \in 1..n /\ i = m + (i - m))
  BY <1>1
<1> HIDE DEF both
<1>5. \A x : Contains(both, x) <=> Contains(front, x) \/ Contains(back, x)
  <2> TAKE x
  <2>1. ASSUME NEW i \in 1..(m + n), both[i] = x
        PROVE  Contains(front, x) \/ Contains(back, x)
    BY <1>1, <1>2, <1>3, <1>4, <2>1 DEF Contains
  <2> QED
    BY <1>1, <1>2, <1>3, <2>1 DEF Contains
<1>6. ASSUME Distinct(both)
      PROVE  Distinct(front) /\ Distinct(back) /\ \A x : ~(Contains(front, x) /\ Contains(back, x))
  <2>1. Distinct(front)
    BY <1>1, <1>2, <1>6 DEF Distinct
  <2>2. ASSUME NEW i \in 1..n, NEW j \in 1..n, back[i] = back[j]
        PROVE  i = j
    <3>1. m + i = m + j
      BY <1>1, <1>3, <1>6, <2>2 DEF Distinct
    <3> QED
      BY <1>1, <3>1
  <2>3. ASSUME NEW i \in 1..m, NEW j \in 1..n, front[i] = back[j]
        PROVE  FALSE
    <3>1. i = m + j
      BY <1>1, <1>2, <1>3, <1>6, <2>3 DEF Distinct
    <3> QED
      BY <1>1, <3>1
  <2> QED
    BY <1>1, <2>1, <2>2, <2>3 DEF Distinct, Contains
<1>7. ASSUME Distinct(front), Distinct(back), \A x : ~(Contains(front, x) /\ Contains(back, x))
      PROVE  Distinct(both)
  <2> SUFFICES ASSUME NEW i \in 1..(m + n), NEW j \in 1..(m + n), both[i] = both[j]
               PROVE  i = j
    BY <1>1 DEF Distinct
  <2>1. CASE i \in 1..m /\ j \in 1..m
    BY <1>1, <1>2, <1>7, <2>1 DEF Distinct
  <2>2. CASE i - m \in 1..n /\ j - m \in 1..n
    <3>1. back[i - m] = back[j - m]
      BY <1>1, <1>3, <1>4, <2>2
    <3>2. i - m = j - m
      BY <1>1, <1>7, <2>2, <3>1 DEF Distinct
    <3> QED
      BY <1>1, <3>2
  <2>3. CASE i \in 1..m /\ j - m \in 1..n
    <3>1. front[i] = back[j - m]
      BY <1>1, <1>2, <1>3, <1>4, <2>3
    <3> QED
      BY <1>1, <1>7, <2>3, <3>1 DEF Contains
  <2>4. CASE i - m \in 1..n /\ j \in 1..m
    <3>1. front[j] = back[i - m]
      BY <1>1, <1>2, <1>3, <1>4, <2>4
    <3> QED
      BY <1>1, <1>7, <2>4, <3>1 DEF Contains
  <2> QED
    BY <1>4, <2>1, <2>2, <2>3, <2>4
<1> QED
  BY <1>1, <1>5, <1>6, <1>7 DEF both

\* The list of one element.
LEMMA SingleIs ==
    ASSUME NEW S, NEW e \in S
    PROVE  /\ <<e>> \in Seq(S)
           /\ \A x : Contains(<<e>>, x) <=> x = e
           /\ Distinct(<<e>>)
<1>1. <<e>> \in Seq(S) /\ Len(<<e>>) = 1 /\ DOMAIN <<e>> = 1..1 /\ <<e>>[1] = e
  OBVIOUS
<1> QED
  BY <1>1 DEF Contains, Distinct

\* The list of none.
LEMMA EmptyIs ==
    /\ \A x : ~Contains(<<>>, x)
    /\ Distinct(<<>>)
    /\ <<>> \in Seq(Fibers)
<1>1. Len(<<>>) = 0 /\ DOMAIN <<>> = {}
  OBVIOUS
<1> QED
  BY <1>1 DEF Contains, Distinct

\* A list with one element more, at its end.
LEMMA AppendIs ==
    ASSUME NEW S, NEW list \in Seq(S), NEW e \in S
    PROVE  /\ Append(list, e) \in Seq(S)
           /\ \A x : Contains(Append(list, e), x) <=> Contains(list, x) \/ x = e
           /\ Distinct(Append(list, e)) <=> Distinct(list) /\ ~Contains(list, e)
<1>1. Append(list, e) = list \o <<e>>
  BY AppendIsConcat
<1>2. <<e>> \in Seq(S) /\ (\A x : Contains(<<e>>, x) <=> x = e) /\ Distinct(<<e>>)
  BY SingleIs
<1>3. /\ list \o <<e>> \in Seq(S)
      /\ \A x : Contains(list \o <<e>>, x) <=> Contains(list, x) \/ Contains(<<e>>, x)
      /\ Distinct(list \o <<e>>) <=>
            /\ Distinct(list)
            /\ Distinct(<<e>>)
            /\ \A x : ~(Contains(list, x) /\ Contains(<<e>>, x))
  BY <1>2, ConcatIs
<1> QED
  BY <1>1, <1>2, <1>3

\* And at its start.
LEMMA PrependIs ==
    ASSUME NEW S, NEW list \in Seq(S), NEW e \in S
    PROVE  /\ <<e>> \o list \in Seq(S)
           /\ \A x : Contains(<<e>> \o list, x) <=> x = e \/ Contains(list, x)
           /\ Distinct(<<e>> \o list) <=> Distinct(list) /\ ~Contains(list, e)
<1>1. <<e>> \in Seq(S) /\ (\A x : Contains(<<e>>, x) <=> x = e) /\ Distinct(<<e>>)
  BY SingleIs
<1>2. /\ <<e>> \o list \in Seq(S)
      /\ \A x : Contains(<<e>> \o list, x) <=> Contains(<<e>>, x) \/ Contains(list, x)
      /\ Distinct(<<e>> \o list) <=>
            /\ Distinct(<<e>>)
            /\ Distinct(list)
            /\ \A x : ~(Contains(<<e>>, x) /\ Contains(list, x))
  BY <1>1, ConcatIs
<1> QED
  BY <1>1, <1>2

\* A list is its first element and the rest.
LEMMA HeadTailIs ==
    ASSUME NEW S, NEW list \in Seq(S), list # <<>>
    PROVE  /\ Head(list) \in S /\ Tail(list) \in Seq(S)
           /\ \A x : Contains(list, x) <=> x = Head(list) \/ Contains(Tail(list), x)
           /\ Distinct(list) => Distinct(Tail(list)) /\ ~Contains(Tail(list), Head(list))
<1>1. Head(list) \in S /\ Tail(list) \in Seq(S) /\ list = <<Head(list)>> \o Tail(list)
  BY HeadTailProperties
<1> DEFINE first == <<Head(list)>>
           rest == Tail(list)
<1>2. /\ \A x : Contains(first \o rest, x) <=> x = Head(list) \/ Contains(rest, x)
      /\ Distinct(first \o rest) <=> Distinct(rest) /\ ~Contains(rest, Head(list))
  BY <1>1, PrependIs
<1> QED
  BY <1>1, <1>2

-----------------------------------------------------------------------------
(* The invariant. *)

\* The places at which a client is in the list of those that wait.
JoinWaits == {"join_defer", "join_woken", "join_lock"}

\* Who sleeps does so for a reason, at one of three places.
AsleepOf(f) ==
    ctrl[f].deferred => /\ at[f] \in {"join_woken", "accept_woken", "cancel_woken"}
                        /\ ~Bounces(ctrl[f])

\* Where a fiber is tells what it has.
StandingOf(f) ==
    /\ at[f] \notin AcceptPoints => server[f] = NoServer
    /\ at[f] \in AcceptPoints => Accepting(f)
    /\ f \in fiber_map <=> at[f] \notin {"unindexed", "dead"}
    /\ at[f] # "scheduler_error"
    /\ AsleepOf(f)

Standing == \A f \in Fibers : StandingOf(f)

\* The joins of a fiber and who waits.
JoinedOf(f) ==
    /\ Depth(f) =< MaxDepth
    /\ at[f] \in JoinWaits \union {"join_failed", "joined"} => joins[f] # <<>>
    /\ Waits(f) => at[f] \in JoinWaits /\ Client(f).server = None
    /\ at[f] = "join_failed" => Client(f).server = None
    /\ \A i \in DOMAIN joins[f] : joins[f][i].server = None =>
            i = Depth(f) /\ (at[f] = "join_failed" \/ Waits(f))

Joined == \A f \in Fibers : JoinedOf(f)

\* The clients a server counts are those that have it.
Counted ==
    \A f, s \in Fibers : \A i \in 1..MaxDepth :
        <<f, i>> \in server[s].running <=> i \in DOMAIN joins[f] /\ joins[f][i].server = s

\* A fiber accepts on its own id or on that of the server it joined.
OwnOrServerSide ==
    \A s \in Fibers : Accepting(s) =>
        \/ server[s].accepting = s
        \/ joins[s] # <<>> /\ Client(s).server = server[s].accepting

\* Nobody has the state of the server, nor can get it.
Idle(s) == server[s].running = {} /\ ~server[s].listening

\* What the server knows of its clients, at each place of its code.
ServingOf(s) ==
    /\ server[s].listening => /\ at[s] \in {"accept_defer", "accept_woken", "cancel"}
                              /\ server[s].read_locked <=> server[s].running # {}
                              /\ \A c \in server[s].running : joins[c[1]][c[2]].type = "shared"
    /\ at[s] \in {"accept", "restore", "cleanup"} => Idle(s)
    /\ at[s] = "accept_defer" => (ctrl[s].done <=> Idle(s))
    /\ at[s] = "accept_woken" => \/ ctrl[s].deferred /\ ~Idle(s)
                                 \/ ~ctrl[s].deferred /\ (Idle(s) \/ Interrupted(ctrl[s]))
    /\ at[s] \in {"cancel_defer", "cancel_woken"} =>
            /\ ~server[s].listening
            /\ \A c \in server[s].running : joins[c[1]][c[2]].live_join_race
    /\ at[s] = "cancel_defer" /\ ~ctrl[s].done => server[s].running # {}
    /\ at[s] = "cancel_woken" /\ ctrl[s].deferred => server[s].running # {}

Serving == \A s \in Fibers : ServingOf(s)

\* A locked client is alone.
Alone ==
    \A s \in Fibers : \A c, d \in server[s].running :
        joins[c[1]][c[2]].type = "lock" => c = d

\* A cancellation that was taken over is restored.
RestoringOf(s) ==
    /\ at[s] \in {"accept", "accept_defer", "accept_woken"} => ~server[s].pending_canceled
    /\ at[s] = "cleanup" /\ server[s].pending_canceled => ctrl[s].canceled

Restoring == \A s \in Fibers : RestoringOf(s)

\* What a client that waits, or no longer does, knows of it.
WaitingOf(f) ==
    /\ Waits(f) /\ at[f] = "join_defer" =>
         /\ ctrl[f].done => ctrl[f].unintr
         /\ at[Client(f).fiber_id] = "dead" => Bounces(ctrl[f])
    /\ at[f] = "join_defer" /\ ~Waits(f) => ctrl[f].done
    /\ Waits(f) /\ at[f] = "join_woken" =>
         /\ ~ctrl[f].deferred => ctrl[f].unintr \/ ctrl[f].canceled \/ ctrl[f].join_race
         /\ ctrl[f].deferred => at[Client(f).fiber_id] # "dead"
    /\ at[f] = "join_woken" /\ ctrl[f].deferred => Waits(f)

Waiting == \A f \in Fibers : WaitingOf(f)

\* The references of one queue.
QueueRefs == [count : Nat, freeish : Seq(Fibers), sharedish : Seq(Fibers)]

\* The references of a queue: each of its servers once, at most.
Refers(r, q) ==
    /\ Distinct(r.freeish) /\ Distinct(r.sharedish)
    /\ \A s \in Fibers :
        /\ Contains(r.freeish, s) => q \in QueuesOf(s) /\ ~Contains(r.sharedish, s)
        /\ Contains(r.sharedish, s) => q \in QueuesOf(s)

\* Those that listen are found where clients look for them.
Finds(r, q) ==
    \A s \in Listening :
        /\ Contains(r.sharedish, s) => server[s].read_locked
        /\ q \in QueuesOf(s) => Contains(r.freeish, s) \/ Contains(r.sharedish, s)

\* The servers that accept on a queue, and the queues somebody waits in.
ServersOf(q) == {s \in Fibers : q \in QueuesOf(s)}

Waited == {QueueOf(f) : f \in {g \in Fibers : Waits(g)}}

\* Counts and allocations of the queues are exact.
Allocated ==
    /\ Distinct(waiting)
    /\ \A q \in Queues : refs[q].count = Cardinality(ServersOf(q))
    /\ queues = {q \in Queues : refs[q].count > 0} \union Waited

\* What the lists, the counts and the places of the fibers say of one another.
Books == /\ TypeOK /\ Standing /\ Joined /\ Counted /\ OwnOrServerSide
         /\ \A q \in Queues : Refers(refs[q], q)
         /\ Allocated

\* The inductive invariant.
IFCInv == /\ Books
          /\ Serving /\ Alone /\ Restoring /\ Waiting
          /\ \A q \in Queues : Finds(refs[q], q)
          /\ NoMissedServer

-----------------------------------------------------------------------------
(* What a client finds. *)

\* A client that looks for a server in r is told of found.
FoundRightly(found, r, q, type) ==
    /\ found.refs \in QueueRefs /\ found.refs.count = r.count
    /\ Refers(found.refs, q) /\ Finds(found.refs, q)
    /\ found.server \in Fibers \union {None}
    /\ found.server # None =>
        /\ found.server \in Listening /\ q \in QueuesOf(found.server)
        /\ type = "lock" => ~server[found.server].read_locked
    /\ found.server = None => \A s \in Listening : q \in QueuesOf(s) =>
        type = "lock" /\ server[s].read_locked

\* What a shared client finds is right.
LEMMA FindSharedIs ==
    ASSUME TypeOK, NEW q, NEW r \in QueueRefs, Refers(r, q), Finds(r, q)
    PROVE  FoundRightly(FindShared(r), r, q, "shared")
<1> DEFINE sharedish == From(r.sharedish, Listening)
           freeish == From(r.freeish, Listening)
<1>1. r.sharedish \in Seq(Fibers) /\ r.freeish \in Seq(Fibers) /\ r.count \in Nat
  BY DEF QueueRefs
<1>2. /\ sharedish \in Seq(Fibers) /\ Distinct(sharedish)
      /\ \A x : Contains(sharedish, x) => Contains(r.sharedish, x)
      /\ \A x \in Listening : Contains(r.sharedish, x) => Contains(sharedish, x)
      /\ sharedish # <<>> => Head(sharedish) \in Listening
  BY <1>1, FromIs DEF Refers
<1>3. /\ freeish \in Seq(Fibers) /\ Distinct(freeish)
      /\ \A x : Contains(freeish, x) => Contains(r.freeish, x)
      /\ \A x \in Listening : Contains(r.freeish, x) => Contains(freeish, x)
      /\ freeish # <<>> => Head(freeish) \in Listening
  BY <1>1, FromIs DEF Refers
<1>4. CASE sharedish # <<>>
  <2> DEFINE new == [r EXCEPT !.sharedish = sharedish]
  <2>1. FindShared(r) = [refs |-> new, server |-> Head(sharedish)]
    BY <1>4 DEF FindShared
  <2>2. /\ new \in QueueRefs /\ new.count = r.count
        /\ new.freeish = r.freeish /\ new.sharedish = sharedish
    BY <1>2 DEF QueueRefs
  <2>3. Head(sharedish) \in Fibers /\ Contains(r.sharedish, Head(sharedish))
    BY <1>2, <1>4, HeadTailIs
  <2>4. Head(sharedish) \in Listening /\ q \in QueuesOf(Head(sharedish))
    BY <1>2, <1>4, <2>3 DEF Refers
  <2>5. Refers(new, q)
    BY <1>2, <2>2 DEF Refers
  <2>6. Finds(new, q)
    BY <1>2, <2>2 DEF Finds
  <2>7. Head(sharedish) # None
    BY <2>3, IFCAssumption
  <2> HIDE DEF sharedish, freeish, new
  <2> QED
    BY <2>1, <2>2, <2>3, <2>4, <2>5, <2>6, <2>7 DEF FoundRightly
<1>5. CASE sharedish = <<>> /\ freeish = <<>>
  <2> DEFINE new == [r EXCEPT !.sharedish = <<>>, !.freeish = <<>>]
  <2>1. FindShared(r) = [refs |-> new, server |-> None]
    BY <1>5 DEF FindShared
  <2>2. /\ new.count = r.count /\ new.freeish = <<>> /\ new.sharedish = <<>>
        /\ new \in QueueRefs
    BY EmptyIs DEF QueueRefs
  <2>3. \A x \in Listening : ~Contains(r.freeish, x) /\ ~Contains(r.sharedish, x)
    BY <1>2, <1>3, <1>5, EmptyIs
  <2>4. \A x \in Listening : q \notin QueuesOf(x)
    BY <2>3 DEF Finds
  <2>5. Refers(new, q)
    BY <2>2, EmptyIs DEF Refers
  <2>6. Finds(new, q)
    BY <2>2, <2>4, EmptyIs DEF Finds
  <2> HIDE DEF sharedish, freeish, new
  <2> QED
    BY <2>1, <2>2, <2>4, <2>5, <2>6 DEF FoundRightly
<1>6. CASE sharedish = <<>> /\ freeish # <<>>
  <2> DEFINE s == Head(freeish)
             moved == [r EXCEPT !.sharedish = <<s>>, !.freeish = Tail(freeish)]
             kept == [r EXCEPT !.sharedish = <<>>, !.freeish = freeish]
  <2>1. FindShared(r) = [refs |-> IF server[s].read_locked THEN moved ELSE kept, server |-> s]
    BY <1>6 DEF FindShared
  <2>2. /\ s \in Fibers /\ Tail(freeish) \in Seq(Fibers) /\ Distinct(Tail(freeish))
        /\ \A x : Contains(freeish, x) <=> x = s \/ Contains(Tail(freeish), x)
        /\ ~Contains(Tail(freeish), s)
    BY <1>3, <1>6, HeadTailIs
  <2>3. <<s>> \in Seq(Fibers) /\ Distinct(<<s>>) /\ \A x : Contains(<<s>>, x) <=> x = s
    BY <2>2, SingleIs
  <2>4. \A x \in Listening : ~Contains(r.sharedish, x)
    BY <1>2, <1>6, EmptyIs
  <2>5. s \in Listening /\ q \in QueuesOf(s)
    BY <1>3, <1>6, <2>2 DEF Refers
  <2> HIDE DEF sharedish, freeish, s
  <2>6. /\ moved \in QueueRefs /\ moved.count = r.count
        /\ moved.freeish = Tail(freeish) /\ moved.sharedish = <<s>>
    BY <2>2, <2>3 DEF QueueRefs
  <2>7. /\ kept \in QueueRefs /\ kept.count = r.count
        /\ kept.freeish = freeish /\ kept.sharedish = <<>>
    BY <1>3, EmptyIs DEF QueueRefs
  <2> HIDE DEF moved, kept
  <2>8. Refers(moved, q)
    BY <1>3, <2>2, <2>3, <2>5, <2>6 DEF Refers
  <2>9. server[s].read_locked => Finds(moved, q)
    BY <1>3, <2>2, <2>3, <2>4, <2>6 DEF Finds
  <2>10. Refers(kept, q) /\ Finds(kept, q)
    BY <1>3, <2>4, <2>7, EmptyIs DEF Refers, Finds
  <2>11. s # None
    BY <2>2, IFCAssumption
  <2> QED
    BY <2>1, <2>2, <2>5, <2>6, <2>7, <2>8, <2>9, <2>10, <2>11 DEF FoundRightly
<1> QED
  BY <1>4, <1>5, <1>6

\* What a locked client finds is.
LEMMA FindFreeIs ==
    ASSUME TypeOK, NEW q, NEW r \in QueueRefs, Refers(r, q), Finds(r, q)
    PROVE  FoundRightly(FindFree(r), r, q, "lock")
<1> DEFINE free == {s \in Listening : ~server[s].read_locked}
           freeish == From(r.freeish, free)
           passed == SubSeq(r.freeish, 1, Len(r.freeish) - Len(freeish))
           shared == Without(passed, Fibers \ Listening)
           new == [r EXCEPT !.freeish = freeish, !.sharedish = @ \o shared]
<1>1. r.sharedish \in Seq(Fibers) /\ r.freeish \in Seq(Fibers) /\ r.count \in Nat
  BY DEF QueueRefs
<1>2. Distinct(r.freeish) /\ Distinct(r.sharedish)
  BY DEF Refers
<1>3. /\ freeish \in Seq(Fibers) /\ passed \in Seq(Fibers)
      /\ freeish # <<>> => Head(freeish) \in free
      /\ \A x : Contains(r.freeish, x) <=> Contains(passed, x) \/ Contains(freeish, x)
      /\ \A x : Contains(passed, x) => x \notin free
      /\ Distinct(passed) /\ Distinct(freeish)
      /\ \A x : ~(Contains(passed, x) /\ Contains(freeish, x))
  <2> HIDE DEF free
  <2>1. freeish \in Seq(Fibers) /\ passed \in Seq(Fibers)
    BY <1>1, FromIs
  <2>2. freeish # <<>> => Head(freeish) \in free
    BY <1>1, FromIs
  <2>3. /\ \A x : Contains(r.freeish, x) <=> Contains(passed, x) \/ Contains(freeish, x)
        /\ \A x : Contains(passed, x) => x \notin free
    BY <1>1, FromIs
  <2>4. /\ Distinct(passed) /\ Distinct(freeish)
        /\ \A x : ~(Contains(passed, x) /\ Contains(freeish, x))
    BY <1>1, <1>2, FromIs
  <2> QED
    BY <2>1, <2>2, <2>3, <2>4
<1> HIDE DEF freeish, passed
<1>4. /\ shared \in Seq(Fibers) /\ Distinct(shared)
      /\ \A x : Contains(shared, x) <=> Contains(passed, x) /\ x \notin Fibers \ Listening
  BY <1>3, WithoutIs
<1> HIDE DEF shared
<1>5. \A x \in Fibers : ~(Contains(r.sharedish, x) /\ Contains(shared, x))
  BY <1>3, <1>4 DEF Refers
<1>6. \A x : Contains(shared, x) => x \in Fibers
  BY <1>4, ElementOfSeq DEF Contains
<1>7. /\ r.sharedish \o shared \in Seq(Fibers)
      /\ Distinct(r.sharedish \o shared)
      /\ \A x : Contains(r.sharedish \o shared, x)
                    <=> Contains(r.sharedish, x) \/ Contains(shared, x)
  BY <1>1, <1>2, <1>4, <1>5, <1>6, ConcatIs
<1>8. /\ FindFree(r).refs = new
      /\ FindFree(r).server = IF freeish = <<>> THEN None ELSE Head(freeish)
  BY DEF FindFree, freeish, passed, shared
<1>9. /\ new \in QueueRefs /\ new.count = r.count
      /\ new.freeish = freeish /\ new.sharedish = r.sharedish \o shared
  BY <1>1, <1>3, <1>7 DEF QueueRefs
<1> HIDE DEF new
<1>10. Refers(new, q)
  BY <1>3, <1>4, <1>7, <1>9 DEF Refers
<1>11. Finds(new, q)
  BY <1>3, <1>4, <1>7, <1>9 DEF Finds, Listening
<1>12. CASE freeish # <<>>
  <2>1. Head(freeish) \in Fibers /\ Contains(freeish, Head(freeish))
    BY <1>3, <1>12, HeadTailIs
  <2>2. Head(freeish) \in free /\ q \in QueuesOf(Head(freeish))
    BY <1>3, <1>12, <2>1 DEF Refers
  <2> QED
    BY <1>8, <1>9, <1>10, <1>11, <1>12, <2>1, <2>2, IFCAssumption DEF FoundRightly
<1>13. CASE freeish = <<>>
  <2>1. \A x \in Listening : q \in QueuesOf(x) => server[x].read_locked
    BY <1>3, <1>13, EmptyIs DEF Finds
  <2> QED
    BY <1>8, <1>9, <1>10, <1>11, <1>13, <2>1 DEF FoundRightly
<1> QED
  BY <1>12, <1>13

\* Whom a locked client that waits stops from letting in more, for r in queue q.
StarvedRightly(starved, r, q) ==
    /\ starved.refs \in QueueRefs /\ starved.refs.count = r.count
    /\ Refers(starved.refs, q)
    /\ starved.server \in Fibers \union {None}
    /\ starved.server # None =>
        starved.server \in Listening /\ server[starved.server].read_locked
    /\ \A s \in Listening :
        /\ Contains(starved.refs.sharedish, s) => server[s].read_locked
        /\ q \in QueuesOf(s) =>
            \/ s = starved.server
            \/ Contains(starved.refs.freeish, s) \/ Contains(starved.refs.sharedish, s)

\* So is the server that a locked client stops from letting in more.
LEMMA StarveIs ==
    ASSUME TypeOK, NEW q, NEW r \in QueueRefs, Refers(r, q), Finds(r, q)
    PROVE  StarvedRightly(Starve(r), r, q)
<1> DEFINE sharedish == From(r.sharedish, Listening)
<1>1. r.sharedish \in Seq(Fibers) /\ r.freeish \in Seq(Fibers) /\ r.count \in Nat
  BY DEF QueueRefs
<1>2. /\ sharedish \in Seq(Fibers) /\ Distinct(sharedish)
      /\ \A x : Contains(sharedish, x) => Contains(r.sharedish, x)
      /\ \A x \in Listening : Contains(r.sharedish, x) => Contains(sharedish, x)
      /\ sharedish # <<>> => Head(sharedish) \in Listening
  BY <1>1, FromIs DEF Refers
<1>3. CASE sharedish = <<>>
  <2> DEFINE new == [r EXCEPT !.sharedish = <<>>]
  <2>1. Starve(r) = [refs |-> new, server |-> None]
    BY <1>3 DEF Starve
  <2>2. /\ new \in QueueRefs /\ new.count = r.count
        /\ new.freeish = r.freeish /\ new.sharedish = <<>>
    BY EmptyIs DEF QueueRefs
  <2>3. \A x \in Listening : ~Contains(r.sharedish, x)
    BY <1>2, <1>3, EmptyIs
  <2>4. Refers(new, q)
    BY <2>2, EmptyIs DEF Refers
  <2>5. \A x \in Listening : /\ ~Contains(new.sharedish, x)
                             /\ q \in QueuesOf(x) => Contains(new.freeish, x)
    BY <2>2, <2>3, EmptyIs DEF Finds
  <2> HIDE DEF sharedish, new
  <2> QED
    BY <2>1, <2>2, <2>4, <2>5 DEF StarvedRightly
<1>4. CASE sharedish # <<>>
  <2> DEFINE new == [r EXCEPT !.sharedish = Tail(sharedish)]
             s == Head(sharedish)
  <2>1. Starve(r) = [refs |-> new, server |-> s]
    BY <1>4 DEF Starve
  <2>2. /\ s \in Fibers /\ Tail(sharedish) \in Seq(Fibers) /\ Distinct(Tail(sharedish))
        /\ \A x : Contains(sharedish, x) <=> x = s \/ Contains(Tail(sharedish), x)
    BY <1>2, <1>4, HeadTailIs
  <2>3. /\ new \in QueueRefs /\ new.count = r.count
        /\ new.freeish = r.freeish /\ new.sharedish = Tail(sharedish)
    BY <2>2 DEF QueueRefs
  <2>4. s \in Listening /\ server[s].read_locked
    BY <1>2, <1>4, <2>2 DEF Finds
  <2> HIDE DEF sharedish, new, s
  <2>5. Refers(new, q)
    BY <1>2, <2>2, <2>3 DEF Refers
  <2>6. \A x \in Listening :
            /\ Contains(new.sharedish, x) => server[x].read_locked
            /\ q \in QueuesOf(x) =>
                \/ x = s
                \/ Contains(new.freeish, x) \/ Contains(new.sharedish, x)
    BY <1>2, <2>2, <2>3 DEF Finds
  <2>7. Starve(r).refs = new /\ Starve(r).server = s
    BY <2>1
  <2> QED
    BY <2>2, <2>3, <2>4, <2>5, <2>6, <2>7 DEF StarvedRightly
<1> QED
  BY <1>3, <1>4

(* What becomes of the references of a server that listens, and of one that leaves. *)
LEMMA ReconnectIs ==
    ASSUME TypeOK, NEW s \in Fibers, NEW read_locked \in BOOLEAN,
           NEW q \in Queues, q \in QueuesOf(s), Refers(refs[q], q)
    PROVE  LET new == Reconnect(s, read_locked)[q]
           IN /\ new \in QueueRefs /\ new.count = refs[q].count
              /\ Refers(new, q)
              /\ \A x \in Fibers \ {s} :
                    /\ Contains(new.freeish, x) <=> Contains(refs[q].freeish, x)
                    /\ Contains(new.sharedish, x) <=> Contains(refs[q].sharedish, x)
              /\ Contains(new.sharedish, s) <=> read_locked
              /\ Contains(new.freeish, s) <=> ~read_locked
<1> DEFINE r == refs[q]
           new == Reconnect(s, read_locked)[q]
<1>1. r \in QueueRefs /\ r.sharedish \in Seq(Fibers) /\ r.freeish \in Seq(Fibers) /\ r.count \in Nat
  BY DEF TypeOK, QueueRefs
<1>3. CASE read_locked /\ ~Contains(r.sharedish, s)
  <2> DEFINE freeish == Without(r.freeish, {s})
             sharedish == <<s>> \o r.sharedish
  <2>1. new = [r EXCEPT !.freeish = freeish, !.sharedish = sharedish]
    BY <1>3 DEF Reconnect
  <2>2. /\ freeish \in Seq(Fibers) /\ \A x : Contains(freeish, x) <=> Contains(r.freeish, x) /\ x \notin {s}
        /\ Distinct(freeish)
    BY <1>1, WithoutIs DEF Refers
  <2>3. /\ sharedish \in Seq(Fibers) /\ \A x : Contains(sharedish, x) <=> x = s \/ Contains(r.sharedish, x)
        /\ Distinct(sharedish)
    BY <1>1, <1>3, PrependIs DEF Refers
  <2> HIDE DEF freeish, sharedish, new
  <2>4. /\ new \in QueueRefs /\ new.count = r.count
        /\ new.freeish = freeish /\ new.sharedish = sharedish
    BY <1>1, <2>1, <2>2, <2>3 DEF QueueRefs
  <2>5. Refers(new, q)
    BY <2>2, <2>3, <2>4 DEF Refers
  <2> QED
    BY <1>3, <2>2, <2>3, <2>4, <2>5 DEF new
<1>4. CASE ~read_locked /\ ~Contains(r.freeish, s)
  <2> DEFINE sharedish == Without(r.sharedish, {s})
             freeish == <<s>> \o r.freeish
  <2>1. new = [r EXCEPT !.sharedish = sharedish, !.freeish = freeish]
    BY <1>4 DEF Reconnect
  <2>2. /\ sharedish \in Seq(Fibers)
        /\ \A x : Contains(sharedish, x) <=> Contains(r.sharedish, x) /\ x \notin {s}
        /\ Distinct(sharedish)
    BY <1>1, WithoutIs DEF Refers
  <2>3. /\ freeish \in Seq(Fibers) /\ \A x : Contains(freeish, x) <=> x = s \/ Contains(r.freeish, x)
        /\ Distinct(freeish)
    BY <1>1, <1>4, PrependIs DEF Refers
  <2> HIDE DEF freeish, sharedish, new
  <2>4. /\ new \in QueueRefs /\ new.count = r.count
        /\ new.freeish = freeish /\ new.sharedish = sharedish
    BY <1>1, <2>1, <2>2, <2>3 DEF QueueRefs
  <2>5. Refers(new, q)
    BY <2>2, <2>3, <2>4 DEF Refers
  <2> QED
    BY <1>4, <2>2, <2>3, <2>4, <2>5 DEF new
<1>5. CASE \/ read_locked /\ Contains(r.sharedish, s)
           \/ ~read_locked /\ Contains(r.freeish, s)
  <2>1. new = r
    BY <1>5 DEF Reconnect
  <2> HIDE DEF new
  <2> QED
    BY <1>1, <1>5, <2>1 DEF new, Refers
<1> QED
  BY <1>3, <1>4, <1>5

\* The references of a queue without those of a server that leaves.
LEMMA DereferencedIs ==
    ASSUME NEW s \in Fibers, NEW r \in QueueRefs, r.count > 0
    PROVE  LET new == Dereferenced(r, s)
           IN /\ new \in QueueRefs /\ new.count = r.count - 1
              /\ \A x : /\ Contains(new.freeish, x) <=> Contains(r.freeish, x) /\ x # s
                        /\ Contains(new.sharedish, x) <=> Contains(r.sharedish, x) /\ x # s
              /\ Distinct(r.freeish) => Distinct(new.freeish)
              /\ Distinct(r.sharedish) => Distinct(new.sharedish)
<1> DEFINE freeish == Without(r.freeish, {s})
           sharedish == Without(r.sharedish, {s})
<1>1. r.sharedish \in Seq(Fibers) /\ r.freeish \in Seq(Fibers) /\ r.count - 1 \in Nat
  BY DEF QueueRefs
<1>2. /\ freeish \in Seq(Fibers) /\ \A x : Contains(freeish, x) <=> Contains(r.freeish, x) /\ x \notin {s}
      /\ Distinct(r.freeish) => Distinct(freeish)
  BY <1>1, WithoutIs
<1>3. /\ sharedish \in Seq(Fibers)
      /\ \A x : Contains(sharedish, x) <=> Contains(r.sharedish, x) /\ x \notin {s}
      /\ Distinct(r.sharedish) => Distinct(sharedish)
  BY <1>1, WithoutIs
<1> HIDE DEF freeish, sharedish
<1>4. Dereferenced(r, s) = [count |-> r.count - 1, freeish |-> freeish, sharedish |-> sharedish]
  BY DEF Dereferenced, freeish, sharedish
<1> QED
  BY <1>1, <1>2, <1>3, <1>4 DEF QueueRefs

-----------------------------------------------------------------------------
(* The steps, and what they do to each variable. *)

\* What fiber f may do, whatever the program.
FiberStep(f) ==
    \/ \E t \in Fibers : JoinMissing(f, t)
    \/ \E t \in Fibers, fn \in Fns, type \in CallTypes : Join(f, t, fn, type)
    \/ Defer(f)
    \/ JoinWoken(f) \/ StepOut(f) \/ JoinFailed(f) \/ ThrowMissing(f) \/ Enter(f)
    \/ Leave(f)
    \/ \E fns \in SUBSET Fns, auto \in BOOLEAN : Accept(f, fns, auto, FALSE)
    \/ /\ joins[f] # <<>>
       /\ \E fns \in SUBSET Fns, auto \in BOOLEAN : Accept(f, fns, auto, TRUE)
    \/ Attach(f) \/ AcceptWoken(f) \/ CancelAccept(f) \/ CancelWoken(f)
    \/ Restore(f) \/ Cleanup(f)
    \/ Throw(f) \/ SetUnintr(f) \/ CancelFiber(f)
    \/ Unindex(f) \/ Teardown(f)

\* What a program may do, any fiber may do.
LEMMA StepCases ==
    ASSUME TypeOK, Next
    PROVE  program' = program /\ \E f \in Fibers : FiberStep(f)
<1>1. /\ program.accepts \subseteq Fibers \X ((SUBSET Fns) \ {{}})
      /\ program.joins \subseteq Fibers \X Fibers \X Fns \X CallTypes
  BY IFCAssumption DEF TypeOK
<1>2. PICK f \in Fibers : SystemStep(f) \/ UserStep(f)
  BY DEF Next
<1>3. CASE SystemStep(f)
  BY <1>3 DEF SystemStep, FiberStep, Next
<1>4. CASE UserStep(f)
  <2>1. CASE \E j \in program.joins :
                j[1] = f /\ (JoinMissing(f, j[2]) \/ Join(f, j[2], j[3], j[4]))
    <3>1. PICK j \in program.joins : JoinMissing(f, j[2]) \/ Join(f, j[2], j[3], j[4])
      BY <2>1
    <3>2. j[2] \in Fibers /\ j[3] \in Fns /\ j[4] \in CallTypes
      BY <1>1
    <3> QED
      BY <3>1, <3>2 DEF FiberStep, Next
  <2>2. CASE \E a \in program.accepts, auto \in BOOLEAN : a[1] = f /\ Accept(f, a[2], auto, FALSE)
    <3>1. PICK a \in program.accepts, auto \in BOOLEAN : Accept(f, a[2], auto, FALSE)
      BY <2>2
    <3>2. a[2] \in SUBSET Fns
      BY <1>1
    <3> QED
      BY <3>1, <3>2 DEF FiberStep, Next
  <2>3. CASE \E a \in program.accepts, auto \in BOOLEAN :
                a[1] = f /\ f \in program.serverSide /\ joins[f] # <<>> /\ Accept(f, a[2], auto, TRUE)
    <3>1. PICK a \in program.accepts, auto \in BOOLEAN : joins[f] # <<>> /\ Accept(f, a[2], auto, TRUE)
      BY <2>3
    <3>2. a[2] \in SUBSET Fns
      BY <1>1
    <3> QED
      BY <3>1, <3>2 DEF FiberStep, Next
  <2> QED
    BY <1>4, <2>1, <2>2, <2>3 DEF UserStep, FiberStep, Next
<1> QED
  BY <1>2, <1>3, <1>4

\* The operations on control blocks return control blocks.
LEMMA CtrlTypes ==
    ASSUME NEW c \in Ctrl
    PROVE  /\ CancellationPoint(c) \in Ctrl /\ WakeDone(c) \in Ctrl
           /\ WakeJoinRace(c) \in Ctrl /\ Cancel(c) \in Ctrl
           /\ Interrupted(c) \in BOOLEAN /\ Bounces(c) \in BOOLEAN
  BY DEF Ctrl, CancellationPoint, WakeDone, WakeJoinRace, Cancel, Interrupted, Bounces

\* What others may do to the control block of a fiber: cancel it, or wake it.
Prodded(c, d) ==
    d \in {c, Cancel(c), WakeDone(c), WakeJoinRace(c)}

\* The joins of a fiber, as a function of their depth.
LEMMA JoinsTyped ==
    ASSUME TypeOK, NEW f \in Fibers
    PROVE  /\ Depth(f) \in Nat /\ DOMAIN joins[f] = 1..Depth(f)
           /\ joins[f] \in [1..Depth(f) -> Clients]
           /\ joins[f] # <<>> <=> Depth(f) # 0
           /\ joins[f] # <<>> => Depth(f) \in DOMAIN joins[f] /\ Client(f) \in Clients
<1>1. joins[f] \in Seq(Clients)
  BY DEF TypeOK
<1>2. /\ Depth(f) \in Nat /\ DOMAIN joins[f] = 1..Depth(f)
      /\ joins[f] \in [1..Depth(f) -> Clients]
  BY <1>1, LenProperties DEF Depth
<1>3. joins[f] # <<>> <=> Depth(f) # 0
  BY <1>1 DEF Depth
<1> QED
  BY <1>2, <1>3 DEF Client

\* The innermost join of f is gone.
Popped(f) ==
    /\ joins' \in [Fibers -> Seq(Clients)]
    /\ Depth(f)' = Depth(f) - 1 /\ DOMAIN joins'[f] = 1..(Depth(f) - 1)
    /\ \A i \in 1..(Depth(f) - 1) : joins'[f][i] = joins[f][i]
    /\ \A g \in Fibers \ {f} : joins'[g] = joins[g]

\* Front takes the innermost join.
LEMMA FrontPops ==
    ASSUME TypeOK, NEW f \in Fibers, joins[f] # <<>>, joins' = [joins EXCEPT ![f] = Front(@)]
    PROVE  Popped(f)
<1>1. /\ Depth(f) \in Nat \ {0} /\ joins[f] \in Seq(Clients)
      /\ joins \in [Fibers -> Seq(Clients)] /\ \A i \in 1..(Depth(f) - 1) : joins[f][i] \in Clients
  BY JoinsTyped DEF TypeOK
<1> DEFINE front == SubSeq(joins[f], 1, Depth(f) - 1)
<1>2. /\ front \in Seq(Clients) /\ Len(front) = Depth(f) - 1
      /\ \A i \in 1..(Depth(f) - 1) : front[i] = joins[f][i]
  BY <1>1, SubSeqProperties
<1> HIDE DEF front
<1>3. joins' = [joins EXCEPT ![f] = front]
  BY DEF front, Front, Depth
<1>4. joins'[f] = front /\ joins' \in [Fibers -> Seq(Clients)]
  BY <1>1, <1>2, <1>3
<1>5. Depth(f)' = Depth(f) - 1 /\ DOMAIN joins'[f] = 1..(Depth(f) - 1)
  BY <1>2, <1>4, LenProperties DEF Depth
<1>6. \A i \in 1..(Depth(f) - 1) : joins'[f][i] = joins[f][i]
  BY <1>2, <1>4
<1>7. \A g \in Fibers \ {f} : joins'[g] = joins[g]
  BY <1>1, <1>3
<1> QED
  BY <1>4, <1>5, <1>6, <1>7 DEF Popped

\* What server s offers, and whether it is to restore a cancellation, stays.
SameOffer(s) ==
    /\ server'[s].accepting = server[s].accepting
    /\ server'[s].fns = server[s].fns
    /\ server'[s].pending_canceled = server[s].pending_canceled

NewClient(t, fn, type, s) ==
    [type |-> type, fiber_id |-> t, fn |-> fn, server |-> s, live_join_race |-> FALSE]

\* f joins t, with server s, and goes to a place of its code.
Joins(f, t, fn, type, s, to) ==
    /\ at[f] = "user" /\ ~ctrl[f].deferred /\ t \in fiber_map /\ Depth(f) < MaxDepth
    /\ at' = [at EXCEPT ![f] = to]
    /\ fiber_map' = fiber_map
    /\ queues' = queues \union {<<t, fn>>}
    /\ joins' \in [Fibers -> Seq(Clients)]
    /\ Depth(f)' = Depth(f) + 1 /\ DOMAIN joins'[f] = 1..(Depth(f) + 1)
    /\ \A i \in 1..Depth(f) : joins'[f][i] = joins[f][i]
    /\ joins'[f][Depth(f) + 1] = NewClient(t, fn, type, s)
    /\ \A g \in Fibers \ {f} : joins'[g] = joins[g]
    /\ refs' \in [Queues -> QueueRefs]
    /\ \A q \in Queues \ {<<t, fn>>} : refs'[q] = refs[q]
    /\ refs'[<<t, fn>>].count = refs[<<t, fn>>].count
    /\ Refers(refs'[<<t, fn>>], <<t, fn>>)

\* It found server s.
JoinAttached(f, t, fn, type, s) ==
    /\ Joins(f, t, fn, type, s, "joined")
    /\ s \in Listening /\ <<t, fn>> \in QueuesOf(s)
    /\ type = "lock" => ~server[s].read_locked
    /\ Finds(refs'[<<t, fn>>], <<t, fn>>)
    /\ ctrl' = ctrl /\ waiting' = waiting
    /\ server' \in [Fibers -> Servers]
    /\ server'[s].running = server[s].running \union {<<f, Depth(f) + 1>>}
    /\ server'[s].read_locked = (server[s].read_locked \/ type = "shared")
    /\ server'[s].listening = (type = "shared")
    /\ SameOffer(s)
    /\ \A x \in Fibers \ {s} : server'[x] = server[x]

\* It found none, and stopped the shared server closed (if that is not None).
JoinQueued(f, t, fn, type, closed) ==
    /\ Joins(f, t, fn, type, None, "join_defer")
    /\ \A x \in Listening : <<t, fn>> \in QueuesOf(x) => type = "lock" /\ server[x].read_locked
    /\ ctrl' = [ctrl EXCEPT ![f].done = FALSE]
    /\ waiting' = Append(waiting, f)
    /\ closed # None => closed \in Listening /\ server[closed].read_locked
    /\ server' \in [Fibers -> Servers]
    /\ \A x \in Fibers :
        /\ server'[x].listening = (server[x].listening /\ x # closed)
        /\ server'[x].running = server[x].running
        /\ server'[x].read_locked = server[x].read_locked
        /\ SameOffer(x)
        /\ x # closed => server'[x] = server[x]
    /\ \A x \in Listening \ {closed} :
        LET r == refs'[<<t, fn>>]
        IN /\ Contains(r.sharedish, x) => server[x].read_locked
           /\ <<t, fn>> \in QueuesOf(x) => Contains(r.freeish, x) \/ Contains(r.sharedish, x)

\* A join attaches the client to a server it found, or queues it.
LEMMA JoinIs ==
    ASSUME IFCInv, NEW f \in Fibers, NEW t \in Fibers, NEW fn \in Fns, NEW type \in CallTypes,
           Join(f, t, fn, type)
    PROVE  \/ \E s \in Fibers : JoinAttached(f, t, fn, type, s)
           \/ \E closed \in Fibers \union {None} : JoinQueued(f, t, fn, type, closed)
<1> DEFINE q == <<t, fn>>
           found == IF type = "shared" THEN FindShared(refs[q]) ELSE FindFree(refs[q])
           s == found.server
           closed == Starve(found.refs)
           client == NewClient(t, fn, type, s)
<1>1. q \in Queues /\ TypeOK /\ refs[q] \in QueueRefs /\ Refers(refs[q], q) /\ Finds(refs[q], q)
  BY DEF IFCInv, Books, Queues, TypeOK, QueueRefs
<1>2. FoundRightly(found, refs[q], q, type)
  BY <1>1, FindSharedIs, FindFreeIs DEF CallTypes
<1>3. found.refs \in QueueRefs /\ Refers(found.refs, q) /\ Finds(found.refs, q) /\ s \in Fibers \union {None}
  BY <1>2 DEF FoundRightly
<1>4. StarvedRightly(closed, found.refs, q)
  BY <1>1, <1>3, StarveIs
<1>5. /\ at[f] = "user" /\ ~ctrl[f].deferred /\ t \in fiber_map /\ Depth(f) < MaxDepth
      /\ at' = [at EXCEPT ![f] = IF s = None THEN "join_defer" ELSE "joined"]
      /\ fiber_map' = fiber_map
      /\ queues' = queues \union {q}
      /\ joins' = [joins EXCEPT ![f] = Append(@, client)]
  BY DEF Join, Goto, NewClient
<1>6. \/ /\ s # None
         /\ refs' = [refs EXCEPT ![q] = found.refs]
         /\ server' = [server EXCEPT
                ![s].running = @ \union {<<f, Depth(f) + 1>>},
                ![s].read_locked = @ \/ type = "shared",
                ![s].listening = type = "shared"]
         /\ UNCHANGED <<ctrl, waiting>>
      \/ /\ s = None
         /\ waiting' = Append(waiting, f)
         /\ ctrl' = [ctrl EXCEPT ![f].done = FALSE]
         /\ refs' = [refs EXCEPT ![q] = IF type = "lock" THEN closed.refs ELSE found.refs]
         /\ server' = IF type = "lock" /\ closed.server # None
                      THEN [server EXCEPT ![closed.server].listening = FALSE]
                      ELSE server
  BY DEF Join
<1> HIDE DEF found, closed, s, client
<1>7. client \in Clients
  BY <1>3 DEF client, NewClient, Clients
<1>8. /\ joins' \in [Fibers -> Seq(Clients)]
      /\ Depth(f)' = Depth(f) + 1 /\ DOMAIN joins'[f] = 1..(Depth(f) + 1)
      /\ \A i \in 1..Depth(f) : joins'[f][i] = joins[f][i]
      /\ joins'[f][Depth(f) + 1] = client
      /\ \A g \in Fibers \ {f} : joins'[g] = joins[g]
  <2>1. joins[f] \in Seq(Clients) /\ joins \in [Fibers -> Seq(Clients)] /\ Depth(f) \in Nat
    BY <1>1, JoinsTyped DEF TypeOK
  <2>2. joins'[f] = Append(joins[f], client) /\ \A g \in Fibers \ {f} : joins'[g] = joins[g]
    BY <1>5, <2>1
  <2>3. /\ Append(joins[f], client) \in Seq(Clients)
        /\ Len(Append(joins[f], client)) = Depth(f) + 1
        /\ \A i \in 1..Depth(f) : Append(joins[f], client)[i] = joins[f][i]
        /\ Append(joins[f], client)[Depth(f) + 1] = client
    BY <1>7, <2>1, AppendProperties DEF Depth
  <2>4. joins' \in [Fibers -> Seq(Clients)]
    BY <1>5, <2>1, <2>3
  <2>5. Depth(f)' = Depth(f) + 1 /\ DOMAIN joins'[f] = 1..(Depth(f) + 1)
    BY <2>2, <2>3, LenProperties DEF Depth
  <2> QED
    BY <2>2, <2>3, <2>4, <2>5
<1>9. server \in [Fibers -> Servers] /\ refs \in [Queues -> QueueRefs] /\ MaxDepth \in Nat
  BY <1>1, IFCAssumption DEF TypeOK, QueueRefs
<1>10. CASE s # None
  <2>1. s \in Fibers
    BY <1>3, <1>10
  <2>2. /\ refs' = [refs EXCEPT ![q] = found.refs]
        /\ server' = [server EXCEPT
                ![s].running = @ \union {<<f, Depth(f) + 1>>},
                ![s].read_locked = @ \/ type = "shared",
                ![s].listening = type = "shared"]
        /\ ctrl' = ctrl /\ waiting' = waiting
    BY <1>6, <1>10
  <2>3. Joins(f, t, fn, type, s, "joined")
    BY <1>1, <1>2, <1>3, <1>5, <1>8, <1>9, <1>10, <2>2 DEF Joins, client, FoundRightly
  <2>4. <<f, Depth(f) + 1>> \in Fibers \X (1..MaxDepth)
    BY <1>1, <1>5, <1>9, JoinsTyped
  <2>5. /\ server' \in [Fibers -> Servers]
        /\ server'[s].running = server[s].running \union {<<f, Depth(f) + 1>>}
        /\ server'[s].read_locked = (server[s].read_locked \/ type = "shared")
        /\ server'[s].listening = (type = "shared")
        /\ SameOffer(s)
        /\ \A x \in Fibers \ {s} : server'[x] = server[x]
    <3> DEFINE running == server[s].running \union {<<f, Depth(f) + 1>>}
               read_locked == server[s].read_locked \/ type = "shared"
               listening == type = "shared"
               new == [server[s] EXCEPT !.running = running, !.read_locked = read_locked,
                                        !.listening = listening]
    <3>1. server[s] \in Servers
      BY <1>9, <2>1
    <3>2. running \in SUBSET (Fibers \X (1..MaxDepth))
      BY <2>4, <3>1 DEF Servers
    <3>3. read_locked \in BOOLEAN /\ listening \in BOOLEAN
      BY <3>1 DEF Servers
    <3> HIDE DEF running, read_locked, listening
    <3>4. new \in Servers
      BY <3>1, <3>2, <3>3 DEF Servers
    <3>5. /\ new.running = running /\ new.read_locked = read_locked /\ new.listening = listening
          /\ new.accepting = server[s].accepting /\ new.fns = server[s].fns
          /\ new.pending_canceled = server[s].pending_canceled
      BY <3>1 DEF Servers
    <3>6. server' = [server EXCEPT ![s] = new]
      BY <1>9, <2>1, <2>2 DEF running, read_locked, listening
    <3>7. server'[s] = new /\ server' \in [Fibers -> Servers] /\ \A x \in Fibers \ {s} : server'[x] = server[x]
      BY <1>9, <2>1, <3>4, <3>6
    <3> QED
      BY <3>5, <3>7 DEF SameOffer, running, read_locked, listening
  <2>6. refs'[q] = found.refs
    BY <1>1, <1>9, <2>2
  <2>7. /\ s \in Listening /\ q \in QueuesOf(s)
        /\ type = "lock" => ~server[s].read_locked
    BY <1>2, <1>10 DEF FoundRightly, s
  <2>8. Finds(refs'[q], q)
    BY <1>3, <2>6
  <2>9. JoinAttached(f, t, fn, type, s)
    BY <2>2, <2>3, <2>5, <2>7, <2>8 DEF JoinAttached
  <2> QED
    BY <2>1, <2>9
<1>11. CASE s = None
  <2> DEFINE new == IF type = "lock" THEN closed.refs ELSE found.refs
             stop == IF type = "lock" THEN closed.server ELSE None
  <2>1. /\ refs' = [refs EXCEPT ![q] = new]
        /\ ctrl' = [ctrl EXCEPT ![f].done = FALSE]
        /\ waiting' = Append(waiting, f)
        /\ server' = IF stop # None THEN [server EXCEPT ![stop].listening = FALSE] ELSE server
    BY <1>6, <1>11
  <2>2. /\ new \in QueueRefs /\ Refers(new, q) /\ new.count = refs[q].count
        /\ stop \in Fibers \union {None}
        /\ stop # None => stop \in Listening /\ server[stop].read_locked
    BY <1>2, <1>4 DEF FoundRightly, StarvedRightly
  <2>3. \A x \in Listening \ {stop} :
            /\ Contains(new.sharedish, x) => server[x].read_locked
            /\ q \in QueuesOf(x) => Contains(new.freeish, x) \/ Contains(new.sharedish, x)
    BY <1>3, <1>4 DEF StarvedRightly, Finds
  <2> HIDE DEF new, stop
  <2>4. refs'[q] = new /\ refs' \in [Queues -> QueueRefs] /\ \A p \in Queues \ {q} : refs'[p] = refs[p]
    BY <1>1, <1>9, <2>1, <2>2
  <2>5. Joins(f, t, fn, type, None, "join_defer")
    BY <1>5, <1>8, <1>11, <2>2, <2>4 DEF Joins, client
  <2>6. \A x \in Listening : q \in QueuesOf(x) => type = "lock" /\ server[x].read_locked
    BY <1>2, <1>11 DEF FoundRightly, s
  <2>7. /\ server' \in [Fibers -> Servers]
        /\ \A x \in Fibers :
            /\ server'[x].listening = (server[x].listening /\ x # stop)
            /\ server'[x].running = server[x].running
            /\ server'[x].read_locked = server[x].read_locked
            /\ SameOffer(x)
            /\ x # stop => server'[x] = server[x]
    <3>1. CASE stop = None
      BY <1>9, <2>1, <3>1, IFCAssumption DEF SameOffer, Servers
    <3>2. CASE stop # None
      <4>1. stop \in Fibers
        BY <2>2, <3>2
      <4>2. server' = [server EXCEPT ![stop].listening = FALSE]
        BY <2>1, <3>2
      <4> QED
        BY <1>9, <4>1, <4>2 DEF SameOffer, Servers
    <3> QED
      BY <3>1, <3>2
  <2>8. JoinQueued(f, t, fn, type, stop)
    BY <2>1, <2>2, <2>3, <2>4, <2>5, <2>6, <2>7 DEF JoinQueued
  <2> QED
    BY <2>2, <2>8
<1> QED
  BY <1>10, <1>11

\* A join that has a server is one the server counts, and the server is in accept.
LEMMA JoinedIsServed ==
    ASSUME Books, NEW f \in Fibers, NEW i \in DOMAIN joins[f], joins[f][i].server # None
    PROVE  /\ i \in 1..MaxDepth /\ joins[f][i].server \in Fibers
           /\ <<f, i>> \in server[joins[f][i].server].running
           /\ at[joins[f][i].server] \in AcceptPoints
<1> DEFINE s == joins[f][i].server
<1>1. TypeOK /\ Joined /\ Counted /\ Standing /\ MaxDepth \in Nat
  BY IFCAssumption DEF Books
<1>2. i \in 1..Depth(f) /\ joins[f][i] \in Clients /\ Depth(f) \in Nat /\ Depth(f) =< MaxDepth
  BY <1>1, JoinsTyped DEF Joined, JoinedOf
<1>3. i \in 1..MaxDepth /\ s \in Fibers
  BY <1>1, <1>2 DEF Clients
<1>4. <<f, i>> \in server[s].running
  BY <1>1, <1>3 DEF Counted
<1>5. server[s] # NoServer
  BY <1>4 DEF NoServer
<1> QED
  BY <1>1, <1>3, <1>4, <1>5 DEF Standing, StandingOf

\* Where code runs, every join has a server.
LEMMA InnermostIsServed ==
    ASSUME Books, NEW f \in Fibers, at[f] \notin JoinWaits \union {"join_failed"},
           NEW i \in DOMAIN joins[f]
    PROVE  /\ i \in 1..MaxDepth /\ joins[f][i].server \in Fibers
           /\ <<f, i>> \in server[joins[f][i].server].running
           /\ at[joins[f][i].server] \in AcceptPoints
<1>1. ~Waits(f)
  BY DEF Books, Joined, JoinedOf
<1>2. joins[f][i].server # None
  BY <1>1 DEF Books, Joined, JoinedOf
<1> QED
  BY <1>2, JoinedIsServed

\* f left server s.
LeaveDone(f, s) ==
    LET running == server[s].running \ {<<f, Depth(f)>>}
    IN /\ at[f] = "user" /\ ~ctrl[f].deferred /\ joins[f] # <<>>
       /\ Client(f).server = s /\ s # f /\ at[s] \in AcceptPoints
       /\ <<f, Depth(f)>> \in server[s].running
       /\ Popped(f)
       /\ server' \in [Fibers -> Servers]
       /\ server'[s].running = running
       /\ server'[s].listening = (server[s].listening /\ running # {})
       /\ server'[s].read_locked = server[s].read_locked
       /\ SameOffer(s)
       /\ \A x \in Fibers \ {s} : server'[x] = server[x]
       /\ ctrl' \in [Fibers -> Ctrl]
       /\ ctrl'[s] = IF running = {} THEN WakeDone(ctrl[s]) ELSE ctrl[s]
       /\ ctrl'[f].canceled = ctrl[f].canceled /\ ctrl'[f].unintr = ctrl[f].unintr
       /\ ctrl'[f].deferred = ctrl[f].deferred
       /\ \A x \in Fibers \ {f, s} : ctrl'[x] = ctrl[x]
       /\ UNCHANGED <<at, fiber_map, waiting, queues, refs>>

\* Leave is what LeaveDone says: the server is another fiber, in accept.
LEMMA LeaveIs ==
    ASSUME IFCInv, NEW f \in Fibers, Leave(f)
    PROVE  \E s \in Fibers : LeaveDone(f, s)
<1> DEFINE s == Client(f).server
           running == server[s].running \ {<<f, Depth(f)>>}
           race == ctrl[f].join_race /\ (Client(f).live_join_race => LiveBelow(f, 1))
<1>1. Books /\ TypeOK /\ ctrl \in [Fibers -> Ctrl] /\ server \in [Fibers -> Servers]
  BY DEF IFCInv, Books, TypeOK
<1>2. at[f] = "user" /\ ~ctrl[f].deferred /\ joins[f] # <<>>
  BY DEF Leave, Goto
<1>3. Depth(f) \in DOMAIN joins[f] /\ Client(f) = joins[f][Depth(f)]
  BY <1>1, <1>2, JoinsTyped DEF Client
<1>4. s \in Fibers /\ <<f, Depth(f)>> \in server[s].running /\ at[s] \in AcceptPoints
  BY <1>1, <1>2, <1>3, InnermostIsServed DEF JoinWaits
<1>5. s # f
  BY <1>2, <1>4 DEF AcceptPoints
<1>6. Popped(f)
  BY <1>1, <1>2, FrontPops DEF Leave
<1>7. at' = at
  BY <1>1, <1>2 DEF Leave, Goto, TypeOK
<1>8. /\ server' = [server EXCEPT ![s].running = running, ![s].listening = @ /\ running # {}]
      /\ ctrl' = [ctrl EXCEPT ![s] = Left(@, running), ![f].join_race = race]
      /\ UNCHANGED <<fiber_map, waiting, queues, refs>>
  BY DEF Leave
<1> HIDE DEF s, running
<1>9. /\ server' \in [Fibers -> Servers]
      /\ server'[s].running = running
      /\ server'[s].listening = (server[s].listening /\ running # {})
      /\ server'[s].read_locked = server[s].read_locked
      /\ SameOffer(s)
      /\ \A x \in Fibers \ {s} : server'[x] = server[x]
  <2> DEFINE listening == server[s].listening /\ running # {}
             new == [server[s] EXCEPT !.running = running, !.listening = listening]
  <2>1. server[s] \in Servers
    BY <1>1, <1>4
  <2>2. running \in SUBSET (Fibers \X (1..MaxDepth)) /\ listening \in BOOLEAN
    BY <2>1 DEF Servers, running
  <2> HIDE DEF listening
  <2>3. new \in Servers
    BY <2>1, <2>2 DEF Servers
  <2>4. /\ new.running = running /\ new.listening = listening
        /\ new.read_locked = server[s].read_locked
        /\ new.accepting = server[s].accepting /\ new.fns = server[s].fns
        /\ new.pending_canceled = server[s].pending_canceled
    BY <2>1 DEF Servers
  <2>5. server' = [server EXCEPT ![s] = new]
    BY <1>1, <1>4, <1>8 DEF listening
  <2>6. server'[s] = new /\ server' \in [Fibers -> Servers] /\ \A x \in Fibers \ {s} : server'[x] = server[x]
    BY <1>1, <1>4, <2>3, <2>5
  <2> QED
    BY <2>4, <2>6 DEF SameOffer, listening
<1>10. /\ ctrl' \in [Fibers -> Ctrl]
       /\ ctrl'[s] = IF running = {} THEN WakeDone(ctrl[s]) ELSE ctrl[s]
       /\ ctrl'[f].canceled = ctrl[f].canceled /\ ctrl'[f].unintr = ctrl[f].unintr
       /\ ctrl'[f].deferred = ctrl[f].deferred
       /\ \A x \in Fibers \ {f, s} : ctrl'[x] = ctrl[x]
  <2> DEFINE left == Left(ctrl[s], running)
  <2>1. race \in BOOLEAN /\ ctrl[f] \in Ctrl /\ ctrl[s] \in Ctrl
    BY <1>1, <1>4 DEF Ctrl
  <2> HIDE DEF race
  <2>2. left \in Ctrl /\ left = IF running = {} THEN WakeDone(ctrl[s]) ELSE ctrl[s]
    BY <2>1, CtrlTypes DEF Left
  <2>3. [ctrl[f] EXCEPT !.join_race = race] \in Ctrl
    BY <2>1 DEF Ctrl
  <2> HIDE DEF left
  <2>4. ctrl' = [ctrl EXCEPT ![s] = left, ![f] = [ctrl[f] EXCEPT !.join_race = race]]
    BY <1>1, <1>4, <1>5, <1>8 DEF left
  <2>5. /\ ctrl' \in [Fibers -> Ctrl] /\ ctrl'[s] = left
        /\ ctrl'[f] = [ctrl[f] EXCEPT !.join_race = race]
        /\ \A x \in Fibers \ {f, s} : ctrl'[x] = ctrl[x]
    BY <1>1, <1>4, <1>5, <2>2, <2>3, <2>4
  <2>6. /\ ctrl'[f].canceled = ctrl[f].canceled /\ ctrl'[f].unintr = ctrl[f].unintr
        /\ ctrl'[f].deferred = ctrl[f].deferred
    BY <2>1, <2>5 DEF Ctrl
  <2> QED
    BY <2>2, <2>5, <2>6
<1>11. LeaveDone(f, s)
  BY <1>2, <1>4, <1>5, <1>6, <1>7, <1>8, <1>9, <1>10 DEF LeaveDone, running, s
<1> QED
  BY <1>4, <1>11

\* s begins to accept calls of fns on id.
AcceptDone(s, fns, id) ==
    /\ at[s] = "user" /\ ~ctrl[s].deferred /\ at' = [at EXCEPT ![s] = "accept"]
    /\ id \in Fibers /\ (id = s \/ (joins[s] # <<>> /\ Client(s).server = id))
    /\ server[s] = NoServer
    /\ server' \in [Fibers -> Servers]
    /\ server'[s].running = {} /\ ~server'[s].listening /\ ~server'[s].pending_canceled
    /\ server'[s].accepting = id /\ server'[s].fns = fns
    /\ \A x \in Fibers \ {s} : server'[x] = server[x]
    /\ queues' = queues \union ({id} \X fns)
    /\ refs' \in [Queues -> QueueRefs]
    /\ \A q \in Queues :
        /\ refs'[q].freeish = refs[q].freeish /\ refs'[q].sharedish = refs[q].sharedish
        /\ refs'[q].count = IF q \in {id} \X fns THEN refs[q].count + 1 ELSE refs[q].count
    /\ UNCHANGED <<ctrl, fiber_map, joins, waiting>>

\* The id that is accepted on is the fiber's own or that of a server it joined.
LEMMA AcceptIs ==
    ASSUME IFCInv, NEW s \in Fibers, NEW fns \in SUBSET Fns, NEW auto \in BOOLEAN,
           NEW side \in BOOLEAN, side => joins[s] # <<>>, Accept(s, fns, auto, side)
    PROVE  \E id \in Fibers : AcceptDone(s, fns, id)
<1> DEFINE id == IF side THEN Client(s).server ELSE s
           new == [NoServer EXCEPT !.accepting = id, !.fns = fns, !.auto_reaccept = auto]
<1>1. Books /\ TypeOK /\ Standing /\ server \in [Fibers -> Servers] /\ refs \in [Queues -> QueueRefs]
  BY DEF IFCInv, Books, TypeOK, QueueRefs
<1>2. at[s] = "user" /\ ~ctrl[s].deferred /\ at' = [at EXCEPT ![s] = "accept"]
  BY DEF Accept, Goto
<1>3. server[s] = NoServer
  BY <1>1, <1>2 DEF Standing, StandingOf, AcceptPoints
<1>4. id \in Fibers /\ (id = s \/ (joins[s] # <<>> /\ Client(s).server = id))
  <2>1. CASE side
    <3>1. Depth(s) \in DOMAIN joins[s] /\ Client(s) = joins[s][Depth(s)]
      BY <1>1, <2>1, JoinsTyped DEF Client
    <3> QED
      BY <1>1, <1>2, <2>1, <3>1, InnermostIsServed DEF JoinWaits
  <2>2. CASE ~side
    BY <2>2
  <2> QED
    BY <2>1, <2>2
<1>5. /\ server' = [server EXCEPT ![s] = new]
      /\ queues' = queues \union ({id} \X fns)
      /\ refs' = [q \in Queues |-> IF q \in {id} \X fns THEN Referenced(refs[q]) ELSE refs[q]]
      /\ UNCHANGED <<ctrl, fiber_map, joins, waiting>>
  BY DEF Accept
<1> HIDE DEF id
<1>6. /\ new \in Servers /\ new.running = {} /\ ~new.listening /\ ~new.pending_canceled
      /\ new.accepting = id /\ new.fns = fns
  BY <1>4 DEF NoServer, Servers
<1> HIDE DEF new
<1>7. server'[s] = new /\ server' \in [Fibers -> Servers] /\ \A x \in Fibers \ {s} : server'[x] = server[x]
  BY <1>1, <1>5, <1>6
<1>8. \A r \in QueueRefs : /\ Referenced(r) \in QueueRefs
                           /\ Referenced(r).freeish = r.freeish
                           /\ Referenced(r).sharedish = r.sharedish
                           /\ Referenced(r).count = r.count + 1
  BY DEF QueueRefs, Referenced
<1>9. /\ refs' \in [Queues -> QueueRefs]
      /\ \A q \in Queues :
        /\ refs'[q].freeish = refs[q].freeish /\ refs'[q].sharedish = refs[q].sharedish
        /\ refs'[q].count = IF q \in {id} \X fns THEN refs[q].count + 1 ELSE refs[q].count
  BY <1>1, <1>5, <1>8
<1>10. AcceptDone(s, fns, id)
  BY <1>2, <1>3, <1>4, <1>5, <1>6, <1>7, <1>9 DEF AcceptDone
<1> QED
  BY <1>4, <1>10

\* The clients that wait for server s.
WaitersOf(s) == {f \in Fibers : Waits(f) /\ QueueOf(f) \in QueuesOf(s)}

(* Whom an accept lets in: somebody if somebody waits, and a locked client alone. *)
LEMMA TakenIs ==
    ASSUME Books, NEW s \in Fibers
    PROVE  LET taken == Taken(WaitingFor(s))
           IN /\ taken \subseteq WaitersOf(s)
              /\ WaitersOf(s) # {} => taken # {}
              /\ \A f, g \in taken : ~Shared(f) => f = g
<1> DEFINE n == Len(waiting)
           places == WaitingFor(s)
           taken == Taken(places)
           Enters(i) == \/ \A j \in places : j >= i
                        \/ \A j \in places : j =< i => Shared(waiting[j])
<1>1. waiting \in Seq(Fibers) /\ n \in Nat /\ DOMAIN waiting = 1..n /\ waiting \in [1..n -> Fibers]
  BY LenProperties DEF Books, TypeOK
<1>2. /\ places \in SUBSET (1..n)
      /\ \A i \in 1..n : i \in places <=> QueueOf(waiting[i]) \in QueuesOf(s)
  BY <1>1 DEF WaitingFor
<1>3. \A i \in places : waiting[i] \in WaitersOf(s)
  BY <1>1, <1>2 DEF WaitersOf, Waits, Contains
<1>4. \A f \in WaitersOf(s) : \E i \in places : waiting[i] = f
  BY <1>1, <1>2 DEF WaitersOf, Waits, Contains
<1> HIDE DEF places
<1>5. \A f : f \in taken <=> \E i \in places : Enters(i) /\ waiting[i] = f
  BY DEF Taken
<1>6. taken \subseteq WaitersOf(s)
  BY <1>3, <1>5
<1>7. ASSUME WaitersOf(s) # {}
      PROVE  taken # {}
  <2>1. places # {}
    BY <1>4, <1>7
  <2>2. PICK i \in places : \A j \in places : i =< j
    BY <1>1, <1>2, <2>1, LeastNatural
  <2>3. Enters(i)
    BY <1>1, <1>2, <2>2
  <2> QED
    BY <1>5, <2>3
<1>8. ASSUME NEW f \in taken, NEW g \in taken, ~Shared(f)
      PROVE  f = g
  <2>1. PICK i \in places : Enters(i) /\ waiting[i] = f
    BY <1>5
  <2>2. PICK k \in places : Enters(k) /\ waiting[k] = g
    BY <1>5
  <2>3. i \in Nat /\ k \in Nat
    BY <1>1, <1>2
  <2>4. \A j \in places : j >= i
    BY <1>8, <2>1, <2>3
  <2>5. \A j \in places : j >= k
    BY <1>8, <2>1, <2>2, <2>3, <2>4
  <2>6. i = k
    BY <2>3, <2>4, <2>5
  <2> QED
    BY <2>1, <2>2, <2>6
<1> QED
  BY <1>6, <1>7, <1>8 DEF places

\* s let taken in, of those that waited for it, and listens on or not.
AttachDone(s, taken, listening) ==
    /\ at[s] = "accept" /\ ~ctrl[s].deferred /\ at' = [at EXCEPT ![s] = "accept_defer"]
    /\ taken \subseteq WaitersOf(s) /\ s \notin taken
    /\ \A f, g \in taken : Client(f).type = "lock" => f = g
    /\ listening \in BOOLEAN
    /\ listening => WaitersOf(s) \subseteq taken /\ \A f \in taken : Client(f).type = "shared"
    /\ ~listening => taken # {}
    /\ waiting' \in Seq(Fibers) /\ Distinct(waiting')
    /\ \A f \in Fibers : Contains(waiting', f) <=> Waits(f) /\ f \notin taken
    /\ joins' \in [Fibers -> Seq(Clients)]
    /\ \A f \in Fibers : Depth(f)' = Depth(f) /\ DOMAIN joins'[f] = 1..Depth(f)
    /\ \A f \in Fibers : \A i \in 1..Depth(f) :
        /\ f \in taken /\ i = Depth(f) => joins'[f][i] = [joins[f][i] EXCEPT !.server = s]
        /\ f \notin taken \/ i # Depth(f) => joins'[f][i] = joins[f][i]
    /\ server' \in [Fibers -> Servers]
    /\ server'[s].running = server[s].running \union {<<f, Depth(f)>> : f \in taken}
    /\ server'[s].listening = listening
    /\ server'[s].read_locked = IF listening THEN taken # {} ELSE server[s].read_locked
    /\ SameOffer(s)
    /\ \A x \in Fibers \ {s} : server'[x] = server[x]
    /\ refs' = IF listening THEN Reconnect(s, taken # {}) ELSE refs
    /\ ctrl' \in [Fibers -> Ctrl]
    /\ ctrl'[s] = [ctrl[s] EXCEPT !.done = FALSE]
    /\ \A f \in taken : ctrl'[f] = WakeDone(ctrl[f])
    /\ \A f \in Fibers \ taken : f # s => ctrl'[f] = ctrl[f]
    /\ UNCHANGED <<fiber_map, queues>>

\* A server in need of clients takes one locked one or shared ones.
LEMMA AttachIs ==
    ASSUME IFCInv, NEW s \in Fibers, Attach(s)
    PROVE  \E taken \in SUBSET Fibers, listening \in BOOLEAN : AttachDone(s, taken, listening)
<1> DEFINE places == WaitingFor(s)
           taken == Taken(places)
           listening == \A i \in places : waiting[i] \in taken /\ Shared(waiting[i])
           read_locked == IF listening THEN taken # {} ELSE server[s].read_locked
           running == server[s].running \union {<<f, Depth(f)>> : f \in taken}
<1>1. /\ Books /\ TypeOK /\ Joined /\ Distinct(waiting)
      /\ ctrl \in [Fibers -> Ctrl] /\ server \in [Fibers -> Servers]
      /\ joins \in [Fibers -> Seq(Clients)] /\ waiting \in Seq(Fibers) /\ MaxDepth \in Nat
  BY IFCAssumption DEF IFCInv, Books, TypeOK, Allocated
<1>2. at[s] = "accept" /\ ~ctrl[s].deferred /\ at' = [at EXCEPT ![s] = "accept_defer"]
  BY DEF Attach, Goto
<1>3. /\ taken \subseteq WaitersOf(s)
      /\ WaitersOf(s) # {} => taken # {}
      /\ \A f, g \in taken : ~Shared(f) => f = g
  BY <1>1, TakenIs
<1>4. /\ waiting' = Without(waiting, taken)
      /\ joins' = [f \in Fibers |->
            IF f \in taken THEN [joins[f] EXCEPT ![Depth(f)].server = s] ELSE joins[f]]
      /\ server' = [server EXCEPT ![s].running = @ \union {<<f, Depth(f)>> : f \in taken},
                                  ![s].listening = listening,
                                  ![s].read_locked = IF listening THEN taken # {} ELSE @]
      /\ refs' = IF listening THEN Reconnect(s, taken # {}) ELSE refs
      /\ ctrl' = [f \in Fibers |-> IF f = s THEN [ctrl[s] EXCEPT !.done = FALSE]
                                   ELSE IF f \in taken THEN WakeDone(ctrl[f])
                                   ELSE ctrl[f]]
      /\ UNCHANGED <<fiber_map, queues>>
  BY DEF Attach
<1>5. /\ \A i \in places : waiting[i] \in WaitersOf(s)
      /\ \A f \in WaitersOf(s) : \E i \in places : waiting[i] = f
  <2>1. DOMAIN waiting = 1..Len(waiting) /\ waiting \in [1..Len(waiting) -> Fibers]
    BY <1>1, LenProperties
  <2> QED
    BY <2>1 DEF WaitersOf, Waits, Contains, WaitingFor
<1> HIDE DEF places, taken
<1>6. listening => WaitersOf(s) \subseteq taken /\ \A f \in taken : Client(f).type = "shared"
  BY <1>3, <1>5 DEF Shared
<1>7. ~listening => taken # {}
  BY <1>3, <1>5
<1>8. listening \in BOOLEAN
  OBVIOUS
<1> HIDE DEF listening
<1>9. \A f \in taken : /\ f \in Fibers /\ joins[f] # <<>> /\ at[f] \in JoinWaits
                       /\ Depth(f) \in 1..MaxDepth
  <2> TAKE f \in taken
  <2>1. f \in Fibers /\ Waits(f)
    BY <1>3 DEF WaitersOf
  <2>2. at[f] \in JoinWaits /\ joins[f] # <<>> /\ Depth(f) =< MaxDepth
    BY <1>1, <2>1 DEF Joined, JoinedOf
  <2> QED
    BY <1>1, <2>1, <2>2, JoinsTyped
<1>10. s \notin taken
  BY <1>2, <1>9 DEF JoinWaits
<1>11. /\ waiting' \in Seq(Fibers) /\ Distinct(waiting')
       /\ \A f \in Fibers : Contains(waiting', f) <=> Waits(f) /\ f \notin taken
  BY <1>1, <1>4, WithoutIs DEF Waits
<1>12. \A f \in Fibers :
        /\ joins'[f] \in Seq(Clients) /\ Depth(f)' = Depth(f) /\ DOMAIN joins'[f] = 1..Depth(f)
        /\ \A i \in 1..Depth(f) :
            /\ f \in taken /\ i = Depth(f) => joins'[f][i] = [joins[f][i] EXCEPT !.server = s]
            /\ f \notin taken \/ i # Depth(f) => joins'[f][i] = joins[f][i]
  <2> TAKE f \in Fibers
  <2>1. joins[f] \in Seq(Clients) /\ Depth(f) \in Nat /\ Depth(f) = Len(joins[f])
    BY <1>1, JoinsTyped DEF Depth
  <2>2. CASE f \in taken
    <3> DEFINE client == [joins[f][Depth(f)] EXCEPT !.server = s]
               new == [joins[f] EXCEPT ![Depth(f)] = client]
    <3>1. Depth(f) \in 1..Len(joins[f]) /\ joins[f][Depth(f)] \in Clients
      BY <1>1, <1>9, <2>1, <2>2, JoinsTyped DEF Client
    <3>2. client \in Clients
      BY <3>1 DEF Clients
    <3>3. joins'[f] = new
      BY <1>4, <2>2
    <3> HIDE DEF client
    <3>4. /\ new \in Seq(Clients) /\ Len(new) = Depth(f)
          /\ \A i \in 1..Depth(f) : new[i] = IF i = Depth(f) THEN client ELSE joins[f][i]
      BY <2>1, <3>1, <3>2, ExceptSeq
    <3>5. DOMAIN new = 1..Depth(f)
      BY <3>4, LenProperties
    <3> HIDE DEF new
    <3>6. Depth(f)' = Depth(f)
      BY <3>3, <3>4 DEF Depth
    <3>7. \A i \in 1..Depth(f) : joins'[f][i] = IF i = Depth(f) THEN client ELSE joins[f][i]
      BY <3>3, <3>4
    <3> QED
      BY <2>2, <3>3, <3>4, <3>5, <3>6, <3>7 DEF client
  <2>3. CASE f \notin taken
    <3>1. joins'[f] = joins[f]
      BY <1>4, <2>3
    <3>2. Depth(f)' = Depth(f) /\ DOMAIN joins'[f] = 1..Depth(f)
      BY <1>1, <3>1, JoinsTyped DEF Depth
    <3> QED
      BY <2>1, <2>3, <3>1, <3>2
  <2> QED
    BY <2>2, <2>3
<1>13. joins' \in [Fibers -> Seq(Clients)]
  BY <1>4, <1>12
<1>14. /\ server' \in [Fibers -> Servers]
       /\ server'[s].running = running
       /\ server'[s].listening = listening
       /\ server'[s].read_locked = read_locked
       /\ SameOffer(s)
       /\ \A x \in Fibers \ {s} : server'[x] = server[x]
  <2> DEFINE new == [server[s] EXCEPT !.running = running, !.listening = listening,
                                      !.read_locked = read_locked]
  <2>1. server[s] \in Servers
    BY <1>1
  <2>2. running \in SUBSET (Fibers \X (1..MaxDepth))
    BY <1>9, <2>1 DEF Servers
  <2>3. read_locked \in BOOLEAN
    BY <2>1 DEF Servers
  <2> HIDE DEF running, read_locked
  <2>4. new \in Servers
    BY <1>8, <2>1, <2>2, <2>3 DEF Servers
  <2>5. /\ new.running = running /\ new.listening = listening /\ new.read_locked = read_locked
        /\ new.accepting = server[s].accepting /\ new.fns = server[s].fns
        /\ new.pending_canceled = server[s].pending_canceled
    BY <2>1 DEF Servers
  <2>6. server' = [server EXCEPT ![s] = new]
    BY <1>1, <1>4 DEF running, read_locked
  <2>7. server'[s] = new /\ server' \in [Fibers -> Servers] /\ \A x \in Fibers \ {s} : server'[x] = server[x]
    BY <1>1, <2>4, <2>6
  <2> QED
    BY <2>5, <2>7 DEF SameOffer
<1>15. /\ ctrl' \in [Fibers -> Ctrl]
       /\ ctrl'[s] = [ctrl[s] EXCEPT !.done = FALSE]
       /\ \A f \in taken : ctrl'[f] = WakeDone(ctrl[f])
       /\ \A f \in Fibers \ taken : f # s => ctrl'[f] = ctrl[f]
  <2>1. \A f \in Fibers : ctrl[f] \in Ctrl /\ WakeDone(ctrl[f]) \in Ctrl
    BY <1>1, CtrlTypes
  <2>2. [ctrl[s] EXCEPT !.done = FALSE] \in Ctrl
    BY <2>1 DEF Ctrl
  <2> QED
    BY <1>4, <1>9, <1>10, <2>1, <2>2
<1>16. \A f, g \in taken : Client(f).type = "lock" => f = g
  BY <1>3 DEF Shared
<1>17. AttachDone(s, taken, listening)
  BY <1>2, <1>3, <1>4, <1>6, <1>7, <1>8, <1>10, <1>11, <1>12, <1>13, <1>14, <1>15, <1>16
     DEF AttachDone
<1> QED
  BY <1>8, <1>9, <1>17

\* s was interrupted: it stops listening and tells its clients.
CancelDone(s) ==
    LET clients == server[s].running
    IN /\ at[s] = "cancel" /\ ~ctrl[s].deferred
       /\ at' = [at EXCEPT ![s] = IF clients = {} THEN "restore" ELSE "cancel_defer"]
       /\ server' \in [Fibers -> Servers]
       /\ server'[s].running = clients /\ ~server'[s].listening
       /\ server'[s].accepting = server[s].accepting /\ server'[s].fns = server[s].fns
       /\ server'[s].pending_canceled = (server[s].pending_canceled \/ ctrl[s].canceled)
       /\ \A x \in Fibers \ {s} : server'[x] = server[x]
       /\ joins' \in [Fibers -> Seq(Clients)]
       /\ \A f \in Fibers : Depth(f)' = Depth(f) /\ DOMAIN joins'[f] = 1..Depth(f)
       /\ \A f \in Fibers : \A i \in 1..Depth(f) :
            /\ <<f, i>> \in clients => joins'[f][i] = [joins[f][i] EXCEPT !.live_join_race = TRUE]
            /\ <<f, i>> \notin clients => joins'[f][i] = joins[f][i]
       /\ ctrl' \in [Fibers -> Ctrl]
       /\ ctrl'[s].canceled = (ctrl[s].canceled /\ server[s].pending_canceled)
       /\ ctrl'[s].done = (ctrl[s].done /\ clients = {})
       /\ ~ctrl'[s].deferred /\ ctrl'[s].unintr = ctrl[s].unintr
       /\ \A f \in Fibers \ {s} : ctrl'[f] \in {ctrl[f], WakeJoinRace(ctrl[f])}
       /\ UNCHANGED <<fiber_map, waiting, queues, refs>>

\* CancelAccept does what CancelDone says.
LEMMA CancelIs ==
    ASSUME IFCInv, NEW s \in Fibers, CancelAccept(s)
    PROVE  CancelDone(s)
<1> DEFINE clients == server[s].running
           consumed == [ctrl[s] EXCEPT
                !.canceled = @ /\ server[s].pending_canceled,
                !.hidden_cancel = @ \/ (ctrl[s].canceled /\ ~server[s].pending_canceled),
                !.join_race = FALSE]
<1>1. /\ TypeOK /\ ctrl \in [Fibers -> Ctrl] /\ server \in [Fibers -> Servers]
      /\ joins \in [Fibers -> Seq(Clients)] /\ ctrl[s] \in Ctrl /\ server[s] \in Servers
  BY DEF IFCInv, Books, TypeOK
<1>2. /\ at[s] = "cancel" /\ ~ctrl[s].deferred
      /\ at' = [at EXCEPT ![s] = IF clients = {} THEN "restore" ELSE "cancel_defer"]
      /\ server' = [server EXCEPT ![s] = Interruption(@, ctrl[s])]
      /\ joins' = [f \in Fibers |-> [i \in DOMAIN joins[f] |->
            IF <<f, i>> \in clients THEN [joins[f][i] EXCEPT !.live_join_race = TRUE]
                                    ELSE joins[f][i]]]
      /\ ctrl' = [f \in Fibers |->
            IF f = s THEN [consumed EXCEPT !.done = @ /\ clients = {}]
            ELSE IF \E i \in DOMAIN joins[f] : <<f, i>> \in clients
            THEN WakeJoinRace(ctrl[f])
            ELSE ctrl[f]]
      /\ UNCHANGED <<fiber_map, waiting, queues, refs>>
  BY DEF CancelAccept, Goto
<1>3. /\ server' \in [Fibers -> Servers]
      /\ server'[s].running = clients /\ ~server'[s].listening
      /\ server'[s].accepting = server[s].accepting /\ server'[s].fns = server[s].fns
      /\ server'[s].pending_canceled = (server[s].pending_canceled \/ ctrl[s].canceled)
      /\ \A x \in Fibers \ {s} : server'[x] = server[x]
  <2> DEFINE new == Interruption(server[s], ctrl[s])
             pending == server[s].pending_canceled \/ ctrl[s].canceled
             race == server[s].pending_join_race \/ ctrl[s].join_race
  <2>1. new = [server[s] EXCEPT !.pending_canceled = pending, !.pending_join_race = race,
                                !.listening = FALSE]
    BY <1>1 DEF Interruption
  <2>2. pending \in BOOLEAN /\ race \in BOOLEAN
    BY <1>1 DEF Servers, Ctrl
  <2> HIDE DEF new, pending, race
  <2>3. /\ new \in Servers /\ new.running = clients /\ ~new.listening
        /\ new.accepting = server[s].accepting /\ new.fns = server[s].fns
        /\ new.pending_canceled = pending
    BY <1>1, <2>1, <2>2 DEF Servers
  <2>4. server' = [server EXCEPT ![s] = new]
    BY <1>1, <1>2 DEF new
  <2>5. server'[s] = new /\ server' \in [Fibers -> Servers] /\ \A x \in Fibers \ {s} : server'[x] = server[x]
    BY <1>1, <2>3, <2>4
  <2> QED
    BY <2>3, <2>5 DEF pending
<1> HIDE DEF clients
<1>4. \A f \in Fibers :
        /\ joins'[f] \in Seq(Clients) /\ Depth(f)' = Depth(f) /\ DOMAIN joins'[f] = 1..Depth(f)
        /\ \A i \in 1..Depth(f) :
            /\ <<f, i>> \in clients => joins'[f][i] = [joins[f][i] EXCEPT !.live_join_race = TRUE]
            /\ <<f, i>> \notin clients => joins'[f][i] = joins[f][i]
  <2> TAKE f \in Fibers
  <2> DEFINE new == [i \in 1..Depth(f) |->
                IF <<f, i>> \in clients THEN [joins[f][i] EXCEPT !.live_join_race = TRUE]
                                        ELSE joins[f][i]]
  <2>1. DOMAIN joins[f] = 1..Depth(f) /\ Depth(f) \in Nat /\ joins[f] \in [1..Depth(f) -> Clients]
    BY <1>1, JoinsTyped
  <2>2. joins'[f] = new
    BY <1>2, <2>1
  <2>3. \A i \in 1..Depth(f) : new[i] \in Clients
    BY <2>1 DEF Clients
  <2>4. new \in [1..Depth(f) -> Clients]
    BY <2>3
  <2>5. new \in Seq(Clients)
    BY <2>1, <2>4, SeqDef
  <2>6. DOMAIN new = 1..Depth(f) /\ Len(new) = Depth(f)
    BY <2>1, <2>4, <2>5, LenProperties
  <2>7. Depth(f)' = Depth(f)
    BY <2>2, <2>6 DEF Depth
  <2> QED
    BY <2>2, <2>5, <2>6, <2>7
<1>5. joins' \in [Fibers -> Seq(Clients)]
  BY <1>2, <1>4
<1>6. /\ ctrl'[s] \in Ctrl
      /\ ctrl'[s].canceled = (ctrl[s].canceled /\ server[s].pending_canceled)
      /\ ctrl'[s].done = (ctrl[s].done /\ clients = {})
      /\ ~ctrl'[s].deferred /\ ctrl'[s].unintr = ctrl[s].unintr
  <2> DEFINE canceled == ctrl[s].canceled /\ server[s].pending_canceled
             hidden == ctrl[s].hidden_cancel \/ (ctrl[s].canceled /\ ~server[s].pending_canceled)
             done == ctrl[s].done /\ clients = {}
  <2>1. canceled \in BOOLEAN /\ hidden \in BOOLEAN /\ done \in BOOLEAN
    BY <1>1 DEF Ctrl, Servers
  <2>2. ctrl'[s] = [[ctrl[s] EXCEPT !.canceled = canceled, !.hidden_cancel = hidden,
                                    !.join_race = FALSE] EXCEPT !.done = done]
    BY <1>1, <1>2 DEF Ctrl
  <2> HIDE DEF canceled, hidden, done
  <2>3. /\ ctrl'[s] \in Ctrl /\ ctrl'[s].canceled = canceled /\ ctrl'[s].done = done
        /\ ctrl'[s].deferred = ctrl[s].deferred /\ ctrl'[s].unintr = ctrl[s].unintr
    BY <1>1, <2>1, <2>2 DEF Ctrl
  <2> QED
    BY <1>2, <2>3 DEF canceled, done
<1>7. \A f \in Fibers \ {s} : ctrl'[f] \in {ctrl[f], WakeJoinRace(ctrl[f])} /\ ctrl'[f] \in Ctrl
  <2>1. \A f \in Fibers : ctrl[f] \in Ctrl /\ WakeJoinRace(ctrl[f]) \in Ctrl
    BY <1>1, CtrlTypes
  <2> QED
    BY <1>2, <2>1
<1>8. ctrl' \in [Fibers -> Ctrl]
  BY <1>2, <1>6, <1>7
<1> QED
  BY <1>2, <1>3, <1>4, <1>5, <1>6, <1>7, <1>8 DEF CancelDone, clients

\* s leaves the accept: nobody refers to it any more.
CleanupDone(s) ==
    /\ at[s] = "cleanup" /\ ~ctrl[s].deferred /\ at' = [at EXCEPT ![s] = "user"]
    /\ server' = [server EXCEPT ![s] = NoServer] /\ server' \in [Fibers -> Servers]
    /\ ctrl' = [ctrl EXCEPT ![s] = CancellationPoint(@)] /\ ctrl' \in [Fibers -> Ctrl]
    /\ refs' \in [Queues -> QueueRefs]
    /\ \A q \in Queues \ QueuesOf(s) : refs'[q] = refs[q]
    /\ \A q \in Queues : q \in QueuesOf(s) =>
        /\ refs[q].count > 0 /\ refs'[q].count = refs[q].count - 1
        /\ \A x : /\ Contains(refs'[q].freeish, x) <=> Contains(refs[q].freeish, x) /\ x # s
                  /\ Contains(refs'[q].sharedish, x) <=> Contains(refs[q].sharedish, x) /\ x # s
        /\ Distinct(refs'[q].freeish) /\ Distinct(refs'[q].sharedish)
    /\ queues' = Deref(QueuesOf(s), queues, refs', waiting)
    /\ UNCHANGED <<fiber_map, joins, waiting>>

\* The count of a queue is the number of its servers.
LEMMA CountedReferences ==
    ASSUME Books, NEW q \in Queues
    PROVE  /\ IsFiniteSet(ServersOf(q)) /\ refs[q].count \in Nat
           /\ refs[q].count = Cardinality(ServersOf(q))
           /\ refs[q].count > 0 <=> \E s \in Fibers : q \in QueuesOf(s)
<1>1. IsFiniteSet(ServersOf(q)) /\ Cardinality(ServersOf(q)) \in Nat
  BY FS_Subset, FS_CardinalityType, IFCAssumption DEF ServersOf
<1>2. refs[q].count = Cardinality(ServersOf(q))
  BY DEF Books, Allocated
<1>3. refs[q].count # 0 <=> ServersOf(q) # {}
  BY <1>1, <1>2, FS_EmptySet
<1> QED
  BY <1>1, <1>2, <1>3 DEF ServersOf

\* Cleanup does what CleanupDone says.
LEMMA CleanupIs ==
    ASSUME IFCInv, NEW s \in Fibers, Cleanup(s)
    PROVE  CleanupDone(s)
<1>1. /\ Books /\ TypeOK /\ ctrl \in [Fibers -> Ctrl] /\ server \in [Fibers -> Servers]
      /\ refs \in [Queues -> QueueRefs]
  BY DEF IFCInv, Books, TypeOK, QueueRefs
<1>2. at[s] = "cleanup" /\ ~ctrl[s].deferred /\ at' = [at EXCEPT ![s] = "user"]
  BY DEF Cleanup, Goto
<1>3. /\ refs' = [q \in Queues |-> IF q \in QueuesOf(s) THEN Dereferenced(refs[q], s) ELSE refs[q]]
      /\ queues' = Deref(QueuesOf(s), queues, refs', waiting)
      /\ server' = [server EXCEPT ![s] = NoServer]
      /\ ctrl' = [ctrl EXCEPT ![s] = CancellationPoint(@)]
      /\ UNCHANGED <<fiber_map, joins, waiting>>
  BY DEF Cleanup
<1>4. server' \in [Fibers -> Servers]
  BY <1>1, <1>3 DEF Servers, NoServer
<1>5. ctrl' \in [Fibers -> Ctrl]
  BY <1>1, <1>3, CtrlTypes
<1>6. ASSUME NEW q \in Queues, q \in QueuesOf(s)
      PROVE  /\ refs'[q] \in QueueRefs
             /\ refs[q].count > 0 /\ refs'[q].count = refs[q].count - 1
             /\ \A x : /\ Contains(refs'[q].freeish, x) <=> Contains(refs[q].freeish, x) /\ x # s
                       /\ Contains(refs'[q].sharedish, x) <=> Contains(refs[q].sharedish, x) /\ x # s
             /\ Distinct(refs'[q].freeish) /\ Distinct(refs'[q].sharedish)
  <2>1. refs[q].count > 0
    BY <1>1, <1>6, CountedReferences
  <2>2. refs'[q] = Dereferenced(refs[q], s) /\ refs[q] \in QueueRefs
    BY <1>1, <1>3, <1>6
  <2>3. Distinct(refs[q].freeish) /\ Distinct(refs[q].sharedish)
    BY <1>1 DEF Books, Refers
  <2> QED
    BY <2>1, <2>2, <2>3, DereferencedIs
<1>7. refs' \in [Queues -> QueueRefs] /\ \A q \in Queues \ QueuesOf(s) : refs'[q] = refs[q]
  BY <1>1, <1>3, <1>6
<1> QED
  BY <1>2, <1>3, <1>4, <1>5, <1>6, <1>7 DEF CleanupDone

\* f waits no longer, and no server has it.
StepOutDone(f) ==
    /\ at[f] = "join_lock" /\ ~ctrl[f].deferred /\ at' = [at EXCEPT ![f] = "join_failed"]
    /\ Client(f).server = None
    /\ waiting' \in Seq(Fibers) /\ Distinct(waiting')
    /\ \A g \in Fibers : Contains(waiting', g) <=> Waits(g) /\ g # f
    /\ queues' = Deref({QueueOf(f)}, queues, refs, waiting')
    /\ UNCHANGED <<ctrl, fiber_map, joins, server, refs>>

\* f has a server after all.
StepIn(f) ==
    /\ Goto(f, "join_lock", "joined")
    /\ Client(f).server # None
    /\ UNCHANGED <<ctrl, fiber_map, joins, server, waiting, queues, refs>>

\* f throws out of its failed join.
JoinFailedDone(f) ==
    /\ Goto(f, "join_failed", "user")
    /\ joins[f] # <<>> /\ Client(f).server = None
    /\ Popped(f)
    /\ ctrl' = [ctrl EXCEPT ![f] = CancellationPoint(@)]
    /\ UNCHANGED <<fiber_map, server, waiting, queues, refs>>

\* The steps that leave the joins and the servers alone.
QuietStep(f) ==
    \/ \E t \in Fibers : JoinMissing(f, t)
    \/ Defer(f) \/ JoinWoken(f) \/ StepIn(f) \/ ThrowMissing(f) \/ Enter(f)
    \/ AcceptWoken(f) \/ CancelWoken(f) \/ Restore(f)
    \/ Throw(f) \/ SetUnintr(f) \/ CancelFiber(f)
    \/ Unindex(f) \/ Teardown(f)

\* The steps that do not.
BusyStep(f) ==
    \/ \E t \in Fibers, fn \in Fns, type \in CallTypes, s \in Fibers :
            JoinAttached(f, t, fn, type, s)
    \/ \E t \in Fibers, fn \in Fns, type \in CallTypes, closed \in Fibers \union {None} :
            JoinQueued(f, t, fn, type, closed)
    \/ StepOutDone(f)
    \/ JoinFailedDone(f)
    \/ \E s \in Fibers : LeaveDone(f, s)
    \/ \E fns \in SUBSET Fns, id \in Fibers : AcceptDone(f, fns, id)
    \/ \E taken \in SUBSET Fibers, listening \in BOOLEAN : AttachDone(f, taken, listening)
    \/ CancelDone(f)
    \/ CleanupDone(f)

\* Every step is one of those described.
LEMMA StepEffects ==
    ASSUME IFCInv, NEW f \in Fibers, FiberStep(f)
    PROVE  QuietStep(f) \/ BusyStep(f)
<1> USE DEF BusyStep
<1>1. TypeOK /\ Joined /\ Distinct(waiting) /\ waiting \in Seq(Fibers)
  BY DEF IFCInv, Books, Allocated, TypeOK
<1>2. ASSUME NEW t \in Fibers, NEW fn \in Fns, NEW type \in CallTypes, Join(f, t, fn, type)
      PROVE  BusyStep(f)
  BY <1>2, JoinIs
<1>3. CASE StepOut(f)
  <2>1. CASE Goto(f, "join_lock", "joined")
    <3>1. ~Goto(f, "join_lock", "join_failed")
      BY <1>1, <2>1 DEF Goto, TypeOK
    <3> QED
      BY <1>3, <2>1, <3>1 DEF StepOut, StepIn, QuietStep
  <2>2. CASE ~Goto(f, "join_lock", "joined")
    <3>1. /\ Goto(f, "join_lock", "join_failed")
          /\ Client(f).server = None
          /\ waiting' = Without(waiting, {f})
          /\ queues' = Deref({QueueOf(f)}, queues, refs, waiting')
          /\ UNCHANGED <<ctrl, fiber_map, joins, server, refs>>
      BY <1>3, <2>2 DEF StepOut
    <3>2. /\ waiting' \in Seq(Fibers) /\ Distinct(waiting')
          /\ \A g \in Fibers : Contains(waiting', g) <=> Waits(g) /\ g # f
      BY <1>1, <3>1, WithoutIs DEF Waits
    <3> QED
      BY <3>1, <3>2 DEF StepOutDone, Goto
  <2> QED
    BY <2>1, <2>2
<1>4. CASE JoinFailed(f)
  <2>1. joins[f] # <<>> /\ Client(f).server = None
    BY <1>1, <1>4 DEF JoinFailed, Goto, Joined, JoinedOf
  <2>2. Popped(f)
    BY <1>1, <1>4, <2>1, FrontPops DEF JoinFailed
  <2> QED
    BY <1>4, <2>1, <2>2 DEF JoinFailed, JoinFailedDone
<1>5. CASE Leave(f)
  BY <1>5, LeaveIs
<1>6. ASSUME NEW fns \in SUBSET Fns, NEW auto \in BOOLEAN, Accept(f, fns, auto, FALSE)
      PROVE  BusyStep(f)
  BY <1>6, AcceptIs
<1>7. ASSUME joins[f] # <<>>, NEW fns \in SUBSET Fns, NEW auto \in BOOLEAN, Accept(f, fns, auto, TRUE)
      PROVE  BusyStep(f)
  BY <1>7, AcceptIs
<1>8. CASE Attach(f)
  BY <1>8, AttachIs
<1>9. CASE CancelAccept(f)
  BY <1>9, CancelIs
<1>10. CASE Cleanup(f)
  BY <1>10, CleanupIs
<1> QED
  BY <1>2, <1>3, <1>4, <1>5, <1>6, <1>7, <1>8, <1>9, <1>10 DEF FiberStep, QuietStep

\* The quiet steps do leave the joins and the servers alone.
LEMMA QuietStays ==
    ASSUME NEW f \in Fibers, QuietStep(f)
    PROVE  UNCHANGED <<joins, server, waiting, queues, refs>>
  BY DEF QuietStep, JoinMissing, Defer, JoinWoken, StepIn, ThrowMissing, Enter, AcceptWoken,
         CancelWoken, Restore, Throw, SetUnintr, CancelFiber, Unindex, Teardown

\* A quiet step takes f itself through its code, and prods others.
QuietMove(f) ==
    /\ ctrl' \in [Fibers -> Ctrl]
    /\ at' \in [Fibers -> Points]
    /\ fiber_map' \subseteq Fibers
    /\ \A g \in Fibers \ {f} : at'[g] = at[g] /\ Prodded(ctrl[g], ctrl'[g])

\* And do no more than QuietMove says.
LEMMA QuietMoves ==
    ASSUME TypeOK, NEW f \in Fibers, QuietStep(f)
    PROVE  QuietMove(f)
<1> USE DEF QuietMove, Prodded, Goto, Points, JoinPoints, AcceptPoints
<1>1. /\ ctrl \in [Fibers -> Ctrl] /\ at \in [Fibers -> Points] /\ fiber_map \subseteq Fibers
      /\ server \in [Fibers -> Servers]
  BY DEF TypeOK
<1>2. \A c \in Ctrl : /\ CancellationPoint(c) \in Ctrl /\ WakeDone(c) \in Ctrl
                      /\ WakeJoinRace(c) \in Ctrl /\ Cancel(c) \in Ctrl /\ Bounces(c) \in BOOLEAN
  BY CtrlTypes
<1>3. \A c \in Ctrl, b \in BOOLEAN :
        /\ [c EXCEPT !.deferred = b] \in Ctrl /\ [c EXCEPT !.join_race = b] \in Ctrl
        /\ [c EXCEPT !.unintr = b] \in Ctrl
  BY DEF Ctrl
<1>4. ASSUME NEW t \in Fibers, JoinMissing(f, t)
      PROVE  QuietMove(f)
  BY <1>1, <1>4 DEF JoinMissing
<1>5. CASE Defer(f)
  <2>1. ctrl' = [ctrl EXCEPT ![f] = [ctrl[f] EXCEPT !.deferred = ~Bounces(ctrl[f])]]
    BY <1>1, <1>5 DEF Defer
  <2>2. [ctrl[f] EXCEPT !.deferred = ~Bounces(ctrl[f])] \in Ctrl
    BY <1>1, <1>2, <1>3
  <2> QED
    BY <1>1, <1>5, <2>1, <2>2 DEF Defer
<1>6. CASE JoinWoken(f)
  BY <1>1, <1>6 DEF JoinWoken
<1>7. CASE StepIn(f)
  BY <1>1, <1>7 DEF StepIn
<1>8. CASE ThrowMissing(f)
  <2> DEFINE race == ctrl[f].join_race /\ ctrl[f].unintr
  <2>1. race \in BOOLEAN
    BY <1>1 DEF Ctrl
  <2>2. ctrl' = [ctrl EXCEPT ![f] = [ctrl[f] EXCEPT !.join_race = race]]
    BY <1>1, <1>8 DEF ThrowMissing
  <2>3. [ctrl[f] EXCEPT !.join_race = race] \in Ctrl
    BY <1>1, <1>3, <2>1
  <2> QED
    BY <1>1, <1>8, <2>2, <2>3 DEF ThrowMissing
<1>9. CASE Enter(f)
  BY <1>1, <1>2, <1>9 DEF Enter
<1>10. CASE AcceptWoken(f)
  BY <1>1, <1>10 DEF AcceptWoken
<1>11. CASE CancelWoken(f)
  BY <1>1, <1>11 DEF CancelWoken
<1>12. CASE Restore(f)
  <2> DEFINE canceled == ctrl[f].canceled \/ server[f].pending_canceled
             hidden == ctrl[f].hidden_cancel /\ ~server[f].pending_canceled
             race == server[f].pending_join_race
             new == [ctrl[f] EXCEPT !.canceled = canceled, !.hidden_cancel = hidden,
                                    !.join_race = race]
  <2>1. ctrl' = [ctrl EXCEPT ![f] = new]
    BY <1>1, <1>12 DEF Restore
  <2>2. new \in Ctrl
    <3>1. canceled \in BOOLEAN /\ hidden \in BOOLEAN /\ race \in BOOLEAN /\ ctrl[f] \in Ctrl
      BY <1>1 DEF Ctrl, Servers
    <3> HIDE DEF canceled, hidden, race
    <3> QED
      BY <3>1 DEF Ctrl
  <2> QED
    BY <1>1, <1>12, <2>1, <2>2 DEF Restore
<1>13. CASE Throw(f)
  <2>1. CASE ctrl' = [ctrl EXCEPT ![f] = CancellationPoint(@)]
    BY <1>1, <1>2, <1>13, <2>1 DEF Throw
  <2>2. CASE ctrl' = [ctrl EXCEPT ![f].join_race = FALSE]
    BY <1>1, <1>3, <1>13, <2>2 DEF Throw
  <2> QED
    BY <1>13, <2>1, <2>2 DEF Throw
<1>14. CASE SetUnintr(f)
  <2>1. ctrl' = [ctrl EXCEPT ![f] = [ctrl[f] EXCEPT !.unintr = ~ctrl[f].unintr]]
    BY <1>1, <1>14 DEF SetUnintr
  <2>2. [ctrl[f] EXCEPT !.unintr = ~ctrl[f].unintr] \in Ctrl
    BY <1>1 DEF Ctrl
  <2> QED
    BY <1>1, <1>14, <2>1, <2>2 DEF SetUnintr
<1>15. CASE CancelFiber(f)
  BY <1>1, <1>2, <1>15 DEF CancelFiber
<1>16. CASE Unindex(f)
  BY <1>1, <1>16 DEF Unindex
<1>17. CASE Teardown(f)
  BY <1>1, <1>2, <1>17 DEF Teardown
<1> QED
  BY <1>4, <1>5, <1>6, <1>7, <1>8, <1>9, <1>10, <1>11, <1>12, <1>13, <1>14, <1>15, <1>16, <1>17
     DEF QuietStep

-----------------------------------------------------------------------------
(* Every part of the invariant is kept. *)

\* The types.
LEMMA TypesKept ==
    ASSUME IFCInv, program' = program, NEW f \in Fibers, FiberStep(f)
    PROVE  TypeOK'
<1> USE DEF Points, JoinPoints, AcceptPoints
<1>1. /\ TypeOK /\ program \in Programs
      /\ ctrl \in [Fibers -> Ctrl] /\ at \in [Fibers -> Points] /\ fiber_map \subseteq Fibers
      /\ server \in [Fibers -> Servers] /\ joins \in [Fibers -> Seq(Clients)]
      /\ waiting \in Seq(Fibers) /\ queues \subseteq Queues /\ refs \in [Queues -> QueueRefs]
  BY DEF IFCInv, Books, TypeOK, QueueRefs
<1>2. CASE QuietStep(f)
  <2>1. UNCHANGED <<joins, server, waiting, queues, refs>> /\ QuietMove(f)
    BY <1>1, <1>2, QuietStays, QuietMoves
  <2> QED
    BY <1>1, <2>1 DEF TypeOK, QuietMove, QueueRefs
<1>3. ASSUME NEW t \in Fibers, NEW fn \in Fns, NEW type \in CallTypes, NEW s \in Fibers,
             JoinAttached(f, t, fn, type, s)
      PROVE  TypeOK'
  <2>1. Joins(f, t, fn, type, s, "joined") /\ ctrl' = ctrl /\ waiting' = waiting
        /\ server' \in [Fibers -> Servers]
    BY <1>3 DEF JoinAttached
  <2>2. <<t, fn>> \in Queues
    BY DEF Queues
  <2>3. /\ at' \in [Fibers -> Points] /\ fiber_map' = fiber_map /\ queues' \subseteq Queues
        /\ joins' \in [Fibers -> Seq(Clients)] /\ refs' \in [Queues -> QueueRefs]
    BY <1>1, <2>1, <2>2 DEF Joins
  <2> QED
    BY <1>1, <2>1, <2>3 DEF TypeOK, QueueRefs
<1>4. ASSUME NEW t \in Fibers, NEW fn \in Fns, NEW type \in CallTypes,
             NEW closed \in Fibers \union {None}, JoinQueued(f, t, fn, type, closed)
      PROVE  TypeOK'
  <2>1. waiting' \in Seq(Fibers)
    BY <1>1, <1>4 DEF JoinQueued
  <2>2. [ctrl[f] EXCEPT !.done = FALSE] \in Ctrl
    BY <1>1 DEF Ctrl
  <2>3. ctrl' \in [Fibers -> Ctrl]
    BY <1>1, <1>4, <2>2 DEF JoinQueued
  <2>4. Joins(f, t, fn, type, None, "join_defer") /\ server' \in [Fibers -> Servers]
    BY <1>4 DEF JoinQueued
  <2>5. <<t, fn>> \in Queues
    BY DEF Queues
  <2>6. /\ at' \in [Fibers -> Points] /\ fiber_map' = fiber_map /\ queues' \subseteq Queues
        /\ joins' \in [Fibers -> Seq(Clients)] /\ refs' \in [Queues -> QueueRefs]
    BY <1>1, <2>4, <2>5 DEF Joins
  <2> QED
    BY <1>1, <2>1, <2>3, <2>4, <2>6 DEF TypeOK, QueueRefs
<1>5. CASE StepOutDone(f)
  BY <1>1, <1>5 DEF TypeOK, StepOutDone, QueueRefs, Deref
<1>6. CASE JoinFailedDone(f)
  <2>1. ctrl' \in [Fibers -> Ctrl]
    BY <1>1, <1>6, CtrlTypes DEF JoinFailedDone
  <2> QED
    BY <1>1, <1>6, <2>1 DEF TypeOK, JoinFailedDone, Popped, QueueRefs, Goto
<1>7. ASSUME NEW s \in Fibers, LeaveDone(f, s)
      PROVE  TypeOK'
  BY <1>1, <1>7 DEF TypeOK, LeaveDone, Popped, QueueRefs
<1>8. ASSUME NEW fns \in SUBSET Fns, NEW id \in Fibers, AcceptDone(f, fns, id)
      PROVE  TypeOK'
  BY <1>1, <1>8 DEF TypeOK, AcceptDone, QueueRefs, Queues
<1>9. ASSUME NEW taken \in SUBSET Fibers, NEW listening \in BOOLEAN, AttachDone(f, taken, listening)
      PROVE  TypeOK'
  <2>1. refs' \in [Queues -> QueueRefs]
    <3>1. CASE listening
      <4> DEFINE locked == taken # {}
      <4>1. refs' = Reconnect(f, locked)
        BY <1>9, <3>1 DEF AttachDone
      <4>2. \A q \in Queues : Reconnect(f, locked)[q] \in QueueRefs
        <5> TAKE q \in Queues
        <5>1. CASE q \in QueuesOf(f)
          <6>1. Refers(refs[q], q)
            BY DEF IFCInv, Books
          <6> QED
            BY <1>1, <5>1, <6>1, ReconnectIs
        <5>2. CASE q \notin QueuesOf(f)
          BY <1>1, <5>2 DEF Reconnect
        <5> QED
          BY <5>1, <5>2
      <4>3. Reconnect(f, locked) = [q \in Queues |-> Reconnect(f, locked)[q]]
        BY DEF Reconnect
      <4> QED
        BY <4>1, <4>2, <4>3
    <3>2. CASE ~listening
      BY <1>1, <1>9, <3>2 DEF AttachDone
    <3> QED
      BY <3>1, <3>2
  <2> QED
    BY <1>1, <1>9, <2>1 DEF TypeOK, AttachDone, QueueRefs
<1>10. CASE CancelDone(f)
  BY <1>1, <1>10 DEF TypeOK, CancelDone, QueueRefs
<1>11. CASE CleanupDone(f)
  BY <1>1, <1>11 DEF TypeOK, CleanupDone, QueueRefs, Deref
<1> QED
  BY <1>2, <1>3, <1>4, <1>5, <1>6, <1>7, <1>8, <1>9, <1>10, <1>11, StepEffects DEF BusyStep

\* Where a quiet step takes f from, and to.
QuietPlace(f) ==
    LET Moves(from, to) == at[f] = from /\ at'[f] = to
    IN \/ at'[f] = at[f] /\ fiber_map' = fiber_map
       \/ /\ fiber_map' = fiber_map
          /\ \/ Moves("user", "missing") \/ Moves("missing", "user")
             \/ Moves("join_defer", "join_woken")
             \/ Moves("join_woken", "join_lock") /\ Client(f).server = None
             \/ Moves("join_woken", "joined") /\ Client(f).server # None
             \/ Moves("join_lock", "joined") /\ Client(f).server # None
             \/ Moves("joined", "user")
             \/ Moves("accept_defer", "accept_woken")
             \/ Moves("accept_woken", "cancel") \/ Moves("accept_woken", "accept")
             \/ Moves("accept_woken", "cleanup")
             \/ Moves("cancel_defer", "cancel_woken") \/ Moves("cancel_woken", "cancel")
             \/ Moves("restore", "cleanup")
             \/ Moves("unindexed", "dead")
       \/ Moves("user", "unindexed") /\ fiber_map' = fiber_map \ {f}

\* A client that is awake without a server still waits, and was interrupted or waits
\* where it cannot be.
LEMMA WokenForReason ==
    ASSUME IFCInv, NEW f \in Fibers, at[f] = "join_woken", ~ctrl[f].deferred, Client(f).server = None
    PROVE  Waits(f) /\ (ctrl[f].unintr \/ ctrl[f].canceled \/ ctrl[f].join_race)
<1>1. TypeOK /\ JoinedOf(f) /\ WaitingOf(f)
  BY DEF IFCInv, Books, Joined, Waiting
<1>2. Depth(f) \in DOMAIN joins[f] /\ joins[f][Depth(f)].server = None
  BY <1>1, JoinsTyped DEF JoinedOf, JoinWaits, Client
<1>3. Waits(f)
  BY <1>1, <1>2 DEF JoinedOf
<1> QED
  BY <1>1, <1>3 DEF WaitingOf

\* No quiet step takes a fiber another way, and none to the scheduler error.
LEMMA QuietPlaces ==
    ASSUME IFCInv, NEW f \in Fibers, QuietStep(f)
    PROVE  QuietPlace(f)
<1>1. at \in [Fibers -> Points]
  BY DEF IFCInv, Books, TypeOK
<1>2. ASSUME NEW t \in Fibers, JoinMissing(f, t)
      PROVE  QuietPlace(f)
  BY <1>1, <1>2 DEF JoinMissing, Goto, QuietPlace
<1>3. CASE Defer(f)
  BY <1>1, <1>3 DEF Defer, Goto, QuietPlace
<1>4. CASE JoinWoken(f)
  BY <1>1, <1>4, WokenForReason DEF JoinWoken, Goto, QuietPlace
<1>5. CASE StepIn(f)
  BY <1>1, <1>5 DEF StepIn, Goto, QuietPlace
<1>6. CASE ThrowMissing(f)
  BY <1>1, <1>6 DEF ThrowMissing, Goto, QuietPlace
<1>7. CASE Enter(f)
  BY <1>1, <1>7 DEF Enter, Goto, QuietPlace
<1>8. CASE AcceptWoken(f)
  BY <1>1, <1>8 DEF AcceptWoken, Goto, QuietPlace
<1>9. CASE CancelWoken(f)
  BY <1>1, <1>9 DEF CancelWoken, Goto, QuietPlace
<1>10. CASE Restore(f)
  BY <1>1, <1>10 DEF Restore, Goto, QuietPlace
<1>11. CASE Throw(f)
  BY <1>1, <1>11 DEF Throw, Goto, QuietPlace
<1>12. CASE SetUnintr(f)
  BY <1>1, <1>12 DEF SetUnintr, Goto, QuietPlace
<1>13. CASE CancelFiber(f)
  BY <1>1, <1>13 DEF CancelFiber, QuietPlace
<1>14. CASE Unindex(f)
  BY <1>1, <1>14 DEF Unindex, Goto, QuietPlace
<1>15. CASE Teardown(f)
  BY <1>1, <1>15 DEF Teardown, Goto, QuietPlace
<1> QED
  BY <1>2, <1>3, <1>4, <1>5, <1>6, <1>7, <1>8, <1>9, <1>10, <1>11, <1>12, <1>13, <1>14, <1>15
     DEF QuietStep

\* The joins after a step, as a function of their depth.
LEMMA NextJoinsTyped ==
    ASSUME TypeOK', NEW f \in Fibers
    PROVE  /\ Depth(f)' \in Nat /\ DOMAIN joins'[f] = 1..Depth(f)'
           /\ joins'[f] # <<>> <=> Depth(f)' # 0
           /\ joins'[f] # <<>> => Depth(f)' \in DOMAIN joins'[f] /\ Client(f)' \in Clients
<1>1. joins'[f] \in Seq(Clients)
  BY DEF TypeOK
<1>2. Depth(f)' \in Nat /\ DOMAIN joins'[f] = 1..Depth(f)' /\ joins'[f] \in [1..Depth(f)' -> Clients]
  BY <1>1, LenProperties DEF Depth
<1>3. joins'[f] # <<>> <=> Depth(f)' # 0
  BY <1>1 DEF Depth
<1> QED
  BY <1>2, <1>3 DEF Client

\* What is untouched stays.
LEMMA JoinedStays ==
    ASSUME NEW g \in Fibers, JoinedOf(g), joins'[g] = joins[g], at'[g] = at[g], Waits(g)' <=> Waits(g)
    PROVE  JoinedOf(g)'
  BY DEF JoinedOf, JoinWaits, Client, Depth

\* Where a fiber is tells of its joins, and of its place in the list of who waits.
LEMMA JoinedKept ==
    ASSUME IFCInv, TypeOK', NEW f \in Fibers, FiberStep(f)
    PROVE  Joined'
<1> USE DEF JoinWaits
<1>1. /\ TypeOK /\ MaxDepth \in Nat /\ waiting \in Seq(Fibers) /\ at \in [Fibers -> Points]
      /\ \A g \in Fibers : JoinedOf(g)
  BY IFCAssumption DEF IFCInv, Books, Joined, TypeOK
<1>2. CASE QuietStep(f)
  <2>1. UNCHANGED <<joins, waiting>> /\ QuietMove(f) /\ QuietPlace(f)
    BY <1>1, <1>2, QuietStays, QuietMoves, QuietPlaces
  <2>2. \A g \in Fibers : Waits(g)' <=> Waits(g)
    BY <2>1 DEF Waits
  <2>3. \A g \in Fibers \ {f} : JoinedOf(g)'
    BY <1>1, <2>1, <2>2, JoinedStays DEF QuietMove
  <2>4. Depth(f)' = Depth(f) /\ Client(f)' = Client(f) /\ joins'[f] = joins[f]
    BY <2>1 DEF Depth, Client
  <2>5. JoinedOf(f)'
    BY <1>1, <2>1, <2>2, <2>4 DEF JoinedOf, QuietPlace
  <2> QED
    BY <2>3, <2>5 DEF Joined
<1>3. ASSUME NEW t \in Fibers, NEW fn \in Fns, NEW type \in CallTypes, NEW s \in Fibers \union {None},
             NEW to \in {"joined", "join_defer"}, Joins(f, t, fn, type, s, to),
             s = None <=> to = "join_defer",
             \A g \in Fibers : Waits(g)' <=> (Waits(g) \/ (g = f /\ s = None))
      PROVE  Joined'
  <2>1. /\ at[f] = "user" /\ at' = [at EXCEPT ![f] = to] /\ Depth(f) < MaxDepth
        /\ Depth(f)' = Depth(f) + 1 /\ DOMAIN joins'[f] = 1..(Depth(f) + 1)
        /\ \A i \in 1..Depth(f) : joins'[f][i] = joins[f][i]
        /\ joins'[f][Depth(f) + 1] = NewClient(t, fn, type, s)
        /\ \A g \in Fibers \ {f} : joins'[g] = joins[g]
    BY <1>3 DEF Joins
  <2>2. \A g \in Fibers \ {f} : JoinedOf(g)'
    BY <1>1, <1>3, <2>1, JoinedStays
  <2>3. Client(f)' = NewClient(t, fn, type, s) /\ Client(f)'.server = s /\ joins'[f] # <<>>
    BY <1>1, <2>1, JoinsTyped, NextJoinsTyped DEF Client, NewClient
  <2>4. \A i \in 1..Depth(f) : joins[f][i].server # None
    BY <1>1, <2>1, JoinsTyped DEF JoinedOf
  <2>5. JoinedOf(f)'
    <3>1. \A i \in DOMAIN joins'[f] : joins'[f][i].server = None =>
            i = Depth(f)' /\ (at'[f] = "join_failed" \/ Waits(f)')
      BY <1>1, <1>3, <2>1, <2>4, JoinsTyped DEF NewClient
    <3>2. Depth(f)' =< MaxDepth
      BY <1>1, <2>1, JoinsTyped
    <3>3. Waits(f)' => at'[f] \in JoinWaits /\ Client(f)'.server = None
      BY <1>1, <1>3, <2>1, <2>3 DEF JoinedOf
    <3>4. at'[f] = to
      BY <1>1, <2>1
    <3> QED
      BY <2>3, <3>1, <3>2, <3>3, <3>4 DEF JoinedOf
  <2> QED
    BY <2>2, <2>5 DEF Joined
<1>4. ASSUME NEW t \in Fibers, NEW fn \in Fns, NEW type \in CallTypes, NEW s \in Fibers,
             JoinAttached(f, t, fn, type, s)
      PROVE  Joined'
  <2>1. Joins(f, t, fn, type, s, "joined") /\ waiting' = waiting
    BY <1>4 DEF JoinAttached
  <2>2. s # None /\ s \in Fibers \union {None}
    BY IFCAssumption
  <2> QED
    BY <1>3, <2>1, <2>2 DEF Waits
<1>5. ASSUME NEW t \in Fibers, NEW fn \in Fns, NEW type \in CallTypes,
             NEW closed \in Fibers \union {None}, JoinQueued(f, t, fn, type, closed)
      PROVE  Joined'
  <2>1. Joins(f, t, fn, type, None, "join_defer") /\ waiting' = Append(waiting, f)
    BY <1>5 DEF JoinQueued
  <2>2. \A g \in Fibers : Waits(g)' <=> Waits(g) \/ g = f
    BY <1>1, <2>1, AppendIs DEF Waits
  <2> QED
    BY <1>3, <2>1, <2>2
<1>6. CASE StepOutDone(f)
  <2>1. /\ at[f] = "join_lock" /\ at' = [at EXCEPT ![f] = "join_failed"] /\ joins' = joins
        /\ Client(f).server = None /\ \A g \in Fibers : Waits(g)' <=> Waits(g) /\ g # f
    BY <1>6 DEF StepOutDone, Waits
  <2>2. \A g \in Fibers \ {f} : JoinedOf(g)'
    BY <1>1, <2>1, JoinedStays
  <2>3. Depth(f)' = Depth(f) /\ Client(f)' = Client(f) /\ at'[f] = "join_failed"
    BY <1>1, <2>1 DEF Depth, Client
  <2>4. JoinedOf(f)'
    BY <1>1, <2>1, <2>3 DEF JoinedOf
  <2> QED
    BY <2>2, <2>4 DEF Joined
<1>7. ASSUME Popped(f), waiting' = waiting, at' = [at EXCEPT ![f] = "user"],
             joins[f] # <<>>, ~Waits(f)
      PROVE  Joined'
  <2>1. \A g \in Fibers \ {f} : JoinedOf(g)'
    BY <1>1, <1>7, JoinedStays DEF Popped, Waits
  <2>2. ~Waits(f)' /\ at'[f] = "user"
    BY <1>1, <1>7 DEF Waits
  <2>3. Depth(f)' = Depth(f) - 1 /\ DOMAIN joins'[f] = 1..(Depth(f) - 1) /\ Depth(f) \in Nat \ {0}
    BY <1>1, <1>7, JoinsTyped DEF Popped
  <2>4. \A i \in 1..(Depth(f) - 1) : joins'[f][i].server # None
    <3> TAKE i \in 1..(Depth(f) - 1)
    <3>1. i \in DOMAIN joins[f] /\ i # Depth(f) /\ joins'[f][i] = joins[f][i]
      BY <1>1, <1>7, <2>3, JoinsTyped DEF Popped
    <3> QED
      BY <1>1, <3>1 DEF JoinedOf
  <2>5. JoinedOf(f)'
    BY <1>1, <2>2, <2>3, <2>4 DEF JoinedOf
  <2> QED
    BY <2>1, <2>5 DEF Joined
<1>8. CASE JoinFailedDone(f)
  <2>1. ~Waits(f)
    BY <1>1, <1>8 DEF JoinedOf, JoinFailedDone, Goto
  <2> QED
    BY <1>7, <1>8, <2>1 DEF JoinFailedDone, Goto
<1>9. ASSUME NEW s \in Fibers, LeaveDone(f, s)
      PROVE  Joined'
  <2>1. ~Waits(f) /\ at' = at /\ at[f] = "user"
    BY <1>1, <1>9 DEF JoinedOf, LeaveDone
  <2> QED
    BY <1>1, <1>7, <1>9, <2>1 DEF LeaveDone
<1>10. ASSUME NEW to \in AcceptPoints \union {"user"}, at' = [at EXCEPT ![f] = to],
              UNCHANGED <<joins, waiting>>, at[f] \notin JoinWaits \union {"join_failed", "joined"}
       PROVE  Joined'
  <2>1. \A g \in Fibers : Waits(g)' <=> Waits(g)
    BY <1>10 DEF Waits
  <2>2. \A g \in Fibers \ {f} : JoinedOf(g)'
    BY <1>1, <1>10, <2>1, JoinedStays
  <2>3. Depth(f)' = Depth(f) /\ Client(f)' = Client(f) /\ at'[f] = to
    BY <1>1, <1>10 DEF Depth, Client
  <2>4. JoinedOf(f)'
    BY <1>1, <1>10, <2>1, <2>3 DEF JoinedOf, AcceptPoints
  <2> QED
    BY <2>2, <2>4 DEF Joined
<1>11. ASSUME NEW fns \in SUBSET Fns, NEW id \in Fibers, AcceptDone(f, fns, id)
       PROVE  Joined'
  BY <1>10, <1>11 DEF AcceptDone, AcceptPoints
<1>12. CASE CleanupDone(f)
  BY <1>10, <1>12 DEF CleanupDone, AcceptPoints
<1>13. ASSUME NEW taken \in SUBSET Fibers, NEW listening \in BOOLEAN, AttachDone(f, taken, listening)
       PROVE  Joined'
  <2>1. /\ at[f] = "accept" /\ at' = [at EXCEPT ![f] = "accept_defer"]
        /\ \A g \in Fibers : Waits(g)' <=> Waits(g) /\ g \notin taken
        /\ taken \subseteq WaitersOf(f) /\ f \notin taken
        /\ \A g \in Fibers : Depth(g)' = Depth(g) /\ DOMAIN joins'[g] = 1..Depth(g)
        /\ \A g \in Fibers : \A i \in 1..Depth(g) :
              /\ g \in taken /\ i = Depth(g) => joins'[g][i] = [joins[g][i] EXCEPT !.server = f]
              /\ g \notin taken \/ i # Depth(g) => joins'[g][i] = joins[g][i]
    BY <1>13 DEF AttachDone, Waits
  <2> SUFFICES ASSUME NEW g \in Fibers
               PROVE  JoinedOf(g)'
    BY DEF Joined
  <2>2. JoinedOf(g) /\ DOMAIN joins[g] = 1..Depth(g) /\ Depth(g) \in Nat
    BY <1>1, JoinsTyped
  <2>3. /\ Depth(g)' \in Nat /\ DOMAIN joins'[g] = 1..Depth(g)'
        /\ joins'[g] # <<>> <=> Depth(g)' # 0
    BY NextJoinsTyped
  <2>4. /\ \A i \in 1..Depth(g) : joins[g][i] \in Clients
        /\ joins[g] # <<>> <=> Depth(g) # 0
    BY <1>1, JoinsTyped
  <2>5. CASE g \in taken
    <3>1. Waits(g) /\ at[g] \in JoinWaits /\ Client(g).server = None /\ g # f
      BY <2>1, <2>2, <2>5 DEF JoinedOf, WaitersOf
    <3>2. ~Waits(g)' /\ at'[g] = at[g]
      BY <1>1, <2>1, <2>5, <3>1
    <3>3. \A i \in 1..Depth(g) : joins'[g][i].server # None
      <4> TAKE i \in 1..Depth(g)
      <4>1. CASE i = Depth(g)
        <5>1. joins'[g][i] = [joins[g][i] EXCEPT !.server = f] /\ joins[g][i] \in Clients
          BY <2>1, <2>4, <2>5, <4>1
        <5>2. joins'[g][i].server = f
          BY <5>1 DEF Clients
        <5> QED
          BY <5>2, IFCAssumption
      <4>2. CASE i # Depth(g)
        BY <2>1, <2>2, <2>5, <4>2 DEF JoinedOf
      <4> QED
        BY <4>1, <4>2
    <3> QED
      BY <2>1, <2>2, <2>3, <2>4, <3>1, <3>2, <3>3 DEF JoinedOf
  <2>6. CASE g \notin taken
    <3>1. Waits(g)' <=> Waits(g)
      BY <2>1, <2>6
    <3>2. \A i \in 1..Depth(g) : joins'[g][i] = joins[g][i]
      BY <2>1, <2>6
    <3>3. joins'[g] # <<>> => Client(g)' = Client(g)
      BY <2>1, <2>2, <2>3, <3>2 DEF Client
    <3>4. at'[g] \in JoinWaits \union {"join_failed", "joined"} => at'[g] = at[g] /\ g # f
      BY <1>1, <2>1
    <3>5. at[g] \in JoinWaits \union {"join_failed", "joined"} => at'[g] = at[g]
      BY <1>1, <2>1
    <3>6. \A i \in 1..Depth(g) : joins'[g][i].server = None => 
            i = Depth(g) /\ (at'[g] = "join_failed" \/ Waits(g)')
      BY <2>2, <3>1, <3>2, <3>5 DEF JoinedOf
    <3>7. Waits(g)' => at'[g] \in JoinWaits /\ Client(g)'.server = None
      BY <2>1, <2>2, <2>3, <2>4, <3>1, <3>3, <3>5 DEF JoinedOf
    <3>8. at'[g] = "join_failed" => Client(g)'.server = None
      BY <2>1, <2>2, <2>3, <2>4, <3>3, <3>4 DEF JoinedOf
    <3> QED
      BY <2>1, <2>2, <2>3, <2>4, <3>4, <3>6, <3>7, <3>8 DEF JoinedOf
  <2> QED
    BY <2>5, <2>6
<1>14. CASE CancelDone(f)
  <2>1. /\ at[f] = "cancel" /\ at'[f] \in {"restore", "cancel_defer"}
        /\ \A g \in Fibers \ {f} : at'[g] = at[g]
        /\ \A g \in Fibers : Waits(g)' <=> Waits(g)
        /\ \A g \in Fibers : Depth(g)' = Depth(g) /\ DOMAIN joins'[g] = 1..Depth(g)
    BY <1>1, <1>14 DEF CancelDone, Waits
  <2> SUFFICES ASSUME NEW g \in Fibers
               PROVE  JoinedOf(g)'
    BY DEF Joined
  <2>2. /\ JoinedOf(g) /\ DOMAIN joins[g] = 1..Depth(g) /\ Depth(g) \in Nat
        /\ \A i \in 1..Depth(g) : joins[g][i] \in Clients
        /\ joins[g] # <<>> <=> Depth(g) # 0
    BY <1>1, JoinsTyped
  <2>3. joins'[g] # <<>> <=> Depth(g)' # 0
    BY NextJoinsTyped
  <2>4. \A i \in 1..Depth(g) : joins'[g][i].server = joins[g][i].server
    <3> TAKE i \in 1..Depth(g)
    <3>1. joins'[g][i] \in {joins[g][i], [joins[g][i] EXCEPT !.live_join_race = TRUE]}
      BY <1>14 DEF CancelDone
    <3> QED
      BY <2>2, <3>1 DEF Clients
  <2>5. joins[g] # <<>> => Client(g)'.server = Client(g).server
    BY <2>1, <2>2, <2>4 DEF Client
  <2> QED
    BY <2>1, <2>2, <2>3, <2>4, <2>5 DEF JoinedOf
<1> QED
  BY <1>2, <1>4, <1>5, <1>6, <1>8, <1>9, <1>11, <1>12, <1>13, <1>14, StepEffects DEF BusyStep

\* Servers and clients agree on who has whom.
LEMMA CountedKept ==
    ASSUME IFCInv, NEW f \in Fibers, FiberStep(f)
    PROVE  Counted'
<1> SUFFICES ASSUME NEW g \in Fibers, NEW x \in Fibers, NEW i \in 1..MaxDepth
             PROVE  <<g, i>> \in server'[x].running
                        <=> i \in DOMAIN joins'[g] /\ joins'[g][i].server = x
  BY DEF Counted
<1>1. /\ TypeOK /\ MaxDepth \in Nat /\ Books /\ JoinedOf(g) /\ x # None
      /\ <<g, i>> \in server[x].running <=> i \in DOMAIN joins[g] /\ joins[g][i].server = x
  BY IFCAssumption DEF IFCInv, Books, Counted, Joined
<1>2. /\ DOMAIN joins[g] = 1..Depth(g) /\ Depth(g) \in Nat /\ Depth(g) =< MaxDepth
      /\ \A k \in 1..Depth(g) : joins[g][k] \in Clients
  BY <1>1, JoinsTyped DEF JoinedOf
<1>3. CASE QuietStep(f)
  BY <1>1, <1>3, QuietStays
<1>4. ASSUME NEW t \in Fibers, NEW fn \in Fns, NEW type \in CallTypes, NEW s \in Fibers,
             JoinAttached(f, t, fn, type, s)
      PROVE  <<g, i>> \in server'[x].running <=> i \in DOMAIN joins'[g] /\ joins'[g][i].server = x
  <2>1. /\ server'[x].running = IF x = s THEN server[x].running \union {<<f, Depth(f) + 1>>}
                                ELSE server[x].running
        /\ g # f => joins'[g] = joins[g]
    BY <1>4 DEF JoinAttached, Joins
  <2>2. g = f => /\ DOMAIN joins'[g] = 1..(Depth(g) + 1)
                 /\ \A k \in 1..Depth(g) : joins'[g][k] = joins[g][k]
                 /\ joins'[g][Depth(g) + 1].server = s
    BY <1>4 DEF JoinAttached, Joins, NewClient
  <2>3. CASE g = f /\ i = Depth(g) + 1
    BY <1>1, <1>2, <2>1, <2>2, <2>3
  <2>4. CASE ~(g = f /\ i = Depth(g) + 1)
    BY <1>1, <1>2, <2>1, <2>2, <2>4
  <2> QED
    BY <2>3, <2>4
<1>5. ASSUME NEW t \in Fibers, NEW fn \in Fns, NEW type \in CallTypes,
             NEW closed \in Fibers \union {None}, JoinQueued(f, t, fn, type, closed)
      PROVE  <<g, i>> \in server'[x].running <=> i \in DOMAIN joins'[g] /\ joins'[g][i].server = x
  <2>1. server'[x].running = server[x].running /\ (g # f => joins'[g] = joins[g])
    BY <1>5 DEF JoinQueued, Joins
  <2>2. g = f => /\ DOMAIN joins'[g] = 1..(Depth(g) + 1)
                 /\ \A k \in 1..Depth(g) : joins'[g][k] = joins[g][k]
                 /\ joins'[g][Depth(g) + 1].server = None
    BY <1>5 DEF JoinQueued, Joins, NewClient
  <2> QED
    BY <1>1, <1>2, <2>1, <2>2
<1>6. CASE StepOutDone(f)
  BY <1>1, <1>6 DEF StepOutDone
<1>7. CASE JoinFailedDone(f)
  <2>1. /\ server' = server /\ (g # f => joins'[g] = joins[g])
        /\ g = f => /\ DOMAIN joins'[g] = 1..(Depth(g) - 1)
                    /\ \A k \in 1..(Depth(g) - 1) : joins'[g][k] = joins[g][k]
                    /\ joins[g][Depth(g)].server = None
    BY <1>7 DEF JoinFailedDone, Popped, Client
  <2> QED
    BY <1>1, <1>2, <2>1
<1>8. ASSUME NEW s \in Fibers, LeaveDone(f, s)
      PROVE  <<g, i>> \in server'[x].running <=> i \in DOMAIN joins'[g] /\ joins'[g][i].server = x
  <2>1. /\ server'[x].running = IF x = s THEN server[x].running \ {<<f, Depth(f)>>}
                                ELSE server[x].running
        /\ g # f => joins'[g] = joins[g]
        /\ g = f => /\ DOMAIN joins'[g] = 1..(Depth(g) - 1)
                    /\ \A k \in 1..(Depth(g) - 1) : joins'[g][k] = joins[g][k]
                    /\ joins[g][Depth(g)].server = s
    BY <1>8 DEF LeaveDone, Popped, Client
  <2> QED
    BY <1>1, <1>2, <2>1
<1>9. ASSUME NEW fns \in SUBSET Fns, NEW id \in Fibers, AcceptDone(f, fns, id)
      PROVE  <<g, i>> \in server'[x].running <=> i \in DOMAIN joins'[g] /\ joins'[g][i].server = x
  BY <1>1, <1>9 DEF AcceptDone, NoServer
<1>10. ASSUME NEW taken \in SUBSET Fibers, NEW listening \in BOOLEAN, AttachDone(f, taken, listening)
       PROVE  <<g, i>> \in server'[x].running <=> i \in DOMAIN joins'[g] /\ joins'[g][i].server = x
  <2>1. /\ server'[x].running =
                IF x = f THEN server[x].running \union {<<h, Depth(h)>> : h \in taken}
                ELSE server[x].running
        /\ DOMAIN joins'[g] = 1..Depth(g)
        /\ taken \subseteq WaitersOf(f)
        /\ \A k \in 1..Depth(g) :
              /\ g \in taken /\ k = Depth(g) => joins'[g][k] = [joins[g][k] EXCEPT !.server = f]
              /\ g \notin taken \/ k # Depth(g) => joins'[g][k] = joins[g][k]
    BY <1>10 DEF AttachDone
  <2>2. CASE g \in taken /\ i = Depth(g)
    <3>1. joins[g][i].server = None /\ i \in 1..Depth(g)
      BY <1>1, <1>2, <2>1, <2>2 DEF JoinedOf, WaitersOf, Client
    <3>2. joins'[g][i] = [joins[g][i] EXCEPT !.server = f] /\ joins[g][i] \in Clients
      BY <1>2, <2>1, <2>2, <3>1
    <3>3. joins'[g][i].server = f
      BY <3>2 DEF Clients
    <3> QED
      BY <1>1, <1>2, <2>1, <2>2, <3>1, <3>3
  <2>3. CASE ~(g \in taken /\ i = Depth(g))
    <3>1. <<g, i>> \notin {<<h, Depth(h)>> : h \in taken}
      BY <2>3
    <3>2. i \in 1..Depth(g) => joins'[g][i] = joins[g][i]
      BY <2>1, <2>3
    <3> QED
      BY <1>1, <1>2, <2>1, <3>1, <3>2
  <2> QED
    BY <2>2, <2>3
<1>11. CASE CancelDone(f)
  <2>1. /\ server'[x].running = server[x].running /\ DOMAIN joins'[g] = 1..Depth(g)
        /\ \A k \in 1..Depth(g) :
              joins'[g][k] \in {joins[g][k], [joins[g][k] EXCEPT !.live_join_race = TRUE]}
    BY <1>11 DEF CancelDone
  <2>2. \A k \in 1..Depth(g) : joins'[g][k].server = joins[g][k].server
    BY <1>2, <2>1 DEF Clients
  <2> QED
    BY <1>1, <1>2, <2>1, <2>2
<1>12. CASE CleanupDone(f)
  <2>1. server[f].running = {}
    BY <1>12 DEF IFCInv, Serving, ServingOf, Idle, CleanupDone
  <2> QED
    BY <1>1, <1>12, <2>1 DEF CleanupDone, NoServer, TypeOK
<1> QED
  BY <1>3, <1>4, <1>5, <1>6, <1>7, <1>8, <1>9, <1>10, <1>11, <1>12, StepEffects DEF BusyStep

\* A fiber that accepts on the id of a server it joined stays in that join.
LEMMA OwnOrServerSideKept ==
    ASSUME IFCInv, TypeOK', NEW f \in Fibers, FiberStep(f)
    PROVE  OwnOrServerSide'
<1> SUFFICES ASSUME NEW s \in Fibers, server'[s].accepting # None
             PROVE  \/ server'[s].accepting = s
                    \/ joins'[s] # <<>> /\ Client(s)'.server = server'[s].accepting
  BY DEF OwnOrServerSide, Accepting
<1>1. /\ TypeOK /\ Books
      /\ server[s].accepting # None =>
            server[s].accepting = s \/ (joins[s] # <<>> /\ Client(s).server = server[s].accepting)
  BY DEF IFCInv, Books, OwnOrServerSide, Accepting
<1>2. ASSUME server'[s].accepting = server[s].accepting, joins'[s] = joins[s]
      PROVE  server'[s].accepting = s \/ (joins'[s] # <<>> /\ Client(s)'.server = server'[s].accepting)
  BY <1>1, <1>2 DEF Client, Depth
<1>3. CASE QuietStep(f)
  BY <1>2, <1>3, QuietStays
<1>4. ASSUME server'[s].accepting = server[s].accepting, at[f] \notin AcceptPoints,
             \A g \in Fibers \ {f} : joins'[g] = joins[g]
      PROVE  server'[s].accepting = s \/ (joins'[s] # <<>> /\ Client(s)'.server = server'[s].accepting)
  <2>1. at[s] \notin AcceptPoints => server[s] = NoServer
    BY <1>1 DEF Books, Standing, StandingOf
  <2>2. NoServer.accepting = None
    BY DEF NoServer
  <2>3. s # f
    BY <1>4, <2>1, <2>2
  <2> QED
    BY <1>2, <1>4, <2>3
<1>5. ASSUME NEW t \in Fibers, NEW fn \in Fns, NEW type \in CallTypes, NEW x \in Fibers,
             JoinAttached(f, t, fn, type, x)
      PROVE  server'[s].accepting = s \/ (joins'[s] # <<>> /\ Client(s)'.server = server'[s].accepting)
  BY <1>4, <1>5 DEF JoinAttached, Joins, SameOffer, AcceptPoints
<1>6. ASSUME NEW t \in Fibers, NEW fn \in Fns, NEW type \in CallTypes,
             NEW closed \in Fibers \union {None}, JoinQueued(f, t, fn, type, closed)
      PROVE  server'[s].accepting = s \/ (joins'[s] # <<>> /\ Client(s)'.server = server'[s].accepting)
  BY <1>4, <1>6 DEF JoinQueued, Joins, SameOffer, AcceptPoints
<1>7. CASE StepOutDone(f)
  BY <1>2, <1>7 DEF StepOutDone
<1>8. CASE JoinFailedDone(f)
  BY <1>4, <1>8 DEF JoinFailedDone, Popped, Goto, AcceptPoints
<1>9. ASSUME NEW x \in Fibers, LeaveDone(f, x)
      PROVE  server'[s].accepting = s \/ (joins'[s] # <<>> /\ Client(s)'.server = server'[s].accepting)
  BY <1>4, <1>9 DEF LeaveDone, Popped, SameOffer, AcceptPoints
<1>10. ASSUME NEW fns \in SUBSET Fns, NEW id \in Fibers, AcceptDone(f, fns, id)
       PROVE  server'[s].accepting = s \/ (joins'[s] # <<>> /\ Client(s)'.server = server'[s].accepting)
  <2>1. CASE s = f
    <3>1. joins' = joins /\ Client(s)' = Client(s)
      BY <1>10 DEF AcceptDone, Client, Depth
    <3>2. server'[s].accepting = id /\ (id = s \/ (joins[s] # <<>> /\ Client(s).server = id))
      BY <1>10, <2>1 DEF AcceptDone
    <3> QED
      BY <3>1, <3>2
  <2>2. CASE s # f
    BY <1>2, <1>10, <2>2 DEF AcceptDone
  <2> QED
    BY <2>1, <2>2
<1>11. ASSUME server'[s].accepting = server[s].accepting, Depth(s)' = Depth(s),
              DOMAIN joins'[s] = 1..Depth(s),
              joins[s] # <<>> /\ Client(s).server # None => Client(s)'.server = Client(s).server
       PROVE  server'[s].accepting = s \/ (joins'[s] # <<>> /\ Client(s)'.server = server'[s].accepting)
  <2>1. joins[s] # <<>> => joins'[s] # <<>>
    BY <1>1, <1>11, JoinsTyped, NextJoinsTyped
  <2> QED
    BY <1>1, <1>11, <2>1
<1>12. ASSUME NEW taken \in SUBSET Fibers, NEW listening \in BOOLEAN, AttachDone(f, taken, listening)
       PROVE  server'[s].accepting = s \/ (joins'[s] # <<>> /\ Client(s)'.server = server'[s].accepting)
  <2>1. /\ server'[s].accepting = server[s].accepting /\ Depth(s)' = Depth(s)
        /\ DOMAIN joins'[s] = 1..Depth(s)
        /\ s \notin taken => \A i \in 1..Depth(s) : joins'[s][i] = joins[s][i]
        /\ s \in taken => Waits(s)
    BY <1>12 DEF AttachDone, SameOffer, WaitersOf
  <2>2. s \in taken => Client(s).server = None
    BY <1>1, <2>1 DEF Books, Joined, JoinedOf
  <2>3. joins[s] # <<>> /\ Client(s).server # None => Client(s)'.server = Client(s).server
    BY <1>1, <2>1, <2>2, JoinsTyped DEF Client
  <2> QED
    BY <1>11, <2>1, <2>3
<1>13. CASE CancelDone(f)
  <2>1. /\ server'[s].accepting = server[s].accepting /\ Depth(s)' = Depth(s)
        /\ DOMAIN joins'[s] = 1..Depth(s)
        /\ \A i \in 1..Depth(s) :
              joins'[s][i] \in {joins[s][i], [joins[s][i] EXCEPT !.live_join_race = TRUE]}
    BY <1>13 DEF CancelDone
  <2>2. \A i \in 1..Depth(s) : joins'[s][i].server = joins[s][i].server
    BY <1>1, <2>1, JoinsTyped DEF Clients
  <2>3. joins[s] # <<>> => Client(s)'.server = Client(s).server
    BY <1>1, <2>1, <2>2, JoinsTyped DEF Client
  <2> QED
    BY <1>11, <2>1, <2>3
<1>14. CASE CleanupDone(f)
  <2>1. server'[f] = NoServer /\ \A x \in Fibers \ {f} : server'[x] = server[x]
    BY <1>1, <1>14 DEF CleanupDone, TypeOK
  <2>2. s # f
    BY <2>1 DEF NoServer
  <2> QED
    BY <1>2, <1>14, <2>1, <2>2 DEF CleanupDone
<1> QED
  BY <1>3, <1>5, <1>6, <1>7, <1>8, <1>9, <1>10, <1>12, <1>13, <1>14, StepEffects DEF BusyStep

\* Who is prodded and still sleeps has no reason to be awake.
LEMMA ProddedSleeper ==
    ASSUME NEW c \in Ctrl, NEW d, Prodded(c, d), c.deferred => ~Bounces(c)
    PROVE  d.deferred => c.deferred /\ ~Bounces(d)
<1>1. CASE d = c
  BY <1>1
<1>2. CASE d = Cancel(c)
  BY <1>2 DEF Cancel, Ctrl, Bounces, Interrupted
<1>3. CASE d = WakeDone(c)
  BY <1>3 DEF WakeDone, Ctrl, Bounces, Interrupted
<1>4. CASE d = WakeJoinRace(c)
  BY <1>4 DEF WakeJoinRace, Ctrl, Bounces, Interrupted
<1> QED
  BY <1>1, <1>2, <1>3, <1>4 DEF Prodded

\* Only Defer puts a fiber to sleep, and one that sleeps runs no code of its own.
LEMMA QuietSleeps ==
    ASSUME TypeOK, NEW f \in Fibers, QuietStep(f), ~Defer(f), ~CancelFiber(f)
    PROVE  ~ctrl[f].deferred /\ ~ctrl'[f].deferred
<1> USE DEF Goto
<1>1. ctrl \in [Fibers -> Ctrl]
  BY DEF TypeOK
<1>2. \A c \in Ctrl : ~c.deferred => /\ ~CancellationPoint(c).deferred
                                     /\ ~WakeDone(c).deferred /\ ~WakeJoinRace(c).deferred
  BY DEF CancellationPoint, WakeDone, WakeJoinRace, Ctrl
<1>3. ASSUME NEW t \in Fibers, JoinMissing(f, t)
      PROVE  ~ctrl[f].deferred /\ ~ctrl'[f].deferred
  BY <1>1, <1>3 DEF JoinMissing
<1>4. CASE JoinWoken(f) \/ StepIn(f) \/ AcceptWoken(f) \/ CancelWoken(f) \/ Unindex(f)
  BY <1>1, <1>4 DEF JoinWoken, StepIn, AcceptWoken, CancelWoken, Unindex
<1>5. CASE ThrowMissing(f) \/ SetUnintr(f)
  BY <1>1, <1>5 DEF ThrowMissing, SetUnintr, Ctrl
<1>6. CASE Enter(f)
  BY <1>1, <1>2, <1>6 DEF Enter
<1>7. CASE Restore(f)
  BY <1>1, <1>7 DEF Restore, Ctrl
<1>8. CASE Throw(f)
  <2>1. ~ctrl[f].deferred
    BY <1>8 DEF Throw
  <2>2. CASE ctrl' = [ctrl EXCEPT ![f] = CancellationPoint(@)]
    BY <1>1, <1>2, <2>1, <2>2
  <2>3. CASE ctrl' = [ctrl EXCEPT ![f].join_race = FALSE]
    BY <1>1, <2>1, <2>3 DEF Ctrl
  <2> QED
    BY <1>8, <2>1, <2>2, <2>3 DEF Throw
<1>9. CASE Teardown(f)
  BY <1>1, <1>2, <1>9 DEF Teardown
<1> QED
  BY <1>3, <1>4, <1>5, <1>6, <1>7, <1>8, <1>9 DEF QuietStep

\* Who sleeps does so where it waits, without a reason to be awake.
LEMMA AsleepKept ==
    ASSUME IFCInv, TypeOK', NEW f \in Fibers, FiberStep(f), NEW g \in Fibers
    PROVE  AsleepOf(g)'
<1>1. /\ TypeOK /\ ctrl \in [Fibers -> Ctrl] /\ ctrl' \in [Fibers -> Ctrl]
      /\ at \in [Fibers -> Points] /\ AsleepOf(g) /\ ctrl[g] \in Ctrl /\ ctrl'[g] \in Ctrl
  BY DEF IFCInv, Books, TypeOK, Standing, StandingOf
<1>2. ASSUME Prodded(ctrl[g], ctrl'[g]), at'[g] = at[g] \/ ~ctrl[g].deferred
      PROVE  AsleepOf(g)'
  BY <1>1, <1>2, ProddedSleeper DEF AsleepOf
<1>3. CASE QuietStep(f)
  <2>1. CASE g # f
    BY <1>1, <1>2, <1>3, <2>1, QuietMoves DEF QuietMove
  <2>2. CASE g = f /\ Defer(f)
    <3>1. ctrl'[f] = [ctrl[f] EXCEPT !.deferred = ~Bounces(ctrl[f])]
      BY <1>1, <2>2 DEF Defer
    <3>2. Bounces(ctrl'[f]) = Bounces(ctrl[f]) /\ ctrl'[f].deferred = ~Bounces(ctrl[f])
      BY <1>1, <2>2, <3>1 DEF Bounces, Interrupted, Ctrl
    <3>3. at'[f] \in {"join_woken", "accept_woken", "cancel_woken"}
      BY <1>1, <2>2 DEF Defer, Goto
    <3> QED
      BY <2>2, <3>2, <3>3 DEF AsleepOf
  <2>3. CASE CancelFiber(f)
    BY <1>1, <1>2, <2>3 DEF CancelFiber, Prodded
  <2>4. CASE g = f /\ ~Defer(f) /\ ~CancelFiber(f)
    BY <1>1, <1>3, <2>4, QuietSleeps DEF AsleepOf
  <2> QED
    BY <2>1, <2>2, <2>3, <2>4
<1>4. ASSUME ctrl' = ctrl, \A h \in Fibers \ {f} : at'[h] = at[h], ~ctrl[f].deferred
      PROVE  AsleepOf(g)'
  BY <1>2, <1>4 DEF Prodded
<1>5. ASSUME NEW t \in Fibers, NEW fn \in Fns, NEW type \in CallTypes, NEW s \in Fibers,
             JoinAttached(f, t, fn, type, s)
      PROVE  AsleepOf(g)'
  BY <1>1, <1>4, <1>5 DEF JoinAttached, Joins
<1>6. ASSUME NEW t \in Fibers, NEW fn \in Fns, NEW type \in CallTypes,
             NEW closed \in Fibers \union {None}, JoinQueued(f, t, fn, type, closed)
      PROVE  AsleepOf(g)'
  <2>1. g # f => ctrl'[g] = ctrl[g] /\ at'[g] = at[g]
    BY <1>1, <1>6 DEF JoinQueued, Joins
  <2>2. g = f => ~ctrl'[g].deferred
    BY <1>1, <1>6 DEF JoinQueued, Joins, Ctrl
  <2> QED
    BY <1>1, <2>1, <2>2 DEF AsleepOf
<1>7. CASE StepOutDone(f)
  BY <1>1, <1>4, <1>7 DEF StepOutDone
<1>8. ASSUME \A h \in Fibers \ {f} : ctrl'[h] = ctrl[h] /\ at'[h] = at[h],
             ctrl'[f] = CancellationPoint(ctrl[f]), ~ctrl[f].deferred
      PROVE  AsleepOf(g)'
  <2>1. ~ctrl'[f].deferred
    BY <1>1, <1>8 DEF CancellationPoint, Ctrl
  <2> QED
    BY <1>1, <1>8, <2>1 DEF AsleepOf
<1>9. CASE JoinFailedDone(f)
  BY <1>1, <1>8, <1>9 DEF JoinFailedDone, Goto
<1>10. CASE CleanupDone(f)
  BY <1>1, <1>8, <1>10 DEF CleanupDone
<1>11. ASSUME NEW s \in Fibers, LeaveDone(f, s)
       PROVE  AsleepOf(g)'
  <2>1. g # f => Prodded(ctrl[g], ctrl'[g])
    BY <1>11 DEF LeaveDone, Prodded
  <2>2. at' = at /\ ~ctrl'[f].deferred
    BY <1>11 DEF LeaveDone
  <2> QED
    BY <1>2, <2>1, <2>2 DEF AsleepOf
<1>12. ASSUME NEW fns \in SUBSET Fns, NEW id \in Fibers, AcceptDone(f, fns, id)
       PROVE  AsleepOf(g)'
  BY <1>1, <1>4, <1>12 DEF AcceptDone
<1>13. ASSUME NEW taken \in SUBSET Fibers, NEW listening \in BOOLEAN, AttachDone(f, taken, listening)
       PROVE  AsleepOf(g)'
  <2>1. g # f => Prodded(ctrl[g], ctrl'[g]) /\ at'[g] = at[g]
    BY <1>1, <1>13 DEF AttachDone, Prodded
  <2>2. ~ctrl'[f].deferred
    BY <1>1, <1>13 DEF AttachDone, Ctrl
  <2> QED
    BY <1>2, <2>1, <2>2 DEF AsleepOf
<1>14. CASE CancelDone(f)
  <2>1. g # f => Prodded(ctrl[g], ctrl'[g]) /\ at'[g] = at[g]
    BY <1>1, <1>14 DEF CancelDone, Prodded
  <2>2. ~ctrl'[f].deferred
    BY <1>14 DEF CancelDone
  <2> QED
    BY <1>2, <2>1, <2>2 DEF AsleepOf
<1> QED
  BY <1>3, <1>5, <1>6, <1>7, <1>9, <1>10, <1>11, <1>12, <1>13, <1>14, StepEffects DEF BusyStep

\* What is untouched stays.
LEMMA StandingStays ==
    ASSUME NEW g \in Fibers, StandingOf(g), AsleepOf(g)', at'[g] = at[g],
           g \in fiber_map' <=> g \in fiber_map,
           server'[g] = server[g] \/ (at[g] \in AcceptPoints /\ SameOffer(g))
    PROVE  StandingOf(g)'
  BY DEF StandingOf, Accepting, SameOffer

\* Where a fiber is tells whether it is a server, and whether it can be reached.
LEMMA StandingKept ==
    ASSUME IFCInv, TypeOK', NEW f \in Fibers, FiberStep(f)
    PROVE  Standing'
<1>1. /\ TypeOK /\ at \in [Fibers -> Points] /\ at' \in [Fibers -> Points]
      /\ server \in [Fibers -> Servers]
      /\ \A g \in Fibers : StandingOf(g) /\ ServingOf(g)
  BY DEF IFCInv, Books, TypeOK, Standing, Serving
<1>2. \A g \in Fibers : AsleepOf(g)'
  BY AsleepKept
<1>3. CASE QuietStep(f)
  <2>1. server' = server /\ QuietMove(f) /\ QuietPlace(f)
    BY <1>1, <1>3, QuietStays, QuietMoves, QuietPlaces
  <2>2. \A g \in Fibers \ {f} : g \in fiber_map' <=> g \in fiber_map
    BY <2>1 DEF QuietPlace
  <2>3. \A g \in Fibers \ {f} : StandingOf(g)'
    BY <1>1, <1>2, <2>1, <2>2, StandingStays DEF QuietMove
  <2>4. StandingOf(f)'
    <3>1. at'[f] \notin AcceptPoints => server'[f] = NoServer
      BY <1>1, <2>1 DEF StandingOf, QuietPlace, AcceptPoints
    <3>2. at'[f] \in AcceptPoints => Accepting(f)'
      BY <1>1, <2>1 DEF StandingOf, QuietPlace, AcceptPoints, Accepting
    <3>3. f \in fiber_map' <=> at'[f] \notin {"unindexed", "dead"}
      BY <1>1, <2>1 DEF StandingOf, QuietPlace
    <3>4. at'[f] # "scheduler_error"
      BY <1>1, <2>1 DEF StandingOf, QuietPlace
    <3> QED
      BY <1>2, <3>1, <3>2, <3>3, <3>4 DEF StandingOf
  <2> QED
    BY <2>3, <2>4 DEF Standing
<1>4. ASSUME NEW to \in {"joined", "join_defer", "join_failed", "user"},
             at[f] \in {"user", "join_lock", "join_failed"},
             at'[f] = to, \A g \in Fibers \ {f} : at'[g] = at[g], fiber_map' = fiber_map,
             \A g \in Fibers : server'[g] = server[g] \/ (at[g] \in AcceptPoints /\ SameOffer(g))
      PROVE  Standing'
  <2>1. \A g \in Fibers \ {f} : StandingOf(g)'
    BY <1>1, <1>2, <1>4, StandingStays
  <2>2. StandingOf(f)'
    BY <1>1, <1>2, <1>4 DEF StandingOf, AcceptPoints
  <2> QED
    BY <2>1, <2>2 DEF Standing
<1>5. \A g \in Listening : at[g] \in AcceptPoints
  BY <1>1 DEF ServingOf, AcceptPoints, Listening
<1>6. ASSUME NEW t \in Fibers, NEW fn \in Fns, NEW type \in CallTypes, NEW s \in Fibers,
             JoinAttached(f, t, fn, type, s)
      PROVE  Standing'
  <2>1. \A g \in Fibers : server'[g] = server[g] \/ (at[g] \in AcceptPoints /\ SameOffer(g))
    BY <1>5, <1>6 DEF JoinAttached
  <2> QED
    BY <1>1, <1>4, <1>6, <2>1 DEF JoinAttached, Joins
<1>7. ASSUME NEW t \in Fibers, NEW fn \in Fns, NEW type \in CallTypes,
             NEW closed \in Fibers \union {None}, JoinQueued(f, t, fn, type, closed)
      PROVE  Standing'
  <2>1. \A g \in Fibers : server'[g] = server[g] \/ (at[g] \in AcceptPoints /\ SameOffer(g))
    BY <1>5, <1>7, IFCAssumption DEF JoinQueued
  <2> QED
    BY <1>1, <1>4, <1>7, <2>1 DEF JoinQueued, Joins
<1>8. CASE StepOutDone(f)
  BY <1>1, <1>4, <1>8 DEF StepOutDone
<1>9. CASE JoinFailedDone(f)
  BY <1>1, <1>4, <1>9 DEF JoinFailedDone, Goto
<1>10. ASSUME NEW s \in Fibers, LeaveDone(f, s)
       PROVE  Standing'
  <2>1. \A g \in Fibers : server'[g] = server[g] \/ (at[g] \in AcceptPoints /\ SameOffer(g))
    BY <1>10 DEF LeaveDone
  <2> QED
    BY <1>1, <1>4, <1>10, <2>1 DEF LeaveDone
<1>11. ASSUME at[f] \in AcceptPoints \union {"user"}, at'[f] \in AcceptPoints \union {"user"},
              \A g \in Fibers \ {f} : at'[g] = at[g] /\ server'[g] = server[g],
              at'[f] \in AcceptPoints => Accepting(f)', at'[f] = "user" => server'[f] = NoServer,
              fiber_map' = fiber_map
       PROVE  Standing'
  <2>1. \A g \in Fibers \ {f} : StandingOf(g)'
    BY <1>1, <1>2, <1>11, StandingStays
  <2>2. StandingOf(f)'
    BY <1>1, <1>2, <1>11 DEF StandingOf, AcceptPoints
  <2> QED
    BY <2>1, <2>2 DEF Standing
<1>12. ASSUME NEW fns \in SUBSET Fns, NEW id \in Fibers, AcceptDone(f, fns, id)
       PROVE  Standing'
  <2>1. id # None
    BY IFCAssumption
  <2> QED
    BY <1>1, <1>11, <1>12, <2>1 DEF AcceptDone, Accepting, AcceptPoints
<1>13. ASSUME NEW taken \in SUBSET Fibers, NEW listening \in BOOLEAN, AttachDone(f, taken, listening)
       PROVE  Standing'
  BY <1>1, <1>11, <1>13 DEF AttachDone, Accepting, AcceptPoints, SameOffer, StandingOf
<1>14. CASE CancelDone(f)
  BY <1>1, <1>11, <1>14 DEF CancelDone, Accepting, AcceptPoints, StandingOf
<1>15. CASE CleanupDone(f)
  BY <1>1, <1>11, <1>15 DEF CleanupDone, AcceptPoints
<1> QED
  BY <1>3, <1>6, <1>7, <1>8, <1>9, <1>10, <1>12, <1>13, <1>14, <1>15, StepEffects DEF BusyStep

\* What g called stays.
SameCall(g) ==
    /\ QueueOf(g)' = QueueOf(g) /\ Client(g)'.fiber_id = Client(g).fiber_id
    /\ Client(g)'.type = Client(g).type

\* A fiber whose joins are untouched calls whom it did.
LEMMA CallStays ==
    ASSUME NEW g \in Fibers, joins'[g] = joins[g]
    PROVE  SameCall(g)
  BY DEF SameCall, QueueOf, Client, Depth

\* Who waits is in a join.
LEMMA WaiterCalls ==
    ASSUME Books, NEW g \in Fibers, Waits(g)
    PROVE  /\ QueueOf(g) \in Queues /\ Client(g).fiber_id \in Fibers /\ Client(g).type \in CallTypes
           /\ at[g] \in JoinWaits /\ joins[g] # <<>>
<1>1. TypeOK /\ JoinedOf(g)
  BY DEF Books, Joined
<1>2. at[g] \in JoinWaits /\ joins[g] # <<>> /\ Client(g) \in Clients
  BY <1>1, JoinsTyped DEF JoinedOf
<1> QED
  BY <1>2 DEF Clients, QueueOf, Queues

\* Who waits after a step waited before for the same, or has just queued itself.
LEMMA WaitersStay ==
    ASSUME IFCInv, NEW f \in Fibers, FiberStep(f), NEW g \in Fibers, Waits(g)'
    PROVE  \/ Waits(g) /\ SameCall(g)
           \/ /\ g = f
              /\ \E t \in Fibers, fn \in Fns, type \in CallTypes, closed \in Fibers \union {None} :
                    JoinQueued(f, t, fn, type, closed)
<1>1. /\ TypeOK /\ Books /\ waiting \in Seq(Fibers) /\ (Waits(g) => at[g] \in JoinWaits)
  BY WaiterCalls DEF IFCInv, Books, TypeOK
<1>2. CASE QuietStep(f)
  BY <1>2, QuietStays, CallStays DEF Waits
<1>3. ASSUME NEW t \in Fibers, NEW fn \in Fns, NEW type \in CallTypes, NEW s \in Fibers,
             JoinAttached(f, t, fn, type, s)
      PROVE  Waits(g) /\ SameCall(g)
  <2>1. Waits(g) /\ at[f] = "user" /\ (g # f => joins'[g] = joins[g])
    BY <1>3 DEF JoinAttached, Joins, Waits
  <2>2. joins'[g] = joins[g]
    BY <1>1, <2>1 DEF JoinWaits
  <2> QED
    BY <2>1, <2>2, CallStays
<1>4. ASSUME NEW t \in Fibers, NEW fn \in Fns, NEW type \in CallTypes,
             NEW closed \in Fibers \union {None}, JoinQueued(f, t, fn, type, closed)
      PROVE  (Waits(g) /\ SameCall(g)) \/ g = f
  <2>1. (Waits(g)' <=> (Waits(g) \/ g = f)) /\ (g # f => joins'[g] = joins[g])
    BY <1>1, <1>4, AppendIs DEF JoinQueued, Joins, Waits
  <2> QED
    BY <2>1, CallStays
<1>5. CASE StepOutDone(f)
  BY <1>5, CallStays DEF StepOutDone, Waits
<1>6. ASSUME Popped(f), waiting' = waiting, at[f] \notin JoinWaits
      PROVE  Waits(g) /\ SameCall(g)
  <2>1. Waits(g) /\ g # f
    BY <1>1, <1>6 DEF Waits
  <2> QED
    BY <1>6, <2>1, CallStays DEF Popped
<1>7. CASE JoinFailedDone(f)
  BY <1>6, <1>7 DEF JoinFailedDone, Goto, JoinWaits
<1>8. ASSUME NEW s \in Fibers, LeaveDone(f, s)
      PROVE  Waits(g) /\ SameCall(g)
  BY <1>6, <1>8 DEF LeaveDone, JoinWaits
<1>9. ASSUME NEW fns \in SUBSET Fns, NEW id \in Fibers, AcceptDone(f, fns, id)
      PROVE  Waits(g) /\ SameCall(g)
  BY <1>9, CallStays DEF AcceptDone, Waits
<1>10. CASE CleanupDone(f)
  BY <1>10, CallStays DEF CleanupDone, Waits
<1>11. ASSUME NEW taken \in SUBSET Fibers, NEW listening \in BOOLEAN, AttachDone(f, taken, listening)
       PROVE  Waits(g) /\ SameCall(g)
  <2>1. /\ Waits(g) /\ g \notin taken /\ Depth(g)' = Depth(g)
        /\ \A i \in 1..Depth(g) : joins'[g][i] = joins[g][i]
    BY <1>11 DEF AttachDone, Waits
  <2>2. Depth(g) \in 1..Depth(g)
    BY <1>1, <2>1, WaiterCalls, JoinsTyped
  <2> QED
    BY <2>1, <2>2 DEF SameCall, QueueOf, Client
<1>12. CASE CancelDone(f)
  <2>1. /\ Waits(g) /\ Depth(g)' = Depth(g)
        /\ \A i \in 1..Depth(g) :
              joins'[g][i] \in {joins[g][i], [joins[g][i] EXCEPT !.live_join_race = TRUE]}
    BY <1>12 DEF CancelDone, Waits
  <2>2. Depth(g) \in 1..Depth(g) /\ Client(g) \in Clients
    BY <1>1, <2>1, WaiterCalls, JoinsTyped
  <2>3. Client(g)' \in {Client(g), [Client(g) EXCEPT !.live_join_race = TRUE]}
    BY <2>1, <2>2 DEF Client
  <2>4. /\ Client(g)'.fiber_id = Client(g).fiber_id /\ Client(g)'.fn = Client(g).fn
        /\ Client(g)'.type = Client(g).type
    BY <2>2, <2>3 DEF Clients
  <2> QED
    BY <2>1, <2>4 DEF SameCall, QueueOf
<1> QED
  BY <1>2, <1>3, <1>4, <1>5, <1>7, <1>8, <1>9, <1>10, <1>11, <1>12, StepEffects DEF BusyStep

\* What is untouched stays.
LEMMA RefersStays ==
    ASSUME NEW q, Refers(refs'[q], q), \A s \in Fibers : QueuesOf(s)' = QueuesOf(s)
    PROVE  Refers(refs[q], q)'
  BY DEF Refers, Distinct

\* A server that offers what it did is of the queues it was of.
LEMMA OffersStay ==
    ASSUME NEW s, SameOffer(s) \/ server'[s] = server[s]
    PROVE  QueuesOf(s)' = QueuesOf(s)
  BY DEF QueuesOf, SameOffer

\* The lists of a queue hold its servers, each once.
LEMMA RefersKept ==
    ASSUME IFCInv, NEW f \in Fibers, FiberStep(f), NEW q \in Queues
    PROVE  Refers(refs[q], q)'
<1>1. /\ TypeOK /\ Refers(refs[q], q) /\ refs \in [Queues -> QueueRefs]
      /\ server \in [Fibers -> Servers]
  BY DEF IFCInv, Books, TypeOK, QueueRefs
<1>2. ASSUME refs'[q] = refs[q], \A s \in Fibers : QueuesOf(s)' = QueuesOf(s)
      PROVE  Refers(refs[q], q)'
  BY <1>1, <1>2, RefersStays
<1>3. CASE QuietStep(f)
  BY <1>2, <1>3, QuietStays, OffersStay
<1>4. ASSUME NEW t \in Fibers, NEW fn \in Fns, NEW type \in CallTypes,
             NEW s \in Fibers \union {None}, NEW to, Joins(f, t, fn, type, s, to),
             \A x \in Fibers : SameOffer(x) \/ server'[x] = server[x]
      PROVE  Refers(refs[q], q)'
  <2>1. Refers(refs'[q], q)
    BY <1>1, <1>4 DEF Joins
  <2> QED
    BY <1>4, <2>1, OffersStay, RefersStays
<1>5. ASSUME NEW t \in Fibers, NEW fn \in Fns, NEW type \in CallTypes, NEW s \in Fibers,
             JoinAttached(f, t, fn, type, s)
      PROVE  Refers(refs[q], q)'
  BY <1>4, <1>5 DEF JoinAttached
<1>6. ASSUME NEW t \in Fibers, NEW fn \in Fns, NEW type \in CallTypes,
             NEW closed \in Fibers \union {None}, JoinQueued(f, t, fn, type, closed)
      PROVE  Refers(refs[q], q)'
  BY <1>4, <1>6 DEF JoinQueued
<1>7. CASE StepOutDone(f)
  BY <1>2, <1>7, OffersStay DEF StepOutDone
<1>8. CASE JoinFailedDone(f)
  BY <1>2, <1>8, OffersStay DEF JoinFailedDone
<1>9. ASSUME NEW s \in Fibers, LeaveDone(f, s)
      PROVE  Refers(refs[q], q)'
  BY <1>2, <1>9, OffersStay DEF LeaveDone
<1>10. ASSUME NEW fns \in SUBSET Fns, NEW id \in Fibers, AcceptDone(f, fns, id)
       PROVE  Refers(refs[q], q)'
  <2>1. refs'[q].freeish = refs[q].freeish /\ refs'[q].sharedish = refs[q].sharedish
    BY <1>10 DEF AcceptDone
  <2>2. \A s \in Fibers : q \in QueuesOf(s) => q \in QueuesOf(s)'
    <3>1. QueuesOf(f) = {}
      BY <1>10 DEF AcceptDone, QueuesOf, NoServer
    <3> QED
      BY <1>10, <3>1, OffersStay DEF AcceptDone
  <2> QED
    BY <1>1, <2>1, <2>2 DEF Refers, Distinct
<1>11. ASSUME NEW taken \in SUBSET Fibers, NEW listening \in BOOLEAN, AttachDone(f, taken, listening)
       PROVE  Refers(refs[q], q)'
  <2>1. \A s \in Fibers : QueuesOf(s)' = QueuesOf(s)
    BY <1>11, OffersStay DEF AttachDone
  <2>2. refs'[q] = refs[q] \/ (q \in QueuesOf(f) /\ refs'[q] = Reconnect(f, taken # {})[q])
    BY <1>11 DEF AttachDone, Reconnect
  <2>3. CASE q \in QueuesOf(f) /\ refs'[q] = Reconnect(f, taken # {})[q]
    <3> DEFINE locked == taken # {}
    <3>1. locked \in BOOLEAN
      OBVIOUS
    <3> HIDE DEF locked
    <3>2. Refers(Reconnect(f, locked)[q], q)
      BY <1>1, <2>3, <3>1, ReconnectIs
    <3>3. Refers(refs'[q], q)
      BY <2>3, <3>2 DEF locked
    <3> QED
      BY <2>1, <3>3, RefersStays
  <2> QED
    BY <1>2, <2>1, <2>2, <2>3
<1>12. CASE CancelDone(f)
  <2>1. \A s \in Fibers : QueuesOf(s)' = QueuesOf(s)
    BY <1>12 DEF CancelDone, QueuesOf
  <2> QED
    BY <1>2, <1>12, <2>1 DEF CancelDone
<1>13. CASE CleanupDone(f)
  <2>1. \A s \in Fibers \ {f} : QueuesOf(s)' = QueuesOf(s)
    BY <1>1, <1>13 DEF CleanupDone, QueuesOf
  <2>2. CASE q \in QueuesOf(f)
    <3>1. /\ \A x : /\ Contains(refs'[q].freeish, x) <=> Contains(refs[q].freeish, x) /\ x # f
                    /\ Contains(refs'[q].sharedish, x) <=> Contains(refs[q].sharedish, x) /\ x # f
          /\ Distinct(refs'[q].freeish) /\ Distinct(refs'[q].sharedish)
      BY <1>13, <2>2 DEF CleanupDone
    <3>2. Distinct(refs[q].freeish)' /\ Distinct(refs[q].sharedish)'
      BY <3>1 DEF Distinct
    <3> QED
      BY <1>1, <2>1, <3>1, <3>2 DEF Refers
  <2>3. CASE q \notin QueuesOf(f)
    <3>1. refs'[q] = refs[q]
      BY <1>13, <2>3 DEF CleanupDone
    <3>2. ~Contains(refs[q].freeish, f) /\ ~Contains(refs[q].sharedish, f)
      BY <1>1, <2>3 DEF Refers
    <3>3. \A s \in Fibers : q \in QueuesOf(s) => q \in QueuesOf(s)'
      BY <2>1, <2>3
    <3> QED
      BY <1>1, <3>1, <3>3 DEF Refers, Distinct
  <2> QED
    BY <2>2, <2>3
<1> QED
  BY <1>3, <1>5, <1>6, <1>7, <1>8, <1>9, <1>10, <1>11, <1>12, <1>13, StepEffects DEF BusyStep

\* What deref_ifc_fn_queue frees, of the queues in qs.
LEMMA DerefIs ==
    ASSUME TypeOK, NEW qs, NEW alive, NEW count, NEW clients \in Seq(Fibers), NEW q
    PROVE  q \in Deref(qs, alive, count, clients) <=>
                /\ q \in alive
                /\ ~(q \in qs /\ count[q].count = 0
                     /\ \A g \in Fibers : Contains(clients, g) => QueueOf(g) # q)
<1>1. (\A i \in 1..Len(clients) : QueueOf(clients[i]) # q)
        <=> \A g \in Fibers : Contains(clients, g) => QueueOf(g) # q
  <2>1. \A i \in 1..Len(clients) : clients[i] \in Fibers
    OBVIOUS
  <2> QED
    BY <2>1 DEF Contains
<1> QED
  BY <1>1 DEF Deref

\* Nobody is in the list of who waits twice.
LEMMA DistinctKept ==
    ASSUME IFCInv, NEW f \in Fibers, FiberStep(f)
    PROVE  Distinct(waiting')
<1>1. TypeOK /\ Distinct(waiting) /\ waiting \in Seq(Fibers) /\ JoinedOf(f)
  BY DEF IFCInv, Books, Allocated, TypeOK, Joined
<1>2. CASE waiting' = waiting
  BY <1>1, <1>2
<1>3. ASSUME NEW t \in Fibers, NEW fn \in Fns, NEW type \in CallTypes,
             NEW closed \in Fibers \union {None}, JoinQueued(f, t, fn, type, closed)
      PROVE  Distinct(waiting')
  <2>1. waiting' = Append(waiting, f) /\ at[f] = "user"
    BY <1>3 DEF JoinQueued, Joins
  <2>2. ~Contains(waiting, f)
    BY <1>1, <2>1 DEF JoinedOf, JoinWaits, Waits
  <2>3. \A i \in 1..Len(waiting) : waiting[i] # f
    BY <2>2 DEF Contains
  <2>4. /\ Len(Append(waiting, f)) = Len(waiting) + 1
        /\ \A i \in 1..Len(waiting) : Append(waiting, f)[i] = waiting[i]
        /\ Append(waiting, f)[Len(waiting) + 1] = f
        /\ DOMAIN Append(waiting, f) = 1..(Len(waiting) + 1)
        /\ DOMAIN waiting = 1..Len(waiting) /\ Len(waiting) \in Nat
    BY <1>1
  <2> QED
    BY <1>1, <2>1, <2>3, <2>4 DEF Distinct
<1>4. QuietStep(f) => waiting' = waiting
  BY QuietStays
<1> QED
  BY <1>2, <1>3, <1>4, StepEffects
     DEF BusyStep, JoinAttached, StepOutDone, JoinFailedDone, LeaveDone, AcceptDone, AttachDone,
         CancelDone, CleanupDone

\* A queue counts its servers.
LEMMA CountsKept ==
    ASSUME IFCInv, NEW f \in Fibers, FiberStep(f), NEW q \in Queues
    PROVE  refs'[q].count = Cardinality(ServersOf(q)')
<1>1. /\ TypeOK /\ Books /\ refs[q].count = Cardinality(ServersOf(q))
      /\ server \in [Fibers -> Servers] /\ IsFiniteSet(ServersOf(q))
  BY CountedReferences DEF IFCInv, Books, TypeOK
<1>2. ASSUME refs'[q].count = refs[q].count, \A s \in Fibers : QueuesOf(s)' = QueuesOf(s)
      PROVE  refs'[q].count = Cardinality(ServersOf(q)')
  <2>1. ServersOf(q)' = ServersOf(q)
    BY <1>2 DEF ServersOf
  <2> QED
    BY <1>1, <1>2, <2>1
<1>3. CASE QuietStep(f)
  BY <1>2, <1>3, QuietStays, OffersStay
<1>4. ASSUME NEW t \in Fibers, NEW fn \in Fns, NEW type \in CallTypes,
             NEW s \in Fibers \union {None}, NEW to, Joins(f, t, fn, type, s, to),
             \A x \in Fibers : SameOffer(x) \/ server'[x] = server[x]
      PROVE  refs'[q].count = Cardinality(ServersOf(q)')
  BY <1>2, <1>4, OffersStay DEF Joins
<1>5. ASSUME NEW t \in Fibers, NEW fn \in Fns, NEW type \in CallTypes, NEW s \in Fibers,
             JoinAttached(f, t, fn, type, s)
      PROVE  refs'[q].count = Cardinality(ServersOf(q)')
  BY <1>4, <1>5 DEF JoinAttached
<1>6. ASSUME NEW t \in Fibers, NEW fn \in Fns, NEW type \in CallTypes,
             NEW closed \in Fibers \union {None}, JoinQueued(f, t, fn, type, closed)
      PROVE  refs'[q].count = Cardinality(ServersOf(q)')
  BY <1>4, <1>6 DEF JoinQueued
<1>7. CASE StepOutDone(f)
  BY <1>2, <1>7, OffersStay DEF StepOutDone
<1>8. CASE JoinFailedDone(f)
  BY <1>2, <1>8, OffersStay DEF JoinFailedDone
<1>9. ASSUME NEW s \in Fibers, LeaveDone(f, s)
      PROVE  refs'[q].count = Cardinality(ServersOf(q)')
  BY <1>2, <1>9, OffersStay DEF LeaveDone
<1>10. ASSUME NEW fns \in SUBSET Fns, NEW id \in Fibers, AcceptDone(f, fns, id)
       PROVE  refs'[q].count = Cardinality(ServersOf(q)')
  <2>1. QueuesOf(f) = {} /\ QueuesOf(f)' = {id} \X fns
    BY <1>10 DEF AcceptDone, QueuesOf, NoServer
  <2>2. \A s \in Fibers \ {f} : QueuesOf(s)' = QueuesOf(s)
    BY <1>10, OffersStay DEF AcceptDone
  <2>3. refs'[q].count = IF q \in {id} \X fns THEN refs[q].count + 1 ELSE refs[q].count
    BY <1>10 DEF AcceptDone
  <2>4. f \notin ServersOf(q)
    BY <2>1 DEF ServersOf
  <2>5. ServersOf(q)' = IF q \in {id} \X fns THEN ServersOf(q) \union {f} ELSE ServersOf(q)
    BY <2>1, <2>2 DEF ServersOf
  <2>6. Cardinality(ServersOf(q) \union {f}) = Cardinality(ServersOf(q)) + 1
    BY <1>1, <2>4, FS_AddElement
  <2> QED
    BY <1>1, <2>3, <2>5, <2>6
<1>11. ASSUME NEW taken \in SUBSET Fibers, NEW listening \in BOOLEAN, AttachDone(f, taken, listening)
       PROVE  refs'[q].count = Cardinality(ServersOf(q)')
  <2>1. \A s \in Fibers : QueuesOf(s)' = QueuesOf(s)
    BY <1>11, OffersStay DEF AttachDone
  <2>2. refs'[q] = refs[q] \/ (q \in QueuesOf(f) /\ refs'[q] = Reconnect(f, taken # {})[q])
    BY <1>11 DEF AttachDone, Reconnect
  <2>3. CASE q \in QueuesOf(f) /\ refs'[q] = Reconnect(f, taken # {})[q]
    <3> DEFINE locked == taken # {}
    <3>1. locked \in BOOLEAN /\ Refers(refs[q], q)
      BY <1>1 DEF Books
    <3> HIDE DEF locked
    <3>2. Reconnect(f, locked)[q].count = refs[q].count
      BY <1>1, <2>3, <3>1, ReconnectIs
    <3>3. refs'[q].count = refs[q].count
      BY <2>3, <3>2 DEF locked
    <3> QED
      BY <1>2, <2>1, <3>3
  <2> QED
    BY <1>2, <2>1, <2>2, <2>3
<1>12. CASE CancelDone(f)
  <2>1. \A s \in Fibers : QueuesOf(s)' = QueuesOf(s)
    BY <1>12 DEF CancelDone, QueuesOf
  <2> QED
    BY <1>2, <1>12, <2>1 DEF CancelDone
<1>13. CASE CleanupDone(f)
  <2>1. /\ \A s \in Fibers \ {f} : QueuesOf(s)' = QueuesOf(s)
        /\ server'[f] = NoServer
    BY <1>1, <1>13 DEF CleanupDone, QueuesOf
  <2>2. QueuesOf(f)' = {}
    BY <2>1 DEF QueuesOf, NoServer
  <2>3. ServersOf(q)' = ServersOf(q) \ {f}
    BY <2>1, <2>2 DEF ServersOf
  <2>4. CASE q \in QueuesOf(f)
    <3>1. f \in ServersOf(q)
      BY <2>4 DEF ServersOf
    <3>2. Cardinality(ServersOf(q) \ {f}) = Cardinality(ServersOf(q)) - 1
      BY <1>1, <3>1, FS_RemoveElement
    <3>3. refs'[q].count = refs[q].count - 1
      BY <1>13, <2>4 DEF CleanupDone
    <3> QED
      BY <1>1, <2>3, <3>2, <3>3
  <2>5. CASE q \notin QueuesOf(f)
    <3>1. ServersOf(q) \ {f} = ServersOf(q) /\ refs'[q] = refs[q]
      BY <1>13, <2>5 DEF ServersOf, CleanupDone
    <3> QED
      BY <1>1, <2>3, <3>1
  <2> QED
    BY <2>4, <2>5
<1> QED
  BY <1>3, <1>5, <1>6, <1>7, <1>8, <1>9, <1>10, <1>11, <1>12, <1>13, StepEffects DEF BusyStep

\* Who waited and does so no longer stepped out, or was let in.
LEMMA WaitersLeave ==
    ASSUME IFCInv, NEW f \in Fibers, FiberStep(f), NEW g \in Fibers, Waits(g), ~Waits(g)'
    PROVE  \/ StepOutDone(f) /\ g = f
           \/ \E taken \in SUBSET Fibers, listening \in BOOLEAN :
                AttachDone(f, taken, listening) /\ g \in taken
<1>1. waiting \in Seq(Fibers)
  BY DEF IFCInv, Books, TypeOK
<1>2. waiting' # waiting
  BY DEF Waits
<1>3. ~QuietStep(f)
  BY <1>2, QuietStays
<1>4. ASSUME NEW t \in Fibers, NEW fn \in Fns, NEW type \in CallTypes,
             NEW closed \in Fibers \union {None}
      PROVE  ~JoinQueued(f, t, fn, type, closed)
  <2> SUFFICES ASSUME waiting' = Append(waiting, f)
               PROVE  FALSE
    BY DEF JoinQueued
  <2> QED
    BY <1>1, AppendIs DEF Waits
<1>5. CASE StepOutDone(f)
  BY <1>5 DEF StepOutDone, Waits
<1>6. ASSUME NEW taken \in SUBSET Fibers, NEW listening \in BOOLEAN, AttachDone(f, taken, listening)
      PROVE  g \in taken
  BY <1>6 DEF AttachDone, Waits
<1> QED
  BY <1>2, <1>3, <1>4, <1>5, <1>6, StepEffects
     DEF BusyStep, JoinAttached, JoinFailedDone, LeaveDone, AcceptDone, CancelDone, CleanupDone

\* The queues that are needed.
InUse(q) == (q \in Queues /\ refs[q].count > 0) \/ q \in Waited

\* A queue is allocated as long as somebody refers to it or waits in it.
LEMMA QueuesKept ==
    ASSUME IFCInv, TypeOK', NEW f \in Fibers, FiberStep(f)
    PROVE  queues' = {q \in Queues : refs'[q].count > 0} \union Waited'
<1> SUFFICES ASSUME NEW q
             PROVE  q \in queues' <=> InUse(q)'
  BY DEF InUse
<1>1. /\ TypeOK /\ Books /\ waiting \in Seq(Fibers) /\ (q \in queues <=> InUse(q))
      /\ refs \in [Queues -> QueueRefs] /\ queues \subseteq Queues
      /\ \A x \in Queues : refs[x].count \in Nat
  BY DEF IFCInv, Books, TypeOK, Allocated, InUse, QueueRefs
<1>2. ASSUME \A g \in Fibers : Waits(g) => Waits(g)'
      PROVE  q \in Waited => q \in Waited'
  <2> SUFFICES ASSUME NEW g \in Fibers, Waits(g), q = QueueOf(g)
               PROVE  q \in Waited'
    BY DEF Waited
  <2>1. Waits(g)'
    BY <1>2
  <2>2. QueueOf(g)' = QueueOf(g)
    <3>1. CASE SameCall(g)
      BY <3>1 DEF SameCall
    <3>2. ASSUME NEW t \in Fibers, NEW fn \in Fns, NEW type \in CallTypes,
                 NEW closed \in Fibers \union {None}, JoinQueued(g, t, fn, type, closed)
          PROVE  FALSE
      BY <1>1, <3>2, WaiterCalls DEF JoinQueued, Joins, JoinWaits
    <3> QED
      BY <2>1, <3>1, <3>2, WaitersStay
  <2> QED
    BY <2>1, <2>2 DEF Waited
<1>3. ASSUME \A t \in Fibers, fn \in Fns, type \in CallTypes, closed \in Fibers \union {None} :
                ~JoinQueued(f, t, fn, type, closed)
      PROVE  q \in Waited' => q \in Waited
  <2> SUFFICES ASSUME NEW g \in Fibers, Waits(g)', q = QueueOf(g)'
               PROVE  q \in Waited
    BY DEF Waited
  <2>1. Waits(g) /\ SameCall(g)
    BY <1>3, WaitersStay
  <2> QED
    BY <2>1 DEF Waited, SameCall
<1>4. ASSUME waiting' = waiting
      PROVE  q \in Waited' <=> q \in Waited
  <2>1. \A g \in Fibers : Waits(g) => Waits(g)'
    BY <1>4 DEF Waits
  <2>2. ASSUME NEW t \in Fibers, NEW fn \in Fns, NEW type \in CallTypes,
               NEW closed \in Fibers \union {None}
        PROVE  ~JoinQueued(f, t, fn, type, closed)
    <3> SUFFICES ASSUME waiting' = Append(waiting, f)
                 PROVE  FALSE
      BY DEF JoinQueued
    <3>1. Len(Append(waiting, f)) = Len(waiting) + 1 /\ Len(waiting) \in Nat
      BY <1>1
    <3> QED
      BY <1>4, <3>1
  <2> QED
    BY <1>2, <1>3, <2>1, <2>2
<1>5. ASSUME waiting' = waiting, queues' = queues, refs' = refs
      PROVE  q \in queues' <=> InUse(q)'
  BY <1>1, <1>4, <1>5 DEF InUse
<1>6. QuietStep(f) => waiting' = waiting /\ queues' = queues /\ refs' = refs
  BY QuietStays
<1>7. ASSUME NEW t \in Fibers, NEW fn \in Fns, NEW type \in CallTypes, NEW s \in Fibers,
             JoinAttached(f, t, fn, type, s)
      PROVE  q \in queues' <=> InUse(q)'
  <2>1. /\ waiting' = waiting /\ queues' = queues \union {<<t, fn>>}
        /\ \A x \in Queues : refs'[x].count = refs[x].count
        /\ <<t, fn>> \in QueuesOf(s)
    BY <1>7 DEF JoinAttached, Joins
  <2>2. <<t, fn>> \in Queues /\ refs[<<t, fn>>].count > 0
    BY <1>1, <2>1, CountedReferences DEF Queues
  <2> QED
    BY <1>1, <1>4, <2>1, <2>2 DEF InUse
<1>8. ASSUME NEW t \in Fibers, NEW fn \in Fns, NEW type \in CallTypes,
             NEW closed \in Fibers \union {None}, JoinQueued(f, t, fn, type, closed)
      PROVE  q \in queues' <=> InUse(q)'
  <2>1. /\ queues' = queues \union {<<t, fn>>} /\ waiting' = Append(waiting, f)
        /\ \A x \in Queues : refs'[x].count = refs[x].count
        /\ joins'[f][Depth(f) + 1] = NewClient(t, fn, type, None) /\ Depth(f)' = Depth(f) + 1
        /\ \A g \in Fibers \ {f} : joins'[g] = joins[g]
    BY <1>8 DEF JoinQueued, Joins
  <2>2. \A g \in Fibers : Waits(g)' <=> (Waits(g) \/ g = f)
    BY <1>1, <2>1, AppendIs DEF Waits
  <2>3. QueueOf(f)' = <<t, fn>> /\ \A g \in Fibers \ {f} : QueueOf(g)' = QueueOf(g)
    BY <2>1 DEF QueueOf, Client, Depth, NewClient
  <2>4. q \in Waited' <=> (q \in Waited \/ q = <<t, fn>>)
    <3>1. q = <<t, fn>> => q \in Waited'
      BY <2>2, <2>3 DEF Waited
    <3>2. q \in Waited' => q \in Waited \/ q = <<t, fn>>
      BY <2>2, <2>3 DEF Waited
    <3> QED
      BY <1>2, <2>2, <3>1, <3>2
  <2> QED
    BY <1>1, <2>1, <2>4 DEF InUse
<1>9. CASE StepOutDone(f)
  <2>1. /\ waiting' \in Seq(Fibers) /\ refs' = refs /\ joins' = joins
        /\ \A g \in Fibers : Waits(g)' <=> (Waits(g) /\ g # f)
        /\ queues' = Deref({QueueOf(f)}, queues, refs, waiting')
    BY <1>9 DEF StepOutDone, Waits
  <2>2. q \in queues' <=> /\ q \in queues
                          /\ ~(q \in {QueueOf(f)} /\ refs[q].count = 0
                               /\ \A g \in Fibers : Contains(waiting', g) => QueueOf(g) # q)
    BY <1>1, <2>1, DerefIs
  <2>3. q \in queues' <=> /\ q \in queues
                          /\ ~(q = QueueOf(f) /\ refs[q].count = 0
                               /\ \A g \in Fibers : (Waits(g) /\ g # f) => QueueOf(g) # q)
    BY <2>1, <2>2 DEF Waits
  <2>4. \A g \in Fibers : QueueOf(g)' = QueueOf(g)
    BY <2>1 DEF QueueOf, Client, Depth
  <2>5. q \in Waited' <=> \E g \in Fibers : Waits(g) /\ g # f /\ QueueOf(g) = q
    BY <2>1, <2>4 DEF Waited
  <2>6. q \in Waited <=> \E g \in Fibers : Waits(g) /\ QueueOf(g) = q
    BY DEF Waited
  <2>7. q \in queues => q \in Queues /\ refs[q].count \in Nat
    BY <1>1
  <2> QED
    BY <1>1, <2>1, <2>3, <2>5, <2>6, <2>7 DEF InUse
<1>10. ASSUME NEW fns \in SUBSET Fns, NEW id \in Fibers, AcceptDone(f, fns, id)
       PROVE  q \in queues' <=> InUse(q)'
  <2>1. /\ waiting' = waiting /\ queues' = queues \union ({id} \X fns)
        /\ \A x \in Queues : refs'[x].count = IF x \in {id} \X fns THEN refs[x].count + 1
                                              ELSE refs[x].count
    BY <1>10 DEF AcceptDone
  <2>2. {id} \X fns \subseteq Queues
    BY DEF Queues
  <2> QED
    BY <1>1, <1>4, <2>1, <2>2 DEF InUse
<1>11. ASSUME NEW taken \in SUBSET Fibers, NEW listening \in BOOLEAN, AttachDone(f, taken, listening)
       PROVE  q \in queues' <=> InUse(q)'
  <2>1. /\ queues' = queues /\ taken \subseteq WaitersOf(f)
        /\ \A g \in Fibers : Waits(g)' <=> (Waits(g) /\ g \notin taken)
    BY <1>11 DEF AttachDone, Waits
  <2>2. \A x \in Queues : refs'[x].count = refs[x].count
    <3> TAKE x \in Queues
    <3>1. refs'[x].count = Cardinality(ServersOf(x)') /\ refs[x].count = Cardinality(ServersOf(x))
      BY <1>1, CountsKept, CountedReferences
    <3>2. \A s \in Fibers : QueuesOf(s)' = QueuesOf(s)
      BY <1>11, OffersStay DEF AttachDone
    <3>3. ServersOf(x)' = ServersOf(x)
      BY <3>2 DEF ServersOf
    <3> QED
      BY <3>1, <3>3
  <2>3. q \in Waited' => q \in Waited
    <3>1. ASSUME NEW t \in Fibers, NEW fn \in Fns, NEW type \in CallTypes,
                 NEW closed \in Fibers \union {None}
          PROVE  ~JoinQueued(f, t, fn, type, closed)
      BY <1>11 DEF AttachDone, JoinQueued, Joins
    <3> QED
      BY <1>3, <3>1
  <2>4. q \in Waited => InUse(q)'
    <3> SUFFICES ASSUME NEW g \in Fibers, Waits(g), q = QueueOf(g)
                 PROVE  InUse(q)'
      BY DEF Waited
    <3>1. CASE g \in taken
      <4>1. q \in QueuesOf(f) /\ q \in Queues
        BY <1>1, <2>1, <3>1, WaiterCalls DEF WaitersOf
      <4>2. refs[q].count > 0
        BY <1>1, <4>1, CountedReferences
      <4> QED
        BY <2>2, <4>1, <4>2 DEF InUse
    <3>2. CASE g \notin taken
      <4>1. Waits(g)'
        BY <2>1, <3>2
      <4>2. ASSUME NEW t \in Fibers, NEW fn \in Fns, NEW type \in CallTypes,
                   NEW closed \in Fibers \union {None}
            PROVE  ~JoinQueued(f, t, fn, type, closed)
        BY <1>11 DEF AttachDone, JoinQueued, Joins
      <4>3. SameCall(g)
        BY <4>1, <4>2, WaitersStay
      <4> QED
        BY <4>1, <4>3 DEF InUse, Waited, SameCall
    <3> QED
      BY <3>1, <3>2
  <2> QED
    BY <1>1, <2>1, <2>2, <2>3, <2>4 DEF InUse
<1>12. CASE CleanupDone(f)
  <2>1. /\ waiting' = waiting /\ joins' = joins
        /\ queues' = Deref(QueuesOf(f), queues, refs', waiting)
        /\ \A x \in Queues \ QueuesOf(f) : refs'[x] = refs[x]
        /\ \A x \in Queues : x \in QueuesOf(f) => refs[x].count > 0
        /\ \A x \in Queues : refs'[x].count \in Nat
    BY <1>12 DEF CleanupDone, QueueRefs
  <2>2. q \in queues' <=> /\ q \in queues
                          /\ ~(q \in QueuesOf(f) /\ refs'[q].count = 0
                               /\ \A g \in Fibers : Contains(waiting, g) => QueueOf(g) # q)
    BY <1>1, <2>1, DerefIs
  <2>3. q \in Waited <=> ~\A g \in Fibers : Contains(waiting, g) => QueueOf(g) # q
    BY DEF Waited, Waits
  <2>4. q \in Waited' <=> q \in Waited
    BY <1>4, <2>1
  <2>5. q \in Queues => (refs'[q].count > 0 <=> refs'[q].count # 0)
    BY <2>1
  <2>6. q \in Queues /\ q \in QueuesOf(f) => InUse(q)
    BY <2>1 DEF InUse
  <2>7. q \in Waited => q \in Queues
    BY <1>1 DEF InUse
  <2> QED
    BY <1>1, <2>1, <2>2, <2>3, <2>4, <2>5, <2>6, <2>7 DEF InUse
<1>13. (JoinFailedDone(f) \/ CancelDone(f) \/ \E s \in Fibers : LeaveDone(f, s))
            => waiting' = waiting /\ queues' = queues /\ refs' = refs
  BY DEF JoinFailedDone, CancelDone, LeaveDone
<1> QED
  BY <1>5, <1>6, <1>7, <1>8, <1>9, <1>10, <1>11, <1>12, <1>13, StepEffects DEF BusyStep

\* The books are kept.
LEMMA BooksKept ==
    ASSUME IFCInv, program' = program, NEW f \in Fibers, FiberStep(f)
    PROVE  Books'
<1>1. TypeOK' /\ Standing' /\ Joined' /\ Counted' /\ OwnOrServerSide'
  BY TypesKept, StandingKept, JoinedKept, CountedKept, OwnOrServerSideKept
<1>2. \A q \in Queues : Refers(refs[q], q)'
  BY RefersKept
<1>3. Distinct(waiting)'
  BY DistinctKept DEF Distinct
<1>4. Allocated'
  BY <1>1, <1>3, CountsKept, QueuesKept DEF Allocated
<1> QED
  BY <1>1, <1>2, <1>4 DEF Books

\* A join stays what it is until it is popped.
LEMMA EntryStays ==
    ASSUME IFCInv, NEW f \in Fibers, FiberStep(f),
           NEW h \in Fibers, NEW k \in DOMAIN joins[h], k \in DOMAIN joins'[h]
    PROVE  /\ joins'[h][k].type = joins[h][k].type
           /\ joins[h][k].live_join_race => joins'[h][k].live_join_race
<1>1. TypeOK /\ k \in 1..Depth(h) /\ joins[h][k] \in Clients /\ Depth(h) \in Nat
  BY JoinsTyped DEF IFCInv, Books
<1>2. CASE joins'[h][k] = joins[h][k]
  BY <1>2
<1>3. ASSUME NEW s, joins'[h][k] = [joins[h][k] EXCEPT !.server = s]
      PROVE  /\ joins'[h][k].type = joins[h][k].type
             /\ joins[h][k].live_join_race => joins'[h][k].live_join_race
  BY <1>1, <1>3 DEF Clients
<1>4. CASE joins'[h][k] = [joins[h][k] EXCEPT !.live_join_race = TRUE]
  BY <1>1, <1>4 DEF Clients
<1>5. QuietStep(f) => joins' = joins
  BY QuietStays
<1>6. ASSUME NEW t, NEW fn, NEW type, NEW s, NEW to, Joins(f, t, fn, type, s, to)
      PROVE  joins'[h][k] = joins[h][k]
  BY <1>1, <1>6 DEF Joins
<1>7. Popped(f) => joins'[h][k] = joins[h][k]
  BY <1>1 DEF Popped
<1>8. ASSUME NEW taken \in SUBSET Fibers, NEW listening \in BOOLEAN, AttachDone(f, taken, listening)
      PROVE  joins'[h][k] = joins[h][k] \/ joins'[h][k] = [joins[h][k] EXCEPT !.server = f]
  BY <1>1, <1>8 DEF AttachDone
<1>9. CancelDone(f) => \/ joins'[h][k] = joins[h][k]
                       \/ joins'[h][k] = [joins[h][k] EXCEPT !.live_join_race = TRUE]
  BY <1>1 DEF CancelDone
<1> QED
  BY <1>2, <1>3, <1>4, <1>5, <1>6, <1>7, <1>8, <1>9, StepEffects
     DEF BusyStep, JoinAttached, JoinQueued, StepOutDone, JoinFailedDone, LeaveDone, AcceptDone,
         CleanupDone

\* So does the join of a client that a server counted before and after a step.
LEMMA ClientsStay ==
    ASSUME IFCInv, Books', NEW f \in Fibers, FiberStep(f), NEW s \in Fibers,
           NEW c \in server'[s].running, c \in server[s].running
    PROVE  /\ c[1] \in Fibers /\ c[2] \in DOMAIN joins[c[1]]
           /\ joins'[c[1]][c[2]].type = joins[c[1]][c[2]].type
           /\ joins[c[1]][c[2]].live_join_race => joins'[c[1]][c[2]].live_join_race
<1>1. server[s] \in Servers /\ Counted /\ Counted'
  BY DEF IFCInv, Books, TypeOK
<1>2. PICK h \in Fibers, k \in 1..MaxDepth : c = <<h, k>>
  BY <1>1 DEF Servers
<1>3. k \in DOMAIN joins[h] /\ k \in DOMAIN joins'[h]
  BY <1>1, <1>2 DEF Counted
<1>4. c[1] = h /\ c[2] = k
  BY <1>2
<1> QED
  BY <1>3, <1>4, EntryStays

\* A locked client is alone with its server.
LEMMA AloneKept ==
    ASSUME IFCInv, Books', NEW f \in Fibers, FiberStep(f)
    PROVE  Alone'
<1> SUFFICES ASSUME NEW s \in Fibers, NEW c \in server'[s].running, NEW d \in server'[s].running,
                    joins'[c[1]][c[2]].type = "lock"
             PROVE  c = d
  BY DEF Alone
<1>1. /\ TypeOK /\ Books /\ ServingOf(s) /\ server \in [Fibers -> Servers]
      /\ \A a, b \in server[s].running : joins[a[1]][a[2]].type = "lock" => a = b
  BY DEF IFCInv, Books, TypeOK, Serving, Alone
<1>2. CASE server'[s].running \subseteq server[s].running
  BY <1>1, <1>2, ClientsStay
<1>3. QuietStep(f) => server' = server
  BY QuietStays
<1>4. ASSUME NEW t \in Fibers, NEW fn \in Fns, NEW type \in CallTypes, NEW x \in Fibers,
             JoinAttached(f, t, fn, type, x)
      PROVE  c = d
  <2> DEFINE new == <<f, Depth(f) + 1>>
  <2>1. CASE x # s
    <3>1. server'[s] = server[s]
      BY <1>4, <2>1 DEF JoinAttached
    <3> QED
      BY <1>2, <3>1
  <2>2. CASE x = s
    <3>1. /\ server'[s].running = server[s].running \union {new} /\ s \in Listening
          /\ type = "lock" => ~server[s].read_locked
          /\ joins'[f][Depth(f) + 1] = NewClient(t, fn, type, s)
      BY <1>4, <2>2 DEF JoinAttached, Joins
    <3>2. joins'[new[1]][new[2]].type = type
      BY <3>1 DEF NewClient
    <3>3. CASE type = "lock"
      <4>1. server[s].running = {}
        BY <1>1, <3>1, <3>3 DEF ServingOf, Listening
      <4> QED
        BY <3>1, <4>1
    <3>4. CASE type = "shared"
      <4>1. \A a \in server[s].running : joins[a[1]][a[2]].type = "shared"
        BY <1>1, <3>1 DEF ServingOf, Listening
      <4>2. c # new => joins'[c[1]][c[2]].type = "shared"
        BY <3>1, <4>1, ClientsStay
      <4> QED
        BY <3>2, <3>4, <4>2
    <3> QED
      BY <3>3, <3>4 DEF CallTypes
  <2> QED
    BY <2>1, <2>2
<1>5. ASSUME NEW taken \in SUBSET Fibers, NEW listening \in BOOLEAN, AttachDone(f, taken, listening)
      PROVE  c = d
  <2>1. CASE f # s
    <3>1. server'[s] = server[s]
      BY <1>5, <2>1 DEF AttachDone
    <3> QED
      BY <1>2, <3>1
  <2>2. CASE f = s
    <3>1. server[s].running = {}
      BY <1>1, <1>5, <2>2 DEF ServingOf, Idle, AttachDone
    <3>2. server'[s].running = {<<g, Depth(g)>> : g \in taken}
      BY <1>5, <2>2, <3>1 DEF AttachDone
    <3>3. PICK g \in taken : c = <<g, Depth(g)>>
      BY <3>2
    <3>4. PICK h \in taken : d = <<h, Depth(h)>>
      BY <3>2
    <3>5. Waits(g) /\ g \in Fibers
      BY <1>5, <3>3 DEF AttachDone, WaitersOf
    <3>6. joins[g] # <<>>
      BY <1>1, <3>5, WaiterCalls
    <3>7. Depth(g) \in DOMAIN joins[g] /\ Depth(g) \in 1..Depth(g)
      BY <1>1, <3>5, <3>6, JoinsTyped
    <3>8. Depth(g) \in DOMAIN joins'[g]
      BY <1>5, <3>5, <3>7 DEF AttachDone
    <3>9. joins'[g][Depth(g)].type = Client(g).type
      BY <3>5, <3>7, <3>8, EntryStays DEF Client
    <3>10. Client(g).type = "lock"
      BY <3>3, <3>9
    <3>11. g = h
      BY <1>5, <3>3, <3>4, <3>10 DEF AttachDone
    <3> QED
      BY <3>3, <3>4, <3>11
  <2> QED
    BY <2>1, <2>2
<1>6. ASSUME NEW t \in Fibers, NEW fn \in Fns, NEW type \in CallTypes,
             NEW closed \in Fibers \union {None}, JoinQueued(f, t, fn, type, closed)
      PROVE  server'[s].running \subseteq server[s].running
  BY <1>6 DEF JoinQueued
<1>7. ASSUME NEW x \in Fibers, LeaveDone(f, x)
      PROVE  server'[s].running \subseteq server[s].running
  BY <1>7 DEF LeaveDone
<1>8. ASSUME NEW fns \in SUBSET Fns, NEW id \in Fibers, AcceptDone(f, fns, id)
      PROVE  server'[s].running \subseteq server[s].running
  BY <1>8 DEF AcceptDone
<1>9. CASE CancelDone(f)
  <2>1. server'[s].running \subseteq server[s].running
    BY <1>9 DEF CancelDone
  <2> QED
    BY <1>2, <2>1
<1>10. CASE CleanupDone(f)
  <2>1. server'[s].running \subseteq server[s].running
    BY <1>1, <1>10 DEF CleanupDone, NoServer
  <2> QED
    BY <1>2, <2>1
<1>11. (StepOutDone(f) \/ JoinFailedDone(f)) => server' = server
  BY DEF StepOutDone, JoinFailedDone
<1> QED
  BY <1>2, <1>3, <1>4, <1>5, <1>6, <1>7, <1>8, <1>9, <1>10, <1>11, StepEffects DEF BusyStep

\* What others may do to a server: interrupt it.
Disturbed(c, d) == d \in {c, Cancel(c), WakeJoinRace(c)}

\* A quiet step of f changes no other control block but of those that wait.
LEMMA QuietOthers ==
    ASSUME IFCInv, NEW f \in Fibers, QuietStep(f), NEW g \in Fibers \ {f}, ~Waits(g)
    PROVE  ctrl'[g] = ctrl[g]
<1>1. ctrl \in [Fibers -> Ctrl]
  BY DEF IFCInv, Books, TypeOK
<1>2. CASE Teardown(f)
  BY <1>1, <1>2 DEF Teardown, Waits
<1> QED
  BY <1>1, <1>2
     DEF QuietStep, JoinMissing, Defer, JoinWoken, StepIn, ThrowMissing, Enter, AcceptWoken,
         CancelWoken, Restore, Throw, SetUnintr, CancelFiber, Unindex

\* Who is not in accept serves nobody.
LEMMA ServingElsewhere ==
    ASSUME Books', NEW s \in Fibers, at'[s] \notin AcceptPoints
    PROVE  ServingOf(s)'
<1>1. server'[s] = NoServer
  BY DEF Books, Standing, StandingOf
<1>2. ~server'[s].listening
  BY <1>1 DEF NoServer
<1> QED
  BY <1>2 DEF ServingOf, AcceptPoints

\* A server that is interrupted, and no more, serves on.
LEMMA ServingStays ==
    ASSUME IFCInv, Books', NEW f \in Fibers, FiberStep(f), NEW s \in Fibers,
           at'[s] = at[s], server'[s] = server[s], Disturbed(ctrl[s], ctrl'[s])
    PROVE  ServingOf(s)'
<1>1. ServingOf(s) /\ AsleepOf(s) /\ ctrl[s] \in Ctrl
  BY DEF IFCInv, Books, TypeOK, Serving, Standing, StandingOf
<1>2. \A c \in server[s].running :
        /\ joins'[c[1]][c[2]].type = joins[c[1]][c[2]].type
        /\ joins[c[1]][c[2]].live_join_race => joins'[c[1]][c[2]].live_join_race
  BY ClientsStay
<1>3. /\ ctrl'[s].done = ctrl[s].done
      /\ ctrl'[s].deferred => ctrl[s].deferred
      /\ Interrupted(ctrl[s]) => Interrupted(ctrl'[s])
      /\ ctrl[s].deferred /\ ~ctrl'[s].deferred => Interrupted(ctrl'[s])
  <2>1. CASE ctrl'[s] = ctrl[s]
    BY <2>1
  <2>2. CASE ctrl'[s] = Cancel(ctrl[s])
    BY <1>1, <2>2 DEF Cancel, Ctrl, Interrupted
  <2>3. CASE ctrl'[s] = WakeJoinRace(ctrl[s])
    BY <1>1, <2>3 DEF WakeJoinRace, Ctrl, Interrupted
  <2> QED
    BY <2>1, <2>2, <2>3 DEF Disturbed
<1>4. Idle(s)' <=> Idle(s)
  BY DEF Idle
<1>5. server'[s].listening => /\ at'[s] \in {"accept_defer", "accept_woken", "cancel"}
                              /\ server'[s].read_locked <=> server'[s].running # {}
                              /\ \A c \in server'[s].running : joins'[c[1]][c[2]].type = "shared"
  BY <1>1, <1>2 DEF ServingOf
<1>6. at'[s] \in {"cancel_defer", "cancel_woken"} =>
            /\ ~server'[s].listening
            /\ \A c \in server'[s].running : joins'[c[1]][c[2]].live_join_race
  BY <1>1, <1>2 DEF ServingOf
<1> QED
  BY <1>1, <1>3, <1>4, <1>5, <1>6 DEF ServingOf

\* The quiet steps: a server goes to sleep only if somebody will wake it, and gets on
\* to restore a cancellation it took over.
LEMMA QuietServing ==
    ASSUME IFCInv, Books', NEW f \in Fibers, FiberStep(f), QuietStep(f), NEW s \in Fibers
    PROVE  ServingOf(s)' /\ RestoringOf(s)'
<1>1. /\ UNCHANGED <<joins, server, waiting, queues, refs>> /\ ServingOf(s) /\ AsleepOf(s)
      /\ ctrl[s] \in Ctrl /\ ctrl \in [Fibers -> Ctrl] /\ at \in [Fibers -> Points]
      /\ RestoringOf(s) /\ QuietMove(f) /\ server[s] \in Servers /\ ctrl'[s] \in Ctrl
  BY QuietStays, QuietMoves
     DEF IFCInv, Books, TypeOK, Serving, Standing, StandingOf, Restoring, QuietMove
<1>2. CASE at'[s] \notin AcceptPoints
  BY <1>2, ServingElsewhere DEF RestoringOf, AcceptPoints
<1>3. ASSUME at'[s] = at[s], Disturbed(ctrl[s], ctrl'[s])
      PROVE  ServingOf(s)' /\ RestoringOf(s)'
  <2>1. ctrl[s].canceled => ctrl'[s].canceled
    BY <1>1, <1>3 DEF Disturbed, Cancel, WakeJoinRace, Ctrl
  <2> QED
    BY <1>1, <1>3, <2>1, ServingStays DEF RestoringOf
<1>4. CASE s # f /\ at'[s] \in AcceptPoints
  <2>1. at'[s] = at[s]
    BY <1>1, <1>4 DEF QuietMove
  <2>2. ~Waits(s)
    BY <1>4, <2>1 DEF IFCInv, Books, Joined, JoinedOf, JoinWaits, AcceptPoints
  <2> QED
    BY <1>3, <1>4, <2>1, <2>2, QuietOthers DEF Disturbed
<1>5. CASE s = f /\ at'[f] \in AcceptPoints
  <2>1. CASE CancelFiber(f)
    BY <1>1, <1>3, <1>5, <2>1 DEF CancelFiber, Disturbed
  <2>2. CASE Defer(f)
    <3>1. ctrl'[f] = [ctrl[f] EXCEPT !.deferred = ~Bounces(ctrl[f])] /\ ~ctrl[f].deferred
      BY <1>1, <2>2 DEF Defer, Goto
    <3>2. /\ ctrl'[f].deferred = ~Bounces(ctrl[f])
          /\ Interrupted(ctrl'[f]) = Interrupted(ctrl[f])
          /\ ctrl'[f].done = ctrl[f].done
      BY <1>1, <1>5, <3>1 DEF Ctrl, Interrupted
    <3>3. \/ at[f] = "accept_defer" /\ at'[f] = "accept_woken"
          \/ at[f] = "cancel_defer" /\ at'[f] = "cancel_woken"
      BY <1>1, <1>5, <2>2 DEF Defer, Goto, AcceptPoints
    <3> QED
      BY <1>1, <1>5, <3>2, <3>3 DEF ServingOf, Idle, Bounces, RestoringOf
  <2>3. CASE AcceptWoken(f)
    <3>1. /\ at[f] = "accept_woken" /\ ~ctrl[f].deferred /\ ctrl' = ctrl
          /\ \/ at'[f] = "cancel"
             \/ ~Interrupted(ctrl[f]) /\ at'[f] \in {"accept", "cleanup"}
      BY <1>1, <2>3 DEF AcceptWoken, Goto
    <3> QED
      BY <1>1, <1>5, <3>1 DEF ServingOf, Idle, RestoringOf
  <2>4. CASE CancelWoken(f)
    <3>1. at[f] = "cancel_woken" /\ at'[f] = "cancel"
      BY <1>1, <2>4 DEF CancelWoken, Goto
    <3> QED
      BY <1>1, <1>5, <3>1 DEF ServingOf, Idle, RestoringOf
  <2>5. CASE Restore(f)
    <3>1. at[f] = "restore" /\ at'[f] = "cleanup"
      BY <1>1, <2>5 DEF Restore, Goto
    <3>2. ctrl'[f].canceled = (ctrl[f].canceled \/ server[f].pending_canceled)
      BY <1>1, <1>5, <2>5 DEF Restore, Ctrl
    <3>3. ServingOf(f)'
      BY <1>1, <1>5, <3>1 DEF ServingOf, Idle
    <3> QED
      BY <1>1, <1>5, <3>1, <3>2, <3>3 DEF RestoringOf
  <2> QED
    BY <1>1, <1>5, <2>1, <2>2, <2>3, <2>4, <2>5
       DEF QuietStep, JoinMissing, JoinWoken, StepIn, ThrowMissing, Enter, Throw, SetUnintr, Unindex,
           Teardown, Goto, AcceptPoints
<1> QED
  BY <1>2, <1>4, <1>5

\* The cancellation that is pending in the server struct is restored before the end.
LEMMA RestoringKept ==
    ASSUME IFCInv, Books', NEW f \in Fibers, FiberStep(f)
    PROVE  Restoring'
<1> SUFFICES ASSUME NEW s \in Fibers
             PROVE  RestoringOf(s)'
  BY DEF Restoring
<1>1. /\ RestoringOf(s) /\ ctrl[s] \in Ctrl /\ ctrl \in [Fibers -> Ctrl] /\ at \in [Fibers -> Points]
      /\ server \in [Fibers -> Servers]
  BY DEF IFCInv, Books, TypeOK, Restoring
<1>2. CASE at'[s] \notin AcceptPoints
  BY <1>2 DEF RestoringOf, AcceptPoints
<1>3. ASSUME at'[s] = at[s], server'[s].pending_canceled = server[s].pending_canceled,
             Prodded(ctrl[s], ctrl'[s])
      PROVE  RestoringOf(s)'
  <2>1. ctrl[s].canceled => ctrl'[s].canceled
    BY <1>1, <1>3 DEF Prodded, Cancel, WakeDone, WakeJoinRace, Ctrl
  <2> QED
    BY <1>1, <1>3, <2>1 DEF RestoringOf
<1>4. CASE QuietStep(f)
  BY <1>4, QuietServing
<1>5. ASSUME NEW t \in Fibers, NEW fn \in Fns, NEW type \in CallTypes, NEW x \in Fibers,
             JoinAttached(f, t, fn, type, x)
      PROVE  RestoringOf(s)'
  <2>1. s # f => at'[s] = at[s] /\ ctrl'[s] = ctrl[s]
    BY <1>1, <1>5 DEF JoinAttached, Joins
  <2>2. server'[s].pending_canceled = server[s].pending_canceled
    BY <1>5 DEF JoinAttached, SameOffer
  <2>3. s = f => at'[s] \notin AcceptPoints
    BY <1>1, <1>5 DEF JoinAttached, Joins, AcceptPoints
  <2> QED
    BY <1>2, <1>3, <2>1, <2>2, <2>3 DEF Prodded
<1>6. ASSUME NEW t \in Fibers, NEW fn \in Fns, NEW type \in CallTypes,
             NEW closed \in Fibers \union {None}, JoinQueued(f, t, fn, type, closed)
      PROVE  RestoringOf(s)'
  <2>1. s # f => at'[s] = at[s] /\ ctrl'[s] = ctrl[s]
    BY <1>1, <1>6 DEF JoinQueued, Joins
  <2>2. server'[s].pending_canceled = server[s].pending_canceled
    BY <1>6 DEF JoinQueued, SameOffer
  <2>3. s = f => at'[s] \notin AcceptPoints
    BY <1>1, <1>6 DEF JoinQueued, Joins, AcceptPoints
  <2> QED
    BY <1>2, <1>3, <2>1, <2>2, <2>3 DEF Prodded
<1>7. CASE StepOutDone(f)
  BY <1>1, <1>2, <1>3, <1>7 DEF StepOutDone, AcceptPoints, Prodded
<1>8. CASE JoinFailedDone(f)
  BY <1>1, <1>2, <1>3, <1>8 DEF JoinFailedDone, Goto, AcceptPoints, Prodded
<1>9. ASSUME NEW x \in Fibers, LeaveDone(f, x)
      PROVE  RestoringOf(s)'
  <2>1. s # f => Prodded(ctrl[s], ctrl'[s])
    BY <1>9 DEF LeaveDone, Prodded
  <2>2. at' = at /\ (s = f => at'[s] \notin AcceptPoints)
    BY <1>9 DEF LeaveDone, AcceptPoints
  <2>3. server'[s].pending_canceled = server[s].pending_canceled
    BY <1>9 DEF LeaveDone, SameOffer
  <2> QED
    BY <1>2, <1>3, <2>1, <2>2, <2>3
<1>10. ASSUME NEW fns \in SUBSET Fns, NEW id \in Fibers, AcceptDone(f, fns, id)
       PROVE  RestoringOf(s)'
  <2>1. CASE s = f
    BY <1>1, <1>10, <2>1 DEF AcceptDone, RestoringOf
  <2>2. CASE s # f
    BY <1>1, <1>3, <1>10, <2>2 DEF AcceptDone, Prodded
  <2> QED
    BY <2>1, <2>2
<1>11. ASSUME NEW taken \in SUBSET Fibers, NEW listening \in BOOLEAN, AttachDone(f, taken, listening)
       PROVE  RestoringOf(s)'
  <2>1. CASE s = f
    BY <1>1, <1>11, <2>1 DEF AttachDone, RestoringOf, SameOffer
  <2>2. CASE s # f
    BY <1>1, <1>3, <1>11, <2>2 DEF AttachDone, Prodded
  <2> QED
    BY <2>1, <2>2
<1>12. CASE CancelDone(f)
  <2>1. CASE s = f
    BY <1>1, <1>12, <2>1 DEF CancelDone, RestoringOf
  <2>2. CASE s # f
    BY <1>1, <1>3, <1>12, <2>2 DEF CancelDone, Prodded
  <2> QED
    BY <2>1, <2>2
<1>13. CASE CleanupDone(f)
  BY <1>1, <1>2, <1>3, <1>13 DEF CleanupDone, AcceptPoints, Prodded
<1> QED
  BY <1>4, <1>5, <1>6, <1>7, <1>8, <1>9, <1>10, <1>11, <1>12, <1>13, StepEffects DEF BusyStep

\* A client leaves: the last one ends the sharing and wakes the server.
LEMMA ServingLeft ==
    ASSUME IFCInv, Books', NEW f \in Fibers, FiberStep(f), NEW s \in Fibers, LeaveDone(f, s)
    PROVE  ServingOf(s)'
<1>1. /\ ServingOf(s) /\ AsleepOf(s) /\ ctrl[s] \in Ctrl
  BY DEF IFCInv, Books, TypeOK, Serving, Standing, StandingOf
<1>2. /\ at'[s] = at[s] /\ server'[s].running \subseteq server[s].running
      /\ server[s].running # {}
      /\ server'[s].listening = (server[s].listening /\ server'[s].running # {})
      /\ server'[s].read_locked = server[s].read_locked
      /\ ctrl'[s] = IF server'[s].running = {} THEN WakeDone(ctrl[s]) ELSE ctrl[s]
  BY DEF LeaveDone
<1>3. \A c \in server'[s].running :
        /\ joins'[c[1]][c[2]].type = joins[c[1]][c[2]].type
        /\ joins[c[1]][c[2]].live_join_race => joins'[c[1]][c[2]].live_join_race
  BY <1>2, ClientsStay
<1>4. server'[s].listening => /\ at'[s] \in {"accept_defer", "accept_woken", "cancel"}
                              /\ server'[s].read_locked <=> server'[s].running # {}
                              /\ \A c \in server'[s].running : joins'[c[1]][c[2]].type = "shared"
  BY <1>1, <1>2, <1>3 DEF ServingOf
<1>5. at'[s] \in {"cancel_defer", "cancel_woken"} =>
            /\ ~server'[s].listening
            /\ \A c \in server'[s].running : joins'[c[1]][c[2]].live_join_race
  BY <1>1, <1>2, <1>3 DEF ServingOf
<1>6. ~Idle(s) /\ (Idle(s)' <=> server'[s].running = {})
  BY <1>2 DEF Idle
<1>7. CASE server'[s].running = {}
  <2>1. /\ ctrl[s].deferred => ~ctrl'[s].deferred /\ ctrl'[s].done = ctrl[s].done
        /\ ~ctrl[s].deferred => ~ctrl'[s].deferred /\ ctrl'[s].done
    BY <1>1, <1>2, <1>7 DEF WakeDone, Ctrl
  <2>2. at[s] \in {"accept_defer", "cancel_defer"} => ~ctrl[s].deferred
    BY <1>1 DEF AsleepOf
  <2> QED
    BY <1>1, <1>2, <1>4, <1>5, <1>6, <1>7, <2>1, <2>2 DEF ServingOf
<1>8. CASE server'[s].running # {}
  BY <1>1, <1>2, <1>4, <1>5, <1>6, <1>8 DEF ServingOf
<1> QED
  BY <1>7, <1>8

\* A client attaches to a server that listens.
LEMMA ServingJoined ==
    ASSUME IFCInv, Books', NEW f \in Fibers, FiberStep(f),
           NEW t \in Fibers, NEW fn \in Fns, NEW type \in CallTypes, NEW s \in Fibers,
           JoinAttached(f, t, fn, type, s)
    PROVE  ServingOf(s)'
<1> DEFINE new == <<f, Depth(f) + 1>>
<1>1. /\ ServingOf(s) /\ AsleepOf(s) /\ ctrl[s] \in Ctrl /\ s \in Listening /\ at \in [Fibers -> Points]
  BY DEF IFCInv, Books, TypeOK, Serving, Standing, StandingOf, JoinAttached
<1>2. /\ server[s].listening /\ at[s] \in {"accept_defer", "accept_woken", "cancel"}
      /\ server[s].read_locked <=> server[s].running # {}
      /\ \A c \in server[s].running : joins[c[1]][c[2]].type = "shared"
  BY <1>1 DEF ServingOf, Listening
<1>3. /\ at[f] = "user" /\ at' = [at EXCEPT ![f] = "joined"] /\ ctrl' = ctrl
      /\ joins'[f][Depth(f) + 1] = NewClient(t, fn, type, s)
      /\ server'[s].running = server[s].running \union {new}
      /\ server'[s].read_locked = (server[s].read_locked \/ type = "shared")
      /\ server'[s].listening = (type = "shared")
  BY DEF JoinAttached, Joins
<1>4. s # f /\ at'[s] = at[s]
  BY <1>1, <1>2, <1>3
<1>5. joins'[new[1]][new[2]].type = type
  BY <1>3 DEF NewClient
<1>6. type = "shared" => \A c \in server'[s].running : joins'[c[1]][c[2]].type = "shared"
  <2> SUFFICES ASSUME type = "shared", NEW c \in server'[s].running
               PROVE  joins'[c[1]][c[2]].type = "shared"
    OBVIOUS
  <2>1. CASE c = new
    BY <1>5, <2>1
  <2>2. CASE c # new
    <3>1. c \in server[s].running
      BY <1>3, <2>2
    <3> QED
      BY <1>2, <3>1, ClientsStay
  <2> QED
    BY <2>1, <2>2
<1>7. ~Idle(s) /\ ~Idle(s)'
  BY <1>2, <1>3 DEF Idle
<1>8. server'[s].listening => server'[s].read_locked /\ server'[s].running # {}
  BY <1>3
<1> QED
  BY <1>1, <1>2, <1>3, <1>4, <1>6, <1>7, <1>8 DEF ServingOf

\* What a server knows of its clients is true at each place of its code.
LEMMA ServingKept ==
    ASSUME IFCInv, Books', NEW f \in Fibers, FiberStep(f)
    PROVE  Serving'
<1> SUFFICES ASSUME NEW s \in Fibers
             PROVE  ServingOf(s)'
  BY DEF Serving
<1>1. /\ Books /\ ServingOf(s) /\ AsleepOf(s) /\ ctrl[s] \in Ctrl /\ ctrl \in [Fibers -> Ctrl]
      /\ at \in [Fibers -> Points] /\ server \in [Fibers -> Servers]
  BY DEF IFCInv, Books, TypeOK, Serving, Standing, StandingOf
<1>2. ASSUME at'[s] \notin AcceptPoints \/ (at'[s] = at[s] /\ server'[s] = server[s] /\ ctrl'[s] = ctrl[s])
      PROVE  ServingOf(s)'
  BY <1>2, ServingElsewhere, ServingStays DEF Disturbed
<1>3. CASE QuietStep(f)
  BY <1>3, QuietServing
<1>4. ASSUME NEW t \in Fibers, NEW fn \in Fns, NEW type \in CallTypes, NEW x \in Fibers,
             JoinAttached(f, t, fn, type, x)
      PROVE  ServingOf(s)'
  <2>1. CASE s = x
    BY <1>4, <2>1, ServingJoined
  <2>2. CASE s # x
    <3>1. server'[s] = server[s] /\ ctrl'[s] = ctrl[s]
      BY <1>4, <2>2 DEF JoinAttached
    <3>2. at'[s] \notin AcceptPoints \/ at'[s] = at[s]
      BY <1>1, <1>4 DEF JoinAttached, Joins, AcceptPoints
    <3> QED
      BY <1>2, <3>1, <3>2
  <2> QED
    BY <2>1, <2>2
<1>5. ASSUME NEW t \in Fibers, NEW fn \in Fns, NEW type \in CallTypes,
             NEW closed \in Fibers \union {None}, JoinQueued(f, t, fn, type, closed)
      PROVE  ServingOf(s)'
  <2>1. CASE s = f
    <3>1. at'[s] = "join_defer"
      BY <1>1, <1>5, <2>1 DEF JoinQueued, Joins
    <3> QED
      BY <1>2, <3>1 DEF AcceptPoints
  <2>2. CASE s # f /\ s # closed
    <3>1. server'[s] = server[s] /\ ctrl'[s] = ctrl[s] /\ at'[s] = at[s]
      BY <1>1, <1>5, <2>2 DEF JoinQueued, Joins
    <3> QED
      BY <1>2, <3>1
  <2>3. CASE s # f /\ s = closed
    <3>1. /\ ctrl'[s] = ctrl[s] /\ at'[s] = at[s] /\ server[s].listening /\ server[s].read_locked
          /\ ~server'[s].listening /\ server'[s].running = server[s].running
      BY <1>1, <1>5, <2>3, IFCAssumption DEF JoinQueued, Joins, Listening
    <3>2. server[s].running # {} /\ at[s] \in {"accept_defer", "accept_woken", "cancel"}
      BY <1>1, <3>1 DEF ServingOf
    <3>3. ~Idle(s) /\ ~Idle(s)'
      BY <3>1, <3>2 DEF Idle
    <3> QED
      BY <1>1, <3>1, <3>2, <3>3 DEF ServingOf
  <2> QED
    BY <2>1, <2>2, <2>3
<1>6. CASE StepOutDone(f)
  BY <1>1, <1>2, <1>6 DEF StepOutDone, AcceptPoints
<1>7. CASE JoinFailedDone(f)
  BY <1>1, <1>2, <1>7 DEF JoinFailedDone, Goto, AcceptPoints
<1>8. ASSUME NEW x \in Fibers, LeaveDone(f, x)
      PROVE  ServingOf(s)'
  <2>1. CASE s = x
    BY <1>8, <2>1, ServingLeft
  <2>2. CASE s = f
    <3>1. at'[s] = "user"
      BY <1>8, <2>2 DEF LeaveDone
    <3> QED
      BY <1>2, <3>1 DEF AcceptPoints
  <2>3. CASE s # x /\ s # f
    <3>1. server'[s] = server[s] /\ ctrl'[s] = ctrl[s] /\ at'[s] = at[s]
      BY <1>8, <2>3 DEF LeaveDone
    <3> QED
      BY <1>2, <3>1
  <2> QED
    BY <2>1, <2>2, <2>3
<1>9. ASSUME NEW fns \in SUBSET Fns, NEW id \in Fibers, AcceptDone(f, fns, id)
      PROVE  ServingOf(s)'
  <2>1. CASE s = f
    <3>1. at'[s] = "accept" /\ server'[s].running = {} /\ ~server'[s].listening
      BY <1>1, <1>9, <2>1 DEF AcceptDone
    <3> QED
      BY <3>1 DEF ServingOf, Idle
  <2>2. CASE s # f
    BY <1>1, <1>2, <1>9, <2>2 DEF AcceptDone
  <2> QED
    BY <2>1, <2>2
<1>10. ASSUME NEW taken \in SUBSET Fibers, NEW listening \in BOOLEAN, AttachDone(f, taken, listening)
       PROVE  ServingOf(s)'
  <2>1. CASE s = f
    <3>1. /\ at'[s] = "accept_defer" /\ ~ctrl'[s].done
          /\ server'[s].listening = listening
          /\ server'[s].running = server[s].running \union {<<g, Depth(g)>> : g \in taken}
          /\ listening => server'[s].read_locked = (taken # {})
          /\ ~listening => taken # {}
      BY <1>1, <1>10, <2>1 DEF AttachDone, Ctrl
    <3>2. server[s].running = {}
      BY <1>1, <1>10, <2>1 DEF AttachDone, ServingOf, Idle
    <3>3. server'[s].running = {<<g, Depth(g)>> : g \in taken}
      BY <3>1, <3>2
    <3>4. listening => \A c \in server'[s].running : joins'[c[1]][c[2]].type = "shared"
      <4> SUFFICES ASSUME listening, NEW g \in taken
                   PROVE  joins'[g][Depth(g)].type = "shared"
        BY <3>3
      <4>1. Waits(g) /\ g \in Fibers /\ Client(g).type = "shared"
        BY <1>10 DEF AttachDone, WaitersOf
      <4>2. Depth(g) \in DOMAIN joins[g] /\ Depth(g) \in 1..Depth(g)
        BY <1>1, <4>1, WaiterCalls, JoinsTyped DEF Books
      <4>3. Depth(g) \in DOMAIN joins'[g]
        BY <1>10, <4>1, <4>2 DEF AttachDone
      <4> QED
        BY <4>1, <4>2, <4>3, EntryStays DEF Client
    <3>5. ~Idle(s)'
      BY <3>1, <3>3 DEF Idle
    <3>6. listening => (server'[s].read_locked <=> server'[s].running # {})
      BY <3>1, <3>3
    <3> QED
      BY <3>1, <3>4, <3>5, <3>6 DEF ServingOf
  <2>2. CASE s # f
    <3>1. s \in taken => at[s] \in JoinWaits
      BY <1>1, <1>10, WaiterCalls DEF AttachDone, WaitersOf
    <3>2. /\ at'[s] = at[s] /\ server'[s] = server[s]
          /\ s \notin taken => ctrl'[s] = ctrl[s]
      BY <1>1, <1>10, <2>2 DEF AttachDone
    <3> QED
      BY <1>2, <3>1, <3>2 DEF JoinWaits, AcceptPoints
  <2> QED
    BY <2>1, <2>2
<1>11. CASE CancelDone(f)
  <2>1. CASE s = f
    <3> DEFINE clients == server[s].running
    <3>1. /\ at'[s] = IF clients = {} THEN "restore" ELSE "cancel_defer"
          /\ server'[s].running = clients /\ ~server'[s].listening
          /\ \A g \in Fibers : \A i \in 1..Depth(g) : <<g, i>> \in clients =>
                joins'[g][i] = [joins[g][i] EXCEPT !.live_join_race = TRUE]
      BY <1>1, <1>11, <2>1 DEF CancelDone
    <3>2. \A c \in server'[s].running : joins'[c[1]][c[2]].live_join_race
      <4> SUFFICES ASSUME NEW g \in Fibers, NEW i \in 1..MaxDepth, <<g, i>> \in clients
                   PROVE  joins'[g][i].live_join_race
        BY <1>1, <3>1 DEF Servers
      <4>1. i \in DOMAIN joins[g]
        BY <1>1 DEF Books, Counted
      <4>2. i \in 1..Depth(g) /\ joins[g][i] \in Clients
        BY <1>1, <4>1, JoinsTyped DEF Books
      <4>3. joins'[g][i] = [joins[g][i] EXCEPT !.live_join_race = TRUE]
        BY <3>1, <4>2
      <4> QED
        BY <4>2, <4>3 DEF Clients
    <3> QED
      BY <3>1, <3>2 DEF ServingOf, Idle
  <2>2. CASE s # f
    <3>1. at'[s] = at[s] /\ server'[s] = server[s] /\ Disturbed(ctrl[s], ctrl'[s])
      BY <1>1, <1>11, <2>2 DEF CancelDone, Disturbed
    <3> QED
      BY <3>1, ServingStays
  <2> QED
    BY <2>1, <2>2
<1>12. CASE CleanupDone(f)
  BY <1>1, <1>2, <1>12 DEF CleanupDone, AcceptPoints
<1> QED
  BY <1>3, <1>4, <1>5, <1>6, <1>7, <1>8, <1>9, <1>10, <1>11, <1>12, StepEffects DEF BusyStep

\* Who is not on the way to sleep, or asleep, knows nothing that could be wrong.
LEMMA WaitingElsewhere ==
    ASSUME NEW g \in Fibers, at'[g] \notin {"join_defer", "join_woken"}
    PROVE  WaitingOf(g)'
  BY DEF WaitingOf

\* Who waits and is prodded, while the fiber it waits for lives on, waits on.
LEMMA WaitingStays ==
    ASSUME IFCInv, NEW g \in Fibers, at'[g] = at[g], Waits(g)' <=> Waits(g), Waits(g) => SameCall(g),
           Disturbed(ctrl[g], ctrl'[g]),
           Waits(g) /\ at'[Client(g).fiber_id] = "dead" => at[Client(g).fiber_id] = "dead"
    PROVE  WaitingOf(g)'
<1>1. WaitingOf(g) /\ AsleepOf(g) /\ ctrl[g] \in Ctrl
  BY DEF IFCInv, Books, TypeOK, Waiting, Standing, StandingOf
<1>2. /\ ctrl'[g].done = ctrl[g].done /\ ctrl'[g].unintr = ctrl[g].unintr
      /\ ctrl'[g].deferred => ctrl[g].deferred
      /\ Bounces(ctrl[g]) => Bounces(ctrl'[g])
      /\ ctrl[g].canceled \/ ctrl[g].join_race => ctrl'[g].canceled \/ ctrl'[g].join_race
      /\ ctrl[g].deferred /\ ~ctrl'[g].deferred => ctrl'[g].canceled \/ ctrl'[g].join_race
  <2>1. CASE ctrl'[g] = ctrl[g]
    BY <2>1
  <2>2. CASE ctrl'[g] = Cancel(ctrl[g])
    BY <1>1, <2>2 DEF Cancel, Ctrl, Interrupted, Bounces
  <2>3. CASE ctrl'[g] = WakeJoinRace(ctrl[g])
    BY <1>1, <2>3 DEF WakeJoinRace, Ctrl, Interrupted, Bounces
  <2> QED
    BY <2>1, <2>2, <2>3 DEF Disturbed
<1>3. Waits(g)' => Client(g)'.fiber_id = Client(g).fiber_id
  BY DEF SameCall
<1> QED
  BY <1>1, <1>2, <1>3 DEF WaitingOf

\* Who waits for a fiber that ends is woken, and has a reason to go on.
LEMMA WaitingTorn ==
    ASSUME IFCInv, NEW f \in Fibers, Teardown(f), NEW g \in Fibers \ {f}
    PROVE  WaitingOf(g)'
<1>1. /\ WaitingOf(g) /\ AsleepOf(g) /\ ctrl[g] \in Ctrl /\ at \in [Fibers -> Points]
      /\ ctrl \in [Fibers -> Ctrl]
  BY DEF IFCInv, Books, TypeOK, Waiting, Standing, StandingOf
<1>2. /\ at'[g] = at[g] /\ UNCHANGED <<joins, waiting>>
      /\ \A x \in Fibers \ {f} : at'[x] = at[x]
      /\ ctrl'[g] = IF ~(Waits(g) /\ Client(g).fiber_id = f) THEN ctrl[g]
                    ELSE IF ctrl[g].unintr THEN WakeDone(ctrl[g]) ELSE WakeJoinRace(ctrl[g])
  BY <1>1 DEF Teardown, Goto, Waits
<1>3. (Waits(g)' <=> Waits(g)) /\ SameCall(g)
  BY <1>2, CallStays DEF Waits
<1>4. CASE ~(Waits(g) /\ Client(g).fiber_id = f)
  <2>1. Waits(g) => Client(g).fiber_id \in Fibers \ {f}
    BY <1>4, WaiterCalls DEF IFCInv
  <2> QED
    BY <1>2, <1>3, <1>4, <2>1, WaitingStays DEF Disturbed
<1>5. CASE Waits(g) /\ Client(g).fiber_id = f
  <2>1. CASE ctrl[g].unintr
    <3>1. ctrl'[g] = WakeDone(ctrl[g])
      BY <1>2, <1>5, <2>1
    <3>2. /\ ctrl'[g].unintr /\ ~ctrl'[g].deferred
          /\ ~ctrl[g].deferred => ctrl'[g].done
      BY <1>1, <2>1, <3>1 DEF WakeDone, Ctrl
    <3>3. at'[g] = "join_defer" => Bounces(ctrl'[g])
      BY <1>1, <1>2, <3>2 DEF AsleepOf, Bounces
    <3> QED
      BY <1>3, <1>5, <3>2, <3>3 DEF WaitingOf
  <2>2. CASE ~ctrl[g].unintr
    <3>1. ctrl'[g] = WakeJoinRace(ctrl[g])
      BY <1>2, <1>5, <2>2
    <3>2. /\ ctrl'[g].join_race /\ ~ctrl'[g].unintr /\ ctrl'[g].done = ctrl[g].done
          /\ ctrl'[g].deferred => ctrl[g].deferred /\ ctrl[g].join_race
      BY <1>1, <2>2, <3>1 DEF WakeJoinRace, Ctrl
    <3>3. Bounces(ctrl'[g])
      BY <3>2 DEF Bounces, Interrupted
    <3>4. ~ctrl'[g].deferred
      BY <1>1, <2>2, <3>2 DEF AsleepOf, Bounces, Interrupted
    <3>5. Waits(g) /\ at[g] = "join_defer" => ~ctrl'[g].done
      BY <1>1, <2>2, <3>2 DEF WaitingOf
    <3> QED
      BY <1>2, <1>3, <1>5, <3>2, <3>3, <3>4, <3>5 DEF WaitingOf
  <2> QED
    BY <2>1, <2>2
<1> QED
  BY <1>4, <1>5

\* The fiber itself, in a quiet step.
LEMMA WaitingMoves ==
    ASSUME IFCInv, NEW f \in Fibers, QuietStep(f)
    PROVE  WaitingOf(f)'
<1>1. /\ WaitingOf(f) /\ ctrl[f] \in Ctrl /\ at \in [Fibers -> Points] /\ ctrl \in [Fibers -> Ctrl]
      /\ UNCHANGED <<joins, waiting>>
  BY QuietStays DEF IFCInv, Books, TypeOK, Waiting
<1>2. (Waits(f)' <=> Waits(f)) /\ SameCall(f)
  BY <1>1, CallStays DEF Waits
<1>3. CASE at'[f] \notin {"join_defer", "join_woken"}
  BY <1>3, WaitingElsewhere
<1>4. CASE CancelFiber(f)
  BY <1>1, <1>2, <1>4, WaitingStays DEF CancelFiber, Disturbed
<1>5. CASE Defer(f) /\ at'[f] = "join_woken"
  <2>1. /\ ctrl'[f] = [ctrl[f] EXCEPT !.deferred = ~Bounces(ctrl[f])]
        /\ at[f] = "join_defer" /\ \A x \in Fibers \ {f} : at'[x] = at[x]
    BY <1>1, <1>5 DEF Defer, Goto
  <2>2. /\ ctrl'[f].deferred = ~Bounces(ctrl[f]) /\ ctrl'[f].unintr = ctrl[f].unintr
        /\ ctrl'[f].canceled = ctrl[f].canceled /\ ctrl'[f].join_race = ctrl[f].join_race
    BY <1>1, <2>1 DEF Ctrl
  <2>3. Waits(f) => Client(f).fiber_id \in Fibers /\ Client(f)'.fiber_id = Client(f).fiber_id
    BY <1>2, WaiterCalls DEF IFCInv, SameCall
  <2>4. Waits(f) /\ ~ctrl'[f].deferred => ctrl'[f].unintr \/ ctrl'[f].canceled \/ ctrl'[f].join_race
    BY <1>1, <2>1, <2>2 DEF WaitingOf, Bounces, Interrupted
  <2>5. Waits(f) /\ ctrl'[f].deferred => at'[Client(f)'.fiber_id] # "dead"
    BY <1>1, <1>5, <2>1, <2>2, <2>3 DEF WaitingOf
  <2>6. ctrl'[f].deferred => Waits(f)
    BY <1>1, <2>1, <2>2 DEF WaitingOf, Bounces
  <2> QED
    BY <1>2, <1>5, <2>4, <2>5, <2>6 DEF WaitingOf
<1> QED
  BY <1>1, <1>3, <1>4, <1>5
     DEF QuietStep, JoinMissing, Defer, JoinWoken, StepIn, ThrowMissing, Enter, AcceptWoken,
         CancelWoken, Restore, Throw, SetUnintr, Unindex, Teardown, Goto

\* A client sleeps only while the fiber it waits for can still attach it or wake it.
LEMMA WaitingKept ==
    ASSUME IFCInv, Books', NEW f \in Fibers, FiberStep(f)
    PROVE  Waiting'
<1> SUFFICES ASSUME NEW g \in Fibers
             PROVE  WaitingOf(g)'
  BY DEF Waiting
<1>1. /\ Books /\ WaitingOf(g) /\ AsleepOf(g) /\ ctrl[g] \in Ctrl /\ ctrl \in [Fibers -> Ctrl]
      /\ at \in [Fibers -> Points] /\ at' \in [Fibers -> Points]
  BY DEF IFCInv, Books, TypeOK, Standing, StandingOf, Waiting
<1>2. ASSUME g # f, \A x \in Fibers \ {f} : at'[x] = at[x], at'[f] # "dead",
             Waits(g) => Waits(g)', Disturbed(ctrl[g], ctrl'[g])
      PROVE  WaitingOf(g)'
  <2>1. Waits(g)' => Waits(g) /\ SameCall(g)
    BY <1>2, WaitersStay
  <2>2. Waits(g) /\ at'[Client(g).fiber_id] = "dead" => at[Client(g).fiber_id] = "dead"
    BY <1>1, <1>2, WaiterCalls
  <2> QED
    BY <1>2, <2>1, <2>2, WaitingStays
<1>3. ASSUME waiting' = waiting
      PROVE  Waits(g) => Waits(g)'
  BY <1>3 DEF Waits
<1>4. CASE QuietStep(f)
  <2>1. CASE g = f
    BY <1>4, <2>1, WaitingMoves
  <2>2. CASE Teardown(f) /\ g # f
    BY <2>2, WaitingTorn
  <2>3. CASE ~Teardown(f) /\ g # f
    <3>1. ctrl'[g] = ctrl[g]
      BY <1>1, <1>4, <2>3
         DEF QuietStep, JoinMissing, Defer, JoinWoken, StepIn, ThrowMissing, Enter, AcceptWoken,
             CancelWoken, Restore, Throw, SetUnintr, CancelFiber, Unindex
    <3>2. QuietMove(f) /\ waiting' = waiting
      BY <1>1, <1>4, QuietMoves, QuietStays DEF Books
    <3>3. CASE at'[f] = "dead" /\ at[f] # "dead"
      BY <1>1, <1>4, <2>3, <3>3
         DEF QuietStep, JoinMissing, Defer, JoinWoken, StepIn, ThrowMissing, Enter, AcceptWoken,
             CancelWoken, Restore, Throw, SetUnintr, CancelFiber, Unindex, Goto
    <3>4. CASE at'[f] = "dead" => at[f] = "dead"
      <4>1. Waits(g)' <=> Waits(g)
        BY <3>2 DEF Waits
      <4>2. SameCall(g) /\ at'[g] = at[g]
        BY <1>4, <2>3, <3>2, QuietStays, CallStays DEF QuietMove
      <4>3. Waits(g) /\ at'[Client(g).fiber_id] = "dead" => at[Client(g).fiber_id] = "dead"
        BY <1>1, <3>2, <3>4, WaiterCalls DEF QuietMove
      <4> QED
        BY <3>1, <4>1, <4>2, <4>3, WaitingStays DEF Disturbed
    <3> QED
      BY <3>3, <3>4
  <2> QED
    BY <2>1, <2>2, <2>3
<1>5. ASSUME NEW t \in Fibers, NEW fn \in Fns, NEW type \in CallTypes, NEW s \in Fibers,
             JoinAttached(f, t, fn, type, s)
      PROVE  WaitingOf(g)'
  <2>1. /\ at' = [at EXCEPT ![f] = "joined"] /\ ctrl' = ctrl /\ waiting' = waiting
    BY <1>5 DEF JoinAttached, Joins
  <2> QED
    BY <1>1, <1>2, <1>3, <2>1, WaitingElsewhere DEF Disturbed
<1>6. ASSUME NEW t \in Fibers, NEW fn \in Fns, NEW type \in CallTypes,
             NEW closed \in Fibers \union {None}, JoinQueued(f, t, fn, type, closed)
      PROVE  WaitingOf(g)'
  <2>1. /\ at[f] = "user" /\ t \in fiber_map /\ waiting' = Append(waiting, f)
        /\ at' = [at EXCEPT ![f] = "join_defer"] /\ ctrl' = [ctrl EXCEPT ![f].done = FALSE]
        /\ joins'[f][Depth(f) + 1] = NewClient(t, fn, type, None) /\ Depth(f)' = Depth(f) + 1
    BY <1>6 DEF JoinQueued, Joins
  <2>2. waiting \in Seq(Fibers)
    BY <1>1 DEF Books, TypeOK
  <2>3. \A x \in Fibers : Waits(x)' <=> (Waits(x) \/ x = f)
    BY <2>1, <2>2, AppendIs DEF Waits
  <2>4. CASE g # f
    BY <1>1, <1>2, <2>1, <2>3, <2>4 DEF Disturbed
  <2>5. CASE g = f
    <3>1. at'[f] = "join_defer" /\ ~ctrl'[f].done /\ Waits(f)'
      BY <1>1, <2>1, <2>3, <2>5 DEF Ctrl
    <3>2. Client(f)'.fiber_id = t
      BY <2>1 DEF Client, NewClient
    <3>3. at[t] # "dead"
      BY <1>1, <2>1 DEF Books, Standing, StandingOf
    <3>4. at'[t] # "dead"
      BY <1>1, <2>1, <3>3
    <3> QED
      BY <2>5, <3>1, <3>2, <3>4 DEF WaitingOf
  <2> QED
    BY <2>4, <2>5
<1>7. CASE StepOutDone(f)
  <2>1. /\ at' = [at EXCEPT ![f] = "join_failed"] /\ ctrl' = ctrl
        /\ Waits(g)' <=> (Waits(g) /\ g # f)
    BY <1>7 DEF StepOutDone, Waits
  <2> QED
    BY <1>1, <1>2, <2>1, WaitingElsewhere DEF Disturbed
<1>8. CASE JoinFailedDone(f)
  BY <1>1, <1>2, <1>3, <1>8, WaitingElsewhere DEF JoinFailedDone, Goto, Disturbed
<1>9. ASSUME NEW s \in Fibers, LeaveDone(f, s)
      PROVE  WaitingOf(g)'
  <2>1. CASE g = f \/ g = s
    BY <1>9, <2>1, WaitingElsewhere DEF LeaveDone, AcceptPoints
  <2>2. CASE g # f /\ g # s
    BY <1>1, <1>2, <1>3, <1>9, <2>2 DEF LeaveDone, Disturbed
  <2> QED
    BY <2>1, <2>2
<1>10. ASSUME NEW fns \in SUBSET Fns, NEW id \in Fibers, AcceptDone(f, fns, id)
       PROVE  WaitingOf(g)'
  BY <1>1, <1>2, <1>3, <1>10, WaitingElsewhere DEF AcceptDone, Disturbed
<1>11. ASSUME NEW taken \in SUBSET Fibers, NEW listening \in BOOLEAN, AttachDone(f, taken, listening)
       PROVE  WaitingOf(g)'
  <2>1. /\ at' = [at EXCEPT ![f] = "accept_defer"]
        /\ Waits(g)' <=> (Waits(g) /\ g \notin taken)
        /\ g \in taken => ctrl'[g] = WakeDone(ctrl[g]) /\ g # f
        /\ g \notin taken /\ g # f => ctrl'[g] = ctrl[g]
    BY <1>11 DEF AttachDone, Waits
  <2>2. CASE g = f
    BY <1>1, <2>1, <2>2, WaitingElsewhere
  <2>3. CASE g # f /\ g \notin taken
    BY <1>1, <1>2, <2>1, <2>3 DEF Disturbed
  <2>4. CASE g \in taken
    <3>1. /\ ~ctrl'[g].deferred
          /\ ~ctrl[g].deferred => ctrl'[g].done
      BY <1>1, <2>1, <2>4 DEF WakeDone, Ctrl
    <3>2. at[g] = "join_defer" => ~ctrl[g].deferred
      BY <1>1 DEF AsleepOf
    <3>3. at'[g] = at[g] /\ ~Waits(g)'
      BY <1>1, <2>1, <2>4
    <3> QED
      BY <3>1, <3>2, <3>3 DEF WaitingOf
  <2> QED
    BY <2>2, <2>3, <2>4
<1>12. CASE CancelDone(f)
  <2>1. /\ at'[f] \in {"restore", "cancel_defer"} /\ \A x \in Fibers \ {f} : at'[x] = at[x]
        /\ waiting' = waiting /\ (g # f => Disturbed(ctrl[g], ctrl'[g]))
    BY <1>1, <1>12 DEF CancelDone, Disturbed
  <2> QED
    BY <1>2, <1>3, <2>1, WaitingElsewhere
<1>13. CASE CleanupDone(f)
  BY <1>1, <1>2, <1>3, <1>13, WaitingElsewhere DEF CleanupDone, Disturbed
<1> QED
  BY <1>4, <1>5, <1>6, <1>7, <1>8, <1>9, <1>10, <1>11, <1>12, <1>13, StepEffects DEF BusyStep

\* Only an accept that nobody waits for any more begins to listen.
LEMMA ListensOn ==
    ASSUME IFCInv, NEW f \in Fibers, FiberStep(f), NEW s \in Fibers, server'[s].listening
    PROVE  \/ /\ server[s].listening /\ QueuesOf(s)' = QueuesOf(s)
              /\ server[s].read_locked => server'[s].read_locked
           \/ s = f /\ \E taken \in SUBSET Fibers : AttachDone(f, taken, TRUE)
<1>1. server \in [Fibers -> Servers]
  BY DEF IFCInv, Books, TypeOK
<1>2. CASE server'[s] = server[s]
  BY <1>2, OffersStay
<1>3. QuietStep(f) \/ StepOutDone(f) \/ JoinFailedDone(f) => server' = server
  BY QuietStays DEF StepOutDone, JoinFailedDone
<1>4. ASSUME NEW t \in Fibers, NEW fn \in Fns, NEW type \in CallTypes, NEW x \in Fibers,
             JoinAttached(f, t, fn, type, x), s = x
      PROVE  /\ server[s].listening /\ QueuesOf(s)' = QueuesOf(s)
             /\ server[s].read_locked => server'[s].read_locked
  BY <1>4, OffersStay DEF JoinAttached, Listening
<1>5. ASSUME NEW t \in Fibers, NEW fn \in Fns, NEW type \in CallTypes,
             NEW closed \in Fibers \union {None}, JoinQueued(f, t, fn, type, closed)
      PROVE  /\ server[s].listening /\ QueuesOf(s)' = QueuesOf(s)
             /\ server[s].read_locked => server'[s].read_locked
  BY <1>5, OffersStay DEF JoinQueued
<1>6. ASSUME NEW x \in Fibers, LeaveDone(f, x), s = x
      PROVE  /\ server[s].listening /\ QueuesOf(s)' = QueuesOf(s)
             /\ server[s].read_locked => server'[s].read_locked
  BY <1>6, OffersStay DEF LeaveDone
<1>7. ASSUME NEW fns \in SUBSET Fns, NEW id \in Fibers, AcceptDone(f, fns, id)
      PROVE  s # f
  BY <1>7 DEF AcceptDone
<1>8. ASSUME NEW taken \in SUBSET Fibers, NEW listening \in BOOLEAN, AttachDone(f, taken, listening), s = f
      PROVE  listening = TRUE
  BY <1>8 DEF AttachDone
<1>9. CancelDone(f) => s # f
  BY DEF CancelDone
<1>10. CleanupDone(f) => s # f
  BY <1>1 DEF CleanupDone, NoServer
<1>11. CleanupDone(f) /\ s # f => server'[s] = server[s]
  BY <1>1 DEF CleanupDone
<1> QED
  BY <1>2, <1>3, <1>4, <1>5, <1>6, <1>7, <1>8, <1>9, <1>10, <1>11, StepEffects
     DEF BusyStep, JoinAttached, LeaveDone, AcceptDone, AttachDone, CancelDone

\* No client waits for a server that listens.
LEMMA NoMissedServerKept ==
    ASSUME IFCInv, Books', NEW f \in Fibers, FiberStep(f)
    PROVE  NoMissedServer'
<1> SUFFICES ASSUME NEW g \in Fibers, NEW s \in Fibers,
                    Waits(g)', server'[s].listening, QueueOf(g)' \in QueuesOf(s)'
             PROVE  Client(g)'.type = "lock" /\ server'[s].read_locked
  BY DEF NoMissedServer
<1>1. Waits(g) /\ server[s].listening /\ QueueOf(g) \in QueuesOf(s)
            => Client(g).type = "lock" /\ server[s].read_locked
  BY DEF IFCInv, NoMissedServer
<1>2. ASSUME NEW taken \in SUBSET Fibers, AttachDone(f, taken, TRUE), s = f
      PROVE  FALSE
  <2>1. QueuesOf(s)' = QueuesOf(s)
    BY <1>2, OffersStay DEF AttachDone
  <2>2. Waits(g) /\ g \notin taken
    BY <1>2 DEF AttachDone, Waits
  <2>3. ASSUME NEW t \in Fibers, NEW fn \in Fns, NEW type \in CallTypes,
               NEW closed \in Fibers \union {None}
        PROVE  ~JoinQueued(f, t, fn, type, closed)
    BY <1>2 DEF AttachDone, JoinQueued, Joins
  <2>4. SameCall(g)
    BY <2>3, WaitersStay
  <2>5. g \in WaitersOf(s)
    BY <2>1, <2>2, <2>4 DEF WaitersOf, SameCall
  <2> QED
    BY <1>2, <2>2, <2>5 DEF AttachDone
<1>3. /\ server[s].listening /\ QueuesOf(s)' = QueuesOf(s)
      /\ server[s].read_locked => server'[s].read_locked
  BY <1>2, ListensOn
<1>4. CASE Waits(g) /\ SameCall(g)
  BY <1>1, <1>3, <1>4 DEF SameCall
<1>5. ASSUME g = f, NEW t \in Fibers, NEW fn \in Fns, NEW type \in CallTypes,
             NEW closed \in Fibers \union {None}, JoinQueued(f, t, fn, type, closed)
      PROVE  Client(g)'.type = "lock" /\ server'[s].read_locked
  <2>1. /\ \A x \in Listening : <<t, fn>> \in QueuesOf(x) => type = "lock" /\ server[x].read_locked
        /\ joins'[f][Depth(f) + 1] = NewClient(t, fn, type, None) /\ Depth(f)' = Depth(f) + 1
    BY <1>5 DEF JoinQueued, Joins
  <2>2. QueueOf(g)' = <<t, fn>> /\ Client(g)'.type = type
    BY <1>5, <2>1 DEF QueueOf, Client, NewClient
  <2> QED
    BY <1>3, <2>1, <2>2 DEF Listening
<1> QED
  BY <1>4, <1>5, WaitersStay

\* Fewer listen, or more of them are read locked.
LEMMA FindsStays ==
    ASSUME NEW q, Finds(refs'[q], q),
           \A s \in Fibers : server'[s].listening =>
                /\ server[s].listening /\ QueuesOf(s)' = QueuesOf(s)
                /\ server[s].read_locked => server'[s].read_locked
    PROVE  Finds(refs[q], q)'
  BY DEF Finds, Listening

\* Who listens is found.
LEMMA FindsKept ==
    ASSUME IFCInv, Books', NEW f \in Fibers, FiberStep(f), NEW q \in Queues
    PROVE  Finds(refs[q], q)'
<1>1. /\ Finds(refs[q], q) /\ Refers(refs[q], q) /\ TypeOK
  BY DEF IFCInv, Books
<1>2. ASSUME \A taken \in SUBSET Fibers : ~AttachDone(f, taken, TRUE), Finds(refs'[q], q)
      PROVE  Finds(refs[q], q)'
  BY <1>2, ListensOn, FindsStays
<1>3. ASSUME NEW taken \in SUBSET Fibers, AttachDone(f, taken, TRUE)
      PROVE  Finds(refs[q], q)'
  <2> DEFINE locked == taken # {}
  <2>1. /\ refs' = Reconnect(f, locked) /\ server'[f].read_locked = locked
        /\ \A s \in Fibers \ {f} : server'[s] = server[s]
        /\ \A s \in Fibers : QueuesOf(s)' = QueuesOf(s)
    BY <1>3, OffersStay DEF AttachDone
  <2>2. locked \in BOOLEAN
    OBVIOUS
  <2> HIDE DEF locked
  <2>3. CASE q \in QueuesOf(f)
    <3> DEFINE new == Reconnect(f, locked)[q]
    <3>1. /\ Refers(new, q)
          /\ \A x \in Fibers \ {f} :
                /\ Contains(new.freeish, x) <=> Contains(refs[q].freeish, x)
                /\ Contains(new.sharedish, x) <=> Contains(refs[q].sharedish, x)
          /\ Contains(new.sharedish, f) <=> locked
          /\ Contains(new.freeish, f) <=> ~locked
      BY <1>1, <2>2, <2>3, ReconnectIs
    <3>2. refs'[q] = new
      BY <2>1
    <3> HIDE DEF new
    <3> SUFFICES ASSUME NEW s \in Fibers, server'[s].listening
                 PROVE  /\ Contains(new.sharedish, s) => server'[s].read_locked
                        /\ q \in QueuesOf(s)' => Contains(new.freeish, s) \/ Contains(new.sharedish, s)
      BY <3>2 DEF Finds, Listening
    <3>3. CASE s = f
      BY <2>1, <2>2, <3>1, <3>3
    <3>4. CASE s # f
      BY <1>1, <2>1, <3>1, <3>4 DEF Finds, Listening
    <3> QED
      BY <3>3, <3>4
  <2>4. CASE q \notin QueuesOf(f)
    <3>1. refs'[q] = refs[q]
      BY <2>1, <2>4 DEF Reconnect
    <3>2. ~Contains(refs[q].sharedish, f)
      BY <1>1, <2>4 DEF Refers
    <3> QED
      BY <1>1, <2>1, <2>4, <3>1, <3>2 DEF Finds, Listening
  <2> QED
    BY <2>3, <2>4
<1>4. CASE refs'[q] = refs[q]
  BY <1>1, <1>2, <1>3, <1>4
<1>5. QuietStep(f) \/ StepOutDone(f) \/ JoinFailedDone(f) \/ CancelDone(f) => refs' = refs
  BY QuietStays DEF StepOutDone, JoinFailedDone, CancelDone
<1>6. ASSUME NEW t \in Fibers, NEW fn \in Fns, NEW type \in CallTypes, NEW s \in Fibers,
             JoinAttached(f, t, fn, type, s)
      PROVE  Finds(refs'[q], q)
  BY <1>1, <1>6 DEF JoinAttached, Joins
<1>7. ASSUME NEW t \in Fibers, NEW fn \in Fns, NEW type \in CallTypes,
             NEW closed \in Fibers \union {None}, JoinQueued(f, t, fn, type, closed)
      PROVE  Finds(refs[q], q)'
  <2>1. CASE q = <<t, fn>>
    <3>1. /\ \A x \in Listening \ {closed} :
                /\ Contains(refs'[q].sharedish, x) => server[x].read_locked
                /\ q \in QueuesOf(x) => Contains(refs'[q].freeish, x) \/ Contains(refs'[q].sharedish, x)
          /\ \A x \in Fibers : /\ server'[x].listening = (server[x].listening /\ x # closed)
                               /\ server'[x].read_locked = server[x].read_locked
                               /\ QueuesOf(x)' = QueuesOf(x)
      BY <1>7, <2>1, OffersStay DEF JoinQueued
    <3> QED
      BY <3>1 DEF Finds, Listening
  <2>2. CASE q # <<t, fn>>
    <3>1. refs'[q] = refs[q]
      BY <1>7, <2>2 DEF JoinQueued, Joins
    <3> QED
      BY <1>4, <3>1
  <2> QED
    BY <2>1, <2>2
<1>8. ASSUME NEW s \in Fibers, LeaveDone(f, s)
      PROVE  refs' = refs
  BY <1>8 DEF LeaveDone
<1>9. ASSUME NEW fns \in SUBSET Fns, NEW id \in Fibers, AcceptDone(f, fns, id)
      PROVE  Finds(refs'[q], q)
  BY <1>1, <1>9 DEF AcceptDone, Finds
<1>10. ASSUME NEW taken \in SUBSET Fibers, AttachDone(f, taken, FALSE)
       PROVE  refs' = refs
  BY <1>10 DEF AttachDone
<1>11. CASE CleanupDone(f)
  <2>1. f \notin Listening
    BY <1>11 DEF IFCInv, Serving, ServingOf, CleanupDone, Listening
  <2>2. CASE q \in QueuesOf(f)
    <3>1. \A x \in Fibers \ {f} : /\ Contains(refs'[q].freeish, x) <=> Contains(refs[q].freeish, x)
                                  /\ Contains(refs'[q].sharedish, x) <=> Contains(refs[q].sharedish, x)
      BY <1>11, <2>2 DEF CleanupDone
    <3>2. Finds(refs'[q], q)
      BY <1>1, <2>1, <3>1 DEF Finds, Listening
    <3> QED
      BY <1>2, <1>3, <3>2
  <2>3. CASE q \notin QueuesOf(f)
    BY <1>4, <1>11, <2>3 DEF CleanupDone
  <2> QED
    BY <2>2, <2>3
<1> QED
  BY <1>2, <1>3, <1>4, <1>5, <1>6, <1>7, <1>8, <1>9, <1>10, <1>11, StepEffects DEF BusyStep

\* The invariant holds at the start, when there are no joins and no servers.
LEMMA InitHasInv ==
    ASSUME Init
    PROVE  IFCInv
<1>1. /\ \A f \in Fibers : /\ at[f] = "user" /\ joins[f] = <<>> /\ server[f] = NoServer
                           /\ ctrl[f] = [NewCtrl EXCEPT !.started = TRUE]
      /\ at \in [Fibers -> Points]
      /\ fiber_map = Fibers /\ waiting = <<>> /\ queues = {}
      /\ \A q \in Queues : refs[q] = NoRefs
  BY DEF Init, Points
<1>2. NoServer \in Servers /\ [NewCtrl EXCEPT !.started = TRUE] \in Ctrl /\ NoRefs \in QueueRefs
  BY EmptyIs DEF NoServer, Servers, NewCtrl, Ctrl, NoRefs, QueueRefs
<1>3. /\ \A f \in Fibers : ~Contains(waiting, f)
      /\ \A x : ~Contains(<<>>, x)
      /\ Distinct(<<>>)
  BY <1>1, EmptyIs
<1>4. TypeOK
  <2>1. <<>> \in Seq(Clients) /\ <<>> \in Seq(Fibers)
    BY EmptyIs
  <2>2. /\ ctrl \in [Fibers -> Ctrl] /\ server \in [Fibers -> Servers]
        /\ joins \in [Fibers -> Seq(Clients)] /\ refs \in [Queues -> QueueRefs]
    BY <1>2, <2>1 DEF Init
  <2> QED
    BY <1>1, <2>1, <2>2 DEF TypeOK, QueueRefs, Init
<1>5. \A f \in Fibers : ~Waits(f)
  BY <1>3 DEF Waits
<1>6. \A s \in Fibers : QueuesOf(s) = {} /\ server[s].running = {} /\ ~server[s].listening
                        /\ server[s].accepting = None
  BY <1>1 DEF QueuesOf, NoServer
<1>7. Standing
  BY <1>1 DEF Standing, StandingOf, AsleepOf, AcceptPoints, NewCtrl
<1>8. Joined
  <2>1. \A f \in Fibers : Depth(f) = 0 /\ DOMAIN joins[f] = {}
    BY <1>1 DEF Depth
  <2> QED
    BY <1>1, <1>5, <2>1, IFCAssumption DEF Joined, JoinedOf, JoinWaits
<1>9. Counted
  <2>1. \A f \in Fibers : DOMAIN joins[f] = {}
    BY <1>1
  <2> QED
    BY <1>6, <2>1 DEF Counted
<1>10. OwnOrServerSide
  BY <1>6 DEF OwnOrServerSide, Accepting
<1>11. \A q \in Queues : Refers(refs[q], q) /\ Finds(refs[q], q)
  <2>1. NoRefs.freeish = <<>> /\ NoRefs.sharedish = <<>>
    BY DEF NoRefs
  <2> QED
    BY <1>1, <1>3, <1>6, <2>1 DEF Refers, Finds, Listening
<1>12. Allocated
  <2>1. Distinct(waiting)
    BY <1>1, <1>3
  <2>2. \A q \in Queues : refs[q].count = 0 /\ ServersOf(q) = {}
    BY <1>1, <1>6 DEF NoRefs, ServersOf
  <2>3. Waited = {}
    BY <1>5 DEF Waited
  <2>4. Cardinality({}) = 0
    BY FS_EmptySet
  <2>5. \A q \in Queues : refs[q].count = Cardinality(ServersOf(q))
    BY <2>2, <2>4
  <2>6. {q \in Queues : refs[q].count > 0} = {}
    BY <2>2
  <2> QED
    BY <1>1, <2>1, <2>3, <2>5, <2>6 DEF Allocated
<1>13. Serving /\ Alone /\ Restoring /\ Waiting
  BY <1>1, <1>6 DEF Serving, ServingOf, Alone, Restoring, RestoringOf, Waiting, WaitingOf
<1>14. NoMissedServer
  BY <1>5 DEF NoMissedServer
<1> QED
  BY <1>4, <1>7, <1>8, <1>9, <1>10, <1>11, <1>12, <1>13, <1>14 DEF IFCInv, Books

\* It is kept by every step,
LEMMA StepKeepsInv ==
    ASSUME IFCInv, Next
    PROVE  IFCInv'
<1>1. PICK f \in Fibers : FiberStep(f) /\ program' = program
  BY StepCases DEF IFCInv, Books
<1>2. Books'
  BY <1>1, BooksKept
<1>3. Serving' /\ Alone' /\ Restoring' /\ Waiting' /\ NoMissedServer'
  BY <1>1, <1>2, ServingKept, AloneKept, RestoringKept, WaitingKept, NoMissedServerKept
<1>4. \A q \in Queues : Finds(refs[q], q)'
  BY <1>1, <1>2, FindsKept
<1> QED
  BY <1>2, <1>3, <1>4 DEF IFCInv

\* and by none.
LEMMA StutterKeepsInv ==
    ASSUME IFCInv, UNCHANGED vars
    PROVE  IFCInv'
<1>1. /\ UNCHANGED <<program, ctrl, fiber_map, at, joins, server, waiting, queues, refs>>
      /\ \A f \in Fibers : /\ Depth(f)' = Depth(f) /\ Client(f)' = Client(f)
                           /\ QueueOf(f)' = QueueOf(f) /\ QueuesOf(f)' = QueuesOf(f)
                           /\ (Waits(f)' <=> Waits(f)) /\ (Accepting(f)' <=> Accepting(f))
                           /\ (Idle(f)' <=> Idle(f))
      /\ Listening' = Listening
  BY DEF vars, Depth, Client, QueueOf, QueuesOf, Waits, Accepting, Idle, Listening
<1>2. TypeOK' /\ Standing' /\ Joined' /\ Counted' /\ OwnOrServerSide'
  BY <1>1 DEF IFCInv, Books, TypeOK, Standing, StandingOf, AsleepOf, Joined, JoinedOf, Counted,
              OwnOrServerSide
<1>3. \A q \in Queues : Refers(refs[q], q)' /\ Finds(refs[q], q)'
  <2> TAKE q \in Queues
  <2>1. refs'[q] = refs[q] /\ Refers(refs[q], q) /\ Finds(refs[q], q)
    BY <1>1 DEF IFCInv, Books
  <2>2. Refers(refs[q], q)'
    BY <1>1, <2>1, RefersStays
  <2>3. Finds(refs[q], q)'
    BY <1>1, <2>1, FindsStays
  <2> QED
    BY <2>2, <2>3
<1>4. Allocated'
  <2>1. \A q \in Queues : ServersOf(q)' = ServersOf(q)
    BY <1>1 DEF ServersOf
  <2>2. Waited' = Waited
    BY <1>1 DEF Waited
  <2> QED
    BY <1>1, <2>1, <2>2 DEF IFCInv, Books, Allocated, Distinct
<1>5. Serving' /\ Alone' /\ Restoring' /\ Waiting' /\ NoMissedServer'
  BY <1>1 DEF IFCInv, Serving, ServingOf, Alone, Restoring, RestoringOf, Waiting, WaitingOf,
              NoMissedServer
<1> QED
  BY <1>2, <1>3, <1>4, <1>5 DEF IFCInv, Books

\* So it holds.
LEMMA InvHolds == Spec => []IFCInv
<1>1. Init => IFCInv
  BY InitHasInv
<1>2. IFCInv /\ [Next]_vars => IFCInv'
  BY StepKeepsInv, StutterKeepsInv
<1> QED
  BY <1>1, <1>2, PTL DEF Spec

-----------------------------------------------------------------------------
(* What follows from the invariant. *)

\* The clients that run in joins and the servers that count them.
LEMMA ClientsAreAttached ==
    ASSUME IFCInv
    PROVE  ClientsAttached
<1>1. /\ Books /\ TypeOK /\ Counted /\ MaxDepth \in Nat /\ Distinct(waiting)
      /\ \A f \in Fibers : JoinedOf(f) /\ StandingOf(f)
  BY IFCAssumption DEF IFCInv, Books, Joined, Standing, Allocated
<1>2. ASSUME NEW f \in Fibers, NEW s \in Fibers
      PROVE  {i \in DOMAIN joins[f] : joins[f][i].server = s}
                = {i \in 1..MaxDepth : <<f, i>> \in server[s].running}
  <2>1. DOMAIN joins[f] = 1..Depth(f) /\ Depth(f) \in Nat /\ Depth(f) =< MaxDepth
    BY <1>1, JoinsTyped DEF JoinedOf
  <2>2. \A i \in DOMAIN joins[f] : i \in 1..MaxDepth
    BY <1>1, <2>1
  <2> QED
    BY <1>1, <2>2 DEF Counted
<1>3. \A s \in Fibers : server[s].running # {} => Accepting(s)
  BY <1>1 DEF StandingOf, NoServer
<1>4. \A f \in Fibers : \A i \in DOMAIN joins[f] : joins[f][i].server = None
        => i = Depth(f) /\ (at[f] # "join_failed" => Waits(f))
  BY <1>1 DEF JoinedOf
<1>5. \A f \in Fibers : Waits(f) => Client(f).server = None
  BY <1>1 DEF JoinedOf
<1> QED
  BY <1>1, <1>2, <1>3, <1>4, <1>5 DEF ClientsAttached, Distinct

\* The references of the queues.
LEMMA ReferencesAreLive ==
    ASSUME IFCInv
    PROVE  ReferencesLive
<1>1. Books /\ TypeOK /\ refs \in [Queues -> QueueRefs] /\ waiting \in Seq(Fibers)
  BY DEF IFCInv, Books, TypeOK, QueueRefs
<1>2. ASSUME NEW q \in Queues
      PROVE  LET listed == refs[q].freeish \o refs[q].sharedish
             IN /\ \A i \in DOMAIN listed : q \in QueuesOf(listed[i])
                /\ \A i, j \in DOMAIN listed : listed[i] = listed[j] => i = j
                /\ refs[q].count = Cardinality({s \in Fibers : q \in QueuesOf(s)})
  <2> DEFINE freeish == refs[q].freeish
             sharedish == refs[q].sharedish
             listed == freeish \o sharedish
  <2>1. freeish \in Seq(Fibers) /\ sharedish \in Seq(Fibers) /\ Refers(refs[q], q)
    BY <1>1 DEF QueueRefs, Books
  <2> HIDE DEF freeish, sharedish
  <2>2. /\ listed \in Seq(Fibers)
        /\ \A x : Contains(listed, x) <=> Contains(freeish, x) \/ Contains(sharedish, x)
        /\ Distinct(listed) <=> /\ Distinct(freeish) /\ Distinct(sharedish)
                                /\ \A x : ~(Contains(freeish, x) /\ Contains(sharedish, x))
    BY <2>1, ConcatIs
  <2> HIDE DEF listed
  <2>3. ASSUME NEW i \in DOMAIN listed
        PROVE  q \in QueuesOf(listed[i])
    <3>1. i \in 1..Len(listed) /\ listed[i] \in Fibers
      BY <2>2, <2>3
    <3>2. Contains(listed, listed[i])
      BY <3>1 DEF Contains
    <3> QED
      BY <2>1, <2>2, <3>1, <3>2 DEF Refers, freeish, sharedish
  <2>4. \A x : ~(Contains(freeish, x) /\ Contains(sharedish, x))
    <3> SUFFICES ASSUME NEW x, Contains(freeish, x), Contains(sharedish, x)
                 PROVE  FALSE
      OBVIOUS
    <3>1. PICK i \in 1..Len(freeish) : freeish[i] = x
      BY DEF Contains
    <3>2. x \in Fibers
      BY <2>1, <3>1
    <3> QED
      BY <2>1, <3>2 DEF Refers, freeish, sharedish
  <2>5. Distinct(listed)
    BY <2>1, <2>2, <2>4 DEF Refers, freeish, sharedish
  <2>6. refs[q].count = Cardinality(ServersOf(q))
    BY <1>1, CountedReferences
  <2>7. listed = refs[q].freeish \o refs[q].sharedish
    BY DEF listed, freeish, sharedish
  <2> QED
    BY <2>3, <2>5, <2>6, <2>7 DEF Distinct, ServersOf
<1>3. {g \in Fibers : Waits(g)} = ToSet(waiting)
  <2>1. \A i \in 1..Len(waiting) : waiting[i] \in Fibers
    BY <1>1
  <2>2. DOMAIN waiting = 1..Len(waiting)
    BY <1>1
  <2> QED
    BY <2>1, <2>2 DEF Waits, Contains, ToSet
<1>4. queues = {q \in Queues : refs[q].count > 0} \union {QueueOf(f) : f \in ToSet(waiting)}
  BY <1>1, <1>3 DEF Books, Allocated, Waited
<1> QED
  BY <1>2, <1>4 DEF ReferencesLive

\* At every unlock of shared_fiber_mem.rwlock the types are right, every client that
\* runs in a join is counted by a server that is (still) in accept, every client without
\* a server waits once, and the function queues refer to the servers that accept on them,
\* count them, and are allocated as long as they are used.
THEOREM BooksAlwaysAgree == Spec => []BooksAgree
<1>1. IFCInv => BooksAgree
  BY ClientsAreAttached, ReferencesAreLive DEF IFCInv, Books, BooksAgree
<1> QED
  BY <1>1, InvHolds, PTL

\* Neither fatal error of the code is reached, no client waits while a server it could
\* join listens, and nobody sleeps for what will not come: a server that left, a client
\* that is gone, or a fiber that finished its teardown.
THEOREM NobodyIsForgotten == Spec => []NobodyForgotten
<1> SUFFICES IFCInv => NobodyForgotten
  BY InvHolds, PTL
<1> SUFFICES ASSUME IFCInv
             PROVE  NobodyForgotten
  OBVIOUS
<1>1. NoSchedulerError
  <2>1. \A q \in Queues, s \in Fibers :
            Contains(refs[q].sharedish, s) /\ server[s].listening => server[s].read_locked
    BY DEF IFCInv, Finds, Listening
  <2>2. \A f \in Fibers : at[f] # "scheduler_error"
    BY DEF IFCInv, Books, Standing, StandingOf
  <2> QED
    BY <2>1, <2>2 DEF NoSchedulerError
<1>2. SleepersExpected
  <2> SUFFICES ASSUME NEW f \in Fibers, ctrl[f].deferred
               PROVE  \/ at[f] = "join_woken" /\ Waits(f) /\ at[Client(f).fiber_id] # "dead"
                      \/ at[f] = "accept_woken" /\ (server[f].running # {} \/ server[f].listening)
                      \/ at[f] = "cancel_woken" /\ server[f].running # {}
    BY DEF SleepersExpected
  <2>1. at[f] \in {"join_woken", "accept_woken", "cancel_woken"}
    BY DEF IFCInv, Books, Standing, StandingOf, AsleepOf
  <2>2. at[f] = "join_woken" => Waits(f) /\ at[Client(f).fiber_id] # "dead"
    BY DEF IFCInv, Waiting, WaitingOf
  <2>3. /\ at[f] = "accept_woken" => server[f].running # {} \/ server[f].listening
        /\ at[f] = "cancel_woken" => server[f].running # {}
    BY DEF IFCInv, Serving, ServingOf, Idle
  <2> QED
    BY <2>1, <2>2, <2>3
<1> QED
  BY <1>1, <1>2 DEF IFCInv, NobodyForgotten

\* Nobody accepts on the id of a fiber that is no server and runs no code.
LEMMA EndedIsUnreferenced ==
    ASSUME Books, NEW s \in Fibers, at[s] \in {"unindexed", "dead"}, NEW fn \in Fns
    PROVE  refs[<<s, fn>>].count = 0
<1>1. <<s, fn>> \in Queues /\ None \notin Fibers
  BY IFCAssumption DEF Queues
<1>2. SUFFICES ASSUME NEW x \in Fibers, <<s, fn>> \in QueuesOf(x)
               PROVE  FALSE
  BY <1>1, CountedReferences
<1>3. server[x].accepting = s /\ server[x].accepting # None
  BY <1>1, <1>2 DEF QueuesOf
<1>4. at[x] \in AcceptPoints
  <2>1. NoServer.accepting = None
    BY DEF NoServer
  <2> QED
    BY <1>3, <2>1 DEF Books, Standing, StandingOf
<1>5. x # s
  BY <1>4 DEF AcceptPoints
<1>6. joins[x] # <<>> /\ Client(x).server = s
  BY <1>3, <1>5 DEF Books, OwnOrServerSide, Accepting
<1>7. Depth(x) \in DOMAIN joins[x] /\ Client(x) = joins[x][Depth(x)]
  BY <1>6, JoinsTyped DEF Books, Client
<1>8. at[s] \in AcceptPoints
  BY <1>4, <1>6, <1>7, InnermostIsServed DEF AcceptPoints, JoinWaits
<1> QED
  BY <1>8 DEF AcceptPoints

\* A server that __lwt_ifc_accept found interrupted lets nobody in, has told every client
\* inside, and gets on only when they left; and no fiber ends while others accept on its id.
THEOREM CanceledServersClose == Spec => []CanceledServerCloses
<1> SUFFICES IFCInv => CanceledServerCloses
  BY InvHolds, PTL
<1> SUFFICES ASSUME IFCInv, NEW s \in Fibers
             PROVE  /\ at[s] \in {"cancel_defer", "cancel_woken"} =>
                         /\ ~server[s].listening
                         /\ \A c \in server[s].running : joins[c[1]][c[2]].live_join_race
                    /\ at[s] \in {"restore", "cleanup"} =>
                         server[s].running = {} /\ ~server[s].listening
                    /\ at[s] \in {"unindexed", "dead"} => \A fn \in Fns : refs[<<s, fn>>].count = 0
  BY DEF CanceledServerCloses
<1>1. ServingOf(s)
  BY DEF IFCInv, Serving
<1>2. at[s] \in {"unindexed", "dead"} => \A fn \in Fns : refs[<<s, fn>>].count = 0
  BY EndedIsUnreferenced DEF IFCInv
<1> QED
  BY <1>1, <1>2 DEF ServingOf, Idle

-----------------------------------------------------------------------------
(* The cancellation of a server is kept. *)

\* What CancellationKept says of one fiber.
KeepsCancellation(g) ==
    ctrl[g].canceled \/ server[g].pending_canceled
        => \/ ctrl'[g].canceled \/ server'[g].pending_canceled
           \/ ctrl[g].canceled /\ ~ctrl[g].unintr /\ at'[g] = "user"

\* Waking or canceling a fiber does not take a cancellation from it, and a
\* cancellation point takes it only from a fiber that can be interrupted.
LEMMA PendingStays ==
    ASSUME NEW c \in Ctrl, c.canceled
    PROVE  /\ CancellationPoint(c).canceled \/ ~c.unintr
           /\ \A d : Prodded(c, d) => d.canceled
  BY DEF Ctrl, CancellationPoint, Interrupted, Prodded, Cancel, WakeDone, WakeJoinRace

\* Fiber g loses nothing in a step that only prods it.
LEMMA ProddedKeeps ==
    ASSUME TypeOK, NEW g \in Fibers, Prodded(ctrl[g], ctrl'[g]),
           server[g].pending_canceled => server'[g].pending_canceled
    PROVE  KeepsCancellation(g)
<1>1. ctrl[g] \in Ctrl
  BY DEF TypeOK
<1> QED
  BY <1>1, PendingStays DEF KeepsCancellation

\* Nor does a fiber that goes on to its own code through a cancellation point.
LEMMA PointKeeps ==
    ASSUME TypeOK, NEW g \in Fibers, ctrl'[g] = CancellationPoint(ctrl[g]), at'[g] = "user",
           server[g].pending_canceled => ctrl[g].canceled \/ server'[g].pending_canceled
    PROVE  KeepsCancellation(g)
<1>1. ctrl[g] \in Ctrl
  BY DEF TypeOK
<1> QED
  BY <1>1, PendingStays DEF KeepsCancellation

\* The steps that leave joins and servers alone keep the cancellations.
LEMMA QuietKeepsCancellation ==
    ASSUME IFCInv, NEW f \in Fibers, QuietStep(f), NEW g \in Fibers
    PROVE  KeepsCancellation(g)
<1>1. /\ TypeOK /\ server' = server /\ QuietMove(f)
      /\ ctrl \in [Fibers -> Ctrl] /\ at \in [Fibers -> Points] /\ ctrl[g] \in Ctrl
  BY QuietStays, QuietMoves DEF IFCInv, Books, TypeOK
<1>2. CASE g # f
  BY <1>1, <1>2, ProddedKeeps DEF QuietMove
<1>3. CASE g = f
  <2>1. ASSUME ctrl'[f].canceled = ctrl[f].canceled
        PROVE  KeepsCancellation(g)
    BY <1>1, <1>3, <2>1 DEF KeepsCancellation
  <2>2. CASE Enter(f)
    BY <1>1, <1>3, <2>2, PointKeeps DEF Enter, Goto
  <2>3. CASE Throw(f)
    <3>1. CASE ctrl' = [ctrl EXCEPT ![f] = CancellationPoint(@)]
      BY <1>1, <1>3, <2>3, <3>1, PointKeeps DEF Throw, Goto
    <3>2. CASE ctrl' = [ctrl EXCEPT ![f].join_race = FALSE]
      <4>1. ctrl'[f].canceled = ctrl[f].canceled
        BY <1>1, <1>3, <3>2 DEF Ctrl
      <4> QED
        BY <2>1, <4>1
    <3> QED
      BY <2>3, <3>1, <3>2 DEF Throw
  <2>4. CASE Restore(f)
    <3>1. ctrl'[f].canceled = (ctrl[f].canceled \/ server[f].pending_canceled)
      BY <1>1, <1>3, <2>4 DEF Restore, Ctrl
    <3> QED
      BY <1>3, <3>1 DEF KeepsCancellation
  <2>5. CASE CancelFiber(f)
    BY <1>1, <1>3, <2>5, ProddedKeeps DEF CancelFiber, Prodded
  <2>6. CASE Teardown(f)
    BY <1>1, <1>3, <2>6, ProddedKeeps DEF Teardown, Prodded
  <2>7. CASE Defer(f)
    <3>1. ctrl'[f] = [ctrl[f] EXCEPT !.deferred = ~Bounces(ctrl[f])]
      BY <1>1, <2>7 DEF Defer
    <3>2. ctrl'[f].canceled = ctrl[f].canceled
      BY <1>1, <1>3, <3>1 DEF Ctrl
    <3> QED
      BY <2>1, <3>2
  <2>8. CASE ThrowMissing(f)
    <3>1. ctrl'[f].canceled = ctrl[f].canceled
      BY <1>1, <1>3, <2>8 DEF ThrowMissing, Ctrl
    <3> QED
      BY <2>1, <3>1
  <2>9. CASE SetUnintr(f)
    <3>1. ctrl'[f].canceled = ctrl[f].canceled
      BY <1>1, <1>3, <2>9 DEF SetUnintr, Ctrl
    <3> QED
      BY <2>1, <3>1
  <2>10. (\/ \E t \in Fibers : JoinMissing(f, t)
          \/ JoinWoken(f) \/ StepIn(f) \/ AcceptWoken(f) \/ CancelWoken(f) \/ Unindex(f))
            => ctrl' = ctrl
    BY DEF JoinMissing, JoinWoken, StepIn, AcceptWoken, CancelWoken, Unindex
  <2> QED
    BY <2>1, <2>2, <2>3, <2>4, <2>5, <2>6, <2>7, <2>8, <2>9, <2>10 DEF QuietStep
<1> QED
  BY <1>2, <1>3

\* So do all others.
LEMMA StepKeepsCancellation ==
    ASSUME IFCInv, NEW f \in Fibers, FiberStep(f), NEW g \in Fibers
    PROVE  KeepsCancellation(g)
<1>1. /\ TypeOK /\ RestoringOf(g) /\ ctrl[g] \in Ctrl
      /\ ctrl \in [Fibers -> Ctrl] /\ at \in [Fibers -> Points] /\ server \in [Fibers -> Servers]
  BY DEF IFCInv, Books, TypeOK, Restoring
<1>2. CASE QuietStep(f)
  BY <1>2, QuietKeepsCancellation
<1>3. ASSUME NEW t \in Fibers, NEW fn \in Fns, NEW type \in CallTypes, NEW s \in Fibers,
             JoinAttached(f, t, fn, type, s)
      PROVE  KeepsCancellation(g)
  BY <1>1, <1>3, ProddedKeeps DEF JoinAttached, SameOffer, Prodded
<1>4. ASSUME NEW t \in Fibers, NEW fn \in Fns, NEW type \in CallTypes,
             NEW closed \in Fibers \union {None}, JoinQueued(f, t, fn, type, closed)
      PROVE  KeepsCancellation(g)
  <2>1. ctrl' = [ctrl EXCEPT ![f].done = FALSE] /\ SameOffer(g)
    BY <1>4 DEF JoinQueued
  <2>2. ctrl'[g].canceled = ctrl[g].canceled
    BY <1>1, <2>1 DEF Ctrl
  <2> QED
    BY <2>1, <2>2 DEF SameOffer, KeepsCancellation
<1>5. CASE StepOutDone(f)
  BY <1>1, <1>5, ProddedKeeps DEF StepOutDone, Prodded
<1>6. CASE JoinFailedDone(f)
  BY <1>1, <1>6, ProddedKeeps, PointKeeps DEF JoinFailedDone, Goto, Prodded
<1>7. ASSUME NEW s \in Fibers, LeaveDone(f, s)
      PROVE  KeepsCancellation(g)
  <2>1. server[g].pending_canceled => server'[g].pending_canceled
    BY <1>1, <1>7 DEF LeaveDone, SameOffer
  <2>2. CASE g = f
    BY <1>7, <2>1, <2>2 DEF LeaveDone, KeepsCancellation
  <2>3. CASE g # f
    BY <1>1, <1>7, <2>1, <2>3, ProddedKeeps DEF LeaveDone, Prodded
  <2> QED
    BY <2>2, <2>3
<1>8. ASSUME NEW fns \in SUBSET Fns, NEW id \in Fibers, AcceptDone(f, fns, id)
      PROVE  KeepsCancellation(g)
  BY <1>1, <1>8, ProddedKeeps DEF AcceptDone, NoServer, Prodded
<1>9. ASSUME NEW taken \in SUBSET Fibers, NEW listening \in BOOLEAN, AttachDone(f, taken, listening)
      PROVE  KeepsCancellation(g)
  <2>1. server[g].pending_canceled => server'[g].pending_canceled
    BY <1>1, <1>9 DEF AttachDone, SameOffer
  <2>2. CASE g = f
    <3>1. ctrl'[g].canceled = ctrl[g].canceled
      BY <1>1, <1>9, <2>2 DEF AttachDone, Ctrl
    <3> QED
      BY <2>1, <3>1 DEF KeepsCancellation
  <2>3. CASE g # f
    BY <1>1, <1>9, <2>1, <2>3, ProddedKeeps DEF AttachDone, Prodded
  <2> QED
    BY <2>2, <2>3
<1>10. CASE CancelDone(f)
  <2>1. CASE g = f
    BY <1>10, <2>1 DEF CancelDone, KeepsCancellation
  <2>2. CASE g # f
    BY <1>1, <1>10, <2>2, ProddedKeeps DEF CancelDone, Prodded
  <2> QED
    BY <2>1, <2>2
<1>11. CASE CleanupDone(f)
  <2>1. CASE g = f
    BY <1>1, <1>11, <2>1, PointKeeps DEF CleanupDone, RestoringOf
  <2>2. CASE g # f
    BY <1>1, <1>11, <2>2, ProddedKeeps DEF CleanupDone, Prodded
  <2> QED
    BY <2>1, <2>2
<1> QED
  BY <1>2, <1>3, <1>4, <1>5, <1>6, <1>7, <1>8, <1>9, <1>10, <1>11, StepEffects DEF BusyStep

\* The cancellation of a fiber is not lost on its way through accepts and joins: it
\* is pending in the fiber or its server struct until a cancellation point throws it.
THEOREM CancellationsAreKept == Spec => CancellationKept
<1>1. ASSUME IFCInv, [Next]_vars
      PROVE  [\A f \in Fibers : KeepsCancellation(f)]_vars
  <2>1. CASE UNCHANGED vars
    BY <2>1 DEF vars, KeepsCancellation
  <2>2. CASE Next
    <3>1. PICK f \in Fibers : FiberStep(f)
      BY <1>1, <2>2, StepCases DEF IFCInv, Books
    <3> QED
      BY <1>1, <3>1, StepKeepsCancellation
  <2> QED
    BY <1>1, <2>1, <2>2
<1>2. IFCInv /\ [Next]_vars => [\A f \in Fibers : KeepsCancellation(f)]_vars
  BY <1>1
<1>3. Spec => [][\A f \in Fibers : KeepsCancellation(f)]_vars
  BY <1>2, InvHolds, PTL DEF Spec
<1> QED
  BY <1>3 DEF CancellationKept, KeepsCancellation

-----------------------------------------------------------------------------
(* Inter-fiber calls keep their promise, IFCUse.                           *)

\* The abstract variables, as they are read off the servers and the joins.
Offered == {s \in Fibers : Accepting(s)}

\* Who uses the state of s, and how.
UsersAre(s) == {<<c, joins[c[1]][c[2]].type>> : c \in server[s].running}

Users == [s \in Fibers |-> UsersAre(s)]

\* Nothing is offered at the start.
LEMMA InitMaps == Init => Use!Init
<1> SUFFICES ASSUME Init
             PROVE  Use!Init
  OBVIOUS
<1>1. \A s \in Fibers : server[s].accepting = None /\ server[s].running = {}
  BY DEF Init, NoServer
<1> QED
  BY <1>1 DEF Use!Init, Accepting

\* Who uses the state of s after a step, if nobody joined it.
LEMMA UsersStay ==
    ASSUME IFCInv, Books', NEW f \in Fibers, FiberStep(f), NEW s \in Fibers,
           server'[s].running \subseteq server[s].running
    PROVE  UsersAre(s)' = {<<c, joins[c[1]][c[2]].type>> : c \in server'[s].running}
<1>1. \A c \in server'[s].running : joins'[c[1]][c[2]].type = joins[c[1]][c[2]].type
  BY ClientsStay
<1> QED
  BY <1>1 DEF UsersAre

\* A step that begins and ends no use, and no offer, changes nothing.
LEMMA StepStutters ==
    ASSUME IFCInv, Books', NEW f \in Fibers, FiberStep(f),
           \A s \in Fibers : /\ server'[s].running = server[s].running
                             /\ server'[s].accepting = server[s].accepting
    PROVE  UNCHANGED Use!useVars
<1>1. \A s \in Fibers : UsersAre(s)' = UsersAre(s) /\ (Accepting(s)' <=> Accepting(s))
  BY UsersStay DEF UsersAre, Accepting
<1>2. Users' = Users /\ Offered' = Offered
  BY <1>1 DEF Users, Offered
<1> QED
  BY <1>2 DEF Use!useVars, Users, UsersAre, Offered

\* What another server offers and who uses it stays.
OthersStay(s) ==
    \A x \in Fibers \ {s} : UsersAre(x)' = UsersAre(x) /\ (Accepting(x)' <=> Accepting(x))

\* It does if its server struct is untouched.
LEMMA OthersAreLeft ==
    ASSUME IFCInv, Books', NEW f \in Fibers, FiberStep(f), NEW s \in Fibers,
           \A x \in Fibers \ {s} : server'[x] = server[x]
    PROVE  OthersStay(s)
  BY UsersStay DEF OthersStay, UsersAre, Accepting

\* The use of one server's state begins or ends.
LEMMA UseChanges ==
    ASSUME NEW s \in Fibers, OthersStay(s), Accepting(s), Accepting(s)'
    PROVE  /\ s \in Offered /\ Offered' = Offered
           /\ Users' = [Users EXCEPT ![s] = UsersAre(s)']
  BY DEF OthersStay, Users, Offered

\* The steps of IFCUse, by what they do to one server: a locked use begins,
LEMMA LockMaps ==
    ASSUME NEW s \in Fibers, OthersStay(s), Accepting(s), Accepting(s)',
           NEW c \in Fibers \X (1..MaxDepth),
           UsersAre(s) = {}, UsersAre(s)' = {<<c, "lock">>}
    PROVE  Use!Next
<1>1. /\ s \in Offered /\ Offered' = Offered /\ Users[s] = {}
      /\ Users' = [Users EXCEPT ![s] = {<<c, "lock">>}]
  BY UseChanges DEF Users
<1>2. Use!Lock(s, c)
  BY <1>1 DEF Use!Lock, Users, UsersAre, Offered
<1> QED
  BY <1>2 DEF Use!Next

\* shared uses begin,
LEMMA ShareMaps ==
    ASSUME NEW s \in Fibers, OthersStay(s), Accepting(s), Accepting(s)',
           UsersAre(s) \subseteq UsersAre(s)',
           UsersAre(s)' \subseteq (Fibers \X (1..MaxDepth)) \X {"shared"}
    PROVE  Use!Next
<1>1. /\ s \in Offered /\ Offered' = Offered
      /\ Users' = [Users EXCEPT ![s] = Users'[s]] /\ Users[s] \subseteq Users'[s]
      /\ Users'[s] \subseteq (Fibers \X (1..MaxDepth)) \X {"shared"}
  BY UseChanges DEF Users
<1>2. Use!Share(s)
  BY <1>1 DEF Use!Share, Users, UsersAre, Offered
<1> QED
  BY <1>2 DEF Use!Next

\* a use ends,
LEMMA LeaveMaps ==
    ASSUME NEW s \in Fibers, OthersStay(s), Accepting(s), Accepting(s)',
           NEW u \in UsersAre(s), UsersAre(s)' = UsersAre(s) \ {u}
    PROVE  Use!Next
<1>1. /\ Offered' = Offered /\ u \in Users[s]
      /\ Users' = [Users EXCEPT ![s] = @ \ {u}]
  BY UseChanges DEF Users
<1>2. Use!Leave(s, u)
  BY <1>1 DEF Use!Leave, Users, UsersAre, Offered
<1>3. u \in Users[s] <=> u \in {<<c, joins[c[1]][c[2]].type>> : c \in server[s].running}
  BY DEF Users, UsersAre
<1> QED
  BY <1>1, <1>2, <1>3 DEF Use!Next

\* an offer begins,
LEMMA OfferMaps ==
    ASSUME NEW s \in Fibers, OthersStay(s), UsersAre(s)' = UsersAre(s),
           ~Accepting(s), Accepting(s)'
    PROVE  Use!Next
<1>1. s \notin Offered /\ Offered' = Offered \union {s} /\ Users' = Users
  BY DEF OthersStay, Users, Offered
<1>2. Use!Offer(s)
  BY <1>1 DEF Use!Offer, Users, UsersAre, Offered
<1> QED
  BY <1>2 DEF Use!Next

\* and ends.
LEMMA TakeBackMaps ==
    ASSUME NEW s \in Fibers, OthersStay(s), UsersAre(s) = {}, UsersAre(s)' = {},
           Accepting(s), ~Accepting(s)'
    PROVE  Use!Next
<1>1. s \in Offered /\ Offered' = Offered \ {s} /\ Users' = Users /\ Users[s] = {}
  BY DEF OthersStay, Users, Offered
<1>2. Use!TakeBack(s)
  BY <1>1 DEF Use!TakeBack, Users, UsersAre, Offered
<1> QED
  BY <1>2 DEF Use!Next

\* A client that attaches itself to a server that listens locks or shares its state.
LEMMA JoinMaps ==
    ASSUME IFCInv, Books', NEW f \in Fibers, FiberStep(f),
           NEW t \in Fibers, NEW fn \in Fns, NEW type \in CallTypes, NEW s \in Fibers,
           JoinAttached(f, t, fn, type, s)
    PROVE  Use!Next
<1> DEFINE new == <<f, Depth(f) + 1>>
<1>1. /\ TypeOK /\ ServingOf(s) /\ StandingOf(s) /\ server[s].listening /\ SameOffer(s) /\ MaxDepth \in Nat
      /\ server'[s].running = server[s].running \union {new}
      /\ Depth(f) < MaxDepth /\ joins'[f][Depth(f) + 1] = NewClient(t, fn, type, s)
      /\ type = "lock" => ~server[s].read_locked
  BY IFCAssumption
     DEF IFCInv, Books, Serving, Standing, JoinAttached, Joins, Listening
<1>2. OthersStay(s)
  BY OthersAreLeft DEF JoinAttached
<1>3. Accepting(s) /\ Accepting(s)'
  BY <1>1 DEF ServingOf, StandingOf, AcceptPoints, SameOffer, Accepting
<1>4. new \in Fibers \X (1..MaxDepth) /\ joins'[new[1]][new[2]].type = type
  <2>1. Depth(f) \in Nat
    BY <1>1, JoinsTyped
  <2> QED
    BY <1>1, <2>1 DEF NewClient
<1>5. CASE type = "lock"
  <2>1. server[s].running = {}
    BY <1>1, <1>5 DEF ServingOf
  <2>2. UsersAre(s) = {} /\ UsersAre(s)' = {<<new, "lock">>}
    BY <1>1, <1>4, <1>5, <2>1 DEF UsersAre
  <2> QED
    BY <1>2, <1>3, <1>4, <2>2, LockMaps
<1>6. CASE type = "shared"
  <2>1. server[s].running \subseteq Fibers \X (1..MaxDepth)
    BY <1>1 DEF TypeOK, Servers
  <2>2. \A c \in server[s].running :
            joins[c[1]][c[2]].type = "shared" /\ joins'[c[1]][c[2]].type = "shared"
    BY <1>1, ClientsStay DEF ServingOf
  <2>3. UsersAre(s) \subseteq UsersAre(s)'
    BY <1>1, <2>2 DEF UsersAre
  <2>4. UsersAre(s)' \subseteq (Fibers \X (1..MaxDepth)) \X {"shared"}
    <3>1. \A c \in server'[s].running : c \in Fibers \X (1..MaxDepth) /\ joins'[c[1]][c[2]].type = "shared"
      BY <1>1, <1>4, <1>6, <2>1, <2>2
    <3> QED
      BY <3>1 DEF UsersAre
  <2> QED
    BY <1>2, <1>3, <2>3, <2>4, ShareMaps
<1> QED
  BY <1>5, <1>6 DEF CallTypes

\* So do the clients a server attaches: one locked one, or shared ones.
LEMMA AttachMaps ==
    ASSUME IFCInv, Books', NEW f \in Fibers, FiberStep(f),
           NEW taken \in SUBSET Fibers, NEW listening \in BOOLEAN, AttachDone(f, taken, listening)
    PROVE  Use!Next
<1>1. /\ TypeOK /\ Books /\ ServingOf(f) /\ StandingOf(f) /\ at[f] = "accept" /\ SameOffer(f)
      /\ taken \subseteq WaitersOf(f) /\ \A g, h \in taken : Client(g).type = "lock" => g = h
      /\ server'[f].running = server[f].running \union {<<g, Depth(g)>> : g \in taken}
  BY DEF IFCInv, Books, Serving, Standing, AttachDone
<1>2. OthersStay(f)
  BY OthersAreLeft DEF AttachDone
<1>3. Accepting(f) /\ Accepting(f)'
  BY <1>1 DEF StandingOf, AcceptPoints, SameOffer, Accepting
<1>4. server[f].running = {} /\ UsersAre(f) = {}
  BY <1>1 DEF ServingOf, Idle, UsersAre
<1>5. ASSUME NEW g \in taken
      PROVE  /\ <<g, Depth(g)>> \in Fibers \X (1..MaxDepth)
             /\ joins'[g][Depth(g)].type = Client(g).type /\ Client(g).type \in CallTypes
  <2>1. Waits(g) /\ g \in Fibers
    BY <1>1, <1>5 DEF WaitersOf
  <2>2. joins[g] # <<>> /\ Client(g).type \in CallTypes
    BY <1>1, <2>1, WaiterCalls
  <2>3. Depth(g) \in DOMAIN joins[g] /\ Depth(g) \in 1..Depth(g)
    BY <1>1, <2>1, <2>2, JoinsTyped
  <2>4. Depth(g) \in DOMAIN joins'[g]
    BY <2>1, <2>3 DEF AttachDone
  <2>5. joins'[g][Depth(g)].type = Client(g).type
    BY <2>1, <2>3, <2>4, EntryStays DEF Client
  <2>6. Depth(g) =< MaxDepth /\ MaxDepth \in Nat
    BY <1>1, <2>1, IFCAssumption DEF Books, Joined, JoinedOf
  <2> QED
    BY <2>1, <2>2, <2>3, <2>5, <2>6
<1>6. UsersAre(f)' = {<<<<g, Depth(g)>>, Client(g).type>> : g \in taken}
  <2>1. server'[f].running = {<<g, Depth(g)>> : g \in taken}
    BY <1>1, <1>4
  <2>2. \A g \in taken : joins'[<<g, Depth(g)>>[1]][<<g, Depth(g)>>[2]].type = Client(g).type
    BY <1>5
  <2> QED
    BY <2>1, <2>2 DEF UsersAre
<1>7. ASSUME NEW g \in taken, Client(g).type = "lock"
      PROVE  Use!Next
  <2>1. taken = {g}
    BY <1>1, <1>7
  <2>2. UsersAre(f)' = {<<<<g, Depth(g)>>, "lock">>}
    BY <1>6, <1>7, <2>1
  <2> QED
    BY <1>2, <1>3, <1>4, <1>5, <2>2, LockMaps
<1>8. CASE \A g \in taken : Client(g).type # "lock"
  <2>1. UsersAre(f)' \subseteq (Fibers \X (1..MaxDepth)) \X {"shared"}
    BY <1>5, <1>6, <1>8 DEF CallTypes
  <2> QED
    BY <1>2, <1>3, <1>4, <2>1, ShareMaps
<1> QED
  BY <1>7, <1>8

\* A client that leaves ends one use.
LEMMA ClientLeaveMaps ==
    ASSUME IFCInv, Books', NEW f \in Fibers, FiberStep(f), NEW s \in Fibers, LeaveDone(f, s)
    PROVE  Use!Next
<1> DEFINE gone == <<f, Depth(f)>>
           u == <<gone, joins[f][Depth(f)].type>>
<1>1. /\ gone \in server[s].running /\ server'[s].running = server[s].running \ {gone}
      /\ StandingOf(s) /\ at[s] \in AcceptPoints /\ SameOffer(s)
  BY DEF LeaveDone, IFCInv, Books, Standing
<1>2. OthersStay(s)
  BY OthersAreLeft DEF LeaveDone
<1>3. Accepting(s) /\ Accepting(s)'
  BY <1>1 DEF StandingOf, SameOffer, Accepting
<1>4. UsersAre(s)' = {<<c, joins[c[1]][c[2]].type>> : c \in server'[s].running}
  BY <1>1, UsersStay
<1>5. u \in UsersAre(s) /\ UsersAre(s)' = UsersAre(s) \ {u}
  BY <1>1, <1>4 DEF UsersAre
<1> QED
  BY <1>2, <1>3, <1>5, LeaveMaps

\* Every step is a step of IFCUse or changes nothing it sees.
LEMMA StepMaps ==
    ASSUME IFCInv, Books', NEW f \in Fibers, FiberStep(f)
    PROVE  [Use!Next]_(Use!useVars)
<1>1. /\ TypeOK /\ ServingOf(f) /\ StandingOf(f) /\ server \in [Fibers -> Servers]
  BY DEF IFCInv, Books, TypeOK, Serving, Standing
<1>2. CASE QuietStep(f) \/ StepOutDone(f) \/ JoinFailedDone(f)
  <2>1. server' = server
    BY <1>2, QuietStays DEF StepOutDone, JoinFailedDone
  <2> QED
    BY <2>1, StepStutters
<1>3. ASSUME NEW t \in Fibers, NEW fn \in Fns, NEW type \in CallTypes,
             NEW closed \in Fibers \union {None}, JoinQueued(f, t, fn, type, closed)
      PROVE  UNCHANGED Use!useVars
  <2>1. \A s \in Fibers : /\ server'[s].running = server[s].running
                          /\ server'[s].accepting = server[s].accepting
    BY <1>3 DEF JoinQueued, SameOffer
  <2> QED
    BY <2>1, StepStutters
<1>4. CASE CancelDone(f)
  <2>1. \A s \in Fibers : /\ server'[s].running = server[s].running
                          /\ server'[s].accepting = server[s].accepting
    BY <1>4 DEF CancelDone
  <2> QED
    BY <2>1, StepStutters
<1>5. ASSUME NEW fns \in SUBSET Fns, NEW id \in Fibers, AcceptDone(f, fns, id)
      PROVE  Use!Next
  <2>1. OthersStay(f)
    BY <1>5, OthersAreLeft DEF AcceptDone
  <2>2. ~Accepting(f) /\ Accepting(f)' /\ UsersAre(f) = {} /\ UsersAre(f)' = {}
    BY <1>5, IFCAssumption DEF AcceptDone, NoServer, Accepting, UsersAre
  <2> QED
    BY <2>1, <2>2, OfferMaps
<1>6. CASE CleanupDone(f)
  <2>1. server'[f] = NoServer /\ at[f] = "cleanup" /\ \A x \in Fibers \ {f} : server'[x] = server[x]
    BY <1>1, <1>6 DEF CleanupDone
  <2>2. OthersStay(f)
    BY <2>1, OthersAreLeft
  <2>3. Accepting(f) /\ ~Accepting(f)'
    BY <1>1, <2>1 DEF StandingOf, AcceptPoints, NoServer, Accepting
  <2>4. UsersAre(f) = {} /\ UsersAre(f)' = {}
    BY <1>1, <2>1 DEF ServingOf, Idle, NoServer, UsersAre
  <2> QED
    BY <2>2, <2>3, <2>4, TakeBackMaps
<1> QED
  BY <1>2, <1>3, <1>4, <1>5, <1>6, JoinMaps, AttachMaps, ClientLeaveMaps, StepEffects DEF BusyStep

\* Inter-fiber calls implement IFCUse: whatever joins, leaves, accepts and interrupts
\* interleave, the state of a server is used by one locked client alone or by shared
\* ones, only while it is offered, and is taken back when nobody uses it.
THEOREM CallsKeepPromise == Spec => ImplementsIFCUse
<1>1. ASSUME IFCInv, [Next]_vars
      PROVE  [Use!Next]_(Use!useVars)
  <2>1. CASE UNCHANGED vars
    BY <2>1 DEF vars, Use!useVars, Accepting
  <2>2. CASE Next
    <3>1. PICK f \in Fibers : FiberStep(f) /\ program' = program
      BY <1>1, <2>2, StepCases DEF IFCInv, Books
    <3>2. Books'
      BY <1>1, <3>1, BooksKept
    <3> QED
      BY <1>1, <3>1, <3>2, StepMaps
  <2> QED
    BY <1>1, <2>1, <2>2
<1>2. IFCInv /\ [Next]_vars => [Use!Next]_(Use!useVars)
  BY <1>1
<1> QED
  BY <1>2, InvHolds, InitMaps, PTL DEF Spec, ImplementsIFCUse, Use!Spec
=============================================================================
