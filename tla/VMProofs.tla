------------------------------- MODULE VMProofs -------------------------------
(***************************************************************************)
(* Proofs about the virtual memory allocator of VM, for any threads, any   *)
(* classes and any address space, as long as the system maps nothing in    *)
(* the hole of a reallocation (~HolesTaken).                               *)
(*                                                                         *)
(* PoolConsistent is not inductive.  A chunk in a thread's hand is only    *)
(* apart from all others if the thread's place says so, the lines of a     *)
(* reallocation are in no list while they are unmapped, and an entry of a  *)
(* dirty queue is in the list of its class.  Inv says so, and keeps the    *)
(* books of what is where for one pool, the parts and the lost lines, so   *)
(* that a step is one transaction on them.                                 *)
(***************************************************************************)
EXTENDS VM, FiniteSetTheorems, WellFoundedInduction, TLAPS

------------------------------------------------------------------------------
(* Induction on the naturals, and the powers of two.                        *)

Less == {p \in Nat \X Nat : p[1] < p[2]}

\* The naturals are well founded.
LEMMA LessIs == IsWellFoundedOn(Less, Nat)
BY NatLessThanWellFounded DEF OpToRel, Less

\* A set of naturals has a least element: the induction of the proofs below, each about
\* the least counterexample.
LEMMA LeastOf ==
    ASSUME NEW S \in SUBSET Nat, S # {}
    PROVE  \E x \in S : \A y \in S : x <= y
<1>1. PICK x \in S : \A y \in S : ~(<<y, x>> \in Less)
  BY LessIs, WFMin
<1>2. \A y \in S : ~(y < x)
  BY <1>1 DEF Less
<1> QED
  BY <1>2

\* f is Power2 up to n.
PowersTo(n, f) == /\ f \in [0 .. n -> Nat \ {0}] /\ f[0] = 1
                  /\ \A i \in 1 .. n : f[i] = 2 * f[i - 1]

\* There are powers of two up to every n.
LEMMA PowersExist == \A n \in Nat : \E f : PowersTo(n, f)
<1> DEFINE S == {n \in Nat : ~\E f : PowersTo(n, f)}
<1> SUFFICES ASSUME S # {} PROVE FALSE
  OBVIOUS
<1>1. PICK n \in S : \A m \in S : n <= m
  <2>1. S \in SUBSET Nat
    OBVIOUS
  <2> QED BY <2>1, LeastOf
<1>2. CASE n = 0
  <2> DEFINE f == [i \in 0 .. 0 |-> 1]
  <2>1. PowersTo(0, f)
    BY DEF PowersTo
  <2> QED BY <1>2, <2>1
<1>3. CASE n # 0
  <2>1. n - 1 \in Nat /\ n - 1 \notin S
    BY <1>1, <1>3
  <2>2. PICK f : PowersTo(n - 1, f)
    BY <2>1
  <2> DEFINE g == [i \in 0 .. n |-> IF i = n THEN 2 * f[n - 1] ELSE f[i]]
  <2>3. PowersTo(n, g)
    <3>1. f[n - 1] \in Nat \ {0}
      BY <2>1, <2>2 DEF PowersTo
    <3>2. g \in [0 .. n -> Nat \ {0}]
      BY <2>1, <2>2, <3>1 DEF PowersTo
    <3>3. g[0] = 1
      BY <2>1, <2>2, <1>3 DEF PowersTo
    <3>4. ASSUME NEW i \in 1 .. n PROVE g[i] = 2 * g[i - 1]
      <4>1. i - 1 \in 0 .. n /\ i - 1 # n
        BY <2>1
      <4>2. g[i - 1] = f[i - 1]
        BY <4>1
      <4>3. CASE i = n
        BY <4>2, <4>3
      <4>4. CASE i # n
        <5>1. i \in 1 .. n - 1
          BY <4>4
        <5>2. f[i] = 2 * f[i - 1]
          BY <2>2, <5>1 DEF PowersTo
        <5> QED BY <4>2, <4>4, <5>1, <5>2
      <4> QED BY <4>3, <4>4
    <3> QED BY <3>2, <3>3, <3>4 DEF PowersTo
  <2> QED BY <2>3
<1> QED BY <1>2, <1>3

\* The powers of two up to n are the first of those up to m.
LEMMA PowersUnique ==
    ASSUME NEW n \in Nat, NEW m \in Nat, NEW f, NEW g,
           PowersTo(n, f), PowersTo(m, g), n <= m
    PROVE  \A i \in 0 .. n : f[i] = g[i]
<1> DEFINE S == {i \in 0 .. n : f[i] # g[i]}
<1> SUFFICES ASSUME S # {} PROVE FALSE
  OBVIOUS
<1>1. PICK i \in S : \A j \in S : i <= j
  <2>1. S \in SUBSET Nat
    OBVIOUS
  <2> QED BY <2>1, LeastOf
<1>2. i # 0
  BY DEF PowersTo
<1>3. i - 1 \in 0 .. n /\ i - 1 \notin S
  BY <1>1, <1>2
<1>4. f[i] = 2 * f[i - 1] /\ g[i] = 2 * g[i - 1]
  BY <1>1, <1>2 DEF PowersTo
<1> QED BY <1>1, <1>3, <1>4

\* Power2 is what its definition says.
LEMMA Power2Is ==
    /\ Power2 \in [Nat -> Nat \ {0}]
    /\ Power2[0] = 1
    /\ \A n \in Nat : Power2[n + 1] = 2 * Power2[n]
<1> DEFINE U(n) == CHOOSE f : PowersTo(n, f)
           g == [n \in Nat |-> U(n)[n]]
<1>1. \A n \in Nat : PowersTo(n, U(n))
  BY PowersExist
<1>2. \A n \in Nat : g[n] \in Nat \ {0}
  BY <1>1 DEF PowersTo
<1>3. g[0] = 1
  BY <1>1 DEF PowersTo
<1>4. ASSUME NEW n \in Nat PROVE g[n + 1] = 2 * g[n]
  <2> HIDE DEF U
  <2>1. PowersTo(n, U(n)) /\ PowersTo(n + 1, U(n + 1))
    BY <1>1
  <2>2. U(n)[n] = U(n + 1)[n]
    BY <2>1, PowersUnique
  <2>3. U(n + 1)[n + 1] = 2 * U(n + 1)[n]
    BY <2>1 DEF PowersTo
  <2> QED BY <2>2, <2>3
<1>5. \A n \in Nat \ {0} : g[n] = 2 * g[n - 1]
  <2> TAKE n \in Nat \ {0}
  <2>1. n - 1 \in Nat /\ (n - 1) + 1 = n
    OBVIOUS
  <2> HIDE DEF g
  <2> QED BY <1>4, <2>1
<1>6. g = [n \in Nat |-> IF n = 0 THEN 1 ELSE 2 * g[n - 1]]
  <2>1. g = [n \in Nat |-> g[n]]
    OBVIOUS
  <2>2. \A n \in Nat : g[n] = IF n = 0 THEN 1 ELSE 2 * g[n - 1]
    BY <1>3, <1>5
  <2> HIDE DEF g
  <2> QED BY <2>1, <2>2
<1> HIDE DEF g
<1>7. \E h : h = [n \in Nat |-> IF n = 0 THEN 1 ELSE 2 * h[n - 1]]
  BY <1>6
<1>8. Power2 = [n \in Nat |-> IF n = 0 THEN 1 ELSE 2 * Power2[n - 1]]
  BY <1>7 DEF Power2
<1> DEFINE S == {i \in Nat : Power2[i] # g[i]}
<1>9. S = {}
  <2> SUFFICES ASSUME S # {} PROVE FALSE
    OBVIOUS
  <2>1. PICK i \in S : \A j \in S : i <= j
    <3>1. S \in SUBSET Nat
      OBVIOUS
    <3> QED BY <3>1, LeastOf
  <2>2. i # 0
    BY <1>8, <1>3
  <2>3. i - 1 \in Nat /\ i - 1 \notin S
    BY <2>1, <2>2
  <2>4. Power2[i] = 2 * Power2[i - 1]
    <3>1. i \in Nat
      OBVIOUS
    <3> HIDE DEF S
    <3> QED BY <1>8, <2>2, <3>1
  <2>5. g[i] = 2 * g[i - 1]
    BY <1>5, <2>2
  <2> QED BY <2>1, <2>3, <2>4, <2>5
<1>10. \A n \in Nat : Power2[n] = g[n]
  BY <1>9
<1>11. Power2 = [n \in Nat |-> Power2[n]]
  <2> DEFINE w(P) == [n \in Nat |-> IF n = 0 THEN 1 ELSE 2 * P[n - 1]]
  <2>1. Power2 = w(Power2)
    BY <1>8
  <2>2. w(Power2) = [n \in Nat |-> w(Power2)[n]]
    OBVIOUS
  <2> HIDE DEF w
  <2> QED BY <2>1, <2>2
<1>12. Power2 \in [Nat -> Nat \ {0}]
  <2>1. \A n \in Nat : Power2[n] \in Nat \ {0}
    BY <1>2, <1>10
  <2> QED BY <1>11, <2>1
<1>13. \A n \in Nat : Power2[n + 1] = 2 * Power2[n]
  BY <1>4, <1>10
<1> QED
  BY <1>3, <1>10, <1>12, <1>13

------------------------------------------------------------------------------
(* Sizes and spans.                                                         *)

Pos == Nat \ {0}

\* The sizes of the classes: each is twice the one below it.
LEMMA LinesInIs ==
    /\ LinesIn(1) = 1
    /\ \A c \in Pos : LinesIn(c) \in Pos /\ LinesIn(c + 1) = 2 * LinesIn(c)
<1>1. LinesIn(1) = 1
  BY Power2Is DEF LinesIn
<1>2. ASSUME NEW c \in Pos PROVE LinesIn(c) \in Pos /\ LinesIn(c + 1) = 2 * LinesIn(c)
  <2>1. c - 1 \in Nat /\ (c - 1) + 1 = c /\ (c + 1) - 1 = c
    BY DEF Pos
  <2>2. Power2[c - 1] \in Pos
    BY <2>1, Power2Is DEF Pos
  <2>3. Power2[(c - 1) + 1] = 2 * Power2[c - 1]
    BY <2>1, Power2Is
  <2> QED BY <2>1, <2>2, <2>3 DEF LinesIn
<1> QED
  BY <1>1, <1>2

\* A larger class is at least twice as large.
LEMMA LinesGrow ==
    ASSUME NEW c \in Pos, NEW d \in Pos, c < d
    PROVE  2 * LinesIn(c) <= LinesIn(d)
<1> DEFINE S == {n \in Nat : c < n /\ ~(2 * LinesIn(c) <= LinesIn(n))}
<1> SUFFICES ASSUME S # {} PROVE FALSE
  BY DEF Pos
<1>1. PICK n \in S : \A m \in S : n <= m
  <2>1. S \in SUBSET Nat
    OBVIOUS
  <2> QED BY <2>1, LeastOf
<1>2. n - 1 \in Pos /\ n - 1 \notin S /\ (n - 1) + 1 = n /\ c <= n - 1
  BY <1>1 DEF Pos
<1>3. LinesIn(n) = 2 * LinesIn(n - 1) /\ LinesIn(n - 1) \in Pos /\ LinesIn(c) \in Pos
  <2> HIDE DEF S
  <2> QED BY <1>2, LinesInIs
<1>4. CASE c = n - 1
  BY <1>1, <1>3, <1>4 DEF Pos
<1>5. CASE c < n - 1
  BY <1>1, <1>2, <1>3, <1>5 DEF Pos
<1> QED
  BY <1>2, <1>4, <1>5 DEF Pos

\* A larger class is not smaller.
LEMMA LinesMonotone ==
    ASSUME NEW c \in Pos, NEW d \in Pos, c <= d
    PROVE  LinesIn(c) <= LinesIn(d)
<1>1. LinesIn(c) \in Pos /\ LinesIn(d) \in Pos
  BY LinesInIs
<1>2. CASE c = d
  BY <1>1, <1>2 DEF Pos
<1>3. CASE c < d
  BY <1>1, <1>3, LinesGrow DEF Pos
<1> QED
  BY <1>2, <1>3 DEF Pos

\* Two chunks fit in one whose class is the sum of theirs.
LEMMA LinesSum ==
    ASSUME NEW c \in Pos, NEW n \in Pos
    PROVE  LinesIn(c) + LinesIn(n) <= LinesIn(c + n)
<1>1. c + n \in Pos /\ c < c + n /\ n < c + n
  BY DEF Pos
<1>2. 2 * LinesIn(c) <= LinesIn(c + n) /\ 2 * LinesIn(n) <= LinesIn(c + n)
  BY <1>1, LinesGrow
<1>3. LinesIn(c) \in Pos /\ LinesIn(n) \in Pos /\ LinesIn(c + n) \in Pos
  BY <1>1, LinesInIs
<1> QED
  BY <1>2, <1>3 DEF Pos

\* A chunk is not empty.
LEMMA SpanHas ==
    ASSUME NEW a \in Nat, NEW c \in Pos
    PROVE  a \in Span(a, c) /\ Span(a, c) \subseteq Nat
<1>1. LinesIn(c) \in Pos
  BY LinesInIs
<1> QED
  BY <1>1 DEF Span, Pos

\* The chunk of class k that begins 2^(k-1) lines after a.
Rung(a, k) == Span(a + LinesIn(k), k)

\* It ends where the next begins.
LEMMA RungIs ==
    ASSUME NEW a \in Nat, NEW k \in Pos
    PROVE  /\ a + LinesIn(k) \in Nat /\ k + 1 \in Pos
           /\ Rung(a, k) = a + LinesIn(k) .. a + LinesIn(k + 1) - 1
<1>1. LinesIn(k) \in Pos /\ LinesIn(k + 1) = 2 * LinesIn(k)
  BY LinesInIs
<1> QED
  BY <1>1 DEF Rung, Span, Pos

\* A chunk is its first part of class c and the rungs of the classes from c up: the chunks
\* of Halves, and those of a page of indexes and what is linked besides.
LEMMA Ladder ==
    ASSUME NEW a \in Nat, NEW c \in Pos, NEW large \in Pos, c <= large
    PROVE  /\ Span(a, large) = Span(a, c) \cup UNION {Rung(a, k) : k \in c .. large - 1}
           /\ \A k \in c .. large - 1 : Rung(a, k) \cap Span(a, c) = {}
           /\ \A k, j \in c .. large - 1 : k # j => Rung(a, k) \cap Rung(a, j) = {}
<1> USE DEF Pos
<1>1. \A k \in c .. large : k \in Pos /\ LinesIn(k) \in Pos
  BY LinesInIs
<1>2. \A k \in c .. large : LinesIn(c) <= LinesIn(k) /\ LinesIn(k) <= LinesIn(large)
  BY <1>1, LinesMonotone
<1>3. \A k \in c .. large - 1 :
        Rung(a, k) = a + LinesIn(k) .. a + LinesIn(k + 1) - 1
  BY <1>1, RungIs
<1>4. \A k \in c .. large - 1 : k + 1 \in c .. large
  OBVIOUS
<1>5. ASSUME NEW k \in c .. large - 1 PROVE Rung(a, k) \cap Span(a, c) = {}
  <2>1. LinesIn(c) <= LinesIn(k) /\ LinesIn(k) \in Nat /\ LinesIn(c) \in Nat
    BY <1>1, <1>2
  <2>2. Rung(a, k) = a + LinesIn(k) .. a + LinesIn(k + 1) - 1
    BY <1>3
  <2>3. LinesIn(k + 1) \in Nat
    BY <1>1, <1>4
  <2>4. ASSUME NEW x \in Rung(a, k), x \in Span(a, c) PROVE FALSE
    <3>1. x \in Int /\ x >= a + LinesIn(k)
      BY <2>1, <2>2, <2>3
    <3>2. x < a + LinesIn(c)
      BY <2>1, <2>4 DEF Span
    <3> QED BY <2>1, <3>1, <3>2
  <2> QED BY <2>4
<1>6. ASSUME NEW k \in c .. large - 1, NEW j \in c .. large - 1, k < j
      PROVE  Rung(a, k) \cap Rung(a, j) = {}
  <2>1. LinesIn(k + 1) <= LinesIn(j) /\ LinesIn(k + 1) \in Nat /\ LinesIn(j) \in Nat
    <3>1. k + 1 \in Pos /\ j \in Pos /\ k + 1 <= j
      BY <1>6
    <3>2. LinesIn(k + 1) <= LinesIn(j)
      BY <3>1, LinesMonotone
    <3>3. LinesIn(k + 1) \in Pos /\ LinesIn(j) \in Pos
      BY <3>1, LinesInIs
    <3> QED BY <3>2, <3>3
  <2>2. LinesIn(k) \in Nat /\ LinesIn(j + 1) \in Nat
    BY <1>1, <1>4
  <2> QED BY <1>3, <2>1, <2>2
<1>7. \A k, j \in c .. large - 1 : k # j => Rung(a, k) \cap Rung(a, j) = {}
  <2> TAKE k, j \in c .. large - 1
  <2> HAVE k # j
  <2>1. k < j \/ j < k
    OBVIOUS
  <2> QED BY <1>6, <2>1
<1>8. ASSUME NEW x \in Span(a, c) PROVE x \in Span(a, large)
  <2>1. LinesIn(c) <= LinesIn(large) /\ LinesIn(c) \in Nat /\ LinesIn(large) \in Nat
    BY <1>1, <1>2
  <2> QED BY <2>1 DEF Span
<1>9. ASSUME NEW k \in c .. large - 1, NEW x \in Rung(a, k) PROVE x \in Span(a, large)
  <2>1. LinesIn(k + 1) <= LinesIn(large) /\ LinesIn(k) \in Nat /\ LinesIn(k + 1) \in Nat
        /\ LinesIn(large) \in Nat
    BY <1>1, <1>2, <1>4
  <2>2. x \in a + LinesIn(k) .. a + LinesIn(k + 1) - 1
    BY <1>3
  <2> QED BY <2>1, <2>2 DEF Span
<1>10. ASSUME NEW x \in Span(a, large), x \notin Span(a, c)
       PROVE  \E k \in c .. large - 1 : x \in Rung(a, k)
  <2>1. LinesIn(c) \in Nat /\ LinesIn(large) \in Nat
    BY <1>1
  <2>2. x \in Int /\ a <= x /\ x < a + LinesIn(large) /\ a + LinesIn(c) <= x
    BY <2>1, <1>10 DEF Span
  <2> DEFINE S == {m \in c .. large : x < a + LinesIn(m)}
  <2>3. S \in SUBSET Nat /\ large \in S
    BY <2>2
  <2>4. PICK m \in S : \A j \in S : m <= j
    BY <2>3, LeastOf
  <2>5. m # c
    BY <2>1, <2>2
  <2>6. m - 1 \in c .. large - 1 /\ m - 1 \notin S /\ (m - 1) + 1 = m /\ m - 1 \in c .. large
    BY <2>4, <2>5
  <2>7. LinesIn(m - 1) \in Nat /\ LinesIn(m) \in Nat
    BY <1>1, <2>6
  <2>8. x \in a + LinesIn(m - 1) .. a + LinesIn(m) - 1
    BY <2>2, <2>4, <2>6, <2>7
  <2>9. Rung(a, m - 1) = a + LinesIn(m - 1) .. a + LinesIn((m - 1) + 1) - 1
    BY <1>3, <2>6
  <2> QED BY <2>6, <2>8, <2>9
<1> QED
  <2>1. Span(a, large) = Span(a, c) \cup UNION {Rung(a, k) : k \in c .. large - 1}
    BY <1>8, <1>9, <1>10
  <2> QED BY <2>1, <1>5, <1>7

------------------------------------------------------------------------------
(* Lists without repetition.                                                *)

\* An element is put first.
LEMMA PutFirst ==
    ASSUME NEW T, NEW s \in Seq(T), NEW x \in T
    PROVE  /\ <<x>> \o s \in Seq(T)
           /\ ToSet(<<x>> \o s) = ToSet(s) \cup {x}
           /\ IsInjective(s) /\ x \notin ToSet(s) => IsInjective(<<x>> \o s)
<1> DEFINE r == <<x>> \o s
<1>1. r \in Seq(T) /\ Len(r) = Len(s) + 1 /\ Len(s) \in Nat
  OBVIOUS
<1>2. r[1] = x /\ \A i \in 1 .. Len(s) : r[i + 1] = s[i]
  OBVIOUS
<1>3. DOMAIN r = 1 .. Len(s) + 1 /\ DOMAIN s = 1 .. Len(s)
  BY <1>1
<1> HIDE DEF r
<1>4. ToSet(r) = ToSet(s) \cup {x}
  <2>1. ASSUME NEW i \in DOMAIN r PROVE r[i] \in ToSet(s) \cup {x}
    <3>1. CASE i = 1
      BY <1>2, <3>1
    <3>2. CASE i # 1
      <4>1. i - 1 \in 1 .. Len(s) /\ (i - 1) + 1 = i
        BY <1>1, <1>3, <3>2
      <4>2. r[i] = s[i - 1]
        BY <1>2, <4>1
      <4> QED BY <1>3, <4>1, <4>2 DEF ToSet
    <3> QED BY <3>1, <3>2
  <2>2. ASSUME NEW i \in DOMAIN s PROVE s[i] \in ToSet(r)
    <3>1. i + 1 \in DOMAIN r /\ r[i + 1] = s[i]
      BY <1>1, <1>2, <1>3
    <3> QED BY <3>1 DEF ToSet
  <2>3. x \in ToSet(r)
    <3>1. 1 \in DOMAIN r
      BY <1>1, <1>3
    <3> QED BY <3>1, <1>2 DEF ToSet
  <2> QED BY <2>1, <2>2, <2>3 DEF ToSet
<1>5. ASSUME IsInjective(s), x \notin ToSet(s) PROVE IsInjective(r)
  <2> SUFFICES ASSUME NEW i \in DOMAIN r, NEW j \in DOMAIN r, r[i] = r[j], i < j PROVE FALSE
    BY <1>1, <1>3 DEF IsInjective
  <2>1. j - 1 \in DOMAIN s /\ (j - 1) + 1 = j /\ r[j] = s[j - 1]
    <3>1. j - 1 \in 1 .. Len(s) /\ (j - 1) + 1 = j
      BY <1>1, <1>3
    <3> QED BY <3>1, <1>2, <1>3
  <2>2. CASE i = 1
    BY <2>1, <2>2, <1>2, <1>5 DEF ToSet
  <2>3. CASE i # 1
    <3>1. i - 1 \in 1 .. Len(s) /\ (i - 1) + 1 = i
      BY <1>1, <1>3, <2>3
    <3>2. i - 1 \in DOMAIN s /\ r[i] = s[i - 1] /\ i - 1 # j - 1
      BY <3>1, <1>2, <1>3
    <3> QED BY <2>1, <3>2, <1>5 DEF IsInjective
  <2> QED BY <2>2, <2>3
<1> QED
  BY <1>1, <1>4, <1>5 DEF r

\* An element is put last.
LEMMA PutLast ==
    ASSUME NEW T, NEW s \in Seq(T), NEW x \in T
    PROVE  /\ Append(s, x) \in Seq(T)
           /\ ToSet(Append(s, x)) = ToSet(s) \cup {x}
           /\ IsInjective(s) /\ x \notin ToSet(s) => IsInjective(Append(s, x))
<1> DEFINE r == Append(s, x)
<1>1. r \in Seq(T) /\ Len(r) = Len(s) + 1 /\ Len(s) \in Nat
  OBVIOUS
<1>2. r[Len(s) + 1] = x /\ \A i \in 1 .. Len(s) : r[i] = s[i]
  OBVIOUS
<1>3. DOMAIN r = 1 .. Len(s) + 1 /\ DOMAIN s = 1 .. Len(s)
  BY <1>1
<1> HIDE DEF r
<1>4. ToSet(r) = ToSet(s) \cup {x}
  <2>1. ASSUME NEW i \in DOMAIN r PROVE r[i] \in ToSet(s) \cup {x}
    <3>1. i = Len(s) + 1 \/ i \in DOMAIN s
      BY <1>1, <1>3
    <3> QED BY <3>1, <1>2, <1>3 DEF ToSet
  <2>2. ASSUME NEW i \in DOMAIN s PROVE s[i] \in ToSet(r)
    <3>1. i \in DOMAIN r /\ r[i] = s[i]
      BY <1>1, <1>2, <1>3
    <3> QED BY <3>1 DEF ToSet
  <2>3. x \in ToSet(r)
    <3>1. Len(s) + 1 \in DOMAIN r
      BY <1>1, <1>3
    <3> QED BY <3>1, <1>2 DEF ToSet
  <2> QED BY <2>1, <2>2, <2>3 DEF ToSet
<1>5. ASSUME IsInjective(s), x \notin ToSet(s) PROVE IsInjective(r)
  <2> SUFFICES ASSUME NEW i \in DOMAIN r, NEW j \in DOMAIN r, r[i] = r[j], i < j PROVE FALSE
    BY <1>1, <1>3 DEF IsInjective
  <2>1. i \in DOMAIN s /\ r[i] = s[i]
    BY <1>1, <1>2, <1>3
  <2>2. CASE j = Len(s) + 1
    BY <2>1, <2>2, <1>2, <1>5 DEF ToSet
  <2>3. CASE j # Len(s) + 1
    <3>1. j \in DOMAIN s /\ r[j] = s[j] /\ i # j
      BY <1>1, <1>2, <1>3, <2>3
    <3>2. s[i] = s[j]
      BY <2>1, <3>1
    <3> QED BY <2>1, <3>1, <3>2, <1>5 DEF IsInjective
  <2> QED BY <2>2, <2>3
<1> QED
  BY <1>1, <1>4, <1>5 DEF r

\* The element at a place is taken out.
LEMMA TakeOut ==
    ASSUME NEW T, NEW s \in Seq(T), NEW i \in DOMAIN s, IsInjective(s)
    PROVE  /\ RemoveAt(s, i) \in Seq(T)
           /\ ToSet(RemoveAt(s, i)) = ToSet(s) \ {s[i]}
           /\ IsInjective(RemoveAt(s, i))
<1> DEFINE r == RemoveAt(s, i)
<1>1. i \in 1 .. Len(s) /\ Len(s) \in Nat /\ DOMAIN s = 1 .. Len(s)
  OBVIOUS
<1>2. /\ r \in Seq(T) /\ Len(r) = Len(s) - 1
      /\ \A k \in 1 .. Len(s) - 1 : r[k] = IF k < i THEN s[k] ELSE s[k + 1]
  <2> DEFINE p == SubSeq(s, 1, i - 1)
             q == SubSeq(s, i + 1, Len(s))
  <2>1. p \in Seq(T) /\ Len(p) = i - 1 /\ \A k \in 1 .. i - 1 : p[k] = s[k]
    BY <1>1
  <2>2. q \in Seq(T) /\ Len(q) = Len(s) - i /\ \A k \in 1 .. Len(s) - i : q[k] = s[i + k]
    BY <1>1
  <2>3. r = p \o q
    BY DEF RemoveAt
  <2> HIDE DEF p, q, r
  <2>4. r \in Seq(T) /\ Len(r) = Len(s) - 1
    <3>0. p \in Seq(T) /\ q \in Seq(T)
      BY <2>1, <2>2
    <3>1. p \o q \in Seq(T) /\ Len(p \o q) = Len(p) + Len(q)
      BY <3>0
    <3>2. Len(p) + Len(q) = Len(s) - 1
      BY <1>1, <2>1, <2>2
    <3> QED BY <2>3, <3>1, <3>2
  <2>5. ASSUME NEW k \in 1 .. Len(s) - 1 PROVE r[k] = IF k < i THEN s[k] ELSE s[k + 1]
    <3>1. CASE k < i
      <4>1. k \in 1 .. i - 1 /\ k \in 1 .. Len(p)
        BY <1>1, <2>1, <3>1
      <4>2. r[k] = p[k]
        BY <2>1, <2>2, <2>3, <4>1
      <4> QED BY <2>1, <3>1, <4>1, <4>2
    <3>2. CASE ~(k < i)
      <4>1. k - (i - 1) \in 1 .. Len(s) - i /\ i + (k - (i - 1)) = k + 1
        BY <1>1, <3>2
      <4>2. r[k] = q[k - (i - 1)]
        BY <1>1, <2>1, <2>2, <2>3, <3>2
      <4> QED BY <2>2, <3>2, <4>1, <4>2
    <3> QED BY <3>1, <3>2
  <2> QED BY <2>4, <2>5
<1>3. DOMAIN r = 1 .. Len(s) - 1
  BY <1>2
<1> HIDE DEF r
<1>4. ASSUME NEW k \in DOMAIN r
      PROVE  \E j \in DOMAIN s : j # i /\ r[k] = s[j] /\ j = IF k < i THEN k ELSE k + 1
  <2>1. CASE k < i
    BY <1>1, <1>2, <1>3, <2>1
  <2>2. CASE ~(k < i)
    <3>1. k + 1 \in DOMAIN s /\ k + 1 # i /\ r[k] = s[k + 1]
      BY <1>1, <1>2, <1>3, <2>2
    <3> QED BY <3>1, <2>2
  <2> QED BY <2>1, <2>2
<1>5. ASSUME NEW j \in DOMAIN s, j # i PROVE s[j] \in ToSet(r)
  <2>1. CASE j < i
    <3>1. j \in DOMAIN r /\ r[j] = s[j]
      BY <1>1, <1>2, <1>3, <2>1
    <3> QED BY <3>1 DEF ToSet
  <2>2. CASE i < j
    <3>1. j - 1 \in 1 .. Len(s) - 1 /\ ~(j - 1 < i) /\ (j - 1) + 1 = j
      BY <1>1, <2>2
    <3>2. j - 1 \in DOMAIN r /\ r[j - 1] = s[j]
      BY <1>2, <1>3, <3>1
    <3> QED BY <3>2 DEF ToSet
  <2> QED BY <1>1, <1>5, <2>1, <2>2
<1>6. ToSet(r) = ToSet(s) \ {s[i]}
  <2>1. ASSUME NEW k \in DOMAIN r PROVE r[k] \in ToSet(s) \ {s[i]}
    BY <1>4 DEF ToSet, IsInjective
  <2>2. ASSUME NEW x \in ToSet(s) \ {s[i]} PROVE x \in ToSet(r)
    <3>1. PICK j \in DOMAIN s : x = s[j]
      BY DEF ToSet
    <3> QED BY <3>1, <1>5
  <2> QED BY <2>1, <2>2 DEF ToSet
<1>7. IsInjective(r)
  <2> SUFFICES ASSUME NEW k \in DOMAIN r, NEW l \in DOMAIN r, r[k] = r[l] PROVE k = l
    BY DEF IsInjective
  <2>1. PICK j \in DOMAIN s : r[k] = s[j] /\ j = IF k < i THEN k ELSE k + 1
    BY <1>4
  <2>2. PICK m \in DOMAIN s : r[l] = s[m] /\ m = IF l < i THEN l ELSE l + 1
    BY <1>4
  <2>3. j = m
    BY <2>1, <2>2 DEF IsInjective
  <2>4. k \in Nat /\ l \in Nat /\ i \in Nat
    BY <1>1, <1>3
  <2> QED BY <2>1, <2>2, <2>3, <2>4
<1> QED
  BY <1>2, <1>6, <1>7 DEF r

\* The first element is taken out.
LEMMA TakeFirst ==
    ASSUME NEW T, NEW s \in Seq(T), s # <<>>, IsInjective(s)
    PROVE  /\ Tail(s) \in Seq(T) /\ Head(s) \in T /\ Head(s) \in ToSet(s)
           /\ ToSet(Tail(s)) = ToSet(s) \ {Head(s)}
           /\ IsInjective(Tail(s))
<1> DEFINE r == Tail(s)
<1>1. r \in Seq(T) /\ Head(s) \in T /\ Head(s) = s[1] /\ Len(s) \in Nat /\ Len(s) >= 1
  OBVIOUS
<1>2. Len(r) = Len(s) - 1 /\ \A k \in 1 .. Len(s) - 1 : r[k] = s[k + 1]
  OBVIOUS
<1>3. DOMAIN r = 1 .. Len(s) - 1 /\ DOMAIN s = 1 .. Len(s)
  BY <1>1, <1>2
<1> HIDE DEF r
<1>4. ToSet(r) = ToSet(s) \ {s[1]}
  <2>1. ASSUME NEW k \in DOMAIN r PROVE r[k] \in ToSet(s) \ {s[1]}
    <3>1. k + 1 \in DOMAIN s /\ 1 \in DOMAIN s /\ k + 1 # 1 /\ r[k] = s[k + 1]
      BY <1>1, <1>2, <1>3
    <3> QED BY <3>1 DEF ToSet, IsInjective
  <2>2. ASSUME NEW x \in ToSet(s) \ {s[1]} PROVE x \in ToSet(r)
    <3>1. PICK j \in DOMAIN s : x = s[j]
      BY DEF ToSet
    <3>2. j - 1 \in DOMAIN r /\ (j - 1) + 1 = j
      BY <3>1, <1>1, <1>3
    <3>3. r[j - 1] = s[j]
      BY <3>2, <1>2, <1>3
    <3> QED BY <3>1, <3>2, <3>3 DEF ToSet
  <2> QED BY <2>1, <2>2 DEF ToSet
<1>5. IsInjective(r)
  <2> SUFFICES ASSUME NEW k \in DOMAIN r, NEW l \in DOMAIN r, r[k] = r[l] PROVE k = l
    BY DEF IsInjective
  <2>1. k + 1 \in DOMAIN s /\ l + 1 \in DOMAIN s /\ s[k + 1] = s[l + 1]
    BY <1>1, <1>2, <1>3
  <2>2. k + 1 = l + 1
    BY <2>1 DEF IsInjective
  <2> QED BY <1>3, <2>2
<1>6. s[1] \in ToSet(s)
  BY <1>1, <1>3 DEF ToSet
<1> QED
  BY <1>1, <1>4, <1>5, <1>6 DEF r

------------------------------------------------------------------------------
(* Parts and the lines they account for.                                    *)

LinesOfAll(S) == UNION {LinesOf(x) : x \in S}

Apart(S) == \A x, y \in S : x # y => LinesOf(x) \cap LinesOf(y) = {}

\* The parts S and the lines l make up the lines P, each line once.
Account(S, l, P) ==
    Apart(S) /\ LinesOfAll(S) \cap l = {} /\ LinesOfAll(S) \cup l = P

\* The lines of a union of sets of parts, and of one part.
LEMMA LinesOfUnion ==
    /\ LinesOfAll({}) = {} /\ Apart({})
    /\ \A R, S : LinesOfAll(R \cup S) = LinesOfAll(R) \cup LinesOfAll(S)
    /\ \A x : LinesOfAll({x}) = LinesOf(x) /\ Apart({x})
BY DEF LinesOfAll, Apart

\* Sets of parts with no line in common are apart together.
LEMMA ApartUnion ==
    ASSUME NEW R, NEW S, Apart(R), Apart(S), LinesOfAll(R) \cap LinesOfAll(S) = {}
    PROVE  Apart(R \cup S)
<1> SUFFICES ASSUME NEW x \in R \cup S, NEW y \in R \cup S, x # y, NEW l,
                    l \in LinesOf(x), l \in LinesOf(y)
             PROVE  FALSE
  BY DEF Apart
<1>1. CASE x \in R /\ y \in R
  BY <1>1 DEF Apart
<1>2. CASE x \in S /\ y \in S
  BY <1>2 DEF Apart
<1>3. CASE x \in R /\ y \in S
  BY <1>3 DEF LinesOfAll
<1>4. CASE x \in S /\ y \in R
  BY <1>4 DEF LinesOfAll
<1> QED
  BY <1>1, <1>2, <1>3, <1>4

\* The converse, of two sets without a common part.
LEMMA ApartParts ==
    ASSUME NEW R, NEW S, Apart(R \cup S), R \cap S = {}
    PROVE  Apart(R) /\ Apart(S) /\ LinesOfAll(R) \cap LinesOfAll(S) = {}
<1>1. Apart(R) /\ Apart(S)
  BY DEF Apart
<1>2. ASSUME NEW l \in LinesOfAll(R), l \in LinesOfAll(S) PROVE FALSE
  <2>1. PICK x \in R : l \in LinesOf(x)
    BY DEF LinesOfAll
  <2>2. PICK y \in S : l \in LinesOf(y)
    BY <1>2 DEF LinesOfAll
  <2> QED BY <2>1, <2>2 DEF Apart
<1> QED
  BY <1>1, <1>2

\* A step replaces the parts X by Y, which account for the lines of X but for those that
\* it leaves behind, and for new ones.
LEMMA Regroup ==
    ASSUME NEW R, NEW X, NEW Y, NEW l, NEW m, NEW E, NEW P,
           Account(R \cup X, l, P), R \cap X = {},
           Apart(Y), LinesOfAll(Y) \cap m = {},
           LinesOfAll(Y) \cup m = LinesOfAll(X) \cup l \cup E,
           l \subseteq m, E \cap P = {}
    PROVE  Account(R \cup Y, m, P \cup E)
<1>1. Apart(R) /\ LinesOfAll(R) \cap LinesOfAll(X) = {}
  BY ApartParts DEF Account
<1>2. LinesOfAll(R \cup X) = LinesOfAll(R) \cup LinesOfAll(X)
      /\ LinesOfAll(R \cup Y) = LinesOfAll(R) \cup LinesOfAll(Y)
  BY LinesOfUnion
<1>3. /\ (LinesOfAll(R) \cup LinesOfAll(X)) \cap l = {}
      /\ LinesOfAll(R) \cup LinesOfAll(X) \cup l = P
  BY <1>2 DEF Account
<1>4. LinesOfAll(R) \cap LinesOfAll(Y) = {}
  BY <1>1, <1>3
<1>5. Apart(R \cup Y)
  BY <1>1, <1>4, ApartUnion
<1>6. LinesOfAll(R \cup Y) \cap m = {}
  BY <1>1, <1>2, <1>3
<1>7. LinesOfAll(R \cup Y) \cup m = P \cup E
  BY <1>2, <1>3
<1> QED
  BY <1>5, <1>6, <1>7 DEF Account

\* The same when no line is new or left behind.
LEMMA Exchanged ==
    ASSUME NEW R, NEW X, NEW Y, NEW l, NEW P,
           Account(R \cup X, l, P), R \cap X = {},
           Apart(Y), LinesOfAll(Y) = LinesOfAll(X)
    PROVE  Account(R \cup Y, l, P)
<1>1. LinesOfAll(X) \cap l = {}
  BY LinesOfUnion DEF Account
<1>2. Account(R \cup Y, l, P \cup {})
  <2>1. LinesOfAll(Y) \cup l = LinesOfAll(X) \cup l \cup {}
    OBVIOUS
  <2>2. LinesOfAll(Y) \cap l = {} /\ l \subseteq l /\ {} \cap P = {}
    BY <1>1
  <2> HIDE DEF Account
  <2> QED BY <2>1, <2>2, Regroup
<1>3. P \cup {} = P
  OBVIOUS
<1> QED
  BY <1>2, <1>3

IsPart(x) == x.at \in Nat /\ x.class \in Pos

\* A part begins with one of its lines.
LEMMA PartHas ==
    ASSUME NEW x, IsPart(x)
    PROVE  x.at \in LinesOf(x)
BY SpanHas DEF IsPart, LinesOf

\* Parts that are apart begin at different lines.
LEMMA PartsByLine ==
    ASSUME NEW S, Apart(S), NEW x \in S, NEW y \in S, IsPart(x), IsPart(y), x.at = y.at
    PROVE  x = y
BY PartHas DEF Apart

\* The fields of a part.
LEMMA PartIs ==
    ASSUME NEW place, NEW a, NEW c
    PROVE  /\ Part(place, a, c).place = place
           /\ Part(place, a, c).at = a /\ Part(place, a, c).class = c
           /\ LinesOf(Part(place, a, c)) = Span(a, c)
           /\ a \in Nat /\ c \in Pos => IsPart(Part(place, a, c))
BY DEF Part, LinesOf, IsPart

------------------------------------------------------------------------------
(* The pool.                                                                *)

FreeParts(lists) == UNION {{Part(<<"free">>, a, k) : a \in ToSet(lists[k])} : k \in Classes}
IndexParts(pages) == {Part(<<"index">>, a, PageClass) : a \in pages}
PoolParts(pool) == FreeParts(pool.free) \cup IndexParts(pool.pages)
BigParts(lists) == {x \in FreeParts(lists) : x.class >= PageClass}

Lists == [Classes -> Seq(Nat)]
Chunks == [at : Nat, class : Classes]
PoolType == [free : Lists, indexes : Nat, pages : SUBSET Nat]

\* The pool is well formed: no chunk is in it twice and the indexes are accounted for.
PoolOK(pool) ==
    /\ pool \in PoolType
    /\ \A k \in Classes : IsInjective(pool.free[k])
    /\ Apart(PoolParts(pool))
    /\ IsFiniteSet(pool.pages) /\ IsFiniteSet(BigParts(pool.free))
    /\ PerPage * Cardinality(pool.pages) = pool.indexes + Cardinality(BigParts(pool.free))

\* What VMAssumption says of the sizes.
LEMMA SizesAre ==
    /\ PageClass \in Pos /\ PageClass \in Classes /\ MaxClass \in Pos /\ Classes \subseteq Pos
    /\ PerPage \in Pos /\ Lines \in Nat /\ InitEnd \in Nat
    /\ \A k \in Classes : k \in Nat /\ k <= MaxClass
    /\ \A k \in Classes : k - PageClass <= PerPage
BY VMAssumption DEF Pos, Classes

\* What is in the lists.
LEMMA FreePartsIs ==
    ASSUME NEW lists, NEW x
    PROVE  x \in FreeParts(lists) <=>
               \E k \in Classes : \E a \in ToSet(lists[k]) : x = Part(<<"free">>, a, k)
BY DEF FreeParts

\* What is in the pool is a part.
LEMMA PoolPartsArePart ==
    ASSUME NEW lists \in Lists, NEW pages \in SUBSET Nat
    PROVE  /\ \A x \in FreeParts(lists) : IsPart(x) /\ x.place = <<"free">> /\ x.class \in Classes
           /\ \A x \in IndexParts(pages) : IsPart(x) /\ x.place = <<"index">>
<1>1. ASSUME NEW x \in FreeParts(lists)
      PROVE  IsPart(x) /\ x.place = <<"free">> /\ x.class \in Classes
  <2>1. PICK k \in Classes : \E a \in ToSet(lists[k]) : x = Part(<<"free">>, a, k)
    BY FreePartsIs
  <2>2. PICK a \in ToSet(lists[k]) : x = Part(<<"free">>, a, k)
    BY <2>1
  <2>3. lists[k] \in Seq(Nat)
    BY DEF Lists
  <2>4. a \in Nat
    BY <2>3 DEF ToSet
  <2> QED BY <2>2, <2>4, PartIs, SizesAre
<1>2. ASSUME NEW x \in IndexParts(pages) PROVE IsPart(x) /\ x.place = <<"index">>
  <2>1. PICK a \in pages : x = Part(<<"index">>, a, PageClass)
    BY DEF IndexParts
  <2> QED BY <2>1, PartIs, SizesAre
<1> QED
  BY <1>1, <1>2

\* A chunk is put in the list of its class.
LEMMA FreePartsPut ==
    ASSUME NEW lists \in Lists, NEW k \in Classes, NEW a \in Nat
    PROVE  LET put == [lists EXCEPT ![k] = <<a>> \o @] IN
           /\ put \in Lists
           /\ FreeParts(put) = FreeParts(lists) \cup {Part(<<"free">>, a, k)}
<1> DEFINE put == [lists EXCEPT ![k] = <<a>> \o @]
<1>1. lists[k] \in Seq(Nat)
  BY DEF Lists
<1>2. <<a>> \o lists[k] \in Seq(Nat) /\ ToSet(<<a>> \o lists[k]) = ToSet(lists[k]) \cup {a}
  BY <1>1, PutFirst
<1>3. put \in Lists
  BY <1>2 DEF Lists
<1>4. \A j \in Classes : put[j] = IF j = k THEN <<a>> \o lists[k] ELSE lists[j]
  BY DEF Lists
<1> HIDE DEF put
<1>5. \A j \in Classes : ToSet(put[j]) = IF j = k THEN ToSet(lists[k]) \cup {a} ELSE ToSet(lists[j])
  BY <1>2, <1>4
<1>6. ASSUME NEW x PROVE x \in FreeParts(put) <=> x \in FreeParts(lists) \/ x = Part(<<"free">>, a, k)
  <2>1. ASSUME x \in FreeParts(put) PROVE x \in FreeParts(lists) \/ x = Part(<<"free">>, a, k)
    <3>1. PICK j \in Classes : \E b \in ToSet(put[j]) : x = Part(<<"free">>, b, j)
      BY <2>1, FreePartsIs
    <3>2. PICK b \in ToSet(put[j]) : x = Part(<<"free">>, b, j)
      BY <3>1
    <3>3. b \in ToSet(lists[j]) \/ (b = a /\ j = k)
      BY <1>5
    <3> QED BY <3>2, <3>3, FreePartsIs
  <2>2. ASSUME x \in FreeParts(lists) PROVE x \in FreeParts(put)
    <3>1. PICK j \in Classes : \E b \in ToSet(lists[j]) : x = Part(<<"free">>, b, j)
      BY <2>2, FreePartsIs
    <3>2. PICK b \in ToSet(lists[j]) : x = Part(<<"free">>, b, j)
      BY <3>1
    <3>3. b \in ToSet(put[j])
      BY <1>5
    <3> QED BY <3>2, <3>3, FreePartsIs
  <2>3. a \in ToSet(put[k])
    BY <1>5
  <2>4. Part(<<"free">>, a, k) \in FreeParts(put)
    BY <2>3, FreePartsIs
  <2> QED BY <2>1, <2>2, <2>4
<1>7. FreeParts(put) = FreeParts(lists) \cup {Part(<<"free">>, a, k)}
  BY <1>6
<1> QED
  BY <1>3, <1>7 DEF put

\* The first chunk of a list is taken.
LEMMA FreePartsTake ==
    ASSUME NEW lists \in Lists, NEW k \in Classes, lists[k] # <<>>, IsInjective(lists[k])
    PROVE  LET taken == [lists EXCEPT ![k] = Tail(@)]
               x == Part(<<"free">>, Head(lists[k]), k) IN
           /\ taken \in Lists /\ Head(lists[k]) \in Nat /\ IsInjective(taken[k])
           /\ x \in FreeParts(lists)
           /\ FreeParts(taken) = FreeParts(lists) \ {x}
<1> DEFINE taken == [lists EXCEPT ![k] = Tail(@)]
           a == Head(lists[k])
<1>1. lists[k] \in Seq(Nat)
  BY DEF Lists
<1>2. /\ Tail(lists[k]) \in Seq(Nat) /\ a \in Nat /\ a \in ToSet(lists[k])
      /\ ToSet(Tail(lists[k])) = ToSet(lists[k]) \ {a} /\ IsInjective(Tail(lists[k]))
  BY <1>1, TakeFirst
<1>3. taken \in Lists
  BY <1>2 DEF Lists
<1>4. \A j \in Classes : taken[j] = IF j = k THEN Tail(lists[k]) ELSE lists[j]
  BY DEF Lists
<1> HIDE DEF taken, a
<1>5. \A j \in Classes : ToSet(taken[j]) = IF j = k THEN ToSet(lists[k]) \ {a} ELSE ToSet(lists[j])
  BY <1>2, <1>4
<1>6. ASSUME NEW x PROVE x \in FreeParts(taken) <=> x \in FreeParts(lists) /\ x # Part(<<"free">>, a, k)
  <2>1. ASSUME x \in FreeParts(taken) PROVE x \in FreeParts(lists) /\ x # Part(<<"free">>, a, k)
    <3>1. PICK j \in Classes : \E b \in ToSet(taken[j]) : x = Part(<<"free">>, b, j)
      BY <2>1, FreePartsIs
    <3>2. PICK b \in ToSet(taken[j]) : x = Part(<<"free">>, b, j)
      BY <3>1
    <3>3. b \in ToSet(lists[j]) /\ ~(b = a /\ j = k)
      BY <1>5
    <3> QED BY <3>2, <3>3, FreePartsIs, PartIs
  <2>2. ASSUME x \in FreeParts(lists), x # Part(<<"free">>, a, k) PROVE x \in FreeParts(taken)
    <3>1. PICK j \in Classes : \E b \in ToSet(lists[j]) : x = Part(<<"free">>, b, j)
      BY <2>2, FreePartsIs
    <3>2. PICK b \in ToSet(lists[j]) : x = Part(<<"free">>, b, j)
      BY <3>1
    <3>3. b \in ToSet(taken[j])
      BY <1>5, <2>2, <3>2
    <3> QED BY <3>2, <3>3, FreePartsIs
  <2> QED BY <2>1, <2>2
<1>7. Part(<<"free">>, a, k) \in FreeParts(lists)
  BY <1>2, FreePartsIs
<1>8. FreeParts(taken) = FreeParts(lists) \ {Part(<<"free">>, a, k)}
  BY <1>6
<1>9. IsInjective(taken[k])
  BY <1>2, <1>4
<1> QED
  BY <1>2, <1>3, <1>7, <1>8, <1>9 DEF taken, a

\* A chunk of each class from that of a page up is put in its list.
RungLists(lists, a, large) ==
    [k \in Classes |-> IF k \in PageClass .. large - 1 THEN <<a + LinesIn(k)>> \o lists[k]
                       ELSE lists[k]]

RungParts(a, large) == {Part(<<"free">>, a + LinesIn(k), k) : k \in PageClass .. large - 1}

\* The rungs of a chunk that becomes a page of indexes are in the lists besides what was.
LEMMA FreePartsRungs ==
    ASSUME NEW lists \in Lists, NEW a \in Nat, NEW large \in Classes
    PROVE  /\ RungLists(lists, a, large) \in Lists
           /\ FreeParts(RungLists(lists, a, large)) = FreeParts(lists) \cup RungParts(a, large)
<1> DEFINE put == RungLists(lists, a, large)
<1>1. ASSUME NEW k \in Classes PROVE a + LinesIn(k) \in Nat /\ lists[k] \in Seq(Nat)
  <2>1. LinesIn(k) \in Pos
    BY LinesInIs, SizesAre
  <2> QED BY <2>1 DEF Lists, Pos
<1>2. ASSUME NEW k \in Classes
      PROVE  /\ <<a + LinesIn(k)>> \o lists[k] \in Seq(Nat)
             /\ ToSet(<<a + LinesIn(k)>> \o lists[k]) = ToSet(lists[k]) \cup {a + LinesIn(k)}
  BY <1>1, PutFirst
<1>3. put \in Lists
  BY <1>1, <1>2 DEF Lists, RungLists
<1>4. \A k \in Classes :
        ToSet(put[k]) = IF k \in PageClass .. large - 1 THEN ToSet(lists[k]) \cup {a + LinesIn(k)}
                        ELSE ToSet(lists[k])
  BY <1>2 DEF RungLists
<1>5. PageClass .. large - 1 \subseteq Classes
  BY SizesAre DEF Classes, Pos
<1> HIDE DEF put
<1>6. ASSUME NEW x \in FreeParts(put) PROVE x \in FreeParts(lists) \cup RungParts(a, large)
  <2>1. PICK k \in Classes : \E b \in ToSet(put[k]) : x = Part(<<"free">>, b, k)
    BY FreePartsIs
  <2>2. PICK b \in ToSet(put[k]) : x = Part(<<"free">>, b, k)
    BY <2>1
  <2>3. b \in ToSet(lists[k]) \/ (k \in PageClass .. large - 1 /\ b = a + LinesIn(k))
    BY <1>4
  <2> QED BY <2>2, <2>3, FreePartsIs DEF RungParts
<1>7. ASSUME NEW x \in FreeParts(lists) PROVE x \in FreeParts(put)
  <2>1. PICK k \in Classes : \E b \in ToSet(lists[k]) : x = Part(<<"free">>, b, k)
    BY FreePartsIs
  <2>2. PICK b \in ToSet(lists[k]) : x = Part(<<"free">>, b, k)
    BY <2>1
  <2>3. b \in ToSet(put[k])
    BY <1>4
  <2> QED BY <2>2, <2>3, FreePartsIs
<1>8. ASSUME NEW x \in RungParts(a, large) PROVE x \in FreeParts(put)
  <2>1. PICK k \in PageClass .. large - 1 : x = Part(<<"free">>, a + LinesIn(k), k)
    BY DEF RungParts
  <2>2. k \in Classes /\ a + LinesIn(k) \in ToSet(put[k])
    BY <1>4, <1>5
  <2> QED BY <2>1, <2>2, FreePartsIs
<1>9. FreeParts(put) = FreeParts(lists) \cup RungParts(a, large)
  BY <1>6, <1>7, <1>8
<1> QED
  BY <1>3, <1>9 DEF put

\* There are as many rungs as classes from that of a page up.
LEMMA RungPartsCount ==
    ASSUME NEW a \in Nat, NEW large \in Classes, large >= PageClass
    PROVE  /\ IsFiniteSet(RungParts(a, large))
           /\ Cardinality(RungParts(a, large)) = large - PageClass
<1> DEFINE I == PageClass .. large - 1
           R == RungParts(a, large)
           f == [k \in I |-> Part(<<"free">>, a + LinesIn(k), k)]
<1>1. large - 1 \in Int /\ PageClass \in Int
  BY SizesAre DEF Pos
<1>2. IsFiniteSet(I) /\ Cardinality(I) = large - PageClass
  <2>1. large \in Nat /\ PageClass \in Nat
    BY SizesAre DEF Pos
  <2>2. /\ IsFiniteSet(PageClass .. large - 1)
        /\ Cardinality(PageClass .. large - 1)
              = IF PageClass > large - 1 THEN 0 ELSE (large - 1) - PageClass + 1
    BY <1>1, FS_Interval
  <2>3. (IF PageClass > large - 1 THEN 0 ELSE (large - 1) - PageClass + 1) = large - PageClass
    BY <2>1
  <2> QED BY <2>2, <2>3
<1>3. f \in Bijection(I, R)
  <2>1. f \in [I -> R]
    BY DEF RungParts
  <2>2. \A k, j \in I : f[k] = f[j] => k = j
    BY PartIs
  <2>3. \A x \in R : \E k \in I : f[k] = x
    BY DEF RungParts
  <2> HIDE DEF f, R
  <2>4. IsInjective(f)
    BY <2>1, <2>2 DEF IsInjective
  <2> QED BY <2>1, <2>3, <2>4 DEF Bijection, Injection, Surjection
<1>4. ExistsBijection(I, R)
  BY <1>3 DEF ExistsBijection
<1> QED
  <2> HIDE DEF I, R
  <2>1. IsFiniteSet(R) /\ Cardinality(R) = Cardinality(I)
    BY <1>2, <1>4, FS_Bijection
  <2> QED BY <1>2, <2>1 DEF R

\* The rungs and the page of indexes make up the chunk.
LEMMA RungPartsLines ==
    ASSUME NEW a \in Nat, NEW large \in Classes, large >= PageClass
    PROVE  LET Y == RungParts(a, large) \cup {Part(<<"index">>, a, PageClass)} IN
           /\ Apart(Y)
           /\ LinesOfAll(Y) = Span(a, large)
<1> DEFINE R == RungParts(a, large)
           p == Part(<<"index">>, a, PageClass)
<1>1. large \in Pos /\ PageClass \in Pos /\ PageClass <= large
  BY SizesAre
<1>2. /\ Span(a, large) = Span(a, PageClass) \cup UNION {Rung(a, k) : k \in PageClass .. large - 1}
      /\ \A k \in PageClass .. large - 1 : Rung(a, k) \cap Span(a, PageClass) = {}
      /\ \A k, j \in PageClass .. large - 1 : k # j => Rung(a, k) \cap Rung(a, j) = {}
  BY <1>1, Ladder
<1>3. \A k \in PageClass .. large - 1 :
          LinesOf(Part(<<"free">>, a + LinesIn(k), k)) = Rung(a, k)
  BY PartIs DEF Rung
<1>4. Apart(R)
  BY <1>2, <1>3 DEF Apart, RungParts
<1>5. LinesOfAll(R) = UNION {Rung(a, k) : k \in PageClass .. large - 1}
  <2>1. ASSUME NEW l \in LinesOfAll(R) PROVE \E k \in PageClass .. large - 1 : l \in Rung(a, k)
    <3>1. PICK x \in R : l \in LinesOf(x)
      BY DEF LinesOfAll
    <3>2. PICK k \in PageClass .. large - 1 : x = Part(<<"free">>, a + LinesIn(k), k)
      BY DEF RungParts
    <3> QED BY <1>3, <3>1, <3>2
  <2>2. ASSUME NEW k \in PageClass .. large - 1, NEW l \in Rung(a, k) PROVE l \in LinesOfAll(R)
    BY <1>3 DEF LinesOfAll, RungParts
  <2> QED BY <2>1, <2>2
<1>6. Apart({p}) /\ LinesOfAll({p}) = Span(a, PageClass)
  <2>1. LinesOf(p) = Span(a, PageClass)
    BY PartIs
  <2> HIDE DEF p
  <2> QED BY <2>1, LinesOfUnion
<1>7. LinesOfAll(R) \cap LinesOfAll({p}) = {}
  BY <1>2, <1>5, <1>6
<1> HIDE DEF R, p
<1>8. Apart(R \cup {p})
  BY <1>4, <1>6, <1>7, ApartUnion
<1>9. LinesOfAll(R \cup {p}) = Span(a, large)
  BY <1>2, <1>5, <1>6, LinesOfUnion
<1> QED
  BY <1>8, <1>9 DEF R, p

\* What a push does to the pool is well formed, and the pool gains the lines of the chunk.
Gains(pool, next, lines) ==
    /\ PoolOK(next)
    /\ LinesOfAll(PoolParts(next)) = LinesOfAll(PoolParts(pool)) \cup lines

\* A chunk is linked, with an index if it needs one.
LEMMA LinkedGains ==
    ASSUME NEW pool, PoolOK(pool), NEW c \in Chunks,
           c.class < PageClass \/ pool.indexes > 0,
           Span(c.at, c.class) \cap LinesOfAll(PoolParts(pool)) = {}
    PROVE  Gains(pool, Linked(pool, c), Span(c.at, c.class))
<1> DEFINE lists == [pool.free EXCEPT ![c.class] = <<c.at>> \o @]
           left == IF c.class < PageClass THEN pool.indexes ELSE pool.indexes - 1
           next == [free |-> lists, indexes |-> left, pages |-> pool.pages]
           x == Part(<<"free">>, c.at, c.class)
<1>1. c.at \in Nat /\ c.class \in Classes /\ c.class \in Pos /\ c.class \in Nat
  BY SizesAre DEF Chunks
<1>2. /\ pool \in PoolType /\ pool.free \in Lists /\ pool.indexes \in Nat /\ pool.pages \in SUBSET Nat
  BY DEF PoolOK, PoolType
<1>3. Linked(pool, c) = next
  BY DEF Linked
<1>4. lists \in Lists /\ FreeParts(lists) = FreeParts(pool.free) \cup {x}
  BY <1>1, <1>2, FreePartsPut
<1>5. left \in Nat
  BY <1>2, SizesAre
<1>6. LinesOf(x) = Span(c.at, c.class) /\ x.at = c.at /\ x.class = c.class /\ IsPart(x)
      /\ x.place = <<"free">>
  BY <1>1, PartIs
<1>7. x \notin PoolParts(pool)
  <2>1. c.at \in LinesOf(x)
    BY <1>6, PartHas
  <2> QED BY <1>6, <2>1 DEF LinesOfAll
<1>8. \A k \in Classes : IsInjective(lists[k])
  <2>1. c.at \notin ToSet(pool.free[c.class])
    <3>1. x \notin FreeParts(pool.free)
      BY <1>7 DEF PoolParts
    <3> QED BY <1>1, <3>1, FreePartsIs
  <2>2. pool.free[c.class] \in Seq(Nat) /\ IsInjective(pool.free[c.class])
    BY <1>1, <1>2 DEF PoolOK, Lists
  <2>3. IsInjective(<<c.at>> \o pool.free[c.class])
    BY <1>1, <2>1, <2>2, PutFirst
  <2>4. \A k \in Classes : lists[k] = IF k = c.class THEN <<c.at>> \o pool.free[c.class] ELSE pool.free[k]
    BY <1>2 DEF Lists
  <2> HIDE DEF lists
  <2> QED BY <2>3, <2>4 DEF PoolOK
<1> HIDE DEF lists, x
<1>9. PoolParts(next) = PoolParts(pool) \cup {x}
  BY <1>4 DEF PoolParts
<1>10. /\ LinesOfAll(PoolParts(pool) \cup {x}) = LinesOfAll(PoolParts(pool)) \cup Span(c.at, c.class)
       /\ Apart(PoolParts(pool) \cup {x})
  <2>1. LinesOfAll({x}) = Span(c.at, c.class) /\ Apart({x})
    BY <1>6, LinesOfUnion
  <2>2. LinesOfAll(PoolParts(pool)) \cap LinesOfAll({x}) = {} /\ Apart(PoolParts(pool))
    BY <2>1 DEF PoolOK
  <2> QED BY <2>1, <2>2, ApartUnion, LinesOfUnion
<1>11. /\ IsFiniteSet(BigParts(lists))
       /\ PerPage * Cardinality(pool.pages) = left + Cardinality(BigParts(lists))
  <2>1. /\ IsFiniteSet(BigParts(pool.free)) /\ Cardinality(BigParts(pool.free)) \in Nat
        /\ PerPage * Cardinality(pool.pages) = pool.indexes + Cardinality(BigParts(pool.free))
    BY FS_CardinalityType DEF PoolOK
  <2>2. CASE c.class < PageClass
    <3>1. BigParts(lists) = BigParts(pool.free)
      BY <1>1, <1>4, <1>6, <2>2, SizesAre DEF BigParts, Pos
    <3> QED BY <2>1, <2>2, <3>1
  <2>3. CASE ~(c.class < PageClass)
    <3>1. BigParts(lists) = BigParts(pool.free) \cup {x}
      BY <1>1, <1>4, <1>6, <2>3, SizesAre DEF BigParts, Pos
    <3>2. x \notin BigParts(pool.free)
      BY <1>7 DEF BigParts, PoolParts
    <3>3. IsFiniteSet(BigParts(lists)) /\ Cardinality(BigParts(lists)) = Cardinality(BigParts(pool.free)) + 1
      BY <2>1, <3>1, <3>2, FS_AddElement
    <3>4. left + (Cardinality(BigParts(pool.free)) + 1) = pool.indexes + Cardinality(BigParts(pool.free))
      BY <1>2, <2>1, <2>3
    <3> QED BY <2>1, <3>3, <3>4
  <2> QED BY <2>2, <2>3
<1>12. PoolOK(next)
  <2>1. next \in PoolType
    BY <1>2, <1>4, <1>5 DEF PoolType
  <2>2. next.free = lists /\ next.indexes = left /\ next.pages = pool.pages
    OBVIOUS
  <2>3. Apart(PoolParts(next))
    BY <1>9, <1>10
  <2>4. IsFiniteSet(pool.pages)
    BY DEF PoolOK
  <2> HIDE DEF next, left
  <2> QED BY <1>8, <1>11, <2>1, <2>2, <2>3, <2>4 DEF PoolOK
<1>13. LinesOfAll(PoolParts(next)) = LinesOfAll(PoolParts(pool)) \cup Span(c.at, c.class)
  BY <1>9, <1>10
<1> QED
  BY <1>3, <1>12, <1>13 DEF Gains

\* Without an index the first page of the chunk becomes indexes.
LEMMA PageGains ==
    ASSUME NEW pool, PoolOK(pool), NEW c \in Chunks,
           c.class >= PageClass, pool.indexes = 0,
           Span(c.at, c.class) \cap LinesOfAll(PoolParts(pool)) = {}
    PROVE  Gains(pool, [free |-> RungLists(pool.free, c.at, c.class),
                        indexes |-> PerPage - (c.class - PageClass),
                        pages |-> pool.pages \cup {c.at}], Span(c.at, c.class))
<1> DEFINE lists == RungLists(pool.free, c.at, c.class)
           left == PerPage - (c.class - PageClass)
           next == [free |-> lists, indexes |-> left, pages |-> pool.pages \cup {c.at}]
           R == RungParts(c.at, c.class)
           p == Part(<<"index">>, c.at, PageClass)
<1>1. c.at \in Nat /\ c.class \in Classes /\ c.class \in Pos /\ c.class \in Nat
  BY SizesAre DEF Chunks
<1>2. /\ pool \in PoolType /\ pool.free \in Lists /\ pool.indexes \in Nat /\ pool.pages \in SUBSET Nat
  BY DEF PoolOK, PoolType
<1>3. lists \in Lists /\ FreeParts(lists) = FreeParts(pool.free) \cup R
  BY <1>1, <1>2, FreePartsRungs
<1>4. left \in Nat
  BY <1>1, SizesAre DEF Pos
<1>5. Apart(R \cup {p}) /\ LinesOfAll(R \cup {p}) = Span(c.at, c.class)
  BY <1>1, RungPartsLines
<1>6. \A x \in R \cup {p} : IsPart(x)
  <2>1. IsPart(p)
    BY <1>1, PartIs, SizesAre
  <2>2. ASSUME NEW x \in R PROVE IsPart(x)
    <3>1. x \in FreeParts(lists)
      BY <1>3
    <3> QED BY <1>3, <3>1, PoolPartsArePart
  <2> QED BY <2>1, <2>2
<1>7. \A x \in R \cup {p} : x \notin PoolParts(pool)
  <2> TAKE x \in R \cup {p}
  <2>1. x.at \in LinesOf(x)
    BY <1>6, PartHas
  <2>2. x.at \in Span(c.at, c.class)
    BY <1>5, <2>1 DEF LinesOfAll
  <2> QED BY <2>1, <2>2 DEF LinesOfAll
<1>8. ASSUME NEW k \in Classes PROVE IsInjective(lists[k])
  <2>1. IsInjective(pool.free[k]) /\ pool.free[k] \in Seq(Nat)
    BY <1>2 DEF PoolOK, Lists
  <2>2. CASE k \in PageClass .. c.class - 1
    <3>1. c.at + LinesIn(k) \in Nat
      <4>1. LinesIn(k) \in Pos
        BY LinesInIs, SizesAre
      <4> QED BY <1>1, <4>1 DEF Pos
    <3>2. Part(<<"free">>, c.at + LinesIn(k), k) \notin FreeParts(pool.free)
      BY <1>7, <2>2 DEF RungParts, PoolParts
    <3>3. c.at + LinesIn(k) \notin ToSet(pool.free[k])
      BY <3>2, FreePartsIs
    <3>4. IsInjective(<<c.at + LinesIn(k)>> \o pool.free[k])
      BY <2>1, <3>1, <3>3, PutFirst
    <3> QED BY <2>2, <3>4 DEF RungLists
  <2>3. CASE k \notin PageClass .. c.class - 1
    BY <2>1, <2>3 DEF RungLists
  <2> QED BY <2>2, <2>3
<1>9. c.at \notin pool.pages
  BY <1>7 DEF PoolParts, IndexParts
<1>10. R \cap BigParts(pool.free) = {}
  BY <1>7 DEF BigParts, PoolParts
<1>11. BigParts(lists) = BigParts(pool.free) \cup R
  <2>1. \A x \in R : x.class >= PageClass
    <3> TAKE x \in R
    <3>1. PICK k \in PageClass .. c.class - 1 : x = Part(<<"free">>, c.at + LinesIn(k), k)
      BY DEF RungParts
    <3>2. k >= PageClass
      BY <1>1, SizesAre DEF Pos
    <3> QED BY <3>1, <3>2, PartIs
  <2> QED BY <1>3, <2>1 DEF BigParts
<1>12. IsFiniteSet(R) /\ Cardinality(R) = c.class - PageClass
  BY <1>1, RungPartsCount
<1> HIDE DEF lists, R, p
<1>13. PoolParts(next) = PoolParts(pool) \cup (R \cup {p})
  BY <1>3 DEF PoolParts, IndexParts, p
<1>14. /\ LinesOfAll(PoolParts(pool) \cup (R \cup {p})) = LinesOfAll(PoolParts(pool)) \cup Span(c.at, c.class)
       /\ Apart(PoolParts(pool) \cup (R \cup {p}))
  <2>1. LinesOfAll(PoolParts(pool)) \cap LinesOfAll(R \cup {p}) = {} /\ Apart(PoolParts(pool))
    BY <1>5 DEF PoolOK
  <2>2. Apart(PoolParts(pool) \cup (R \cup {p}))
    BY <2>1, <1>5, ApartUnion
  <2> QED BY <1>5, <2>2, LinesOfUnion
<1>15. /\ IsFiniteSet(BigParts(lists)) /\ IsFiniteSet(pool.pages \cup {c.at})
       /\ PerPage * Cardinality(pool.pages \cup {c.at}) = left + Cardinality(BigParts(lists))
  <2>1. /\ IsFiniteSet(BigParts(pool.free)) /\ Cardinality(BigParts(pool.free)) \in Nat
        /\ IsFiniteSet(pool.pages) /\ Cardinality(pool.pages) \in Nat
        /\ PerPage * Cardinality(pool.pages) = 0 + Cardinality(BigParts(pool.free))
    BY FS_CardinalityType DEF PoolOK
  <2>2. IsFiniteSet(pool.pages \cup {c.at}) /\ Cardinality(pool.pages \cup {c.at}) = Cardinality(pool.pages) + 1
    BY <1>9, <2>1, FS_AddElement
  <2>3. BigParts(pool.free) \cap R = {}
    BY <1>10
  <2>4. /\ IsFiniteSet(BigParts(lists))
        /\ Cardinality(BigParts(lists)) = Cardinality(BigParts(pool.free)) + Cardinality(R)
    <3>1. Cardinality(BigParts(pool.free) \cap R) = 0
      BY <2>3, FS_EmptySet
    <3>2. IsFiniteSet(BigParts(pool.free) \cup R)
          /\ Cardinality(BigParts(pool.free) \cup R)
                = Cardinality(BigParts(pool.free)) + Cardinality(R) - Cardinality(BigParts(pool.free) \cap R)
      BY <1>12, <2>1, FS_Union
    <3>3. Cardinality(R) \in Nat
      BY <1>12, FS_CardinalityType
    <3> QED BY <1>11, <2>1, <3>1, <3>2, <3>3
  <2>5. PerPage * (Cardinality(pool.pages) + 1) = PerPage * Cardinality(pool.pages) + PerPage
    BY <2>1, SizesAre DEF Pos
  <2> QED BY <1>1, <1>12, <2>1, <2>2, <2>4, <2>5, SizesAre DEF Pos
<1>16. PoolOK(next)
  <2>1. next \in PoolType
    BY <1>1, <1>2, <1>3, <1>4 DEF PoolType
  <2>2. next.free = lists /\ next.indexes = left /\ next.pages = pool.pages \cup {c.at}
    OBVIOUS
  <2>3. Apart(PoolParts(next))
    BY <1>13, <1>14
  <2> HIDE DEF next, left
  <2> QED BY <1>8, <1>15, <2>1, <2>2, <2>3 DEF PoolOK
<1>17. LinesOfAll(PoolParts(next)) = LinesOfAll(PoolParts(pool)) \cup Span(c.at, c.class)
  BY <1>13, <1>14
<1> QED
  BY <1>16, <1>17 DEF Gains, lists

\* A chunk is pushed.
LEMMA PushOneGains ==
    ASSUME NEW pool, PoolOK(pool), NEW c \in Chunks,
           Span(c.at, c.class) \cap LinesOfAll(PoolParts(pool)) = {}
    PROVE  Gains(pool, PushOne(pool, c), Span(c.at, c.class))
<1>1. CASE c.class < PageClass \/ pool.indexes > 0
  BY <1>1, LinkedGains DEF PushOne
<1>2. CASE ~(c.class < PageClass \/ pool.indexes > 0)
  <2>1. c.class >= PageClass /\ pool.indexes = 0
    <3>1. pool.indexes \in Nat
      BY DEF PoolOK, PoolType
    <3>2. c.class \in Nat /\ PageClass \in Nat
      BY SizesAre DEF Chunks, Pos
    <3> QED BY <1>2, <3>1, <3>2
  <2>2. PushOne(pool, c) = [free |-> RungLists(pool.free, c.at, c.class),
                            indexes |-> PerPage - (c.class - PageClass),
                            pages |-> pool.pages \cup {c.at}]
    BY <1>2 DEF PushOne, RungLists
  <2> QED BY <2>1, <2>2, PageGains
<1> QED
  BY <1>1, <1>2

\* "after" is the pool after each of the first chunks is pushed.
After(pool, chunks, after) ==
    after = [i \in 0 .. Len(chunks) |->
                IF i = 0 THEN pool ELSE PushOne(after[i - 1], chunks[i])]

\* The same for the first n chunks.
AfterSome(pool, chunks, n, f) ==
    /\ DOMAIN f = 0 .. n /\ f = [i \in 0 .. n |-> f[i]]
    /\ f[0] = pool
    /\ \A i \in 1 .. n : f[i] = PushOne(f[i - 1], chunks[i])

\* The pools that the recursion of Pushed goes through exist.
LEMMA AfterExists ==
    ASSUME NEW pool, NEW chunks, NEW n \in Nat
    PROVE  \E f : AfterSome(pool, chunks, n, f)
<1> DEFINE S == {k \in Nat : ~\E f : AfterSome(pool, chunks, k, f)}
<1> SUFFICES ASSUME S # {} PROVE FALSE
  OBVIOUS
<1>1. PICK m \in S : \A j \in S : m <= j
  <2>1. S \in SUBSET Nat
    OBVIOUS
  <2> QED BY <2>1, LeastOf
<1>2. CASE m = 0
  <2> DEFINE f == [i \in 0 .. 0 |-> pool]
  <2>1. AfterSome(pool, chunks, 0, f)
    BY DEF AfterSome
  <2> QED BY <1>2, <2>1
<1>3. CASE m # 0
  <2>1. m - 1 \in Nat /\ m - 1 \notin S
    BY <1>1, <1>3
  <2>2. PICK f : AfterSome(pool, chunks, m - 1, f)
    BY <2>1
  <2> DEFINE g == [i \in 0 .. m |-> IF i = m THEN PushOne(f[m - 1], chunks[m]) ELSE f[i]]
  <2>3. DOMAIN g = 0 .. m /\ g = [i \in 0 .. m |-> g[i]]
    OBVIOUS
  <2>4. g[0] = pool
    BY <1>3, <2>1, <2>2 DEF AfterSome
  <2>5. ASSUME NEW i \in 1 .. m PROVE g[i] = PushOne(g[i - 1], chunks[i])
    <3>1. i - 1 \in 0 .. m /\ i - 1 # m /\ i \in 0 .. m
      BY <2>1
    <3>2. g[i - 1] = f[i - 1]
      BY <3>1
    <3>3. CASE i = m
      BY <3>1, <3>2, <3>3
    <3>4. CASE i # m
      <4>1. i \in 1 .. m - 1
        BY <3>4
      <4>2. f[i] = PushOne(f[i - 1], chunks[i])
        BY <2>2, <4>1 DEF AfterSome
      <4> QED BY <3>1, <3>2, <3>4, <4>2
    <3> QED BY <3>3, <3>4
  <2> HIDE DEF g
  <2>6. AfterSome(pool, chunks, m, g)
    BY <2>3, <2>4, <2>5 DEF AfterSome
  <2> QED BY <2>6
<1> QED
  BY <1>2, <1>3

\* Pushed is what its recursion says.
LEMMA PushedIs ==
    ASSUME NEW pool, NEW chunks, Len(chunks) \in Nat
    PROVE  \E f : AfterSome(pool, chunks, Len(chunks), f) /\ Pushed(pool, chunks) = f[Len(chunks)]
<1> DEFINE after == CHOOSE f : After(pool, chunks, f)
<1>1. PICK f : AfterSome(pool, chunks, Len(chunks), f)
  BY AfterExists
<1>2. After(pool, chunks, f)
  <2>1. \A i \in 0 .. Len(chunks) :
           f[i] = IF i = 0 THEN pool ELSE PushOne(f[i - 1], chunks[i])
    <3> TAKE i \in 0 .. Len(chunks)
    <3>1. i = 0 \/ i \in 1 .. Len(chunks)
      OBVIOUS
    <3> QED BY <3>1, <1>1 DEF AfterSome
  <2>2. f = [i \in 0 .. Len(chunks) |-> f[i]]
    BY <1>1 DEF AfterSome
  <2> QED BY <2>1, <2>2 DEF After
<1>3. After(pool, chunks, after)
  BY <1>2
<1>4. Pushed(pool, chunks) = after[Len(chunks)]
  BY DEF Pushed, After
<1> HIDE DEF after
<1>5. AfterSome(pool, chunks, Len(chunks), after)
  <2> DEFINE w(P) == [i \in 0 .. Len(chunks) |-> IF i = 0 THEN pool ELSE PushOne(P[i - 1], chunks[i])]
  <2>1. after = w(after)
    BY <1>3 DEF After
  <2>2. DOMAIN w(after) = 0 .. Len(chunks) /\ w(after) = [i \in 0 .. Len(chunks) |-> w(after)[i]]
    OBVIOUS
  <2>3. DOMAIN after = 0 .. Len(chunks) /\ after = [i \in 0 .. Len(chunks) |-> after[i]]
    <3> HIDE DEF w
    <3> QED BY <2>1, <2>2
  <2>4. w(after)[0] = pool
    OBVIOUS
  <2>5. after[0] = pool
    <3> HIDE DEF w
    <3> QED BY <2>1, <2>4
  <2>6. \A i \in 1 .. Len(chunks) : w(after)[i] = PushOne(after[i - 1], chunks[i])
    OBVIOUS
  <2>7. \A i \in 1 .. Len(chunks) : after[i] = PushOne(after[i - 1], chunks[i])
    <3> HIDE DEF w
    <3> QED BY <2>1, <2>6
  <2> QED BY <2>3, <2>5, <2>7 DEF AfterSome
<1> QED
  BY <1>4, <1>5

\* The lines of the first n chunks.
LinesOfFirst(chunks, n) == UNION {Span(chunks[i].at, chunks[i].class) : i \in 1 .. n}

\* Chunks that have no line in common are pushed one after the other.
LEMMA PushedGains ==
    ASSUME NEW pool, PoolOK(pool), NEW chunks \in Seq(Chunks),
           \A i, j \in 1 .. Len(chunks) : i # j =>
               Span(chunks[i].at, chunks[i].class) \cap Span(chunks[j].at, chunks[j].class) = {},
           LinesOfFirst(chunks, Len(chunks)) \cap LinesOfAll(PoolParts(pool)) = {}
    PROVE  Gains(pool, Pushed(pool, chunks), LinesOfFirst(chunks, Len(chunks)))
<1>1. Len(chunks) \in Nat
  OBVIOUS
<1>2. PICK f : AfterSome(pool, chunks, Len(chunks), f) /\ Pushed(pool, chunks) = f[Len(chunks)]
  BY <1>1, PushedIs
<1> DEFINE S == {n \in 0 .. Len(chunks) : ~Gains(pool, f[n], LinesOfFirst(chunks, n))}
<1>3. S = {}
  <2> SUFFICES ASSUME S # {} PROVE FALSE
    OBVIOUS
  <2>1. PICK n \in S : \A j \in S : n <= j
    <3>1. S \in SUBSET Nat
      OBVIOUS
    <3> QED BY <3>1, LeastOf
  <2>2. CASE n = 0
    <3>1. LinesOfFirst(chunks, 0) = {}
      BY DEF LinesOfFirst
    <3>2. f[0] = pool
      BY <1>2 DEF AfterSome
    <3>3. Gains(pool, f[0], LinesOfFirst(chunks, 0))
      BY <3>1, <3>2 DEF Gains
    <3> QED BY <2>2, <3>3
  <2>3. CASE n # 0
    <3>1. n - 1 \in 0 .. Len(chunks) /\ n - 1 \notin S /\ n \in 1 .. Len(chunks)
      BY <2>1, <2>3
    <3>2. Gains(pool, f[n - 1], LinesOfFirst(chunks, n - 1))
      BY <3>1
    <3>3. f[n] = PushOne(f[n - 1], chunks[n])
      BY <1>2, <3>1 DEF AfterSome
    <3> DEFINE c == chunks[n]
               last == Span(c.at, c.class)
    <3>4. c \in Chunks
      BY <3>1
    <3>5. LinesOfFirst(chunks, n) = LinesOfFirst(chunks, n - 1) \cup last
      <4>1. 1 .. n = (1 .. n - 1) \cup {n}
        BY <3>1
      <4> QED BY <4>1 DEF LinesOfFirst
    <3>6. last \cap LinesOfFirst(chunks, n - 1) = {}
      <4>1. ASSUME NEW i \in 1 .. n - 1
            PROVE  Span(chunks[i].at, chunks[i].class) \cap last = {}
        <5>1. i \in 1 .. Len(chunks) /\ i # n
          BY <3>1
        <5> QED BY <3>1, <5>1
      <4> QED BY <4>1 DEF LinesOfFirst
    <3>7. last \cap LinesOfAll(PoolParts(pool)) = {}
      BY <3>1 DEF LinesOfFirst
    <3> HIDE DEF last
    <3>8. last \cap LinesOfAll(PoolParts(f[n - 1])) = {} /\ PoolOK(f[n - 1])
      BY <3>2, <3>6, <3>7 DEF Gains
    <3>9. Gains(f[n - 1], f[n], last)
      BY <3>3, <3>4, <3>8, PushOneGains DEF last
    <3>10. Gains(pool, f[n], LinesOfFirst(chunks, n))
      BY <3>2, <3>5, <3>9 DEF Gains
    <3> QED BY <2>1, <3>10
  <2> QED BY <2>2, <2>3
<1>4. Len(chunks) \in 0 .. Len(chunks)
  BY <1>1
<1> QED
  BY <1>2, <1>3, <1>4

\* The chunks of Halves are what a chunk is besides its first part.
LEMMA HalvesAre ==
    ASSUME NEW a \in Nat, NEW c \in Classes, NEW large \in Classes, c <= large
    PROVE  LET chunks == Halves(a, large, c) IN
           /\ chunks \in Seq(Chunks)
           /\ \A i, j \in 1 .. Len(chunks) : i # j =>
                  Span(chunks[i].at, chunks[i].class) \cap Span(chunks[j].at, chunks[j].class) = {}
           /\ Span(a, large) = Span(a, c) \cup LinesOfFirst(chunks, Len(chunks))
           /\ Span(a, c) \cap LinesOfFirst(chunks, Len(chunks)) = {}
<1> DEFINE chunks == Halves(a, large, c)
<1>1. c \in Pos /\ large \in Pos /\ c \in Nat /\ large \in Nat /\ large - c \in Nat
  BY SizesAre
<1>2. ASSUME NEW i \in 1 .. large - c
      PROVE  large - i \in c .. large - 1 /\ large - i \in Classes /\ large - i \in Pos
  <2>1. large - i \in c .. large - 1 /\ c >= 1
    BY <1>1 DEF Pos
  <2>2. large <= MaxClass /\ MaxClass \in Nat
    BY SizesAre DEF Pos
  <2> QED BY <1>1, <2>1, <2>2 DEF Classes, Pos
<1>3. ASSUME NEW i \in 1 .. large - c
      PROVE  Chunk(a + LinesIn(large - i), large - i) \in Chunks
  <2>1. LinesIn(large - i) \in Pos
    BY <1>2, LinesInIs
  <2> QED BY <1>2, <2>1 DEF Chunk, Chunks, Pos
<1>4. chunks \in Seq(Chunks) /\ Len(chunks) = large - c
  <2>1. chunks \in [1 .. large - c -> Chunks]
    BY <1>3 DEF Halves
  <2> HIDE DEF chunks
  <2> QED BY <1>1, <2>1
<1>5. \A i \in 1 .. large - c : Span(chunks[i].at, chunks[i].class) = Rung(a, large - i)
  BY DEF Halves, Chunk, Rung
<1>6. /\ Span(a, large) = Span(a, c) \cup UNION {Rung(a, k) : k \in c .. large - 1}
      /\ \A k \in c .. large - 1 : Rung(a, k) \cap Span(a, c) = {}
      /\ \A k, j \in c .. large - 1 : k # j => Rung(a, k) \cap Rung(a, j) = {}
  BY <1>1, Ladder
<1>7. ASSUME NEW k \in c .. large - 1 PROVE large - k \in 1 .. large - c /\ large - (large - k) = k
  BY <1>1
<1> HIDE DEF chunks
<1>8. UNION {Rung(a, k) : k \in c .. large - 1} = LinesOfFirst(chunks, large - c)
  <2>1. ASSUME NEW k \in c .. large - 1, NEW l \in Rung(a, k) PROVE l \in LinesOfFirst(chunks, large - c)
    <3>1. large - k \in 1 .. large - c /\ large - (large - k) = k
      BY <1>7
    <3>2. Span(chunks[large - k].at, chunks[large - k].class) = Rung(a, k)
      BY <1>5, <3>1
    <3> QED BY <3>1, <3>2 DEF LinesOfFirst
  <2>2. ASSUME NEW l \in LinesOfFirst(chunks, large - c)
        PROVE  \E k \in c .. large - 1 : l \in Rung(a, k)
    <3>1. PICK i \in 1 .. large - c : l \in Span(chunks[i].at, chunks[i].class)
      BY DEF LinesOfFirst
    <3> QED BY <3>1, <1>2, <1>5
  <2> QED BY <2>1, <2>2
<1>9. \A i, j \in 1 .. large - c : i # j =>
          Span(chunks[i].at, chunks[i].class) \cap Span(chunks[j].at, chunks[j].class) = {}
  <2> TAKE i, j \in 1 .. large - c
  <2> HAVE i # j
  <2>1. large - i # large - j
    BY <1>1
  <2> QED BY <1>2, <1>5, <1>6, <2>1
<1>10. Span(a, c) \cap UNION {Rung(a, k) : k \in c .. large - 1} = {}
  BY <1>6
<1> QED
  BY <1>4, <1>6, <1>8, <1>9, <1>10 DEF chunks

\* The first chunk of a list is taken from the pool, and its index is free.
LEMMA TakeLoses ==
    ASSUME NEW pool, PoolOK(pool), NEW k \in Classes, pool.free[k] # <<>>
    PROVE  LET a == Head(pool.free[k])
               next == [free |-> [pool.free EXCEPT ![k] = Tail(@)],
                        indexes |-> IF k < PageClass THEN pool.indexes ELSE pool.indexes + 1,
                        pages |-> pool.pages] IN
           /\ a \in Nat
           /\ PoolOK(next)
           /\ LinesOfAll(PoolParts(pool)) = LinesOfAll(PoolParts(next)) \cup Span(a, k)
           /\ LinesOfAll(PoolParts(next)) \cap Span(a, k) = {}
<1> DEFINE a == Head(pool.free[k])
           lists == [pool.free EXCEPT ![k] = Tail(@)]
           left == IF k < PageClass THEN pool.indexes ELSE pool.indexes + 1
           next == [free |-> lists, indexes |-> left, pages |-> pool.pages]
           x == Part(<<"free">>, a, k)
<1>1. k \in Pos /\ k \in Nat /\ PageClass \in Nat
  BY SizesAre DEF Pos
<1>2. /\ pool.free \in Lists /\ pool.indexes \in Nat /\ pool.pages \in SUBSET Nat
      /\ IsInjective(pool.free[k])
  BY DEF PoolOK, PoolType
<1>3. /\ lists \in Lists /\ a \in Nat /\ IsInjective(lists[k])
      /\ x \in FreeParts(pool.free)
      /\ FreeParts(lists) = FreeParts(pool.free) \ {x}
  BY <1>2, FreePartsTake
<1>4. LinesOf(x) = Span(a, k) /\ x.class = k /\ x.place = <<"free">> /\ IsPart(x)
  BY <1>1, <1>3, PartIs
<1>5. \A j \in Classes : IsInjective(lists[j])
  <2>1. \A j \in Classes \ {k} : lists[j] = pool.free[j]
    BY <1>2 DEF Lists
  <2> HIDE DEF lists
  <2> QED BY <1>3, <2>1 DEF PoolOK
<1> HIDE DEF a, lists, x
<1>6. PoolParts(next) \cup {x} = PoolParts(pool) /\ PoolParts(next) \cap {x} = {}
  <2>1. x \notin IndexParts(pool.pages)
    BY <1>2, <1>3, <1>4, PoolPartsArePart
  <2> QED BY <1>3, <2>1 DEF PoolParts
<1>7. /\ Apart(PoolParts(next)) /\ LinesOfAll(PoolParts(next)) \cap Span(a, k) = {}
      /\ LinesOfAll(PoolParts(pool)) = LinesOfAll(PoolParts(next)) \cup Span(a, k)
  <2>1. LinesOfAll({x}) = Span(a, k)
    BY <1>4, LinesOfUnion
  <2>2. Apart(PoolParts(next) \cup {x})
    BY <1>6 DEF PoolOK
  <2>3. Apart(PoolParts(next)) /\ LinesOfAll(PoolParts(next)) \cap LinesOfAll({x}) = {}
    BY <1>6, <2>2, ApartParts
  <2>4. LinesOfAll(PoolParts(next) \cup {x}) = LinesOfAll(PoolParts(next)) \cup LinesOfAll({x})
    BY LinesOfUnion
  <2> QED BY <1>6, <2>1, <2>3, <2>4
<1>8. /\ IsFiniteSet(BigParts(lists))
      /\ PerPage * Cardinality(pool.pages) = left + Cardinality(BigParts(lists))
  <2>1. /\ IsFiniteSet(BigParts(pool.free)) /\ Cardinality(BigParts(pool.free)) \in Nat
        /\ PerPage * Cardinality(pool.pages) = pool.indexes + Cardinality(BigParts(pool.free))
    BY FS_CardinalityType DEF PoolOK
  <2>2. CASE k < PageClass
    <3>1. BigParts(lists) = BigParts(pool.free)
      BY <1>1, <1>3, <1>4, <2>2 DEF BigParts
    <3> QED BY <2>1, <2>2, <3>1
  <2>3. CASE ~(k < PageClass)
    <3>1. BigParts(lists) = BigParts(pool.free) \ {x} /\ x \in BigParts(pool.free)
      BY <1>1, <1>3, <1>4, <2>3 DEF BigParts
    <3>2. IsFiniteSet(BigParts(lists)) /\ Cardinality(BigParts(lists)) = Cardinality(BigParts(pool.free)) - 1
      BY <2>1, <3>1, FS_RemoveElement
    <3> QED BY <1>2, <2>1, <2>3, <3>2
  <2> QED BY <2>2, <2>3
<1>9. PoolOK(next)
  <2>1. next \in PoolType
    BY <1>2, <1>3 DEF PoolType
  <2>2. next.free = lists /\ next.indexes = left /\ next.pages = pool.pages /\ IsFiniteSet(pool.pages)
    BY DEF PoolOK
  <2> HIDE DEF next, left
  <2> QED BY <1>5, <1>7, <1>8, <2>1, <2>2 DEF PoolOK
<1> QED
  BY <1>3, <1>7, <1>9 DEF a, lists

\* What a chunk is besides its first part is pushed.
LEMMA HalvesGain ==
    ASSUME NEW pool, PoolOK(pool), NEW a \in Nat, NEW c \in Classes, NEW large \in Classes, c <= large,
           Span(a, large) \cap LinesOfAll(PoolParts(pool)) = {}
    PROVE  /\ Gains(pool, Pushed(pool, Halves(a, large, c)), Span(a, large) \ Span(a, c))
           /\ Span(a, c) \subseteq Span(a, large)
<1> DEFINE chunks == Halves(a, large, c)
           rest == LinesOfFirst(chunks, Len(chunks))
<1>1. /\ chunks \in Seq(Chunks)
      /\ \A i, j \in 1 .. Len(chunks) : i # j =>
             Span(chunks[i].at, chunks[i].class) \cap Span(chunks[j].at, chunks[j].class) = {}
      /\ Span(a, large) = Span(a, c) \cup rest
      /\ Span(a, c) \cap rest = {}
  BY HalvesAre
<1> HIDE DEF chunks
<1>2. rest \cap LinesOfAll(PoolParts(pool)) = {}
  BY <1>1
<1>3. Gains(pool, Pushed(pool, chunks), rest)
  BY <1>1, <1>2, PushedGains
<1>4. rest = Span(a, large) \ Span(a, c)
  BY <1>1
<1> QED
  BY <1>1, <1>3, <1>4 DEF chunks

\* One chunk is pushed.
LEMMA SingleGains ==
    ASSUME NEW pool, PoolOK(pool), NEW c \in Chunks,
           Span(c.at, c.class) \cap LinesOfAll(PoolParts(pool)) = {}
    PROVE  Gains(pool, Pushed(pool, <<c>>), Span(c.at, c.class))
<1> DEFINE chunks == <<c>>
<1>1. chunks \in Seq(Chunks) /\ Len(chunks) = 1 /\ chunks[1] = c
  OBVIOUS
<1> HIDE DEF chunks
<1>2. LinesOfFirst(chunks, Len(chunks)) = Span(c.at, c.class)
  BY <1>1 DEF LinesOfFirst
<1>3. \A i, j \in 1 .. Len(chunks) : i # j =>
          Span(chunks[i].at, chunks[i].class) \cap Span(chunks[j].at, chunks[j].class) = {}
  BY <1>1
<1>4. Gains(pool, Pushed(pool, chunks), Span(c.at, c.class))
  BY <1>1, <1>2, <1>3, PushedGains
<1> QED
  BY <1>4 DEF chunks

------------------------------------------------------------------------------
(* The inductive invariant.                                                 *)

ThePool == [free |-> free, indexes |-> indexes, pages |-> indexPages]

OwnedParts(f) == {Part(<<"owned">>, a, f[a]) : a \in DOMAIN f}
DirtyParts(place, q) == {Part(place, d.at, d.class) : d \in ToSet(q)}
HandParts(c, h) ==
    {Part(<<"hand", p>>, h[p].at, h[p].class) : p \in {q \in Procs : c[q] \in Holding}}

HoleOf(c, h, m, f) ==
    (UNION {Span(h[t].at, h[t].class) : t \in {u \in Threads : c[u] = "hole"}})
    \cup (UNION {Span(m[t], f[m[t]]) : t \in {u \in Threads : c[u] = "refill"}})

\* The parts and the lines that are lost make up the pool, each line once.
Books(pool, f, q, r, c, h, l, P) ==
    Account(PoolParts(pool) \cup OwnedParts(f) \cup DirtyParts(<<"new">>, q)
                \cup DirtyParts(<<"old">>, r) \cup HandParts(c, h), l, P)

Dirts == [at : Nat, class : Classes, is_new : BOOLEAN]
Reallocating == {"move", "hole", "refill"}
ThreadPoints == {"idle", "list", "give", "wait", "force"} \cup Reallocating
JanitorPoints == {"fetch", "push", "age", "look", "asleep", "late", "nap"}

OwnedOK(f) == f \in [DOMAIN f -> Classes] /\ DOMAIN f \subseteq Nat

\* Where the threads and the janitor are, and what they hold.
ProcsOK(c, h) ==
    /\ c \in [Procs -> ThreadPoints \cup JanitorPoints]
    /\ \A t \in Threads : c[t] \in ThreadPoints
    /\ c[Janitor] \in JanitorPoints
    /\ h \in [Procs -> [at : Int, class : Classes]]
    /\ \A p \in Procs : c[p] \in Holding => h[p].at \in Nat

\* A reallocation goes on with a chunk that its caller holds, and no other does with it.
MovingOK(m, c, h, f) ==
    /\ m \in [Threads -> Int]
    /\ \A t \in Threads : c[t] \in Reallocating => m[t] # Nowhere
    /\ \A t \in Threads : m[t] # Nowhere =>
           c[t] \in Reallocating \cup {"list"} /\ m[t] \in DOMAIN f /\ h[t].class > f[m[t]]
    /\ \A t, u \in Threads : m[t] # Nowhere /\ t # u => m[t] # m[u]

\* The queues and the lists of sizes.
DirtyOK(q, r, s) ==
    /\ q \in Seq(Dirts) /\ r \in Seq(Dirts) /\ IsInjective(q) /\ IsInjective(r)
    /\ s \in Lists /\ \A k \in Classes : IsInjective(s[k])
    /\ \A k \in Classes : ToSet(s[k]) = {d.at : d \in {x \in ToSet(q) \cup ToSet(r) : x.class = k}}
    /\ \A d \in ToSet(q) : d.is_new
    /\ \A d \in ToSet(r) : ~d.is_new

\* When the janitor ages the queues the old one is empty.
AgedOK(c, r) == c[Janitor] = "age" => r = <<>>

Inv ==
    /\ end \in Nat
    /\ OwnedOK(owned)
    /\ ProcsOK(pc, hand)
    /\ MovingOK(moving, pc, hand, owned)
    /\ DirtyOK(new, old, sizes)
    /\ AgedOK(pc, old)
    /\ PoolOK(ThePool)
    /\ Books(ThePool, owned, new, old, pc, hand, lost, mapped \cup HoleOf(pc, hand, moving, owned))

------------------------------------------------------------------------------
(* The families of parts.                                                   *)

\* Which parts are the callers'.
LEMMA OwnedIs ==
    ASSUME NEW f, NEW x
    PROVE  x \in OwnedParts(f) <=> \E a \in DOMAIN f : x = Part(<<"owned">>, a, f[a])
BY DEF OwnedParts

\* Which parts are in a queue.
LEMMA DirtyIs ==
    ASSUME NEW place, NEW q, NEW x
    PROVE  x \in DirtyParts(place, q) <=> \E d \in ToSet(q) : x = Part(place, d.at, d.class)
BY DEF DirtyParts

\* Which parts a thread or the janitor holds.
LEMMA HandIs ==
    ASSUME NEW c, NEW h, NEW x
    PROVE  x \in HandParts(c, h) <=>
               \E p \in Procs : c[p] \in Holding /\ x = Part(<<"hand", p>>, h[p].at, h[p].class)
BY DEF HandParts

\* The places of the families differ.
LEMMA PlacesDiffer ==
    /\ <<"free">> # <<"index">> /\ <<"free">> # <<"owned">> /\ <<"free">> # <<"new">>
    /\ <<"free">> # <<"old">> /\ <<"index">> # <<"owned">> /\ <<"index">> # <<"new">>
    /\ <<"index">> # <<"old">> /\ <<"owned">> # <<"new">> /\ <<"owned">> # <<"old">>
    /\ <<"new">> # <<"old">>
    /\ \A p : /\ <<"hand", p>> # <<"free">> /\ <<"hand", p>> # <<"index">>
              /\ <<"hand", p>> # <<"owned">> /\ <<"hand", p>> # <<"new">>
              /\ <<"hand", p>> # <<"old">>
    /\ \A p, q : p # q => <<"hand", p>> # <<"hand", q>>
<1>1. \A p : /\ <<"hand", p>> # <<"free">> /\ <<"hand", p>> # <<"index">>
             /\ <<"hand", p>> # <<"owned">> /\ <<"hand", p>> # <<"new">>
             /\ <<"hand", p>> # <<"old">>
  <2> TAKE p
  <2>1. Len(<<"hand", p>>) = 2
    OBVIOUS
  <2>2. Len(<<"free">>) = 1 /\ Len(<<"index">>) = 1 /\ Len(<<"owned">>) = 1
        /\ Len(<<"new">>) = 1 /\ Len(<<"old">>) = 1
    OBVIOUS
  <2> QED BY <2>1, <2>2
<1>2. \A p, q : p # q => <<"hand", p>> # <<"hand", q>>
  OBVIOUS
<1> QED
  BY <1>1, <1>2

\* The place of a part tells its family.
LEMMA PlacesOf ==
    /\ \A f : \A x \in OwnedParts(f) : x.place = <<"owned">>
    /\ \A place, q : \A x \in DirtyParts(place, q) : x.place = place
    /\ \A c, h : \A x \in HandParts(c, h) : \E p \in Procs : x.place = <<"hand", p>>
    /\ \A lists : \A x \in FreeParts(lists) : x.place = <<"free">>
    /\ \A pages : \A x \in IndexParts(pages) : x.place = <<"index">>
<1>1. \A f : \A x \in OwnedParts(f) : x.place = <<"owned">>
  BY OwnedIs, PartIs
<1>2. \A place, q : \A x \in DirtyParts(place, q) : x.place = place
  BY DirtyIs, PartIs
<1>3. \A c, h : \A x \in HandParts(c, h) : \E p \in Procs : x.place = <<"hand", p>>
  <2> TAKE c, h
  <2> TAKE x \in HandParts(c, h)
  <2>1. PICK p \in Procs : x = Part(<<"hand", p>>, h[p].at, h[p].class)
    BY HandIs
  <2> QED BY <2>1, PartIs
<1>4. \A lists : \A x \in FreeParts(lists) : x.place = <<"free">>
  <2> TAKE lists
  <2> TAKE x \in FreeParts(lists)
  <2>1. PICK k \in Classes : \E a \in ToSet(lists[k]) : x = Part(<<"free">>, a, k)
    BY FreePartsIs
  <2> QED BY <2>1, PartIs
<1>5. \A pages : \A x \in IndexParts(pages) : x.place = <<"index">>
  BY PartIs DEF IndexParts
<1> QED
  BY <1>1, <1>2, <1>3, <1>4, <1>5

\* No part is in two families.
LEMMA FamiliesDiffer ==
    ASSUME NEW pool, NEW f, NEW q, NEW r, NEW c, NEW h
    PROVE  LET F == PoolParts(pool)  O == OwnedParts(f)  N == DirtyParts(<<"new">>, q)
               L == DirtyParts(<<"old">>, r)  H == HandParts(c, h) IN
           /\ F \cap O = {} /\ F \cap N = {} /\ F \cap L = {} /\ F \cap H = {}
           /\ O \cap N = {} /\ O \cap L = {} /\ O \cap H = {}
           /\ N \cap L = {} /\ N \cap H = {} /\ L \cap H = {}
<1>1. \A x \in PoolParts(pool) : x.place = <<"free">> \/ x.place = <<"index">>
  BY PlacesOf DEF PoolParts
<1>2. \A x \in HandParts(c, h) : \E p \in Procs : x.place = <<"hand", p>>
  BY PlacesOf
<1>3. \A x \in OwnedParts(f) : x.place = <<"owned">>
  BY PlacesOf
<1>4. /\ \A x \in DirtyParts(<<"new">>, q) : x.place = <<"new">>
      /\ \A x \in DirtyParts(<<"old">>, r) : x.place = <<"old">>
  BY PlacesOf
<1> QED
  BY <1>1, <1>2, <1>3, <1>4, PlacesDiffer

\* What is in the families is a part.
LEMMA FamiliesArePart ==
    /\ \A f : OwnedOK(f) => \A x \in OwnedParts(f) : IsPart(x)
    /\ \A place, q : q \in Seq(Dirts) => \A x \in DirtyParts(place, q) : IsPart(x)
    /\ \A c, h : ProcsOK(c, h) => \A x \in HandParts(c, h) : IsPart(x)
    /\ \A pool : PoolOK(pool) => \A x \in PoolParts(pool) : IsPart(x)
<1>1. ASSUME NEW f, OwnedOK(f), NEW x \in OwnedParts(f) PROVE IsPart(x)
  <2>1. PICK a \in DOMAIN f : x = Part(<<"owned">>, a, f[a])
    BY OwnedIs
  <2>2. a \in Nat /\ f[a] \in Pos
    BY <1>1, SizesAre DEF OwnedOK
  <2> QED BY <2>1, <2>2, PartIs
<1>2. ASSUME NEW place, NEW q \in Seq(Dirts), NEW x \in DirtyParts(place, q) PROVE IsPart(x)
  <2>1. PICK d \in ToSet(q) : x = Part(place, d.at, d.class)
    BY DirtyIs
  <2>2. d \in Dirts
    BY DEF ToSet
  <2>3. d.at \in Nat /\ d.class \in Pos
    BY <2>2, SizesAre DEF Dirts
  <2> QED BY <2>1, <2>3, PartIs
<1>3. ASSUME NEW c, NEW h, ProcsOK(c, h), NEW x \in HandParts(c, h) PROVE IsPart(x)
  <2>1. PICK p \in Procs : c[p] \in Holding /\ x = Part(<<"hand", p>>, h[p].at, h[p].class)
    BY HandIs
  <2>2. h[p].at \in Nat /\ h[p].class \in Pos
    BY <1>3, <2>1, SizesAre DEF ProcsOK
  <2> QED BY <2>1, <2>2, PartIs
<1>4. ASSUME NEW pool, PoolOK(pool), NEW x \in PoolParts(pool) PROVE IsPart(x)
  <2>1. pool.free \in Lists /\ pool.pages \in SUBSET Nat
    BY <1>4 DEF PoolOK, PoolType
  <2> QED BY <2>1, PoolPartsArePart DEF PoolParts
<1> QED
  BY <1>1, <1>2, <1>3, <1>4

\* A caller gets a chunk.
LEMMA OwnedGains ==
    ASSUME NEW f, OwnedOK(f), NEW a \in Nat, NEW c \in Classes, a \notin DOMAIN f
    PROVE  LET g == [b \in DOMAIN f \cup {a} |-> IF b = a THEN c ELSE f[b]] IN
           /\ OwnedOK(g)
           /\ OwnedParts(g) = OwnedParts(f) \cup {Part(<<"owned">>, a, c)}
<1> DEFINE g == [b \in DOMAIN f \cup {a} |-> IF b = a THEN c ELSE f[b]]
<1>1. OwnedOK(g)
  BY DEF OwnedOK
<1>2. DOMAIN g = DOMAIN f \cup {a} /\ g[a] = c /\ \A b \in DOMAIN f : g[b] = f[b]
  OBVIOUS
<1> HIDE DEF g
<1>3. OwnedParts(g) = OwnedParts(f) \cup {Part(<<"owned">>, a, c)}
  BY <1>2, OwnedIs
<1> QED
  BY <1>1, <1>3 DEF g

\* A caller has a chunk no more.
LEMMA OwnedLoses ==
    ASSUME NEW f, OwnedOK(f), NEW a \in DOMAIN f
    PROVE  LET g == [b \in DOMAIN f \ {a} |-> f[b]]
               x == Part(<<"owned">>, a, f[a]) IN
           /\ OwnedOK(g) /\ x \in OwnedParts(f)
           /\ OwnedParts(g) = OwnedParts(f) \ {x}
<1> DEFINE g == [b \in DOMAIN f \ {a} |-> f[b]]
           x == Part(<<"owned">>, a, f[a])
<1>1. OwnedOK(g)
  BY DEF OwnedOK
<1>2. DOMAIN g = DOMAIN f \ {a} /\ \A b \in DOMAIN f \ {a} : g[b] = f[b]
  OBVIOUS
<1>3. \A b \in DOMAIN f : Part(<<"owned">>, b, f[b]) = x => b = a
  BY PartIs
<1>4. x \in OwnedParts(f)
  BY OwnedIs
<1> HIDE DEF g, x
<1>5. OwnedParts(g) = OwnedParts(f) \ {x}
  <2>1. ASSUME NEW y \in OwnedParts(g) PROVE y \in OwnedParts(f) \ {x}
    BY <1>2, <1>3, OwnedIs
  <2>2. ASSUME NEW y \in OwnedParts(f) \ {x} PROVE y \in OwnedParts(g)
    <3>1. PICK b \in DOMAIN f : y = Part(<<"owned">>, b, f[b])
      BY OwnedIs
    <3>2. b # a
      BY <3>1 DEF x
    <3> QED BY <1>2, <3>1, <3>2, OwnedIs
  <2> QED BY <2>1, <2>2
<1> QED
  BY <1>1, <1>4, <1>5 DEF g, x

\* What the process p holds, and what the others do.
HandOf(c, h, p) ==
    IF c[p] \in Holding THEN {Part(<<"hand", p>>, h[p].at, h[p].class)} ELSE {}
HandRest(c, h, p) ==
    {Part(<<"hand", q>>, h[q].at, h[q].class) : q \in {r \in Procs \ {p} : c[r] \in Holding}}

\* What is held is what one process holds and what the others do.
LEMMA HandSplit ==
    ASSUME NEW c, NEW h, NEW p \in Procs
    PROVE  /\ HandParts(c, h) = HandRest(c, h, p) \cup HandOf(c, h, p)
           /\ HandRest(c, h, p) \cap HandOf(c, h, p) = {}
           /\ \A x \in HandRest(c, h, p) : x \in HandParts(c, h)
           /\ \A y : y.place = <<"hand", p>> => y \notin HandRest(c, h, p)
<1>1. \A x : x \in HandRest(c, h, p) <=>
          \E q \in Procs \ {p} : c[q] \in Holding /\ x = Part(<<"hand", q>>, h[q].at, h[q].class)
  BY DEF HandRest
<1>2. \A x : x \in HandOf(c, h, p) <=>
          c[p] \in Holding /\ x = Part(<<"hand", p>>, h[p].at, h[p].class)
  BY DEF HandOf
<1>3. HandParts(c, h) = HandRest(c, h, p) \cup HandOf(c, h, p)
  BY <1>1, <1>2, HandIs
<1>4. \A y : y.place = <<"hand", p>> => y \notin HandRest(c, h, p)
  <2> SUFFICES ASSUME NEW y \in HandRest(c, h, p) PROVE y.place # <<"hand", p>>
    OBVIOUS
  <2>1. PICK q \in Procs \ {p} : y = Part(<<"hand", q>>, h[q].at, h[q].class)
    BY <1>1
  <2> QED BY <2>1, PartIs, PlacesDiffer
<1>5. HandRest(c, h, p) \cap HandOf(c, h, p) = {}
  BY <1>2, <1>4, PartIs
<1> QED
  BY <1>3, <1>4, <1>5

\* What the others hold, when one process takes a step.
LEMMA HandRestSame ==
    ASSUME NEW c, NEW h, NEW d, NEW g, NEW p,
           \A q \in Procs \ {p} : (c[q] \in Holding <=> d[q] \in Holding) /\ h[q] = g[q]
    PROVE  HandRest(c, h, p) = HandRest(d, g, p)
BY DEF HandRest

\* The lines that are unmapped, when one thread takes a step elsewhere.
LEMMA HoleSame ==
    ASSUME NEW c, NEW h, NEW m, NEW f, NEW d, NEW g, NEW n, NEW e,
           \A t \in Threads : (c[t] = "hole" <=> d[t] = "hole") /\ (c[t] = "hole" => h[t] = g[t]),
           \A t \in Threads : (c[t] = "refill" <=> d[t] = "refill")
                                  /\ (c[t] = "refill" => m[t] = n[t] /\ f[m[t]] = e[m[t]])
    PROVE  HoleOf(c, h, m, f) = HoleOf(d, g, n, e)
<1>1. UNION {Span(h[t].at, h[t].class) : t \in {u \in Threads : c[u] = "hole"}}
        = UNION {Span(g[t].at, g[t].class) : t \in {u \in Threads : d[u] = "hole"}}
  OBVIOUS
<1>2. UNION {Span(m[t], f[m[t]]) : t \in {u \in Threads : c[u] = "refill"}}
        = UNION {Span(n[t], e[n[t]]) : t \in {u \in Threads : d[u] = "refill"}}
  OBVIOUS
<1> QED
  BY <1>1, <1>2 DEF HoleOf

------------------------------------------------------------------------------
(* The invariant says what PoolConsistent does.                             *)

\* The parts are those of the families.
LEMMA PartsAre ==
    Parts = PoolParts(ThePool) \cup OwnedParts(owned) \cup DirtyParts(<<"new">>, new)
                \cup DirtyParts(<<"old">>, old) \cup HandParts(pc, hand)
<1>1. {Part(<<"index">>, a, PageClass) : a \in indexPages} = IndexParts(ThePool.pages)
  BY DEF IndexParts, ThePool
<1>2. UNION {{Part(<<"free">>, a, c) : a \in ToSet(free[c])} : c \in Classes} = FreeParts(ThePool.free)
  BY DEF FreeParts, ThePool
<1>3. {Part(<<"owned">>, a, owned[a]) : a \in DOMAIN owned} = OwnedParts(owned)
  BY DEF OwnedParts
<1>4. /\ {Part(<<"new">>, d.at, d.class) : d \in ToSet(new)} = DirtyParts(<<"new">>, new)
      /\ {Part(<<"old">>, d.at, d.class) : d \in ToSet(old)} = DirtyParts(<<"old">>, old)
  BY DEF DirtyParts
<1>5. {Part(<<"hand", p>>, hand[p].at, hand[p].class) : p \in {q \in Procs : pc[q] \in Holding}}
        = HandParts(pc, hand)
  BY DEF HandParts
<1> QED
  BY <1>1, <1>2, <1>3, <1>4, <1>5 DEF Parts, PoolParts

\* The inductive invariant says of the parts what PoolConsistent says of the chunks.
LEMMA InvImplies == Inv => PoolConsistent
<1> SUFFICES ASSUME Inv PROVE PoolConsistent
  OBVIOUS
<1>1. Account(Parts, lost, Pool)
  <2>1. Pool = mapped \cup HoleOf(pc, hand, moving, owned)
    BY DEF Pool, Hole, HoleOf
  <2> QED BY <2>1, PartsAre DEF Inv, Books
<1>2. Accounted
  <2>1. (UNION {LinesOf(x) : x \in Parts}) \cup lost = Pool
    BY <1>1 DEF Account, LinesOfAll
  <2>2. \A x, y \in Parts : x # y => LinesOf(x) \cap LinesOf(y) = {}
    BY <1>1 DEF Account, Apart
  <2>3. \A x \in Parts : LinesOf(x) \cap lost = {}
    BY <1>1 DEF Account, LinesOfAll
  <2>4. IsInjective(new) /\ IsInjective(old) /\ \A c \in Classes : IsInjective(free[c])
    BY DEF Inv, DirtyOK, PoolOK, ThePool
  <2> QED BY <2>1, <2>2, <2>3, <2>4 DEF Accounted
<1>3. ListsAgree
  <2>1. {x \in Parts : x.place = <<"free">> /\ x.class >= PageClass} = BigParts(free)
    <3>1. \A x \in Parts : x.place = <<"free">> <=> x \in FreeParts(free)
      <4>1. \A x \in FreeParts(free) : x \in Parts /\ x.place = <<"free">>
        BY PartsAre, PlacesOf DEF PoolParts, ThePool
      <4>2. ASSUME NEW x \in Parts, x \notin FreeParts(free) PROVE x.place # <<"free">>
        <5>1. x \in IndexParts(indexPages) => x.place = <<"index">>
          BY PlacesOf
        <5>2. x \in OwnedParts(owned) => x.place = <<"owned">>
          BY PlacesOf
        <5>3. /\ x \in DirtyParts(<<"new">>, new) => x.place = <<"new">>
              /\ x \in DirtyParts(<<"old">>, old) => x.place = <<"old">>
          BY PlacesOf
        <5>4. x \in HandParts(pc, hand) => \E p \in Procs : x.place = <<"hand", p>>
          BY PlacesOf
        <5>5. \/ x \in IndexParts(indexPages) \/ x \in OwnedParts(owned)
              \/ x \in DirtyParts(<<"new">>, new) \/ x \in DirtyParts(<<"old">>, old)
              \/ x \in HandParts(pc, hand)
          BY <4>2, PartsAre DEF PoolParts, ThePool
        <5> QED BY <5>1, <5>2, <5>3, <5>4, <5>5, PlacesDiffer
      <4> QED BY <4>1, <4>2
    <3>2. FreeParts(free) \subseteq Parts
      BY PartsAre DEF PoolParts, ThePool
    <3> QED BY <3>1, <3>2 DEF BigParts
  <2>2. PerPage * Cardinality(indexPages) = indexes + Cardinality(BigParts(free))
    BY DEF Inv, PoolOK, ThePool
  <2>3. \A c \in Classes : ToSet(sizes[c]) = {d.at : d \in {x \in Queued : x.class = c}}
    BY DEF Inv, DirtyOK, Queued
  <2>4. (\A d \in ToSet(new) : d.is_new) /\ (\A d \in ToSet(old) : ~d.is_new)
    BY DEF Inv, DirtyOK
  <2> QED BY <2>1, <2>2, <2>3, <2>4 DEF ListsAgree
<1> QED
  BY <1>2, <1>3 DEF PoolConsistent

\* The invariant holds initially.
LEMMA InitInv == Init => Inv
<1> SUFFICES ASSUME Init PROVE Inv
  OBVIOUS
<1>1. /\ owned = [a \in {} |-> 0] /\ new = <<>> /\ old = <<>> /\ mapped = {} /\ lost = {}
      /\ indexPages = {} /\ indexes = 0 /\ end = InitEnd
      /\ free = [c \in Classes |-> <<>>] /\ sizes = [c \in Classes |-> <<>>]
      /\ pc = [p \in Procs |-> IF p = Janitor THEN "fetch" ELSE "idle"]
      /\ hand = [p \in Procs |-> NoChunk] /\ moving = [t \in Threads |-> Nowhere]
  BY DEF Init
<1>2. \A p \in Procs : pc[p] \notin Holding /\ pc[p] # "hole" /\ pc[p] # "refill" /\ pc[p] # "age"
  BY <1>1 DEF Holding
<1>3. \A t \in Threads : t \in Procs /\ pc[t] = "idle"
  BY <1>1, VMAssumption DEF Procs
<1>4. Janitor \in Procs /\ pc[Janitor] = "fetch"
  BY <1>1 DEF Procs
<1>5. ToSet(<<>>) = {} /\ IsInjective(<<>>)
  BY DEF ToSet, IsInjective
<1>6. FreeParts(free) = {} /\ IndexParts(indexPages) = {}
  <2>1. \A c \in Classes : ToSet(free[c]) = {}
    BY <1>1, <1>5
  <2> QED BY <1>1, <2>1 DEF FreeParts, IndexParts
<1>7. PoolParts(ThePool) = {}
  BY <1>6 DEF PoolParts, ThePool
<1>8. PoolOK(ThePool)
  <2>1. ThePool \in PoolType
    BY <1>1 DEF ThePool, PoolType, Lists
  <2>2. \A k \in Classes : IsInjective(ThePool.free[k])
    BY <1>1, <1>5 DEF ThePool
  <2>3. Apart(PoolParts(ThePool))
    BY <1>7 DEF Apart
  <2>4. BigParts(ThePool.free) = {} /\ ThePool.pages = {} /\ ThePool.indexes = 0
    BY <1>1, <1>6 DEF BigParts, ThePool
  <2>5. PerPage * 0 = 0 + 0
    BY SizesAre DEF Pos
  <2> QED BY <2>1, <2>2, <2>3, <2>4, <2>5, FS_EmptySet DEF PoolOK
<1>9. OwnedOK(owned) /\ OwnedParts(owned) = {}
  BY <1>1 DEF OwnedOK, OwnedParts
<1>10. ProcsOK(pc, hand)
  <2>1. NoChunk \in [at : Int, class : Classes]
    BY SizesAre DEF NoChunk, Chunk, Nowhere, Classes, Pos
  <2>2. hand \in [Procs -> [at : Int, class : Classes]]
    BY <1>1, <2>1
  <2>3. pc \in [Procs -> ThreadPoints \cup JanitorPoints]
    BY <1>1 DEF ThreadPoints, JanitorPoints
  <2> QED BY <1>2, <1>3, <1>4, <2>2, <2>3 DEF ProcsOK, ThreadPoints, JanitorPoints
<1>11. MovingOK(moving, pc, hand, owned)
  BY <1>1, <1>3 DEF MovingOK, Nowhere, Reallocating
<1>12. DirtyOK(new, old, sizes)
  <2>1. sizes \in Lists /\ \A k \in Classes : IsInjective(sizes[k]) /\ ToSet(sizes[k]) = {}
    BY <1>1, <1>5 DEF Lists
  <2>2. ToSet(new) = {} /\ ToSet(old) = {}
    BY <1>1, <1>5
  <2>3. new \in Seq(Dirts) /\ old \in Seq(Dirts) /\ IsInjective(new) /\ IsInjective(old)
    BY <1>1, <1>5
  <2> QED BY <2>1, <2>2, <2>3 DEF DirtyOK
<1>13. HandParts(pc, hand) = {} /\ HoleOf(pc, hand, moving, owned) = {}
  BY <1>2, <1>3 DEF HandParts, HoleOf
<1>14. DirtyParts(<<"new">>, new) = {} /\ DirtyParts(<<"old">>, old) = {}
  BY <1>1, <1>5 DEF DirtyParts
<1>15. Books(ThePool, owned, new, old, pc, hand, lost, mapped \cup HoleOf(pc, hand, moving, owned))
  BY <1>1, <1>7, <1>9, <1>13, <1>14, LinesOfUnion DEF Books, Account
<1>16. AgedOK(pc, old) /\ end \in Nat
  BY <1>1, SizesAre DEF AgedOK
<1> QED
  BY <1>8, <1>9, <1>10, <1>11, <1>12, <1>15, <1>16 DEF Inv

------------------------------------------------------------------------------
(* Steps: what changes for one process only.                                *)

\* Nothing changes for the threads but p: the functions are pc, hand, moving and owned
\* after a step.
OthersStay(p, d, g, n, e) ==
    /\ \A u \in Threads \ {p} : d[u] = pc[u] /\ g[u] = hand[u] /\ n[u] = moving[u]
    /\ \A u \in Threads \ {p} : moving[u] # Nowhere =>
           moving[u] \in DOMAIN e /\ e[moving[u]] = owned[moving[u]]

\* The lines that are unmapped are not changed by a step elsewhere.
LEMMA HoleStays ==
    ASSUME Inv, NEW p \in Procs, NEW d, NEW g, NEW n, NEW e, OthersStay(p, d, g, n, e),
           p \in Threads => /\ pc[p] # "hole" /\ pc[p] # "refill"
                            /\ d[p] # "hole" /\ d[p] # "refill"
    PROVE  HoleOf(d, g, n, e) = HoleOf(pc, hand, moving, owned)
<1>1. \A t \in Threads : (pc[t] = "hole" <=> d[t] = "hole") /\ (pc[t] = "hole" => hand[t] = g[t])
  BY DEF OthersStay
<1>2. \A t \in Threads : (pc[t] = "refill" <=> d[t] = "refill")
          /\ (pc[t] = "refill" => moving[t] = n[t] /\ owned[moving[t]] = e[moving[t]])
  BY DEF OthersStay, Inv, MovingOK, Reallocating
<1> QED
  BY <1>1, <1>2, HoleSame

\* Nor are the reallocations under way.
LEMMA MovingStays ==
    ASSUME Inv, NEW p \in Procs, NEW d, NEW g, NEW n, NEW e, OthersStay(p, d, g, n, e),
           n \in [Threads -> Int],
           p \in Threads /\ d[p] \in Reallocating => n[p] # Nowhere,
           p \in Threads /\ n[p] # Nowhere =>
               /\ d[p] \in Reallocating \cup {"list"}
               /\ n[p] \in DOMAIN e /\ g[p].class > e[n[p]]
               /\ \A u \in Threads \ {p} : moving[u] # n[p]
    PROVE  MovingOK(n, d, g, e)
<1>1. MovingOK(moving, pc, hand, owned)
  BY DEF Inv
<1>2. \A t \in Threads : d[t] \in Reallocating => n[t] # Nowhere
  BY <1>1 DEF MovingOK, OthersStay
<1>3. ASSUME NEW t \in Threads, n[t] # Nowhere
      PROVE  d[t] \in Reallocating \cup {"list"} /\ n[t] \in DOMAIN e /\ g[t].class > e[n[t]]
  <2>1. CASE t = p
    BY <1>3, <2>1
  <2>2. CASE t # p
    <3>1. d[t] = pc[t] /\ g[t] = hand[t] /\ n[t] = moving[t] /\ moving[t] # Nowhere
      BY <1>3, <2>2 DEF OthersStay
    <3>2. n[t] \in DOMAIN e /\ e[n[t]] = owned[moving[t]]
      BY <2>2, <3>1 DEF OthersStay
    <3>3. pc[t] \in Reallocating \cup {"list"} /\ hand[t].class > owned[moving[t]]
      BY <1>1, <3>1 DEF MovingOK
    <3> QED BY <3>1, <3>2, <3>3
  <2> QED BY <2>1, <2>2
<1>4. ASSUME NEW t \in Threads, NEW u \in Threads, n[t] # Nowhere, t # u PROVE n[t] # n[u]
  <2>1. CASE t = p
    BY <1>4, <2>1 DEF OthersStay
  <2>2. CASE u = p
    <3>1. n[t] = moving[t]
      BY <1>4, <2>2 DEF OthersStay
    <3> QED BY <1>4, <2>2, <3>1
  <2>3. CASE t # p /\ u # p
    <3>1. n[t] = moving[t] /\ n[u] = moving[u]
      BY <2>3 DEF OthersStay
    <3> QED BY <1>1, <1>4, <3>1 DEF MovingOK
  <2> QED BY <2>1, <2>2, <2>3
<1> QED
  BY <1>2, <1>3, <1>4 DEF MovingOK

\* The chunk that is looked at in a set of parts is the only one with its lines.
LEMMA OnePart ==
    ASSUME Inv, NEW x \in Parts, NEW y \in Parts, NEW l, l \in LinesOf(x), l \in LinesOf(y)
    PROVE  x = y
BY PartsAre DEF Inv, Books, Account, Apart

\* Every part is one.
LEMMA PartsArePart == Inv => \A x \in Parts : IsPart(x)
BY PartsAre, FamiliesArePart DEF Inv, DirtyOK

\* The books without what process p holds.
LEMMA BooksAre ==
    ASSUME Inv, NEW p \in Procs
    PROVE  Account(PoolParts(ThePool) \cup OwnedParts(owned) \cup DirtyParts(<<"new">>, new)
                       \cup DirtyParts(<<"old">>, old)
                       \cup (HandRest(pc, hand, p) \cup HandOf(pc, hand, p)),
                   lost, mapped \cup HoleOf(pc, hand, moving, owned))
<1>1. HandParts(pc, hand) = HandRest(pc, hand, p) \cup HandOf(pc, hand, p)
  BY HandSplit
<1> QED
  BY <1>1 DEF Inv, Books

\* A thread gets a chunk, as its caller's or to go on with.
LEMMA DeliverStep ==
    ASSUME Inv, NEW t \in Threads, NEW a \in Nat, NEW c \in Classes, NEW x \in BOOLEAN,
           pc[t] \in {"idle", "list"}, a \notin DOMAIN owned, Deliver(t, a, c, x)
    PROVE  /\ OwnedOK(owned') /\ ProcsOK(pc', hand')
           /\ \E y : /\ LinesOf(y) = Span(a, c)
                     /\ OwnedParts(owned') \cup HandParts(pc', hand')
                          = OwnedParts(owned) \cup HandParts(pc, hand) \cup {y}
           /\ \A u \in Procs \ {t} : pc'[u] = pc[u] /\ hand'[u] = hand[u]
           /\ x => pc'[t] = "move" /\ hand'[t] = Chunk(a, c) /\ owned' = owned
           /\ ~x => pc'[t] = "idle" /\ owned' = [b \in DOMAIN owned \cup {a} |-> IF b = a THEN c ELSE owned[b]]
           /\ \A b \in DOMAIN owned : b \in DOMAIN owned' /\ owned'[b] = owned[b]
<1>1. /\ OwnedOK(owned) /\ ProcsOK(pc, hand) /\ t \in Procs
      /\ pc \in [Procs -> ThreadPoints \cup JanitorPoints] /\ hand \in [Procs -> [at : Int, class : Classes]]
  BY DEF Inv, ProcsOK, Procs
<1>2. t # Janitor
  BY VMAssumption
<1>3. HandOf(pc, hand, t) = {} /\ HandParts(pc, hand) = HandRest(pc, hand, t)
  <2>1. HandOf(pc, hand, t) = {}
    BY DEF HandOf, Holding
  <2> QED BY <1>1, <2>1, HandSplit
<1>4. HandParts(pc', hand') = HandRest(pc', hand', t) \cup HandOf(pc', hand', t)
  BY <1>1, HandSplit
<1>5. CASE x
  <2>1. hand' = [hand EXCEPT ![t] = Chunk(a, c)] /\ pc' = [pc EXCEPT ![t] = "move"] /\ owned' = owned
    BY <1>5 DEF Deliver, At
  <2>2. hand'[t] = Chunk(a, c) /\ pc'[t] = "move"
        /\ \A u \in Procs \ {t} : pc'[u] = pc[u] /\ hand'[u] = hand[u]
    BY <1>1, <2>1
  <2>3. HandRest(pc', hand', t) = HandRest(pc, hand, t)
    BY <2>2, HandRestSame
  <2>4. HandOf(pc', hand', t) = {Part(<<"hand", t>>, a, c)}
    BY <2>2 DEF HandOf, Holding, Chunk
  <2>5. LinesOf(Part(<<"hand", t>>, a, c)) = Span(a, c)
    BY PartIs
  <2>6. OwnedParts(owned') \cup HandParts(pc', hand')
          = OwnedParts(owned) \cup HandParts(pc, hand) \cup {Part(<<"hand", t>>, a, c)}
    BY <1>3, <1>4, <2>1, <2>3, <2>4
  <2>7. ProcsOK(pc', hand')
    <3>1. Chunk(a, c) \in [at : Int, class : Classes] /\ Chunk(a, c).at \in Nat
      BY DEF Chunk
    <3>2. pc' \in [Procs -> ThreadPoints \cup JanitorPoints] /\ hand' \in [Procs -> [at : Int, class : Classes]]
      BY <1>1, <2>1, <3>1 DEF ThreadPoints, Reallocating
    <3>3. \A u \in Threads : pc'[u] \in ThreadPoints
      BY <1>1, <2>2 DEF ProcsOK, ThreadPoints, Reallocating, Procs
    <3>4. pc'[Janitor] \in JanitorPoints
      BY <1>1, <1>2, <2>2 DEF ProcsOK, Procs
    <3>5. \A p \in Procs : pc'[p] \in Holding => hand'[p].at \in Nat
      BY <1>1, <2>2, <3>1 DEF ProcsOK
    <3> QED BY <3>2, <3>3, <3>4, <3>5 DEF ProcsOK
  <2> QED BY <1>1, <1>5, <2>1, <2>2, <2>5, <2>6, <2>7
<1>6. CASE ~x
  <2>1. hand' = [hand EXCEPT ![t] = NoChunk] /\ pc' = [pc EXCEPT ![t] = "idle"]
        /\ owned' = [b \in DOMAIN owned \cup {a} |-> IF b = a THEN c ELSE owned[b]]
    BY <1>6 DEF Deliver, At
  <2>2. hand'[t] = NoChunk /\ pc'[t] = "idle"
        /\ \A u \in Procs \ {t} : pc'[u] = pc[u] /\ hand'[u] = hand[u]
    BY <1>1, <2>1
  <2>3. HandRest(pc', hand', t) = HandRest(pc, hand, t)
    BY <2>2, HandRestSame
  <2>4. HandOf(pc', hand', t) = {}
    BY <2>2 DEF HandOf, Holding
  <2>5. LinesOf(Part(<<"owned">>, a, c)) = Span(a, c)
    BY PartIs
  <2>6. OwnedOK(owned') /\ OwnedParts(owned') = OwnedParts(owned) \cup {Part(<<"owned">>, a, c)}
    <3> DEFINE g == [b \in DOMAIN owned \cup {a} |-> IF b = a THEN c ELSE owned[b]]
    <3>1. OwnedOK(g) /\ OwnedParts(g) = OwnedParts(owned) \cup {Part(<<"owned">>, a, c)}
      BY <1>1, OwnedGains
    <3>2. owned' = g
      BY <2>1
    <3> HIDE DEF g
    <3> QED BY <3>1, <3>2
  <2>7. OwnedParts(owned') \cup HandParts(pc', hand')
          = OwnedParts(owned) \cup HandParts(pc, hand) \cup {Part(<<"owned">>, a, c)}
    BY <1>3, <1>4, <2>3, <2>4, <2>6
  <2>8. ProcsOK(pc', hand')
    <3>1. NoChunk \in [at : Int, class : Classes]
      BY SizesAre DEF NoChunk, Chunk, Nowhere, Classes, Pos
    <3>2. pc' \in [Procs -> ThreadPoints \cup JanitorPoints] /\ hand' \in [Procs -> [at : Int, class : Classes]]
      BY <1>1, <2>1, <3>1 DEF ThreadPoints
    <3>3. \A u \in Threads : pc'[u] \in ThreadPoints
      BY <1>1, <2>2 DEF ProcsOK, ThreadPoints, Procs
    <3>4. pc'[Janitor] \in JanitorPoints
      BY <1>1, <1>2, <2>2 DEF ProcsOK, Procs
    <3>5. \A p \in Procs : pc'[p] \in Holding => hand'[p].at \in Nat
      BY <1>1, <2>2 DEF ProcsOK, Holding
    <3> QED BY <3>2, <3>3, <3>4, <3>5 DEF ProcsOK
  <2>9. \A b \in DOMAIN owned : b \in DOMAIN owned' /\ owned'[b] = owned[b]
    BY <2>1
  <2> QED BY <1>1, <1>6, <2>1, <2>2, <2>5, <2>6, <2>7, <2>8, <2>9
<1> QED
  BY <1>5, <1>6

------------------------------------------------------------------------------
(* Reserving a dirty chunk.                                                 *)

\* A dirty chunk is known by its address, and no caller has it.
LEMMA DirtyOnly ==
    ASSUME Inv, NEW d \in Queued
    PROVE  /\ d \in Dirts /\ d.at \in Nat /\ d.class \in Classes /\ d.at \notin DOMAIN owned
           /\ \A e \in Queued : e.at = d.at => e = d
           /\ d.is_new => d \in ToSet(new) /\ d \notin ToSet(old)
           /\ ~d.is_new => d \in ToSet(old) /\ d \notin ToSet(new)
<1>1. DirtyOK(new, old, sizes)
  BY DEF Inv
<1>2. \A e \in Queued : e \in Dirts
  BY <1>1 DEF DirtyOK, Queued, ToSet
<1>3. d \in Dirts /\ d.at \in Nat /\ d.class \in Classes
  BY <1>2 DEF Dirts
<1>4. \A e \in Queued : (e.is_new => e \in ToSet(new) /\ e \notin ToSet(old))
                        /\ (~e.is_new => e \in ToSet(old) /\ e \notin ToSet(new))
  BY <1>1 DEF DirtyOK, Queued
<1> DEFINE P(e) == Part(IF e.is_new THEN <<"new">> ELSE <<"old">>, e.at, e.class)
<1>5. ASSUME NEW e \in Queued
      PROVE  P(e) \in Parts /\ IsPart(P(e)) /\ P(e).at = e.at /\ P(e).class = e.class
             /\ P(e).place = IF e.is_new THEN <<"new">> ELSE <<"old">>
  <2>1. P(e) \in Parts
    <3>1. CASE e.is_new
      <4>1. Part(<<"new">>, e.at, e.class) \in DirtyParts(<<"new">>, new)
        BY <1>4, <3>1, DirtyIs
      <4> QED BY <3>1, <4>1, PartsAre
    <3>2. CASE ~e.is_new
      <4>1. Part(<<"old">>, e.at, e.class) \in DirtyParts(<<"old">>, old)
        BY <1>4, <3>2, DirtyIs
      <4> QED BY <3>2, <4>1, PartsAre
    <3> QED BY <3>1, <3>2
  <2>2. IsPart(P(e))
    BY <2>1, PartsArePart
  <2> QED BY <2>1, <2>2, PartIs
<1> HIDE DEF P
<1>6. ASSUME NEW e \in Queued, e.at = d.at PROVE e = d
  <2>1. P(e) = P(d)
    <3>1. P(e).at \in LinesOf(P(e)) /\ P(d).at \in LinesOf(P(d))
      BY <1>5, PartHas
    <3> QED BY <1>5, <1>6, <3>1, OnePart
  <2>2. e.class = d.class /\ (IF e.is_new THEN <<"new">> ELSE <<"old">>) = IF d.is_new THEN <<"new">> ELSE <<"old">>
    BY <1>5, <2>1
  <2>3. e.is_new = d.is_new
    <3>1. e.is_new \in BOOLEAN /\ d.is_new \in BOOLEAN
      BY <1>2 DEF Dirts
    <3> QED BY <2>2, <3>1, PlacesDiffer
  <2>4. e \in Dirts /\ d \in Dirts
    BY <1>2
  <2> QED BY <1>6, <2>2, <2>3, <2>4 DEF Dirts
<1>7. d.at \notin DOMAIN owned
  <2> SUFFICES ASSUME d.at \in DOMAIN owned PROVE FALSE
    OBVIOUS
  <2> DEFINE y == Part(<<"owned">>, d.at, owned[d.at])
  <2>1. y \in Parts
    BY OwnedIs, PartsAre
  <2>2. y.at = d.at /\ y.place = <<"owned">> /\ IsPart(y)
    BY <2>1, PartIs, PartsArePart
  <2> HIDE DEF y
  <2>3. y = P(d)
    <3>1. P(d).at \in LinesOf(P(d)) /\ y.at \in LinesOf(y)
      BY <1>5, <2>2, PartHas
    <3> QED BY <1>5, <2>1, <2>2, <3>1, OnePart
  <2> QED BY <1>5, <2>2, <2>3, PlacesDiffer
<1> QED
  BY <1>3, <1>4, <1>6, <1>7

\* A dirty chunk is taken out of its queue and of the list of its class.
LEMMA DirtyTaken ==
    ASSUME Inv, NEW d \in Queued,
           NEW q \in Seq(Dirts), IsInjective(q), ToSet(q) = ToSet(new) \ {d},
           NEW r \in Seq(Dirts), IsInjective(r), ToSet(r) = ToSet(old) \ {d},
           NEW s \in Lists, IsInjective(s[d.class]), ToSet(s[d.class]) = ToSet(sizes[d.class]) \ {d.at},
           \A k \in Classes \ {d.class} : s[k] = sizes[k]
    PROVE  /\ DirtyOK(q, r, s)
           /\ \E x : /\ x \in DirtyParts(<<"new">>, new) \cup DirtyParts(<<"old">>, old)
                     /\ LinesOf(x) = Span(d.at, d.class)
                     /\ DirtyParts(<<"new">>, q) \cup DirtyParts(<<"old">>, r)
                          = (DirtyParts(<<"new">>, new) \cup DirtyParts(<<"old">>, old)) \ {x}
<1>1. DirtyOK(new, old, sizes)
  BY DEF Inv
<1>2. /\ d \in Dirts /\ d.at \in Nat /\ d.class \in Classes
      /\ \A e \in Queued : e.at = d.at => e = d
      /\ d.is_new => d \in ToSet(new) /\ d \notin ToSet(old)
      /\ ~d.is_new => d \in ToSet(old) /\ d \notin ToSet(new)
  BY DirtyOnly
<1>3. ToSet(q) \cup ToSet(r) = Queued \ {d}
  BY <1>2 DEF Queued
<1>4. DirtyOK(q, r, s)
  <2>1. ASSUME NEW k \in Classes
        PROVE  /\ IsInjective(s[k])
               /\ ToSet(s[k]) = {e.at : e \in {x \in ToSet(q) \cup ToSet(r) : x.class = k}}
    <3>1. IsInjective(sizes[k]) /\ ToSet(sizes[k]) = {e.at : e \in {x \in Queued : x.class = k}}
      BY <1>1 DEF DirtyOK, Queued
    <3>2. CASE k = d.class
      <4>1. {e.at : e \in {x \in Queued \ {d} : x.class = k}}
              = {e.at : e \in {x \in Queued : x.class = k}} \ {d.at}
        BY <1>2
      <4> QED BY <1>3, <3>1, <3>2, <4>1
    <3>3. CASE k # d.class
      <4>1. {x \in Queued \ {d} : x.class = k} = {x \in Queued : x.class = k}
        BY <3>3
      <4> QED BY <1>3, <3>1, <3>3, <4>1
    <3> QED BY <3>2, <3>3
  <2>2. (\A e \in ToSet(q) : e.is_new) /\ (\A e \in ToSet(r) : ~e.is_new)
    BY <1>1 DEF DirtyOK
  <2> QED BY <2>1, <2>2 DEF DirtyOK
<1> DEFINE place == IF d.is_new THEN <<"new">> ELSE <<"old">>
           x == Part(place, d.at, d.class)
           N == DirtyParts(<<"new">>, new)
           L == DirtyParts(<<"old">>, old)
<1>5. x \in N \cup L
  <2>1. CASE d.is_new
    <3>1. Part(<<"new">>, d.at, d.class) \in N
      BY <1>2, <2>1, DirtyIs
    <3> QED BY <2>1, <3>1
  <2>2. CASE ~d.is_new
    <3>1. Part(<<"old">>, d.at, d.class) \in L
      BY <1>2, <2>2, DirtyIs
    <3> QED BY <2>2, <3>1
  <2> QED BY <2>1, <2>2
<1>6. LinesOf(x) = Span(d.at, d.class) /\ x.place = place /\ x.at = d.at
  BY PartIs
<1> HIDE DEF x
<1>7. DirtyParts(<<"new">>, q) = N \ {x}
  <2>1. ASSUME NEW y \in DirtyParts(<<"new">>, q) PROVE y \in N \ {x}
    <3>1. PICK e \in ToSet(q) : y = Part(<<"new">>, e.at, e.class)
      BY DirtyIs
    <3>2. e \in ToSet(new) /\ e # d /\ e \in Queued
      BY DEF Queued
    <3>3. y \in N /\ y.at = e.at
      BY <3>1, <3>2, DirtyIs, PartIs
    <3>4. e.at # d.at
      BY <1>2, <3>2
    <3> QED BY <1>6, <3>3, <3>4
  <2>2. ASSUME NEW y \in N, y # x PROVE y \in DirtyParts(<<"new">>, q)
    <3>1. PICK e \in ToSet(new) : y = Part(<<"new">>, e.at, e.class)
      BY DirtyIs
    <3>2. e # d
      <4>1. e.is_new
        BY <1>1 DEF DirtyOK
      <4> QED BY <2>2, <3>1, <4>1 DEF x
    <3> QED BY <3>1, <3>2, DirtyIs
  <2> QED BY <2>1, <2>2
<1>8. DirtyParts(<<"old">>, r) = L \ {x}
  <2>1. ASSUME NEW y \in DirtyParts(<<"old">>, r) PROVE y \in L \ {x}
    <3>1. PICK e \in ToSet(r) : y = Part(<<"old">>, e.at, e.class)
      BY DirtyIs
    <3>2. e \in ToSet(old) /\ e # d /\ e \in Queued
      BY DEF Queued
    <3>3. y \in L /\ y.at = e.at
      BY <3>1, <3>2, DirtyIs, PartIs
    <3>4. e.at # d.at
      BY <1>2, <3>2
    <3> QED BY <1>6, <3>3, <3>4
  <2>2. ASSUME NEW y \in L, y # x PROVE y \in DirtyParts(<<"old">>, r)
    <3>1. PICK e \in ToSet(old) : y = Part(<<"old">>, e.at, e.class)
      BY DirtyIs
    <3>2. e # d
      <4>1. ~e.is_new
        BY <1>1 DEF DirtyOK
      <4> QED BY <2>2, <3>1, <4>1 DEF x
    <3> QED BY <3>1, <3>2, DirtyIs
  <2> QED BY <2>1, <2>2
<1> QED
  BY <1>4, <1>5, <1>6, <1>7, <1>8

\* A chunk is unlinked from the queue it is in.
LEMMA ExceptIs ==
    ASSUME NEW q \in Seq(Dirts), IsInjective(q), NEW d \in ToSet(q),
           \A e \in ToSet(q) : e.at = d.at => e = d
    PROVE  /\ Except(q, d.at) \in Seq(Dirts) /\ IsInjective(Except(q, d.at))
           /\ ToSet(Except(q, d.at)) = ToSet(q) \ {d}
<1> DEFINE i == CHOOSE j \in DOMAIN q : q[j].at = d.at
<1>1. \E j \in DOMAIN q : q[j].at = d.at
  BY DEF ToSet
<1>2. i \in DOMAIN q /\ q[i].at = d.at
  BY <1>1
<1>3. Except(q, d.at) = RemoveAt(q, i)
  BY DEF Except
<1> HIDE DEF i
<1>4. q[i] = d
  BY <1>2 DEF ToSet
<1> QED
  BY <1>2, <1>3, <1>4, TakeOut

\* An address is unlinked from the list it is in.
LEMMA UnlistedIs ==
    ASSUME NEW s \in Seq(Nat), IsInjective(s), NEW a \in ToSet(s)
    PROVE  /\ Unlisted(s, a) \in Seq(Nat) /\ IsInjective(Unlisted(s, a))
           /\ ToSet(Unlisted(s, a)) = ToSet(s) \ {a}
<1> DEFINE i == CHOOSE j \in DOMAIN s : s[j] = a
<1>1. \E j \in DOMAIN s : s[j] = a
  BY DEF ToSet
<1>2. i \in DOMAIN s /\ s[i] = a
  BY <1>1
<1>3. Unlisted(s, a) = RemoveAt(s, i)
  BY DEF Unlisted
<1> HIDE DEF i
<1> QED
  BY <1>2, <1>3, TakeOut

\* The section under dirty_mmaps_lock: a dirty chunk becomes the caller's, or none is taken.
LEMMA PopDirtyStep ==
    ASSUME Inv, NEW t \in Threads, NEW c \in Classes, NEW x \in BOOLEAN,
           pc[t] = "idle", PopDirty(t, c, x)
    PROVE  /\ OwnedOK(owned') /\ ProcsOK(pc', hand') /\ DirtyOK(new', old', sizes')
           /\ \A u \in Procs \ {t} : pc'[u] = pc[u] /\ hand'[u] = hand[u]
           /\ \A b \in DOMAIN owned : b \in DOMAIN owned' /\ owned'[b] = owned[b]
           /\ x => pc'[t] \in {"list", "move"} /\ hand'[t].class = c
           /\ ~x => pc'[t] \in {"list", "idle"}
           /\ old' = old \/ (old # <<>> /\ pc'[Janitor] = pc[Janitor])
           /\ Account(PoolParts(ThePool) \cup OwnedParts(owned') \cup DirtyParts(<<"new">>, new')
                          \cup DirtyParts(<<"old">>, old') \cup HandParts(pc', hand'),
                      lost, mapped \cup HoleOf(pc, hand, moving, owned))
<1>1. /\ OwnedOK(owned) /\ ProcsOK(pc, hand) /\ t \in Procs /\ t # Janitor /\ DirtyOK(new, old, sizes)
      /\ pc \in [Procs -> ThreadPoints \cup JanitorPoints] /\ hand \in [Procs -> [at : Int, class : Classes]]
  BY VMAssumption DEF Inv, ProcsOK, Procs
<1>2. CASE c >= PageClass /\ sizes[c] # <<>>
  <2> DEFINE a == Head(sizes[c])
             d == CHOOSE e \in Queued : e.at = a
  <2>1. /\ new' = IF d.is_new THEN Except(new, a) ELSE new
        /\ old' = IF d.is_new THEN old ELSE Except(old, a)
        /\ sizes' = [sizes EXCEPT ![c] = Tail(@)]
        /\ Deliver(t, a, c, x)
    BY <1>2 DEF PopDirty
  <2>2. sizes \in Lists /\ sizes[c] \in Seq(Nat) /\ IsInjective(sizes[c])
    BY <1>1 DEF DirtyOK, Lists
  <2>3. /\ a \in Nat /\ a \in ToSet(sizes[c]) /\ Tail(sizes[c]) \in Seq(Nat)
        /\ ToSet(Tail(sizes[c])) = ToSet(sizes[c]) \ {a} /\ IsInjective(Tail(sizes[c]))
    BY <1>2, <2>2, TakeFirst
  <2>4. PICK e \in Queued : e.at = a /\ e.class = c
    <3>1. ToSet(sizes[c]) = {e.at : e \in {y \in Queued : y.class = c}}
      BY <1>1 DEF DirtyOK, Queued
    <3> QED BY <2>3, <3>1
  <2>5. d \in Queued /\ d.at = a
    BY <2>4
  <2> HIDE DEF d
  <2>6. /\ d.class = c /\ d.at \notin DOMAIN owned
        /\ \A f \in Queued : f.at = d.at => f = d
        /\ d.is_new => d \in ToSet(new) /\ d \notin ToSet(old)
        /\ ~d.is_new => d \in ToSet(old) /\ d \notin ToSet(new)
    BY <2>4, <2>5, DirtyOnly
  <2>7. /\ new' \in Seq(Dirts) /\ IsInjective(new') /\ ToSet(new') = ToSet(new) \ {d}
        /\ old' \in Seq(Dirts) /\ IsInjective(old') /\ ToSet(old') = ToSet(old) \ {d}
    <3>1. new \in Seq(Dirts) /\ old \in Seq(Dirts) /\ IsInjective(new) /\ IsInjective(old)
      BY <1>1 DEF DirtyOK
    <3>2. CASE d.is_new
      <4>1. /\ Except(new, d.at) \in Seq(Dirts) /\ IsInjective(Except(new, d.at))
            /\ ToSet(Except(new, d.at)) = ToSet(new) \ {d}
        BY <2>6, <3>1, <3>2, ExceptIs DEF Queued
      <4>2. new' = Except(new, d.at) /\ old' = old
        BY <2>1, <2>5, <3>2
      <4> QED BY <2>6, <3>1, <3>2, <4>1, <4>2
    <3>3. CASE ~d.is_new
      <4>1. /\ Except(old, d.at) \in Seq(Dirts) /\ IsInjective(Except(old, d.at))
            /\ ToSet(Except(old, d.at)) = ToSet(old) \ {d}
        BY <2>6, <3>1, <3>3, ExceptIs DEF Queued
      <4>2. old' = Except(old, d.at) /\ new' = new
        BY <2>1, <2>5, <3>3
      <4> QED BY <2>6, <3>1, <3>3, <4>1, <4>2
    <3> QED BY <3>2, <3>3
  <2>8. /\ sizes' \in Lists /\ IsInjective(sizes'[c]) /\ ToSet(sizes'[c]) = ToSet(sizes[c]) \ {d.at}
        /\ \A k \in Classes \ {c} : sizes'[k] = sizes[k]
    <3>1. sizes'[c] = Tail(sizes[c]) /\ \A k \in Classes \ {c} : sizes'[k] = sizes[k]
      BY <2>1, <2>2 DEF Lists
    <3>2. sizes' \in Lists
      BY <2>1, <2>2, <2>3 DEF Lists
    <3> QED BY <2>3, <2>5, <3>1, <3>2
  <2>9. /\ DirtyOK(new', old', sizes')
        /\ \E y : /\ y \in DirtyParts(<<"new">>, new) \cup DirtyParts(<<"old">>, old)
                  /\ LinesOf(y) = Span(d.at, d.class)
                  /\ DirtyParts(<<"new">>, new') \cup DirtyParts(<<"old">>, old')
                       = (DirtyParts(<<"new">>, new) \cup DirtyParts(<<"old">>, old)) \ {y}
    <3>1. /\ IsInjective(sizes'[d.class]) /\ ToSet(sizes'[d.class]) = ToSet(sizes[d.class]) \ {d.at}
          /\ \A k \in Classes \ {d.class} : sizes'[k] = sizes[k]
      BY <2>6, <2>8
    <3> QED BY <2>5, <2>7, <2>8, <3>1, DirtyTaken
  <2>10. PICK y : /\ y \in DirtyParts(<<"new">>, new) \cup DirtyParts(<<"old">>, old)
                  /\ LinesOf(y) = Span(a, c)
                  /\ DirtyParts(<<"new">>, new') \cup DirtyParts(<<"old">>, old')
                       = (DirtyParts(<<"new">>, new) \cup DirtyParts(<<"old">>, old)) \ {y}
    BY <2>5, <2>6, <2>9
  <2> HIDE DEF a
  <2>11. /\ OwnedOK(owned') /\ ProcsOK(pc', hand')
         /\ \E z : /\ LinesOf(z) = Span(a, c)
                   /\ OwnedParts(owned') \cup HandParts(pc', hand')
                        = OwnedParts(owned) \cup HandParts(pc, hand) \cup {z}
         /\ \A u \in Procs \ {t} : pc'[u] = pc[u] /\ hand'[u] = hand[u]
         /\ x => pc'[t] = "move" /\ hand'[t] = Chunk(a, c) /\ owned' = owned
         /\ ~x => pc'[t] = "idle" /\ owned' = [b \in DOMAIN owned \cup {a} |-> IF b = a THEN c ELSE owned[b]]
         /\ \A b \in DOMAIN owned : b \in DOMAIN owned' /\ owned'[b] = owned[b]
    <3>1. a \in Nat /\ a \notin DOMAIN owned /\ Deliver(t, a, c, x) /\ pc[t] \in {"idle", "list"}
      BY <2>1, <2>3, <2>5, <2>6
    <3> QED BY <3>1, DeliverStep
  <2>12. PICK z : /\ LinesOf(z) = Span(a, c)
                  /\ OwnedParts(owned') \cup HandParts(pc', hand')
                       = OwnedParts(owned) \cup HandParts(pc, hand) \cup {z}
    BY <2>11
  <2> DEFINE F == PoolParts(ThePool)
             R == F \cup OwnedParts(owned) \cup HandParts(pc, hand)
                    \cup ((DirtyParts(<<"new">>, new) \cup DirtyParts(<<"old">>, old)) \ {y})
             P == mapped \cup HoleOf(pc, hand, moving, owned)
  <2>13. Account(R \cup {y}, lost, P) /\ R \cap {y} = {}
    <3>1. R \cup {y} = F \cup OwnedParts(owned) \cup DirtyParts(<<"new">>, new)
                         \cup DirtyParts(<<"old">>, old) \cup HandParts(pc, hand)
      BY <2>10
    <3>2. R \cap {y} = {}
      BY <2>10, FamiliesDiffer
    <3>3. Account(F \cup OwnedParts(owned) \cup DirtyParts(<<"new">>, new)
                         \cup DirtyParts(<<"old">>, old) \cup HandParts(pc, hand), lost, P)
      BY DEF Inv, Books
    <3> QED BY <3>1, <3>2, <3>3
  <2>14. Account(R \cup {z}, lost, P)
    <3>1. LinesOfAll({z}) = LinesOfAll({y}) /\ Apart({z})
      BY <2>10, <2>12, LinesOfUnion
    <3> HIDE DEF R, P
    <3> QED BY <2>13, <3>1, Exchanged
  <2>15. R \cup {z} = F \cup OwnedParts(owned') \cup DirtyParts(<<"new">>, new')
                        \cup DirtyParts(<<"old">>, old') \cup HandParts(pc', hand')
    BY <2>10, <2>12
  <2>16. old' = old \/ (old # <<>> /\ pc'[Janitor] = pc[Janitor])
    <3>1. pc'[Janitor] = pc[Janitor]
      BY <1>1, <2>11 DEF Procs
    <3>2. ~d.is_new => old # <<>>
      BY <2>6 DEF ToSet
    <3> QED BY <2>1, <3>1, <3>2
  <2>17. x => hand'[t].class = c
    BY <2>11 DEF Chunk
  <2> QED BY <2>9, <2>11, <2>14, <2>15, <2>16, <2>17
<1>3. CASE ~(c >= PageClass /\ sizes[c] # <<>>)
  <2>1. /\ hand' = [hand EXCEPT ![t] = Chunk(Nowhere, c)] /\ pc' = [pc EXCEPT ![t] = "list"]
        /\ owned' = owned /\ new' = new /\ old' = old /\ sizes' = sizes
    BY <1>3 DEF PopDirty, At, dirtyVars
  <2>2. /\ hand'[t] = Chunk(Nowhere, c) /\ pc'[t] = "list"
        /\ \A u \in Procs \ {t} : pc'[u] = pc[u] /\ hand'[u] = hand[u]
    BY <1>1, <2>1
  <2>3. ProcsOK(pc', hand')
    <3>1. Chunk(Nowhere, c) \in [at : Int, class : Classes]
      BY DEF Chunk, Nowhere
    <3>2. pc' \in [Procs -> ThreadPoints \cup JanitorPoints] /\ hand' \in [Procs -> [at : Int, class : Classes]]
      BY <1>1, <2>1, <3>1 DEF ThreadPoints
    <3>3. \A u \in Threads : pc'[u] \in ThreadPoints
      BY <1>1, <2>2 DEF ProcsOK, ThreadPoints, Procs
    <3>4. pc'[Janitor] \in JanitorPoints
      BY <1>1, <2>2 DEF ProcsOK, Procs
    <3>5. \A p \in Procs : pc'[p] \in Holding => hand'[p].at \in Nat
      BY <1>1, <2>2 DEF ProcsOK, Holding
    <3> QED BY <3>2, <3>3, <3>4, <3>5 DEF ProcsOK
  <2>4. HandParts(pc', hand') = HandParts(pc, hand)
    <3>1. HandRest(pc', hand', t) = HandRest(pc, hand, t)
      BY <2>2, HandRestSame
    <3>2. HandOf(pc', hand', t) = {} /\ HandOf(pc, hand, t) = {}
      BY <2>2 DEF HandOf, Holding
    <3> QED BY <1>1, <3>1, <3>2, HandSplit
  <2>5. hand'[t].class = c
    BY <2>2 DEF Chunk
  <2> QED BY <1>1, <2>1, <2>2, <2>3, <2>4, <2>5 DEF Inv, Books
<1> QED
  BY <1>2, <1>3

\* A thread that is in no reallocation.
LEMMA NotMoving ==
    ASSUME Inv, NEW t \in Threads, pc[t] \notin Reallocating \cup {"list"}
    PROVE  moving[t] = Nowhere
BY DEF Inv, MovingOK

\* A reservation takes a dirty chunk of its class, or starts on the free lists.
LEMMA ReserveInv ==
    ASSUME Inv, NEW t \in Threads, Reserve(t)
    PROVE  Inv' /\ (mapped \cup HoleOf(pc, hand, moving, owned))'
                     = mapped \cup HoleOf(pc, hand, moving, owned)
<1>1. /\ pc[t] = "idle" /\ moving' = moving /\ lost' = lost /\ mapped' = mapped /\ end' = end
      /\ ThePool' = ThePool
  BY DEF Reserve, poolVars, listVars, ThePool
<1>2. PICK c \in Requests : PopDirty(t, c, FALSE)
  BY DEF Reserve
<1>3. c \in Classes
  BY VMAssumption DEF Classes
<1>4. /\ OwnedOK(owned') /\ ProcsOK(pc', hand') /\ DirtyOK(new', old', sizes')
      /\ \A u \in Procs \ {t} : pc'[u] = pc[u] /\ hand'[u] = hand[u]
      /\ \A b \in DOMAIN owned : b \in DOMAIN owned' /\ owned'[b] = owned[b]
      /\ FALSE => pc'[t] \in {"list", "move"} /\ hand'[t].class = c
      /\ ~FALSE => pc'[t] \in {"list", "idle"}
      /\ old' = old \/ (old # <<>> /\ pc'[Janitor] = pc[Janitor])
      /\ Account(PoolParts(ThePool) \cup OwnedParts(owned') \cup DirtyParts(<<"new">>, new')
                     \cup DirtyParts(<<"old">>, old') \cup HandParts(pc', hand'),
                 lost, mapped \cup HoleOf(pc, hand, moving, owned))
  BY <1>1, <1>2, <1>3, PopDirtyStep
<1>5. t \in Procs /\ moving[t] = Nowhere /\ Janitor \in Procs \ {t}
  <2>1. moving[t] = Nowhere
    BY <1>1, NotMoving DEF Reallocating
  <2> QED BY <2>1, VMAssumption DEF Procs
<1>6. OthersStay(t, pc', hand', moving', owned')
  <2>1. \A u \in Threads : u \in Procs
    BY DEF Procs
  <2>2. \A u \in Threads : moving[u] # Nowhere => moving[u] \in DOMAIN owned
    BY DEF Inv, MovingOK
  <2> QED BY <1>1, <1>4, <2>1, <2>2 DEF OthersStay
<1>7. HoleOf(pc', hand', moving', owned') = HoleOf(pc, hand, moving, owned)
  BY <1>1, <1>4, <1>5, <1>6, HoleStays
<1>8. MovingOK(moving', pc', hand', owned')
  <2>1. moving' \in [Threads -> Int]
    BY <1>1 DEF Inv, MovingOK
  <2>2. moving'[t] = Nowhere /\ pc'[t] \notin Reallocating
    BY <1>1, <1>4, <1>5 DEF Reallocating
  <2> QED BY <1>5, <1>6, <2>1, <2>2, MovingStays
<1>9. AgedOK(pc', old')
  BY <1>4, <1>5 DEF AgedOK, Inv
<1>10. Books(ThePool', owned', new', old', pc', hand', lost', mapped' \cup HoleOf(pc', hand', moving', owned'))
  BY <1>1, <1>4, <1>7 DEF Books
<1>11. end' \in Nat /\ PoolOK(ThePool')
  BY <1>1 DEF Inv
<1> QED
  BY <1>1, <1>4, <1>7, <1>8, <1>9, <1>10, <1>11 DEF Inv

\* An expansion does the same for the new chunk, and remembers the one it is for.
LEMMA ExpandInv ==
    ASSUME Inv, NEW t \in Threads, Expand(t)
    PROVE  Inv' /\ (mapped \cup HoleOf(pc, hand, moving, owned))'
                     = mapped \cup HoleOf(pc, hand, moving, owned)
<1>1. /\ pc[t] = "idle" /\ lost' = lost /\ mapped' = mapped /\ end' = end
      /\ ThePool' = ThePool
  BY DEF Expand, poolVars, listVars, ThePool
<1>2. PICK a \in Settled : \E c \in {r \in Requests : r > owned[a]} :
          moving' = [moving EXCEPT ![t] = a] /\ PopDirty(t, c, TRUE)
  BY DEF Expand
<1>3. PICK c \in {r \in Requests : r > owned[a]} :
          moving' = [moving EXCEPT ![t] = a] /\ PopDirty(t, c, TRUE)
  BY <1>2
<1>4. c \in Classes /\ c > owned[a] /\ a \in DOMAIN owned /\ \A u \in Threads : moving[u] # a
  BY VMAssumption DEF Classes, Settled
<1>5. /\ OwnedOK(owned') /\ ProcsOK(pc', hand') /\ DirtyOK(new', old', sizes')
      /\ \A u \in Procs \ {t} : pc'[u] = pc[u] /\ hand'[u] = hand[u]
      /\ \A b \in DOMAIN owned : b \in DOMAIN owned' /\ owned'[b] = owned[b]
      /\ TRUE => pc'[t] \in {"list", "move"} /\ hand'[t].class = c
      /\ ~TRUE => pc'[t] \in {"list", "idle"}
      /\ old' = old \/ (old # <<>> /\ pc'[Janitor] = pc[Janitor])
      /\ Account(PoolParts(ThePool) \cup OwnedParts(owned') \cup DirtyParts(<<"new">>, new')
                     \cup DirtyParts(<<"old">>, old') \cup HandParts(pc', hand'),
                 lost, mapped \cup HoleOf(pc, hand, moving, owned))
  BY <1>1, <1>3, <1>4, PopDirtyStep
<1>6. t \in Procs /\ Janitor \in Procs \ {t}
  BY VMAssumption DEF Procs
<1>7. /\ moving \in [Threads -> Int] /\ a \in Nat /\ moving'[t] = a /\ a # Nowhere
      /\ moving' \in [Threads -> Int]
      /\ \A u \in Threads \ {t} : moving'[u] = moving[u]
  <2>1. moving \in [Threads -> Int]
    BY DEF Inv, MovingOK
  <2>2. a \in Nat /\ a # Nowhere
    BY <1>4 DEF Inv, OwnedOK, Nowhere
  <2> QED BY <1>3, <2>1, <2>2
<1>8. OthersStay(t, pc', hand', moving', owned')
  <2>1. \A u \in Threads : u \in Procs
    BY DEF Procs
  <2>2. \A u \in Threads : moving[u] # Nowhere => moving[u] \in DOMAIN owned
    BY DEF Inv, MovingOK
  <2> QED BY <1>5, <1>7, <2>1, <2>2 DEF OthersStay
<1>9. HoleOf(pc', hand', moving', owned') = HoleOf(pc, hand, moving, owned)
  BY <1>1, <1>5, <1>6, <1>8, HoleStays
<1>10. MovingOK(moving', pc', hand', owned')
  <2>1. /\ pc'[t] \in Reallocating \cup {"list"} /\ a \in DOMAIN owned' /\ owned'[a] = owned[a]
        /\ hand'[t].class > owned'[a]
    BY <1>4, <1>5 DEF Reallocating
  <2> QED BY <1>4, <1>6, <1>7, <1>8, <2>1, MovingStays
<1>11. AgedOK(pc', old')
  BY <1>5, <1>6 DEF AgedOK, Inv
<1>12. Books(ThePool', owned', new', old', pc', hand', lost', mapped' \cup HoleOf(pc', hand', moving', owned'))
  BY <1>1, <1>5, <1>9 DEF Books
<1>13. end' \in Nat /\ PoolOK(ThePool')
  BY <1>1 DEF Inv
<1> QED
  BY <1>1, <1>5, <1>9, <1>10, <1>11, <1>12, <1>13 DEF Inv

------------------------------------------------------------------------------
(* The pool: pushing, splitting and growing.                                *)

\* What PushAll does is what Pushed is.
LEMMA PushAllIs ==
    ASSUME NEW lists, NEW n, NEW chunks, PushAll(lists, n, chunks), NEW before, NEW lines,
           Gains(before, Pushed([free |-> lists, indexes |-> n, pages |-> indexPages], chunks), lines)
    PROVE  /\ ThePool' = Pushed([free |-> lists, indexes |-> n, pages |-> indexPages], chunks)
           /\ PoolOK(ThePool')
           /\ LinesOfAll(PoolParts(ThePool')) = LinesOfAll(PoolParts(before)) \cup lines
<1> DEFINE pool == Pushed([free |-> lists, indexes |-> n, pages |-> indexPages], chunks)
<1>1. free' = pool.free /\ indexes' = pool.indexes /\ indexPages' = pool.pages
  BY DEF PushAll
<1>2. Gains(before, pool, lines)
  OBVIOUS
<1> HIDE DEF pool
<1>3. pool = [free |-> pool.free, indexes |-> pool.indexes, pages |-> pool.pages]
  BY <1>2 DEF Gains, PoolOK, PoolType
<1>4. ThePool' = pool
  BY <1>1, <1>3 DEF ThePool
<1> QED
  BY <1>2, <1>4 DEF Gains, pool

\* A process pushes the chunk it holds.
LEMMA PushInv ==
    ASSUME Inv, NEW p \in Procs, NEW from, NEW to, Push(p, from, to),
           (p \in Threads /\ from = "give" /\ to = "idle") \/ (p = Janitor /\ from = "push" /\ to = "fetch")
    PROVE  Inv' /\ (mapped \cup HoleOf(pc, hand, moving, owned))'
                     = mapped \cup HoleOf(pc, hand, moving, owned)
<1>1. /\ pc[p] = from /\ PushAll(free, indexes, <<hand[p]>>)
      /\ hand' = [hand EXCEPT ![p] = NoChunk] /\ pc' = [pc EXCEPT ![p] = to]
      /\ mapped' = mapped /\ end' = end /\ new' = new /\ old' = old /\ sizes' = sizes
      /\ owned' = owned /\ lost' = lost /\ moving' = moving
  BY DEF Push, At, dirtyVars, callVars
<1>2. /\ OwnedOK(owned) /\ ProcsOK(pc, hand) /\ PoolOK(ThePool)
      /\ pc \in [Procs -> ThreadPoints \cup JanitorPoints] /\ hand \in [Procs -> [at : Int, class : Classes]]
  BY DEF Inv, ProcsOK
<1>3. pc[p] \in Holding /\ hand[p] \in Chunks /\ to \notin Holding
  <2>1. pc[p] \in Holding /\ to \notin Holding
    BY <1>1 DEF Holding
  <2> QED BY <1>2, <2>1 DEF ProcsOK, Chunks
<1>4. /\ hand'[p] = NoChunk /\ pc'[p] = to
      /\ \A u \in Procs \ {p} : pc'[u] = pc[u] /\ hand'[u] = hand[u]
  BY <1>1, <1>2
<1> DEFINE F == PoolParts(ThePool)
           x == Part(<<"hand", p>>, hand[p].at, hand[p].class)
           span == Span(hand[p].at, hand[p].class)
           R == OwnedParts(owned) \cup DirtyParts(<<"new">>, new) \cup DirtyParts(<<"old">>, old)
                    \cup HandRest(pc, hand, p)
           P == mapped \cup HoleOf(pc, hand, moving, owned)
<1>5. HandOf(pc, hand, p) = {x} /\ LinesOf(x) = span /\ x.place = <<"hand", p>>
  BY <1>3, PartIs DEF HandOf
<1>6. /\ HandParts(pc, hand) = HandRest(pc, hand, p) \cup {x} /\ HandRest(pc, hand, p) \cap {x} = {}
      /\ x \in HandParts(pc, hand)
  BY <1>5, HandSplit
<1>7. Account(R \cup (F \cup {x}), lost, P) /\ R \cap (F \cup {x}) = {} /\ F \cap {x} = {}
  <2>1. Account(F \cup OwnedParts(owned) \cup DirtyParts(<<"new">>, new)
                  \cup DirtyParts(<<"old">>, old) \cup HandParts(pc, hand), lost, P)
    BY DEF Inv, Books
  <2>2. R \cup (F \cup {x}) = F \cup OwnedParts(owned) \cup DirtyParts(<<"new">>, new)
                                \cup DirtyParts(<<"old">>, old) \cup HandParts(pc, hand)
    BY <1>6
  <2>3. R \cap (F \cup {x}) = {} /\ F \cap {x} = {}
    BY <1>6, FamiliesDiffer, HandSplit
  <2> QED BY <2>1, <2>2, <2>3
<1> HIDE DEF x, R, P, F
<1>8. LinesOfAll(F) \cap span = {} /\ LinesOfAll(F \cup {x}) = LinesOfAll(F) \cup span
  <2>1. Apart(R \cup (F \cup {x}))
    BY <1>7 DEF Account
  <2>2. Apart(F \cup {x})
    BY <1>7, <2>1, ApartParts
  <2>3. LinesOfAll(F) \cap LinesOfAll({x}) = {}
    BY <1>7, <2>2, ApartParts
  <2>4. LinesOfAll({x}) = span
    BY <1>5, LinesOfUnion
  <2> QED BY <2>3, <2>4, LinesOfUnion
<1>9. PoolOK(ThePool') /\ LinesOfAll(PoolParts(ThePool')) = LinesOfAll(F) \cup span
  <2>1. Gains(ThePool, Pushed(ThePool, <<hand[p]>>), span)
    BY <1>2, <1>3, <1>8, SingleGains DEF F
  <2>2. Gains(ThePool, Pushed([free |-> free, indexes |-> indexes, pages |-> indexPages], <<hand[p]>>), span)
    BY <2>1 DEF ThePool
  <2> QED BY <1>1, <2>2, PushAllIs DEF F
<1>10. Account(R \cup PoolParts(ThePool'), lost, P)
  <2>1. Apart(PoolParts(ThePool')) /\ LinesOfAll(PoolParts(ThePool')) = LinesOfAll(F \cup {x})
    BY <1>8, <1>9 DEF PoolOK
  <2> QED BY <1>7, <2>1, Exchanged
<1>11. HandParts(pc', hand') = HandRest(pc, hand, p)
  <2>1. HandRest(pc', hand', p) = HandRest(pc, hand, p)
    BY <1>4, HandRestSame
  <2>2. HandOf(pc', hand', p) = {}
    BY <1>3, <1>4 DEF HandOf
  <2> QED BY <2>1, <2>2, HandSplit
<1>12. OthersStay(p, pc', hand', moving', owned')
  <2>1. \A u \in Threads : u \in Procs
    BY DEF Procs
  <2>2. \A u \in Threads : moving[u] # Nowhere => moving[u] \in DOMAIN owned
    BY DEF Inv, MovingOK
  <2> QED BY <1>1, <1>4, <2>1, <2>2 DEF OthersStay
<1>13. HoleOf(pc', hand', moving', owned') = HoleOf(pc, hand, moving, owned)
  <2>1. p \in Threads => /\ pc[p] # "hole" /\ pc[p] # "refill"
                         /\ pc'[p] # "hole" /\ pc'[p] # "refill"
    BY <1>1, <1>4, VMAssumption
  <2> QED BY <1>12, <2>1, HoleStays
<1>14. MovingOK(moving', pc', hand', owned')
  <2>1. moving' \in [Threads -> Int]
    BY <1>1 DEF Inv, MovingOK
  <2>2. p \in Threads => moving'[p] = Nowhere /\ pc'[p] \notin Reallocating
    <3>1. ASSUME p \in Threads PROVE moving[p] = Nowhere /\ pc[p] = "give" /\ pc'[p] = "idle"
      <4>1. pc[p] = "give" /\ pc'[p] = "idle"
        BY <1>1, <1>4, <3>1, VMAssumption
      <4> QED BY <3>1, <4>1, NotMoving DEF Reallocating
    <3> QED BY <1>1, <3>1 DEF Reallocating
  <2> QED BY <1>12, <2>1, <2>2, MovingStays
<1>15. ProcsOK(pc', hand')
  <2>1. NoChunk \in [at : Int, class : Classes]
    BY SizesAre DEF NoChunk, Chunk, Nowhere, Classes, Pos
  <2>2. to \in ThreadPoints \cup JanitorPoints
    BY DEF ThreadPoints, JanitorPoints
  <2>3. pc' \in [Procs -> ThreadPoints \cup JanitorPoints] /\ hand' \in [Procs -> [at : Int, class : Classes]]
    BY <1>1, <1>2, <2>1, <2>2
  <2>4. \A u \in Threads : pc'[u] \in ThreadPoints
    BY <1>2, <1>4, VMAssumption DEF ProcsOK, ThreadPoints, Procs
  <2>5. pc'[Janitor] \in JanitorPoints
    BY <1>2, <1>4, VMAssumption DEF ProcsOK, Procs, JanitorPoints
  <2>6. \A q \in Procs : pc'[q] \in Holding => hand'[q].at \in Nat
    BY <1>2, <1>3, <1>4 DEF ProcsOK
  <2> QED BY <2>3, <2>4, <2>5, <2>6 DEF ProcsOK
<1>16. AgedOK(pc', old')
  <2>1. pc'[Janitor] = "age" => pc[Janitor] = "age"
    BY <1>4 DEF Procs
  <2> QED BY <1>1, <2>1 DEF Inv, AgedOK
<1>17. Books(ThePool', owned', new', old', pc', hand', lost', mapped' \cup HoleOf(pc', hand', moving', owned'))
  <2>1. R \cup PoolParts(ThePool') = PoolParts(ThePool') \cup OwnedParts(owned') \cup DirtyParts(<<"new">>, new')
                                       \cup DirtyParts(<<"old">>, old') \cup HandParts(pc', hand')
    BY <1>1, <1>11 DEF R
  <2> QED BY <1>1, <1>10, <1>13, <2>1 DEF Books, P
<1>18. end' \in Nat /\ OwnedOK(owned') /\ DirtyOK(new', old', sizes')
  BY <1>1 DEF Inv
<1> QED
  BY <1>1, <1>9, <1>13, <1>14, <1>15, <1>16, <1>17, <1>18 DEF Inv

\* A chunk's first line is not the first of a caller's if it is in the pool, or in no chunk.
LEMMA NotOwned ==
    ASSUME Inv, NEW a,
           a \in LinesOfAll(PoolParts(ThePool)) \/ a \notin mapped \cup HoleOf(pc, hand, moving, owned)
    PROVE  a \notin DOMAIN owned
<1> SUFFICES ASSUME a \in DOMAIN owned PROVE FALSE
  OBVIOUS
<1> DEFINE y == Part(<<"owned">>, a, owned[a])
<1>1. y \in OwnedParts(owned)
  BY OwnedIs
<1>2. y \in Parts /\ y.place = <<"owned">> /\ a \in LinesOf(y)
  <2>1. y \in Parts
    BY <1>1, PartsAre
  <2>2. IsPart(y) /\ y.at = a /\ y.place = <<"owned">>
    BY <2>1, PartIs, PartsArePart
  <2> QED BY <2>1, <2>2, PartHas
<1>3. a \in mapped \cup HoleOf(pc, hand, moving, owned)
  BY <1>2, PartsAre DEF Inv, Books, Account, LinesOfAll
<1>4. PICK x \in PoolParts(ThePool) : a \in LinesOf(x)
  BY <1>3 DEF LinesOfAll
<1>5. x \in Parts
  BY PartsAre
<1>6. x = y
  BY <1>2, <1>4, <1>5, OnePart
<1> QED
  BY <1>1, <1>6, FamiliesDiffer

\* The end of a reservation under the list lock: the pool gave the chunk and kept the
\* rest, and the lines "fresh" were mapped.
LEMMA DeliverInv ==
    ASSUME Inv, NEW t \in Threads, pc[t] = "list", NEW c, c = hand[t].class, NEW a \in Nat,
           a \notin DOMAIN owned, Deliver(t, a, c, moving[t] # Nowhere),
           moving' = moving, lost' = lost, new' = new, old' = old, sizes' = sizes, end' \in Nat,
           NEW fresh, mapped' = mapped \cup fresh,
           fresh \cap (mapped \cup HoleOf(pc, hand, moving, owned)) = {},
           PoolOK(ThePool'),
           LinesOfAll(PoolParts(ThePool')) \cup Span(a, c) = LinesOfAll(PoolParts(ThePool)) \cup fresh,
           LinesOfAll(PoolParts(ThePool')) \cap Span(a, c) = {}
    PROVE  /\ Inv'
           /\ (mapped \cup HoleOf(pc, hand, moving, owned))'
                = mapped \cup HoleOf(pc, hand, moving, owned) \cup fresh
<1> DEFINE x == moving[t] # Nowhere
<1>1. /\ ProcsOK(pc, hand) /\ MovingOK(moving, pc, hand, owned) /\ t \in Procs /\ Janitor \in Procs \ {t}
      /\ \A u \in Threads : u \in Procs
  BY VMAssumption DEF Inv, Procs
<1>2. c \in Classes
  BY <1>1 DEF ProcsOK
<1>3. /\ OwnedOK(owned') /\ ProcsOK(pc', hand')
      /\ \E y : /\ LinesOf(y) = Span(a, c)
                /\ OwnedParts(owned') \cup HandParts(pc', hand')
                     = OwnedParts(owned) \cup HandParts(pc, hand) \cup {y}
      /\ \A u \in Procs \ {t} : pc'[u] = pc[u] /\ hand'[u] = hand[u]
      /\ x => pc'[t] = "move" /\ hand'[t] = Chunk(a, c) /\ owned' = owned
      /\ ~x => pc'[t] = "idle" /\ owned' = [b \in DOMAIN owned \cup {a} |-> IF b = a THEN c ELSE owned[b]]
      /\ \A b \in DOMAIN owned : b \in DOMAIN owned' /\ owned'[b] = owned[b]
  <2>1. x \in BOOLEAN /\ pc[t] \in {"idle", "list"} /\ Deliver(t, a, c, x)
    OBVIOUS
  <2> HIDE DEF x
  <2> QED BY <1>2, <2>1, DeliverStep
<1>4. PICK y : /\ LinesOf(y) = Span(a, c)
               /\ OwnedParts(owned') \cup HandParts(pc', hand')
                    = OwnedParts(owned) \cup HandParts(pc, hand) \cup {y}
  BY <1>3
<1> DEFINE F == PoolParts(ThePool)
           G == PoolParts(ThePool')
           R == OwnedParts(owned) \cup DirtyParts(<<"new">>, new) \cup DirtyParts(<<"old">>, old)
                    \cup HandParts(pc, hand)
           P == mapped \cup HoleOf(pc, hand, moving, owned)
<1>5. Account(R \cup F, lost, P) /\ R \cap F = {}
  <2>1. R \cup F = F \cup OwnedParts(owned) \cup DirtyParts(<<"new">>, new)
                     \cup DirtyParts(<<"old">>, old) \cup HandParts(pc, hand)
    OBVIOUS
  <2>2. R \cap F = {}
    BY FamiliesDiffer
  <2> QED BY <2>1, <2>2 DEF Inv, Books
<1>6. OthersStay(t, pc', hand', moving', owned')
  BY <1>1, <1>3 DEF OthersStay, MovingOK
<1>7. HoleOf(pc', hand', moving', owned') = HoleOf(pc, hand, moving, owned)
  BY <1>1, <1>3, <1>6, HoleStays
<1>8. Account(R \cup (G \cup {y}), lost, P \cup fresh)
  <2>1. LinesOfAll(G) \cup Span(a, c) = LinesOfAll(F) \cup fresh /\ LinesOfAll(G) \cap Span(a, c) = {}
    OBVIOUS
  <2>2. LinesOfAll({y}) = Span(a, c) /\ Apart({y}) /\ Apart(G)
    BY <1>4, LinesOfUnion DEF PoolOK
  <2>3. fresh \cap P = {}
    OBVIOUS
  <2>4. LinesOfAll(R \cup F) = LinesOfAll(R) \cup LinesOfAll(F)
        /\ LinesOfAll(G \cup {y}) = LinesOfAll(G) \cup LinesOfAll({y})
    BY LinesOfUnion
  <2> HIDE DEF R, F, G, P
  <2>5. Apart(G \cup {y})
    BY <2>1, <2>2, ApartUnion
  <2>6. LinesOfAll(R \cup F) \cap lost = {} /\ lost \subseteq P
    BY <1>5 DEF Account
  <2>7. LinesOfAll(G \cup {y}) \cap lost = {}
        /\ LinesOfAll(G \cup {y}) \cup lost = LinesOfAll(F) \cup lost \cup fresh
    BY <2>1, <2>2, <2>3, <2>4, <2>6
  <2>8. lost \subseteq lost
    OBVIOUS
  <2> QED BY <1>5, <2>3, <2>5, <2>7, <2>8, Regroup
<1>9. MovingOK(moving', pc', hand', owned')
  <2>1. moving' \in [Threads -> Int]
    BY <1>1 DEF MovingOK
  <2>2. pc'[t] \in Reallocating => moving'[t] # Nowhere
    BY <1>3 DEF Reallocating
  <2>3. moving'[t] # Nowhere =>
               /\ pc'[t] \in Reallocating \cup {"list"}
               /\ moving'[t] \in DOMAIN owned' /\ hand'[t].class > owned'[moving'[t]]
               /\ \A u \in Threads \ {t} : moving[u] # moving'[t]
    <3> SUFFICES ASSUME x
                 PROVE  /\ pc'[t] \in Reallocating \cup {"list"}
                        /\ moving[t] \in DOMAIN owned' /\ hand'[t].class > owned'[moving[t]]
                        /\ \A u \in Threads \ {t} : moving[u] # moving[t]
      OBVIOUS
    <3>1. /\ moving[t] \in DOMAIN owned /\ hand[t].class > owned[moving[t]]
          /\ \A u \in Threads \ {t} : moving[u] # moving[t]
      BY <1>1 DEF MovingOK
    <3>2. pc'[t] = "move" /\ hand'[t].class = c /\ owned' = owned
      BY <1>3 DEF Chunk
    <3> QED BY <3>1, <3>2 DEF Reallocating
  <2> QED BY <1>1, <1>6, <2>1, <2>2, <2>3, MovingStays
<1>10. AgedOK(pc', old')
  BY <1>1, <1>3 DEF AgedOK, Inv
<1>11. (mapped \cup HoleOf(pc, hand, moving, owned))' = P \cup fresh
  BY <1>7
<1>12. Books(ThePool', owned', new', old', pc', hand', lost', mapped' \cup HoleOf(pc', hand', moving', owned'))
  <2>1. R \cup (G \cup {y}) = G \cup OwnedParts(owned') \cup DirtyParts(<<"new">>, new')
                                 \cup DirtyParts(<<"old">>, old') \cup HandParts(pc', hand')
    BY <1>4
  <2> QED BY <1>7, <1>8, <2>1 DEF Books
<1>13. DirtyOK(new', old', sizes')
  BY DEF Inv
<1> QED
  BY <1>3, <1>9, <1>10, <1>11, <1>12, <1>13 DEF Inv

\* The class of a free chunk that fits.
LEMMA FittingIs ==
    ASSUME NEW c \in Classes, Fitting(c) # 0
    PROVE  Fitting(c) \in Classes /\ Fitting(c) >= c /\ free[Fitting(c)] # <<>>
<1> DEFINE fits == {d \in Classes : d >= c /\ free[d] # <<>> /\ (d = c \/ d < end)}
<1>1. fits # {} /\ Fitting(c) = Min(fits)
  BY DEF Fitting
<1>2. fits \in SUBSET Nat
  BY SizesAre
<1>3. \E m \in fits : \A j \in fits : m <= j
  BY <1>1, <1>2, LeastOf
<1>4. Min(fits) \in fits
  BY <1>3 DEF Min
<1> QED
  BY <1>1, <1>4

\* A free chunk is taken and what is not asked for is pushed.
LEMMA PopFreeInv ==
    ASSUME Inv, NEW t \in Threads, PopFree(t)
    PROVE  Inv' /\ (mapped \cup HoleOf(pc, hand, moving, owned))'
                     = mapped \cup HoleOf(pc, hand, moving, owned)
<1> DEFINE c == hand[t].class
           d == Fitting(c)
           a == Head(free[d])
           lists == [free EXCEPT ![d] = Tail(@)]
           left == IF d < PageClass THEN indexes ELSE indexes + 1
           taken == [free |-> lists, indexes |-> left, pages |-> indexPages]
<1>1. /\ pc[t] = "list" /\ d # 0
      /\ PushAll(lists, left, Halves(a, d, c)) /\ Deliver(t, a, c, moving[t] # Nowhere)
      /\ mapped' = mapped /\ end' = end /\ new' = new /\ old' = old /\ sizes' = sizes
      /\ lost' = lost /\ moving' = moving
  BY DEF PopFree, dirtyVars
<1>2. c \in Classes
  <2>1. t \in Procs
    BY DEF Procs
  <2> QED BY <2>1 DEF Inv, ProcsOK
<1>3. d \in Classes /\ d >= c /\ free[d] # <<>>
  BY <1>1, <1>2, FittingIs
<1> HIDE DEF c, d
<1>4. /\ a \in Nat /\ PoolOK(taken)
      /\ LinesOfAll(PoolParts(ThePool)) = LinesOfAll(PoolParts(taken)) \cup Span(a, d)
      /\ LinesOfAll(PoolParts(taken)) \cap Span(a, d) = {}
  <2>1. PoolOK(ThePool) /\ ThePool.free = free /\ ThePool.indexes = indexes /\ ThePool.pages = indexPages
    BY DEF Inv, ThePool
  <2>2. ThePool.free[d] # <<>>
    BY <1>3, <2>1
  <2> DEFINE b == Head(ThePool.free[d])
             next == [free |-> [ThePool.free EXCEPT ![d] = Tail(@)],
                      indexes |-> IF d < PageClass THEN ThePool.indexes ELSE ThePool.indexes + 1,
                      pages |-> ThePool.pages]
  <2>3. /\ b \in Nat /\ PoolOK(next)
        /\ LinesOfAll(PoolParts(ThePool)) = LinesOfAll(PoolParts(next)) \cup Span(b, d)
        /\ LinesOfAll(PoolParts(next)) \cap Span(b, d) = {}
    BY <1>3, <2>1, <2>2, TakeLoses
  <2>4. b = a /\ next = taken
    BY <2>1
  <2> HIDE DEF b, next, a, taken
  <2> QED BY <2>3, <2>4
<1> HIDE DEF a, lists, left
<1>5. /\ Gains(taken, Pushed(taken, Halves(a, d, c)), Span(a, d) \ Span(a, c))
      /\ Span(a, c) \subseteq Span(a, d)
  BY <1>2, <1>3, <1>4, HalvesGain
<1>6. /\ PoolOK(ThePool')
      /\ LinesOfAll(PoolParts(ThePool')) = LinesOfAll(PoolParts(taken)) \cup (Span(a, d) \ Span(a, c))
  BY <1>1, <1>5, PushAllIs
<1>7. a \notin DOMAIN owned
  <2>1. a \in Span(a, d)
    BY <1>3, <1>4, SpanHas, SizesAre
  <2> QED BY <1>4, <2>1, NotOwned
<1> HIDE DEF taken
<1> DEFINE fresh == {}
<1>8. /\ LinesOfAll(PoolParts(ThePool')) \cup Span(a, c) = LinesOfAll(PoolParts(ThePool)) \cup fresh
      /\ LinesOfAll(PoolParts(ThePool')) \cap Span(a, c) = {}
  BY <1>4, <1>5, <1>6
<1>9. end' \in Nat /\ mapped' = mapped \cup fresh /\ fresh \cap (mapped \cup HoleOf(pc, hand, moving, owned)) = {}
  BY <1>1 DEF Inv
<1>10. /\ Inv'
       /\ (mapped \cup HoleOf(pc, hand, moving, owned))'
            = mapped \cup HoleOf(pc, hand, moving, owned) \cup fresh
  <2>1. c = hand[t].class
    BY DEF c
  <2> HIDE DEF fresh
  <2> QED BY <1>1, <1>4, <1>6, <1>7, <1>8, <1>9, <2>1, DeliverInv
<1> QED
  BY <1>10

\* The system maps what it is asked for where nothing is mapped, if it does not take the
\* holes of the reallocations.
LEMMA PlacesAre ==
    ASSUME ~HolesTaken, NEW n \in Pos, Places(n) # {}
    PROVE  /\ Max(Places(n)) \in 0 .. Lines - n
           /\ (Max(Places(n)) .. Max(Places(n)) + n - 1) \cap (mapped \cup Hole) = {}
<1> DEFINE S == {Lines - a : a \in Places(n)}
<1>1. Places(n) \subseteq 0 .. Lines - n /\ Lines \in Nat /\ n \in Nat
  BY SizesAre DEF Places, Pos
<1>2. S \in SUBSET Nat /\ S # {}
  BY <1>1
<1>3. PICK m \in S : \A j \in S : m <= j
  BY <1>2, LeastOf
<1>4. PICK a \in Places(n) : m = Lines - a
  BY <1>3
<1>5. \A b \in Places(n) : a >= b
  <2> TAKE b \in Places(n)
  <2>1. Lines - b \in S
    OBVIOUS
  <2>2. Lines - a <= Lines - b
    BY <1>3, <1>4, <2>1
  <2> QED BY <1>1, <2>2
<1>6. Max(Places(n)) \in Places(n)
  BY <1>5 DEF Max
<1> QED
  BY <1>1, <1>6 DEF Places

\* The pool grows by a new mapping, or the program is ended.
LEMMA GrowInv ==
    ASSUME ~HolesTaken, Inv, NEW t \in Threads, Grow(t)
    PROVE  /\ Inv'
           /\ (mapped \cup HoleOf(pc, hand, moving, owned))'
                \subseteq mapped \cup HoleOf(pc, hand, moving, owned) \cup 0 .. Lines - 1
<1> DEFINE c == hand[t].class
           large == GrowClass(c)
           places == Places(LinesIn(large))
           a == Max(places)
           chunks == Halves(a, large, c)
<1>1. /\ pc[t] = "list"
      /\ new' = new /\ old' = old /\ sizes' = sizes /\ lost' = lost /\ moving' = moving
  BY DEF Grow, dirtyVars
<1>2. c \in Classes
  <2>1. t \in Procs
    BY DEF Procs
  <2> QED BY <2>1 DEF Inv, ProcsOK
<1>3. large \in Pos /\ large >= c + 1
  <2>1. end \in Nat /\ c \in Nat
    BY <1>2, SizesAre DEF Inv
  <2> QED BY <2>1 DEF GrowClass, Pos
<1>4. CASE places # {}
  <2>1. /\ mapped' = mapped \cup Span(a, large) /\ end' = large + 1
        /\ PushAll(free, indexes, chunks) /\ Deliver(t, a, c, moving[t] # Nowhere)
    BY <1>4 DEF Grow
  <2>2. c \in Nat /\ LinesIn(large) \in Pos /\ c = hand[t].class
    BY <1>2, <1>3, SizesAre, LinesInIs
  <2> HIDE DEF c, large
  <2>3. a \in 0 .. Lines - LinesIn(large) /\ (a .. a + LinesIn(large) - 1) \cap (mapped \cup Hole) = {}
    BY <1>4, <2>2, PlacesAre
  <2> HIDE DEF a, chunks, places
  <2>4. a \in Nat /\ LinesIn(large) <= Lines /\ Span(a, large) \subseteq 0 .. Lines - 1
    BY <2>2, <2>3, SizesAre DEF Span, Pos
  <2>5. large \in Classes
    <3> SUFFICES ASSUME MaxClass + 1 <= large PROVE FALSE
      BY <1>3, SizesAre DEF Pos, Classes
    <3>1. MaxClass + 1 \in Pos
      BY SizesAre DEF Pos
    <3>2. LinesIn(MaxClass + 1) <= LinesIn(large) /\ LinesIn(MaxClass + 1) \in Pos
      BY <1>3, <3>1, LinesMonotone, LinesInIs
    <3> QED BY <2>2, <2>4, <3>2, VMAssumption DEF Pos
  <2> DEFINE P == mapped \cup HoleOf(pc, hand, moving, owned)
             F == PoolParts(ThePool)
             fresh == Span(a, large)
  <2>6. fresh \cap P = {}
    BY <2>3 DEF Hole, HoleOf, Span
  <2>7. LinesOfAll(F) \subseteq P
    BY LinesOfUnion DEF Inv, Books, Account, LinesOfAll
  <2>8. /\ Gains(ThePool, Pushed(ThePool, chunks), Span(a, large) \ Span(a, c))
        /\ Span(a, c) \subseteq Span(a, large)
    <3>1. PoolOK(ThePool) /\ c <= large
      BY <1>3, <2>2 DEF Inv, Pos
    <3>2. Span(a, large) \cap LinesOfAll(PoolParts(ThePool)) = {}
      BY <2>6, <2>7
    <3> QED BY <1>2, <2>4, <2>5, <3>1, <3>2, HalvesGain DEF chunks
  <2>9. /\ PoolOK(ThePool')
        /\ LinesOfAll(PoolParts(ThePool')) = LinesOfAll(PoolParts(ThePool)) \cup (Span(a, large) \ Span(a, c))
    <3>1. Gains(ThePool, Pushed([free |-> free, indexes |-> indexes, pages |-> indexPages], chunks),
                Span(a, large) \ Span(a, c))
      BY <2>8 DEF ThePool
    <3> QED BY <2>1, <3>1, PushAllIs
  <2>10. a \notin DOMAIN owned
    <3>1. a \in Span(a, large)
      BY <1>3, <2>4, SpanHas
    <3> QED BY <2>6, <3>1, NotOwned
  <2>11. /\ LinesOfAll(PoolParts(ThePool')) \cup Span(a, c) = LinesOfAll(PoolParts(ThePool)) \cup fresh
         /\ LinesOfAll(PoolParts(ThePool')) \cap Span(a, c) = {}
    BY <2>6, <2>7, <2>8, <2>9
  <2>12. end' \in Nat /\ mapped' = mapped \cup fresh
         /\ fresh \cap (mapped \cup HoleOf(pc, hand, moving, owned)) = {}
    BY <1>3, <2>1, <2>6 DEF Pos
  <2>13. /\ Inv'
         /\ (mapped \cup HoleOf(pc, hand, moving, owned))'
              = mapped \cup HoleOf(pc, hand, moving, owned) \cup fresh
    <3> HIDE DEF fresh
    <3> QED BY <1>1, <2>1, <2>2, <2>4, <2>9, <2>10, <2>11, <2>12, DeliverInv
  <2> QED BY <2>4, <2>13
<1>5. CASE places = {}
  <2>1. /\ mapped' = mapped /\ free' = free /\ indexes' = indexes /\ indexPages' = indexPages
        /\ end' = end /\ owned' = owned /\ pc' = pc /\ hand' = hand
    BY <1>5 DEF Grow, listVars
  <2>2. ThePool' = ThePool /\ HoleOf(pc, hand, moving, owned)' = HoleOf(pc, hand, moving, owned)
    BY <1>1, <2>1 DEF ThePool
  <2> QED BY <1>1, <2>1, <2>2 DEF Inv
<1> QED
  BY <1>4, <1>5

------------------------------------------------------------------------------
(* Giving chunks back.                                                      *)

\* A dirty chunk is queued.
LEMMA DirtyGains ==
    ASSUME Inv, NEW a \in Nat, NEW c \in Classes, \A d \in Queued : d.at # a,
           new' = Append(new, [at |-> a, class |-> c, is_new |-> TRUE]),
           sizes' = [sizes EXCEPT ![c] = <<a>> \o @], old' = old
    PROVE  /\ DirtyOK(new', old', sizes')
           /\ DirtyParts(<<"new">>, new') = DirtyParts(<<"new">>, new) \cup {Part(<<"new">>, a, c)}
<1> DEFINE d == [at |-> a, class |-> c, is_new |-> TRUE]
<1>1. DirtyOK(new, old, sizes) /\ d \in Dirts
  BY DEF Inv, Dirts
<1>2. d.at = a /\ d.class = c /\ d.is_new
  OBVIOUS
<1>3. new' = Append(new, d)
  OBVIOUS
<1> HIDE DEF d
<1>4. d \notin ToSet(new)
  BY <1>2 DEF Queued
<1>5. new' \in Seq(Dirts) /\ IsInjective(new') /\ ToSet(new') = ToSet(new) \cup {d}
  <2>1. new \in Seq(Dirts) /\ IsInjective(new)
    BY <1>1 DEF DirtyOK
  <2>2. /\ Append(new, d) \in Seq(Dirts)
        /\ ToSet(Append(new, d)) = ToSet(new) \cup {d}
        /\ IsInjective(new) /\ d \notin ToSet(new) => IsInjective(Append(new, d))
    BY <1>1, <2>1, PutLast
  <2> QED BY <1>3, <1>4, <2>1, <2>2
<1>6. sizes[c] \in Seq(Nat) /\ IsInjective(sizes[c]) /\ a \notin ToSet(sizes[c])
  <2>1. ToSet(sizes[c]) = {e.at : e \in {x \in Queued : x.class = c}}
    BY <1>1 DEF DirtyOK, Queued
  <2> QED BY <1>1, <2>1 DEF DirtyOK, Lists
<1>7. /\ <<a>> \o sizes[c] \in Seq(Nat) /\ IsInjective(<<a>> \o sizes[c])
      /\ ToSet(<<a>> \o sizes[c]) = ToSet(sizes[c]) \cup {a}
  BY <1>6, PutFirst
<1>8. sizes \in Lists
  BY <1>1 DEF DirtyOK
<1>9. sizes'[c] = <<a>> \o sizes[c] /\ \A k \in Classes \ {c} : sizes'[k] = sizes[k]
  BY <1>8 DEF Lists
<1>10. sizes' \in Lists
  BY <1>7, <1>8 DEF Lists
<1>11. DirtyOK(new', old', sizes')
  <2>1. ASSUME NEW k \in Classes
        PROVE  /\ IsInjective(sizes'[k])
               /\ ToSet(sizes'[k]) = {e.at : e \in {x \in ToSet(new') \cup ToSet(old') : x.class = k}}
    <3>1. IsInjective(sizes[k]) /\ ToSet(sizes[k]) = {e.at : e \in {x \in Queued : x.class = k}}
      BY <1>1 DEF DirtyOK, Queued
    <3>2. ToSet(new') \cup ToSet(old') = Queued \cup {d}
      BY <1>5 DEF Queued
    <3>3. CASE k = c
      <4>1. {e.at : e \in {x \in Queued \cup {d} : x.class = k}}
              = {e.at : e \in {x \in Queued : x.class = k}} \cup {a}
        BY <1>2, <3>3
      <4> QED BY <1>7, <1>9, <3>1, <3>2, <3>3, <4>1
    <3>4. CASE k # c
      <4>1. {x \in Queued \cup {d} : x.class = k} = {x \in Queued : x.class = k}
        BY <1>2, <3>4
      <4> QED BY <1>9, <3>1, <3>2, <3>4, <4>1
    <3> QED BY <3>3, <3>4
  <2>2. (\A e \in ToSet(new') : e.is_new) /\ (\A e \in ToSet(old') : ~e.is_new)
    BY <1>1, <1>2, <1>5 DEF DirtyOK
  <2>3. old' \in Seq(Dirts) /\ IsInjective(old')
    BY <1>1 DEF DirtyOK
  <2> QED BY <1>5, <1>10, <2>1, <2>2, <2>3 DEF DirtyOK
<1>12. DirtyParts(<<"new">>, new') = DirtyParts(<<"new">>, new) \cup {Part(<<"new">>, a, c)}
  <2>1. ASSUME NEW x \in DirtyParts(<<"new">>, new')
        PROVE  x \in DirtyParts(<<"new">>, new) \/ x = Part(<<"new">>, a, c)
    <3>1. PICK e \in ToSet(new') : x = Part(<<"new">>, e.at, e.class)
      BY DirtyIs
    <3> QED BY <1>2, <1>5, <3>1, DirtyIs
  <2>2. ASSUME NEW x \in DirtyParts(<<"new">>, new) PROVE x \in DirtyParts(<<"new">>, new')
    <3>1. PICK e \in ToSet(new) : x = Part(<<"new">>, e.at, e.class)
      BY DirtyIs
    <3> QED BY <1>5, <3>1, DirtyIs
  <2>3. Part(<<"new">>, a, c) \in DirtyParts(<<"new">>, new')
    <3>1. d \in ToSet(new')
      BY <1>5
    <3> QED BY <1>2, <3>1, DirtyIs
  <2> QED BY <2>1, <2>2, <2>3
<1> QED
  BY <1>11, <1>12

\* A process goes to another point with what it holds then.
LEMMA ProcsStep ==
    ASSUME NEW c, NEW h, ProcsOK(c, h), NEW d, NEW g, NEW p \in Procs,
           d \in [Procs -> ThreadPoints \cup JanitorPoints],
           g \in [Procs -> [at : Int, class : Classes]],
           p \in Threads => d[p] \in ThreadPoints,
           p = Janitor => d[p] \in JanitorPoints,
           d[p] \in Holding => g[p].at \in Nat,
           \A u \in Procs \ {p} : g[u] = h[u],
           \A u \in Threads \ {p} : d[u] = c[u],
           p # Janitor => d[Janitor] = c[Janitor] \/ (d[Janitor] \in JanitorPoints /\ d[Janitor] \notin Holding)
    PROVE  ProcsOK(d, g)
<1>1. \A u \in Threads : d[u] \in ThreadPoints
  BY DEF ProcsOK
<1>2. d[Janitor] \in JanitorPoints
  BY DEF ProcsOK
<1>3. ASSUME NEW q \in Procs, d[q] \in Holding PROVE g[q].at \in Nat
  <2>1. CASE q = p
    BY <1>3, <2>1
  <2>2. CASE q # p /\ q \in Threads
    BY <1>3, <2>2 DEF ProcsOK
  <2>3. CASE q # p /\ q = Janitor
    BY <1>3, <2>3 DEF ProcsOK
  <2> QED BY <2>1, <2>2, <2>3 DEF Procs
<1> QED
  BY <1>1, <1>2, <1>3 DEF ProcsOK

\* A chunk that is given back is dirty, or the thread that gives it holds it.
LEMMA GiveBackStep ==
    ASSUME Inv, NEW t \in Threads, NEW a \in Nat, NEW c \in Classes, \A d \in Queued : d.at # a,
           GiveBack(t, a, c)
    PROVE  /\ ProcsOK(pc', hand') /\ DirtyOK(new', old', sizes') /\ AgedOK(pc', old')
           /\ \A u \in Threads \ {t} : pc'[u] = pc[u] /\ hand'[u] = hand[u]
           /\ pc'[t] \in {"idle", "give"}
           /\ \E y : /\ LinesOf(y) = Span(a, c)
                     /\ DirtyParts(<<"new">>, new') \cup DirtyParts(<<"old">>, old') \cup HandParts(pc', hand')
                          = DirtyParts(<<"new">>, new) \cup DirtyParts(<<"old">>, old)
                              \cup HandRest(pc, hand, t) \cup {y}
<1>1. /\ ProcsOK(pc, hand) /\ t \in Procs /\ t # Janitor /\ Janitor \in Procs \ {t} /\ DirtyOK(new, old, sizes)
      /\ pc \in [Procs -> ThreadPoints \cup JanitorPoints] /\ hand \in [Procs -> [at : Int, class : Classes]]
      /\ \A u \in Threads : u \in Procs /\ u # Janitor
  BY VMAssumption DEF Inv, ProcsOK, Procs
<1>2. HandParts(pc', hand') = HandRest(pc', hand', t) \cup HandOf(pc', hand', t)
  BY <1>1, HandSplit
<1>3. CASE /\ new' = Append(new, [at |-> a, class |-> c, is_new |-> TRUE])
           /\ sizes' = [sizes EXCEPT ![c] = <<a>> \o @]
           /\ pc' = [pc EXCEPT ![t] = "idle",
                               ![Janitor] = IF waitState = 1 /\ @ = "asleep" THEN "look" ELSE @]
           /\ hand' = [hand EXCEPT ![t] = NoChunk] /\ old' = old
  <2>1. /\ pc'[t] = "idle" /\ \A u \in Procs \ {t, Janitor} : pc'[u] = pc[u]
        /\ pc'[Janitor] = pc[Janitor] \/ (pc[Janitor] = "asleep" /\ pc'[Janitor] = "look")
        /\ hand'[t] = NoChunk /\ \A u \in Procs \ {t} : hand'[u] = hand[u]
    BY <1>1, <1>3
  <2>2. ProcsOK(pc', hand')
    <3>1. NoChunk \in [at : Int, class : Classes]
      BY SizesAre DEF NoChunk, Chunk, Nowhere, Classes, Pos
    <3>2. hand' \in [Procs -> [at : Int, class : Classes]]
      BY <1>1, <1>3, <3>1
    <3>3. pc' \in [Procs -> ThreadPoints \cup JanitorPoints]
      BY <1>1, <1>3 DEF ThreadPoints, JanitorPoints
    <3>4. /\ pc'[t] \in ThreadPoints /\ pc'[t] \notin Holding
          /\ \A u \in Threads \ {t} : pc'[u] = pc[u]
          /\ pc'[Janitor] = pc[Janitor] \/ (pc'[Janitor] \in JanitorPoints /\ pc'[Janitor] \notin Holding)
      BY <1>1, <2>1 DEF ThreadPoints, JanitorPoints, Holding
    <3> QED BY <1>1, <2>1, <3>2, <3>3, <3>4, ProcsStep
  <2>3. HandRest(pc', hand', t) = HandRest(pc, hand, t) /\ HandOf(pc', hand', t) = {}
    <3>1. \A q \in Procs \ {t} : (pc[q] \in Holding <=> pc'[q] \in Holding) /\ hand[q] = hand'[q]
      BY <2>1 DEF Holding
    <3>2. HandRest(pc', hand', t) = HandRest(pc, hand, t)
      BY <3>1, HandRestSame
    <3> QED BY <2>1, <3>2 DEF HandOf, Holding
  <2>4. /\ DirtyOK(new', old', sizes')
        /\ DirtyParts(<<"new">>, new') = DirtyParts(<<"new">>, new) \cup {Part(<<"new">>, a, c)}
    BY <1>3, DirtyGains
  <2>5. LinesOf(Part(<<"new">>, a, c)) = Span(a, c)
    BY PartIs
  <2>6. DirtyParts(<<"new">>, new') \cup DirtyParts(<<"old">>, old') \cup HandParts(pc', hand')
          = DirtyParts(<<"new">>, new) \cup DirtyParts(<<"old">>, old)
              \cup HandRest(pc, hand, t) \cup {Part(<<"new">>, a, c)}
    BY <1>2, <1>3, <2>3, <2>4
  <2>7. AgedOK(pc', old')
    BY <1>3, <2>1 DEF AgedOK, Inv
  <2> QED BY <1>1, <2>1, <2>2, <2>4, <2>5, <2>6, <2>7
<1>4. CASE /\ hand' = [hand EXCEPT ![t] = Chunk(a, c)] /\ pc' = [pc EXCEPT ![t] = "give"]
           /\ new' = new /\ old' = old /\ sizes' = sizes
  <2>1. /\ pc'[t] = "give" /\ \A u \in Procs \ {t} : pc'[u] = pc[u]
        /\ hand'[t] = Chunk(a, c) /\ \A u \in Procs \ {t} : hand'[u] = hand[u]
    BY <1>1, <1>4
  <2>2. ProcsOK(pc', hand')
    <3>1. Chunk(a, c) \in [at : Int, class : Classes] /\ Chunk(a, c).at \in Nat
      BY DEF Chunk
    <3>2. hand' \in [Procs -> [at : Int, class : Classes]]
      BY <1>1, <1>4, <3>1
    <3>3. pc' \in [Procs -> ThreadPoints \cup JanitorPoints]
      BY <1>1, <1>4 DEF ThreadPoints, JanitorPoints
    <3>4. /\ pc'[t] \in ThreadPoints /\ \A u \in Threads \ {t} : pc'[u] = pc[u]
          /\ pc'[Janitor] = pc[Janitor]
      BY <1>1, <2>1 DEF ThreadPoints
    <3> QED BY <1>1, <2>1, <3>1, <3>2, <3>3, <3>4, ProcsStep
  <2>3. HandRest(pc', hand', t) = HandRest(pc, hand, t)
    BY <2>1, HandRestSame
  <2>4. HandOf(pc', hand', t) = {Part(<<"hand", t>>, a, c)}
    BY <2>1 DEF HandOf, Holding, Chunk
  <2>5. LinesOf(Part(<<"hand", t>>, a, c)) = Span(a, c)
    BY PartIs
  <2>6. DirtyParts(<<"new">>, new') \cup DirtyParts(<<"old">>, old') \cup HandParts(pc', hand')
          = DirtyParts(<<"new">>, new) \cup DirtyParts(<<"old">>, old)
              \cup HandRest(pc, hand, t) \cup {Part(<<"hand", t>>, a, c)}
    BY <1>2, <1>4, <2>3, <2>4
  <2>7. AgedOK(pc', old') /\ DirtyOK(new', old', sizes')
    BY <1>1, <1>4, <2>1 DEF AgedOK, Inv
  <2> QED BY <1>1, <2>1, <2>2, <2>5, <2>6, <2>7
<1> QED
  BY <1>3, <1>4 DEF GiveBack, At, dirtyVars

\* The line of a caller's chunk, or of one in somebody's hand, is not a dirty chunk's first.
LEMMA NotDirty ==
    ASSUME Inv, NEW x \in OwnedParts(owned) \cup HandParts(pc, hand), NEW l \in LinesOf(x)
    PROVE  \A d \in Queued : d.at # l
<1> SUFFICES ASSUME NEW d \in Queued, d.at = l PROVE FALSE
  OBVIOUS
<1> DEFINE D == DirtyParts(<<"new">>, new) \cup DirtyParts(<<"old">>, old)
<1>1. PICK y \in D : y.at = l
  <2>1. CASE d \in ToSet(new)
    <3>1. Part(<<"new">>, d.at, d.class) \in DirtyParts(<<"new">>, new)
      BY <2>1, DirtyIs
    <3> QED BY <3>1, PartIs
  <2>2. CASE d \in ToSet(old)
    <3>1. Part(<<"old">>, d.at, d.class) \in DirtyParts(<<"old">>, old)
      BY <2>2, DirtyIs
    <3> QED BY <3>1, PartIs
  <2> QED BY <2>1, <2>2 DEF Queued
<1>2. x \in Parts /\ y \in Parts
  BY PartsAre
<1>3. l \in LinesOf(y)
  BY <1>1, <1>2, PartHas, PartsArePart
<1>4. x = y
  BY <1>2, <1>3, OnePart
<1> QED
  BY <1>4, FamiliesDiffer

\* A caller has another chunk for one.
LEMMA OwnedSwap ==
    ASSUME NEW f, OwnedOK(f), NEW a \in DOMAIN f, NEW b \in Nat, NEW c \in Classes, b \notin DOMAIN f \ {a}
    PROVE  LET g == [k \in (DOMAIN f \ {a}) \cup {b} |-> IF k = b THEN c ELSE f[k]] IN
           /\ OwnedOK(g) /\ Part(<<"owned">>, a, f[a]) \in OwnedParts(f)
           /\ OwnedParts(g) = (OwnedParts(f) \ {Part(<<"owned">>, a, f[a])}) \cup {Part(<<"owned">>, b, c)}
<1> DEFINE g == [k \in (DOMAIN f \ {a}) \cup {b} |-> IF k = b THEN c ELSE f[k]]
           less == [k \in DOMAIN f \ {a} |-> f[k]]
           more == [k \in DOMAIN less \cup {b} |-> IF k = b THEN c ELSE less[k]]
<1>1. /\ OwnedOK(less) /\ Part(<<"owned">>, a, f[a]) \in OwnedParts(f)
      /\ OwnedParts(less) = OwnedParts(f) \ {Part(<<"owned">>, a, f[a])}
  BY OwnedLoses
<1>2. DOMAIN less = DOMAIN f \ {a} /\ g = more
  OBVIOUS
<1> HIDE DEF less, g
<1>3. OwnedOK(more) /\ OwnedParts(more) = OwnedParts(less) \cup {Part(<<"owned">>, b, c)}
  <2>1. b \notin DOMAIN less
    BY <1>2
  <2> QED BY <1>1, <2>1, OwnedGains
<1> HIDE DEF more
<1>4. /\ OwnedOK(g) /\ Part(<<"owned">>, a, f[a]) \in OwnedParts(f)
      /\ OwnedParts(g) = (OwnedParts(f) \ {Part(<<"owned">>, a, f[a])}) \cup {Part(<<"owned">>, b, c)}
  BY <1>1, <1>2, <1>3
<1> QED
  BY <1>4 DEF g

\* What one thread has unmapped.
HoleBy(c, h, m, f, t) ==
    IF c[t] = "hole" THEN Span(h[t].at, h[t].class)
    ELSE IF c[t] = "refill" THEN Span(m[t], f[m[t]]) ELSE {}
HoleRest(c, h, m, f, t) == UNION {HoleBy(c, h, m, f, u) : u \in Threads \ {t}}

\* What is unmapped is what one thread has unmapped, and what the others have.
LEMMA HoleSplit ==
    ASSUME NEW c, NEW h, NEW m, NEW f, NEW t \in Threads
    PROVE  HoleOf(c, h, m, f) = HoleRest(c, h, m, f, t) \cup HoleBy(c, h, m, f, t)
<1>1. ASSUME NEW l
      PROVE  l \in HoleOf(c, h, m, f) <=>
                \E u \in Threads : \/ c[u] = "hole" /\ l \in Span(h[u].at, h[u].class)
                                   \/ c[u] = "refill" /\ l \in Span(m[u], f[m[u]])
  BY DEF HoleOf
<1>2. ASSUME NEW l, NEW u
      PROVE  l \in HoleBy(c, h, m, f, u) <=>
                 \/ c[u] = "hole" /\ l \in Span(h[u].at, h[u].class)
                 \/ c[u] = "refill" /\ l \in Span(m[u], f[m[u]])
  BY DEF HoleBy
<1>3. ASSUME NEW l
      PROVE  l \in HoleRest(c, h, m, f, t) <=> \E u \in Threads \ {t} : l \in HoleBy(c, h, m, f, u)
  BY DEF HoleRest
<1> QED
  BY <1>1, <1>2, <1>3

\* What the others have unmapped, when one thread takes a step.
LEMMA HoleRestStays ==
    ASSUME Inv, NEW t \in Threads, NEW d, NEW g, NEW n, NEW e, OthersStay(t, d, g, n, e)
    PROVE  HoleRest(d, g, n, e, t) = HoleRest(pc, hand, moving, owned, t)
<1>1. ASSUME NEW u \in Threads \ {t}
      PROVE  HoleBy(d, g, n, e, u) = HoleBy(pc, hand, moving, owned, u)
  <2>1. d[u] = pc[u] /\ g[u] = hand[u] /\ n[u] = moving[u]
    BY DEF OthersStay
  <2>2. pc[u] = "refill" => e[moving[u]] = owned[moving[u]]
    BY DEF OthersStay, Inv, MovingOK, Reallocating
  <2> QED BY <2>1, <2>2 DEF HoleBy
<1> QED
  BY <1>1 DEF HoleRest

\* A chunk is given back, and what the callers have accounts for the rest.
LEMMA GaveInv ==
    ASSUME Inv, NEW t \in Threads, NEW a \in Nat, NEW c \in Classes, \A d \in Queued : d.at # a,
           GiveBack(t, a, c), ThePool' = ThePool, end' = end,
           OwnedOK(owned'), Apart(OwnedParts(owned')),
           LinesOfAll(OwnedParts(owned')) \cap Span(a, c) = {},
           (LinesOfAll(OwnedParts(owned')) \cup Span(a, c)) \cap lost' = {},
           LinesOfAll(OwnedParts(owned')) \cup Span(a, c) \cup lost'
               = LinesOfAll(OwnedParts(owned)) \cup LinesOfAll(HandOf(pc, hand, t)) \cup lost,
           lost \subseteq lost',
           OthersStay(t, pc', hand', moving', owned'), moving' \in [Threads -> Int], moving'[t] = Nowhere,
           mapped' \cup HoleOf(pc', hand', moving', owned') = mapped \cup HoleOf(pc, hand, moving, owned)
    PROVE  Inv'
<1>1. /\ ProcsOK(pc', hand') /\ DirtyOK(new', old', sizes') /\ AgedOK(pc', old')
      /\ \A u \in Threads \ {t} : pc'[u] = pc[u] /\ hand'[u] = hand[u]
      /\ pc'[t] \in {"idle", "give"}
      /\ \E y : /\ LinesOf(y) = Span(a, c)
                /\ DirtyParts(<<"new">>, new') \cup DirtyParts(<<"old">>, old') \cup HandParts(pc', hand')
                     = DirtyParts(<<"new">>, new) \cup DirtyParts(<<"old">>, old)
                         \cup HandRest(pc, hand, t) \cup {y}
  BY GiveBackStep
<1>2. PICK y : /\ LinesOf(y) = Span(a, c)
               /\ DirtyParts(<<"new">>, new') \cup DirtyParts(<<"old">>, old') \cup HandParts(pc', hand')
                    = DirtyParts(<<"new">>, new) \cup DirtyParts(<<"old">>, old)
                        \cup HandRest(pc, hand, t) \cup {y}
  BY <1>1
<1>3. t \in Procs
  BY DEF Procs
<1> DEFINE F == PoolParts(ThePool)
           O == OwnedParts(owned)
           Q == OwnedParts(owned')
           H == HandOf(pc, hand, t)
           R == F \cup DirtyParts(<<"new">>, new) \cup DirtyParts(<<"old">>, old) \cup HandRest(pc, hand, t)
           P == mapped \cup HoleOf(pc, hand, moving, owned)
<1>4. Account(R \cup (O \cup H), lost, P) /\ R \cap (O \cup H) = {}
  <2>1. /\ HandParts(pc, hand) = HandRest(pc, hand, t) \cup H /\ HandRest(pc, hand, t) \cap H = {}
    BY <1>3, HandSplit
  <2>2. R \cup (O \cup H) = F \cup O \cup DirtyParts(<<"new">>, new)
                              \cup DirtyParts(<<"old">>, old) \cup HandParts(pc, hand)
    BY <2>1
  <2>3. R \cap (O \cup H) = {}
    BY <2>1, FamiliesDiffer
  <2> QED BY <2>2, <2>3 DEF Inv, Books
<1>5. Account(R \cup (Q \cup {y}), lost', P \cup {})
  <2>1. LinesOfAll({y}) = Span(a, c) /\ Apart({y})
    BY <1>2, LinesOfUnion
  <2>2. LinesOfAll(O \cup H) = LinesOfAll(O) \cup LinesOfAll(H)
        /\ LinesOfAll(Q \cup {y}) = LinesOfAll(Q) \cup LinesOfAll({y})
    BY LinesOfUnion
  <2>3. /\ LinesOfAll(Q) \cap Span(a, c) = {}
        /\ (LinesOfAll(Q) \cup Span(a, c)) \cap lost' = {}
        /\ LinesOfAll(Q) \cup Span(a, c) \cup lost' = LinesOfAll(O) \cup LinesOfAll(H) \cup lost
        /\ Apart(Q) /\ lost \subseteq lost'
    OBVIOUS
  <2> HIDE DEF R, F, O, Q, H, P
  <2>4. Apart(Q \cup {y})
    BY <2>1, <2>3, ApartUnion
  <2>5. LinesOfAll(Q \cup {y}) \cap lost' = {}
        /\ LinesOfAll(Q \cup {y}) \cup lost' = LinesOfAll(O \cup H) \cup lost \cup {}
        /\ {} \cap P = {}
    BY <2>1, <2>2, <2>3
  <2> QED BY <1>4, <2>3, <2>4, <2>5, Regroup
<1>6. Books(ThePool', owned', new', old', pc', hand', lost', mapped' \cup HoleOf(pc', hand', moving', owned'))
  <2>1. R \cup (Q \cup {y}) = F \cup Q \cup DirtyParts(<<"new">>, new')
                                \cup DirtyParts(<<"old">>, old') \cup HandParts(pc', hand')
    BY <1>2
  <2>2. P \cup {} = P
    OBVIOUS
  <2> QED BY <1>5, <2>1, <2>2 DEF Books
<1>7. MovingOK(moving', pc', hand', owned')
  <2>1. pc'[t] \notin Reallocating
    BY <1>1 DEF Reallocating
  <2> QED BY <1>3, <2>1, MovingStays
<1>8. end' \in Nat /\ PoolOK(ThePool')
  BY DEF Inv
<1> QED
  BY <1>1, <1>6, <1>7, <1>8 DEF Inv

\* What callers hold is apart, and apart from what is in the hands.
LEMMA OwnedApart ==
    ASSUME Inv, NEW t \in Procs
    PROVE  /\ Apart(OwnedParts(owned))
           /\ LinesOfAll(OwnedParts(owned)) \cap LinesOfAll(HandOf(pc, hand, t)) = {}
           /\ LinesOfAll(OwnedParts(owned)) \cap lost = {} /\ LinesOfAll(HandOf(pc, hand, t)) \cap lost = {}
           /\ LinesOfAll(OwnedParts(owned)) \subseteq mapped \cup HoleOf(pc, hand, moving, owned)
           /\ LinesOfAll(HandOf(pc, hand, t)) \subseteq mapped \cup HoleOf(pc, hand, moving, owned)
<1> DEFINE O == OwnedParts(owned)
           H == HandOf(pc, hand, t)
           P == mapped \cup HoleOf(pc, hand, moving, owned)
<1>1. O \subseteq Parts /\ H \subseteq Parts /\ O \cap H = {}
  <2>1. HandParts(pc, hand) = HandRest(pc, hand, t) \cup H
    BY HandSplit
  <2> QED BY <2>1, PartsAre, FamiliesDiffer
<1>2. Account(Parts, lost, P)
  BY PartsAre DEF Inv, Books
<1>3. Apart(O \cup H)
  BY <1>1, <1>2 DEF Account, Apart
<1>4. Apart(O) /\ LinesOfAll(O) \cap LinesOfAll(H) = {}
  BY <1>1, <1>3, ApartParts
<1>5. LinesOfAll(O) \subseteq LinesOfAll(Parts) /\ LinesOfAll(H) \subseteq LinesOfAll(Parts)
  BY <1>1 DEF LinesOfAll
<1> QED
  BY <1>2, <1>4, <1>5 DEF Account

\* The other threads, when the callers' chunks change but for those being reallocated.
LEMMA OthersStayIs ==
    ASSUME Inv, NEW t \in Threads, NEW a, \A u \in Threads \ {t} : moving[u] # a,
           \A b \in DOMAIN owned \ {a} : b \in DOMAIN owned' /\ owned'[b] = owned[b],
           \A u \in Threads \ {t} : pc'[u] = pc[u] /\ hand'[u] = hand[u],
           \A u \in Threads \ {t} : moving'[u] = moving[u]
    PROVE  OthersStay(t, pc', hand', moving', owned')
<1>1. \A u \in Threads : moving[u] # Nowhere => moving[u] \in DOMAIN owned
  BY DEF Inv, MovingOK
<1> QED
  BY <1>1 DEF OthersStay

\* A caller gives a chunk back.
LEMMA UnreserveInv ==
    ASSUME Inv, NEW t \in Threads, Unreserve(t)
    PROVE  Inv' /\ (mapped \cup HoleOf(pc, hand, moving, owned))'
                     = mapped \cup HoleOf(pc, hand, moving, owned)
<1>1. PICK a \in Settled : /\ owned' = Restrict(owned, DOMAIN owned \ {a})
                           /\ GiveBack(t, a, owned[a])
  BY DEF Unreserve
<1>2. /\ pc[t] = "idle" /\ mapped' = mapped /\ end' = end /\ lost' = lost /\ moving' = moving
      /\ ThePool' = ThePool
  BY DEF Unreserve, poolVars, listVars, ThePool
<1>3. a \in DOMAIN owned /\ \A u \in Threads : moving[u] # a
  BY DEF Settled
<1> DEFINE c == owned[a]
           x == Part(<<"owned">>, a, c)
           O == OwnedParts(owned)
           Q == OwnedParts(owned')
<1>4. a \in Nat /\ c \in Classes /\ OwnedOK(owned) /\ t \in Procs /\ moving[t] = Nowhere
      /\ moving \in [Threads -> Int]
  <2>1. moving[t] = Nowhere
    BY <1>2, NotMoving DEF Reallocating
  <2> QED BY <1>3, <2>1 DEF Inv, OwnedOK, Procs, MovingOK
<1>5. OwnedOK(owned') /\ x \in O /\ Q = O \ {x} /\ \A b \in DOMAIN owned \ {a} : b \in DOMAIN owned' /\ owned'[b] = owned[b]
  <2> DEFINE g == [b \in DOMAIN owned \ {a} |-> owned[b]]
  <2>1. owned' = g
    BY <1>1 DEF Restrict
  <2>2. OwnedOK(g) /\ x \in O /\ OwnedParts(g) = O \ {x}
    BY <1>3, <1>4, OwnedLoses
  <2>3. \A b \in DOMAIN owned \ {a} : b \in DOMAIN g /\ g[b] = owned[b]
    OBVIOUS
  <2> HIDE DEF g, x
  <2> QED BY <2>1, <2>2, <2>3
<1>6. LinesOf(x) = Span(a, c) /\ a \in LinesOf(x)
  BY <1>4, PartIs, PartHas, SizesAre
<1> HIDE DEF x
<1>7. \A d \in Queued : d.at # a
  BY <1>5, <1>6, NotDirty
<1>8. HandOf(pc, hand, t) = {} /\ LinesOfAll({}) = {}
  BY <1>2 DEF HandOf, Holding, LinesOfAll
<1>9. Apart(O) /\ LinesOfAll(O) \cap lost = {}
  BY <1>4, OwnedApart
<1>10. Apart(Q) /\ LinesOfAll(Q) \cap Span(a, c) = {} /\ LinesOfAll(O) = LinesOfAll(Q) \cup Span(a, c)
  <2>1. Q \cup {x} = O /\ Q \cap {x} = {}
    BY <1>5
  <2>2. Apart(Q \cup {x})
    BY <1>9, <2>1
  <2>3. Apart(Q) /\ LinesOfAll(Q) \cap LinesOfAll({x}) = {}
    BY <2>1, <2>2, ApartParts
  <2>4. LinesOfAll({x}) = Span(a, c) /\ LinesOfAll(Q \cup {x}) = LinesOfAll(Q) \cup LinesOfAll({x})
    BY <1>6, LinesOfUnion
  <2> QED BY <2>1, <2>3, <2>4
<1>11. GiveBack(t, a, c)
  BY <1>1
<1>12. /\ \A u \in Threads \ {t} : pc'[u] = pc[u] /\ hand'[u] = hand[u]
       /\ pc'[t] \in {"idle", "give"}
  BY <1>4, <1>7, <1>11, GiveBackStep
<1>13. OthersStay(t, pc', hand', moving', owned')
  BY <1>2, <1>3, <1>5, <1>12, OthersStayIs
<1>14. HoleOf(pc', hand', moving', owned') = HoleOf(pc, hand, moving, owned)
  BY <1>2, <1>4, <1>12, <1>13, HoleStays
<1>15. Inv'
  <2>1. /\ LinesOfAll(Q) \cap Span(a, c) = {}
        /\ (LinesOfAll(Q) \cup Span(a, c)) \cap lost' = {}
        /\ LinesOfAll(Q) \cup Span(a, c) \cup lost' = LinesOfAll(O) \cup LinesOfAll(HandOf(pc, hand, t)) \cup lost
        /\ lost \subseteq lost'
    BY <1>2, <1>8, <1>9, <1>10
  <2>2. moving' \in [Threads -> Int] /\ moving'[t] = Nowhere
    BY <1>2, <1>4
  <2>3. mapped' \cup HoleOf(pc', hand', moving', owned') = mapped \cup HoleOf(pc, hand, moving, owned)
    BY <1>2, <1>14
  <2> HIDE DEF c
  <2> QED BY <1>2, <1>4, <1>5, <1>7, <1>10, <1>11, <1>13, <2>1, <2>2, <2>3, GaveInv
<1> QED
  BY <1>2, <1>14, <1>15

\* A reallocation that expands ends: the caller has the new chunk for the old one.
LEMMA ExchangeInv ==
    ASSUME Inv, NEW t \in Threads, pc[t] \in {"move", "refill"}, Exchange(t),
           ThePool' = ThePool, end' = end, lost' = lost,
           mapped' = IF pc[t] = "refill" THEN mapped \cup Span(moving[t], owned[moving[t]]) ELSE mapped
    PROVE  Inv' /\ (mapped \cup HoleOf(pc, hand, moving, owned))'
                     = mapped \cup HoleOf(pc, hand, moving, owned)
<1> DEFINE a == moving[t]
           h == hand[t]
           c == owned[a]
           x == Part(<<"owned">>, a, c)
           y == Part(<<"hand", t>>, h.at, h.class)
           z == Part(<<"owned">>, h.at, h.class)
           O == OwnedParts(owned)
           Q == OwnedParts(owned')
           H == HandOf(pc, hand, t)
<1>1. /\ owned' = [b \in (DOMAIN owned \ {a}) \cup {h.at} |-> IF b = h.at THEN h.class ELSE owned[b]]
      /\ moving' = [moving EXCEPT ![t] = Nowhere]
      /\ GiveBack(t, a, c)
  BY DEF Exchange
<1>2. /\ a \in DOMAIN owned /\ a # Nowhere /\ \A u \in Threads \ {t} : moving[u] # a
      /\ moving \in [Threads -> Int]
  BY DEF Inv, MovingOK, Reallocating
<1>3. /\ a \in Nat /\ c \in Classes /\ OwnedOK(owned) /\ t \in Procs /\ h.at \in Nat /\ h.class \in Classes
      /\ pc[t] \in Holding
  BY <1>2 DEF Inv, OwnedOK, Procs, ProcsOK, Holding
<1>4. H = {y} /\ LinesOf(y) = Span(h.at, h.class) /\ h.at \in LinesOf(y)
  BY <1>3, PartIs, PartHas, SizesAre DEF HandOf
<1>5. /\ Apart(O) /\ LinesOfAll(O) \cap lost = {} /\ LinesOfAll(O) \cap LinesOfAll(H) = {}
      /\ LinesOfAll(H) \cap lost = {}
  BY <1>3, OwnedApart
<1>6. h.at \notin DOMAIN owned
  <2> SUFFICES ASSUME h.at \in DOMAIN owned PROVE FALSE
    OBVIOUS
  <2> DEFINE w == Part(<<"owned">>, h.at, owned[h.at])
  <2>1. w \in O /\ IsPart(w) /\ w.at = h.at
    BY <1>3, OwnedIs, FamiliesArePart, PartIs
  <2>2. h.at \in LinesOf(w)
    BY <2>1, PartHas
  <2> HIDE DEF w, y, h, O, H
  <2> QED BY <1>4, <1>5, <2>1, <2>2 DEF LinesOfAll
<1>7. /\ OwnedOK(owned') /\ x \in O /\ Q = (O \ {x}) \cup {z}
      /\ \A b \in DOMAIN owned \ {a} : b \in DOMAIN owned' /\ owned'[b] = owned[b]
  <2> DEFINE at == h.at
             k == h.class
             g == [b \in (DOMAIN owned \ {a}) \cup {at} |-> IF b = at THEN k ELSE owned[b]]
  <2>1. owned' = g
    BY <1>1
  <2>2. OwnedOK(g) /\ x \in O /\ OwnedParts(g) = (O \ {x}) \cup {Part(<<"owned">>, at, k)}
    <3>1. at \in Nat /\ k \in Classes /\ at \notin DOMAIN owned \ {a} /\ a \in DOMAIN owned /\ OwnedOK(owned)
      BY <1>2, <1>3, <1>6
    <3> HIDE DEF at, k, a
    <3>2. /\ OwnedOK(g) /\ Part(<<"owned">>, a, owned[a]) \in OwnedParts(owned)
          /\ OwnedParts(g) = (OwnedParts(owned) \ {Part(<<"owned">>, a, owned[a])}) \cup {Part(<<"owned">>, at, k)}
      BY <3>1, OwnedSwap
    <3> HIDE DEF g
    <3> QED BY <3>2
  <2>3. \A b \in DOMAIN owned \ {a} : b \in DOMAIN g /\ g[b] = owned[b]
    BY <1>6
  <2> HIDE DEF g, x
  <2> QED BY <2>1, <2>2, <2>3
<1>8. LinesOf(x) = Span(a, c) /\ a \in LinesOf(x) /\ LinesOf(z) = Span(h.at, h.class)
  BY <1>3, PartIs, PartHas, SizesAre
<1>9. \A d \in Queued : d.at # a
  BY <1>7, <1>8, NotDirty
<1>10. /\ \A u \in Threads \ {t} : pc'[u] = pc[u] /\ hand'[u] = hand[u]
       /\ pc'[t] \in {"idle", "give"}
  BY <1>1, <1>3, <1>9, GiveBackStep
<1>11. moving' \in [Threads -> Int] /\ moving'[t] = Nowhere /\ \A u \in Threads \ {t} : moving'[u] = moving[u]
  BY <1>1, <1>2 DEF Nowhere
<1>12. OthersStay(t, pc', hand', moving', owned')
  BY <1>2, <1>7, <1>10, <1>11, OthersStayIs
<1>13. /\ Apart(Q) /\ LinesOfAll(Q) \cap Span(a, c) = {}
       /\ LinesOfAll(Q) \cup Span(a, c) = LinesOfAll(O) \cup LinesOfAll(H)
  <2> DEFINE rest == O \ {x}
  <2>1. rest \cup {x} = O /\ rest \cap {x} = {} /\ Q = rest \cup {z}
    BY <1>7
  <2> HIDE DEF x, y, z, O, Q, H, rest
  <2>2. Apart(rest) /\ LinesOfAll(rest) \cap LinesOfAll({x}) = {}
    <3>1. Apart(rest \cup {x})
      BY <1>5, <2>1
    <3> QED BY <2>1, <3>1, ApartParts
  <2>3. LinesOfAll({x}) = Span(a, c) /\ LinesOfAll({z}) = LinesOfAll({y}) /\ Apart({z})
    BY <1>4, <1>8, LinesOfUnion
  <2>4. LinesOfAll(O) = LinesOfAll(rest) \cup LinesOfAll({x})
        /\ LinesOfAll(Q) = LinesOfAll(rest) \cup LinesOfAll({z})
    <3>1. LinesOfAll(rest \cup {x}) = LinesOfAll(rest) \cup LinesOfAll({x})
          /\ LinesOfAll(rest \cup {z}) = LinesOfAll(rest) \cup LinesOfAll({z})
      BY LinesOfUnion
    <3> QED BY <2>1, <3>1
  <2>5. LinesOfAll(O) \cap LinesOfAll({y}) = {} /\ LinesOfAll(H) = LinesOfAll({y})
    BY <1>4, <1>5
  <2>6. Apart(Q)
    <3>1. LinesOfAll(rest) \cap LinesOfAll({z}) = {}
      BY <2>3, <2>4, <2>5
    <3> QED BY <2>1, <2>2, <2>3, <3>1, ApartUnion
  <2> QED BY <2>2, <2>3, <2>4, <2>5, <2>6
<1>14. mapped' \cup HoleOf(pc', hand', moving', owned') = mapped \cup HoleOf(pc, hand, moving, owned)
  <2>1. CASE pc[t] = "move"
    <3>1. HoleOf(pc', hand', moving', owned') = HoleOf(pc, hand, moving, owned)
      BY <1>3, <1>10, <1>12, <2>1, HoleStays
    <3> QED BY <2>1, <3>1
  <2>2. CASE pc[t] = "refill"
    <3>1. HoleOf(pc', hand', moving', owned')
            = HoleRest(pc', hand', moving', owned', t) \cup HoleBy(pc', hand', moving', owned', t)
      BY HoleSplit
    <3>2. HoleOf(pc, hand, moving, owned)
            = HoleRest(pc, hand, moving, owned, t) \cup HoleBy(pc, hand, moving, owned, t)
      BY HoleSplit
    <3>3. HoleBy(pc, hand, moving, owned, t) = Span(a, c)
      BY <2>2 DEF HoleBy
    <3>4. HoleBy(pc', hand', moving', owned', t) = {}
      BY <1>10 DEF HoleBy
    <3>5. HoleRest(pc', hand', moving', owned', t) = HoleRest(pc, hand, moving, owned, t)
      BY <1>12, HoleRestStays
    <3>6. mapped' = mapped \cup Span(a, c)
      BY <2>2
    <3> QED BY <3>1, <3>2, <3>3, <3>4, <3>5, <3>6
  <2> QED BY <2>1, <2>2
<1>15. Inv'
  <2>1. /\ (LinesOfAll(Q) \cup Span(a, c)) \cap lost' = {}
        /\ LinesOfAll(Q) \cup Span(a, c) \cup lost' = LinesOfAll(O) \cup LinesOfAll(HandOf(pc, hand, t)) \cup lost
        /\ lost \subseteq lost'
    BY <1>5, <1>13
  <2>2. GiveBack(t, a, c)
    BY <1>1
  <2> HIDE DEF a, c
  <2> QED BY <1>3, <1>7, <1>9, <1>11, <1>12, <1>13, <1>14, <2>1, <2>2, GaveInv
<1> QED
  BY <1>14, <1>15

\* The content was copied.
LEMMA CopyInv ==
    ASSUME Inv, NEW t \in Threads, Copy(t)
    PROVE  Inv' /\ (mapped \cup HoleOf(pc, hand, moving, owned))'
                     = mapped \cup HoleOf(pc, hand, moving, owned)
<1>1. /\ pc[t] = "move" /\ Exchange(t) /\ mapped' = mapped /\ end' = end /\ lost' = lost
      /\ ThePool' = ThePool
  BY DEF Copy, poolVars, listVars, ThePool
<1> QED
  BY <1>1, ExchangeInv

\* The pages were moved, and the hole they left is mapped again.
LEMMA RefillInv ==
    ASSUME Inv, NEW t \in Threads, Refill(t)
    PROVE  Inv' /\ (mapped \cup HoleOf(pc, hand, moving, owned))'
                     = mapped \cup HoleOf(pc, hand, moving, owned)
<1>1. /\ pc[t] = "refill" /\ Exchange(t) /\ end' = end /\ lost' = lost
      /\ mapped' = mapped \cup Span(moving[t], owned[moving[t]])
      /\ ThePool' = ThePool
  BY DEF Refill, listVars, ThePool
<1> QED
  BY <1>1, ExchangeInv

\* Two parts of a chunk whose classes add up to its class.
LEMMA TwoParts ==
    ASSUME NEW a \in Nat, NEW c \in Pos, NEW n \in Pos
    PROVE  LET at == a + LinesIn(c)  whole == Span(a, c + n) IN
           /\ at \in Nat /\ Span(a, c) \subseteq whole /\ Span(at, n) \subseteq whole
           /\ Span(a, c) \cap Span(at, n) = {} /\ at \in whole
<1> DEFINE k == LinesIn(c)
           l == LinesIn(n)
           m == LinesIn(c + n)
<1>1. k \in Nat /\ l \in Nat /\ k > 0 /\ l > 0 /\ m \in Nat /\ k + l <= m
  <2>1. k + l <= m
    BY LinesSum
  <2>2. c + n \in Pos
    BY DEF Pos
  <2>3. k \in Pos /\ l \in Pos /\ m \in Pos
    BY <2>2, LinesInIs
  <2> QED BY <2>1, <2>3 DEF Pos
<1>2. Span(a, c) = a .. a + k - 1 /\ Span(a + k, n) = (a + k) .. (a + k) + l - 1 /\ Span(a, c + n) = a .. a + m - 1
  BY DEF Span
<1> HIDE DEF k, l, m
<1>3. a + k \in Nat /\ Span(a, c) \subseteq Span(a, c + n) /\ Span(a + k, n) \subseteq Span(a, c + n)
      /\ Span(a, c) \cap Span(a + k, n) = {} /\ a + k \in Span(a, c + n)
  BY <1>1, <1>2
<1> QED
  BY <1>3 DEF k

\* A chunk shrinks: the caller keeps the first part of it, a second part is given back and
\* the rest is lost.
LEMMA ShrinkInv ==
    ASSUME Inv, NEW t \in Threads, Shrink(t)
    PROVE  Inv' /\ (mapped \cup HoleOf(pc, hand, moving, owned))'
                     = mapped \cup HoleOf(pc, hand, moving, owned)
<1>1. PICK a \in Settled : \E n \in 1 .. MaxShrink :
        LET c == owned[a] - n IN
        /\ c > 0
        /\ owned' = [owned EXCEPT ![a] = c]
        /\ lost' = lost \cup (Span(a, c + n) \ (Span(a, c) \cup Span(a + LinesIn(c), n)))
        /\ GiveBack(t, a + LinesIn(c), n)
  BY DEF Shrink
<1>2. PICK n \in 1 .. MaxShrink :
        LET c == owned[a] - n IN
        /\ c > 0
        /\ owned' = [owned EXCEPT ![a] = c]
        /\ lost' = lost \cup (Span(a, c + n) \ (Span(a, c) \cup Span(a + LinesIn(c), n)))
        /\ GiveBack(t, a + LinesIn(c), n)
  BY <1>1
<1>3. /\ pc[t] = "idle" /\ mapped' = mapped /\ end' = end /\ moving' = moving
      /\ ThePool' = ThePool
  BY DEF Shrink, poolVars, listVars, ThePool
<1> DEFINE c == owned[a] - n
           at == a + LinesIn(c)
           whole == Span(a, owned[a])
           x == Part(<<"owned">>, a, owned[a])
           z == Part(<<"owned">>, a, c)
           O == OwnedParts(owned)
           Q == OwnedParts(owned')
           P == mapped \cup HoleOf(pc, hand, moving, owned)
<1>4. /\ a \in DOMAIN owned /\ (\A u \in Threads : moving[u] # a) /\ OwnedOK(owned) /\ t \in Procs
      /\ a \in Nat /\ owned[a] \in Classes /\ moving[t] = Nowhere /\ moving \in [Threads -> Int]
  <2>1. moving[t] = Nowhere
    BY <1>3, NotMoving DEF Reallocating
  <2> QED BY <2>1 DEF Settled, Inv, OwnedOK, Procs, MovingOK
<1>5. /\ c \in Classes /\ n \in Classes /\ c + n = owned[a] /\ c \in Pos /\ n \in Pos /\ n \in Nat
  <2>1. owned[a] \in Nat /\ owned[a] <= MaxClass /\ MaxClass \in Nat /\ n \in Nat /\ n >= 1 /\ c > 0
    BY <1>2, <1>4, SizesAre, VMAssumption DEF Pos
  <2> QED BY <2>1 DEF Classes, Pos
<1>6. /\ owned' = [owned EXCEPT ![a] = c] /\ GiveBack(t, at, n)
      /\ lost' = lost \cup (whole \ (Span(a, c) \cup Span(at, n)))
  BY <1>2, <1>5
<1> HIDE DEF c
<1>7. /\ at \in Nat /\ Span(a, c) \subseteq whole /\ Span(at, n) \subseteq whole
      /\ Span(a, c) \cap Span(at, n) = {} /\ at \in whole
  <2>1. whole = Span(a, c + n)
    BY <1>5
  <2> HIDE DEF whole
  <2> QED BY <1>4, <1>5, <2>1, TwoParts
<1>8. /\ OwnedOK(owned') /\ x \in O /\ Q = (O \ {x}) \cup {z}
      /\ \A b \in DOMAIN owned \ {a} : b \in DOMAIN owned' /\ owned'[b] = owned[b]
  <2> DEFINE g == [b \in (DOMAIN owned \ {a}) \cup {a} |-> IF b = a THEN c ELSE owned[b]]
  <2>1. owned' = g
    BY <1>4, <1>6 DEF OwnedOK
  <2>2. OwnedOK(g) /\ x \in O /\ OwnedParts(g) = (O \ {x}) \cup {z}
    <3>1. a \notin DOMAIN owned \ {a} /\ OwnedOK(owned) /\ a \in DOMAIN owned /\ a \in Nat /\ c \in Classes
      BY <1>4, <1>5
    <3>2. /\ OwnedOK(g) /\ Part(<<"owned">>, a, owned[a]) \in OwnedParts(owned)
          /\ OwnedParts(g) = (OwnedParts(owned) \ {Part(<<"owned">>, a, owned[a])}) \cup {Part(<<"owned">>, a, c)}
      BY <3>1, OwnedSwap
    <3> HIDE DEF g
    <3> QED BY <3>2
  <2>3. \A b \in DOMAIN owned \ {a} : b \in DOMAIN g /\ g[b] = owned[b]
    OBVIOUS
  <2> HIDE DEF g, x, z
  <2> QED BY <2>1, <2>2, <2>3
<1>9. LinesOf(x) = whole /\ LinesOf(z) = Span(a, c)
  BY PartIs
<1> HIDE DEF x, z, at, whole
<1>10. \A d \in Queued : d.at # at
  BY <1>7, <1>8, <1>9, NotDirty
<1>11. /\ \A u \in Threads \ {t} : pc'[u] = pc[u] /\ hand'[u] = hand[u]
       /\ pc'[t] \in {"idle", "give"}
  BY <1>5, <1>6, <1>7, <1>10, GiveBackStep
<1>12. OthersStay(t, pc', hand', moving', owned')
  BY <1>3, <1>4, <1>8, <1>11, OthersStayIs
<1>13. HoleOf(pc', hand', moving', owned') = HoleOf(pc, hand, moving, owned)
  BY <1>3, <1>4, <1>11, <1>12, HoleStays
<1>14. HandOf(pc, hand, t) = {} /\ LinesOfAll({}) = {}
  BY <1>3 DEF HandOf, Holding, LinesOfAll
<1>15. Apart(O) /\ LinesOfAll(O) \cap lost = {}
  BY <1>4, OwnedApart
<1>16. /\ Apart(Q) /\ LinesOfAll(Q) \cap Span(at, n) = {}
       /\ (LinesOfAll(Q) \cup Span(at, n)) \cap lost' = {}
       /\ LinesOfAll(Q) \cup Span(at, n) \cup lost' = LinesOfAll(O) \cup LinesOfAll(HandOf(pc, hand, t)) \cup lost
       /\ lost \subseteq lost'
  <2> DEFINE rest == O \ {x}
  <2>1. rest \cup {x} = O /\ rest \cap {x} = {} /\ Q = rest \cup {z}
    BY <1>8
  <2> HIDE DEF O, Q, rest
  <2>2. Apart(rest) /\ LinesOfAll(rest) \cap LinesOfAll({x}) = {}
    <3>1. Apart(rest \cup {x})
      BY <1>15, <2>1
    <3> QED BY <2>1, <3>1, ApartParts
  <2>3. LinesOfAll({x}) = whole /\ LinesOfAll({z}) = Span(a, c) /\ Apart({z})
    BY <1>9, LinesOfUnion
  <2>4. LinesOfAll(O) = LinesOfAll(rest) \cup LinesOfAll({x})
        /\ LinesOfAll(Q) = LinesOfAll(rest) \cup LinesOfAll({z})
    <3>1. LinesOfAll(rest \cup {x}) = LinesOfAll(rest) \cup LinesOfAll({x})
          /\ LinesOfAll(rest \cup {z}) = LinesOfAll(rest) \cup LinesOfAll({z})
      BY LinesOfUnion
    <3> QED BY <2>1, <3>1
  <2>5. Apart(Q)
    <3>1. LinesOfAll(rest) \cap LinesOfAll({z}) = {}
      BY <1>7, <2>2, <2>3
    <3> QED BY <2>1, <2>2, <2>3, <3>1, ApartUnion
  <2>6. LinesOfAll(Q) \cap Span(at, n) = {} /\ (LinesOfAll(Q) \cup Span(at, n)) \cap lost' = {}
    BY <1>6, <1>7, <1>15, <2>2, <2>3, <2>4
  <2>7. LinesOfAll(Q) \cup Span(at, n) \cup lost' = LinesOfAll(O) \cup lost
    BY <1>6, <1>7, <2>3, <2>4
  <2> QED BY <1>6, <1>14, <2>5, <2>6, <2>7
<1>17. Inv'
  <2>1. moving' \in [Threads -> Int] /\ moving'[t] = Nowhere
    BY <1>3, <1>4
  <2>2. mapped' \cup HoleOf(pc', hand', moving', owned') = mapped \cup HoleOf(pc, hand, moving, owned)
    BY <1>3, <1>13
  <2> QED BY <1>3, <1>5, <1>6, <1>7, <1>8, <1>10, <1>12, <1>16, <2>1, <2>2, GaveInv
<1> QED
  BY <1>3, <1>13, <1>17

------------------------------------------------------------------------------
(* Steps that change no list.                                               *)

\* What is in the pool, the queues and the hands stays as it is.
LEMMA StandInv ==
    ASSUME Inv, NEW p \in Procs, NEW to \in ThreadPoints \cup JanitorPoints,
           pc' = [pc EXCEPT ![p] = to], hand' = hand, owned' = owned, moving' = moving, lost' = lost,
           new' = new, old' = old, sizes' = sizes, ThePool' = ThePool, end' = end,
           p \in Threads => to \in ThreadPoints, p = Janitor => to \in JanitorPoints,
           to \in Holding <=> pc[p] \in Holding, to \in Reallocating <=> pc[p] \in Reallocating,
           pc[p] # "list" /\ to # "list",
           p = Janitor /\ to = "age" => old = <<>>,
           mapped' \cup HoleOf(pc', hand', moving', owned') = mapped \cup HoleOf(pc, hand, moving, owned)
    PROVE  Inv'
<1>1. /\ ProcsOK(pc, hand) /\ MovingOK(moving, pc, hand, owned)
      /\ pc \in [Procs -> ThreadPoints \cup JanitorPoints]
      /\ (\A u \in Threads : u \in Procs) /\ Janitor \in Procs
  BY DEF Inv, ProcsOK, Procs
<1>2. pc'[p] = to /\ \A u \in Procs \ {p} : pc'[u] = pc[u]
  BY <1>1
<1>3. ProcsOK(pc', hand')
  <2>1. pc' \in [Procs -> ThreadPoints \cup JanitorPoints] /\ hand' \in [Procs -> [at : Int, class : Classes]]
    BY <1>1 DEF ProcsOK
  <2>2. pc'[p] \in Holding => hand'[p].at \in Nat
    BY <1>1, <1>2 DEF ProcsOK
  <2> QED BY <1>1, <1>2, <2>1, <2>2, ProcsStep
<1>4. HandParts(pc', hand') = HandParts(pc, hand)
  <2>1. \A q \in Procs : pc[q] \in Holding <=> pc'[q] \in Holding
    BY <1>2
  <2> QED BY <2>1 DEF HandParts
<1>5. MovingOK(moving', pc', hand', owned')
  <2>1. ASSUME NEW u \in Threads
        PROVE  (pc'[u] \in Reallocating <=> pc[u] \in Reallocating)
                   /\ (pc'[u] \in Reallocating \cup {"list"} <=> pc[u] \in Reallocating \cup {"list"})
    BY <1>1, <1>2
  <2> QED BY <1>1, <2>1 DEF MovingOK
<1>6. AgedOK(pc', old')
  BY <1>1, <1>2 DEF AgedOK, Inv
<1>7. Books(ThePool', owned', new', old', pc', hand', lost', mapped' \cup HoleOf(pc', hand', moving', owned'))
  BY <1>4 DEF Books, Inv
<1> QED
  BY <1>3, <1>5, <1>6, <1>7 DEF Inv

\* The hole of one thread's reallocation, and the others'.
LEMMA HolesAre ==
    ASSUME Inv, NEW t \in Threads, NEW to, pc' = [pc EXCEPT ![t] = to],
           hand' = hand, owned' = owned, moving' = moving
    PROVE  /\ HoleOf(pc, hand, moving, owned)
                = HoleRest(pc, hand, moving, owned, t) \cup HoleBy(pc, hand, moving, owned, t)
           /\ HoleOf(pc', hand', moving', owned')
                = HoleRest(pc, hand, moving, owned, t) \cup HoleBy(pc', hand, moving, owned, t)
           /\ pc'[t] = to
<1>1. t \in Procs /\ pc \in [Procs -> ThreadPoints \cup JanitorPoints] /\ \A u \in Threads : u \in Procs
  BY DEF Inv, ProcsOK, Procs
<1>2. pc'[t] = to /\ \A u \in Threads \ {t} : pc'[u] = pc[u]
  BY <1>1
<1>3. OthersStay(t, pc', hand', moving', owned')
  <2>1. \A u \in Threads : moving[u] # Nowhere => moving[u] \in DOMAIN owned
    BY DEF Inv, MovingOK
  <2> QED BY <1>2, <2>1 DEF OthersStay
<1>4. HoleRest(pc', hand', moving', owned', t) = HoleRest(pc, hand, moving, owned, t)
  BY <1>3, HoleRestStays
<1>5. HoleOf(pc', hand', moving', owned')
        = HoleRest(pc', hand', moving', owned', t) \cup HoleBy(pc', hand', moving', owned', t)
  BY HoleSplit
<1>6. HoleOf(pc, hand, moving, owned)
        = HoleRest(pc, hand, moving, owned, t) \cup HoleBy(pc, hand, moving, owned, t)
  BY HoleSplit
<1> QED
  BY <1>2, <1>4, <1>5, <1>6

\* What a reallocation works on is in the pool.
LEMMA MovedLines ==
    ASSUME Inv, NEW t \in Threads, pc[t] \in Reallocating
    PROVE  /\ Span(hand[t].at, hand[t].class) \subseteq mapped \cup HoleOf(pc, hand, moving, owned)
           /\ Span(moving[t], owned[moving[t]]) \subseteq mapped \cup HoleOf(pc, hand, moving, owned)
<1> DEFINE P == mapped \cup HoleOf(pc, hand, moving, owned)
           x == Part(<<"owned">>, moving[t], owned[moving[t]])
           y == Part(<<"hand", t>>, hand[t].at, hand[t].class)
<1>1. t \in Procs /\ pc[t] \in Holding /\ moving[t] \in DOMAIN owned
  BY DEF Inv, MovingOK, Reallocating, Holding, Procs
<1>2. LinesOfAll(OwnedParts(owned)) \subseteq P /\ LinesOfAll(HandOf(pc, hand, t)) \subseteq P
  BY <1>1, OwnedApart
<1>3. x \in OwnedParts(owned) /\ y \in HandOf(pc, hand, t)
  BY <1>1, OwnedIs DEF HandOf
<1>4. LinesOf(x) = Span(moving[t], owned[moving[t]]) /\ LinesOf(y) = Span(hand[t].at, hand[t].class)
  BY PartIs
<1> HIDE DEF x, y, P
<1>5. LinesOf(x) \subseteq P /\ LinesOf(y) \subseteq P
  BY <1>2, <1>3 DEF LinesOfAll
<1> QED
  BY <1>4, <1>5 DEF P

\* The new chunk is unmapped.
LEMMA UnmapInv ==
    ASSUME Inv, NEW t \in Threads, Unmap(t)
    PROVE  Inv' /\ (mapped \cup HoleOf(pc, hand, moving, owned))'
                     = mapped \cup HoleOf(pc, hand, moving, owned)
<1>1. /\ pc[t] = "move" /\ mapped' = mapped \ Span(hand[t].at, hand[t].class)
      /\ pc' = [pc EXCEPT ![t] = "hole"] /\ hand' = hand /\ owned' = owned /\ moving' = moving /\ lost' = lost
      /\ new' = new /\ old' = old /\ sizes' = sizes /\ ThePool' = ThePool /\ end' = end
  BY DEF Unmap, At, callVars, dirtyVars, listVars, ThePool
<1>2. mapped' \cup HoleOf(pc', hand', moving', owned') = mapped \cup HoleOf(pc, hand, moving, owned)
  <2> DEFINE A == Span(hand[t].at, hand[t].class)
  <2>1. /\ HoleOf(pc, hand, moving, owned)
             = HoleRest(pc, hand, moving, owned, t) \cup HoleBy(pc, hand, moving, owned, t)
        /\ HoleOf(pc', hand', moving', owned')
             = HoleRest(pc, hand, moving, owned, t) \cup HoleBy(pc', hand, moving, owned, t)
        /\ pc'[t] = "hole"
    BY <1>1, HolesAre
  <2>2. HoleBy(pc, hand, moving, owned, t) = {} /\ HoleBy(pc', hand, moving, owned, t) = A
    BY <1>1, <2>1 DEF HoleBy
  <2>3. A \subseteq mapped \cup HoleOf(pc, hand, moving, owned)
    BY <1>1, MovedLines DEF Reallocating
  <2>4. mapped' = mapped \ A
    BY <1>1
  <2> HIDE DEF A
  <2> QED BY <2>1, <2>2, <2>3, <2>4
<1>3. Inv'
  <2>1. t \in Procs /\ t # Janitor /\ "hole" \in ThreadPoints
        /\ ("hole" \in Holding <=> pc[t] \in Holding) /\ ("hole" \in Reallocating <=> pc[t] \in Reallocating)
    BY <1>1, VMAssumption DEF Procs, ThreadPoints, Holding, Reallocating
  <2> QED BY <1>1, <1>2, <2>1, StandInv
<1> QED
  BY <1>2, <1>3

\* The pages are moved.
LEMMA RemapInv ==
    ASSUME Inv, NEW t \in Threads, Remap(t)
    PROVE  Inv' /\ (mapped \cup HoleOf(pc, hand, moving, owned))'
                     = mapped \cup HoleOf(pc, hand, moving, owned)
<1>1. /\ pc[t] = "hole"
      /\ mapped' = (mapped \ Span(moving[t], owned[moving[t]])) \cup Span(hand[t].at, hand[t].class)
      /\ pc' = [pc EXCEPT ![t] = "refill"] /\ hand' = hand /\ owned' = owned /\ moving' = moving /\ lost' = lost
      /\ new' = new /\ old' = old /\ sizes' = sizes /\ ThePool' = ThePool /\ end' = end
  BY DEF Remap, At, callVars, dirtyVars, listVars, ThePool
<1>2. mapped' \cup HoleOf(pc', hand', moving', owned') = mapped \cup HoleOf(pc, hand, moving, owned)
  <2> DEFINE A == Span(hand[t].at, hand[t].class)
             B == Span(moving[t], owned[moving[t]])
  <2>1. /\ HoleOf(pc, hand, moving, owned)
             = HoleRest(pc, hand, moving, owned, t) \cup HoleBy(pc, hand, moving, owned, t)
        /\ HoleOf(pc', hand', moving', owned')
             = HoleRest(pc, hand, moving, owned, t) \cup HoleBy(pc', hand, moving, owned, t)
        /\ pc'[t] = "refill"
    BY <1>1, HolesAre
  <2>2. HoleBy(pc, hand, moving, owned, t) = A /\ HoleBy(pc', hand, moving, owned, t) = B
    BY <1>1, <2>1 DEF HoleBy
  <2>3. B \subseteq mapped \cup HoleOf(pc, hand, moving, owned)
    BY <1>1, MovedLines DEF Reallocating
  <2>4. mapped' = (mapped \ B) \cup A
    BY <1>1
  <2> HIDE DEF A, B
  <2> QED BY <2>1, <2>2, <2>3, <2>4
<1>3. Inv'
  <2>1. t \in Procs /\ t # Janitor /\ "refill" \in ThreadPoints
        /\ ("refill" \in Holding <=> pc[t] \in Holding) /\ ("refill" \in Reallocating <=> pc[t] \in Reallocating)
    BY <1>1, VMAssumption DEF Procs, ThreadPoints, Holding, Reallocating
  <2> QED BY <1>1, <1>2, <2>1, StandInv
<1> QED
  BY <1>2, <1>3

\* A step of a thread or the janitor that changes nothing but where it is, the wait state
\* and the alarm.
LEMMA PointInv ==
    ASSUME Inv, NEW p \in Procs, NEW to \in ThreadPoints \cup JanitorPoints,
           pc' = [pc EXCEPT ![p] = to],
           hand' = hand, UNCHANGED <<poolVars, dirtyVars, callVars>>,
           p \in Threads => to \in {"idle", "wait", "force"} /\ pc[p] \in {"idle", "wait", "force"},
           p = Janitor => to \in {"fetch", "age", "look", "asleep", "late", "nap"}
                              /\ pc[p] \in {"fetch", "age", "look", "asleep", "late", "nap"},
           p = Janitor /\ to = "age" => old = <<>>
    PROVE  Inv' /\ (mapped \cup HoleOf(pc, hand, moving, owned))'
                     = mapped \cup HoleOf(pc, hand, moving, owned)
<1>1. /\ owned' = owned /\ moving' = moving /\ lost' = lost /\ mapped' = mapped /\ end' = end
      /\ new' = new /\ old' = old /\ sizes' = sizes /\ ThePool' = ThePool
  BY DEF poolVars, dirtyVars, callVars, listVars, ThePool
<1>2. /\ pc \in [Procs -> ThreadPoints \cup JanitorPoints] /\ \A u \in Threads : u \in Procs /\ u # Janitor
  BY VMAssumption DEF Inv, ProcsOK, Procs
<1>3. pc'[p] = to /\ \A u \in Procs \ {p} : pc'[u] = pc[u]
  BY <1>2
<1>4. p \in Threads \/ p = Janitor
  BY DEF Procs
<1>5. HoleOf(pc', hand', moving', owned') = HoleOf(pc, hand, moving, owned)
  <2>1. OthersStay(p, pc', hand', moving', owned')
    <3>1. \A u \in Threads : moving[u] # Nowhere => moving[u] \in DOMAIN owned
      BY DEF Inv, MovingOK
    <3> QED BY <1>1, <1>2, <1>3, <3>1 DEF OthersStay
  <2>2. p \in Threads => /\ pc[p] # "hole" /\ pc[p] # "refill"
                         /\ pc'[p] # "hole" /\ pc'[p] # "refill"
    BY <1>3
  <2> QED BY <2>1, <2>2, HoleStays
<1>6. /\ p \in Threads => to \in ThreadPoints
      /\ p = Janitor => to \in JanitorPoints
      /\ to \in Holding <=> pc[p] \in Holding
      /\ to \in Reallocating <=> pc[p] \in Reallocating
      /\ pc[p] # "list" /\ to # "list"
  BY <1>2, <1>4 DEF ThreadPoints, JanitorPoints, Holding, Reallocating
<1>7. mapped' \cup HoleOf(pc', hand', moving', owned') = mapped \cup HoleOf(pc, hand, moving, owned)
  BY <1>1, <1>5
<1> QED
  BY <1>1, <1>6, <1>7, StandInv

\* A thread waits for the janitor.
LEMMA WaitInv ==
    ASSUME Inv, NEW t \in Threads, BeginWait(t) \/ TestWait(t) \/ ForceJanitor(t)
    PROVE  Inv' /\ (mapped \cup HoleOf(pc, hand, moving, owned))'
                     = mapped \cup HoleOf(pc, hand, moving, owned)
<1>1. PICK to \in {"idle", "wait", "force"} :
          pc' = [pc EXCEPT ![t] = to] /\ pc[t] \in {"idle", "wait", "force"}
  BY DEF BeginWait, TestWait, ForceJanitor, At
<1>2. hand' = hand /\ UNCHANGED <<poolVars, dirtyVars, callVars>>
  BY DEF BeginWait, TestWait, ForceJanitor
<1>3. t \in Procs /\ t # Janitor /\ to \in ThreadPoints
  BY VMAssumption DEF Procs, ThreadPoints
<1> QED
  BY <1>1, <1>2, <1>3, PointInv

\* The janitor looks whether there is something to do, and waits for it.
LEMMA JanitorWaitInv ==
    ASSUME Inv, Look \/ Late \/ NapEnds
    PROVE  Inv' /\ (mapped \cup HoleOf(pc, hand, moving, owned))'
                     = mapped \cup HoleOf(pc, hand, moving, owned)
<1>1. PICK to \in {"fetch", "look", "asleep", "late", "nap"} :
          pc' = [pc EXCEPT ![Janitor] = to] /\ pc[Janitor] \in {"look", "late", "nap"}
  BY DEF Look, Late, NapEnds, At
<1>2. hand' = hand /\ UNCHANGED <<poolVars, dirtyVars, callVars>>
  BY DEF Look, Late, NapEnds, janitorOnly, poolVars
<1>3. Janitor \in Procs /\ Janitor \notin Threads /\ to \in JanitorPoints /\ to # "age"
  BY VMAssumption DEF Procs, JanitorPoints
<1> QED
  BY <1>1, <1>2, <1>3, PointInv

\* The janitor takes the oldest chunk.
LEMMA FetchInv ==
    ASSUME Inv, Fetch
    PROVE  Inv' /\ (mapped \cup HoleOf(pc, hand, moving, owned))'
                     = mapped \cup HoleOf(pc, hand, moving, owned)
<1>1. /\ pc[Janitor] = "fetch" /\ owned' = owned /\ moving' = moving /\ lost' = lost
      /\ mapped' = mapped /\ end' = end /\ ThePool' = ThePool
  BY DEF Fetch, janitorOnly, callVars, listVars, ThePool
<1>2. /\ Janitor \in Procs /\ Janitor \notin Threads /\ ProcsOK(pc, hand) /\ DirtyOK(new, old, sizes)
      /\ pc \in [Procs -> ThreadPoints \cup JanitorPoints] /\ hand \in [Procs -> [at : Int, class : Classes]]
      /\ MovingOK(moving, pc, hand, owned) /\ \A u \in Threads : u \in Procs /\ u # Janitor
  BY VMAssumption DEF Inv, ProcsOK, Procs
<1>3. CASE old = <<>>
  <2>1. pc' = [pc EXCEPT ![Janitor] = "age"] /\ hand' = hand /\ UNCHANGED dirtyVars
    BY <1>3 DEF Fetch, At
  <2>2. UNCHANGED <<poolVars, dirtyVars, callVars>>
    BY <2>1 DEF Fetch, janitorOnly, poolVars
  <2>3. "age" \in ThreadPoints \cup JanitorPoints
    BY DEF JanitorPoints
  <2> QED BY <1>1, <1>2, <1>3, <2>1, <2>2, <2>3, PointInv
<1>4. CASE old # <<>>
  <2> DEFINE d == old[1]
             a == d.at
             k == d.class
  <2>1. /\ old' = Tail(old) /\ sizes' = [sizes EXCEPT ![k] = Unlisted(@, a)] /\ new' = new
        /\ hand' = [hand EXCEPT ![Janitor] = Chunk(a, k)] /\ pc' = [pc EXCEPT ![Janitor] = "push"]
    BY <1>4 DEF Fetch, At
  <2>2. /\ old \in Seq(Dirts) /\ IsInjective(old) /\ new \in Seq(Dirts) /\ IsInjective(new)
        /\ d = Head(old)
    BY <1>2, <1>4 DEF DirtyOK
  <2>3. /\ Tail(old) \in Seq(Dirts) /\ d \in Dirts /\ d \in ToSet(old)
        /\ ToSet(Tail(old)) = ToSet(old) \ {d} /\ IsInjective(Tail(old))
    BY <1>4, <2>2, TakeFirst
  <2> HIDE DEF d
  <2>4. d \in Queued
    BY <2>3 DEF Queued
  <2>5. a \in Nat /\ k \in Classes /\ d \notin ToSet(new) /\ ~d.is_new
    <3>1. ~d.is_new
      BY <1>2, <2>3 DEF DirtyOK
    <3> QED BY <2>4, <3>1, DirtyOnly
  <2>6. sizes[k] \in Seq(Nat) /\ IsInjective(sizes[k]) /\ a \in ToSet(sizes[k]) /\ sizes \in Lists
    <3>1. ToSet(sizes[k]) = {e.at : e \in {x \in Queued : x.class = k}}
      BY <1>2, <2>5 DEF DirtyOK, Queued
    <3> QED BY <1>2, <2>4, <2>5, <3>1 DEF DirtyOK, Lists
  <2>7. /\ Unlisted(sizes[k], a) \in Seq(Nat) /\ IsInjective(Unlisted(sizes[k], a))
        /\ ToSet(Unlisted(sizes[k], a)) = ToSet(sizes[k]) \ {a}
    BY <2>6, UnlistedIs
  <2>8. /\ sizes' \in Lists /\ IsInjective(sizes'[k]) /\ ToSet(sizes'[k]) = ToSet(sizes[k]) \ {a}
        /\ \A j \in Classes \ {k} : sizes'[j] = sizes[j]
    <3>1. sizes'[k] = Unlisted(sizes[k], a) /\ \A j \in Classes \ {k} : sizes'[j] = sizes[j]
      BY <2>1, <2>5, <2>6 DEF Lists
    <3>2. sizes' \in Lists
      BY <2>1, <2>6, <2>7 DEF Lists
    <3> QED BY <2>7, <3>1, <3>2
  <2>9. /\ DirtyOK(new', old', sizes')
        /\ \E x : /\ x \in DirtyParts(<<"new">>, new) \cup DirtyParts(<<"old">>, old)
                  /\ LinesOf(x) = Span(d.at, d.class)
                  /\ DirtyParts(<<"new">>, new') \cup DirtyParts(<<"old">>, old')
                       = (DirtyParts(<<"new">>, new) \cup DirtyParts(<<"old">>, old)) \ {x}
    <3>1. /\ new' \in Seq(Dirts) /\ IsInjective(new') /\ ToSet(new') = ToSet(new) \ {d}
          /\ old' \in Seq(Dirts) /\ IsInjective(old') /\ ToSet(old') = ToSet(old) \ {d}
      BY <2>1, <2>2, <2>3, <2>5
    <3> QED BY <2>4, <2>8, <3>1, DirtyTaken
  <2>10. PICK x : /\ x \in DirtyParts(<<"new">>, new) \cup DirtyParts(<<"old">>, old)
                  /\ LinesOf(x) = Span(a, k)
                  /\ DirtyParts(<<"new">>, new') \cup DirtyParts(<<"old">>, old')
                       = (DirtyParts(<<"new">>, new) \cup DirtyParts(<<"old">>, old)) \ {x}
    BY <2>9
  <2> HIDE DEF a, k
  <2>11. /\ pc'[Janitor] = "push" /\ \A u \in Procs \ {Janitor} : pc'[u] = pc[u]
         /\ hand'[Janitor] = Chunk(a, k) /\ \A u \in Procs \ {Janitor} : hand'[u] = hand[u]
    BY <1>2, <2>1
  <2>12. ProcsOK(pc', hand')
    <3>1. Chunk(a, k) \in [at : Int, class : Classes] /\ Chunk(a, k).at \in Nat
      BY <2>5 DEF Chunk
    <3>2. hand' \in [Procs -> [at : Int, class : Classes]]
      BY <1>2, <2>1, <3>1
    <3>3. pc' \in [Procs -> ThreadPoints \cup JanitorPoints] /\ pc'[Janitor] \in JanitorPoints
      BY <1>2, <2>1 DEF JanitorPoints
    <3>4. hand'[Janitor].at \in Nat
      BY <2>11, <3>1
    <3> QED BY <1>2, <2>11, <3>2, <3>3, <3>4, ProcsStep
  <2> DEFINE y == Part(<<"hand", Janitor>>, a, k)
  <2>13. HandParts(pc', hand') = HandParts(pc, hand) \cup {y} /\ LinesOf(y) = Span(a, k)
    <3>1. HandRest(pc', hand', Janitor) = HandRest(pc, hand, Janitor)
      BY <2>11, HandRestSame
    <3>2. HandOf(pc', hand', Janitor) = {y} /\ HandOf(pc, hand, Janitor) = {}
      BY <1>1, <2>11 DEF HandOf, Holding, Chunk
    <3>3. /\ HandParts(pc, hand) = HandRest(pc, hand, Janitor) \cup HandOf(pc, hand, Janitor)
          /\ HandParts(pc', hand') = HandRest(pc', hand', Janitor) \cup HandOf(pc', hand', Janitor)
      BY <1>2, HandSplit
    <3> QED BY <3>1, <3>2, <3>3, PartIs
  <2> HIDE DEF y
  <2> DEFINE D == DirtyParts(<<"new">>, new) \cup DirtyParts(<<"old">>, old)
             R == PoolParts(ThePool) \cup OwnedParts(owned) \cup (D \ {x}) \cup HandParts(pc, hand)
             P == mapped \cup HoleOf(pc, hand, moving, owned)
  <2>14. Account(R \cup {x}, lost, P) /\ R \cap {x} = {}
    <3>1. R \cup {x} = PoolParts(ThePool) \cup OwnedParts(owned) \cup DirtyParts(<<"new">>, new)
                         \cup DirtyParts(<<"old">>, old) \cup HandParts(pc, hand)
      BY <2>10
    <3>2. R \cap {x} = {}
      BY <2>10, FamiliesDiffer
    <3> QED BY <3>1, <3>2 DEF Inv, Books
  <2>15. Account(R \cup {y}, lost, P)
    <3>1. LinesOfAll({y}) = LinesOfAll({x}) /\ Apart({y})
      BY <2>10, <2>13, LinesOfUnion
    <3> HIDE DEF R, P
    <3> QED BY <2>14, <3>1, Exchanged
  <2>16. HoleOf(pc', hand', moving', owned') = HoleOf(pc, hand, moving, owned)
    BY <1>1, <1>2, <2>11, HoleSame
  <2>17. Books(ThePool', owned', new', old', pc', hand', lost', mapped' \cup HoleOf(pc', hand', moving', owned'))
    <3>1. R \cup {y} = PoolParts(ThePool) \cup OwnedParts(owned) \cup DirtyParts(<<"new">>, new')
                         \cup DirtyParts(<<"old">>, old') \cup HandParts(pc', hand')
      BY <2>10, <2>13
    <3> QED BY <1>1, <2>15, <2>16, <3>1 DEF Books
  <2>18. MovingOK(moving', pc', hand', owned')
    BY <1>1, <1>2, <2>11 DEF MovingOK
  <2>19. AgedOK(pc', old')
    BY <2>11 DEF AgedOK
  <2> QED BY <1>1, <2>9, <2>12, <2>16, <2>17, <2>18, <2>19 DEF Inv
<1> QED
  BY <1>3, <1>4

\* The queues change their places: what was queued is old now.
LEMMA AgedQueue ==
    ASSUME Inv, old = <<>>, new' = <<>>, sizes' = sizes,
           old' = [i \in DOMAIN new |-> [new[i] EXCEPT !.is_new = FALSE]]
    PROVE  /\ DirtyOK(new', old', sizes')
           /\ DirtyParts(<<"new">>, new') = {} /\ DirtyParts(<<"old">>, old) = {}
           /\ \A a, k : (\E d \in ToSet(new) : d.at = a /\ d.class = k)
                            <=> \E d \in ToSet(old') : d.at = a /\ d.class = k
<1>1. DirtyOK(new, old, sizes) /\ new \in Seq(Dirts) /\ IsInjective(new)
  BY DEF Inv, DirtyOK
<1>2. ToSet(<<>>) = {} /\ IsInjective(<<>>) /\ <<>> \in Seq(Dirts)
  BY DEF ToSet, IsInjective
<1>3. \A i \in DOMAIN new : new[i] \in Dirts /\ new[i] \in ToSet(new) /\ new[i].is_new
  BY <1>1 DEF DirtyOK, ToSet
<1>4. /\ DOMAIN old' = DOMAIN new
      /\ \A i \in DOMAIN new : /\ old'[i] \in Dirts /\ old'[i].at = new[i].at
                               /\ old'[i].class = new[i].class /\ ~old'[i].is_new
  <2>1. ASSUME NEW d \in Dirts
        PROVE  /\ [d EXCEPT !.is_new = FALSE] \in Dirts /\ [d EXCEPT !.is_new = FALSE].at = d.at
               /\ [d EXCEPT !.is_new = FALSE].class = d.class /\ ~[d EXCEPT !.is_new = FALSE].is_new
    BY DEF Dirts
  <2> QED BY <1>3, <2>1
<1>5. old' \in Seq(Dirts)
  <2>1. DOMAIN new = 1 .. Len(new) /\ Len(new) \in Nat
    BY <1>1
  <2>2. old' \in [1 .. Len(new) -> Dirts]
    BY <1>4, <2>1
  <2> QED BY <2>1, <2>2
<1>6. IsInjective(old')
  <2> SUFFICES ASSUME NEW i \in DOMAIN new, NEW j \in DOMAIN new, old'[i] = old'[j] PROVE i = j
    BY <1>4 DEF IsInjective
  <2>1. new[i].at = new[j].at /\ new[i].class = new[j].class
    <3>1. /\ old'[i].at = new[i].at /\ old'[i].class = new[i].class
          /\ old'[j].at = new[j].at /\ old'[j].class = new[j].class
      BY <1>4
    <3>2. old'[i].at = old'[j].at /\ old'[i].class = old'[j].class
      OBVIOUS
    <3> QED BY <3>1, <3>2
  <2>2. new[i] = new[j]
    <3>1. new[i] \in Dirts /\ new[j] \in Dirts /\ new[i].is_new /\ new[j].is_new
      BY <1>3
    <3>2. new[i].is_new = new[j].is_new
      BY <3>1 DEF Dirts
    <3> QED BY <2>1, <3>1, <3>2 DEF Dirts
  <2> QED BY <1>1, <2>2 DEF IsInjective
<1>7. ASSUME NEW a, NEW k
      PROVE  (\E d \in ToSet(new) : d.at = a /\ d.class = k) <=> \E d \in ToSet(old') : d.at = a /\ d.class = k
  <2>1. (\E d \in ToSet(new) : d.at = a /\ d.class = k) <=> \E i \in DOMAIN new : new[i].at = a /\ new[i].class = k
    BY DEF ToSet
  <2>2. (\E d \in ToSet(old') : d.at = a /\ d.class = k) <=> \E i \in DOMAIN old' : old'[i].at = a /\ old'[i].class = k
    BY DEF ToSet
  <2> QED BY <1>4, <2>1, <2>2
<1>8. DirtyOK(new', old', sizes')
  <2>1. ASSUME NEW k \in Classes
        PROVE  /\ IsInjective(sizes'[k])
               /\ ToSet(sizes'[k]) = {e.at : e \in {x \in ToSet(new') \cup ToSet(old') : x.class = k}}
    <3>1. IsInjective(sizes[k])
          /\ ToSet(sizes[k]) = {e.at : e \in {x \in ToSet(new) \cup ToSet(old) : x.class = k}}
      BY <1>1 DEF DirtyOK
    <3>2. ToSet(new) \cup ToSet(old) = ToSet(new) /\ ToSet(new') \cup ToSet(old') = ToSet(old')
      BY <1>2
    <3>3. {e.at : e \in {x \in ToSet(new) : x.class = k}} = {e.at : e \in {x \in ToSet(old') : x.class = k}}
      <4>1. ASSUME NEW a
            PROVE  a \in {e.at : e \in {x \in ToSet(new) : x.class = k}}
                       <=> \E d \in ToSet(new) : d.at = a /\ d.class = k
        OBVIOUS
      <4>2. ASSUME NEW a
            PROVE  a \in {e.at : e \in {x \in ToSet(old') : x.class = k}}
                       <=> \E d \in ToSet(old') : d.at = a /\ d.class = k
        OBVIOUS
      <4> QED BY <1>7, <4>1, <4>2
    <3> QED BY <3>1, <3>2, <3>3
  <2>2. (\A e \in ToSet(new') : e.is_new) /\ (\A e \in ToSet(old') : ~e.is_new)
    BY <1>2, <1>4 DEF ToSet
  <2>3. sizes' \in Lists
    BY <1>1 DEF DirtyOK
  <2> QED BY <1>2, <1>5, <1>6, <2>1, <2>2, <2>3 DEF DirtyOK
<1>9. DirtyParts(<<"new">>, new') = {} /\ DirtyParts(<<"old">>, old) = {}
  BY <1>2 DEF DirtyParts
<1> QED
  BY <1>7, <1>8, <1>9

\* The janitor ages the queues.
LEMMA AgeInv ==
    ASSUME Inv, Age
    PROVE  Inv' /\ (mapped \cup HoleOf(pc, hand, moving, owned))'
                     = mapped \cup HoleOf(pc, hand, moving, owned)
<1>1. /\ pc[Janitor] = "age" /\ pc' = [pc EXCEPT ![Janitor] = "look"] /\ hand' = hand
      /\ owned' = owned /\ moving' = moving /\ lost' = lost /\ sizes' = sizes
      /\ mapped' = mapped /\ end' = end /\ ThePool' = ThePool
  BY DEF Age, At, janitorOnly, callVars, listVars, ThePool
<1>2. Janitor \in Procs /\ Janitor \notin Threads /\ "look" \in ThreadPoints \cup JanitorPoints
  BY VMAssumption DEF Procs, JanitorPoints
<1>3. CASE new = <<>>
  <2>1. UNCHANGED <<poolVars, dirtyVars, callVars>>
    BY <1>3 DEF Age, janitorOnly, poolVars, dirtyVars
  <2> QED BY <1>1, <1>2, <2>1, PointInv
<1>4. CASE new # <<>>
  <2>1. old' = [i \in DOMAIN new |-> [new[i] EXCEPT !.is_new = FALSE]] /\ new' = <<>>
    BY <1>4 DEF Age
  <2>2. old = <<>>
    BY <1>1 DEF Inv, AgedOK
  <2> DEFINE N == DirtyParts(<<"new">>, new)
             L == DirtyParts(<<"old">>, old')
             R == PoolParts(ThePool) \cup OwnedParts(owned) \cup HandParts(pc, hand)
             P == mapped \cup HoleOf(pc, hand, moving, owned)
  <2>3. /\ DirtyOK(new', old', sizes')
        /\ DirtyParts(<<"new">>, new') = {} /\ DirtyParts(<<"old">>, old) = {}
        /\ \A a, k : (\E d \in ToSet(new) : d.at = a /\ d.class = k)
                         <=> \E d \in ToSet(old') : d.at = a /\ d.class = k
    BY <1>1, <2>1, <2>2, AgedQueue
  <2>4. Account(R \cup N, lost, P) /\ R \cap N = {}
    <3>1. R \cup N = PoolParts(ThePool) \cup OwnedParts(owned) \cup N
                       \cup DirtyParts(<<"old">>, old) \cup HandParts(pc, hand)
      BY <2>3
    <3>2. R \cap N = {}
      BY FamiliesDiffer
    <3> QED BY <3>1, <3>2 DEF Inv, Books
  <2>5. ASSUME NEW x \in L
        PROVE  \E y \in N : LinesOf(y) = LinesOf(x) /\ y.at = x.at /\ y.class = x.class
                                /\ x = Part(<<"old">>, x.at, x.class)
    <3>1. PICK d \in ToSet(old') : x = Part(<<"old">>, d.at, d.class)
      BY DirtyIs
    <3>2. PICK e \in ToSet(new) : e.at = d.at /\ e.class = d.class
      BY <2>3
    <3> DEFINE y == Part(<<"new">>, e.at, e.class)
    <3>3. y \in N
      BY DirtyIs
    <3>4. LinesOf(y) = LinesOf(x) /\ y.at = x.at /\ y.class = x.class /\ x.at = d.at /\ x.class = d.class
      BY <3>1, <3>2, PartIs
    <3> QED BY <3>1, <3>3, <3>4
  <2>6. ASSUME NEW y \in N PROVE \E x \in L : LinesOf(y) = LinesOf(x)
    <3>1. PICK e \in ToSet(new) : y = Part(<<"new">>, e.at, e.class)
      BY DirtyIs
    <3>2. PICK d \in ToSet(old') : d.at = e.at /\ d.class = e.class
      BY <2>3
    <3> DEFINE x == Part(<<"old">>, d.at, d.class)
    <3>3. x \in L
      BY DirtyIs
    <3>4. LinesOf(y) = LinesOf(x)
      BY <3>1, <3>2, PartIs
    <3> QED BY <3>3, <3>4
  <2> HIDE DEF N, L
  <2>7. LinesOfAll(L) = LinesOfAll(N)
    BY <2>5, <2>6 DEF LinesOfAll
  <2>8. Apart(N)
    BY <2>4, ApartParts DEF Account
  <2>9. Apart(L)
    <3> SUFFICES ASSUME NEW x \in L, NEW y \in L, x # y PROVE LinesOf(x) \cap LinesOf(y) = {}
      BY DEF Apart
    <3>1. PICK u \in N : LinesOf(u) = LinesOf(x) /\ u.at = x.at /\ u.class = x.class
                             /\ x = Part(<<"old">>, x.at, x.class)
      BY <2>5
    <3>2. PICK v \in N : LinesOf(v) = LinesOf(y) /\ v.at = y.at /\ v.class = y.class
                             /\ y = Part(<<"old">>, y.at, y.class)
      BY <2>5
    <3>3. u # v
      BY <3>1, <3>2
    <3> QED BY <2>8, <3>1, <3>2, <3>3 DEF Apart
  <2>10. Account(R \cup L, lost, P)
    <3> HIDE DEF R, P
    <3> QED BY <2>4, <2>7, <2>9, Exchanged
  <2>11. /\ ProcsOK(pc, hand) /\ pc \in [Procs -> ThreadPoints \cup JanitorPoints]
         /\ pc'[Janitor] = "look" /\ \A u \in Procs \ {Janitor} : pc'[u] = pc[u]
    BY <1>1, <1>2 DEF Inv, ProcsOK
  <2>12. \A u \in Threads : u \in Procs /\ u # Janitor /\ pc'[u] = pc[u]
    BY <1>2, <2>11 DEF Procs
  <2>13. ProcsOK(pc', hand')
    <3>1. pc' \in [Procs -> ThreadPoints \cup JanitorPoints] /\ hand' \in [Procs -> [at : Int, class : Classes]]
      BY <1>1, <1>2, <2>11 DEF ProcsOK
    <3>2. pc'[Janitor] \in JanitorPoints /\ pc'[Janitor] \notin Holding
      BY <2>11 DEF JanitorPoints, Holding
    <3> QED BY <1>1, <1>2, <2>11, <2>12, <3>1, <3>2, ProcsStep
  <2>14. HandParts(pc', hand') = HandParts(pc, hand)
    <3>1. \A q \in Procs : pc[q] \in Holding <=> pc'[q] \in Holding
      BY <1>1, <2>11 DEF Holding
    <3> QED BY <1>1, <3>1 DEF HandParts
  <2>15. HoleOf(pc', hand', moving', owned') = HoleOf(pc, hand, moving, owned)
    <3>1. \A t \in Threads : (pc[t] = "hole" <=> pc'[t] = "hole") /\ (pc[t] = "hole" => hand[t] = hand'[t])
      BY <1>1, <2>12
    <3>2. \A t \in Threads : (pc[t] = "refill" <=> pc'[t] = "refill")
              /\ (pc[t] = "refill" => moving[t] = moving'[t] /\ owned[moving[t]] = owned'[moving[t]])
      BY <1>1, <2>12
    <3> QED BY <3>1, <3>2, HoleSame
  <2>16. Books(ThePool', owned', new', old', pc', hand', lost', mapped' \cup HoleOf(pc', hand', moving', owned'))
    <3>1. R \cup L = PoolParts(ThePool) \cup OwnedParts(owned) \cup DirtyParts(<<"new">>, new')
                         \cup DirtyParts(<<"old">>, old') \cup HandParts(pc', hand')
      BY <2>3, <2>14 DEF L
    <3> QED BY <1>1, <2>10, <2>15, <3>1 DEF Books
  <2>17. MovingOK(moving', pc', hand', owned')
    BY <1>1, <2>12 DEF Inv, MovingOK
  <2>18. AgedOK(pc', old')
    BY <2>11 DEF AgedOK
  <2> QED BY <1>1, <2>3, <2>13, <2>15, <2>16, <2>17, <2>18 DEF Inv
<1> QED
  BY <1>3, <1>4

\* The pool is within the address space.
InSpace == mapped \cup HoleOf(pc, hand, moving, owned) \subseteq 0 .. Lines - 1

\* Every step keeps the invariant.
LEMMA NextInv ==
    ASSUME ~HolesTaken, Inv, InSpace, [Next]_vars
    PROVE  Inv' /\ InSpace'
<1> DEFINE Same == (mapped \cup HoleOf(pc, hand, moving, owned))'
                      = mapped \cup HoleOf(pc, hand, moving, owned)
<1>1. ASSUME NEW t \in Threads, Call(t) \/ InCall(t) PROVE Inv' /\ InSpace'
  <2>0. t \in Procs
    BY DEF Procs
  <2>1. CASE Reserve(t)
    BY <2>1, ReserveInv DEF InSpace
  <2>2. CASE Unreserve(t)
    BY <2>2, UnreserveInv DEF InSpace
  <2>3. CASE Expand(t)
    BY <2>3, ExpandInv DEF InSpace
  <2>4. CASE Shrink(t)
    BY <2>4, ShrinkInv DEF InSpace
  <2>5. CASE BeginWait(t) \/ TestWait(t) \/ ForceJanitor(t)
    BY <2>5, WaitInv DEF InSpace
  <2>6. CASE Push(t, "give", "idle")
    BY <2>0, <2>6, PushInv DEF InSpace
  <2>7. CASE PopFree(t)
    BY <2>7, PopFreeInv DEF InSpace
  <2>8. CASE Grow(t)
    BY <2>8, GrowInv DEF InSpace
  <2>9. CASE Copy(t)
    BY <2>9, CopyInv DEF InSpace
  <2>10. CASE Unmap(t)
    BY <2>10, UnmapInv DEF InSpace
  <2>11. CASE Remap(t)
    BY <2>11, RemapInv DEF InSpace
  <2>12. CASE Refill(t)
    BY <2>12, RefillInv DEF InSpace
  <2> QED
    BY <1>1, <2>1, <2>2, <2>3, <2>4, <2>5, <2>6, <2>7, <2>8, <2>9, <2>10, <2>11, <2>12 DEF Call, InCall
<1>2. ASSUME JanitorStep PROVE Inv' /\ InSpace'
  <2>0. Janitor \in Procs
    BY DEF Procs
  <2>1. CASE Push(Janitor, "push", "fetch")
    BY <2>0, <2>1, PushInv DEF InSpace
  <2>2. CASE Fetch
    BY <2>2, FetchInv DEF InSpace
  <2>3. CASE Age
    BY <2>3, AgeInv DEF InSpace
  <2>4. CASE Look \/ Late \/ NapEnds
    BY <2>4, JanitorWaitInv DEF InSpace
  <2> QED BY <1>2, <2>1, <2>2, <2>3, <2>4 DEF JanitorStep
<1>3. ASSUME UNCHANGED vars PROVE Inv' /\ InSpace'
  <2>1. /\ mapped' = mapped /\ ThePool' = ThePool /\ end' = end /\ new' = new /\ old' = old
        /\ sizes' = sizes /\ owned' = owned /\ lost' = lost /\ moving' = moving /\ pc' = pc /\ hand' = hand
    BY <1>3 DEF vars, poolVars, dirtyVars, callVars, listVars, ThePool
  <2> QED BY <2>1 DEF Inv, InSpace
<1> QED
  BY <1>1, <1>2, <1>3 DEF Next, Ended

------------------------------------------------------------------------------
(* The theorems.                                                            *)

\* Initially nothing is mapped.
LEMMA InitHolds == Init => Inv /\ InSpace
<1> SUFFICES ASSUME Init PROVE Inv /\ InSpace
  OBVIOUS
<1>1. Inv
  BY InitInv
<1>2. mapped = {} /\ \A t \in Threads : pc[t] = "idle"
  BY VMAssumption DEF Init, Procs
<1>3. HoleOf(pc, hand, moving, owned) = {}
  BY <1>2 DEF HoleOf
<1> QED
  BY <1>1, <1>2, <1>3 DEF InSpace

\* No chunk is given twice or forgotten, whatever the threads, the janitor and the classes,
\* as long as the system does not map anything in the hole of a reallocation.
THEOREM PoolIsConsistent ==
    ASSUME ~HolesTaken
    PROVE  Spec => []PoolConsistent
<1>1. Init => Inv /\ InSpace
  BY InitHolds
<1>2. Inv /\ InSpace /\ [Next]_vars => (Inv /\ InSpace)'
  BY NextInv
<1>3. Inv /\ InSpace => PoolConsistent
  BY InvImplies
<1> QED
  BY <1>1, <1>2, <1>3, PTL DEF Spec

\* The sizes of the abstract specification are the same.
LEMMA AllocSpan == \A a, c : Alloc!Span(a, c) = Span(a, c)
<1>1. Alloc!Power2 = Power2
  BY DEF Alloc!Power2, Power2
<1> QED
  BY <1>1 DEF Alloc!Span, Span, Alloc!LinesIn, LinesIn

\* A step that leaves the janitor and the queues alone keeps what the wait state says.
LEMMA QuietStep ==
    ASSUME WaitingIsClean, waitState' = waitState \/ waitState' # 1, pc'[Janitor] = pc[Janitor],
           new' = new, old' = old
    PROVE  WaitingIsClean'
BY DEF WaitingIsClean, Queued

\* The same for the section under dirty_mmaps_lock: there is no dirty chunk to take.
LEMMA PopDirtyQuiet ==
    ASSUME Inv, WaitingIsClean, NEW t \in Threads, NEW c \in Classes, NEW x, PopDirty(t, c, x),
           waitState' = waitState
    PROVE  WaitingIsClean'
<1>1. CASE waitState = 1
  <2>1. Queued = {}
    BY <1>1 DEF WaitingIsClean
  <2>2. sizes[c] = <<>>
    <3>1. ToSet(sizes[c]) = {d.at : d \in {y \in Queued : y.class = c}} /\ sizes[c] \in Seq(Nat)
      BY DEF Inv, DirtyOK, Queued, Lists
    <3>2. ToSet(sizes[c]) = {}
      BY <2>1, <3>1
    <3>3. sizes[c] # <<>> => Head(sizes[c]) \in ToSet(sizes[c])
      BY <3>1 DEF ToSet
    <3> QED BY <3>2, <3>3
  <2>3. /\ pc' = [pc EXCEPT ![t] = "list"] /\ new' = new /\ old' = old
    BY <2>2 DEF PopDirty, At, dirtyVars
  <2>4. pc'[Janitor] = pc[Janitor]
    <3>1. Janitor # t /\ pc \in [Procs -> ThreadPoints \cup JanitorPoints]
      BY VMAssumption DEF Inv, ProcsOK
    <3> QED BY <2>3, <3>1
  <2> QED BY <2>3, <2>4, QuietStep
<1>2. CASE waitState # 1
  BY <1>2 DEF WaitingIsClean
<1> QED
  BY <1>1, <1>2

\* And when a chunk is given back: if the janitor waited it does no longer.
LEMMA GiveBackQuiet ==
    ASSUME Inv, WaitingIsClean, NEW t \in Threads, NEW a, NEW c, GiveBack(t, a, c)
    PROVE  WaitingIsClean'
<1>1. CASE waitState' = Noticed
  BY <1>1 DEF Noticed, WaitingIsClean
<1>2. CASE /\ pc' = [pc EXCEPT ![t] = "give"] /\ waitState' = waitState /\ new' = new /\ old' = old
  <2>1. Janitor # t /\ pc \in [Procs -> ThreadPoints \cup JanitorPoints]
    BY VMAssumption DEF Inv, ProcsOK
  <2> QED BY <1>2, <2>1, QuietStep
<1> QED
  BY <1>1, <1>2 DEF GiveBack, At, dirtyVars

\* What a thread does moves only itself.
LEMMA JanitorStays ==
    ASSUME Inv, NEW t \in Threads, NEW to, pc' = [pc EXCEPT ![t] = to]
    PROVE  pc'[Janitor] = pc[Janitor]
BY VMAssumption DEF Inv, ProcsOK

\* What Deliver does to the janitor: nothing.
LEMMA DeliverQuiet ==
    ASSUME Inv, NEW t \in Threads, NEW a, NEW c, NEW x, Deliver(t, a, c, x)
    PROVE  pc'[Janitor] = pc[Janitor]
<1>1. \E to : pc' = [pc EXCEPT ![t] = to]
  BY DEF Deliver, At
<1> QED
  BY <1>1, JanitorStays

\* When the wait state says that the janitor waits, no chunk is dirty.
LEMMA NextClean ==
    ASSUME Inv, WaitingIsClean, [Next]_vars
    PROVE  WaitingIsClean'
<1>1. ASSUME NEW t \in Threads, Call(t) \/ InCall(t) PROVE WaitingIsClean'
  <2>0. Janitor # t /\ pc \in [Procs -> ThreadPoints \cup JanitorPoints] /\ Requests \subseteq Classes
    BY VMAssumption DEF Inv, ProcsOK, Classes
  <2>1. CASE Reserve(t)
    <3>1. waitState' = waitState /\ \E c \in Requests : PopDirty(t, c, FALSE)
      BY <2>1 DEF Reserve
    <3> QED BY <2>0, <3>1, PopDirtyQuiet
  <2>2. CASE Unreserve(t)
    BY <2>2, GiveBackQuiet DEF Unreserve
  <2>3. CASE Expand(t)
    <3>1. waitState' = waitState /\ \E c \in Requests : PopDirty(t, c, TRUE)
      BY <2>3 DEF Expand
    <3> QED BY <2>0, <3>1, PopDirtyQuiet
  <2>4. CASE Shrink(t)
    <3>1. \E a, c : GiveBack(t, a, c)
      BY <2>4 DEF Shrink
    <3> QED BY <3>1, GiveBackQuiet
  <2>5. CASE BeginWait(t) \/ TestWait(t) \/ ForceJanitor(t)
    <3>1. new' = new /\ old' = old /\ (waitState' = waitState \/ waitState' # 1)
      BY <2>5 DEF BeginWait, TestWait, ForceJanitor, dirtyVars
    <3>2. \E to : pc' = [pc EXCEPT ![t] = to]
      BY <2>5 DEF BeginWait, TestWait, ForceJanitor, At
    <3> QED BY <3>1, <3>2, JanitorStays, QuietStep
  <2>6. CASE Push(t, "give", "idle")
    <3>1. pc'[Janitor] = pc[Janitor] /\ new' = new /\ old' = old /\ waitState' = waitState
      BY <2>0, <2>6 DEF Push, At, dirtyVars
    <3> QED BY <3>1, QuietStep
  <2>7. CASE PopFree(t)
    <3>1. new' = new /\ old' = old /\ waitState' = waitState
      BY <2>7 DEF PopFree, dirtyVars
    <3>2. \E a, c, x : Deliver(t, a, c, x)
      BY <2>7 DEF PopFree
    <3> QED BY <3>1, <3>2, DeliverQuiet, QuietStep
  <2>8. CASE Grow(t)
    <3>1. new' = new /\ old' = old /\ waitState' = waitState
      BY <2>8 DEF Grow, dirtyVars
    <3>2. pc' = pc \/ \E a, c, x : Deliver(t, a, c, x)
      BY <2>8 DEF Grow
    <3> QED BY <3>1, <3>2, DeliverQuiet, QuietStep
  <2>9. CASE Copy(t) \/ Refill(t)
    <3>1. \E a, c : GiveBack(t, a, c)
      BY <2>9 DEF Copy, Refill, Exchange
    <3> QED BY <3>1, GiveBackQuiet
  <2>10. CASE Unmap(t) \/ Remap(t)
    <3>1. new' = new /\ old' = old /\ waitState' = waitState
      BY <2>10 DEF Unmap, Remap, dirtyVars
    <3>2. \E to : pc' = [pc EXCEPT ![t] = to]
      BY <2>10 DEF Unmap, Remap, At
    <3> QED BY <3>1, <3>2, JanitorStays, QuietStep
  <2> QED
    BY <1>1, <2>1, <2>2, <2>3, <2>4, <2>5, <2>6, <2>7, <2>8, <2>9, <2>10 DEF Call, InCall
<1>2. ASSUME JanitorStep PROVE WaitingIsClean'
  <2>0. Janitor \in Procs /\ pc \in [Procs -> ThreadPoints \cup JanitorPoints]
    BY DEF Inv, ProcsOK, Procs
  <2>1. CASE Push(Janitor, "push", "fetch") \/ Fetch \/ Late \/ NapEnds
    <3>1. waitState # 1
      BY <2>1 DEF Push, Fetch, Late, NapEnds, WaitingIsClean
    <3>2. waitState' = waitState
      BY <2>1 DEF Push, Fetch, Late, NapEnds
    <3> QED BY <3>1, <3>2 DEF WaitingIsClean
  <2>2. CASE Age
    <3>1. pc'[Janitor] = "look" /\ old = <<>>
      BY <2>0, <2>2 DEF Age, At, Inv, AgedOK
    <3>2. CASE new = <<>>
      <4>1. new' = <<>> /\ old' = <<>>
        BY <2>2, <3>1, <3>2 DEF Age
      <4> QED BY <3>1, <4>1 DEF WaitingIsClean, Queued, ToSet
    <3>3. CASE new # <<>>
      <4>1. waitState' = waitState /\ waitState # 1
        BY <2>2, <3>3 DEF Age, WaitingIsClean
      <4> QED BY <4>1 DEF WaitingIsClean
    <3> QED BY <3>2, <3>3
  <2>3. CASE Look
    <3>1. /\ waitState' = waitState /\ new' = new /\ old' = old
          /\ waitState = 1 => pc'[Janitor] = "asleep"
      BY <2>0, <2>3 DEF Look, At, dirtyVars
    <3> QED BY <3>1 DEF WaitingIsClean, Queued
  <2> QED BY <1>2, <2>1, <2>2, <2>3 DEF JanitorStep
<1>3. ASSUME UNCHANGED vars PROVE WaitingIsClean'
  BY <1>3 DEF vars, dirtyVars, WaitingIsClean, Queued
<1> QED
  BY <1>1, <1>2, <1>3 DEF Next, Ended

\* What the wait state promises vm_wait_for_janitor and the janitor's sleep is so: all the
\* memory that was given back has been returned to the system.
THEOREM WaitingMeansClean ==
    ASSUME ~HolesTaken
    PROVE  Spec => []WaitingIsClean
<1>1. Init => Inv /\ InSpace /\ WaitingIsClean
  <2>1. Init => WaitingIsClean
    BY DEF Init, WaitingIsClean
  <2> QED BY <2>1, InitHolds
<1>2. Inv /\ InSpace /\ WaitingIsClean /\ [Next]_vars => (Inv /\ InSpace /\ WaitingIsClean)'
  BY NextInv, NextClean
<1> QED
  BY <1>1, <1>2, PTL DEF Spec

\* What a caller holds is available to it alone.
THEOREM MemoryIsTheCallers ==
    ASSUME ~HolesTaken
    PROVE  Spec => []MemoryIsAvailable
<1>1. Inv => MemoryIsAvailable
  <2> SUFFICES ASSUME Inv, NEW a \in DOMAIN owned, NEW b \in DOMAIN owned, a # b
               PROVE  Span(a, owned[a]) \cap Span(b, owned[b]) = {}
    BY DEF MemoryIsAvailable
  <2>1. Apart(OwnedParts(owned))
    <3>1. Janitor \in Procs
      BY DEF Procs
    <3> QED BY <3>1, OwnedApart
  <2> DEFINE x == Part(<<"owned">>, a, owned[a])
             y == Part(<<"owned">>, b, owned[b])
  <2>2. x \in OwnedParts(owned) /\ y \in OwnedParts(owned)
    BY OwnedIs
  <2>3. x # y /\ LinesOf(x) = Span(a, owned[a]) /\ LinesOf(y) = Span(b, owned[b])
    BY PartIs
  <2> QED BY <2>1, <2>2, <2>3 DEF Apart
<1>2. Inv /\ InSpace /\ [Next]_vars => (Inv /\ InSpace)'
  BY NextInv
<1> QED
  BY <1>1, <1>2, InitHolds, PTL DEF Spec

\* The lines that callers hold, in the abstract specification.
LEMMA CoveredIs ==
    ASSUME NEW f, NEW l
    PROVE  l \in Alloc!Covered(f) <=> \E b \in DOMAIN f : l \in Span(b, f[b])
BY AllocSpan DEF Alloc!Covered

\* A chunk that a caller has after a step is granted to it.
LEMMA GrantStep ==
    ASSUME Inv', InSpace', NEW f, NEW a, NEW c, a \notin DOMAIN f,
           owned' = [b \in DOMAIN f \cup {a} |-> IF b = a THEN c ELSE f[b]]
    PROVE  Alloc!Grant(f, a, c) /\ a \in 0 .. Lines - 1 /\ c \in 1 .. MaxClass
<1> DEFINE x == Part(<<"owned">>, a, c)
<1>1. a \in DOMAIN owned' /\ owned'[a] = c /\ \A b \in DOMAIN f : b \in DOMAIN owned' /\ owned'[b] = f[b]
  OBVIOUS
<1>2. Apart(OwnedParts(owned')) /\ LinesOfAll(OwnedParts(owned')) \subseteq 0 .. Lines - 1
  <2>1. (mapped \cup HoleOf(pc, hand, moving, owned))' \subseteq 0 .. Lines - 1
    BY DEF InSpace
  <2> DEFINE S == PoolParts(ThePool') \cup OwnedParts(owned') \cup DirtyParts(<<"new">>, new')
                      \cup DirtyParts(<<"old">>, old') \cup HandParts(pc', hand')
  <2>2. Account(S, lost', mapped' \cup HoleOf(pc', hand', moving', owned'))
    BY DEF Inv, Books
  <2>3. OwnedParts(owned') \subseteq S
    OBVIOUS
  <2> HIDE DEF S
  <2> QED BY <2>1, <2>2, <2>3 DEF Account, Apart, LinesOfAll
<1>3. c \in Classes /\ a \in Nat /\ c \in Pos
  BY <1>1, SizesAre DEF Inv, OwnedOK
<1>4. x \in OwnedParts(owned') /\ LinesOf(x) = Span(a, c) /\ a \in Span(a, c)
  BY <1>1, <1>3, OwnedIs, PartIs, SpanHas
<1>5. ASSUME NEW l \in Span(a, c), l \in Alloc!Covered(f) PROVE FALSE
  <2>1. PICK b \in DOMAIN f : l \in Span(b, f[b])
    BY <1>5, CoveredIs
  <2> DEFINE y == Part(<<"owned">>, b, f[b])
  <2>2. y \in OwnedParts(owned') /\ LinesOf(y) = Span(b, f[b]) /\ y.at = b /\ x.at = a
    BY <1>1, OwnedIs, PartIs
  <2>3. x # y
    BY <2>2
  <2>4. l \in LinesOf(x) /\ l \in LinesOf(y)
    BY <1>4, <2>1, <2>2
  <2> HIDE DEF x, y
  <2>5. LinesOf(x) \cap LinesOf(y) = {}
    BY <1>2, <1>4, <2>2, <2>3 DEF Apart
  <2> QED BY <2>4, <2>5
<1>6. Span(a, c) \cap Alloc!Covered(f) = {}
  BY <1>5
<1>7. a \in 0 .. Lines - 1
  BY <1>2, <1>4 DEF LinesOfAll
<1>8. Alloc!Grant(f, a, c)
  <2>1. Alloc!Span(a, c) \cap Alloc!Covered(f) = {}
    BY <1>6, AllocSpan
  <2> QED BY <2>1 DEF Alloc!Grant
<1> QED
  BY <1>3, <1>7, <1>8 DEF Classes

\* A reservation, or nothing yet.
LEMMA DeliverAlloc ==
    ASSUME Inv, Inv', InSpace', NEW t \in Threads, NEW a, NEW c, NEW x, a \notin DOMAIN owned,
           Deliver(t, a, c, x)
    PROVE  Alloc!Next \/ UNCHANGED owned
<1>1. CASE owned' = owned
  BY <1>1
<1>2. CASE owned' = [b \in DOMAIN owned \cup {a} |-> IF b = a THEN c ELSE owned[b]]
  <2>1. Alloc!Grant(owned, a, c) /\ a \in 0 .. Lines - 1 /\ c \in 1 .. MaxClass
    BY <1>2, GrantStep
  <2> QED BY <2>1 DEF Alloc!Next, Alloc!Reserve
<1> QED
  BY <1>1, <1>2 DEF Deliver

\* No caller has the chunk that is first in a list.
LEMMA HeadsNotOwned ==
    ASSUME Inv, NEW k \in Classes
    PROVE  /\ sizes[k] # <<>> => Head(sizes[k]) \notin DOMAIN owned
           /\ free[k] # <<>> => Head(free[k]) \notin DOMAIN owned
<1>1. ASSUME sizes[k] # <<>> PROVE Head(sizes[k]) \notin DOMAIN owned
  <2>1. ToSet(sizes[k]) = {d.at : d \in {x \in Queued : x.class = k}} /\ sizes[k] \in Seq(Nat)
    BY DEF Inv, DirtyOK, Queued, Lists
  <2>2. Head(sizes[k]) \in ToSet(sizes[k])
    BY <1>1, <2>1 DEF ToSet
  <2>3. PICK d \in Queued : d.at = Head(sizes[k])
    BY <2>1, <2>2
  <2> QED BY <2>3, DirtyOnly
<1>2. ASSUME free[k] # <<>> PROVE Head(free[k]) \notin DOMAIN owned
  <2> DEFINE x == Part(<<"free">>, Head(free[k]), k)
  <2>1. free \in Lists /\ indexPages \in SUBSET Nat
    BY DEF Inv, PoolOK, PoolType, ThePool
  <2>2. Head(free[k]) \in ToSet(free[k])
    <3>1. free[k] \in Seq(Nat)
      BY <2>1 DEF Lists
    <3> QED BY <1>2, <3>1 DEF ToSet
  <2>3. x \in FreeParts(free)
    BY <2>2, FreePartsIs
  <2>4. IsPart(x) /\ x \in PoolParts(ThePool) /\ x.at = Head(free[k])
    <3>1. IsPart(x)
      BY <2>1, <2>3, PoolPartsArePart
    <3>2. x \in PoolParts(ThePool)
      BY <2>3 DEF PoolParts, ThePool
    <3> QED BY <3>1, <3>2, PartIs
  <2>5. Head(free[k]) \in LinesOf(x)
    BY <2>4, PartHas
  <2>6. Head(free[k]) \in LinesOfAll(PoolParts(ThePool))
    BY <2>4, <2>5 DEF LinesOfAll
  <2> QED BY <2>6, NotOwned
<1> QED
  BY <1>1, <1>2

\* The sections that reserve: a chunk is granted, or the callers' chunks stay.
LEMMA ReserveAlloc ==
    ASSUME ~HolesTaken, Inv, Inv', InSpace', NEW t \in Threads,
           Reserve(t) \/ Expand(t) \/ PopFree(t) \/ Grow(t)
    PROVE  Alloc!Next \/ UNCHANGED owned
<1>0. hand[t].class \in Classes /\ Requests \subseteq Classes
  <2>1. t \in Procs
    BY DEF Procs
  <2> QED BY <2>1, VMAssumption DEF Inv, ProcsOK, Classes
<1>1. ASSUME NEW c \in Classes, NEW x, PopDirty(t, c, x) PROVE Alloc!Next \/ UNCHANGED owned
  <2>1. CASE c >= PageClass /\ sizes[c] # <<>>
    <3>1. Deliver(t, Head(sizes[c]), c, x)
      BY <1>1, <2>1 DEF PopDirty
    <3>2. Head(sizes[c]) \notin DOMAIN owned
      BY <2>1, HeadsNotOwned
    <3> QED BY <3>1, <3>2, DeliverAlloc
  <2>2. CASE ~(c >= PageClass /\ sizes[c] # <<>>)
    BY <1>1, <2>2 DEF PopDirty
  <2> QED BY <2>1, <2>2
<1>2. CASE Reserve(t)
  <2>1. \E c \in Requests : PopDirty(t, c, FALSE)
    BY <1>2 DEF Reserve
  <2> QED BY <1>0, <1>1, <2>1
<1>3. CASE Expand(t)
  <2>1. \E c \in Requests : PopDirty(t, c, TRUE)
    BY <1>3 DEF Expand
  <2> QED BY <1>0, <1>1, <2>1
<1>4. CASE PopFree(t)
  <2> DEFINE c == hand[t].class
             d == Fitting(c)
  <2>1. d # 0 /\ Deliver(t, Head(free[d]), c, moving[t] # Nowhere)
    BY <1>4 DEF PopFree
  <2>2. d \in Classes /\ free[d] # <<>>
    BY <1>0, <2>1, FittingIs
  <2>3. Head(free[d]) \notin DOMAIN owned
    BY <2>2, HeadsNotOwned
  <2> HIDE DEF c, d
  <2> QED BY <2>1, <2>3, DeliverAlloc
<1>5. CASE Grow(t)
  <2> DEFINE c == hand[t].class
             n == LinesIn(GrowClass(c))
             a == Max(Places(n))
  <2>1. CASE Places(n) # {}
    <3>1. Deliver(t, a, c, moving[t] # Nowhere)
      BY <1>5, <2>1 DEF Grow
    <3>2. n \in Pos
      <4>1. end \in Nat /\ c \in Nat
        BY <1>0, SizesAre DEF Inv
      <4>2. GrowClass(c) \in Pos
        BY <4>1 DEF GrowClass, Pos
      <4> QED BY <4>2, LinesInIs
    <3> HIDE DEF c, n
    <3>3. a \in 0 .. Lines - n /\ (a .. a + n - 1) \cap (mapped \cup Hole) = {}
      BY <2>1, <3>2, PlacesAre
    <3> HIDE DEF a
    <3>4. a \in a .. a + n - 1
      BY <3>2, <3>3, SizesAre DEF Pos
    <3>5. a \notin mapped \cup HoleOf(pc, hand, moving, owned)
      BY <3>3, <3>4 DEF Hole, HoleOf
    <3>6. a \notin DOMAIN owned
      BY <3>5, NotOwned
    <3> QED BY <3>1, <3>6, DeliverAlloc
  <2>2. CASE Places(n) = {}
    BY <1>5, <2>2 DEF Grow
  <2> QED BY <2>1, <2>2
<1> QED
  BY <1>2, <1>3, <1>4, <1>5

\* A chunk is exchanged for one of another size that has no line in common with it, or for
\* its own first part.
LEMMA ExchangeStep ==
    ASSUME Inv, Inv', InSpace', NEW b \in DOMAIN owned, NEW a, NEW c, c # owned[b],
           a \notin DOMAIN owned \ {b},
           owned' = [k \in (DOMAIN owned \ {b}) \cup {a} |-> IF k = a THEN c ELSE owned[k]],
           a # b => Span(a, c) \cap Span(b, owned[b]) = {}
    PROVE  Alloc!Next
<1> DEFINE rest == Restrict(owned, DOMAIN owned \ {b})
<1>1. rest = [k \in DOMAIN owned \ {b} |-> owned[k]]
  BY DEF Restrict
<1>2. DOMAIN rest = DOMAIN owned \ {b} /\ \A k \in DOMAIN rest : rest[k] = owned[k]
  BY <1>1
<1>3. rest = Alloc!Without(b)
  BY DEF Alloc!Without, Alloc!Restrict, Restrict
<1> HIDE DEF rest
<1>4. owned' = [k \in DOMAIN rest \cup {a} |-> IF k = a THEN c ELSE rest[k]] /\ a \notin DOMAIN rest
  BY <1>2
<1>5. Alloc!Grant(rest, a, c) /\ a \in 0 .. Lines - 1 /\ c \in 1 .. MaxClass
  BY <1>4, GrantStep
<1>6. a # b => Alloc!Span(a, c) \cap Alloc!Span(b, owned[b]) = {}
  BY AllocSpan
<1>7. Alloc!Exchange
  BY <1>3, <1>5, <1>6 DEF Alloc!Exchange
<1> QED
  BY <1>7 DEF Alloc!Next

\* The ends of a reallocation.
LEMMA ReallocAlloc ==
    ASSUME Inv, Inv', InSpace', NEW t \in Threads, Copy(t) \/ Refill(t) \/ Shrink(t)
    PROVE  Alloc!Next
<1>1. CASE Copy(t) \/ Refill(t)
  <2> DEFINE b == moving[t]
             a == hand[t].at
             c == hand[t].class
  <2>1. /\ pc[t] \in Reallocating
        /\ owned' = [k \in (DOMAIN owned \ {b}) \cup {a} |-> IF k = a THEN c ELSE owned[k]]
    BY <1>1 DEF Copy, Refill, Exchange, Reallocating
  <2>2. b \in DOMAIN owned /\ c > owned[b] /\ c \in Nat /\ owned[b] \in Nat
        /\ a \in Nat /\ c \in Classes /\ t \in Procs /\ OwnedOK(owned)
    BY <2>1, SizesAre DEF Inv, MovingOK, Reallocating, Holding, ProcsOK, OwnedOK, Procs
  <2> DEFINE y == Part(<<"hand", t>>, a, c)
  <2>3. y \in HandOf(pc, hand, t) /\ LinesOf(y) = Span(a, c) /\ a \in Span(a, c)
    BY <2>1, <2>2, PartIs, SpanHas, SizesAre DEF HandOf, Holding, Reallocating
  <2>4. LinesOfAll(OwnedParts(owned)) \cap LinesOfAll(HandOf(pc, hand, t)) = {}
    BY <2>2, OwnedApart
  <2> HIDE DEF y, a, b, c
  <2>5. ASSUME NEW k \in DOMAIN owned PROVE Span(a, c) \cap Span(k, owned[k]) = {} /\ k # a
    <3> DEFINE x == Part(<<"owned">>, k, owned[k])
    <3>1. x \in OwnedParts(owned) /\ LinesOf(x) = Span(k, owned[k])
      BY OwnedIs, PartIs
    <3>2. k \in Span(k, owned[k])
      BY <2>2, SpanHas, SizesAre DEF OwnedOK
    <3> HIDE DEF x
    <3>3. LinesOf(x) \cap LinesOf(y) = {}
      BY <2>3, <2>4, <3>1 DEF LinesOfAll
    <3> QED BY <2>3, <3>1, <3>2, <3>3
  <2>6. c # owned[b] /\ a \notin DOMAIN owned \ {b} /\ Span(a, c) \cap Span(b, owned[b]) = {}
    BY <2>2, <2>5
  <2> QED BY <2>1, <2>2, <2>6, ExchangeStep
<1>2. CASE Shrink(t)
  <2>1. PICK b \in Settled : \E n \in 1 .. MaxShrink :
            owned[b] - n > 0 /\ owned' = [owned EXCEPT ![b] = owned[b] - n]
    BY <1>2 DEF Shrink
  <2>2. PICK n \in 1 .. MaxShrink : owned' = [owned EXCEPT ![b] = owned[b] - n]
    BY <2>1
  <2> DEFINE c == owned[b] - n
  <2>3. b \in DOMAIN owned /\ c # owned[b] /\ owned = [k \in DOMAIN owned |-> owned[k]]
    <3>1. owned[b] \in Nat /\ b \in DOMAIN owned /\ n \in Nat /\ n > 0
      BY SizesAre, VMAssumption DEF Settled, Inv, OwnedOK
    <3> QED BY <3>1 DEF Inv, OwnedOK
  <2>4. owned' = [owned EXCEPT ![b] = c]
    BY <2>2
  <2> HIDE DEF c
  <2>5. owned' = [k \in (DOMAIN owned \ {b}) \cup {b} |-> IF k = b THEN c ELSE owned[k]]
    BY <2>3, <2>4
  <2>6. b \notin DOMAIN owned \ {b}
    OBVIOUS
  <2> QED BY <2>3, <2>5, <2>6, ExchangeStep
<1> QED
  BY <1>1, <1>2

\* A step of the allocator is one of VMAlloc, or changes nothing that callers see.
LEMMA NextAlloc ==
    ASSUME ~HolesTaken, Inv, Inv', InSpace', [Next]_vars
    PROVE  Alloc!Next \/ UNCHANGED owned
<1>1. ASSUME NEW t \in Threads, Call(t) \/ InCall(t) PROVE Alloc!Next \/ UNCHANGED owned
  <2>1. CASE Reserve(t) \/ Expand(t) \/ PopFree(t) \/ Grow(t)
    BY <2>1, ReserveAlloc
  <2>2. CASE Copy(t) \/ Refill(t) \/ Shrink(t)
    BY <2>2, ReallocAlloc
  <2>3. CASE Unreserve(t)
    <3>1. PICK a \in DOMAIN owned : owned' = Restrict(owned, DOMAIN owned \ {a})
      BY <2>3 DEF Unreserve, Settled
    <3>2. Alloc!Unreserve
      BY <3>1 DEF Alloc!Unreserve, Alloc!Without, Alloc!Restrict, Restrict
    <3> QED BY <3>2 DEF Alloc!Next
  <2>4. CASE \/ BeginWait(t) \/ TestWait(t) \/ ForceJanitor(t) \/ Push(t, "give", "idle")
             \/ Unmap(t) \/ Remap(t)
    BY <2>4 DEF BeginWait, TestWait, ForceJanitor, Push, Unmap, Remap, callVars
  <2> QED BY <1>1, <2>1, <2>2, <2>3, <2>4 DEF Call, InCall
<1>2. ASSUME JanitorStep PROVE UNCHANGED owned
  BY <1>2 DEF JanitorStep, Push, Fetch, Age, Look, Late, NapEnds, janitorOnly, callVars
<1>3. ASSUME UNCHANGED vars PROVE UNCHANGED owned
  BY <1>3 DEF vars, callVars
<1> QED
  BY <1>1, <1>2, <1>3 DEF Next, Ended

\* The allocator keeps the promise of VMAlloc, step by step.
THEOREM KeepsTheAllocatorsPromise ==
    ASSUME ~HolesTaken
    PROVE  Spec => ImplementsVMAlloc
<1>1. Init => Alloc!Init
  BY DEF Init, Alloc!Init
<1>2. Inv /\ InSpace /\ [Next]_vars => (Inv /\ InSpace)'
  BY NextInv
<1>3. Inv /\ Inv' /\ InSpace' /\ [Next]_vars => [Alloc!Next]_owned
  BY NextAlloc
<1> QED
  BY <1>1, <1>2, <1>3, InitHolds, PTL DEF Spec, ImplementsVMAlloc, Alloc!Spec
=============================================================================
