---------------------------- MODULE FiberHeapProofs ----------------------------
(***************************************************************************)
(* Proofs about the heaps of a fiber of FiberHeap, for any number of heaps *)
(* and allocations and blocks of any depth.                                *)
(*                                                                         *)
(* HeapsOwnedOnce is not inductive.  That the heap of a released handle is *)
(* no heap of a block that still runs, nor one that is being released      *)
(* already, takes a picture of who ends with whom: Edges has a pair        *)
(* <<g, h>> for each allocation of heap g that is a handle of heap h, and  *)
(* to release g releases h.  FiberInv says of every running state that     *)
(*   - "own" gives each heap its one owner, and each kind of owner has     *)
(*     just the heaps that its part of the state names (Base);             *)
(*   - no heap ends with itself (Founded);                                 *)
(*   - an allocation is in the list of its heap or in the batch of the     *)
(*     release that frees it (Listed);                                     *)
(*   - "ctx" names the heap that is current in every block, from the      *)
(*     innermost out; a program may switch to a heap again and again, so   *)
(*     one heap can be there more than once.  The heaps that end with one  *)
(*     made for a block are none of the blocks outside it, those that end  *)
(*     with a heap in release are none of any block, and those that end    *)
(*     with the exception's are none of the blocks outside a try block,    *)
(*     where it can be caught: there is a set closed under Edges that      *)
(*     tells them apart (Running).                                         *)
(* These closed sets stand for reachability, so that no proof follows a    *)
(* path of handles but those about Found, the paths that the model itself  *)
(* looks along when it decides what a program may call.                    *)
(***************************************************************************)
EXTENDS FiberHeap, FiniteSetTheorems, WellFoundedInduction, TLAPS

------------------------------------------------------------------------------
(* Induction on the naturals.                                               *)

Less == {p \in Nat \X Nat : p[1] < p[2]}

\* The naturals are well founded.
LEMMA LessIs == IsWellFoundedOn(Less, Nat)
BY NatLessThanWellFounded DEF OpToRel, Less

\* A set of naturals has a least element: the induction of the proofs below, each about
\* the least counterexample.
LEMMA LeastOf ==
    ASSUME NEW S \in SUBSET Nat, S # {}
    PROVE  \E x \in S : \A y \in S : x <= y
<1>1. PICK x \in S : \A y \in S : ~(<<y, x>> \in Less)
  BY LessIs, WFMin
<1>2. \A y \in S : ~(y < x)
  BY <1>1 DEF Less
<1> QED
  BY <1>2

\* The least of a set of naturals is in it.
LEMMA MinIn ==
    ASSUME NEW S \in SUBSET Nat, S # {}
    PROVE  Min(S) \in S
BY LeastOf DEF Min

------------------------------------------------------------------------------
(* Lists without repetition.                                                *)

\* An element is put last.
LEMMA PutLast ==
    ASSUME NEW T, NEW s \in Seq(T), NEW x \in T
    PROVE  /\ Append(s, x) \in Seq(T)
           /\ ToSet(Append(s, x)) = ToSet(s) \cup {x}
           /\ IsInjective(s) /\ x \notin ToSet(s) => IsInjective(Append(s, x))
<1> DEFINE r == Append(s, x)
<1>1. r \in Seq(T) /\ Len(r) = Len(s) + 1 /\ Len(s) \in Nat
  OBVIOUS
<1>2. r[Len(s) + 1] = x /\ \A i \in 1 .. Len(s) : r[i] = s[i]
  OBVIOUS
<1>3. DOMAIN r = 1 .. Len(s) + 1 /\ DOMAIN s = 1 .. Len(s)
  BY <1>1
<1> HIDE DEF r
<1>4. ToSet(r) = ToSet(s) \cup {x}
  <2>1. ASSUME NEW i \in DOMAIN r PROVE r[i] \in ToSet(s) \cup {x}
    <3>1. i = Len(s) + 1 \/ i \in DOMAIN s
      BY <1>1, <1>3
    <3> QED BY <3>1, <1>2, <1>3 DEF ToSet
  <2>2. ASSUME NEW i \in DOMAIN s PROVE s[i] \in ToSet(r)
    <3>1. i \in DOMAIN r /\ r[i] = s[i]
      BY <1>1, <1>2, <1>3
    <3> QED BY <3>1 DEF ToSet
  <2>3. x \in ToSet(r)
    <3>1. Len(s) + 1 \in DOMAIN r
      BY <1>1, <1>3
    <3> QED BY <3>1, <1>2 DEF ToSet
  <2> QED BY <2>1, <2>2, <2>3 DEF ToSet
<1>5. ASSUME IsInjective(s), x \notin ToSet(s) PROVE IsInjective(r)
  <2> SUFFICES ASSUME NEW i \in DOMAIN r, NEW j \in DOMAIN r, r[i] = r[j], i < j PROVE FALSE
    BY <1>1, <1>3 DEF IsInjective
  <2>1. i \in DOMAIN s /\ r[i] = s[i]
    BY <1>1, <1>2, <1>3
  <2>2. CASE j = Len(s) + 1
    BY <2>1, <2>2, <1>2, <1>5 DEF ToSet
  <2>3. CASE j # Len(s) + 1
    <3>1. j \in DOMAIN s /\ r[j] = s[j] /\ i # j
      BY <1>1, <1>2, <1>3, <2>3
    <3>2. s[i] = s[j]
      BY <2>1, <3>1
    <3> QED BY <2>1, <3>1, <3>2, <1>5 DEF IsInjective
  <2> QED BY <2>2, <2>3
<1> QED
  BY <1>1, <1>4, <1>5 DEF r

\* The element at a place is taken out.
LEMMA TakeOut ==
    ASSUME NEW T, NEW s \in Seq(T), NEW i \in DOMAIN s, IsInjective(s)
    PROVE  /\ RemoveAt(s, i) \in Seq(T)
           /\ ToSet(RemoveAt(s, i)) = ToSet(s) \ {s[i]}
           /\ IsInjective(RemoveAt(s, i))
<1> DEFINE r == RemoveAt(s, i)
<1>1. i \in 1 .. Len(s) /\ Len(s) \in Nat /\ DOMAIN s = 1 .. Len(s)
  OBVIOUS
<1>2. /\ r \in Seq(T) /\ Len(r) = Len(s) - 1
      /\ \A k \in 1 .. Len(s) - 1 : r[k] = IF k < i THEN s[k] ELSE s[k + 1]
  <2> DEFINE p == SubSeq(s, 1, i - 1)
             q == SubSeq(s, i + 1, Len(s))
  <2>1. p \in Seq(T) /\ Len(p) = i - 1 /\ \A k \in 1 .. i - 1 : p[k] = s[k]
    BY <1>1
  <2>2. q \in Seq(T) /\ Len(q) = Len(s) - i /\ \A k \in 1 .. Len(s) - i : q[k] = s[i + k]
    BY <1>1
  <2>3. r = p \o q
    BY DEF RemoveAt
  <2> HIDE DEF p, q, r
  <2>4. r \in Seq(T) /\ Len(r) = Len(s) - 1
    <3>1. p \in Seq(T) /\ q \in Seq(T)
      BY <2>1, <2>2
    <3>2. p \o q \in Seq(T) /\ Len(p \o q) = Len(p) + Len(q)
      BY <3>1
    <3>3. Len(p) + Len(q) = Len(s) - 1
      BY <1>1, <2>1, <2>2
    <3> QED BY <2>3, <3>2, <3>3
  <2>5. ASSUME NEW k \in 1 .. Len(s) - 1 PROVE r[k] = IF k < i THEN s[k] ELSE s[k + 1]
    <3>1. CASE k < i
      <4>1. k \in 1 .. i - 1 /\ k \in 1 .. Len(p)
        BY <1>1, <2>1, <3>1
      <4>2. r[k] = p[k]
        BY <2>1, <2>2, <2>3, <4>1
      <4> QED BY <2>1, <3>1, <4>1, <4>2
    <3>2. CASE ~(k < i)
      <4>1. k - (i - 1) \in 1 .. Len(s) - i /\ i + (k - (i - 1)) = k + 1
        BY <1>1, <3>2
      <4>2. r[k] = q[k - (i - 1)]
        BY <1>1, <2>1, <2>2, <2>3, <3>2
      <4> QED BY <2>2, <3>2, <4>1, <4>2
    <3> QED BY <3>1, <3>2
  <2> QED BY <2>4, <2>5
<1>3. DOMAIN r = 1 .. Len(s) - 1
  BY <1>2
<1> HIDE DEF r
<1>4. ASSUME NEW k \in DOMAIN r
      PROVE  \E j \in DOMAIN s : j # i /\ r[k] = s[j] /\ j = IF k < i THEN k ELSE k + 1
  <2>1. CASE k < i
    BY <1>1, <1>2, <1>3, <2>1
  <2>2. CASE ~(k < i)
    <3>1. k + 1 \in DOMAIN s /\ k + 1 # i /\ r[k] = s[k + 1]
      BY <1>1, <1>2, <1>3, <2>2
    <3> QED BY <3>1, <2>2
  <2> QED BY <2>1, <2>2
<1>5. ASSUME NEW j \in DOMAIN s, j # i PROVE s[j] \in ToSet(r)
  <2>1. CASE j < i
    <3>1. j \in DOMAIN r /\ r[j] = s[j]
      BY <1>1, <1>2, <1>3, <2>1
    <3> QED BY <3>1 DEF ToSet
  <2>2. CASE i < j
    <3>1. j - 1 \in 1 .. Len(s) - 1 /\ ~(j - 1 < i) /\ (j - 1) + 1 = j
      BY <1>1, <2>2
    <3>2. j - 1 \in DOMAIN r /\ r[j - 1] = s[j]
      BY <1>2, <1>3, <3>1
    <3> QED BY <3>2 DEF ToSet
  <2> QED BY <1>1, <1>5, <2>1, <2>2
<1>6. ToSet(r) = ToSet(s) \ {s[i]}
  <2>1. ASSUME NEW k \in DOMAIN r PROVE r[k] \in ToSet(s) \ {s[i]}
    BY <1>4 DEF ToSet, IsInjective
  <2>2. ASSUME NEW x \in ToSet(s) \ {s[i]} PROVE x \in ToSet(r)
    <3>1. PICK j \in DOMAIN s : x = s[j]
      BY DEF ToSet
    <3> QED BY <3>1, <1>5
  <2> QED BY <2>1, <2>2 DEF ToSet
<1>7. IsInjective(r)
  <2> SUFFICES ASSUME NEW k \in DOMAIN r, NEW l \in DOMAIN r, r[k] = r[l] PROVE k = l
    BY DEF IsInjective
  <2>1. PICK j \in DOMAIN s : r[k] = s[j] /\ j = IF k < i THEN k ELSE k + 1
    BY <1>4
  <2>2. PICK m \in DOMAIN s : r[l] = s[m] /\ m = IF l < i THEN l ELSE l + 1
    BY <1>4
  <2>3. j = m
    BY <2>1, <2>2 DEF IsInjective
  <2>4. k \in Nat /\ l \in Nat /\ i \in Nat
    BY <1>1, <1>3
  <2> QED BY <2>1, <2>2, <2>3, <2>4
<1> QED
  BY <1>2, <1>6, <1>7 DEF r

\* The first element is taken out.
LEMMA TakeFirst ==
    ASSUME NEW T, NEW s \in Seq(T), s # <<>>, IsInjective(s)
    PROVE  /\ Tail(s) \in Seq(T) /\ Head(s) \in T /\ Head(s) \in ToSet(s)
           /\ ToSet(Tail(s)) = ToSet(s) \ {Head(s)}
           /\ IsInjective(Tail(s))
<1> DEFINE r == Tail(s)
<1>1. r \in Seq(T) /\ Head(s) \in T /\ Head(s) = s[1] /\ Len(s) \in Nat /\ Len(s) >= 1
  OBVIOUS
<1>2. Len(r) = Len(s) - 1 /\ \A k \in 1 .. Len(s) - 1 : r[k] = s[k + 1]
  OBVIOUS
<1>3. DOMAIN r = 1 .. Len(s) - 1 /\ DOMAIN s = 1 .. Len(s)
  BY <1>1, <1>2
<1> HIDE DEF r
<1>4. ToSet(r) = ToSet(s) \ {s[1]}
  <2>1. ASSUME NEW k \in DOMAIN r PROVE r[k] \in ToSet(s) \ {s[1]}
    <3>1. k + 1 \in DOMAIN s /\ 1 \in DOMAIN s /\ k + 1 # 1 /\ r[k] = s[k + 1]
      BY <1>1, <1>2, <1>3
    <3> QED BY <3>1 DEF ToSet, IsInjective
  <2>2. ASSUME NEW x \in ToSet(s) \ {s[1]} PROVE x \in ToSet(r)
    <3>1. PICK j \in DOMAIN s : x = s[j]
      BY DEF ToSet
    <3>2. j - 1 \in DOMAIN r /\ (j - 1) + 1 = j
      BY <3>1, <1>1, <1>3
    <3>3. r[j - 1] = s[j]
      BY <3>2, <1>2, <1>3
    <3> QED BY <3>1, <3>2, <3>3 DEF ToSet
  <2> QED BY <2>1, <2>2 DEF ToSet
<1>5. IsInjective(r)
  <2> SUFFICES ASSUME NEW k \in DOMAIN r, NEW l \in DOMAIN r, r[k] = r[l] PROVE k = l
    BY DEF IsInjective
  <2>1. k + 1 \in DOMAIN s /\ l + 1 \in DOMAIN s /\ s[k + 1] = s[l + 1]
    BY <1>1, <1>2, <1>3
  <2>2. k + 1 = l + 1
    BY <2>1 DEF IsInjective
  <2> QED BY <1>3, <2>2
<1>6. s[1] \in ToSet(s)
  BY <1>1, <1>3 DEF ToSet
<1> QED
  BY <1>1, <1>4, <1>5, <1>6 DEF r

\* An element is taken out.
LEMMA UnlistedIs ==
    ASSUME NEW T, NEW s \in Seq(T), IsInjective(s), NEW a \in ToSet(s)
    PROVE  /\ Unlisted(s, a) \in Seq(T) /\ IsInjective(Unlisted(s, a))
           /\ ToSet(Unlisted(s, a)) = ToSet(s) \ {a}
<1> DEFINE i == CHOOSE k \in DOMAIN s : s[k] = a
<1>1. i \in DOMAIN s /\ s[i] = a
  BY DEF ToSet
<1>2. Unlisted(s, a) = RemoveAt(s, i)
  BY DEF Unlisted
<1> HIDE DEF i
<1>3. /\ RemoveAt(s, i) \in Seq(T)
      /\ ToSet(RemoveAt(s, i)) = ToSet(s) \ {s[i]}
      /\ IsInjective(RemoveAt(s, i))
  BY <1>1, TakeOut
<1> QED
  BY <1>1, <1>2, <1>3

\* Two lists without a common element are joined.
LEMMA Joined ==
    ASSUME NEW T, NEW s \in Seq(T), NEW t \in Seq(T), IsInjective(s), IsInjective(t),
           ToSet(s) \cap ToSet(t) = {}
    PROVE  /\ s \o t \in Seq(T) /\ IsInjective(s \o t)
           /\ ToSet(s \o t) = ToSet(s) \cup ToSet(t)
<1> DEFINE r == s \o t
<1>1. r \in Seq(T) /\ Len(r) = Len(s) + Len(t) /\ Len(s) \in Nat /\ Len(t) \in Nat
  OBVIOUS
<1>2. /\ \A k \in 1 .. Len(s) : r[k] = s[k]
      /\ \A k \in 1 .. Len(t) : r[Len(s) + k] = t[k]
  OBVIOUS
<1>3. DOMAIN r = 1 .. Len(s) + Len(t) /\ DOMAIN s = 1 .. Len(s) /\ DOMAIN t = 1 .. Len(t)
  BY <1>1
<1> HIDE DEF r
<1>4. ASSUME NEW k \in DOMAIN r
      PROVE  \/ k \in DOMAIN s /\ r[k] = s[k]
             \/ k > Len(s) /\ k - Len(s) \in DOMAIN t /\ r[k] = t[k - Len(s)]
  <2>1. CASE k <= Len(s)
    BY <1>1, <1>2, <1>3, <2>1
  <2>2. CASE k > Len(s)
    <3>1. k - Len(s) \in 1 .. Len(t) /\ Len(s) + (k - Len(s)) = k
      BY <1>1, <1>3, <2>2
    <3>2. r[k] = t[k - Len(s)]
      BY <1>2, <3>1
    <3> QED BY <1>3, <2>2, <3>1, <3>2
  <2> QED BY <1>1, <1>3, <2>1, <2>2
<1>5. ToSet(r) = ToSet(s) \cup ToSet(t)
  <2>1. ASSUME NEW k \in DOMAIN r PROVE r[k] \in ToSet(s) \cup ToSet(t)
    BY <1>4 DEF ToSet
  <2>2. ASSUME NEW k \in DOMAIN s PROVE s[k] \in ToSet(r)
    <3>1. k \in DOMAIN r /\ r[k] = s[k]
      BY <1>1, <1>2, <1>3
    <3> QED BY <3>1 DEF ToSet
  <2>3. ASSUME NEW k \in DOMAIN t PROVE t[k] \in ToSet(r)
    <3>1. Len(s) + k \in DOMAIN r /\ r[Len(s) + k] = t[k]
      BY <1>1, <1>2, <1>3
    <3> QED BY <3>1 DEF ToSet
  <2> QED BY <2>1, <2>2, <2>3 DEF ToSet
<1>6. IsInjective(r)
  <2> SUFFICES ASSUME NEW k \in DOMAIN r, NEW l \in DOMAIN r, r[k] = r[l] PROVE k = l
    BY DEF IsInjective
  <2>1. k \in Nat /\ l \in Nat
    BY <1>3
  <2>2. CASE k \in DOMAIN s /\ r[k] = s[k]
    <3>1. CASE l \in DOMAIN s /\ r[l] = s[l]
      BY <2>2, <3>1 DEF IsInjective
    <3>2. CASE l > Len(s) /\ l - Len(s) \in DOMAIN t /\ r[l] = t[l - Len(s)]
      BY <2>2, <3>2 DEF ToSet
    <3> QED BY <1>4, <3>1, <3>2
  <2>3. CASE k > Len(s) /\ k - Len(s) \in DOMAIN t /\ r[k] = t[k - Len(s)]
    <3>1. CASE l \in DOMAIN s /\ r[l] = s[l]
      BY <2>3, <3>1 DEF ToSet
    <3>2. CASE l > Len(s) /\ l - Len(s) \in DOMAIN t /\ r[l] = t[l - Len(s)]
      <4>1. k - Len(s) = l - Len(s)
        BY <2>3, <3>2 DEF IsInjective
      <4> QED BY <2>1, <1>1, <4>1
    <3> QED BY <1>4, <3>1, <3>2
  <2> QED BY <1>4, <2>2, <2>3
<1> QED
  BY <1>1, <1>5, <1>6 DEF r

------------------------------------------------------------------------------
(* What is found along pairs of heaps.                                      *)

Grown(S, pairs) == S \cup {e[2] : e \in {d \in pairs : d[1] \in S}}

\* f is what is found from "starts" in up to n steps.
StepsTo(n, f, starts, pairs) ==
    /\ f \in [0 .. n -> SUBSET (Heaps \cup {0})] /\ f[0] = starts
    /\ \A i \in 1 .. n : f[i] = Grown(f[i - 1], pairs)

\* There is such a function for every n.
LEMMA StepsExist ==
    ASSUME NEW starts \in SUBSET Heaps, NEW pairs \in SUBSET (Heaps \X (Heaps \cup {0}))
    PROVE  \A n \in Nat : \E f : StepsTo(n, f, starts, pairs)
<1> DEFINE S == {n \in Nat : ~\E f : StepsTo(n, f, starts, pairs)}
<1> SUFFICES ASSUME S # {} PROVE FALSE
  OBVIOUS
<1>1. PICK n \in S : \A m \in S : n <= m
  <2>1. S \in SUBSET Nat
    OBVIOUS
  <2> QED BY <2>1, LeastOf
<1>2. CASE n = 0
  <2> DEFINE f == [i \in 0 .. 0 |-> starts]
  <2>1. StepsTo(0, f, starts, pairs)
    BY DEF StepsTo
  <2> QED BY <1>2, <2>1
<1>3. CASE n # 0
  <2>1. n - 1 \in Nat /\ n - 1 \notin S
    BY <1>1, <1>3
  <2>2. PICK f : StepsTo(n - 1, f, starts, pairs)
    BY <2>1
  <2> DEFINE top == Grown(f[n - 1], pairs)
             g == [i \in 0 .. n |-> IF i = n THEN top ELSE f[i]]
  <2>3. top \in SUBSET (Heaps \cup {0})
    <3>1. f[n - 1] \in SUBSET (Heaps \cup {0})
      BY <2>1, <2>2 DEF StepsTo
    <3> QED BY <3>1 DEF Grown
  <2>4. StepsTo(n, g, starts, pairs)
    <3> HIDE DEF top
    <3>1. g \in [0 .. n -> SUBSET (Heaps \cup {0})]
      BY <2>1, <2>2, <2>3 DEF StepsTo
    <3>2. g[0] = starts
      BY <2>1, <2>2, <1>3 DEF StepsTo
    <3>3. ASSUME NEW i \in 1 .. n PROVE g[i] = Grown(g[i - 1], pairs)
      <4>1. i - 1 \in 0 .. n /\ i - 1 # n
        BY <2>1
      <4>2. g[i - 1] = f[i - 1]
        BY <4>1
      <4>3. CASE i = n
        BY <4>2, <4>3 DEF top
      <4>4. CASE i # n
        <5>1. i \in 1 .. n - 1
          BY <4>4
        <5>2. f[i] = Grown(f[i - 1], pairs)
          BY <2>2, <5>1 DEF StepsTo
        <5> QED BY <4>2, <4>4, <5>1, <5>2
      <4> QED BY <4>3, <4>4
    <3> QED BY <3>1, <3>2, <3>3 DEF StepsTo
  <2> QED BY <2>4
<1> QED BY <1>2, <1>3

\* Found is the last of MaxHeap steps.
LEMMA FoundSteps ==
    ASSUME NEW starts \in SUBSET Heaps, NEW pairs \in SUBSET (Heaps \X (Heaps \cup {0}))
    PROVE  \E f : /\ StepsTo(MaxHeap, f, starts, pairs)
                  /\ Found(starts, pairs) = f[MaxHeap] \ {0}
<1> DEFINE F(f) == [n \in 0 .. MaxHeap |->
                        IF n = 0 THEN starts
                        ELSE f[n - 1] \cup {e[2] : e \in {d \in pairs : d[1] \in f[n - 1]}}]
           found == CHOOSE f : f = F(f)
<1>1. MaxHeap \in Nat
  BY FiberHeapAssumption
<1>2. PICK f : StepsTo(MaxHeap, f, starts, pairs)
  BY <1>1, StepsExist
<1>3. f = F(f)
  <2>1. f = [n \in 0 .. MaxHeap |-> f[n]]
    BY <1>2 DEF StepsTo
  <2>2. ASSUME NEW n \in 0 .. MaxHeap PROVE f[n] = F(f)[n]
    <3>1. CASE n = 0
      BY <1>2, <3>1 DEF StepsTo
    <3>2. CASE n # 0
      <4>1. n \in 1 .. MaxHeap
        BY <3>2
      <4>2. f[n] = Grown(f[n - 1], pairs)
        BY <1>2, <4>1 DEF StepsTo
      <4> QED BY <4>2, <3>2 DEF Grown
    <3> QED BY <3>1, <3>2
  <2>3. F(f) = [n \in 0 .. MaxHeap |-> F(f)[n]]
    OBVIOUS
  <2> HIDE DEF F
  <2> QED BY <2>1, <2>2, <2>3
<1>4. found = F(found)
  BY <1>3
<1>5. Found(starts, pairs) = found[MaxHeap] \ {0}
  BY DEF Found
<1> HIDE DEF found
<1>6. ASSUME NEW n \in 0 .. MaxHeap
      PROVE  found[n] = IF n = 0 THEN starts ELSE Grown(found[n - 1], pairs)
  <2>1. F(found)[n] = IF n = 0 THEN starts ELSE Grown(found[n - 1], pairs)
    BY DEF Grown
  <2> HIDE DEF F
  <2> QED BY <1>4, <2>1
<1>7. \A n \in 0 .. MaxHeap : found[n] = f[n]
  <2> DEFINE S == {n \in 0 .. MaxHeap : found[n] # f[n]}
  <2> SUFFICES ASSUME S # {} PROVE FALSE
    OBVIOUS
  <2>1. PICK n \in S : \A m \in S : n <= m
    <3>1. S \in SUBSET Nat
      OBVIOUS
    <3> QED BY <3>1, LeastOf
  <2>2. n # 0
    BY <1>2, <1>6 DEF StepsTo
  <2>3. n - 1 \in 0 .. MaxHeap /\ n - 1 \notin S /\ n \in 1 .. MaxHeap
    BY <1>1, <2>1, <2>2
  <2>4. found[n - 1] = f[n - 1]
    BY <2>3
  <2>5. f[n] = Grown(f[n - 1], pairs)
    BY <1>2, <2>3 DEF StepsTo
  <2>6. found[n] = Grown(found[n - 1], pairs)
    BY <1>6, <2>2
  <2> QED BY <2>4, <2>5, <2>6
<1>8. found[MaxHeap] = f[MaxHeap]
  BY <1>1, <1>7
<1> QED
  BY <1>2, <1>5, <1>8

\* What is found is in every closed set that has the start.
LEMMA FoundLeast ==
    ASSUME NEW starts \in SUBSET Heaps, NEW pairs \in SUBSET (Heaps \X (Heaps \cup {0})),
           NEW S \in SUBSET Heaps, starts \subseteq S,
           \A e \in pairs : e[1] \in S /\ e[2] # 0 => e[2] \in S
    PROVE  Found(starts, pairs) \subseteq S
<1>1. MaxHeap \in Nat /\ 0 \notin Heaps
  BY FiberHeapAssumption DEF Heaps
<1>2. PICK f : /\ StepsTo(MaxHeap, f, starts, pairs)
               /\ Found(starts, pairs) = f[MaxHeap] \ {0}
  BY FoundSteps
<1> DEFINE Over == {n \in 0 .. MaxHeap : ~(f[n] \subseteq S \cup {0})}
<1> SUFFICES ASSUME Over # {} PROVE FALSE
  BY <1>1, <1>2
<1>3. PICK n \in Over : \A m \in Over : n <= m
  <2>1. Over \in SUBSET Nat
    OBVIOUS
  <2> QED BY <2>1, LeastOf
<1>4. n # 0
  BY <1>2, <1>3 DEF StepsTo
<1>5. n - 1 \in 0 .. MaxHeap /\ n - 1 \notin Over /\ n \in 1 .. MaxHeap
  BY <1>1, <1>3, <1>4
<1>6. f[n] = Grown(f[n - 1], pairs) /\ f[n - 1] \subseteq S \cup {0}
  BY <1>2, <1>5 DEF StepsTo
<1>7. ASSUME NEW e \in pairs, e[1] \in f[n - 1] PROVE e[2] \in S \cup {0}
  <2>1. e[1] \in Heaps
    OBVIOUS
  <2> QED BY <1>1, <1>6, <1>7, <2>1
<1> QED
  BY <1>3, <1>6, <1>7 DEF Grown

\* What is found contains where it starts and is closed: there are no more steps than heaps.
LEMMA FoundIs ==
    ASSUME NEW starts \in SUBSET Heaps, NEW pairs \in SUBSET (Heaps \X (Heaps \cup {0}))
    PROVE  /\ Found(starts, pairs) \subseteq Heaps
           /\ starts \subseteq Found(starts, pairs)
           /\ \A e \in pairs : /\ e[1] \in Found(starts, pairs) /\ e[2] # 0
                               => e[2] \in Found(starts, pairs)
<1>1. MaxHeap \in Nat
  BY FiberHeapAssumption
<1>2. PICK f : /\ StepsTo(MaxHeap, f, starts, pairs)
               /\ Found(starts, pairs) = f[MaxHeap] \ {0}
  BY FoundSteps
<1>3. \A n \in 0 .. MaxHeap : f[n] \in SUBSET (Heaps \cup {0})
  BY <1>2 DEF StepsTo
<1>4. \A n \in 1 .. MaxHeap : f[n - 1] \subseteq f[n]
  BY <1>2 DEF StepsTo, Grown
<1>5. \A n \in 0 .. MaxHeap : starts \subseteq f[n]
  <2> DEFINE S == {n \in 0 .. MaxHeap : ~(starts \subseteq f[n])}
  <2> SUFFICES ASSUME S # {} PROVE FALSE
    OBVIOUS
  <2>1. PICK n \in S : \A m \in S : n <= m
    <3>1. S \in SUBSET Nat
      OBVIOUS
    <3> QED BY <3>1, LeastOf
  <2>2. n # 0
    BY <1>2 DEF StepsTo
  <2>3. n - 1 \in 0 .. MaxHeap /\ n - 1 \notin S /\ n \in 1 .. MaxHeap
    BY <1>1, <2>1, <2>2
  <2> QED BY <1>4, <2>3
<1>6. MaxHeap \in 0 .. MaxHeap /\ 0 \notin Heaps
  BY <1>1 DEF Heaps
<1>7. Grown(f[MaxHeap], pairs) = f[MaxHeap]
  <2> SUFFICES ASSUME Grown(f[MaxHeap], pairs) # f[MaxHeap] PROVE FALSE
    OBVIOUS
  <2>1. starts # {}
    <3> SUFFICES ASSUME starts = {} PROVE FALSE
      OBVIOUS
    <3> DEFINE S == {n \in 0 .. MaxHeap : f[n] # {}}
    <3>1. S = {}
      <4> SUFFICES ASSUME S # {} PROVE FALSE
        OBVIOUS
      <4>1. PICK n \in S : \A m \in S : n <= m
        <5>1. S \in SUBSET Nat
          OBVIOUS
        <5> QED BY <5>1, LeastOf
      <4>2. n # 0
        BY <1>2 DEF StepsTo
      <4>3. n - 1 \in 0 .. MaxHeap /\ n - 1 \notin S /\ n \in 1 .. MaxHeap
        BY <1>1, <4>1, <4>2
      <4>4. f[n] = Grown(f[n - 1], pairs)
        BY <1>2, <4>3 DEF StepsTo
      <4> QED BY <4>3, <4>4 DEF Grown
    <3>2. f[MaxHeap] = {}
      BY <1>6, <3>1
    <3> QED BY <3>2 DEF Grown
  <2>2. \A n \in 1 .. MaxHeap : f[n] # f[n - 1]
    <3> DEFINE S == {k \in 0 .. MaxHeap : Grown(f[MaxHeap - k], pairs) = f[MaxHeap - k]}
    <3> SUFFICES ASSUME NEW n \in 1 .. MaxHeap, f[n] = f[n - 1] PROVE FALSE
      OBVIOUS
    <3>1. MaxHeap - (n - 1) \in S
      <4>1. f[n] = Grown(f[n - 1], pairs)
        BY <1>2 DEF StepsTo
      <4>2. MaxHeap - (n - 1) \in 0 .. MaxHeap /\ MaxHeap - (MaxHeap - (n - 1)) = n - 1
        BY <1>1
      <4> QED BY <4>1, <4>2
    <3>2. PICK k \in S : \A m \in S : k <= m
      <4>1. S \in SUBSET Nat
        OBVIOUS
      <4> QED BY <3>1, <4>1, LeastOf
    <3>3. k # 0
      BY <1>1
    <3>4. /\ k - 1 \in 0 .. MaxHeap /\ k - 1 \notin S
          /\ MaxHeap - (k - 1) \in 1 .. MaxHeap
          /\ (MaxHeap - (k - 1)) - 1 = MaxHeap - k
      BY <1>1, <3>2, <3>3
    <3>5. f[MaxHeap - (k - 1)] = Grown(f[MaxHeap - k], pairs)
      BY <1>2, <3>4 DEF StepsTo
    <3> QED BY <3>4, <3>5
  <2>3. IsFiniteSet(Heaps \cup {0}) /\ Cardinality(Heaps \cup {0}) = MaxHeap + 1
    <3>1. IsFiniteSet(Heaps) /\ Cardinality(Heaps) = MaxHeap
      BY <1>1, FS_Interval DEF Heaps
    <3> QED BY <3>1, <1>1, <1>6, FS_AddElement
  <2>4. \A n \in 0 .. MaxHeap : IsFiniteSet(f[n]) /\ Cardinality(f[n]) \in Nat
    BY <1>3, <2>3, FS_Subset, FS_CardinalityType
  <2>5. \A n \in 0 .. MaxHeap : Cardinality(f[n]) >= n + 1
    <3> DEFINE S == {n \in 0 .. MaxHeap : ~(Cardinality(f[n]) >= n + 1)}
    <3> SUFFICES ASSUME S # {} PROVE FALSE
      OBVIOUS
    <3>1. PICK n \in S : \A m \in S : n <= m
      <4>1. S \in SUBSET Nat
        OBVIOUS
      <4> QED BY <4>1, LeastOf
    <3>2. n # 0
      <4>1. 0 \in 0 .. MaxHeap /\ f[0] = starts
        BY <1>1, <1>2 DEF StepsTo
      <4>2. Cardinality(f[0]) \in Nat /\ Cardinality(f[0]) # 0
        BY <2>1, <2>4, <4>1, FS_EmptySet
      <4> QED BY <4>2
    <3>3. n - 1 \in 0 .. MaxHeap /\ n - 1 \notin S /\ n \in 1 .. MaxHeap
      BY <1>1, <3>1, <3>2
    <3>4. f[n - 1] \subseteq f[n] /\ f[n - 1] # f[n] /\ IsFiniteSet(f[n])
      BY <1>4, <2>2, <2>4, <3>3
    <3>5. Cardinality(f[n - 1]) < Cardinality(f[n])
      <4>1. Cardinality(f[n - 1]) <= Cardinality(f[n])
        BY <3>4, FS_Subset
      <4>2. Cardinality(f[n - 1]) # Cardinality(f[n])
        BY <3>4, FS_Subset
      <4> QED BY <4>1, <4>2, <2>4, <3>3
    <3> QED BY <3>3, <3>5, <2>4
  <2>6. Cardinality(f[MaxHeap]) = MaxHeap + 1
    <3>1. f[MaxHeap] \subseteq Heaps \cup {0}
      BY <1>3, <1>6
    <3>2. Cardinality(f[MaxHeap]) <= MaxHeap + 1
      BY <2>3, <3>1, FS_Subset
    <3> QED BY <1>1, <1>6, <2>4, <2>5, <3>2
  <2>7. f[MaxHeap] = Heaps \cup {0}
    <3>1. f[MaxHeap] \subseteq Heaps \cup {0}
      BY <1>3, <1>6
    <3> QED BY <2>3, <2>6, <3>1, FS_Subset
  <2> QED BY <2>7 DEF Grown
<1>8. starts \subseteq f[MaxHeap]
  BY <1>5, <1>6
<1>9. f[MaxHeap] \subseteq Heaps \cup {0}
  BY <1>3, <1>6
<1>10. ASSUME NEW e \in pairs, e[1] \in f[MaxHeap] PROVE e[2] \in f[MaxHeap]
  BY <1>7, <1>10 DEF Grown
<1> QED
  BY <1>2, <1>6, <1>8, <1>9, <1>10

------------------------------------------------------------------------------
(* Which heap ends with which.                                              *)

\* The heap of a handle ends with the heap the handle is in.
Edges == {<<heap[a], handle[a]>> : a \in {b \in Allocs : handle[b] # 0}}

\* What ends with a member of R is in R.
Closed(R, edges) == R \subseteq Heaps /\ \A e \in edges : e[1] \in R => e[2] \in R

\* No heap ends with itself, however indirectly.
Founded(edges) ==
    \A S \in SUBSET Heaps : S # {} => \E x \in S : \A e \in edges : e[2] = x => e[1] \notin S

\* All new edges are from t to heaps of Q.
Grafted(edges, more, t, Q) == \A e \in more : e \in edges \/ (e[1] = t /\ e[2] \in Q)

\* A set that is closed stays so if edges are removed.
LEMMA ClosedLess ==
    ASSUME NEW edges, NEW less \in SUBSET edges
    PROVE  /\ \A R : Closed(R, edges) => Closed(R, less)
           /\ Founded(edges) => Founded(less)
BY DEF Closed, Founded

\* A closed set with Q is closed after a graft, and one without t is as it is.
LEMMA ClosedGraft ==
    ASSUME NEW edges, NEW more, NEW t, NEW Q, Closed(Q, edges), Grafted(edges, more, t, Q)
    PROVE  \A R : Closed(R, edges) =>
              /\ Closed(R \cup Q, more)
              /\ t \notin R => Closed(R, more)
BY DEF Closed, Grafted

\* A graft below t of what does not end with t makes no cycle.
LEMMA FoundedGraft ==
    ASSUME NEW edges, NEW more, NEW t, NEW Q, Closed(Q, edges), Grafted(edges, more, t, Q),
           t \notin Q, Founded(edges)
    PROVE  Founded(more)
<1> SUFFICES ASSUME NEW S \in SUBSET Heaps, S # {}
             PROVE  \E x \in S : \A e \in more : e[2] = x => e[1] \notin S
  BY DEF Founded
<1>1. CASE S \subseteq Q
  <2>1. PICK x \in S : \A e \in edges : e[2] = x => e[1] \notin S
    BY DEF Founded
  <2> QED BY <1>1, <2>1 DEF Grafted
<1>2. CASE ~(S \subseteq Q)
  <2>1. S \ Q # {} /\ S \ Q \in SUBSET Heaps
    BY <1>2
  <2>2. PICK x \in S \ Q : \A e \in edges : e[2] = x => e[1] \notin S \ Q
    BY <2>1 DEF Founded
  <2>3. ASSUME NEW e \in more, e[2] = x PROVE e[1] \notin S
    <3>1. e \in edges
      BY <2>3 DEF Grafted
    <3>2. e[1] \notin Q
      BY <2>3, <3>1 DEF Closed
    <3> QED BY <2>2, <2>3, <3>1, <3>2
  <2> QED BY <2>3
<1> QED
  BY <1>1, <1>2

------------------------------------------------------------------------------
(* Stacks: the innermost element is the first.                              *)

\* An element is put on a stack.
LEMMA Pushed ==
    ASSUME NEW T, NEW s \in Seq(T), NEW x \in T
    PROVE  /\ <<x>> \o s \in Seq(T) /\ Len(<<x>> \o s) = Len(s) + 1 /\ Len(s) \in Nat
           /\ <<x>> \o s # <<>> /\ (<<x>> \o s)[1] = x /\ 1 \in DOMAIN (<<x>> \o s)
           /\ \A i \in DOMAIN s : i + 1 \in DOMAIN (<<x>> \o s) /\ (<<x>> \o s)[i + 1] = s[i]
           /\ \A i \in DOMAIN (<<x>> \o s) :
                i = 1 \/ (i > 1 /\ i - 1 \in DOMAIN s /\ (<<x>> \o s)[i] = s[i - 1])
<1> DEFINE r == <<x>> \o s
<1>1. r \in Seq(T) /\ Len(r) = Len(s) + 1 /\ Len(s) \in Nat /\ r # <<>>
  OBVIOUS
<1>2. r[1] = x /\ \A i \in 1 .. Len(s) : r[i + 1] = s[i]
  OBVIOUS
<1>3. DOMAIN r = 1 .. Len(s) + 1 /\ DOMAIN s = 1 .. Len(s)
  BY <1>1
<1> HIDE DEF r
<1>4. 1 \in DOMAIN r
  BY <1>1, <1>3
<1>5. \A i \in DOMAIN s : i + 1 \in DOMAIN r /\ r[i + 1] = s[i]
  BY <1>1, <1>2, <1>3
<1>6. ASSUME NEW i \in DOMAIN r, i # 1 PROVE i > 1 /\ i - 1 \in DOMAIN s /\ r[i] = s[i - 1]
  <2>1. i > 1 /\ i - 1 \in 1 .. Len(s) /\ (i - 1) + 1 = i
    BY <1>1, <1>3, <1>6
  <2> QED BY <1>2, <1>3, <2>1
<1> QED
  BY <1>1, <1>2, <1>4, <1>5, <1>6 DEF r

\* An element is taken off a stack.
LEMMA Popped ==
    ASSUME NEW T, NEW s \in Seq(T), s # <<>>
    PROVE  /\ Tail(s) \in Seq(T) /\ Len(s) = Len(Tail(s)) + 1 /\ Len(Tail(s)) \in Nat
           /\ 1 \in DOMAIN s /\ Head(s) = s[1] /\ Head(s) \in T
           /\ \A i \in DOMAIN Tail(s) : i + 1 \in DOMAIN s /\ Tail(s)[i] = s[i + 1]
           /\ \A i \in DOMAIN s :
                i = 1 \/ (i > 1 /\ i - 1 \in DOMAIN Tail(s) /\ s[i] = Tail(s)[i - 1])
<1> DEFINE r == Tail(s)
<1>1. /\ r \in Seq(T) /\ Len(s) = Len(r) + 1 /\ Len(r) \in Nat
      /\ Head(s) = s[1] /\ Head(s) \in T
  OBVIOUS
<1>2. \A i \in 1 .. Len(r) : r[i] = s[i + 1]
  BY <1>1
<1>3. DOMAIN s = 1 .. Len(r) + 1 /\ DOMAIN r = 1 .. Len(r)
  BY <1>1
<1> HIDE DEF r
<1>4. 1 \in DOMAIN s
  BY <1>1, <1>3
<1>5. \A i \in DOMAIN r : i + 1 \in DOMAIN s /\ r[i] = s[i + 1]
  BY <1>1, <1>2, <1>3
<1>6. ASSUME NEW i \in DOMAIN s, i # 1 PROVE i > 1 /\ i - 1 \in DOMAIN r /\ s[i] = r[i - 1]
  <2>1. i > 1 /\ i - 1 \in 1 .. Len(r) /\ (i - 1) + 1 = i
    BY <1>1, <1>3, <1>6
  <2> QED BY <1>2, <1>3, <2>1
<1> QED
  BY <1>1, <1>4, <1>5, <1>6 DEF r

------------------------------------------------------------------------------
(* The blocks a fiber is in.                                                *)

BlockType == {"sub", "switch", "mitosis", "emitosis", "try"}

EventType == [type : BlockType, prev : Heaps \cup {0}, new : Heaps \cup {0}]

\* A heap is made for the block, to be current in it.
Makes(e) == e.type \in {"sub", "mitosis", "emitosis"}

\* The block of event e goes from heap "outer" to heap "inner".
Enters(e, inner, outer, par) ==
    /\ e.type = "sub" => par[inner] = outer /\ e.prev = 0 /\ e.new = 0
    /\ e.type = "try" => inner = outer /\ e.prev = 0 /\ e.new = 0
    /\ e.type = "switch" => e.prev = outer /\ e.new = 0
    /\ e.type \in {"mitosis", "emitosis"} => e.prev = outer /\ e.new = inner

\* ctx are the heaps that are current in the blocks, that of no block the last.
Blocks(ctx, evs, par) ==
    /\ ctx \in Seq(Heaps) /\ evs \in Seq(EventType)
    /\ Len(ctx) = Len(evs) + 1 /\ ctx[Len(ctx)] = Root
    /\ \A i \in DOMAIN evs : Enters(evs[i], ctx[i], ctx[i + 1], par)

SubHeaps(ctx, evs) == {ctx[i] : i \in {j \in DOMAIN evs : evs[j].type = "sub"}}

\* The heaps of fibers in mitosis.
NewHeaps(evs) == {evs[i].new : i \in {j \in DOMAIN evs : evs[j].type = "mitosis"}}

\* The heap that is made for a block ends without any heap of the blocks around it.
SubsApart(ctx, evs, edges) ==
    \A i \in DOMAIN evs : Makes(evs[i]) =>
        \E R \in SUBSET Heaps : /\ Closed(R, edges) /\ ctx[i] \in R
                                /\ \A j \in DOMAIN ctx : i < j => ctx[j] \notin R

\* The heaps of the blocks outside of a try block.
Outside(ctx, evs) ==
    {ctx[i] : i \in {j \in DOMAIN ctx : \E k \in DOMAIN evs : k < j /\ evs[k].type = "try"}}

\* s with x on top of it.
OnTop(r, s, x) == r = <<x>> \o s

\* A block is entered.
LEMMA BlocksPush ==
    ASSUME NEW ctx, NEW evs, NEW par, Blocks(ctx, evs, par), NEW h \in Heaps,
           NEW e \in EventType, Enters(e, h, ctx[1], par),
           NEW c, OnTop(c, ctx, h), NEW v, OnTop(v, evs, e)
    PROVE  /\ Blocks(c, v, par) /\ c[1] = h
           /\ SubHeaps(c, v) = SubHeaps(ctx, evs) \cup {x \in {h} : e.type = "sub"}
           /\ NewHeaps(v) = NewHeaps(evs) \cup {x \in {e.new} : e.type = "mitosis"}
           /\ ToSet(c) = ToSet(ctx) \cup {h}
<1>1. ctx \in Seq(Heaps) /\ evs \in Seq(EventType) /\ Len(ctx) = Len(evs) + 1
  BY DEF Blocks
<1>2. /\ c \in Seq(Heaps) /\ Len(c) = Len(ctx) + 1 /\ Len(ctx) \in Nat
      /\ c # <<>> /\ c[1] = h /\ 1 \in DOMAIN c
      /\ \A i \in DOMAIN ctx : i + 1 \in DOMAIN c /\ c[i + 1] = ctx[i]
      /\ \A i \in DOMAIN c : i = 1 \/ (i > 1 /\ i - 1 \in DOMAIN ctx /\ c[i] = ctx[i - 1])
  BY <1>1, Pushed DEF OnTop
<1>3. /\ v \in Seq(EventType) /\ Len(v) = Len(evs) + 1 /\ Len(evs) \in Nat
      /\ v # <<>> /\ v[1] = e /\ 1 \in DOMAIN v
      /\ \A i \in DOMAIN evs : i + 1 \in DOMAIN v /\ v[i + 1] = evs[i]
      /\ \A i \in DOMAIN v : i = 1 \/ (i > 1 /\ i - 1 \in DOMAIN evs /\ v[i] = evs[i - 1])
  BY <1>1, Pushed DEF OnTop
<1>4. /\ DOMAIN ctx = 1 .. Len(ctx) /\ DOMAIN evs = 1 .. Len(evs)
      /\ DOMAIN c = 1 .. Len(c) /\ DOMAIN v = 1 .. Len(v)
  BY <1>1, <1>2, <1>3
<1>5. Blocks(c, v, par)
  <2>1. Len(c) = Len(v) + 1 /\ c[Len(c)] = Root
    <3>1. Len(ctx) \in DOMAIN ctx /\ ctx[Len(ctx)] = Root
      BY <1>1, <1>3, <1>4 DEF Blocks
    <3>2. c[Len(ctx) + 1] = Root
      BY <1>2, <3>1
    <3> QED BY <1>1, <1>2, <1>3, <3>2
  <2>2. ASSUME NEW i \in DOMAIN v PROVE Enters(v[i], c[i], c[i + 1], par)
    <3>1. CASE i = 1
      <4>1. 1 \in DOMAIN ctx
        BY <1>1, <1>3, <1>4
      <4>2. c[1 + 1] = ctx[1]
        BY <1>2, <4>1
      <4> QED BY <1>2, <1>3, <3>1, <4>2
    <3>2. CASE i # 1
      <4>1. i > 1 /\ i - 1 \in DOMAIN evs /\ v[i] = evs[i - 1]
        BY <1>3, <3>2
      <4>2. i - 1 \in DOMAIN ctx /\ i \in DOMAIN ctx /\ (i - 1) + 1 = i
        BY <1>1, <1>3, <1>4, <4>1
      <4>3. c[i] = ctx[i - 1] /\ c[i + 1] = ctx[i]
        BY <1>2, <4>2
      <4>4. Enters(evs[i - 1], ctx[i - 1], ctx[(i - 1) + 1], par)
        BY <4>1 DEF Blocks
      <4> QED BY <4>1, <4>2, <4>3, <4>4
    <3> QED BY <3>1, <3>2
  <2> QED BY <1>2, <1>3, <2>1, <2>2 DEF Blocks
<1>6. SubHeaps(c, v) = SubHeaps(ctx, evs) \cup {x \in {h} : e.type = "sub"}
  <2>1. ASSUME NEW i \in DOMAIN v, v[i].type = "sub"
        PROVE  c[i] \in SubHeaps(ctx, evs) \cup {x \in {h} : e.type = "sub"}
    <3>1. CASE i = 1
      BY <1>2, <1>3, <2>1, <3>1
    <3>2. CASE i # 1
      <4>1. i > 1 /\ i - 1 \in DOMAIN evs /\ v[i] = evs[i - 1]
        BY <1>3, <3>2
      <4>2. c[i] = ctx[i - 1]
        BY <1>1, <1>2, <1>3, <1>4, <4>1
      <4> QED BY <2>1, <4>1, <4>2 DEF SubHeaps
    <3> QED BY <3>1, <3>2
  <2>2. ASSUME NEW i \in DOMAIN evs, evs[i].type = "sub" PROVE ctx[i] \in SubHeaps(c, v)
    <3>1. i + 1 \in DOMAIN v /\ v[i + 1] = evs[i] /\ c[i + 1] = ctx[i]
      BY <1>1, <1>2, <1>3, <1>4
    <3> QED BY <2>2, <3>1 DEF SubHeaps
  <2>3. ASSUME e.type = "sub" PROVE h \in SubHeaps(c, v)
    BY <1>2, <1>3, <2>3 DEF SubHeaps
  <2>4. SubHeaps(c, v) \subseteq SubHeaps(ctx, evs) \cup {x \in {h} : e.type = "sub"}
    BY <2>1 DEF SubHeaps
  <2>5. SubHeaps(ctx, evs) \subseteq SubHeaps(c, v)
    <3> SUFFICES ASSUME NEW x \in SubHeaps(ctx, evs) PROVE x \in SubHeaps(c, v)
      OBVIOUS
    <3>1. PICK i \in DOMAIN evs : evs[i].type = "sub" /\ x = ctx[i]
      BY DEF SubHeaps
    <3> QED BY <2>2, <3>1
  <2> QED BY <2>3, <2>4, <2>5
<1>7. NewHeaps(v) = NewHeaps(evs) \cup {x \in {e.new} : e.type = "mitosis"}
  <2>1. ASSUME NEW i \in DOMAIN v, v[i].type = "mitosis"
        PROVE  v[i].new \in NewHeaps(evs) \cup {x \in {e.new} : e.type = "mitosis"}
    BY <1>3, <2>1 DEF NewHeaps
  <2>2. ASSUME NEW i \in DOMAIN evs, evs[i].type = "mitosis" PROVE evs[i].new \in NewHeaps(v)
    <3>1. i + 1 \in DOMAIN v /\ v[i + 1] = evs[i]
      BY <1>3
    <3> QED BY <2>2, <3>1 DEF NewHeaps
  <2>3. ASSUME e.type = "mitosis" PROVE e.new \in NewHeaps(v)
    BY <1>3, <2>3 DEF NewHeaps
  <2>4. NewHeaps(v) \subseteq NewHeaps(evs) \cup {x \in {e.new} : e.type = "mitosis"}
    BY <2>1 DEF NewHeaps
  <2>5. NewHeaps(evs) \subseteq NewHeaps(v)
    BY <2>2 DEF NewHeaps
  <2> QED BY <2>3, <2>4, <2>5
<1>8. ToSet(c) = ToSet(ctx) \cup {h}
  <2>1. ASSUME NEW i \in DOMAIN c PROVE c[i] \in ToSet(ctx) \cup {h}
    BY <1>2 DEF ToSet
  <2>2. ASSUME NEW i \in DOMAIN ctx PROVE ctx[i] \in ToSet(c)
    BY <1>2 DEF ToSet
  <2>3. h \in ToSet(c)
    BY <1>2 DEF ToSet
  <2> QED BY <2>1, <2>2, <2>3 DEF ToSet
<1> QED
  BY <1>2, <1>5, <1>6, <1>7, <1>8

\* A heap made for a block is that of no block around it.
LEMMA MadeApart ==
    ASSUME NEW ctx, NEW evs, NEW edges, SubsApart(ctx, evs, edges),
           NEW i \in DOMAIN evs, Makes(evs[i]), NEW j \in DOMAIN ctx, i < j
    PROVE  ctx[i] # ctx[j]
BY DEF SubsApart

\* The new fibers' heaps differ.
LEMMA NewDiffer ==
    ASSUME NEW ctx, NEW evs, NEW par, Blocks(ctx, evs, par),
           NEW edges, SubsApart(ctx, evs, edges)
    PROVE  \A i, j \in DOMAIN evs :
                evs[i].type = "mitosis" /\ evs[j].type = "mitosis" /\ evs[i].new = evs[j].new
                => i = j
<1>1. DOMAIN ctx = 1 .. Len(ctx) /\ DOMAIN evs = 1 .. Len(evs) /\ Len(evs) \in Nat
      /\ Len(ctx) = Len(evs) + 1
  BY DEF Blocks
<1>2. ASSUME NEW i \in DOMAIN evs, evs[i].type = "mitosis"
      PROVE  Makes(evs[i]) /\ evs[i].new = ctx[i] /\ i \in DOMAIN ctx
  <2>1. Enters(evs[i], ctx[i], ctx[i + 1], par)
    BY DEF Blocks
  <2> QED BY <1>1, <1>2, <2>1 DEF Enters, Makes
<1>3. ASSUME NEW i \in DOMAIN evs, NEW j \in DOMAIN evs, i < j, evs[i].type = "mitosis",
             evs[j].type = "mitosis", evs[i].new = evs[j].new
      PROVE  FALSE
  BY <1>2, <1>3, MadeApart
<1> QED
  BY <1>1, <1>3

\* A block is left.
LEMMA BlocksPop ==
    ASSUME NEW ctx, NEW evs, NEW par, Blocks(ctx, evs, par), evs # <<>>
    PROVE  /\ Blocks(Tail(ctx), Tail(evs), par)
           /\ Tail(ctx)[1] = ctx[2] /\ 2 \in DOMAIN ctx /\ 1 \in DOMAIN ctx
           /\ 1 \in DOMAIN evs /\ evs[1] \in EventType
           /\ Enters(evs[1], ctx[1], ctx[2], par)
           /\ SubHeaps(ctx, evs) =
                SubHeaps(Tail(ctx), Tail(evs)) \cup {x \in {ctx[1]} : evs[1].type = "sub"}
           /\ NewHeaps(evs) =
                NewHeaps(Tail(evs)) \cup {x \in {evs[1].new} : evs[1].type = "mitosis"}
           /\ NewHeaps(Tail(evs)) \subseteq ToSet(Tail(ctx))
           /\ ToSet(ctx) = ToSet(Tail(ctx)) \cup {ctx[1]}
<1> DEFINE c == Tail(ctx)
           v == Tail(evs)
<1>1. ctx \in Seq(Heaps) /\ evs \in Seq(EventType) /\ Len(ctx) = Len(evs) + 1
      /\ Len(evs) \in Nat
  BY DEF Blocks
<1>2. ctx # <<>>
  BY <1>1
<1>3. /\ c \in Seq(Heaps) /\ Len(ctx) = Len(c) + 1 /\ Len(c) \in Nat
      /\ 1 \in DOMAIN ctx /\ Head(ctx) = ctx[1] /\ Head(ctx) \in Heaps
      /\ \A i \in DOMAIN c : i + 1 \in DOMAIN ctx /\ c[i] = ctx[i + 1]
      /\ \A i \in DOMAIN ctx : i = 1 \/ (i > 1 /\ i - 1 \in DOMAIN c /\ ctx[i] = c[i - 1])
  BY <1>1, <1>2, Popped
<1>4. /\ v \in Seq(EventType) /\ Len(evs) = Len(v) + 1 /\ Len(v) \in Nat
      /\ 1 \in DOMAIN evs /\ Head(evs) = evs[1] /\ Head(evs) \in EventType
      /\ \A i \in DOMAIN v : i + 1 \in DOMAIN evs /\ v[i] = evs[i + 1]
      /\ \A i \in DOMAIN evs : i = 1 \/ (i > 1 /\ i - 1 \in DOMAIN v /\ evs[i] = v[i - 1])
  BY <1>1, Popped
<1>5. /\ DOMAIN ctx = 1 .. Len(ctx) /\ DOMAIN evs = 1 .. Len(evs)
      /\ DOMAIN c = 1 .. Len(c) /\ DOMAIN v = 1 .. Len(v)
  BY <1>1, <1>3, <1>4
<1> HIDE DEF c, v
<1>6. 2 \in DOMAIN ctx /\ 1 \in DOMAIN c /\ c[1] = ctx[2]
  <2>1. 1 \in DOMAIN c
    BY <1>1, <1>3, <1>4, <1>5
  <2>2. 1 + 1 \in DOMAIN ctx /\ c[1] = ctx[1 + 1]
    BY <1>3, <2>1
  <2> QED BY <2>1, <2>2
<1>7. Enters(evs[1], ctx[1], ctx[2], par)
  <2>1. Enters(evs[1], ctx[1], ctx[1 + 1], par)
    BY <1>4 DEF Blocks
  <2> QED BY <2>1
<1>8. Blocks(c, v, par)
  <2>1. Len(c) = Len(v) + 1 /\ c[Len(c)] = Root
    <3>1. Len(c) \in DOMAIN c
      BY <1>3, <1>5, <1>6
    <3>2. c[Len(c)] = ctx[Len(c) + 1]
      BY <1>3, <3>1
    <3> QED BY <1>1, <1>3, <1>4, <3>2 DEF Blocks
  <2>2. ASSUME NEW i \in DOMAIN v PROVE Enters(v[i], c[i], c[i + 1], par)
    <3>1. i \in DOMAIN c /\ i + 1 \in DOMAIN c
      BY <1>1, <1>3, <1>4, <1>5
    <3>2. i + 1 \in DOMAIN evs /\ v[i] = evs[i + 1] /\ c[i] = ctx[i + 1] /\ c[i + 1] = ctx[(i + 1) + 1]
      BY <1>3, <1>4, <3>1
    <3>3. Enters(evs[i + 1], ctx[i + 1], ctx[(i + 1) + 1], par)
      BY <3>2 DEF Blocks
    <3> QED BY <3>2, <3>3
  <2> QED BY <1>3, <1>4, <2>1, <2>2 DEF Blocks
<1>9. SubHeaps(ctx, evs) = SubHeaps(c, v) \cup {x \in {ctx[1]} : evs[1].type = "sub"}
  <2>1. ASSUME NEW i \in DOMAIN evs, evs[i].type = "sub"
        PROVE  ctx[i] \in SubHeaps(c, v) \cup {x \in {ctx[1]} : evs[1].type = "sub"}
    <3>1. CASE i = 1
      BY <2>1, <3>1
    <3>2. CASE i # 1
      <4>1. i > 1 /\ i - 1 \in DOMAIN v /\ evs[i] = v[i - 1]
        BY <1>4, <3>2
      <4>2. ctx[i] = c[i - 1]
        BY <1>1, <1>3, <1>4, <1>5, <4>1
      <4> QED BY <2>1, <4>1, <4>2 DEF SubHeaps
    <3> QED BY <3>1, <3>2
  <2>2. ASSUME NEW i \in DOMAIN v, v[i].type = "sub" PROVE c[i] \in SubHeaps(ctx, evs)
    <3>1. i + 1 \in DOMAIN evs /\ v[i] = evs[i + 1] /\ c[i] = ctx[i + 1]
      BY <1>1, <1>3, <1>4, <1>5
    <3> QED BY <2>2, <3>1 DEF SubHeaps
  <2>3. ASSUME evs[1].type = "sub" PROVE ctx[1] \in SubHeaps(ctx, evs)
    BY <1>4, <2>3 DEF SubHeaps
  <2>4. SubHeaps(ctx, evs) \subseteq SubHeaps(c, v) \cup {x \in {ctx[1]} : evs[1].type = "sub"}
    BY <2>1 DEF SubHeaps
  <2>5. SubHeaps(c, v) \subseteq SubHeaps(ctx, evs)
    <3> SUFFICES ASSUME NEW x \in SubHeaps(c, v) PROVE x \in SubHeaps(ctx, evs)
      OBVIOUS
    <3>1. PICK i \in DOMAIN v : v[i].type = "sub" /\ x = c[i]
      BY DEF SubHeaps
    <3> QED BY <2>2, <3>1
  <2> QED BY <2>3, <2>4, <2>5
<1>10. NewHeaps(evs) = NewHeaps(v) \cup {x \in {evs[1].new} : evs[1].type = "mitosis"}
  <2>1. ASSUME NEW i \in DOMAIN evs, evs[i].type = "mitosis"
        PROVE  evs[i].new \in NewHeaps(v) \cup {x \in {evs[1].new} : evs[1].type = "mitosis"}
    BY <1>4, <2>1 DEF NewHeaps
  <2>2. ASSUME NEW i \in DOMAIN v, v[i].type = "mitosis" PROVE v[i].new \in NewHeaps(evs)
    <3>1. i + 1 \in DOMAIN evs /\ v[i] = evs[i + 1]
      BY <1>4
    <3> QED BY <2>2, <3>1 DEF NewHeaps
  <2>3. ASSUME evs[1].type = "mitosis" PROVE evs[1].new \in NewHeaps(evs)
    BY <1>4, <2>3 DEF NewHeaps
  <2>4. NewHeaps(evs) \subseteq NewHeaps(v) \cup {x \in {evs[1].new} : evs[1].type = "mitosis"}
    BY <2>1 DEF NewHeaps
  <2>5. NewHeaps(v) \subseteq NewHeaps(evs)
    BY <2>2 DEF NewHeaps
  <2> QED BY <2>3, <2>4, <2>5
<1>11. NewHeaps(v) \subseteq ToSet(c)
  <2>1. ASSUME NEW i \in DOMAIN v, v[i].type = "mitosis" PROVE v[i].new \in ToSet(c)
    <3>1. Enters(v[i], c[i], c[i + 1], par) /\ i \in DOMAIN c
      BY <1>1, <1>3, <1>4, <1>5, <1>8 DEF Blocks
    <3> QED BY <2>1, <3>1 DEF Enters, ToSet
  <2> QED BY <2>1 DEF NewHeaps
<1>12. ToSet(ctx) = ToSet(c) \cup {ctx[1]}
  BY <1>3 DEF ToSet
<1> QED
  BY <1>3, <1>4, <1>6, <1>7, <1>8, <1>9, <1>10, <1>11, <1>12 DEF c, v

\* What is outside of a try block when a block is left.
LEMMA OutsidePop ==
    ASSUME NEW ctx \in Seq(Heaps), NEW evs \in Seq(EventType), Len(ctx) = Len(evs) + 1,
           evs # <<>>
    PROVE  /\ Outside(Tail(ctx), Tail(evs)) \subseteq Outside(ctx, evs)
           /\ evs[1].type = "try" => ToSet(Tail(ctx)) \subseteq Outside(ctx, evs)
<1> DEFINE c == Tail(ctx)
           v == Tail(evs)
<1>1. ctx # <<>>
  OBVIOUS
<1>2. c \in Seq(Heaps) /\ \A i \in DOMAIN c : i + 1 \in DOMAIN ctx /\ c[i] = ctx[i + 1]
  BY <1>1, Popped
<1>3. /\ v \in Seq(EventType) /\ 1 \in DOMAIN evs
      /\ \A i \in DOMAIN v : i + 1 \in DOMAIN evs /\ v[i] = evs[i + 1]
  BY Popped
<1>4. DOMAIN c = 1 .. Len(c) /\ DOMAIN v = 1 .. Len(v) /\ Len(c) \in Nat /\ Len(v) \in Nat
  BY <1>2, <1>3
<1> HIDE DEF c, v
<1>5. ASSUME NEW i \in DOMAIN c, NEW k \in DOMAIN v, k < i, v[k].type = "try"
      PROVE  c[i] \in Outside(ctx, evs)
  <2>1. k + 1 \in DOMAIN evs /\ k + 1 < i + 1 /\ evs[k + 1].type = "try"
    BY <1>3, <1>4, <1>5
  <2> QED BY <1>2, <2>1 DEF Outside
<1>6. ASSUME NEW i \in DOMAIN c, evs[1].type = "try" PROVE c[i] \in Outside(ctx, evs)
  <2>1. 1 \in DOMAIN evs /\ 1 < i + 1
    BY <1>3, <1>4
  <2> QED BY <1>2, <1>6, <2>1 DEF Outside
<1>7. Outside(c, v) \subseteq Outside(ctx, evs)
  BY <1>5 DEF Outside
<1> QED
  BY <1>6, <1>7 DEF c, v, ToSet

\* The blocks depend on where the heaps of the blocks are nested.
LEMMA BlocksPar ==
    ASSUME NEW ctx, NEW evs, NEW par, Blocks(ctx, evs, par), NEW par2,
           \A h \in ToSet(ctx) : par2[h] = par[h]
    PROVE  Blocks(ctx, evs, par2)
<1> SUFFICES ASSUME NEW i \in DOMAIN evs PROVE Enters(evs[i], ctx[i], ctx[i + 1], par2)
  BY DEF Blocks
<1>1. Enters(evs[i], ctx[i], ctx[i + 1], par)
  BY DEF Blocks
<1>2. ctx[i] \in ToSet(ctx)
  <2>1. ctx \in Seq(Heaps) /\ evs \in Seq(EventType) /\ Len(ctx) = Len(evs) + 1
    BY DEF Blocks
  <2>2. i \in DOMAIN ctx
    BY <2>1
  <2> QED BY <2>2 DEF ToSet
<1> QED
  BY <1>1, <1>2 DEF Enters

\* The heaps made for blocks stay apart when a block is entered ...
LEMMA SubsPush ==
    ASSUME NEW ctx \in Seq(Heaps), NEW evs \in Seq(EventType), Len(ctx) = Len(evs) + 1,
           NEW edges, SubsApart(ctx, evs, edges), NEW h \in Heaps, NEW e \in EventType,
           Makes(e) => \E R \in SUBSET Heaps :
                /\ Closed(R, edges) /\ h \in R /\ R \cap ToSet(ctx) = {}
    PROVE  SubsApart(<<h>> \o ctx, <<e>> \o evs, edges)
<1> DEFINE c == <<h>> \o ctx
           v == <<e>> \o evs
<1>1. /\ c \in Seq(Heaps) /\ Len(c) = Len(ctx) + 1 /\ Len(ctx) \in Nat
      /\ c # <<>> /\ c[1] = h /\ 1 \in DOMAIN c
      /\ \A i \in DOMAIN ctx : i + 1 \in DOMAIN c /\ c[i + 1] = ctx[i]
      /\ \A i \in DOMAIN c : i = 1 \/ (i > 1 /\ i - 1 \in DOMAIN ctx /\ c[i] = ctx[i - 1])
  BY Pushed
<1>2. /\ v \in Seq(EventType) /\ Len(v) = Len(evs) + 1 /\ Len(evs) \in Nat
      /\ v # <<>> /\ v[1] = e /\ 1 \in DOMAIN v
      /\ \A i \in DOMAIN evs : i + 1 \in DOMAIN v /\ v[i + 1] = evs[i]
      /\ \A i \in DOMAIN v : i = 1 \/ (i > 1 /\ i - 1 \in DOMAIN evs /\ v[i] = evs[i - 1])
  BY Pushed
<1>3. /\ DOMAIN ctx = 1 .. Len(ctx) /\ DOMAIN evs = 1 .. Len(evs)
      /\ DOMAIN c = 1 .. Len(c) /\ DOMAIN v = 1 .. Len(v)
  BY <1>1, <1>2
<1> HIDE DEF c, v
<1> SUFFICES ASSUME NEW i \in DOMAIN v, Makes(v[i])
             PROVE  \E R \in SUBSET Heaps : /\ Closed(R, edges) /\ c[i] \in R
                                            /\ \A j \in DOMAIN c : i < j => c[j] \notin R
  BY DEF SubsApart, c, v
<1>4. CASE i = 1
  <2>1. PICK R \in SUBSET Heaps : Closed(R, edges) /\ h \in R /\ R \cap ToSet(ctx) = {}
    BY <1>2, <1>4
  <2>2. ASSUME NEW j \in DOMAIN c, i < j PROVE c[j] \notin R
    <3>1. j # 1
      BY <1>4, <2>2
    <3>2. j - 1 \in DOMAIN ctx /\ c[j] = ctx[j - 1]
      BY <1>1, <3>1
    <3>3. c[j] \in ToSet(ctx)
      BY <3>2 DEF ToSet
    <3> QED BY <2>1, <3>3
  <2> QED BY <1>1, <1>4, <2>1, <2>2
<1>5. CASE i # 1
  <2>1. i > 1 /\ i - 1 \in DOMAIN evs /\ v[i] = evs[i - 1]
    BY <1>2, <1>5
  <2>2. PICK R \in SUBSET Heaps :
            /\ Closed(R, edges) /\ ctx[i - 1] \in R
            /\ \A j \in DOMAIN ctx : i - 1 < j => ctx[j] \notin R
    BY <2>1 DEF SubsApart
  <2>3. ASSUME NEW j \in DOMAIN c, i < j PROVE c[j] \notin R
    <3>1. j # 1 /\ j - 1 \in DOMAIN ctx /\ c[j] = ctx[j - 1] /\ i - 1 < j - 1
      BY <1>1, <1>2, <1>3, <2>1, <2>3
    <3> QED BY <2>2, <3>1
  <2>4. c[i] \in R
    <3>1. i \in DOMAIN c
      BY <1>1, <1>2, <1>3
    <3> QED BY <1>1, <1>5, <2>2, <3>1
  <2> QED BY <2>2, <2>3, <2>4
<1> QED
  BY <1>4, <1>5

\* ... when one is left ...
LEMMA SubsPop ==
    ASSUME NEW ctx \in Seq(Heaps), NEW evs \in Seq(EventType), Len(ctx) = Len(evs) + 1,
           NEW edges, SubsApart(ctx, evs, edges), evs # <<>>
    PROVE  /\ SubsApart(Tail(ctx), Tail(evs), edges)
           /\ Makes(evs[1]) => \E R \in SUBSET Heaps :
                /\ Closed(R, edges) /\ ctx[1] \in R /\ R \cap ToSet(Tail(ctx)) = {}
<1> DEFINE c == Tail(ctx)
           v == Tail(evs)
<1>1. ctx # <<>>
  OBVIOUS
<1>2. /\ c \in Seq(Heaps) /\ Len(ctx) = Len(c) + 1 /\ Len(c) \in Nat
      /\ 1 \in DOMAIN ctx /\ Head(ctx) = ctx[1] /\ Head(ctx) \in Heaps
      /\ \A i \in DOMAIN c : i + 1 \in DOMAIN ctx /\ c[i] = ctx[i + 1]
      /\ \A i \in DOMAIN ctx : i = 1 \/ (i > 1 /\ i - 1 \in DOMAIN c /\ ctx[i] = c[i - 1])
  BY <1>1, Popped
<1>3. /\ v \in Seq(EventType) /\ Len(evs) = Len(v) + 1 /\ Len(v) \in Nat
      /\ 1 \in DOMAIN evs /\ Head(evs) = evs[1] /\ Head(evs) \in EventType
      /\ \A i \in DOMAIN v : i + 1 \in DOMAIN evs /\ v[i] = evs[i + 1]
      /\ \A i \in DOMAIN evs : i = 1 \/ (i > 1 /\ i - 1 \in DOMAIN v /\ evs[i] = v[i - 1])
  BY Popped
<1>4. /\ DOMAIN ctx = 1 .. Len(ctx) /\ DOMAIN evs = 1 .. Len(evs)
      /\ DOMAIN c = 1 .. Len(c) /\ DOMAIN v = 1 .. Len(v)
  BY <1>2, <1>3
<1> HIDE DEF c, v
<1>5. SubsApart(c, v, edges)
  <2> SUFFICES ASSUME NEW i \in DOMAIN v, Makes(v[i])
               PROVE  \E R \in SUBSET Heaps : /\ Closed(R, edges) /\ c[i] \in R
                                              /\ \A j \in DOMAIN c : i < j => c[j] \notin R
    BY DEF SubsApart
  <2>1. i + 1 \in DOMAIN evs /\ Makes(evs[i + 1]) /\ i \in DOMAIN c
    BY <1>2, <1>3, <1>4
  <2>2. PICK R \in SUBSET Heaps :
            /\ Closed(R, edges) /\ ctx[i + 1] \in R
            /\ \A j \in DOMAIN ctx : i + 1 < j => ctx[j] \notin R
    BY <2>1 DEF SubsApart
  <2>3. ASSUME NEW j \in DOMAIN c, i < j PROVE c[j] \notin R
    <3>1. j + 1 \in DOMAIN ctx /\ c[j] = ctx[j + 1] /\ i + 1 < j + 1
      BY <1>2, <1>3, <1>4, <2>3
    <3> QED BY <2>2, <3>1
  <2>4. c[i] = ctx[i + 1]
    BY <1>2, <2>1
  <2> QED BY <2>2, <2>3, <2>4
<1>6. ASSUME Makes(evs[1])
      PROVE  \E R \in SUBSET Heaps : /\ Closed(R, edges) /\ ctx[1] \in R
                                     /\ R \cap ToSet(c) = {}
  <2>1. PICK R \in SUBSET Heaps :
            /\ Closed(R, edges) /\ ctx[1] \in R
            /\ \A j \in DOMAIN ctx : 1 < j => ctx[j] \notin R
    BY <1>3, <1>6 DEF SubsApart
  <2>2. ASSUME NEW i \in DOMAIN c PROVE c[i] \notin R
    <3>1. i + 1 \in DOMAIN ctx /\ c[i] = ctx[i + 1] /\ 1 < i + 1
      BY <1>2, <1>4
    <3> QED BY <2>1, <3>1
  <2> QED BY <2>1, <2>2 DEF ToSet
<1> QED
  BY <1>5, <1>6 DEF c, v

\* ... when edges are removed ...
LEMMA SubsLess ==
    ASSUME NEW ctx, NEW evs, NEW edges, NEW less \in SUBSET edges, SubsApart(ctx, evs, edges)
    PROVE  SubsApart(ctx, evs, less)
BY ClosedLess DEF SubsApart

\* ... and by a graft of what no block has as its heap.
LEMMA SubsGraft ==
    ASSUME NEW ctx, NEW evs, NEW edges, SubsApart(ctx, evs, edges),
           NEW more, NEW t, NEW Q \in SUBSET Heaps, Closed(Q, edges),
           Grafted(edges, more, t, Q), Q \cap ToSet(ctx) = {}
    PROVE  SubsApart(ctx, evs, more)
<1> SUFFICES ASSUME NEW i \in DOMAIN evs, Makes(evs[i])
             PROVE  \E R \in SUBSET Heaps : /\ Closed(R, more) /\ ctx[i] \in R
                                            /\ \A j \in DOMAIN ctx : i < j => ctx[j] \notin R
  BY DEF SubsApart
<1>1. PICK R \in SUBSET Heaps : /\ Closed(R, edges) /\ ctx[i] \in R
                                /\ \A j \in DOMAIN ctx : i < j => ctx[j] \notin R
  BY DEF SubsApart
<1>2. Closed(R \cup Q, more)
  BY <1>1, ClosedGraft
<1>3. \A j \in DOMAIN ctx : i < j => ctx[j] \notin R \cup Q
  BY <1>1 DEF ToSet
<1> QED
  BY <1>1, <1>2, <1>3

------------------------------------------------------------------------------
(* The releases under way.                                                  *)

FrameType == [heap : Heaps, batch : Seq(Allocs), leaves : BOOLEAN]

FrameHeaps(fr) == {fr[i].heap : i \in DOMAIN fr}

\* The heaps of sub heap blocks that are being left.
Leavers(fr) == {fr[i].heap : i \in {j \in DOMAIN fr : fr[j].leaves}}

\* No heap is released twice; the release of the fiber's heap is the first.
FramesDiffer(fr) ==
    /\ fr \in Seq(FrameType)
    /\ \A i, j \in DOMAIN fr : fr[i].heap = fr[j].heap => i = j
    /\ \A i \in DOMAIN fr : fr[i].heap = Root => i = Len(fr)

\* A release begins.
LEMMA FramesPush ==
    ASSUME NEW fr, FramesDiffer(fr), NEW f \in FrameType, f.heap \notin FrameHeaps(fr),
           f.heap = Root => fr = <<>>
    PROVE  /\ FramesDiffer(<<f>> \o fr)
           /\ FrameHeaps(<<f>> \o fr) = FrameHeaps(fr) \cup {f.heap}
           /\ Leavers(<<f>> \o fr) = Leavers(fr) \cup {x \in {f.heap} : f.leaves}
<1> DEFINE r == <<f>> \o fr
<1>1. fr \in Seq(FrameType)
  BY DEF FramesDiffer
<1>2. /\ r \in Seq(FrameType) /\ Len(r) = Len(fr) + 1 /\ Len(fr) \in Nat
      /\ r # <<>> /\ r[1] = f /\ 1 \in DOMAIN r
      /\ \A i \in DOMAIN fr : i + 1 \in DOMAIN r /\ r[i + 1] = fr[i]
      /\ \A i \in DOMAIN r : i = 1 \/ (i > 1 /\ i - 1 \in DOMAIN fr /\ r[i] = fr[i - 1])
  BY <1>1, Pushed
<1>3. DOMAIN r = 1 .. Len(r) /\ DOMAIN fr = 1 .. Len(fr)
  BY <1>1, <1>2
<1> HIDE DEF r
<1>4. ASSUME NEW i \in DOMAIN r, NEW j \in DOMAIN r, i < j, r[i].heap = r[j].heap PROVE FALSE
  <2>1. j - 1 \in DOMAIN fr /\ r[j] = fr[j - 1] /\ j > 1
    BY <1>2, <1>3, <1>4
  <2>2. CASE i = 1
    BY <1>2, <1>4, <2>1, <2>2 DEF FrameHeaps
  <2>3. CASE i # 1
    <3>1. i - 1 \in DOMAIN fr /\ r[i] = fr[i - 1]
      BY <1>2, <2>3
    <3>2. i - 1 = j - 1
      BY <1>4, <2>1, <3>1 DEF FramesDiffer
    <3> QED BY <1>3, <1>4, <3>2
  <2> QED BY <2>2, <2>3
<1>5. ASSUME NEW i \in DOMAIN r, r[i].heap = Root PROVE i = Len(r)
  <2>1. CASE i = 1
    <3>1. Len(fr) = 0
      BY <1>2, <1>5, <2>1
    <3> QED BY <1>2, <2>1, <3>1
  <2>2. CASE i # 1
    <3>1. i - 1 \in DOMAIN fr /\ r[i] = fr[i - 1]
      BY <1>2, <2>2
    <3>2. i - 1 = Len(fr)
      BY <1>5, <3>1 DEF FramesDiffer
    <3> QED BY <1>2, <1>3, <3>2
  <2> QED BY <2>1, <2>2
<1>6. FramesDiffer(r)
  BY <1>2, <1>3, <1>4, <1>5 DEF FramesDiffer
<1>7. FrameHeaps(r) = FrameHeaps(fr) \cup {f.heap}
  <2>1. ASSUME NEW i \in DOMAIN r PROVE r[i].heap \in FrameHeaps(fr) \cup {f.heap}
    BY <1>2 DEF FrameHeaps
  <2>2. ASSUME NEW i \in DOMAIN fr PROVE fr[i].heap \in FrameHeaps(r)
    BY <1>2 DEF FrameHeaps
  <2>3. f.heap \in FrameHeaps(r)
    BY <1>2 DEF FrameHeaps
  <2> QED BY <2>1, <2>2, <2>3 DEF FrameHeaps
<1>8. Leavers(r) = Leavers(fr) \cup {x \in {f.heap} : f.leaves}
  <2>1. ASSUME NEW i \in DOMAIN r, r[i].leaves
        PROVE  r[i].heap \in Leavers(fr) \cup {x \in {f.heap} : f.leaves}
    BY <1>2, <2>1 DEF Leavers
  <2>2. ASSUME NEW i \in DOMAIN fr, fr[i].leaves PROVE fr[i].heap \in Leavers(r)
    BY <1>2, <2>2 DEF Leavers
  <2>3. ASSUME f.leaves PROVE f.heap \in Leavers(r)
    BY <1>2, <2>3 DEF Leavers
  <2> QED BY <2>1, <2>2, <2>3 DEF Leavers
<1> QED
  BY <1>6, <1>7, <1>8 DEF r

\* A release ends.
LEMMA FramesPop ==
    ASSUME NEW fr, FramesDiffer(fr), fr # <<>>
    PROVE  /\ FramesDiffer(Tail(fr)) /\ Head(fr) \in FrameType /\ Head(fr) = fr[1]
           /\ FrameHeaps(fr) = FrameHeaps(Tail(fr)) \cup {Head(fr).heap}
           /\ Leavers(fr) = Leavers(Tail(fr)) \cup {x \in {Head(fr).heap} : Head(fr).leaves}
           /\ Head(fr).heap \notin FrameHeaps(Tail(fr))
           /\ Head(fr).heap = Root => Tail(fr) = <<>>
           /\ 1 \in DOMAIN fr
<1> DEFINE r == Tail(fr)
<1>1. fr \in Seq(FrameType)
  BY DEF FramesDiffer
<1>2. /\ r \in Seq(FrameType) /\ Len(fr) = Len(r) + 1 /\ Len(r) \in Nat
      /\ 1 \in DOMAIN fr /\ Head(fr) = fr[1] /\ Head(fr) \in FrameType
      /\ \A i \in DOMAIN r : i + 1 \in DOMAIN fr /\ r[i] = fr[i + 1]
      /\ \A i \in DOMAIN fr : i = 1 \/ (i > 1 /\ i - 1 \in DOMAIN r /\ fr[i] = r[i - 1])
  BY <1>1, Popped
<1>3. DOMAIN r = 1 .. Len(r) /\ DOMAIN fr = 1 .. Len(fr)
  BY <1>1, <1>2
<1> HIDE DEF r
<1>4. ASSUME NEW i \in DOMAIN r, NEW j \in DOMAIN r, r[i].heap = r[j].heap PROVE i = j
  <2>1. i + 1 = j + 1
    BY <1>2, <1>4 DEF FramesDiffer
  <2> QED BY <1>3, <2>1
<1>5. ASSUME NEW i \in DOMAIN r, r[i].heap = Root PROVE i = Len(r)
  <2>1. i + 1 = Len(fr)
    BY <1>2, <1>5 DEF FramesDiffer
  <2> QED BY <1>2, <1>3, <2>1
<1>6. FramesDiffer(r)
  BY <1>2, <1>4, <1>5 DEF FramesDiffer
<1>7. FrameHeaps(fr) = FrameHeaps(r) \cup {fr[1].heap}
  BY <1>2 DEF FrameHeaps
<1>8. Leavers(fr) = Leavers(r) \cup {x \in {fr[1].heap} : fr[1].leaves}
  <2>1. ASSUME NEW i \in DOMAIN fr, fr[i].leaves
        PROVE  fr[i].heap \in Leavers(r) \cup {x \in {fr[1].heap} : fr[1].leaves}
    BY <1>2, <2>1 DEF Leavers
  <2>2. ASSUME NEW i \in DOMAIN r, r[i].leaves PROVE r[i].heap \in Leavers(fr)
    BY <1>2, <2>2 DEF Leavers
  <2>3. ASSUME fr[1].leaves PROVE fr[1].heap \in Leavers(fr)
    BY <1>2, <2>3 DEF Leavers
  <2> QED BY <2>1, <2>2, <2>3 DEF Leavers
<1>9. fr[1].heap \notin FrameHeaps(r)
  <2> SUFFICES ASSUME NEW i \in DOMAIN r, r[i].heap = fr[1].heap PROVE FALSE
    BY DEF FrameHeaps
  <2>1. i + 1 = 1
    BY <1>2 DEF FramesDiffer
  <2> QED BY <1>3, <2>1
<1>10. ASSUME fr[1].heap = Root PROVE r = <<>>
  <2>1. Len(fr) = 1
    BY <1>2, <1>10 DEF FramesDiffer
  <2>2. r \in Seq(FrameType) /\ Len(fr) = Len(r) + 1 /\ Len(r) \in Nat
    BY <1>2
  <2>3. Len(r) = 0
    BY <2>1, <2>2
  <2> QED BY <2>2, <2>3
<1> QED
  BY <1>2, <1>6, <1>7, <1>8, <1>9, <1>10 DEF r

------------------------------------------------------------------------------
(* The lists of allocations.                                                *)

\* No heap is 0.
LEMMA HeapsAre == /\ 0 \notin Heaps /\ Root \in Heaps /\ Global \in Heaps /\ Root # Global
                  /\ Heaps \in SUBSET Nat /\ Allocs \in SUBSET Nat
BY FiberHeapAssumption DEF Heaps, Allocs, Root, Global

\* The list that is being freed has allocations of its heap that are not in the heap's list.
BatchOk(f, al, hp) ==
    /\ IsInjective(f.batch)
    /\ \A a \in ToSet(f.batch) : hp[a] = f.heap /\ a \notin ToSet(al[f.heap])

Batched(fr) == {a \in Allocs : \E i \in DOMAIN fr : a \in ToSet(fr[i].batch)}

\* An allocation that has a heap is in its list or in a list of it that is being freed.
Listed(al, hp, lv, fr) ==
    /\ al \in [Heaps -> Seq(Allocs)] /\ hp \in [Allocs -> Heaps \cup {0}]
    /\ fr \in Seq(FrameType)
    /\ \A a \in Allocs : hp[a] # 0 => hp[a] \in lv
    /\ \A h \in Heaps : IsInjective(al[h])
    /\ \A h \in Heaps : \A a \in ToSet(al[h]) : hp[a] = h
    /\ \A i \in DOMAIN fr : BatchOk(fr[i], al, hp)
    /\ \A a \in Allocs : hp[a] # 0 => a \in ToSet(al[hp[a]]) \/ a \in Batched(fr)

\* The elements of a list are of its type.
LEMMA ElementsAre ==
    ASSUME NEW T, NEW s \in Seq(T)
    PROVE  ToSet(s) \subseteq T
BY DEF ToSet

\* What a frame is.
LEMMA FrameIs ==
    ASSUME NEW fr \in Seq(FrameType), NEW i \in DOMAIN fr
    PROVE  fr[i].heap \in Heaps /\ fr[i].batch \in Seq(Allocs) /\ fr[i].leaves \in BOOLEAN
<1>1. fr[i] \in FrameType
  OBVIOUS
<1> QED
  BY <1>1 DEF FrameType

\* A frame on top of others.
LEMMA BatchesPush ==
    ASSUME NEW fr \in Seq(FrameType), NEW f \in FrameType, NEW al, NEW hp
    PROVE  /\ Batched(<<f>> \o fr) = Batched(fr) \cup ToSet(f.batch)
           /\ BatchOk(f, al, hp) /\ (\A i \in DOMAIN fr : BatchOk(fr[i], al, hp))
              => \A i \in DOMAIN (<<f>> \o fr) : BatchOk((<<f>> \o fr)[i], al, hp)
<1> DEFINE r == <<f>> \o fr
<1>1. /\ r \in Seq(FrameType) /\ Len(r) = Len(fr) + 1 /\ Len(fr) \in Nat
      /\ r # <<>> /\ r[1] = f /\ 1 \in DOMAIN r
      /\ \A i \in DOMAIN fr : i + 1 \in DOMAIN r /\ r[i + 1] = fr[i]
      /\ \A i \in DOMAIN r : i = 1 \/ (i > 1 /\ i - 1 \in DOMAIN fr /\ r[i] = fr[i - 1])
  BY Pushed
<1> HIDE DEF r
<1>2. ToSet(f.batch) \subseteq Allocs
  BY ElementsAre DEF FrameType
<1>3. Batched(r) = Batched(fr) \cup ToSet(f.batch)
  <2>1. ASSUME NEW i \in DOMAIN r, NEW a \in ToSet(r[i].batch), a \in Allocs
        PROVE  a \in Batched(fr) \cup ToSet(f.batch)
    BY <1>1, <2>1 DEF Batched
  <2>2. ASSUME NEW i \in DOMAIN fr, NEW a \in ToSet(fr[i].batch), a \in Allocs
        PROVE  a \in Batched(r)
    BY <1>1, <2>2 DEF Batched
  <2>3. ASSUME NEW a \in ToSet(f.batch) PROVE a \in Batched(r)
    BY <1>1, <1>2, <2>3 DEF Batched
  <2> QED BY <2>1, <2>2, <2>3 DEF Batched
<1>4. ASSUME BatchOk(f, al, hp), \A i \in DOMAIN fr : BatchOk(fr[i], al, hp)
      PROVE  \A i \in DOMAIN r : BatchOk(r[i], al, hp)
  BY <1>1, <1>4
<1> QED
  BY <1>3, <1>4 DEF r

\* The first frame and the others.
LEMMA BatchesPop ==
    ASSUME NEW fr \in Seq(FrameType), fr # <<>>, NEW al, NEW hp
    PROVE  /\ Head(fr) \in FrameType /\ Tail(fr) \in Seq(FrameType)
           /\ Batched(fr) = Batched(Tail(fr)) \cup ToSet(Head(fr).batch)
           /\ (\A i \in DOMAIN fr : BatchOk(fr[i], al, hp))
              => BatchOk(Head(fr), al, hp) /\ \A i \in DOMAIN Tail(fr) : BatchOk(Tail(fr)[i], al, hp)
<1> DEFINE r == Tail(fr)
<1>1. /\ r \in Seq(FrameType) /\ Len(fr) = Len(r) + 1 /\ Len(r) \in Nat
      /\ 1 \in DOMAIN fr /\ Head(fr) = fr[1] /\ Head(fr) \in FrameType
      /\ \A i \in DOMAIN r : i + 1 \in DOMAIN fr /\ r[i] = fr[i + 1]
      /\ \A i \in DOMAIN fr : i = 1 \/ (i > 1 /\ i - 1 \in DOMAIN r /\ fr[i] = r[i - 1])
  BY Popped
<1> HIDE DEF r
<1>2. ToSet(fr[1].batch) \subseteq Allocs
  <2>1. fr[1].batch \in Seq(Allocs)
    BY <1>1 DEF FrameType
  <2> QED BY <2>1, ElementsAre
<1>3. Batched(fr) = Batched(r) \cup ToSet(fr[1].batch)
  <2>1. ASSUME NEW i \in DOMAIN fr, NEW a \in ToSet(fr[i].batch), a \in Allocs
        PROVE  a \in Batched(r) \cup ToSet(fr[1].batch)
    BY <1>1, <2>1 DEF Batched
  <2>2. ASSUME NEW i \in DOMAIN r, NEW a \in ToSet(r[i].batch), a \in Allocs
        PROVE  a \in Batched(fr)
    BY <1>1, <2>2 DEF Batched
  <2>3. ASSUME NEW a \in ToSet(fr[1].batch) PROVE a \in Batched(fr)
    BY <1>1, <1>2, <2>3 DEF Batched
  <2> QED BY <2>1, <2>2, <2>3 DEF Batched
<1>4. ASSUME \A i \in DOMAIN fr : BatchOk(fr[i], al, hp)
      PROVE  BatchOk(fr[1], al, hp) /\ \A i \in DOMAIN r : BatchOk(r[i], al, hp)
  BY <1>1, <1>4
<1> QED
  BY <1>1, <1>3, <1>4 DEF r

\* An allocation is put into a heap.
LEMMA ListedInsert ==
    ASSUME NEW al, NEW hp, NEW lv, NEW fr, Listed(al, hp, lv, fr),
           NEW a \in Allocs, hp[a] = 0, NEW h \in Heaps, h \in lv
    PROVE  Listed([al EXCEPT ![h] = Append(@, a)], [hp EXCEPT ![a] = h], lv, fr)
<1> DEFINE al2 == [al EXCEPT ![h] = Append(@, a)]
           hp2 == [hp EXCEPT ![a] = h]
<1>1. /\ al \in [Heaps -> Seq(Allocs)] /\ hp \in [Allocs -> Heaps \cup {0}]
      /\ al[h] \in Seq(Allocs) /\ 0 \notin Heaps
  BY HeapsAre DEF Listed
<1>2. /\ \A x \in Heaps : a \notin ToSet(al[x])
      /\ \A i \in DOMAIN fr : a \notin ToSet(fr[i].batch)
  <2>1. ASSUME NEW x \in Heaps PROVE a \notin ToSet(al[x])
    BY <1>1 DEF Listed
  <2>2. ASSUME NEW i \in DOMAIN fr PROVE a \notin ToSet(fr[i].batch)
    <3>1. fr[i].heap \in Heaps /\ BatchOk(fr[i], al, hp)
      BY FrameIs DEF Listed
    <3> QED BY <1>1, <3>1 DEF BatchOk
  <2> QED BY <2>1, <2>2
<1>3. /\ Append(al[h], a) \in Seq(Allocs)
      /\ ToSet(Append(al[h], a)) = ToSet(al[h]) \cup {a}
      /\ IsInjective(al[h]) /\ a \notin ToSet(al[h]) => IsInjective(Append(al[h], a))
  BY <1>1, PutLast
<1>4. /\ al2 \in [Heaps -> Seq(Allocs)] /\ hp2 \in [Allocs -> Heaps \cup {0}]
      /\ al2[h] = Append(al[h], a) /\ \A x \in Heaps \ {h} : al2[x] = al[x]
      /\ hp2[a] = h /\ \A b \in Allocs \ {a} : hp2[b] = hp[b]
  BY <1>1, <1>3
<1> HIDE DEF al2, hp2
<1>5. \A b \in Allocs : hp2[b] # 0 => hp2[b] \in lv
  BY <1>4 DEF Listed
<1>6. ASSUME NEW x \in Heaps
      PROVE  IsInjective(al2[x]) /\ \A b \in ToSet(al2[x]) : hp2[b] = x
  <2>1. IsInjective(al[x]) /\ \A b \in ToSet(al[x]) : hp[b] = x
    BY DEF Listed
  <2>2. ToSet(al[x]) \subseteq Allocs
    BY <1>1, ElementsAre
  <2>3. CASE x = h
    BY <1>2, <1>3, <1>4, <2>1, <2>2, <2>3
  <2>4. CASE x # h
    BY <1>2, <1>4, <2>1, <2>2, <2>4
  <2> QED BY <2>3, <2>4
<1>7. ASSUME NEW i \in DOMAIN fr PROVE BatchOk(fr[i], al2, hp2)
  <2>1. BatchOk(fr[i], al, hp) /\ fr[i].heap \in Heaps /\ fr[i].batch \in Seq(Allocs)
    BY FrameIs DEF Listed
  <2>2. ToSet(fr[i].batch) \subseteq Allocs \ {a}
    BY <1>2, <2>1, ElementsAre
  <2>3. ToSet(al2[fr[i].heap]) \subseteq ToSet(al[fr[i].heap]) \cup {a}
    BY <1>3, <1>4, <2>1
  <2> QED BY <1>4, <2>1, <2>2, <2>3 DEF BatchOk
<1>8. ASSUME NEW b \in Allocs, hp2[b] # 0
      PROVE  b \in ToSet(al2[hp2[b]]) \/ b \in Batched(fr)
  <2>1. CASE b = a
    BY <1>3, <1>4, <2>1
  <2>2. CASE b # a
    <3>1. hp2[b] = hp[b] /\ hp[b] \in Heaps /\ (b \in ToSet(al[hp[b]]) \/ b \in Batched(fr))
      BY <1>1, <1>4, <1>8, <2>2 DEF Listed
    <3>2. ToSet(al[hp[b]]) \subseteq ToSet(al2[hp[b]])
      BY <1>3, <1>4, <3>1
    <3> QED BY <3>1, <3>2
  <2> QED BY <2>1, <2>2
<1>9. fr \in Seq(FrameType)
  BY DEF Listed
<1>10. Listed(al2, hp2, lv, fr)
  BY <1>4, <1>5, <1>6, <1>7, <1>8, <1>9 DEF Listed
<1> QED
  BY <1>10 DEF al2, hp2

\* An allocation is taken out of its heap.
LEMMA ListedRemove ==
    ASSUME NEW al, NEW hp, NEW lv, Listed(al, hp, lv, <<>>), NEW a \in Allocs, hp[a] # 0
    PROVE  Listed([al EXCEPT ![hp[a]] = Unlisted(@, a)], [hp EXCEPT ![a] = 0], lv, <<>>)
<1> DEFINE h == hp[a]
           al2 == [al EXCEPT ![h] = Unlisted(@, a)]
           hp2 == [hp EXCEPT ![a] = 0]
<1>1. /\ al \in [Heaps -> Seq(Allocs)] /\ hp \in [Allocs -> Heaps \cup {0}]
      /\ h \in Heaps /\ al[h] \in Seq(Allocs) /\ 0 \notin Heaps
  BY HeapsAre DEF Listed
<1>2. IsInjective(al[h]) /\ a \in ToSet(al[h])
  <2>1. Batched(<<>>) = {}
    BY DEF Batched
  <2> QED BY <1>1, <2>1 DEF Listed
<1>3. /\ Unlisted(al[h], a) \in Seq(Allocs) /\ IsInjective(Unlisted(al[h], a))
      /\ ToSet(Unlisted(al[h], a)) = ToSet(al[h]) \ {a}
  BY <1>1, <1>2, UnlistedIs
<1>4. /\ al2 \in [Heaps -> Seq(Allocs)] /\ hp2 \in [Allocs -> Heaps \cup {0}]
      /\ al2[h] = Unlisted(al[h], a) /\ \A x \in Heaps \ {h} : al2[x] = al[x]
      /\ hp2[a] = 0 /\ \A b \in Allocs \ {a} : hp2[b] = hp[b]
  BY <1>1, <1>3
<1> HIDE DEF al2, hp2
<1>5. \A b \in Allocs : hp2[b] # 0 => hp2[b] \in lv
  BY <1>4 DEF Listed
<1>6. ASSUME NEW x \in Heaps
      PROVE  IsInjective(al2[x]) /\ \A b \in ToSet(al2[x]) : hp2[b] = x
  <2>1. IsInjective(al[x]) /\ \A b \in ToSet(al[x]) : hp[b] = x
    BY DEF Listed
  <2>2. ToSet(al[x]) \subseteq Allocs
    BY <1>1, ElementsAre
  <2>3. CASE x = h
    BY <1>3, <1>4, <2>1, <2>2, <2>3
  <2>4. CASE x # h
    BY <1>4, <2>1, <2>2, <2>4
  <2> QED BY <2>3, <2>4
<1>7. ASSUME NEW b \in Allocs, hp2[b] # 0
      PROVE  b \in ToSet(al2[hp2[b]]) \/ b \in Batched(<<>>)
  <2>1. b # a /\ hp2[b] = hp[b] /\ hp[b] \in Heaps /\ (b \in ToSet(al[hp[b]]) \/ b \in Batched(<<>>))
    BY <1>1, <1>4, <1>7 DEF Listed
  <2>2. ToSet(al[hp[b]]) \subseteq ToSet(al2[hp[b]]) \cup {a}
    BY <1>3, <1>4, <2>1
  <2> QED BY <2>1, <2>2
<1>8. <<>> \in Seq(FrameType) /\ DOMAIN <<>> = {}
  OBVIOUS
<1>9. Listed(al2, hp2, lv, <<>>)
  BY <1>4, <1>5, <1>6, <1>7, <1>8 DEF Listed
<1> QED
  BY <1>9 DEF al2, hp2

\* The next allocation of the list that is being freed is taken.
LEMMA ListedTake ==
    ASSUME NEW al, NEW hp, NEW lv, NEW fr, Listed(al, hp, lv, fr), FramesDiffer(fr),
           fr # <<>>, Head(fr).batch # <<>>
    PROVE  LET a == Head(Head(fr).batch) IN
           /\ a \in Allocs /\ hp[a] = Head(fr).heap
           /\ Listed(al, [hp EXCEPT ![a] = 0], lv,
                     <<[Head(fr) EXCEPT !.batch = Tail(@)]>> \o Tail(fr))
<1> DEFINE f == Head(fr)
           r == Tail(fr)
           a == Head(f.batch)
           f2 == [f EXCEPT !.batch = Tail(@)]
           hp2 == [hp EXCEPT ![a] = 0]
<1>1. /\ al \in [Heaps -> Seq(Allocs)] /\ hp \in [Allocs -> Heaps \cup {0}]
      /\ fr \in Seq(FrameType) /\ 0 \notin Heaps
      /\ \A i \in DOMAIN fr : BatchOk(fr[i], al, hp)
  BY HeapsAre DEF Listed
<1>2. /\ f \in FrameType /\ r \in Seq(FrameType)
      /\ Batched(fr) = Batched(r) \cup ToSet(f.batch)
      /\ BatchOk(f, al, hp) /\ \A i \in DOMAIN r : BatchOk(r[i], al, hp)
  BY <1>1, BatchesPop
<1>3. /\ f.heap \in Heaps /\ f.batch \in Seq(Allocs) /\ f.batch # <<>>
      /\ IsInjective(f.batch)
  BY <1>2 DEF FrameType, BatchOk
<1>4. \A i \in DOMAIN r : r[i].heap # f.heap
  BY FramesPop DEF FrameHeaps
<1> HIDE DEF f, r
<1>5. /\ Tail(f.batch) \in Seq(Allocs) /\ a \in Allocs /\ a \in ToSet(f.batch)
      /\ ToSet(Tail(f.batch)) = ToSet(f.batch) \ {a}
      /\ IsInjective(Tail(f.batch))
  BY <1>3, TakeFirst
<1>6. hp[a] = f.heap /\ a \notin ToSet(al[f.heap])
  BY <1>2, <1>5 DEF BatchOk
<1>7. f2 \in FrameType /\ f2.batch = Tail(f.batch) /\ f2.heap = f.heap
  BY <1>2, <1>5 DEF FrameType
<1>8. /\ hp2 \in [Allocs -> Heaps \cup {0}] /\ hp2[a] = 0
      /\ \A b \in Allocs \ {a} : hp2[b] = hp[b]
  BY <1>1, <1>5
<1> HIDE DEF a, f2, hp2
<1>9. \A x \in Heaps : a \notin ToSet(al[x])
  BY <1>3, <1>6 DEF Listed
<1>10. BatchOk(f2, al, hp2)
  <2>1. ToSet(f2.batch) \subseteq Allocs \ {a} /\ ToSet(f2.batch) \subseteq ToSet(f.batch)
    BY <1>5, <1>7, ElementsAre
  <2> QED BY <1>2, <1>5, <1>7, <1>8, <2>1 DEF BatchOk
<1>11. ASSUME NEW i \in DOMAIN r PROVE BatchOk(r[i], al, hp2)
  <2>1. r[i].heap \in Heaps /\ r[i].batch \in Seq(Allocs) /\ r[i].heap # f.heap
    BY <1>2, <1>4, FrameIs
  <2>2. BatchOk(r[i], al, hp)
    BY <1>2
  <2>3. ToSet(r[i].batch) \subseteq Allocs \ {a}
    <3>1. ToSet(r[i].batch) \subseteq Allocs
      BY <2>1, ElementsAre
    <3> QED BY <1>6, <2>1, <2>2, <3>1 DEF BatchOk
  <2> QED BY <1>8, <2>2, <2>3 DEF BatchOk
<1>12. /\ Batched(<<f2>> \o r) = Batched(r) \cup ToSet(f2.batch)
       /\ \A i \in DOMAIN (<<f2>> \o r) : BatchOk((<<f2>> \o r)[i], al, hp2)
  BY <1>2, <1>7, <1>10, <1>11, BatchesPush
<1>13. <<f2>> \o r \in Seq(FrameType)
  BY <1>2, <1>7
<1>14. \A b \in Allocs : hp2[b] # 0 => hp2[b] \in lv
  BY <1>8 DEF Listed
<1>15. \A x \in Heaps : \A b \in ToSet(al[x]) : hp2[b] = x
  <2> TAKE x \in Heaps
  <2>1. ToSet(al[x]) \subseteq Allocs \ {a}
    BY <1>1, <1>9, ElementsAre
  <2> QED BY <1>8, <2>1 DEF Listed
<1>16. ASSUME NEW b \in Allocs, hp2[b] # 0
       PROVE  b \in ToSet(al[hp2[b]]) \/ b \in Batched(<<f2>> \o r)
  <2>1. b # a /\ hp2[b] = hp[b] /\ (b \in ToSet(al[hp[b]]) \/ b \in Batched(fr))
    BY <1>8, <1>16 DEF Listed
  <2> QED BY <1>2, <1>5, <1>7, <1>12, <2>1
<1>17. Listed(al, hp2, lv, <<f2>> \o r)
  <2>1. \A h \in Heaps : IsInjective(al[h])
    BY DEF Listed
  <2> QED BY <1>1, <1>8, <1>12, <1>13, <1>14, <1>15, <1>16, <2>1 DEF Listed
<1> QED
  BY <1>5, <1>6, <1>17 DEF f, r, a, f2, hp2

\* A release begins.
LEMMA ListedRelease ==
    ASSUME NEW al, NEW hp, NEW lv, NEW fr, Listed(al, hp, lv, fr), NEW f \in FrameType,
           f.batch = <<>>
    PROVE  Listed(al, hp, lv, <<f>> \o fr)
<1>1. fr \in Seq(FrameType) /\ \A i \in DOMAIN fr : BatchOk(fr[i], al, hp)
  BY DEF Listed
<1>2. ToSet(f.batch) = {} /\ BatchOk(f, al, hp)
  BY DEF BatchOk, ToSet, IsInjective
<1>3. /\ Batched(<<f>> \o fr) = Batched(fr) \cup ToSet(f.batch)
      /\ \A i \in DOMAIN (<<f>> \o fr) : BatchOk((<<f>> \o fr)[i], al, hp)
  BY <1>1, <1>2, BatchesPush
<1>4. <<f>> \o fr \in Seq(FrameType)
  BY <1>1
<1> DEFINE r == <<f>> \o fr
<1> HIDE DEF r
<1>5. Batched(r) = Batched(fr) /\ r \in Seq(FrameType) /\ \A i \in DOMAIN r : BatchOk(r[i], al, hp)
  BY <1>2, <1>3, <1>4 DEF r
<1>6. Listed(al, hp, lv, r)
  BY <1>5 DEF Listed
<1> QED
  BY <1>6 DEF r

\* The list of the heap is the next that is freed.
LEMMA ListedAgain ==
    ASSUME NEW al, NEW hp, NEW lv, NEW fr, Listed(al, hp, lv, fr),
           fr # <<>>, Head(fr).batch = <<>>
    PROVE  Listed([al EXCEPT ![Head(fr).heap] = <<>>], hp, lv,
                  <<[Head(fr) EXCEPT !.batch = al[Head(fr).heap]]>> \o Tail(fr))
<1> DEFINE f == Head(fr)
           r == Tail(fr)
           h == f.heap
           f2 == [f EXCEPT !.batch = al[h]]
           al2 == [al EXCEPT ![h] = <<>>]
<1>1. /\ al \in [Heaps -> Seq(Allocs)] /\ hp \in [Allocs -> Heaps \cup {0}]
      /\ fr \in Seq(FrameType) /\ 0 \notin Heaps
      /\ \A i \in DOMAIN fr : BatchOk(fr[i], al, hp)
  BY HeapsAre DEF Listed
<1>2. /\ f \in FrameType /\ r \in Seq(FrameType)
      /\ Batched(fr) = Batched(r) \cup ToSet(f.batch)
      /\ BatchOk(f, al, hp) /\ \A i \in DOMAIN r : BatchOk(r[i], al, hp)
  BY <1>1, BatchesPop
<1>3. f.batch = <<>> /\ ToSet(f.batch) = {}
  BY DEF ToSet
<1> HIDE DEF f, r
<1>4. h \in Heaps /\ al[h] \in Seq(Allocs)
  BY <1>1, <1>2 DEF FrameType
<1>5. f2 \in FrameType /\ f2.batch = al[h] /\ f2.heap = h
  BY <1>2, <1>4 DEF FrameType
<1>6. /\ al2 \in [Heaps -> Seq(Allocs)] /\ al2[h] = <<>> /\ ToSet(al2[h]) = {}
      /\ \A x \in Heaps \ {h} : al2[x] = al[x]
  BY <1>1, <1>4 DEF ToSet
<1> HIDE DEF h, f2, al2
<1>7. BatchOk(f2, al2, hp)
  BY <1>4, <1>5, <1>6 DEF BatchOk, Listed
<1>8. ASSUME NEW i \in DOMAIN r PROVE BatchOk(r[i], al2, hp)
  <2>1. r[i].heap \in Heaps /\ BatchOk(r[i], al, hp)
    BY <1>2, FrameIs
  <2> QED BY <1>6, <2>1 DEF BatchOk
<1>9. /\ Batched(<<f2>> \o r) = Batched(r) \cup ToSet(f2.batch)
      /\ \A i \in DOMAIN (<<f2>> \o r) : BatchOk((<<f2>> \o r)[i], al2, hp)
  BY <1>2, <1>5, <1>7, <1>8, BatchesPush
<1>10. <<f2>> \o r \in Seq(FrameType)
  BY <1>2, <1>5
<1>11. \A x \in Heaps : IsInjective(al2[x]) /\ \A b \in ToSet(al2[x]) : hp[b] = x
  <2> TAKE x \in Heaps
  <2>1. IsInjective(al[x]) /\ \A b \in ToSet(al[x]) : hp[b] = x
    BY DEF Listed
  <2>2. CASE x = h
    BY <1>6, <2>2 DEF IsInjective
  <2>3. CASE x # h
    BY <1>6, <2>1, <2>3
  <2> QED BY <2>2, <2>3
<1>12. ASSUME NEW b \in Allocs, hp[b] # 0
       PROVE  b \in ToSet(al2[hp[b]]) \/ b \in Batched(<<f2>> \o r)
  <2>1. hp[b] \in Heaps /\ (b \in ToSet(al[hp[b]]) \/ b \in Batched(fr))
    BY <1>1, <1>12 DEF Listed
  <2>2. CASE hp[b] = h
    BY <1>2, <1>3, <1>5, <1>9, <2>1, <2>2
  <2>3. CASE hp[b] # h
    BY <1>2, <1>3, <1>6, <1>9, <2>1, <2>3
  <2> QED BY <2>2, <2>3
<1>13. Listed(al2, hp, lv, <<f2>> \o r)
  <2>1. \A a \in Allocs : hp[a] # 0 => hp[a] \in lv
    BY DEF Listed
  <2> QED BY <1>1, <1>6, <1>9, <1>10, <1>11, <1>12, <2>1 DEF Listed
<1> QED
  BY <1>13 DEF f, r, h, f2, al2

\* A release ends.
LEMMA ListedEnds ==
    ASSUME NEW al, NEW hp, NEW lv, NEW fr, Listed(al, hp, lv, fr), FramesDiffer(fr),
           fr # <<>>, Head(fr).batch = <<>>, al[Head(fr).heap] = <<>>
    PROVE  /\ Listed(al, hp, lv \ {Head(fr).heap}, Tail(fr))
           /\ \A a \in Allocs : hp[a] # Head(fr).heap
<1> DEFINE f == Head(fr)
           r == Tail(fr)
<1>1. /\ al \in [Heaps -> Seq(Allocs)] /\ hp \in [Allocs -> Heaps \cup {0}]
      /\ fr \in Seq(FrameType) /\ 0 \notin Heaps
      /\ \A i \in DOMAIN fr : BatchOk(fr[i], al, hp)
  BY HeapsAre DEF Listed
<1>2. /\ f \in FrameType /\ r \in Seq(FrameType)
      /\ Batched(fr) = Batched(r) \cup ToSet(f.batch)
      /\ BatchOk(f, al, hp) /\ \A i \in DOMAIN r : BatchOk(r[i], al, hp)
  BY <1>1, BatchesPop
<1>3. f.batch = <<>> /\ ToSet(f.batch) = {} /\ al[f.heap] = <<>> /\ ToSet(al[f.heap]) = {}
  BY DEF ToSet
<1>4. \A i \in DOMAIN r : r[i].heap # f.heap
  BY FramesPop DEF FrameHeaps
<1> HIDE DEF f, r
<1>5. f.heap \in Heaps
  BY <1>2 DEF FrameType
<1>6. ASSUME NEW a \in Allocs, hp[a] = f.heap PROVE FALSE
  <2>1. hp[a] # 0
    BY <1>1, <1>5, <1>6
  <2>2. a \in ToSet(al[hp[a]]) \/ a \in Batched(fr)
    BY <2>1 DEF Listed
  <2>3. a \in Batched(r)
    BY <1>2, <1>3, <1>6, <2>2
  <2>4. PICK i \in DOMAIN r : a \in ToSet(r[i].batch)
    BY <2>3 DEF Batched
  <2>5. hp[a] = r[i].heap
    BY <1>2, <2>4 DEF BatchOk
  <2> QED BY <1>4, <1>6, <2>5
<1>7. Listed(al, hp, lv \ {f.heap}, r)
  <2>1. \A a \in Allocs : hp[a] # 0 => hp[a] \in lv \ {f.heap}
    BY <1>6 DEF Listed
  <2>2. Batched(r) = Batched(fr)
    BY <1>2, <1>3
  <2> QED BY <1>1, <1>2, <2>1, <2>2 DEF Listed
<1> QED
  BY <1>6, <1>7 DEF f, r

\* The list of one heap is put into another.
LEMMA ListedJoin ==
    ASSUME NEW al, NEW hp, NEW lv, Listed(al, hp, lv, <<>>), NEW src \in Heaps,
           NEW dst \in Heaps, src # dst, dst \in lv,
           NEW hp2, hp2 = [b \in Allocs |-> IF hp[b] = src THEN dst ELSE hp[b]]
    PROVE  Listed([al EXCEPT ![dst] = @ \o al[src], ![src] = <<>>], hp2, lv, <<>>)
<1> DEFINE al2 == [al EXCEPT ![dst] = @ \o al[src], ![src] = <<>>]
<1>1. /\ al \in [Heaps -> Seq(Allocs)] /\ hp \in [Allocs -> Heaps \cup {0}]
      /\ al[src] \in Seq(Allocs) /\ al[dst] \in Seq(Allocs) /\ 0 \notin Heaps
  BY HeapsAre DEF Listed
<1>2. ASSUME NEW x \in Heaps
      PROVE  /\ IsInjective(al[x]) /\ ToSet(al[x]) \subseteq Allocs
             /\ \A b \in ToSet(al[x]) : hp[b] = x
  <2>1. ToSet(al[x]) \subseteq Allocs
    BY <1>1, ElementsAre
  <2> QED BY <2>1 DEF Listed
<1>3. ToSet(al[dst]) \cap ToSet(al[src]) = {}
  BY <1>2
<1>4. /\ al[dst] \o al[src] \in Seq(Allocs) /\ IsInjective(al[dst] \o al[src])
      /\ ToSet(al[dst] \o al[src]) = ToSet(al[dst]) \cup ToSet(al[src])
  <2>1. IsInjective(al[dst]) /\ IsInjective(al[src])
    BY <1>2
  <2> QED BY <1>1, <1>3, <2>1, Joined
<1>5. /\ al2 \in [Heaps -> Seq(Allocs)] /\ al2[dst] = al[dst] \o al[src]
      /\ al2[src] = <<>> /\ ToSet(al2[src]) = {} /\ IsInjective(al2[src])
      /\ \A x \in Heaps \ {src, dst} : al2[x] = al[x]
  <2> DEFINE joined == al[dst] \o al[src]
  <2>1. joined \in Seq(Allocs) /\ <<>> \in Seq(Allocs)
    BY <1>4
  <2>2. al2 = [al EXCEPT ![dst] = joined, ![src] = <<>>]
    OBVIOUS
  <2> HIDE DEF joined, al2
  <2>3. /\ al2 \in [Heaps -> Seq(Allocs)] /\ al2[dst] = joined /\ al2[src] = <<>>
        /\ \A x \in Heaps \ {src, dst} : al2[x] = al[x]
    BY <1>1, <2>1, <2>2
  <2>4. ToSet(<<>>) = {} /\ IsInjective(<<>>)
    BY DEF ToSet, IsInjective
  <2> QED BY <2>3, <2>4 DEF joined
<1>6. hp2 \in [Allocs -> Heaps \cup {0}] /\ \A b \in Allocs : hp2[b] = IF hp[b] = src THEN dst ELSE hp[b]
  BY <1>1
<1> HIDE DEF al2
<1>7. \A b \in Allocs : hp2[b] # 0 => hp2[b] \in lv
  BY <1>6 DEF Listed
<1>8. ASSUME NEW x \in Heaps
      PROVE  IsInjective(al2[x]) /\ \A b \in ToSet(al2[x]) : hp2[b] = x
  <2>1. CASE x = src
    BY <1>5, <2>1
  <2>2. CASE x = dst
    <3>1. IsInjective(al2[x]) /\ ToSet(al2[x]) = ToSet(al[dst]) \cup ToSet(al[src])
      BY <1>4, <1>5, <2>2
    <3>2. ASSUME NEW b \in ToSet(al2[x]) PROVE hp2[b] = x
      BY <1>2, <1>6, <2>2, <3>1, <3>2
    <3> QED BY <3>1, <3>2
  <2>3. CASE x # src /\ x # dst
    <3>1. al2[x] = al[x]
      BY <1>5, <2>3
    <3> QED BY <1>2, <1>6, <2>3, <3>1
  <2> QED BY <2>1, <2>2, <2>3
<1>9. ASSUME NEW b \in Allocs, hp2[b] # 0 PROVE b \in ToSet(al2[hp2[b]]) \/ b \in Batched(<<>>)
  <2>1. CASE hp[b] = src
    <3>1. b \in ToSet(al[src]) \/ b \in Batched(<<>>)
      BY <1>1, <2>1 DEF Listed
    <3> QED BY <1>4, <1>5, <1>6, <2>1, <3>1
  <2>2. CASE hp[b] # src
    <3>1. hp2[b] = hp[b] /\ hp[b] \in Heaps
      BY <1>1, <1>6, <1>9, <2>2
    <3>2. b \in ToSet(al[hp[b]]) \/ b \in Batched(<<>>)
      BY <1>9, <3>1 DEF Listed
    <3>3. ToSet(al[hp[b]]) \subseteq ToSet(al2[hp[b]])
      <4>1. CASE hp[b] = dst
        BY <1>4, <1>5, <4>1
      <4>2. CASE hp[b] # dst
        BY <1>5, <2>2, <3>1, <4>2
      <4> QED BY <4>1, <4>2
    <3> QED BY <3>1, <3>2, <3>3
  <2> QED BY <2>1, <2>2
<1>10. <<>> \in Seq(FrameType) /\ DOMAIN <<>> = {}
  OBVIOUS
<1>11. Listed(al2, hp2, lv, <<>>)
  BY <1>5, <1>6, <1>7, <1>8, <1>9, <1>10 DEF Listed
<1> QED
  BY <1>11 DEF al2

\* More heaps exist.
LEMMA ListedLive ==
    ASSUME NEW al, NEW hp, NEW lv, NEW fr, Listed(al, hp, lv, fr), NEW lv2, lv \subseteq lv2
    PROVE  Listed(al, hp, lv2, fr)
BY DEF Listed

------------------------------------------------------------------------------
(* The inductive invariant.                                                 *)

Typed ==
    /\ live \subseteq Heaps /\ away \subseteq Heaps /\ Global \in away
    /\ parent \in [Heaps -> Heaps \cup {0}]
    /\ kind \in [Allocs -> {"free", "plain", "object", "handle"}]
    /\ heap \in [Allocs -> Heaps \cup {0}]
    /\ handle \in [Allocs -> Heaps \cup {0}]
    /\ current \in Heaps /\ thrown \in Heaps \cup {0}
    /\ \A a \in Allocs : handle[a] # 0 => kind[a] = "handle"
    /\ \A a \in Allocs : kind[a] = "free" <=> heap[a] = 0

OneHandle(hd) == \A a, b \in Allocs : hd[a] = hd[b] /\ hd[a] # 0 => a = b

Sorts == {"fiber", "block", "handle", "other", "mitosis", "exception", "release", "none"}

\* own says of each heap which of the sets it is in: it is in one.
OwnedBy(own, F, B, H, O, M, X, R, N) ==
    /\ own \in [Heaps -> Sorts]
    /\ \A h \in Heaps :
        /\ own[h] = "fiber" <=> h \in F
        /\ own[h] = "block" <=> h \in B
        /\ own[h] = "handle" <=> h \in H
        /\ own[h] = "other" <=> h \in O
        /\ own[h] = "mitosis" <=> h \in M
        /\ own[h] = "exception" <=> h \in X
        /\ own[h] = "release" <=> h \in R
        /\ own[h] = "none" <=> h \in N

\* In a heap one heap is nested at most.
OneNested(par) == \A x, y \in Heaps : par[x] = par[y] /\ par[x] # 0 => x = y

Nested(par) == {h \in Heaps : par[h] # 0}
Handled(hd) == {hd[a] : a \in Allocs} \ {0}
Released(fr, par) == {h \in FrameHeaps(fr) : h # Root /\ par[h] = 0}

\* Every heap has one owner or, if it does not exist, none.
Owned(own) ==
    OwnedBy(own, {Root} \cap live, Nested(parent), Handled(handle), away, NewHeaps(events),
            {thrown} \ {0}, Released(frames, parent), Heaps \ live)

Base(own) ==
    /\ Typed
    /\ Listed(allocs, heap, live, frames)
    /\ FramesDiffer(frames)
    /\ OneHandle(handle) /\ OneNested(parent)
    /\ Owned(own)
    /\ in_use = ({parent[h] : h \in Heaps} \ {0}) \cup FrameHeaps(frames)
    /\ Founded(Edges)

\* Heap x ends without any heap of set S.
HeapApart(x, S, edges) ==
    \E R \in SUBSET Heaps : Closed(R, edges) /\ x \in R /\ R \cap S = {}

\* The heaps fh that are being released, but for that of the fiber, end without any heap of
\* a block.
FramesApart(fh, ctx, edges) ==
    \/ fh = {} \/ Root \in fh
    \/ \E R \in SUBSET Heaps : Closed(R, edges) /\ fh \subseteq R /\ R \cap ToSet(ctx) = {}

\* ctx are the heaps of the blocks the fiber is in.  While a sub heap is released that is
\* left, it is current and no more one of them.
Running(ctx) ==
    /\ Blocks(ctx, events, parent)
    /\ ctx[1] = IF Leavers(frames) = {} THEN current ELSE parent[current]
    /\ ToSet(ctx) \subseteq live
    /\ Nested(parent) \subseteq SubHeaps(ctx, events) \cup Leavers(frames)
    /\ SubsApart(ctx, events, Edges)
    /\ Leavers(frames) = FrameHeaps(frames) \cap Nested(parent)
    /\ Leavers(frames) \subseteq {current}
    /\ Root \in FrameHeaps(frames) => events = <<>> /\ current = Root /\ thrown = 0
    /\ FramesApart(FrameHeaps(frames), ctx, Edges)
    /\ thrown # 0 => /\ FreeAllocs # {} /\ \E i \in DOMAIN events : events[i].type = "try"
                     /\ HeapApart(thrown, Outside(ctx, events), Edges)

------------------------------------------------------------------------------
(* What follows from it.                                                    *)

\* Set S with x if "is", without it if not.
With(S, x, is) == IF is THEN S \cup {x} ELSE S \ {x}

\* A heap passes from one owner to another.
LEMMA OwnedPass ==
    ASSUME NEW own, NEW F, NEW B, NEW H, NEW O, NEW M, NEW X, NEW R, NEW N,
           OwnedBy(own, F, B, H, O, M, X, R, N), NEW x \in Heaps, NEW s \in Sorts
    PROVE  OwnedBy([own EXCEPT ![x] = s],
                   With(F, x, s = "fiber"), With(B, x, s = "block"), With(H, x, s = "handle"),
                   With(O, x, s = "other"), With(M, x, s = "mitosis"),
                   With(X, x, s = "exception"), With(R, x, s = "release"),
                   With(N, x, s = "none"))
<1> DEFINE own2 == [own EXCEPT ![x] = s]
<1>1. /\ own2 \in [Heaps -> Sorts] /\ own2[x] = s
      /\ \A h \in Heaps \ {x} : own2[h] = own[h]
  BY DEF OwnedBy
<1> HIDE DEF own2
<1>2. ASSUME NEW S, NEW t, \A h \in Heaps : own[h] = t <=> h \in S
      PROVE  \A h \in Heaps : own2[h] = t <=> h \in With(S, x, s = t)
  <2> TAKE h \in Heaps
  <2>1. CASE h = x
    BY <1>1, <2>1 DEF With
  <2>2. CASE h # x
    <3>1. own2[h] = own[h] /\ (own[h] = t <=> h \in S)
      BY <1>1, <1>2, <2>2
    <3> QED BY <2>2, <3>1 DEF With
  <2> QED BY <2>1, <2>2
<1>3. /\ \A h \in Heaps : own2[h] = "fiber" <=> h \in With(F, x, s = "fiber")
      /\ \A h \in Heaps : own2[h] = "block" <=> h \in With(B, x, s = "block")
      /\ \A h \in Heaps : own2[h] = "handle" <=> h \in With(H, x, s = "handle")
      /\ \A h \in Heaps : own2[h] = "other" <=> h \in With(O, x, s = "other")
  BY <1>2 DEF OwnedBy
<1>4. /\ \A h \in Heaps : own2[h] = "mitosis" <=> h \in With(M, x, s = "mitosis")
      /\ \A h \in Heaps : own2[h] = "exception" <=> h \in With(X, x, s = "exception")
      /\ \A h \in Heaps : own2[h] = "release" <=> h \in With(R, x, s = "release")
      /\ \A h \in Heaps : own2[h] = "none" <=> h \in With(N, x, s = "none")
  BY <1>2 DEF OwnedBy
<1>5. OwnedBy(own2, With(F, x, s = "fiber"), With(B, x, s = "block"), With(H, x, s = "handle"),
              With(O, x, s = "other"), With(M, x, s = "mitosis"),
              With(X, x, s = "exception"), With(R, x, s = "release"), With(N, x, s = "none"))
  BY <1>1, <1>3, <1>4 DEF OwnedBy
<1> QED
  BY <1>5 DEF own2

\* No heap has two owners.
LEMMA OwnersDiffer ==
    ASSUME NEW own, NEW F, NEW B, NEW H, NEW O, NEW M, NEW X, NEW R, NEW N,
           OwnedBy(own, F, B, H, O, M, X, R, N), NEW h \in Heaps
    PROVE  /\ h \in F => h \notin B \cup H \cup O \cup M \cup X \cup R \cup N
           /\ h \in B => h \notin F \cup H \cup O \cup M \cup X \cup R \cup N
           /\ h \in H => h \notin F \cup B \cup O \cup M \cup X \cup R \cup N
           /\ h \in O => h \notin F \cup B \cup H \cup M \cup X \cup R \cup N
           /\ h \in M => h \notin F \cup B \cup H \cup O \cup X \cup R \cup N
           /\ h \in X => h \notin F \cup B \cup H \cup O \cup M \cup R \cup N
           /\ h \in R => h \notin F \cup B \cup H \cup O \cup M \cup X \cup N
           /\ h \in N => h \notin F \cup B \cup H \cup O \cup M \cup X \cup R
BY DEF OwnedBy

\* The edges are between heaps.
LEMMA EdgesAre ==
    ASSUME Typed
    PROVE  /\ Edges \subseteq Heaps \X Heaps
           /\ \A a \in Allocs : handle[a] # 0 => <<heap[a], handle[a]>> \in Edges
           /\ \A e \in Edges : \E a \in Allocs : handle[a] # 0 /\ e = <<heap[a], handle[a]>>
<1>1. \A a \in Allocs : handle[a] # 0 => heap[a] \in Heaps /\ handle[a] \in Heaps
  BY DEF Typed
<1> QED
  BY <1>1 DEF Edges

\* What ends with heaps is closed.
LEMMA ReachIs ==
    ASSUME Typed, NEW hs \in SUBSET Heaps
    PROVE  ReachOf(hs) \in SUBSET Heaps /\ hs \subseteq ReachOf(hs) /\ Closed(ReachOf(hs), Edges)
<1> DEFINE pairs == {<<heap[a], handle[a]>> : a \in Allocated}
<1>1. \A a \in Allocated : heap[a] \in Heaps /\ handle[a] \in Heaps \cup {0}
  BY DEF Typed, Allocated, FreeAllocs
<1>2. pairs \in SUBSET (Heaps \X (Heaps \cup {0}))
  BY <1>1
<1>3. ReachOf(hs) = Found(hs, pairs)
  BY DEF ReachOf
<1>4. ASSUME NEW e \in Edges PROVE e \in pairs /\ e[2] # 0
  <2>1. PICK a \in Allocs : handle[a] # 0 /\ e = <<heap[a], handle[a]>>
    BY EdgesAre
  <2>2. a \in Allocated
    BY <2>1 DEF Typed, Allocated, FreeAllocs
  <2> QED BY <2>1, <2>2
<1> HIDE DEF pairs
<1>5. /\ Found(hs, pairs) \subseteq Heaps
      /\ hs \subseteq Found(hs, pairs)
      /\ \A e \in pairs : e[1] \in Found(hs, pairs) /\ e[2] # 0 => e[2] \in Found(hs, pairs)
  BY <1>2, FoundIs
<1> QED
  BY <1>3, <1>4, <1>5 DEF Closed

\* The chain of a heap has the heap and is closed towards parents.
LEMMA ChainIs ==
    ASSUME Typed, NEW h \in Heaps
    PROVE  /\ Chain(h) \in SUBSET Heaps /\ h \in Chain(h)
           /\ \A x \in Chain(h) : parent[x] # 0 => parent[x] \in Chain(h)
           /\ \A S \in SUBSET Heaps :
                h \in S /\ (\A x \in S : parent[x] # 0 => parent[x] \in S) => Chain(h) \subseteq S
<1> DEFINE pairs == {<<x, parent[x]>> : x \in Heaps}
<1>1. pairs \in SUBSET (Heaps \X (Heaps \cup {0}))
  BY DEF Typed
<1>2. Chain(h) = Found({h}, pairs)
  BY DEF Chain
<1>3. \A x \in Heaps : <<x, parent[x]>> \in pairs
  OBVIOUS
<1>4. \A e \in pairs : e[2] = parent[e[1]]
  OBVIOUS
<1> HIDE DEF pairs
<1>5. {h} \in SUBSET Heaps
  OBVIOUS
<1>6. /\ Found({h}, pairs) \subseteq Heaps
      /\ {h} \subseteq Found({h}, pairs)
      /\ \A e \in pairs : e[1] \in Found({h}, pairs) /\ e[2] # 0 => e[2] \in Found({h}, pairs)
  BY <1>1, <1>5, FoundIs
<1>7. ASSUME NEW x \in Found({h}, pairs), parent[x] # 0 PROVE parent[x] \in Found({h}, pairs)
  <2> DEFINE e == <<x, parent[x]>>
  <2>1. e \in pairs /\ e[1] = x /\ e[2] = parent[x]
    BY <1>3, <1>6
  <2> QED BY <1>6, <1>7, <2>1
<1>8. ASSUME NEW S \in SUBSET Heaps, h \in S, \A x \in S : parent[x] # 0 => parent[x] \in S
      PROVE  Found({h}, pairs) \subseteq S
  <2>1. \A e \in pairs : e[1] \in S /\ e[2] # 0 => e[2] \in S
    BY <1>8, <1>4
  <2>2. {h} \subseteq S
    BY <1>8
  <2> QED BY <1>1, <1>5, <2>1, <2>2, FoundLeast
<1> QED
  BY <1>2, <1>6, <1>7, <1>8

\* The program is inside of the blocks of ctx.
LEMMA InsideIs ==
    ASSUME Typed, NEW ctx, Blocks(ctx, events, parent), ctx[1] = current
    PROVE  ToSet(ctx) \subseteq Inside
<1> DEFINE outer == {events[i].prev : i \in {j \in DOMAIN events : events[j].prev # 0}}
           tops == outer \cup {current}
<1>1. /\ ctx \in Seq(Heaps) /\ events \in Seq(EventType) /\ Len(ctx) = Len(events) + 1
      /\ Len(events) \in Nat /\ DOMAIN ctx = 1 .. Len(ctx) /\ DOMAIN events = 1 .. Len(events)
      /\ \A i \in DOMAIN events : Enters(events[i], ctx[i], ctx[i + 1], parent)
  BY DEF Blocks
<1>2. Inside = UNION {Chain(h) : h \in tops}
  BY DEF Inside
<1>3. ASSUME NEW h \in Heaps, h \in tops PROVE h \in Inside
  BY <1>2, <1>3, ChainIs
<1>4. ASSUME NEW x \in Inside, parent[x] # 0 PROVE parent[x] \in Inside
  <2>1. PICK h \in tops : x \in Chain(h)
    BY <1>2
  <2>2. h \in Heaps
    <3>1. \A i \in DOMAIN events : events[i].prev \in Heaps \cup {0}
      <4> TAKE i \in DOMAIN events
      <4>1. events[i] \in EventType
        BY <1>1
      <4> QED BY <4>1 DEF EventType
    <3> QED BY <3>1 DEF Typed
  <2>3. parent[x] \in Chain(h)
    BY <1>4, <2>1, <2>2, ChainIs
  <2> QED BY <1>2, <2>3
<1>5. \A i \in DOMAIN events : events[i].prev # 0 => events[i].prev \in tops
  OBVIOUS
<1>6. current \in tops /\ current \in Heaps
  BY DEF Typed
<1> HIDE DEF tops, outer
<1> DEFINE S == {i \in DOMAIN ctx : ctx[i] \notin Inside}
<1>7. S = {}
  <2> SUFFICES ASSUME S # {} PROVE FALSE
    OBVIOUS
  <2>1. PICK i \in S : \A j \in S : i <= j
    <3>1. S \in SUBSET Nat
      BY <1>1
    <3> QED BY <3>1, LeastOf
  <2>2. i # 1
    BY <1>3, <1>6
  <2>3. i - 1 \in DOMAIN ctx /\ i - 1 \notin S /\ i - 1 \in DOMAIN events /\ (i - 1) + 1 = i
    BY <1>1, <2>1, <2>2
  <2>4. ctx[i - 1] \in Inside
    BY <2>3
  <2>5. /\ Enters(events[i - 1], ctx[i - 1], ctx[i], parent)
        /\ events[i - 1] \in EventType /\ ctx[i] \in Heaps
    <3>1. Enters(events[i - 1], ctx[i - 1], ctx[(i - 1) + 1], parent)
      BY <1>1, <2>3
    <3>2. events[i - 1] \in EventType
      BY <1>1, <2>3
    <3>3. ctx[i] \in Heaps
      BY <1>1
    <3> QED BY <2>3, <3>1, <3>2, <3>3
  <2>6. ctx[i] \notin Inside /\ ctx[i] # 0
    BY <2>5, HeapsAre
  <2>7. events[i - 1].type \in BlockType
    BY <2>5 DEF EventType
  <2>8. CASE events[i - 1].type = "sub"
    BY <1>4, <2>4, <2>5, <2>6, <2>8 DEF Enters
  <2>9. CASE events[i - 1].type = "try"
    BY <2>4, <2>5, <2>6, <2>9 DEF Enters
  <2>10. CASE events[i - 1].type \in {"switch", "mitosis", "emitosis"}
    <3>1. events[i - 1].prev = ctx[i]
      BY <2>5, <2>10 DEF Enters
    <3>2. ctx[i] \in tops
      BY <1>5, <2>3, <2>6, <3>1
    <3> QED BY <1>3, <2>5, <2>6, <3>2
  <2> QED BY <2>7, <2>8, <2>9, <2>10 DEF BlockType
<1> QED
  BY <1>7 DEF ToSet

\* The innermost and the outermost heap of the blocks.
LEMMA ContextIs ==
    ASSUME NEW ctx, Running(ctx)
    PROVE  /\ ctx \in Seq(Heaps) /\ events \in Seq(EventType) /\ Len(ctx) = Len(events) + 1
           /\ Root \in ToSet(ctx) /\ Root \in live
           /\ ctx[1] \in ToSet(ctx) /\ ctx[1] \in Heaps /\ ctx[1] \in live
           /\ ToSet(ctx) \subseteq Heaps
<1>1. /\ ctx \in Seq(Heaps) /\ events \in Seq(EventType) /\ Len(ctx) = Len(events) + 1
      /\ ctx[Len(ctx)] = Root /\ ToSet(ctx) \subseteq live
  BY DEF Running, Blocks
<1>2. Len(ctx) \in DOMAIN ctx /\ 1 \in DOMAIN ctx
  BY <1>1
<1>3. ToSet(ctx) \subseteq Heaps
  BY <1>1, ElementsAre
<1> QED
  BY <1>1, <1>2, <1>3 DEF ToSet

\* What is handled, released or nested.
LEMMA SetsAre ==
    ASSUME NEW own, Base(own), NEW ctx, Running(ctx)
    PROVE  /\ \A h \in FrameHeaps(frames) : h \in Heaps /\ h \in live
           /\ FrameHeaps(frames) \subseteq
                {Root} \cup Nested(parent) \cup Released(frames, parent)
           /\ \A a \in Allocs : handle[a] # 0 =>
                handle[a] \in Heaps /\ handle[a] \in live /\ handle[a] \in Handled(handle)
           /\ Nested(parent) \subseteq live
<1>1. Typed /\ Owned(own) /\ frames \in Seq(FrameType)
  BY DEF Base, FramesDiffer
<1>2. FrameHeaps(frames) \subseteq Heaps
  BY <1>1, FrameIs DEF FrameHeaps
<1>3. FrameHeaps(frames) \subseteq {Root} \cup Nested(parent) \cup Released(frames, parent)
  BY <1>2 DEF Nested, Released
<1>4. ASSUME NEW a \in Allocs, handle[a] # 0
      PROVE  handle[a] \in Heaps /\ handle[a] \in Handled(handle)
  BY <1>1, <1>4 DEF Typed, Handled
<1>5. Nested(parent) \subseteq Heaps
  BY DEF Nested
<1> DEFINE F == {Root} \cap live
           B == Nested(parent)
           H == Handled(handle)
           O == away
           M == NewHeaps(events)
           X == {thrown} \ {0}
           R == Released(frames, parent)
           N == Heaps \ live
<1>6. OwnedBy(own, F, B, H, O, M, X, R, N)
  BY <1>1 DEF Owned
<1> HIDE DEF F, B, H, O, M, X, R
<1>7. \A h \in Heaps : h \in B \cup H \cup R => h \in live
  BY <1>6, OwnersDiffer
<1>8. Root \in live
  BY ContextIs
<1> QED
  BY <1>2, <1>3, <1>4, <1>5, <1>7, <1>8 DEF B, H, R

\* Heaps are nested in those of blocks, and in none when the fiber's heap is released.
LEMMA ParentsAre ==
    ASSUME NEW own, Base(own), NEW ctx, Running(ctx), NEW y \in Heaps, parent[y] # 0
    PROVE  parent[y] \in ToSet(ctx) /\ Root \notin FrameHeaps(frames)
<1>1. y \in SubHeaps(ctx, events) \cup Leavers(frames) /\ y \in Nested(parent)
  BY DEF Running, Nested
<1>2. Blocks(ctx, events, parent) /\ DOMAIN events = 1 .. Len(events)
      /\ DOMAIN ctx = 1 .. Len(events) + 1 /\ Len(events) \in Nat
  BY DEF Running, Blocks
<1>3. CASE y \in SubHeaps(ctx, events)
  <2>1. PICK i \in DOMAIN events : events[i].type = "sub" /\ y = ctx[i]
    BY <1>3 DEF SubHeaps
  <2>2. Enters(events[i], ctx[i], ctx[i + 1], parent)
    BY <1>2 DEF Blocks
  <2>3. parent[y] = ctx[i + 1] /\ i + 1 \in DOMAIN ctx
    BY <1>2, <2>1, <2>2 DEF Enters
  <2>4. events # <<>>
    BY <2>1
  <2> QED BY <2>3, <2>4 DEF ToSet, Running
<1>4. CASE y \in Leavers(frames)
  <2>1. y = current /\ parent[y] = ctx[1]
    BY <1>4 DEF Running
  <2>2. ctx[1] \in ToSet(ctx)
    BY ContextIs
  <2>3. current # Root
    <3>1. Root \in {Root} \cap live
      BY ContextIs
    <3>2. Root \notin Nested(parent)
      BY <3>1, HeapsAre DEF Base, Owned, OwnedBy
    <3> QED BY <1>1, <2>1, <3>2
  <2> QED BY <2>1, <2>2, <2>3 DEF Running
<1> QED
  BY <1>1, <1>3, <1>4

\* A heap that a handle has and no block is not in use.
LEMMA HandledUnused ==
    ASSUME NEW own, Base(own), NEW ctx, Running(ctx), NEW x \in Handled(handle), x \in Heaps,
           x \notin ToSet(ctx) \/ Root \in FrameHeaps(frames)
    PROVE  /\ x \notin in_use /\ x \notin FrameHeaps(frames)
           /\ x # Root /\ parent[x] = 0 /\ x \notin away
<1>1. OwnedBy(own, {Root} \cap live, Nested(parent), Handled(handle), away, NewHeaps(events),
              {thrown} \ {0}, Released(frames, parent), Heaps \ live)
  BY DEF Base, Owned
<1>2. x \notin {Root} \cap live /\ x \notin Nested(parent)
      /\ x \notin Released(frames, parent) /\ x \notin away
  BY <1>1, OwnersDiffer
<1>3. x # Root
  BY <1>2, ContextIs
<1>4. x \notin FrameHeaps(frames)
  BY <1>2, <1>3, SetsAre
<1>5. ASSUME NEW y \in Heaps, parent[y] = x PROVE FALSE
  <2>1. parent[y] # 0
    BY <1>5, HeapsAre
  <2>2. parent[y] \in ToSet(ctx) /\ Root \notin FrameHeaps(frames)
    BY <2>1, ParentsAre
  <2> QED BY <1>5, <2>2
<1>6. in_use = ({parent[h] : h \in Heaps} \ {0}) \cup FrameHeaps(frames)
  BY DEF Base
<1>7. x \notin in_use
  BY <1>4, <1>5, <1>6
<1> QED
  BY <1>2, <1>3, <1>4, <1>7 DEF Nested

\* A handle the program may free has a heap that ends without any heap of a block.
LEMMA HandlesApart ==
    ASSUME NEW own, Base(own), NEW ctx, Running(ctx), frames = <<>>, NEW a \in Handles
    PROVE  /\ a \in Allocs /\ kind[a] = "handle" /\ heap[a] \in Heaps /\ heap[a] \in live
           /\ heap[a] \notin away
           /\ handle[a] # 0 =>
                /\ handle[a] \in Heaps /\ handle[a] \in Handled(handle)
                /\ ReachOf({handle[a]}) \in SUBSET Heaps
                /\ Closed(ReachOf({handle[a]}), Edges) /\ handle[a] \in ReachOf({handle[a]})
                /\ ReachOf({handle[a]}) \cap ToSet(ctx) = {}
<1>1. /\ a \in Mine /\ kind[a] = "handle" /\ Reach(handle[a]) \cap Inside = {}
  BY DEF Handles
<1>2. Typed /\ Listed(allocs, heap, live, frames)
  BY DEF Base
<1>3. a \in Allocated /\ heap[a] \notin Elsewhere
  BY <1>1 DEF Mine
<1>4. a \in Allocs /\ kind[a] # "free"
  BY <1>3 DEF Allocated, FreeAllocs
<1>5. heap[a] \in Heaps /\ heap[a] \in live
  BY <1>2, <1>4 DEF Typed, Listed
<1>6. heap[a] \notin away
  <2>1. away \in SUBSET Heaps
    BY <1>2 DEF Typed
  <2>2. away \subseteq ReachOf(away)
    BY <1>2, <2>1, ReachIs
  <2> QED BY <1>3, <2>2 DEF Elsewhere
<1>7. ToSet(ctx) \subseteq Inside
  <2>1. Leavers(frames) = {}
    BY DEF Leavers
  <2>2. Blocks(ctx, events, parent) /\ ctx[1] = current
    BY <2>1 DEF Running
  <2> QED BY <1>2, <2>2, InsideIs
<1>8. ASSUME handle[a] # 0
      PROVE  /\ handle[a] \in Heaps /\ handle[a] \in Handled(handle)
             /\ ReachOf({handle[a]}) \in SUBSET Heaps
             /\ Closed(ReachOf({handle[a]}), Edges) /\ handle[a] \in ReachOf({handle[a]})
             /\ ReachOf({handle[a]}) \cap ToSet(ctx) = {}
  <2>1. handle[a] \in Heaps /\ handle[a] \in Handled(handle)
    BY <1>4, <1>8, SetsAre
  <2>2. {handle[a]} \in SUBSET Heaps
    BY <2>1
  <2>3. /\ ReachOf({handle[a]}) \in SUBSET Heaps /\ {handle[a]} \subseteq ReachOf({handle[a]})
        /\ Closed(ReachOf({handle[a]}), Edges)
    BY <1>2, <2>2, ReachIs
  <2>4. ReachOf({handle[a]}) \cap ToSet(ctx) = {}
    BY <1>1, <1>7 DEF Reach
  <2> QED BY <2>1, <2>3, <2>4
<1> QED
  BY <1>1, <1>4, <1>5, <1>6, <1>8

\* When nothing is released.
LEMMA NoFrames ==
    ASSUME frames = <<>>
    PROVE  FrameHeaps(frames) = {} /\ Leavers(frames) = {} /\ FramesDiffer(frames)
           /\ Batched(frames) = {} /\ Released(frames, parent) = {}
BY DEF FrameHeaps, Leavers, FramesDiffer, Batched, Released

\* The apartness of heaps depends on the edges and on the heaps they are apart from.
LEMMA ApartLess ==
    ASSUME NEW edges, NEW less \in SUBSET edges, NEW S, NEW S2 \in SUBSET S, NEW x,
           HeapApart(x, S, edges)
    PROVE  HeapApart(x, S2, less)
<1>1. PICK R \in SUBSET Heaps : Closed(R, edges) /\ x \in R /\ R \cap S = {}
  BY DEF HeapApart
<1>2. Closed(R, less) /\ x \in R /\ R \cap S2 = {}
  BY <1>1, ClosedLess
<1> QED
  BY <1>2 DEF HeapApart

LEMMA FramesApartLess ==
    ASSUME NEW edges, NEW less \in SUBSET edges, NEW ctx, NEW ctx2,
           ToSet(ctx2) \subseteq ToSet(ctx)
    PROVE  \A fh : FramesApart(fh, ctx, edges) => FramesApart(fh, ctx2, less)
<1>1. ASSUME NEW fh, FramesApart(fh, ctx, edges), fh # {}, Root \notin fh
      PROVE  FramesApart(fh, ctx2, less)
  <2>1. PICK R \in SUBSET Heaps : Closed(R, edges) /\ fh \subseteq R /\ R \cap ToSet(ctx) = {}
    BY <1>1 DEF FramesApart
  <2>2. Closed(R, less) /\ fh \subseteq R /\ R \cap ToSet(ctx2) = {}
    BY <2>1, ClosedLess
  <2> QED BY <2>2 DEF FramesApart
<1>2. \A fh : fh = {} \/ Root \in fh => FramesApart(fh, ctx2, less)
  BY DEF FramesApart
<1> QED
  BY <1>1, <1>2

------------------------------------------------------------------------------
(* Kinds of steps.                                                          *)

\* A step that changes the allocations but neither the heaps nor who owns them.
LEMMA QuietStep ==
    ASSUME NEW own, Base(own), NEW ctx, Running(ctx),
           UNCHANGED <<live, parent, in_use, current, events, thrown, away>>,
           Handled(handle') = Handled(handle), OneHandle(handle'),
           FramesDiffer(frames'), FrameHeaps(frames') = FrameHeaps(frames),
           Leavers(frames') = Leavers(frames),
           Typed', Listed(allocs', heap', live', frames'), Founded(Edges'),
           SubsApart(ctx, events, Edges'), FramesApart(FrameHeaps(frames), ctx, Edges'),
           thrown # 0 => FreeAllocs' # {} /\ HeapApart(thrown, Outside(ctx, events), Edges')
    PROVE  Base(own)' /\ Running(ctx)'
<1>1. Released(frames', parent') = Released(frames, parent)
  BY DEF Released
<1>2. Owned(own)'
  BY <1>1 DEF Base, Owned
<1>3. in_use' = ({parent'[h] : h \in Heaps} \ {0}) \cup FrameHeaps(frames')
  BY DEF Base
<1>4. Base(own)'
  BY <1>2, <1>3 DEF Base
<1>5. /\ Blocks(ctx, events', parent')
      /\ ctx[1] = IF Leavers(frames') = {} THEN current' ELSE parent'[current']
      /\ ToSet(ctx) \subseteq live'
      /\ Nested(parent') \subseteq SubHeaps(ctx, events') \cup Leavers(frames')
      /\ Leavers(frames') = FrameHeaps(frames') \cap Nested(parent')
      /\ Leavers(frames') \subseteq {current'}
      /\ Root \in FrameHeaps(frames') => events' = <<>> /\ current' = Root /\ thrown' = 0
  BY DEF Running
<1>6. SubsApart(ctx, events', Edges') /\ FramesApart(FrameHeaps(frames'), ctx, Edges')
  OBVIOUS
<1>7. thrown' # 0 => /\ FreeAllocs' # {} /\ \E i \in DOMAIN events' : events'[i].type = "try"
                     /\ HeapApart(thrown', Outside(ctx, events'), Edges')
  BY DEF Running
<1>8. Running(ctx)'
  BY <1>5, <1>6, <1>7 DEF Running
<1> QED
  BY <1>4, <1>8

\* A step that begins the release of the heap of a handle.
LEMMA ReleaseStep ==
    ASSUME NEW own, Base(own), NEW ctx, Running(ctx),
           UNCHANGED <<live, parent, current, events, thrown, away>>,
           NEW x \in Handled(handle), x \in Heaps, x \notin ToSet(ctx) \/ Root \in FrameHeaps(frames),
           Handled(handle') = Handled(handle) \ {x}, OneHandle(handle'),
           NEW under, FramesDiffer(under), FrameHeaps(under) = FrameHeaps(frames),
           Leavers(under) = Leavers(frames),
           frames' = <<[heap |-> x, batch |-> <<>>, leaves |-> FALSE]>> \o under,
           in_use' = in_use \cup {x},
           Typed', Listed(allocs', heap', live', under), Founded(Edges'),
           SubsApart(ctx, events, Edges'), FramesApart(FrameHeaps(frames) \cup {x}, ctx, Edges'),
           thrown # 0 => FreeAllocs' # {} /\ HeapApart(thrown, Outside(ctx, events), Edges')
    PROVE  \E o : Base(o)' /\ Running(ctx)'
<1> DEFINE f == [heap |-> x, batch |-> <<>>, leaves |-> FALSE]
           o == [own EXCEPT ![x] = "release"]
<1>1. /\ x \notin in_use /\ x \notin FrameHeaps(frames)
      /\ x # Root /\ parent[x] = 0 /\ x \notin away
  BY HandledUnused
<1>2. f \in FrameType /\ f.heap = x /\ f.batch = <<>> /\ f.leaves = FALSE
  BY DEF FrameType
<1> HIDE DEF f
<1>3. /\ FramesDiffer(<<f>> \o under)
      /\ FrameHeaps(<<f>> \o under) = FrameHeaps(under) \cup {f.heap}
      /\ Leavers(<<f>> \o under) = Leavers(under) \cup {z \in {f.heap} : f.leaves}
  <2>1. f.heap \notin FrameHeaps(under) /\ (f.heap = Root => under = <<>>)
    BY <1>1, <1>2
  <2> QED BY <1>2, <2>1, FramesPush
<1>4. frames' = <<f>> \o under
  BY DEF f
<1>5. /\ FramesDiffer(frames') /\ FrameHeaps(frames') = FrameHeaps(frames) \cup {x}
      /\ Leavers(frames') = Leavers(frames)
  BY <1>2, <1>3, <1>4
<1>6. Listed(allocs', heap', live', frames')
  BY <1>2, <1>4, ListedRelease
<1>7. Released(frames', parent') = Released(frames, parent) \cup {x}
  BY <1>1, <1>5 DEF Released
<1>8. Owned(o)'
  <2>1. OwnedBy(own, {Root} \cap live, Nested(parent), Handled(handle), away, NewHeaps(events),
              {thrown} \ {0}, Released(frames, parent), Heaps \ live)
    BY DEF Base, Owned
  <2>2. /\ x \notin {Root} \cap live /\ x \notin Nested(parent) /\ x \notin away
        /\ x \notin NewHeaps(events) /\ x \notin {thrown} \ {0} /\ x \notin Heaps \ live
    BY <2>1, OwnersDiffer
  <2>3. "release" \in Sorts
    BY DEF Sorts
  <2>4. OwnedBy(o, With({Root} \cap live, x, "release" = "fiber"),
                With(Nested(parent), x, "release" = "block"),
                With(Handled(handle), x, "release" = "handle"),
                With(away, x, "release" = "other"),
                With(NewHeaps(events), x, "release" = "mitosis"),
                With({thrown} \ {0}, x, "release" = "exception"),
                With(Released(frames, parent), x, "release" = "release"),
                With(Heaps \ live, x, "release" = "none"))
    BY <2>1, <2>3, OwnedPass
  <2>5. /\ With({Root} \cap live, x, "release" = "fiber") = {Root} \cap live
        /\ With(Nested(parent), x, "release" = "block") = Nested(parent)
        /\ With(Handled(handle), x, "release" = "handle") = Handled(handle) \ {x}
        /\ With(away, x, "release" = "other") = away
        /\ With(NewHeaps(events), x, "release" = "mitosis") = NewHeaps(events)
        /\ With({thrown} \ {0}, x, "release" = "exception") = {thrown} \ {0}
        /\ With(Released(frames, parent), x, "release" = "release") = Released(frames, parent) \cup {x}
        /\ With(Heaps \ live, x, "release" = "none") = Heaps \ live
    BY <2>2 DEF With
  <2> HIDE DEF o
  <2> QED BY <1>7, <2>4, <2>5 DEF Owned
<1>9. in_use' = ({parent'[h] : h \in Heaps} \ {0}) \cup FrameHeaps(frames')
  BY <1>5 DEF Base
<1> HIDE DEF o
<1>10. Base(o)'
  BY <1>5, <1>6, <1>8, <1>9 DEF Base
<1>11. /\ Blocks(ctx, events', parent')
       /\ ctx[1] = IF Leavers(frames') = {} THEN current' ELSE parent'[current']
       /\ ToSet(ctx) \subseteq live'
       /\ Nested(parent') \subseteq SubHeaps(ctx, events') \cup Leavers(frames')
       /\ Leavers(frames') \subseteq {current'}
       /\ Root \in FrameHeaps(frames') => events' = <<>> /\ current' = Root /\ thrown' = 0
  BY <1>1, <1>5 DEF Running
<1>12. Leavers(frames') = FrameHeaps(frames') \cap Nested(parent')
  BY <1>1, <1>5 DEF Running, Nested
<1>13. SubsApart(ctx, events', Edges') /\ FramesApart(FrameHeaps(frames'), ctx, Edges')
  BY <1>5
<1>14. thrown' # 0 => /\ FreeAllocs' # {} /\ \E i \in DOMAIN events' : events'[i].type = "try"
                      /\ HeapApart(thrown', Outside(ctx, events'), Edges')
  BY DEF Running
<1>15. Running(ctx)'
  BY <1>11, <1>12, <1>13, <1>14 DEF Running
<1> QED
  BY <1>10, <1>15

\* Edges that remain when a handle loses its heap.
LEMMA EdgesLess ==
    ASSUME Typed, Typed', NEW a \in Allocs, handle' = [handle EXCEPT ![a] = 0],
           \A b \in Allocs \ {a} : heap'[b] = heap[b]
    PROVE  /\ Edges' \in SUBSET Edges
           /\ Handled(handle') = Handled(handle) \ {handle[a]} \/ ~OneHandle(handle)
           /\ OneHandle(handle) => OneHandle(handle')
<1>1. handle'[a] = 0 /\ \A b \in Allocs \ {a} : handle'[b] = handle[b]
  BY DEF Typed
<1>2. Edges' \in SUBSET Edges
  BY <1>1 DEF Edges
<1>3. OneHandle(handle) => OneHandle(handle')
  BY <1>1 DEF OneHandle
<1>4. ASSUME OneHandle(handle) PROVE Handled(handle') = Handled(handle) \ {handle[a]}
  <2>1. ASSUME NEW b \in Allocs, handle'[b] # 0 PROVE handle'[b] \in Handled(handle) \ {handle[a]}
    BY <1>1, <1>4, <2>1 DEF OneHandle, Handled
  <2>2. ASSUME NEW b \in Allocs, handle[b] # 0, handle[b] # handle[a]
        PROVE  handle[b] \in Handled(handle')
    BY <1>1, <2>2 DEF Handled
  <2> QED BY <2>1, <2>2 DEF Handled
<1> QED
  BY <1>2, <1>3, <1>4

Sound == \E o, c : Base(o) /\ Running(c)

\* The owners after a step by which heap x gets the owner s.
LEMMA OwnedStep ==
    ASSUME NEW own, Owned(own), NEW x \in Heaps, NEW s \in Sorts,
           {Root} \cap live' = With({Root} \cap live, x, s = "fiber"),
           Nested(parent') = With(Nested(parent), x, s = "block"),
           Handled(handle') = With(Handled(handle), x, s = "handle"),
           away' = With(away, x, s = "other"),
           NewHeaps(events') = With(NewHeaps(events), x, s = "mitosis"),
           {thrown'} \ {0} = With({thrown} \ {0}, x, s = "exception"),
           Released(frames', parent') = With(Released(frames, parent), x, s = "release"),
           Heaps \ live' = With(Heaps \ live, x, s = "none")
    PROVE  Owned([own EXCEPT ![x] = s])'
<1>1. OwnedBy(own, {Root} \cap live, Nested(parent), Handled(handle), away, NewHeaps(events),
              {thrown} \ {0}, Released(frames, parent), Heaps \ live)
  BY DEF Owned
<1> DEFINE o == [own EXCEPT ![x] = s]
<1>2. OwnedBy(o, With({Root} \cap live, x, s = "fiber"), With(Nested(parent), x, s = "block"),
              With(Handled(handle), x, s = "handle"), With(away, x, s = "other"),
              With(NewHeaps(events), x, s = "mitosis"), With({thrown} \ {0}, x, s = "exception"),
              With(Released(frames, parent), x, s = "release"), With(Heaps \ live, x, s = "none"))
  BY <1>1, OwnedPass
<1> HIDE DEF o
<1>3. Owned(o)'
  BY <1>2 DEF Owned
<1> QED
  BY <1>3 DEF o

\* The heaps differ by who owns them.
LEMMA HeapsDiffer ==
    ASSUME NEW own, Base(own), NEW h \in Heaps
    PROVE  /\ h \in Handled(handle) => /\ h \in live /\ h \notin {Root} \cap live /\ h \notin Nested(parent)
                                       /\ h \notin away /\ h \notin NewHeaps(events)
                                       /\ h # thrown /\ h \notin Released(frames, parent)
           /\ h \notin live => /\ h \notin Nested(parent) /\ h \notin Handled(handle)
                               /\ h \notin away /\ h \notin NewHeaps(events)
                               /\ h # thrown /\ h \notin Released(frames, parent)
           /\ h \in NewHeaps(events) => /\ h \in live /\ h \notin {Root} \cap live /\ h \notin Nested(parent)
                                        /\ h \notin Handled(handle) /\ h \notin away
                                        /\ h # thrown /\ h \notin Released(frames, parent)
           /\ h = thrown => /\ h \in live /\ h \notin {Root} \cap live /\ h \notin Nested(parent)
                            /\ h \notin Handled(handle) /\ h \notin away
                            /\ h \notin NewHeaps(events) /\ h \notin Released(frames, parent)
           /\ h \in Released(frames, parent) \cup Nested(parent) =>
                            /\ h \in live /\ h \notin {Root} \cap live /\ h \notin Handled(handle) /\ h \notin away
                            /\ h \notin NewHeaps(events) /\ h # thrown
           /\ h \in {Root} \cap live => /\ h \notin Nested(parent) /\ h \notin Handled(handle)
                            /\ h \notin away /\ h \notin NewHeaps(events) /\ h # thrown
<1> DEFINE F == {Root} \cap live
           B == Nested(parent)
           H == Handled(handle)
           O == away
           M == NewHeaps(events)
           X == {thrown} \ {0}
           R == Released(frames, parent)
           N == Heaps \ live
<1>1. OwnedBy(own, F, B, H, O, M, X, R, N)
  BY DEF Base, Owned
<1>2. h # 0 /\ (h = thrown <=> h \in X) /\ (h \notin live <=> h \in N)
  BY HeapsAre
<1> HIDE DEF F, B, H, O, M, X, R, N
<1>3. /\ h \in F => h \notin B \cup H \cup O \cup M \cup X \cup R \cup N
      /\ h \in B => h \notin F \cup H \cup O \cup M \cup X \cup R \cup N
      /\ h \in H => h \notin F \cup B \cup O \cup M \cup X \cup R \cup N
      /\ h \in M => h \notin F \cup B \cup H \cup O \cup X \cup R \cup N
      /\ h \in X => h \notin F \cup B \cup H \cup O \cup M \cup R \cup N
      /\ h \in R => h \notin F \cup B \cup H \cup O \cup M \cup X \cup N
      /\ h \in N => h \notin F \cup B \cup H \cup O \cup M \cup X \cup R
  BY <1>1, OwnersDiffer
<1>4. /\ h \in H => h \in live /\ h \notin F /\ h \notin B /\ h \notin O /\ h \notin M /\ h # thrown /\ h \notin R
      /\ h \notin live => h \notin B /\ h \notin H /\ h \notin O /\ h \notin M /\ h # thrown /\ h \notin R
      /\ h \in M => h \in live /\ h \notin F /\ h \notin B /\ h \notin H /\ h \notin O /\ h # thrown /\ h \notin R
      /\ h = thrown => h \in live /\ h \notin F /\ h \notin B /\ h \notin H /\ h \notin O /\ h \notin M /\ h \notin R
      /\ h \in R \cup B => h \in live /\ h \notin F /\ h \notin H /\ h \notin O /\ h \notin M /\ h # thrown
      /\ h \in F => h \notin B /\ h \notin H /\ h \notin O /\ h \notin M /\ h # thrown
  BY <1>2, <1>3
<1> QED
  BY <1>4 DEF F, B, H, O, M, X, R, N

\* An allocation of the fiber's own.
LEMMA MineIs ==
    ASSUME NEW own, Base(own), NEW a \in Mine
    PROVE  /\ a \in Allocs /\ heap[a] \in Heaps /\ heap[a] # 0 /\ heap[a] \in live
           /\ heap[a] \notin away /\ kind[a] # "free"
<1>1. Typed /\ Listed(allocs, heap, live, frames)
  BY DEF Base
<1>2. a \in Allocated /\ heap[a] \notin Elsewhere
  BY DEF Mine
<1>3. a \in Allocs /\ kind[a] # "free"
  BY <1>2 DEF Allocated, FreeAllocs
<1>4. heap[a] \in Heaps /\ heap[a] \in live /\ heap[a] # 0
  BY <1>1, <1>3 DEF Typed, Listed
<1>5. heap[a] \notin away
  <2>1. away \in SUBSET Heaps
    BY <1>1 DEF Typed
  <2>2. away \subseteq ReachOf(away)
    BY <1>1, <2>1, ReachIs
  <2> QED BY <1>2, <2>2 DEF Elsewhere
<1> QED
  BY <1>3, <1>4, <1>5

\* A step that only moves or makes allocations and grafts what the moved handle has.
LEMMA GraftStep ==
    ASSUME NEW own, Base(own), NEW ctx, Running(ctx), frames = <<>>, thrown = 0,
           UNCHANGED <<live, parent, in_use, current, events, thrown, frames, away>>,
           Handled(handle') = Handled(handle), OneHandle(handle'),
           Typed', Listed(allocs', heap', live', frames'),
           NEW t, NEW Q, Closed(Q, Edges), Grafted(Edges, Edges', t, Q), t \notin Q,
           SubsApart(ctx, events, Edges')
    PROVE  Sound'
<1>1. Founded(Edges')
  <2>1. Founded(Edges)
    BY DEF Base
  <2> QED BY <2>1, FoundedGraft
<1>2. FrameHeaps(frames) = {} /\ FramesDiffer(frames')
  BY NoFrames
<1>3. FramesApart(FrameHeaps(frames), ctx, Edges')
  BY <1>2 DEF FramesApart
<1>4. FrameHeaps(frames') = FrameHeaps(frames) /\ Leavers(frames') = Leavers(frames)
  OBVIOUS
<1>5. Base(own)' /\ Running(ctx)'
  BY <1>1, <1>2, <1>3, <1>4, QuietStep
<1> QED
  BY <1>5 DEF Sound

\* Moving a handle grafts its heap.
LEMMA MoveGraft ==
    ASSUME Typed, NEW a \in Allocs, NEW h, heap' = [heap EXCEPT ![a] = h],
           handle' = handle, NEW Q, handle[a] # 0 => handle[a] \in Q
    PROVE  Grafted(Edges, Edges', h, Q)
<1> SUFFICES ASSUME NEW b \in Allocs, handle[b] # 0
             PROVE  \/ <<heap'[b], handle[b]>> \in Edges
                    \/ heap'[b] = h /\ handle[b] \in Q
  BY DEF Grafted, Edges
<1>1. heap'[a] = h /\ \A c \in Allocs \ {a} : heap'[c] = heap[c]
  BY DEF Typed
<1> QED
  BY <1>1 DEF Edges

\* What Move does to the lists.
LEMMA MoveListed ==
    ASSUME NEW own, Base(own), frames = <<>>, NEW a \in Mine, NEW h \in Heaps, h \in live,
           Move(a, h), UNCHANGED <<live, frames>>
    PROVE  Listed(allocs', heap', live', frames')
<1> DEFINE al == [allocs EXCEPT ![heap[a]] = Unlisted(@, a)]
           hp == [heap EXCEPT ![a] = 0]
<1>1. a \in Allocs /\ heap[a] # 0 /\ heap[a] \in Heaps
  BY MineIs
<1>2. Listed(allocs, heap, live, <<>>)
  BY DEF Base
<1>3. Listed(al, hp, live, <<>>)
  BY <1>1, <1>2, ListedRemove
<1>4. hp[a] = 0 /\ heap \in [Allocs -> Heaps \cup {0}]
  BY <1>1 DEF Base, Typed
<1>5. allocs' = [al EXCEPT ![h] = Append(@, a)] /\ heap' = [hp EXCEPT ![a] = h]
  <2>1. allocs' = [al EXCEPT ![h] = Append(@, a)]
    BY DEF Move
  <2>2. [hp EXCEPT ![a] = h] = [heap EXCEPT ![a] = h]
    BY <1>1, <1>4
  <2> QED BY <2>1, <2>2 DEF Move
<1> HIDE DEF al, hp
<1>6. Listed([al EXCEPT ![h] = Append(@, a)], [hp EXCEPT ![a] = h], live, <<>>)
  BY <1>1, <1>3, <1>4, ListedInsert
<1> QED
  BY <1>5, <1>6

\* Types after Move.
LEMMA MoveTyped ==
    ASSUME Typed, NEW a \in Allocs, kind[a] # "free", NEW h \in Heaps,
           heap' = [heap EXCEPT ![a] = h],
           UNCHANGED <<live, parent, kind, handle, current, thrown, away>>
    PROVE  Typed'
<1>1. heap' \in [Allocs -> Heaps \cup {0}] /\ heap'[a] = h
      /\ \A b \in Allocs \ {a} : heap'[b] = heap[b]
  BY DEF Typed
<1>2. \A b \in Allocs : kind'[b] = "free" <=> heap'[b] = 0
  BY <1>1, HeapsAre DEF Typed
<1> QED
  BY <1>1, <1>2 DEF Typed

------------------------------------------------------------------------------
(* The program's own steps keep the invariant.                              *)

\* The current heap while nothing is released, and the heap of no allocation.
LEMMA CurrentIs ==
    ASSUME NEW own, Base(own), NEW ctx, Running(ctx), frames = <<>>
    PROVE  /\ ctx[1] = current /\ current \in ToSet(ctx) /\ current \in Heaps /\ current \in live
           /\ Blocks(ctx, events, parent)
<1>1. Leavers(frames) = {}
  BY NoFrames
<1>2. ctx[1] = current /\ Blocks(ctx, events, parent)
  BY <1>1 DEF Running
<1> QED
  BY <1>2, ContextIs

\* An allocation that is free.
LEMMA FreeIs ==
    ASSUME Typed, FreeAllocs # {}
    PROVE  /\ Min(FreeAllocs) \in Allocs /\ kind[Min(FreeAllocs)] = "free"
           /\ heap[Min(FreeAllocs)] = 0 /\ handle[Min(FreeAllocs)] = 0
<1>1. FreeAllocs \in SUBSET Nat
  BY HeapsAre DEF FreeAllocs
<1>2. Min(FreeAllocs) \in FreeAllocs
  BY <1>1, MinIn
<1> QED
  BY <1>2 DEF FreeAllocs, Typed

\* Types after Insert.
LEMMA InsertTyped ==
    ASSUME Typed, NEW a \in Allocs, NEW h \in Heaps, NEW k \in {"plain", "object", "handle"},
           NEW x \in Heaps \cup {0}, x # 0 => k = "handle", Insert(a, h, k, x),
           current' \in Heaps, thrown' \in Heaps \cup {0},
           live' \subseteq Heaps, parent' \in [Heaps -> Heaps \cup {0}], away' = away
    PROVE  Typed'
<1>1. /\ heap' \in [Allocs -> Heaps \cup {0}] /\ heap'[a] = h
      /\ \A b \in Allocs \ {a} : heap'[b] = heap[b]
  BY DEF Typed, Insert
<1>2. /\ kind' \in [Allocs -> {"free", "plain", "object", "handle"}] /\ kind'[a] = k
      /\ \A b \in Allocs \ {a} : kind'[b] = kind[b]
  BY DEF Typed, Insert
<1>3. /\ handle' \in [Allocs -> Heaps \cup {0}] /\ handle'[a] = x
      /\ \A b \in Allocs \ {a} : handle'[b] = handle[b]
  BY DEF Typed, Insert
<1>4. \A b \in Allocs : kind'[b] = "free" <=> heap'[b] = 0
  BY <1>1, <1>2, HeapsAre DEF Typed
<1>5. \A b \in Allocs : handle'[b] # 0 => kind'[b] = "handle"
  BY <1>2, <1>3 DEF Typed
<1> QED
  BY <1>1, <1>2, <1>3, <1>4, <1>5 DEF Typed

\* lwt_alloc_new: an allocation without a heap of its own.
LEMMA AllocInv ==
    ASSUME NEW own, Base(own), NEW ctx, Running(ctx), Alloc, UNCHANGED away
    PROVE  Sound' /\ ended' = "no"
<1> DEFINE a == Min(FreeAllocs)
<1>1. /\ ended = "no" /\ frames = <<>> /\ thrown = 0 /\ FreeAllocs # {}
      /\ UNCHANGED <<live, parent, in_use, current, events, thrown, frames, ended>>
  BY DEF Alloc, Runs
<1>2. PICK k \in {"plain", "object"} : Insert(a, current, k, 0)
  BY DEF Alloc
<1>3. Typed /\ a \in Allocs /\ kind[a] = "free" /\ heap[a] = 0 /\ handle[a] = 0
  BY <1>1, FreeIs DEF Base
<1>4. current \in Heaps /\ current \in live
  BY <1>1, CurrentIs
<1> HIDE DEF a
<1>5. Typed'
  <2>1. /\ 0 \in Heaps \cup {0} /\ current' \in Heaps /\ thrown' \in Heaps \cup {0}
        /\ live' \subseteq Heaps /\ parent' \in [Heaps -> Heaps \cup {0}] /\ away' = away
    BY <1>1, <1>3, <1>4 DEF Typed
  <2>2. k \in {"plain", "object", "handle"} /\ (0 # 0 => k = "handle")
    OBVIOUS
  <2> QED BY <1>2, <1>3, <1>4, <2>1, <2>2, InsertTyped
<1>6. Listed(allocs', heap', live', frames')
  <2>1. Listed(allocs, heap, live, frames)
    BY DEF Base
  <2>2. Listed([allocs EXCEPT ![current] = Append(@, a)], [heap EXCEPT ![a] = current], live, frames)
    BY <1>3, <1>4, <2>1, ListedInsert
  <2> QED BY <1>1, <1>2, <2>2 DEF Insert
<1>7. /\ handle' = [handle EXCEPT ![a] = 0]
      /\ \A b \in Allocs \ {a} : heap'[b] = heap[b]
  BY <1>2, <1>3 DEF Insert, Typed
<1>8. Edges' \in SUBSET Edges /\ Handled(handle') = Handled(handle) /\ OneHandle(handle')
  <2>1. OneHandle(handle)
    BY DEF Base
  <2>2. Handled(handle) \ {handle[a]} = Handled(handle)
    BY <1>3 DEF Handled
  <2> QED BY <1>3, <1>5, <1>7, <2>1, <2>2, EdgesLess
<1>9. Founded(Edges') /\ SubsApart(ctx, events, Edges')
  BY <1>8, ClosedLess, SubsLess DEF Base, Running
<1>10. FrameHeaps(frames) = {} /\ FramesDiffer(frames')
  BY <1>1, NoFrames
<1>11. FramesApart(FrameHeaps(frames), ctx, Edges')
  BY <1>10 DEF FramesApart
<1>12. FrameHeaps(frames') = FrameHeaps(frames) /\ Leavers(frames') = Leavers(frames)
  BY <1>1
<1>13. UNCHANGED <<live, parent, in_use, current, events, thrown, away>>
  BY <1>1
<1>14. Base(own)' /\ Running(ctx)'
  BY <1>1, <1>5, <1>6, <1>8, <1>9, <1>10, <1>11, <1>12, <1>13, QuietStep
<1> QED
  BY <1>1, <1>14 DEF Sound

\* lwt_alloc_import.
LEMMA ImportInv ==
    ASSUME NEW own, Base(own), NEW ctx, Running(ctx), Import, UNCHANGED away
    PROVE  Sound' /\ ended' = "no"
<1>1. /\ ended = "no" /\ frames = <<>> /\ thrown = 0
      /\ UNCHANGED <<live, parent, in_use, kind, handle, current, events, thrown, frames, ended>>
  BY DEF Import, Runs
<1>2. PICK a \in Movable : Move(a, current)
  BY DEF Import
<1>3. a \in Mine /\ (kind[a] = "handle" => a \in Handles)
  BY DEF Movable
<1>4. a \in Allocs /\ heap[a] \in Heaps /\ kind[a] # "free"
  BY <1>3, MineIs
<1>5. current \in Heaps /\ current \in live /\ current \in ToSet(ctx)
  BY <1>1, CurrentIs
<1>6. Listed(allocs', heap', live', frames')
  BY <1>1, <1>2, <1>3, <1>5, MoveListed
<1>7. heap' = [heap EXCEPT ![a] = current]
  BY <1>2 DEF Move
<1>8. Typed /\ Typed'
  BY <1>1, <1>4, <1>5, <1>7, MoveTyped DEF Base
<1> DEFINE Q == IF handle[a] = 0 THEN {} ELSE ReachOf({handle[a]})
<1>9. /\ Q \in SUBSET Heaps /\ Closed(Q, Edges) /\ Q \cap ToSet(ctx) = {}
      /\ handle[a] # 0 => handle[a] \in Q
  <2>1. CASE handle[a] = 0
    BY <2>1 DEF Closed
  <2>2. CASE handle[a] # 0
    <3>1. a \in Handles
      BY <1>3, <1>4, <1>8, <2>2 DEF Typed
    <3> QED BY <1>1, <2>2, <3>1, HandlesApart
  <2> QED BY <2>1, <2>2
<1> HIDE DEF Q
<1>10. Grafted(Edges, Edges', current, Q)
  BY <1>1, <1>4, <1>7, <1>8, <1>9, MoveGraft
<1>11. SubsApart(ctx, events, Edges')
  BY <1>9, <1>10, SubsGraft DEF Running
<1>12. Handled(handle') = Handled(handle) /\ OneHandle(handle')
  BY <1>1 DEF Base
<1>13. current \notin Q
  BY <1>5, <1>9
<1> QED
  BY <1>1, <1>6, <1>8, <1>9, <1>10, <1>11, <1>12, <1>13, GraftStep

\* lwt_alloc_escape: of what ends with a sub heap into the heap that is nested in; what
\* ends with the sub heap ends with no heap around it.
LEMMA EscapeInv ==
    ASSUME NEW own, Base(own), NEW ctx, Running(ctx), Escape, UNCHANGED away
    PROVE  (Sound' /\ ended' = "no") \/ ended' = "fatal" \/ (ended' = "corrupt" /\ EscapesOuter)
<1>1. /\ ended = "no" /\ frames = <<>> /\ thrown = 0
      /\ UNCHANGED <<live, parent, in_use, kind, handle, current, events, thrown, frames>>
  BY DEF Escape, Runs
<1>2. PICK a \in Mine :
        /\ heap[a] \in in_use => EscapesOuter
        /\ IF heap[a] \notin in_use /\ parent[heap[a]] # 0
           THEN Move(a, parent[heap[a]]) /\ UNCHANGED ended
           ELSE /\ ended' = IF heap[a] \in in_use THEN "corrupt" ELSE "fatal"
                /\ UNCHANGED <<allocs, heap>>
  BY DEF Escape
<1>3. CASE ~(heap[a] \notin in_use /\ parent[heap[a]] # 0)
  BY <1>2, <1>3
<1>4. CASE heap[a] \notin in_use /\ parent[heap[a]] # 0
  <2> DEFINE h == heap[a]
             p == parent[h]
  <2>1. a \in Allocs /\ h \in Heaps /\ kind[a] # "free"
    BY MineIs
  <2>2. Move(a, p) /\ ended' = "no"
    BY <1>1, <1>2, <1>4
  <2>3. p \in ToSet(ctx) /\ p \in Heaps /\ p \in live
    <3>1. p \in ToSet(ctx)
      BY <1>4, <2>1, ParentsAre
    <3> QED BY <3>1, ContextIs DEF Running
  <2>4. Listed(allocs', heap', live', frames')
    BY <1>1, <2>2, <2>3, MoveListed
  <2>5. heap' = [heap EXCEPT ![a] = p]
    BY <2>2 DEF Move
  <2>6. Typed /\ Typed'
    BY <1>1, <2>1, <2>3, <2>5, MoveTyped DEF Base
  <2>7. Leavers(frames) = {}
    BY <1>1, NoFrames
  <2>8. PICK k \in DOMAIN events : events[k].type = "sub" /\ h = ctx[k]
    <3>1. h \in SubHeaps(ctx, events)
      BY <1>4, <2>1, <2>7 DEF Running, Nested
    <3> QED BY <3>1 DEF SubHeaps
  <2>9. /\ Blocks(ctx, events, parent) /\ DOMAIN ctx = 1 .. Len(events) + 1
        /\ DOMAIN events = 1 .. Len(events) /\ Len(events) \in Nat
    BY DEF Running, Blocks
  <2>10. p = ctx[k + 1] /\ k + 1 \in DOMAIN ctx /\ k < k + 1 /\ k \in Nat
    <3>1. Enters(events[k], ctx[k], ctx[k + 1], parent)
      BY <2>9 DEF Blocks
    <3> QED BY <2>8, <2>9, <3>1 DEF Enters
  <2>11. SubsApart(ctx, events, Edges)
    BY DEF Running
  <2>12. PICK Q \in SUBSET Heaps : /\ Closed(Q, Edges) /\ h \in Q
                                   /\ \A j \in DOMAIN ctx : k < j => ctx[j] \notin Q
    BY <2>8, <2>11 DEF SubsApart, Makes
  <2>13. p \notin Q
    BY <2>10, <2>12
  <2>14. handle[a] # 0 => handle[a] \in Q
    <3> SUFFICES ASSUME handle[a] # 0 PROVE handle[a] \in Q
      OBVIOUS
    <3>1. <<h, handle[a]>> \in Edges
      BY <2>1, <2>6, EdgesAre
    <3> HIDE DEF h
    <3>2. <<h, handle[a]>>[1] \in Q => <<h, handle[a]>>[2] \in Q
      BY <2>12, <3>1 DEF Closed
    <3> QED BY <2>12, <3>2
  <2> HIDE DEF h, p
  <2>15. Grafted(Edges, Edges', p, Q)
    BY <1>1, <2>1, <2>5, <2>6, <2>14, MoveGraft
  <2>16. SubsApart(ctx, events, Edges')
    <3> SUFFICES ASSUME NEW i \in DOMAIN events, Makes(events[i])
                 PROVE  \E R \in SUBSET Heaps :
                          /\ Closed(R, Edges') /\ ctx[i] \in R
                          /\ \A j \in DOMAIN ctx : i < j => ctx[j] \notin R
      BY DEF SubsApart
    <3>1. PICK R \in SUBSET Heaps : /\ Closed(R, Edges) /\ ctx[i] \in R
                                    /\ \A j \in DOMAIN ctx : i < j => ctx[j] \notin R
      BY <2>11 DEF SubsApart
    <3>2. CASE p \notin R
      <4>1. Closed(R, Edges')
        BY <2>12, <2>15, <3>1, <3>2, ClosedGraft
      <4> QED BY <3>1, <4>1
    <3>3. CASE p \in R
      <4>1. k < i
        BY <2>9, <2>10, <3>1, <3>3
      <4>2. Closed(R \cup Q, Edges')
        BY <2>12, <2>15, <3>1, ClosedGraft
      <4>3. \A j \in DOMAIN ctx : i < j => ctx[j] \notin R \cup Q
        BY <2>9, <2>12, <3>1, <4>1
      <4> QED BY <3>1, <4>2, <4>3
    <3> QED BY <3>2, <3>3
  <2>17. Handled(handle') = Handled(handle) /\ OneHandle(handle')
    BY <1>1 DEF Base
  <2>18. Sound'
    BY <1>1, <2>4, <2>6, <2>12, <2>13, <2>15, <2>16, <2>17, GraftStep
  <2> QED BY <2>2, <2>18
<1> QED
  BY <1>3, <1>4


\* __rcd_escape_gh_txn: the heap of the handle ends with the global heap, which ends with
\* nothing of the fiber's.
LEMMA EscapeGlobalInv ==
    ASSUME NEW own, Base(own), NEW ctx, Running(ctx), EscapeGlobal, UNCHANGED away
    PROVE  Sound' /\ ended' = "no"
<1>1. /\ ended = "no" /\ frames = <<>> /\ thrown = 0
      /\ UNCHANGED <<live, parent, in_use, kind, handle, current, events, thrown, frames, ended>>
  BY DEF EscapeGlobal, Runs
<1>2. PICK a \in Handles : handle[a] # 0 /\ heap[a] = current /\ Move(a, Global)
  BY DEF EscapeGlobal
<1>3. a \in Mine
  BY DEF Handles
<1>4. a \in Allocs /\ heap[a] \in Heaps /\ kind[a] # "free" /\ heap[a] \notin away
  BY <1>3, MineIs
<1>5. Typed /\ Global \in Heaps /\ Global \in away /\ Global \notin Handled(handle) /\ Global \in live
  <2>1. Global \in Heaps /\ Global \in away
    BY HeapsAre DEF Base, Typed
  <2>2. Global \in live /\ Global \notin Handled(handle)
    BY <2>1, HeapsDiffer
  <2> QED BY <2>1, <2>2 DEF Base
<1>6. Listed(allocs', heap', live', frames')
  BY <1>1, <1>2, <1>3, <1>5, MoveListed
<1>7. heap' = [heap EXCEPT ![a] = Global]
  BY <1>2 DEF Move
<1>8. Typed'
  BY <1>1, <1>4, <1>5, <1>7, MoveTyped
<1> DEFINE P == ReachOf({handle[a]})
           Q == P \ {Global}
<1>9. P \in SUBSET Heaps /\ Closed(P, Edges) /\ handle[a] \in P /\ P \cap ToSet(ctx) = {}
  BY <1>1, <1>2, HandlesApart
<1>10. handle[a] \in Handled(handle)
  BY <1>1, <1>2, HandlesApart
<1> HIDE DEF P
<1>11. Q \in SUBSET Heaps /\ handle[a] \in Q /\ Q \cap ToSet(ctx) = {} /\ Global \notin Q
  BY <1>5, <1>9, <1>10
<1>12. Closed(Q, Edges)
  <2> SUFFICES ASSUME NEW e \in Edges, e[1] \in Q PROVE e[2] \in Q
    BY <1>11 DEF Closed
  <2>1. e[2] \in P
    BY <1>9 DEF Closed
  <2>2. e[2] \in Handled(handle)
    <3>1. PICK b \in Allocs : handle[b] # 0 /\ e = <<heap[b], handle[b]>>
      BY <1>5, EdgesAre
    <3> QED BY <3>1 DEF Handled
  <2> QED BY <1>5, <2>1, <2>2
<1> HIDE DEF Q
<1>13. Grafted(Edges, Edges', Global, Q)
  BY <1>1, <1>4, <1>5, <1>7, <1>11, MoveGraft
<1>14. SubsApart(ctx, events, Edges')
  BY <1>11, <1>12, <1>13, SubsGraft DEF Running
<1>15. Handled(handle') = Handled(handle) /\ OneHandle(handle')
  BY <1>1 DEF Base
<1> QED
  BY <1>1, <1>6, <1>8, <1>11, <1>12, <1>13, <1>14, <1>15, GraftStep

\* lwt_import_heap: the heap passes from one handle to another.
LEMMA ImportHeapInv ==
    ASSUME NEW own, Base(own), NEW ctx, Running(ctx), ImportHeap, UNCHANGED away
    PROVE  Sound' /\ ended' = "no"
<1> DEFINE b == Min(FreeAllocs)
<1>1. /\ ended = "no" /\ frames = <<>> /\ thrown = 0 /\ FreeAllocs # {}
      /\ UNCHANGED <<live, parent, in_use, current, events, thrown, frames, ended>>
  BY DEF ImportHeap, Runs
<1>2. PICK a \in Handles :
        /\ handle[a] # 0
        /\ allocs' = [allocs EXCEPT ![current] = Append(@, b)]
        /\ kind' = [kind EXCEPT ![b] = "handle"]
        /\ heap' = [heap EXCEPT ![b] = current]
        /\ handle' = [handle EXCEPT ![b] = handle[a], ![a] = 0]
  BY DEF ImportHeap
<1>3. Typed /\ b \in Allocs /\ kind[b] = "free" /\ heap[b] = 0 /\ handle[b] = 0
  BY <1>1, FreeIs DEF Base
<1>4. current \in Heaps /\ current \in live /\ current \in ToSet(ctx)
  BY <1>1, CurrentIs
<1> DEFINE Q == ReachOf({handle[a]})
<1>5. /\ a \in Allocs /\ kind[a] = "handle" /\ handle[a] \in Heaps
      /\ Q \in SUBSET Heaps /\ Closed(Q, Edges) /\ handle[a] \in Q /\ Q \cap ToSet(ctx) = {}
  BY <1>1, <1>2, HandlesApart
<1> HIDE DEF b, Q
<1>6. a # b
  BY <1>2, <1>3
<1>7. /\ handle' \in [Allocs -> Heaps \cup {0}] /\ handle'[b] = handle[a] /\ handle'[a] = 0
      /\ \A c \in Allocs \ {a, b} : handle'[c] = handle[c]
  BY <1>2, <1>3, <1>5, <1>6 DEF Typed
<1>8. /\ heap' \in [Allocs -> Heaps \cup {0}] /\ heap'[b] = current
      /\ \A c \in Allocs \ {b} : heap'[c] = heap[c]
  BY <1>2, <1>3, <1>4 DEF Typed
<1>9. /\ kind' \in [Allocs -> {"free", "plain", "object", "handle"}] /\ kind'[b] = "handle"
      /\ \A c \in Allocs \ {b} : kind'[c] = kind[c]
  BY <1>2, <1>3 DEF Typed
<1>10. Typed'
  <2>1. \A c \in Allocs : kind'[c] = "free" <=> heap'[c] = 0
    BY <1>3, <1>4, <1>8, <1>9, HeapsAre DEF Typed
  <2>2. \A c \in Allocs : handle'[c] # 0 => kind'[c] = "handle"
    BY <1>3, <1>7, <1>9 DEF Typed
  <2> QED BY <1>1, <1>3, <1>7, <1>8, <1>9, <2>1, <2>2 DEF Typed
<1>11. Listed(allocs', heap', live', frames')
  <2>1. Listed(allocs, heap, live, frames)
    BY DEF Base
  <2>2. Listed([allocs EXCEPT ![current] = Append(@, b)], [heap EXCEPT ![b] = current], live, frames)
    BY <1>3, <1>4, <2>1, ListedInsert
  <2> QED BY <1>1, <1>2, <2>2
<1>12. Handled(handle') = Handled(handle)
  <2>1. ASSUME NEW c \in Allocs, handle'[c] # 0 PROVE handle'[c] \in Handled(handle)
    BY <1>5, <1>7, <2>1 DEF Handled
  <2>2. ASSUME NEW c \in Allocs, handle[c] # 0 PROVE handle[c] \in Handled(handle')
    BY <1>3, <1>7, <2>2 DEF Handled
  <2> QED BY <2>1, <2>2 DEF Handled
<1>13. OneHandle(handle')
  <2>1. OneHandle(handle)
    BY DEF Base
  <2> SUFFICES ASSUME NEW c \in Allocs, NEW d \in Allocs, handle'[c] = handle'[d], handle'[c] # 0
               PROVE  c = d
    BY DEF OneHandle
  <2> QED BY <1>2, <1>5, <1>7, <2>1 DEF OneHandle
<1>14. Grafted(Edges, Edges', current, Q)
  <2> SUFFICES ASSUME NEW c \in Allocs, handle'[c] # 0
               PROVE  \/ <<heap'[c], handle'[c]>> \in Edges
                      \/ heap'[c] = current /\ handle'[c] \in Q
    BY DEF Grafted, Edges
  <2>1. CASE c = b
    BY <1>5, <1>7, <1>8, <2>1
  <2>2. CASE c # b
    BY <1>7, <1>8, <2>2 DEF Edges
  <2> QED BY <2>1, <2>2
<1>15. SubsApart(ctx, events, Edges')
  BY <1>5, <1>14, SubsGraft DEF Running
<1>16. current \notin Q
  BY <1>4, <1>5
<1>17. UNCHANGED <<live, parent, in_use, current, events, thrown, frames, away>>
  BY <1>1
<1> QED
  BY <1>1, <1>5, <1>10, <1>11, <1>12, <1>13, <1>14, <1>15, <1>16, <1>17, GraftStep

------------------------------------------------------------------------------
(* The steps of a release keep the invariant.                               *)

\* The current heap exists, also while it is released.
LEMMA CurrentLive ==
    ASSUME NEW own, Base(own), NEW ctx, Running(ctx)
    PROVE  current \in Heaps /\ current \in live
<1>1. CASE Leavers(frames) = {}
  <2>1. ctx[1] = current
    BY <1>1 DEF Running
  <2> QED BY <2>1, ContextIs
<1>2. CASE Leavers(frames) # {}
  <2>1. current \in FrameHeaps(frames)
    BY <1>2 DEF Running
  <2> QED BY <2>1, SetsAre
<1> QED
  BY <1>1, <1>2

\* The list that is being freed by the innermost release is another.
LEMMA FramesBatch ==
    ASSUME NEW fr, FramesDiffer(fr), fr # <<>>, NEW b \in Seq(Allocs)
    PROVE  /\ FramesDiffer(<<[Head(fr) EXCEPT !.batch = b]>> \o Tail(fr))
           /\ FrameHeaps(<<[Head(fr) EXCEPT !.batch = b]>> \o Tail(fr)) = FrameHeaps(fr)
           /\ Leavers(<<[Head(fr) EXCEPT !.batch = b]>> \o Tail(fr)) = Leavers(fr)
<1> DEFINE f == [Head(fr) EXCEPT !.batch = b]
<1>1. /\ FramesDiffer(Tail(fr)) /\ Head(fr) \in FrameType
      /\ FrameHeaps(fr) = FrameHeaps(Tail(fr)) \cup {Head(fr).heap}
      /\ Leavers(fr) = Leavers(Tail(fr)) \cup {x \in {Head(fr).heap} : Head(fr).leaves}
      /\ Head(fr).heap \notin FrameHeaps(Tail(fr))
      /\ Head(fr).heap = Root => Tail(fr) = <<>>
  BY FramesPop
<1>2. f \in FrameType /\ f.heap = Head(fr).heap /\ f.leaves = Head(fr).leaves
  BY <1>1 DEF FrameType
<1> HIDE DEF f
<1>3. /\ FramesDiffer(<<f>> \o Tail(fr))
      /\ FrameHeaps(<<f>> \o Tail(fr)) = FrameHeaps(Tail(fr)) \cup {f.heap}
      /\ Leavers(<<f>> \o Tail(fr)) = Leavers(Tail(fr)) \cup {x \in {f.heap} : f.leaves}
  BY <1>1, <1>2, FramesPush
<1>4. /\ FramesDiffer(<<f>> \o Tail(fr)) /\ FrameHeaps(<<f>> \o Tail(fr)) = FrameHeaps(fr)
      /\ Leavers(<<f>> \o Tail(fr)) = Leavers(fr)
  BY <1>1, <1>2, <1>3
<1> QED
  BY <1>4 DEF f

\* An allocation that has been taken out of its list is destroyed.
LEMMA DestroyInv ==
    ASSUME NEW own, Base(own), NEW ctx, Running(ctx), ended = "no",
           UNCHANGED <<live, parent, current, events, thrown, away>>,
           NEW a \in Allocs, heap[a] # 0, NEW lists, NEW under,
           Listed(lists, [heap EXCEPT ![a] = 0], live, under), FramesDiffer(under),
           FrameHeaps(under) = FrameHeaps(frames), Leavers(under) = Leavers(frames),
           handle[a] # 0 =>
                /\ handle[a] \notin ToSet(ctx) \/ Root \in FrameHeaps(frames)
                /\ FramesApart(FrameHeaps(frames) \cup {handle[a]}, ctx, Edges),
           Destroy(a, lists, under)
    PROVE  Sound' /\ ended' = "no"
<1>1. Typed /\ OneHandle(handle) /\ current \in Heaps /\ current \in live
  BY CurrentLive DEF Base
<1> DEFINE hp == [heap EXCEPT ![a] = 0]
<1>2. /\ hp \in [Allocs -> Heaps \cup {0}] /\ hp[a] = 0
      /\ \A b \in Allocs \ {a} : hp[b] = heap[b]
  BY <1>1 DEF Typed
<1>3. /\ heap' \in [Allocs -> Heaps \cup {0}]
      /\ heap'[a] = IF kind[a] = "object" THEN current ELSE 0
      /\ \A b \in Allocs \ {a} : heap'[b] = heap[b]
  BY <1>1 DEF Destroy, Typed
<1>4. /\ kind' \in [Allocs -> {"free", "plain", "object", "handle"}]
      /\ kind'[a] = IF kind[a] = "object" THEN "plain" ELSE "free"
      /\ \A b \in Allocs \ {a} : kind'[b] = kind[b]
  BY <1>1 DEF Destroy, Typed
<1>5. /\ handle' = [handle EXCEPT ![a] = 0] /\ handle' \in [Allocs -> Heaps \cup {0}] /\ handle'[a] = 0
      /\ \A b \in Allocs \ {a} : handle'[b] = handle[b]
  BY <1>1 DEF Destroy, Typed
<1>6. Typed'
  <2>1. \A b \in Allocs : kind'[b] = "free" <=> heap'[b] = 0
    BY <1>1, <1>3, <1>4, HeapsAre DEF Typed
  <2>2. \A b \in Allocs : handle'[b] # 0 => kind'[b] = "handle"
    BY <1>1, <1>4, <1>5 DEF Typed
  <2> QED BY <1>1, <1>3, <1>4, <1>5, <2>1, <2>2 DEF Typed
<1>7. Listed(allocs', heap', live', under)
  <2>1. CASE kind[a] = "object"
    <3>1. allocs' = [lists EXCEPT ![current] = Append(@, a)]
      BY <2>1 DEF Destroy
    <3>2. heap' = [hp EXCEPT ![a] = current]
      BY <1>1, <2>1 DEF Destroy, Typed
    <3> HIDE DEF hp
    <3>3. Listed([lists EXCEPT ![current] = Append(@, a)], [hp EXCEPT ![a] = current], live, under)
      BY <1>1, <1>2, ListedInsert DEF hp
    <3> QED BY <3>1, <3>2, <3>3
  <2>2. CASE kind[a] # "object"
    <3>1. allocs' = lists
      BY <2>2 DEF Destroy
    <3>2. heap' = hp
      BY <1>1, <2>2 DEF Destroy, Typed
    <3> QED BY <3>1, <3>2
  <2> QED BY <2>1, <2>2
<1>8. Edges' \in SUBSET Edges /\ Handled(handle') = Handled(handle) \ {handle[a]} /\ OneHandle(handle')
  BY <1>1, <1>3, <1>5, <1>6, EdgesLess
<1>9. Founded(Edges') /\ SubsApart(ctx, events, Edges')
  BY <1>8, ClosedLess, SubsLess DEF Base, Running
<1>10. \A fh : FramesApart(fh, ctx, Edges) => FramesApart(fh, ctx, Edges')
  BY <1>8, FramesApartLess
<1>11. thrown # 0 => FreeAllocs' # {} /\ HeapApart(thrown, Outside(ctx, events), Edges')
  <2> SUFFICES ASSUME thrown # 0 PROVE FreeAllocs' # {} /\ HeapApart(thrown, Outside(ctx, events), Edges')
    OBVIOUS
  <2>1. FreeAllocs # {} /\ HeapApart(thrown, Outside(ctx, events), Edges)
    BY DEF Running
  <2>2. FreeAllocs \subseteq FreeAllocs'
    BY <1>1, <1>4 DEF FreeAllocs, Typed
  <2>3. HeapApart(thrown, Outside(ctx, events), Edges')
    BY <1>8, <2>1, ApartLess
  <2> QED BY <2>1, <2>2, <2>3
<1>12. CASE handle[a] = 0
  <2>1. frames' = under /\ UNCHANGED <<in_use, ended>>
    BY <1>12 DEF Destroy
  <2>2. Handled(handle') = Handled(handle)
    BY <1>8, <1>12 DEF Handled
  <2>3. FramesApart(FrameHeaps(frames), ctx, Edges')
    BY <1>10 DEF Running
  <2>4. /\ UNCHANGED <<live, parent, in_use, current, events, thrown, away>>
        /\ FramesDiffer(frames') /\ FrameHeaps(frames') = FrameHeaps(frames)
        /\ Leavers(frames') = Leavers(frames) /\ Listed(allocs', heap', live', frames')
    BY <1>7, <2>1
  <2>5. Base(own)' /\ Running(ctx)'
    BY <1>6, <1>8, <1>9, <1>11, <2>2, <2>3, <2>4, QuietStep
  <2> QED BY <2>1, <2>5 DEF Sound
<1>13. CASE handle[a] # 0
  <2> DEFINE x == handle[a]
  <2>1. x \in Handled(handle) /\ x \in Heaps
    BY <1>13, SetsAre
  <2>2. x \notin ToSet(ctx) \/ Root \in FrameHeaps(frames)
    BY <1>13
  <2>3. FramesApart(FrameHeaps(frames) \cup {x}, ctx, Edges')
    BY <1>10, <1>13
  <2>4. Release(x, under, FALSE)
    BY <1>13 DEF Destroy
  <2> HIDE DEF x
  <2>5. x \notin in_use
    BY <2>1, <2>2, HandledUnused
  <2>6. /\ frames' = <<[heap |-> x, batch |-> <<>>, leaves |-> FALSE]>> \o under
        /\ in_use' = in_use \cup {x} /\ ended' = ended
    BY <2>4, <2>5 DEF Release
  <2>7. Handled(handle') = Handled(handle) \ {x}
    BY <1>8 DEF x
  <2>8. \E o : Base(o)' /\ Running(ctx)'
    BY <1>6, <1>7, <1>8, <1>9, <1>11, <2>1, <2>2, <2>3, <2>6, <2>7, ReleaseStep
  <2> QED BY <2>6, <2>8 DEF Sound
<1> QED
  BY <1>12, <1>13

\* lwt_alloc_free.
LEMMA FreeInv ==
    ASSUME NEW own, Base(own), NEW ctx, Running(ctx), Free, UNCHANGED away
    PROVE  (Sound' /\ ended' = "no") \/ ended' = "fatal"
<1>1. /\ ended = "no" /\ frames = <<>> /\ thrown = 0
      /\ UNCHANGED <<live, parent, current, events, thrown, away>>
  BY DEF Free, Runs
<1>2. PICK a \in Movable :
        IF heap[a] \in Chain(current)
        THEN Destroy(a, [allocs EXCEPT ![heap[a]] = Unlisted(@, a)], frames)
        ELSE ended' = "fatal" /\ UNCHANGED <<in_use, allocVars, frames>>
  BY DEF Free
<1>3. a \in Mine /\ (kind[a] = "handle" => a \in Handles)
  BY DEF Movable
<1>4. a \in Allocs /\ heap[a] # 0
  BY <1>3, MineIs
<1>5. CASE heap[a] \notin Chain(current)
  BY <1>2, <1>5
<1>6. CASE heap[a] \in Chain(current)
  <2> DEFINE lists == [allocs EXCEPT ![heap[a]] = Unlisted(@, a)]
  <2>1. Destroy(a, lists, frames)
    BY <1>2, <1>6
  <2>2. Listed(allocs, heap, live, <<>>)
    BY <1>1 DEF Base
  <2>3. Listed(lists, [heap EXCEPT ![a] = 0], live, <<>>)
    BY <1>4, <2>2, ListedRemove
  <2> HIDE DEF lists
  <2>4. Listed(lists, [heap EXCEPT ![a] = 0], live, frames) /\ FramesDiffer(frames)
    BY <1>1, <2>3, NoFrames
  <2>5. handle[a] # 0 =>
            /\ handle[a] \notin ToSet(ctx) \/ Root \in FrameHeaps(frames)
            /\ FramesApart(FrameHeaps(frames) \cup {handle[a]}, ctx, Edges)
    <3> SUFFICES ASSUME handle[a] # 0
                 PROVE  /\ handle[a] \notin ToSet(ctx)
                        /\ FramesApart(FrameHeaps(frames) \cup {handle[a]}, ctx, Edges)
      OBVIOUS
    <3>1. a \in Handles
      BY <1>3, <1>4 DEF Base, Typed
    <3>2. /\ ReachOf({handle[a]}) \in SUBSET Heaps /\ Closed(ReachOf({handle[a]}), Edges)
          /\ handle[a] \in ReachOf({handle[a]}) /\ ReachOf({handle[a]}) \cap ToSet(ctx) = {}
      BY <1>1, <3>1, HandlesApart
    <3>3. FrameHeaps(frames) \cup {handle[a]} = {handle[a]}
      BY <1>1, NoFrames
    <3> QED BY <3>2, <3>3 DEF FramesApart
  <2> QED BY <1>1, <1>4, <2>1, <2>4, <2>5, DestroyInv
<1> QED
  BY <1>5, <1>6

\* The next allocation of a heap that is released.
LEMMA ReleaseNextInv ==
    ASSUME NEW own, Base(own), NEW ctx, Running(ctx), ReleaseNext, UNCHANGED away
    PROVE  Sound' /\ ended' = "no"
<1> DEFINE f == Head(frames)
           a == Head(f.batch)
           under == <<[f EXCEPT !.batch = Tail(f.batch)]>> \o Tail(frames)
<1>1. /\ ended = "no" /\ frames # <<>> /\ f.batch # <<>>
      /\ Destroy(a, allocs, <<[f EXCEPT !.batch = Tail(@)]>> \o Tail(frames))
      /\ UNCHANGED <<live, parent, current, events, thrown, away>>
  BY DEF ReleaseNext, Releasing
<1>2. FramesDiffer(frames) /\ Listed(allocs, heap, live, frames) /\ Typed
  BY DEF Base
<1>3. f \in FrameType /\ f.heap \in FrameHeaps(frames)
  BY <1>1, <1>2, FramesPop
<1>4. [f EXCEPT !.batch = Tail(@)] = [f EXCEPT !.batch = Tail(f.batch)]
  BY <1>3 DEF FrameType
<1>5. /\ a \in Allocs /\ heap[a] = f.heap
      /\ Listed(allocs, [heap EXCEPT ![a] = 0], live,
                <<[f EXCEPT !.batch = Tail(@)]>> \o Tail(frames))
  BY <1>1, <1>2, ListedTake
<1>6. /\ FramesDiffer(under) /\ FrameHeaps(under) = FrameHeaps(frames)
      /\ Leavers(under) = Leavers(frames)
  <2>1. Tail(f.batch) \in Seq(Allocs)
    <3>1. f.batch \in Seq(Allocs)
      BY <1>3 DEF FrameType
    <3> QED BY <1>1, <3>1
  <2> QED BY <1>1, <1>2, <2>1, FramesBatch
<1>7. Destroy(a, allocs, under) /\ Listed(allocs, [heap EXCEPT ![a] = 0], live, under)
  BY <1>1, <1>4, <1>5
<1>8. heap[a] # 0
  BY <1>3, <1>5, HeapsAre DEF FrameType
<1> HIDE DEF a, under
<1>9. handle[a] # 0 =>
          /\ handle[a] \notin ToSet(ctx) \/ Root \in FrameHeaps(frames)
          /\ FramesApart(FrameHeaps(frames) \cup {handle[a]}, ctx, Edges)
  <2> SUFFICES ASSUME handle[a] # 0, Root \notin FrameHeaps(frames)
               PROVE  /\ handle[a] \notin ToSet(ctx)
                      /\ FramesApart(FrameHeaps(frames) \cup {handle[a]}, ctx, Edges)
    BY DEF FramesApart
  <2>1. FramesApart(FrameHeaps(frames), ctx, Edges)
    BY DEF Running
  <2>2. PICK R \in SUBSET Heaps :
            Closed(R, Edges) /\ FrameHeaps(frames) \subseteq R /\ R \cap ToSet(ctx) = {}
    BY <1>3, <2>1 DEF FramesApart
  <2>3. <<heap[a], handle[a]>> \in Edges
    BY <1>2, <1>5, EdgesAre
  <2>4. <<heap[a], handle[a]>>[1] \in R => <<heap[a], handle[a]>>[2] \in R
    BY <2>2, <2>3 DEF Closed
  <2>5. handle[a] \in R
    BY <1>3, <1>5, <2>2, <2>4
  <2> QED BY <2>2, <2>5 DEF FramesApart
<1> QED
  BY <1>1, <1>5, <1>6, <1>7, <1>8, <1>9, DestroyInv

\* The heap that is released has got other allocations from destructors.
LEMMA ReleaseAgainInv ==
    ASSUME NEW own, Base(own), NEW ctx, Running(ctx), ReleaseAgain, UNCHANGED away
    PROVE  Sound' /\ ended' = "no"
<1> DEFINE f == Head(frames)
           under == <<[f EXCEPT !.batch = allocs[f.heap]]>> \o Tail(frames)
<1>1. /\ ended = "no" /\ frames # <<>> /\ f.batch = <<>>
      /\ frames' = [frames EXCEPT ![1].batch = allocs[f.heap]]
      /\ allocs' = [allocs EXCEPT ![f.heap] = <<>>]
      /\ UNCHANGED <<live, parent, in_use, kind, heap, handle, current, events, thrown, ended, away>>
  BY DEF ReleaseAgain, Releasing
<1>2. FramesDiffer(frames) /\ Listed(allocs, heap, live, frames) /\ Typed
  BY DEF Base
<1>3. f \in FrameType /\ frames \in Seq(FrameType) /\ f = frames[1]
  BY <1>1, <1>2, FramesPop DEF FramesDiffer
<1>4. allocs[f.heap] \in Seq(Allocs)
  BY <1>2, <1>3 DEF Listed, FrameType
<1>5. frames' = under
  <2> DEFINE g == [f EXCEPT !.batch = allocs[f.heap]]
  <2>1. g \in FrameType
    BY <1>3, <1>4 DEF FrameType
  <2>2. frames' = [frames EXCEPT ![1] = g]
    BY <1>1, <1>3
  <2> HIDE DEF g
  <2>3. /\ Tail(frames) \in Seq(FrameType) /\ Len(frames) = Len(Tail(frames)) + 1
        /\ Len(Tail(frames)) \in Nat
        /\ \A i \in DOMAIN Tail(frames) : Tail(frames)[i] = frames[i + 1]
    BY <1>1, <1>3, Popped
  <2> HIDE DEF f
  <2>4. [frames EXCEPT ![1] = g] = <<g>> \o Tail(frames)
    BY <1>1, <1>3, <2>1
  <2> QED BY <2>2, <2>4 DEF g, f
<1>6. /\ FramesDiffer(under) /\ FrameHeaps(under) = FrameHeaps(frames)
      /\ Leavers(under) = Leavers(frames)
  BY <1>1, <1>2, <1>4, FramesBatch
<1>7. Listed(allocs', heap, live, under)
  BY <1>1, <1>2, ListedAgain
<1> HIDE DEF under
<1>8. /\ UNCHANGED <<live, parent, in_use, current, events, thrown, away>>
      /\ Handled(handle') = Handled(handle) /\ OneHandle(handle')
      /\ FramesDiffer(frames') /\ FrameHeaps(frames') = FrameHeaps(frames)
      /\ Leavers(frames') = Leavers(frames) /\ Listed(allocs', heap', live', frames')
  BY <1>1, <1>5, <1>6, <1>7 DEF Base
<1>9. Typed' /\ Edges' = Edges /\ FreeAllocs' = FreeAllocs
  BY <1>1, <1>2 DEF Typed, Edges, FreeAllocs
<1>10. /\ Founded(Edges') /\ SubsApart(ctx, events, Edges')
       /\ FramesApart(FrameHeaps(frames), ctx, Edges')
  BY <1>9 DEF Base, Running
<1>11. thrown # 0 => FreeAllocs' # {} /\ HeapApart(thrown, Outside(ctx, events), Edges')
  BY <1>9 DEF Running
<1>12. Base(own)' /\ Running(ctx)'
  BY <1>8, <1>9, <1>10, <1>11, QuietStep
<1> QED
  BY <1>1, <1>12 DEF Sound

\* The heap of the innermost release and what it is nested in.
LEMMA EndsIs ==
    ASSUME NEW own, Base(own), NEW ctx, Running(ctx), frames # <<>>,
           NEW x, x = Head(frames).heap
    PROVE  /\ x \in Heaps /\ x \in FrameHeaps(frames) /\ x \in live
           /\ x # Root => x \in Released(frames, parent) \cup Nested(parent)
           /\ x # Root => x \notin ToSet(ctx)
           /\ \A y \in Heaps : parent[y] # x
           /\ Head(frames).leaves <=> parent[x] # 0
           /\ parent[x] # 0 =>
                /\ Root \notin FrameHeaps(frames)
                /\ parent[x] = ctx[1] /\ x = current /\ Leavers(Tail(frames)) = {}
                /\ parent[x] \notin FrameHeaps(frames)
                /\ \A y \in Heaps \ {x} : parent[y] # parent[x]
<1>1. Typed /\ FramesDiffer(frames)
  BY DEF Base
<1>2. /\ Head(frames) \in FrameType /\ Head(frames) = frames[1] /\ 1 \in DOMAIN frames
      /\ FrameHeaps(frames) = FrameHeaps(Tail(frames)) \cup {x}
      /\ Leavers(frames) = Leavers(Tail(frames)) \cup {z \in {x} : Head(frames).leaves}
      /\ x \notin FrameHeaps(Tail(frames))
  BY <1>1, FramesPop
<1>3. x \in Heaps /\ x \in FrameHeaps(frames) /\ Head(frames).leaves \in BOOLEAN
  BY <1>2 DEF FrameType
<1>4. x \in live /\ (x # Root => x \in Released(frames, parent) \cup Nested(parent))
  BY <1>3, SetsAre
<1>5. ASSUME Root \notin FrameHeaps(frames)
      PROVE  \A y \in FrameHeaps(frames) : y \notin ToSet(ctx)
  <2>1. FramesApart(FrameHeaps(frames), ctx, Edges)
    BY DEF Running
  <2> QED BY <1>3, <1>5, <2>1 DEF FramesApart
<1>6. ASSUME x # Root PROVE x \notin ToSet(ctx)
  <2>1. CASE Root \in FrameHeaps(frames)
    <3>1. events = <<>> /\ Blocks(ctx, events, parent)
      BY <2>1 DEF Running
    <3>2. Len(ctx) = 1 /\ ctx[1] = Root /\ ctx \in Seq(Heaps)
      BY <3>1 DEF Blocks
    <3>3. ToSet(ctx) = {Root}
      BY <3>2 DEF ToSet
    <3> QED BY <1>6, <3>3
  <2>2. CASE Root \notin FrameHeaps(frames)
    BY <1>3, <1>5, <2>2
  <2> QED BY <2>1, <2>2
<1>7. ASSUME NEW y \in Heaps, parent[y] = x PROVE FALSE
  <2>1. parent[y] # 0
    BY <1>3, <1>7, HeapsAre
  <2>2. parent[y] \in ToSet(ctx) /\ Root \notin FrameHeaps(frames)
    BY <2>1, ParentsAre
  <2> QED BY <1>3, <1>5, <1>7, <2>2
<1>8. Leavers(frames) = FrameHeaps(frames) \cap Nested(parent) /\ Leavers(frames) \subseteq {current}
  BY DEF Running
<1>9. Leavers(Tail(frames)) \subseteq FrameHeaps(Tail(frames))
  BY DEF Leavers, FrameHeaps
<1>10. Head(frames).leaves <=> parent[x] # 0
  <2>1. Head(frames).leaves <=> x \in Leavers(frames)
    BY <1>2, <1>3, <1>9
  <2> QED BY <1>3, <1>8, <2>1 DEF Nested
<1>11. ASSUME parent[x] # 0
       PROVE  /\ Root \notin FrameHeaps(frames)
              /\ parent[x] = ctx[1] /\ x = current /\ Leavers(Tail(frames)) = {}
              /\ parent[x] \notin FrameHeaps(frames)
              /\ \A y \in Heaps \ {x} : parent[y] # parent[x]
  <2>1. parent[x] \in ToSet(ctx) /\ Root \notin FrameHeaps(frames)
    BY <1>3, <1>11, ParentsAre
  <2>2. x \in Leavers(frames) /\ x = current
    BY <1>3, <1>8, <1>11 DEF Nested
  <2>3. Leavers(Tail(frames)) = {}
    BY <1>2, <1>8, <1>9, <2>2
  <2>4. parent[x] = ctx[1]
    BY <2>2 DEF Running
  <2>5. parent[x] \notin FrameHeaps(frames)
    BY <1>5, <2>1
  <2>6. ASSUME NEW y \in Heaps \ {x}, parent[y] = parent[x] PROVE FALSE
    BY <1>3, <1>11, <2>6 DEF Base, OneNested
  <2> QED BY <2>1, <2>2, <2>3, <2>4, <2>5, <2>6
<1> QED
  BY <1>3, <1>4, <1>6, <1>7, <1>10, <1>11

\* The fiber has ended.
Finished ==
    /\ \E o : Base(o)
    /\ frames = <<>> /\ events = <<>> /\ thrown = 0
    /\ live \subseteq Elsewhere /\ Mine = {}

\* A release ends; what does not end with the fiber's heap has been given away.
LEMMA ReleaseEndsInv ==
    ASSUME NEW own, Base(own), NEW ctx, Running(ctx), ReleaseEnds, UNCHANGED away
    PROVE  (Sound' /\ ended' = "no") \/ (Finished' /\ ended' = "done")
<1> DEFINE f == Head(frames)
           x == f.heap
           p == parent[x]
<1>1. /\ ended = "no" /\ frames # <<>> /\ f.batch = <<>> /\ allocs[x] = <<>>
      /\ UNCHANGED <<allocs, kind, heap, handle, events, thrown, away>>
  BY DEF ReleaseEnds, Releasing, Drained, allocVars
<1>2. /\ Typed /\ FramesDiffer(frames) /\ Listed(allocs, heap, live, frames)
      /\ in_use = ({parent[h] : h \in Heaps} \ {0}) \cup FrameHeaps(frames)
      /\ Owned(own)
  BY DEF Base
<1>3. /\ x \in Heaps /\ x \in FrameHeaps(frames) /\ x \in live
      /\ x # Root => x \in Released(frames, parent) \cup Nested(parent)
      /\ x # Root => x \notin ToSet(ctx)
      /\ \A y \in Heaps : parent[y] # x
      /\ f.leaves <=> p # 0
      /\ p # 0 =>
           /\ Root \notin FrameHeaps(frames)
           /\ p = ctx[1] /\ x = current /\ Leavers(Tail(frames)) = {}
           /\ p \notin FrameHeaps(frames)
           /\ \A y \in Heaps \ {x} : parent[y] # p
  BY <1>1, EndsIs
<1>4. /\ FramesDiffer(Tail(frames)) /\ f \in FrameType
      /\ FrameHeaps(frames) = FrameHeaps(Tail(frames)) \cup {x}
      /\ Leavers(frames) = Leavers(Tail(frames)) \cup {z \in {x} : f.leaves}
      /\ x \notin FrameHeaps(Tail(frames)) /\ (x = Root => Tail(frames) = <<>>)
  BY <1>1, <1>2, FramesPop
<1>5. p \in Heaps \cup {0} /\ (p # 0 => p \in in_use)
  BY <1>2, <1>3 DEF Typed
<1>6. /\ live' = live \ {x} /\ parent' = [parent EXCEPT ![x] = 0] /\ in_use' = in_use \ {x, p}
      /\ frames' = Tail(frames) /\ current' = IF f.leaves THEN p ELSE current
      /\ ended' = IF x = Root THEN "done" ELSE "no"
  BY <1>5 DEF ReleaseEnds
<1>7. /\ Listed(allocs, heap, live \ {x}, Tail(frames)) /\ \A a \in Allocs : heap[a] # x
  BY <1>1, <1>2, ListedEnds
<1> HIDE DEF f, x, p
<1>8. /\ parent' \in [Heaps -> Heaps \cup {0}] /\ parent'[x] = 0
      /\ \A y \in Heaps \ {x} : parent'[y] = parent[y]
  BY <1>2, <1>3, <1>6 DEF Typed
<1>9. Typed'
  <2>1. current' \in Heaps
    BY <1>2, <1>3, <1>5, <1>6 DEF Typed
  <2> QED BY <1>1, <1>2, <1>6, <1>8, <2>1 DEF Typed
<1>10. FrameHeaps(frames') = FrameHeaps(frames) \ {x} /\ Leavers(frames') = Leavers(frames) \ {x}
  <2>1. Leavers(Tail(frames)) \subseteq FrameHeaps(Tail(frames))
    BY DEF Leavers, FrameHeaps
  <2> QED BY <1>4, <1>6, <2>1
<1>11. Nested(parent') = Nested(parent) \ {x}
  BY <1>8 DEF Nested
<1>12. Released(frames', parent') = Released(frames, parent) \ {x}
  <2>1. \A h \in FrameHeaps(frames) : h \in Heaps
    BY SetsAre
  <2> QED BY <1>8, <1>10, <2>1 DEF Released
<1>13. PICK z \in Heaps : z = x
  BY <1>3
<1>14. Owned([own EXCEPT ![z] = "none"])'
  <2>1. x \notin Handled(handle) /\ x \notin away /\ x \notin NewHeaps(events) /\ x # thrown
    BY <1>3, HeapsDiffer
  <2>2. /\ {Root} \cap live' = With({Root} \cap live, z, "none" = "fiber")
        /\ Nested(parent') = With(Nested(parent), z, "none" = "block")
        /\ Handled(handle') = With(Handled(handle), z, "none" = "handle")
        /\ away' = With(away, z, "none" = "other")
        /\ NewHeaps(events') = With(NewHeaps(events), z, "none" = "mitosis")
        /\ {thrown'} \ {0} = With({thrown} \ {0}, z, "none" = "exception")
        /\ Released(frames', parent') = With(Released(frames, parent), z, "none" = "release")
        /\ Heaps \ live' = With(Heaps \ live, z, "none" = "none")
    BY <1>1, <1>3, <1>6, <1>11, <1>12, <1>13, <2>1 DEF With
  <2>3. "none" \in Sorts
    BY DEF Sorts
  <2>4. Owned(own) /\ z \in Heaps
    BY <1>2, <1>3
  <2> QED BY <2>2, <2>3, <2>4, OwnedStep
<1>15. in_use' = ({parent'[h] : h \in Heaps} \ {0}) \cup FrameHeaps(frames')
  <2>1. ASSUME NEW u \in in_use' PROVE u \in ({parent'[h] : h \in Heaps} \ {0}) \cup FrameHeaps(frames')
    <3>1. u \in in_use /\ u # x /\ u # p
      BY <1>6, <2>1
    <3>2. CASE u \in FrameHeaps(frames)
      BY <1>10, <3>1, <3>2
    <3>3. CASE u \notin FrameHeaps(frames)
      <4>1. PICK h \in Heaps : u = parent[h] /\ u # 0
        BY <1>2, <3>1, <3>3
      <4>2. h # x
        BY <3>1, <4>1 DEF p
      <4> QED BY <1>8, <4>1, <4>2
    <3> QED BY <3>2, <3>3
  <2>2. ASSUME NEW u \in FrameHeaps(frames') PROVE u \in in_use'
    BY <1>2, <1>3, <1>5, <1>6, <1>10, <2>2, HeapsAre, SetsAre
  <2>3. ASSUME NEW h \in Heaps, parent'[h] # 0 PROVE parent'[h] \in in_use'
    <3>1. h # x /\ parent'[h] = parent[h]
      BY <1>8, <2>3
    <3>2. parent[h] # x /\ parent[h] # p
      BY <1>3, <2>3, <3>1
    <3> QED BY <1>2, <1>6, <2>3, <3>1, <3>2
  <2> QED BY <2>1, <2>2, <2>3
<1>16. Edges' = Edges
  BY <1>1 DEF Edges
<1>17. \E o : Base(o)'
  <2> DEFINE o == [own EXCEPT ![z] = "none"]
  <2>1. Listed(allocs', heap', live', frames') /\ FramesDiffer(frames')
    BY <1>1, <1>4, <1>6, <1>7
  <2>2. OneHandle(handle') /\ OneNested(parent') /\ Founded(Edges')
    BY <1>1, <1>8, <1>16 DEF Base, OneNested
  <2>3. Owned(o)'
    BY <1>14
  <2> HIDE DEF o
  <2>4. Base(o)'
    BY <1>9, <1>15, <2>1, <2>2, <2>3 DEF Base
  <2> QED BY <2>4
<1>18. CASE x # Root
  <2>1. Blocks(ctx, events', parent')
    <3>1. Blocks(ctx, events, parent)
      BY DEF Running
    <3>2. \A h \in ToSet(ctx) : parent'[h] = parent[h]
      BY <1>3, <1>8, <1>18, ContextIs
    <3> QED BY <1>1, <3>1, <3>2, BlocksPar
  <2>2. ctx[1] = IF Leavers(frames') = {} THEN current' ELSE parent'[current']
    <3>1. CASE p # 0
      BY <1>3, <1>6, <3>1
    <3>2. CASE p = 0
      <4>1. Leavers(frames') = Leavers(frames) /\ current' = current
        BY <1>3, <1>4, <1>6, <3>2
      <4>2. Leavers(frames) # {} => current \in Leavers(frames) /\ current # x
        BY <1>10, <4>1 DEF Running
      <4>3. current \in Heaps
        BY <1>2 DEF Typed
      <4> QED BY <1>8, <4>1, <4>2, <4>3 DEF Running
    <3> QED BY <3>1, <3>2
  <2>3. ToSet(ctx) \subseteq live'
    BY <1>3, <1>6, <1>18 DEF Running
  <2>4. /\ Nested(parent') \subseteq SubHeaps(ctx, events') \cup Leavers(frames')
        /\ Leavers(frames') = FrameHeaps(frames') \cap Nested(parent')
    BY <1>1, <1>10, <1>11 DEF Running
  <2>5. SubsApart(ctx, events', Edges')
    BY <1>1, <1>16 DEF Running
  <2>6. Leavers(frames') \subseteq {current'}
    BY <1>3, <1>6, <1>10 DEF Running
  <2>7. Root \in FrameHeaps(frames') => events' = <<>> /\ current' = Root /\ thrown' = 0
    BY <1>1, <1>3, <1>6, <1>10 DEF Running
  <2>8. FramesApart(FrameHeaps(frames'), ctx, Edges')
    <3>1. FramesApart(FrameHeaps(frames), ctx, Edges)
      BY DEF Running
    <3> QED BY <1>3, <1>10, <1>16, <1>18, <3>1 DEF FramesApart
  <2>9. thrown' # 0 => /\ FreeAllocs' # {} /\ \E i \in DOMAIN events' : events'[i].type = "try"
                       /\ HeapApart(thrown', Outside(ctx, events'), Edges')
    BY <1>1, <1>16 DEF Running, FreeAllocs
  <2>10. Running(ctx)'
    BY <2>1, <2>2, <2>3, <2>4, <2>5, <2>6, <2>7, <2>8, <2>9 DEF Running
  <2> QED BY <1>6, <1>17, <1>18, <2>10 DEF Sound
<1>19. CASE x = Root
  <2>1. frames' = <<>> /\ events' = <<>> /\ thrown' = 0 /\ ended' = "done"
    BY <1>1, <1>3, <1>4, <1>6, <1>19 DEF Running
  <2>2. Elsewhere' = Elsewhere /\ Allocated' = Allocated
    BY <1>1 DEF Elsewhere, ReachOf, Allocated, FreeAllocs
  <2>3. away \in SUBSET Heaps
    BY <1>2 DEF Typed
  <2>4. Elsewhere \in SUBSET Heaps /\ away \subseteq Elsewhere /\ Closed(Elsewhere, Edges)
    BY <1>2, <2>3, ReachIs DEF Elsewhere
  <2>5. live' \subseteq Elsewhere
    <3> DEFINE S == live' \ Elsewhere
    <3> SUFFICES ASSUME S # {} PROVE FALSE
      OBVIOUS
    <3>1. S \in SUBSET Heaps
      BY <1>9 DEF Typed
    <3>2. PICK h \in S : \A e \in Edges : e[2] = h => e[1] \notin S
      BY <3>1 DEF Base, Founded
    <3>3. /\ h \in Heaps /\ h \notin away /\ h # Root /\ h \in live
      BY <1>6, <1>19, <2>4, <3>1
    <3>4. h \notin Nested(parent) /\ h \notin NewHeaps(events) /\ h \notin Released(frames, parent)
      <4>1. Leavers(frames) = {} /\ SubHeaps(ctx, events) = {} /\ NewHeaps(events) = {}
        <5>1. Root \notin Nested(parent)
          <6>1. x \in {Root} \cap live
            BY <1>3, <1>19
          <6> QED BY <1>3, <1>19, <6>1, HeapsDiffer
        <5>2. Leavers(frames) = {}
          <6>1. FrameHeaps(frames) = {Root}
            BY <1>4, <1>19 DEF FrameHeaps
          <6> QED BY <5>1, <6>1 DEF Running
        <5> QED BY <1>1, <2>1, <5>2 DEF SubHeaps, NewHeaps
      <4>2. FrameHeaps(frames) = {Root}
        BY <1>4, <1>19 DEF FrameHeaps
      <4> QED BY <3>3, <4>1, <4>2 DEF Running, Released
    <3>5. h \in Handled(handle)
      <4>1. OwnedBy(own, {Root} \cap live, Nested(parent), Handled(handle), away, NewHeaps(events),
                    {thrown} \ {0}, Released(frames, parent), Heaps \ live)
        BY <1>2 DEF Owned
      <4>2. own[h] \in Sorts
        BY <3>3, <4>1 DEF OwnedBy
      <4>3. thrown = 0
        BY <1>1, <2>1
      <4> QED BY <3>3, <3>4, <4>1, <4>2, <4>3 DEF OwnedBy, Sorts
    <3>6. PICK a \in Allocs : handle[a] = h /\ handle[a] # 0
      BY <3>5 DEF Handled
    <3>7. <<heap[a], handle[a]>> \in Edges
      BY <1>2, <3>6, EdgesAre
    <3>8. heap[a] \in live'
      <4>1. heap[a] # 0
        BY <1>2, <3>6 DEF Typed
      <4> QED BY <1>2, <1>6, <1>7, <4>1 DEF Listed
    <3>9. heap[a] \notin S
      BY <3>2, <3>6, <3>7
    <3>10. <<heap[a], handle[a]>>[1] \in Elsewhere => <<heap[a], handle[a]>>[2] \in Elsewhere
      BY <2>4, <3>7 DEF Closed
    <3> QED BY <3>6, <3>8, <3>9, <3>10
  <2>6. Mine' = {}
    <3> SUFFICES ASSUME NEW a \in Allocated PROVE heap[a] \in Elsewhere
      BY <1>1, <2>2 DEF Mine
    <3>1. a \in Allocs /\ heap[a] # 0
      BY <1>2 DEF Allocated, FreeAllocs, Typed
    <3>2. heap[a] \in live'
      BY <1>2, <1>6, <1>7, <3>1 DEF Listed
    <3> QED BY <2>5, <3>2
  <2> QED BY <1>17, <2>1, <2>2, <2>5, <2>6 DEF Finished
<1> QED
  BY <1>18, <1>19

\* __rcd_vm_heap_import_all and the release of the heap that is empty then.
LEMMA TakeAllInv ==
    ASSUME NEW own, Base(own), NEW ctx, Running(ctx), ended = "no", frames = <<>>, thrown = 0,
           UNCHANGED <<live, parent, current, events, thrown, away>>,
           NEW a \in Handles, handle[a] # 0, NEW dst \in ToSet(ctx), TakeAll(a, dst)
    PROVE  Sound' /\ ended' = "no"
<1> DEFINE src == handle[a]
           Q == ReachOf({src})
           lists == [allocs EXCEPT ![dst] = @ \o allocs[src], ![src] = <<>>]
           hp == [b \in Allocs |-> IF heap[b] = src THEN dst ELSE heap[b]]
<1>1. Typed /\ OneHandle(handle) /\ Founded(Edges) /\ Listed(allocs, heap, live, <<>>)
  BY DEF Base
<1>2. /\ a \in Allocs /\ kind[a] = "handle" /\ heap[a] \in Heaps
      /\ src \in Heaps /\ src \in Handled(handle)
      /\ Q \in SUBSET Heaps /\ Closed(Q, Edges) /\ src \in Q /\ Q \cap ToSet(ctx) = {}
  BY HandlesApart
<1>3. dst \in Heaps /\ dst \in live
  BY ContextIs DEF Running
<1>4. /\ allocs' = [lists EXCEPT ![heap[a]] = Unlisted(@, a)]
      /\ kind' = [kind EXCEPT ![a] = "free"]
      /\ heap' = [b \in Allocs |-> IF b = a THEN 0 ELSE IF heap[b] = src THEN dst ELSE heap[b]]
      /\ handle' = [handle EXCEPT ![a] = 0]
      /\ Release(src, frames, FALSE)
  BY DEF TakeAll
<1> HIDE DEF Q
<1>5. src # dst /\ src \notin ToSet(ctx) /\ dst \notin Q
  BY <1>2
<1>6. heap[a] # src
  <2>1. {src} \in SUBSET Heaps /\ {src} # {}
    BY <1>2
  <2>2. PICK x \in {src} : \A e \in Edges : e[2] = x => e[1] \notin {src}
    BY <1>1, <2>1 DEF Founded
  <2>3. <<heap[a], src>> \in Edges
    BY <1>1, <1>2, EdgesAre
  <2> QED BY <2>2, <2>3
<1>7. Listed(allocs', heap', live', <<>>)
  <2>1. Listed(lists, hp, live, <<>>)
    <3> HIDE DEF src
    <3>1. src \in Heaps /\ dst \in Heaps /\ src # dst /\ dst \in live
      BY <1>2, <1>3, <1>5
    <3>2. hp = [b \in Allocs |-> IF heap[b] = src THEN dst ELSE heap[b]]
      OBVIOUS
    <3> HIDE DEF hp
    <3>3. Listed([allocs EXCEPT ![dst] = @ \o allocs[src], ![src] = <<>>], hp, live, <<>>)
      BY <1>1, <3>1, <3>2, ListedJoin
    <3> QED BY <3>3
  <2>2. hp[a] = heap[a] /\ hp[a] # 0
    BY <1>2, <1>6, HeapsAre
  <2>3. heap' = [hp EXCEPT ![a] = 0]
    BY <1>2, <1>4
  <2> HIDE DEF lists, hp
  <2>4. Listed([lists EXCEPT ![hp[a]] = Unlisted(@, a)], [hp EXCEPT ![a] = 0], live, <<>>)
    BY <1>2, <2>1, <2>2, ListedRemove
  <2> QED BY <1>4, <2>2, <2>3, <2>4
<1>8. /\ heap' \in [Allocs -> Heaps \cup {0}] /\ heap'[a] = 0
      /\ \A b \in Allocs \ {a} : heap'[b] = IF heap[b] = src THEN dst ELSE heap[b]
  BY <1>1, <1>2, <1>3, <1>4 DEF Typed
<1>9. /\ kind' \in [Allocs -> {"free", "plain", "object", "handle"}] /\ kind'[a] = "free"
      /\ \A b \in Allocs \ {a} : kind'[b] = kind[b]
  BY <1>1, <1>2, <1>4 DEF Typed
<1>10. /\ handle' \in [Allocs -> Heaps \cup {0}] /\ handle'[a] = 0
       /\ \A b \in Allocs \ {a} : handle'[b] = handle[b]
  BY <1>1, <1>2, <1>4 DEF Typed
<1> HIDE DEF src, lists, hp
<1>11. Typed'
  <2>1. \A b \in Allocs : kind'[b] = "free" <=> heap'[b] = 0
    BY <1>1, <1>2, <1>3, <1>8, <1>9, HeapsAre DEF Typed
  <2>2. \A b \in Allocs : handle'[b] # 0 => kind'[b] = "handle"
    BY <1>1, <1>9, <1>10 DEF Typed
  <2> QED BY <1>1, <1>8, <1>9, <1>10, <2>1, <2>2 DEF Typed
<1>12. Handled(handle') = Handled(handle) \ {src} /\ OneHandle(handle')
  <2>1. OneHandle(handle')
    BY <1>1, <1>10 DEF OneHandle
  <2>2. ASSUME NEW b \in Allocs, handle'[b] # 0 PROVE handle'[b] \in Handled(handle) \ {src}
    BY <1>1, <1>2, <1>10, <2>2 DEF OneHandle, Handled, src
  <2>3. ASSUME NEW b \in Allocs, handle[b] # 0, handle[b] # src PROVE handle[b] \in Handled(handle')
    BY <1>10, <2>3 DEF Handled, src
  <2> QED BY <2>1, <2>2, <2>3 DEF Handled
<1>13. Grafted(Edges, Edges', dst, Q)
  <2> SUFFICES ASSUME NEW b \in Allocs, handle'[b] # 0
               PROVE  \/ <<heap'[b], handle'[b]>> \in Edges
                      \/ heap'[b] = dst /\ handle'[b] \in Q
    BY DEF Grafted, Edges
  <2>1. b # a /\ handle'[b] = handle[b]
    BY <1>10
  <2>2. <<heap[b], handle[b]>> \in Edges
    BY <2>1 DEF Edges
  <2>3. CASE heap[b] = src
    <3>1. <<heap[b], handle[b]>>[1] \in Q => <<heap[b], handle[b]>>[2] \in Q
      BY <1>2, <2>2 DEF Closed
    <3>2. handle[b] \in Q
      BY <1>2, <2>3, <3>1
    <3> QED BY <1>8, <2>1, <2>3, <3>2
  <2>4. CASE heap[b] # src
    BY <1>8, <2>1, <2>2, <2>4
  <2> QED BY <2>3, <2>4
<1>14. Founded(Edges')
  BY <1>1, <1>2, <1>5, <1>13, FoundedGraft
<1>15. SubsApart(ctx, events, Edges')
  BY <1>2, <1>13, SubsGraft DEF Running
<1>16. FramesApart(FrameHeaps(frames) \cup {src}, ctx, Edges')
  <2>1. FrameHeaps(frames) \cup {src} = {src}
    BY NoFrames
  <2>2. Closed(Q, Edges')
    BY <1>2, <1>5, <1>13, ClosedGraft
  <2> QED BY <1>2, <2>1, <2>2 DEF FramesApart
<1>17. src \notin in_use
  BY <1>2, <1>5, HandledUnused
<1>18. /\ frames' = <<[heap |-> src, batch |-> <<>>, leaves |-> FALSE]>> \o frames
       /\ in_use' = in_use \cup {src} /\ ended' = ended
  BY <1>4, <1>17 DEF Release
<1>19. FramesDiffer(frames) /\ Listed(allocs', heap', live', frames)
  BY <1>7, NoFrames
<1>20. \E o : Base(o)' /\ Running(ctx)'
  <2>1. thrown # 0 => FreeAllocs' # {} /\ HeapApart(thrown, Outside(ctx, events), Edges')
    OBVIOUS
  <2>2. src \in Handled(handle) /\ src \in Heaps /\ (src \notin ToSet(ctx) \/ Root \in FrameHeaps(frames))
    BY <1>2, <1>5
  <2> QED BY <1>11, <1>12, <1>14, <1>15, <1>16, <1>18, <1>19, <2>1, <2>2, ReleaseStep
<1> QED
  BY <1>18, <1>20 DEF Sound

\* lwt_consume_heap.
LEMMA ConsumeInv ==
    ASSUME NEW own, Base(own), NEW ctx, Running(ctx), Consume, UNCHANGED away
    PROVE  Sound' /\ ended' = "no"
<1>1. /\ ended = "no" /\ frames = <<>> /\ thrown = 0
      /\ UNCHANGED <<live, parent, current, events, thrown, away>>
  BY DEF Consume, Runs
<1>2. PICK a \in Handles : handle[a] # 0 /\ TakeAll(a, current)
  BY DEF Consume
<1>3. current \in ToSet(ctx)
  BY <1>1, CurrentIs
<1> QED
  BY <1>1, <1>2, <1>3, TakeAllInv

\* __rcd_escape_sh_txn.
LEMMA EscapeTxnInv ==
    ASSUME NEW own, Base(own), NEW ctx, Running(ctx), EscapeTxn, UNCHANGED away
    PROVE  Sound' /\ ended' = "no"
<1>1. /\ ended = "no" /\ frames = <<>> /\ thrown = 0 /\ events # <<>> /\ events[1].type = "sub"
      /\ UNCHANGED <<live, parent, current, events, thrown, away>>
  BY DEF EscapeTxn, Runs
<1>2. PICK a \in Handles : handle[a] # 0 /\ TakeAll(a, parent[current])
  BY DEF EscapeTxn
<1>3. ctx[1] = current /\ Blocks(ctx, events, parent) /\ ctx \in Seq(Heaps)
  BY <1>1, CurrentIs, ContextIs
<1>4. 2 \in DOMAIN ctx /\ Enters(events[1], ctx[1], ctx[2], parent)
  BY <1>1, <1>3, BlocksPop
<1>5. parent[current] = ctx[2] /\ ctx[2] \in ToSet(ctx)
  BY <1>1, <1>3, <1>4 DEF Enters, ToSet
<1> QED
  BY <1>1, <1>2, <1>5, TakeAllInv

------------------------------------------------------------------------------
(* The steps that make or use heaps keep the invariant.                     *)

\* The invariant while nothing is released ...
LEMMA CalmIs ==
    ASSUME NEW own, Base(own), NEW ctx, Running(ctx), frames = <<>>
    PROVE  /\ Typed /\ Listed(allocs, heap, live, <<>>) /\ OneHandle(handle) /\ OneNested(parent)
           /\ Owned(own) /\ in_use = {parent[h] : h \in Heaps} \ {0} /\ Founded(Edges)
           /\ Blocks(ctx, events, parent) /\ ctx[1] = current /\ ToSet(ctx) \subseteq live
           /\ Nested(parent) \subseteq SubHeaps(ctx, events) /\ SubsApart(ctx, events, Edges)
           /\ thrown # 0 => /\ FreeAllocs # {}
                            /\ \E i \in DOMAIN events : events[i].type = "try"
                            /\ HeapApart(thrown, Outside(ctx, events), Edges)
<1>1. FrameHeaps(frames) = {} /\ Leavers(frames) = {}
  BY NoFrames
<1> QED
  BY <1>1 DEF Base, Running

\* ... and what it takes to keep it so.
LEMMA CalmBase ==
    ASSUME NEW own, frames' = <<>>, Typed', Listed(allocs', heap', live', <<>>),
           OneHandle(handle'), OneNested(parent'), Owned(own)',
           in_use' = {parent'[h] : h \in Heaps} \ {0}, Founded(Edges')
    PROVE  Base(own)'
<1>1. FrameHeaps(<<>>) = {} /\ FramesDiffer(<<>>)
  BY DEF FrameHeaps, FramesDiffer
<1> QED
  BY <1>1 DEF Base

\* The condition of a fiber that releases nothing, after a step.
LEMMA CalmRunning ==
    ASSUME NEW ctx, frames' = <<>>,
           Blocks(ctx, events', parent'), ctx[1] = current', ToSet(ctx) \subseteq live',
           Nested(parent') \subseteq SubHeaps(ctx, events'), SubsApart(ctx, events', Edges'),
           thrown' # 0 => /\ FreeAllocs' # {}
                          /\ \E i \in DOMAIN events' : events'[i].type = "try"
                          /\ HeapApart(thrown', Outside(ctx, events'), Edges')
    PROVE  Running(ctx)'
<1>1. FrameHeaps(<<>>) = {} /\ Leavers(<<>>) = {}
  BY DEF FrameHeaps, Leavers
<1>2. FramesApart({}, ctx, Edges')
  BY DEF FramesApart
<1> QED
  BY <1>1, <1>2 DEF Running

\* The heaps of events that are no more released, and who has the others.
LEMMA OwnedSame ==
    ASSUME NEW own, Owned(own), frames = <<>>, frames' = <<>>,
           UNCHANGED <<live, parent, away, thrown>>, Handled(handle') = Handled(handle),
           NewHeaps(events') = NewHeaps(events)
    PROVE  Owned(own)'
<1>1. Released(frames', parent') = Released(frames, parent)
  BY DEF Released
<1> QED
  BY <1>1 DEF Owned

\* A heap that does not exist.
LEMMA FreshIs ==
    ASSUME NEW own, Base(own), NEW ctx, Running(ctx), frames = <<>>, FreeHeaps # {},
           NEW h, h = Min(FreeHeaps)
    PROVE  /\ h \in Heaps /\ h \notin live /\ h # 0 /\ h # Root /\ parent[h] = 0 /\ h \notin in_use
           /\ h \notin ToSet(ctx) /\ h \notin Handled(handle) /\ h \notin away
           /\ h \notin NewHeaps(events) /\ h # thrown
           /\ Closed({h}, Edges)
<1>1. h \in FreeHeaps
  <2>1. FreeHeaps \in SUBSET Nat
    BY HeapsAre DEF FreeHeaps
  <2> QED BY <2>1, MinIn
<1>2. h \in Heaps /\ h \notin live /\ h # 0
  BY <1>1, HeapsAre DEF FreeHeaps
<1>3. /\ h \notin Nested(parent) /\ h \notin Handled(handle) /\ h \notin away
      /\ h \notin NewHeaps(events) /\ h # thrown
  BY <1>2, HeapsDiffer
<1>4. /\ Typed /\ Listed(allocs, heap, live, <<>>) /\ ToSet(ctx) \subseteq live
      /\ in_use = {parent[y] : y \in Heaps} \ {0}
  BY CalmIs
<1>5. parent[h] = 0 /\ h # Root /\ h \notin ToSet(ctx)
  BY <1>2, <1>3, <1>4, ContextIs DEF Nested
<1>6. h \notin in_use
  <2> SUFFICES ASSUME NEW y \in Heaps, parent[y] = h PROVE FALSE
    BY <1>4
  <2>1. parent[y] # 0
    BY <1>2
  <2>2. parent[y] \in ToSet(ctx)
    BY <2>1, ParentsAre
  <2> QED BY <1>5, <2>2
<1>7. Closed({h}, Edges)
  <2> SUFFICES ASSUME NEW e \in Edges, e[1] = h PROVE FALSE
    BY <1>2 DEF Closed
  <2>1. PICK a \in Allocs : handle[a] # 0 /\ e = <<heap[a], handle[a]>>
    BY <1>4, EdgesAre
  <2>2. heap[a] = h
    BY <2>1
  <2> QED BY <1>2, <1>4, <2>2 DEF Listed
<1> QED
  BY <1>2, <1>3, <1>5, <1>6, <1>7

\* The heap of a sub heap block, or of no block, is in use only while it is released.
LEMMA CurrentUnused ==
    ASSUME NEW own, Base(own), NEW ctx, Running(ctx), frames = <<>>,
           events = <<>> \/ events[1].type = "sub"
    PROVE  current \notin in_use
<1>1. /\ in_use = {parent[h] : h \in Heaps} \ {0} /\ Blocks(ctx, events, parent)
      /\ ctx[1] = current /\ Nested(parent) \subseteq SubHeaps(ctx, events)
      /\ SubsApart(ctx, events, Edges)
  BY CalmIs
<1> SUFFICES ASSUME NEW y \in Heaps, parent[y] = current, parent[y] # 0 PROVE FALSE
  BY <1>1
<1>2. y \in SubHeaps(ctx, events)
  BY <1>1 DEF Nested
<1>3. PICK k \in DOMAIN events : events[k].type = "sub" /\ y = ctx[k]
  BY <1>2 DEF SubHeaps
<1>4. /\ DOMAIN ctx = 1 .. Len(events) + 1 /\ DOMAIN events = 1 .. Len(events)
      /\ Len(events) \in Nat /\ Enters(events[k], ctx[k], ctx[k + 1], parent)
  BY <1>1 DEF Blocks
<1>5. parent[y] = ctx[k + 1]
  BY <1>3, <1>4 DEF Enters
<1>6. 1 \in DOMAIN events /\ k + 1 \in DOMAIN ctx /\ 1 < k + 1
  BY <1>4
<1>7. Makes(events[1])
  BY <1>6 DEF Makes
<1>8. ctx[1] # ctx[k + 1]
  BY <1>1, <1>6, <1>7, MadeApart
<1> QED
  BY <1>1, <1>5, <1>8

\* If the current heap is in use while nothing is released, the program is inside of the heap
\* that is nested in it: that heap is not one the current heap is nested in itself.
LEMMA CurrentUsed ==
    ASSUME NEW own, Base(own), NEW ctx, Running(ctx), frames = <<>>, current \in in_use
    PROVE  Reentered
<1>1. /\ in_use = {parent[h] : h \in Heaps} \ {0} /\ Blocks(ctx, events, parent)
      /\ ctx[1] = current /\ Nested(parent) \subseteq SubHeaps(ctx, events)
      /\ SubsApart(ctx, events, Edges) /\ Typed
  BY CalmIs
<1>2. /\ DOMAIN ctx = 1 .. Len(events) + 1 /\ DOMAIN events = 1 .. Len(events)
      /\ Len(events) \in Nat /\ ctx \in Seq(Heaps) /\ events \in Seq(EventType)
      /\ \A i \in DOMAIN events : Enters(events[i], ctx[i], ctx[i + 1], parent)
  BY <1>1 DEF Blocks
<1>3. ASSUME NEW x \in Heaps, parent[x] # 0
      PROVE  \E k \in DOMAIN events : events[k].type = "sub" /\ x = ctx[k] /\ parent[x] = ctx[k + 1]
  <2>1. x \in SubHeaps(ctx, events)
    BY <1>1, <1>3 DEF Nested
  <2>2. PICK k \in DOMAIN events : events[k].type = "sub" /\ x = ctx[k]
    BY <2>1 DEF SubHeaps
  <2>3. Enters(events[k], ctx[k], ctx[k + 1], parent)
    BY <1>2
  <2> QED BY <2>2, <2>3 DEF Enters
<1>4. PICK y \in Heaps : parent[y] = current /\ parent[y] # 0
  BY <1>1
<1>5. PICK i \in DOMAIN events : events[i].type = "sub" /\ y = ctx[i] /\ parent[y] = ctx[i + 1]
  BY <1>3, <1>4
<1> DEFINE S == {ctx[j] : j \in {k \in DOMAIN ctx : k > i}}
<1>6. ASSUME NEW k \in DOMAIN events, events[k].type = "sub", NEW j \in DOMAIN ctx, k < j
      PROVE  ctx[k] # ctx[j]
  BY <1>1, <1>6, MadeApart DEF Makes
<1>7. Chain(current) \subseteq S
  <2>1. S \in SUBSET Heaps
    BY <1>2
  <2>2. current \in S
    BY <1>2, <1>4, <1>5
  <2>3. ASSUME NEW x \in S, parent[x] # 0 PROVE parent[x] \in S
    <3>1. PICK j \in DOMAIN ctx : j > i /\ x = ctx[j]
      OBVIOUS
    <3>2. PICK k \in DOMAIN events : events[k].type = "sub" /\ x = ctx[k] /\ parent[x] = ctx[k + 1]
      BY <1>3, <2>1, <2>3
    <3>3. ~(k < j)
      BY <1>6, <3>1, <3>2
    <3>4. k + 1 \in DOMAIN ctx /\ k + 1 > i
      BY <1>2, <3>1, <3>3
    <3> QED BY <3>2, <3>4
  <2> HIDE DEF S
  <2>4. current \in Heaps
    BY <1>1 DEF Typed
  <2> QED BY <1>1, <2>1, <2>2, <2>3, <2>4, ChainIs
<1>8. y \notin S
  BY <1>5, <1>6
<1>9. y \in Inside
  <2>1. i \in DOMAIN ctx
    BY <1>2
  <2>2. y \in ToSet(ctx)
    BY <1>5, <2>1 DEF ToSet
  <2> QED BY <1>1, <2>2, InsideIs
<1> HIDE DEF S
<1>10. PICK j \in DOMAIN events : events[j].prev # 0 /\ y \in Chain(events[j].prev)
  BY <1>7, <1>8, <1>9 DEF Inside
<1>11. events[j].prev # current
  BY <1>7, <1>8, <1>10
<1>12. current \in Chain(events[j].prev)
  <2>1. events[j] \in EventType
    BY <1>2
  <2>2. events[j].prev \in Heaps
    BY <1>10, <2>1 DEF EventType
  <2> QED BY <1>1, <1>4, <1>10, <2>2, ChainIs
<1> QED
  BY <1>10, <1>11, <1>12 DEF Reentered

\* lwt_alloc_heap: the new heap ends with the heap of its handle.
LEMMA AllocHeapStep ==
    ASSUME NEW own, Base(own), NEW ctx, Running(ctx), frames = <<>>, thrown = 0,
           FreeAllocs # {}, FreeHeaps # {}, NEW h, h = Min(FreeHeaps),
           Create(h, 0), Insert(Min(FreeAllocs), current, "handle", h),
           UNCHANGED <<thrown, frames, away>>, current' \in Heaps,
           NewHeaps(events') = NewHeaps(events)
    PROVE  /\ \E o : Base(o)'
           /\ live' = live \cup {h} /\ parent' = parent
           /\ SubsApart(ctx, events, Edges') /\ Closed({h}, Edges')
<1> DEFINE b == Min(FreeAllocs)
<1>1. Create(h, 0) /\ Insert(b, current, "handle", h)
  OBVIOUS
<1>2. /\ Typed /\ Listed(allocs, heap, live, <<>>) /\ OneHandle(handle) /\ OneNested(parent)
      /\ Owned(own)
      /\ in_use = {parent[y] : y \in Heaps} \ {0} /\ Founded(Edges)
      /\ Blocks(ctx, events, parent) /\ ctx[1] = current /\ ToSet(ctx) \subseteq live
      /\ Nested(parent) \subseteq SubHeaps(ctx, events) /\ SubsApart(ctx, events, Edges)
  BY CalmIs
<1>3. /\ h \in Heaps /\ h \notin live /\ h # 0 /\ h # Root /\ parent[h] = 0 /\ h \notin in_use
      /\ h \notin ToSet(ctx) /\ h \notin Handled(handle) /\ h \notin away
      /\ h \notin NewHeaps(events) /\ h # thrown
      /\ Closed({h}, Edges)
  BY FreshIs
<1>4. b \in Allocs /\ kind[b] = "free" /\ heap[b] = 0 /\ handle[b] = 0
  BY <1>2, FreeIs
<1>5. current \in Heaps /\ current \in live /\ current \in ToSet(ctx)
  BY CurrentIs
<1> HIDE DEF b
<1>6. live' = live \cup {h} /\ parent' = parent /\ in_use' = in_use
  BY <1>1, <1>2, <1>3 DEF Create, Typed
<1>7. Typed'
  <2>1. /\ current' \in Heaps /\ thrown' \in Heaps \cup {0}
        /\ live' \subseteq Heaps /\ parent' \in [Heaps -> Heaps \cup {0}] /\ away' = away
    BY <1>2, <1>3, <1>5, <1>6 DEF Typed
  <2>2. h \in Heaps \cup {0} /\ "handle" \in {"plain", "object", "handle"} /\ (h # 0 => "handle" = "handle")
    BY <1>3
  <2> QED BY <1>1, <1>2, <1>4, <1>5, <2>1, <2>2, InsertTyped
<1>8. Listed(allocs', heap', live', <<>>)
  <2>1. Listed([allocs EXCEPT ![current] = Append(@, b)], [heap EXCEPT ![b] = current], live, <<>>)
    BY <1>2, <1>4, <1>5, ListedInsert
  <2>2. Listed(allocs', heap', live, <<>>)
    BY <1>1, <2>1 DEF Insert
  <2>3. live \subseteq live'
    BY <1>6
  <2> QED BY <2>2, <2>3, ListedLive
<1>9. /\ handle' \in [Allocs -> Heaps \cup {0}] /\ handle'[b] = h
      /\ \A c \in Allocs \ {b} : handle'[c] = handle[c] /\ heap'[c] = heap[c]
      /\ heap'[b] = current
  BY <1>1, <1>2, <1>3, <1>4 DEF Insert, Typed
<1>10. Handled(handle') = Handled(handle) \cup {h} /\ OneHandle(handle')
  <2>1. OneHandle(handle')
    <3> SUFFICES ASSUME NEW c \in Allocs, NEW d \in Allocs, handle'[c] = handle'[d], handle'[c] # 0
                 PROVE  c = d
      BY DEF OneHandle
    <3> QED BY <1>2, <1>3, <1>9 DEF OneHandle, Handled
  <2>2. ASSUME NEW c \in Allocs, handle'[c] # 0 PROVE handle'[c] \in Handled(handle) \cup {h}
    BY <1>9, <2>2 DEF Handled
  <2>3. ASSUME NEW c \in Allocs, handle[c] # 0 PROVE handle[c] \in Handled(handle')
    BY <1>4, <1>9, <2>3 DEF Handled
  <2>4. h \in Handled(handle')
    BY <1>3, <1>4, <1>9 DEF Handled
  <2> QED BY <2>1, <2>2, <2>3, <2>4 DEF Handled
<1>11. Grafted(Edges, Edges', current, {h})
  <2> SUFFICES ASSUME NEW e \in Edges' PROVE e \in Edges \/ (e[1] = current /\ e[2] \in {h})
    BY DEF Grafted
  <2> HIDE DEF b
  <2>1. PICK c \in Allocs : handle'[c] # 0 /\ e = <<heap'[c], handle'[c]>>
    BY DEF Edges
  <2>2. \/ <<heap'[c], handle'[c]>> \in Edges
        \/ heap'[c] = current /\ handle'[c] \in {h}
    <3>1. CASE c = b
      BY <1>9, <3>1
    <3>2. CASE c # b
      <4>1. handle'[c] = handle[c] /\ heap'[c] = heap[c]
        BY <1>9, <3>2
      <4> QED BY <2>1, <4>1 DEF Edges
    <3> QED BY <3>1, <3>2
  <2> QED BY <2>1, <2>2
<1>12. Founded(Edges') /\ SubsApart(ctx, events, Edges')
  <2>1. {h} \in SUBSET Heaps /\ {h} \cap ToSet(ctx) = {} /\ current \notin {h}
    BY <1>3, <1>5
  <2>2. Founded(Edges')
    BY <1>2, <1>3, <1>11, <2>1, FoundedGraft
  <2>3. SubsApart(ctx, events, Edges')
    BY <1>2, <1>3, <1>11, <2>1, SubsGraft
  <2> QED BY <2>2, <2>3
<1>13. Owned([own EXCEPT ![h] = "handle"])'
  <2>1. Released(frames, parent) = {} /\ Released(frames', parent') = {}
    BY NoFrames DEF Released, FrameHeaps
  <2>2. /\ {Root} \cap live' = With({Root} \cap live, h, "handle" = "fiber")
        /\ Nested(parent') = With(Nested(parent), h, "handle" = "block")
        /\ Handled(handle') = With(Handled(handle), h, "handle" = "handle")
        /\ away' = With(away, h, "handle" = "other")
        /\ NewHeaps(events') = With(NewHeaps(events), h, "handle" = "mitosis")
        /\ {thrown'} \ {0} = With({thrown} \ {0}, h, "handle" = "exception")
        /\ Released(frames', parent') = With(Released(frames, parent), h, "handle" = "release")
        /\ Heaps \ live' = With(Heaps \ live, h, "handle" = "none")
    BY <1>3, <1>6, <1>10, <2>1 DEF With, Nested
  <2>3. "handle" \in Sorts
    BY DEF Sorts
  <2> QED BY <1>2, <1>3, <2>2, <2>3, OwnedStep
<1>14. \E o : Base(o)'
  <2> DEFINE o == [own EXCEPT ![h] = "handle"]
  <2>1. in_use' = {parent'[y] : y \in Heaps} \ {0} /\ OneNested(parent')
    BY <1>2, <1>6
  <2>2. Owned(o)' /\ frames' = <<>>
    BY <1>13
  <2> HIDE DEF o
  <2>3. Base(o)'
    BY <1>7, <1>8, <1>10, <1>12, <2>1, <2>2, CalmBase
  <2> QED BY <2>3
<1>15. Closed({h}, Edges')
  <2>1. Closed({h} \cup {h}, Edges')
    BY <1>3, <1>11, ClosedGraft
  <2> QED BY <2>1
<1> QED
  BY <1>6, <1>12, <1>14, <1>15

\* lwt_alloc_heap.
LEMMA AllocHeapInv ==
    ASSUME NEW own, Base(own), NEW ctx, Running(ctx), AllocHeap, UNCHANGED away
    PROVE  Sound' /\ ended' = "no"
<1>1. /\ ended = "no" /\ frames = <<>> /\ thrown = 0 /\ FreeAllocs # {} /\ FreeHeaps # {}
      /\ UNCHANGED <<current, events, thrown, frames, ended>>
  BY DEF AllocHeap, Runs
<1>2. PICK h : h = Min(FreeHeaps)
  OBVIOUS
<1>3. Create(h, 0) /\ Insert(Min(FreeAllocs), current, "handle", h)
  BY <1>2 DEF AllocHeap
<1>4. /\ Blocks(ctx, events, parent) /\ ctx[1] = current /\ ToSet(ctx) \subseteq live
      /\ Nested(parent) \subseteq SubHeaps(ctx, events)
  BY <1>1, CalmIs
<1>5. current' \in Heaps /\ NewHeaps(events') = NewHeaps(events)
  BY <1>1, CurrentIs
<1>6. /\ \E o : Base(o)'
      /\ live' = live \cup {h} /\ parent' = parent
      /\ SubsApart(ctx, events, Edges')
  BY <1>1, <1>2, <1>3, <1>5, AllocHeapStep
<1>7. Running(ctx)'
  <2>1. /\ frames' = <<>> /\ Blocks(ctx, events', parent') /\ ctx[1] = current'
        /\ ToSet(ctx) \subseteq live' /\ Nested(parent') \subseteq SubHeaps(ctx, events')
        /\ SubsApart(ctx, events', Edges') /\ thrown' = 0
    BY <1>1, <1>4, <1>6
  <2> QED BY <2>1, CalmRunning
<1> QED
  BY <1>1, <1>6, <1>7 DEF Sound

\* A block that changes neither the heaps nor the allocations is entered.
LEMMA EnterStep ==
    ASSUME NEW own, Base(own), NEW ctx, Running(ctx), frames = <<>>, thrown = 0,
           UNCHANGED <<live, parent, in_use, allocVars, thrown, frames, away>>,
           NEW e \in EventType, events' = <<e>> \o events, e.type \in {"switch", "try"},
           NEW h \in Heaps, current' = h, h \in live, Enters(e, h, ctx[1], parent)
    PROVE  Sound'
<1>1. /\ Typed /\ Listed(allocs, heap, live, <<>>) /\ OneHandle(handle) /\ OneNested(parent)
      /\ Owned(own)
      /\ in_use = {parent[y] : y \in Heaps} \ {0} /\ Founded(Edges)
      /\ Blocks(ctx, events, parent) /\ ToSet(ctx) \subseteq live
      /\ Nested(parent) \subseteq SubHeaps(ctx, events) /\ SubsApart(ctx, events, Edges)
  BY CalmIs
<1> DEFINE c == <<h>> \o ctx
<1>2. /\ Blocks(c, events', parent) /\ c[1] = h
      /\ SubHeaps(c, events') = SubHeaps(ctx, events) \cup {x \in {h} : e.type = "sub"}
      /\ NewHeaps(events') = NewHeaps(events) \cup {x \in {e.new} : e.type = "mitosis"}
      /\ ToSet(c) = ToSet(ctx) \cup {h}
  <2>1. /\ Blocks(ctx, events, parent) /\ h \in Heaps /\ e \in EventType
        /\ Enters(e, h, ctx[1], parent)
    BY <1>1
  <2>2. OnTop(c, ctx, h) /\ OnTop(events', events, e)
    BY DEF OnTop
  <2> HIDE DEF c
  <2> QED BY <2>1, <2>2, BlocksPush
<1>3. Typed' /\ Edges' = Edges
  BY <1>1 DEF Typed, Edges, allocVars
<1>4. SubsApart(c, events', Edges')
  <2>1. /\ ctx \in Seq(Heaps) /\ events \in Seq(EventType) /\ Len(ctx) = Len(events) + 1
    BY <1>1 DEF Blocks
  <2>2. ~Makes(e)
    BY DEF Makes
  <2>3. SubsApart(<<h>> \o ctx, <<e>> \o events, Edges)
    BY <1>1, <2>1, <2>2, SubsPush
  <2> QED BY <1>3, <2>3
<1>5. Base(own)'
  <2>1. Owned(own)'
    BY <1>1, <1>2, OwnedSame DEF allocVars
  <2>2. /\ frames' = <<>> /\ Listed(allocs', heap', live', <<>>)
        /\ OneHandle(handle') /\ OneNested(parent')
        /\ in_use' = {parent'[y] : y \in Heaps} \ {0} /\ Founded(Edges')
    BY <1>1, <1>3 DEF allocVars
  <2> QED BY <1>3, <2>1, <2>2, CalmBase
<1> HIDE DEF c
<1>6. Running(c)'
  <2>1. /\ frames' = <<>> /\ Blocks(c, events', parent') /\ c[1] = current'
        /\ ToSet(c) \subseteq live' /\ Nested(parent') \subseteq SubHeaps(c, events')
        /\ SubsApart(c, events', Edges')
        /\ thrown' # 0 => /\ FreeAllocs' # {}
                          /\ \E i \in DOMAIN events' : events'[i].type = "try"
                          /\ HeapApart(thrown', Outside(c, events'), Edges')
    BY <1>1, <1>2, <1>4
  <2> QED BY <2>1, CalmRunning
<1> QED
  BY <1>5, <1>6 DEF Sound

\* The block of try: the heap stays the same.
LEMMA PushTryInv ==
    ASSUME NEW own, Base(own), NEW ctx, Running(ctx), PushTry, UNCHANGED away
    PROVE  Sound' /\ ended' = "no"
<1>1. /\ ended = "no" /\ frames = <<>> /\ thrown = 0 /\ PushEvent("try", 0, 0)
      /\ UNCHANGED <<live, parent, in_use, allocVars, current, thrown, frames, ended, away>>
  BY DEF PushTry, Runs
<1>2. "try" \in BlockType /\ 0 \in Heaps \cup {0}
  BY DEF BlockType
<1>3. PICK e \in EventType : /\ e.type = "try" /\ e.prev = 0 /\ e.new = 0
                             /\ events' = <<e>> \o events
  <2> DEFINE g == [type |-> "try", prev |-> 0, new |-> 0]
  <2>1. g \in EventType /\ g.type = "try" /\ g.prev = 0 /\ g.new = 0
    BY <1>2 DEF EventType
  <2>2. events' = <<g>> \o events
    BY <1>1, <1>2 DEF PushEvent
  <2> QED BY <2>1, <2>2
<1>4. ctx[1] = current /\ current \in Heaps /\ current \in live
  BY <1>1, CurrentIs
<1>5. PICK h \in Heaps : h = current
  BY <1>4
<1>6. /\ current' = h /\ h \in live /\ Enters(e, h, ctx[1], parent) /\ e.type \in {"switch", "try"}
  BY <1>1, <1>3, <1>4, <1>5 DEF Enters
<1>7. Sound'
  BY <1>1, <1>3, <1>6, EnterStep
<1> QED
  BY <1>1, <1>7

\* The block of switch_heap: the heap of any handle.
LEMMA PushSwitchInv ==
    ASSUME NEW own, Base(own), NEW ctx, Running(ctx), PushSwitchHeap, UNCHANGED away
    PROVE  Sound' /\ ended' = "no"
<1>1. /\ ended = "no" /\ frames = <<>> /\ thrown = 0 /\ PushEvent("switch", current, 0)
      /\ UNCHANGED <<live, parent, in_use, allocVars, thrown, frames, ended, away>>
  BY DEF PushSwitchHeap, Runs
<1>2. PICK a \in Mine : kind[a] = "handle" /\ handle[a] # 0 /\ current' = handle[a]
  BY DEF PushSwitchHeap
<1>3. ctx[1] = current /\ current \in Heaps
  BY <1>1, CurrentIs
<1>4. /\ "switch" \in BlockType /\ current \in Heaps \cup {0}
      /\ 0 \in Heaps \cup {0}
  BY <1>3 DEF BlockType
<1>5. PICK e \in EventType : /\ e.type = "switch" /\ e.prev = current /\ e.new = 0
                             /\ events' = <<e>> \o events
  <2> DEFINE g == [type |-> "switch", prev |-> current, new |-> 0]
  <2>1. g \in EventType /\ g.type = "switch" /\ g.prev = current /\ g.new = 0
    BY <1>4 DEF EventType
  <2>2. events' = <<g>> \o events
    BY <1>1, <1>4 DEF PushEvent
  <2> QED BY <2>1, <2>2
<1>6. a \in Allocs
  BY MineIs
<1>7. handle[a] \in Heaps /\ handle[a] \in live
  BY <1>2, <1>6, SetsAre
<1>8. PICK h \in Heaps : h = handle[a]
  BY <1>7
<1>9. /\ current' = h /\ h \in live /\ Enters(e, h, ctx[1], parent) /\ e.type \in {"switch", "try"}
  BY <1>2, <1>3, <1>5, <1>7, <1>8 DEF Enters
<1>10. Sound'
  BY <1>1, <1>5, <1>9, EnterStep
<1> QED
  BY <1>1, <1>10

\* A block with a heap of its own is entered: a sub heap or that of a fiber in mitosis.
LEMMA CreateStep ==
    ASSUME NEW own, Base(own), NEW ctx, Running(ctx), frames = <<>>, thrown = 0,
           FreeHeaps # {}, NEW h, h = Min(FreeHeaps),
           UNCHANGED <<allocVars, thrown, frames, away>>, current' = h,
           NEW p \in Heaps \cup {0}, Create(h, p), p \notin in_use,
           NEW e \in EventType, events' = <<e>> \o events,
           NEW s \in {"block", "mitosis"}, s = "block" <=> p # 0,
           e.type = IF p # 0 THEN "sub" ELSE "mitosis", e.new = IF p # 0 THEN 0 ELSE h,
           e.prev = IF p # 0 THEN 0 ELSE current, p # 0 => p = current
    PROVE  Sound'
<1>1. /\ Typed /\ Listed(allocs, heap, live, <<>>) /\ OneHandle(handle) /\ OneNested(parent)
      /\ Owned(own)
      /\ in_use = {parent[y] : y \in Heaps} \ {0} /\ Founded(Edges)
      /\ Blocks(ctx, events, parent) /\ ctx[1] = current /\ ToSet(ctx) \subseteq live
      /\ Nested(parent) \subseteq SubHeaps(ctx, events) /\ SubsApart(ctx, events, Edges)
  BY CalmIs
<1>2. /\ h \in Heaps /\ h \notin live /\ h # 0 /\ h # Root /\ parent[h] = 0 /\ h \notin in_use
      /\ h \notin ToSet(ctx) /\ h \notin Handled(handle) /\ h \notin away
      /\ h \notin NewHeaps(events) /\ h # thrown
      /\ Closed({h}, Edges)
  BY FreshIs
<1>3. /\ live' = live \cup {h} /\ in_use' = in_use \cup ({p} \ {0})
      /\ parent' \in [Heaps -> Heaps \cup {0}] /\ parent'[h] = p
      /\ \A y \in Heaps \ {h} : parent'[y] = parent[y]
  BY <1>1, <1>2 DEF Create, Typed
<1>4. /\ \A y \in ToSet(ctx) : parent'[y] = parent[y]
      /\ ctx \in Seq(Heaps) /\ events \in Seq(EventType) /\ Len(ctx) = Len(events) + 1
  <2>1. ctx \in Seq(Heaps) /\ events \in Seq(EventType) /\ Len(ctx) = Len(events) + 1
        /\ ToSet(ctx) \subseteq Heaps
    BY ContextIs
  <2> QED BY <1>2, <1>3, <2>1
<1>5. Blocks(ctx, events, parent')
  BY <1>1, <1>4, BlocksPar
<1>6. Enters(e, h, ctx[1], parent')
  BY <1>1, <1>3 DEF Enters
<1> DEFINE c == <<h>> \o ctx
<1>7. /\ Blocks(c, events', parent') /\ c[1] = h
      /\ SubHeaps(c, events') = SubHeaps(ctx, events) \cup {x \in {h} : e.type = "sub"}
      /\ NewHeaps(events') = NewHeaps(events) \cup {x \in {e.new} : e.type = "mitosis"}
      /\ ToSet(c) = ToSet(ctx) \cup {h}
  <2>1. /\ Blocks(ctx, events, parent') /\ h \in Heaps /\ e \in EventType
        /\ Enters(e, h, ctx[1], parent')
    BY <1>2, <1>5, <1>6
  <2>2. OnTop(c, ctx, h) /\ OnTop(events', events, e)
    BY DEF OnTop
  <2> HIDE DEF c
  <2> QED BY <2>1, <2>2, BlocksPush
<1>8. Typed' /\ Edges' = Edges
  <2>1. Edges' = Edges
    BY DEF Edges, allocVars
  <2>2. live' \subseteq Heaps /\ current' \in Heaps
    BY <1>1, <1>2, <1>3 DEF Typed
  <2>3. UNCHANGED <<kind, heap, handle, thrown, away>>
    BY DEF allocVars
  <2> QED BY <1>1, <1>3, <2>1, <2>2, <2>3 DEF Typed
<1>9. SubsApart(c, events', Edges')
  <2>1. Makes(e) => \E R \in SUBSET Heaps :
            /\ Closed(R, Edges) /\ h \in R /\ R \cap ToSet(ctx) = {}
    <3>1. {h} \in SUBSET Heaps /\ Closed({h}, Edges) /\ h \in {h} /\ {h} \cap ToSet(ctx) = {}
      BY <1>2
    <3> QED BY <3>1
  <2>2. SubsApart(<<h>> \o ctx, <<e>> \o events, Edges)
    BY <1>1, <1>2, <1>4, <2>1, SubsPush
  <2> QED BY <1>8, <2>2
<1>10. Nested(parent') = Nested(parent) \cup {x \in {h} : p # 0}
  BY <1>2, <1>3 DEF Nested
<1>11. Owned([own EXCEPT ![h] = s])'
  <2>1. Released(frames, parent) = {} /\ Released(frames', parent') = {}
    BY NoFrames DEF Released, FrameHeaps
  <2>2. NewHeaps(events') = NewHeaps(events) \cup {x \in {h} : p = 0}
    BY <1>2, <1>7
  <2>3. h \notin Nested(parent)
    BY <1>2 DEF Nested
  <2>4. /\ {Root} \cap live' = With({Root} \cap live, h, s = "fiber")
        /\ Nested(parent') = With(Nested(parent), h, s = "block")
        /\ Handled(handle') = With(Handled(handle), h, s = "handle")
        /\ away' = With(away, h, s = "other")
        /\ NewHeaps(events') = With(NewHeaps(events), h, s = "mitosis")
        /\ {thrown'} \ {0} = With({thrown} \ {0}, h, s = "exception")
        /\ Released(frames', parent') = With(Released(frames, parent), h, s = "release")
        /\ Heaps \ live' = With(Heaps \ live, h, s = "none")
    <3>1. handle' = handle
      BY DEF allocVars
    <3>2. CASE s = "block"
      BY <1>2, <1>3, <1>10, <2>1, <2>2, <2>3, <3>1, <3>2 DEF With
    <3>3. CASE s = "mitosis"
      BY <1>2, <1>3, <1>10, <2>1, <2>2, <2>3, <3>1, <3>3 DEF With
    <3> QED BY <3>2, <3>3
  <2>5. s \in Sorts
    BY DEF Sorts
  <2> QED BY <1>1, <1>2, <2>4, <2>5, OwnedStep
<1>12. Base([own EXCEPT ![h] = s])'
  <2> DEFINE o == [own EXCEPT ![h] = s]
  <2>1. in_use' = {parent'[y] : y \in Heaps} \ {0}
    <3>1. ASSUME NEW y \in Heaps, parent[y] # 0 PROVE y # h /\ parent'[y] = parent[y]
      BY <1>2, <1>3, <3>1
    <3>2. ASSUME NEW y \in Heaps, parent'[y] # 0 PROVE parent'[y] \in in_use'
      BY <1>1, <1>3, <3>2
    <3>3. ASSUME NEW u \in in_use' PROVE u \in {parent'[y] : y \in Heaps} \ {0}
      <4>1. CASE u \in in_use
        BY <1>1, <3>1, <4>1
      <4>2. CASE u = p /\ p # 0
        BY <1>2, <1>3, <4>2
      <4> QED BY <1>3, <3>3, <4>1, <4>2
    <3> QED BY <3>2, <3>3
  <2>2. Owned(o)' /\ frames' = <<>>
    BY <1>11
  <2>3. Listed(allocs', heap', live', <<>>)
    <3>1. live \subseteq live'
      BY <1>3
    <3> QED BY <1>1, <3>1, ListedLive DEF allocVars
  <2>4. OneHandle(handle') /\ Founded(Edges')
    BY <1>1, <1>8 DEF allocVars
  <2>5. OneNested(parent')
    <3>1. p # 0 => \A y \in Heaps : parent[y] # p
      BY <1>1
    <3> QED BY <1>1, <1>2, <1>3, <3>1 DEF OneNested
  <2> HIDE DEF o
  <2>6. Base(o)'
    BY <1>8, <2>1, <2>2, <2>3, <2>4, <2>5, CalmBase
  <2> QED BY <2>6 DEF o
<1> HIDE DEF c
<1>13. Running(c)'
  <2>1. ToSet(c) \subseteq live'
    BY <1>1, <1>3, <1>7
  <2>2. Nested(parent') \subseteq SubHeaps(c, events')
    BY <1>1, <1>7, <1>10
  <2>3. /\ frames' = <<>> /\ Blocks(c, events', parent') /\ c[1] = current'
        /\ SubsApart(c, events', Edges')
        /\ thrown' # 0 => /\ FreeAllocs' # {}
                          /\ \E i \in DOMAIN events' : events'[i].type = "try"
                          /\ HeapApart(thrown', Outside(c, events'), Edges')
    BY <1>7, <1>9
  <2> QED BY <2>1, <2>2, <2>3, CalmRunning
<1> QED
  BY <1>12, <1>13 DEF Sound

\* The block of sub_heap, unless the current heap is in use: a heap is nested in it already.
LEMMA PushSubInv ==
    ASSUME NEW own, Base(own), NEW ctx, Running(ctx), PushSubHeap, UNCHANGED away
    PROVE  (Sound' /\ ended' = "no") \/ (Reentered' /\ ended' = "in use")
<1>1. /\ ended = "no" /\ frames = <<>> /\ thrown = 0
      /\ UNCHANGED <<allocVars, thrown, frames, away>>
  BY DEF PushSubHeap, Runs
<1>2. CASE current \in in_use
  <2>1. ended' = "in use" /\ UNCHANGED <<parent, current, events>>
    BY <1>2 DEF PushSubHeap
  <2>2. Reentered
    BY <1>1, <1>2, CurrentUsed
  <2>3. Reentered'
    BY <2>1, <2>2 DEF Reentered, Chain
  <2> QED BY <2>1, <2>3
<1>3. CASE current \notin in_use
  <2>1. PICK h : h = Min(FreeHeaps)
    OBVIOUS
  <2>2. /\ FreeHeaps # {} /\ PushEvent("sub", 0, 0) /\ Create(h, current) /\ current' = h
        /\ ended' = ended
    BY <1>3, <2>1 DEF PushSubHeap
  <2>3. "sub" \in BlockType /\ 0 \in Heaps \cup {0}
    BY DEF BlockType
  <2>4. PICK e \in EventType : /\ e.type = "sub" /\ e.prev = 0 /\ e.new = 0
                               /\ events' = <<e>> \o events
    <3> DEFINE g == [type |-> "sub", prev |-> 0, new |-> 0]
    <3>1. g \in EventType /\ g.type = "sub" /\ g.prev = 0 /\ g.new = 0
      BY <2>3 DEF EventType
    <3>2. events' = <<g>> \o events
      BY <2>2, <2>3 DEF PushEvent
    <3> QED BY <3>1, <3>2
  <2>5. PICK p \in Heaps : p = current
    BY <1>1, CurrentIs
  <2>6. /\ p \in Heaps \cup {0} /\ Create(h, p) /\ p \notin in_use /\ p # 0
        /\ "block" \in {"block", "mitosis"} /\ ("block" = "block" <=> p # 0)
        /\ e.type = (IF p # 0 THEN "sub" ELSE "mitosis") /\ e.new = (IF p # 0 THEN 0 ELSE h)
        /\ e.prev = (IF p # 0 THEN 0 ELSE current) /\ (p # 0 => p = current)
    BY <1>3, <2>2, <2>4, <2>5, HeapsAre
  <2>7. Sound'
    BY <1>1, <2>1, <2>2, <2>4, <2>6, CreateStep
  <2> QED BY <1>1, <2>2, <2>7
<1> QED
  BY <1>2, <1>3

\* The block of fiber mitosis.
LEMMA PushMitosisInv ==
    ASSUME NEW own, Base(own), NEW ctx, Running(ctx), PushMitosis, UNCHANGED away
    PROVE  Sound' /\ ended' = "no"
<1>1. /\ ended = "no" /\ frames = <<>> /\ thrown = 0 /\ FreeHeaps # {}
      /\ PushEvent("mitosis", current, Min(FreeHeaps)) /\ Create(Min(FreeHeaps), 0)
      /\ current' = Min(FreeHeaps)
      /\ UNCHANGED <<allocVars, thrown, frames, ended, away>>
  BY DEF PushMitosis, Runs
<1>2. PICK h : h = Min(FreeHeaps)
  OBVIOUS
<1>3. h \in Heaps
  BY <1>1, <1>2, FreshIs
<1>4. current \in Heaps
  BY <1>1, CurrentIs
<1>5. /\ "mitosis" \in BlockType /\ current \in Heaps \cup {0}
      /\ h \in Heaps \cup {0} /\ PushEvent("mitosis", current, h)
  BY <1>1, <1>2, <1>3, <1>4 DEF BlockType
<1>6. PICK e \in EventType : /\ e.type = "mitosis" /\ e.prev = current /\ e.new = h
                             /\ events' = <<e>> \o events
  <2> DEFINE g == [type |-> "mitosis", prev |-> current, new |-> h]
  <2>1. g \in EventType /\ g.type = "mitosis" /\ g.prev = current /\ g.new = h
    BY <1>5 DEF EventType
  <2>2. events' = <<g>> \o events
    BY <1>1, <1>5 DEF PushEvent
  <2> QED BY <2>1, <2>2
<1>7. 0 \notin in_use
  BY <1>1, CalmIs
<1>8. /\ 0 \in Heaps \cup {0} /\ Create(h, 0)
      /\ "mitosis" \in {"block", "mitosis"} /\ ("mitosis" = "block" <=> 0 # 0)
      /\ e.type = (IF 0 # 0 THEN "sub" ELSE "mitosis") /\ e.new = (IF 0 # 0 THEN 0 ELSE h)
      /\ e.prev = (IF 0 # 0 THEN 0 ELSE current) /\ (0 # 0 => 0 = current)
  BY <1>1, <1>2, <1>6
<1>9. Sound'
  BY <1>1, <1>2, <1>6, <1>7, <1>8, CreateStep
<1> QED
  BY <1>1, <1>9

\* The block of emitosis: a handle of the heap that is current in it is in the heap around it.
LEMMA PushEmitosisInv ==
    ASSUME NEW own, Base(own), NEW ctx, Running(ctx), PushEmitosis, UNCHANGED away
    PROVE  Sound' /\ ended' = "no"
<1>1. /\ ended = "no" /\ frames = <<>> /\ thrown = 0 /\ FreeAllocs # {} /\ FreeHeaps # {}
      /\ UNCHANGED <<thrown, frames, ended>>
  BY DEF PushEmitosis, Runs
<1>2. PICK h : h = Min(FreeHeaps)
  OBVIOUS
<1>3. /\ Create(h, 0) /\ Insert(Min(FreeAllocs), current, "handle", h)
      /\ PushEvent("emitosis", current, h) /\ current' = h
  BY <1>2 DEF PushEmitosis
<1>4. /\ Blocks(ctx, events, parent) /\ ctx[1] = current /\ ToSet(ctx) \subseteq live
      /\ Nested(parent) \subseteq SubHeaps(ctx, events)
  BY <1>1, CalmIs
<1>5. h \in Heaps /\ h \notin ToSet(ctx)
  BY <1>1, <1>2, FreshIs
<1>6. current \in Heaps
  BY <1>1, CurrentIs
<1>7. "emitosis" \in BlockType /\ current \in Heaps \cup {0} /\ h \in Heaps \cup {0}
  BY <1>5, <1>6 DEF BlockType
<1>8. PICK e \in EventType : /\ e.type = "emitosis" /\ e.prev = current /\ e.new = h
                             /\ events' = <<e>> \o events
  <2> DEFINE g == [type |-> "emitosis", prev |-> current, new |-> h]
  <2>1. g \in EventType /\ g.type = "emitosis" /\ g.prev = current /\ g.new = h
    BY <1>7 DEF EventType
  <2>2. events' = <<g>> \o events
    BY <1>3, <1>7 DEF PushEvent
  <2> QED BY <2>1, <2>2
<1> DEFINE c == <<h>> \o ctx
<1>9. /\ Blocks(c, events', parent) /\ c[1] = h
      /\ SubHeaps(c, events') = SubHeaps(ctx, events) \cup {x \in {h} : e.type = "sub"}
      /\ NewHeaps(events') = NewHeaps(events) \cup {x \in {e.new} : e.type = "mitosis"}
      /\ ToSet(c) = ToSet(ctx) \cup {h}
  <2>1. Enters(e, h, ctx[1], parent)
    BY <1>4, <1>8 DEF Enters
  <2>2. OnTop(c, ctx, h) /\ OnTop(events', events, e)
    BY <1>8 DEF OnTop
  <2> HIDE DEF c
  <2> QED BY <1>4, <1>5, <2>1, <2>2, BlocksPush
<1>10. NewHeaps(events') = NewHeaps(events) /\ SubHeaps(c, events') = SubHeaps(ctx, events)
  BY <1>8, <1>9
<1>11. /\ \E o : Base(o)'
       /\ live' = live \cup {h} /\ parent' = parent
       /\ SubsApart(ctx, events, Edges') /\ Closed({h}, Edges')
  <2> HIDE DEF c
  <2> QED BY <1>1, <1>2, <1>3, <1>5, <1>10, AllocHeapStep
<1>12. SubsApart(c, events', Edges')
  <2>1. /\ ctx \in Seq(Heaps) /\ events \in Seq(EventType) /\ Len(ctx) = Len(events) + 1
    BY <1>4 DEF Blocks
  <2>2. {h} \in SUBSET Heaps /\ h \in {h} /\ {h} \cap ToSet(ctx) = {}
    BY <1>5
  <2>3. SubsApart(<<h>> \o ctx, <<e>> \o events, Edges')
    BY <1>5, <1>11, <2>1, <2>2, SubsPush
  <2> QED BY <1>8, <2>3
<1> HIDE DEF c
<1>13. Running(c)'
  <2>1. /\ frames' = <<>> /\ Blocks(c, events', parent') /\ c[1] = current'
        /\ ToSet(c) \subseteq live' /\ Nested(parent') \subseteq SubHeaps(c, events')
        /\ SubsApart(c, events', Edges') /\ thrown' = 0
    BY <1>1, <1>3, <1>4, <1>9, <1>10, <1>11, <1>12
  <2> QED BY <2>1, CalmRunning
<1> QED
  BY <1>1, <1>11, <1>13 DEF Sound

\* What is left when the innermost block is.
LEMMA LeaveIs ==
    ASSUME NEW own, Base(own), NEW ctx, Running(ctx), frames = <<>>, events # <<>>
    PROVE  /\ Blocks(Tail(ctx), Tail(events), parent) /\ Tail(ctx)[1] = ctx[2]
           /\ events[1] \in EventType /\ Enters(events[1], current, ctx[2], parent)
           /\ ctx[2] \in Heaps /\ ToSet(Tail(ctx)) \subseteq ToSet(ctx)
           /\ SubHeaps(ctx, events) =
                SubHeaps(Tail(ctx), Tail(events)) \cup {x \in {current} : events[1].type = "sub"}
           /\ NewHeaps(events) =
                NewHeaps(Tail(events)) \cup {x \in {current} : events[1].type = "mitosis"}
           /\ events[1].type = "mitosis" =>
                events[1].new = current /\ current \notin NewHeaps(Tail(events))
           /\ SubsApart(Tail(ctx), Tail(events), Edges)
           /\ Makes(events[1]) => \E R \in SUBSET Heaps :
                /\ Closed(R, Edges) /\ current \in R /\ R \cap ToSet(Tail(ctx)) = {}
           /\ thrown # 0 /\ events[1].type # "try" =>
                \E i \in DOMAIN Tail(events) : Tail(events)[i].type = "try"
           /\ thrown # 0 => HeapApart(thrown, Outside(Tail(ctx), Tail(events)), Edges)
           /\ thrown # 0 /\ events[1].type = "try" => HeapApart(thrown, ToSet(Tail(ctx)), Edges)
<1>1. /\ Blocks(ctx, events, parent) /\ ctx[1] = current /\ SubsApart(ctx, events, Edges)
      /\ thrown # 0 => /\ FreeAllocs # {}
                       /\ \E i \in DOMAIN events : events[i].type = "try"
                       /\ HeapApart(thrown, Outside(ctx, events), Edges)
  BY CalmIs
<1>2. ctx \in Seq(Heaps) /\ events \in Seq(EventType) /\ Len(ctx) = Len(events) + 1
  BY <1>1 DEF Blocks
<1>3. /\ Blocks(Tail(ctx), Tail(events), parent)
      /\ Tail(ctx)[1] = ctx[2] /\ 2 \in DOMAIN ctx /\ 1 \in DOMAIN ctx
      /\ 1 \in DOMAIN events /\ events[1] \in EventType
      /\ Enters(events[1], ctx[1], ctx[2], parent)
      /\ SubHeaps(ctx, events) =
           SubHeaps(Tail(ctx), Tail(events)) \cup {x \in {ctx[1]} : events[1].type = "sub"}
      /\ NewHeaps(events) =
           NewHeaps(Tail(events)) \cup {x \in {events[1].new} : events[1].type = "mitosis"}
      /\ NewHeaps(Tail(events)) \subseteq ToSet(Tail(ctx))
      /\ ToSet(ctx) = ToSet(Tail(ctx)) \cup {ctx[1]}
  BY <1>1, BlocksPop
<1>4. /\ SubsApart(Tail(ctx), Tail(events), Edges)
      /\ Makes(events[1]) => \E R \in SUBSET Heaps :
           /\ Closed(R, Edges) /\ ctx[1] \in R /\ R \cap ToSet(Tail(ctx)) = {}
  BY <1>1, <1>2, SubsPop
<1>5. ASSUME thrown # 0
      PROVE  /\ HeapApart(thrown, Outside(Tail(ctx), Tail(events)), Edges)
             /\ events[1].type = "try" => HeapApart(thrown, ToSet(Tail(ctx)), Edges)
  <2>1. /\ Outside(Tail(ctx), Tail(events)) \subseteq Outside(ctx, events)
        /\ events[1].type = "try" => ToSet(Tail(ctx)) \subseteq Outside(ctx, events)
    BY <1>2, OutsidePop
  <2>2. HeapApart(thrown, Outside(ctx, events), Edges) /\ Edges \in SUBSET Edges
    BY <1>1, <1>5
  <2> QED BY <2>1, <2>2, ApartLess
<1>6. ASSUME thrown # 0, events[1].type # "try"
      PROVE  \E i \in DOMAIN Tail(events) : Tail(events)[i].type = "try"
  <2>1. PICK i \in DOMAIN events : events[i].type = "try"
    BY <1>1, <1>6
  <2>2. i = 1 \/ (i > 1 /\ i - 1 \in DOMAIN Tail(events) /\ events[i] = Tail(events)[i - 1])
    BY <1>2, Popped
  <2> QED BY <1>6, <2>1, <2>2
<1>7. ctx[2] \in Heaps
  BY <1>2, <1>3
<1>8. ASSUME events[1].type = "mitosis"
      PROVE  events[1].new = current /\ current \notin NewHeaps(Tail(events))
  <2>1. events[1].new = current
    BY <1>1, <1>3, <1>8 DEF Enters
  <2>2. current \notin ToSet(Tail(ctx))
    BY <1>1, <1>4, <1>8 DEF Makes
  <2> QED BY <1>3, <2>1, <2>2
<1>9. {x \in {events[1].new} : events[1].type = "mitosis"}
        = {x \in {current} : events[1].type = "mitosis"}
  BY <1>8
<1> QED
  BY <1>1, <1>3, <1>4, <1>5, <1>6, <1>7, <1>8, <1>9

\* The block of switch_heap, try, emitosis or mitosis is left: the heap that is current then has been
\* before, and that of a new fiber is the fiber's.
LEMMA LeaveStep ==
    ASSUME NEW own, Base(own), NEW ctx, Running(ctx), frames = <<>>, events # <<>>,
           UNCHANGED <<live, parent, in_use, allocVars, thrown, frames>>,
           events' = Tail(events), current' = ctx[2], events[1].type # "sub",
           away' = away \cup {x \in {current} : events[1].type = "mitosis"},
           thrown # 0 => \E i \in DOMAIN Tail(events) : Tail(events)[i].type = "try"
    PROVE  Sound'
<1> DEFINE c == Tail(ctx)
<1>1. /\ Typed /\ Listed(allocs, heap, live, <<>>) /\ OneHandle(handle) /\ OneNested(parent)
      /\ Owned(own)
      /\ in_use = {parent[y] : y \in Heaps} \ {0} /\ Founded(Edges)
      /\ ToSet(ctx) \subseteq live /\ Nested(parent) \subseteq SubHeaps(ctx, events)
      /\ thrown # 0 => FreeAllocs # {}
  BY CalmIs
<1>2. /\ Blocks(c, Tail(events), parent) /\ c[1] = ctx[2]
      /\ events[1] \in EventType
      /\ ctx[2] \in Heaps /\ ToSet(c) \subseteq ToSet(ctx)
      /\ SubHeaps(ctx, events) =
           SubHeaps(c, Tail(events)) \cup {y \in {current} : events[1].type = "sub"}
      /\ NewHeaps(events) =
           NewHeaps(Tail(events)) \cup {x \in {current} : events[1].type = "mitosis"}
      /\ events[1].type = "mitosis" => current \notin NewHeaps(Tail(events))
      /\ SubsApart(c, Tail(events), Edges)
      /\ thrown # 0 => HeapApart(thrown, Outside(c, Tail(events)), Edges)
  BY LeaveIs
<1>3. current \in Heaps
  BY <1>1 DEF Typed
<1> HIDE DEF c
<1>4. Edges' = Edges /\ FreeAllocs' = FreeAllocs
  BY DEF Edges, FreeAllocs, allocVars
<1>5. Typed'
  <2>1. away' \subseteq Heaps /\ Global \in away' /\ current' \in Heaps
    BY <1>1, <1>2, <1>3 DEF Typed
  <2>2. UNCHANGED <<live, parent, kind, heap, handle, thrown>>
    BY DEF allocVars
  <2> QED BY <1>1, <2>1, <2>2 DEF Typed
<1>6. \E o : Owned(o)'
  <2>1. CASE events[1].type # "mitosis"
    <3>1. NewHeaps(events') = NewHeaps(events) /\ away' = away
      BY <1>2, <2>1
    <3>2. Owned(own)'
      BY <1>1, <3>1, OwnedSame DEF allocVars
    <3> QED BY <3>2
  <2>2. CASE events[1].type = "mitosis"
    <3>1. PICK z \in Heaps : z = current
      BY <1>3
    <3>2. z \in NewHeaps(events)
      BY <1>2, <2>2, <3>1
    <3>3. /\ z \in live /\ z \notin {Root} \cap live /\ z \notin Nested(parent)
          /\ z \notin Handled(handle) /\ z # thrown /\ z \notin Released(frames, parent)
      BY <3>2, HeapsDiffer
    <3>4. Released(frames', parent') = Released(frames, parent) /\ handle' = handle
      BY DEF Released, allocVars
    <3>5. NewHeaps(events') = NewHeaps(events) \ {z} /\ away' = away \cup {z}
      BY <1>2, <2>2, <3>1
    <3>6. /\ {Root} \cap live' = With({Root} \cap live, z, "other" = "fiber")
          /\ Nested(parent') = With(Nested(parent), z, "other" = "block")
          /\ Handled(handle') = With(Handled(handle), z, "other" = "handle")
          /\ away' = With(away, z, "other" = "other")
          /\ NewHeaps(events') = With(NewHeaps(events), z, "other" = "mitosis")
          /\ {thrown'} \ {0} = With({thrown} \ {0}, z, "other" = "exception")
          /\ Released(frames', parent') = With(Released(frames, parent), z, "other" = "release")
          /\ Heaps \ live' = With(Heaps \ live, z, "other" = "none")
      BY <3>3, <3>4, <3>5 DEF With
    <3>7. "other" \in Sorts
      BY DEF Sorts
    <3>8. Owned([own EXCEPT ![z] = "other"])'
      BY <1>1, <3>6, <3>7, OwnedStep
    <3> DEFINE o == [own EXCEPT ![z] = "other"]
    <3>9. Owned(o)'
      BY <3>8
    <3> HIDE DEF o
    <3> QED BY <3>9
  <2> QED BY <2>1, <2>2
<1>7. \E o : Base(o)'
  <2>1. PICK o : Owned(o)'
    BY <1>6
  <2>2. /\ frames' = <<>> /\ Listed(allocs', heap', live', <<>>)
        /\ OneHandle(handle') /\ OneNested(parent')
        /\ in_use' = {parent'[y] : y \in Heaps} \ {0} /\ Founded(Edges')
    BY <1>1, <1>4 DEF allocVars
  <2>3. Base(o)'
    BY <1>5, <2>1, <2>2, CalmBase
  <2> QED BY <2>3
<1>8. Running(c)'
  <2>1. /\ frames' = <<>> /\ Blocks(c, events', parent') /\ c[1] = current'
        /\ ToSet(c) \subseteq live' /\ Nested(parent') \subseteq SubHeaps(c, events')
        /\ SubsApart(c, events', Edges')
        /\ thrown' # 0 => /\ FreeAllocs' # {}
                          /\ \E i \in DOMAIN events' : events'[i].type = "try"
                          /\ HeapApart(thrown', Outside(c, events'), Edges')
    BY <1>1, <1>2, <1>4
  <2> QED BY <2>1, CalmRunning
<1> QED
  BY <1>7, <1>8 DEF Sound

\* The end of a block that switched heaps (switch_heap).
LEMMA PopSwitchInv ==
    ASSUME NEW own, Base(own), NEW ctx, Running(ctx), PopSwitchHeap, UNCHANGED away
    PROVE  Sound' /\ ended' = "no"
<1>1. /\ ended = "no" /\ frames = <<>> /\ events # <<>> /\ events[1].type = "switch"
      /\ events' = Tail(events) /\ current' = events[1].prev
      /\ UNCHANGED <<live, parent, in_use, allocVars, thrown, frames, ended, away>>
  BY DEF PopSwitchHeap, PopsBlock, PopEvent
<1>2. /\ Enters(events[1], current, ctx[2], parent)
      /\ thrown # 0 /\ events[1].type # "try" =>
           \E i \in DOMAIN Tail(events) : Tail(events)[i].type = "try"
  BY <1>1, LeaveIs
<1>3. /\ current' = ctx[2] /\ events[1].type # "sub"
      /\ away' = away \cup {x \in {current} : events[1].type = "mitosis"}
      /\ thrown # 0 => \E i \in DOMAIN Tail(events) : Tail(events)[i].type = "try"
  BY <1>1, <1>2 DEF Enters
<1>4. Sound'
  BY <1>1, <1>3, LeaveStep
<1> QED
  BY <1>1, <1>4

\* The end of a try block that nothing was thrown in.
LEMMA PopTryInv ==
    ASSUME NEW own, Base(own), NEW ctx, Running(ctx), PopTry, UNCHANGED away
    PROVE  Sound' /\ ended' = "no"
<1>1. /\ ended = "no" /\ frames = <<>> /\ events # <<>> /\ events[1].type = "try"
      /\ events' = Tail(events)
      /\ thrown # 0 => \E i \in DOMAIN Tail(events) : Tail(events)[i].type = "try"
      /\ UNCHANGED <<live, parent, in_use, allocVars, current, thrown, frames, ended, away>>
  BY DEF PopTry, PopsBlock, PopEvent
<1>2. Enters(events[1], current, ctx[2], parent)
  BY <1>1, LeaveIs
<1>3. /\ current' = ctx[2] /\ events[1].type # "sub"
      /\ away' = away \cup {x \in {current} : events[1].type = "mitosis"}
  BY <1>1, <1>2 DEF Enters
<1>4. Sound'
  BY <1>1, <1>3, LeaveStep
<1> QED
  BY <1>1, <1>4

\* The fiber that is started has the heap that was its own in mitosis.
LEMMA PopMitosisInv ==
    ASSUME NEW own, Base(own), NEW ctx, Running(ctx), PopMitosis
    PROVE  Sound' /\ ended' = "no"
<1>1. /\ ended = "no" /\ frames = <<>> /\ events # <<>> /\ events[1].type = "mitosis"
      /\ events' = Tail(events) /\ current' = events[1].prev
      /\ away' = away \cup {events[1].new}
      /\ UNCHANGED <<live, parent, in_use, allocVars, thrown, frames, ended>>
  BY DEF PopMitosis, PopsBlock, PopEvent
<1>2. /\ Enters(events[1], current, ctx[2], parent)
      /\ thrown # 0 /\ events[1].type # "try" =>
           \E i \in DOMAIN Tail(events) : Tail(events)[i].type = "try"
  BY <1>1, LeaveIs
<1>3. /\ current' = ctx[2] /\ events[1].type # "sub"
      /\ away' = away \cup {x \in {current} : events[1].type = "mitosis"}
      /\ thrown # 0 => \E i \in DOMAIN Tail(events) : Tail(events)[i].type = "try"
  BY <1>1, <1>2 DEF Enters
<1>4. Sound'
  BY <1>1, <1>3, LeaveStep
<1> QED
  BY <1>1, <1>4

\* An emitosis block is unwound.
LEMMA PopEmitosisInv ==
    ASSUME NEW own, Base(own), NEW ctx, Running(ctx), PopEmitosis, UNCHANGED away
    PROVE  (Sound' /\ ended' = "no") \/ ended' = "fatal"
<1>1. /\ ended = "no" /\ frames = <<>> /\ events # <<>> /\ events[1].type = "emitosis"
      /\ events' = Tail(events) /\ current' = events[1].prev
      /\ ended' = IF thrown = 0 THEN "fatal" ELSE "no"
      /\ UNCHANGED <<live, parent, in_use, allocVars, thrown, frames, away>>
  BY DEF PopEmitosis, PopsBlock, PopEvent
<1>2. /\ Enters(events[1], current, ctx[2], parent)
      /\ thrown # 0 /\ events[1].type # "try" =>
           \E i \in DOMAIN Tail(events) : Tail(events)[i].type = "try"
  BY <1>1, LeaveIs
<1>3. /\ current' = ctx[2] /\ events[1].type # "sub"
      /\ away' = away \cup {x \in {current} : events[1].type = "mitosis"}
      /\ thrown # 0 => \E i \in DOMAIN Tail(events) : Tail(events)[i].type = "try"
  BY <1>1, <1>2 DEF Enters
<1>4. Sound'
  BY <1>1, <1>3, LeaveStep
<1> QED
  BY <1>1, <1>4

\* The first release.
LEMMA FirstFrame ==
    ASSUME NEW h \in Heaps, NEW leaves \in BOOLEAN,
           NEW fr, fr = <<[heap |-> h, batch |-> <<>>, leaves |-> leaves]>> \o <<>>
    PROVE  /\ FramesDiffer(fr) /\ FrameHeaps(fr) = {h} /\ Leavers(fr) = {x \in {h} : leaves}
           /\ \A al, hp, lv : Listed(al, hp, lv, <<>>) => Listed(al, hp, lv, fr)
<1> DEFINE f == [heap |-> h, batch |-> <<>>, leaves |-> leaves]
<1>1. f \in FrameType /\ f.heap = h /\ f.batch = <<>> /\ f.leaves = leaves
  BY DEF FrameType
<1>2. fr = <<f>> \o <<>>
  OBVIOUS
<1>3. FramesDiffer(<<>>) /\ FrameHeaps(<<>>) = {} /\ Leavers(<<>>) = {}
  BY DEF FramesDiffer, FrameHeaps, Leavers
<1> HIDE DEF f
<1>4. /\ FramesDiffer(<<f>> \o <<>>)
      /\ FrameHeaps(<<f>> \o <<>>) = FrameHeaps(<<>>) \cup {f.heap}
      /\ Leavers(<<f>> \o <<>>) = Leavers(<<>>) \cup {x \in {f.heap} : f.leaves}
  BY <1>1, <1>3, FramesPush
<1>5. ASSUME NEW al, NEW hp, NEW lv, Listed(al, hp, lv, <<>>)
      PROVE  Listed(al, hp, lv, <<f>> \o <<>>)
  BY <1>1, <1>5, ListedRelease
<1>6. \A al, hp, lv : Listed(al, hp, lv, <<>>) => Listed(al, hp, lv, fr)
  BY <1>2, <1>5
<1>7. FramesDiffer(fr) /\ FrameHeaps(fr) = FrameHeaps(<<>>) \cup {f.heap}
      /\ Leavers(fr) = Leavers(<<>>) \cup {x \in {f.heap} : f.leaves}
  BY <1>2, <1>4
<1> QED
  BY <1>1, <1>3, <1>6, <1>7

\* A sub heap is left, or the fiber's heap is released: the owner stays the same.
LEMMA BeginStep ==
    ASSUME NEW own, Base(own), NEW ctx, Running(ctx), frames = <<>>,
           UNCHANGED <<live, parent, allocVars, current, thrown, away>>,
           NEW leaves \in BOOLEAN, Release(current, frames, leaves),
           NEW c, Blocks(c, events', parent), ToSet(c) \subseteq live,
           NewHeaps(events') = NewHeaps(events),
           leaves => c[1] = parent[current], ~leaves => c[1] = current,
           leaves <=> parent[current] # 0,
           Nested(parent) \subseteq SubHeaps(c, events') \cup {x \in {current} : leaves},
           current = Root => events' = <<>> /\ thrown = 0,
           SubsApart(c, events', Edges), FramesApart({current}, c, Edges),
           thrown # 0 => /\ \E i \in DOMAIN events' : events'[i].type = "try"
                         /\ HeapApart(thrown, Outside(c, events'), Edges),
           current = Root \/ parent[current] # 0, events = <<>> \/ events[1].type = "sub"
    PROVE  Sound' /\ ended' = ended
<1>1. /\ Typed /\ Listed(allocs, heap, live, <<>>) /\ OneHandle(handle) /\ OneNested(parent)
      /\ Owned(own)
      /\ in_use = {parent[y] : y \in Heaps} \ {0} /\ Founded(Edges)
      /\ thrown # 0 => FreeAllocs # {}
  BY CalmIs
<1>2. current \notin in_use /\ current \in Heaps
  BY CurrentUnused, CurrentIs
<1>3. /\ in_use' = in_use \cup {current} /\ ended' = ended
      /\ frames' = <<[heap |-> current, batch |-> <<>>, leaves |-> leaves]>> \o <<>>
  BY <1>2 DEF Release
<1>4. /\ FramesDiffer(frames') /\ FrameHeaps(frames') = {current}
      /\ Leavers(frames') = {x \in {current} : leaves}
      /\ \A al, hp, lv : Listed(al, hp, lv, <<>>) => Listed(al, hp, lv, frames')
  BY <1>2, <1>3, FirstFrame
<1>5. Edges' = Edges /\ FreeAllocs' = FreeAllocs
  BY DEF Edges, FreeAllocs, allocVars
<1>6. Owned(own)'
  <2>1. Released(frames, parent) = {} /\ Released(frames', parent') = {}
    BY <1>4, NoFrames DEF Released
  <2> QED BY <1>1, <2>1 DEF Owned, allocVars
<1>7. Base(own)'
  <2>1. Typed'
    BY <1>1 DEF Typed, allocVars
  <2>2. Listed(allocs', heap', live', frames')
    BY <1>1, <1>4 DEF allocVars
  <2>3. in_use' = ({parent'[h] : h \in Heaps} \ {0}) \cup FrameHeaps(frames')
    BY <1>1, <1>3, <1>4
  <2>4. OneHandle(handle') /\ Founded(Edges')
    BY <1>1, <1>5 DEF allocVars
  <2>5. OneNested(parent')
    BY <1>1
  <2> QED BY <1>4, <1>6, <2>1, <2>2, <2>3, <2>4, <2>5 DEF Base
<1>8. Running(c)'
  <2>1. c[1] = IF Leavers(frames') = {} THEN current' ELSE parent'[current']
    BY <1>4
  <2>2. Leavers(frames') = FrameHeaps(frames') \cap Nested(parent')
    BY <1>2, <1>4 DEF Nested
  <2>3. /\ Blocks(c, events', parent') /\ ToSet(c) \subseteq live'
        /\ Nested(parent') \subseteq SubHeaps(c, events') \cup Leavers(frames')
        /\ SubsApart(c, events', Edges') /\ Leavers(frames') \subseteq {current'}
        /\ FramesApart(FrameHeaps(frames'), c, Edges')
    BY <1>4, <1>5
  <2>4. Root \in FrameHeaps(frames') => events' = <<>> /\ current' = Root /\ thrown' = 0
    BY <1>4
  <2>5. thrown' # 0 => /\ FreeAllocs' # {} /\ \E i \in DOMAIN events' : events'[i].type = "try"
                       /\ HeapApart(thrown', Outside(c, events'), Edges')
    BY <1>1, <1>5
  <2> QED BY <2>1, <2>2, <2>3, <2>4, <2>5 DEF Running
<1> QED
  BY <1>3, <1>7, <1>8 DEF Sound

\* The block of sub_heap is left: the release of its heap begins.
LEMMA PopSubInv ==
    ASSUME NEW own, Base(own), NEW ctx, Running(ctx), PopSubHeap, UNCHANGED away
    PROVE  Sound' /\ ended' = "no"
<1> DEFINE c == Tail(ctx)
<1>1. /\ ended = "no" /\ frames = <<>> /\ events # <<>> /\ events[1].type = "sub"
      /\ events' = Tail(events) /\ Release(current, frames, TRUE)
      /\ UNCHANGED <<live, parent, allocVars, current, thrown, away>>
  BY DEF PopSubHeap, PopsBlock, PopEvent
<1>2. /\ Blocks(c, events', parent) /\ c[1] = ctx[2]
      /\ events[1] \in EventType /\ Enters(events[1], current, ctx[2], parent)
      /\ ctx[2] \in Heaps /\ ToSet(c) \subseteq ToSet(ctx)
      /\ SubHeaps(ctx, events) =
           SubHeaps(c, events') \cup {x \in {current} : events[1].type = "sub"}
      /\ NewHeaps(events) = NewHeaps(events') \cup {x \in {current} : events[1].type = "mitosis"}
      /\ SubsApart(c, events', Edges)
      /\ Makes(events[1]) => \E R \in SUBSET Heaps :
           /\ Closed(R, Edges) /\ current \in R /\ R \cap ToSet(c) = {}
      /\ thrown # 0 /\ events[1].type # "try" =>
           \E i \in DOMAIN events' : events'[i].type = "try"
      /\ thrown # 0 => HeapApart(thrown, Outside(c, events'), Edges)
  BY <1>1, LeaveIs
<1> HIDE DEF c
<1>3. ToSet(ctx) \subseteq live /\ Nested(parent) \subseteq SubHeaps(ctx, events)
  BY <1>1, CalmIs
<1>4. current \in Heaps /\ current \in live
  BY <1>1, CurrentIs
<1>5. parent[current] = ctx[2] /\ parent[current] # 0
  BY <1>1, <1>2, HeapsAre DEF Enters
<1>6. current # Root
  BY <1>4, <1>5, HeapsDiffer DEF Nested
<1>7. FramesApart({current}, c, Edges)
  <2>1. PICK R \in SUBSET Heaps : Closed(R, Edges) /\ current \in R /\ R \cap ToSet(c) = {}
    BY <1>1, <1>2 DEF Makes
  <2> QED BY <2>1 DEF FramesApart
<1>8. /\ TRUE \in BOOLEAN /\ (TRUE => c[1] = parent[current]) /\ (~TRUE => c[1] = current)
      /\ (TRUE <=> parent[current] # 0) /\ ToSet(c) \subseteq live
      /\ NewHeaps(events') = NewHeaps(events)
      /\ Nested(parent) \subseteq SubHeaps(c, events') \cup {x \in {current} : TRUE}
      /\ (current = Root => events' = <<>> /\ thrown = 0)
      /\ (current = Root \/ parent[current] # 0)
  BY <1>1, <1>2, <1>3, <1>5, <1>6
<1>9. thrown # 0 => /\ \E i \in DOMAIN events' : events'[i].type = "try"
                    /\ HeapApart(thrown, Outside(c, events'), Edges)
  BY <1>1, <1>2
<1>10. Sound' /\ ended' = ended
  BY <1>1, <1>2, <1>7, <1>8, <1>9, BeginStep
<1> QED
  BY <1>1, <1>10

\* lwt_fiber_finalize: the release of the fiber's heap begins.
LEMMA FinalizeInv ==
    ASSUME NEW own, Base(own), NEW ctx, Running(ctx), Finalize, UNCHANGED away
    PROVE  Sound' /\ ended' = "no"
<1>1. /\ ended = "no" /\ frames = <<>> /\ thrown = 0 /\ events = <<>>
      /\ Release(current, frames, FALSE)
      /\ UNCHANGED <<live, parent, allocVars, current, events, thrown, away>>
  BY DEF Finalize, Runs
<1>2. /\ Blocks(ctx, events, parent) /\ ctx[1] = current /\ ToSet(ctx) \subseteq live
      /\ Nested(parent) \subseteq SubHeaps(ctx, events) /\ SubsApart(ctx, events, Edges)
  BY <1>1, CalmIs
<1>3. current = Root
  <2>1. Len(ctx) = Len(events) + 1 /\ ctx[Len(ctx)] = Root /\ Len(events) = 0
    BY <1>1, <1>2 DEF Blocks
  <2> QED BY <1>2, <2>1
<1>4. Root \in Heaps /\ Root \in live
  BY ContextIs, HeapsAre
<1>5. parent[current] = 0
  BY <1>3, <1>4, HeapsDiffer DEF Nested
<1>6. FramesApart({current}, ctx, Edges)
  BY <1>3 DEF FramesApart
<1>7. /\ FALSE \in BOOLEAN /\ (FALSE => ctx[1] = parent[current]) /\ (~FALSE => ctx[1] = current)
      /\ (FALSE <=> parent[current] # 0)
      /\ NewHeaps(events') = NewHeaps(events) /\ Blocks(ctx, events', parent)
      /\ Nested(parent) \subseteq SubHeaps(ctx, events') \cup {x \in {current} : FALSE}
      /\ (current = Root => events' = <<>> /\ thrown = 0)
      /\ (current = Root \/ parent[current] # 0) /\ SubsApart(ctx, events', Edges)
  BY <1>1, <1>2, <1>3, <1>5
<1>8. thrown # 0 => /\ \E i \in DOMAIN events' : events'[i].type = "try"
                    /\ HeapApart(thrown, Outside(ctx, events'), Edges)
  BY <1>1
<1>9. Sound' /\ ended' = ended
  BY <1>1, <1>2, <1>6, <1>7, <1>8, BeginStep
<1> QED
  BY <1>1, <1>9

\* lwt_throw: the exception's heap is new and ends with nothing.
LEMMA ThrowInv ==
    ASSUME NEW own, Base(own), NEW ctx, Running(ctx), Throw, UNCHANGED away
    PROVE  (Sound' /\ ended' = "no") \/ ended' = "fatal"
<1>1. /\ ended = "no" /\ frames = <<>> /\ thrown = 0 /\ FreeHeaps # {} /\ FreeAllocs # {}
      /\ UNCHANGED <<allocVars, current, events, frames, away>>
  BY DEF Throw, Runs
<1>2. PICK h : h = Min(FreeHeaps)
  OBVIOUS
<1>3. CASE ~IsCaught
  BY <1>3 DEF Throw
<1>4. CASE IsCaught
  <2>1. Create(h, 0) /\ thrown' = h /\ ended' = "no"
    BY <1>1, <1>2, <1>4 DEF Throw
  <2>2. /\ Typed /\ Listed(allocs, heap, live, <<>>) /\ OneHandle(handle) /\ OneNested(parent)
        /\ Owned(own)
        /\ in_use = {parent[y] : y \in Heaps} \ {0} /\ Founded(Edges)
        /\ Blocks(ctx, events, parent) /\ ctx[1] = current /\ ToSet(ctx) \subseteq live
        /\ Nested(parent) \subseteq SubHeaps(ctx, events) /\ SubsApart(ctx, events, Edges)
    BY <1>1, CalmIs
  <2>3. /\ h \in Heaps /\ h \notin live /\ h # 0 /\ h # Root /\ parent[h] = 0 /\ h \notin in_use
        /\ h \notin ToSet(ctx) /\ h \notin Handled(handle) /\ h \notin away
        /\ h \notin NewHeaps(events) /\ h # thrown
        /\ Closed({h}, Edges)
    BY <1>1, <1>2, FreshIs
  <2>4. live' = live \cup {h} /\ parent' = parent /\ in_use' = in_use
    BY <2>1, <2>2, <2>3 DEF Create, Typed
  <2>5. UNCHANGED <<allocs, kind, heap, handle>>
    BY <1>1 DEF allocVars
  <2>6. Typed' /\ Edges' = Edges /\ FreeAllocs' = FreeAllocs
    <3>1. Edges' = Edges /\ FreeAllocs' = FreeAllocs
      BY <2>5 DEF Edges, FreeAllocs
    <3>2. live' \subseteq Heaps /\ thrown' \in Heaps \cup {0}
      BY <2>1, <2>2, <2>3, <2>4 DEF Typed
    <3> QED BY <1>1, <2>2, <2>4, <2>5, <3>1, <3>2 DEF Typed
  <2>7. Owned([own EXCEPT ![h] = "exception"])'
    <3>1. Released(frames, parent) = {} /\ Released(frames', parent') = {}
      BY <1>1, NoFrames DEF Released, FrameHeaps
    <3>2. h \notin Nested(parent)
      BY <2>3 DEF Nested
    <3>3. /\ {Root} \cap live' = With({Root} \cap live, h, "exception" = "fiber")
          /\ Nested(parent') = With(Nested(parent), h, "exception" = "block")
          /\ Handled(handle') = With(Handled(handle), h, "exception" = "handle")
          /\ away' = With(away, h, "exception" = "other")
          /\ NewHeaps(events') = With(NewHeaps(events), h, "exception" = "mitosis")
          /\ {thrown'} \ {0} = With({thrown} \ {0}, h, "exception" = "exception")
          /\ Released(frames', parent') = With(Released(frames, parent), h, "exception" = "release")
          /\ Heaps \ live' = With(Heaps \ live, h, "exception" = "none")
      BY <1>1, <2>1, <2>3, <2>4, <2>5, <3>1, <3>2 DEF With
    <3>4. "exception" \in Sorts
      BY DEF Sorts
    <3> QED BY <2>2, <2>3, <3>3, <3>4, OwnedStep
  <2>8. \E o : Base(o)'
    <3> DEFINE o == [own EXCEPT ![h] = "exception"]
    <3>1. Owned(o)'
      BY <2>7
    <3>2. /\ frames' = <<>> /\ OneHandle(handle') /\ OneNested(parent') /\ Founded(Edges')
          /\ in_use' = {parent'[y] : y \in Heaps} \ {0}
      BY <1>1, <2>2, <2>4, <2>5, <2>6
    <3>3. Listed(allocs', heap', live', <<>>)
      <4>1. live \subseteq live'
        BY <2>4
      <4> QED BY <2>2, <2>5, <4>1, ListedLive
    <3> HIDE DEF o
    <3>4. Base(o)'
      BY <2>6, <3>1, <3>2, <3>3, CalmBase
    <3> QED BY <3>4
  <2>9. Running(ctx)'
    <3>1. HeapApart(h, Outside(ctx, events), Edges)
      <4>1. {h} \in SUBSET Heaps /\ h \in {h} /\ {h} \cap Outside(ctx, events) = {}
        BY <2>3 DEF Outside, ToSet
      <4> QED BY <2>3, <4>1 DEF HeapApart
    <3>2. /\ frames' = <<>> /\ Blocks(ctx, events', parent') /\ ctx[1] = current'
          /\ ToSet(ctx) \subseteq live' /\ Nested(parent') \subseteq SubHeaps(ctx, events')
          /\ SubsApart(ctx, events', Edges')
          /\ thrown' # 0 => /\ FreeAllocs' # {}
                            /\ \E i \in DOMAIN events' : events'[i].type = "try"
                            /\ HeapApart(thrown', Outside(ctx, events'), Edges')
      BY <1>1, <1>4, <2>1, <2>2, <2>4, <2>6, <3>1 DEF IsCaught
    <3> QED BY <3>2, CalmRunning
  <2> QED BY <2>1, <2>8, <2>9 DEF Sound
<1> QED
  BY <1>3, <1>4

\* lwt_throw_exception: the heap passes from the handle to the exception that unwinds.
LEMMA ThrowHeapInv ==
    ASSUME NEW own, Base(own), NEW ctx, Running(ctx), ended = "no", frames = <<>>, thrown = 0,
           FreeAllocs # {}, UNCHANGED <<live, parent, in_use, current, events, frames, away>>,
           NEW a \in Allocs, handle[a] # 0, HeapApart(handle[a], Outside(ctx, events), Edges),
           ThrowHeap(a)
    PROVE  (Sound' /\ ended' = "no") \/ ended' = "fatal"
<1>1. CASE ~IsCaught
  BY <1>1 DEF ThrowHeap
<1>2. CASE IsCaught
  <2>1. Deactivate(a) /\ thrown' = handle[a] /\ ended' = "no"
    BY <1>2 DEF ThrowHeap
  <2>2. /\ Typed /\ Listed(allocs, heap, live, <<>>) /\ OneHandle(handle) /\ OneNested(parent)
        /\ Owned(own)
        /\ in_use = {parent[y] : y \in Heaps} \ {0} /\ Founded(Edges)
        /\ Blocks(ctx, events, parent) /\ ctx[1] = current /\ ToSet(ctx) \subseteq live
        /\ Nested(parent) \subseteq SubHeaps(ctx, events) /\ SubsApart(ctx, events, Edges)
    BY CalmIs
  <2> DEFINE freed == heap[a] \in Chain(current)
  <2>3. /\ a \in Allocs /\ kind[a] = "handle" /\ heap[a] \in Heaps
        /\ handle[a] \in Heaps /\ handle[a] \in Handled(handle)
    BY <2>2 DEF Typed, Handled
  <2>4. /\ handle' = [handle EXCEPT ![a] = 0]
        /\ kind' = [kind EXCEPT ![a] = IF freed THEN "free" ELSE @]
        /\ heap' = [heap EXCEPT ![a] = IF freed THEN 0 ELSE @]
        /\ allocs' = IF freed THEN [allocs EXCEPT ![heap[a]] = Unlisted(@, a)] ELSE allocs
    BY <2>1 DEF Deactivate
  <2> HIDE DEF freed
  <2>5. /\ heap' \in [Allocs -> Heaps \cup {0}] /\ heap'[a] = IF freed THEN 0 ELSE heap[a]
        /\ \A b \in Allocs \ {a} : heap'[b] = heap[b]
    BY <2>2, <2>3, <2>4 DEF Typed
  <2>6. /\ kind' \in [Allocs -> {"free", "plain", "object", "handle"}]
        /\ kind'[a] = IF freed THEN "free" ELSE kind[a]
        /\ \A b \in Allocs \ {a} : kind'[b] = kind[b]
    BY <2>2, <2>3, <2>4 DEF Typed
  <2>7. /\ handle' \in [Allocs -> Heaps \cup {0}] /\ handle'[a] = 0
        /\ \A b \in Allocs \ {a} : handle'[b] = handle[b]
    BY <2>2, <2>3, <2>4 DEF Typed
  <2>8. Typed'
    <3>1. \A b \in Allocs : kind'[b] = "free" <=> heap'[b] = 0
      BY <2>2, <2>3, <2>5, <2>6, HeapsAre DEF Typed
    <3>2. \A b \in Allocs : handle'[b] # 0 => kind'[b] = "handle"
      BY <2>2, <2>6, <2>7 DEF Typed
    <3>3. thrown' \in Heaps \cup {0}
      BY <2>1, <2>3
    <3> QED BY <2>2, <2>5, <2>6, <2>7, <3>1, <3>2, <3>3 DEF Typed
  <2>9. Listed(allocs', heap', live', <<>>)
    <3>1. CASE freed
      <4>1. heap[a] # 0
        BY <2>3, HeapsAre
      <4>2. Listed([allocs EXCEPT ![heap[a]] = Unlisted(@, a)], [heap EXCEPT ![a] = 0], live, <<>>)
        BY <2>2, <2>3, <4>1, ListedRemove
      <4> QED BY <2>4, <3>1, <4>2
    <3>2. CASE ~freed
      <4>1. heap' = heap /\ allocs' = allocs
        BY <2>2, <2>3, <2>4, <3>2 DEF Typed
      <4> QED BY <2>2, <4>1
    <3> QED BY <3>1, <3>2
  <2>10. Edges' \in SUBSET Edges /\ Handled(handle') = Handled(handle) \ {handle[a]} /\ OneHandle(handle')
    BY <2>2, <2>3, <2>4, <2>5, <2>8, EdgesLess
  <2>11. Founded(Edges') /\ SubsApart(ctx, events, Edges')
    BY <2>2, <2>10, ClosedLess, SubsLess
  <2>12. PICK x \in Heaps : x = handle[a]
    BY <2>3
  <2>13. Owned([own EXCEPT ![x] = "exception"])'
    <3>1. Released(frames, parent) = {} /\ Released(frames', parent') = {}
      BY NoFrames DEF Released, FrameHeaps
    <3>2. /\ x \in live /\ x \notin {Root} \cap live /\ x \notin Nested(parent)
          /\ x \notin away /\ x \notin NewHeaps(events)
      BY <2>3, <2>12, HeapsDiffer
    <3>3. thrown' = x /\ x # 0 /\ Handled(handle') = Handled(handle) \ {x}
      BY <2>1, <2>10, <2>12, HeapsAre
    <3>4. /\ {Root} \cap live' = With({Root} \cap live, x, "exception" = "fiber")
          /\ Nested(parent') = With(Nested(parent), x, "exception" = "block")
          /\ Handled(handle') = With(Handled(handle), x, "exception" = "handle")
          /\ away' = With(away, x, "exception" = "other")
          /\ NewHeaps(events') = With(NewHeaps(events), x, "exception" = "mitosis")
          /\ {thrown'} \ {0} = With({thrown} \ {0}, x, "exception" = "exception")
          /\ Released(frames', parent') = With(Released(frames, parent), x, "exception" = "release")
          /\ Heaps \ live' = With(Heaps \ live, x, "exception" = "none")
      BY <3>1, <3>2, <3>3 DEF With
    <3>5. "exception" \in Sorts
      BY DEF Sorts
    <3> QED BY <2>2, <3>4, <3>5, OwnedStep
  <2>14. \E o : Base(o)'
    <3> DEFINE o == [own EXCEPT ![x] = "exception"]
    <3>1. Owned(o)'
      BY <2>13
    <3>2. /\ frames' = <<>> /\ in_use' = {parent'[y] : y \in Heaps} \ {0} /\ OneNested(parent')
      BY <2>2
    <3> HIDE DEF o
    <3>3. Base(o)'
      BY <2>8, <2>9, <2>10, <2>11, <3>1, <3>2, CalmBase
    <3> QED BY <3>3
  <2>15. Running(ctx)'
    <3>1. HeapApart(x, Outside(ctx, events), Edges')
      BY <2>10, <2>12, ApartLess
    <3>2. FreeAllocs' # {}
      <4>1. FreeAllocs \subseteq FreeAllocs'
        BY <2>3, <2>6 DEF FreeAllocs
      <4> QED BY <4>1
    <3>3. thrown' = x
      BY <2>1, <2>12
    <3>4. /\ frames' = <<>> /\ Blocks(ctx, events', parent') /\ ctx[1] = current'
          /\ ToSet(ctx) \subseteq live' /\ Nested(parent') \subseteq SubHeaps(ctx, events')
          /\ SubsApart(ctx, events', Edges')
          /\ thrown' # 0 => /\ FreeAllocs' # {}
                            /\ \E i \in DOMAIN events' : events'[i].type = "try"
                            /\ HeapApart(thrown', Outside(ctx, events'), Edges')
      BY <1>2, <2>2, <2>11, <3>1, <3>2, <3>3 DEF IsCaught
    <3> QED BY <3>4, CalmRunning
  <2> QED BY <2>1, <2>14, <2>15 DEF Sound
<1> QED
  BY <1>1, <1>2

\* An exception in the heap of a handle that no block has as its heap.
LEMMA RethrowInv ==
    ASSUME NEW own, Base(own), NEW ctx, Running(ctx), Rethrow, UNCHANGED away
    PROVE  (Sound' /\ ended' = "no") \/ ended' = "fatal"
<1>1. /\ ended = "no" /\ frames = <<>> /\ thrown = 0 /\ FreeAllocs # {}
      /\ UNCHANGED <<live, parent, in_use, current, events, frames, away>>
  BY DEF Rethrow, Runs
<1>2. PICK a \in Handles : handle[a] # 0 /\ ThrowHeap(a)
  BY DEF Rethrow
<1> DEFINE Q == ReachOf({handle[a]})
<1>3. /\ a \in Allocs /\ Q \in SUBSET Heaps /\ Closed(Q, Edges) /\ handle[a] \in Q
      /\ Q \cap ToSet(ctx) = {}
  BY <1>1, <1>2, HandlesApart
<1> HIDE DEF Q
<1>4. Q \cap Outside(ctx, events) = {}
  BY <1>3 DEF Outside, ToSet
<1>5. HeapApart(handle[a], Outside(ctx, events), Edges)
  BY <1>3, <1>4 DEF HeapApart
<1> QED
  BY <1>1, <1>2, <1>3, <1>5, ThrowHeapInv

\* An exception in the heap of an emitosis block that the fiber is inside of.  The blocks that
\* are unwound may have it as their heap; none outside of the try block ends with it.
LEMMA ThrowEmInv ==
    ASSUME NEW own, Base(own), NEW ctx, Running(ctx), ThrowEm, UNCHANGED away
    PROVE  (Sound' /\ ended' = "no") \/ ended' = "fatal"
<1>1. /\ ended = "no" /\ frames = <<>> /\ thrown = 0 /\ FreeAllocs # {}
      /\ UNCHANGED <<live, parent, in_use, current, events, frames, away>>
  BY DEF ThrowEm, Runs
<1>2. PICK i \in DOMAIN events, a \in Allocated :
        /\ events[i].type = "emitosis"
        /\ \A j \in 1 .. i - 1 : events[j].type \notin {"emitosis", "try"}
        /\ handle[a] = events[i].new
        /\ ThrowHeap(a)
  BY DEF ThrowEm
<1>3. Blocks(ctx, events, parent) /\ SubsApart(ctx, events, Edges)
  BY <1>1, CalmIs
<1>4. /\ DOMAIN ctx = 1 .. Len(events) + 1 /\ DOMAIN events = 1 .. Len(events)
      /\ Len(events) \in Nat /\ ctx \in Seq(Heaps)
      /\ Enters(events[i], ctx[i], ctx[i + 1], parent)
  BY <1>3 DEF Blocks
<1>5. a \in Allocs /\ handle[a] = ctx[i] /\ handle[a] # 0
  <2>1. ctx[i] \in Heaps
    BY <1>4
  <2> QED BY <1>2, <1>4, <2>1, HeapsAre DEF Enters, Allocated
<1>6. PICK R \in SUBSET Heaps : /\ Closed(R, Edges) /\ ctx[i] \in R
                                /\ \A j \in DOMAIN ctx : i < j => ctx[j] \notin R
  BY <1>2, <1>3 DEF SubsApart, Makes
<1>7. ASSUME NEW j \in DOMAIN ctx, NEW k \in DOMAIN events, k < j, events[k].type = "try"
      PROVE  ctx[j] \notin R
  <2>1. ~(k < i) /\ k # i
    BY <1>2, <1>4, <1>7
  <2>2. i < j
    BY <1>4, <1>7, <2>1
  <2> QED BY <1>6, <2>2
<1>8. R \cap Outside(ctx, events) = {}
  BY <1>7 DEF Outside
<1>9. HeapApart(handle[a], Outside(ctx, events), Edges)
  BY <1>5, <1>6, <1>8 DEF HeapApart
<1> QED
  BY <1>1, <1>2, <1>5, <1>9, ThrowHeapInv

\* The block that catches is left: a handle in the heap that is current takes the
\* exception's heap over.
LEMMA CatchInv ==
    ASSUME NEW own, Base(own), NEW ctx, Running(ctx), Catch, UNCHANGED away
    PROVE  Sound' /\ ended' = "no"
<1> DEFINE b == Min(FreeAllocs)
           c == Tail(ctx)
<1>1. /\ ended = "no" /\ frames = <<>> /\ thrown # 0 /\ events # <<>> /\ events[1].type = "try"
      /\ events' = Tail(events) /\ Insert(b, current, "handle", thrown) /\ thrown' = 0
      /\ UNCHANGED <<live, parent, in_use, current, frames, ended, away>>
  BY DEF Catch, PopsBlock, PopEvent
<1>2. /\ Typed /\ Listed(allocs, heap, live, <<>>) /\ OneHandle(handle) /\ OneNested(parent)
      /\ Owned(own)
      /\ in_use = {parent[y] : y \in Heaps} \ {0} /\ Founded(Edges)
      /\ Blocks(ctx, events, parent) /\ ctx[1] = current /\ ToSet(ctx) \subseteq live
      /\ Nested(parent) \subseteq SubHeaps(ctx, events) /\ SubsApart(ctx, events, Edges)
      /\ thrown # 0 => FreeAllocs # {}
  BY <1>1, CalmIs
<1>3. /\ Blocks(c, events', parent) /\ c[1] = ctx[2]
      /\ Enters(events[1], current, ctx[2], parent)
      /\ ToSet(c) \subseteq ToSet(ctx)
      /\ SubHeaps(ctx, events) =
           SubHeaps(c, events') \cup {x \in {current} : events[1].type = "sub"}
      /\ NewHeaps(events) = NewHeaps(events') \cup {x \in {current} : events[1].type = "mitosis"}
      /\ SubsApart(c, events', Edges)
      /\ thrown # 0 /\ events[1].type = "try" => HeapApart(thrown, ToSet(c), Edges)
  BY <1>1, LeaveIs
<1>4. c[1] = current /\ NewHeaps(events') = NewHeaps(events) /\ current \in ToSet(c)
  <2>1. c[1] = current /\ NewHeaps(events') = NewHeaps(events)
    BY <1>1, <1>3 DEF Enters
  <2>2. c \in Seq(Heaps) /\ Len(c) = Len(events') + 1 /\ events' \in Seq(EventType)
    BY <1>3 DEF Blocks
  <2>3. 1 \in DOMAIN c
    BY <2>2
  <2> QED BY <2>1, <2>3 DEF ToSet
<1>5. b \in Allocs /\ kind[b] = "free" /\ heap[b] = 0 /\ handle[b] = 0
  BY <1>1, <1>2, FreeIs
<1>6. current \in Heaps /\ current \in live /\ current \in ToSet(ctx)
  BY <1>1, CurrentIs
<1>7. PICK Q \in SUBSET Heaps : Closed(Q, Edges) /\ thrown \in Q /\ Q \cap ToSet(c) = {}
  BY <1>1, <1>3 DEF HeapApart
<1>8. thrown \in Heaps
  BY <1>7
<1>9. /\ thrown \in live /\ thrown \notin {Root} \cap live /\ thrown \notin Nested(parent)
      /\ thrown \notin Handled(handle) /\ thrown \notin away
      /\ thrown \notin NewHeaps(events) /\ thrown \notin Released(frames, parent)
  BY <1>8, HeapsDiffer
<1>10. PICK x \in Heaps : x = thrown
  BY <1>8
<1> HIDE DEF b, c
<1>11. /\ handle' \in [Allocs -> Heaps \cup {0}] /\ handle'[b] = x
       /\ \A d \in Allocs \ {b} : handle'[d] = handle[d] /\ heap'[d] = heap[d]
       /\ heap'[b] = current
  BY <1>1, <1>2, <1>5, <1>8, <1>10 DEF Insert, Typed
<1>12. Typed'
  <2>1. /\ current' \in Heaps /\ thrown' \in Heaps \cup {0}
        /\ live' \subseteq Heaps /\ parent' \in [Heaps -> Heaps \cup {0}] /\ away' = away
    BY <1>1, <1>2, <1>6 DEF Typed
  <2>2. /\ thrown \in Heaps \cup {0} /\ "handle" \in {"plain", "object", "handle"}
        /\ (thrown # 0 => "handle" = "handle")
    BY <1>8
  <2> QED BY <1>1, <1>2, <1>5, <1>6, <2>1, <2>2, InsertTyped
<1>13. Listed(allocs', heap', live', <<>>)
  <2>1. Listed([allocs EXCEPT ![current] = Append(@, b)], [heap EXCEPT ![b] = current], live, <<>>)
    BY <1>2, <1>5, <1>6, ListedInsert
  <2> QED BY <1>1, <2>1 DEF Insert
<1>14. Handled(handle') = Handled(handle) \cup {x} /\ OneHandle(handle')
  <2>1. OneHandle(handle')
    <3> SUFFICES ASSUME NEW d \in Allocs, NEW e \in Allocs, handle'[d] = handle'[e], handle'[d] # 0
                 PROVE  d = e
      BY DEF OneHandle
    <3> QED BY <1>2, <1>9, <1>10, <1>11 DEF OneHandle, Handled
  <2>2. ASSUME NEW d \in Allocs, handle'[d] # 0 PROVE handle'[d] \in Handled(handle) \cup {x}
    BY <1>11, <2>2 DEF Handled
  <2>3. ASSUME NEW d \in Allocs, handle[d] # 0 PROVE handle[d] \in Handled(handle')
    BY <1>5, <1>11, <2>3 DEF Handled
  <2>4. x \in Handled(handle')
    BY <1>1, <1>5, <1>10, <1>11 DEF Handled
  <2> QED BY <2>1, <2>2, <2>3, <2>4 DEF Handled
<1>15. Grafted(Edges, Edges', current, Q)
  <2> SUFFICES ASSUME NEW e \in Edges' PROVE e \in Edges \/ (e[1] = current /\ e[2] \in Q)
    BY DEF Grafted
  <2>1. PICK d \in Allocs : handle'[d] # 0 /\ e = <<heap'[d], handle'[d]>>
    BY DEF Edges
  <2>2. \/ <<heap'[d], handle'[d]>> \in Edges
        \/ heap'[d] = current /\ handle'[d] \in Q
    BY <2>1, <1>7, <1>10, <1>11 DEF Edges
  <2> QED BY <2>1, <2>2
<1>16. current \notin Q
  BY <1>4, <1>7
<1>17. Founded(Edges')
  BY <1>2, <1>7, <1>15, <1>16, FoundedGraft
<1>18. SubsApart(c, events', Edges')
  BY <1>3, <1>7, <1>15, SubsGraft
<1>19. Owned([own EXCEPT ![x] = "handle"])'
  <2>1. Released(frames, parent) = {} /\ Released(frames', parent') = {}
    BY <1>1, NoFrames DEF Released, FrameHeaps
  <2>2. /\ {Root} \cap live' = With({Root} \cap live, x, "handle" = "fiber")
        /\ Nested(parent') = With(Nested(parent), x, "handle" = "block")
        /\ Handled(handle') = With(Handled(handle), x, "handle" = "handle")
        /\ away' = With(away, x, "handle" = "other")
        /\ NewHeaps(events') = With(NewHeaps(events), x, "handle" = "mitosis")
        /\ {thrown'} \ {0} = With({thrown} \ {0}, x, "handle" = "exception")
        /\ Released(frames', parent') = With(Released(frames, parent), x, "handle" = "release")
        /\ Heaps \ live' = With(Heaps \ live, x, "handle" = "none")
    BY <1>1, <1>4, <1>9, <1>10, <1>14, <2>1 DEF With
  <2>3. "handle" \in Sorts
    BY DEF Sorts
  <2> QED BY <1>2, <2>2, <2>3, OwnedStep
<1>20. \E o : Base(o)'
  <2> DEFINE o == [own EXCEPT ![x] = "handle"]
  <2>1. Owned(o)'
    BY <1>19
  <2>2. /\ frames' = <<>> /\ in_use' = {parent'[y] : y \in Heaps} \ {0} /\ OneNested(parent')
    BY <1>1, <1>2
  <2> HIDE DEF o
  <2>3. Base(o)'
    BY <1>12, <1>13, <1>14, <1>17, <2>1, <2>2, CalmBase
  <2> QED BY <2>3
<1>21. Running(c)'
  <2>1. /\ frames' = <<>> /\ Blocks(c, events', parent') /\ c[1] = current'
        /\ ToSet(c) \subseteq live' /\ Nested(parent') \subseteq SubHeaps(c, events')
        /\ SubsApart(c, events', Edges') /\ thrown' = 0
    BY <1>1, <1>2, <1>3, <1>4, <1>18
  <2> QED BY <2>1, CalmRunning
<1> QED
  BY <1>1, <1>20, <1>21 DEF Sound

------------------------------------------------------------------------------
(* The invariant of the specification.                                      *)

FiberInv ==
    /\ ended \in {"no", "done", "fatal", "corrupt", "in use"}
    /\ ended = "corrupt" => EscapesOuter
    /\ ended = "in use" => Reentered
    /\ ended = "no" => Sound
    /\ ended = "done" => Finished

\* The fiber starts in the invariant.
LEMMA InitInv ==
    ASSUME Init
    PROVE  FiberInv
<1> DEFINE own == [h \in Heaps |-> IF h = Root THEN "fiber"
                                   ELSE IF h = Global THEN "other" ELSE "none"]
           ctx == <<Root>>
<1>1. /\ 0 \notin Heaps /\ Root \in Heaps /\ Global \in Heaps /\ Root # Global
  BY HeapsAre
<1>2. /\ live = {Root, Global} /\ away = {Global} /\ parent = [h \in Heaps |-> 0] /\ in_use = {}
      /\ allocs = [h \in Heaps |-> <<>>] /\ kind = [a \in Allocs |-> "free"]
      /\ heap = [a \in Allocs |-> 0] /\ handle = [a \in Allocs |-> 0] /\ current = Root
      /\ events = <<>> /\ thrown = 0 /\ frames = <<>> /\ ended = "no"
  BY DEF Init
<1>3. Typed /\ OneHandle(handle) /\ OneNested(parent)
  BY <1>1, <1>2 DEF Typed, OneHandle, OneNested
<1>4. FrameHeaps(frames) = {} /\ Leavers(frames) = {} /\ FramesDiffer(frames)
      /\ Batched(frames) = {} /\ Released(frames, parent) = {}
  BY <1>2, NoFrames
<1>5. Listed(allocs, heap, live, frames)
  <2>1. ToSet(<<>>) = {} /\ IsInjective(<<>>) /\ <<>> \in Seq(Allocs)
    BY DEF ToSet, IsInjective
  <2>2. <<>> \in Seq(FrameType) /\ DOMAIN <<>> = {}
    OBVIOUS
  <2> QED BY <1>1, <1>2, <2>1, <2>2 DEF Listed
<1>6. Edges = {} /\ Founded(Edges) /\ Nested(parent) = {} /\ Handled(handle) = {}
      /\ NewHeaps(events) = {} /\ SubHeaps(ctx, events) = {}
  BY <1>2 DEF Edges, Founded, Nested, Handled, NewHeaps, SubHeaps
<1>7. Owned(own)
  <2>1. own \in [Heaps -> Sorts] /\ own[Root] = "fiber" /\ own[Global] = "other"
        /\ \A h \in Heaps \ {Root, Global} : own[h] = "none"
    BY <1>1 DEF Sorts
  <2> HIDE DEF own
  <2> QED BY <1>1, <1>2, <1>4, <1>6, <2>1 DEF Owned, OwnedBy
<1>8. in_use = ({parent[h] : h \in Heaps} \ {0}) \cup FrameHeaps(frames)
  BY <1>2, <1>4
<1> HIDE DEF own
<1>9. Base(own)
  BY <1>3, <1>4, <1>5, <1>6, <1>7, <1>8 DEF Base
<1>10. Blocks(ctx, events, parent)
  BY <1>1, <1>2 DEF Blocks
<1>11. ctx[1] = Root /\ ToSet(ctx) = {Root}
  BY DEF ToSet
<1>12. SubsApart(ctx, events, Edges) /\ FramesApart(FrameHeaps(frames), ctx, Edges)
  BY <1>2, <1>4 DEF SubsApart, FramesApart
<1> HIDE DEF ctx
<1>13. Running(ctx)
  BY <1>2, <1>4, <1>6, <1>10, <1>11, <1>12 DEF Running
<1> QED
  BY <1>2, <1>9, <1>13 DEF FiberInv, Sound

\* A step of the running fiber.
LEMMA StepInv ==
    ASSUME Sound, ended = "no", Next
    PROVE  \/ Sound' /\ ended' = "no"
           \/ Finished' /\ ended' = "done"
           \/ ended' = "fatal"
           \/ ended' = "corrupt" /\ EscapesOuter
           \/ ended' = "in use" /\ Reentered'
<1>1. PICK own, ctx : Base(own) /\ Running(ctx)
  BY DEF Sound
<1>2. CASE Alloc /\ UNCHANGED away
  BY <1>1, <1>2, AllocInv
<1>3. CASE AllocHeap /\ UNCHANGED away
  BY <1>1, <1>3, AllocHeapInv
<1>4. CASE ImportHeap /\ UNCHANGED away
  BY <1>1, <1>4, ImportHeapInv
<1>5. CASE Escape /\ UNCHANGED away
  BY <1>1, <1>5, EscapeInv
<1>6. CASE Import /\ UNCHANGED away
  BY <1>1, <1>6, ImportInv
<1>7. CASE Free /\ UNCHANGED away
  BY <1>1, <1>7, FreeInv
<1>8. CASE Consume /\ UNCHANGED away
  BY <1>1, <1>8, ConsumeInv
<1>9. CASE EscapeTxn /\ UNCHANGED away
  BY <1>1, <1>9, EscapeTxnInv
<1>10. CASE EscapeGlobal /\ UNCHANGED away
  BY <1>1, <1>10, EscapeGlobalInv
<1>11. CASE ReleaseNext /\ UNCHANGED away
  BY <1>1, <1>11, ReleaseNextInv
<1>12. CASE ReleaseAgain /\ UNCHANGED away
  BY <1>1, <1>12, ReleaseAgainInv
<1>13. CASE ReleaseEnds /\ UNCHANGED away
  BY <1>1, <1>13, ReleaseEndsInv
<1>14. CASE PushSubHeap /\ UNCHANGED away
  BY <1>1, <1>14, PushSubInv
<1>15. CASE PushSwitchHeap /\ UNCHANGED away
  BY <1>1, <1>15, PushSwitchInv
<1>16. CASE PushTry /\ UNCHANGED away
  BY <1>1, <1>16, PushTryInv
<1>17. CASE PopSubHeap /\ UNCHANGED away
  BY <1>1, <1>17, PopSubInv
<1>18. CASE PopSwitchHeap /\ UNCHANGED away
  BY <1>1, <1>18, PopSwitchInv
<1>19. CASE PopTry /\ UNCHANGED away
  BY <1>1, <1>19, PopTryInv
<1>20. CASE Throw /\ UNCHANGED away
  BY <1>1, <1>20, ThrowInv
<1>21. CASE Rethrow /\ UNCHANGED away
  BY <1>1, <1>21, RethrowInv
<1>22. CASE Catch /\ UNCHANGED away
  BY <1>1, <1>22, CatchInv
<1>23. CASE Finalize /\ UNCHANGED away
  BY <1>1, <1>23, FinalizeInv
<1>24. CASE PushMitosis /\ UNCHANGED away
  BY <1>1, <1>24, PushMitosisInv
<1>25. CASE PopMitosis
  BY <1>1, <1>25, PopMitosisInv
<1>26. CASE PushEmitosis /\ UNCHANGED away
  BY <1>1, <1>26, PushEmitosisInv
<1>27. CASE PopEmitosis /\ UNCHANGED away
  BY <1>1, <1>27, PopEmitosisInv
<1>28. CASE ThrowEm /\ UNCHANGED away
  BY <1>1, <1>28, ThrowEmInv
<1>29. ~Ended
  BY DEF Ended
<1> QED
  BY <1>2, <1>3, <1>4, <1>5, <1>6, <1>7, <1>8, <1>9, <1>10, <1>11, <1>12, <1>13, <1>14,
     <1>15, <1>16, <1>17, <1>18, <1>19, <1>20, <1>21, <1>22, <1>23, <1>24, <1>25, <1>26, <1>27,
     <1>28, <1>29
     DEF Next, Calls

\* The invariant depends on the variables of the specification.
LEMMA StutterInv ==
    ASSUME FiberInv, UNCHANGED vars
    PROVE  FiberInv'
<1>1. UNCHANGED <<live, parent, in_use, allocs, kind, heap, handle, current, events, thrown,
                  frames, away, ended>>
  BY DEF vars, allocVars
<1>2. Typed' = Typed
  BY <1>1 DEF Typed
<1>3. Edges' = Edges /\ FreeAllocs' = FreeAllocs
  BY <1>1 DEF Edges, FreeAllocs
<1>4. \A o : Base(o)' = Base(o)
  BY <1>1, <1>2, <1>3 DEF Base, Owned
<1>5. \A c : Running(c)' = Running(c)
  BY <1>1, <1>3 DEF Running
<1>6. Sound' = Sound
  BY <1>4, <1>5 DEF Sound
<1>7. Elsewhere' = Elsewhere /\ Mine' = Mine
  BY <1>1, <1>3 DEF Elsewhere, Mine, ReachOf, Allocated
<1>8. Finished' = Finished
  BY <1>1, <1>4, <1>7 DEF Finished
<1>9. Reentered' = Reentered
  BY <1>1 DEF Reentered, Chain
<1> QED
  BY <1>1, <1>6, <1>8, <1>9 DEF FiberInv

\* Every action of the fiber keeps the invariant.
LEMMA NextInv ==
    ASSUME FiberInv, [Next]_vars
    PROVE  FiberInv'
<1>1. CASE UNCHANGED vars
  BY <1>1, StutterInv
<1>2. CASE Next /\ ended = "no"
  <2>1. Sound
    BY <1>2 DEF FiberInv
  <2>2. \/ Sound' /\ ended' = "no"
        \/ Finished' /\ ended' = "done"
        \/ ended' = "fatal"
        \/ ended' = "corrupt" /\ EscapesOuter
        \/ ended' = "in use" /\ Reentered'
    BY <1>2, <2>1, StepInv
  <2> QED BY <2>2 DEF FiberInv
<1>3. CASE Next /\ ended # "no"
  <2>1. UNCHANGED vars
    BY <1>3 DEF Next, Calls, Ended, Alloc, AllocHeap, ImportHeap, Escape, Import, Free, Consume,
       EscapeTxn, EscapeGlobal, ReleaseNext, ReleaseAgain, ReleaseEnds, Releasing, PushSubHeap,
       PushSwitchHeap, PushEmitosis, PushTry, PushMitosis, PopSubHeap, PopSwitchHeap,
       PopEmitosis, PopTry, PopMitosis, PopsBlock, Throw, Rethrow, ThrowEm, Catch, Finalize, Runs
  <2> QED BY <2>1, StutterInv
<1> QED
  BY <1>1, <1>2, <1>3

\* The invariant holds in every state of the specification.
LEMMA InvHolds == Spec => []FiberInv
<1>1. Init => FiberInv
  BY InitInv
<1>2. FiberInv /\ [Next]_vars => FiberInv'
  BY NextInv
<1> QED
  BY <1>1, <1>2, PTL DEF Spec

------------------------------------------------------------------------------
(* What the invariant is for.                                               *)

\* S has one element if "is" and none if not.
OneIf(S, is) == (is => \E o : S = {o}) /\ (~is => S = {})

\* No heap is that of two fibers in mitosis.
NewApart ==
    \A i, j \in DOMAIN events :
        events[i].type = "mitosis" /\ events[j].type = "mitosis" /\ events[i].new = events[j].new
        => i = j

\* The kinds of owners, one by one.
LEMMA OwnersAre ==
    ASSUME NEW own, Base(own), NEW h \in Heaps, h \in live,
           NewApart
    PROVE  /\ OneIf({<<"fiber", 0>> : x \in {Root} \cap {h}}, h \in {Root} \cap live)
           /\ OneIf({<<"block", x>> : x \in {parent[h]} \ {0}}, h \in Nested(parent))
           /\ OneIf({<<"handle", a>> : a \in {b \in Allocated : handle[b] = h}}, h \in Handled(handle))
           /\ OneIf({<<"other", x>> : x \in away \cap {h}}, h \in away)
           /\ OneIf({<<"mitosis", i>> : i \in {j \in DOMAIN events :
                                        events[j].type = "mitosis" /\ events[j].new = h}},
                    h \in NewHeaps(events))
           /\ OneIf({<<"exception", 0>> : x \in {thrown} \cap {h}}, h \in {thrown} \ {0})
           /\ OneIf({<<"release", i>> : i \in {j \in DOMAIN frames :
                                        frames[j].heap = h /\ h # Root /\ parent[h] = 0}},
                    h \in Released(frames, parent))
<1>1. Typed /\ OneHandle(handle) /\ FramesDiffer(frames) /\ h # 0
  BY HeapsAre DEF Base
<1>2. OneIf({<<"fiber", 0>> : x \in {Root} \cap {h}}, h \in {Root} \cap live)
  <2>1. CASE h = Root
    <3>1. {<<"fiber", 0>> : x \in {Root} \cap {h}} = {<<"fiber", 0>>}
      BY <2>1
    <3> QED BY <2>1, <3>1 DEF OneIf
  <2>2. CASE h # Root
    <3>1. {<<"fiber", 0>> : x \in {Root} \cap {h}} = {}
      BY <2>2
    <3> QED BY <2>2, <3>1 DEF OneIf
  <2> QED BY <2>1, <2>2
<1>3. OneIf({<<"block", x>> : x \in {parent[h]} \ {0}}, h \in Nested(parent))
  <2>1. CASE parent[h] # 0
    <3>1. {<<"block", x>> : x \in {parent[h]} \ {0}} = {<<"block", parent[h]>>}
      BY <2>1
    <3> QED BY <2>1, <3>1 DEF OneIf, Nested
  <2>2. CASE parent[h] = 0
    <3>1. {<<"block", x>> : x \in {parent[h]} \ {0}} = {}
      BY <2>2
    <3> QED BY <2>2, <3>1 DEF OneIf, Nested
  <2> QED BY <2>1, <2>2
<1>4. OneIf({<<"handle", a>> : a \in {b \in Allocated : handle[b] = h}}, h \in Handled(handle))
  <2> DEFINE B == {b \in Allocated : handle[b] = h}
  <2>1. CASE h \in Handled(handle)
    <3>1. PICK a \in Allocs : handle[a] = h
      BY <2>1 DEF Handled
    <3>2. B = {a}
      BY <1>1, <3>1 DEF OneHandle, Allocated, FreeAllocs, Typed
    <3> HIDE DEF B
    <3>3. {<<"handle", x>> : x \in B} = {<<"handle", a>>}
      BY <3>2
    <3> QED BY <2>1, <3>3 DEF OneIf, B
  <2>2. CASE h \notin Handled(handle)
    <3>1. B = {}
      BY <1>1, <2>2 DEF Handled, Allocated
    <3> HIDE DEF B
    <3>2. {<<"handle", x>> : x \in B} = {}
      BY <3>1
    <3> QED BY <2>2, <3>2 DEF OneIf, B
  <2> QED BY <2>1, <2>2
<1>5. OneIf({<<"other", x>> : x \in away \cap {h}}, h \in away)
  <2>1. CASE h \in away
    <3>1. {<<"other", x>> : x \in away \cap {h}} = {<<"other", h>>}
      BY <2>1
    <3> QED BY <2>1, <3>1 DEF OneIf
  <2>2. CASE h \notin away
    <3>1. {<<"other", x>> : x \in away \cap {h}} = {}
      BY <2>2
    <3> QED BY <2>2, <3>1 DEF OneIf
  <2> QED BY <2>1, <2>2
<1>6. OneIf({<<"mitosis", i>> : i \in {j \in DOMAIN events :
                                        events[j].type = "mitosis" /\ events[j].new = h}},
            h \in NewHeaps(events))
  <2> DEFINE B == {j \in DOMAIN events : events[j].type = "mitosis" /\ events[j].new = h}
  <2>1. CASE h \in NewHeaps(events)
    <3>1. PICK i \in DOMAIN events : events[i].type = "mitosis" /\ events[i].new = h
      BY <2>1 DEF NewHeaps
    <3>2. B = {i}
      BY <3>1 DEF NewApart
    <3> HIDE DEF B
    <3>3. {<<"mitosis", x>> : x \in B} = {<<"mitosis", i>>}
      BY <3>2
    <3> QED BY <2>1, <3>3 DEF OneIf, B
  <2>2. CASE h \notin NewHeaps(events)
    <3>1. B = {}
      BY <1>1, <2>2 DEF NewHeaps
    <3> HIDE DEF B
    <3>2. {<<"mitosis", x>> : x \in B} = {}
      BY <3>1
    <3> QED BY <2>2, <3>2 DEF OneIf, B
  <2> QED BY <2>1, <2>2
<1>7. OneIf({<<"exception", 0>> : x \in {thrown} \cap {h}}, h \in {thrown} \ {0})
  <2>1. CASE h = thrown
    <3>1. {<<"exception", 0>> : x \in {thrown} \cap {h}} = {<<"exception", 0>>}
      BY <2>1
    <3> QED BY <1>1, <2>1, <3>1 DEF OneIf
  <2>2. CASE h # thrown
    <3>1. {<<"exception", 0>> : x \in {thrown} \cap {h}} = {}
      BY <2>2
    <3> QED BY <2>2, <3>1 DEF OneIf
  <2> QED BY <2>1, <2>2
<1>8. OneIf({<<"release", i>> : i \in {j \in DOMAIN frames :
                                frames[j].heap = h /\ h # Root /\ parent[h] = 0}},
            h \in Released(frames, parent))
  <2> DEFINE B == {j \in DOMAIN frames : frames[j].heap = h /\ h # Root /\ parent[h] = 0}
  <2>1. CASE h \in Released(frames, parent)
    <3>1. PICK i \in DOMAIN frames : frames[i].heap = h /\ h # Root /\ parent[h] = 0
      BY <2>1 DEF Released, FrameHeaps
    <3>2. B = {i}
      BY <1>1, <3>1 DEF FramesDiffer
    <3> HIDE DEF B
    <3>3. {<<"release", x>> : x \in B} = {<<"release", i>>}
      BY <3>2
    <3> QED BY <2>1, <3>3 DEF OneIf, B
  <2>2. CASE h \notin Released(frames, parent)
    <3>1. B = {}
      BY <2>2 DEF Released, FrameHeaps
    <3> HIDE DEF B
    <3>2. {<<"release", x>> : x \in B} = {}
      BY <3>1
    <3> QED BY <2>2, <3>2 DEF OneIf, B
  <2> QED BY <2>1, <2>2
<1> QED
  BY <1>2, <1>3, <1>4, <1>5, <1>6, <1>7, <1>8

\* Seven sets of which one has an element.
LEMMA OneOwner ==
    ASSUME NEW own, Base(own), NEW h \in Heaps, h \in live,
           NewApart
    PROVE  Cardinality(Owners(h)) = 1
<1> DEFINE F == {Root} \cap live
           B == Nested(parent)
           H == Handled(handle)
           M == NewHeaps(events)
           X == {thrown} \ {0}
           R == Released(frames, parent)
           O1 == {<<"fiber", 0>> : x \in {Root} \cap {h}}
           O2 == {<<"block", x>> : x \in {parent[h]} \ {0}}
           O3 == {<<"handle", a>> : a \in {b \in Allocated : handle[b] = h}}
           O4 == {<<"other", x>> : x \in away \cap {h}}
           O5 == {<<"mitosis", i>> : i \in {j \in DOMAIN events :
                                        events[j].type = "mitosis" /\ events[j].new = h}}
           O6 == {<<"exception", 0>> : x \in {thrown} \cap {h}}
           O7 == {<<"release", i>> : i \in {j \in DOMAIN frames :
                                        frames[j].heap = h /\ h # Root /\ parent[h] = 0}}
<1>1. /\ OneIf(O1, h \in F) /\ OneIf(O2, h \in B) /\ OneIf(O3, h \in H) /\ OneIf(O4, h \in away)
      /\ OneIf(O5, h \in M) /\ OneIf(O6, h \in X) /\ OneIf(O7, h \in R)
  BY OwnersAre
<1>2. Owners(h) = O1 \cup O2 \cup O3 \cup O4 \cup O5 \cup O6 \cup O7
  BY DEF Owners
<1>3. OwnedBy(own, F, B, H, away, M, X, R, Heaps \ live)
  BY DEF Base, Owned
<1> HIDE DEF F, B, H, M, X, R, O1, O2, O3, O4, O5, O6, O7
<1>4. /\ own[h] \in Sorts
      /\ own[h] = "fiber" <=> h \in F
      /\ own[h] = "block" <=> h \in B
      /\ own[h] = "handle" <=> h \in H
      /\ own[h] = "other" <=> h \in away
      /\ own[h] = "mitosis" <=> h \in M
      /\ own[h] = "exception" <=> h \in X
      /\ own[h] = "release" <=> h \in R
      /\ own[h] # "none"
  BY <1>3 DEF OwnedBy
<1>5. \E o : Owners(h) = {o}
  <2>1. CASE own[h] = "fiber"
    BY <1>1, <1>2, <1>4, <2>1 DEF OneIf
  <2>2. CASE own[h] = "block"
    BY <1>1, <1>2, <1>4, <2>2 DEF OneIf
  <2>3. CASE own[h] = "handle"
    BY <1>1, <1>2, <1>4, <2>3 DEF OneIf
  <2>4. CASE own[h] = "other"
    BY <1>1, <1>2, <1>4, <2>4 DEF OneIf
  <2>5. CASE own[h] = "mitosis"
    BY <1>1, <1>2, <1>4, <2>5 DEF OneIf
  <2>6. CASE own[h] = "exception"
    BY <1>1, <1>2, <1>4, <2>6 DEF OneIf
  <2>7. CASE own[h] = "release"
    BY <1>1, <1>2, <1>4, <2>7 DEF OneIf
  <2> QED BY <1>4, <2>1, <2>2, <2>3, <2>4, <2>5, <2>6, <2>7 DEF Sorts
<1>6. PICK o : Owners(h) = {o}
  BY <1>5
<1> QED
  BY <1>6, FS_Singleton

\* The owners of heaps in every state of the invariant.
LEMMA BaseOwners ==
    ASSUME NEW own, Base(own),
           NewApart
    PROVE  /\ \A h \in live : Cardinality(Owners(h)) = 1
           /\ \A a \in Allocated : handle[a] \in live \cup {0}
           /\ thrown \in live \cup {0}
<1>1. Typed
  BY DEF Base
<1>2. ASSUME NEW h \in live PROVE Cardinality(Owners(h)) = 1
  <2>1. h \in Heaps
    BY <1>1 DEF Typed
  <2> QED BY <2>1, OneOwner
<1>3. ASSUME NEW a \in Allocated, handle[a] # 0 PROVE handle[a] \in live
  <2>1. a \in Allocs
    BY DEF Allocated
  <2>2. handle[a] \in Heaps
    BY <1>1, <1>3, <2>1 DEF Typed
  <2>3. handle[a] \in Handled(handle)
    BY <1>3, <2>1 DEF Handled
  <2> QED BY <2>2, <2>3, HeapsDiffer
<1>4. ASSUME thrown # 0 PROVE thrown \in live
  <2>1. thrown \in Heaps
    BY <1>1, <1>4 DEF Typed
  <2> QED BY <2>1, HeapsDiffer
<1> QED
  BY <1>2, <1>3, <1>4

\* In every state of the invariant a heap has one owner.
LEMMA InvOwned ==
    ASSUME FiberInv
    PROVE  HeapsOwnedOnce
<1>1. CASE ended = "no"
  <2>1. PICK own, ctx : Base(own) /\ Running(ctx)
    BY <1>1 DEF FiberInv, Sound
  <2>2. NewApart
    BY <2>1, NewDiffer DEF Running, NewApart
  <2>3. current \in live
    BY <2>1, CurrentLive
  <2>4. /\ \A h \in live : Cardinality(Owners(h)) = 1
        /\ \A a \in Allocated : handle[a] \in live \cup {0}
        /\ thrown \in live \cup {0}
    BY <2>1, <2>2, BaseOwners
  <2> QED BY <2>3, <2>4 DEF HeapsOwnedOnce
<1>2. CASE ended = "done"
  <2>1. PICK own : Base(own)
    BY <1>2 DEF FiberInv, Finished
  <2>2. DOMAIN events = {}
    BY <1>2 DEF FiberInv, Finished
  <2>3. NewApart
    BY <2>2 DEF NewApart
  <2>4. /\ \A h \in live : Cardinality(Owners(h)) = 1
        /\ \A a \in Allocated : handle[a] \in live \cup {0}
        /\ thrown \in live \cup {0}
    BY <2>1, <2>3, BaseOwners
  <2> QED BY <1>2, <2>4 DEF HeapsOwnedOnce
<1>3. CASE ended \notin {"no", "done"}
  BY <1>3 DEF HeapsOwnedOnce, Broken
<1> QED
  BY <1>1, <1>2, <1>3

\* Whatever a fiber allocates, moves, throws and catches and whatever heaps are released
\* while it does, every heap has one owner and no owner has a heap that is gone
\* (vm_heap_release, lwt_consume_heap, forward_exception).
THEOREM HeapsHaveOneOwner == Spec => []HeapsOwnedOnce
<1>1. FiberInv => HeapsOwnedOnce
  BY InvOwned
<1> QED
  BY <1>1, InvHolds, PTL

\* No release ever meets a heap that is in use (vm_heap_toggle_in_use in vm_heap_release), and
\* sub_heap meets one (in vm_heap_create) only if the program is inside of a heap that is nested
\* in the current one: it has switched to the current heap a second time.  That holds as long as
\* the program frees and moves no handle of a heap it is inside of (Handles and Movable of the
\* model), also up to the point where it escapes from a heap in use.
THEOREM InUseIsReentered == Spec => [](ended # "core" /\ (ended = "in use" => Reentered))
<1>1. FiberInv => ended # "core" /\ (ended = "in use" => Reentered)
  BY DEF FiberInv
<1> QED
  BY <1>1, InvHolds, PTL

\* A fiber of a program that escapes nothing from a heap that another is nested in ends with
\* every allocation and heap freed that it has not given away (lwt_fiber_finalize), or in the
\* core error of a sub heap in a heap that it has switched to a second time.
THEOREM FibersEndInOrder ==
    ASSUME ~EscapesOuter
    PROVE  Spec => []EndsInOrder
<1>1. FiberInv => EndsInOrder
  BY DEF FiberInv, EndsInOrder, Finished
<1> QED
  BY <1>1, InvHolds, PTL
==============================================================================
