----------------------------- MODULE DataFacts -----------------------------
(***************************************************************************)
(* Facts about numbers, sequences and sums that the proofs of several      *)
(* components use.  The inductions rest on the least-number principle:     *)
(* where there is a counterexample there is a least one.                   *)
(***************************************************************************)
EXTENDS Integers, SequencesExt, SequenceTheorems, FiniteSetTheorems, WellFoundedInduction, TLAPS

\* A set of naturals that is not empty has a least element.
LEMMA LeastNatural ==
    ASSUME NEW T, T \subseteq Nat, T # {}
    PROVE  \E x \in T : \A y \in T : x <= y
<1>1. \E x \in T : \A y \in T : ~(<<y, x>> \in OpToRel(<, Nat))
    BY WFMin, NatLessThanWellFounded
<1>2. PICK x \in T : \A y \in T : ~(<<y, x>> \in OpToRel(<, Nat))
    BY <1>1
<1>3. \A y \in T : y < x => <<y, x>> \in OpToRel(<, Nat)
    BY DEF OpToRel
<1>4. \A y \in T : ~(y < x)
    BY <1>2, <1>3
<1>5. x \in Nat /\ \A y \in T : y \in Nat
    OBVIOUS
<1>6. \A y \in T : x <= y
    BY <1>4, <1>5, SMT
<1> QED
    BY <1>6

\* The end of a sequence.
LEMMA SuffixOfSeq ==
    ASSUME NEW S, NEW l \in Seq(S), NEW n \in 0..Len(l)
    PROVE  /\ SubSeq(l, n + 1, Len(l)) \in Seq(S)
           /\ Len(SubSeq(l, n + 1, Len(l))) = Len(l) - n
           /\ \A k \in 1..(Len(l) - n) : SubSeq(l, n + 1, Len(l))[k] = l[k + n]
<1>1. Len(l) \in Nat /\ \A i \in (n + 1)..Len(l) : l[i] \in S
    OBVIOUS
<1>2. PICK b : b = SubSeq(l, n + 1, Len(l))
    OBVIOUS
<1>3. /\ b \in Seq(S) /\ Len(b) = IF n + 1 <= Len(l) THEN Len(l) - (n + 1) + 1 ELSE 0
      /\ \A k \in 1..(Len(l) - (n + 1) + 1) : b[k] = l[(n + 1) + k - 1]
    BY <1>1, <1>2, SubSeqProperties
<1>4. Len(b) = Len(l) - n
    BY <1>1, <1>3
<1>5. ASSUME NEW k \in 1..(Len(l) - n) PROVE b[k] = l[k + n]
    <2>1. (n + 1) + k - 1 = k + n /\ k \in 1..(Len(l) - (n + 1) + 1)
        BY <1>1
    <2> QED
        BY <1>3, <2>1
<1> QED
    BY <1>2, <1>3, <1>4, <1>5

\* What is left of a sequence without its n-th element.
LEMMA RemoveAtFacts ==
    ASSUME NEW S, NEW l \in Seq(S), NEW n \in 1..Len(l)
    PROVE  /\ RemoveAt(l, n) \in Seq(S) /\ Len(RemoveAt(l, n)) = Len(l) - 1
           /\ \A k \in 1..(Len(l) - 1) : RemoveAt(l, n)[k] = IF k < n THEN l[k] ELSE l[k + 1]
<1>1. Len(l) \in Nat /\ \A i \in 1..(n - 1) : l[i] \in S
    OBVIOUS
<1>2. PICK a : a = SubSeq(l, 1, n - 1)
    OBVIOUS
<1>3. PICK b : b = SubSeq(l, n + 1, Len(l))
    OBVIOUS
<1>4. /\ a \in Seq(S) /\ Len(a) = IF 1 <= n - 1 THEN n - 1 - 1 + 1 ELSE 0
      /\ \A k \in 1..(n - 1 - 1 + 1) : a[k] = l[1 + k - 1]
    BY <1>1, <1>2, SubSeqProperties
<1>5. Len(a) = n - 1 /\ \A k \in 1..(n - 1) : a[k] = l[k]
    <2>1. Len(a) = n - 1
        BY <1>1, <1>4
    <2>2. ASSUME NEW k \in 1..(n - 1) PROVE a[k] = l[k]
        <3>1. 1 + k - 1 = k /\ k \in 1..(n - 1 - 1 + 1)
            BY <1>1
        <3> QED
            BY <3>1, <1>4
    <2> QED
        BY <2>1, <2>2
<1>6. b \in Seq(S) /\ Len(b) = Len(l) - n /\ \A k \in 1..(Len(l) - n) : b[k] = l[k + n]
    BY <1>1, <1>3, SuffixOfSeq
<1>7. PICK m : m = a \o b
    OBVIOUS
<1>8. RemoveAt(l, n) = m
    BY <1>2, <1>3, <1>7 DEF RemoveAt
<1>9. /\ m \in Seq(S) /\ Len(m) = Len(a) + Len(b)
      /\ \A k \in 1..(Len(a) + Len(b)) : m[k] = IF k <= Len(a) THEN a[k] ELSE b[k - Len(a)]
    BY <1>4, <1>6, <1>7, ConcatProperties
<1>10. Len(m) = Len(l) - 1
    BY <1>1, <1>5, <1>6, <1>9
<1>11. ASSUME NEW k \in 1..(Len(l) - 1) PROVE m[k] = IF k < n THEN l[k] ELSE l[k + 1]
    <2>3. k \in 1..(Len(a) + Len(b)) /\ (k <= Len(a) <=> k < n) /\ k - Len(a) = k - (n - 1)
        BY <1>1, <1>5, <1>6
    <2>4. m[k] = IF k < n THEN a[k] ELSE b[k - (n - 1)]
        BY <2>3, <1>9
    <2>1. CASE k < n
        BY <2>1, <2>4, <1>1, <1>5
    <2>2. CASE ~(k < n)
        <3>1. k - (n - 1) \in 1..(Len(l) - n) /\ k - (n - 1) + n = k + 1
            BY <2>2, <1>1
        <3>2. m[k] = b[k - (n - 1)]
            BY <2>2, <2>4
        <3> QED
            BY <2>2, <3>1, <3>2, <1>6
    <2> QED
        BY <2>1, <2>2
<1> QED
    BY <1>8, <1>9, <1>10, <1>11

-----------------------------------------------------------------------------
(* Sums over finite sets.                                                  *)

\* Induction on a finite set, for a property given as the set of those that have it.
LEMMA SetInduction ==
    ASSUME NEW S, IsFiniteSet(S), NEW G, {} \in G,
           \A T \in SUBSET S : \A x \in S \ T : T \in G => T \cup {x} \in G
    PROVE  S \in G
<1>1. \A T \in SUBSET S : IsFiniteSet(T) /\ Cardinality(T) \in Nat
    BY FS_Subset, FS_CardinalityType
<1>2. PICK bad : bad = {n \in Nat : \E T \in SUBSET S : Cardinality(T) = n /\ T \notin G}
    OBVIOUS
<1>3. ASSUME bad # {} PROVE FALSE
    <2>1. PICK n \in bad : \A m \in bad : n <= m
        BY <1>2, <1>3, LeastNatural
    <2>2. PICK T \in SUBSET S : Cardinality(T) = n /\ T \notin G
        BY <1>2, <2>1
    <2>3. PICK x \in T : TRUE
        BY <2>2
    <2>4. PICK U \in SUBSET S : U = T \ {x}
        OBVIOUS
    <2>5. n \in Nat /\ IsFiniteSet(T)
        BY <1>1, <1>2
    <2>6. Cardinality(U) = n - 1 /\ Cardinality(U) \in Nat
        BY <1>1, <2>2, <2>3, <2>4, <2>5, FS_RemoveElement
    <2>7. Cardinality(U) = n - 1 /\ n - 1 \in Nat /\ ~(n <= n - 1)
        BY <2>5, <2>6
    <2>8. n - 1 \notin bad
        BY <2>1, <2>7
    <2>9. U \in G
        BY <1>2, <2>7, <2>8
    <2>10. U \cup {x} = T /\ x \in S \ U
        BY <2>3, <2>4
    <2> QED
        BY <2>2, <2>9, <2>10
<1>4. Cardinality(S) \notin bad
    BY <1>3
<1> QED
    BY <1>1, <1>2, <1>4

\* The element the folds of the community modules take next.
First(s) == CHOOSE x \in s : TRUE

\* it has the partial sums of f over the subsets of S, each in the order of First.
PartialSums(it, f, S) ==
    it = [s \in SUBSET S |-> IF s = {} THEN 0 ELSE f[First(s)] + it[s \ {First(s)}]]

\* They exist, although the definition is recursive.
LEMMA PartialSumsExist ==
    ASSUME NEW S, IsFiniteSet(S), NEW f
    PROVE  \E it : PartialSums(it, f, S)
<1> DEFINE Defined(g, n) ==
        \A s \in SUBSET S : Cardinality(s) <= n =>
            g[s] = IF s = {} THEN 0 ELSE f[First(s)] + g[s \ {First(s)}]
<1>1. \A s \in SUBSET S : /\ IsFiniteSet(s) /\ Cardinality(s) \in Nat
                          /\ Cardinality(s) <= Cardinality(S)
                          /\ Cardinality(s) = 0 <=> s = {}
    BY FS_Subset, FS_CardinalityType, FS_EmptySet
<1>2. \A s \in SUBSET S : s # {} =>
          s \ {First(s)} \in SUBSET S /\ Cardinality(s \ {First(s)}) = Cardinality(s) - 1
    <2> SUFFICES ASSUME NEW s \in SUBSET S, s # {}
                 PROVE  s \ {First(s)} \in SUBSET S /\ Cardinality(s \ {First(s)}) = Cardinality(s) - 1
        OBVIOUS
    <2>1. First(s) \in s
        BY DEF First
    <2> QED
        BY <1>1, <2>1, FS_RemoveElement
<1>3. PICK T : T = {n \in Nat : ~\E g : Defined(g, n)}
    OBVIOUS
<1>4. ASSUME T # {} PROVE FALSE
    <2>1. PICK n \in T : \A m \in T : n <= m
        BY <1>3, <1>4, LeastNatural
    <2>2. n \in Nat /\ ~\E g : Defined(g, n)
        BY <1>3
    <2>3. n # 0
        <3>1. PICK g : g = [s \in SUBSET S |-> 0]
            OBVIOUS
        <3>2. ASSUME n = 0, NEW s \in SUBSET S, Cardinality(s) <= n PROVE s = {} /\ g[s] = 0
            BY <1>1, <3>1, <3>2
        <3>3. n = 0 => Defined(g, n)
            BY <3>2
        <3> QED
            BY <2>2, <3>3
    <2>4. n - 1 \in Nat /\ n - 1 \notin T
        BY <2>1, <2>2, <2>3
    <2>5. PICK g : Defined(g, n - 1)
        BY <1>3, <2>4
    <2>6. PICK h : h = [s \in SUBSET S |->
                          IF Cardinality(s) <= n - 1 THEN g[s] ELSE f[First(s)] + g[s \ {First(s)}]]
        OBVIOUS
    <2>7. ASSUME NEW s \in SUBSET S, Cardinality(s) <= n
          PROVE  h[s] = IF s = {} THEN 0 ELSE f[First(s)] + h[s \ {First(s)}]
        <3>1. CASE s = {}
            <4>1. Cardinality(s) <= n - 1
                BY <1>1, <2>4, <3>1
            <4>2. h[s] = g[s] /\ g[s] = 0
                BY <2>5, <2>6, <3>1, <4>1
            <4> QED
                BY <3>1, <4>2
        <3>2. CASE s # {}
            <4>1. PICK t \in SUBSET S : t = s \ {First(s)} /\ Cardinality(t) = Cardinality(s) - 1
                BY <1>2, <3>2
            <4>2. Cardinality(t) <= n - 1
                BY <1>1, <2>2, <2>7, <4>1
            <4>3. h[t] = g[t]
                BY <2>6, <4>2
            <4>4. h[s] = f[First(s)] + g[t]
                BY <2>5, <2>6, <3>2, <4>1
            <4> QED
                BY <3>2, <4>1, <4>3, <4>4
        <3> QED
            BY <3>1, <3>2
    <2>8. Defined(h, n)
        BY <2>7
    <2> QED
        BY <2>2, <2>8
<1>5. PICK g : Defined(g, Cardinality(S))
    BY <1>1, <1>3, <1>4
<1>6. PICK it : it = [s \in SUBSET S |-> g[s]]
    OBVIOUS
<1>7. \A s \in SUBSET S : it[s] = IF s = {} THEN 0 ELSE f[First(s)] + it[s \ {First(s)}]
    BY <1>1, <1>2, <1>5, <1>6
<1>8. PartialSums(it, f, S)
    <2>1. PICK j : j = [s \in SUBSET S |-> IF s = {} THEN 0 ELSE f[First(s)] + it[s \ {First(s)}]]
        OBVIOUS
    <2>2. \A s \in SUBSET S : it[s] = j[s]
        BY <1>7, <2>1
    <2>3. it = j
        BY <1>6, <2>1, <2>2
    <2> QED
        BY <2>1, <2>3 DEF PartialSums
<1> QED
    BY <1>8

\* What SumFunctionOnSet computes.
LEMMA SumIsPartialSum ==
    ASSUME NEW S, IsFiniteSet(S), NEW f
    PROVE  \E it : PartialSums(it, f, S) /\ SumFunctionOnSet(f, S) = it[S]
<1>1. PICK it : it = CHOOSE j : PartialSums(j, f, S)
    OBVIOUS
<1>2. PartialSums(it, f, S)
    BY <1>1, PartialSumsExist, Zenon
<1>3. SumFunctionOnSet(f, S) = it[S]
    BY <1>1, Zenon DEF SumFunctionOnSet, FoldFunctionOnSet, MapThenFoldSet, PartialSums, First
<1> QED
    BY <1>2, <1>3

\* The partial sums of a subset are those of the whole set.
LEMMA PartialSumsAgree ==
    ASSUME NEW S, IsFiniteSet(S), NEW f, NEW it, PartialSums(it, f, S),
           NEW T \in SUBSET S, NEW jt, PartialSums(jt, f, T)
    PROVE  it[T] = jt[T]
<1>1. \A s \in SUBSET S : IsFiniteSet(s) /\ Cardinality(s) \in Nat
    BY FS_Subset, FS_CardinalityType
<1>2. \A s \in SUBSET T :
          /\ it[s] = IF s = {} THEN 0 ELSE f[First(s)] + it[s \ {First(s)}]
          /\ jt[s] = IF s = {} THEN 0 ELSE f[First(s)] + jt[s \ {First(s)}]
    <2>1. \A s \in SUBSET S : it[s] = IF s = {} THEN 0 ELSE f[First(s)] + it[s \ {First(s)}]
        BY Zenon DEF PartialSums
    <2>2. \A s \in SUBSET T : jt[s] = IF s = {} THEN 0 ELSE f[First(s)] + jt[s \ {First(s)}]
        BY Zenon DEF PartialSums
    <2>3. \A s \in SUBSET T : s \in SUBSET S
        OBVIOUS
    <2> QED
        BY <2>1, <2>2, <2>3
<1>3. PICK bad : bad = {n \in Nat : \E s \in SUBSET T : Cardinality(s) = n /\ it[s] # jt[s]}
    OBVIOUS
<1>4. ASSUME bad # {} PROVE FALSE
    <2>1. PICK n \in bad : \A m \in bad : n <= m
        BY <1>3, <1>4, LeastNatural
    <2>2. n \in Nat /\ \E s \in SUBSET T : Cardinality(s) = n /\ it[s] # jt[s]
        BY <1>3
    <2>3. PICK s \in SUBSET T : Cardinality(s) = n /\ it[s] # jt[s]
        BY <2>2
    <2>4. s # {}
        BY <1>2, <2>3
    <2>5. First(s) \in s
        BY <2>4 DEF First
    <2>6. PICK t \in SUBSET T : t = s \ {First(s)}
        OBVIOUS
    <2>7. IsFiniteSet(s) /\ s \in SUBSET S /\ t \in SUBSET S
        BY <1>1
    <2>8. Cardinality(t) = n - 1 /\ Cardinality(t) \in Nat
        BY <1>1, <2>3, <2>5, <2>6, <2>7, FS_RemoveElement
    <2>9. it[t] = jt[t]
        <3>1. n - 1 \in Nat /\ ~(n <= n - 1)
            BY <2>2, <2>8
        <3>2. n - 1 \notin bad
            BY <2>1, <3>1
        <3> QED
            BY <1>3, <2>8, <3>1, <3>2
    <2>10. it[s] = f[First(s)] + it[t] /\ jt[s] = f[First(s)] + jt[t]
        BY <1>2, <2>4, <2>6
    <2> QED
        BY <2>3, <2>9, <2>10
<1>5. Cardinality(T) \in Nat /\ T \in SUBSET T /\ Cardinality(T) \notin bad
    BY <1>1, <1>4
<1> QED
    BY <1>3, <1>5

\* A sum takes the first element and goes on with the others.
LEMMA SumStep ==
    ASSUME NEW S, IsFiniteSet(S), NEW f
    PROVE  SumFunctionOnSet(f, S) =
               IF S = {} THEN 0 ELSE f[First(S)] + SumFunctionOnSet(f, S \ {First(S)})
<1>1. PICK it : PartialSums(it, f, S) /\ SumFunctionOnSet(f, S) = it[S]
    BY SumIsPartialSum
<1>2. it[S] = IF S = {} THEN 0 ELSE f[First(S)] + it[S \ {First(S)}]
    <2>1. \A s \in SUBSET S : it[s] = IF s = {} THEN 0 ELSE f[First(s)] + it[s \ {First(s)}]
        BY <1>1, Zenon DEF PartialSums
    <2> QED
        BY <2>1
<1>3. PICK T \in SUBSET S : T = S \ {First(S)}
    OBVIOUS
<1>4. IsFiniteSet(T)
    BY FS_Subset
<1>5. PICK jt : PartialSums(jt, f, T) /\ SumFunctionOnSet(f, T) = jt[T]
    BY <1>4, SumIsPartialSum
<1>6. it[T] = jt[T]
    BY <1>1, <1>5, PartialSumsAgree
<1> QED
    BY <1>1, <1>2, <1>3, <1>5, <1>6

\* A sum of naturals is one, and any element may be taken out of it.
LEMMA SumTake ==
    ASSUME NEW S, IsFiniteSet(S), NEW f, \A x \in S : f[x] \in Nat
    PROVE  /\ SumFunctionOnSet(f, S) \in Nat
           /\ \A x \in S : SumFunctionOnSet(f, S) = f[x] + SumFunctionOnSet(f, S \ {x})
<1> DEFINE Sum(T) == SumFunctionOnSet(f, T)
           Takes(T) == Sum(T) \in Nat /\ \A x \in T : Sum(T) = f[x] + Sum(T \ {x})
<1>1. \A s \in SUBSET S : IsFiniteSet(s) /\ Cardinality(s) \in Nat
    BY FS_Subset, FS_CardinalityType
<1>2. \A s \in SUBSET S : Sum(s) = IF s = {} THEN 0 ELSE f[First(s)] + Sum(s \ {First(s)})
    BY <1>1, SumStep
<1> HIDE DEF Sum
<1>3. PICK bad : bad = {n \in Nat : \E s \in SUBSET S : Cardinality(s) = n /\ ~Takes(s)}
    OBVIOUS
<1>4. ASSUME bad # {} PROVE FALSE
    <2>1. PICK n \in bad : \A m \in bad : n <= m
        BY <1>3, <1>4, LeastNatural
    <2>2. n \in Nat /\ \E s \in SUBSET S : Cardinality(s) = n /\ ~Takes(s)
        BY <1>3
    <2>3. PICK s \in SUBSET S : Cardinality(s) = n /\ ~Takes(s)
        BY <2>2
    <2>4. s # {}
        <3>1. Sum({}) = 0
            BY <1>2
        <3>2. Takes({})
            BY <3>1
        <3> QED
            BY <2>3, <3>2
    <2>5. ASSUME NEW t \in SUBSET s, NEW x \in s, x \notin t PROVE t \in SUBSET S /\ Takes(t)
        <3>1. PICK u \in SUBSET S : u = s \ {x}
            OBVIOUS
        <3>2. Cardinality(u) = n - 1 /\ IsFiniteSet(u)
            BY <1>1, <2>3, <3>1, FS_RemoveElement
        <3>3. t \in SUBSET u
            BY <2>5, <3>1
        <3>4. Cardinality(t) <= n - 1 /\ Cardinality(t) \in Nat
            BY <1>1, <3>2, <3>3, FS_Subset
        <3>5. Cardinality(t) \notin bad
            <4>1. ~(n <= Cardinality(t))
                BY <2>2, <3>4
            <4> QED
                BY <2>1, <4>1
        <3> QED
            BY <1>3, <3>4, <3>5
    <2>6. \A x \in s : s \ {x} \in SUBSET S /\ Takes(s \ {x})
        BY <2>5
    <2>7. PICK c \in s : c = First(s)
        BY <2>4 DEF First
    <2>8. Sum(s) = f[c] + Sum(s \ {c}) /\ f[c] \in Nat /\ Sum(s \ {c}) \in Nat
        BY <1>2, <2>4, <2>6, <2>7
    <2>9. ASSUME NEW x \in s, x # c PROVE Sum(s) = f[x] + Sum(s \ {x})
        <3>1. PICK r : r = (s \ {c}) \ {x} /\ r = (s \ {x}) \ {c}
            OBVIOUS
        <3>2. Sum(s \ {c}) = f[x] + Sum(r)
            BY <2>6, <2>9, <3>1
        <3>3. Sum(s \ {x}) = f[c] + Sum(r)
            BY <2>6, <2>9, <3>1
        <3>4. Sum(r) \in Nat
            <4>1. r \in SUBSET s /\ c \notin r
                BY <3>1
            <4> QED
                BY <2>5, <4>1
        <3> QED
            BY <2>8, <3>2, <3>3, <3>4
    <2>10. Takes(s)
        BY <2>8, <2>9
    <2> QED
        BY <2>3, <2>10
<1>5. Cardinality(S) \in Nat /\ S \in SUBSET S /\ Cardinality(S) \notin bad
    BY <1>1, <1>4
<1>6. Takes(S)
    BY <1>3, <1>5
<1> QED
    BY <1>6 DEF Sum

\* The sum over a set with one more element.
LEMMA SumOneMore ==
    ASSUME NEW S, IsFiniteSet(S), NEW x, x \notin S, NEW f, \A y \in S \cup {x} : f[y] \in Nat
    PROVE  SumFunctionOnSet(f, S \cup {x}) = f[x] + SumFunctionOnSet(f, S)
<1>1. PICK T : T = S \cup {x}
    OBVIOUS
<1>2. IsFiniteSet(T) /\ x \in T /\ T \ {x} = S /\ \A y \in T : f[y] \in Nat
    BY <1>1, FS_AddElement
<1>3. SumFunctionOnSet(f, T) = f[x] + SumFunctionOnSet(f, T \ {x})
    BY <1>2, SumTake
<1> QED
    BY <1>1, <1>2, <1>3

\* A sum depends only on the values that are summed.
LEMMA SumSame ==
    ASSUME NEW S, IsFiniteSet(S), NEW f, NEW g, \A x \in S : f[x] \in Nat /\ g[x] = f[x]
    PROVE  SumFunctionOnSet(f, S) = SumFunctionOnSet(g, S)
<1>1. PICK G : G = {T \in SUBSET S : SumFunctionOnSet(f, T) = SumFunctionOnSet(g, T)}
    OBVIOUS
<1>2. {} \in G
    <2>1. SumFunctionOnSet(f, {}) = 0 /\ SumFunctionOnSet(g, {}) = 0
        BY SumStep, FS_EmptySet
    <2> QED
        BY <1>1, <2>1
<1>3. ASSUME NEW T \in SUBSET S, NEW x \in S \ T, T \in G PROVE T \cup {x} \in G
    <2>1. IsFiniteSet(T) /\ T \cup {x} \in SUBSET S
        BY FS_Subset
    <2>2. \A y \in T \cup {x} : f[y] \in Nat /\ g[y] \in Nat
        BY <2>1
    <2>3. SumFunctionOnSet(f, T \cup {x}) = f[x] + SumFunctionOnSet(f, T)
        BY <2>1, <2>2, SumOneMore
    <2>4. SumFunctionOnSet(g, T \cup {x}) = g[x] + SumFunctionOnSet(g, T)
        BY <2>1, <2>2, SumOneMore
    <2>5. SumFunctionOnSet(f, T) = SumFunctionOnSet(g, T)
        BY <1>1, <1>3
    <2>6. SumFunctionOnSet(f, T \cup {x}) = SumFunctionOnSet(g, T \cup {x})
        BY <2>3, <2>4, <2>5
    <2> QED
        BY <1>1, <2>1, <2>6
<1>4. S \in G
    BY <1>2, <1>3, SetInduction
<1> QED
    BY <1>1, <1>4

\* The sum over two sets with no common element.
LEMMA SumUnion ==
    ASSUME NEW A, NEW B, IsFiniteSet(A), IsFiniteSet(B), A \cap B = {},
           NEW f, \A x \in A \cup B : f[x] \in Nat
    PROVE  SumFunctionOnSet(f, A \cup B) = SumFunctionOnSet(f, A) + SumFunctionOnSet(f, B)
<1> DEFINE Sum(T) == SumFunctionOnSet(f, T)
<1>1. PICK G : G = {T \in SUBSET B : Sum(A \cup T) = Sum(A) + Sum(T)}
    OBVIOUS
<1>2. Sum(A) \in Nat
    BY SumTake
<1>3. {} \in G
    <2>1. Sum({}) = 0
        BY SumStep, FS_EmptySet
    <2>2. A \cup {} = A
        OBVIOUS
    <2>3. Sum(A \cup {}) = Sum(A) + Sum({})
        BY <1>2, <2>1, <2>2
    <2> QED
        BY <1>1, <2>3
<1>4. ASSUME NEW T \in SUBSET B, NEW x \in B \ T, T \in G PROVE T \cup {x} \in G
    <2>1. IsFiniteSet(T) /\ T \cup {x} \in SUBSET B
        BY FS_Subset
    <2>2. PICK U : U = A \cup T
        OBVIOUS
    <2>3. IsFiniteSet(U) /\ x \notin U /\ U \cup {x} = A \cup (T \cup {x})
        BY <2>1, <2>2, FS_Union
    <2>4. \A y \in U \cup {x} : f[y] \in Nat
        BY <2>2
    <2>5. Sum(U \cup {x}) = f[x] + Sum(U)
        BY <2>3, <2>4, SumOneMore
    <2>6. \A y \in T \cup {x} : f[y] \in Nat
        OBVIOUS
    <2>7. Sum(T \cup {x}) = f[x] + Sum(T) /\ Sum(T) \in Nat /\ f[x] \in Nat
        BY <2>1, <2>6, SumOneMore, SumTake
    <2>8. Sum(U) = Sum(A) + Sum(T)
        BY <1>1, <1>4, <2>2
    <2> HIDE DEF Sum
    <2>9. Sum(A \cup (T \cup {x})) = Sum(A) + Sum(T \cup {x})
        <3>1. PICK a \in Nat, t \in Nat, v \in Nat : a = Sum(A) /\ t = Sum(T) /\ v = f[x]
            BY <1>2, <2>7
        <3>2. Sum(U \cup {x}) = v + (a + t) /\ Sum(T \cup {x}) = v + t
            BY <2>5, <2>7, <2>8, <3>1
        <3>3. v + (a + t) = a + (v + t)
            OBVIOUS
        <3> QED
            BY <2>3, <3>1, <3>2, <3>3
    <2> QED
        BY <1>1, <2>1, <2>9
<1>5. B \in G
    BY <1>3, <1>4, SetInduction
<1> QED
    BY <1>1, <1>5

\* The sum of a function is the sum of its values on its domain, whatever function gives
\* them; it is a natural number, 0 where all of them are.
LEMMA SumFunctionFacts ==
    ASSUME NEW S, IsFiniteSet(S), NEW f \in [S -> Nat]
    PROVE  /\ SumFunction(f) \in Nat
           /\ \A g : (\A x \in S : g[x] = f[x]) => SumFunction(f) = SumFunctionOnSet(g, S)
           /\ (\A x \in S : f[x] = 0) => SumFunction(f) = 0
<1>1. SumFunction(f) = SumFunctionOnSet(f, S)
    <2>1. DOMAIN f = S
        OBVIOUS
    <2> QED
        BY <2>1, Zenon DEF SumFunction
<1>2. SumFunctionOnSet(f, S) \in Nat
    BY SumTake
<1>3. ASSUME NEW g, \A x \in S : g[x] = f[x] PROVE SumFunctionOnSet(f, S) = SumFunctionOnSet(g, S)
    BY <1>3, SumSame
<1>4. ASSUME \A x \in S : f[x] = 0 PROVE SumFunctionOnSet(f, S) = 0
    <2>1. PICK G : G = {T \in SUBSET S : SumFunctionOnSet(f, T) = 0}
        OBVIOUS
    <2>2. {} \in G
        BY <2>1, SumStep, FS_EmptySet
    <2>3. ASSUME NEW T \in SUBSET S, NEW x \in S \ T, T \in G PROVE T \cup {x} \in G
        <3>1. IsFiniteSet(T) /\ T \cup {x} \in SUBSET S
            BY FS_Subset
        <3>2. \A y \in T \cup {x} : f[y] \in Nat
            BY <3>1
        <3>3. SumFunctionOnSet(f, T \cup {x}) = f[x] + SumFunctionOnSet(f, T)
            BY <3>1, <3>2, SumOneMore
        <3>4. f[x] = 0 /\ SumFunctionOnSet(f, T) = 0
            BY <1>4, <2>1, <2>3
        <3>5. SumFunctionOnSet(f, T \cup {x}) = 0
            BY <3>3, <3>4
        <3> QED
            BY <2>1, <3>1, <3>5
    <2>4. S \in G
        BY <2>2, <2>3, SetInduction
    <2> QED
        BY <2>1, <2>4
<1> QED
    BY <1>1, <1>2, <1>3, <1>4
=============================================================================
