----------------------------- MODULE DataLemmas -----------------------------
(* Facts about data that the proofs of several components need: induction, *)
(* sums over a finite set, counters that wrap, and lists without           *)
(* repetitions, from which list_del takes the first entry (Tail) or any    *)
(* entry and to which list_add pushes in front.                            *)
EXTENDS Integers, Sequences, FiniteSets, Functions, TLAPS,
        SequenceTheorems, FiniteSetTheorems

-----------------------------------------------------------------------------
(* Induction *)

\* A set of numbers that holds 0, and n + 1 with every n, holds every number:
\* induction, with a set in the place of a predicate.
LEMMA NumberInduction ==
    ASSUME NEW T, 0 \in T, \A n \in Nat : n \in T => n + 1 \in T
    PROVE  Nat \subseteq T
  <1> DEFINE Bad == Nat \ T
             R == OpToRel(<, Nat)
  <1> SUFFICES ASSUME Bad # {} PROVE FALSE
    OBVIOUS
  <1>1. PICK n \in Bad : \A m \in Bad : <<m, n>> \notin R
    <2> HIDE DEF R
    <2>1. IsWellFoundedOn(R, Nat)
      BY NatLessThanWellFounded DEF R
    <2>2. Bad \subseteq Nat /\ Bad # {}
      OBVIOUS
    <2> HIDE DEF Bad
    <2> QED  BY <2>1, <2>2, WFMin
  <1>2. n # 0 /\ n - 1 \in Nat /\ n - 1 < n
    OBVIOUS
  <1>3. n - 1 \in T
    BY <1>1, <1>2 DEF OpToRel
  <1> QED  BY <1>2, <1>3

\* A set of sets that holds {}, and s \cup {x} with every s, holds the finite
\* sets: induction over the subsets of a finite set.
LEMMA SubsetInduction ==
    ASSUME NEW S, IsFiniteSet(S), NEW T, {} \in T,
           \A s \in SUBSET S : \A x \in S \ s : s \in T => s \cup {x} \in T
    PROVE  SUBSET S \subseteq T
  <1> DEFINE N == {n \in Nat : \A s \in SUBSET S : Cardinality(s) = n => s \in T}
  <1>1. \A s \in SUBSET S : IsFiniteSet(s) /\ Cardinality(s) \in Nat
    BY FS_Subset, FS_CardinalityType
  <1>2. 0 \in N
    BY <1>1, FS_EmptySet
  <1>3. ASSUME NEW n \in Nat, n \in N
        PROVE  n + 1 \in N
    <2> SUFFICES ASSUME NEW s \in SUBSET S, Cardinality(s) = n + 1
                 PROVE  s \in T
      BY <1>3
    <2>1. s # {}
      BY FS_EmptySet, <1>1
    <2>2. PICK x \in s : TRUE
      BY <2>1
    <2>3. IsFiniteSet(s) /\ Cardinality(s) = n + 1
      BY <1>1
    <2>4. Cardinality(s \ {x}) = n
      <3>1. Cardinality(s \ {x}) = Cardinality(s) - 1
        BY <2>3, FS_RemoveElement
      <3> QED  BY <3>1, <2>3
    <2>5. s \ {x} \in T /\ x \in S \ (s \ {x}) /\ s \ {x} \in SUBSET S
      BY <2>4, <1>3
    <2>6. s = (s \ {x}) \cup {x}
      OBVIOUS
    <2> QED  BY <2>5, <2>6
  <1>4. Nat \subseteq N
    <2> HIDE DEF N
    <2> QED  BY <1>2, <1>3, NumberInduction
  <1> QED  BY <1>1, <1>4

-----------------------------------------------------------------------------
(* Sums over a finite set *)

\* The next index of the sum over s, and the step of the sum.
Pick(s) == CHOOSE x \in s : TRUE
SumStep(F, D, iter) == [s \in D |-> IF s = {} THEN 0 ELSE F[Pick(s)] + iter[s \ {Pick(s)}]]
SumTable(F, S) == CHOOSE iter : iter = SumStep(F, SUBSET S, iter)

\* The sum looks its result up in the table of the partial sums.
LEMMA SumIsTable ==
    ASSUME NEW F, NEW S
    PROVE  SumFunctionOnSet(F, S) = SumTable(F, S)[S]
  BY DEF SumFunctionOnSet, FoldFunctionOnSet, MapThenFoldSet, SumTable, SumStep, Pick

\* The next index is one of the set.
LEMMA PickFacts ==
    ASSUME NEW s, s # {}
    PROVE  Pick(s) \in s
  BY DEF Pick

\* The table exists.
LEMMA SumTableExists ==
    ASSUME NEW F, NEW S, IsFiniteSet(S)
    PROVE  SumTable(F, S) = SumStep(F, SUBSET S, SumTable(F, S))
  <1> DEFINE D(n) == {s \in SUBSET S : Cardinality(s) <= n}
             N == {n \in Nat : \E g : g = SumStep(F, D(n), g)}
  <1>1. \A s \in SUBSET S : IsFiniteSet(s) /\ Cardinality(s) \in Nat
    BY FS_Subset, FS_CardinalityType
  <1>2. 0 \in N
    <2>1. D(0) = {{}}
      BY <1>1, FS_EmptySet
    <2> DEFINE g == [s \in D(0) |-> 0]
    <2>2. g = SumStep(F, D(0), g)
      BY <2>1 DEF SumStep
    <2> QED  BY <2>2
  <1>3. ASSUME NEW n \in Nat, n \in N
        PROVE  n + 1 \in N
    <2>1. PICK g : g = SumStep(F, D(n), g)
      BY <1>3
    <2> DEFINE h == SumStep(F, D(n + 1), g)
    <2>2. \A s \in D(n) : h[s] = g[s] /\ s \in D(n + 1)
      <3>1. \A s \in D(n) : s \in D(n + 1)
        BY <1>1
      <3> HIDE DEF D
      <3> QED  BY <2>1, <3>1 DEF SumStep
    <2>3. ASSUME NEW s \in D(n + 1), s # {}
          PROVE  s \ {Pick(s)} \in D(n)
      <3>1. Pick(s) \in s /\ IsFiniteSet(s) /\ Cardinality(s) \in Nat
        BY <2>3, <1>1, PickFacts
      <3>2. Cardinality(s \ {Pick(s)}) = Cardinality(s) - 1
        BY <3>1, FS_RemoveElement
      <3> QED  BY <3>1, <3>2
    <2>4. h = SumStep(F, D(n + 1), h)
      <3>1. ASSUME NEW s \in D(n + 1)
            PROVE  (IF s = {} THEN 0 ELSE F[Pick(s)] + g[s \ {Pick(s)}])
                     = (IF s = {} THEN 0 ELSE F[Pick(s)] + h[s \ {Pick(s)}])
        <4> HIDE DEF h, D
        <4> QED  BY <2>2, <2>3
      <3>2. h = [s \in D(n + 1) |-> IF s = {} THEN 0 ELSE F[Pick(s)] + g[s \ {Pick(s)}]]
        BY DEF SumStep
      <3> HIDE DEF h, D
      <3> QED  BY <3>1, <3>2 DEF SumStep
    <2>5. n + 1 \in Nat /\ \E f : f = SumStep(F, D(n + 1), f)
      <3> HIDE DEF h, D
      <3> QED  BY <2>4
    <2> HIDE DEF D, h
    <2> QED  BY <2>5
  <1>4. Nat \subseteq N
    <2> HIDE DEF N
    <2> QED  BY <1>2, <1>3, NumberInduction
  <1>5. Cardinality(S) \in N
    BY <1>1, <1>4
  <1>6. D(Cardinality(S)) = SUBSET S
    BY FS_Subset
  <1>7. \E g : g = SumStep(F, SUBSET S, g)
    BY <1>5, <1>6
  <1> QED  BY <1>7 DEF SumTable

\* What the table of a larger set says of a subset, the table of the subset says.
LEMMA SumTableUnique ==
    ASSUME NEW F, NEW S, IsFiniteSet(S), NEW T \in SUBSET S
    PROVE  SumTable(F, S)[T] = SumTable(F, T)[T]
  <1> DEFINE N == {n \in Nat : \A s \in SUBSET T : Cardinality(s) <= n =>
                                 SumTable(F, S)[s] = SumTable(F, T)[s]}
  <1>1. \A s \in SUBSET T : IsFiniteSet(s) /\ Cardinality(s) \in Nat
    BY FS_Subset, FS_CardinalityType
  <1>2. IsFiniteSet(T)
    BY FS_Subset
  <1>3. \A s \in SUBSET T :
           /\ SumTable(F, S)[s] = IF s = {} THEN 0 ELSE F[Pick(s)] + SumTable(F, S)[s \ {Pick(s)}]
           /\ SumTable(F, T)[s] = IF s = {} THEN 0 ELSE F[Pick(s)] + SumTable(F, T)[s \ {Pick(s)}]
    <2> DEFINE A == SumTable(F, S)
               B == SumTable(F, T)
    <2>1. A = SumStep(F, SUBSET S, A)
      BY SumTableExists
    <2>2. B = SumStep(F, SUBSET T, B)
      BY <1>2, SumTableExists
    <2>3. SUBSET T \subseteq SUBSET S
      OBVIOUS
    <2> HIDE DEF A, B
    <2>4. \A s \in SUBSET T : A[s] = IF s = {} THEN 0 ELSE F[Pick(s)] + A[s \ {Pick(s)}]
      BY <2>1, <2>3 DEF SumStep
    <2>5. \A s \in SUBSET T : B[s] = IF s = {} THEN 0 ELSE F[Pick(s)] + B[s \ {Pick(s)}]
      BY <2>2 DEF SumStep
    <2> QED  BY <2>4, <2>5 DEF A, B
  <1>4. 0 \in N
    BY <1>1, <1>3, FS_EmptySet
  <1>5. ASSUME NEW n \in Nat, n \in N
        PROVE  n + 1 \in N
    <2> SUFFICES ASSUME NEW s \in SUBSET T, Cardinality(s) <= n + 1, s # {}
                 PROVE  SumTable(F, S)[s] = SumTable(F, T)[s]
      BY <1>3
    <2>1. Pick(s) \in s /\ IsFiniteSet(s) /\ Cardinality(s) \in Nat
      BY <1>1, PickFacts
    <2>2. Cardinality(s \ {Pick(s)}) = Cardinality(s) - 1
      BY <2>1, FS_RemoveElement
    <2>3. SumTable(F, S)[s \ {Pick(s)}] = SumTable(F, T)[s \ {Pick(s)}]
      BY <2>1, <2>2, <1>5
    <2> QED  BY <2>3, <1>3
  <1>6. Nat \subseteq N
    <2> HIDE DEF N
    <2> QED  BY <1>4, <1>5, NumberInduction
  <1>7. Cardinality(T) \in N /\ T \in SUBSET T
    BY <1>1, <1>6
  <1> QED  BY <1>7, <1>1

\* A sum takes its terms one by one, in the order of Pick.
LEMMA SumByPick ==
    ASSUME NEW F, NEW S, IsFiniteSet(S)
    PROVE  SumFunctionOnSet(F, S) =
             IF S = {} THEN 0 ELSE F[Pick(S)] + SumFunctionOnSet(F, S \ {Pick(S)})
  <1> DEFINE A == SumTable(F, S)
  <1>1. A = SumStep(F, SUBSET S, A)
    BY SumTableExists
  <1>2. S \in SUBSET S /\ S \ {Pick(S)} \in SUBSET S
    OBVIOUS
  <1>3. A[S \ {Pick(S)}] = SumTable(F, S \ {Pick(S)})[S \ {Pick(S)}]
    BY <1>2, SumTableUnique
  <1>4. A[S] = IF S = {} THEN 0 ELSE F[Pick(S)] + A[S \ {Pick(S)}]
    <2> HIDE DEF A
    <2> QED  BY <1>1, <1>2 DEF SumStep
  <1> QED  BY <1>3, <1>4, SumIsTable

\* Facts about the subsets of a finite set that an induction on their size uses.
LEMMA SubsetSizes ==
    ASSUME NEW S, IsFiniteSet(S)
    PROVE  \A s \in SUBSET S :
             /\ IsFiniteSet(s) /\ Cardinality(s) \in Nat
             /\ Cardinality(s) = 0 <=> s = {}
             /\ \A x \in s : Cardinality(s \ {x}) = Cardinality(s) - 1
  <1> SUFFICES ASSUME NEW s \in SUBSET S
               PROVE  /\ IsFiniteSet(s) /\ Cardinality(s) \in Nat
                      /\ Cardinality(s) = 0 <=> s = {}
                      /\ \A x \in s : Cardinality(s \ {x}) = Cardinality(s) - 1
    OBVIOUS
  <1>1. IsFiniteSet(s)
    BY FS_Subset
  <1>2. Cardinality(s) \in Nat
    BY <1>1, FS_CardinalityType
  <1>3. Cardinality(s) = 0 <=> s = {}
    BY <1>1, FS_EmptySet
  <1>4. \A x \in s : Cardinality(s \ {x}) = Cardinality(s) - 1
    BY <1>1, FS_RemoveElement
  <1> QED  BY <1>1, <1>2, <1>3, <1>4

\* A sum of integers is an integer.
LEMMA SumType ==
    ASSUME NEW F, NEW S, IsFiniteSet(S), \A x \in S : F[x] \in Int
    PROVE  \A s \in SUBSET S : SumFunctionOnSet(F, s) \in Int
  <1> DEFINE Sum(s) == SumFunctionOnSet(F, s)
             N == {n \in Nat : \A s \in SUBSET S : Cardinality(s) = n => Sum(s) \in Int}
  <1>1. \A s \in SUBSET S : Sum(s) = IF s = {} THEN 0 ELSE F[Pick(s)] + Sum(s \ {Pick(s)})
    BY SubsetSizes, SumByPick
  <1>2. 0 \in N
    <2>1. Sum({}) = 0
      BY <1>1
    <2> HIDE DEF Sum
    <2> QED  BY <2>1, SubsetSizes
  <1>3. ASSUME NEW n \in Nat, n \in N
        PROVE  n + 1 \in N
    <2> SUFFICES ASSUME NEW s \in SUBSET S, Cardinality(s) = n + 1
                 PROVE  Sum(s) \in Int
      OBVIOUS
    <2>1. s # {} /\ Pick(s) \in s
      BY SubsetSizes, PickFacts
    <2>2. Cardinality(s \ {Pick(s)}) = Cardinality(s) - 1
      BY <2>1, SubsetSizes
    <2>3. Cardinality(s \ {Pick(s)}) = n /\ s \ {Pick(s)} \in SUBSET S
      BY <2>2
    <2>4. Sum(s \ {Pick(s)}) \in Int
      BY <2>3, <1>3
    <2> HIDE DEF Sum
    <2> QED  BY <2>1, <2>4, <1>1
  <1>4. Nat \subseteq N
    <2> HIDE DEF N
    <2> QED  BY <1>2, <1>3, NumberInduction
  <1> QED  BY <1>4, SubsetSizes

\* Any index may be taken out of a sum of integers first: the order of the terms
\* does not matter.
LEMMA SumTakeOut ==
    ASSUME NEW F, NEW S, IsFiniteSet(S), \A x \in S : F[x] \in Int, NEW x \in S
    PROVE  SumFunctionOnSet(F, S) = F[x] + SumFunctionOnSet(F, S \ {x})
  <1> DEFINE Sum(s) == SumFunctionOnSet(F, s)
             N == {n \in Nat : \A s \in SUBSET S : Cardinality(s) = n =>
                                \A z \in s : Sum(s) = F[z] + Sum(s \ {z})}
  <1>1. \A s \in SUBSET S : Sum(s) = IF s = {} THEN 0 ELSE F[Pick(s)] + Sum(s \ {Pick(s)})
    BY SubsetSizes, SumByPick
  <1>2. \A s \in SUBSET S : Sum(s) \in Int
    BY SumType
  <1>3. 0 \in N
    BY SubsetSizes
  <1>4. ASSUME NEW n \in Nat, n \in N
        PROVE  n + 1 \in N
    <2> SUFFICES ASSUME NEW s \in SUBSET S, Cardinality(s) = n + 1, NEW z \in s
                 PROVE  Sum(s) = F[z] + Sum(s \ {z})
      OBVIOUS
    <2>1. \A r \in SUBSET S : Cardinality(r) = n => \A w \in r : Sum(r) = F[w] + Sum(r \ {w})
      BY <1>4
    <2> DEFINE y == Pick(s)
               r == (s \ {y}) \ {z}
    <2>2. y \in s
      BY PickFacts
    <2>3. Sum(s) = F[y] + Sum(s \ {y})
      BY <1>1, <2>2
    <2> HIDE DEF Sum, y
    <2>4. CASE z = y
      BY <2>3, <2>4
    <2>5. CASE z # y
      <3>1. /\ r = (s \ {z}) \ {y} /\ z \in s \ {y} /\ y \in s \ {z}
            /\ s \ {y} \in SUBSET S /\ s \ {z} \in SUBSET S /\ r \in SUBSET S
        BY <2>5, <2>2
      <3>2. Cardinality(s \ {y}) = n /\ Cardinality(s \ {z}) = n
        <4>1. \A w \in s : Cardinality(s \ {w}) = Cardinality(s) - 1
          BY SubsetSizes
        <4> QED  BY <4>1, <2>2
      <3>3. Sum(s \ {y}) = F[z] + Sum(r)
        BY <3>1, <3>2, <2>1
      <3>4. Sum(s \ {z}) = F[y] + Sum(r)
        BY <3>1, <3>2, <2>1
      <3>5. F[y] \in Int /\ F[z] \in Int /\ Sum(r) \in Int
        BY <2>2, <1>2, <3>1
      <3> QED  BY <2>3, <3>3, <3>4, <3>5
    <2> QED  BY <2>4, <2>5
  <1>5. Nat \subseteq N
    <2> HIDE DEF N
    <2> QED  BY <1>3, <1>4, NumberInduction
  <1>6. Cardinality(S) \in N /\ S \in SUBSET S
    BY <1>5, SubsetSizes
  <1> QED  BY <1>6

\* The sum over a set with one index more.
LEMMA SumAdd ==
    ASSUME NEW F, NEW S, IsFiniteSet(S), NEW x, x \notin S,
           \A y \in S \cup {x} : F[y] \in Int
    PROVE  SumFunctionOnSet(F, S \cup {x}) = F[x] + SumFunctionOnSet(F, S)
  <1>1. IsFiniteSet(S \cup {x}) /\ (S \cup {x}) \ {x} = S
    BY FS_AddElement
  <1> QED  BY <1>1, SumTakeOut

\* Nothing sums up to 0.
LEMMA SumNothing ==
    ASSUME NEW F
    PROVE  SumFunctionOnSet(F, {}) = 0
  BY SumByPick, FS_EmptySet

\* A sum depends on its terms alone.
LEMMA SumSameTerms ==
    ASSUME NEW F, NEW G, NEW S, IsFiniteSet(S), \A x \in S : F[x] \in Int /\ F[x] = G[x]
    PROVE  SumFunctionOnSet(F, S) = SumFunctionOnSet(G, S)
  <1> DEFINE T == {s \in SUBSET S : SumFunctionOnSet(F, s) = SumFunctionOnSet(G, s)}
  <1>1. {} \in T
    BY SumNothing
  <1>2. ASSUME NEW s \in SUBSET S, NEW x \in S \ s, s \in T
        PROVE  s \cup {x} \in T
    <2>1. IsFiniteSet(s)
      BY FS_Subset
    <2>2. SumFunctionOnSet(F, s \cup {x}) = F[x] + SumFunctionOnSet(F, s)
      BY <2>1, SumAdd
    <2>3. SumFunctionOnSet(G, s \cup {x}) = G[x] + SumFunctionOnSet(G, s)
      <3>1. \A y \in s \cup {x} : G[y] \in Int
        OBVIOUS
      <3> QED  BY <2>1, <3>1, SumAdd
    <2>4. F[x] = G[x] /\ SumFunctionOnSet(F, s) = SumFunctionOnSet(G, s)
      BY <1>2
    <2>5. SumFunctionOnSet(F, s \cup {x}) = SumFunctionOnSet(G, s \cup {x})
      BY <2>2, <2>3, <2>4
    <2> QED  BY <2>5
  <1>3. SUBSET S \subseteq T
    <2> HIDE DEF T
    <2> QED  BY <1>1, <1>2, SubsetInduction
  <1> QED  BY <1>3

-----------------------------------------------------------------------------
(* Counters that wrap *)

\* The remainder is determined by its range.
LEMMA QuotientUnique ==
    ASSUME NEW W \in Nat \ {0}, NEW k \in Int, NEW r \in 0 .. W - 1
    PROVE  (k * W + r) % W = r
  OBVIOUS

\* A number is its quotient and its remainder.
LEMMA ModForm ==
    ASSUME NEW W \in Nat \ {0}, NEW a \in Int
    PROVE  /\ a % W \in 0 .. W - 1
           /\ a \div W \in Int
           /\ a = (a \div W) * W + (a % W)
  OBVIOUS

\* A counter that wraps at every step wraps like one that wraps at the end.
LEMMA ModPlus ==
    ASSUME NEW W \in Nat \ {0}, NEW a \in Int, NEW b \in Int
    PROVE  /\ ((a % W) + b) % W = (a + b) % W
           /\ ((a % W) - b) % W = (a - b) % W
  <1> DEFINE q == a \div W
             r == a % W
             c == (r + b) \div W
             s == (r + b) % W
             e == (r - b) \div W
             u == (r - b) % W
  <1>1. q \in Int /\ r \in 0 .. W - 1 /\ a = q * W + r
    BY ModForm
  <1>2. r + b \in Int /\ r - b \in Int
    BY <1>1
  <1>3. c \in Int /\ s \in 0 .. W - 1 /\ r + b = c * W + s
    BY <1>2, ModForm
  <1>4. e \in Int /\ u \in 0 .. W - 1 /\ r - b = e * W + u
    BY <1>2, ModForm
  <1>5. s = (a + b) % W
    <2> HIDE DEF q, r, c, s
    <2>1. a + b = q * W + c * W + s
      BY <1>1, <1>3
    <2>2. q * W + c * W = (q + c) * W
      BY <1>1, <1>3
    <2>3. ((q + c) * W + s) % W = s
      BY <1>1, <1>3, QuotientUnique
    <2> QED  BY <2>1, <2>2, <2>3
  <1>6. u = (a - b) % W
    <2> HIDE DEF q, r, e, u
    <2>1. a - b = q * W + e * W + u
      BY <1>1, <1>4
    <2>2. q * W + e * W = (q + e) * W
      BY <1>1, <1>4
    <2>3. ((q + e) * W + u) % W = u
      BY <1>1, <1>4, QuotientUnique
    <2> QED  BY <2>1, <2>2, <2>3
  <1> QED  BY <1>5, <1>6

-----------------------------------------------------------------------------
(* Lists *)

\* The first entry of a list is one of its entries.
LEMMA HeadInRange ==
    ASSUME NEW S, NEW s \in Seq(S), s # <<>>
    PROVE  /\ Head(s) \in S /\ Head(s) \in Range(s)
           /\ Len(s) \in Nat \ {0}
  <1>1. Len(s) \in Nat /\ DOMAIN s = 1 .. Len(s) /\ Len(s) # 0
    BY LenProperties, EmptySeq
  <1>2. Head(s) = s[1] /\ 1 \in DOMAIN s
    BY <1>1
  <1> QED  BY <1>1, <1>2, HeadTailProperties DEF Range

\* Removing the first entry removes that entry and nothing else.
LEMMA PopFacts ==
    ASSUME NEW S, NEW s \in Seq(S), s # <<>>, IsInjective(s)
    PROVE  /\ Tail(s) \in Seq(S)
           /\ Len(Tail(s)) = Len(s) - 1
           /\ IsInjective(Tail(s))
           /\ Range(Tail(s)) = Range(s) \ {Head(s)}
  <1>1. /\ Len(s) \in Nat \ {0} /\ DOMAIN s = 1 .. Len(s) /\ Head(s) = s[1]
    BY LenProperties, HeadInRange
  <1>2. /\ Tail(s) \in Seq(S) /\ Len(Tail(s)) = Len(s) - 1
        /\ \A j \in 1 .. Len(Tail(s)) : Tail(s)[j] = s[j + 1]
        /\ DOMAIN Tail(s) = 1 .. Len(Tail(s))
    BY HeadTailProperties, LenProperties
  <1>3. IsInjective(Tail(s))
    BY <1>1, <1>2 DEF IsInjective
  <1>4. ASSUME NEW x \in Range(s), x # Head(s)
        PROVE  x \in Range(Tail(s))
    <2>1. PICK j \in 1 .. Len(s) : x = s[j]
      BY <1>1 DEF Range
    <2>2. j - 1 \in 1 .. Len(Tail(s)) /\ Tail(s)[j - 1] = x
      BY <2>1, <1>1, <1>2, <1>4
    <2> QED  BY <2>2, <1>2 DEF Range
  <1>5. ASSUME NEW x \in Range(Tail(s))
        PROVE  x \in Range(s) /\ x # Head(s)
    <2>1. PICK j \in 1 .. Len(Tail(s)) : x = s[j + 1]
      BY <1>2 DEF Range
    <2>2. j + 1 \in 1 .. Len(s) /\ j + 1 # 1
      BY <1>1, <1>2
    <2> QED  BY <2>1, <2>2, <1>1 DEF Range, IsInjective
  <1> QED  BY <1>2, <1>3, <1>4, <1>5

\* Removing the first entry, of any list.
LEMMA HeadTailRange ==
    ASSUME NEW S, NEW s \in Seq(S), s # <<>>
    PROVE  /\ Head(s) \in S /\ Head(s) \in Range(s)
           /\ Tail(s) \in Seq(S)
           /\ Range(s) = {Head(s)} \cup Range(Tail(s))
  <1>1. /\ Len(s) \in Nat \ {0} /\ DOMAIN s = 1 .. Len(s) /\ Head(s) = s[1]
        /\ Head(s) \in S /\ Head(s) \in Range(s)
    BY LenProperties, HeadInRange
  <1>2. /\ Tail(s) \in Seq(S) /\ Len(Tail(s)) = Len(s) - 1
        /\ \A j \in 1 .. Len(Tail(s)) : Tail(s)[j] = s[j + 1]
        /\ DOMAIN Tail(s) = 1 .. Len(Tail(s))
    BY HeadTailProperties, LenProperties
  <1>3. ASSUME NEW x \in Range(s), x # Head(s) PROVE x \in Range(Tail(s))
    <2>1. PICK j \in 1 .. Len(s) : x = s[j]
      BY <1>1 DEF Range
    <2>2. j - 1 \in 1 .. Len(Tail(s)) /\ Tail(s)[j - 1] = x
      BY <2>1, <1>1, <1>2, <1>3
    <2> QED  BY <2>2, <1>2 DEF Range
  <1>4. ASSUME NEW x \in Range(Tail(s)) PROVE x \in Range(s)
    <2>1. PICK j \in 1 .. Len(Tail(s)) : x = s[j + 1]
      BY <1>2 DEF Range
    <2>2. j + 1 \in 1 .. Len(s)
      BY <1>1, <1>2
    <2> QED  BY <2>1, <2>2, <1>1 DEF Range
  <1> QED  BY <1>1, <1>2, <1>3, <1>4

\* Pushing an entry adds that entry and nothing else.
LEMMA PushFacts ==
    ASSUME NEW S, NEW s \in Seq(S), NEW x \in S
    PROVE  /\ <<x>> \o s \in Seq(S)
           /\ Len(<<x>> \o s) = Len(s) + 1
           /\ Range(<<x>> \o s) = {x} \cup Range(s)
           /\ IsInjective(s) /\ x \notin Range(s) => IsInjective(<<x>> \o s)
  <1> DEFINE p == <<x>> \o s
  <1>0. <<x>> \in Seq(S) /\ Len(<<x>>) = 1 /\ <<x>>[1] = x
    OBVIOUS
  <1>1. /\ p \in Seq(S) /\ Len(p) = Len(s) + 1
        /\ Len(s) \in Nat /\ DOMAIN s = 1 .. Len(s) /\ DOMAIN p = 1 .. Len(p)
    BY <1>0, ConcatProperties, LenProperties
  <1>2. /\ \A j \in 1 .. 1 + Len(s) : p[j] = IF j <= 1 THEN <<x>>[j] ELSE s[j - 1]
    BY <1>0, ConcatProperties
  <1>3. p[1] = x /\ \A j \in 1 .. Len(s) : p[j + 1] = s[j]
    BY <1>0, <1>1, <1>2
  <1>4. Range(p) = {x} \cup Range(s)
    <2>1. ASSUME NEW y \in Range(p) PROVE y \in {x} \cup Range(s)
      <3>1. PICK j \in 1 .. Len(s) + 1 : y = p[j]
        BY <1>1 DEF Range
      <3>2. CASE j = 1
        BY <3>1, <3>2, <1>3
      <3>3. CASE j # 1
        BY <3>1, <3>3, <1>1, <1>2 DEF Range
      <3> QED  BY <3>2, <3>3
    <2>2. x \in Range(p)
      BY <1>1, <1>3 DEF Range
    <2>3. ASSUME NEW y \in Range(s) PROVE y \in Range(p)
      <3>1. PICK j \in 1 .. Len(s) : y = s[j]
        BY <1>1 DEF Range
      <3>2. j + 1 \in DOMAIN p
        BY <1>1
      <3> QED  BY <3>1, <3>2, <1>3 DEF Range
    <2> QED  BY <2>1, <2>2, <2>3
  <1>5. ASSUME IsInjective(s), x \notin Range(s) PROVE IsInjective(p)
    <2> SUFFICES ASSUME NEW a \in 1 .. Len(s) + 1, NEW b \in 1 .. Len(s) + 1, p[a] = p[b]
                 PROVE  a = b
      BY <1>1 DEF IsInjective
    <2>1. \A j \in 1 .. Len(s) : s[j] # x
      BY <1>1, <1>5 DEF Range
    <2>2. CASE a = 1 \/ b = 1
      BY <2>1, <2>2, <1>1, <1>2, <1>3
    <2>3. CASE a # 1 /\ b # 1
      <3>1. a - 1 \in DOMAIN s /\ b - 1 \in DOMAIN s /\ s[a - 1] = s[b - 1]
        BY <2>3, <1>1, <1>2
      <3> QED  BY <3>1, <1>5 DEF IsInjective
    <2> QED  BY <2>2, <2>3
  <1> QED  BY <1>1, <1>4, <1>5

\* list_del of the i-th entry removes that entry and nothing else, and keeps the
\* others in order: those before it stay where they are, those after move up.
LEMMA DelFacts ==
    ASSUME NEW S, NEW s \in Seq(S), NEW i \in DOMAIN s
    PROVE  LET d == SubSeq(s, 1, i - 1) \o SubSeq(s, i + 1, Len(s))
           IN  /\ d \in Seq(S) /\ Len(d) = Len(s) - 1
               /\ \A j \in 1 .. Len(s) - 1 : d[j] = IF j < i THEN s[j] ELSE s[j + 1]
               /\ IsInjective(s) => IsInjective(d) /\ Range(d) = Range(s) \ {s[i]}
  <1> DEFINE p == SubSeq(s, 1, i - 1)
             q == SubSeq(s, i + 1, Len(s))
             d == p \o q
  <1>1. Len(s) \in Nat /\ DOMAIN s = 1 .. Len(s) /\ i \in 1 .. Len(s)
    BY LenProperties
  <1>2. /\ p \in Seq(S) /\ Len(p) = i - 1
        /\ \A j \in 1 .. i - 1 : p[j] = s[j]
    <2>1. \A j \in 1 .. i - 1 : s[j] \in S
      BY <1>1
    <2>2. i - 1 \in Int /\ 1 \in Int /\ (i - 1) - 1 + 1 = i - 1
      BY <1>1
    <2>3. /\ p \in Seq(S) /\ Len(p) = IF 1 <= i - 1 THEN (i - 1) - 1 + 1 ELSE 0
          /\ \A j \in 1 .. (i - 1) - 1 + 1 : p[j] = s[1 + j - 1]
      BY <2>1, <2>2, SubSeqProperties, Z3
    <2>4. \A j \in 1 .. i - 1 : 1 + j - 1 = j
      BY <1>1
    <2> HIDE DEF p
    <2> QED  BY <2>2, <2>3, <2>4, <1>1
  <1>3. /\ q \in Seq(S) /\ Len(q) = Len(s) - i
        /\ \A j \in 1 .. Len(s) - i : q[j] = s[i + j]
    <2>1. \A j \in i + 1 .. Len(s) : s[j] \in S
      BY <1>1
    <2>2. i + 1 \in Int /\ Len(s) \in Int
      BY <1>1
    <2>3. /\ q \in Seq(S) /\ Len(q) = IF i + 1 <= Len(s) THEN Len(s) - (i + 1) + 1 ELSE 0
          /\ \A j \in 1 .. Len(s) - (i + 1) + 1 : q[j] = s[(i + 1) + j - 1]
      BY <2>1, <2>2, SubSeqProperties, Z3
    <2>4. Len(s) - (i + 1) + 1 = Len(s) - i /\ (~(i + 1 <= Len(s)) => Len(s) - i = 0)
      BY <1>1
    <2>5. \A j \in 1 .. Len(s) - i : (i + 1) + j - 1 = i + j
      BY <1>1
    <2> HIDE DEF q
    <2> QED  BY <2>3, <2>4, <2>5
  <1> HIDE DEF p, q
  <1>4. /\ d \in Seq(S) /\ Len(d) = Len(s) - 1 /\ DOMAIN d = 1 .. Len(s) - 1
        /\ \A j \in 1 .. Len(s) - 1 : d[j] = IF j <= i - 1 THEN p[j] ELSE q[j - (i - 1)]
    <2>1. /\ d \in Seq(S) /\ Len(d) = Len(p) + Len(q)
          /\ \A j \in 1 .. Len(p) + Len(q) : d[j] = IF j <= Len(p) THEN p[j] ELSE q[j - Len(p)]
      BY <1>2, <1>3, ConcatProperties
    <2>2. Len(p) + Len(q) = Len(s) - 1
      BY <1>1, <1>2, <1>3
    <2> HIDE DEF d
    <2>3. Len(p) = i - 1 /\ DOMAIN d = 1 .. Len(d)
      BY <1>2, <2>1, LenProperties
    <2> QED  BY <2>1, <2>2, <2>3
  <1> HIDE DEF d
  <1>5. ASSUME NEW j \in 1 .. Len(s) - 1
        PROVE  d[j] = IF j < i THEN s[j] ELSE s[j + 1]
    <2>1. CASE j < i
      <3>1. j \in 1 .. i - 1 /\ j <= i - 1
        BY <2>1, <1>1
      <3> QED  BY <3>1, <2>1, <1>2, <1>4
    <2>2. CASE j >= i
      <3>1. j - (i - 1) \in 1 .. Len(s) - i /\ i + (j - (i - 1)) = j + 1
        BY <2>2, <1>1
      <3>2. ~(j <= i - 1) /\ ~(j < i)
        BY <2>2, <1>1
      <3> QED  BY <3>1, <3>2, <1>3, <1>4
    <2> QED  BY <2>1, <2>2, <1>1
  <1>6. ASSUME IsInjective(s) PROVE IsInjective(d) /\ Range(d) = Range(s) \ {s[i]}
    <2>1. IsInjective(d)
      <3> DEFINE at(j) == IF j < i THEN j ELSE j + 1
      <3>1. \A j \in 1 .. Len(s) - 1 : at(j) \in 1 .. Len(s) /\ d[j] = s[at(j)]
        BY <1>1, <1>5
      <3>2. \A j, l \in 1 .. Len(s) - 1 : at(j) = at(l) => j = l
        BY <1>1
      <3> HIDE DEF at
      <3>3. \A j, l \in 1 .. Len(s) : s[j] = s[l] => j = l
        BY <1>1, <1>6 DEF IsInjective
      <3>4. \A j, l \in 1 .. Len(s) - 1 : d[j] = d[l] => j = l
        BY <3>1, <3>2, <3>3
      <3> QED  BY <3>4, <1>4 DEF IsInjective
    <2>2. ASSUME NEW y \in Range(d) PROVE y \in Range(s) /\ y # s[i]
      <3>1. PICK j \in 1 .. Len(s) - 1 : y = d[j]
        BY <1>4 DEF Range
      <3>2. PICK n \in 1 .. Len(s) : n # i /\ y = s[n]
        <4>1. CASE j < i
          BY <4>1, <3>1, <1>1, <1>5
        <4>2. CASE ~(j < i)
          <5>1. j + 1 \in 1 .. Len(s) /\ j + 1 # i
            BY <4>2, <1>1
          <5> QED  BY <5>1, <4>2, <3>1, <1>5
        <4> QED  BY <4>1, <4>2
      <3> QED  BY <3>2, <1>1, <1>6 DEF Range, IsInjective
    <2>3. ASSUME NEW y \in Range(s), y # s[i] PROVE y \in Range(d)
      <3>1. PICK n \in 1 .. Len(s) : n # i /\ y = s[n]
        BY <2>3, <1>1 DEF Range
      <3>2. PICK j \in 1 .. Len(s) - 1 : y = d[j]
        <4>1. CASE n < i
          BY <4>1, <3>1, <1>1, <1>5
        <4>2. CASE n > i
          <5>1. n - 1 \in 1 .. Len(s) - 1 /\ n - 1 >= i /\ (n - 1) + 1 = n
            BY <4>2, <1>1
          <5>2. d[n - 1] = s[n]
            BY <5>1, <1>1, <1>5
          <5> QED  BY <5>1, <5>2, <3>1
        <4> QED  BY <4>1, <4>2, <3>1, <1>1
      <3> QED  BY <3>2, <1>4 DEF Range
    <2> QED  BY <2>1, <2>2, <2>3
  <1>7. d \in Seq(S) /\ Len(d) = Len(s) - 1
    BY <1>4
  <1> QED  BY <1>5, <1>6, <1>7 DEF d, p, q

\* A list without repetitions whose entries come from m is no longer than m.
LEMMA LenBound ==
    ASSUME NEW S, NEW s \in Seq(S), IsInjective(s),
           NEW T, IsFiniteSet(T), Range(s) \subseteq T
    PROVE  /\ Len(s) <= Cardinality(T)
           /\ Cardinality(T) \in Nat
           /\ Range(s) = T <=> Len(s) = Cardinality(T)
  <1>1. Len(s) \in Nat /\ DOMAIN s = 1 .. Len(s) /\ s \in [1 .. Len(s) -> S]
    BY LenProperties
  <1>2. s \in [1 .. Len(s) -> T]
    BY <1>1 DEF Range
  <1>3. s \in Injection(1 .. Len(s), T)
    BY <1>1, <1>2 DEF Injection, IsInjective
  <1>4. Cardinality(1 .. Len(s)) = Len(s)
    BY <1>1, FS_Interval
  <1>5. /\ Len(s) <= Cardinality(T)
        /\ Len(s) = Cardinality(T) <=> s \in Surjection(1 .. Len(s), T)
    BY <1>3, <1>4, FS_Injection
  <1>6. s \in Surjection(1 .. Len(s), T) <=> Range(s) = T
    BY <1>1, <1>2 DEF Surjection, Range
  <1> QED  BY <1>5, <1>6, FS_CardinalityType

=============================================================================
