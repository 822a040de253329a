-------------------------- MODULE SynthChains_proofs --------------------------
(* Proofs about the workload generator synth.c, for any tables of phases,  *)
(* threads, chains and sizes.                                              *)
EXTENDS SynthChains, DataLemmas

-----------------------------------------------------------------------------
(* The inductive invariant                                                 *)

\* The chains of a phase exist from the first Configure to the last Free.
InPhase == pc \in {"config", "alloc", "prepare", "create", "join", "free"}

\* How many accesses of a chain are configured: all of them when the phase is.
Filled(t) ==
    IF pc # "config" \/ t < thread THEN Length(t) ELSE IF t = thread THEN acc ELSE 0

\* The accesses configured so far, and nothing else, are there.
ChainInv ==
    /\ DOMAIN chain = IF InPhase THEN {t \in Threads(phase) : Filled(t) > 0} ELSE {}
    /\ \A t \in DOMAIN chain : DOMAIN chain[t] = 0 .. Filled(t) - 1

\* Only config has accelerators to walk through, buffers are handed out after it,
\* freed from the first thread on, and threads run when all is prepared.
PlaceInv ==
    /\ pc # "config" => acc = 0
    /\ pc = "config" \/ ~InPhase => mem = {} /\ DOMAIN params = {}
    /\ pc = "free" => mem \subseteq thread .. LastThread(phase)
    /\ pc \notin {"create", "join", "free"} => DOMAIN at = {}

\* An access is of the accelerator in the table, and writes no more than it reads.
DescInv ==
    \A t \in DOMAIN chain : \A a \in DOMAIN chain[t] :
        /\ chain[t][a].devid = DevId[phase][t][a]
        /\ chain[t][a].out_size <= chain[t][a].in_size

\* The inductive invariant: the sizes fit because a chain is configured from its
\* first access on, and the largest buffer is known when the first is asked for.
IInv == TypeOK /\ ChainInv /\ PlaceInv /\ DescInv /\ RegionFits /\ LargestNear

-----------------------------------------------------------------------------
(* The loops of alloc_phase                                                *)

\* The step of FoldLeft in FirstMost: the best of the places s of a list u, from
\* the best of all but the last.
Best(m, u, s, iter) ==
    IF s = {} THEN 0
    ELSE IF m[u[Max(s)]] > m[iter[s \ {Max(s)}]] THEN u[Max(s)] ELSE iter[s \ {Max(s)}]

\* The table of the best places of every part of the list.
BestStep(m, u, D, iter) == [s \in D |-> Best(m, u, s, iter)]
BestTable(m, u, S) == CHOOSE iter : iter = BestStep(m, u, SUBSET S, iter)

\* The fold looks its result up in the table.
LEMMA FirstMostIsTable ==
    ASSUME NEW m, NEW n \in Nat, Cardinality(DOMAIN m) = n
    PROVE  FirstMost(m) = BestTable(m, Upto(n), 1 .. n)[1 .. n]
  <1> DEFINE u == Upto(n)
  <1>1. DOMAIN u = 1 .. n
    BY DEF Upto
  <1>2. FirstMost(m) =
          FoldLeft(LAMBDA best, i : IF m[i] > m[best] THEN i ELSE best, 0, u)
    BY DEF FirstMost
  <1> HIDE DEF u
  <1>3. FirstMost(m) = BestTable(m, u, DOMAIN u)[DOMAIN u]
    BY <1>2 DEF FoldLeft, MapThenFoldSet, BestTable, BestStep, Best
  <1> QED  BY <1>1, <1>3 DEF u

\* The greatest of a finite set of numbers is one of them.
LEMMA MaxFacts ==
    ASSUME NEW n \in Nat, NEW s \in SUBSET (1 .. n), s # {}
    PROVE  Max(s) \in s
  <1> DEFINE T == {j \in Nat : j <= n => \A r \in SUBSET (1 .. j) :
                                 r # {} => \E x \in r : \A y \in r : x >= y}
  <1>1. 0 \in T
    <2>1. 1 .. 0 = {}
      OBVIOUS
    <2> QED  BY <2>1
  <1>2. ASSUME NEW j \in Nat, j \in T PROVE j + 1 \in T
    <2> SUFFICES ASSUME j + 1 <= n, NEW r \in SUBSET (1 .. j + 1), r # {}
                 PROVE  \E x \in r : \A y \in r : x >= y
      OBVIOUS
    <2>1. CASE j + 1 \in r
      <3>1. \A y \in r : j + 1 >= y
        OBVIOUS
      <3> QED  BY <2>1, <3>1
    <2>2. CASE j + 1 \notin r
      <3>1. r \in SUBSET (1 .. j) /\ j <= n
        BY <2>2
      <3> QED  BY <1>2, <3>1
    <2> QED  BY <2>1, <2>2
  <1>3. n \in T
    <2> HIDE DEF T
    <2> QED  BY <1>1, <1>2, NumberInduction
  <1>4. \E x \in s : \A y \in s : x >= y
    BY <1>3
  <1> QED  BY <1>4 DEF Max

\* The table exists.
LEMMA BestTableExists ==
    ASSUME NEW m, NEW n \in Nat, NEW u
    PROVE  BestTable(m, u, 1 .. n) = BestStep(m, u, SUBSET (1 .. n), BestTable(m, u, 1 .. n))
  <1> DEFINE S == 1 .. n
             D(j) == {s \in SUBSET S : Cardinality(s) <= j}
             N == {j \in Nat : \E g : g = BestStep(m, u, D(j), g)}
  <1>1. /\ IsFiniteSet(S) /\ Cardinality(S) \in Nat
        /\ \A s \in SUBSET S : IsFiniteSet(s) /\ Cardinality(s) \in Nat
    <2>1. IsFiniteSet(S)
      BY FS_Interval
    <2> HIDE DEF S
    <2> QED  BY <2>1, FS_Subset, FS_CardinalityType
  <1>2. \A s \in SUBSET S : s # {} => Max(s) \in s
    BY MaxFacts
  <1> HIDE DEF S
  <1>3. 0 \in N
    <2>1. D(0) = {{}}
      BY <1>1, FS_EmptySet
    <2> DEFINE g == [s \in D(0) |-> 0]
    <2>2. g = BestStep(m, u, D(0), g)
      BY <2>1 DEF BestStep, Best
    <2> QED  BY <2>2
  <1>4. ASSUME NEW j \in Nat, j \in N
        PROVE  j + 1 \in N
    <2>1. PICK g : g = BestStep(m, u, D(j), g)
      BY <1>4
    <2> DEFINE h == BestStep(m, u, D(j + 1), g)
    <2>2. \A s \in D(j) : h[s] = g[s] /\ s \in D(j + 1)
      <3>1. \A s \in D(j) : s \in D(j + 1)
        BY <1>1
      <3> HIDE DEF D
      <3> QED  BY <2>1, <3>1 DEF BestStep
    <2>3. ASSUME NEW s \in D(j + 1), s # {}
          PROVE  s \ {Max(s)} \in D(j)
      <3>1. Max(s) \in s /\ IsFiniteSet(s) /\ Cardinality(s) \in Nat
        BY <2>3, <1>1, <1>2
      <3>2. Cardinality(s \ {Max(s)}) = Cardinality(s) - 1
        BY <3>1, FS_RemoveElement
      <3> QED  BY <3>1, <3>2
    <2>4. h = BestStep(m, u, D(j + 1), h)
      <3>1. ASSUME NEW s \in D(j + 1)
            PROVE  Best(m, u, s, g) = Best(m, u, s, h)
        <4> HIDE DEF h, D
        <4>1. s # {} => h[s \ {Max(s)}] = g[s \ {Max(s)}]
          BY <2>2, <2>3
        <4> QED  BY <4>1 DEF Best
      <3>2. h = [s \in D(j + 1) |-> Best(m, u, s, g)]
        BY DEF BestStep
      <3> HIDE DEF h, D
      <3> QED  BY <3>1, <3>2 DEF BestStep
    <2>5. j + 1 \in Nat /\ \E f : f = BestStep(m, u, D(j + 1), f)
      <3> HIDE DEF h, D
      <3> QED  BY <2>4
    <2> HIDE DEF D, h
    <2> QED  BY <2>5
  <1>5. Nat \subseteq N
    <2> HIDE DEF N
    <2> QED  BY <1>3, <1>4, NumberInduction
  <1>6. Cardinality(S) \in N
    BY <1>1, <1>5
  <1>7. D(Cardinality(S)) = SUBSET S
    BY <1>1, FS_Subset
  <1>8. \E g : g = BestStep(m, u, SUBSET S, g)
    BY <1>6, <1>7
  <1> QED  BY <1>8 DEF BestTable, S

\* The loop finds an index, and none has more.
LEMMA FirstMostFacts ==
    ASSUME NEW n \in Nat \ {0}, NEW m, DOMAIN m = 0 .. n - 1,
           \A i \in 0 .. n - 1 : m[i] \in Int
    PROVE  /\ FirstMost(m) \in 0 .. n - 1
           /\ \A i \in 0 .. n - 1 : m[i] <= m[FirstMost(m)]
  <1> DEFINE u == Upto(n)
             T == BestTable(m, u, 1 .. n)
             A(j) == T[1 .. j]
             N == {j \in Nat : j <= n =>
                     /\ A(j) \in 0 .. n - 1
                     /\ \A i \in 0 .. j - 1 : m[i] <= m[A(j)]}
  <1>1. Cardinality(DOMAIN m) = n
    <2>1. Cardinality(0 .. n - 1) = (n - 1) - 0 + 1
      BY FS_Interval
    <2> QED  BY <2>1
  <1>2. FirstMost(m) = A(n)
    BY <1>1, FirstMostIsTable
  <1>3. \A s \in SUBSET (1 .. n) : T[s] = Best(m, u, s, T)
    <2>1. T = BestStep(m, u, SUBSET (1 .. n), T)
      BY BestTableExists
    <2> HIDE DEF T, u
    <2> QED  BY <2>1 DEF BestStep
  <1> HIDE DEF T
  <1>4. 0 \in N
    <2>1. 1 .. 0 = {} /\ {} \in SUBSET (1 .. n)
      OBVIOUS
    <2>2. A(0) = 0
      BY <2>1, <1>3 DEF Best
    <2> HIDE DEF A
    <2> QED  BY <2>2
  <1>5. ASSUME NEW j \in Nat, j \in N PROVE j + 1 \in N
    <2> SUFFICES ASSUME j + 1 <= n
                 PROVE  /\ A(j + 1) \in 0 .. n - 1
                        /\ \A i \in 0 .. j : m[i] <= m[A(j + 1)]
      OBVIOUS
    <2>1. /\ A(j) \in 0 .. n - 1
          /\ \A i \in 0 .. j - 1 : m[i] <= m[A(j)]
      BY <1>5
    <2> DEFINE s == 1 .. j + 1
    <2>2. Max(s) = j + 1
      <3>1. j + 1 \in s /\ \A y \in s : y \in Nat /\ j + 1 >= y
        OBVIOUS
      <3> HIDE DEF s
      <3>2. \A x \in s : (\A y \in s : x >= y) => x = j + 1
        BY <3>1
      <3> QED  BY <3>1, <3>2 DEF Max
    <2>3. s \ {j + 1} = 1 .. j /\ s # {} /\ s \in SUBSET (1 .. n)
      <3>1. s = (1 .. j) \cup {j + 1} /\ j + 1 \notin 1 .. j
        OBVIOUS
      <3>2. 1 .. j \subseteq 1 .. n /\ j + 1 \in 1 .. n
        OBVIOUS
      <3> HIDE DEF s
      <3> QED  BY <3>1, <3>2
    <2>4. u[j + 1] = j
      BY DEF Upto
    <2>5. A(j + 1) = IF m[j] > m[A(j)] THEN j ELSE A(j)
      <3>1. T[s] = Best(m, u, s, T)
        BY <1>3, <2>3
      <3> HIDE DEF s, u
      <3>2. T[s] = IF m[j] > m[T[1 .. j]] THEN j ELSE T[1 .. j]
        BY <3>1, <2>2, <2>3, <2>4 DEF Best
      <3> QED  BY <3>2 DEF s
    <2>6. j \in 0 .. n - 1 /\ m[j] \in Int /\ \A i \in 0 .. n - 1 : m[i] \in Int
      OBVIOUS
    <2> HIDE DEF A, s
    <2>7. A(j + 1) \in 0 .. n - 1
      BY <2>1, <2>5, <2>6
    <2>8. ASSUME NEW i \in 0 .. j PROVE m[i] <= m[A(j + 1)]
      <3>1. CASE i = j
        BY <3>1, <2>1, <2>5, <2>6
      <3>2. CASE i # j
        <4>1. i \in 0 .. j - 1 /\ i \in 0 .. n - 1
          BY <3>2, <2>6
        <4> QED  BY <4>1, <2>1, <2>5, <2>6
      <3> QED  BY <3>1, <3>2
    <2> QED  BY <2>7, <2>8
  <1>6. n \in N
    <2> HIDE DEF N
    <2> QED  BY <1>4, <1>5, NumberInduction
  <1> HIDE DEF A
  <1> QED  BY <1>2, <1>6

-----------------------------------------------------------------------------
(* Tables and sizes                                                        *)

\* The tables of the phase that main is in.
LEMMA PhaseFacts ==
    ASSUME SynthAssumption, TypeOK
    PROVE  /\ NThreads[phase] \in Nat \ {0} /\ Threads(phase) = 0 .. NThreads[phase] - 1
           /\ LastThread(phase) = NThreads[phase] - 1
           /\ thread \in Threads(phase)
           /\ \A t \in Threads(phase) :
                /\ NDev[phase][t] \in Nat \ {0} /\ FirstSize[phase][t] \in Nat
                /\ DevId[phase][t] \in [Positions(phase, t) -> Accelerators]
                /\ Positions(phase, t) = 0 .. NDev[phase][t] - 1
           /\ Cfg[phase] \in [Accelerators ->
                [access : Nat \ {0}, ratio : Nat \ {0}, in_place : BOOLEAN]]
  <1>1. phase \in PhaseIds /\ thread \in Threads(phase)
    BY DEF TypeOK
  <1>2. NThreads[phase] \in Nat \ {0}
    BY <1>1 DEF SynthAssumption
  <1>3. \A t \in Threads(phase) :
                /\ NDev[phase][t] \in Nat \ {0} /\ FirstSize[phase][t] \in Nat
                /\ DevId[phase][t] \in [Positions(phase, t) -> Accelerators]
    BY <1>1 DEF SynthAssumption
  <1>4. Cfg[phase] \in [Accelerators ->
                [access : Nat \ {0}, ratio : Nat \ {0}, in_place : BOOLEAN]]
    BY <1>1 DEF SynthAssumption
  <1> QED  BY <1>1, <1>2, <1>3, <1>4 DEF Threads, LastThread, Positions

\* A loop over the threads goes on, or is done.
LEMMA NextThreadFacts ==
    ASSUME SynthAssumption, TypeOK, NEW label, NextThread(label)
    PROVE  /\ thread' \in Threads(phase)
           /\ \/ thread < LastThread(phase) /\ thread' = thread + 1 /\ pc' = pc
              \/ thread = LastThread(phase) /\ thread' = 0 /\ pc' = label
  BY PhaseFacts DEF NextThread

\* A quotient is no more than what is divided.
LEMMA QuotientDown ==
    ASSUME NEW a \in Nat, NEW b \in Nat \ {0}
    PROVE  a \div b \in Nat /\ a \div b <= a
  <1> DEFINE q == a \div b
             r == a % b
  <1>1. q \in Int /\ r \in 0 .. b - 1 /\ a = q * b + r
    BY ModForm
  <1> HIDE DEF q, r
  <1>2. ASSUME q < 0 PROVE FALSE
    <2>1. q * b <= -b
      BY <1>1, <1>2
    <2> QED  BY <1>1, <2>1
  <1>3. q \in Nat
    BY <1>1, <1>2
  <1>4. q * b >= q
    BY <1>3
  <1>5. q <= a
    BY <1>1, <1>3, <1>4
  <1> QED  BY <1>3, <1>5 DEF q

\* An accelerator writes no more than it reads.
LEMMA OutSizeFacts ==
    ASSUME NEW c \in [access : Nat \ {0}, ratio : Nat \ {0}, in_place : BOOLEAN], NEW in \in Nat
    PROVE  /\ in \div c.access \in Nat
           /\ OutSize(in, c) \in Nat /\ OutSize(in, c) <= in
  <1>1. c.access \in Nat \ {0} /\ c.ratio \in Nat \ {0}
    OBVIOUS
  <1> DEFINE q == in \div c.access
  <1>2. q \in Nat /\ q <= in
    BY <1>1, QuotientDown
  <1>3. OutSize(in, c) = q \div c.ratio
    BY DEF OutSize
  <1> HIDE DEF q
  <1>4. q \div c.ratio \in Nat /\ q \div c.ratio <= q
    BY <1>1, <1>2, QuotientDown
  <1>5. q \div c.ratio <= in
    BY <1>2, <1>4
  <1> QED  BY <1>2, <1>3, <1>4, <1>5 DEF q

\* The costs are numbers.
LEMMA CostType ==
    ASSUME SynthAssumption, TypeOK, NEW t \in DOMAIN chain, NEW n \in Nodes
    PROVE  Cost(t, n) \in Int
  <1> DEFINE F == [a \in DOMAIN chain[t] |-> Hops[chain[t][a].devid][n]]
             S == DOMAIN chain[t]
  <1>1. IsFiniteSet(S)
    <2>1. S \subseteq 0 .. NDev[phase][t] - 1 /\ NDev[phase][t] \in Nat \ {0}
      BY PhaseFacts DEF TypeOK
    <2>2. IsFiniteSet(0 .. NDev[phase][t] - 1)
      <3>1. NDev[phase][t] - 1 \in Int
        BY <2>1
      <3> QED  BY <3>1, FS_Interval
    <2> QED  BY <2>1, <2>2, FS_Subset
  <1>2. \A x \in S : F[x] \in Int
    <2>1. \A x \in S : chain[t][x].devid \in Accelerators
      BY DEF TypeOK, Desc
    <2>2. \A d \in Accelerators : Hops[d][n] \in Nat
      BY DEF SynthAssumption
    <2> QED  BY <2>1, <2>2
  <1>3. DOMAIN F = S /\ S \in SUBSET S
    OBVIOUS
  <1>4. Cost(t, n) = SumFunctionOnSet(F, S)
    BY <1>3 DEF Cost, SumFunction
  <1> HIDE DEF F, S
  <1>5. \A s \in SUBSET S : SumFunctionOnSet(F, s) \in Int
    BY <1>1, <1>2, SumType
  <1> QED  BY <1>3, <1>4, <1>5

-----------------------------------------------------------------------------
(* The steps                                                               *)

\* What the invariant says of the chains, while they stay.
LEMMA ChainsKept ==
    ASSUME IInv, UNCHANGED <<phase, chain, words>>
    PROVE  DescInv' /\ RegionFits'
  <1>1. DescInv'
    BY DEF IInv, DescInv
  <1>2. RegionFits'
    BY DEF IInv, RegionFits, Within, Input, Output
  <1> QED  BY <1>1, <1>2

\* And of their costs.
LEMMA CostKept ==
    ASSUME UNCHANGED chain
    PROVE  \A t, n : Cost(t, n)' = Cost(t, n)
  BY DEF Cost

\* And of the buffers.
LEMMA NearKept ==
    ASSUME IInv, UNCHANGED <<phase, alloc, chain, words, params>>
    PROVE  LargestNear'
  BY CostKept DEF IInv, LargestNear, Threads

\* Before an access is configured: the chains of the threads before it are there,
\* and what there is of its own.
LEMMA ConfigShape ==
    ASSUME SynthAssumption, IInv, pc = "config"
    PROVE  /\ DOMAIN chain = {t \in Threads(phase) : t < thread \/ (t = thread /\ acc > 0)}
           /\ \A t \in DOMAIN chain : t < thread => DOMAIN chain[t] = 0 .. NDev[phase][t] - 1
           /\ acc > 0 => thread \in DOMAIN chain /\ DOMAIN chain[thread] = 0 .. acc - 1
           /\ DOMAIN words = DOMAIN chain
  <1>1. /\ thread \in Threads(phase)
        /\ \A t \in Threads(phase) : t \in Int /\ NDev[phase][t] \in Nat \ {0}
    BY PhaseFacts DEF IInv
  <1>2. acc \in Int
    <2>1. acc \in Positions(phase, thread)
      BY DEF IInv, TypeOK
    <2> QED  BY <2>1 DEF Positions
  <1>3. InPhase
    BY DEF InPhase
  <1>4. \A t \in Threads(phase) :
           Filled(t) = IF t < thread THEN NDev[phase][t] ELSE IF t = thread THEN acc ELSE 0
    BY DEF Filled, Length
  <1>5. DOMAIN chain = {t \in Threads(phase) : Filled(t) > 0}
    BY <1>3 DEF IInv, ChainInv
  <1>6. \A t \in DOMAIN chain : DOMAIN chain[t] = 0 .. Filled(t) - 1
    BY DEF IInv, ChainInv
  <1>7. \A t \in Threads(phase) : Filled(t) > 0 <=> (t < thread \/ (t = thread /\ acc > 0))
    BY <1>1, <1>2, <1>4
  <1>8. DOMAIN chain = {t \in Threads(phase) : t < thread \/ (t = thread /\ acc > 0)}
    BY <1>5, <1>7
  <1>9. \A t \in DOMAIN chain : t < thread => DOMAIN chain[t] = 0 .. NDev[phase][t] - 1
    BY <1>4, <1>6, <1>8
  <1>10. acc > 0 => thread \in DOMAIN chain /\ DOMAIN chain[thread] = 0 .. acc - 1
    BY <1>1, <1>4, <1>6, <1>8
  <1>11. DOMAIN words = DOMAIN chain
    BY DEF IInv, TypeOK
  <1> QED  BY <1>8, <1>9, <1>10, <1>11

\* Configuring an access keeps the invariant: the sizes so far fit, and the next
\* input is where the last output was.
LEMMA ConfigureKeeps ==
    ASSUME SynthAssumption, IInv, Configure
    PROVE  IInv'
  <1> DEFINE d == DevId[phase][thread][acc]
             c == Cfg[phase][d]
             in == InSize
             out == OutSize(in, c)
             off == Offset
             desc == [devid |-> d, in_size |-> in, out_size |-> out, offset |-> off,
                      in_place |-> c.in_place,
                      footprint |-> in \div c.access + (IF c.in_place THEN 0 ELSE out)]
             row == IF acc = 0 THEN << >> ELSE chain[thread]
             prev == chain[thread][acc - 1]
             w == words[thread]
             N == NDev[phase][thread]
  <1> HIDE DEF d, c, in, out, off, desc, row, prev, w, N
  <1>1. /\ pc = "config" /\ thread \in Threads(phase) /\ N \in Nat \ {0}
        /\ acc \in 0 .. N - 1
        /\ UNCHANGED <<phase, alloc, mem, params, fds, at>>
        /\ mem = {} /\ DOMAIN params = {} /\ DOMAIN at = {}
    BY PhaseFacts DEF IInv, TypeOK, PlaceInv, Configure, Positions, memory, N
  <1>2. d \in Accelerators /\ c \in [access : Nat \ {0}, ratio : Nat \ {0}, in_place : BOOLEAN]
    <2>1. d \in Accelerators
      BY <1>1, PhaseFacts DEF IInv, TypeOK, d
    <2> QED  BY <2>1, PhaseFacts DEF IInv, c
  <1>3. /\ chain' = Put(chain, thread, Put(row, acc, desc))
         /\ words' = Put(words, thread, Words(in, out, c.in_place))
    BY DEF Configure, d, c, in, out, off, desc, row
  <1>4. /\ DOMAIN chain = {t \in Threads(phase) : t < thread \/ (t = thread /\ acc > 0)}
        /\ \A t \in DOMAIN chain : t < thread => DOMAIN chain[t] = 0 .. NDev[phase][t] - 1
        /\ acc > 0 => thread \in DOMAIN chain /\ DOMAIN chain[thread] = 0 .. acc - 1
        /\ DOMAIN words = DOMAIN chain
    BY <1>1, ConfigShape
  <1>5. ASSUME acc > 0
        PROVE  /\ prev \in Desc /\ w \in Nat
               /\ Within(Output(prev), w) /\ prev.out_size <= prev.in_size
    <2>1. acc - 1 \in DOMAIN chain[thread] /\ thread \in DOMAIN chain
      BY <1>1, <1>4, <1>5
    <2> QED  BY <2>1 DEF IInv, TypeOK, DescInv, RegionFits, prev, w
  <1>6. in \in Nat /\ off \in Nat
    <2>1. CASE acc = 0
      BY <2>1, <1>1, PhaseFacts DEF InSize, Offset, IInv, in, off
    <2>2. CASE acc > 0
      <3>1. /\ in = prev.out_size
            /\ off = IF prev.in_place THEN prev.offset ELSE prev.offset + prev.in_size
        BY <2>2 DEF in, off, prev, InSize, Offset
      <3> QED  BY <2>2, <3>1, <1>5 DEF Desc
    <2> QED  BY <2>1, <2>2, <1>1
  <1>7. in \div c.access \in Nat /\ out \in Nat /\ out <= in /\ c.in_place \in BOOLEAN
    BY <1>2, <1>6, OutSizeFacts DEF out
  <1>8. desc \in Desc
    <2> DEFINE foot == in \div c.access + (IF c.in_place THEN 0 ELSE out)
    <2>1. foot \in Nat
      <3> DEFINE q == in \div c.access
      <3> HIDE DEF q
      <3>1. q \in Nat
        BY <1>7 DEF q
      <3>2. q + (IF c.in_place THEN 0 ELSE out) \in Nat
        BY <1>7, <3>1
      <3> QED  BY <3>2 DEF q
    <2> HIDE DEF foot
    <2>2. desc = [devid |-> d, in_size |-> in, out_size |-> out, offset |-> off,
                  in_place |-> c.in_place, footprint |-> foot]
      BY DEF desc, foot
    <2> QED  BY <2>1, <2>2, <1>2, <1>6, <1>7 DEF Desc
  <1> DEFINE new == Put(row, acc, desc)
             total == Words(in, out, c.in_place)
  <1> HIDE DEF new, total
  <1>9. desc.devid = d /\ desc.in_size = in /\ desc.out_size = out /\ desc.offset = off
        /\ desc.in_place = c.in_place
    BY DEF desc
  <1>10. /\ DOMAIN new = 0 .. acc /\ new[acc] = desc
        /\ \A a \in 0 .. acc - 1 : new[a] = chain[thread][a]
    <2>1. CASE acc = 0
      <3>1. DOMAIN row = {} /\ 0 .. acc = {acc} /\ 0 .. acc - 1 = {}
        BY <2>1 DEF row
      <3> QED  BY <2>1, <3>1 DEF new, Put
    <2>2. CASE acc > 0
      <3>1. row = chain[thread] /\ DOMAIN row = 0 .. acc - 1
        BY <2>2, <1>4 DEF row
      <3>2. 0 .. acc = (0 .. acc - 1) \cup {acc} /\ acc \notin 0 .. acc - 1
        BY <1>1
      <3> QED  BY <3>1, <3>2 DEF new, Put
    <2> QED  BY <2>1, <2>2, <1>1
  <1>11. /\ DOMAIN chain' = DOMAIN chain \cup {thread} /\ chain'[thread] = new
         /\ \A t \in DOMAIN chain \ {thread} : chain'[t] = chain[t]
         /\ DOMAIN words' = DOMAIN words \cup {thread} /\ words'[thread] = total
         /\ \A t \in DOMAIN words \ {thread} : words'[t] = words[t]
    <2>1. chain' = Put(chain, thread, new) /\ words' = Put(words, thread, total)
      BY <1>3 DEF new, total
    <2>2. /\ DOMAIN chain' = DOMAIN chain \cup {thread} /\ chain'[thread] = new
          /\ \A t \in DOMAIN chain \ {thread} : chain'[t] = chain[t]
      BY <2>1 DEF Put
    <2>3. /\ DOMAIN words' = DOMAIN words \cup {thread} /\ words'[thread] = total
          /\ \A t \in DOMAIN words \ {thread} : words'[t] = words[t]
      BY <2>1 DEF Put
    <2> QED  BY <2>2, <2>3
  <1>12. /\ total \in Nat
         /\ acc > 0 => w <= total
         /\ off + in <= total
         /\ desc.in_place \/ off + in + out <= total
         /\ acc = 0 => off = 0
    <2>1. total = (IF acc = 0 THEN in ELSE w) + (IF c.in_place THEN 0 ELSE out)
      BY DEF total, Words, w
    <2>2. CASE acc = 0
      <3>1. off = 0
        BY <2>2 DEF off, Offset
      <3> QED  BY <2>1, <2>2, <3>1, <1>6, <1>7, <1>9
    <2>3. CASE acc > 0
      <3>1. /\ in = prev.out_size
            /\ off = IF prev.in_place THEN prev.offset ELSE prev.offset + prev.in_size
        BY <2>3 DEF in, off, prev, InSize, Offset
      <3>2. off + in <= w
        BY <3>1, <2>3, <1>5 DEF Within, Output, Desc
      <3>3. w \in Nat
        BY <2>3, <1>5
      <3> QED  BY <2>1, <2>3, <3>2, <3>3, <1>1, <1>6, <1>7, <1>9
    <2> QED  BY <2>2, <2>3, <1>1
  <1>13. DOMAIN chain' = {t \in Threads(phase) : t <= thread}
    <2>1. \A t \in Threads(phase) : t \in Int
      BY PhaseFacts DEF IInv
    <2>2. \A t \in Threads(phase) : t <= thread <=> t < thread \/ t = thread
      BY <1>1, <2>1
    <2> QED  BY <1>1, <1>4, <1>11, <2>2
  <1>14. \/ /\ acc < N - 1 /\ acc' = acc + 1 /\ thread' = thread /\ pc' = "config"
         \/ /\ acc = N - 1 /\ acc' = 0 /\ pc' = "config"
            /\ thread < LastThread(phase) /\ thread' = thread + 1
         \/ /\ acc = N - 1 /\ acc' = 0 /\ pc' = "alloc"
            /\ thread = LastThread(phase) /\ thread' = 0
    <2>1. IF acc < N - 1 THEN acc' = acc + 1 /\ UNCHANGED <<pc, thread>>
                         ELSE acc' = 0 /\ NextThread("alloc")
      BY DEF Configure, N
    <2>2. ~(acc < N - 1) => acc = N - 1
      BY <1>1
    <2> QED  BY <2>1, <2>2, <1>1, NextThreadFacts DEF IInv
  <1>15. ChainInv'
    <2>1. InPhase' /\ (pc' # "config" => thread = LastThread(phase))
      BY <1>14 DEF InPhase
    <2>2. \A t \in Threads(phase) : Length(t)' = NDev[phase][t]
      BY <1>1 DEF Length
    <2>3. /\ \A t \in Threads(phase) : t \in Nat /\ t <= LastThread(phase)
          /\ \A t \in Threads(phase) : NDev[phase][t] \in Nat \ {0}
          /\ LastThread(phase) \in Nat
      BY PhaseFacts DEF IInv
    <2>4. \A t \in Threads(phase) :
            Filled(t)' = IF t < thread THEN NDev[phase][t] ELSE IF t = thread THEN acc + 1 ELSE 0
      <3> SUFFICES ASSUME NEW t \in Threads(phase)
                   PROVE  Filled(t)' = IF t < thread THEN NDev[phase][t]
                                       ELSE IF t = thread THEN acc + 1 ELSE 0
        OBVIOUS
      <3>1. Filled(t)' = IF pc' # "config" \/ t < thread' THEN NDev[phase][t]
                         ELSE IF t = thread' THEN acc' ELSE 0
        BY <2>2 DEF Filled
      <3>2. t \in Nat /\ t <= LastThread(phase) /\ thread \in Nat /\ acc \in Int
        BY <1>1, <2>3
      <3>3. t = thread => NDev[phase][t] = N
        BY DEF N
      <3> QED  BY <1>1, <1>14, <3>1, <3>2, <3>3
    <2>5. \A t \in Threads(phase) : Filled(t)' > 0 <=> t <= thread
      BY <1>1, <2>3, <2>4
    <2>6. DOMAIN chain' = {t \in Threads(phase) : Filled(t)' > 0}
      BY <1>13, <2>5
    <2>7. Threads(phase)' = Threads(phase)
      BY <1>1 DEF Threads
    <2>8. ASSUME NEW t \in DOMAIN chain' PROVE DOMAIN chain'[t] = 0 .. Filled(t)' - 1
      <3>1. CASE t = thread
        <4>1. Filled(t)' = acc + 1
          BY <3>1, <2>3, <2>4, <1>1
        <4> QED  BY <3>1, <4>1, <1>1, <1>10, <1>11
      <3>2. CASE t # thread
        <4>1. t \in DOMAIN chain /\ t \in Threads(phase) /\ t < thread
          BY <3>2, <1>4, <1>11, <2>3, <1>1
        <4> QED  BY <4>1, <3>2, <1>4, <1>11, <2>4
      <3> QED  BY <3>1, <3>2
    <2> QED  BY <2>1, <2>6, <2>7, <2>8 DEF ChainInv
  <1>16. PlaceInv'
    BY <1>1, <1>14 DEF PlaceInv, InPhase
  <1>17. ASSUME NEW t \in DOMAIN chain', NEW a \in DOMAIN chain'[t]
         PROVE  /\ chain'[t][a] \in Desc
                /\ chain'[t][a].devid = DevId[phase][t][a]
                /\ chain'[t][a].out_size <= chain'[t][a].in_size
    <2>1. CASE t = thread /\ a = acc
      BY <2>1, <1>7, <1>8, <1>9, <1>10, <1>11 DEF d
    <2>2. CASE t = thread /\ a # acc
      <3>1. a \in 0 .. acc - 1 /\ acc > 0
        BY <2>2, <1>1, <1>10, <1>11
      <3>2. chain'[t][a] = chain[t][a] /\ t \in DOMAIN chain /\ a \in DOMAIN chain[t]
        BY <2>2, <3>1, <1>4, <1>10, <1>11
      <3> QED  BY <3>2 DEF IInv, TypeOK, DescInv
    <2>3. CASE t # thread
      <3>1. chain'[t] = chain[t] /\ t \in DOMAIN chain
        BY <2>3, <1>11
      <3> QED  BY <3>1 DEF IInv, TypeOK, DescInv
    <2> QED  BY <2>1, <2>2, <2>3
  <1>18. TypeOK'
    <2>1. pc' \in Labels /\ phase' \in PhaseIds /\ alloc' \in {"NONE", "AUTO"} /\ fds' \in Nat
          /\ mem' = {} /\ DOMAIN params' = {} /\ DOMAIN at' = {}
      BY <1>1, <1>14 DEF IInv, TypeOK, Labels
    <2>2. thread' \in Threads(phase) /\ acc' \in Positions(phase, thread')
      <3>1. \A t \in Threads(phase) : t \in Nat /\ 0 \in Positions(phase, t)
        <4>1. \A n \in Nat \ {0} : 0 \in 0 .. n - 1
          OBVIOUS
        <4>2. \A t \in 0 .. NThreads[phase] - 1 : t \in Nat
          OBVIOUS
        <4> QED  BY <4>1, <4>2, PhaseFacts DEF IInv
      <3>2. thread' \in Threads(phase)
        BY <1>1, <1>14, PhaseFacts DEF IInv
      <3>3. acc < N - 1 => acc + 1 \in Positions(phase, thread)
        BY <1>1 DEF Positions, N
      <3> QED  BY <1>1, <1>14, <3>1, <3>2, <3>3
    <2>3. DOMAIN chain' \subseteq Threads(phase) /\ DOMAIN words' = DOMAIN chain'
      BY <1>4, <1>11, <1>13
    <2>4. ASSUME NEW t \in DOMAIN chain'
          PROVE  words'[t] \in Nat /\ DOMAIN chain'[t] \subseteq Positions(phase, t)
      <3>1. CASE t = thread
        <4>1. 0 .. acc \subseteq Positions(phase, thread)
          BY <1>1 DEF Positions, N
        <4> QED  BY <3>1, <4>1, <1>10, <1>11, <1>12
      <3>2. CASE t # thread
        BY <3>2, <1>4, <1>11 DEF IInv, TypeOK
      <3> QED  BY <3>1, <3>2
    <2>5. \A p, t : Threads(p)' = Threads(p) /\ Positions(p, t)' = Positions(p, t)
      BY DEF Threads, Positions
    <2> QED  BY <1>1, <1>17, <2>1, <2>2, <2>3, <2>4, <2>5 DEF TypeOK
  <1>19. RegionFits'
    <2> SUFFICES ASSUME NEW t \in DOMAIN chain', NEW a \in DOMAIN chain'[t]
                 PROVE  LET e == chain'[t][a]
                        IN  /\ Within(Input(e), words'[t]) /\ Within(Output(e), words'[t])
                            /\ a > 0 => Input(e) = Output(chain'[t][a - 1])
                            /\ ~e.in_place => Within(Input(e), Output(e)[1])
      BY DEF RegionFits
    <2>1. CASE t = thread /\ a = acc
      <3>1. chain'[t][a] = desc /\ words'[t] = total
        BY <2>1, <1>10, <1>11
      <3>2. Within(Input(desc), total) /\ Within(Output(desc), total)
        BY <1>6, <1>7, <1>9, <1>12 DEF Within, Input, Output
      <3>3. ~desc.in_place => Within(Input(desc), Output(desc)[1])
        BY <1>6, <1>7, <1>9 DEF Within, Input, Output
      <3>4. a > 0 => Input(desc) = Output(chain'[t][a - 1])
        <4> SUFFICES ASSUME a > 0 PROVE Input(desc) = Output(prev)
          BY <2>1, <1>1, <1>10, <1>11 DEF prev
        <4>1. acc > 0
          BY <2>1
        <4>2. /\ in = prev.out_size
              /\ off = IF prev.in_place THEN prev.offset ELSE prev.offset + prev.in_size
          BY <4>1 DEF in, off, prev, InSize, Offset
        <4> QED  BY <4>2, <1>9 DEF Input, Output
      <3> QED  BY <3>1, <3>2, <3>3, <3>4
    <2>2. CASE t = thread /\ a # acc
      <3>1. a \in 0 .. acc - 1 /\ acc > 0
        BY <2>2, <1>1, <1>10, <1>11
      <3>2. /\ chain'[t][a] = chain[t][a] /\ t \in DOMAIN chain /\ a \in DOMAIN chain[t]
            /\ a > 0 => a - 1 \in DOMAIN chain[t] /\ chain'[t][a - 1] = chain[t][a - 1]
        <4>1. DOMAIN chain[thread] = 0 .. acc - 1 /\ thread \in DOMAIN chain
          BY <3>1, <1>4
        <4>2. a > 0 => a - 1 \in 0 .. acc - 1
          BY <3>1, <1>1
        <4> QED  BY <2>2, <3>1, <4>1, <4>2, <1>10, <1>11
      <3>3. words'[t] = total /\ w <= total /\ w \in Nat /\ total \in Nat /\ w = words[t]
        BY <2>2, <3>1, <1>5, <1>11, <1>12 DEF w
      <3>4. chain[t][a] \in Desc
        BY <3>2 DEF IInv, TypeOK
      <3>5. Within(Input(chain[t][a]), w) /\ Within(Output(chain[t][a]), w)
        BY <3>2, <3>3 DEF IInv, RegionFits
      <3>6. Within(Input(chain[t][a]), total) /\ Within(Output(chain[t][a]), total)
        <4> DEFINE e == chain[t][a]
        <4>1. /\ e.offset \in Nat /\ e.in_size \in Nat /\ e.out_size \in Nat
              /\ e.in_place \in BOOLEAN
          BY <3>4 DEF Desc
        <4> HIDE DEF e
        <4>2. /\ Within(Input(e), w) => Within(Input(e), total)
              /\ Within(Output(e), w) => Within(Output(e), total)
          BY <4>1, <3>3 DEF Within, Input, Output
        <4> QED  BY <4>2, <3>5 DEF e
      <3>7. /\ a > 0 => Input(chain[t][a]) = Output(chain[t][a - 1])
            /\ ~chain[t][a].in_place => Within(Input(chain[t][a]), Output(chain[t][a])[1])
        BY <3>2 DEF IInv, RegionFits
      <3> QED  BY <3>2, <3>3, <3>6, <3>7
    <2>3. CASE t # thread
      <3>1. chain'[t] = chain[t] /\ t \in DOMAIN chain /\ words'[t] = words[t]
        BY <2>3, <1>4, <1>11
      <3> QED  BY <3>1 DEF IInv, RegionFits
    <2> QED  BY <2>1, <2>2, <2>3
  <1>20. LargestNear'
    BY <1>1 DEF LargestNear
  <1>21. DescInv'
    BY <1>1, <1>17 DEF DescInv
  <1> QED  BY <1>15, <1>16, <1>18, <1>19, <1>20, <1>21 DEF IInv

\* A step of a phase that is configured, and stays so: what is left to show.
LEMMA PhaseStep ==
    ASSUME SynthAssumption, IInv, pc # "config", InPhase, pc' # "config", InPhase',
           UNCHANGED <<phase, acc, alloc, chain, words>>, thread' \in Threads(phase),
           fds' \in Nat, mem' \subseteq Threads(phase), DOMAIN params' \subseteq Threads(phase),
           DOMAIN at' \subseteq Threads(phase),
           \A t \in DOMAIN at' : at'[t] \in 0 .. NDev[phase][t],
           PlaceInv', LargestNear'
    PROVE  IInv'
  <1>1. DescInv' /\ RegionFits'
    BY ChainsKept
  <1>2. ChainInv'
    <2>1. \A t : Filled(t)' = Filled(t)
      BY DEF Filled, Length
    <2> QED  BY <2>1 DEF IInv, ChainInv, Threads
  <1>3. acc' \in Positions(phase, thread')
    <2>1. acc' = 0 /\ NDev[phase][thread'] \in Nat \ {0}
      BY PhaseFacts DEF IInv, PlaceInv
    <2> QED  BY <2>1 DEF Positions
  <1>4. TypeOK'
    <2>1. \A p, t : /\ Threads(p)' = Threads(p) /\ Positions(p, t)' = Positions(p, t)
                    /\ Length(t)' = NDev[phase][t]
      BY DEF Threads, Positions, Length
    <2>2. pc' \in Labels
      BY DEF InPhase, Labels
    <2>3. /\ phase \in PhaseIds /\ alloc \in {"NONE", "AUTO"}
          /\ DOMAIN chain \subseteq Threads(phase) /\ DOMAIN words = DOMAIN chain
          /\ \A t \in DOMAIN chain :
               /\ words[t] \in Nat
               /\ DOMAIN chain[t] \subseteq Positions(phase, t)
               /\ \A a \in DOMAIN chain[t] : chain[t][a] \in Desc
      BY DEF IInv, TypeOK
    <2> QED  BY <1>3, <2>1, <2>2, <2>3 DEF TypeOK
  <1> QED  BY <1>1, <1>2, <1>4 DEF IInv

\* The threads of a phase that is configured have their sizes.
LEMMA WordsFacts ==
    ASSUME SynthAssumption, IInv, InPhase, pc # "config"
    PROVE  /\ DOMAIN chain = Threads(phase) /\ DOMAIN words = Threads(phase)
           /\ \A t \in Threads(phase) :
                /\ words[t] \in Nat
                /\ DOMAIN chain[t] = Positions(phase, t)
  <1>1. \A t \in Threads(phase) : Filled(t) = NDev[phase][t] /\ NDev[phase][t] \in Nat \ {0}
    BY PhaseFacts DEF IInv, Filled, Length
  <1>2. DOMAIN chain = {t \in Threads(phase) : Filled(t) > 0}
    BY DEF IInv, ChainInv
  <1>3. DOMAIN chain = Threads(phase)
    BY <1>1, <1>2
  <1>4. DOMAIN words = Threads(phase) /\ \A t \in Threads(phase) : words[t] \in Nat
    BY <1>3 DEF IInv, TypeOK
  <1>5. \A t \in Threads(phase) : DOMAIN chain[t] = 0 .. NDev[phase][t] - 1
    BY <1>1, <1>3 DEF IInv, ChainInv
  <1> QED  BY <1>3, <1>4, <1>5 DEF Positions

\* The largest of the buffers, and the nearest of the nodes.
LEMMA LargestFacts ==
    ASSUME SynthAssumption, IInv, InPhase, pc # "config"
    PROVE  /\ LargestThread \in Threads(phase)
           /\ \A u \in Threads(phase) : words[u] <= words[LargestThread]
  <1> DEFINE n == NThreads[phase]
  <1>1. n \in Nat \ {0} /\ Threads(phase) = 0 .. n - 1
    BY PhaseFacts DEF IInv
  <1>2. DOMAIN words = 0 .. n - 1 /\ \A i \in 0 .. n - 1 : words[i] \in Int
    BY <1>1, WordsFacts
  <1> HIDE DEF n
  <1>3. /\ FirstMost(words) \in 0 .. n - 1
        /\ \A i \in 0 .. n - 1 : words[i] <= words[FirstMost(words)]
    BY <1>1, <1>2, FirstMostFacts
  <1> QED  BY <1>1, <1>3 DEF LargestThread

\* PreferredNode is a node, and no node is nearer.
LEMMA NearestFacts ==
    ASSUME SynthAssumption, TypeOK, NEW t \in DOMAIN chain
    PROVE  /\ PreferredNode(t) \in Nodes
           /\ \A n \in Nodes : Cost(t, PreferredNode(t)) <= Cost(t, n)
  <1> DEFINE m == [n \in Nodes |-> -Cost(t, n)]
             N == Cardinality(Nodes)
  <1>1. N \in Nat \ {0} /\ Nodes = 0 .. N - 1
    <2>1. IsFiniteSet(Nodes) /\ Nodes # {} /\ Nodes = 0 .. N - 1
      BY DEF SynthAssumption
    <2>2. N \in Nat
      BY <2>1, FS_CardinalityType
    <2> HIDE DEF N
    <2>3. N # 0
      BY <2>1
    <2> QED  BY <2>1, <2>2, <2>3
  <1>2. \A n \in Nodes : Cost(t, n) \in Int
    BY CostType
  <1>3. DOMAIN m = 0 .. N - 1 /\ \A i \in 0 .. N - 1 : m[i] = -Cost(t, i) /\ m[i] \in Int
    <2> HIDE DEF N
    <2> QED  BY <1>1, <1>2
  <1>4. PreferredNode(t) = FirstMost(m)
    BY DEF PreferredNode
  <1> HIDE DEF m, N
  <1>5. FirstMost(m) \in 0 .. N - 1 /\ \A i \in 0 .. N - 1 : m[i] <= m[FirstMost(m)]
    BY <1>1, <1>3, FirstMostFacts
  <1>6. ASSUME NEW n \in Nodes PROVE Cost(t, PreferredNode(t)) <= Cost(t, n)
    <2> DEFINE p == PreferredNode(t)
    <2>1. p \in Nodes /\ m[n] <= m[p] /\ m[n] = -Cost(t, n) /\ m[p] = -Cost(t, p)
      BY <1>1, <1>3, <1>4, <1>5
    <2>2. Cost(t, n) \in Int /\ Cost(t, p) \in Int
      BY <1>2, <2>1
    <2> HIDE DEF p
    <2>3. -Cost(t, n) <= -Cost(t, p)
      BY <2>1
    <2>4. Cost(t, p) <= Cost(t, n)
      BY <2>2, <2>3
    <2> QED  BY <2>4 DEF p
  <1> QED  BY <1>1, <1>4, <1>5, <1>6

\* contig_alloc_policy keeps the invariant: the largest buffer gets its node.
LEMMA AllocKeeps ==
    ASSUME SynthAssumption, IInv, AllocThread
    PROVE  IInv'
  <1>1. /\ pc = "alloc" /\ thread \in Threads(phase)
        /\ UNCHANGED <<phase, acc, alloc, chain, words, fds, at>>
        /\ mem' = mem \cup {thread} /\ params' = Put(params, thread, Params(thread))
    BY PhaseFacts DEF IInv, AllocThread, config
  <1>2. InPhase /\ pc # "config" /\ TypeOK
    BY <1>1 DEF InPhase, IInv
  <1>3. thread' \in Threads(phase) /\ pc' \in {"alloc", "prepare"}
    BY <1>1, NextThreadFacts DEF IInv, AllocThread
  <1>4. /\ DOMAIN params' = DOMAIN params \cup {thread}
        /\ params'[thread] = Params(thread)
        /\ \A t \in DOMAIN params \ {thread} : params'[t] = params[t]
    BY <1>1 DEF Put
  <1>5. mem \subseteq Threads(phase) /\ DOMAIN params \subseteq Threads(phase) /\ fds \in Nat
        /\ DOMAIN at = {} /\ acc = 0
    BY <1>1 DEF IInv, TypeOK, PlaceInv
  <1>6. LargestNear'
    <2> SUFFICES ASSUME NEW t \in DOMAIN params', alloc = "AUTO", NThreads[phase] >= 3
                 PROVE  IF params'[t].policy = "PREFERRED"
                        THEN /\ \A u \in Threads(phase) : words[u] <= words[t]
                             /\ \A n \in Nodes : Cost(t, params'[t].ddr_node) <= Cost(t, n)
                        ELSE \E u \in Threads(phase) : words[u] >= words[t] /\ u # t
      <3>1. \A u, n : Cost(u, n)' = Cost(u, n)
        BY <1>1, CostKept
      <3> QED  BY <1>1, <3>1 DEF LargestNear, Threads
    <2>1. CASE t # thread
      BY <2>1, <1>4 DEF IInv, LargestNear
    <2>2. CASE t = thread
      <3>1. LargestThread \in Threads(phase)
            /\ \A u \in Threads(phase) : words[u] <= words[LargestThread]
        BY <1>2, LargestFacts
      <3>2. NThreads[phase] \in Nat
        BY <1>2, PhaseFacts
      <3>3. CASE thread = LargestThread
        <4>1. Params(thread) = [policy |-> "PREFERRED", ddr_node |-> PreferredNode(thread)]
          BY <3>2, <3>3 DEF Params
        <4>2. \A n \in Nodes : Cost(thread, PreferredNode(thread)) <= Cost(thread, n)
          BY <1>1, <1>2, WordsFacts, NearestFacts
        <4> QED  BY <2>2, <3>1, <3>3, <4>1, <4>2, <1>4
      <3>4. CASE thread # LargestThread
        <4>1. Params(thread) = [policy |-> "LEAST_LOADED", threshold |-> 4]
          BY <3>2, <3>4 DEF Params
        <4>2. words[thread] \in Nat /\ words[LargestThread] \in Nat
          BY <1>1, <1>2, <3>1, WordsFacts
        <4>3. words[LargestThread] >= words[thread]
          BY <1>1, <3>1, <4>2
        <4> QED  BY <2>2, <3>1, <3>4, <4>1, <4>3, <1>4
      <3> QED  BY <3>3, <3>4
    <2> QED  BY <2>1, <2>2
  <1>7. PlaceInv'
    BY <1>1, <1>3, <1>5 DEF PlaceInv, InPhase
  <1>8. pc' # "config" /\ InPhase'
    BY <1>3 DEF InPhase
  <1> QED  BY <1>1, <1>2, <1>3, <1>4, <1>5, <1>6, <1>7, <1>8, PhaseStep

\* Opening the devices of a chain keeps the invariant.
LEMMA PrepareKeeps ==
    ASSUME SynthAssumption, IInv, Prepare
    PROVE  IInv'
  <1>1. /\ pc = "prepare" /\ thread \in Threads(phase)
        /\ UNCHANGED <<phase, acc, alloc, chain, words, mem, params, at>>
        /\ fds' = fds + NDev[phase][thread]
    BY PhaseFacts DEF IInv, Prepare, config, memory
  <1>2. InPhase /\ pc # "config" /\ TypeOK
    BY <1>1 DEF InPhase, IInv
  <1>3. thread' \in Threads(phase) /\ pc' \in {"prepare", "create"}
    BY <1>1, NextThreadFacts DEF IInv, Prepare
  <1>4. mem \subseteq Threads(phase) /\ DOMAIN params \subseteq Threads(phase) /\ fds \in Nat
        /\ DOMAIN at = {} /\ acc = 0
    BY <1>1 DEF IInv, TypeOK, PlaceInv
  <1>5. fds' \in Nat
    BY <1>1, <1>2, <1>4, PhaseFacts
  <1>6. PlaceInv' /\ pc' # "config" /\ InPhase'
    BY <1>1, <1>3, <1>4 DEF PlaceInv, InPhase
  <1> QED  BY <1>1, <1>2, <1>3, <1>4, <1>5, <1>6, NearKept, PhaseStep

\* A thread created begins with the first access of its chain.
LEMMA CreateKeeps ==
    ASSUME SynthAssumption, IInv, Create
    PROVE  IInv'
  <1>1. /\ pc = "create" /\ thread \in Threads(phase)
        /\ UNCHANGED <<phase, acc, alloc, chain, words, mem, params, fds>>
        /\ at' = Put(at, thread, 0)
    BY PhaseFacts DEF IInv, Create, config, memory
  <1>2. InPhase /\ pc # "config" /\ TypeOK
    BY <1>1 DEF InPhase, IInv
  <1>3. thread' \in Threads(phase) /\ pc' \in {"create", "join"}
    BY <1>1, NextThreadFacts DEF IInv, Create
  <1>4. /\ mem \subseteq Threads(phase) /\ DOMAIN params \subseteq Threads(phase) /\ fds \in Nat
        /\ DOMAIN at \subseteq Threads(phase) /\ acc = 0
        /\ \A t \in DOMAIN at : at[t] \in 0 .. NDev[phase][t]
    BY <1>1 DEF IInv, TypeOK, PlaceInv, Length
  <1>5. /\ DOMAIN at' \subseteq Threads(phase)
        /\ \A t \in DOMAIN at' : at'[t] \in 0 .. NDev[phase][t]
    <2>1. DOMAIN at' = DOMAIN at \cup {thread}
      BY <1>1 DEF Put
    <2>2. ASSUME NEW t \in DOMAIN at' PROVE at'[t] \in 0 .. NDev[phase][t]
      <3>1. CASE t = thread
        <4>1. NDev[phase][thread] \in Nat
          BY <1>1, <1>2, PhaseFacts
        <4>2. at'[t] = 0
          BY <3>1, <1>1 DEF Put
        <4> QED  BY <3>1, <4>1, <4>2
      <3>2. CASE t # thread
        BY <3>2, <2>1, <1>1, <1>4 DEF Put
      <3> QED  BY <3>1, <3>2
    <2> QED  BY <1>1, <1>4, <2>1, <2>2
  <1>6. PlaceInv' /\ pc' # "config" /\ InPhase'
    BY <1>1, <1>3, <1>4 DEF PlaceInv, InPhase
  <1> QED  BY <1>1, <1>2, <1>3, <1>4, <1>5, <1>6, NearKept, PhaseStep

\* A thread created is in its chain.
LEMMA AtWorkFacts ==
    ASSUME SynthAssumption, IInv, NEW t \in AtWork
    PROVE  /\ pc \in {"create", "join", "free"} /\ t \in Threads(phase)
           /\ at[t] \in 0 .. NDev[phase][t] - 1 /\ NDev[phase][t] \in Nat \ {0}
  <1>1. t \in DOMAIN at /\ at[t] < NDev[phase][t]
    BY DEF AtWork, Length
  <1>2. pc \in {"create", "join", "free"}
    BY <1>1 DEF IInv, PlaceInv
  <1>3. t \in Threads(phase) /\ at[t] \in 0 .. NDev[phase][t]
    BY <1>1 DEF IInv, TypeOK, Length
  <1>4. NDev[phase][t] \in Nat \ {0}
    BY <1>3, PhaseFacts DEF IInv
  <1> QED  BY <1>1, <1>2, <1>3, <1>4

\* An access that ends keeps the invariant.
LEMMA AdvanceKeeps ==
    ASSUME SynthAssumption, IInv, NEW t \in DOMAIN at, Advance(t)
    PROVE  IInv'
  <1>1. /\ pc \in {"create", "join", "free"} /\ t \in Threads(phase)
        /\ at[t] \in 0 .. NDev[phase][t] - 1 /\ NDev[phase][t] \in Nat \ {0}
    BY AtWorkFacts DEF Advance
  <1>2. /\ UNCHANGED <<pc, phase, thread, acc, alloc, chain, words, mem, params, fds>>
        /\ at' = [at EXCEPT ![t] = @ + 1]
    BY DEF Advance, loops, config, memory
  <1>3. InPhase /\ pc # "config" /\ TypeOK /\ pc' # "config" /\ InPhase'
    BY <1>1, <1>2 DEF InPhase, IInv
  <1>4. /\ mem \subseteq Threads(phase) /\ DOMAIN params \subseteq Threads(phase) /\ fds \in Nat
        /\ thread \in Threads(phase) /\ DOMAIN at \subseteq Threads(phase)
        /\ \A u \in DOMAIN at : at[u] \in 0 .. NDev[phase][u]
    BY DEF IInv, TypeOK, Length
  <1>5. /\ DOMAIN at' \subseteq Threads(phase)
        /\ \A u \in DOMAIN at' : at'[u] \in 0 .. NDev[phase][u]
    <2>1. DOMAIN at' = DOMAIN at /\ at'[t] = at[t] + 1
          /\ \A u \in DOMAIN at \ {t} : at'[u] = at[u]
      BY <1>2
    <2>2. at[t] + 1 \in 0 .. NDev[phase][t]
      BY <1>1
    <2> QED  BY <1>4, <2>1, <2>2
  <1>6. PlaceInv'
    BY <1>1, <1>2 DEF IInv, PlaceInv, InPhase, LastThread
  <1> QED  BY <1>2, <1>3, <1>4, <1>5, <1>6, NearKept, PhaseStep

\* Joining a thread keeps the invariant.
LEMMA JoinKeeps ==
    ASSUME SynthAssumption, IInv, Join
    PROVE  IInv'
  <1>1. /\ pc = "join" /\ thread \in Threads(phase)
        /\ UNCHANGED <<phase, acc, alloc, chain, words, mem, params, fds, at>>
    BY PhaseFacts DEF IInv, Join, config, memory
  <1>2. InPhase /\ pc # "config" /\ TypeOK
    BY <1>1 DEF InPhase, IInv
  <1>3. /\ thread' \in Threads(phase)
        /\ pc' = "join" \/ (pc' = "free" /\ thread' = 0)
    BY <1>1, NextThreadFacts DEF IInv, Join
  <1>4. /\ mem \subseteq Threads(phase) /\ DOMAIN params \subseteq Threads(phase) /\ fds \in Nat
        /\ DOMAIN at \subseteq Threads(phase) /\ acc = 0
        /\ \A t \in DOMAIN at : at[t] \in 0 .. NDev[phase][t]
    BY <1>1 DEF IInv, TypeOK, PlaceInv, Length
  <1>5. PlaceInv' /\ pc' # "config" /\ InPhase'
    <2>1. Threads(phase) = 0 .. LastThread(phase)
      BY DEF Threads, LastThread
    <2>2. LastThread(phase)' = LastThread(phase)
      BY <1>1 DEF LastThread
    <2> QED  BY <1>1, <1>3, <1>4, <2>1, <2>2 DEF PlaceInv, InPhase
  <1> QED  BY <1>1, <1>2, <1>3, <1>4, <1>5, NearKept, PhaseStep

\* Between two phases, at the end and after a failure nothing is left of a phase.
LEMMA ResetKeeps ==
    ASSUME SynthAssumption, IInv, pc' \in {"config", "end", "dead"},
           phase' \in PhaseIds, thread' = 0, acc' = 0, UNCHANGED alloc,
           chain' = << >>, words' = << >>, mem' = {}, params' = << >>, at' = << >>, fds' \in Nat
    PROVE  IInv'
  <1>1. /\ DOMAIN chain' = {} /\ DOMAIN words' = {} /\ DOMAIN params' = {} /\ DOMAIN at' = {}
    OBVIOUS
  <1>2. NThreads[phase'] \in Nat \ {0} /\ thread' \in Threads(phase')
        /\ \A t \in Threads(phase') : NDev[phase'][t] \in Nat \ {0}
    <2>1. NThreads[phase'] \in Nat \ {0}
      BY DEF SynthAssumption
    <2>2. \A t \in Threads(phase') : NDev[phase'][t] \in Nat \ {0}
      BY DEF SynthAssumption
    <2> QED  BY <2>1, <2>2 DEF Threads
  <1>3. TypeOK'
    <2>1. acc' \in Positions(phase', thread')
      BY <1>2 DEF Positions
    <2>2. pc' \in Labels /\ alloc' \in {"NONE", "AUTO"}
      BY DEF IInv, TypeOK, Labels
    <2> QED  BY <1>1, <1>2, <2>1, <2>2 DEF TypeOK
  <1>4. ChainInv'
    <2>1. pc' = "config" => \A t \in Threads(phase') : Filled(t)' = 0
      <3>1. \A t \in Threads(phase') : t \in Nat
        BY <1>2 DEF Threads
      <3> QED  BY <3>1 DEF Filled
    <2>2. pc' # "config" => ~InPhase'
      BY DEF InPhase
    <2>3. Threads(phase)' = Threads(phase')
      BY DEF Threads
    <2> QED  BY <1>1, <2>1, <2>2, <2>3 DEF ChainInv
  <1>5. PlaceInv' /\ DescInv' /\ RegionFits' /\ LargestNear'
    BY <1>1 DEF PlaceInv, DescInv, RegionFits, LargestNear, InPhase
  <1> QED  BY <1>3, <1>4, <1>5 DEF IInv

\* Freeing a buffer keeps the invariant, and so does beginning the next phase.
LEMMA FreeKeeps ==
    ASSUME SynthAssumption, IInv, Free
    PROVE  IInv'
  <1>1. /\ pc = "free" /\ thread \in Threads(phase) /\ acc = 0
        /\ UNCHANGED <<acc, alloc, fds>> /\ mem' = mem \ {thread}
        /\ mem \subseteq thread .. LastThread(phase)
        /\ fds \in Nat /\ phase \in PhaseIds
    BY PhaseFacts DEF IInv, TypeOK, PlaceInv, Free
  <1>2. InPhase /\ pc # "config" /\ TypeOK
    BY <1>1 DEF InPhase, IInv
  <1>3. /\ LastThread(phase) \in Nat /\ Threads(phase) = 0 .. LastThread(phase)
    BY <1>2, PhaseFacts
  <1>4. CASE thread < LastThread(phase)
    <2>1. thread' = thread + 1 /\ UNCHANGED <<pc, phase, chain, words, params, at>>
      BY <1>4 DEF Free, config
    <2>2. thread' \in Threads(phase) /\ mem' \subseteq thread' .. LastThread(phase)
      <3> DEFINE last == LastThread(phase)
      <3>1. /\ last \in Nat /\ thread \in 0 .. last /\ thread < last /\ thread' = thread + 1
            /\ mem \subseteq thread .. last /\ mem' = mem \ {thread} /\ Threads(phase) = 0 .. last
        BY <1>1, <1>3, <1>4, <2>1
      <3> HIDE DEF last
      <3>2. thread' \in 0 .. last /\ thread \in Int
        BY <3>1
      <3>3. ASSUME NEW t \in mem'  PROVE t \in thread' .. last
        <4>1. t \in thread .. last /\ t # thread
          BY <3>1, <3>3
        <4> QED  BY <4>1, <3>1, <3>2
      <3> QED  BY <3>1, <3>2, <3>3 DEF last
    <2>3. /\ mem' \subseteq Threads(phase) /\ DOMAIN params \subseteq Threads(phase)
          /\ DOMAIN at \subseteq Threads(phase)
          /\ \A t \in DOMAIN at : at[t] \in 0 .. NDev[phase][t]
      BY <1>1 DEF IInv, TypeOK, Length
    <2>4. PlaceInv' /\ pc' # "config" /\ InPhase'
      <3>1. LastThread(phase)' = LastThread(phase)
        BY <2>1 DEF LastThread
      <3> QED  BY <1>1, <2>1, <2>2, <3>1 DEF PlaceInv, InPhase
    <2> QED  BY <1>1, <1>2, <2>1, <2>2, <2>3, <2>4, NearKept, PhaseStep
  <1>5. CASE ~(thread < LastThread(phase))
    <2>1. /\ thread' = 0 /\ chain' = << >> /\ words' = << >> /\ params' = << >> /\ at' = << >>
          /\ IF phase < NPhases - 1
             THEN phase' = phase + 1 /\ pc' = "config"
             ELSE pc' = "end" /\ UNCHANGED phase
      BY <1>5 DEF Free
    <2>2. mem' = {}
      <3> DEFINE last == LastThread(phase)
      <3>1. /\ last \in Nat /\ thread \in 0 .. last /\ ~(thread < last)
            /\ mem \subseteq thread .. last /\ mem' = mem \ {thread}
        BY <1>1, <1>3, <1>5
      <3> HIDE DEF last
      <3>2. thread = last
        BY <3>1
      <3>3. \A t \in thread .. last : t = thread
        BY <3>1, <3>2
      <3> QED  BY <3>1, <3>3
    <2>3. phase' \in PhaseIds /\ pc' \in {"config", "end"}
      <3>1. NPhases \in Nat
        BY DEF SynthAssumption
      <3> QED  BY <1>1, <2>1, <3>1 DEF PhaseIds
    <2> QED  BY <1>1, <2>1, <2>2, <2>3, ResetKeeps
  <1> QED  BY <1>4, <1>5

-----------------------------------------------------------------------------
(* The theorems                                                            *)

\* The inductive invariant holds, whatever the tables say.
THEOREM InvariantHolds == SynthAssumption => (Spec => []IInv)
  <1> SUFFICES ASSUME SynthAssumption PROVE Spec => []IInv
    OBVIOUS
  <1>1. Init => IInv
    <2> SUFFICES ASSUME Init PROVE IInv
      OBVIOUS
    <2>1. /\ DOMAIN chain = {} /\ DOMAIN words = {} /\ DOMAIN params = {} /\ DOMAIN at = {}
          /\ pc = "config" /\ phase = 0 /\ thread = 0 /\ acc = 0 /\ mem = {} /\ fds = 0
          /\ alloc \in {"NONE", "AUTO"}
      BY DEF Init
    <2>2. 0 \in PhaseIds
      BY DEF SynthAssumption, PhaseIds
    <2>3. NThreads[0] \in Nat \ {0}
      BY <2>2 DEF SynthAssumption
    <2>4. 0 \in Threads(0) /\ \A t \in Threads(0) : t \in Nat
      BY <2>3 DEF Threads
    <2>5. NDev[0][0] \in Nat \ {0}
      BY <2>2, <2>4 DEF SynthAssumption
    <2>6. 0 \in Positions(0, 0)
      BY <2>5 DEF Positions
    <2>7. TypeOK
      BY <2>1, <2>2, <2>4, <2>6 DEF TypeOK, Labels
    <2>8. ChainInv
      <3>1. \A t \in Threads(phase) : Filled(t) = 0
        BY <2>1, <2>4 DEF Filled
      <3> QED  BY <2>1, <3>1 DEF ChainInv
    <2>9. PlaceInv /\ DescInv /\ RegionFits /\ LargestNear
      BY <2>1 DEF PlaceInv, DescInv, RegionFits, LargestNear, InPhase
    <2> QED  BY <2>7, <2>8, <2>9 DEF IInv
  <1>2. IInv /\ [Next]_vars => IInv'
    <2> SUFFICES ASSUME IInv, [Next]_vars PROVE IInv'
      OBVIOUS
    <2>1. CASE Fails
      <3>1. phase \in PhaseIds /\ 0 \in Nat
        BY DEF IInv, TypeOK
      <3> QED  BY <2>1, <3>1, ResetKeeps DEF Fails, Dies
    <2>2. CASE UNCHANGED vars
      <3>1. UNCHANGED <<pc, phase, thread, acc, alloc, chain, words, mem, params, fds, at>>
        BY <2>2 DEF vars, loops, config, memory
      <3>2. DescInv' /\ RegionFits' /\ LargestNear'
        BY <3>1, ChainsKept, NearKept
      <3>3. TypeOK' /\ ChainInv' /\ PlaceInv'
        BY <3>1 DEF IInv, TypeOK, ChainInv, PlaceInv, Threads, Positions, Length, Filled,
           InPhase, LastThread
      <3> QED  BY <3>2, <3>3 DEF IInv
    <2> QED
      BY <2>1, <2>2, ConfigureKeeps, AllocKeeps, PrepareKeeps, CreateKeeps, AdvanceKeeps,
         JoinKeeps, FreeKeeps DEF Next, Main
  <1> QED  BY <1>1, <1>2, PTL DEF Spec

\* The loops of main stay within the tables, and every access has its sizes.
THEOREM TypeCorrect == SynthAssumption => (Spec => []TypeOK)
  <1>1. IInv => TypeOK
    BY DEF IInv
  <1> QED  BY <1>1, InvariantHolds, PTL

\* Whatever the sizes, the accelerators of a chain hand over exactly what they
\* wrote, within the buffer that alloc_phase asks for.
THEOREM RegionsFit == SynthAssumption => (Spec => []RegionFits)
  <1>1. IInv => RegionFits
    BY DEF IInv
  <1> QED  BY <1>1, InvariantHolds, PTL

\* Whatever the sizes and the hops, the largest buffer gets the nearest node.
THEOREM LargestIsNear == SynthAssumption => (Spec => []LargestNear)
  <1>1. IInv => LargestNear
    BY DEF IInv
  <1> QED  BY <1>1, InvariantHolds, PTL

\* No accelerator is in the tables of two threads of a phase.
TablesDisjoint ==
    \A p \in PhaseIds : \A t, u \in Threads(p) : t # u =>
        \A a \in Positions(p, t), b \in Positions(p, u) : DevId[p][t][a] # DevId[p][u][b]

\* With such tables no two threads are ever in an access of one accelerator.
THEOREM ThreadsApart == SynthAssumption /\ TablesDisjoint => (Spec => []ChainsDisjoint)
  <1> SUFFICES ASSUME SynthAssumption, TablesDisjoint PROVE Spec => []ChainsDisjoint
    OBVIOUS
  <1>1. IInv => ChainsDisjoint
    <2> SUFFICES ASSUME IInv, NEW t \in AtWork, NEW u \in AtWork, t # u
                 PROVE  chain[t][at[t]].devid # chain[u][at[u]].devid
      BY DEF ChainsDisjoint
    <2>1. /\ t \in Threads(phase) /\ at[t] \in Positions(phase, t)
          /\ u \in Threads(phase) /\ at[u] \in Positions(phase, u)
          /\ InPhase /\ pc # "config"
      BY AtWorkFacts DEF Positions, InPhase
    <2>2. /\ t \in DOMAIN chain /\ at[t] \in DOMAIN chain[t]
          /\ u \in DOMAIN chain /\ at[u] \in DOMAIN chain[u]
      BY <2>1, WordsFacts
    <2>3. /\ chain[t][at[t]].devid = DevId[phase][t][at[t]]
          /\ chain[u][at[u]].devid = DevId[phase][u][at[u]]
      BY <2>2 DEF IInv, DescInv
    <2>4. phase \in PhaseIds
      BY DEF IInv, TypeOK
    <2> QED  BY <2>1, <2>3, <2>4 DEF TablesDisjoint
  <1> QED  BY <1>1, InvariantHolds, PTL

-----------------------------------------------------------------------------
(* The tables of the program                                               *)

\* The tables of synth.c, as the program has them.
T == INSTANCE SynthTables

\* The chain that has an accelerator to itself, in the phases of pairs.
Owner == <<0, 0, 1, 1, 2, 2, 3, 3, 4, 5, 4, 5>>

\* What the program runs: its phases, threads and chains, and the accelerators of
\* each access; the sizes, the configurations and the hops are left open.
OwnTables ==
    NPhases = T!nphases /\ NThreads = T!nthreads /\ NDev = T!ndev /\ DevId = T!devid

\* Every accelerator of a pair belongs to the chain of that pair.
LEMMA OwnerFacts ==
    ASSUME NEW t \in 0 .. 5, NEW j \in 1 .. 2
    PROVE  Owner[T!Pairs[t + 1][j] + 1] = t
  <1>1. t \in {0, 1, 2, 3, 4, 5} /\ j \in {1, 2}
    OBVIOUS
  <1>2. CASE t = 0
    BY <1>1, <1>2 DEF Owner, T!Pairs
  <1>3. CASE t = 1
    BY <1>1, <1>3 DEF Owner, T!Pairs
  <1>4. CASE t = 2
    BY <1>1, <1>4 DEF Owner, T!Pairs
  <1>5. CASE t = 3
    BY <1>1, <1>5 DEF Owner, T!Pairs
  <1>6. CASE t = 4
    BY <1>1, <1>6 DEF Owner, T!Pairs
  <1>7. CASE t = 5
    BY <1>1, <1>7 DEF Owner, T!Pairs
  <1> QED  BY <1>1, <1>2, <1>3, <1>4, <1>5, <1>6, <1>7

\* In no phase of the program is an accelerator in the tables of two threads.
LEMMA OwnTablesDisjoint == OwnTables => TablesDisjoint
  <1> SUFFICES ASSUME OwnTables, NEW p \in PhaseIds,
                      NEW t \in Threads(p), NEW u \in Threads(p), t # u,
                      NEW a \in Positions(p, t), NEW b \in Positions(p, u)
               PROVE  DevId[p][t][a] # DevId[p][u][b]
    BY DEF TablesDisjoint
  <1>1. p \in T!Phases /\ p \in 0 .. 8
    BY DEF OwnTables, PhaseIds, T!Phases, T!nphases
  <1>2. NThreads[p] = CASE p < 3 -> 1 [] p \in 3 .. 5 -> 6 [] OTHER -> 12
    BY <1>1 DEF OwnTables, T!nthreads
  <1>3. t \in 0 .. NThreads[p] - 1 /\ u \in 0 .. NThreads[p] - 1
    BY DEF Threads
  <1>4. a \in 0 .. 3 /\ b \in 0 .. 3
    <2>1. NDev[p][t] = 4 /\ NDev[p][u] = 4
      BY <1>1, <1>3 DEF OwnTables, T!ndev
    <2> QED  BY <2>1 DEF Positions
  <1> DEFINE Entry(v, c) == CASE p < 3 -> <<6, 10, 1, 11>>[c + 1]
                              [] p \in 3 .. 5 -> T!Pairs[v + 1][(c % 2) + 1]
                              [] OTHER -> v
  <1>5. DevId[p][t][a] = Entry(t, a) /\ DevId[p][u][b] = Entry(u, b)
    BY <1>1, <1>3, <1>4 DEF OwnTables, T!devid
  <1>6. CASE p < 3
    <2>1. NThreads[p] = 1
      BY <1>1, <1>2, <1>6
    <2> QED  BY <1>3, <2>1
  <1>7. CASE p \in 3 .. 5
    <2>1. NThreads[p] = 6 /\ ~(p < 3)
      BY <1>1, <1>2, <1>7
    <2>2. t \in 0 .. 5 /\ u \in 0 .. 5
      BY <1>3, <2>1
    <2>3. (a % 2) + 1 \in 1 .. 2 /\ (b % 2) + 1 \in 1 .. 2
      BY <1>4
    <2>4. Owner[Entry(t, a) + 1] = t /\ Owner[Entry(u, b) + 1] = u
      BY <1>7, <2>1, <2>2, <2>3, OwnerFacts
    <2> QED  BY <1>5, <2>4
  <1>8. CASE ~(p < 3) /\ p \notin 3 .. 5
    BY <1>5, <1>8
  <1> QED  BY <1>6, <1>7, <1>8

\* With its own phases and chains, whatever the sizes, the configurations and the
\* number of threads at work, the program keeps its chains apart.
THEOREM OwnThreadsApart == SynthAssumption /\ OwnTables => (Spec => []ChainsDisjoint)
  BY OwnTablesDisjoint, ThreadsApart
=============================================================================
