-------------------------- MODULE EspCaches_proofs --------------------------
(* Proofs about the flushes of the cache drivers, for any number of        *)
(* threads, caches and lines, any numbers of sets and ways.                *)
EXTENDS EspCaches, DataLemmas, FiniteSetTheorems, TLAPS

-----------------------------------------------------------------------------
(* The invariant                                                           *)

\* A private cache that no flush uses, and one that waits for the flush of L1.
Quiet(c) == ~cmd[c] /\ hw[c] = "idle"
Armed(c) == cmd[c] /\ hw[c] = "armed"

\* What the first loop leaves of a private cache.
Started(c) == IF Flushes(c) THEN Armed(c) ELSE Quiet(c)

\* The private caches of the list, and what is left of a walk.
L2List == Range(esp_private_cache_list)
Rest(t) == Range(todo[t])

\* The lists have no repetitions; what a call has seen is listed.
ListInv ==
    /\ IsInjective(esp_private_cache_list) /\ IsInjective(esp_cache_list)
    /\ \A t \in Threads : seen[t] \subseteq Listed

\* The mutex is held exactly while a thread walks the private caches.
HoldInv == \A t \in Threads : pc[t] \in L2Labels <=> list_lock = t

\* What the registers of a cache say of its hardware.
HwInv ==
    /\ \A c \in Caches : hw[c] \in {"armed", "sweeping"} => cmd[c] /\ ~done[c]
    /\ \A c \in L2s : hw[c] = "posted" => ~cmd[c]
    /\ \A b \in Llcs : hw[b] \in {"idle", "sweeping"} /\ (~cmd[b] => ~done[b])

\* A walk of the private caches: what is left of the list is not yet started in
\* the first loop, what is behind is quiet again in the second.
Walks(t) ==
    /\ todo[t] \in Seq(L2s) /\ IsInjective(todo[t]) /\ Rest(t) \subseteq L2List
    /\ \A c \in L2s \ L2List : Quiet(c)
    /\ pc[t] \in {"l2_start", "l2_set", "l1"} =>
         \A c \in L2List : c \notin Rest(t) \/ pc[t] = "l1" => Started(c)
    /\ pc[t] = "l2_start" => \A c \in Rest(t) : Quiet(c)
    /\ pc[t] = "l2_set" =>
         /\ todo[t] # <<>>
         /\ Flushes(Head(todo[t])) /\ hw[Head(todo[t])] \in {"posted", "armed"}
         /\ \A c \in Range(Tail(todo[t])) : Quiet(c)
    /\ pc[t] \in {"l2_check", "l2_wait"} =>
         \A c \in L2s : hw[c] \in {"idle", "sweeping"} /\ (c \notin Rest(t) => Quiet(c))
    /\ pc[t] = "l2_wait" => todo[t] # <<>>

\* Without a walk every private cache is quiet.
WalkInv ==
    /\ list_lock = NoThread => \A c \in L2s : Quiet(c)
    /\ \A t \in Threads : pc[t] \in L2Labels => Walks(t)

\* A bank is locked by the thread that flushes it.
BankInv ==
    /\ \A t \in Threads : pc[t] = "llc_lock" => todo[t] \in Seq(Llcs)
    /\ \A t \in Threads : pc[t] \in BankLabels =>
         /\ todo[t] \in Seq(Llcs) /\ todo[t] # <<>> /\ lock[Head(todo[t])] = t
    /\ \A b \in Llcs : lock[b] # NoThread =>
         pc[lock[b]] \in BankLabels /\ Head(todo[lock[b]]) = b
    /\ \A b \in Llcs : cmd[b] =>
         lock[b] # NoThread /\ pc[lock[b]] \in {"llc_wait", "llc_clear"}
    /\ \A t \in Threads : pc[t] = "llc_clear" => hw[Head(todo[t])] = "idle"

\* The call of the writer of the line has to reach the private cache of the line,
\* and its bank.
Private(x) == l2_of[x] \in seen[writer[x]]
Bank(x) == Private(x) /\ bank_of[x] \in seen[writer[x]] /\ loc[x] = "llc"

\* How far the line of a caller has come when its call has come so far.
Line(x) ==
    LET t == writer[x]
        c == l2_of[x]
        b == bank_of[x]
    IN  /\ pc[t] \in {"l2_check", "l2_wait"} /\ Private(x) /\ loc[x] = "l2" =>
             c \in Rest(t) /\ hw[c] = "sweeping" /\ x \in sweep[c]
        /\ pc[t] \in BankLabels \cup {"llc_lock", "flushed"} /\ Private(x) => loc[x] # "l2"
        /\ pc[t] \in {"llc_lock", "llc_flush"} /\ Bank(x) => b \in Rest(t)
        /\ pc[t] = "llc_wait" /\ Bank(x) =>
             \/ b \in Range(Tail(todo[t]))
             \/ b = Head(todo[t]) /\ hw[b] = "sweeping" /\ x \in sweep[b]
        /\ pc[t] = "llc_clear" /\ Bank(x) => b \in Range(Tail(todo[t]))
        /\ pc[t] = "flushed" /\ coherence[t] < LLC => ~Bank(x)

\* So it is for every line.
LineInv == \A x \in Lines : Line(x)

\* The inductive invariant.
IInv ==
    /\ TypeOK /\ NoBugOn
    /\ ListInv /\ HoldInv /\ HwInv /\ WalkInv /\ BankInv /\ LineInv

-----------------------------------------------------------------------------
(* Each action keeps the invariant                                         *)

USE DEF lists, registers, device, call, Goto, Walk, Advance

\* Call keeps the invariant.
LEMMA CallKeeps == ASSUME CachesAssumption, IInv, NEW t \in Threads, Call(t) PROVE IInv'
  <1>2. TypeOK'
    <2>1. PICK c \in {NONE, LLC} : coherence' = [coherence EXCEPT ![t] = c]
      BY DEF Call
    <2>2. coherence' \in [Threads -> NONE .. RECALL]
      BY <2>1 DEF IInv, TypeOK, NONE, LLC, RECALL
    <2>3. Listed \subseteq Caches
      BY DEF IInv, TypeOK, Listed, Caches, Range
    <2>4. seen' \in [Threads -> SUBSET Caches]
      BY <2>3 DEF IInv, TypeOK, Call
    <2> QED  BY <2>2, <2>4 DEF IInv, TypeOK, Labels, L2Labels, BankLabels, Call
  <1>3. NoBugOn'
    BY DEF IInv, TypeOK, NoBugOn, Call
  <1>4. ListInv'
    BY DEF IInv, TypeOK, ListInv, Listed, Call
  <1>5. HoldInv'
    BY DEF IInv, TypeOK, Labels, L2Labels, BankLabels, HoldInv, Call
  <1>6. HwInv'
    BY DEF IInv, TypeOK, HwInv, Call
  <1>7. WalkInv'
    BY DEF IInv, TypeOK, Labels, L2Labels, BankLabels, WalkInv, Walks, Quiet, Armed, Started,
           L2List, Rest, Call
  <1>8. BankInv'
    BY DEF IInv, TypeOK, Labels, L2Labels, BankLabels, BankInv, Call
  <1>9. LineInv'
    BY DEF IInv, TypeOK, Labels, L2Labels, BankLabels, LineInv, Line, Private, Bank, Rest, Call
  <1> QED  BY <1>2, <1>3, <1>4, <1>5, <1>6, <1>7, <1>8, <1>9 DEF IInv

\* L2Lock keeps the invariant.
LEMMA L2LockKeeps == ASSUME CachesAssumption, IInv, NEW t \in Threads, L2Lock(t) PROVE IInv'
  <1>2. TypeOK'
    BY DEF IInv, TypeOK, Labels, L2Labels, BankLabels, L2Lock
  <1>3. NoBugOn'
    BY DEF IInv, TypeOK, NoBugOn, L2Lock
  <1>4. ListInv'
    BY DEF IInv, TypeOK, ListInv, Listed, L2Lock
  <1>5. HoldInv'
    BY DEF IInv, TypeOK, Labels, L2Labels, BankLabels, HoldInv, L2Lock
  <1>6. HwInv'
    BY DEF IInv, TypeOK, HwInv, L2Lock
  <1>7. WalkInv'
    <2>1. /\ pc'[t] = "l2_start" /\ todo'[t] = esp_private_cache_list
          /\ UNCHANGED <<esp_private_cache_list, cmd, hw>> /\ list_lock' = t
      BY DEF IInv, TypeOK, L2Lock
    <2>2. \A u \in Threads : pc'[u] \in L2Labels => u = t
      BY DEF IInv, TypeOK, HoldInv, L2Lock
    <2>3. \A c \in L2s : Quiet(c) /\ Quiet(c)'
      BY <2>1 DEF IInv, WalkInv, L2Lock, Quiet
    <2>4. Range(esp_private_cache_list) \subseteq L2s
      BY DEF IInv, TypeOK, Range
    <2>5. Rest(t)' = L2List' /\ L2List' = L2List
      BY <2>1 DEF Rest, L2List
    <2>6. todo'[t] \in Seq(L2s) /\ IsInjective(todo'[t]) /\ t # NoThread
      BY <2>1 DEF IInv, TypeOK, ListInv, CachesAssumption
    <2> QED  BY <2>1, <2>2, <2>3, <2>4, <2>5, <2>6 DEF WalkInv, Walks, L2Labels, L2List
  <1>8. BankInv'
    BY DEF IInv, TypeOK, Labels, L2Labels, BankLabels, BankInv, L2Lock
  <1>9. LineInv'
    BY DEF IInv, TypeOK, Labels, L2Labels, BankLabels, LineInv, Line, Private, Bank, Rest,
       L2Lock
  <1> QED  BY <1>2, <1>3, <1>4, <1>5, <1>6, <1>7, <1>8, <1>9 DEF IInv

\* L2Start keeps the invariant.
LEMMA L2StartKeeps == ASSUME CachesAssumption, IInv, NEW t \in Threads, L2Start(t) PROVE IInv'
  <1>1. /\ todo[t] \in Seq(L2s) /\ todo[t] # <<>>
        /\ Head(todo[t]) \in L2s /\ Head(todo[t]) \in Rest(t) /\ Tail(todo[t]) \in Seq(L2s)
        /\ Rest(t) = {Head(todo[t])} \cup Range(Tail(todo[t]))
        /\ IsInjective(Tail(todo[t])) /\ Head(todo[t]) \notin Range(Tail(todo[t]))
    <2>1. todo[t] \in Seq(L2s) /\ todo[t] # <<>> /\ IsInjective(todo[t])
      BY DEF IInv, L2Start, WalkInv, Walks, BankInv, L2Labels, BankLabels
    <2> QED  BY <2>1, HeadTailRange, PopFacts DEF Rest
  <1>2. CASE ~cmd[Head(todo[t])] /\ Flushes(Head(todo[t]))
    <2>1. /\ pc[t] = "l2_start"
          /\ hw' = [hw EXCEPT ![Head(todo[t])] = "posted"] /\ pc' = [pc EXCEPT ![t] = "l2_set"]
          /\ UNCHANGED <<lists, list_lock, lock, registers, sweep, loc, call, todo>>
      BY <1>2 DEF L2Start
    <2>2. TypeOK'
      BY <1>1, <1>2, <2>1 DEF IInv, TypeOK, Labels, L2Labels, BankLabels
    <2>3. NoBugOn'
      BY <1>1, <1>2, <2>1 DEF IInv, TypeOK, NoBugOn
    <2>4. ListInv'
      BY <1>1, <1>2, <2>1 DEF IInv, TypeOK, ListInv, Listed
    <2>5. HoldInv'
      BY <1>1, <1>2, <2>1 DEF IInv, TypeOK, Labels, L2Labels, BankLabels, HoldInv
    <2>6. HwInv'
      BY <1>1, <1>2, <2>1 DEF IInv, TypeOK, HwInv
    <2>7. WalkInv'
      BY <1>1, <1>2, <2>1 DEF IInv, CachesAssumption, Caches, TypeOK, Labels, L2Labels,
             BankLabels, WalkInv, Walks, HoldInv, Quiet, Armed, Started, L2List, Rest
    <2>8. BankInv'
      BY <1>1, <1>2, <2>1 DEF IInv, TypeOK, Labels, L2Labels, BankLabels, BankInv
    <2>9. LineInv'
      BY <1>1, <1>2, <2>1 DEF IInv, TypeOK, Labels, L2Labels, BankLabels, LineInv, Line,
             ListInv, HwInv, WalkInv, Walks, HoldInv, BankInv, Listed, Private, Bank, Rest
    <2> QED  BY <2>2, <2>3, <2>4, <2>5, <2>6, <2>7, <2>8, <2>9 DEF IInv
  <1>3. CASE ~cmd[Head(todo[t])] /\ ~Flushes(Head(todo[t]))
    <2>1. /\ pc[t] = "l2_start"
          /\ todo' = [todo EXCEPT ![t] = Tail(todo[t])]
          /\ UNCHANGED <<lists, list_lock, lock, registers, sweep, loc, call, pc, hw>>
      BY <1>3 DEF L2Start
    <2>2. TypeOK'
      BY <1>1, <1>3, <2>1 DEF IInv, TypeOK
    <2>3. NoBugOn'
      BY <1>1, <1>3, <2>1 DEF IInv, TypeOK, NoBugOn
    <2>4. ListInv'
      BY <1>1, <1>3, <2>1 DEF IInv, TypeOK, ListInv, Listed
    <2>5. HoldInv'
      BY <1>1, <1>3, <2>1 DEF IInv, TypeOK, HoldInv
    <2>6. HwInv'
      BY <1>1, <1>3, <2>1 DEF IInv, TypeOK, HwInv
    <2>7. WalkInv'
      BY <1>1, <1>3, <2>1 DEF IInv, TypeOK, Labels, L2Labels, BankLabels, WalkInv, Walks,
             Quiet, Armed, Started, Flushes, L2List, Rest
    <2>8. BankInv'
      BY <1>1, <1>3, <2>1 DEF IInv, TypeOK, BankInv
    <2>9. LineInv'
      BY <1>1, <1>3, <2>1 DEF IInv, TypeOK, LineInv, Line, Private, Bank, Rest, Inside, Down
    <2> QED  BY <2>2, <2>3, <2>4, <2>5, <2>6, <2>7, <2>8, <2>9 DEF IInv
  <1>4. ~cmd[Head(todo[t])]
    BY <1>1 DEF IInv, L2Start, WalkInv, Walks, L2Labels, BankInv, BankLabels, Quiet
  <1> QED  BY <1>2, <1>3, <1>4

\* L2Set keeps the invariant.
LEMMA L2SetKeeps == ASSUME CachesAssumption, IInv, NEW t \in Threads, L2Set(t) PROVE IInv'
  <1>1. /\ todo[t] \in Seq(L2s) /\ todo[t] # <<>>
        /\ Head(todo[t]) \in L2s /\ Head(todo[t]) \in Rest(t) /\ Tail(todo[t]) \in Seq(L2s)
        /\ Rest(t) = {Head(todo[t])} \cup Range(Tail(todo[t]))
        /\ IsInjective(Tail(todo[t])) /\ Head(todo[t]) \notin Range(Tail(todo[t]))
    <2>1. todo[t] \in Seq(L2s) /\ todo[t] # <<>> /\ IsInjective(todo[t])
      BY DEF IInv, L2Set, WalkInv, Walks, BankInv, L2Labels, BankLabels
    <2> QED  BY <2>1, HeadTailRange, PopFacts DEF Rest
  <1>2. TypeOK'
    BY <1>1 DEF IInv, TypeOK, Labels, L2Labels, BankLabels, L2Set
  <1>3. NoBugOn'
    BY <1>1 DEF IInv, TypeOK, NoBugOn, L2Set
  <1>4. ListInv'
    BY <1>1 DEF IInv, TypeOK, ListInv, Listed, L2Set
  <1>5. HoldInv'
    BY <1>1 DEF IInv, TypeOK, Labels, L2Labels, BankLabels, HoldInv, L2Set
  <1>6. HwInv'
    BY <1>1 DEF IInv, TypeOK, HwInv, L2Set
  <1>7. WalkInv'
    BY <1>1 DEF IInv, TypeOK, Labels, L2Labels, BankLabels, WalkInv, Walks, HoldInv, HwInv,
           Quiet, Armed, Started, L2List, Rest, L2Set
  <1>8. BankInv'
    BY <1>1 DEF IInv, TypeOK, Labels, L2Labels, BankLabels, BankInv, L2Set
  <1>9. LineInv'
    BY <1>1 DEF IInv, TypeOK, Labels, L2Labels, BankLabels, LineInv, Line, Private, Bank,
           Rest, L2Set
  <1> QED  BY <1>2, <1>3, <1>4, <1>5, <1>6, <1>7, <1>8, <1>9 DEF IInv

\* L2StartDone keeps the invariant.
LEMMA L2StartDoneKeeps ==
    ASSUME CachesAssumption, IInv, NEW t \in Threads, L2StartDone(t)
    PROVE  IInv'
  <1>1. Rest(t) = {}
    BY DEF L2StartDone, Rest, Range
  <1>2. TypeOK'
    BY <1>1 DEF IInv, TypeOK, Labels, L2Labels, BankLabels, L2StartDone
  <1>3. NoBugOn'
    BY <1>1 DEF IInv, TypeOK, NoBugOn, L2StartDone
  <1>4. ListInv'
    BY <1>1 DEF IInv, TypeOK, ListInv, Listed, L2StartDone
  <1>5. HoldInv'
    BY <1>1 DEF IInv, TypeOK, Labels, L2Labels, BankLabels, HoldInv, L2StartDone
  <1>6. HwInv'
    BY <1>1 DEF IInv, TypeOK, HwInv, L2StartDone
  <1>7. WalkInv'
    BY <1>1 DEF IInv, TypeOK, Labels, L2Labels, BankLabels, WalkInv, Walks, Quiet, Armed,
           Started, L2List, Rest, L2StartDone
  <1>8. BankInv'
    BY <1>1 DEF IInv, TypeOK, Labels, L2Labels, BankLabels, BankInv, L2StartDone
  <1>9. LineInv'
    BY <1>1 DEF IInv, TypeOK, Labels, L2Labels, BankLabels, LineInv, Line, Private, Bank,
           Rest, L2StartDone
  <1> QED  BY <1>2, <1>3, <1>4, <1>5, <1>6, <1>7, <1>8, <1>9 DEF IInv

\* L1Flush keeps the invariant.
LEMMA L1FlushKeeps == ASSUME CachesAssumption, IInv, NEW t \in Threads, L1Flush(t) PROVE IInv'
  <1>2. TypeOK'
    BY DEF IInv, TypeOK, Labels, L2Labels, BankLabels, L1Flush, Inside
  <1>3. NoBugOn'
    BY DEF IInv, TypeOK, NoBugOn, L1Flush
  <1>4. ListInv'
    BY DEF IInv, TypeOK, ListInv, Listed, L1Flush
  <1>5. HoldInv'
    BY DEF IInv, TypeOK, Labels, L2Labels, BankLabels, HoldInv, L1Flush
  <1>6. HwInv'
    BY DEF IInv, CachesAssumption, Caches, TypeOK, Labels, L2Labels, BankLabels, HwInv, L1Flush
  <1>7. WalkInv'
    BY DEF IInv, CachesAssumption, Caches, TypeOK, Labels, L2Labels, BankLabels, WalkInv,
           Walks, HoldInv, HwInv, ListInv, Quiet, Armed, Started, L2List, Rest, L1Flush
  <1>8. BankInv'
    BY DEF IInv, CachesAssumption, Caches, TypeOK, Labels, L2Labels, BankLabels, BankInv,
       L1Flush
  <1>9. LineInv'
    <2>1. /\ pc[t] = "l1" /\ pc' = [pc EXCEPT ![t] = "l2_check"]
          /\ todo' = [todo EXCEPT ![t] = esp_private_cache_list]
          /\ UNCHANGED <<esp_private_cache_list, loc, seen, coherence>>
      BY DEF L1Flush
    <2>2. \A b \in Llcs : hw'[b] = hw[b] /\ sweep'[b] = sweep[b]
      BY DEF IInv, TypeOK, CachesAssumption, Caches, L1Flush
    <2>3. ASSUME NEW x \in Lines, writer[x] = t, Private(x), loc[x] = "l2"
          PROVE  l2_of[x] \in Rest(t)' /\ hw'[l2_of[x]] = "sweeping" /\ x \in sweep'[l2_of[x]]
      <3>1. l2_of[x] \in L2s /\ Flushes(l2_of[x])
        BY DEF CachesAssumption, Flushes
      <3>2. l2_of[x] \in L2List
        <4>1. l2_of[x] \in Listed /\ l2_of[x] \notin Llcs
          BY <3>1, <2>3 DEF IInv, ListInv, Private, CachesAssumption
        <4>2. Range(esp_cache_list) \subseteq Llcs
          BY DEF IInv, TypeOK, Range
        <4> QED  BY <4>1, <4>2 DEF Listed, L2List
      <3>3. hw[l2_of[x]] = "armed"
        BY <2>1, <3>1, <3>2 DEF IInv, WalkInv, Walks, L2Labels, Started, Armed
      <3>4. hw'[l2_of[x]] = "sweeping" /\ sweep'[l2_of[x]] = Inside(l2_of[x])
        BY <3>1, <3>3 DEF L1Flush, Caches
      <3> QED  BY <2>1, <2>3, <3>1, <3>2, <3>4 DEF IInv, TypeOK, Rest, L2List, Inside
    <2>4. ASSUME NEW x \in Lines, writer[x] # t, pc[writer[x]] \in {"l2_check", "l2_wait"}
          PROVE  FALSE
      BY <2>1, <2>4 DEF IInv, HoldInv, L2Labels, CachesAssumption
    <2> QED
      BY <2>1, <2>2, <2>3, <2>4 DEF IInv, TypeOK, BankLabels, LineInv, Line, BankInv,
             Private, Bank, Rest
  <1> QED  BY <1>2, <1>3, <1>4, <1>5, <1>6, <1>7, <1>8, <1>9 DEF IInv

\* L2Check keeps the invariant.
LEMMA L2CheckKeeps == ASSUME CachesAssumption, IInv, NEW t \in Threads, L2Check(t) PROVE IInv'
  <1>1. /\ todo[t] \in Seq(L2s) /\ todo[t] # <<>>
        /\ Head(todo[t]) \in L2s /\ Head(todo[t]) \in Rest(t) /\ Tail(todo[t]) \in Seq(L2s)
        /\ Rest(t) = {Head(todo[t])} \cup Range(Tail(todo[t]))
        /\ IsInjective(Tail(todo[t])) /\ Head(todo[t]) \notin Range(Tail(todo[t]))
    <2>1. todo[t] \in Seq(L2s) /\ todo[t] # <<>> /\ IsInjective(todo[t])
      BY DEF IInv, L2Check, WalkInv, Walks, BankInv, L2Labels, BankLabels
    <2> QED  BY <2>1, HeadTailRange, PopFacts DEF Rest
  <1>2. CASE cmd[Head(todo[t])]
    <2>1. /\ pc[t] = "l2_check"
          /\ pc' = [pc EXCEPT ![t] = "l2_wait"]
          /\ UNCHANGED <<lists, list_lock, lock, device, call, todo>>
      BY <1>2 DEF L2Check
    <2>2. TypeOK'
      BY <1>1, <1>2, <2>1 DEF IInv, TypeOK, Labels, L2Labels, BankLabels
    <2>3. NoBugOn'
      BY <1>1, <1>2, <2>1 DEF IInv, TypeOK, NoBugOn
    <2>4. ListInv'
      BY <1>1, <1>2, <2>1 DEF IInv, TypeOK, ListInv, Listed
    <2>5. HoldInv'
      BY <1>1, <1>2, <2>1 DEF IInv, TypeOK, Labels, L2Labels, BankLabels, HoldInv
    <2>6. HwInv'
      BY <1>1, <1>2, <2>1 DEF IInv, TypeOK, HwInv
    <2>7. WalkInv'
      BY <1>1, <1>2, <2>1 DEF IInv, TypeOK, Labels, L2Labels, BankLabels, WalkInv, Walks,
             Quiet, Armed, Started, Flushes, L2List, Rest
    <2>8. BankInv'
      BY <1>1, <1>2, <2>1 DEF IInv, TypeOK, Labels, L2Labels, BankLabels, BankInv
    <2>9. LineInv'
      BY <1>1, <1>2, <2>1 DEF IInv, TypeOK, Labels, L2Labels, BankLabels, LineInv, Line,
             Private, Bank, Rest
    <2> QED  BY <2>2, <2>3, <2>4, <2>5, <2>6, <2>7, <2>8, <2>9 DEF IInv
  <1>3. CASE ~cmd[Head(todo[t])]
    <2>1. /\ pc[t] = "l2_check"
          /\ todo' = [todo EXCEPT ![t] = Tail(todo[t])]
          /\ UNCHANGED <<lists, list_lock, lock, device, call, pc>>
      BY <1>3 DEF L2Check
    <2>2. TypeOK'
      BY <1>1, <1>3, <2>1 DEF IInv, TypeOK
    <2>3. NoBugOn'
      BY <1>1, <1>3, <2>1 DEF IInv, TypeOK, NoBugOn
    <2>4. ListInv'
      BY <1>1, <1>3, <2>1 DEF IInv, TypeOK, ListInv, Listed
    <2>5. HoldInv'
      BY <1>1, <1>3, <2>1 DEF IInv, TypeOK, HoldInv
    <2>6. HwInv'
      BY <1>1, <1>3, <2>1 DEF IInv, TypeOK, HwInv
    <2>7. WalkInv'
      BY <1>1, <1>3, <2>1 DEF IInv, CachesAssumption, Caches, TypeOK, Labels, L2Labels,
             BankLabels, WalkInv, Walks, HoldInv, HwInv, Quiet, L2List, Rest
    <2>8. BankInv'
      BY <1>1, <1>3, <2>1 DEF IInv, TypeOK, BankInv
    <2>9. LineInv'
      BY <1>1, <1>3, <2>1 DEF IInv, TypeOK, LineInv, Line, ListInv, HwInv, WalkInv, Walks,
             HoldInv, BankInv, Listed, Private, Bank, Rest
    <2> QED  BY <2>2, <2>3, <2>4, <2>5, <2>6, <2>7, <2>8, <2>9 DEF IInv
  <1> QED  BY <1>2, <1>3

\* L2Wait keeps the invariant.
LEMMA L2WaitKeeps == ASSUME CachesAssumption, IInv, NEW t \in Threads, L2Wait(t) PROVE IInv'
  <1>1. /\ todo[t] \in Seq(L2s) /\ todo[t] # <<>>
        /\ Head(todo[t]) \in L2s /\ Head(todo[t]) \in Rest(t) /\ Tail(todo[t]) \in Seq(L2s)
        /\ Rest(t) = {Head(todo[t])} \cup Range(Tail(todo[t]))
        /\ IsInjective(Tail(todo[t])) /\ Head(todo[t]) \notin Range(Tail(todo[t]))
    <2>1. todo[t] \in Seq(L2s) /\ todo[t] # <<>> /\ IsInjective(todo[t])
      BY DEF IInv, L2Wait, WalkInv, Walks, BankInv, L2Labels, BankLabels
    <2> QED  BY <2>1, HeadTailRange, PopFacts DEF Rest
  <1>2. TypeOK'
    BY <1>1 DEF IInv, TypeOK, Labels, L2Labels, BankLabels, L2Wait, ClearCommand
  <1>3. NoBugOn'
    BY <1>1 DEF IInv, TypeOK, NoBugOn, L2Wait, ClearCommand
  <1>4. ListInv'
    BY <1>1 DEF IInv, TypeOK, ListInv, Listed, L2Wait, ClearCommand
  <1>5. HoldInv'
    BY <1>1 DEF IInv, TypeOK, Labels, L2Labels, BankLabels, HoldInv, L2Wait, ClearCommand
  <1>6. HwInv'
    BY <1>1 DEF IInv, TypeOK, HwInv, L2Wait, ClearCommand
  <1>7. WalkInv'
    BY <1>1 DEF IInv, CachesAssumption, Caches, TypeOK, Labels, L2Labels, BankLabels,
           WalkInv, Walks, HoldInv, HwInv, ListInv, Quiet, L2List, Rest, L2Wait,
           ClearCommand
  <1>8. BankInv'
    BY <1>1 DEF IInv, TypeOK, Labels, L2Labels, BankLabels, BankInv, L2Wait, ClearCommand
  <1>9. LineInv'
    BY <1>1 DEF IInv, TypeOK, Labels, L2Labels, BankLabels, LineInv, Line, ListInv, HwInv,
           WalkInv, Walks, HoldInv, BankInv, Listed, Private, Bank, Rest, L2List, L2Wait
  <1> QED  BY <1>2, <1>3, <1>4, <1>5, <1>6, <1>7, <1>8, <1>9 DEF IInv

\* L2Done keeps the invariant.
LEMMA L2DoneKeeps == ASSUME CachesAssumption, IInv, NEW t \in Threads, L2Done(t) PROVE IInv'
  <1>1. Rest(t) = {}
    BY DEF L2Done, Rest, Range
  <1>2. CASE coherence[t] < LLC
    <2>1. /\ pc[t] = "l2_check" /\ list_lock' = NoThread
          /\ pc' = [pc EXCEPT ![t] = "llc_lock"] /\ todo' = [todo EXCEPT ![t] = esp_cache_list]
          /\ UNCHANGED <<lists, lock, device, call>>
      BY <1>2 DEF L2Done
    <2>2. TypeOK'
      BY <1>1, <1>2, <2>1 DEF IInv, TypeOK, Labels, L2Labels, BankLabels
    <2>3. NoBugOn'
      BY <1>1, <1>2, <2>1 DEF IInv, TypeOK, NoBugOn
    <2>4. ListInv'
      BY <1>1, <1>2, <2>1 DEF IInv, TypeOK, ListInv, Listed
    <2>5. HoldInv'
      BY <1>1, <1>2, <2>1 DEF IInv, TypeOK, Labels, L2Labels, BankLabels, HoldInv
    <2>6. HwInv'
      BY <1>1, <1>2, <2>1 DEF IInv, TypeOK, HwInv
    <2>7. WalkInv'
      BY <1>1, <1>2, <2>1 DEF IInv, TypeOK, Labels, L2Labels, BankLabels, WalkInv, Walks,
             Quiet, Armed, Started, L2List, Rest
    <2>8. BankInv'
      BY <1>1, <1>2, <2>1 DEF IInv, TypeOK, Labels, L2Labels, BankLabels, BankInv
    <2>9. LineInv'
      <3>1. Range(esp_private_cache_list) \subseteq L2s
        BY DEF IInv, TypeOK, Range
      <3>2. ASSUME NEW x \in Lines, writer[x] = t, Private(x)
            PROVE  loc[x] # "l2" /\ (Bank(x) => bank_of[x] \in Range(esp_cache_list))
        BY <1>1, <2>1, <3>1, <3>2 DEF IInv, LineInv, Line, ListInv, Listed, Private, Bank
      <3>3. \A x \in Lines : (Private(x)' <=> Private(x)) /\ (Bank(x)' <=> Bank(x))
        BY <2>1 DEF Private, Bank
      <3>4. pc'[t] = "llc_lock" /\ Range(todo'[t]) = Range(esp_cache_list)
        BY <2>1 DEF IInv, TypeOK, Rest
      <3>5. \A u \in Threads : u # t =>
                pc'[u] = pc[u] /\ todo'[u] = todo[u] /\ Rest(u)' = Rest(u)
        BY <2>1 DEF IInv, TypeOK, Rest
      <3>6. UNCHANGED <<loc, hw, sweep, coherence>>
        BY <2>1
      <3>7. ASSUME NEW x \in Lines PROVE Line(x)'
        <4>1. Line(x) /\ writer[x] \in Threads
          BY DEF IInv, LineInv, CachesAssumption
        <4>2. CASE writer[x] = t
          <5>1. Private(x)' => loc'[x] # "l2"
            BY <4>2, <3>2, <3>3, <3>6
          <5>2. Bank(x)' => bank_of[x] \in Rest(t)'
            BY <4>2, <3>2, <3>3, <3>4, <3>6 DEF Bank, Rest
          <5>3. pc'[writer[x]] = "llc_lock"
            BY <4>2, <3>4
          <5> QED  BY <5>1, <5>2, <5>3, <4>2 DEF Line, BankLabels
        <4>3. CASE writer[x] # t
          BY <4>1, <4>3, <3>3, <3>5, <3>6 DEF Line, Rest
        <4> QED  BY <4>2, <4>3
      <3> QED  BY <3>7 DEF LineInv
    <2> QED  BY <2>2, <2>3, <2>4, <2>5, <2>6, <2>7, <2>8, <2>9 DEF IInv
  <1>3. CASE ~(coherence[t] < LLC)
    <2>1. /\ pc[t] = "l2_check" /\ list_lock' = NoThread
          /\ pc' = [pc EXCEPT ![t] = "flushed"]
          /\ UNCHANGED <<lists, lock, device, call, todo>>
      BY <1>3 DEF L2Done
    <2>2. TypeOK'
      BY <1>1, <1>3, <2>1 DEF IInv, TypeOK, Labels, L2Labels, BankLabels
    <2>3. NoBugOn'
      BY <1>1, <1>3, <2>1 DEF IInv, TypeOK, NoBugOn
    <2>4. ListInv'
      BY <1>1, <1>3, <2>1 DEF IInv, TypeOK, ListInv, Listed
    <2>5. HoldInv'
      BY <1>1, <1>3, <2>1 DEF IInv, TypeOK, Labels, L2Labels, BankLabels, HoldInv
    <2>6. HwInv'
      BY <1>1, <1>3, <2>1 DEF IInv, TypeOK, HwInv
    <2>7. WalkInv'
      BY <1>1, <1>3, <2>1 DEF IInv, TypeOK, Labels, L2Labels, BankLabels, WalkInv, Walks,
             Quiet, Armed, Started, L2List, Rest
    <2>8. BankInv'
      BY <1>1, <1>3, <2>1 DEF IInv, TypeOK, Labels, L2Labels, BankLabels, BankInv
    <2>9. LineInv'
      BY <1>1, <1>3, <2>1 DEF IInv, TypeOK, LineInv, Line, Private, Bank, Rest, Inside, Down
    <2> QED  BY <2>2, <2>3, <2>4, <2>5, <2>6, <2>7, <2>8, <2>9 DEF IInv
  <1> QED  BY <1>2, <1>3

\* BankLock keeps the invariant.
LEMMA BankLockKeeps == ASSUME CachesAssumption, IInv, NEW t \in Threads, BankLock(t) PROVE IInv'
  <1>1. /\ todo[t] \in Seq(Llcs) /\ todo[t] # <<>>
        /\ Head(todo[t]) \in Llcs /\ Head(todo[t]) \in Rest(t) /\ Tail(todo[t]) \in Seq(Llcs)
        /\ Rest(t) = {Head(todo[t])} \cup Range(Tail(todo[t]))

    <2>1. todo[t] \in Seq(Llcs) /\ todo[t] # <<>>
      BY DEF IInv, BankLock, WalkInv, Walks, BankInv
    <2> QED  BY <2>1, HeadTailRange DEF Rest
  <1>2. TypeOK'
    BY <1>1 DEF IInv, TypeOK, Labels, L2Labels, BankLabels, BankLock
  <1>3. NoBugOn'
    BY <1>1 DEF IInv, TypeOK, NoBugOn, BankLock
  <1>4. ListInv'
    BY <1>1 DEF IInv, TypeOK, ListInv, Listed, BankLock
  <1>5. HoldInv'
    BY <1>1 DEF IInv, TypeOK, Labels, L2Labels, BankLabels, HoldInv, BankLock
  <1>6. HwInv'
    BY <1>1 DEF IInv, TypeOK, HwInv, BankLock
  <1>7. WalkInv'
    BY <1>1 DEF IInv, TypeOK, Labels, L2Labels, BankLabels, WalkInv, Walks, Quiet, Armed,
           Started, L2List, Rest, BankLock
  <1>8. BankInv'
    BY <1>1 DEF IInv, TypeOK, Labels, L2Labels, BankLabels, BankInv, BankLock
  <1>9. LineInv'
    BY <1>1 DEF IInv, TypeOK, LineInv, Line, Private, Bank, Rest, Inside, Down, BankLock
  <1> QED  BY <1>2, <1>3, <1>4, <1>5, <1>6, <1>7, <1>8, <1>9 DEF IInv

\* BankInterrupted keeps the invariant.
LEMMA BankInterruptedKeeps ==
    ASSUME CachesAssumption, IInv, NEW t \in Threads, BankInterrupted(t)
    PROVE  IInv'
  <1>2. TypeOK'
    BY DEF IInv, CachesAssumption, Caches, TypeOK, Labels, L2Labels, BankLabels, NONE,
           RECALL, BankInterrupted, Leave, RECALL
  <1>3. NoBugOn'
    BY DEF IInv, TypeOK, NoBugOn, BankInterrupted, Leave
  <1>4. ListInv'
    BY DEF IInv, TypeOK, ListInv, Listed, BankInterrupted, Leave
  <1>5. HoldInv'
    BY DEF IInv, TypeOK, Labels, L2Labels, BankLabels, HoldInv, BankInterrupted, Leave
  <1>6. HwInv'
    BY DEF IInv, TypeOK, HwInv, BankInterrupted, Leave
  <1>7. WalkInv'
    BY DEF IInv, TypeOK, Labels, L2Labels, BankLabels, WalkInv, Walks, Quiet, Armed, Started,
           L2List, Rest, BankInterrupted, Leave
  <1>8. BankInv'
    BY DEF IInv, TypeOK, Labels, L2Labels, BankLabels, BankInv, BankInterrupted, Leave
  <1>9. LineInv'
    BY DEF IInv, TypeOK, LineInv, Line, Private, Bank, Rest, Inside, Down, BankInterrupted,
       Leave
  <1> QED  BY <1>2, <1>3, <1>4, <1>5, <1>6, <1>7, <1>8, <1>9 DEF IInv

\* BankFlush keeps the invariant.
LEMMA BankFlushKeeps == ASSUME CachesAssumption, IInv, NEW t \in Threads, BankFlush(t) PROVE IInv'
  <1>1. /\ todo[t] \in Seq(Llcs) /\ todo[t] # <<>>
        /\ Head(todo[t]) \in Llcs /\ Head(todo[t]) \in Rest(t) /\ Tail(todo[t]) \in Seq(Llcs)
        /\ Rest(t) = {Head(todo[t])} \cup Range(Tail(todo[t]))

    <2>1. todo[t] \in Seq(Llcs) /\ todo[t] # <<>>
      BY DEF IInv, BankFlush, WalkInv, Walks, BankInv, L2Labels, BankLabels
    <2> QED  BY <2>1, HeadTailRange DEF Rest
  <1>2. CASE ~cmd[Head(todo[t])]
    <2>1. /\ pc[t] = "llc_flush"
          /\ cmd' = [cmd EXCEPT ![Head(todo[t])] = TRUE]
          /\ hw' = [hw EXCEPT ![Head(todo[t])] = "sweeping"]
          /\ sweep' = [sweep EXCEPT ![Head(todo[t])] = Inside(Head(todo[t]))]
          /\ pc' = [pc EXCEPT ![t] = "llc_wait"]
          /\ UNCHANGED <<lists, list_lock, lock, done, loc, todo, call>>
      BY <1>2 DEF BankFlush
    <2>2. TypeOK'
      BY <1>1, <1>2, <2>1 DEF IInv, TypeOK, Labels, L2Labels, BankLabels, Inside
    <2>3. NoBugOn'
      BY <1>1, <1>2, <2>1 DEF IInv, TypeOK, NoBugOn
    <2>4. ListInv'
      BY <1>1, <1>2, <2>1 DEF IInv, TypeOK, ListInv, Listed
    <2>5. HoldInv'
      BY <1>1, <1>2, <2>1 DEF IInv, TypeOK, Labels, L2Labels, BankLabels, HoldInv
    <2>6. HwInv'
      BY <1>1, <1>2, <2>1 DEF IInv, TypeOK, HwInv
    <2>7. WalkInv'
      <3>1. \A c \in L2s : hw'[c] = hw[c] /\ cmd'[c] = cmd[c]
        BY <1>1, <2>1 DEF IInv, TypeOK, CachesAssumption, Caches
      <3>2. \A c \in L2s : (Quiet(c)' <=> Quiet(c)) /\ (Started(c)' <=> Started(c))
        BY <3>1 DEF Quiet, Started, Armed, Flushes
      <3>3. \A u \in Threads : pc'[u] \in L2Labels \/ pc[u] \in L2Labels => pc'[u] = pc[u]
        BY <2>1 DEF IInv, TypeOK, L2Labels
      <3>4. UNCHANGED <<list_lock, todo, esp_private_cache_list>>
        BY <2>1
      <3>5. Range(esp_private_cache_list) \subseteq L2s
        BY DEF IInv, TypeOK, Range
      <3>6. \A u \in Threads : todo[u] \in Seq(L2s) /\ todo[u] # <<>> => Head(todo[u]) \in L2s
        BY HeadTailRange
      <3>7. \A u \in Threads : todo[u] \in Seq(L2s) /\ todo[u] # <<>> =>
                Range(todo[u]) \subseteq L2s /\ Range(Tail(todo[u])) \subseteq L2s
        BY HeadTailRange DEF Range
      <3>8. \A u \in Threads : Rest(u)' = Rest(u) /\ L2List' = L2List
        BY <3>4 DEF Rest, L2List
      <3>9. WalkInv /\ L2List \subseteq L2s
        BY <3>5 DEF IInv, L2List
      <3>10. ASSUME NEW u \in Threads, pc'[u] \in L2Labels PROVE Walks(u)'
        <4>1. Walks(u) /\ pc'[u] = pc[u]
          BY <3>3, <3>9, <3>10 DEF WalkInv
        <4> QED  BY <4>1, <3>1, <3>2, <3>4, <3>6, <3>7, <3>8, <3>9 DEF Walks, L2Labels, Rest
      <3> QED  BY <3>2, <3>4, <3>9, <3>10 DEF WalkInv
    <2>8. BankInv'
      BY <1>1, <1>2, <2>1 DEF IInv, TypeOK, Labels, L2Labels, BankLabels, BankInv
    <2>9. LineInv'
      BY <1>1, <1>2, <2>1 DEF IInv, TypeOK, Labels, L2Labels, BankLabels, LineInv, Line,
             Private, Bank, Rest, Inside
    <2> QED  BY <2>2, <2>3, <2>4, <2>5, <2>6, <2>7, <2>8, <2>9 DEF IInv
  <1>3. ~cmd[Head(todo[t])]
    BY <1>1 DEF IInv, BankFlush, WalkInv, Walks, L2Labels, BankInv, BankLabels, Quiet
  <1> QED  BY <1>2, <1>3

\* BankWait keeps the invariant.
LEMMA BankWaitKeeps == ASSUME CachesAssumption, IInv, NEW t \in Threads, BankWait(t) PROVE IInv'
  <1>1. /\ todo[t] \in Seq(Llcs) /\ todo[t] # <<>>
        /\ Head(todo[t]) \in Llcs /\ Head(todo[t]) \in Rest(t) /\ Tail(todo[t]) \in Seq(Llcs)
        /\ Rest(t) = {Head(todo[t])} \cup Range(Tail(todo[t]))

    <2>1. todo[t] \in Seq(Llcs) /\ todo[t] # <<>>
      BY DEF IInv, BankWait, WalkInv, Walks, BankInv, L2Labels, BankLabels
    <2> QED  BY <2>1, HeadTailRange DEF Rest
  <1>2. TypeOK'
    BY <1>1 DEF IInv, TypeOK, Labels, L2Labels, BankLabels, BankWait
  <1>3. NoBugOn'
    BY <1>1 DEF IInv, TypeOK, NoBugOn, BankWait
  <1>4. ListInv'
    BY <1>1 DEF IInv, TypeOK, ListInv, Listed, BankWait
  <1>5. HoldInv'
    BY <1>1 DEF IInv, TypeOK, Labels, L2Labels, BankLabels, HoldInv, BankWait
  <1>6. HwInv'
    BY <1>1 DEF IInv, TypeOK, HwInv, BankWait
  <1>7. WalkInv'
    BY <1>1 DEF IInv, TypeOK, Labels, L2Labels, BankLabels, WalkInv, Walks, Quiet, Armed,
           Started, L2List, Rest, BankWait
  <1>8. BankInv'
    BY <1>1 DEF IInv, CachesAssumption, Caches, TypeOK, Labels, L2Labels, BankLabels,
           BankInv, HwInv, BankWait
  <1>9. LineInv'
    BY <1>1 DEF IInv, TypeOK, Labels, L2Labels, BankLabels, LineInv, Line, ListInv, HwInv,
           WalkInv, Walks, HoldInv, BankInv, Listed, Private, Bank, Rest, BankWait
  <1> QED  BY <1>2, <1>3, <1>4, <1>5, <1>6, <1>7, <1>8, <1>9 DEF IInv

\* BankClear keeps the invariant.
LEMMA BankClearKeeps == ASSUME CachesAssumption, IInv, NEW t \in Threads, BankClear(t) PROVE IInv'
  <1>1. /\ todo[t] \in Seq(Llcs) /\ todo[t] # <<>>
        /\ Head(todo[t]) \in Llcs /\ Head(todo[t]) \in Rest(t) /\ Tail(todo[t]) \in Seq(Llcs)
        /\ Rest(t) = {Head(todo[t])} \cup Range(Tail(todo[t]))

    <2>1. todo[t] \in Seq(Llcs) /\ todo[t] # <<>>
      BY DEF IInv, BankClear, WalkInv, Walks, BankInv, L2Labels, BankLabels
    <2> QED  BY <2>1, HeadTailRange DEF Rest
  <1>2. TypeOK'
    BY <1>1 DEF IInv, TypeOK, Labels, L2Labels, BankLabels, BankClear, ClearCommand
  <1>3. NoBugOn'
    BY <1>1 DEF IInv, TypeOK, NoBugOn, BankClear, ClearCommand
  <1>4. ListInv'
    BY <1>1 DEF IInv, TypeOK, ListInv, Listed, BankClear, ClearCommand
  <1>5. HoldInv'
    BY <1>1 DEF IInv, TypeOK, Labels, L2Labels, BankLabels, HoldInv, BankClear, ClearCommand
  <1>6. HwInv'
    BY <1>1 DEF IInv, TypeOK, HwInv, HoldInv, WalkInv, Walks, BankInv, Quiet, BankClear,
           ClearCommand
  <1>7. WalkInv'
    BY <1>1 DEF IInv, TypeOK, Labels, L2Labels, BankLabels, WalkInv, Walks, HoldInv, HwInv,
           ListInv, Quiet, Armed, Started, L2List, Rest, BankClear, ClearCommand
  <1>8. BankInv'
    BY <1>1 DEF IInv, CachesAssumption, Caches, TypeOK, Labels, L2Labels, BankLabels,
           BankInv, BankClear, ClearCommand
  <1>9. LineInv'
    BY <1>1 DEF IInv, TypeOK, Labels, L2Labels, BankLabels, LineInv, Line, Private, Bank,
           Rest, BankClear
  <1> QED  BY <1>2, <1>3, <1>4, <1>5, <1>6, <1>7, <1>8, <1>9 DEF IInv

\* BanksDone keeps the invariant.
LEMMA BanksDoneKeeps == ASSUME CachesAssumption, IInv, NEW t \in Threads, BanksDone(t) PROVE IInv'
  <1>1. Rest(t) = {}
    BY DEF BanksDone, Rest, Range
  <1>2. TypeOK'
    BY <1>1 DEF IInv, TypeOK, Labels, L2Labels, BankLabels, BanksDone
  <1>3. NoBugOn'
    BY <1>1 DEF IInv, TypeOK, NoBugOn, BanksDone
  <1>4. ListInv'
    BY <1>1 DEF IInv, TypeOK, ListInv, Listed, BanksDone
  <1>5. HoldInv'
    BY <1>1 DEF IInv, TypeOK, Labels, L2Labels, BankLabels, HoldInv, BanksDone
  <1>6. HwInv'
    BY <1>1 DEF IInv, TypeOK, HwInv, BanksDone
  <1>7. WalkInv'
    BY <1>1 DEF IInv, TypeOK, Labels, L2Labels, BankLabels, WalkInv, Walks, Quiet, Armed,
           Started, L2List, Rest, BanksDone
  <1>8. BankInv'
    BY <1>1 DEF IInv, TypeOK, Labels, L2Labels, BankLabels, BankInv, BanksDone
  <1>9. LineInv'
    BY <1>1 DEF IInv, TypeOK, LineInv, Line, Private, Bank, Rest, Inside, Down, BanksDone
  <1> QED  BY <1>2, <1>3, <1>4, <1>5, <1>6, <1>7, <1>8, <1>9 DEF IInv

\* Return keeps the invariant.
LEMMA ReturnKeeps == ASSUME CachesAssumption, IInv, NEW t \in Threads, Return(t) PROVE IInv'
  <1>2. TypeOK'
    BY DEF IInv, CachesAssumption, Caches, TypeOK, Labels, L2Labels, BankLabels, NONE,
           RECALL, Return, Leave, RECALL
  <1>3. NoBugOn'
    BY DEF IInv, TypeOK, NoBugOn, Return, Leave
  <1>4. ListInv'
    BY DEF IInv, TypeOK, ListInv, Listed, Return, Leave
  <1>5. HoldInv'
    BY DEF IInv, TypeOK, Labels, L2Labels, BankLabels, HoldInv, Return, Leave
  <1>6. HwInv'
    BY DEF IInv, TypeOK, HwInv, Return, Leave
  <1>7. WalkInv'
    BY DEF IInv, TypeOK, Labels, L2Labels, BankLabels, WalkInv, Walks, Quiet, Armed, Started,
           L2List, Rest, Return, Leave
  <1>8. BankInv'
    BY DEF IInv, TypeOK, Labels, L2Labels, BankLabels, BankInv, Return, Leave
  <1>9. LineInv'
    BY DEF IInv, TypeOK, LineInv, Line, Private, Bank, Rest, Inside, Down, Return, Leave
  <1> QED  BY <1>2, <1>3, <1>4, <1>5, <1>6, <1>7, <1>8, <1>9 DEF IInv

\* ProbeL2 keeps the invariant.
LEMMA ProbeL2Keeps == ASSUME CachesAssumption, IInv, NEW c \in L2s, ProbeL2(c) PROVE IInv'
  <1>1. /\ esp_private_cache_list' \in Seq(L2s) /\ IsInjective(esp_private_cache_list')
        /\ Range(esp_private_cache_list') = {c} \cup Range(esp_private_cache_list)
    BY PushFacts DEF IInv, TypeOK, ListInv, Listed, ProbeL2
  <1>2. TypeOK'
    BY <1>1 DEF IInv, TypeOK, ProbeL2
  <1>3. NoBugOn'
    BY <1>1 DEF IInv, TypeOK, NoBugOn, ProbeL2
  <1>4. ListInv'
    BY <1>1 DEF IInv, TypeOK, ListInv, Listed, ProbeL2
  <1>5. HoldInv'
    BY <1>1 DEF IInv, TypeOK, HoldInv, ProbeL2
  <1>6. HwInv'
    BY <1>1 DEF IInv, TypeOK, HwInv, ProbeL2
  <1>7. WalkInv'
    BY <1>1 DEF IInv, TypeOK, WalkInv, Walks, HoldInv, HwInv, Quiet, ProbeL2
  <1>8. BankInv'
    BY <1>1 DEF IInv, TypeOK, BankInv, ProbeL2
  <1>9. LineInv'
    BY <1>1 DEF IInv, TypeOK, LineInv, Line, Private, Bank, Rest, Inside, Down, ProbeL2
  <1> QED  BY <1>2, <1>3, <1>4, <1>5, <1>6, <1>7, <1>8, <1>9 DEF IInv

\* RemoveL2 keeps the invariant.
LEMMA RemoveL2Keeps == ASSUME CachesAssumption, IInv, NEW c \in L2s, RemoveL2(c) PROVE IInv'
  <1>1. /\ esp_private_cache_list' \in Seq(L2s) /\ IsInjective(esp_private_cache_list')
        /\ Range(esp_private_cache_list') = Range(esp_private_cache_list) \ {c}
    <2>1. PICK i \in DOMAIN esp_private_cache_list :
            /\ esp_private_cache_list[i] = c
            /\ esp_private_cache_list' = RemoveAt(esp_private_cache_list, i)
      BY DEF RemoveL2
    <2>2. esp_private_cache_list \in Seq(L2s) /\ IsInjective(esp_private_cache_list)
      BY DEF IInv, TypeOK, ListInv
    <2>3. /\ RemoveAt(esp_private_cache_list, i) \in Seq(L2s)
          /\ IsInjective(RemoveAt(esp_private_cache_list, i))
          /\ Range(RemoveAt(esp_private_cache_list, i)) =
               Range(esp_private_cache_list) \ {esp_private_cache_list[i]}
      BY <2>2, DelFacts DEF RemoveAt
    <2> QED  BY <2>1, <2>3
  <1>2. TypeOK'
    BY <1>1 DEF IInv, TypeOK, RemoveL2, RemoveAt
  <1>3. NoBugOn'
    BY <1>1 DEF IInv, TypeOK, NoBugOn, RemoveL2, RemoveAt
  <1>4. ListInv'
    BY <1>1 DEF IInv, TypeOK, ListInv, Listed, RemoveL2, RemoveAt
  <1>5. HoldInv'
    BY <1>1 DEF IInv, TypeOK, HoldInv, RemoveL2, RemoveAt
  <1>6. HwInv'
    BY <1>1 DEF IInv, TypeOK, HwInv, RemoveL2, RemoveAt
  <1>7. WalkInv'
    BY <1>1 DEF IInv, TypeOK, WalkInv, Walks, HoldInv, HwInv, ListInv, Quiet, RemoveL2
  <1>8. BankInv'
    BY <1>1 DEF IInv, TypeOK, BankInv, RemoveL2, RemoveAt
  <1>9. LineInv'
    BY <1>1 DEF IInv, TypeOK, LineInv, Line, Private, Bank, Rest, Inside, Down, RemoveL2,
       RemoveAt
  <1> QED  BY <1>2, <1>3, <1>4, <1>5, <1>6, <1>7, <1>8, <1>9 DEF IInv

\* ProbeBank keeps the invariant.
LEMMA ProbeBankKeeps == ASSUME CachesAssumption, IInv, NEW b \in Llcs, ProbeBank(b) PROVE IInv'
  <1>1. /\ esp_cache_list' \in Seq(Llcs) /\ IsInjective(esp_cache_list')
        /\ Range(esp_cache_list') = {b} \cup Range(esp_cache_list)
    BY PushFacts DEF IInv, TypeOK, ListInv, Listed, ProbeBank
  <1>2. TypeOK'
    BY <1>1 DEF IInv, TypeOK, ProbeBank
  <1>3. NoBugOn'
    BY <1>1 DEF IInv, TypeOK, NoBugOn, ProbeBank
  <1>4. ListInv'
    BY <1>1 DEF IInv, TypeOK, ListInv, Listed, ProbeBank
  <1>5. HoldInv'
    BY <1>1 DEF IInv, TypeOK, HoldInv, ProbeBank
  <1>6. HwInv'
    BY <1>1 DEF IInv, TypeOK, HwInv, ProbeBank
  <1>7. WalkInv'
    BY <1>1 DEF IInv, TypeOK, WalkInv, Walks, Quiet, Armed, Started, Flushes, L2List, Rest,
           ProbeBank
  <1>8. BankInv'
    BY <1>1 DEF IInv, TypeOK, BankInv, ProbeBank
  <1>9. LineInv'
    BY <1>1 DEF IInv, TypeOK, LineInv, Line, Private, Bank, Rest, Inside, Down, ProbeBank
  <1> QED  BY <1>2, <1>3, <1>4, <1>5, <1>6, <1>7, <1>8, <1>9 DEF IInv

\* RemoveBank keeps the invariant.
LEMMA RemoveBankKeeps == ASSUME CachesAssumption, IInv, NEW b \in Llcs, RemoveBank(b) PROVE IInv'
  <1>1. /\ esp_cache_list' \in Seq(Llcs) /\ IsInjective(esp_cache_list')
        /\ Range(esp_cache_list') = Range(esp_cache_list) \ {b}
    <2>1. PICK i \in DOMAIN esp_cache_list :
            esp_cache_list[i] = b /\ esp_cache_list' = RemoveAt(esp_cache_list, i)
      BY DEF RemoveBank
    <2>2. esp_cache_list \in Seq(Llcs) /\ IsInjective(esp_cache_list)
      BY DEF IInv, TypeOK, ListInv
    <2>3. /\ RemoveAt(esp_cache_list, i) \in Seq(Llcs) /\ IsInjective(RemoveAt(esp_cache_list, i))
          /\ Range(RemoveAt(esp_cache_list, i)) = Range(esp_cache_list) \ {esp_cache_list[i]}
      BY <2>2, DelFacts DEF RemoveAt
    <2> QED  BY <2>1, <2>3
  <1>2. TypeOK'
    BY <1>1 DEF IInv, TypeOK, RemoveBank, RemoveAt
  <1>3. NoBugOn'
    BY <1>1 DEF IInv, TypeOK, NoBugOn, RemoveBank, RemoveAt
  <1>4. ListInv'
    BY <1>1 DEF IInv, TypeOK, ListInv, Listed, RemoveBank, RemoveAt
  <1>5. HoldInv'
    BY <1>1 DEF IInv, TypeOK, HoldInv, RemoveBank, RemoveAt
  <1>6. HwInv'
    BY <1>1 DEF IInv, TypeOK, HwInv, RemoveBank, RemoveAt
  <1>7. WalkInv'
    BY <1>1 DEF IInv, TypeOK, Labels, L2Labels, BankLabels, WalkInv, Walks, Quiet, Armed,
           Started, L2List, Rest, RemoveBank
  <1>8. BankInv'
    BY <1>1 DEF IInv, TypeOK, BankInv, RemoveBank, RemoveAt
  <1>9. LineInv'
    BY <1>1 DEF IInv, TypeOK, LineInv, Line, Private, Bank, Rest, Inside, Down, RemoveBank,
           RemoveAt
  <1> QED  BY <1>2, <1>3, <1>4, <1>5, <1>6, <1>7, <1>8, <1>9 DEF IInv

\* Latch keeps the invariant.
LEMMA LatchKeeps == ASSUME CachesAssumption, IInv, NEW c \in L2s, Latch(c) PROVE IInv'
  <1>2. TypeOK'
    BY DEF IInv, TypeOK, Latch
  <1>3. NoBugOn'
    BY DEF IInv, TypeOK, NoBugOn, Latch
  <1>4. ListInv'
    BY DEF IInv, TypeOK, ListInv, Listed, Latch
  <1>5. HoldInv'
    BY DEF IInv, TypeOK, HoldInv, Latch
  <1>6. HwInv'
    BY DEF IInv, TypeOK, HwInv, Latch
  <1>7. WalkInv'
    BY DEF IInv, TypeOK, WalkInv, Walks, Quiet, Armed, Started, Flushes, L2List, Rest, Latch
  <1>8. BankInv'
    BY DEF IInv, TypeOK, BankInv, Latch
  <1>9. LineInv'
    BY DEF IInv, TypeOK, LineInv, Line, Private, Bank, Rest, Inside, Down, Latch
  <1> QED  BY <1>2, <1>3, <1>4, <1>5, <1>6, <1>7, <1>8, <1>9 DEF IInv

\* SweepEnd keeps the invariant.
LEMMA SweepEndKeeps == ASSUME CachesAssumption, IInv, NEW k \in Caches, SweepEnd(k) PROVE IInv'
  <1>2. TypeOK'
    BY DEF IInv, CachesAssumption, Caches, TypeOK, Labels, L2Labels, BankLabels, Places,
           SweepEnd, Down
  <1>3. NoBugOn'
    BY DEF IInv, TypeOK, NoBugOn, SweepEnd
  <1>4. ListInv'
    BY DEF IInv, TypeOK, ListInv, Listed, SweepEnd
  <1>5. HoldInv'
    BY DEF IInv, TypeOK, HoldInv, SweepEnd
  <1>6. HwInv'
    BY DEF IInv, TypeOK, HwInv, SweepEnd
  <1>7. WalkInv'
    BY DEF IInv, TypeOK, WalkInv, Walks, Quiet, Armed, Started, Flushes, L2List, Rest, SweepEnd
  <1>8. BankInv'
    BY DEF IInv, TypeOK, BankInv, SweepEnd
  <1>9. LineInv'
    BY DEF IInv, TypeOK, Labels, L2Labels, BankLabels, LineInv, Line, Private, Bank, Rest,
           Inside, Down, SweepEnd, Inside, Down
  <1> QED  BY <1>2, <1>3, <1>4, <1>5, <1>6, <1>7, <1>8, <1>9 DEF IInv

\* Store keeps the invariant.
LEMMA StoreKeeps == ASSUME CachesAssumption, IInv, NEW x \in Lines, Store(x) PROVE IInv'
  <1>2. TypeOK'
    BY DEF IInv, CachesAssumption, Caches, TypeOK, Labels, Places, Store
  <1>3. NoBugOn'
    BY DEF IInv, TypeOK, NoBugOn, Store
  <1>4. ListInv'
    BY DEF IInv, TypeOK, ListInv, Listed, Store
  <1>5. HoldInv'
    BY DEF IInv, TypeOK, HoldInv, Store
  <1>6. HwInv'
    BY DEF IInv, TypeOK, HwInv, Store
  <1>7. WalkInv'
    BY DEF IInv, TypeOK, WalkInv, Walks, Quiet, Armed, Started, Flushes, L2List, Rest, Store
  <1>8. BankInv'
    BY DEF IInv, TypeOK, BankInv, Store
  <1>9. LineInv'
    BY DEF IInv, TypeOK, Labels, L2Labels, BankLabels, LineInv, Line, Private, Bank, Rest, Store
  <1> QED  BY <1>2, <1>3, <1>4, <1>5, <1>6, <1>7, <1>8, <1>9 DEF IInv

\* Evict keeps the invariant.
LEMMA EvictKeeps == ASSUME CachesAssumption, IInv, NEW x \in Lines, Evict(x) PROVE IInv'
  <1>2. TypeOK'
    BY DEF IInv, CachesAssumption, Caches, TypeOK, Labels, L2Labels, Places, Evict, Down
  <1>3. NoBugOn'
    BY DEF IInv, TypeOK, NoBugOn, Evict
  <1>4. ListInv'
    BY DEF IInv, TypeOK, ListInv, Listed, Evict
  <1>5. HoldInv'
    BY DEF IInv, TypeOK, HoldInv, Evict
  <1>6. HwInv'
    BY DEF IInv, TypeOK, HwInv, Evict
  <1>7. WalkInv'
    BY DEF IInv, TypeOK, WalkInv, Walks, Quiet, Armed, Started, Flushes, L2List, Rest, Evict
  <1>8. BankInv'
    BY DEF IInv, TypeOK, BankInv, Evict
  <1>9. LineInv'
    BY DEF IInv, TypeOK, Labels, L2Labels, BankLabels, LineInv, Line, Private, Bank, Rest,
           Down, Evict, Down
  <1> QED  BY <1>2, <1>3, <1>4, <1>5, <1>6, <1>7, <1>8, <1>9 DEF IInv

\* SetToSeq lists a finite set without repetitions.
LEMMA SetToSeqFacts ==
  ASSUME NEW S, IsFiniteSet(S)
  PROVE  SetToSeq(S) \in Seq(S) /\ IsInjective(SetToSeq(S))
  <1>1. Cardinality(S) \in Nat /\ ExistsBijection(1 .. Cardinality(S), S)
    BY FS_CardinalityType
  <1>2. PICK g \in Bijection(1 .. Cardinality(S), S) : TRUE
    BY <1>1 DEF ExistsBijection
  <1>3. g \in [1 .. Cardinality(S) -> S] /\ IsInjective(g)
    BY <1>2 DEF Bijection, Injection, IsInjective
  <1>4. SetToSeq(S) \in [1 .. Cardinality(S) -> S] /\ IsInjective(SetToSeq(S))
    BY <1>3 DEF SetToSeq
  <1> QED  BY <1>1, <1>4

\* The invariant holds when the modules are loaded.
LEMMA InitInv == ASSUME CachesAssumption, Init PROVE IInv
  <1>1. IsFiniteSet(L2s \ Hotplug) /\ IsFiniteSet(Llcs \ Hotplug)
    BY FS_Subset DEF CachesAssumption, Caches
  <1>2. /\ esp_private_cache_list \in Seq(L2s \ Hotplug) /\ IsInjective(esp_private_cache_list)
        /\ esp_cache_list \in Seq(Llcs \ Hotplug) /\ IsInjective(esp_cache_list)
    BY <1>1, SetToSeqFacts DEF Init
  <1>3. esp_private_cache_list \in Seq(L2s) /\ esp_cache_list \in Seq(Llcs)
    BY <1>2
  <1>4. << >> \in Seq(L2s)
    OBVIOUS
  <1>5. TypeOK
    BY <1>3, <1>4 DEF Init, TypeOK, Labels, Places, NONE, LLC, RECALL
  <1>6. NoBugOn /\ ListInv
    BY <1>2 DEF Init, NoBugOn, ListInv
  <1>7. HoldInv /\ HwInv /\ WalkInv
    BY DEF Init, HoldInv, HwInv, WalkInv, Quiet, L2Labels, Caches, CachesAssumption
  <1>8. BankInv
    BY DEF Init, BankInv, BankLabels, Caches
  <1>9. LineInv
    BY DEF Init, LineInv, Line
  <1> QED  BY <1>5, <1>6, <1>7, <1>8, <1>9 DEF IInv

\* Every step keeps the invariant.
LEMMA NextInv == ASSUME CachesAssumption, IInv, [Next]_vars PROVE IInv'
  <1>1. ASSUME NEW t \in Threads, Call(t) \/ Flush(t) \/ BankInterrupted(t) PROVE IInv'
    BY <1>1, CallKeeps, L2LockKeeps, L2StartKeeps, L2SetKeeps, L2StartDoneKeeps,
       L1FlushKeeps, L2CheckKeeps, L2WaitKeeps, L2DoneKeeps, BankLockKeeps,
       BankInterruptedKeeps, BankFlushKeeps, BankWaitKeeps, BankClearKeeps, BanksDoneKeeps,
       ReturnKeeps DEF Flush
  <1>2. ASSUME NEW c \in L2s, ProbeL2(c) \/ RemoveL2(c) \/ Latch(c) PROVE IInv'
    BY <1>2, ProbeL2Keeps, RemoveL2Keeps, LatchKeeps
  <1>3. ASSUME NEW b \in Llcs, ProbeBank(b) \/ RemoveBank(b) PROVE IInv'
    BY <1>3, ProbeBankKeeps, RemoveBankKeeps
  <1>4. ASSUME NEW c \in Caches, SweepEnd(c) PROVE IInv'
    BY <1>4, SweepEndKeeps
  <1>5. ASSUME NEW x \in Lines, Store(x) \/ Evict(x) PROVE IInv'
    BY <1>5, StoreKeeps, EvictKeeps
  <1>6. CASE UNCHANGED vars
    <2> USE <1>6 DEF vars, lists, device, registers, call
    <2>1. TypeOK' /\ NoBugOn' /\ ListInv' /\ HoldInv' /\ HwInv'
      BY DEF IInv, TypeOK, NoBugOn, ListInv, Listed, HoldInv, HwInv
    <2>2. \A t \in Threads : Walks(t)' <=> Walks(t)
      BY DEF Walks, Rest, L2List, Started, Quiet, Armed
    <2>3. WalkInv'
      BY <2>2 DEF IInv, WalkInv, Quiet
    <2>4. BankInv'
      BY DEF IInv, BankInv
    <2>5. \A x \in Lines : Line(x)' <=> Line(x)
      BY DEF Line, Bank, Private, Rest
    <2> QED  BY <2>1, <2>3, <2>4, <2>5 DEF IInv, LineInv
  <1> QED  BY <1>1, <1>2, <1>3, <1>4, <1>5, <1>6 DEF Next

\* The invariant, for every number of threads, caches and lines.
THEOREM InvariantHolds == ASSUME CachesAssumption PROVE Spec => []IInv
  <1>1. Init => IInv
    BY InitInv
  <1>2. IInv /\ [Next]_vars => IInv'
    BY NextInv
  <1> QED  BY <1>1, <1>2, PTL DEF Spec

\* The variables of the two drivers keep their types.
THEOREM TypeCorrect == ASSUME CachesAssumption PROVE Spec => []TypeOK
  <1>1. IInv => TypeOK
    BY DEF IInv
  <1> QED  BY <1>1, InvariantHolds, PTL

\* BUG_ON(cmd_reg) never fires (esp_private_cache.c:94).
THEOREM NeverBugs == ASSUME CachesAssumption PROVE Spec => []NoBugOn
  <1>1. IInv => NoBugOn
    BY DEF IInv
  <1> QED  BY <1>1, InvariantHolds, PTL

\* Once esp_flush has returned, what its caller wrote is where the accelerator
\* reads it (esp.c:90-94).
THEOREM DataReaches == ASSUME CachesAssumption PROVE Spec => []DataReached
  <1>1. ASSUME IInv PROVE DataReached
    <2>1. ASSUME NEW x \in Lines, pc[writer[x]] = "flushed", l2_of[x] \in seen[writer[x]]
          PROVE  /\ loc[x] # "l2"
                 /\ coherence[writer[x]] < LLC /\ bank_of[x] \in seen[writer[x]] => loc[x] = "mem"
      <3>1. Line(x) /\ Private(x) /\ loc[x] \in Places
        BY <1>1, <2>1 DEF IInv, LineInv, TypeOK, Private
      <3> QED  BY <2>1, <3>1 DEF Line, Private, Bank, Places
    <2> QED  BY <2>1 DEF DataReached
  <1> QED  BY <1>1, InvariantHolds, PTL

\* A walk of the private caches never stands on a device that is unbound
\* (esp_private_cache.c:80, :181).
THEOREM WalksStayBound == ASSUME CachesAssumption PROVE Spec => []WalkBound
  <1>1. IInv => WalkBound
    BY DEF IInv, WalkInv, Walks, WalkBound, L2List, Rest, Listed
  <1> QED  BY <1>1, InvariantHolds, PTL

\* A command register is written by one flush at a time.
THEOREM CommandsExclusive == ASSUME CachesAssumption PROVE Spec => []OneCommand
  <1>1. ASSUME IInv PROVE OneCommand
    <2>1. \A c \in L2s : cmd[c] => list_lock # NoThread
      BY <1>1 DEF IInv, WalkInv, Quiet
    <2>2. \A b \in Llcs : cmd[b] =>
            /\ lock[b] # NoThread
            /\ pc[lock[b]] \in {"llc_wait", "llc_clear"} /\ Head(todo[lock[b]]) = b
      BY <1>1 DEF IInv, BankInv
    <2> QED  BY <2>1, <2>2 DEF OneCommand
  <1> QED  BY <1>1, InvariantHolds, PTL

=============================================================================
