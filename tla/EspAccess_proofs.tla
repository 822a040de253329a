------------------------- MODULE EspAccess_proofs -------------------------
(* Proofs about the access ioctl of esp.c, for any number of threads and   *)
(* accelerators, any sizes of the caches and any accesses.                 *)
EXTENDS EspAccess, DataLemmas, FiniteSetTheorems, TLAPS

-----------------------------------------------------------------------------
(* Types and mutexes                                                       *)

\* Where an access holds the mutex of its device.
Inside == {"setup", "config", "charge", "configured", "flush_l2", "flush_llc", "clear",
           "transfer", "run", "wait", "release", "update_footprint", "updated", "unlock"}

\* Where it holds the mutex of esp_status too.
Holding == {"charge", "configured", "update_footprint", "updated"}

\* A call has a device; past Lock it holds the device's mutex.
CallInv == \A t \in Threads : /\ pc[t] # "idle" => dev[t] \in Devices
                              /\ pc[t] \in Inside => lock[dev[t]] = t

\* esp_status.lock names the thread that updates esp_status.
StatusInv == \A t \in Threads : pc[t] \in Holding <=> status_lock = t

\* The types, and who holds which mutex.
TypeInv == TypeOK /\ CallInv /\ StatusInv

\* A counter wraps where an unsigned int does.
LEMMA CounterType ==
    ASSUME EspAssumption, NEW a \in Int, NEW b \in Int
    PROVE  Plus(a, b) \in 0 .. Word - 1 /\ Minus(a, b) \in 0 .. Word - 1
  BY DEF EspAssumption, Plus, Minus

\* The first accelerator counted makes one, and it can be taken back.
LEMMA CountOne == ASSUME EspAssumption PROVE Plus(0, 1) = 1 /\ Minus(1, 1) = 0
  <1>1. 1 % Word = 1 /\ 0 % Word = 0
    BY DEF EspAssumption
  <1> QED  BY <1>1 DEF Plus, Minus

\* esp_runtime_config leaves a coherence the accelerator has.
LEMMA ChosenType ==
    ASSUME NEW d, NEW n
    PROVE  Chosen(d, n) \in {NONE, LLC, FULL}
  BY DEF Chosen

\* The coherence codes are different numbers, in the order of the enum.
LEMMA CodesDiffer ==
    /\ NONE = 0 /\ LLC = 1 /\ RECALL = 2 /\ FULL = 3 /\ AUTO = 4
    /\ Coherence = 0 .. 4
  BY DEF NONE, LLC, RECALL, FULL, AUTO, Coherence

\* Whatever esp_status is changed to is an unsigned int again.
LEMMA CountTypes ==
    ASSUME EspAssumption, TypeOK, NEW d \in Devices
    PROVE  /\ CountWith(d) \in 0 .. Word - 1
           /\ FullWithout(d) \in 0 .. Word - 1
           /\ Plus(active_acc_cnt_full, 1) \in 0 .. Word - 1
           /\ Minus(active_acc_cnt, 1) \in 0 .. Word - 1
           /\ Plus(active_footprint, footprint[d]) \in 0 .. Word - 1
           /\ Minus(active_footprint, footprint[d]) \in 0 .. Word - 1
           /\ \A m \in Mems : /\ Plus(active_footprint_split[m], Share(d, m)) \in 0 .. Word - 1
                              /\ Minus(active_footprint_split[m], Share(d, m)) \in 0 .. Word - 1
  <1>1. /\ active_acc_cnt \in Int /\ active_acc_cnt_full \in Int /\ active_footprint \in Int
        /\ footprint[d] \in Nat /\ footprint[d] \in Int
        /\ \A m \in Mems : active_footprint_split[m] \in Int
    BY DEF TypeOK, EspAssumption
  <1>2. \A m \in Mems : Share(d, m) \in Int
    <2>1. footprint[d] \div llc_banks \in Int
      BY <1>1 DEF EspAssumption, N_MEM
    <2> QED  BY <1>1, <2>1 DEF Share
  <1>3. \A a, b \in Int : Plus(a, b) \in 0 .. Word - 1 /\ Minus(a, b) \in 0 .. Word - 1
    BY CounterType
  <1>4. \A m \in Mems : /\ Plus(active_footprint_split[m], Share(d, m)) \in 0 .. Word - 1
                        /\ Minus(active_footprint_split[m], Share(d, m)) \in 0 .. Word - 1
    BY <1>1, <1>2, <1>3
  <1>5. \A a \in {active_acc_cnt, active_acc_cnt_full} :
            Plus(a, 1) \in 0 .. Word - 1 /\ Minus(a, 1) \in 0 .. Word - 1
    <2>1. 1 \in Int
      OBVIOUS
    <2> QED  BY ONLY <1>1, <1>3, <2>1
  <1>6. /\ Plus(active_footprint, footprint[d]) \in 0 .. Word - 1
        /\ Minus(active_footprint, footprint[d]) \in 0 .. Word - 1
    BY ONLY <1>1, <1>3
  <1>7. CountWith(d) \in 0 .. Word - 1 /\ FullWithout(d) \in 0 .. Word - 1
    BY <1>5 DEF CountWith, FullWithout, TypeOK
  <1> QED  BY <1>4, <1>5, <1>6, <1>7

\* No call is under way at first, and no mutex held.
LEMMA InitTypeInv == ASSUME EspAssumption PROVE Init => TypeInv
  <1> SUFFICES ASSUME Init PROVE TypeInv
    OBVIOUS
  <1>1. TypeOK
    <2>1. req \in [Threads -> Access]
      BY DEF Init, BlankAccess, Access, Coherence, NONE, AUTO, Policies, Mems, N_MEM
    <2>2. /\ active_acc_cnt \in 0 .. Word - 1 /\ active_acc_cnt_full \in 0 .. Word - 1
          /\ active_footprint \in 0 .. Word - 1
          /\ active_footprint_split \in [Mems -> 0 .. Word - 1]
      BY DEF Init, EspAssumption
    <2>3. /\ coherence \in [Devices -> Coherence] /\ coherence_reg \in [Devices -> Coherence]
          /\ footprint \in [Devices -> Nat] /\ ddr_node \in [Devices -> Mems]
      BY CodesDiffer DEF Init, Mems, N_MEM
    <2>4. pc \in [Threads -> Labels]
      BY DEF Init, Labels
    <2> QED  BY <2>1, <2>2, <2>3, <2>4 DEF Init, TypeOK, Policies
  <1>2. CallInv /\ StatusInv
    BY DEF Init, CallInv, StatusInv, Holding, Inside, EspAssumption
  <1> QED  BY <1>1, <1>2 DEF TypeInv

\* What every way out of a call leaves.
LEMMA ReturnTypes ==
    ASSUME EspAssumption, TypeInv, NEW t \in Threads, Return(t)
    PROVE  /\ pc' \in [Threads -> Labels] /\ pc'[t] = "idle"
           /\ dev' \in [Threads -> Devices \cup {NoDevice}]
           /\ req' \in [Threads -> Access]
           /\ rc' \in [Threads -> {"ok", "error", "EINTR"}]
           /\ flushed' \in [Threads -> SUBSET {"l2", "llc"}]
           /\ outcome' \in [Threads -> {"none", "done", "error"}]
           /\ run_by' \in [Devices -> Threads \cup {NoThread}]
           /\ \A u \in Threads \ {t} : pc'[u] = pc[u] /\ dev'[u] = dev[u]
  <1>1. BlankAccess \in Access
    BY DEF BlankAccess, Access, Coherence, NONE, AUTO, Policies, Mems, N_MEM
  <1> QED  BY <1>1 DEF Return, Goto, TypeInv, TypeOK, Labels

\* A call that leaves through "goto out" keeps types and mutexes in order.
LEMMA OutTypeInv ==
    ASSUME EspAssumption, TypeInv, NEW t \in Threads, Out(t),
           pc[t] \notin Holding, pc[t] # "idle"
    PROVE  TypeInv'
  <1>1. TypeOK'
    <2>1. dev[t] \in Devices
      BY DEF TypeInv, CallInv
    <2>2. lost' \in SUBSET Devices
      BY <2>1 DEF Out, TypeInv, TypeOK
    <2> QED  BY <2>2, ReturnTypes DEF Out, TypeInv, TypeOK, fields, sync, regs, counters
  <1>2. CallInv'
    BY ReturnTypes DEF Out, TypeInv, CallInv, Inside
  <1>3. StatusInv'
    BY ReturnTypes DEF Out, TypeInv, StatusInv, Holding
  <1> QED  BY <1>1, <1>2, <1>3 DEF TypeInv

\* So does every step.
LEMMA NextTypeInv ==
    ASSUME EspAssumption, TypeInv, [Next]_vars
    PROVE  TypeInv'
  <1> USE DEF TypeInv, fields, sync, regs, counters, call, history
  <1>0. CASE UNCHANGED vars
    BY <1>0 DEF vars, TypeOK, CallInv, StatusInv, Holding
  <1>a. ASSUME NEW t \in Threads, AccessCall(t) PROVE TypeInv'
    BY <1>a DEF AccessCall, Goto, TypeOK, CallInv, StatusInv, Holding, Labels, Inside,
           EspAssumption
  <1>b. ASSUME NEW t \in Threads, Lock(t) PROVE TypeInv'
    BY <1>b DEF Lock, Goto, TypeOK, CallInv, StatusInv, Holding, Labels, Inside, EspAssumption
  <1>c. ASSUME NEW t \in Threads,
               \/ LockInterrupted(t) \/ SetupFailed(t) \/ ConfigInterrupted(t)
               \/ UpdateInterrupted(t) \/ FlushInterrupted(t) \/ FlushIoctlLlc(t)
        PROVE  TypeInv'
    <2>1. Out(t) /\ pc[t] \notin Holding /\ pc[t] # "idle"
      BY <1>c DEF LockInterrupted, SetupFailed, ConfigInterrupted,
         UpdateInterrupted, FlushInterrupted, FlushIoctlLlc, Holding
    <2> QED  BY <2>1, OutTypeInv
  <1>d. ASSUME NEW t \in Threads, Setup(t) PROVE TypeInv'
    <2>1. /\ dev[t] \in Devices
          /\ req[t].coherence \in Coherence /\ req[t].footprint \in Nat
          /\ req[t].alloc_policy \in Policies /\ req[t].ddr_node \in Mems
      BY <1>d DEF Setup, TypeOK, Access, CallInv
    <2>2. TypeOK'
      BY <1>d, <2>1 DEF Setup, Goto, TypeOK, Labels
    <2>3. CallInv' /\ StatusInv'
      BY <1>d DEF Setup, Goto, TypeOK, CallInv, StatusInv, Holding, Inside
    <2> QED  BY <2>2, <2>3
  <1>e. ASSUME NEW t \in Threads, Config(t) PROVE TypeInv'
    <2>1. /\ dev[t] \in Devices
          /\ \A n : Chosen(dev[t], n) \in Coherence
      BY <1>e, ChosenType, CodesDiffer DEF Config, CallInv
    <2>2. /\ CountWith(dev[t]) \in 0 .. Word - 1
          /\ Plus(active_acc_cnt_full, 1) \in 0 .. Word - 1
      BY <2>1, CountTypes
    <2>3. TypeOK'
      BY <1>e, <2>1, <2>2 DEF Config, Goto, TypeOK, Labels
    <2>4. CallInv'
      BY <1>e DEF Config, Goto, TypeOK, CallInv, Inside
    <2>5. StatusInv'
      BY <1>e DEF Config, Goto, TypeOK, StatusInv, Holding, EspAssumption
    <2> QED  BY <2>3, <2>4, <2>5
  <1>f. ASSUME NEW t \in Threads, Charge(t) PROVE TypeInv'
    <2>1. dev[t] \in Devices
      BY <1>f DEF Charge, CallInv
    <2>2. TypeOK'
      BY <1>f, <2>1, CountTypes DEF Charge, Goto, TypeOK, Labels
    <2>3. CallInv'
      BY <1>f DEF Charge, Goto, TypeOK, CallInv, Inside
    <2>4. StatusInv'
      BY <1>f DEF Charge, Goto, TypeOK, StatusInv, Holding, EspAssumption
    <2> QED  BY <2>2, <2>3, <2>4
  <1>g. ASSUME NEW t \in Threads, FlushL2(t) \/ FlushLlc(t) PROVE TypeInv'
    BY <1>g DEF FlushL2, FlushLlc, Goto, TypeOK, CallInv, StatusInv, Holding, Labels, Inside
  <1>h. ASSUME NEW t \in Threads, Clear(t) PROVE TypeInv'
    BY <1>h DEF Clear, Goto, TypeOK, CallInv, StatusInv, Holding, Labels, Inside
  <1>i. ASSUME NEW t \in Threads, Transfer(t) PROVE TypeInv'
    <2>1. dev[t] \in Devices
      BY <1>i DEF Transfer, CallInv
    <2>2. \E l \in {"run", "release", "unlock"} : Goto(t, l)
      BY <1>i DEF Transfer
    <2>3. TypeOK'
      BY <1>i, <2>1, <2>2 DEF Transfer, Goto, TypeOK, Labels
    <2>4. CallInv' /\ StatusInv'
      BY <1>i, <2>2 DEF Transfer, Goto, TypeOK, CallInv, StatusInv, Holding, Inside
    <2> QED  BY <2>3, <2>4
  <1>j. ASSUME NEW t \in Threads, Run(t) PROVE TypeInv'
    BY <1>j DEF Run, Start, Goto, TypeOK, CallInv, StatusInv, Holding, Labels, Inside
  <1>k. ASSUME NEW t \in Threads, Wait(t) \/ WaitInterrupted(t) PROVE TypeInv'
    <2>1. \E l \in {"release", "unlock"} : Goto(t, l)
      BY <1>k DEF Wait, WaitInterrupted, AfterWait
    <2>2. TypeOK'
      BY <1>k, <2>1 DEF Wait, WaitInterrupted, Goto, TypeOK, Labels
    <2>3. CallInv' /\ StatusInv'
      BY <1>k, <2>1 DEF Wait, WaitInterrupted, Goto, TypeOK, CallInv, StatusInv, Holding, Inside
    <2> QED  BY <2>2, <2>3
  <1>l. ASSUME NEW t \in Threads, UpdateFull(t) PROVE TypeInv'
    <2>1. dev[t] \in Devices
      BY <1>l DEF UpdateFull, CallInv
    <2>2a. active_acc_cnt_full' \in 0 .. Word - 1 /\ active_acc_cnt' \in 0 .. Word - 1
      <3>1. /\ FullWithout(dev[t]) \in 0 .. Word - 1
            /\ Minus(active_acc_cnt, 1) \in 0 .. Word - 1 /\ active_acc_cnt \in 0 .. Word - 1
        BY <2>1, CountTypes DEF TypeInv, TypeOK
      <3> QED  BY <1>l, <3>1 DEF UpdateFull
    <2>2b. /\ pc' \in [Threads -> Labels] /\ status_lock' \in Threads \cup {NoThread}
           /\ charge' \in [Devices -> {"none", "auto", "full"}]
      BY <1>l, <2>1 DEF UpdateFull, Goto, TypeOK, Labels
    <2>2. TypeOK'
      BY <1>l, <2>2a, <2>2b DEF UpdateFull, TypeOK
    <2>3. CallInv'
      BY <1>l DEF UpdateFull, Goto, TypeOK, CallInv, Inside
    <2>4. StatusInv'
      BY <1>l DEF UpdateFull, Goto, TypeOK, StatusInv, Holding, EspAssumption
    <2> QED  BY <2>2, <2>3, <2>4
  <1>r. ASSUME NEW t \in Threads, ConfigUnlock(t) \/ UpdateUnlock(t) PROVE TypeInv'
    <2>1. /\ pc[t] \in Holding /\ pc[t] \in Inside /\ status_lock' = NoThread
          /\ \E l \in {"flush_l2", "unlock"} : Goto(t, l)
          /\ UNCHANGED <<lock, dev>>
      BY <1>r DEF ConfigUnlock, UpdateUnlock, Holding, Inside
    <2>2. TypeOK'
      BY <1>r, <2>1 DEF ConfigUnlock, UpdateUnlock, Goto, TypeOK, Labels
    <2>3. CallInv'
      BY <2>1 DEF Goto, TypeOK, CallInv, Inside
    <2>4. StatusInv'
      BY <2>1 DEF Goto, TypeOK, StatusInv, Holding, EspAssumption
    <2> QED  BY <2>2, <2>3, <2>4
  <1>m. ASSUME NEW t \in Threads, UpdateFootprint(t) PROVE TypeInv'
    <2>1. dev[t] \in Devices
      BY <1>m DEF UpdateFootprint, CallInv
    <2>2a. /\ active_footprint' \in 0 .. Word - 1
           /\ active_footprint_split' \in [Mems -> 0 .. Word - 1]
      BY <1>m, <2>1, CountTypes DEF UpdateFootprint, TypeOK
    <2>2b. /\ pc' \in [Threads -> Labels] /\ status_lock' \in Threads \cup {NoThread}
           /\ charge' \in [Devices -> {"none", "auto", "full"}]
      BY <1>m, <2>1 DEF UpdateFootprint, Goto, TypeOK, Labels
    <2>2. TypeOK'
      BY <1>m, <2>2a, <2>2b DEF UpdateFootprint, TypeOK
    <2>3. CallInv'
      BY <1>m DEF UpdateFootprint, Goto, TypeOK, CallInv, Inside
    <2>4. StatusInv'
      BY <1>m DEF UpdateFootprint, Goto, TypeOK, StatusInv, Holding, EspAssumption
    <2> QED  BY <2>2, <2>3, <2>4
  <1>n. ASSUME NEW t \in Threads, Unlock(t) PROVE TypeInv'
    <2>1. TypeOK'
      BY <1>n, ReturnTypes DEF Unlock, TypeOK
    <2>2. CallInv'
      BY <1>n, ReturnTypes DEF Unlock, CallInv, Inside, TypeOK
    <2>3. StatusInv'
      BY <1>n, ReturnTypes DEF Unlock, StatusInv, Holding
    <2> QED  BY <2>1, <2>2, <2>3
  <1>o. ASSUME NEW t \in Threads, FlushIoctl(t) \/ FlushIoctlL2(t) PROVE TypeInv'
    <2>1. CASE FlushIoctl(t)
      <3>1. \A r \in Accesses : r.coherence \in Coherence
        BY DEF EspAssumption, Access
      <3> QED  BY <2>1, <3>1 DEF FlushIoctl, Goto, TypeOK, CallInv, StatusInv, Holding,
            Labels, Inside
    <2>2. CASE FlushIoctlL2(t)
      BY <2>2 DEF FlushIoctlL2, Goto, TypeOK, CallInv, StatusInv, Holding, Labels, Inside
    <2> QED  BY <1>o, <2>1, <2>2
  <1>p. ASSUME NEW t \in Threads, NEW d \in Devices, RunIoctl(t, d) PROVE TypeInv'
    BY <1>p DEF RunIoctl, Start, TypeOK, CallInv, StatusInv, Holding
  <1>q. ASSUME NEW d \in Devices, Hardware(d) PROVE TypeInv'
    <2>1. TypeOK'
      <3>1. CASE Finish(d)
        BY <3>1 DEF Finish, TypeOK
      <3>2. CASE IrqAck(d)
        BY <3>2 DEF IrqAck, TypeOK
      <3>3. CASE IrqComplete(d)
        <4>1. (err[d] \/ irq[d] = "error") \in BOOLEAN
          BY DEF TypeOK
        <4> QED  BY <3>3, <4>1 DEF IrqComplete, TypeOK
      <3> QED  BY <1>q, <3>1, <3>2, <3>3 DEF Hardware
    <2>2. CallInv' /\ StatusInv'
      BY <1>q DEF Hardware, Finish, IrqAck, IrqComplete, CallInv, StatusInv, Holding
    <2> QED  BY <2>1, <2>2
  <1> QED
    BY <1>0, <1>a, <1>b, <1>c, <1>d, <1>e, <1>f, <1>g, <1>h, <1>i, <1>j, <1>k, <1>l,
       <1>m, <1>n, <1>o, <1>p, <1>q, <1>r DEF Next, InCall

\* The variables keep their types, and the mutexes name the threads that are in
\* the sections they guard, whatever signals and ioctls come between.
THEOREM TypeCorrect == ASSUME EspAssumption PROVE Spec => []TypeOK
  <1>1. Init => TypeInv
    BY InitTypeInv
  <1>2. TypeInv /\ [Next]_vars => TypeInv'
    BY NextTypeInv
  <1>3. TypeInv => TypeOK
    BY DEF TypeInv
  <1> QED  BY <1>1, <1>2, <1>3, PTL DEF Spec

-----------------------------------------------------------------------------
(* Coherence                                                               *)

\* What a call knows of its device, from Config to Unlock.
Configured == {"charge", "configured", "flush_l2", "flush_llc", "clear", "transfer", "run",
               "wait", "release", "update_footprint"}
\* What a call knows of the share its device has in esp_status.
ShareInv(t) ==
    /\ pc[t] \in {"setup", "config", "updated", "unlock"} => charge[dev[t]] = "none"
    /\ pc[t] = "config" => Managed(req[t]) /\ coherence[dev[t]] = req[t].coherence
    /\ pc[t] \in Configured => /\ Managed(req[t]) <=> charge[dev[t]] # "none"
                               /\ coherence[dev[t]] # AUTO
                               /\ coherence[dev[t]] = FULL => Managed(req[t])
    /\ pc[t] \in {"release", "update_footprint"} => Managed(req[t])

\* What it flushed and programmed.
Started == {"run", "wait", "release", "update_footprint", "updated", "unlock"}
\* The caches were flushed for the coherence that is programmed.
FlushInv(t) ==
    /\ pc[t] \in Started \cup {"flush_llc", "clear", "transfer"} =>
           (coherence[dev[t]] < RECALL => "l2" \in flushed[t])
    /\ pc[t] \in Started \cup {"clear", "transfer"} =>
           (coherence[dev[t]] < LLC => "llc" \in flushed[t])
    /\ pc[t] \in Started => coherence_reg[dev[t]] = coherence[dev[t]]

\* A run that has a caller is the run of the call that holds the device.
RunByInv(d) ==
    run_by[d] # NoThread => /\ pc[run_by[d]] \in Started \ {"run"}
                            /\ dev[run_by[d]] = d

\* The inductive invariant where nobody uses the flush ioctl.
SafeInv ==
    /\ TypeInv
    /\ \A t \in Threads : ShareInv(t) /\ FlushInv(t)
    /\ \A d \in Devices : RunByInv(d)
    /\ ChargeHeld
    /\ OneFull

\* Two calls past Lock are on different devices.
LEMMA Apart ==
    ASSUME TypeInv, NEW t \in Threads, NEW u \in Threads \ {t},
           pc[t] \in Inside, pc[u] \in Inside
    PROVE  dev[u] # dev[t]
  BY DEF TypeInv, CallInv

\* A step of one call leaves what the others know.
LEMMA FrameCalls ==
    ASSUME TypeInv, NEW t \in Threads,
           \A u \in Threads : ShareInv(u) /\ FlushInv(u),
           \A u \in Threads \ {t} : /\ pc'[u] = pc[u] /\ dev'[u] = dev[u]
                                    /\ req'[u] = req[u] /\ flushed'[u] = flushed[u],
           \A d \in Devices :
               \/ pc[t] \in Inside /\ d = dev[t]
               \/ /\ coherence'[d] = coherence[d] /\ charge'[d] = charge[d]
                  /\ coherence_reg'[d] = coherence_reg[d]
    PROVE  \A u \in Threads \ {t} : ShareInv(u)' /\ FlushInv(u)'
  <1> SUFFICES ASSUME NEW u \in Threads \ {t} PROVE ShareInv(u)' /\ FlushInv(u)'
    OBVIOUS
  <1>1. CASE pc[u] \in Inside
    <2>1. dev[u] \in Devices /\ ~(pc[t] \in Inside /\ dev[u] = dev[t])
      BY <1>1, Apart DEF TypeInv, CallInv, Inside
    <2>2. /\ coherence'[dev[u]] = coherence[dev[u]] /\ charge'[dev[u]] = charge[dev[u]]
          /\ coherence_reg'[dev[u]] = coherence_reg[dev[u]]
          /\ pc'[u] = pc[u] /\ dev'[u] = dev[u] /\ req'[u] = req[u] /\ flushed'[u] = flushed[u]
      BY <2>1
    <2>3. ShareInv(u) /\ FlushInv(u)
      OBVIOUS
    <2> QED  BY <2>2, <2>3 DEF ShareInv, FlushInv, Managed
  <1>2. CASE pc[u] \notin Inside
    BY <1>2 DEF ShareInv, FlushInv, Inside, Configured, Started
  <1> QED  BY <1>1, <1>2

\* The fully coherent accelerator stays the one it is when a step touches no
\* coherence and no count.
LEMMA FrameFull ==
    ASSUME TypeInv, OneFull, NEW t \in Threads,
           \A u \in Threads \ {t} : pc'[u] = pc[u] /\ dev'[u] = dev[u],
           pc[t] # "update_footprint", pc'[t] # "update_footprint",
           \A d \in Devices : \/ lock'[d] = lock[d]
                              \/ lock[d] \in {t, NoThread} /\ lock'[d] \in {t, NoThread},
           NoThread \notin Threads,
           UNCHANGED <<coherence, charge, active_acc_cnt_full>>
    PROVE  OneFull'
  <1>1. \A d \in Devices : Releasing(d)' <=> Releasing(d)
    BY DEF Releasing
  <1>2. \A d \in Devices : HoldsFull(d)' <=> HoldsFull(d)
    BY <1>1 DEF HoldsFull
  <1> QED  BY <1>2 DEF OneFull

\* A call gone through any exit has left its runs behind.
LEMMA FrameRuns ==
    ASSUME TypeInv, NEW t \in Threads, \A d \in Devices : RunByInv(d),
           \A u \in Threads \ {t} : pc'[u] = pc[u] /\ dev'[u] = dev[u],
           \A d \in Devices : \/ run_by'[d] = NoThread
                              \/ run_by'[d] = run_by[d] /\ run_by[d] # t
                              \/ /\ run_by'[d] = t
                                 /\ pc'[t] \in Started \ {"run"} /\ dev'[t] = d
    PROVE  \A d \in Devices : RunByInv(d)'
  <1>1. \A d \in Devices : run_by[d] \in Threads \cup {NoThread}
    BY DEF TypeInv, TypeOK
  <1> QED  BY <1>1 DEF RunByInv

\* A call may leave at any point before its share is half taken.
LEMMA OutSafe ==
    ASSUME EspAssumption, SafeInv, NEW t \in Threads, Out(t),
           pc[t] \notin Holding, pc[t] # "idle"
    PROVE  SafeInv'
  <1>0. TypeInv /\ TypeInv'
    BY OutTypeInv DEF SafeInv
  <1>1. /\ pc'[t] = "idle"
        /\ \A u \in Threads \ {t} : /\ pc'[u] = pc[u] /\ dev'[u] = dev[u]
                                    /\ req'[u] = req[u] /\ flushed'[u] = flushed[u]
        /\ \A d \in Devices : run_by'[d] = IF run_by[d] = t THEN NoThread ELSE run_by[d]
        /\ UNCHANGED <<lock, coherence, charge, coherence_reg, active_acc_cnt_full>>
    BY <1>0 DEF Out, Return, Goto, TypeInv, TypeOK, fields, regs, counters
  <1>2. \A u \in Threads : ShareInv(u)' /\ FlushInv(u)'
    <2>1. ShareInv(t)' /\ FlushInv(t)'
      BY <1>1 DEF ShareInv, FlushInv, Configured, Started
    <2>2. \A u \in Threads \ {t} : ShareInv(u)' /\ FlushInv(u)'
      BY <1>0, <1>1, FrameCalls DEF SafeInv
    <2> QED  BY <2>1, <2>2
  <1>3. \A d \in Devices : RunByInv(d)'
    BY <1>0, <1>1, FrameRuns DEF SafeInv
  <1>4. ChargeHeld'
    BY <1>1 DEF SafeInv, ChargeHeld
  <1>5. OneFull'
    <2>1. pc[t] # "update_footprint"
      BY DEF Holding
    <2> QED  BY <1>0, <1>1, <2>1, FrameFull DEF SafeInv, EspAssumption
  <1> QED  BY <1>0, <1>2, <1>3, <1>4, <1>5 DEF SafeInv

\* The steps that leave the coherence, the shares and the registers alone.
Aside(t) ==
    \/ AccessCall(t) \/ Lock(t) \/ FlushL2(t) \/ FlushLlc(t) \/ Clear(t) \/ Run(t)
    \/ Wait(t) \/ WaitInterrupted(t) \/ Charge(t) \/ ConfigUnlock(t) \/ UpdateUnlock(t)
    \/ FlushIoctlL2(t)

\* What such a step leaves alone.
LEMMA AsideFacts ==
    ASSUME EspAssumption, SafeInv, NEW t \in Threads, Aside(t)
    PROVE  /\ UNCHANGED <<coherence, charge, coherence_reg, active_acc_cnt_full>>
           /\ \A u \in Threads \ {t} : /\ pc'[u] = pc[u] /\ dev'[u] = dev[u]
                                       /\ req'[u] = req[u] /\ flushed'[u] = flushed[u]
           /\ pc[t] # "update_footprint" /\ pc'[t] # "update_footprint"
           /\ \A d \in Devices : \/ lock'[d] = lock[d]
                                 \/ lock[d] = NoThread /\ lock'[d] = t
           /\ ShareInv(t)' /\ FlushInv(t)'
           /\ \A d \in Devices : \/ run_by'[d] = NoThread
                                 \/ run_by'[d] = run_by[d] /\ run_by[d] # t
                                 \/ /\ run_by'[d] = t
                                    /\ pc'[t] \in Started \ {"run"} /\ dev'[t] = d
  <1>0. /\ TypeOK /\ CallInv /\ StatusInv /\ ShareInv(t) /\ FlushInv(t)
        /\ \A d \in Devices : RunByInv(d)
        /\ ChargeHeld
    BY DEF SafeInv, TypeInv
  <1>1. \A d \in Devices : run_by[d] = t =>
            t # NoThread /\ pc[t] \in Started \ {"run"} /\ dev[t] = d
    BY <1>0 DEF RunByInv, EspAssumption
  <1> USE DEF fields, sync, regs, counters, call, history, Goto
  <1>a. CASE AccessCall(t)
    BY <1>0, <1>1, <1>a DEF AccessCall, TypeOK, ShareInv, FlushInv, Configured, Started
  <1>b. CASE Lock(t)
    <2>1. dev[t] \in Devices /\ lock[dev[t]] = NoThread
      BY <1>0, <1>b DEF Lock, CallInv
    <2>2. charge[dev[t]] = "none"
      BY <1>0, <2>1 DEF ChargeHeld
    <2>3. ShareInv(t)' /\ FlushInv(t)'
      BY <1>0, <1>b, <2>2 DEF Lock, TypeOK, ShareInv, FlushInv, Configured, Started
    <2> QED
      BY <1>0, <1>1, <1>b, <2>1, <2>3 DEF Lock, TypeOK, Started
  <1>c. CASE FlushL2(t)
    <2>1. ShareInv(t)' /\ FlushInv(t)'
      BY <1>0, <1>c DEF FlushL2, TypeOK, ShareInv, FlushInv, Configured, Started, Managed
    <2> QED
      BY <1>0, <1>1, <1>c, <2>1 DEF FlushL2, TypeOK, Started
  <1>d. CASE FlushLlc(t)
    <2>1. ShareInv(t)' /\ FlushInv(t)'
      BY <1>0, <1>d DEF FlushLlc, TypeOK, ShareInv, FlushInv, Configured, Started, Managed
    <2> QED
      BY <1>0, <1>1, <1>d, <2>1 DEF FlushLlc, TypeOK, Started
  <1>e. CASE Clear(t)
    <2>1. ShareInv(t)' /\ FlushInv(t)'
      BY <1>0, <1>e DEF Clear, TypeOK, ShareInv, FlushInv, Configured, Started, Managed
    <2> QED
      BY <1>0, <1>1, <1>e, <2>1 DEF Clear, TypeOK, Started
  <1>f. CASE Run(t)
    <2>1. ShareInv(t)' /\ FlushInv(t)'
      BY <1>0, <1>f DEF Run, TypeOK, ShareInv, FlushInv, Configured, Started, Managed
    <2>2. \A d \in Devices : run_by[d] # t
      BY <1>1, <1>f DEF Run
    <2>3. pc'[t] = "wait" /\ dev'[t] = dev[t] /\ dev[t] \in Devices
      BY <1>0, <1>f DEF Run, TypeOK, CallInv
    <2>4. \A d \in Devices : \/ run_by'[d] = run_by[d]
                             \/ run_by'[d] = t /\ d = dev[t]
      BY <1>0, <1>f DEF Run, Start, TypeOK
    <2> QED
      BY <1>0, <1>f, <2>1, <2>2, <2>3, <2>4 DEF Run, TypeOK, Started
  <1>g. CASE Wait(t) \/ WaitInterrupted(t)
    <2>1. /\ pc'[t] = AfterWait(t) /\ pc[t] = "wait"
          /\ AfterWait(t) = IF Managed(req[t]) THEN "release" ELSE "unlock"
          /\ \A u \in Threads \ {t} : pc'[u] = pc[u]
          /\ UNCHANGED <<coherence, charge, coherence_reg, active_acc_cnt_full,
                         dev, req, flushed, lock>>
      BY <1>0, <1>g DEF Wait, WaitInterrupted, TypeOK, AfterWait
    <2>2. pc'[t] \in {"release", "unlock"}
      BY <2>1
    <2>3. ShareInv(t)'
      BY <1>0, <2>1, <2>2 DEF ShareInv, Configured, Managed
    <2>4. FlushInv(t)'
      BY <1>0, <2>1, <2>2 DEF FlushInv, Started
    <2>5. \A d \in Devices : run_by'[d] = run_by[d] \/ run_by'[d] = NoThread
      BY <1>0, <1>g DEF Wait, WaitInterrupted, TypeOK
    <2> QED
      BY <1>1, <2>1, <2>2, <2>3, <2>4, <2>5 DEF Started
  <1>h. CASE Charge(t)
    <2>1. ShareInv(t)' /\ FlushInv(t)'
      BY <1>0, <1>h DEF Charge, TypeOK, ShareInv, FlushInv, Configured, Started, Managed
    <2> QED
      BY <1>0, <1>1, <1>h, <2>1 DEF Charge, TypeOK, Started
  <1>i. CASE FlushIoctlL2(t)
    BY <1>0, <1>1, <1>i DEF FlushIoctlL2, TypeOK, ShareInv, FlushInv, Configured, Started
  <1>j. CASE ConfigUnlock(t)
    <2>1. ShareInv(t)' /\ FlushInv(t)'
      BY <1>0, <1>j DEF ConfigUnlock, TypeOK, ShareInv, FlushInv, Configured, Started, Managed
    <2> QED
      BY <1>0, <1>1, <1>j, <2>1 DEF ConfigUnlock, TypeOK, Started
  <1>k. CASE UpdateUnlock(t)
    <2>1. ShareInv(t)' /\ FlushInv(t)'
      BY <1>0, <1>k DEF UpdateUnlock, TypeOK, ShareInv, FlushInv, Configured, Started, Managed
    <2> QED
      BY <1>0, <1>1, <1>k, <2>1 DEF UpdateUnlock, TypeOK, Started
  <1> QED
    BY <1>a, <1>b, <1>c, <1>d, <1>e, <1>f, <1>g, <1>h, <1>i, <1>j, <1>k DEF Aside

\* And so it keeps the invariant.
LEMMA AsideSafe ==
    ASSUME EspAssumption, SafeInv, TypeInv', NEW t \in Threads, Aside(t)
    PROVE  SafeInv'
  <1>0. /\ TypeInv /\ OneFull /\ ChargeHeld /\ NoThread \notin Threads
        /\ \A u \in Threads : ShareInv(u) /\ FlushInv(u)
        /\ \A d \in Devices : RunByInv(d)
    BY DEF SafeInv, EspAssumption
  <1>1. \A u \in Threads : ShareInv(u)' /\ FlushInv(u)'
    BY <1>0, AsideFacts, FrameCalls
  <1>2. \A d \in Devices : RunByInv(d)'
    BY <1>0, AsideFacts, FrameRuns
  <1>3. ChargeHeld'
    BY <1>0, AsideFacts DEF ChargeHeld
  <1>4. OneFull'
    BY <1>0, AsideFacts, FrameFull
  <1> QED  BY <1>1, <1>2, <1>3, <1>4 DEF SafeInv

\* What a step of a call does to the histories of other devices: nothing.
LEMMA OwnDevice ==
    ASSUME EspAssumption, SafeInv, NEW t \in Threads, pc[t] \in Inside
    PROVE  /\ dev[t] \in Devices /\ lock[dev[t]] = t /\ t # NoThread
           /\ \A d \in Devices : run_by[d] = t =>
                  pc[t] \in Started \ {"run"} /\ dev[t] = d
           /\ \A u \in Threads \ {t} : pc[u] \in Inside => dev[u] # dev[t]
           /\ \A u \in Threads : pc[u] \in Configured => pc[u] \in Inside
  BY DEF SafeInv, TypeInv, CallInv, RunByInv, EspAssumption, Inside, Configured

\* The fields of an access replace those of a device without a share.
LEMMA SetupSafe ==
    ASSUME EspAssumption, SafeInv, TypeInv', NEW t \in Threads, Setup(t)
    PROVE  SafeInv'
  <1>0. /\ TypeInv /\ TypeOK /\ OneFull /\ ChargeHeld
        /\ \A u \in Threads : ShareInv(u) /\ FlushInv(u)
        /\ \A d \in Devices : RunByInv(d)
    BY DEF SafeInv, TypeInv
  <1>1. pc[t] = "setup" /\ pc[t] \in Inside
    BY DEF Setup, Inside
  <1>2. dev[t] \in Devices /\ charge[dev[t]] = "none" /\ req[t] \in Access
    BY <1>0, <1>1, OwnDevice DEF ShareInv, TypeOK
  <1>3. /\ UNCHANGED <<lock, charge, coherence_reg, active_acc_cnt_full, dev, req,
                       flushed, run_by>>
        /\ coherence' = [coherence EXCEPT ![dev[t]] = req[t].coherence]
        /\ pc' = [pc EXCEPT ![t] = IF Managed(req[t]) THEN "config" ELSE "flush_l2"]
    BY DEF Setup, Goto, counters, call, history, regs
  <1>4. ShareInv(t)' /\ FlushInv(t)'
    <2>1. /\ pc'[t] = IF Managed(req[t]) THEN "config" ELSE "flush_l2"
          /\ coherence'[dev[t]] = req[t].coherence
      BY <1>0, <1>2, <1>3 DEF TypeOK
    <2>2. ~Managed(req[t]) => req[t].coherence # FULL /\ req[t].coherence # AUTO
      BY DEF Managed
    <2> QED  BY <1>2, <1>3, <2>1, <2>2 DEF ShareInv, FlushInv, Configured, Started, Managed
  <1>5. \A u \in Threads \ {t} : ShareInv(u)' /\ FlushInv(u)'
    BY <1>0, <1>1, <1>3, FrameCalls DEF TypeOK
  <1>6. \A d \in Devices : RunByInv(d)'
    <2>1. \A d \in Devices : run_by[d] # t
      BY <1>1, OwnDevice DEF Started
    <2> QED  BY <1>0, <1>3, <2>1, FrameRuns DEF TypeOK
  <1>7. ChargeHeld'
    BY <1>0, <1>3 DEF ChargeHeld
  <1>8. OneFull'
    <2>1. \A d \in Devices : d # dev[t] => (Releasing(d)' <=> Releasing(d))
      BY <1>0, <1>1, <1>3 DEF Releasing, TypeOK
    <2>2. \A d \in Devices : HoldsFull(d)' <=> HoldsFull(d)
      BY <1>0, <1>2, <1>3, <2>1 DEF HoldsFull, TypeOK
    <2> QED  BY <1>0, <1>3, <2>2 DEF OneFull
  <1> QED  BY <1>4, <1>5, <1>6, <1>7, <1>8 DEF SafeInv

\* Below the limit of one there is no fully coherent accelerator.
LEMMA ConfigSafe ==
    ASSUME EspAssumption, SafeInv, TypeInv', NEW t \in Threads, Config(t)
    PROVE  SafeInv'
  <1>0. /\ TypeInv /\ TypeOK /\ OneFull /\ ChargeHeld
        /\ \A u \in Threads : ShareInv(u) /\ FlushInv(u)
        /\ \A d \in Devices : RunByInv(d)
    BY DEF SafeInv, TypeInv
  <1>1. pc[t] = "config" /\ pc[t] \in Inside
    BY DEF Config, Inside
  <1>d. PICK d0 \in Devices : d0 = dev[t]
    BY <1>1, OwnDevice
  <1> DEFINE c == Chosen(d0, CountWith(d0))
  <1>2. /\ d0 \in Devices /\ charge[d0] = "none" /\ lock[d0] = t /\ t # NoThread
        /\ Managed(req[t])
    BY <1>0, <1>1, <1>d, OwnDevice DEF ShareInv
  <1>3. /\ UNCHANGED <<lock, coherence_reg, dev, req, flushed, run_by>>
        /\ coherence' = [coherence EXCEPT ![d0] = c]
        /\ charge' = [charge EXCEPT ![d0] = IF coherence[d0] # FULL THEN "auto" ELSE "full"]
        /\ active_acc_cnt_full' = IF c = FULL THEN Plus(active_acc_cnt_full, 1)
                                              ELSE active_acc_cnt_full
        /\ pc' = [pc EXCEPT ![t] = IF coherence[d0] # FULL THEN "charge" ELSE "configured"]
    BY <1>d DEF Config, Goto, call, history, regs
  <1>4. c \in {NONE, LLC, FULL} /\ (c = FULL => ~(active_acc_cnt_full >= 1))
    <2>1. LLC # FULL /\ NONE # FULL
      BY CodesDiffer
    <2> QED  BY <2>1 DEF Chosen
  <1> HIDE DEF c
  <1>5. /\ coherence'[d0] = c /\ charge'[d0] \in {"auto", "full"}
        /\ pc'[t] \in {"charge", "configured"}
        /\ \A d \in Devices : d # d0 => coherence'[d] = coherence[d] /\ charge'[d] = charge[d]
        /\ \A u \in Threads \ {t} : pc'[u] = pc[u]
    BY <1>0, <1>2, <1>3 DEF TypeOK
  <1>6. ShareInv(t)' /\ FlushInv(t)'
    <2>1. c # AUTO /\ Managed(req'[t]) /\ dev'[t] = d0
      BY <1>d, <1>2, <1>3, <1>4, CodesDiffer
    <2> QED  BY <1>5, <2>1 DEF ShareInv, FlushInv, Configured, Started, Managed
  <1>7. \A u \in Threads \ {t} : ShareInv(u)' /\ FlushInv(u)'
    BY <1>0, <1>1, <1>d, <1>3, <1>5, FrameCalls
  <1>8. \A d \in Devices : RunByInv(d)'
    <2>1. \A d \in Devices : run_by[d] # t
      BY <1>1, OwnDevice DEF Started
    <2> QED  BY <1>0, <1>3, <1>5, <2>1, FrameRuns
  <1>9. ChargeHeld'
    BY <1>0, <1>2, <1>3, <1>5 DEF ChargeHeld
  <1>10. OneFull'
    <2>1. \A d \in Devices : Releasing(d)' <=> Releasing(d)
      BY <1>0, <1>1, <1>3, <1>5 DEF Releasing
    <2>2. \A d \in Devices : d # d0 => (HoldsFull(d)' <=> HoldsFull(d))
      BY <1>5, <2>1 DEF HoldsFull
    <2>3. ~HoldsFull(d0) /\ (HoldsFull(d0)' <=> c = FULL)
      <3>1. ~Releasing(d0)'
        BY <1>2, <1>3, <1>5 DEF Releasing
      <3> QED  BY <1>2, <1>5, <3>1 DEF HoldsFull
    <2>4. CASE c = FULL
      <3>1. active_acc_cnt_full = 0 /\ ~\E d \in Devices : HoldsFull(d)
        BY <1>0, <1>4, <2>4 DEF OneFull
      <3>2. active_acc_cnt_full' = 1
        BY <1>3, <2>4, <3>1, CountOne
      <3> QED  BY <1>2, <2>2, <2>3, <2>4, <3>1, <3>2 DEF OneFull
    <2>5. CASE c # FULL
      <3>1. \A d \in Devices : HoldsFull(d)' <=> HoldsFull(d)
        BY <2>2, <2>3, <2>5
      <3>2. active_acc_cnt_full' = active_acc_cnt_full
        BY <1>3, <2>5
      <3> QED  BY <1>0, <3>1, <3>2 DEF OneFull
    <2> QED  BY <2>4, <2>5
  <1> QED  BY <1>6, <1>7, <1>8, <1>9, <1>10 DEF SafeInv

\* The coherence that goes into the register is the one flushed for.
LEMMA TransferSafe ==
    ASSUME EspAssumption, SafeInv, TypeInv', NEW t \in Threads, Transfer(t)
    PROVE  SafeInv'
  <1>0. /\ TypeInv /\ TypeOK /\ OneFull /\ ChargeHeld
        /\ \A u \in Threads : ShareInv(u) /\ FlushInv(u)
        /\ \A d \in Devices : RunByInv(d)
    BY DEF SafeInv, TypeInv
  <1>1. pc[t] = "transfer" /\ pc[t] \in Inside
    BY DEF Transfer, Inside
  <1>2. dev[t] \in Devices
    BY <1>1, OwnDevice
  <1>3. /\ UNCHANGED <<lock, coherence, charge, active_acc_cnt_full, dev, req, flushed, run_by>>
        /\ coherence_reg' = [coherence_reg EXCEPT ![dev[t]] = coherence[dev[t]]]
        /\ \A u \in Threads \ {t} : pc'[u] = pc[u]
        /\ \/ pc'[t] = "run"
           \/ pc'[t] = "release" /\ Managed(req[t])
           \/ pc'[t] = "unlock" /\ ~Managed(req[t])
    BY <1>0 DEF Transfer, Goto, counters, call, history, TypeOK, fields
  <1>4. coherence_reg'[dev[t]] = coherence[dev[t]]
    BY <1>0, <1>2, <1>3 DEF TypeOK
  <1>5. ShareInv(t)' /\ FlushInv(t)'
    <2>1. ShareInv(t) /\ FlushInv(t)
      BY <1>0
    <2> QED  BY <1>1, <1>3, <1>4, <2>1 DEF ShareInv, FlushInv, Configured, Started, Managed
  <1>6. \A u \in Threads \ {t} : ShareInv(u)' /\ FlushInv(u)'
    BY <1>0, <1>1, <1>3, FrameCalls DEF TypeOK
  <1>7. \A d \in Devices : RunByInv(d)'
    <2>1. \A d \in Devices : run_by[d] # t
      BY <1>1, OwnDevice DEF Started
    <2> QED  BY <1>0, <1>3, <2>1, FrameRuns
  <1>8. ChargeHeld'
    BY <1>0, <1>3 DEF ChargeHeld
  <1>9. OneFull'
    <2>1. /\ pc[t] # "update_footprint" /\ pc'[t] # "update_footprint"
          /\ NoThread \notin Threads
      BY <1>1, <1>3 DEF EspAssumption
    <2> QED  BY <1>0, <1>3, <2>1, FrameFull
  <1> QED  BY <1>5, <1>6, <1>7, <1>8, <1>9 DEF SafeInv

\* A fully coherent accelerator is taken back once, by the call that holds it.
LEMMA UpdateFullSafe ==
    ASSUME EspAssumption, SafeInv, TypeInv', NEW t \in Threads, UpdateFull(t)
    PROVE  SafeInv'
  <1>0. /\ TypeInv /\ TypeOK /\ OneFull /\ ChargeHeld
        /\ \A u \in Threads : ShareInv(u) /\ FlushInv(u)
        /\ \A d \in Devices : RunByInv(d)
    BY DEF SafeInv, TypeInv
  <1>1. pc[t] = "release" /\ pc[t] \in Inside
    BY DEF UpdateFull, Inside
  <1>2. PICK d0 \in Devices : d0 = dev[t] /\ lock[d0] = t /\ t # NoThread
    BY <1>1, OwnDevice
  <1>3. charge[d0] # "none" /\ ShareInv(t) /\ FlushInv(t) /\ Managed(req[t])
    BY <1>0, <1>1, <1>2 DEF ShareInv, Configured
  <1>4. /\ UNCHANGED <<lock, coherence, coherence_reg, dev, req, flushed, run_by>>
        /\ active_acc_cnt_full' = FullWithout(d0)
        /\ \/ /\ UNCHANGED charge
              /\ pc' = [pc EXCEPT ![t] = "update_footprint"]
           \/ /\ charge' = [charge EXCEPT ![d0] = "none"]
              /\ pc' = [pc EXCEPT ![t] = "updated"]
    BY <1>2 DEF UpdateFull, Goto, call, history, regs, fields
  <1>5. /\ \A u \in Threads \ {t} : pc'[u] = pc[u]
        /\ \A d \in Devices : d # d0 => charge'[d] = charge[d]
        /\ \/ pc'[t] = "update_footprint" /\ charge'[d0] = charge[d0]
           \/ pc'[t] = "updated" /\ charge'[d0] = "none"
    BY <1>0, <1>2, <1>4 DEF TypeOK
  <1>6. ShareInv(t)' /\ FlushInv(t)'
    <2>1. dev'[t] = d0 /\ req'[t] = req[t] /\ dev[t] = d0
      BY <1>2, <1>4
    <2> QED  BY <1>1, <1>3, <1>4, <1>5, <2>1 DEF ShareInv, FlushInv, Configured, Started,
         Managed
  <1>7. \A u \in Threads \ {t} : ShareInv(u)' /\ FlushInv(u)'
    BY <1>0, <1>1, <1>2, <1>4, <1>5, FrameCalls
  <1>8. \A d \in Devices : RunByInv(d)'
    <2>1. \A d \in Devices : run_by[d] = t => dev[t] = d
      BY <1>1, OwnDevice
    <2>2. pc'[t] \in Started \ {"run"}
      BY <1>5 DEF Started
    <2>3. \A d \in Devices : run_by[d] \in Threads \cup {NoThread}
      BY <1>0 DEF TypeOK
    <2> QED  BY <1>0, <1>4, <1>5, <2>1, <2>2, <2>3 DEF RunByInv
  <1>9. ChargeHeld'
    BY <1>0, <1>2, <1>4, <1>5 DEF ChargeHeld
  <1>10. OneFull'
    <2>1. \A d \in Devices : d # d0 => (Releasing(d)' <=> Releasing(d))
      BY <1>0, <1>2, <1>4, <1>5 DEF Releasing
    <2>2. \A d \in Devices : d # d0 => (HoldsFull(d)' <=> HoldsFull(d))
      BY <1>4, <1>5, <2>1 DEF HoldsFull
    <2>3. HoldsFull(d0) <=> coherence[d0] = FULL
      <3>1. ~Releasing(d0)
        BY <1>1, <1>2 DEF Releasing
      <3> QED  BY <1>3, <3>1 DEF HoldsFull
    <2>4. ~HoldsFull(d0)'
      <3>1. pc'[t] = "update_footprint" => Releasing(d0)'
        BY <1>2, <1>4 DEF Releasing
      <3> QED  BY <1>5, <3>1 DEF HoldsFull
    <2>5. CASE coherence[d0] = FULL
      <3>1. active_acc_cnt_full = 1 /\ \A d \in Devices : HoldsFull(d) => d = d0
        BY <1>0, <2>3, <2>5 DEF OneFull
      <3>2. active_acc_cnt_full' = 0
        BY <1>4, <2>5, <3>1, CountOne DEF FullWithout
      <3>3. \A d \in Devices : ~HoldsFull(d)'
        BY <2>2, <2>4, <3>1
      <3> QED  BY <3>2, <3>3 DEF OneFull
    <2>6. CASE coherence[d0] # FULL
      <3>1. \A d \in Devices : HoldsFull(d)' <=> HoldsFull(d)
        BY <2>2, <2>3, <2>4, <2>6
      <3>2. active_acc_cnt_full' = active_acc_cnt_full
        BY <1>4, <2>6 DEF FullWithout
      <3> QED  BY <1>0, <3>1, <3>2 DEF OneFull
    <2> QED  BY <2>5, <2>6
  <1> QED  BY <1>6, <1>7, <1>8, <1>9, <1>10 DEF SafeInv

\* The second half of esp_update_status gives the whole share back.
LEMMA UpdateFootprintSafe ==
    ASSUME EspAssumption, SafeInv, TypeInv', NEW t \in Threads, UpdateFootprint(t)
    PROVE  SafeInv'
  <1>0. /\ TypeInv /\ TypeOK /\ OneFull /\ ChargeHeld
        /\ \A u \in Threads : ShareInv(u) /\ FlushInv(u)
        /\ \A d \in Devices : RunByInv(d)
    BY DEF SafeInv, TypeInv
  <1>1. pc[t] = "update_footprint" /\ pc[t] \in Inside
    BY DEF UpdateFootprint, Inside
  <1>2. PICK d0 \in Devices : d0 = dev[t] /\ lock[d0] = t /\ t # NoThread
    BY <1>1, OwnDevice
  <1>3. ShareInv(t) /\ FlushInv(t)
    BY <1>0
  <1>4. /\ UNCHANGED <<lock, coherence, coherence_reg, dev, req, flushed, run_by,
                       active_acc_cnt_full>>
        /\ charge' = [charge EXCEPT ![d0] = "none"]
        /\ pc' = [pc EXCEPT ![t] = "updated"]
    BY <1>2 DEF UpdateFootprint, Goto, call, history, regs, fields
  <1>5. /\ \A u \in Threads \ {t} : pc'[u] = pc[u]
        /\ \A d \in Devices : d # d0 => charge'[d] = charge[d]
        /\ pc'[t] = "updated" /\ charge'[d0] = "none"
    BY <1>0, <1>2, <1>4 DEF TypeOK
  <1>6. ShareInv(t)' /\ FlushInv(t)'
    <2>1. dev'[t] = d0 /\ req'[t] = req[t] /\ dev[t] = d0
      BY <1>2, <1>4
    <2> QED  BY <1>1, <1>3, <1>4, <1>5, <2>1 DEF ShareInv, FlushInv, Configured, Started,
         Managed
  <1>7. \A u \in Threads \ {t} : ShareInv(u)' /\ FlushInv(u)'
    BY <1>0, <1>1, <1>2, <1>4, <1>5, FrameCalls
  <1>8. \A d \in Devices : RunByInv(d)'
    <2>1. pc'[t] \in Started \ {"run"}
      BY <1>5 DEF Started
    <2>2. \A d \in Devices : run_by[d] \in Threads \cup {NoThread}
      BY <1>0 DEF TypeOK
    <2> QED  BY <1>0, <1>4, <1>5, <2>1, <2>2 DEF RunByInv
  <1>9. ChargeHeld'
    BY <1>0, <1>4, <1>5 DEF ChargeHeld
  <1>10. OneFull'
    <2>1. \A d \in Devices : d # d0 => (Releasing(d)' <=> Releasing(d))
      BY <1>0, <1>2, <1>4, <1>5 DEF Releasing
    <2>2. \A d \in Devices : d # d0 => (HoldsFull(d)' <=> HoldsFull(d))
      BY <1>4, <1>5, <2>1 DEF HoldsFull
    <2>3. ~HoldsFull(d0)
      BY <1>1, <1>2 DEF HoldsFull, Releasing
    <2>4. ~HoldsFull(d0)'
      BY <1>5 DEF HoldsFull
    <2>5. \A d \in Devices : HoldsFull(d)' <=> HoldsFull(d)
      BY <2>2, <2>3, <2>4
    <2> QED  BY <1>0, <1>4, <2>5 DEF OneFull
  <1> QED  BY <1>6, <1>7, <1>8, <1>9, <1>10 DEF SafeInv

\* The mutex is given up by a call whose device has no share.
LEMMA UnlockSafe ==
    ASSUME EspAssumption, SafeInv, TypeInv', NEW t \in Threads, Unlock(t)
    PROVE  SafeInv'
  <1>0. /\ TypeInv /\ TypeOK /\ OneFull /\ ChargeHeld
        /\ \A u \in Threads : ShareInv(u) /\ FlushInv(u)
        /\ \A d \in Devices : RunByInv(d)
    BY DEF SafeInv, TypeInv
  <1>1. pc[t] = "unlock" /\ pc[t] \in Inside
    BY DEF Unlock, Inside
  <1>2. PICK d0 \in Devices : d0 = dev[t] /\ lock[d0] = t /\ t # NoThread
    BY <1>1, OwnDevice
  <1>3. charge[d0] = "none"
    BY <1>0, <1>1, <1>2 DEF ShareInv
  <1>4. /\ UNCHANGED <<coherence, coherence_reg, charge, active_acc_cnt_full>>
        /\ lock' = [lock EXCEPT ![d0] = NoThread]
        /\ pc'[t] = "idle"
        /\ \A u \in Threads \ {t} : /\ pc'[u] = pc[u] /\ dev'[u] = dev[u]
                                    /\ req'[u] = req[u] /\ flushed'[u] = flushed[u]
        /\ \A d \in Devices : run_by'[d] = IF run_by[d] = t THEN NoThread ELSE run_by[d]
    BY <1>0, <1>2 DEF Unlock, Return, Goto, TypeOK, counters, regs, fields
  <1>5. \A u \in Threads : ShareInv(u)' /\ FlushInv(u)'
    <2>1. ShareInv(t)' /\ FlushInv(t)'
      BY <1>4 DEF ShareInv, FlushInv, Configured, Started
    <2>2. \A u \in Threads \ {t} : ShareInv(u)' /\ FlushInv(u)'
      BY <1>0, <1>4, FrameCalls
    <2> QED  BY <2>1, <2>2
  <1>6. \A d \in Devices : RunByInv(d)'
    BY <1>0, <1>4, FrameRuns
  <1>7. ChargeHeld'
    BY <1>0, <1>3, <1>4 DEF ChargeHeld, TypeOK
  <1>8. OneFull'
    <2>1. \A d \in Devices : lock'[d] = lock[d] \/ (lock[d] = t /\ lock'[d] = NoThread)
      BY <1>0, <1>2, <1>4 DEF TypeOK
    <2> QED  BY <1>0, <1>1, <1>4, <2>1, FrameFull DEF EspAssumption
  <1> QED  BY <1>5, <1>6, <1>7, <1>8 DEF SafeInv

\* The run ioctl, the accelerator and its interrupt start runs that have no
\* caller and end runs; nothing else here depends on them.
LEMMA HardwareSafe ==
    ASSUME EspAssumption, SafeInv, TypeInv', NEW d0 \in Devices,
           Hardware(d0) \/ \E t \in Threads : RunIoctl(t, d0)
    PROVE  SafeInv'
  <1>0. /\ TypeInv /\ TypeOK /\ OneFull /\ ChargeHeld
        /\ \A u \in Threads : ShareInv(u) /\ FlushInv(u)
        /\ \A d \in Devices : RunByInv(d)
    BY DEF SafeInv, TypeInv
  <1>1. /\ UNCHANGED <<lock, coherence, coherence_reg, charge, active_acc_cnt_full,
                       pc, dev, req, flushed>>
        /\ \A d \in Devices : run_by'[d] \in {run_by[d], NoThread}
    BY <1>0 DEF Hardware, Finish, IrqAck, IrqComplete, RunIoctl, Start, TypeOK, fields,
                regs, counters, call, history
  <1>2. \A u \in Threads : ShareInv(u)' /\ FlushInv(u)'
    BY <1>0, <1>1 DEF ShareInv, FlushInv, Managed
  <1>3. \A d \in Devices : RunByInv(d)'
    BY <1>0, <1>1 DEF RunByInv
  <1>4. ChargeHeld' /\ OneFull'
    BY <1>0, <1>1 DEF ChargeHeld, OneFull, HoldsFull, Releasing
  <1> QED  BY <1>2, <1>3, <1>4 DEF SafeInv

\* ESP_IOC_FLUSH writes esp->coherence of a device another call may hold: with
\* it the invariant is false, so the theorems are about systems without it.
LEMMA NextSafe ==
    ASSUME EspAssumption, ~FlushCalls, SafeInv, [Next]_vars
    PROVE  SafeInv'
  <1>0. TypeInv'
    BY NextTypeInv DEF SafeInv
  <1>1. CASE UNCHANGED vars
    BY <1>0, <1>1 DEF vars, fields, regs, counters, call, history, SafeInv, ShareInv,
       FlushInv, RunByInv, ChargeHeld, OneFull, HoldsFull, Releasing, Managed
  <1>2. ASSUME NEW t \in Threads,
               \/ LockInterrupted(t) \/ SetupFailed(t) \/ ConfigInterrupted(t)
               \/ UpdateInterrupted(t) \/ FlushInterrupted(t) \/ FlushIoctlLlc(t)
        PROVE  SafeInv'
    <2>1. Out(t) /\ pc[t] \notin Holding /\ pc[t] # "idle"
      BY <1>2 DEF LockInterrupted, SetupFailed, ConfigInterrupted,
         UpdateInterrupted, FlushInterrupted, FlushIoctlLlc, Holding
    <2> QED  BY <2>1, OutSafe
  <1>3. ASSUME NEW t \in Threads, Aside(t) PROVE SafeInv'
    BY <1>0, <1>3, AsideSafe
  <1>4. ASSUME NEW t \in Threads, FlushIoctl(t) PROVE FALSE
    BY <1>4 DEF FlushIoctl
  <1> QED
    BY <1>0, <1>1, <1>2, <1>3, <1>4, SetupSafe, ConfigSafe, TransferSafe, UpdateFullSafe,
       UpdateFootprintSafe, UnlockSafe, HardwareSafe DEF Next, InCall, Aside

\* No device has a share at first.
LEMMA InitSafe == ASSUME EspAssumption PROVE Init => SafeInv
  <1> SUFFICES ASSUME Init PROVE SafeInv
    OBVIOUS
  <1>1. TypeInv
    BY InitTypeInv
  <1>2. \A t \in Threads : ShareInv(t) /\ FlushInv(t)
    BY DEF Init, ShareInv, FlushInv, Configured, Started
  <1>3. ChargeHeld /\ OneFull /\ \A d \in Devices : RunByInv(d)
    BY DEF Init, ChargeHeld, OneFull, HoldsFull, RunByInv
  <1> QED  BY <1>1, <1>2, <1>3 DEF SafeInv

\* The invariant holds, with or without signals and run ioctls.
LEMMA AlwaysSafe == ASSUME EspAssumption, ~FlushCalls PROVE Spec => []SafeInv
  <1>1. Init => SafeInv
    BY InitSafe
  <1>2. SafeInv /\ [Next]_vars => SafeInv'
    BY NextSafe
  <1> QED  BY <1>1, <1>2, PTL DEF Spec

-----------------------------------------------------------------------------
(* Theorems                                                                *)

\* active_acc_cnt_full is one when an accelerator holds full coherence and zero
\* when none does, and never do two hold it, whatever is interrupted or fails.
THEOREM OnlyOneFull == ASSUME EspAssumption, ~FlushCalls PROVE Spec => []OneFull
  <1>1. SafeInv => OneFull
    BY DEF SafeInv
  <1> QED  BY <1>1, AlwaysSafe, PTL

\* An accelerator that is free to be used has no share of esp_status left.
THEOREM SharesAreHeld == ASSUME EspAssumption, ~FlushCalls PROVE Spec => []ChargeHeld
  <1>1. SafeInv => ChargeHeld
    BY DEF SafeInv
  <1> QED  BY <1>1, AlwaysSafe, PTL

\* A run that a call started, and the call still waits for, comes after the
\* flushes its coherence needs.
THEOREM RunsAreFlushed == ASSUME EspAssumption, ~FlushCalls PROVE Spec => []FlushCoversDma
  <1>1. SafeInv => FlushCoversDma
    <2> SUFFICES ASSUME SafeInv, NEW d \in Devices, run_by[d] # NoThread
                 PROVE  /\ coherence_reg[d] < RECALL => "l2" \in flushed[run_by[d]]
                        /\ coherence_reg[d] < LLC => "llc" \in flushed[run_by[d]]
      BY DEF FlushCoversDma
    <2>1. /\ run_by[d] \in Threads /\ pc[run_by[d]] \in Started /\ dev[run_by[d]] = d
          /\ FlushInv(run_by[d])
      BY DEF SafeInv, TypeInv, TypeOK, RunByInv
    <2> QED  BY <2>1 DEF FlushInv
  <1> QED  BY <1>1, AlwaysSafe, PTL

\* What is programmed is a coherence the accelerator has, and full coherence is
\* programmed only when it was counted.
THEOREM ProgrammedIsResolved ==
    ASSUME EspAssumption, ~FlushCalls PROVE Spec => []CoherenceResolved
  <1>1. SafeInv => CoherenceResolved
    <2> SUFFICES ASSUME SafeInv, NEW t \in Threads, pc[t] \in {"run", "wait"}
                 PROVE  /\ coherence_reg[dev[t]] \in NONE .. FULL
                        /\ coherence_reg[dev[t]] = FULL => charge[dev[t]] # "none"
      BY DEF CoherenceResolved
    <2>1. ShareInv(t) /\ FlushInv(t) /\ TypeOK /\ dev[t] \in Devices
      BY DEF SafeInv, TypeInv, CallInv
    <2>2. coherence[dev[t]] \in 0 .. 4 /\ coherence[dev[t]] # 4
      BY <2>1, CodesDiffer DEF TypeOK, ShareInv, Configured
    <2>3. /\ coherence_reg[dev[t]] = coherence[dev[t]]
          /\ coherence[dev[t]] = FULL => charge[dev[t]] # "none"
      BY <2>1 DEF ShareInv, FlushInv, Configured, Started
    <2> QED  BY <2>2, <2>3, CodesDiffer
  <1> QED  BY <1>1, AlwaysSafe, PTL

-----------------------------------------------------------------------------
(* How many are active                                                     *)

\* The accelerators in active_acc_cnt: of those that hold a share as AUTO, all but
\* the one whose footprint is still being taken back.
Counted == {d \in Devices : charge[d] = "auto" /\ ~Releasing(d)}

\* A call takes back what it was counted as.
AutoInv(t) ==
    /\ pc[t] \in Configured => (charge[dev[t]] = "auto" <=> req[t].coherence = AUTO)
    /\ pc[t] \in {"charge", "update_footprint"} => req[t].coherence = AUTO

\* The counter, exact between any two steps.
CountInv ==
    /\ active_acc_cnt = Cardinality(Counted) % Word
    /\ \A t \in Threads : AutoInv(t)

\* Counting one accelerator more or less, in an unsigned int.
LEMMA CountFits ==
    ASSUME EspAssumption, IsFiniteSet(Devices)
    PROVE  /\ \A d \in Devices \ Counted :
                Plus(Cardinality(Counted) % Word, 1) = Cardinality(Counted \cup {d}) % Word
           /\ \A d \in Counted :
                Minus(Cardinality(Counted) % Word, 1) = Cardinality(Counted \ {d}) % Word
  <1>0. Word \in Nat \ {0}
    BY DEF EspAssumption
  <1>1. IsFiniteSet(Counted)
    <2>1. Counted \in SUBSET Devices
      BY DEF Counted
    <2> QED  BY <2>1, FS_Subset
  <1>2. Cardinality(Counted) \in Int
    BY <1>1, FS_CardinalityType
  <1>3. ASSUME NEW d \in Devices \ Counted
        PROVE  Plus(Cardinality(Counted) % Word, 1) = Cardinality(Counted \cup {d}) % Word
    <2>1. Cardinality(Counted \cup {d}) = Cardinality(Counted) + 1
      BY <1>1, FS_AddElement
    <2> QED  BY <1>0, <1>2, <2>1, ModPlus DEF Plus
  <1>4. ASSUME NEW d \in Counted
        PROVE  Minus(Cardinality(Counted) % Word, 1) = Cardinality(Counted \ {d}) % Word
    <2>1. Cardinality(Counted \ {d}) = Cardinality(Counted) - 1
      BY <1>1, FS_RemoveElement
    <2> QED  BY <1>0, <1>2, <2>1, ModPlus DEF Minus
  <1> QED  BY <1>3, <1>4

\* A step of one call leaves what the others were counted as.
LEMMA FrameAuto ==
    ASSUME SafeInv, CountInv, NEW t \in Threads,
           \A u \in Threads \ {t} : pc'[u] = pc[u] /\ dev'[u] = dev[u] /\ req'[u] = req[u],
           \A d \in Devices : \/ pc[t] \in Inside /\ d = dev[t]
                              \/ charge'[d] = charge[d]
    PROVE  \A u \in Threads \ {t} : AutoInv(u)'
  <1>0. ASSUME NEW u \in Threads \ {t}, pc[u] \notin Configured PROVE AutoInv(u)'
    BY <1>0 DEF AutoInv, Configured
  <1> SUFFICES ASSUME NEW u \in Threads \ {t}, pc[u] \in Configured PROVE AutoInv(u)'
    BY <1>0
  <1>1. pc[u] \in Inside /\ dev[u] \in Devices /\ AutoInv(u)
    BY DEF Inside, Configured, SafeInv, TypeInv, CallInv, CountInv
  <1>2. ~(pc[t] \in Inside /\ dev[u] = dev[t])
    BY <1>1, Apart DEF SafeInv
  <1>3. charge'[dev[u]] = charge[dev[u]]
    BY <1>1, <1>2
  <1> QED  BY <1>1, <1>3 DEF AutoInv

\* A step that takes no share and gives none back counts nobody.
LEMMA FrameCount ==
    ASSUME EspAssumption, SafeInv, CountInv, NEW t \in Threads,
           \A u \in Threads \ {t} : pc'[u] = pc[u] /\ dev'[u] = dev[u] /\ req'[u] = req[u],
           pc[t] # "update_footprint", pc'[t] # "update_footprint",
           \A d \in Devices : \/ lock'[d] = lock[d]
                              \/ lock[d] \in {t, NoThread} /\ lock'[d] \in {t, NoThread},
           UNCHANGED <<charge, active_acc_cnt>>,
           AutoInv(t)'
    PROVE  CountInv'
  <1>1. \A u \in Threads \ {t} : AutoInv(u)'
    BY FrameAuto
  <1>2. \A d \in Devices : Releasing(d)' <=> Releasing(d)
    BY DEF Releasing, EspAssumption
  <1>3. Counted' = Counted
    BY <1>2 DEF Counted
  <1> QED  BY <1>1, <1>3 DEF CountInv

\* The steps outside esp_status.
LEMMA AsideCount ==
    ASSUME EspAssumption, SafeInv, SafeInv', CountInv, NEW t \in Threads,
           \/ Aside(t) \/ Setup(t) \/ Transfer(t) \/ Unlock(t)
           \/ Out(t) /\ pc[t] # "update_footprint"
    PROVE  CountInv'
  <1>0. /\ TypeOK /\ AutoInv(t) /\ ShareInv(t)' /\ CallInv
    BY DEF SafeInv, TypeInv, CountInv
  <1>1. UNCHANGED <<charge, active_acc_cnt>>
    BY DEF Aside, AccessCall, Lock, FlushL2, FlushLlc, Clear, Run, Wait, WaitInterrupted,
       Charge, ConfigUnlock, UpdateUnlock, FlushIoctlL2, Setup, Transfer, Unlock, Out,
       counters
  <1>2. \A u \in Threads \ {t} : pc'[u] = pc[u] /\ dev'[u] = dev[u] /\ req'[u] = req[u]
    BY <1>0 DEF Aside, AccessCall, Lock, FlushL2, FlushLlc, Clear, Run, Wait,
       WaitInterrupted, Charge, ConfigUnlock, UpdateUnlock, FlushIoctlL2, Setup, Transfer,
       Unlock, Out, Return, Goto, TypeOK, call
  <1>3. pc[t] # "update_footprint"
    BY DEF Aside, AccessCall, Lock, FlushL2, FlushLlc, Clear, Run, Wait, WaitInterrupted,
       Charge, ConfigUnlock, UpdateUnlock, FlushIoctlL2, Setup, Transfer, Unlock
  <1>4. pc'[t] # "update_footprint"
    BY <1>0 DEF Aside, AccessCall, Lock, FlushL2, FlushLlc, Clear, Run, Wait,
       WaitInterrupted, AfterWait, Charge, ConfigUnlock, UpdateUnlock, FlushIoctlL2, Setup,
       Transfer, Unlock, Out, Return, Goto, TypeOK
  <1>4b. pc'[t] # "charge"
    BY <1>0 DEF Aside, AccessCall, Lock, FlushL2, FlushLlc, Clear, Run, Wait,
       WaitInterrupted, AfterWait, Charge, ConfigUnlock, UpdateUnlock, FlushIoctlL2, Setup,
       Transfer, Unlock, Out, Return, Goto, TypeOK
  <1>5. \A d \in Devices : \/ lock'[d] = lock[d]
                           \/ lock[d] \in {t, NoThread} /\ lock'[d] \in {t, NoThread}
    BY <1>0 DEF Aside, AccessCall, Lock, FlushL2, FlushLlc, Clear, Run, Wait,
       WaitInterrupted, Charge, ConfigUnlock, UpdateUnlock, FlushIoctlL2, Setup, Transfer,
       Unlock, Out, TypeOK, CallInv, Inside
  <1>6. AutoInv(t)'
    <2>1. CASE Setup(t)
      <3>1. pc'[t] \in Configured => ~Managed(req[t]) /\ req'[t] = req[t]
        BY <1>0, <2>1 DEF Setup, Goto, TypeOK, Configured, call
      <3>2. pc'[t] \in Configured => charge'[dev'[t]] = "none"
        BY <1>0, <3>1 DEF ShareInv, Managed
      <3> QED  BY <1>4, <1>4b, <3>1, <3>2 DEF AutoInv, Managed
    <2>2. CASE ~Setup(t)
      <3>1. pc'[t] \in Configured =>
              /\ pc[t] \in Configured /\ dev'[t] = dev[t] /\ req'[t] = req[t]
        BY <1>0, <2>2 DEF Aside, AccessCall, Lock, FlushL2, FlushLlc, Clear, Run, Wait,
           WaitInterrupted, Charge, ConfigUnlock, UpdateUnlock, FlushIoctlL2, Transfer,
           Unlock, Out, Return, Goto, TypeOK, call, Configured
      <3> QED  BY <1>0, <1>1, <1>4, <1>4b, <3>1 DEF AutoInv
    <2> QED  BY <2>1, <2>2
  <1> QED  BY <1>1, <1>2, <1>3, <1>4, <1>5, <1>6, FrameCount

\* An AUTO access is counted when it gets its share.
LEMMA ConfigCount ==
    ASSUME EspAssumption, IsFiniteSet(Devices), SafeInv, CountInv, NEW t \in Threads, Config(t)
    PROVE  CountInv'
  <1>0. /\ TypeOK /\ ShareInv(t) /\ pc[t] = "config" /\ pc[t] \in Inside
    BY DEF SafeInv, TypeInv, Config, Inside
  <1>1. PICK d0 \in Devices : d0 = dev[t] /\ lock[d0] = t
    BY <1>0, OwnDevice
  <1>2. charge[d0] = "none" /\ coherence[d0] = req[t].coherence /\ Managed(req[t])
    BY <1>0, <1>1 DEF ShareInv
  <1>3. /\ UNCHANGED <<lock, dev, req>>
        /\ active_acc_cnt' = CountWith(d0)
        /\ charge' = [charge EXCEPT ![d0] = IF coherence[d0] # FULL THEN "auto" ELSE "full"]
        /\ pc' = [pc EXCEPT ![t] = IF coherence[d0] # FULL THEN "charge" ELSE "configured"]
    BY <1>1 DEF Config, Goto, call
  <1>4. /\ \A u \in Threads \ {t} : pc'[u] = pc[u]
        /\ \A d \in Devices : d # d0 => charge'[d] = charge[d]
        /\ charge'[d0] = IF coherence[d0] # FULL THEN "auto" ELSE "full"
        /\ pc'[t] = IF coherence[d0] # FULL THEN "charge" ELSE "configured"
    BY <1>0, <1>3 DEF TypeOK
  <1>5. \A u \in Threads : AutoInv(u)'
    <2>1. \A u \in Threads \ {t} : AutoInv(u)'
      BY <1>0, <1>1, <1>3, <1>4, FrameAuto
    <2>2. charge'[d0] = "auto" <=> req'[t].coherence = AUTO
      BY <1>2, <1>3, <1>4, CodesDiffer DEF Managed
    <2>3. dev'[t] = d0
      BY <1>1, <1>3
    <2>4. pc'[t] = "charge" => req'[t].coherence = AUTO
      BY <1>2, <1>3, <1>4, CodesDiffer DEF Managed
    <2>5. pc'[t] # "update_footprint"
      BY <1>4
    <2>6. AutoInv(t)'
      BY <2>2, <2>3, <2>4, <2>5 DEF AutoInv
    <2> QED  BY <2>1, <2>6
  <1>6. \A d \in Devices : Releasing(d)' <=> Releasing(d)
    BY <1>0, <1>3, <1>4 DEF Releasing
  <1>7. d0 \notin Counted /\ ~Releasing(d0)
    BY <1>0, <1>1, <1>2 DEF Counted, Releasing
  <1>8. CASE coherence[d0] # FULL
    <2>1. Counted' = Counted \cup {d0}
      BY <1>4, <1>6, <1>7, <1>8 DEF Counted
    <2>2. active_acc_cnt' = Cardinality(Counted \cup {d0}) % Word
      BY <1>3, <1>7, <1>8, CountFits DEF CountWith, CountInv
    <2> QED  BY <1>5, <2>1, <2>2 DEF CountInv
  <1>9. CASE coherence[d0] = FULL
    <2>1. Counted' = Counted
      BY <1>2, <1>4, <1>6, <1>9 DEF Counted
    <2> QED  BY <1>3, <1>5, <1>9, <2>1 DEF CountInv, CountWith
  <1> QED  BY <1>8, <1>9

\* And leaves the count in the first half of esp_update_status.
LEMMA UpdateFullCount ==
    ASSUME EspAssumption, IsFiniteSet(Devices), SafeInv, CountInv, NEW t \in Threads, UpdateFull(t)
    PROVE  CountInv'
  <1>0. /\ TypeOK /\ pc[t] = "release" /\ pc[t] \in Inside /\ pc[t] \in Configured
    BY DEF SafeInv, TypeInv, UpdateFull, Inside, Configured
  <1>1. PICK d0 \in Devices : d0 = dev[t] /\ lock[d0] = t
    BY <1>0, OwnDevice
  <1>2. charge[d0] = "auto" <=> req[t].coherence = AUTO
    BY <1>0, <1>1 DEF CountInv, AutoInv
  <1>3. UNCHANGED <<lock, dev, req>>
    BY DEF UpdateFull, call
  <1>4. /\ \A u \in Threads \ {t} : pc'[u] = pc[u]
        /\ \A d \in Devices : d # d0 => charge'[d] = charge[d]
    BY <1>0, <1>1 DEF UpdateFull, Goto, TypeOK
  <1>5. \A u \in Threads \ {t} : AutoInv(u)'
    BY <1>0, <1>1, <1>3, <1>4, FrameAuto
  <1>6. \A d \in Devices : d # d0 => (Releasing(d)' <=> Releasing(d))
    BY <1>0, <1>1, <1>3, <1>4 DEF Releasing
  <1>7. ~Releasing(d0)
    BY <1>0, <1>1 DEF Releasing
  <1>8. CASE req[t].coherence = AUTO
    <2>1. /\ charge' = charge /\ pc'[t] = "update_footprint"
          /\ active_acc_cnt' = Minus(active_acc_cnt, 1)
      BY <1>0, <1>8 DEF UpdateFull, Goto, TypeOK
    <2>2. Releasing(d0)'
      BY <1>1, <1>3, <2>1 DEF Releasing
    <2>3. Counted' = Counted \ {d0}
      BY <1>6, <2>1, <2>2 DEF Counted
    <2>4. d0 \in Counted
      BY <1>2, <1>7, <1>8 DEF Counted
    <2>5. active_acc_cnt' = Cardinality(Counted \ {d0}) % Word
      BY <2>1, <2>4, CountFits DEF CountInv
    <2>6. AutoInv(t)'
      BY <1>1, <1>2, <1>3, <1>8, <2>1 DEF AutoInv
    <2> QED  BY <1>5, <2>3, <2>5, <2>6 DEF CountInv
  <1>9. CASE req[t].coherence # AUTO
    <2>1. /\ charge'[d0] = "none" /\ pc'[t] = "updated" /\ active_acc_cnt' = active_acc_cnt
      BY <1>0, <1>1, <1>9 DEF UpdateFull, Goto, TypeOK
    <2>2. Counted' = Counted
      BY <1>2, <1>4, <1>6, <1>9, <2>1 DEF Counted
    <2>3. AutoInv(t)'
      BY <2>1 DEF AutoInv, Configured
    <2> QED  BY <1>5, <2>1, <2>2, <2>3 DEF CountInv
  <1> QED  BY <1>8, <1>9

\* Its second half counts nobody.
LEMMA UpdateFootprintCount ==
    ASSUME EspAssumption, SafeInv, CountInv, NEW t \in Threads, UpdateFootprint(t)
    PROVE  CountInv'
  <1>0. /\ TypeOK /\ pc[t] = "update_footprint" /\ pc[t] \in Inside
    BY DEF SafeInv, TypeInv, UpdateFootprint, Inside
  <1>1. PICK d0 \in Devices : d0 = dev[t] /\ lock[d0] = t
    BY <1>0, OwnDevice
  <1>2. UNCHANGED <<lock, dev, req, active_acc_cnt>>
    BY DEF UpdateFootprint, call
  <1>3. /\ \A u \in Threads \ {t} : pc'[u] = pc[u]
        /\ \A d \in Devices : d # d0 => charge'[d] = charge[d]
        /\ charge'[d0] = "none" /\ pc'[t] = "updated"
    BY <1>0, <1>1 DEF UpdateFootprint, Goto, TypeOK
  <1>4. \A u \in Threads : AutoInv(u)'
    <2>1. \A u \in Threads \ {t} : AutoInv(u)'
      BY <1>0, <1>1, <1>2, <1>3, FrameAuto
    <2> QED  BY <1>3, <2>1 DEF AutoInv, Configured
  <1>5. \A d \in Devices : d # d0 => (Releasing(d)' <=> Releasing(d))
    BY <1>0, <1>1, <1>2, <1>3 DEF Releasing
  <1>6. Releasing(d0)
    BY <1>0, <1>1 DEF Releasing
  <1>7. Counted' = Counted
    BY <1>3, <1>5, <1>6 DEF Counted
  <1> QED  BY <1>2, <1>4, <1>7 DEF CountInv

\* Every step keeps the count.
LEMMA NextCount ==
    ASSUME EspAssumption, IsFiniteSet(Devices), ~FlushCalls, SafeInv, CountInv, [Next]_vars
    PROVE  CountInv'
  <1>0. SafeInv'
    BY NextSafe
  <1>1. ASSUME UNCHANGED <<lock, charge, active_acc_cnt, pc, dev, req>> PROVE CountInv'
    <2>1. Counted' = Counted
      BY <1>1 DEF Counted, Releasing
    <2> QED  BY <1>1, <2>1 DEF CountInv, AutoInv
  <1>2. CASE UNCHANGED vars
    BY <1>1, <1>2 DEF vars, counters, call
  <1>3. ASSUME NEW d \in Devices, Hardware(d) \/ \E t \in Threads : RunIoctl(t, d) PROVE CountInv'
    BY <1>1, <1>3 DEF Hardware, Finish, IrqAck, IrqComplete, RunIoctl, counters, call
  <1>4. ASSUME NEW t \in Threads,
               \/ LockInterrupted(t) \/ SetupFailed(t) \/ ConfigInterrupted(t)
               \/ UpdateInterrupted(t) \/ FlushInterrupted(t) \/ FlushIoctlLlc(t)
        PROVE  CountInv'
    <2>1. Out(t) /\ pc[t] # "update_footprint"
      BY <1>4 DEF LockInterrupted, SetupFailed, ConfigInterrupted,
         UpdateInterrupted, FlushInterrupted, FlushIoctlLlc, Holding
    <2> QED  BY <1>0, <2>1, AsideCount
  <1>5. ASSUME NEW t \in Threads, Aside(t) \/ Setup(t) \/ Transfer(t) \/ Unlock(t) PROVE CountInv'
    BY <1>0, <1>5, AsideCount
  <1>6. ASSUME NEW t \in Threads, FlushIoctl(t) PROVE FALSE
    BY <1>6 DEF FlushIoctl
  <1> QED
    BY <1>2, <1>3, <1>4, <1>5, <1>6, ConfigCount, UpdateFullCount, UpdateFootprintCount
    DEF Next, InCall, Aside

\* And so it is exact from the start.
LEMMA AlwaysCounted ==
    ASSUME EspAssumption, IsFiniteSet(Devices), ~FlushCalls PROVE Spec => []CountInv
  <1>1. Init => CountInv
    <2> SUFFICES ASSUME Init PROVE CountInv
      OBVIOUS
    <2>1. Counted = {}
      BY DEF Init, Counted
    <2>2. \A t \in Threads : AutoInv(t)
      BY DEF Init, AutoInv, Configured
    <2>3. active_acc_cnt = 0
      BY DEF Init
    <2>4. 0 % Word = 0
      BY DEF EspAssumption
    <2> QED  BY <2>1, <2>2, <2>3, <2>4, FS_EmptySet DEF CountInv
  <1>2. SafeInv /\ CountInv /\ [Next]_vars => CountInv'
    BY NextCount
  <1> QED  BY <1>1, <1>2, AlwaysSafe, PTL DEF Spec

\* active_acc_cnt is the number of accelerators that an AUTO access was counted for
\* and that were not given back, whichever way calls are interrupted or fail.
THEOREM ActiveIsExact ==
    ASSUME EspAssumption, IsFiniteSet(Devices), ~FlushCalls PROVE Spec => []ActiveCounted
  <1>1. SafeInv /\ CountInv => ActiveCounted
    <2> SUFFICES ASSUME SafeInv, CountInv, status_lock = NoThread
                 PROVE  active_acc_cnt = Cardinality({d \in Devices : charge[d] = "auto"}) % Word
      BY DEF ActiveCounted
    <2>1. \A d \in Devices : ~Releasing(d)
      BY DEF SafeInv, TypeInv, StatusInv, Holding, Releasing, EspAssumption
    <2>2. Counted = {d \in Devices : charge[d] = "auto"}
      BY <2>1 DEF Counted
    <2> QED  BY <2>2, CountFits DEF CountInv
  <1> QED  BY <1>1, AlwaysSafe, AlwaysCounted, PTL

-----------------------------------------------------------------------------
(* What they weigh                                                         *)

\* The device is between the two halves of esp_runtime_config: it is counted, and
\* its footprint is not.
Charging(d) == lock[d] \in Threads /\ pc[lock[d]] = "charge" /\ dev[lock[d]] = d

\* The accelerators whose footprints are in esp_status at any instant.
Weighed == {d \in Devices : charge[d] = "auto" /\ coherence[d] # NONE /\ ~Charging(d)}

\* What every accelerator adds, or would add, to one entry of the split.
Shares(m) == [d \in Devices |-> Share(d, m)]

\* The two kinds of sums, exact between any two steps.
FootInv ==
    /\ active_footprint = SumFunctionOnSet(footprint, Weighed) % Word
    /\ \A m \in Mems : active_footprint_split[m] = SumFunctionOnSet(Shares(m), Weighed) % Word

\* An accelerator adds a number of units to each memory controller.
LEMMA ShareType ==
    ASSUME EspAssumption, TypeOK
    PROVE  \A m \in Mems, d \in Devices : Share(d, m) \in Nat
  <1>1. llc_banks \in Nat \ {0}
    BY DEF EspAssumption, N_MEM
  <1>2. \A d \in Devices : footprint[d] \in Nat
    BY DEF TypeOK
  <1>3. \A n \in Nat : n \div llc_banks \in Nat
    BY <1>1
  <1> QED  BY <1>2, <1>3 DEF Share

\* One accelerator more or less in a sum of unsigned ints.
LEMMA WeightFits ==
    ASSUME EspAssumption, IsFiniteSet(Devices), NEW F, \A d \in Devices : F[d] \in Nat,
           NEW S \in SUBSET Devices
    PROVE  /\ \A d \in Devices \ S :
                Plus(SumFunctionOnSet(F, S) % Word, F[d]) = SumFunctionOnSet(F, S \cup {d}) % Word
           /\ \A d \in S :
                Minus(SumFunctionOnSet(F, S) % Word, F[d]) = SumFunctionOnSet(F, S \ {d}) % Word
  <1>0. Word \in Nat \ {0} /\ IsFiniteSet(S)
    BY FS_Subset DEF EspAssumption
  <1>1. \A T \in SUBSET Devices : SumFunctionOnSet(F, T) \in Int
    BY SumType
  <1>2. ASSUME NEW d \in Devices \ S
        PROVE  Plus(SumFunctionOnSet(F, S) % Word, F[d]) = SumFunctionOnSet(F, S \cup {d}) % Word
    <2>1. SumFunctionOnSet(F, S \cup {d}) = F[d] + SumFunctionOnSet(F, S)
      BY <1>0, SumAdd
    <2>2. SumFunctionOnSet(F, S) \in Int /\ F[d] \in Int
      BY <1>1
    <2>3. SumFunctionOnSet(F, S \cup {d}) = SumFunctionOnSet(F, S) + F[d]
      BY <2>1, <2>2
    <2> QED  BY <1>0, <2>2, <2>3, ModPlus DEF Plus
  <1>3. ASSUME NEW d \in S
        PROVE  Minus(SumFunctionOnSet(F, S) % Word, F[d]) = SumFunctionOnSet(F, S \ {d}) % Word
    <2>1. SumFunctionOnSet(F, S) = F[d] + SumFunctionOnSet(F, S \ {d})
      BY <1>0, SumTakeOut
    <2>2. /\ SumFunctionOnSet(F, S) \in Int /\ F[d] \in Int
          /\ SumFunctionOnSet(F, S \ {d}) \in Int
      BY <1>1
    <2>3. SumFunctionOnSet(F, S \ {d}) = SumFunctionOnSet(F, S) - F[d]
      BY <2>1, <2>2
    <2>4. Minus(SumFunctionOnSet(F, S) % Word, F[d]) = (SumFunctionOnSet(F, S) - F[d]) % Word
      BY <1>0, <2>2, ModPlus DEF Minus
    <2> QED  BY <2>3, <2>4
  <1> QED  BY <1>2, <1>3

\* The sums stay what they are when the same accelerators weigh the same.
LEMMA FrameFoot ==
    ASSUME EspAssumption, IsFiniteSet(Devices), TypeOK, FootInv,
           Weighed' = Weighed,
           \A d \in Weighed : /\ footprint'[d] = footprint[d]
                              /\ alloc_policy'[d] = alloc_policy[d]
                              /\ ddr_node'[d] = ddr_node[d],
           UNCHANGED <<active_footprint, active_footprint_split>>
    PROVE  FootInv'
  <1>1. IsFiniteSet(Weighed) /\ Weighed \in SUBSET Devices
    <2>1. Weighed \in SUBSET Devices
      BY DEF Weighed
    <2> QED  BY <2>1, FS_Subset
  <1>2. SumFunctionOnSet(footprint, Weighed) = SumFunctionOnSet(footprint', Weighed)
    <2>1. \A d \in Weighed : footprint[d] \in Int /\ footprint[d] = footprint'[d]
      BY <1>1 DEF TypeOK
    <2> QED  BY <1>1, <2>1, SumSameTerms
  <1>3. ASSUME NEW m \in Mems
        PROVE  SumFunctionOnSet(Shares(m), Weighed) = SumFunctionOnSet(Shares(m)', Weighed)
    <2>1. \A d \in Weighed : Shares(m)[d] = Share(d, m) /\ Shares(m)'[d] = Share(d, m)'
      BY <1>1 DEF Shares
    <2>2. \A d \in Weighed : Share(d, m)' = Share(d, m)
      BY <1>1 DEF Share
    <2>3. \A d \in Weighed : Shares(m)[d] \in Int /\ Shares(m)[d] = Shares(m)'[d]
      BY <1>1, <2>1, <2>2, ShareType
    <2> QED  BY <1>1, <2>3, SumSameTerms
  <1>4. active_footprint' = SumFunctionOnSet(footprint', Weighed') % Word
    BY <1>2 DEF FootInv
  <1>5. \A m \in Mems : active_footprint_split'[m] = SumFunctionOnSet(Shares(m)', Weighed') % Word
    BY <1>3 DEF FootInv
  <1> QED  BY <1>4, <1>5 DEF FootInv

\* A step of a call that is not at Charge, before or after, charges nobody.
LEMMA FrameCharging ==
    ASSUME EspAssumption, NEW t \in Threads,
           \A u \in Threads \ {t} : pc'[u] = pc[u] /\ dev'[u] = dev[u],
           pc[t] # "charge", pc'[t] # "charge",
           \A d \in Devices : \/ lock'[d] = lock[d]
                              \/ lock[d] \in {t, NoThread} /\ lock'[d] \in {t, NoThread}
    PROVE  \A d \in Devices : Charging(d)' <=> Charging(d)
  BY DEF Charging, EspAssumption

\* The steps that leave esp_status alone.
Unweighing(t) ==
    \/ AccessCall(t) \/ Lock(t) \/ FlushL2(t) \/ FlushLlc(t) \/ Clear(t) \/ Run(t)
    \/ Wait(t) \/ WaitInterrupted(t) \/ ConfigUnlock(t) \/ UpdateUnlock(t)
    \/ FlushIoctlL2(t) \/ Transfer(t) \/ Unlock(t)

\* They weigh nothing.
LEMMA UnweighingFoot ==
    ASSUME EspAssumption, IsFiniteSet(Devices), SafeInv, FootInv, NEW t \in Threads,
           Unweighing(t) \/ (Out(t) /\ pc[t] # "charge")
    PROVE  FootInv'
  <1>0. TypeOK /\ CallInv
    BY DEF SafeInv, TypeInv
  <1>1. UNCHANGED <<coherence, footprint, alloc_policy, ddr_node, charge, active_footprint,
                    active_footprint_split>>
    BY DEF Unweighing, AccessCall, Lock, FlushL2, FlushLlc, Clear, Run, Wait, WaitInterrupted,
       ConfigUnlock, UpdateUnlock, FlushIoctlL2, Transfer, Unlock, Out, counters, fields
  <1>2. \A u \in Threads \ {t} : pc'[u] = pc[u] /\ dev'[u] = dev[u]
    BY <1>0 DEF Unweighing, AccessCall, Lock, FlushL2, FlushLlc, Clear, Run, Wait,
       WaitInterrupted, ConfigUnlock, UpdateUnlock, FlushIoctlL2, Transfer, Unlock, Out,
       Return, Goto, TypeOK, call
  <1>3. pc[t] # "charge"
    BY DEF Unweighing, AccessCall, Lock, FlushL2, FlushLlc, Clear, Run, Wait, WaitInterrupted,
       ConfigUnlock, UpdateUnlock, FlushIoctlL2, Transfer, Unlock
  <1>4. pc'[t] # "charge"
    BY <1>0 DEF Unweighing, AccessCall, Lock, FlushL2, FlushLlc, Clear, Run, Wait,
       WaitInterrupted, AfterWait, ConfigUnlock, UpdateUnlock, FlushIoctlL2, Transfer,
       Unlock, Out, Return, Goto, TypeOK
  <1>5. \A d \in Devices : \/ lock'[d] = lock[d]
                           \/ lock[d] \in {t, NoThread} /\ lock'[d] \in {t, NoThread}
    BY <1>0 DEF Unweighing, AccessCall, Lock, FlushL2, FlushLlc, Clear, Run, Wait,
           WaitInterrupted,
       ConfigUnlock, UpdateUnlock, FlushIoctlL2, Transfer, Unlock, Out, TypeOK, CallInv, Inside
  <1>6. \A d \in Devices : Charging(d)' <=> Charging(d)
    BY <1>2, <1>3, <1>4, <1>5, FrameCharging
  <1>7. Weighed' = Weighed
    BY <1>1, <1>6 DEF Weighed
  <1> QED  BY <1>0, <1>1, <1>7, FrameFoot

\* Setup writes the fields of a device that weighs nothing.
LEMMA SetupFoot ==
    ASSUME EspAssumption, IsFiniteSet(Devices), SafeInv, FootInv, NEW t \in Threads, Setup(t)
    PROVE  FootInv'
  <1>0. /\ TypeOK /\ ShareInv(t) /\ pc[t] = "setup" /\ pc[t] \in Inside
    BY DEF SafeInv, TypeInv, Setup, Inside
  <1>1. PICK d0 \in Devices : d0 = dev[t] /\ lock[d0] = t
    BY <1>0, OwnDevice
  <1>2. charge[d0] = "none" /\ UNCHANGED <<charge, active_footprint, active_footprint_split>>
    BY <1>0, <1>1 DEF ShareInv, Setup, counters
  <1>3. \A d \in Devices : d # d0 => /\ footprint'[d] = footprint[d] /\ coherence'[d] = coherence[d]
                                     /\ alloc_policy'[d] = alloc_policy[d]
                                     /\ ddr_node'[d] = ddr_node[d]
    BY <1>0, <1>1 DEF Setup, TypeOK
  <1>4. /\ \A u \in Threads \ {t} : pc'[u] = pc[u] /\ dev'[u] = dev[u]
        /\ pc[t] # "charge" /\ pc'[t] # "charge" /\ UNCHANGED lock
    BY <1>0 DEF Setup, Goto, TypeOK, call
  <1>5. \A d \in Devices : Charging(d)' <=> Charging(d)
    BY <1>4, FrameCharging
  <1>6. d0 \notin Weighed /\ Weighed' = Weighed
    BY <1>2, <1>3, <1>5 DEF Weighed
  <1> QED  BY <1>0, <1>2, <1>3, <1>6, FrameFoot DEF Weighed

\* The first half of esp_runtime_config counts, and weighs nothing yet.
LEMMA ConfigFoot ==
    ASSUME EspAssumption, IsFiniteSet(Devices), SafeInv, FootInv, NEW t \in Threads, Config(t)
    PROVE  FootInv'
  <1>0. /\ TypeOK /\ ShareInv(t) /\ pc[t] = "config" /\ pc[t] \in Inside
    BY DEF SafeInv, TypeInv, Config, Inside
  <1>1. PICK d0 \in Devices : d0 = dev[t] /\ lock[d0] = t
    BY <1>0, OwnDevice
  <1>2. /\ charge[d0] = "none"
        /\ UNCHANGED <<lock, dev, footprint, alloc_policy, ddr_node, active_footprint,
                       active_footprint_split>>
    BY <1>0, <1>1 DEF ShareInv, Config, call
  <1>3. /\ \A d \in Devices : d # d0 => coherence'[d] = coherence[d] /\ charge'[d] = charge[d]
        /\ charge'[d0] = IF coherence[d0] # FULL THEN "auto" ELSE "full"
        /\ \A u \in Threads \ {t} : pc'[u] = pc[u]
        /\ pc'[t] = IF coherence[d0] # FULL THEN "charge" ELSE "configured"
    BY <1>0, <1>1 DEF Config, Goto, TypeOK
  <1>4. \A d \in Devices : d # d0 => (Charging(d)' <=> Charging(d))
    BY <1>0, <1>1, <1>2, <1>3 DEF Charging
  <1>5. charge'[d0] = "auto" => Charging(d0)'
    BY <1>1, <1>2, <1>3 DEF Charging
  <1>6. Weighed' = Weighed
    BY <1>2, <1>3, <1>4, <1>5 DEF Weighed
  <1> QED  BY <1>0, <1>2, <1>6, FrameFoot

\* The second half adds the footprint of a device that goes through the LLC.
LEMMA ChargeFoot ==
    ASSUME EspAssumption, IsFiniteSet(Devices), SafeInv, CountInv, FootInv,
           NEW t \in Threads, Charge(t)
    PROVE  FootInv'
  <1>0. /\ TypeOK /\ AutoInv(t) /\ pc[t] = "charge" /\ pc[t] \in Inside /\ pc[t] \in Configured
    BY DEF SafeInv, TypeInv, CountInv, Charge, Inside, Configured
  <1>1. PICK d0 \in Devices : d0 = dev[t] /\ lock[d0] = t
    BY <1>0, OwnDevice
  <1>2. /\ charge[d0] = "auto"
        /\ UNCHANGED <<lock, dev, coherence, footprint, alloc_policy, ddr_node, charge>>
    BY <1>0, <1>1 DEF AutoInv, Charge, call, fields
  <1>3. /\ \A u \in Threads \ {t} : pc'[u] = pc[u]
        /\ pc'[t] = "configured"
    BY <1>0 DEF Charge, Goto, TypeOK
  <1>4. \A d \in Devices : d # d0 => (Charging(d)' <=> Charging(d))
    BY <1>0, <1>1, <1>2, <1>3 DEF Charging
  <1>5. Charging(d0) /\ ~Charging(d0)'
    BY <1>0, <1>1, <1>2, <1>3 DEF Charging
  <1>6. CASE coherence[d0] = NONE
    <2>1. Weighed' = Weighed
      BY <1>2, <1>4, <1>6 DEF Weighed
    <2>2. UNCHANGED <<active_footprint, active_footprint_split>>
      BY <1>1, <1>6 DEF Charge
    <2> QED  BY <1>0, <1>2, <2>1, <2>2, FrameFoot
  <1>7. CASE coherence[d0] # NONE
    <2>1. Weighed' = Weighed \cup {d0} /\ d0 \notin Weighed /\ Weighed \in SUBSET Devices
      BY <1>2, <1>4, <1>5, <1>7 DEF Weighed
    <2>2. /\ active_footprint' = Plus(active_footprint, footprint[d0])
          /\ active_footprint_split' = [m \in Mems |-> Plus(active_footprint_split[m], Share(d0, m))]
      BY <1>1, <1>7 DEF Charge
    <2>3. active_footprint' = SumFunctionOnSet(footprint, Weighed \cup {d0}) % Word
      <3>1. \A d \in Devices : footprint[d] \in Nat
        BY <1>0 DEF TypeOK
      <3> QED  BY <2>1, <2>2, <3>1, WeightFits DEF FootInv
    <2>4. \A m \in Mems : active_footprint_split'[m] =
                            SumFunctionOnSet(Shares(m), Weighed \cup {d0}) % Word
      <3> SUFFICES ASSUME NEW m \in Mems
                   PROVE  active_footprint_split'[m] =
                            SumFunctionOnSet(Shares(m), Weighed \cup {d0}) % Word
        OBVIOUS
      <3>1. \A d \in Devices : Shares(m)[d] = Share(d, m) /\ Shares(m)[d] \in Nat
        BY <1>0, ShareType DEF Shares
      <3>2. active_footprint_split[m] = SumFunctionOnSet(Shares(m), Weighed) % Word
        BY DEF FootInv
      <3>3. active_footprint_split'[m] = Plus(active_footprint_split[m], Shares(m)[d0])
        BY <2>2, <3>1
      <3> QED  BY <2>1, <3>1, <3>2, <3>3, WeightFits
    <2>5. footprint' = footprint /\ \A m \in Mems : Shares(m)' = Shares(m)
      BY <1>2 DEF Shares, Share
    <2> QED  BY <2>1, <2>3, <2>4, <2>5 DEF FootInv
  <1> QED  BY <1>6, <1>7

\* The first half of esp_update_status leaves the footprint in.
LEMMA UpdateFullFoot ==
    ASSUME EspAssumption, IsFiniteSet(Devices), SafeInv, CountInv, FootInv,
           NEW t \in Threads, UpdateFull(t)
    PROVE  FootInv'
  <1>0. /\ TypeOK /\ AutoInv(t) /\ pc[t] = "release" /\ pc[t] \in Inside /\ pc[t] \in Configured
    BY DEF SafeInv, TypeInv, CountInv, UpdateFull, Inside, Configured
  <1>1. PICK d0 \in Devices : d0 = dev[t] /\ lock[d0] = t
    BY <1>0, OwnDevice
  <1>2. UNCHANGED <<lock, dev, coherence, footprint, alloc_policy, ddr_node, active_footprint,
                    active_footprint_split>>
    BY DEF UpdateFull, call, fields
  <1>3. /\ \A u \in Threads \ {t} : pc'[u] = pc[u] /\ dev'[u] = dev[u]
        /\ pc[t] # "charge" /\ pc'[t] # "charge"
    BY <1>0, <1>2 DEF UpdateFull, Goto, TypeOK
  <1>4. \A d \in Devices : Charging(d)' <=> Charging(d)
    BY <1>2, <1>3, FrameCharging
  <1>5. \A d \in Devices : charge'[d] = "auto" <=> charge[d] = "auto"
    BY <1>0, <1>1 DEF UpdateFull, TypeOK, AutoInv
  <1>6. Weighed' = Weighed
    BY <1>2, <1>4, <1>5 DEF Weighed
  <1> QED  BY <1>0, <1>2, <1>6, FrameFoot

\* Its second half takes it out.
LEMMA UpdateFootprintFoot ==
    ASSUME EspAssumption, IsFiniteSet(Devices), SafeInv, CountInv, FootInv,
           NEW t \in Threads, UpdateFootprint(t)
    PROVE  FootInv'
  <1>0. /\ TypeOK /\ AutoInv(t) /\ pc[t] = "update_footprint" /\ pc[t] \in Inside
        /\ pc[t] \in Configured
    BY DEF SafeInv, TypeInv, CountInv, UpdateFootprint, Inside, Configured
  <1>1. PICK d0 \in Devices : d0 = dev[t] /\ lock[d0] = t
    BY <1>0, OwnDevice
  <1>2. /\ charge[d0] = "auto"
        /\ UNCHANGED <<lock, dev, coherence, footprint, alloc_policy, ddr_node>>
    BY <1>0, <1>1 DEF AutoInv, UpdateFootprint, call, fields
  <1>3. /\ \A u \in Threads \ {t} : pc'[u] = pc[u] /\ dev'[u] = dev[u]
        /\ pc[t] # "charge" /\ pc'[t] # "charge"
        /\ \A d \in Devices : d # d0 => charge'[d] = charge[d]
        /\ charge'[d0] = "none"
    BY <1>0, <1>1, <1>2 DEF UpdateFootprint, Goto, TypeOK
  <1>4. \A d \in Devices : Charging(d)' <=> Charging(d)
    BY <1>2, <1>3, FrameCharging
  <1>5. ~Charging(d0)
    BY <1>0, <1>1 DEF Charging
  <1>6. CASE coherence[d0] = NONE
    <2>1. Weighed' = Weighed
      BY <1>2, <1>3, <1>4, <1>6 DEF Weighed
    <2>2. UNCHANGED <<active_footprint, active_footprint_split>>
      BY <1>1, <1>6 DEF UpdateFootprint
    <2> QED  BY <1>0, <1>2, <2>1, <2>2, FrameFoot
  <1>7. CASE coherence[d0] # NONE
    <2>1. Weighed' = Weighed \ {d0} /\ d0 \in Weighed /\ Weighed \in SUBSET Devices
      BY <1>2, <1>3, <1>4, <1>5, <1>7 DEF Weighed
    <2>2. /\ active_footprint' = Minus(active_footprint, footprint[d0])
          /\ active_footprint_split' = [m \in Mems |-> Minus(active_footprint_split[m], Share(d0, m))]
      BY <1>1, <1>7 DEF UpdateFootprint
    <2>3. active_footprint' = SumFunctionOnSet(footprint, Weighed \ {d0}) % Word
      <3>1. \A d \in Devices : footprint[d] \in Nat
        BY <1>0 DEF TypeOK
      <3> QED  BY <2>1, <2>2, <3>1, WeightFits DEF FootInv
    <2>4. \A m \in Mems : active_footprint_split'[m] =
                            SumFunctionOnSet(Shares(m), Weighed \ {d0}) % Word
      <3> SUFFICES ASSUME NEW m \in Mems
                   PROVE  active_footprint_split'[m] =
                            SumFunctionOnSet(Shares(m), Weighed \ {d0}) % Word
        OBVIOUS
      <3>1. \A d \in Devices : Shares(m)[d] = Share(d, m) /\ Shares(m)[d] \in Nat
        BY <1>0, ShareType DEF Shares
      <3>2. active_footprint_split[m] = SumFunctionOnSet(Shares(m), Weighed) % Word
        BY DEF FootInv
      <3>3. active_footprint_split'[m] = Minus(active_footprint_split[m], Shares(m)[d0])
        BY <2>1, <2>2, <3>1
      <3> QED  BY <2>1, <3>1, <3>2, <3>3, WeightFits
    <2>5. footprint' = footprint /\ \A m \in Mems : Shares(m)' = Shares(m)
      BY <1>2 DEF Shares, Share
    <2> QED  BY <2>1, <2>3, <2>4, <2>5 DEF FootInv
  <1> QED  BY <1>6, <1>7

\* Every step keeps the sums.
LEMMA NextFoot ==
    ASSUME EspAssumption, IsFiniteSet(Devices), ~FlushCalls, SafeInv, CountInv, FootInv,
           [Next]_vars
    PROVE  FootInv'
  <1>0. TypeOK
    BY DEF SafeInv, TypeInv
  <1>1. ASSUME UNCHANGED <<lock, fields, charge, counters, pc, dev>> PROVE FootInv'
    <2>1. Weighed' = Weighed
      BY <1>1 DEF Weighed, Charging, fields
    <2> QED  BY <1>0, <1>1, <2>1, FrameFoot DEF fields, counters
  <1>2. CASE UNCHANGED vars
    BY <1>1, <1>2 DEF vars, call
  <1>3. ASSUME NEW d \in Devices, Hardware(d) \/ \E t \in Threads : RunIoctl(t, d) PROVE FootInv'
    BY <1>1, <1>3 DEF Hardware, Finish, IrqAck, IrqComplete, RunIoctl, call
  <1>4. ASSUME NEW t \in Threads,
               \/ LockInterrupted(t) \/ SetupFailed(t) \/ ConfigInterrupted(t)
               \/ UpdateInterrupted(t) \/ FlushInterrupted(t) \/ FlushIoctlLlc(t)
        PROVE  FootInv'
    <2>1. Out(t) /\ pc[t] # "charge"
      BY <1>4 DEF LockInterrupted, SetupFailed, ConfigInterrupted,
         UpdateInterrupted, FlushInterrupted, FlushIoctlLlc, Holding
    <2> QED  BY <2>1, UnweighingFoot
  <1>5. ASSUME NEW t \in Threads, Unweighing(t) PROVE FootInv'
    BY <1>5, UnweighingFoot
  <1>6. ASSUME NEW t \in Threads, FlushIoctl(t) PROVE FALSE
    BY <1>6 DEF FlushIoctl
  <1> QED
    BY <1>2, <1>3, <1>4, <1>5, <1>6, SetupFoot, ConfigFoot, ChargeFoot, UpdateFullFoot,
       UpdateFootprintFoot
    DEF Next, InCall, Unweighing

\* esp_status says exactly which accelerators are in use: their number, and the sums
\* of their footprints in all and on each memory controller, modulo the width of the
\* counters, whichever way calls interleave, are interrupted or fail.
THEOREM StatusIsExact ==
    ASSUME EspAssumption, IsFiniteSet(Devices), ~FlushCalls PROVE Spec => []StatusExact
  <1>1. Init => FootInv
    <2> SUFFICES ASSUME Init PROVE FootInv
      OBVIOUS
    <2>1. Weighed = {}
      BY DEF Init, Weighed
    <2>2. \A F : SumFunctionOnSet(F, {}) = 0
      BY SumNothing
    <2>3. active_footprint = 0 /\ \A m \in Mems : active_footprint_split[m] = 0
      BY DEF Init
    <2>4. 0 % Word = 0
      BY DEF EspAssumption
    <2> QED  BY <2>1, <2>2, <2>3, <2>4 DEF FootInv
  <1>2. SafeInv /\ CountInv /\ FootInv /\ [Next]_vars => FootInv'
    BY NextFoot
  <1>3. SafeInv /\ CountInv /\ FootInv => FootprintsCounted
    <2> SUFFICES ASSUME SafeInv, FootInv, status_lock = NoThread
                 PROVE  /\ active_footprint = SumFunctionOnSet(footprint, Charged) % Word
                        /\ \A m \in Mems : active_footprint_split[m] =
                             SumFunctionOnSet([d \in Devices |-> Share(d, m)], Charged) % Word
      BY DEF FootprintsCounted
    <2>1. \A d \in Devices : ~Charging(d)
      BY DEF SafeInv, TypeInv, StatusInv, Holding, Charging, EspAssumption
    <2>2. Weighed = Charged
      BY <2>1 DEF Weighed, Charged
    <2> QED  BY <2>2 DEF FootInv, Shares
  <1>4. ActiveCounted /\ FootprintsCounted => StatusExact
    BY DEF StatusExact
  <1> QED  BY <1>1, <1>2, <1>3, <1>4, AlwaysSafe, AlwaysCounted, ActiveIsExact, PTL DEF Spec

-----------------------------------------------------------------------------
(* The answers, where no signal comes and every start is an access's       *)

\* An accelerator is at work, or its interrupt is being handled.
Busy(d) == state[d] # "idle" \/ irq[d] # "none"
\* Then it works for a call that waits for it and that has not been woken.
WorkInv(d) ==
    Busy(d) => /\ run_by[d] \in Threads /\ pc[run_by[d]] = "wait" /\ dev[run_by[d]] = d
               /\ ~completion[d] /\ ~err[d]
               /\ state[d] # "idle" => irq[d] = "none"
               /\ state[d] \in {"done", "error"} => outcome[run_by[d]] = state[d]
               /\ irq[d] # "none" => outcome[run_by[d]] = irq[d]

\* What a call may conclude from err and the completion.
AnswerInv(t) ==
    /\ pc[t] \in {"transfer", "run"} => ~err[dev[t]]
    /\ pc[t] = "run" => ~completion[dev[t]]
    /\ pc[t] = "wait" /\ completion[dev[t]] =>
           outcome[t] = IF err[dev[t]] THEN "error" ELSE "done"
    /\ pc[t] \in {"release", "update_footprint", "updated", "unlock"} /\ req[t].run =>
           /\ rc[t] = "ok" => outcome[t] = "done"
           /\ rc[t] = "error" => outcome[t] = "error"
    /\ pc[t] \in {"run", "wait"} => req[t].run

\* The inductive invariant where no signal arrives and nobody uses the run ioctl.
QuietInv ==
    /\ TypeInv
    /\ \A d \in Devices : WorkInv(d)
    /\ \A t \in Threads : AnswerInv(t)

\* A call at work on its device, and not waiting, finds it at rest.
LEMMA AtRest ==
    ASSUME QuietInv, NEW t \in Threads, pc[t] \in Inside, pc[t] # "wait"
    PROVE  ~Busy(dev[t]) /\ \A d \in Devices : Busy(d) => run_by[d] # t /\ d # dev[t]
  <1>1. \A u \in Threads : pc[u] = "wait" => pc[u] \in Inside
    BY DEF Inside
  <1>2. dev[t] \in Devices
    BY DEF QuietInv, TypeInv, CallInv, Inside
  <1> QED  BY <1>1, <1>2, Apart DEF QuietInv, WorkInv

\* A step of one call leaves the answers of the others alone.
LEMMA FrameAnswers ==
    ASSUME QuietInv, NEW t \in Threads,
           \A u \in Threads \ {t} : /\ pc'[u] = pc[u] /\ dev'[u] = dev[u] /\ rc'[u] = rc[u]
                                    /\ req'[u] = req[u] /\ outcome'[u] = outcome[u],
           \A d \in Devices : \/ pc[t] \in Inside /\ d = dev[t]
                              \/ err'[d] = err[d] /\ completion'[d] = completion[d]
    PROVE  \A u \in Threads \ {t} : AnswerInv(u)'
  <1> SUFFICES ASSUME NEW u \in Threads \ {t} PROVE AnswerInv(u)'
    OBVIOUS
  <1>1. CASE pc[u] \in Inside
    <2>1. dev[u] \in Devices /\ ~(pc[t] \in Inside /\ dev[u] = dev[t]) /\ AnswerInv(u)
      BY <1>1, Apart DEF QuietInv, TypeInv, CallInv, Inside
    <2>2. err'[dev[u]] = err[dev[u]] /\ completion'[dev[u]] = completion[dev[u]]
      BY <2>1
    <2>3. /\ pc'[u] = pc[u] /\ dev'[u] = dev[u] /\ rc'[u] = rc[u]
          /\ req'[u] = req[u] /\ outcome'[u] = outcome[u]
      OBVIOUS
    <2> QED  BY <2>1, <2>2, <2>3 DEF AnswerInv
  <1>2. CASE pc[u] \notin Inside
    BY <1>2 DEF AnswerInv, Inside
  <1> QED  BY <1>1, <1>2

\* Nor does a step of a call that is not waiting touch a device at work.
LEMMA FrameWork ==
    ASSUME QuietInv, TypeInv', NEW t \in Threads, pc[t] # "wait",
           \A u \in Threads \ {t} : /\ pc'[u] = pc[u] /\ dev'[u] = dev[u]
                                    /\ outcome'[u] = outcome[u],
           \A d \in Devices : \/ pc[t] \in Inside /\ d = dev[t]
                              \/ err'[d] = err[d] /\ completion'[d] = completion[d],
           \A d \in Devices : run_by[d] # t => run_by'[d] = run_by[d],
           UNCHANGED <<state, irq>>
    PROVE  \A d \in Devices : WorkInv(d)'
  <1> SUFFICES ASSUME NEW d \in Devices, Busy(d) PROVE WorkInv(d)'
    BY DEF WorkInv, Busy
  <1>1. run_by[d] \in Threads \ {t} /\ ~(pc[t] \in Inside /\ d = dev[t]) /\ WorkInv(d)
    BY AtRest DEF QuietInv, WorkInv
  <1>2. /\ run_by'[d] = run_by[d] /\ err'[d] = err[d] /\ completion'[d] = completion[d]
        /\ pc'[run_by[d]] = pc[run_by[d]] /\ dev'[run_by[d]] = dev[run_by[d]]
        /\ outcome'[run_by[d]] = outcome[run_by[d]]
    BY <1>1
  <1> QED  BY <1>1, <1>2 DEF WorkInv, Busy

\* The steps that neither reach the accelerator nor hear of it.
Preparing(t) ==
    \/ AccessCall(t) \/ Lock(t) \/ Setup(t) \/ Config(t) \/ Charge(t) \/ FlushL2(t)
    \/ ConfigUnlock(t) \/ FlushLlc(t) \/ UpdateFull(t) \/ UpdateFootprint(t)
    \/ UpdateUnlock(t) \/ FlushIoctl(t) \/ FlushIoctlL2(t)
\* The steps by which a call is over.
Leaving(t) == SetupFailed(t) \/ FlushIoctlLlc(t) \/ Unlock(t)

\* Neither touches the run of another call, nor the answer to it.
LEMMA PreparingQuiet ==
    ASSUME EspAssumption, QuietInv, TypeInv', NEW t \in Threads, Preparing(t) \/ Leaving(t)
    PROVE  QuietInv'
  <1>0. TypeOK /\ AnswerInv(t)
    BY DEF QuietInv, TypeInv
  <1>1. CASE Preparing(t)
    <2>1. /\ UNCHANGED <<err, completion, state, irq, run_by, outcome, rc>>
          /\ \A u \in Threads \ {t} : pc'[u] = pc[u] /\ dev'[u] = dev[u] /\ req'[u] = req[u]
          /\ \/ pc'[t] \in {"lock", "setup", "config", "charge", "configured", "flush_l2",
                            "flush_llc", "clear", "ioc_flush_l2", "ioc_flush_llc"}
             \/ /\ pc'[t] \in {"update_footprint", "updated", "unlock"} /\ req'[t] = req[t]
                /\ pc[t] \in {"release", "update_footprint", "updated"}
          /\ pc[t] # "wait"
      BY <1>0, <1>1 DEF Preparing, AccessCall, Lock, Setup, Config, Charge, FlushL2,
         FlushLlc, UpdateFull, UpdateFootprint, ConfigUnlock, UpdateUnlock, FlushIoctl,
         FlushIoctlL2, Goto, TypeOK, sync, call, history
    <2>2. AnswerInv(t)'
      BY <1>0, <2>1 DEF AnswerInv
    <2>3. \A u \in Threads \ {t} : AnswerInv(u)'
      BY <2>1, FrameAnswers
    <2>4. \A d \in Devices : WorkInv(d)'
      BY <2>1, FrameWork
    <2> QED  BY <2>2, <2>3, <2>4 DEF QuietInv
  <1>2. CASE Leaving(t)
    <2>1. /\ UNCHANGED <<err, completion, state, irq>>
          /\ \A u \in Threads \ {t} : /\ pc'[u] = pc[u] /\ dev'[u] = dev[u] /\ rc'[u] = rc[u]
                                      /\ req'[u] = req[u] /\ outcome'[u] = outcome[u]
          /\ \A d \in Devices : run_by[d] # t => run_by'[d] = run_by[d]
          /\ pc'[t] = "idle" /\ pc[t] # "wait"
      BY <1>0, <1>2 DEF Leaving, SetupFailed, FlushIoctlLlc, Unlock, Out, Return, Goto,
         TypeOK, sync
    <2>2. AnswerInv(t)'
      BY <2>1 DEF AnswerInv
    <2>3. \A u \in Threads \ {t} : AnswerInv(u)'
      BY <2>1, FrameAnswers
    <2>4. \A d \in Devices : WorkInv(d)'
      BY <2>1, FrameWork
    <2> QED  BY <2>2, <2>3, <2>4 DEF QuietInv
  <1> QED  BY <1>1, <1>2

\* esp_transfer clears what an earlier run has left.
LEMMA TransferQuiet ==
    ASSUME EspAssumption, QuietInv, TypeInv', NEW t \in Threads, Clear(t) \/ Transfer(t)
    PROVE  QuietInv'
  <1>0. TypeOK /\ AnswerInv(t) /\ dev[t] \in Devices /\ pc[t] \in Inside /\ pc[t] # "wait"
    BY DEF QuietInv, TypeInv, CallInv, Clear, Transfer, Inside
  <1>1. /\ UNCHANGED <<state, irq, run_by, outcome, rc, req, dev>>
        /\ \A u \in Threads \ {t} : pc'[u] = pc[u]
        /\ \A d \in Devices : d # dev[t] => err'[d] = err[d] /\ completion'[d] = completion[d]
    BY <1>0 DEF Clear, Transfer, Goto, TypeOK, call, history
  <1>2. AnswerInv(t)'
    <2>1. CASE Clear(t)
      BY <1>0, <2>1 DEF Clear, Goto, TypeOK, AnswerInv, call
    <2>2. CASE Transfer(t)
      <3>1. /\ ~err'[dev'[t]] /\ ~completion'[dev'[t]]
            /\ \/ pc'[t] = "run" /\ req'[t].run
               \/ pc'[t] \in {"release", "unlock"} /\ ~req'[t].run
        BY <1>0, <2>2 DEF Transfer, Goto, TypeOK, AnswerInv, call
      <3> QED  BY <3>1 DEF AnswerInv
    <2> QED  BY <2>1, <2>2
  <1>3. \A u \in Threads \ {t} : AnswerInv(u)'
    BY <1>0, <1>1, FrameAnswers
  <1>4. \A d \in Devices : WorkInv(d)'
    BY <1>0, <1>1, FrameWork
  <1> QED  BY <1>2, <1>3, <1>4 DEF QuietInv

\* The start bit finds the accelerator at rest.
LEMMA RunQuiet ==
    ASSUME EspAssumption, QuietInv, TypeInv', NEW t \in Threads, Run(t)
    PROVE  QuietInv'
  <1>0. /\ TypeOK /\ AnswerInv(t) /\ dev[t] \in Devices
        /\ pc[t] = "run" /\ pc[t] \in Inside /\ pc[t] # "wait"
    BY DEF QuietInv, TypeInv, CallInv, Run, Inside
  <1>1. state[dev[t]] = "idle" /\ irq[dev[t]] = "none"
    BY <1>0, AtRest DEF Busy
  <1>2. /\ UNCHANGED <<err, completion, irq, outcome, rc, req, dev>>
        /\ \A u \in Threads \ {t} : pc'[u] = pc[u]
        /\ pc'[t] = "wait"
        /\ state' = [state EXCEPT ![dev[t]] = "running"]
        /\ run_by' = [run_by EXCEPT ![dev[t]] = t]
    BY <1>0, <1>1 DEF Run, Start, Goto, TypeOK, call, sync
  <1>3. AnswerInv(t)'
    BY <1>0, <1>2 DEF AnswerInv
  <1>4. \A u \in Threads \ {t} : AnswerInv(u)'
    BY <1>2, FrameAnswers
  <1>5. \A d \in Devices : WorkInv(d)'
    <2> SUFFICES ASSUME NEW d \in Devices PROVE WorkInv(d)'
      OBVIOUS
    <2>1. CASE d = dev[t]
      BY <1>0, <1>1, <1>2, <2>1 DEF WorkInv, AnswerInv, TypeOK
    <2>2. CASE d # dev[t]
      <3>1. Busy(d) => run_by[d] # t
        BY <1>0, AtRest
      <3>2. state'[d] = state[d] /\ run_by'[d] = run_by[d] /\ WorkInv(d)
        BY <1>0, <1>2, <2>2 DEF TypeOK, QuietInv
      <3> QED  BY <1>2, <3>1, <3>2 DEF WorkInv, Busy
    <2> QED  BY <2>1, <2>2
  <1> QED  BY <1>3, <1>4, <1>5 DEF QuietInv

\* A call that was woken was woken for the run it started.
LEMMA WaitQuiet ==
    ASSUME EspAssumption, QuietInv, TypeInv', NEW t \in Threads, Wait(t)
    PROVE  QuietInv'
  <1>0. /\ TypeOK /\ AnswerInv(t) /\ dev[t] \in Devices /\ pc[t] = "wait"
        /\ completion[dev[t]]
    BY DEF QuietInv, TypeInv, CallInv, Wait
  <1>1. /\ UNCHANGED <<err, completion, state, irq, run_by, outcome, req, dev>>
        /\ \A u \in Threads \ {t} : pc'[u] = pc[u] /\ rc'[u] = rc[u]
        /\ pc'[t] \in {"release", "unlock"}
        /\ rc'[t] = IF err[dev[t]] THEN "error" ELSE "ok"
    BY <1>0 DEF Wait, AfterWait, Goto, TypeOK, call, sync, history
  <1>2. AnswerInv(t)'
    BY <1>0, <1>1 DEF AnswerInv
  <1>3. \A u \in Threads \ {t} : AnswerInv(u)'
    BY <1>1, FrameAnswers
  <1>4. \A d \in Devices : Busy(d) => run_by[d] # t
    BY <1>0 DEF QuietInv, WorkInv
  <1>5. \A d \in Devices : WorkInv(d)'
    BY <1>1, <1>4 DEF QuietInv, WorkInv, Busy
  <1> QED  BY <1>2, <1>3, <1>5 DEF QuietInv

\* The accelerator and its interrupt serve the one call that waits for them.
LEMMA HardwareQuiet ==
    ASSUME EspAssumption, QuietInv, TypeInv', NEW d0 \in Devices, Hardware(d0)
    PROVE  QuietInv'
  <1>0. TypeOK /\ UNCHANGED <<pc, dev, req, rc, run_by>>
    BY DEF QuietInv, TypeInv, Hardware, Finish, IrqAck, IrqComplete, call, history
  <1>1. Busy(d0) /\ WorkInv(d0)
    BY DEF QuietInv, Hardware, Finish, IrqAck, IrqComplete, Busy
  <1>2. PICK h \in Threads : run_by[d0] = h /\ pc[h] = "wait" /\ dev[h] = d0
    BY <1>1 DEF WorkInv
  <1>3. \A u \in Threads \ {h} : pc[u] \in Inside => dev[u] # d0
    BY <1>2, Apart DEF QuietInv, Inside
  <1>4. \A d \in Devices : d # d0 /\ Busy(d) => run_by[d] # h
    BY <1>2 DEF QuietInv, WorkInv
  <1>5. /\ \A d \in Devices : d # d0 => /\ state'[d] = state[d] /\ irq'[d] = irq[d]
                                        /\ err'[d] = err[d] /\ completion'[d] = completion[d]
        /\ \A u \in Threads \ {h} : outcome'[u] = outcome[u]
    BY <1>0, <1>2 DEF Hardware, Finish, IrqAck, IrqComplete, TypeOK, sync, history
  <1>6. \A d \in Devices \ {d0} : WorkInv(d)'
    BY <1>0, <1>4, <1>5 DEF QuietInv, WorkInv, Busy
  <1>7. \A u \in Threads \ {h} : AnswerInv(u)'
    <2> SUFFICES ASSUME NEW u \in Threads \ {h} PROVE AnswerInv(u)'
      OBVIOUS
    <2>1. CASE pc[u] \in Inside
      <3>1. dev[u] \in Devices /\ dev[u] # d0 /\ AnswerInv(u)
        BY <1>3, <2>1 DEF QuietInv, TypeInv, CallInv, Inside
      <3> QED  BY <1>0, <1>5, <3>1 DEF AnswerInv
    <2>2. CASE pc[u] \notin Inside
      BY <1>0, <2>2 DEF AnswerInv, Inside
    <2> QED  BY <2>1, <2>2
  <1>8. WorkInv(d0)' /\ AnswerInv(h)'
    <2>1. AnswerInv(h)
      BY DEF QuietInv
    <2>2. CASE Finish(d0)
      <3>1. PICK how \in {"done", "error"} :
              /\ state' = [state EXCEPT ![d0] = how]
              /\ outcome' = [u \in Threads |-> IF run_by[d0] = u THEN how ELSE outcome[u]]
        BY <2>2 DEF Finish
      <3>2. UNCHANGED <<err, completion, irq>> /\ state[d0] = "running"
        BY <2>2 DEF Finish, sync
      <3>3. state'[d0] = how /\ outcome'[h] = how
        BY <1>0, <1>2, <3>1 DEF TypeOK
      <3> QED  BY <1>0, <1>1, <1>2, <2>1, <3>2, <3>3 DEF WorkInv, AnswerInv, Busy
    <2>3. CASE IrqAck(d0)
      <3>1. /\ UNCHANGED <<err, completion, outcome>>
            /\ state[d0] \in {"done", "error"} /\ state'[d0] = "idle" /\ irq'[d0] = state[d0]
        BY <1>0, <2>3 DEF IrqAck, sync, history, TypeOK
      <3> QED  BY <1>0, <1>1, <1>2, <2>1, <3>1 DEF WorkInv, AnswerInv, Busy
    <2>4. CASE IrqComplete(d0)
      <3>1. /\ UNCHANGED <<state, outcome>> /\ irq'[d0] = "none" /\ irq[d0] \in {"done", "error"}
            /\ err'[d0] = (err[d0] \/ irq[d0] = "error")
        BY <1>0, <2>4 DEF IrqComplete, history, TypeOK
      <3>2. state[d0] = "idle" /\ ~err[d0] /\ outcome[h] = irq[d0]
        BY <1>0, <1>1, <1>2, <3>1 DEF WorkInv, Busy, TypeOK
      <3>3. WorkInv(d0)'
        BY <3>1, <3>2 DEF WorkInv, Busy
      <3>4. outcome'[h] = IF err'[d0] THEN "error" ELSE "done"
        BY <3>1, <3>2
      <3>5. AnswerInv(h)'
        BY <1>0, <1>2, <2>1, <3>4 DEF AnswerInv
      <3> QED  BY <3>3, <3>5
    <2> QED  BY <2>2, <2>3, <2>4 DEF Hardware
  <1> QED  BY <1>2, <1>6, <1>7, <1>8 DEF QuietInv

\* Every step that a signal or a run ioctl has no part in keeps the invariant.
LEMMA NextQuiet ==
    ASSUME EspAssumption, ~Signals, ~RunCalls, QuietInv, [Next]_vars
    PROVE  QuietInv'
  <1>0. TypeInv'
    BY NextTypeInv DEF QuietInv
  <1>1. CASE UNCHANGED vars
    BY <1>0, <1>1 DEF vars, sync, call, history, QuietInv, WorkInv, AnswerInv, Busy
  <1>2. ASSUME NEW t \in Threads,
               \/ LockInterrupted(t) \/ ConfigInterrupted(t) \/ UpdateInterrupted(t)
               \/ FlushInterrupted(t) \/ WaitInterrupted(t)
               \/ \E d \in Devices : RunIoctl(t, d)
        PROVE  FALSE
    BY <1>2 DEF LockInterrupted, ConfigInterrupted, UpdateInterrupted, FlushInterrupted,
       WaitInterrupted, RunIoctl
  <1> QED
    BY <1>0, <1>1, <1>2, PreparingQuiet, TransferQuiet, RunQuiet, WaitQuiet, HardwareQuiet
    DEF Next, InCall, Preparing, Leaving

\* So it holds throughout.
LEMMA AlwaysQuiet ==
    ASSUME EspAssumption, ~Signals, ~RunCalls PROVE Spec => []QuietInv
  <1>1. Init => QuietInv
    <2> SUFFICES ASSUME Init PROVE QuietInv
      OBVIOUS
    <2>1. \A d \in Devices : WorkInv(d)
      BY DEF Init, WorkInv, Busy
    <2>2. \A t \in Threads : AnswerInv(t)
      BY DEF Init, AnswerInv
    <2> QED  BY <2>1, <2>2, InitTypeInv DEF QuietInv
  <1>2. QuietInv /\ [Next]_vars => QuietInv'
    BY NextQuiet
  <1> QED  BY <1>1, <1>2, PTL DEF Spec

\* Where no signal interrupts a call and nobody uses the run ioctl, the answer
\* of an access is about its own run, whatever the flush ioctl does meanwhile.
THEOREM AnswersAreOwn ==
    ASSUME EspAssumption, ~Signals, ~RunCalls PROVE Spec => []AnswerIsMine
  <1>1. QuietInv => AnswerIsMine
    BY DEF QuietInv, AnswerInv, AnswerIsMine
  <1> QED  BY <1>1, AlwaysQuiet, PTL

\* And then no two accelerators at work are fully coherent.
THEOREM FullRunsAlone ==
    ASSUME EspAssumption, ~Signals, ~RunCalls, ~FlushCalls PROVE Spec => []FullExclusive
  <1>1. SafeInv /\ QuietInv => FullExclusive
    <2> SUFFICES ASSUME SafeInv, QuietInv, NEW d \in Devices,
                        state[d] = "running", coherence_reg[d] = FULL
                 PROVE  HoldsFull(d)
      BY DEF FullExclusive, SafeInv, OneFull
    <2>1. PICK h \in Threads : run_by[d] = h /\ pc[h] = "wait" /\ dev[h] = d
      BY DEF QuietInv, WorkInv, Busy
    <2>2. ShareInv(h) /\ FlushInv(h) /\ lock[d] = h
      BY <2>1 DEF SafeInv, TypeInv, CallInv, Inside
    <2>3. coherence[d] = FULL /\ charge[d] # "none"
      BY <2>1, <2>2 DEF ShareInv, FlushInv, Configured, Started
    <2> QED  BY <2>1, <2>2, <2>3 DEF HoldsFull, Releasing
  <1> QED  BY <1>1, AlwaysSafe, AlwaysQuiet, PTL

-----------------------------------------------------------------------------
(* The access ioctl implements EspJob                                      *)

\* A call that is about to write the start bit has its buffer in the registers;
\* one that waits has a run, which is over or goes on.
WaitingInv(t) ==
    /\ pc[t] \in {"run", "wait"} => pt_reg[dev[t]] = t
    /\ pc[t] = "wait" =>
         /\ run_by[dev[t]] = t
         /\ state[dev[t]] # "running" => outcome[t] \in {"done", "error"}

\* An accelerator is remembered to work for a call until that call returns.
RunnerInv(d) ==
    run_by[d] # NoThread =>
        /\ run_by[d] \in Threads /\ dev[run_by[d]] = d
        /\ pc[run_by[d]] \in {"wait", "release", "update_footprint", "updated", "unlock"}

\* Every call and every run as said above.
JobInv ==
    /\ \A t \in Threads : WaitingInv(t)
    /\ \A d \in Devices : RunnerInv(d)

\* A step of one call leaves the runs of the others alone, and the jobs of the
\* accelerators it has no lock on.
LEMMA FrameJob ==
    ASSUME EspAssumption, QuietInv, JobInv, NEW t \in Threads,
           \A u \in Threads \ {t} : /\ pc'[u] = pc[u] /\ dev'[u] = dev[u]
                                    /\ outcome'[u] = outcome[u],
           \A d \in Devices : \/ pc[t] \in Inside /\ d = dev[t]
                              \/ pt_reg'[d] = pt_reg[d] /\ state'[d] = state[d],
           \A d \in Devices : \/ pc[t] \in Inside /\ d = dev[t]
                              \/ run_by'[d] = run_by[d]
    PROVE  /\ \A u \in Threads \ {t} : WaitingInv(u)'
           /\ \A d \in Devices : ~(pc[t] \in Inside /\ d = dev[t]) =>
                RunnerInv(d)' /\ JobOwner'[d] = JobOwner[d] /\ JobPhase'[d] = JobPhase[d]
  <1>1. ASSUME NEW u \in Threads \ {t} PROVE WaitingInv(u)'
    <2>1. CASE pc[u] \in {"run", "wait"}
      <3>1. dev[u] \in Devices /\ ~(pc[t] \in Inside /\ dev[u] = dev[t])
        BY <2>1, Apart DEF QuietInv, TypeInv, CallInv, Inside
      <3>2. /\ pt_reg'[dev[u]] = pt_reg[dev[u]] /\ state'[dev[u]] = state[dev[u]]
            /\ run_by'[dev[u]] = run_by[dev[u]]
        BY <3>1
      <3>3. WaitingInv(u)
        BY DEF JobInv
      <3>4. pc'[u] = pc[u] /\ dev'[u] = dev[u] /\ outcome'[u] = outcome[u]
        OBVIOUS
      <3> QED  BY <3>2, <3>3, <3>4 DEF WaitingInv
    <2>2. CASE pc[u] \notin {"run", "wait"}
      BY <2>2 DEF WaitingInv
    <2> QED  BY <2>1, <2>2
  <1>2. ASSUME NEW d \in Devices, ~(pc[t] \in Inside /\ d = dev[t])
        PROVE  RunnerInv(d)' /\ JobOwner'[d] = JobOwner[d] /\ JobPhase'[d] = JobPhase[d]
    <2>1. /\ pt_reg'[d] = pt_reg[d] /\ state'[d] = state[d] /\ run_by'[d] = run_by[d]
          /\ RunnerInv(d)
      BY <1>2 DEF JobInv
    <2>2. run_by[d] # NoThread => run_by[d] \in Threads \ {t}
      BY <1>2, <2>1 DEF RunnerInv, Inside
    <2>3. run_by[d] # NoThread => /\ pc'[run_by[d]] = pc[run_by[d]]
                                  /\ dev'[run_by[d]] = dev[run_by[d]]
                                  /\ outcome'[run_by[d]] = outcome[run_by[d]]
      BY <2>2
    <2>4. RunnerInv(d)'
      BY <2>1, <2>2, <2>3 DEF RunnerInv
    <2>5. Waited(d)' <=> Waited(d)
      BY <2>1, <2>3 DEF Waited
    <2>6. state[d] = "running" => Waited(d)
      <3>1. WorkInv(d)
        BY DEF QuietInv
      <3> QED  BY <3>1 DEF WorkInv, Busy, Waited, EspAssumption
    <2>7. JobOwner'[d] = JobOwner[d]
      BY <2>1, <2>5 DEF JobOwner
    <2>8. JobOwner[d] # NoThread => Waited(d)
      BY <2>6 DEF JobOwner
    <2>9. JobPhase'[d] = JobPhase[d]
      BY <2>1, <2>3, <2>7, <2>8 DEF JobPhase, Waited
    <2> QED  BY <2>4, <2>7, <2>9
  <1> QED  BY <1>1, <1>2

\* An accelerator that nobody waits for is free; one that a call waits for is
\* that call's, and works or has ended.
LEMMA JobIs ==
    ASSUME EspAssumption, QuietInv, JobInv, NEW d \in Devices
    PROVE  /\ ~Waited(d) => state[d] # "running" /\ JobOwner[d] = NoThread /\ JobPhase[d] = "free"
           /\ \A t \in Threads : pc[t] = "wait" /\ dev[t] = d =>
                /\ JobOwner[d] = t
                /\ JobPhase[d] = IF state[d] = "running" THEN "working" ELSE outcome[t]
  <1>1. state[d] = "running" => Waited(d)
    <2>1. WorkInv(d)
      BY DEF QuietInv
    <2> QED  BY <2>1 DEF WorkInv, Busy, Waited, EspAssumption
  <1>2. ASSUME ~Waited(d)
        PROVE  state[d] # "running" /\ JobOwner[d] = NoThread /\ JobPhase[d] = "free"
    BY <1>1, <1>2 DEF JobOwner, JobPhase
  <1>3. ASSUME NEW t \in Threads, pc[t] = "wait", dev[t] = d
        PROVE  /\ JobOwner[d] = t
               /\ JobPhase[d] = IF state[d] = "running" THEN "working" ELSE outcome[t]
    <2>1. run_by[d] = t /\ pt_reg[d] = t /\ t # NoThread
      BY <1>3 DEF JobInv, WaitingInv, EspAssumption
    <2>2. JobOwner[d] = t
      BY <1>3, <2>1 DEF JobOwner, Waited
    <2> QED  BY <2>1, <2>2 DEF JobPhase
  <1> QED  BY <1>2, <1>3

\* What a call does before its run and after it begins and ends no job.
LEMMA AsideJob ==
    ASSUME EspAssumption, QuietInv, TypeInv', JobInv, NEW t \in Threads,
           Preparing(t) \/ Leaving(t) \/ Clear(t) \/ Transfer(t)
    PROVE  JobInv' /\ \A d \in Devices : JobOwner'[d] = JobOwner[d] /\ JobPhase'[d] = JobPhase[d]
  <1>0. TypeOK /\ WaitingInv(t) /\ \A d \in Devices : RunnerInv(d)
    BY DEF QuietInv, TypeInv, JobInv
  <1>1. /\ \A u \in Threads \ {t} : /\ pc'[u] = pc[u] /\ dev'[u] = dev[u]
                                    /\ outcome'[u] = outcome[u]
        /\ state' = state /\ pc[t] \notin {"run", "wait"} /\ pc'[t] # "wait"
    BY <1>0 DEF Preparing, Leaving, AccessCall, Lock, Setup, Config, Charge, FlushL2,
       FlushLlc, UpdateFull, UpdateFootprint, ConfigUnlock, UpdateUnlock, FlushIoctl,
       FlushIoctlL2, SetupFailed, FlushIoctlLlc, Unlock, Out, Return, Clear, Transfer, Goto,
       TypeOK, call, history
  <1>2. \A d \in Devices : \/ pc[t] \in Inside /\ d = dev[t]
                           \/ pt_reg'[d] = pt_reg[d]
    <2>1. CASE Transfer(t)
      BY <1>0, <2>1 DEF Transfer, Inside, TypeOK
    <2>2. CASE ~Transfer(t)
      BY <2>2 DEF Preparing, Leaving, AccessCall, Lock, Setup, Config, Charge, FlushL2,
         FlushLlc, UpdateFull, UpdateFootprint, ConfigUnlock, UpdateUnlock, FlushIoctl,
         FlushIoctlL2, SetupFailed, FlushIoctlLlc, Unlock, Out, Clear, regs
    <2> QED  BY <2>1, <2>2
  <1>3. \A d \in Devices : /\ run_by[d] = t => pc[t] \in Inside /\ d = dev[t]
                           /\ run_by'[d] \in {run_by[d], NoThread}
                           /\ run_by[d] # t => run_by'[d] = run_by[d]
    <2>1. CASE Leaving(t)
      BY <1>0, <2>1 DEF Leaving, SetupFailed, FlushIoctlLlc, Unlock, Out, Return, RunnerInv,
             Inside,
         EspAssumption
    <2>2. CASE ~Leaving(t)
      <3>1. run_by' = run_by
        BY <2>2 DEF Preparing, AccessCall, Lock, Setup, Config, Charge, FlushL2, FlushLlc,
           UpdateFull, UpdateFootprint, ConfigUnlock, UpdateUnlock, FlushIoctl,
           FlushIoctlL2, Clear, Transfer, history
      <3> QED  BY <1>0, <3>1 DEF RunnerInv, Inside, EspAssumption
    <2> QED  BY <2>1, <2>2
  <1>4. /\ \A u \in Threads \ {t} : WaitingInv(u)'
        /\ \A d \in Devices : ~(pc[t] \in Inside /\ d = dev[t]) =>
             RunnerInv(d)' /\ JobOwner'[d] = JobOwner[d] /\ JobPhase'[d] = JobPhase[d]
    BY <1>1, <1>2, <1>3, FrameJob
  <1>5. WaitingInv(t)'
    <2>1. CASE Transfer(t)
      BY <1>0, <1>1, <2>1 DEF Transfer, WaitingInv, TypeOK, QuietInv, TypeInv, CallInv, call
    <2>2. pc'[t] = "run" => Transfer(t)
      BY <1>0, <1>1 DEF Preparing, Leaving, AccessCall, Lock, Setup, Config, Charge,
         FlushL2, FlushLlc, UpdateFull, UpdateFootprint, ConfigUnlock, UpdateUnlock,
         FlushIoctl, FlushIoctlL2, SetupFailed, FlushIoctlLlc, Unlock, Out, Return, Clear,
         Goto, TypeOK
    <2> QED  BY <1>1, <2>1, <2>2 DEF WaitingInv
  <1>6. ASSUME NEW d \in Devices, pc[t] \in Inside, d = dev[t]
        PROVE  RunnerInv(d)' /\ JobOwner'[d] = JobOwner[d] /\ JobPhase'[d] = JobPhase[d]
    <2>1. ~Busy(d)
      BY <1>1, <1>6, AtRest
    <2>2. run_by[d] # NoThread => run_by[d] = t
      <3>1. ASSUME run_by[d] # NoThread, run_by[d] # t PROVE FALSE
        <4>1. /\ run_by[d] \in Threads \ {t} /\ dev[run_by[d]] = d
              /\ pc[run_by[d]] \in Inside
          BY <1>0, <3>1 DEF RunnerInv, Inside
        <4> QED  BY <1>6, <4>1, Apart DEF QuietInv
      <3> QED  BY <3>1
    <2>3. state'[d] # "running" /\ state[d] # "running"
      BY <1>1, <2>1 DEF Busy
    <2>4. ~Waited(d) /\ ~Waited(d)'
      BY <1>1, <1>3, <2>2 DEF Waited
    <2>5. JobOwner'[d] = JobOwner[d] /\ JobPhase'[d] = JobPhase[d]
      BY <2>3, <2>4 DEF JobOwner, JobPhase
    <2>6. RunnerInv(d)'
      <3>1. CASE run_by'[d] = NoThread
        BY <3>1 DEF RunnerInv
      <3>2. CASE run_by'[d] # NoThread
        <4>1. /\ run_by'[d] = t /\ dev[t] = d
              /\ pc[t] \in {"release", "update_footprint", "updated", "unlock"}
          BY <1>0, <1>1, <1>3, <2>2, <3>2 DEF RunnerInv
        <4>2. ~Leaving(t)
          BY <1>0, <4>1 DEF Leaving, SetupFailed, FlushIoctlLlc, Unlock, Out, Return,
                 EspAssumption
        <4>3. pc'[t] \in {"update_footprint", "updated", "unlock"} /\ dev'[t] = dev[t]
          BY <1>0, <4>1, <4>2 DEF Preparing, AccessCall, Lock, Setup, Config, Charge,
             FlushL2, FlushLlc, UpdateFull, UpdateFootprint, ConfigUnlock, UpdateUnlock,
             FlushIoctl, FlushIoctlL2, Clear, Transfer, Goto, TypeOK, call
        <4> QED  BY <4>1, <4>3 DEF RunnerInv
      <3> QED  BY <3>1, <3>2
    <2> QED  BY <2>5, <2>6
  <1> QED  BY <1>4, <1>5, <1>6 DEF JobInv

\* Who works for whom is a function of the accelerators, before a step and after.
LEMMA JobFunctions ==
    /\ JobOwner = [d \in Devices |-> JobOwner[d]] /\ JobPhase = [d \in Devices |-> JobPhase[d]]
    /\ JobOwner' = [d \in Devices |-> JobOwner'[d]] /\ JobPhase' = [d \in Devices |-> JobPhase'[d]]
  BY DEF JobOwner, JobPhase

\* The start bit begins a job: the accelerator was free.
LEMMA RunJob ==
    ASSUME EspAssumption, QuietInv, TypeInv', JobInv, NEW t \in Threads, Run(t)
    PROVE  JobInv' /\ Job!Begin(dev[t], t)
  <1>0. /\ TypeOK /\ dev[t] \in Devices /\ t # NoThread
        /\ pc[t] = "run" /\ pc[t] \in Inside /\ pc[t] # "wait"
        /\ pt_reg[dev[t]] = t /\ \A d \in Devices : RunnerInv(d)
    BY DEF QuietInv, TypeInv, CallInv, Run, Inside, JobInv, WaitingInv, EspAssumption
  <1>1. state[dev[t]] = "idle"
    BY <1>0, AtRest DEF Busy
  <1>2. /\ UNCHANGED <<outcome, dev, pt_reg>>
        /\ \A u \in Threads \ {t} : pc'[u] = pc[u]
        /\ pc'[t] = "wait"
        /\ state' = [state EXCEPT ![dev[t]] = "running"]
        /\ run_by' = [run_by EXCEPT ![dev[t]] = t]
    BY <1>0, <1>1 DEF Run, Start, Goto, TypeOK, call, regs
  <1>3. /\ \A d \in Devices \ {dev[t]} : run_by'[d] = run_by[d] /\ state'[d] = state[d]
        /\ run_by'[dev[t]] = t /\ state'[dev[t]] = "running"
    BY <1>0, <1>2 DEF TypeOK
  <1>4. /\ \A u \in Threads \ {t} : WaitingInv(u)'
        /\ \A d \in Devices : ~(pc[t] \in Inside /\ d = dev[t]) =>
             RunnerInv(d)' /\ JobOwner'[d] = JobOwner[d] /\ JobPhase'[d] = JobPhase[d]
    BY <1>0, <1>2, <1>3, FrameJob
  <1>5. WaitingInv(t)' /\ \A d \in Devices : d = dev[t] => RunnerInv(d)'
    BY <1>0, <1>2, <1>3 DEF WaitingInv, RunnerInv
  <1>6. JobInv'
    BY <1>4, <1>5 DEF JobInv
  <1>7. ~Waited(dev[t])
    <2> SUFFICES ASSUME Waited(dev[t]) PROVE FALSE
      OBVIOUS
    <2>1. run_by[dev[t]] \in Threads \ {t} /\ pc[run_by[dev[t]]] \in Inside
                                           /\ dev[run_by[dev[t]]] = dev[t]
      BY <1>0 DEF Waited, RunnerInv, Inside
    <2> QED  BY <1>0, <2>1, Apart DEF QuietInv
  <1>8. JobPhase[dev[t]] = "free"
    BY <1>0, <1>7, JobIs
  <1>9. JobOwner'[dev[t]] = t /\ JobPhase'[dev[t]] = "working"
    BY <1>0, <1>2, <1>3 DEF JobOwner, JobPhase
  <1>10. /\ JobOwner' = [JobOwner EXCEPT ![dev[t]] = t]
         /\ JobPhase' = [JobPhase EXCEPT ![dev[t]] = "working"]
    BY <1>4, <1>9, JobFunctions
  <1> QED  BY <1>6, <1>8, <1>10 DEF Job!Begin

\* esp_wait returns when the job has ended, and the accelerator is free again.
LEMMA WaitJob ==
    ASSUME EspAssumption, QuietInv, TypeInv', JobInv, NEW t \in Threads, Wait(t)
    PROVE  JobInv' /\ Job!Tell(dev[t])
  <1>0. /\ TypeOK /\ dev[t] \in Devices /\ t # NoThread
        /\ pc[t] = "wait" /\ pc[t] \in Inside /\ completion[dev[t]]
        /\ WaitingInv(t) /\ \A d \in Devices : RunnerInv(d)
    BY DEF QuietInv, TypeInv, CallInv, Wait, Inside, JobInv, EspAssumption
  <1>1. /\ UNCHANGED <<outcome, dev, pt_reg, run_by, state>>
        /\ \A u \in Threads \ {t} : pc'[u] = pc[u]
        /\ pc'[t] \in {"release", "unlock"}
    BY <1>0 DEF Wait, AfterWait, Goto, TypeOK, call, regs, history
  <1>2. state[dev[t]] # "running"
    BY <1>0 DEF QuietInv, WorkInv, Busy
  <1>3. run_by[dev[t]] = t /\ outcome[t] \in {"done", "error"}
    BY <1>0, <1>2 DEF WaitingInv
  <1>4. /\ \A u \in Threads \ {t} : WaitingInv(u)'
        /\ \A d \in Devices : ~(pc[t] \in Inside /\ d = dev[t]) =>
             RunnerInv(d)' /\ JobOwner'[d] = JobOwner[d] /\ JobPhase'[d] = JobPhase[d]
    BY <1>0, <1>1, FrameJob
  <1>5. WaitingInv(t)' /\ \A d \in Devices : d = dev[t] => RunnerInv(d)'
    BY <1>0, <1>1, <1>3 DEF WaitingInv, RunnerInv
  <1>6. JobInv'
    BY <1>4, <1>5 DEF JobInv
  <1>7. JobPhase[dev[t]] = outcome[t]
    BY <1>0, <1>2, JobIs
  <1>8. JobOwner'[dev[t]] = NoThread /\ JobPhase'[dev[t]] = "free"
    BY <1>0, <1>1, <1>2, <1>3 DEF JobOwner, JobPhase, Waited
  <1>9. /\ JobOwner' = [JobOwner EXCEPT ![dev[t]] = NoThread]
        /\ JobPhase' = [JobPhase EXCEPT ![dev[t]] = "free"]
    BY <1>4, <1>8, JobFunctions
  <1> QED  BY <1>3, <1>6, <1>7, <1>9 DEF Job!Tell

\* The accelerator ends a job when it ends its run; its interrupt tells nobody
\* of another one.
LEMMA HardwareJob ==
    ASSUME EspAssumption, QuietInv, TypeInv', JobInv, NEW d0 \in Devices, Hardware(d0)
    PROVE  /\ JobInv'
           /\ \/ \E how \in {"done", "error"} : Job!Finish(d0, how)
              \/ UNCHANGED <<JobOwner, JobPhase>>
  <1>0. /\ TypeOK /\ UNCHANGED <<pc, dev, pt_reg, run_by>>
        /\ \A d \in Devices : RunnerInv(d) /\ \A t \in Threads : WaitingInv(t)
    BY DEF QuietInv, TypeInv, JobInv, Hardware, Finish, IrqAck, IrqComplete, call, regs, history
  <1>1. PICK h \in Threads : run_by[d0] = h /\ pc[h] = "wait" /\ dev[h] = d0
    BY DEF QuietInv, WorkInv, Hardware, Finish, IrqAck, IrqComplete, Busy
  <1>2. /\ \A d \in Devices : d # d0 => state'[d] = state[d] /\ run_by[d] # h
        /\ \A u \in Threads \ {h} : outcome'[u] = outcome[u] /\ (pc[u] = "wait" => dev[u] # d0)
    <2>1. \A d \in Devices : d # d0 => state'[d] = state[d]
      BY <1>0 DEF Hardware, Finish, IrqAck, IrqComplete, TypeOK
    <2>2. \A u \in Threads \ {h} : outcome'[u] = outcome[u]
      BY <1>0, <1>1 DEF Hardware, Finish, IrqAck, IrqComplete, TypeOK, history
    <2>3. h # NoThread
      BY DEF EspAssumption
    <2>4. \A d \in Devices : d # d0 => run_by[d] # h
      BY <1>0, <1>1, <2>3 DEF RunnerInv
    <2>5. \A u \in Threads \ {h} : pc[u] = "wait" => dev[u] # d0
      BY <1>0, <1>1 DEF WaitingInv
    <2> QED  BY <2>1, <2>2, <2>4, <2>5
  <1>3. state'[d0] # "running"
    BY <1>0 DEF Hardware, Finish, IrqAck, IrqComplete, TypeOK, QuietInv, WorkInv, Busy
  <1>4. \A d \in Devices : RunnerInv(d)'
    BY <1>0 DEF RunnerInv
  <1>5. \A u \in Threads \ {h} : WaitingInv(u)'
    <2> SUFFICES ASSUME NEW u \in Threads \ {h} PROVE WaitingInv(u)'
      OBVIOUS
    <2>1. CASE pc[u] = "wait"
      <3>1. dev[u] \in Devices /\ dev[u] # d0 /\ WaitingInv(u)
        BY <1>0, <1>2, <2>1 DEF QuietInv, TypeInv, CallInv
      <3> QED  BY <1>0, <1>2, <3>1 DEF WaitingInv
    <2>2. CASE pc[u] # "wait"
      BY <1>0, <2>2 DEF WaitingInv
    <2> QED  BY <2>1, <2>2
  <1>6. \A d \in Devices \ {d0} : JobOwner'[d] = JobOwner[d] /\ JobPhase'[d] = JobPhase[d]
    <2> SUFFICES ASSUME NEW d \in Devices \ {d0}
                 PROVE  JobOwner'[d] = JobOwner[d] /\ JobPhase'[d] = JobPhase[d]
      OBVIOUS
    <2>1. state'[d] = state[d] /\ run_by'[d] = run_by[d] /\ pt_reg'[d] = pt_reg[d] /\ run_by[d] # h
      BY <1>0, <1>2
    <2>2. Waited(d)' <=> Waited(d)
      BY <1>0, <2>1 DEF Waited
    <2>3. JobOwner'[d] = JobOwner[d]
      BY <2>1, <2>2 DEF JobOwner
    <2>4. run_by[d] # NoThread => outcome'[run_by[d]] = outcome[run_by[d]]
      BY <1>0, <1>2, <2>1 DEF RunnerInv
    <2>5. JobOwner[d] # NoThread => run_by[d] # NoThread
      <3>1. WorkInv(d)
        BY DEF QuietInv
      <3> QED  BY <3>1 DEF WorkInv, Busy, JobOwner, Waited, EspAssumption
    <2> QED  BY <2>1, <2>3, <2>4, <2>5 DEF JobPhase
  <1>7. JobOwner[d0] = h /\ JobOwner'[d0] = h /\ h # NoThread
    <2>1. WaitingInv(h) /\ h # NoThread
      BY <1>0 DEF EspAssumption
    <2> QED  BY <1>0, <1>1, <2>1 DEF JobOwner, Waited, WaitingInv
  <1>8. JobPhase'[d0] = outcome'[h]
    BY <1>0, <1>1, <1>3, <1>7 DEF JobPhase
  <1>9. UNCHANGED JobOwner
    BY <1>6, <1>7, JobFunctions
  <1>10. CASE Finish(d0)
    <2>1. PICK how \in {"done", "error"} :
            outcome' = [u \in Threads |-> IF run_by[d0] = u THEN how ELSE outcome[u]]
      BY <1>10 DEF Finish
    <2>2. outcome'[h] = how
      BY <1>1, <2>1
    <2>3. WaitingInv(h)'
      BY <1>0, <1>1, <2>2 DEF WaitingInv
    <2>4. JobPhase[d0] = "working"
      BY <1>1, <1>10, JobIs DEF Finish
    <2>5. JobPhase' = [JobPhase EXCEPT ![d0] = how]
      BY <1>6, <1>8, <2>2, JobFunctions
    <2> QED  BY <1>4, <1>5, <1>9, <2>3, <2>4, <2>5 DEF JobInv, Job!Finish
  <1>11. CASE ~Finish(d0)
    <2>1. outcome' = outcome /\ state[d0] # "running"
      BY <1>0, <1>11 DEF Hardware, IrqAck, IrqComplete, history, QuietInv, WorkInv, Busy
    <2>2. WaitingInv(h)'
      BY <1>0, <1>1, <2>1 DEF WaitingInv
    <2>3. JobPhase[d0] = outcome[h]
      BY <1>1, <2>1, JobIs
    <2>4. UNCHANGED JobPhase
      BY <1>6, <1>8, <2>1, <2>3, JobFunctions
    <2> QED  BY <1>4, <1>5, <1>9, <2>2, <2>4 DEF JobInv
  <1> QED  BY <1>10, <1>11

\* Where no signal interrupts a call and nobody uses the run ioctl, an
\* accelerator works on one caller's buffer at a time, and how that went is told
\* before the next job begins: the access ioctl implements EspJob.
THEOREM AccessesAreJobs ==
    ASSUME EspAssumption, ~Signals, ~RunCalls PROVE Spec => JobSpec
  <1>1. Init => JobInv /\ Job!Init
    <2> SUFFICES ASSUME Init PROVE JobInv /\ Job!Init
      OBVIOUS
    <2>1. \A t \in Threads : WaitingInv(t)
      BY DEF Init, WaitingInv
    <2>2. \A d \in Devices : RunnerInv(d)
      BY DEF Init, RunnerInv
    <2>3. \A d \in Devices : JobOwner[d] = NoThread /\ JobPhase[d] = "free"
      BY DEF Init, JobOwner, JobPhase, Waited
    <2> QED  BY <2>1, <2>2, <2>3, JobFunctions DEF JobInv, Job!Init
  <1>2. QuietInv /\ JobInv /\ [Next]_vars => JobInv' /\ [Job!Next]_<<JobOwner, JobPhase>>
    <2> SUFFICES ASSUME QuietInv, JobInv, [Next]_vars
                 PROVE  JobInv' /\ [Job!Next]_<<JobOwner, JobPhase>>
      OBVIOUS
    <2>0. TypeInv'
      BY NextTypeInv DEF QuietInv
    <2>1. CASE UNCHANGED vars
      <3>1. UNCHANGED <<pc, dev, pt_reg, run_by, state, outcome>>
        BY <2>1 DEF vars, regs, call, history
      <3>2. JobInv'
        BY <3>1 DEF JobInv, WaitingInv, RunnerInv
      <3>3. UNCHANGED JobOwner
        BY <3>1 DEF JobOwner, Waited
      <3>4. UNCHANGED JobPhase
        BY <3>1, <3>3 DEF JobPhase
      <3> QED  BY <3>2, <3>3, <3>4
    <2>2. ASSUME NEW t \in Threads,
                 \/ LockInterrupted(t) \/ ConfigInterrupted(t) \/ UpdateInterrupted(t)
                 \/ FlushInterrupted(t) \/ WaitInterrupted(t)
                 \/ \E d \in Devices : RunIoctl(t, d)
          PROVE  FALSE
      BY <2>2 DEF LockInterrupted, ConfigInterrupted, UpdateInterrupted, FlushInterrupted,
       WaitInterrupted, RunIoctl
    <2>3. ASSUME NEW t \in Threads, Preparing(t) \/ Leaving(t) \/ Clear(t) \/ Transfer(t)
          PROVE  JobInv' /\ UNCHANGED <<JobOwner, JobPhase>>
      <3>1. JobInv' /\ \A d \in Devices : JobOwner'[d] = JobOwner[d] /\ JobPhase'[d] = JobPhase[d]
        BY <2>0, <2>3, AsideJob
      <3> QED  BY <3>1, JobFunctions
    <2>4. ASSUME NEW t \in Threads, Run(t) PROVE JobInv' /\ Job!Next
      <3>1. JobInv' /\ Job!Begin(dev[t], t) /\ dev[t] \in Devices
        BY <2>0, <2>4, RunJob DEF QuietInv, TypeInv, CallInv, Run
      <3> QED  BY <3>1 DEF Job!Next
    <2>5. ASSUME NEW t \in Threads, Wait(t) PROVE JobInv' /\ Job!Next
      <3>1. JobInv' /\ Job!Tell(dev[t]) /\ dev[t] \in Devices
        BY <2>0, <2>5, WaitJob DEF QuietInv, TypeInv, CallInv, Wait
      <3> QED  BY <3>1 DEF Job!Next
    <2>6. ASSUME NEW d \in Devices, Hardware(d)
          PROVE  JobInv' /\ [Job!Next]_<<JobOwner, JobPhase>>
      <3>1. /\ JobInv'
            /\ \/ \E how \in {"done", "error"} : Job!Finish(d, how)
               \/ UNCHANGED <<JobOwner, JobPhase>>
        BY <2>0, <2>6, HardwareJob
      <3> QED  BY <3>1 DEF Job!Next
    <2> QED
      BY <2>1, <2>2, <2>3, <2>4, <2>5, <2>6 DEF Next, InCall, Preparing, Leaving
  <1> QED  BY <1>1, <1>2, AlwaysQuiet, PTL DEF Spec, JobSpec, Job!Spec

=============================================================================
