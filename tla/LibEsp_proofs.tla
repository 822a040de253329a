--------------------------- MODULE LibEsp_proofs ---------------------------
(* Proofs about programs on top of libesp, for any number of programs,     *)
(* devices and entries, any configurations and any number of runs.         *)
EXTENDS LibEsp, TLAPS

-----------------------------------------------------------------------------
(* The invariant                                                           *)

\* The buffer is allocated from esp_alloc to esp_cleanup.
BufferInv == \A p \in Programs :
    pc[p] \in {"ready", "config", "open", "create", "join", "ran"} => contig[p]

\* A worker in its ioctl is one that esp_run created and has not joined, for an
\* entry that runs; its program has the buffer.
Created(p, a) ==
    /\ contig[p] /\ cfg[p][a].run
    /\ \/ pc[p] = "create" /\ a < i[p]
       \/ pc[p] = "join" /\ i[p] <= a
       \/ pc[p] = "dying"

WorkInv == \A p \in Programs : \A a \in Accs :
    th[<<p, a>>] \in InIoctl => Created(p, a)

\* A descriptor of an entry that runs is of this esp_run, whose loop of joins
\* has not reached it.
FdInv == \A p \in Programs : \A f \in fds[p] : f[3] =>
    \/ pc[p] \in {"create", "join"} /\ f = Fd(p, f[2])
          /\ (pc[p] = "join" => i[p] <= f[2])
    \/ pc[p] \in {"dying", "dead"}

\* A run whose ioctl was not broken off is waited for.
JobInv == \A d \in Devices :
    job[d] # NoJob /\ ~left[d] =>
         \E p \in Programs, a \in Accs :
            job[d] = <<p, a>> /\ th[<<p, a>>] = "wait" /\ cfg[p][a].dev = d

\* The inductive invariant.
IInv == TypeOK /\ BufferInv /\ WorkInv /\ FdInv /\ JobInv

-----------------------------------------------------------------------------
(* Each action keeps the invariant                                         *)

USE DEF main, device, Goto

\* What is not done in the ioctls does not disturb the accelerators.
LEMMA JobKept ==
    ASSUME IInv, UNCHANGED <<job, left>>,
           \A p \in Programs, a \in Accs : th[<<p, a>>] = "wait" =>
              th'[<<p, a>>] = "wait" /\ cfg'[p][a].dev = cfg[p][a].dev
    PROVE  JobInv'
  <1>1. ASSUME NEW d \in Devices, job'[d] # NoJob, ~left'[d]
        PROVE  \E p \in Programs, a \in Accs :
                  job'[d] = <<p, a>> /\ th'[<<p, a>>] = "wait" /\ cfg'[p][a].dev = d
    <2>1. PICK p \in Programs, a \in Accs :
            job[d] = <<p, a>> /\ th[<<p, a>>] = "wait" /\ cfg[p][a].dev = d
      BY <1>1 DEF IInv, JobInv
    <2>2. job'[d] = <<p, a>> /\ th'[<<p, a>>] = "wait" /\ cfg'[p][a].dev = d
      BY <2>1
    <2> QED  BY <2>2
  <1> QED  BY <1>1 DEF IInv, JobInv

\* A loop over the entries goes on, or ends after the last.
LEMMA LoopFacts ==
    ASSUME LibEspAssumption, IInv, NEW p \in Programs, NEW label \in MainLabels, Loop(p, label)
    PROVE  \/ /\ i[p] < nacc /\ i[p] + 1 \in Accs
              /\ i' = [i EXCEPT ![p] = i[p] + 1] /\ pc' = pc
           \/ /\ i[p] = nacc /\ 1 \in Accs
              /\ i' = [i EXCEPT ![p] = 1] /\ pc' = [pc EXCEPT ![p] = label]
  <1>1. i[p] \in Accs
    BY DEF IInv, TypeOK
  <1> QED  BY <1>1 DEF LibEspAssumption, Loop, Accs

\* esp_alloc keeps the invariant.
LEMMA esp_allocKeeps ==
    ASSUME LibEspAssumption, IInv, NEW p \in Programs, esp_alloc(p) PROVE IInv'
  <1>1. TypeOK'
    BY DEF IInv, TypeOK, MainLabels, InIoctl, Labels, NoConfig, esp_alloc
  <1>2. BufferInv'
    BY DEF IInv, TypeOK, BufferInv, esp_alloc
  <1>3. WorkInv'
    BY DEF IInv, TypeOK, WorkInv, Created, esp_alloc
  <1>4. FdInv'
    BY DEF IInv, TypeOK, FdInv, Fd, esp_alloc
  <1>5. JobInv'
    BY JobKept DEF esp_alloc
  <1> QED  BY <1>1, <1>2, <1>3, <1>4, <1>5 DEF IInv

\* esp_allocFailsFails keeps the invariant.
LEMMA esp_allocFailsKeeps ==
    ASSUME LibEspAssumption, IInv, NEW p \in Programs, esp_allocFails(p) PROVE IInv'
  <1>1. TypeOK'
    BY DEF IInv, TypeOK, MainLabels, InIoctl, Labels, NoConfig, esp_allocFails
  <1>2. BufferInv'
    BY DEF IInv, TypeOK, BufferInv, esp_allocFails
  <1>3. WorkInv'
    BY DEF IInv, TypeOK, WorkInv, Created, esp_allocFails
  <1>4. FdInv'
    BY DEF IInv, TypeOK, FdInv, Fd, esp_allocFails
  <1>5. JobInv'
    BY JobKept DEF esp_allocFails
  <1> QED  BY <1>1, <1>2, <1>3, <1>4, <1>5 DEF IInv

\* esp_run keeps the invariant.
LEMMA esp_runKeeps ==
    ASSUME LibEspAssumption, IInv, NEW p \in Programs, esp_run(p) PROVE IInv'
  <1>1. TypeOK'
    BY DEF IInv, TypeOK, MainLabels, InIoctl, Labels, NoConfig, esp_run
  <1>2. BufferInv'
    BY DEF IInv, TypeOK, BufferInv, esp_run
  <1>3. WorkInv'
    BY DEF IInv, Workers, InIoctl, WorkInv, Created, esp_run
  <1>4. FdInv'
    BY DEF IInv, TypeOK, FdInv, Fd, esp_run
  <1>5. JobInv'
    <2>1. \A q \in Programs, a \in Accs :
            <<q, a>> \in Workers /\ <<q, a>>[1] = q /\ (q = p => th[<<q, a>>] # "wait")
      BY DEF IInv, WorkInv, Created, InIoctl, Workers, esp_run
    <2>2. \A q \in Programs, a \in Accs : q # p => th'[<<q, a>>] = th[<<q, a>>] /\ cfg'[q] = cfg[q]
      BY <2>1 DEF IInv, TypeOK, esp_run
    <2> QED  BY <2>1, <2>2, JobKept DEF esp_run
  <1> QED  BY <1>1, <1>2, <1>3, <1>4, <1>5 DEF IInv

\* esp_config keeps the invariant.
LEMMA esp_configKeeps ==
    ASSUME LibEspAssumption, IInv, NEW p \in Programs, esp_config(p) PROVE IInv'
  <1>1. TypeOK'
    BY DEF IInv, TypeOK, MainLabels, InIoctl, Labels, NoConfig, esp_config
  <1>2. BufferInv'
    BY DEF IInv, TypeOK, BufferInv, esp_config
  <1>3. WorkInv'
    BY DEF IInv, TypeOK, WorkInv, Created, esp_config
  <1>4. FdInv'
    BY DEF IInv, TypeOK, FdInv, Fd, esp_config
  <1>5. JobInv'
    BY JobKept DEF esp_config
  <1> QED  BY <1>1, <1>2, <1>3, <1>4, <1>5 DEF IInv

\* ConfigDies keeps the invariant.
LEMMA ConfigDiesKeeps ==
    ASSUME LibEspAssumption, IInv, NEW p \in Programs, ConfigDies(p) PROVE IInv'
  <1>1. TypeOK'
    BY DEF IInv, TypeOK, LibEspAssumption, Accs, Workers, Entry, MainLabels, InIoctl, Labels,
           NoConfig, ConfigDies, Exit
  <1>2. BufferInv'
    BY DEF IInv, TypeOK, BufferInv, ConfigDies, Exit
  <1>3. WorkInv'
    BY DEF IInv, Workers, InIoctl, WorkInv, Created, ConfigDies, Exit
  <1>4. FdInv'
    BY DEF IInv, TypeOK, FdInv, Fd, ConfigDies, Exit
  <1>5. JobInv'
    <2>1. \A q \in Programs, a \in Accs :
            <<q, a>> \in Workers /\ <<q, a>>[1] = q /\ (q = p => th[<<q, a>>] # "wait")
      BY DEF IInv, WorkInv, Created, InIoctl, Workers, ConfigDies, Exit
    <2>2. \A q \in Programs, a \in Accs : q # p => th'[<<q, a>>] = th[<<q, a>>] /\ cfg'[q] = cfg[q]
      BY <2>1 DEF IInv, TypeOK, ConfigDies, Exit
    <2> QED  BY <2>1, <2>2, JobKept DEF ConfigDies, Exit
  <1> QED  BY <1>1, <1>2, <1>3, <1>4, <1>5 DEF IInv

\* Open keeps the invariant.
LEMMA OpenKeeps ==
    ASSUME LibEspAssumption, IInv, NEW p \in Programs, Open(p) PROVE IInv'
  <1>1. TypeOK'
    <2>1. \A a \in Accs : Fd(p, a) \in Nat \X Accs \X BOOLEAN
      BY DEF IInv, TypeOK, Fd, LibEspAssumption, Entry
    <2>2. {Fd(p, a) : a \in Accs} \subseteq Nat \X Accs \X BOOLEAN
      BY <2>1
    <2>3. fds' \in [Programs -> SUBSET (Nat \X Accs \X BOOLEAN)]
      BY <2>2 DEF IInv, TypeOK, Open
    <2> QED  BY <2>3 DEF IInv, TypeOK, Open, MainLabels
  <1>2. BufferInv'
    BY DEF IInv, TypeOK, BufferInv, Open
  <1>3. WorkInv'
    BY DEF IInv, TypeOK, WorkInv, Created, Open
  <1>4. FdInv'
    BY DEF IInv, TypeOK, FdInv, Fd, Open
  <1>5. JobInv'
    BY JobKept DEF Open
  <1> QED  BY <1>1, <1>2, <1>3, <1>4, <1>5 DEF IInv

\* OpenDies keeps the invariant.
LEMMA OpenDiesKeeps ==
    ASSUME LibEspAssumption, IInv, NEW p \in Programs, OpenDies(p) PROVE IInv'
  <1>1. TypeOK'
    BY DEF IInv, TypeOK, Accs, Entry, MainLabels, InIoctl, Labels, NoConfig, OpenDies, Exit
  <1>2. BufferInv'
    BY DEF IInv, TypeOK, BufferInv, OpenDies, Exit
  <1>3. WorkInv'
    BY DEF IInv, Workers, InIoctl, WorkInv, Created, OpenDies, Exit
  <1>4. FdInv'
    BY DEF IInv, TypeOK, FdInv, Fd, OpenDies, Exit
  <1>5. JobInv'
    <2>1. \A q \in Programs, a \in Accs :
            <<q, a>> \in Workers /\ <<q, a>>[1] = q /\ (q = p => th[<<q, a>>] # "wait")
      BY DEF IInv, WorkInv, Created, InIoctl, Workers, OpenDies, Exit
    <2>2. \A q \in Programs, a \in Accs : q # p => th'[<<q, a>>] = th[<<q, a>>] /\ cfg'[q] = cfg[q]
      BY <2>1 DEF IInv, TypeOK, OpenDies, Exit
    <2> QED  BY <2>1, <2>2, JobKept DEF OpenDies, Exit
  <1> QED  BY <1>1, <1>2, <1>3, <1>4, <1>5 DEF IInv

\* Create keeps the invariant.
LEMMA CreateKeeps ==
    ASSUME LibEspAssumption, IInv, NEW p \in Programs, Create(p) PROVE IInv'
  <1>1. TypeOK'
    <2>0. \/ /\ i[p] < nacc /\ i[p] + 1 \in Accs
             /\ i' = [i EXCEPT ![p] = i[p] + 1] /\ pc' = pc
          \/ /\ i[p] = nacc /\ 1 \in Accs /\ i' = [i EXCEPT ![p] = 1]
             /\ pc' = [pc EXCEPT ![p] = "join"]
      <3>1. "join" \in MainLabels
        BY DEF MainLabels
      <3> QED  BY <3>1, LoopFacts DEF Create
    <2>1. pc[p] \in MainLabels /\ i[p] \in 1 .. nacc /\ Here(p) = cfg[p][i[p]] /\ nacc \in Nat
      BY DEF IInv, TypeOK, Here, Accs, LibEspAssumption
    <2>2. pc' \in [Programs -> MainLabels]
      BY <2>0 DEF IInv, TypeOK, MainLabels
    <2>3. i' \in [Programs -> Accs]
      BY <2>0 DEF IInv, TypeOK
    <2>4. th' \in [Workers -> Labels]
      BY DEF IInv, TypeOK, Create, Step, Labels, InIoctl
    <2>5. fds' \in [Programs -> SUBSET (Nat \X Accs \X BOOLEAN)]
      BY DEF IInv, TypeOK, Create
    <2> QED  BY <2>2, <2>3, <2>4, <2>5 DEF IInv, TypeOK, Create
  <1>2. BufferInv'
    BY DEF IInv, TypeOK, BufferInv, Create, Loop, Here, Step
  <1>3. WorkInv'
    <2>0. \/ /\ i[p] < nacc /\ i[p] + 1 \in Accs
             /\ i' = [i EXCEPT ![p] = i[p] + 1] /\ pc' = pc
          \/ /\ i[p] = nacc /\ 1 \in Accs /\ i' = [i EXCEPT ![p] = 1]
             /\ pc' = [pc EXCEPT ![p] = "join"]
      <3>1. "join" \in MainLabels
        BY DEF MainLabels
      <3> QED  BY <3>1, LoopFacts DEF Create
    <2>1. pc[p] \in MainLabels /\ i[p] \in 1 .. nacc /\ Here(p) = cfg[p][i[p]] /\ nacc \in Nat
      BY DEF IInv, TypeOK, Here, Accs, LibEspAssumption
    <2>2. ASSUME NEW q \in Programs, NEW a \in Accs, th'[<<q, a>>] \in InIoctl, q # p
          PROVE  Created(q, a)'
      <3>1. th[<<q, a>>] \in InIoctl /\ pc'[q] = pc[q] /\ i'[q] = i[q]
        BY <2>0, <2>2 DEF IInv, TypeOK, Create, Step
      <3> QED  BY <3>1 DEF IInv, WorkInv, Created, Create
    <2>3. ASSUME NEW a \in Accs, th'[<<p, a>>] \in InIoctl PROVE Created(p, a)'
      <3>1. \/ pc'[p] = pc[p] /\ i'[p] = i[p] + 1
            \/ i[p] = nacc /\ i'[p] = 1 /\ pc'[p] = "join"
        BY <2>0, <2>1 DEF IInv, TypeOK
      <3>2. th[<<p, a>>] \in InIoctl \/ a = i[p]
        BY <2>1, <2>3 DEF IInv, TypeOK, Create, Step
      <3> QED  BY <3>1, <3>2, <2>1 DEF IInv, BufferInv, WorkInv, Created, Accs, InIoctl, Create
    <2> QED  BY <2>2, <2>3 DEF WorkInv
  <1>4. FdInv'
    <2>0. \/ /\ i[p] < nacc /\ i[p] + 1 \in Accs
             /\ i' = [i EXCEPT ![p] = i[p] + 1] /\ pc' = pc
          \/ /\ i[p] = nacc /\ 1 \in Accs /\ i' = [i EXCEPT ![p] = 1]
             /\ pc' = [pc EXCEPT ![p] = "join"]
      <3>1. "join" \in MainLabels
        BY DEF MainLabels
      <3> QED  BY <3>1, LoopFacts DEF Create
    <2>1. pc[p] \in MainLabels /\ i[p] \in 1 .. nacc /\ Here(p) = cfg[p][i[p]] /\ nacc \in Nat
      BY DEF IInv, TypeOK, Here, Accs, LibEspAssumption
    <2>2. ASSUME NEW q \in Programs, NEW f \in fds'[q], f[3], q # p
          PROVE  \/ pc'[q] \in {"create", "join"} /\ f = Fd(q, f[2])'
                       /\ (pc'[q] = "join" => i'[q] <= f[2])
                 \/ pc'[q] \in {"dying", "dead"}
      <3>1. f \in fds[q] /\ pc'[q] = pc[q] /\ i'[q] = i[q]
        BY <2>0, <2>2 DEF IInv, TypeOK, Create
      <3> QED  BY <3>1, <2>2 DEF IInv, FdInv, Fd, Create
    <2>3. ASSUME NEW f \in fds'[p], f[3]
          PROVE  \/ pc'[p] \in {"create", "join"} /\ f = Fd(p, f[2])'
                       /\ (pc'[p] = "join" => i'[p] <= f[2])
                 \/ pc'[p] \in {"dying", "dead"}
      <3>1. \/ pc'[p] = pc[p] /\ i'[p] = i[p] + 1
            \/ i[p] = nacc /\ i'[p] = 1 /\ pc'[p] = "join"
        BY <2>0, <2>1 DEF IInv, TypeOK
      <3>2. f \in fds[p] /\ f[2] \in 1 .. nacc
        BY <2>3 DEF IInv, TypeOK, Accs, Create
      <3>3. f = Fd(p, f[2]) /\ (pc[p] = "join" => i[p] <= f[2]) /\ pc[p] \in {"create", "join"}
        BY <2>3, <3>2 DEF IInv, FdInv, Create
      <3>4. Fd(p, f[2])' = Fd(p, f[2])
        BY DEF Fd, Create
      <3>5. pc[p] = "join" => f[2] # i[p]
        BY <3>2, <3>3, <2>1, <2>3 DEF Fd, Create
      <3> QED  BY <3>1, <3>2, <3>3, <3>4, <3>5, <2>1 DEF Create
    <2> QED  BY <2>2, <2>3 DEF FdInv
  <1>5. JobInv'
    <2>0. i[p] \in Accs /\ i[p] \in Int
      BY DEF IInv, TypeOK, Accs
    <2>1. <<p, i[p]>> \in Workers /\ th[<<p, i[p]>>] # "wait"
      BY <2>0 DEF IInv, WorkInv, Created, InIoctl, Workers, Create
    <2>2. \A q \in Programs, a \in Accs :
            <<q, a>> \in Workers /\ (th[<<q, a>>] = "wait" => th'[<<q, a>>] = "wait")
      BY <2>1 DEF IInv, TypeOK, Create, Step, Workers
    <2> QED  BY <2>2, JobKept DEF Create
  <1> QED  BY <1>1, <1>2, <1>3, <1>4, <1>5 DEF IInv

\* CreateFails keeps the invariant.
LEMMA CreateFailsKeeps ==
    ASSUME LibEspAssumption, IInv, NEW p \in Programs, CreateFails(p) PROVE IInv'
  <1>1. TypeOK'
    <2>0. \/ /\ i[p] < nacc /\ i[p] + 1 \in Accs
             /\ i' = [i EXCEPT ![p] = i[p] + 1] /\ pc' = pc
          \/ /\ i[p] = nacc /\ 1 \in Accs /\ i' = [i EXCEPT ![p] = 1]
             /\ pc' = [pc EXCEPT ![p] = "join"]
      <3>1. "join" \in MainLabels
        BY DEF MainLabels
      <3> QED  BY <3>1, LoopFacts DEF CreateFails
    <2>1. pc[p] \in MainLabels /\ i[p] \in 1 .. nacc /\ Here(p) = cfg[p][i[p]] /\ nacc \in Nat
      BY DEF IInv, TypeOK, Here, Accs, LibEspAssumption
    <2>2. pc' \in [Programs -> MainLabels]
      BY <2>0 DEF IInv, TypeOK, MainLabels
    <2>3. i' \in [Programs -> Accs]
      BY <2>0 DEF IInv, TypeOK
    <2>4. th' \in [Workers -> Labels]
      BY DEF IInv, TypeOK, CreateFails, Step
    <2>5. fds' \in [Programs -> SUBSET (Nat \X Accs \X BOOLEAN)]
      BY DEF IInv, TypeOK, CreateFails
    <2> QED  BY <2>2, <2>3, <2>4, <2>5 DEF IInv, TypeOK, CreateFails
  <1>2. BufferInv'
    BY DEF IInv, TypeOK, BufferInv, CreateFails, Loop, Here
  <1>3. WorkInv'
    <2>0. \/ /\ i[p] < nacc /\ i[p] + 1 \in Accs
             /\ i' = [i EXCEPT ![p] = i[p] + 1] /\ pc' = pc
          \/ /\ i[p] = nacc /\ 1 \in Accs /\ i' = [i EXCEPT ![p] = 1]
             /\ pc' = [pc EXCEPT ![p] = "join"]
      <3>1. "join" \in MainLabels
        BY DEF MainLabels
      <3> QED  BY <3>1, LoopFacts DEF CreateFails
    <2>1. pc[p] \in MainLabels /\ i[p] \in 1 .. nacc /\ Here(p) = cfg[p][i[p]] /\ nacc \in Nat
      BY DEF IInv, TypeOK, Here, Accs, LibEspAssumption
    <2>2. ASSUME NEW q \in Programs, NEW a \in Accs, th'[<<q, a>>] \in InIoctl, q # p
          PROVE  Created(q, a)'
      <3>1. th[<<q, a>>] \in InIoctl /\ pc'[q] = pc[q] /\ i'[q] = i[q]
        BY <2>0, <2>2 DEF IInv, TypeOK, CreateFails, Step
      <3> QED  BY <3>1 DEF IInv, WorkInv, Created, CreateFails
    <2>3. ASSUME NEW a \in Accs, th'[<<p, a>>] \in InIoctl PROVE Created(p, a)'
      <3>1. \/ pc'[p] = pc[p] /\ i'[p] = i[p] + 1
            \/ i[p] = nacc /\ i'[p] = 1 /\ pc'[p] = "join"
        BY <2>0, <2>1 DEF IInv, TypeOK
      <3>2. th[<<p, a>>] \in InIoctl
        BY <2>1, <2>3 DEF IInv, TypeOK, CreateFails, Step
      <3> QED  BY <3>1, <3>2, <2>1 DEF IInv, BufferInv, WorkInv, Created, Accs, InIoctl,
            CreateFails
    <2> QED  BY <2>2, <2>3 DEF WorkInv
  <1>4. FdInv'
    <2>0. \/ /\ i[p] < nacc /\ i[p] + 1 \in Accs
             /\ i' = [i EXCEPT ![p] = i[p] + 1] /\ pc' = pc
          \/ /\ i[p] = nacc /\ 1 \in Accs /\ i' = [i EXCEPT ![p] = 1]
             /\ pc' = [pc EXCEPT ![p] = "join"]
      <3>1. "join" \in MainLabels
        BY DEF MainLabels
      <3> QED  BY <3>1, LoopFacts DEF CreateFails
    <2>1. pc[p] \in MainLabels /\ i[p] \in 1 .. nacc /\ Here(p) = cfg[p][i[p]] /\ nacc \in Nat
      BY DEF IInv, TypeOK, Here, Accs, LibEspAssumption
    <2>2. ASSUME NEW q \in Programs, NEW f \in fds'[q], f[3], q # p
          PROVE  \/ pc'[q] \in {"create", "join"} /\ f = Fd(q, f[2])'
                       /\ (pc'[q] = "join" => i'[q] <= f[2])
                 \/ pc'[q] \in {"dying", "dead"}
      <3>1. f \in fds[q] /\ pc'[q] = pc[q] /\ i'[q] = i[q]
        BY <2>0, <2>2 DEF IInv, TypeOK, CreateFails
      <3> QED  BY <3>1, <2>2 DEF IInv, FdInv, Fd, CreateFails
    <2>3. ASSUME NEW f \in fds'[p], f[3]
          PROVE  \/ pc'[p] \in {"create", "join"} /\ f = Fd(p, f[2])'
                       /\ (pc'[p] = "join" => i'[p] <= f[2])
                 \/ pc'[p] \in {"dying", "dead"}
      <3>1. \/ pc'[p] = pc[p] /\ i'[p] = i[p] + 1
            \/ i[p] = nacc /\ i'[p] = 1 /\ pc'[p] = "join"
        BY <2>0, <2>1 DEF IInv, TypeOK
      <3>2. f \in fds[p] /\ f[2] \in 1 .. nacc
        BY <2>3 DEF IInv, TypeOK, Accs, CreateFails
      <3>3. f = Fd(p, f[2]) /\ (pc[p] = "join" => i[p] <= f[2]) /\ pc[p] \in {"create", "join"}
        BY <2>3, <3>2 DEF IInv, FdInv, CreateFails
      <3>4. Fd(p, f[2])' = Fd(p, f[2])
        BY DEF Fd, CreateFails
      <3>5. pc[p] = "join" => f[2] # i[p]
        BY <3>2, <3>3, <2>1, <2>3 DEF Fd, CreateFails
      <3> QED  BY <3>1, <3>2, <3>3, <3>4, <3>5, <2>1 DEF CreateFails
    <2> QED  BY <2>2, <2>3 DEF FdInv
  <1>5. JobInv'
    <2> QED  BY JobKept DEF CreateFails
  <1> QED  BY <1>1, <1>2, <1>3, <1>4, <1>5 DEF IInv

\* Skip keeps the invariant.
LEMMA SkipKeeps ==
    ASSUME LibEspAssumption, IInv, NEW p \in Programs, Skip(p) PROVE IInv'
  <1>1. TypeOK'
    <2>0. \/ /\ i[p] < nacc /\ i[p] + 1 \in Accs
             /\ i' = [i EXCEPT ![p] = i[p] + 1] /\ pc' = pc
          \/ /\ i[p] = nacc /\ 1 \in Accs /\ i' = [i EXCEPT ![p] = 1]
             /\ pc' = [pc EXCEPT ![p] = (IF pc[p] = "create" THEN "join" ELSE "ran")]
      <3>1. (IF pc[p] = "create" THEN "join" ELSE "ran") \in MainLabels
        BY DEF MainLabels
      <3> QED  BY <3>1, LoopFacts DEF Skip
    <2>1. pc[p] \in MainLabels /\ i[p] \in 1 .. nacc /\ Here(p) = cfg[p][i[p]] /\ nacc \in Nat
      BY DEF IInv, TypeOK, Here, Accs, LibEspAssumption
    <2>2. pc' \in [Programs -> MainLabels]
      BY <2>0 DEF IInv, TypeOK, MainLabels
    <2>3. i' \in [Programs -> Accs]
      BY <2>0 DEF IInv, TypeOK
    <2>4. th' \in [Workers -> Labels]
      BY DEF IInv, TypeOK, Skip, Step
    <2>5. fds' \in [Programs -> SUBSET (Nat \X Accs \X BOOLEAN)]
      BY DEF IInv, TypeOK, Skip
    <2> QED  BY <2>2, <2>3, <2>4, <2>5 DEF IInv, TypeOK, Skip
  <1>2. BufferInv'
    BY DEF IInv, TypeOK, BufferInv, Skip, Loop, Here
  <1>3. WorkInv'
    <2>0. \/ /\ i[p] < nacc /\ i[p] + 1 \in Accs
             /\ i' = [i EXCEPT ![p] = i[p] + 1] /\ pc' = pc
          \/ /\ i[p] = nacc /\ 1 \in Accs /\ i' = [i EXCEPT ![p] = 1]
             /\ pc' = [pc EXCEPT ![p] = (IF pc[p] = "create" THEN "join" ELSE "ran")]
      <3>1. (IF pc[p] = "create" THEN "join" ELSE "ran") \in MainLabels
        BY DEF MainLabels
      <3> QED  BY <3>1, LoopFacts DEF Skip
    <2>1. pc[p] \in MainLabels /\ i[p] \in 1 .. nacc /\ Here(p) = cfg[p][i[p]] /\ nacc \in Nat
      BY DEF IInv, TypeOK, Here, Accs, LibEspAssumption
    <2>2. ASSUME NEW q \in Programs, NEW a \in Accs, th'[<<q, a>>] \in InIoctl, q # p
          PROVE  Created(q, a)'
      <3>1. th[<<q, a>>] \in InIoctl /\ pc'[q] = pc[q] /\ i'[q] = i[q]
        BY <2>0, <2>2 DEF IInv, TypeOK, Skip, Step
      <3> QED  BY <3>1 DEF IInv, WorkInv, Created, Skip
    <2>3. ASSUME NEW a \in Accs, th'[<<p, a>>] \in InIoctl PROVE Created(p, a)'
      <3>1. \/ pc'[p] = pc[p] /\ i'[p] = i[p] + 1
            \/ i[p] = nacc /\ i'[p] = 1 /\ pc'[p] = (IF pc[p] = "create" THEN "join" ELSE "ran")
        BY <2>0, <2>1 DEF IInv, TypeOK
      <3>2. th[<<p, a>>] \in InIoctl
        BY <2>1, <2>3 DEF IInv, TypeOK, Skip, Step
      <3> QED  BY <3>1, <3>2, <2>1 DEF IInv, BufferInv, WorkInv, Created, Accs, InIoctl, Skip
    <2> QED  BY <2>2, <2>3 DEF WorkInv
  <1>4. FdInv'
    <2>0. \/ /\ i[p] < nacc /\ i[p] + 1 \in Accs
             /\ i' = [i EXCEPT ![p] = i[p] + 1] /\ pc' = pc
          \/ /\ i[p] = nacc /\ 1 \in Accs /\ i' = [i EXCEPT ![p] = 1]
             /\ pc' = [pc EXCEPT ![p] = (IF pc[p] = "create" THEN "join" ELSE "ran")]
      <3>1. (IF pc[p] = "create" THEN "join" ELSE "ran") \in MainLabels
        BY DEF MainLabels
      <3> QED  BY <3>1, LoopFacts DEF Skip
    <2>1. pc[p] \in MainLabels /\ i[p] \in 1 .. nacc /\ Here(p) = cfg[p][i[p]] /\ nacc \in Nat
      BY DEF IInv, TypeOK, Here, Accs, LibEspAssumption
    <2>2. ASSUME NEW q \in Programs, NEW f \in fds'[q], f[3], q # p
          PROVE  \/ pc'[q] \in {"create", "join"} /\ f = Fd(q, f[2])'
                       /\ (pc'[q] = "join" => i'[q] <= f[2])
                 \/ pc'[q] \in {"dying", "dead"}
      <3>1. f \in fds[q] /\ pc'[q] = pc[q] /\ i'[q] = i[q]
        BY <2>0, <2>2 DEF IInv, TypeOK, Skip
      <3> QED  BY <3>1, <2>2 DEF IInv, FdInv, Fd, Skip
    <2>3. ASSUME NEW f \in fds'[p], f[3]
          PROVE  \/ pc'[p] \in {"create", "join"} /\ f = Fd(p, f[2])'
                       /\ (pc'[p] = "join" => i'[p] <= f[2])
                 \/ pc'[p] \in {"dying", "dead"}
      <3>1. \/ pc'[p] = pc[p] /\ i'[p] = i[p] + 1
            \/ i[p] = nacc /\ i'[p] = 1 /\ pc'[p] = (IF pc[p] = "create" THEN "join" ELSE "ran")
        BY <2>0, <2>1 DEF IInv, TypeOK
      <3>2. f \in fds[p] /\ f[2] \in 1 .. nacc
        BY <2>3 DEF IInv, TypeOK, Accs, Skip
      <3>3. f = Fd(p, f[2]) /\ (pc[p] = "join" => i[p] <= f[2]) /\ pc[p] \in {"create", "join"}
        BY <2>3, <3>2 DEF IInv, FdInv, Skip
      <3>4. Fd(p, f[2])' = Fd(p, f[2])
        BY DEF Fd, Skip
      <3>5. pc[p] = "join" => f[2] # i[p]
        BY <3>2, <3>3, <2>1, <2>3 DEF Fd, Skip
      <3> QED  BY <3>1, <3>2, <3>3, <3>4, <3>5, <2>1 DEF Skip
    <2> QED  BY <2>2, <2>3 DEF FdInv
  <1>5. JobInv'
    <2> QED  BY JobKept DEF Skip
  <1> QED  BY <1>1, <1>2, <1>3, <1>4, <1>5 DEF IInv

\* Join keeps the invariant.
LEMMA JoinKeeps ==
    ASSUME LibEspAssumption, IInv, NEW p \in Programs, Join(p) PROVE IInv'
  <1>1. TypeOK'
    <2>0. \/ /\ i[p] < nacc /\ i[p] + 1 \in Accs
             /\ i' = [i EXCEPT ![p] = i[p] + 1] /\ pc' = pc
          \/ /\ i[p] = nacc /\ 1 \in Accs /\ i' = [i EXCEPT ![p] = 1]
             /\ pc' = [pc EXCEPT ![p] = "ran"]
      <3>1. "ran" \in MainLabels
        BY DEF MainLabels
      <3> QED  BY <3>1, LoopFacts DEF Join
    <2>1. pc[p] \in MainLabels /\ i[p] \in 1 .. nacc /\ Here(p) = cfg[p][i[p]] /\ nacc \in Nat
      BY DEF IInv, TypeOK, Here, Accs, LibEspAssumption
    <2>2. pc' \in [Programs -> MainLabels]
      BY <2>0 DEF IInv, TypeOK, MainLabels
    <2>3. i' \in [Programs -> Accs]
      BY <2>0 DEF IInv, TypeOK
    <2>4. th' \in [Workers -> Labels]
      BY DEF IInv, TypeOK, Join, Step
    <2>5. fds' \in [Programs -> SUBSET (Nat \X Accs \X BOOLEAN)]
      BY DEF IInv, TypeOK, Join
    <2> QED  BY <2>2, <2>3, <2>4, <2>5 DEF IInv, TypeOK, Join
  <1>2. BufferInv'
    BY DEF IInv, TypeOK, BufferInv, Join, Loop, Here
  <1>3. WorkInv'
    <2>0. \/ /\ i[p] < nacc /\ i[p] + 1 \in Accs
             /\ i' = [i EXCEPT ![p] = i[p] + 1] /\ pc' = pc
          \/ /\ i[p] = nacc /\ 1 \in Accs /\ i' = [i EXCEPT ![p] = 1]
             /\ pc' = [pc EXCEPT ![p] = "ran"]
      <3>1. "ran" \in MainLabels
        BY DEF MainLabels
      <3> QED  BY <3>1, LoopFacts DEF Join
    <2>1. pc[p] \in MainLabels /\ i[p] \in 1 .. nacc /\ Here(p) = cfg[p][i[p]] /\ nacc \in Nat
      BY DEF IInv, TypeOK, Here, Accs, LibEspAssumption
    <2>2. ASSUME NEW q \in Programs, NEW a \in Accs, th'[<<q, a>>] \in InIoctl, q # p
          PROVE  Created(q, a)'
      <3>1. th[<<q, a>>] \in InIoctl /\ pc'[q] = pc[q] /\ i'[q] = i[q]
        BY <2>0, <2>2 DEF IInv, TypeOK, Join, Step
      <3> QED  BY <3>1 DEF IInv, WorkInv, Created, Join
    <2>3. ASSUME NEW a \in Accs, th'[<<p, a>>] \in InIoctl PROVE Created(p, a)'
      <3>1. \/ pc'[p] = pc[p] /\ i'[p] = i[p] + 1
            \/ i[p] = nacc /\ i'[p] = 1 /\ pc'[p] = "ran"
        BY <2>0, <2>1 DEF IInv, TypeOK
      <3>2. th[<<p, a>>] \in InIoctl /\ a # i[p]
        BY <2>1, <2>3 DEF IInv, TypeOK, InIoctl, Join, Step
      <3> QED  BY <3>1, <3>2, <2>1 DEF IInv, BufferInv, WorkInv, Created, Accs, InIoctl, Join
    <2> QED  BY <2>2, <2>3 DEF WorkInv
  <1>4. FdInv'
    <2>0. \/ /\ i[p] < nacc /\ i[p] + 1 \in Accs
             /\ i' = [i EXCEPT ![p] = i[p] + 1] /\ pc' = pc
          \/ /\ i[p] = nacc /\ 1 \in Accs /\ i' = [i EXCEPT ![p] = 1]
             /\ pc' = [pc EXCEPT ![p] = "ran"]
      <3>1. "ran" \in MainLabels
        BY DEF MainLabels
      <3> QED  BY <3>1, LoopFacts DEF Join
    <2>1. pc[p] \in MainLabels /\ i[p] \in 1 .. nacc /\ Here(p) = cfg[p][i[p]] /\ nacc \in Nat
      BY DEF IInv, TypeOK, Here, Accs, LibEspAssumption
    <2>2. ASSUME NEW q \in Programs, NEW f \in fds'[q], f[3], q # p
          PROVE  \/ pc'[q] \in {"create", "join"} /\ f = Fd(q, f[2])'
                       /\ (pc'[q] = "join" => i'[q] <= f[2])
                 \/ pc'[q] \in {"dying", "dead"}
      <3>1. f \in fds[q] /\ pc'[q] = pc[q] /\ i'[q] = i[q]
        BY <2>0, <2>2 DEF IInv, TypeOK, Join
      <3> QED  BY <3>1, <2>2 DEF IInv, FdInv, Fd, Join
    <2>3. ASSUME NEW f \in fds'[p], f[3]
          PROVE  \/ pc'[p] \in {"create", "join"} /\ f = Fd(p, f[2])'
                       /\ (pc'[p] = "join" => i'[p] <= f[2])
                 \/ pc'[p] \in {"dying", "dead"}
      <3>1. \/ pc'[p] = pc[p] /\ i'[p] = i[p] + 1
            \/ i[p] = nacc /\ i'[p] = 1 /\ pc'[p] = "ran"
        BY <2>0, <2>1 DEF IInv, TypeOK
      <3>2. f \in fds[p] /\ f[2] \in 1 .. nacc /\ f # Fd(p, i[p])
        BY <2>3 DEF IInv, TypeOK, Accs, Join
      <3>3. f = Fd(p, f[2]) /\ (pc[p] = "join" => i[p] <= f[2]) /\ pc[p] \in {"create", "join"}
        BY <2>3, <3>2 DEF IInv, FdInv, Join
      <3>4. Fd(p, f[2])' = Fd(p, f[2])
        BY DEF Fd, Join
      <3>5. pc[p] = "join" => f[2] # i[p]
        BY <3>2, <3>3, <2>1, <2>3 DEF Fd, Join
      <3> QED  BY <3>1, <3>2, <3>3, <3>4, <3>5, <2>1 DEF Join
    <2> QED  BY <2>2, <2>3 DEF FdInv
  <1>5. JobInv'
    <2> QED  BY JobKept DEF Join
  <1> QED  BY <1>1, <1>2, <1>3, <1>4, <1>5 DEF IInv

\* JoinCrashes keeps the invariant.
LEMMA JoinCrashesKeeps ==
    ASSUME LibEspAssumption, IInv, NEW p \in Programs, JoinCrashes(p) PROVE IInv'
  <1>1. TypeOK'
    BY DEF IInv, TypeOK, MainLabels, InIoctl, Labels, NoConfig, JoinCrashes, Here
  <1>2. BufferInv'
    BY DEF IInv, TypeOK, BufferInv, JoinCrashes, Here
  <1>3. WorkInv'
    BY DEF IInv, TypeOK, WorkInv, Created, JoinCrashes, Here
  <1>4. FdInv'
    BY DEF IInv, TypeOK, FdInv, Fd, JoinCrashes, Here
  <1>5. JobInv'
    BY JobKept DEF JoinCrashes
  <1> QED  BY <1>1, <1>2, <1>3, <1>4, <1>5 DEF IInv

\* esp_cleanup keeps the invariant.
LEMMA esp_cleanupKeeps ==
    ASSUME LibEspAssumption, IInv, NEW p \in Programs, esp_cleanup(p) PROVE IInv'
  <1>1. TypeOK'
    BY DEF IInv, TypeOK, MainLabels, InIoctl, Labels, NoConfig, esp_cleanup
  <1>2. BufferInv'
    BY DEF IInv, TypeOK, BufferInv, esp_cleanup
  <1>3. WorkInv'
    BY DEF IInv, TypeOK, WorkInv, Created, esp_cleanup
  <1>4. FdInv'
    BY DEF IInv, TypeOK, FdInv, Fd, esp_cleanup
  <1>5. JobInv'
    BY JobKept DEF esp_cleanup
  <1> QED  BY <1>1, <1>2, <1>3, <1>4, <1>5 DEF IInv

\* End keeps the invariant.
LEMMA EndKeeps ==
    ASSUME LibEspAssumption, IInv, NEW p \in Programs, End(p) PROVE IInv'
  <1>1. TypeOK'
    BY DEF IInv, TypeOK, LibEspAssumption, Accs, Workers, Entry, MainLabels, InIoctl, Labels,
           NoConfig, End, Exit
  <1>2. BufferInv'
    BY DEF IInv, TypeOK, BufferInv, End, Exit
  <1>3. WorkInv'
    BY DEF IInv, Workers, InIoctl, WorkInv, Created, End, Exit
  <1>4. FdInv'
    BY DEF IInv, TypeOK, FdInv, Fd, End, Exit
  <1>5. JobInv'
    <2>1. \A q \in Programs, a \in Accs :
            <<q, a>> \in Workers /\ <<q, a>>[1] = q /\ (q = p => th[<<q, a>>] # "wait")
      BY DEF IInv, WorkInv, Created, InIoctl, Workers, End, Exit
    <2>2. \A q \in Programs, a \in Accs : q # p => th'[<<q, a>>] = th[<<q, a>>] /\ cfg'[q] = cfg[q]
      BY <2>1 DEF IInv, TypeOK, End, Exit
    <2> QED  BY <2>1, <2>2, JobKept DEF End, Exit
  <1> QED  BY <1>1, <1>2, <1>3, <1>4, <1>5 DEF IInv

\* Kill keeps the invariant.
LEMMA KillKeeps ==
    ASSUME LibEspAssumption, IInv, NEW p \in Programs, Kill(p) PROVE IInv'
  <1>1. TypeOK'
    BY DEF IInv, TypeOK, MainLabels, InIoctl, Labels, NoConfig, Kill
  <1>2. BufferInv'
    BY DEF IInv, TypeOK, BufferInv, Kill
  <1>3. WorkInv'
    BY DEF IInv, TypeOK, WorkInv, Created, Kill
  <1>4. FdInv'
    BY DEF IInv, TypeOK, FdInv, Fd, Kill
  <1>5. JobInv'
    BY JobKept DEF Kill
  <1> QED  BY <1>1, <1>2, <1>3, <1>4, <1>5 DEF IInv

\* Reap keeps the invariant.
LEMMA ReapKeeps ==
    ASSUME LibEspAssumption, IInv, NEW p \in Programs, Reap(p) PROVE IInv'
  <1>1. TypeOK'
    BY DEF IInv, TypeOK, Accs, Entry, MainLabels, InIoctl, Labels, NoConfig, Reap, Exit, Working
  <1>2. BufferInv'
    BY DEF IInv, TypeOK, BufferInv, Reap, Exit, Working
  <1>3. WorkInv'
    BY DEF IInv, Workers, InIoctl, WorkInv, Created, Reap, Exit
  <1>4. FdInv'
    BY DEF IInv, TypeOK, FdInv, Fd, Reap, Exit, Working
  <1>5. JobInv'
    <2>1. \A q \in Programs, a \in Accs :
            <<q, a>> \in Workers /\ <<q, a>>[1] = q /\ (q = p => th[<<q, a>>] # "wait")
      BY DEF IInv, InIoctl, Workers, Reap, Exit, Working
    <2>2. \A q \in Programs, a \in Accs : q # p => th'[<<q, a>>] = th[<<q, a>>] /\ cfg'[q] = cfg[q]
      BY <2>1 DEF IInv, TypeOK, Reap, Exit, Working
    <2> QED  BY <2>1, <2>2, JobKept DEF Reap, Exit, Working
  <1> QED  BY <1>1, <1>2, <1>3, <1>4, <1>5 DEF IInv

\* Lookup keeps the invariant.
LEMMA LookupKeeps ==
    ASSUME LibEspAssumption, IInv, NEW p \in Programs, NEW a \in Accs, Lookup(<<p, a>>)
    PROVE  IInv'
  <1>0. <<p, a>> \in Workers /\ <<p, a>>[1] = p /\ <<p, a>>[2] = a /\ p \in Programs /\ a \in Accs
    BY DEF Workers
  <1>1. TypeOK'
    BY <1>0 DEF IInv, TypeOK, MainLabels, InIoctl, Labels, NoConfig, Lookup, Step
  <1>2. BufferInv'
    BY <1>0 DEF IInv, TypeOK, BufferInv, Lookup, Step
  <1>3. WorkInv'
    BY <1>0 DEF IInv, TypeOK, MainLabels, InIoctl, Labels, WorkInv, Created, Lookup, Step
  <1>4. FdInv'
    BY <1>0 DEF IInv, TypeOK, FdInv, Fd, Lookup, Step
  <1>5. JobInv'
    <2>1. \A q \in Programs, b \in Accs : th[<<q, b>>] = "wait" => th'[<<q, b>>] = "wait"
      BY <1>0 DEF IInv, TypeOK, Workers, Lookup, Step
    <2> QED  BY <2>1, JobKept DEF Lookup
  <1> QED  BY <1>1, <1>2, <1>3, <1>4, <1>5 DEF IInv

\* Refused keeps the invariant.
LEMMA RefusedKeeps ==
    ASSUME LibEspAssumption, IInv, NEW p \in Programs, NEW a \in Accs, Refused(<<p, a>>)
    PROVE  IInv'
  <1>0. <<p, a>> \in Workers /\ <<p, a>>[1] = p /\ <<p, a>>[2] = a /\ p \in Programs /\ a \in Accs
    BY DEF Workers
  <1>1. TypeOK'
    BY <1>0 DEF IInv, TypeOK, MainLabels, InIoctl, Labels, NoConfig, Refused, Step
  <1>2. BufferInv'
    BY <1>0 DEF IInv, TypeOK, BufferInv, Refused, Step
  <1>3. WorkInv'
    BY <1>0 DEF IInv, TypeOK, MainLabels, InIoctl, Labels, WorkInv, Created, Refused, Step
  <1>4. FdInv'
    BY <1>0 DEF IInv, TypeOK, FdInv, Fd, Refused, Step
  <1>5. JobInv'
    <2>1. \A q \in Programs, b \in Accs : th[<<q, b>>] = "wait" => th'[<<q, b>>] = "wait"
      BY <1>0 DEF IInv, TypeOK, Workers, Refused, Step
    <2> QED  BY <2>1, JobKept DEF Refused
  <1> QED  BY <1>1, <1>2, <1>3, <1>4, <1>5 DEF IInv

\* Lock keeps the invariant.
LEMMA LockKeeps ==
    ASSUME LibEspAssumption, IInv, NEW p \in Programs, NEW a \in Accs, Lock(<<p, a>>) PROVE IInv'
  <1>0. <<p, a>> \in Workers /\ <<p, a>>[1] = p /\ <<p, a>>[2] = a /\ p \in Programs /\ a \in Accs
    BY DEF Workers
  <1>1. TypeOK'
    BY <1>0 DEF IInv, TypeOK, MainLabels, InIoctl, Labels, NoConfig, Lock, Step, Dev
  <1>2. BufferInv'
    BY <1>0 DEF IInv, TypeOK, BufferInv, Lock, Step, Dev
  <1>3. WorkInv'
    BY <1>0 DEF IInv, InIoctl, WorkInv, Created, Lock, Step
  <1>4. FdInv'
    BY <1>0 DEF IInv, TypeOK, FdInv, Fd, Lock, Step, Dev
  <1>5. JobInv'
    <2>1. \A q \in Programs, b \in Accs : th[<<q, b>>] = "wait" => th'[<<q, b>>] = "wait"
      BY <1>0 DEF IInv, TypeOK, Workers, Lock, Step
    <2> QED  BY <2>1, JobKept DEF Lock
  <1> QED  BY <1>1, <1>2, <1>3, <1>4, <1>5 DEF IInv

\* LockInterrupted keeps the invariant.
LEMMA LockInterruptedKeeps ==
    ASSUME LibEspAssumption, IInv, NEW p \in Programs, NEW a \in Accs, LockInterrupted(<<p, a>>)
    PROVE  IInv'
  <1>0. <<p, a>> \in Workers /\ <<p, a>>[1] = p /\ <<p, a>>[2] = a /\ p \in Programs /\ a \in Accs
    BY DEF Workers
  <1>1. TypeOK'
    BY <1>0 DEF IInv, TypeOK, MainLabels, InIoctl, Labels, NoConfig, LockInterrupted, Step, Dev
  <1>2. BufferInv'
    BY <1>0 DEF IInv, TypeOK, BufferInv, LockInterrupted, Step, Dev
  <1>3. WorkInv'
    BY <1>0 DEF IInv, InIoctl, WorkInv, Created, LockInterrupted, Step
  <1>4. FdInv'
    BY <1>0 DEF IInv, TypeOK, FdInv, Fd, LockInterrupted, Step, Dev
  <1>5. JobInv'
    <2>1. \A q \in Programs, b \in Accs : th[<<q, b>>] = "wait" => th'[<<q, b>>] = "wait"
      BY <1>0 DEF IInv, TypeOK, Workers, LockInterrupted, Step
    <2> QED  BY <2>1, JobKept DEF LockInterrupted
  <1> QED  BY <1>1, <1>2, <1>3, <1>4, <1>5 DEF IInv

\* SourceMissing keeps the invariant.
LEMMA SourceMissingKeeps ==
    ASSUME LibEspAssumption, IInv, NEW p \in Programs, NEW a \in Accs, SourceMissing(<<p, a>>)
    PROVE  IInv'
  <1>0. <<p, a>> \in Workers /\ <<p, a>>[1] = p /\ <<p, a>>[2] = a /\ p \in Programs /\ a \in Accs
    BY DEF Workers
  <1>1. TypeOK'
    BY <1>0 DEF IInv, TypeOK, MainLabels, InIoctl, Labels, NoConfig, SourceMissing, Step
  <1>2. BufferInv'
    BY <1>0 DEF IInv, TypeOK, BufferInv, SourceMissing, Step
  <1>3. WorkInv'
    BY <1>0 DEF IInv, TypeOK, MainLabels, InIoctl, Labels, WorkInv, Created, SourceMissing, Step
  <1>4. FdInv'
    BY <1>0 DEF IInv, TypeOK, FdInv, Fd, SourceMissing, Step
  <1>5. JobInv'
    <2>1. \A q \in Programs, b \in Accs : th[<<q, b>>] = "wait" => th'[<<q, b>>] = "wait"
      BY <1>0 DEF IInv, TypeOK, Workers, SourceMissing, Step
    <2> QED  BY <2>1, JobKept DEF SourceMissing
  <1> QED  BY <1>1, <1>2, <1>3, <1>4, <1>5 DEF IInv

\* Flush keeps the invariant.
LEMMA FlushKeeps ==
    ASSUME LibEspAssumption, IInv, NEW p \in Programs, NEW a \in Accs, Flush(<<p, a>>) PROVE IInv'
  <1>0. <<p, a>> \in Workers /\ <<p, a>>[1] = p /\ <<p, a>>[2] = a /\ p \in Programs /\ a \in Accs
    BY DEF Workers
  <1>1. TypeOK'
    BY <1>0 DEF IInv, TypeOK, MainLabels, InIoctl, Labels, NoConfig, Flush, Step
  <1>2. BufferInv'
    BY <1>0 DEF IInv, TypeOK, BufferInv, Flush, Step
  <1>3. WorkInv'
    BY <1>0 DEF IInv, TypeOK, MainLabels, InIoctl, Labels, WorkInv, Created, Flush, Step
  <1>4. FdInv'
    BY <1>0 DEF IInv, TypeOK, FdInv, Fd, Flush, Step
  <1>5. JobInv'
    <2>1. th[<<p, a>>] = "flush" /\ th' = [th EXCEPT ![<<p, a>>] = "transfer"]
      BY DEF Flush, Step
    <2>2. \A q \in Programs, b \in Accs : th[<<q, b>>] = "wait" => th'[<<q, b>>] = "wait"
      BY <2>1 DEF IInv, TypeOK, Workers
    <2> QED  BY <2>2, JobKept DEF Flush
  <1> QED  BY <1>1, <1>2, <1>3, <1>4, <1>5 DEF IInv

\* FlushInterrupted keeps the invariant.
LEMMA FlushInterruptedKeeps ==
    ASSUME LibEspAssumption, IInv, NEW p \in Programs, NEW a \in Accs, FlushInterrupted(<<p, a>>)
    PROVE  IInv'
  <1>0. <<p, a>> \in Workers /\ <<p, a>>[1] = p /\ <<p, a>>[2] = a /\ p \in Programs /\ a \in Accs
    BY DEF Workers
  <1>1. TypeOK'
    BY <1>0 DEF IInv, TypeOK, MainLabels, InIoctl, Labels, NoConfig, FlushInterrupted, Step
  <1>2. BufferInv'
    BY <1>0 DEF IInv, TypeOK, BufferInv, FlushInterrupted, Step
  <1>3. WorkInv'
    BY <1>0 DEF IInv, TypeOK, MainLabels, InIoctl, Labels, WorkInv, Created,
           FlushInterrupted, Step
  <1>4. FdInv'
    BY <1>0 DEF IInv, TypeOK, FdInv, Fd, FlushInterrupted, Step
  <1>5. JobInv'
    <2>1. \A q \in Programs, b \in Accs : th[<<q, b>>] = "wait" => th'[<<q, b>>] = "wait"
      BY <1>0 DEF IInv, TypeOK, Workers, FlushInterrupted, Step
    <2> QED  BY <2>1, JobKept DEF FlushInterrupted
  <1> QED  BY <1>1, <1>2, <1>3, <1>4, <1>5 DEF IInv

\* Transfer keeps the invariant.
LEMMA TransferKeeps ==
    ASSUME LibEspAssumption, IInv, NEW p \in Programs, NEW a \in Accs, Transfer(<<p, a>>)
    PROVE  IInv'
  <1>0. <<p, a>> \in Workers /\ <<p, a>>[1] = p /\ <<p, a>>[2] = a /\ p \in Programs /\ a \in Accs
    BY DEF Workers
  <1>1. TypeOK'
    BY <1>0 DEF IInv, TypeOK, MainLabels, InIoctl, Labels, NoConfig, Transfer, Step, Dev
  <1>2. BufferInv'
    BY <1>0 DEF IInv, TypeOK, BufferInv, Transfer, Step, Dev
  <1>3. WorkInv'
    BY <1>0 DEF IInv, InIoctl, WorkInv, Created, Transfer, Step
  <1>4. FdInv'
    BY <1>0 DEF IInv, TypeOK, FdInv, Fd, Transfer, Step, Dev
  <1>5. JobInv'
    <2> DEFINE d == cfg[p][a].dev
    <2>1. /\ th[<<p, a>>] = "transfer" /\ th' = [th EXCEPT ![<<p, a>>] = "wait"]
          /\ job' = [job EXCEPT ![d] = IF job[d] = NoJob THEN <<p, a>> ELSE job[d]]
          /\ left' = [left EXCEPT ![d] = left[d] /\ job[d] # NoJob]
          /\ UNCHANGED cfg
      BY <1>0 DEF Transfer, Step, Dev
    <2>2. d \in Devices
      BY DEF IInv, TypeOK, LibEspAssumption, Entry
    <2>3. \A q \in Programs, b \in Accs :
            <<q, b>> \in Workers /\ (th[<<q, b>>] = "wait" => th'[<<q, b>>] = "wait")
      BY <2>1 DEF IInv, TypeOK, Workers
    <2>4. th'[<<p, a>>] = "wait"
      BY <1>0, <2>1 DEF IInv, TypeOK
    <2>5. ASSUME NEW e \in Devices, e # d
          PROVE  job'[e] = job[e] /\ left'[e] = left[e]
      BY <2>1, <2>5 DEF IInv, TypeOK
    <2>6. /\ job'[d] = IF job[d] = NoJob THEN <<p, a>> ELSE job[d]
          /\ left'[d] = (left[d] /\ job[d] # NoJob)
      BY <2>1, <2>2 DEF IInv, TypeOK
    <2>9. ASSUME NEW e \in Devices, job'[e] # NoJob, ~left'[e]
          PROVE  \E q \in Programs, b \in Accs :
                    job'[e] = <<q, b>> /\ th'[<<q, b>>] = "wait" /\ cfg'[q][b].dev = e
      <3>1. CASE e = d /\ job[d] = NoJob
        BY <3>1, <2>1, <2>4, <2>6
      <3>2. CASE ~(e = d /\ job[d] = NoJob)
        <4>1. job[e] # NoJob /\ ~left[e] /\ job'[e] = job[e]
          BY <3>2, <2>5, <2>6, <2>9
        <4>2. PICK q \in Programs, b \in Accs :
                job[e] = <<q, b>> /\ th[<<q, b>>] = "wait" /\ cfg[q][b].dev = e
          BY <4>1 DEF IInv, JobInv
        <4>3. job'[e] = <<q, b>> /\ th'[<<q, b>>] = "wait" /\ cfg'[q][b].dev = e
          BY <4>1, <4>2, <2>1, <2>3
        <4> QED  BY <4>3
      <3> QED  BY <3>1, <3>2
    <2> QED  BY <2>9 DEF JobInv
  <1> QED  BY <1>1, <1>2, <1>3, <1>4, <1>5 DEF IInv

\* Wait keeps the invariant.
LEMMA WaitKeeps ==
    ASSUME LibEspAssumption, IInv, NEW p \in Programs, NEW a \in Accs, Wait(<<p, a>>) PROVE IInv'
  <1>0. <<p, a>> \in Workers /\ <<p, a>>[1] = p /\ <<p, a>>[2] = a /\ p \in Programs /\ a \in Accs
    BY DEF Workers
  <1>1. TypeOK'
    BY <1>0 DEF IInv, TypeOK, MainLabels, InIoctl, Labels, NoConfig, Wait, Step, Dev
  <1>2. BufferInv'
    BY <1>0 DEF IInv, TypeOK, BufferInv, Wait, Step, Dev
  <1>3. WorkInv'
    BY <1>0 DEF IInv, InIoctl, WorkInv, Created, Wait, Step
  <1>4. FdInv'
    BY <1>0 DEF IInv, TypeOK, FdInv, Fd, Wait, Step, Dev
  <1>5. JobInv'
    <2> DEFINE d == cfg[p][a].dev
    <2>1. /\ d \in Devices /\ UNCHANGED <<cfg, job>>
          /\ \A e \in Devices : e # d => left'[e] = left[e]
          /\ \A q \in Programs, b \in Accs : <<q, b>> # <<p, a>> => th'[<<q, b>>] = th[<<q, b>>]
      BY <1>0 DEF IInv, TypeOK, LibEspAssumption, Entry, Workers, Wait, Step, Dev
    <2>2. job[d] # <<p, a>> \/ left'[d]
      BY <1>0, <2>1 DEF IInv, TypeOK, Wait, Dev
    <2>3. left[d] => left'[d]
      BY <1>0, <2>1 DEF IInv, TypeOK, Wait, Dev
    <2>9. ASSUME NEW e \in Devices, job'[e] # NoJob, ~left'[e]
          PROVE  \E q \in Programs, b \in Accs :
                    job'[e] = <<q, b>> /\ th'[<<q, b>>] = "wait" /\ cfg'[q][b].dev = e
      <3>1. job[e] # NoJob /\ ~left[e] /\ job'[e] = job[e]
        BY <2>1, <2>3, <2>9
      <3>2. PICK q \in Programs, b \in Accs :
              job[e] = <<q, b>> /\ th[<<q, b>>] = "wait" /\ cfg[q][b].dev = e
        BY <3>1 DEF IInv, JobInv
      <3>3. <<q, b>> # <<p, a>>
        BY <3>1, <3>2, <2>2, <2>9 DEF IInv, JobInv
      <3>4. job'[e] = <<q, b>> /\ th'[<<q, b>>] = "wait" /\ cfg'[q][b].dev = e
        BY <3>1, <3>2, <3>3, <2>1
      <3> QED  BY <3>4
    <2> QED  BY <2>9 DEF JobInv
  <1> QED  BY <1>1, <1>2, <1>3, <1>4, <1>5 DEF IInv

\* WaitInterrupted keeps the invariant.
LEMMA WaitInterruptedKeeps ==
    ASSUME LibEspAssumption, IInv, NEW p \in Programs, NEW a \in Accs, WaitInterrupted(<<p, a>>)
    PROVE  IInv'
  <1>0. <<p, a>> \in Workers /\ <<p, a>>[1] = p /\ <<p, a>>[2] = a /\ p \in Programs /\ a \in Accs
    BY DEF Workers
  <1>1. TypeOK'
    BY <1>0 DEF IInv, TypeOK, MainLabels, InIoctl, Labels, NoConfig, WaitInterrupted, Step, Dev
  <1>2. BufferInv'
    BY <1>0 DEF IInv, TypeOK, BufferInv, WaitInterrupted, Step, Dev
  <1>3. WorkInv'
    BY <1>0 DEF IInv, InIoctl, WorkInv, Created, WaitInterrupted, Step
  <1>4. FdInv'
    BY <1>0 DEF IInv, TypeOK, FdInv, Fd, WaitInterrupted, Step, Dev
  <1>5. JobInv'
    <2> DEFINE d == cfg[p][a].dev
    <2>1. /\ d \in Devices /\ UNCHANGED <<cfg, job>>
          /\ \A e \in Devices : e # d => left'[e] = left[e]
          /\ \A q \in Programs, b \in Accs : <<q, b>> # <<p, a>> => th'[<<q, b>>] = th[<<q, b>>]
      BY <1>0 DEF IInv, TypeOK, LibEspAssumption, Entry, Workers, WaitInterrupted, Step, Dev
    <2>2. job[d] # <<p, a>> \/ left'[d]
      BY <1>0, <2>1 DEF IInv, TypeOK, WaitInterrupted, Dev
    <2>3. left[d] => left'[d]
      BY <1>0, <2>1 DEF IInv, TypeOK, WaitInterrupted, Dev
    <2>9. ASSUME NEW e \in Devices, job'[e] # NoJob, ~left'[e]
          PROVE  \E q \in Programs, b \in Accs :
                    job'[e] = <<q, b>> /\ th'[<<q, b>>] = "wait" /\ cfg'[q][b].dev = e
      <3>1. job[e] # NoJob /\ ~left[e] /\ job'[e] = job[e]
        BY <2>1, <2>3, <2>9
      <3>2. PICK q \in Programs, b \in Accs :
              job[e] = <<q, b>> /\ th[<<q, b>>] = "wait" /\ cfg[q][b].dev = e
        BY <3>1 DEF IInv, JobInv
      <3>3. <<q, b>> # <<p, a>>
        BY <3>1, <3>2, <2>2, <2>9 DEF IInv, JobInv
      <3>4. job'[e] = <<q, b>> /\ th'[<<q, b>>] = "wait" /\ cfg'[q][b].dev = e
        BY <3>1, <3>2, <3>3, <2>1
      <3> QED  BY <3>4
    <2> QED  BY <2>9 DEF JobInv
  <1> QED  BY <1>1, <1>2, <1>3, <1>4, <1>5 DEF IInv

\* UpdateInterrupted keeps the invariant.
LEMMA UpdateInterruptedKeeps ==
    ASSUME LibEspAssumption, IInv, NEW p \in Programs, NEW a \in Accs, UpdateInterrupted(<<p, a>>)
    PROVE  IInv'
  <1>0. <<p, a>> \in Workers /\ <<p, a>>[1] = p /\ <<p, a>>[2] = a /\ p \in Programs /\ a \in Accs
    BY DEF Workers
  <1>1. TypeOK'
    BY <1>0 DEF IInv, TypeOK, MainLabels, InIoctl, Labels, NoConfig, UpdateInterrupted,
       Step, Dev
  <1>2. BufferInv'
    BY <1>0 DEF IInv, TypeOK, BufferInv, UpdateInterrupted, Step, Dev
  <1>3. WorkInv'
    BY <1>0 DEF IInv, InIoctl, WorkInv, Created, UpdateInterrupted, Step
  <1>4. FdInv'
    BY <1>0 DEF IInv, TypeOK, FdInv, Fd, UpdateInterrupted, Step, Dev
  <1>5. JobInv'
    <2> DEFINE d == cfg[p][a].dev
    <2>1. /\ d \in Devices /\ UNCHANGED <<cfg, job>>
          /\ \A e \in Devices : e # d => left'[e] = left[e]
          /\ \A q \in Programs, b \in Accs : <<q, b>> # <<p, a>> => th'[<<q, b>>] = th[<<q, b>>]
      BY <1>0 DEF IInv, TypeOK, LibEspAssumption, Entry, Workers, UpdateInterrupted, Step, Dev
    <2>2. job[d] # <<p, a>> \/ left'[d]
      BY <1>0, <2>1 DEF IInv, TypeOK, UpdateInterrupted, Dev
    <2>3. left[d] => left'[d]
      BY <1>0, <2>1 DEF IInv, TypeOK, UpdateInterrupted, Dev
    <2>9. ASSUME NEW e \in Devices, job'[e] # NoJob, ~left'[e]
          PROVE  \E q \in Programs, b \in Accs :
                    job'[e] = <<q, b>> /\ th'[<<q, b>>] = "wait" /\ cfg'[q][b].dev = e
      <3>1. job[e] # NoJob /\ ~left[e] /\ job'[e] = job[e]
        BY <2>1, <2>3, <2>9
      <3>2. PICK q \in Programs, b \in Accs :
              job[e] = <<q, b>> /\ th[<<q, b>>] = "wait" /\ cfg[q][b].dev = e
        BY <3>1 DEF IInv, JobInv
      <3>3. <<q, b>> # <<p, a>>
        BY <3>1, <3>2, <2>2, <2>9 DEF IInv, JobInv
      <3>4. job'[e] = <<q, b>> /\ th'[<<q, b>>] = "wait" /\ cfg'[q][b].dev = e
        BY <3>1, <3>2, <3>3, <2>1
      <3> QED  BY <3>4
    <2> QED  BY <2>9 DEF JobInv
  <1> QED  BY <1>1, <1>2, <1>3, <1>4, <1>5 DEF IInv

\* NeverCalls keeps the invariant.
LEMMA NeverCallsKeeps ==
    ASSUME LibEspAssumption, IInv, NEW p \in Programs, NEW a \in Accs, NeverCalls(<<p, a>>)
    PROVE  IInv'
  <1>0. <<p, a>> \in Workers /\ <<p, a>>[1] = p /\ <<p, a>>[2] = a /\ p \in Programs /\ a \in Accs
    BY DEF Workers
  <1>1. TypeOK'
    BY <1>0 DEF IInv, TypeOK, MainLabels, InIoctl, Labels, NoConfig, NeverCalls, Step
  <1>2. BufferInv'
    BY <1>0 DEF IInv, TypeOK, BufferInv, NeverCalls, Step
  <1>3. WorkInv'
    BY <1>0 DEF IInv, TypeOK, MainLabels, InIoctl, Labels, WorkInv, Created, NeverCalls, Step
  <1>4. FdInv'
    BY <1>0 DEF IInv, TypeOK, FdInv, Fd, NeverCalls, Step
  <1>5. JobInv'
    <2>1. \A q \in Programs, b \in Accs : th[<<q, b>>] = "wait" => th'[<<q, b>>] = "wait"
      BY <1>0 DEF IInv, TypeOK, Workers, NeverCalls, Step
    <2> QED  BY <2>1, JobKept DEF NeverCalls
  <1> QED  BY <1>1, <1>2, <1>3, <1>4, <1>5 DEF IInv

\* Finish keeps the invariant.
LEMMA FinishKeeps ==
    ASSUME LibEspAssumption, IInv, NEW d \in Devices, Finish(d) PROVE IInv'
  <1>1. TypeOK'
    BY DEF IInv, TypeOK, NoConfig, Finish
  <1>2. BufferInv'
    BY DEF IInv, TypeOK, BufferInv, Finish
  <1>3. WorkInv'
    BY DEF IInv, TypeOK, WorkInv, Created, Finish
  <1>4. FdInv'
    BY DEF IInv, TypeOK, FdInv, Fd, Finish
  <1>5. JobInv'
    <2>1. ASSUME NEW e \in Devices, job'[e] # NoJob, ~left'[e]
          PROVE  \E p \in Programs, a \in Accs :
                    job'[e] = <<p, a>> /\ th'[<<p, a>>] = "wait" /\ cfg'[p][a].dev = e
      <3>1. job[e] # NoJob /\ ~left[e] /\ job'[e] = job[e]
        BY <2>1 DEF IInv, TypeOK, Finish
      <3>2. PICK p \in Programs, a \in Accs :
              job[e] = <<p, a>> /\ th[<<p, a>>] = "wait" /\ cfg[p][a].dev = e
        BY <3>1 DEF IInv, JobInv
      <3>3. job'[e] = <<p, a>> /\ th'[<<p, a>>] = "wait" /\ cfg'[p][a].dev = e
        BY <3>1, <3>2 DEF Finish
      <3> QED  BY <3>3
    <2> QED  BY <2>1 DEF JobInv
  <1> QED  BY <1>1, <1>2, <1>3, <1>4, <1>5 DEF IInv

\* The invariant holds before the first program starts.
LEMMA InitInv == ASSUME LibEspAssumption, Init PROVE IInv
  <1>1. NoConfig \in Configs
    BY DEF LibEspAssumption, NoConfig
  <1>2. TypeOK
    BY <1>1 DEF Init, TypeOK, MainLabels, Labels, Accs, LibEspAssumption
  <1>3. BufferInv /\ FdInv /\ JobInv
    BY DEF Init, BufferInv, FdInv, JobInv
  <1>4. WorkInv
    BY DEF Init, WorkInv, InIoctl, Workers
  <1> QED  BY <1>2, <1>3, <1>4 DEF IInv

\* Every step keeps the invariant.
LEMMA NextInv == ASSUME LibEspAssumption, IInv, [Next]_vars PROVE IInv'
  <1>1. ASSUME NEW p \in Programs, Main(p) \/ Kill(p) PROVE IInv'
    BY <1>1, esp_allocKeeps, esp_allocFailsKeeps, esp_runKeeps, esp_configKeeps,
       ConfigDiesKeeps, OpenKeeps, OpenDiesKeeps, CreateKeeps, CreateFailsKeeps, SkipKeeps,
       JoinKeeps, JoinCrashesKeeps, esp_cleanupKeeps, EndKeeps, ReapKeeps, KillKeeps
       DEF Main
  <1>2. ASSUME NEW w \in Workers, Ioctl(w) PROVE IInv'
    <2>1. PICK p \in Programs, a \in Accs : w = <<p, a>>
      BY DEF Workers
    <2>2. Ioctl(<<p, a>>)
      BY <1>2, <2>1
    <2> QED
      BY <2>2, LookupKeeps, RefusedKeeps, LockKeeps, LockInterruptedKeeps,
         SourceMissingKeeps, FlushKeeps,
         FlushInterruptedKeeps, TransferKeeps, WaitKeeps, WaitInterruptedKeeps,
         UpdateInterruptedKeeps, NeverCallsKeeps DEF Ioctl
  <1>3. ASSUME NEW d \in Devices, Finish(d) PROVE IInv'
    BY <1>3, FinishKeeps
  <1>4. CASE UNCHANGED vars
    <2>1. TypeOK' /\ BufferInv' /\ WorkInv' /\ FdInv'
      BY <1>4 DEF vars, IInv, TypeOK, BufferInv, WorkInv, Created, FdInv, Fd
    <2>2. JobInv'
      BY <1>4, JobKept DEF vars
    <2> QED  BY <2>1, <2>2 DEF IInv
  <1> QED  BY <1>1, <1>2, <1>3, <1>4 DEF Next

\* The invariant, for every number of programs, devices and entries.
THEOREM InvariantHolds == ASSUME LibEspAssumption PROVE Spec => []IInv
  <1>1. Init => IInv
    BY InitInv
  <1>2. IInv /\ [Next]_vars => IInv'
    BY NextInv
  <1> QED  BY <1>1, <1>2, PTL DEF Spec

\* The variables of the programs and of the kernel keep their types.
THEOREM TypeCorrect == ASSUME LibEspAssumption PROVE Spec => []TypeOK
  <1>1. IInv => TypeOK
    BY DEF IInv
  <1> QED  BY <1>1, InvariantHolds, PTL

\* No buffer is freed while an ioctl holds its descriptor, nor under an
\* accelerator, but for the run whose ioctl a fatal signal ended: that one goes
\* on over the freed buffer (contig_alloc.c:383, esp.c:234).
THEOREM BuffersLive == ASSUME LibEspAssumption PROVE Spec => []BufferLive
  <1>1. ASSUME IInv PROVE DescLive
    <2>1. ASSUME NEW p \in Programs, NEW a \in Accs, th[<<p, a>>] \in InIoctl PROVE contig[p]
      BY <1>1, <2>1 DEF IInv, WorkInv, Created
    <2> QED  BY <2>1 DEF DescLive, Workers, InIoctl
  <1>2. ASSUME IInv PROVE DmaLive
    <2>1. ASSUME NEW d \in Devices, job[d] # NoJob, ~left[d] PROVE contig[job[d][1]]
      <3>1. PICK p \in Programs, a \in Accs :
              job[d] = <<p, a>> /\ th[<<p, a>>] = "wait" /\ cfg[p][a].dev = d
        <4>1. JobInv
          BY <1>2 DEF IInv
        <4> QED  BY <4>1, <2>1 DEF JobInv
      <3>2. contig[p]
        BY <1>2, <3>1 DEF IInv, WorkInv, Created, InIoctl
      <3> QED  BY <3>1, <3>2
    <2> QED  BY <2>1 DEF DmaLive
  <1>3. IInv => BufferLive
    BY <1>1, <1>2 DEF BufferLive
  <1> QED  BY <1>3, InvariantHolds, PTL

\* When esp_run returns, none of its threads is in the kernel, and what it
\* leaves open are the devices of entries it did not run (libesp.c:159-202).
THEOREM RunsLeaveNothing == ASSUME LibEspAssumption PROVE Spec => []RunLeavesNothing
  <1>1. IInv => RunLeavesNothing
    BY DEF IInv, WorkInv, Created, FdInv, RunLeavesNothing, Working
  <1> QED  BY <1>1, InvariantHolds, PTL

=============================================================================
