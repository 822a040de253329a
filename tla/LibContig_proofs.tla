-------------------------- MODULE LibContig_proofs --------------------------
(***************************************************************************)
(* The race for the first open of libcontig, for any number of threads.    *)
(***************************************************************************)
EXTENDS LibContig, TLAPS

\* The mutex is held from publish to unlock.
LockInv ==
    \A t \in Threads : pc[t] \in {"publish", "chunk", "unlock", "giveup"} <=> lock = t

\* A descriptor still to be published or closed is open, and nobody else's.
LocalInv ==
    /\ \A t \in Racing : local_fd[t] \in files /\ local_fd[t] # 0 /\ local_fd[t] # fd
    /\ \A t, u \in Racing : local_fd[t] = local_fd[u] => t = u

\* From chunk on fd is known.
FdInv ==
    \A t \in Threads : pc[t] \notin {"idle", "open", "lock", "publish"} => fd # 0

\* The buffer a call has in hand; a call that opens the device frees nothing.
BufInv ==
    /\ \A t \in Threads : pc[t] \in {"mmap", "free"} <=> buf[t] # NoHandle
    /\ \A t \in Threads : buf[t] # NoHandle => buffers[buf[t]] = fd /\ buf[t] \notin held
    /\ \A t, u \in Threads : t # u /\ buf[t] # NoHandle => buf[t] # buf[u]

\* A buffer the program holds is one of the open descriptor.
HeldInv == \A b \in held : buffers[b] = fd /\ fd # 0

\* A buffer of the kernel is held, lost or in the hands of a call.
KnownInv ==
    \A b \in Handles : buffers[b] # 0 =>
        b \in held \cup lost \/ \E t \in Threads : buf[t] = b

\* The inductive invariant.
IInv ==
    /\ TypeOK /\ OneDescriptor /\ BuffersReachable /\ NoAbort
    /\ LockInv /\ LocalInv /\ FdInv /\ BufInv /\ HeldInv /\ KnownInv

\* The first call finds nothing open.
LEMMA InitInv == ASSUME LibAssumption PROVE Init => IInv
  BY DEF LibAssumption, Init, IInv, TypeOK, Labels, OneDescriptor, Racing,
         BuffersReachable, NoAbort, LockInv, LocalInv, FdInv, BufInv, HeldInv, KnownInv

\* Every step of every call keeps the invariant.
LEMMA NextInv == ASSUME LibAssumption, IInv, [Next]_vars PROVE IInv'
  <1> USE DEF LibAssumption, IInv, TypeOK, Labels, OneDescriptor, Racing,
              BuffersReachable, NoAbort, LockInv, LocalInv, FdInv, BufInv, HeldInv, KnownInv,
              process, kernel, At, Goto, Return
  <1>0. CASE UNCHANGED vars
    BY <1>0 DEF vars
  <1>a. ASSUME NEW t \in Threads, AllocCall(t) PROVE IInv'
    BY <1>a DEF AllocCall
  <1>b. ASSUME NEW t \in Threads, FreeCall(t) PROVE IInv'
    BY <1>b DEF FreeCall
  <1>c. ASSUME NEW t \in Threads, Open(t) PROVE IInv'
    BY <1>c DEF Open
  <1>d. ASSUME NEW t \in Threads, OpenFails(t) PROVE IInv'
    BY <1>d DEF OpenFails, InitFails, Body
  <1>e. ASSUME NEW t \in Threads, Lock(t) PROVE IInv'
    BY <1>e DEF Lock
  <1>f. ASSUME NEW t \in Threads, Publish(t) PROVE IInv'
    BY <1>f DEF Publish
  <1>f2. ASSUME NEW t \in Threads, CloseFails(t) PROVE IInv'
    BY <1>f2 DEF CloseFails
  <1>g. ASSUME NEW t \in Threads, ReadChunk(t) PROVE IInv'
    BY <1>g DEF ReadChunk
  <1>g2. ASSUME NEW t \in Threads, ReadChunkFails(t) PROVE IInv'
    BY <1>g2 DEF ReadChunkFails
  <1>g3. ASSUME NEW t \in Threads, GiveUp(t) PROVE IInv'
    BY <1>g3 DEF GiveUp, InitFails, Body
  <1>h. ASSUME NEW t \in Threads, Unlock(t) PROVE IInv'
    BY <1>h DEF Unlock, Body
  <1>i. ASSUME NEW t \in Threads, Size(t) PROVE IInv'
    BY <1>i DEF Size
  <1>j. ASSUME NEW t \in Threads, DivideByZero(t) PROVE IInv'
    BY <1>j DEF DivideByZero
  <1>k. ASSUME NEW t \in Threads, CallocFails(t) PROVE IInv'
    BY <1>k DEF CallocFails
  <1>l. ASSUME NEW t \in Threads, Alloc(t) PROVE IInv'
    BY <1>l DEF Alloc
  <1>m. ASSUME NEW t \in Threads, AllocFails(t) PROVE IInv'
    BY <1>m DEF AllocFails
  <1>n. ASSUME NEW t \in Threads, Mmap(t) PROVE IInv'
    BY <1>n DEF Mmap
  <1>o. ASSUME NEW t \in Threads, MmapFailed(t) PROVE IInv'
    BY <1>o DEF MmapFailed
  <1>p. ASSUME NEW t \in Threads, Free(t) PROVE IInv'
    BY <1>p DEF Free
  <1> QED
    BY <1>0, <1>a, <1>b, <1>c, <1>d, <1>e, <1>f, <1>f2, <1>g, <1>g2, <1>g3, <1>h,
       <1>i, <1>j, <1>k, <1>l, <1>m, <1>n, <1>o, <1>p DEF Next, InCall

\* The invariant holds in every state, for any number of threads, descriptors
\* and handles.
THEOREM LibInvariant == ASSUME LibAssumption PROVE Spec => []IInv
  <1>1. Init => IInv
    BY InitInv
  <1>2. IInv /\ [Next]_vars => IInv'
    BY NextInv
  <1> QED  BY <1>1, <1>2, PTL DEF Spec

\* However many threads race in contig_init, one descriptor stays open and
\* every other is closed by the thread that opened it.
THEOREM OneDescriptorOpen == ASSUME LibAssumption PROVE Spec => []OneDescriptor
  <1>1. IInv => OneDescriptor
    BY DEF IInv
  <1> QED  BY <1>1, LibInvariant, PTL

\* Every buffer was allocated on the descriptor it will be freed through.
THEOREM BuffersKnown == ASSUME LibAssumption PROVE Spec => []BuffersReachable
  <1>1. IInv => BuffersReachable
    BY DEF IInv
  <1> QED  BY <1>1, LibInvariant, PTL

\* contig_free never aborts the process on a handle that contig_alloc gave out.
THEOREM FreeNeverAborts == ASSUME LibAssumption PROVE Spec => []NoAbort
  <1>1. IInv => NoAbort
    BY DEF IInv
  <1> QED  BY <1>1, LibInvariant, PTL

\* No handle is lost but by an mmap that failed, and none is with two calls, or
\* with a call and with user space.
THEOREM HandlesKnown == ASSUME LibAssumption PROVE Spec => []HandlesTracked
  <1>1. IInv => HandlesTracked
    <2> SUFFICES ASSUME IInv PROVE HandlesTracked
      OBVIOUS
    <2> USE DEF IInv, TypeOK, BufInv, HeldInv, KnownInv
    <2>1. \A t \in Threads : InHand(t) => buf[t] # NoHandle
      BY DEF InHand
    <2> QED  BY <2>1 DEF HandlesTracked
  <1> QED  BY <1>1, LibInvariant, PTL
=============================================================================
