----------------------------- MODULE LibContig -----------------------------
(***************************************************************************)
(* libcontig, src/drivers/contig_alloc/lib.c: the threads of one process   *)
(* allocate and free buffers through one descriptor of the allocator's     *)
(* device, which the first call opens.  Calls race for that first open: fd *)
(* is published before chunk_size is known, and the fast path of           *)
(* contig_init looks at fd alone.                                          *)
(*                                                                         *)
(* The kernel is seen through its system calls.  A buffer is its kernel    *)
(* handle, which stands for the request that user space keeps about it;    *)
(* contig_alloc and contig_alloc_policy differ in the policy alone.  A     *)
(* handle is freed at most once: two frees of one buffer are the caller's  *)
(* mistake, not the library's.                                             *)
(***************************************************************************)
EXTENDS Naturals

CONSTANTS
    Threads,   \* threads of the process
    Fds,       \* descriptors open() may return
    Handles,   \* kernel handles of buffers
    NoThread, NoHandle

\* Descriptor 0, which stands for "not open yet", is taken by standard input.
ASSUME LibAssumption ==
    /\ Fds \subseteq Nat \ {0}
    /\ NoThread \notin Threads /\ NoHandle \notin Handles

VARIABLES
    fd, lock,        \* the globals of the library
    chunk_known,     \* chunk_size is set
    files,           \* kernel: descriptors of the device that are open
    buffers,         \* kernel: the descriptor each buffer was allocated on
    held,            \* handles user space has and may free
    pc, local_fd,    \* per thread: where it is, the local of contig_init
    buf,             \* per thread: the buffer it allocates or frees
    lost,            \* history: buffers whose mmap failed
    died             \* how the process ended: no, division, abort

process == <<fd, lock, chunk_known>>
kernel == <<files, buffers>>
vars == <<process, kernel, held, pc, local_fd, buf, lost, died>>

Labels == {"idle", "open", "lock", "publish", "chunk", "unlock", "giveup",
           "size", "ioctl", "mmap", "free"}

Init ==
    /\ fd = 0 /\ lock = NoThread /\ chunk_known = FALSE
    /\ files = {} /\ buffers = [b \in Handles |-> 0]
    /\ held = {} /\ lost = {}
    /\ pc = [t \in Threads |-> "idle"]
    /\ local_fd = [t \in Threads |-> 0]
    /\ buf = [t \in Threads |-> NoHandle]
    /\ died = "no"

-----------------------------------------------------------------------------
Goto(t, label) == pc' = [pc EXCEPT ![t] = label]
At(t, label) == pc[t] = label /\ died = "no"

\* What a call does once contig_init has returned 0.
Body(t) == IF buf[t] = NoHandle THEN "size" ELSE "free"

Return(t) ==
    /\ Goto(t, "idle")
    /\ buf' = [buf EXCEPT ![t] = NoHandle]

\* contig_alloc or contig_alloc_policy is called; contig_init looks at fd.
AllocCall(t) ==
    /\ At(t, "idle")
    /\ Goto(t, IF fd # 0 THEN "size" ELSE "open")
    /\ UNCHANGED <<process, kernel, held, local_fd, buf, lost, died>>

\* contig_free is called on a handle.
FreeCall(t) ==
    /\ At(t, "idle")
    /\ \E b \in held : /\ held' = held \ {b}
                       /\ buf' = [buf EXCEPT ![t] = b]
    /\ Goto(t, IF fd # 0 THEN "free" ELSE "open")
    /\ UNCHANGED <<process, kernel, local_fd, lost, died>>

-----------------------------------------------------------------------------
(* contig_init                                                             *)

Open(t) ==
    /\ At(t, "open")
    /\ \E f \in Fds \ files :
         /\ files' = files \cup {f}
         /\ local_fd' = [local_fd EXCEPT ![t] = f]
    /\ Goto(t, "lock")
    /\ UNCHANGED <<process, buffers, held, buf, lost, died>>

\* When contig_init fails contig_alloc returns NULL and contig_free aborts.
InitFails(t) ==
    /\ died' = IF Body(t) = "free" THEN "abort" ELSE died
    /\ Return(t)

OpenFails(t) ==
    /\ At(t, "open")
    /\ InitFails(t)
    /\ UNCHANGED <<process, kernel, held, local_fd, lost>>

Lock(t) ==
    /\ At(t, "lock")
    /\ lock = NoThread
    /\ lock' = t
    /\ Goto(t, "publish")
    /\ UNCHANGED <<fd, chunk_known, kernel, held, local_fd, buf, lost, died>>

\* Mutant: fd is not looked at again under the lock.
Publish_blindly(t) ==
    /\ At(t, "publish")
    /\ fd' = local_fd[t]
    /\ local_fd' = [local_fd EXCEPT ![t] = 0]
    /\ Goto(t, "chunk")
    /\ UNCHANGED <<lock, chunk_known, kernel, held, buf, lost, died>>

\* Mutant: the thread that comes second keeps its descriptor open.
Publish_keep(t) ==
    /\ At(t, "publish")
    /\ fd' = IF fd # 0 THEN fd ELSE local_fd[t]
    /\ local_fd' = [local_fd EXCEPT ![t] = 0]
    /\ Goto(t, "chunk")
    /\ UNCHANGED <<lock, chunk_known, kernel, held, buf, lost, died>>

\* Only the first thread to come here assigns fd; the others close theirs.
Publish(t) ==
    /\ At(t, "publish")
    /\ IF fd # 0 THEN files' = files \ {local_fd[t]} /\ UNCHANGED fd
                 ELSE fd' = local_fd[t] /\ UNCHANGED files
    /\ local_fd' = [local_fd EXCEPT ![t] = 0]
    /\ Goto(t, "chunk")
    /\ UNCHANGED <<lock, chunk_known, buffers, held, buf, lost, died>>

\* close() reports an error; the descriptor is gone all the same.
CloseFails(t) ==
    /\ At(t, "publish")
    /\ fd # 0
    /\ files' = files \ {local_fd[t]}
    /\ local_fd' = [local_fd EXCEPT ![t] = 0]
    /\ Goto(t, "giveup")
    /\ UNCHANGED <<process, buffers, held, buf, lost, died>>

\* CONTIG_IOC_CHUNK_LOG and the shift.
ReadChunk(t) ==
    /\ At(t, "chunk")
    /\ chunk_known' = TRUE
    /\ Goto(t, "unlock")
    /\ UNCHANGED <<fd, lock, kernel, held, local_fd, buf, lost, died>>

\* The ioctl fails; fd stays published.
ReadChunkFails(t) ==
    /\ At(t, "chunk")
    /\ Goto(t, "giveup")
    /\ UNCHANGED <<process, kernel, held, local_fd, buf, lost, died>>

GiveUp(t) ==
    /\ At(t, "giveup")
    /\ lock' = NoThread
    /\ InitFails(t)
    /\ UNCHANGED <<fd, chunk_known, kernel, held, local_fd, lost>>

\* Mutant: returns without giving the mutex back.
Unlock_not(t) ==
    /\ At(t, "unlock")
    /\ Goto(t, Body(t))
    /\ UNCHANGED <<process, kernel, held, local_fd, buf, lost, died>>

Unlock(t) ==
    /\ At(t, "unlock")
    /\ lock' = NoThread
    /\ Goto(t, Body(t))
    /\ UNCHANGED <<fd, chunk_known, kernel, held, local_fd, buf, lost, died>>

-----------------------------------------------------------------------------
(* contig_alloc and contig_free                                            *)

\* DIV_ROUND_UP(size, chunk_size), and the calloc of that many entries.
Size(t) ==
    /\ At(t, "size")
    /\ chunk_known
    /\ Goto(t, "ioctl")
    /\ UNCHANGED <<process, kernel, held, local_fd, buf, lost, died>>

\* With chunk_size still 0 the division traps, or gives all ones, a size that
\* calloc refuses.
DivideByZero(t) ==
    /\ At(t, "size")
    /\ ~chunk_known
    /\ died' \in {"division", "no"}
    /\ Return(t)
    /\ UNCHANGED <<process, kernel, held, local_fd, lost>>

CallocFails(t) ==
    /\ At(t, "size")
    /\ chunk_known
    /\ Return(t)
    /\ UNCHANGED <<process, kernel, held, local_fd, lost, died>>

Alloc(t) ==
    /\ At(t, "ioctl")
    /\ \E b \in Handles :
         /\ buffers[b] = 0
         /\ buffers' = [buffers EXCEPT ![b] = fd]
         /\ buf' = [buf EXCEPT ![t] = b]
    /\ Goto(t, "mmap")
    /\ UNCHANGED <<process, files, held, local_fd, lost, died>>

AllocFails(t) ==
    /\ At(t, "ioctl")
    /\ Return(t)
    /\ UNCHANGED <<process, kernel, held, local_fd, lost, died>>

\* Mutant: the handle is not stored.
Mmap_drop(t) ==
    /\ At(t, "mmap")
    /\ Return(t)
    /\ UNCHANGED <<process, kernel, held, local_fd, lost, died>>

Mmap(t) ==
    /\ At(t, "mmap")
    /\ held' = held \cup {buf[t]}
    /\ Return(t)
    /\ UNCHANGED <<process, kernel, local_fd, lost, died>>

\* The request is freed, the buffer in the kernel is not.
MmapFailed(t) ==
    /\ At(t, "mmap")
    /\ lost' = lost \cup {buf[t]}
    /\ Return(t)
    /\ UNCHANGED <<process, kernel, held, local_fd, died>>

\* CONTIG_IOC_FREE finds the buffers of its own descriptor; otherwise abort().
Free(t) ==
    /\ At(t, "free")
    /\ IF buffers[buf[t]] = fd
       THEN buffers' = [buffers EXCEPT ![buf[t]] = 0] /\ UNCHANGED died
       ELSE died' = "abort" /\ UNCHANGED buffers
    /\ Return(t)
    /\ UNCHANGED <<process, files, held, local_fd, lost>>

-----------------------------------------------------------------------------
InCall(t) ==
    \/ Open(t) \/ OpenFails(t) \/ Lock(t) \/ Publish(t) \/ CloseFails(t)
    \/ ReadChunk(t) \/ ReadChunkFails(t) \/ Unlock(t) \/ GiveUp(t)
    \/ Size(t) \/ DivideByZero(t) \/ CallocFails(t) \/ Alloc(t) \/ AllocFails(t)
    \/ Mmap(t) \/ MmapFailed(t) \/ Free(t)

Next == \E t \in Threads : AllocCall(t) \/ FreeCall(t) \/ InCall(t)

Spec == Init /\ [][Next]_vars

\* The scheduler runs every thread, and the mutex goes to each of its waiters.
Fairness == \A t \in Threads : WF_vars(InCall(t)) /\ SF_vars(Lock(t))
FairSpec == Spec /\ Fairness

-----------------------------------------------------------------------------
(* Properties                                                              *)

\* The variables have their types.
TypeOK ==
    /\ fd \in Fds \cup {0}
    /\ lock \in Threads \cup {NoThread}
    /\ chunk_known \in BOOLEAN
    /\ files \subseteq Fds
    /\ buffers \in [Handles -> Fds \cup {0}]
    /\ held \subseteq Handles /\ lost \subseteq Handles
    /\ pc \in [Threads -> Labels]
    /\ local_fd \in [Threads -> Fds \cup {0}]
    /\ buf \in [Threads -> Handles \cup {NoHandle}]
    /\ died \in {"no", "division", "abort"}

\* However many threads race for the first open, one descriptor stays open:
\* the others are closed or about to be.
Racing == {t \in Threads : pc[t] \in {"lock", "publish"}}
OneDescriptor ==
    /\ files = ({fd} \ {0}) \cup {local_fd[t] : t \in Racing}
    /\ fd # 0 => fd \in files /\ \A t \in Racing : local_fd[t] # fd

\* Every buffer of the process was allocated on the descriptor through which it
\* will be freed, so that the kernel knows it there.
BuffersReachable == \A b \in Handles : buffers[b] \in {0, fd}

\* contig_free never aborts on a handle that contig_alloc gave out: once there
\* is a handle fd is set, and the kernel knows the buffer under it.
NoAbort == died # "abort"

\* A handle is in one place: with user space or in one call, and a buffer of
\* the kernel has one unless its mmap failed.
InHand(t) == pc[t] = "mmap" \/ buf[t] # NoHandle
HandlesTracked ==
    died = "no" =>
        /\ \A t \in Threads : InHand(t) => buf[t] \notin held
        /\ \A t, u \in Threads : t # u /\ InHand(t) /\ InHand(u) => buf[t] # buf[u]
        /\ \A b \in held : buffers[b] # 0
        /\ \A b \in Handles : buffers[b] # 0 =>
             b \in held \cup lost \/ \E t \in Threads : buf[t] = b

\* Every call returns, or the process is gone.
CallsFinish == \A t \in Threads : pc[t] # "idle" ~> (pc[t] = "idle" \/ died # "no")

=============================================================================
