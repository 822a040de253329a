------------------------------ MODULE LibEsp ------------------------------
(***************************************************************************)
(* Programs that run accelerators through libesp, src/drivers/libesp/, on  *)
(* top of the two kernel drivers: esp_run opens one device per entry of a  *)
(* configuration, starts one thread each, joins them and closes the        *)
(* devices.  A thread is one access ioctl, whose steps are those that      *)
(* matter to the life of the buffer: contig_khandle_to_desc answers with a *)
(* descriptor and takes no reference, the device is locked, the caches are *)
(* flushed, the accelerator gets the buffer and runs.                      *)
(*                                                                         *)
(* A program may be killed at any time.  Its threads leave the ioctls they *)
(* are in, then its files are closed, and the last close of the allocator  *)
(* frees what it had.                                                      *)
(***************************************************************************)
EXTENDS Integers, FiniteSets

CONSTANTS
    Programs,     \* processes linked with libesp
    Devices,      \* accelerators
    nacc,         \* entries of a configuration
    Configs,      \* the configurations a program may pass to esp_run
    Fails,        \* whether the allocation, open, pthread_create, and an access
                  \*   may fail
    MaxRuns,      \* bound, per program: calls of esp_run
    NoJob

\* The part of esp_thread_info_t that steers libesp: is the entry to run, is
\* its type one that libesp supports, which device its name opens, and are the
\* P2P sources of its access registered.
Entry == [run : BOOLEAN, known : BOOLEAN, dev : Devices, found : BOOLEAN]

Accs == 1 .. nacc
Workers == Programs \X Accs        \* thread[i] of a program

ASSUME LibEspAssumption ==
    /\ nacc \in Nat \ {0} /\ MaxRuns \in [Programs -> Nat]
    /\ Configs \subseteq [Accs -> Entry] /\ Configs # {}
    /\ Fails \in BOOLEAN
    /\ NoJob \notin Workers

VARIABLES
    pc, i,        \* main thread: where it is, its loop index
    cfg,          \* the configuration of the present or last esp_run
    runs,         \* calls of esp_run so far
    contig,       \* whether the program's buffer is allocated
    fds,          \* open descriptors: the call of esp_run, the entry and
                  \*   whether the entry runs
    th,           \* per worker: where its ioctl is
    lock,         \* per device: whether esp->lock is held
    job,          \* per device: the worker it runs for; its completion is
                  \*   done when there is none
    left          \* per device: the worker's ioctl left before the end

main == <<pc, i, cfg, runs>>
device == <<lock, job, left>>
vars == <<main, contig, fds, th, device>>

MainLabels == {"start", "ready", "config", "open", "create", "join", "ran",
               "cleaned", "dying", "dead"}
InIoctl == {"lookup", "lock", "flush", "transfer", "wait"}
Labels == InIoctl \cup {"none", "done"}

NoConfig == CHOOSE c \in Configs : TRUE

Init ==
    /\ pc = [p \in Programs |-> "start"]
    /\ i = [p \in Programs |-> 1]
    /\ cfg = [p \in Programs |-> NoConfig]
    /\ runs = [p \in Programs |-> 0]
    /\ contig = [p \in Programs |-> FALSE]
    /\ fds = [p \in Programs |-> {}]
    /\ th = [w \in Workers |-> "none"]
    /\ lock = [d \in Devices |-> FALSE]
    /\ job = [d \in Devices |-> NoJob]
    /\ left = [d \in Devices |-> FALSE]

Here(p) == cfg[p][i[p]]
Fd(p, a) == <<runs[p], a, cfg[p][a].run>>
Dev(w) == cfg[w[1]][w[2]].dev
Goto(p, label) == pc' = [pc EXCEPT ![p] = label]
Step(w, label) == th' = [th EXCEPT ![w] = label]
Working(p) == \E a \in Accs : th[<<p, a>>] \in InIoctl

\* Mutant: one entry too many.
Loop_past(p, label) ==
    IF i[p] <= nacc
    THEN i' = [i EXCEPT ![p] = @ + 1] /\ UNCHANGED pc
    ELSE i' = [i EXCEPT ![p] = 1] /\ Goto(p, label)

\* The end of a loop over the entries takes the program to label.
Loop(p, label) ==
    IF i[p] < nacc
    THEN i' = [i EXCEPT ![p] = @ + 1] /\ UNCHANGED pc
    ELSE i' = [i EXCEPT ![p] = 1] /\ Goto(p, label)

\* exit(): the memory of the program is gone, its files are closed, and
\* contig_release frees the buffer.
Exit(p) ==
    /\ Goto(p, "dead")
    /\ i' = [i EXCEPT ![p] = 1]
    /\ cfg' = [cfg EXCEPT ![p] = NoConfig]
    /\ runs' = [runs EXCEPT ![p] = 0]
    /\ th' = [w \in Workers |-> IF w[1] = p THEN "none" ELSE th[w]]
    /\ contig' = [contig EXCEPT ![p] = FALSE]
    /\ fds' = [fds EXCEPT ![p] = {}]
    /\ UNCHANGED device

-----------------------------------------------------------------------------
(* The main thread                                                         *)

esp_alloc(p) ==
    /\ pc[p] = "start"
    /\ Goto(p, "ready")
    /\ contig' = [contig EXCEPT ![p] = TRUE]
    /\ UNCHANGED <<i, cfg, runs, fds, th, device>>

\* contig_alloc has no buffer to give. The program writes to it all the same, or
\* contig_to_khandle asserts that there is one.
esp_allocFails(p) ==
    /\ pc[p] = "start"
    /\ Fails
    /\ Goto(p, "dying")
    /\ UNCHANGED <<i, cfg, runs, contig, fds, th, device>>

\* esp_run is called, for the first time or again.
esp_run(p) ==
    /\ pc[p] \in {"ready", "ran"}
    /\ runs[p] < MaxRuns[p]
    /\ \E c \in Configs : cfg' = [cfg EXCEPT ![p] = c]
    /\ runs' = [runs EXCEPT ![p] = @ + 1]
    /\ th' = [w \in Workers |-> IF w[1] = p THEN "none" ELSE th[w]]
    /\ Goto(p, "config")
    /\ UNCHANGED <<i, contig, fds, device>>

\* esp_config: every entry that runs gets the handle, or the program dies.
esp_config(p) ==
    /\ pc[p] = "config"
    /\ \A a \in Accs : cfg[p][a].run => cfg[p][a].known
    /\ Goto(p, "open")
    /\ UNCHANGED <<i, cfg, runs, contig, fds, th, device>>

ConfigDies(p) ==
    /\ pc[p] = "config"
    /\ \E a \in Accs : cfg[p][a].run /\ ~cfg[p][a].known
    /\ Exit(p)

\* The devices of all entries are opened, also of those that do not run; the
\* loop meets nobody else, and is one step.
Open(p) ==
    /\ pc[p] = "open"
    /\ fds' = [fds EXCEPT ![p] = @ \cup {Fd(p, a) : a \in Accs}]
    /\ Goto(p, "create")
    /\ UNCHANGED <<i, cfg, runs, contig, th, device>>

\* A name too long, or no such device: contig_free, then die.
OpenDies(p) ==
    /\ pc[p] = "open"
    /\ Fails
    /\ Exit(p)

Create(p) ==
    /\ pc[p] = "create"
    /\ Here(p).run
    /\ Step(<<p, i[p]>>, "lookup")
    /\ Loop(p, "join")
    /\ UNCHANGED <<cfg, runs, contig, fds, device>>

\* pthread_create fails: perror, and on with the next.
CreateFails(p) ==
    /\ pc[p] = "create"
    /\ Here(p).run
    /\ Fails
    /\ Loop(p, "join")
    /\ UNCHANGED <<cfg, runs, contig, fds, th, device>>

Skip(p) ==
    /\ pc[p] \in {"create", "join"}
    /\ ~Here(p).run
    /\ Loop(p, IF pc[p] = "create" THEN "join" ELSE "ran")
    /\ UNCHANGED <<cfg, runs, contig, fds, th, device>>

\* Mutant: the descriptor stays open.
Join_open(p) ==
    /\ pc[p] = "join"
    /\ Here(p).run
    /\ th[<<p, i[p]>>] \in {"none", "done"}
    /\ Loop(p, "ran")
    /\ UNCHANGED <<cfg, runs, contig, fds, th, device>>

\* pthread_join returns when the thread has ended, or with an error if it was
\* never created; then the device is closed.
Join(p) ==
    /\ pc[p] = "join"
    /\ Here(p).run
    /\ th[<<p, i[p]>>] \in {"none", "done"}
    /\ fds' = [fds EXCEPT ![p] = @ \ {Fd(p, i[p])}]
    /\ Loop(p, "ran")
    /\ UNCHANGED <<cfg, runs, contig, th, device>>

\* thread[i] of a thread that was not created is what malloc left there: the
\* join may crash the program as well.
JoinCrashes(p) ==
    /\ pc[p] = "join"
    /\ Here(p).run
    /\ th[<<p, i[p]>>] = "none"
    /\ Goto(p, "dying")
    /\ UNCHANGED <<i, cfg, runs, contig, fds, th, device>>

\* contig_free
esp_cleanup(p) ==
    /\ pc[p] = "ran"
    /\ contig' = [contig EXCEPT ![p] = FALSE]
    /\ Goto(p, "cleaned")
    /\ UNCHANGED <<i, cfg, runs, fds, th, device>>

End(p) == pc[p] = "cleaned" /\ Exit(p)

\* A fatal signal; a program that has ended leaves it without effect.
Kill(p) ==
    /\ pc[p] \notin {"dying", "dead"}
    /\ Goto(p, "dying")
    /\ UNCHANGED <<i, cfg, runs, contig, fds, th, device>>

\* Mutant: the files are closed while threads are still in the kernel.
Reap_early(p) == pc[p] = "dying" /\ Exit(p)

\* The last thread closes the files.
Reap(p) ==
    /\ pc[p] = "dying"
    /\ ~Working(p)
    /\ Exit(p)

-----------------------------------------------------------------------------
(* accelerator_thread: one access ioctl                                    *)

\* contig_khandle_to_desc: -EFAULT when the buffer is gone.
Lookup(w) ==
    /\ th[w] = "lookup"
    /\ Step(w, IF contig[w[1]] THEN "lock" ELSE "done")
    /\ UNCHANGED <<main, contig, fds, device>>

\* The arguments cannot be read, or are refused: -ENOMEM, -EFAULT, -EINVAL.
Refused(w) ==
    /\ th[w] = "lookup"
    /\ Fails
    /\ Step(w, "done")
    /\ UNCHANGED <<main, contig, fds, device>>

Lock(w) ==
    /\ th[w] = "lock"
    /\ ~lock[Dev(w)]
    /\ lock' = [lock EXCEPT ![Dev(w)] = TRUE]
    /\ Step(w, "flush")
    /\ UNCHANGED <<main, contig, fds, job, left>>

LockInterrupted(w) ==
    /\ th[w] = "lock"
    /\ pc[w[1]] = "dying"
    /\ lock[Dev(w)]
    /\ Step(w, "done")
    /\ UNCHANGED <<main, contig, fds, device>>

\* esp_p2p_init finds no device for a source: -ENODEV, with esp->lock kept.
SourceMissing(w) ==
    /\ th[w] = "flush"
    /\ ~cfg[w[1]][w[2]].found
    /\ Step(w, "done")
    /\ UNCHANGED <<main, contig, fds, device>>

\* esp_runtime_config and esp_flush. That flushes end is module EspCaches' to
\* show: the private caches are waited for without regard to signals.
Flush(w) ==
    /\ th[w] = "flush"
    /\ cfg[w[1]][w[2]].found
    /\ Step(w, "transfer")
    /\ UNCHANGED <<main, contig, fds, device>>

\* Others who may hold esp_status.lock, or flush a bank
InTheWay(w) == \E v \in Workers \ {w} : th[v] \in {"flush", "wait"}

\* Waiting for esp_status.lock, or for a bank that another thread flushes:
\* -EINTR, with esp->lock kept.
FlushInterrupted(w) ==
    /\ th[w] = "flush"
    /\ pc[w[1]] = "dying"
    /\ cfg[w[1]][w[2]].found /\ InTheWay(w)
    /\ Step(w, "done")
    /\ UNCHANGED <<main, contig, fds, device>>

\* esp_transfer and esp_run: a busy accelerator does not take the start bit.
Transfer(w) ==
    LET d == Dev(w)
        start == job[d] = NoJob
    IN  /\ th[w] = "transfer"
        /\ job' = [job EXCEPT ![d] = IF start THEN w ELSE @]
        /\ left' = [left EXCEPT ![d] = @ /\ ~start]
        /\ Step(w, "wait")
        /\ UNCHANGED <<main, contig, fds, lock>>

\* esp_wait, esp_update_status and the end of the ioctl.
Wait(w) ==
    /\ th[w] = "wait"
    /\ job[Dev(w)] = NoJob
    /\ lock' = [lock EXCEPT ![Dev(w)] = FALSE]
    /\ Step(w, "done")
    /\ UNCHANGED <<main, contig, fds, job, left>>

\* Mutant: a killed program waits for its accelerator.
WaitInterrupted_not(w) ==
    /\ th[w] = "wait"
    /\ pc[w[1]] = "dying"
    /\ job[Dev(w)] = NoJob
    /\ lock' = [lock EXCEPT ![Dev(w)] = FALSE]
    /\ Step(w, "done")
    /\ UNCHANGED <<main, contig, fds, job, left>>

\* The accelerator goes on with a buffer nobody waits for.
WaitInterrupted(w) ==
    /\ th[w] = "wait"
    /\ pc[w[1]] = "dying"
    /\ job[Dev(w)] # NoJob
    /\ lock' = [lock EXCEPT ![Dev(w)] = FALSE]
    /\ left' = [left EXCEPT ![Dev(w)] = @ \/ job[Dev(w)] = w]
    /\ Step(w, "done")
    /\ UNCHANGED <<main, contig, fds, job>>

\* As Wait or WaitInterrupted, until it waits for esp_status.lock: -EINTR, with
\* esp->lock kept.
UpdateInterrupted(w) ==
    /\ th[w] = "wait"
    /\ pc[w[1]] = "dying"
    /\ InTheWay(w)
    /\ left' = [left EXCEPT ![Dev(w)] = @ \/ job[Dev(w)] = w]
    /\ Step(w, "done")
    /\ UNCHANGED <<main, contig, fds, lock, job>>

\* A killed thread does not enter its ioctl.
NeverCalls(w) ==
    /\ th[w] = "lookup"
    /\ pc[w[1]] = "dying"
    /\ Step(w, "done")
    /\ UNCHANGED <<main, contig, fds, device>>

\* The accelerator ends, and its interrupt completes the wait.
Finish(d) ==
    /\ job[d] # NoJob
    /\ job' = [job EXCEPT ![d] = NoJob]
    /\ left' = [left EXCEPT ![d] = FALSE]
    /\ UNCHANGED <<main, contig, fds, th, lock>>

Main(p) ==
    \/ esp_alloc(p) \/ esp_allocFails(p) \/ esp_run(p) \/ esp_config(p)
    \/ ConfigDies(p) \/ Open(p) \/ OpenDies(p) \/ Create(p) \/ CreateFails(p)
    \/ Skip(p) \/ Join(p) \/ JoinCrashes(p) \/ esp_cleanup(p) \/ End(p) \/ Reap(p)

Ioctl(w) ==
    \/ Lookup(w) \/ Refused(w) \/ Lock(w) \/ LockInterrupted(w)
    \/ SourceMissing(w) \/ Flush(w) \/ FlushInterrupted(w) \/ Transfer(w)
    \/ Wait(w) \/ WaitInterrupted(w) \/ UpdateInterrupted(w) \/ NeverCalls(w)

Next ==
    \/ \E p \in Programs : Main(p) \/ Kill(p)
    \/ \E w \in Workers : Ioctl(w)
    \/ \E d \in Devices : Finish(d)

\* Threads run; nothing is assumed of the accelerators.
Fairness ==
    /\ \A p \in Programs : WF_vars(Main(p))
    /\ \A w \in Workers : WF_vars(Ioctl(w))

Spec == Init /\ [][Next]_vars
FairSpec == Spec /\ Fairness

-----------------------------------------------------------------------------
(* Properties                                                              *)

\* The values the variables range over.
TypeOK ==
    /\ pc \in [Programs -> MainLabels] /\ i \in [Programs -> Accs]
    /\ cfg \in [Programs -> Configs]
    /\ runs \in [Programs -> Nat]
    /\ contig \in [Programs -> BOOLEAN]
    /\ fds \in [Programs -> SUBSET (Nat \X Accs \X BOOLEAN)]
    /\ th \in [Workers -> Labels]
    /\ lock \in [Devices -> BOOLEAN]
    /\ job \in [Devices -> Workers \cup {NoJob}]
    /\ left \in [Devices -> BOOLEAN]

\* Between contig_khandle_to_desc, which takes no reference (contig_alloc.c:383),
\* and esp_transfer, which reads the descriptor, the buffer is not freed: not by
\* esp_cleanup, not by a die, not by the close of the files of a killed program.
DescLive ==
    \A w \in Workers : th[w] \in {"lock", "flush", "transfer"} => contig[w[1]]

\* An accelerator works on a buffer that is allocated, except for the run whose
\* ioctl a fatal signal ended: that one goes on after the buffer was freed
\* (esp.c:234-236, contig_alloc.c:473-484).
DmaLive ==
    \A d \in Devices : job[d] # NoJob /\ ~left[d] => contig[job[d][1]]

\* No buffer is freed while an ioctl holds its descriptor, nor under an
\* accelerator whose ioctl has not been broken off by a fatal signal.
BufferLive == DescLive /\ DmaLive

\* When esp_run returns, no thread of it is in the kernel and the descriptors
\* it leaves open are those of the entries it did not run (libesp.c:159-202).
RunLeavesNothing ==
    \A p \in Programs : pc[p] \in {"ran", "cleaned"} =>
        /\ ~Working(p)
        /\ \A f \in fds[p] : ~f[3]

\* A killed program ends, even if an accelerator never does and if esp->lock was
\* lost (esp.c:390): the waits for them give way to the signal. A flush may not
\* (esp_private_cache.c:146); it is assumed to end.
KillEnds == \A p \in Programs : pc[p] = "dying" ~> pc[p] = "dead"
=============================================================================
