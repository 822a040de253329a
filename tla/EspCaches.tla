----------------------------- MODULE EspCaches -----------------------------
(***************************************************************************)
(* The drivers of the two levels of caches, src/drivers/esp_cache/, as     *)
(* esp_flush of the esp core calls them: esp_private_cache_flush commands  *)
(* every private cache (L2) under the mutex of their list, lets all        *)
(* processors flush their L1, and waits for each; esp_cache_flush then     *)
(* flushes the banks of the last-level cache (LLC), each under a mutex     *)
(* whose wait a signal may break off.                                      *)
(*                                                                         *)
(* A cache is its command register, the DONE bit of its status register    *)
(* and what the hardware is doing.  Data are the lines the callers wrote:  *)
(* loc[x] says how far line x has come on its way to memory.  A flush      *)
(* writes back the lines that are in the cache when it begins.             *)
(***************************************************************************)
EXTENDS Integers, Sequences, SequencesExt, FiniteSets

CONSTANTS
    Threads,         \* threads inside esp_flush
    L2s, Llcs,       \* private caches, banks of the last-level cache
    Lines,           \* cache lines that the threads write
    writer,          \* [Lines -> Threads]: who writes the line ...
    l2_of, bank_of,  \* ... the private cache of its processor, its bank
    cpuid,           \* [L2s -> Nat]: CPUID of the status register
    SMP,             \* CONFIG_SMP
    Hotplug,         \* caches that are bound and unbound while flushes run
    Signals,         \* whether signals reach the threads
    NoThread

Caches == L2s \cup Llcs
Places == {"l2", "llc", "mem"}

\* enum accelerator_coherence, those that esp_flush tells apart.
NONE == 0
LLC == 1
RECALL == 2

ASSUME CachesAssumption ==
    /\ IsFiniteSet(Caches) /\ L2s \cap Llcs = {}
    /\ writer \in [Lines -> Threads]
    /\ l2_of \in [Lines -> L2s] /\ bank_of \in [Lines -> Llcs]
    /\ cpuid \in [L2s -> Nat]
    /\ Hotplug \subseteq Caches
    /\ SMP \in BOOLEAN /\ Signals \in BOOLEAN
    /\ \A x \in Lines : SMP \/ cpuid[l2_of[x]] = 0   \* CPU0 runs alone
    /\ NoThread \notin Threads

VARIABLES
    esp_private_cache_list, esp_cache_list,
    list_lock,       \* esp_private_cache_list_lock: its holder
    lock,            \* per bank, esp_cache->lock: its holder
    cmd, done,       \* registers: command not zero, status DONE
    hw,              \* what the cache does: idle, posted, armed or sweeping
    sweep,           \* the lines that the flush in progress writes back
    loc,             \* per line: where its newest value is
    pc, todo,        \* per thread: where it is, the rest of the list it walks
    coherence,       \* per thread: esp->coherence of its accelerator
    seen             \* history: the caches on the lists since the call began

lists == <<esp_private_cache_list, esp_cache_list>>
registers == <<cmd, done>>
device == <<registers, hw, sweep, loc>>
call == <<coherence, seen>>
vars == <<lists, list_lock, lock, device, pc, todo, call>>

L2Labels == {"l2_start", "l2_set", "l1", "l2_check", "l2_wait"}
BankLabels == {"llc_flush", "llc_wait", "llc_clear"}
Labels == L2Labels \cup BankLabels \cup {"idle", "l2_lock", "llc_lock", "flushed", "oops"}

\* The caches that are never unbound were probed at boot.
Init ==
    /\ esp_private_cache_list = SetToSeq(L2s \ Hotplug)
    /\ esp_cache_list = SetToSeq(Llcs \ Hotplug)
    /\ list_lock = NoThread
    /\ lock = [b \in Llcs |-> NoThread]
    /\ cmd = [c \in Caches |-> FALSE] /\ done = [c \in Caches |-> FALSE]
    /\ hw = [c \in Caches |-> "idle"]
    /\ sweep = [c \in Caches |-> {}]
    /\ loc = [x \in Lines |-> "mem"]
    /\ pc = [t \in Threads |-> "idle"]
    /\ todo = [t \in Threads |-> << >>]
    /\ coherence = [t \in Threads |-> RECALL]
    /\ seen = [t \in Threads |-> {}]

Listed == Range(esp_private_cache_list) \cup Range(esp_cache_list)

Goto(t, label) == pc' = [pc EXCEPT ![t] = label]
Walk(t, list) == todo' = [todo EXCEPT ![t] = list]

\* list_for_each_entry goes on to the next device.
Advance(t) == Walk(t, Tail(todo[t]))

\* The lines whose newest value is in cache c.
Inside(c) ==
    IF c \in L2s THEN {x \in Lines : loc[x] = "l2" /\ l2_of[x] = c}
                 ELSE {x \in Lines : loc[x] = "llc" /\ bank_of[x] = c}

\* A line leaves the cache it is in for the next level.
Down(place) == IF place = "l2" THEN "llc" ELSE "mem"

-----------------------------------------------------------------------------
(* esp_flush and esp_private_cache_flush                                   *)

\* esp_flush; above LLC it does nothing.
Call(t) ==
    /\ pc[t] = "idle"
    /\ \E c \in {NONE, LLC} : coherence' = [coherence EXCEPT ![t] = c]
    /\ seen' = [seen EXCEPT ![t] = Listed]
    /\ Goto(t, "l2_lock")
    /\ UNCHANGED <<lists, list_lock, lock, device, todo>>

\* Mutant: the two lists are one.
L2Lock_both(t) ==
    /\ pc[t] = "l2_lock"
    /\ list_lock = NoThread
    /\ list_lock' = t
    /\ Walk(t, esp_private_cache_list \o esp_cache_list)
    /\ Goto(t, "l2_start")
    /\ UNCHANGED <<lists, lock, device, call>>

L2Lock(t) ==
    /\ pc[t] = "l2_lock"
    /\ list_lock = NoThread
    /\ list_lock' = t
    /\ Walk(t, esp_private_cache_list)
    /\ Goto(t, "l2_start")
    /\ UNCHANGED <<lists, lock, device, call>>

\* Without SMP only the private cache of CPU0 has anything to flush.
Flushes(c) == SMP \/ cpuid[c] = 0

\* The first loop: BUG_ON(cmd_reg), then the command is posted.
L2Start(t) ==
    LET c == Head(todo[t])
    IN  /\ pc[t] = "l2_start"
        /\ todo[t] # << >>
        /\ \/ /\ ~cmd[c] /\ Flushes(c)
              /\ hw' = [hw EXCEPT ![c] = "posted"]
              /\ Goto(t, "l2_set")
              /\ UNCHANGED todo
           \/ /\ ~(~cmd[c] /\ Flushes(c))
              /\ IF cmd[c] THEN Goto(t, "oops") /\ UNCHANGED todo
                           ELSE Advance(t) /\ UNCHANGED pc
              /\ UNCHANGED hw
        /\ UNCHANGED <<lists, list_lock, lock, registers, sweep, loc, call>>

\* Mutant: does not wait for the command to arrive.
L2Set_not(t) ==
    /\ pc[t] = "l2_set"
    /\ Advance(t)
    /\ Goto(t, "l2_start")
    /\ UNCHANGED <<lists, list_lock, lock, device, call>>

\* "may loose synch flush with L1 otherwise": waits until the command reads back.
L2Set(t) ==
    /\ pc[t] = "l2_set"
    /\ cmd[Head(todo[t])]
    /\ Advance(t)
    /\ Goto(t, "l2_start")
    /\ UNCHANGED <<lists, list_lock, lock, device, call>>

L2StartDone(t) ==
    /\ pc[t] = "l2_start"
    /\ todo[t] = << >>
    /\ Goto(t, "l1")
    /\ UNCHANGED <<lists, list_lock, lock, device, todo, call>>

\* on_each_cpu(esp_flush_l1): the flush of L1 starts the flush of every L2 that
\* has its command.
L1Flush(t) ==
    LET armed == {c \in L2s : hw[c] = "armed"}
    IN  /\ pc[t] = "l1"
        /\ hw' = [c \in Caches |-> IF c \in armed THEN "sweeping" ELSE hw[c]]
        /\ sweep' = [c \in Caches |-> IF c \in armed THEN Inside(c) ELSE sweep[c]]
        /\ Walk(t, esp_private_cache_list)
        /\ Goto(t, "l2_check")
        /\ UNCHANGED <<lists, list_lock, lock, registers, loc, call>>

\* The second loop: a command that reads as zero has already been carried out.
L2Check(t) ==
    /\ pc[t] = "l2_check"
    /\ todo[t] # << >>
    /\ IF cmd[Head(todo[t])] THEN Goto(t, "l2_wait") /\ UNCHANGED todo
                             ELSE Advance(t) /\ UNCHANGED pc
    /\ UNCHANGED <<lists, list_lock, lock, device, call>>

\* Clearing the command register clears the status too.
ClearCommand(c) ==
    /\ cmd' = [cmd EXCEPT ![c] = FALSE]
    /\ done' = [done EXCEPT ![c] = FALSE]

\* Mutant: the command register keeps the command.
L2Wait_kept(t) ==
    LET c == Head(todo[t])
    IN  /\ pc[t] = "l2_wait"
        /\ done[c]
        /\ Advance(t)
        /\ Goto(t, "l2_check")
        /\ UNCHANGED <<lists, list_lock, lock, device, call>>

L2Wait(t) ==
    LET c == Head(todo[t])
    IN  /\ pc[t] = "l2_wait"
        /\ done[c]
        /\ ClearCommand(c)
        /\ Advance(t)
        /\ Goto(t, "l2_check")
        /\ UNCHANGED <<lists, list_lock, lock, hw, sweep, loc, call>>

\* The mutex goes back, and esp_flush turns to the banks if it has to.
L2Done(t) ==
    /\ pc[t] = "l2_check"
    /\ todo[t] = << >>
    /\ list_lock' = NoThread
    /\ IF coherence[t] < LLC THEN Goto(t, "llc_lock") /\ Walk(t, esp_cache_list)
                             ELSE Goto(t, "flushed") /\ UNCHANGED todo
    /\ UNCHANGED <<lists, lock, device, call>>

-----------------------------------------------------------------------------
(* esp_cache_flush                                                         *)

\* Mutant: the banks are flushed without their mutex.
BankLock_not(t) ==
    /\ pc[t] = "llc_lock"
    /\ todo[t] # << >>
    /\ lock' = [lock EXCEPT ![Head(todo[t])] = t]
    /\ Goto(t, "llc_flush")
    /\ UNCHANGED <<lists, list_lock, device, todo, call>>

BankLock(t) ==
    /\ pc[t] = "llc_lock"
    /\ todo[t] # << >>
    /\ lock[Head(todo[t])] = NoThread
    /\ lock' = [lock EXCEPT ![Head(todo[t])] = t]
    /\ Goto(t, "llc_flush")
    /\ UNCHANGED <<lists, list_lock, device, todo, call>>

\* A call is over, and what it kept on its stack is gone.
Leave(t) ==
    /\ Goto(t, "idle")
    /\ Walk(t, << >>)
    /\ coherence' = [coherence EXCEPT ![t] = RECALL]
    /\ seen' = [seen EXCEPT ![t] = {}]
    /\ UNCHANGED <<lists, list_lock, lock, device>>

\* -EINTR: the banks before this one are flushed, the others are not.
BankInterrupted(t) ==
    /\ pc[t] = "llc_lock"
    /\ Signals
    /\ todo[t] # << >>
    /\ lock[Head(todo[t])] # NoThread
    /\ Leave(t)

\* esp_cache_do_flush: a flush in progress would not be waited for.
BankFlush(t) ==
    LET b == Head(todo[t])
    IN  /\ pc[t] = "llc_flush"
        /\ IF cmd[b]
           THEN Goto(t, "llc_clear") /\ UNCHANGED <<cmd, hw, sweep>>
           ELSE /\ cmd' = [cmd EXCEPT ![b] = TRUE]
                /\ hw' = [hw EXCEPT ![b] = "sweeping"]
                /\ sweep' = [sweep EXCEPT ![b] = Inside(b)]
                /\ Goto(t, "llc_wait")
        /\ UNCHANGED <<lists, list_lock, lock, done, loc, todo, call>>

BankWait(t) ==
    /\ pc[t] = "llc_wait"
    /\ done[Head(todo[t])]
    /\ Goto(t, "llc_clear")
    /\ UNCHANGED <<lists, list_lock, lock, device, todo, call>>

BankClear(t) ==
    LET b == Head(todo[t])
    IN  /\ pc[t] = "llc_clear"
        /\ ClearCommand(b)
        /\ lock' = [lock EXCEPT ![b] = NoThread]
        /\ Advance(t)
        /\ Goto(t, "llc_lock")
        /\ UNCHANGED <<lists, list_lock, hw, sweep, loc, call>>

BanksDone(t) ==
    /\ pc[t] = "llc_lock"
    /\ todo[t] = << >>
    /\ Goto(t, "flushed")
    /\ UNCHANGED <<lists, list_lock, lock, device, todo, call>>

\* esp_flush returns 0.
Return(t) == pc[t] = "flushed" /\ Leave(t)

-----------------------------------------------------------------------------
(* Probe and remove of the two drivers, the last but one steps of each     *)

ProbeL2(c) ==
    /\ list_lock = NoThread
    /\ c \notin Listed
    /\ esp_private_cache_list' = <<c>> \o esp_private_cache_list
    /\ UNCHANGED <<esp_cache_list, list_lock, lock, device, pc, todo, call>>

\* Mutant: the device goes without the mutex of the list.
RemoveL2_not(c) ==
    /\ c \in Hotplug
    /\ \E i \in DOMAIN esp_private_cache_list :
         /\ esp_private_cache_list[i] = c
         /\ esp_private_cache_list' = RemoveAt(esp_private_cache_list, i)
    /\ seen' = [t \in Threads |-> seen[t] \ {c}]
    /\ UNCHANGED <<esp_cache_list, list_lock, lock, device, pc, todo, coherence>>

RemoveL2(c) ==
    /\ list_lock = NoThread
    /\ c \in Hotplug
    /\ \E i \in DOMAIN esp_private_cache_list :
         /\ esp_private_cache_list[i] = c
         /\ esp_private_cache_list' = RemoveAt(esp_private_cache_list, i)
    /\ seen' = [t \in Threads |-> seen[t] \ {c}]
    /\ UNCHANGED <<esp_cache_list, list_lock, lock, device, pc, todo, coherence>>

\* The spinlock of this list orders probes and removals, not the walk of
\* esp_cache_flush, which a device put at the head does not disturb.
ProbeBank(b) ==
    /\ b \notin Listed
    /\ esp_cache_list' = <<b>> \o esp_cache_list
    /\ UNCHANGED <<esp_private_cache_list, list_lock, lock, device, pc, todo, call>>

\* The esp core keeps this module loaded, so that a bank goes by hand only; that
\* nobody is then on the list is assumed, since the walk takes no lock for it.
RemoveBank(b) ==
    /\ b \in Hotplug
    /\ \A t \in Threads : pc[t] \notin BankLabels \cup {"llc_lock"}
    /\ \E i \in DOMAIN esp_cache_list :
         /\ esp_cache_list[i] = b
         /\ esp_cache_list' = RemoveAt(esp_cache_list, i)
    /\ seen' = [t \in Threads |-> seen[t] \ {b}]
    /\ UNCHANGED <<esp_private_cache_list, list_lock, lock, device, pc, todo, coherence>>

-----------------------------------------------------------------------------
(* The hardware, and the program before its call                           *)

\* A posted command arrives at the L2; DONE was about an earlier one.
Latch(c) ==
    /\ hw[c] = "posted"
    /\ hw' = [hw EXCEPT ![c] = "armed"]
    /\ cmd' = [cmd EXCEPT ![c] = TRUE]
    /\ done' = [done EXCEPT ![c] = FALSE]
    /\ UNCHANGED <<lists, list_lock, lock, sweep, loc, pc, todo, call>>

\* A flush ends: DONE is set, and an L2 may reset its command register itself.
SweepEnd(c) ==
    /\ hw[c] = "sweeping"
    /\ loc' = [x \in Lines |-> IF x \in sweep[c] \cap Inside(c) THEN Down(loc[x]) ELSE loc[x]]
    /\ hw' = [hw EXCEPT ![c] = "idle"]
    /\ sweep' = [sweep EXCEPT ![c] = {}]
    /\ done' = [done EXCEPT ![c] = TRUE]
    /\ \E kept \in BOOLEAN :
         /\ c \in L2s \/ kept
         /\ cmd' = [cmd EXCEPT ![c] = @ /\ kept]
    /\ UNCHANGED <<lists, list_lock, lock, pc, todo, call>>

\* A program fills its buffer before it calls; the line is dirty in its L2.
Store(x) ==
    /\ pc[writer[x]] = "idle"
    /\ loc[x] # "l2"
    /\ loc' = [loc EXCEPT ![x] = "l2"]
    /\ sweep' = [c \in Caches |-> sweep[c] \ {x}]
    /\ UNCHANGED <<lists, list_lock, lock, registers, hw, pc, todo, call>>

\* A cache makes room.
Evict(x) ==
    /\ loc[x] # "mem"
    /\ loc' = [loc EXCEPT ![x] = Down(loc[x])]
    /\ UNCHANGED <<lists, list_lock, lock, registers, hw, sweep, pc, todo, call>>

Flush(t) ==
    \/ L2Lock(t) \/ L2Start(t) \/ L2Set(t) \/ L2StartDone(t) \/ L1Flush(t)
    \/ L2Check(t) \/ L2Wait(t) \/ L2Done(t)
    \/ BankLock(t) \/ BankFlush(t) \/ BankWait(t) \/ BankClear(t) \/ BanksDone(t)
    \/ Return(t)

Next ==
    \/ \E t \in Threads : Call(t) \/ Flush(t) \/ BankInterrupted(t)
    \/ \E c \in L2s : ProbeL2(c) \/ RemoveL2(c) \/ Latch(c)
    \/ \E b \in Llcs : ProbeBank(b) \/ RemoveBank(b)
    \/ \E c \in Caches : SweepEnd(c)
    \/ \E x \in Lines : Store(x) \/ Evict(x)

\* Threads run, the two mutexes are fair to their waiters, flushes end.
Fairness ==
    /\ \A t \in Threads : WF_vars(Flush(t)) /\ SF_vars(L2Lock(t)) /\ SF_vars(BankLock(t))
    /\ \A c \in L2s : WF_vars(Latch(c))
    /\ \A c \in Caches : WF_vars(SweepEnd(c))

Spec == Init /\ [][Next]_vars
FairSpec == Spec /\ Fairness

-----------------------------------------------------------------------------
(* Properties                                                              *)

\* The values the variables range over.
TypeOK ==
    /\ esp_private_cache_list \in Seq(L2s) /\ esp_cache_list \in Seq(Llcs)
    /\ list_lock \in Threads \cup {NoThread}
    /\ lock \in [Llcs -> Threads \cup {NoThread}]
    /\ cmd \in [Caches -> BOOLEAN] /\ done \in [Caches -> BOOLEAN]
    /\ hw \in [Caches -> {"idle", "posted", "armed", "sweeping"}]
    /\ sweep \in [Caches -> SUBSET Lines]
    /\ loc \in [Lines -> Places]
    /\ pc \in [Threads -> Labels]
    /\ todo \in [Threads -> Seq(L2s) \cup Seq(Llcs)]
    /\ coherence \in [Threads -> NONE .. RECALL]
    /\ seen \in [Threads -> SUBSET Caches]

\* BUG_ON(cmd_reg) never fires (esp_private_cache.c:94): a flush finds every L2
\* with its command register clear, whichever of the two loops or the hardware
\* cleared it, and although probes and removals change the list in between.
NoBugOn == \A t \in Threads : pc[t] # "oops"

\* When esp_flush returns 0 the accelerator sees what its caller wrote before
\* the call: nothing is left in an L2 if its coherence bypasses the private
\* caches, nothing in a bank either if it reads memory (esp.c:90-94). This needs
\* the private caches to be written back before the banks are flushed, and every
\* bank to be flushed by this call although another one is flushing it too.
DataReached ==
    \A x \in Lines :
        LET t == writer[x]
        IN  pc[t] = "flushed" /\ l2_of[x] \in seen[t] =>
              /\ coherence[t] < RECALL => loc[x] # "l2"
              /\ coherence[t] < LLC /\ bank_of[x] \in seen[t] => loc[x] = "mem"

\* A walk of the private caches stays on devices that are bound: none is freed
\* under the loop (esp_private_cache.c:80, :181).
WalkBound ==
    \A t \in Threads : pc[t] \in L2Labels => Range(todo[t]) \subseteq Listed

\* A command register is written by one flush at a time: while it holds a
\* command, one thread has the mutex and is waiting for that very cache.
OneCommand ==
    /\ \A c \in L2s : cmd[c] => list_lock # NoThread
    /\ \A b \in Llcs : cmd[b] =>
          /\ lock[b] # NoThread
          /\ pc[lock[b]] \in {"llc_wait", "llc_clear"} /\ Head(todo[lock[b]]) = b

\* Every flush returns: no command is lost between the two loops, no bank keeps
\* its mutex.
FlushReturns ==
    \A t \in Threads : pc[t] # "idle" ~> pc[t] = "idle"
=============================================================================
