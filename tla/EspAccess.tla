----------------------------- MODULE EspAccess -----------------------------
(***************************************************************************)
(* The core of the accelerator drivers, src/drivers/esp/esp.c: the access  *)
(* ioctl that configures an accelerator, picks its coherence, flushes the  *)
(* caches, starts it and waits for its interrupt, next to the two ioctls   *)
(* that take no lock, the interrupt handler and the accelerator itself.    *)
(*                                                                         *)
(* Each field of struct esp_device is a function on Devices, so are the    *)
(* registers of the accelerator.  Three hazards give the steps their size: *)
(* mutex_lock_interruptible and the wait for the interrupt may be broken   *)
(* off by a signal, the run and flush ioctls run beside the lock of the    *)
(* device, and the interrupt handler runs beside everything.  A caller's   *)
(* buffer is named by the thread: pt_reg[d] is the thread whose page table *)
(* the accelerator was given.                                              *)
(***************************************************************************)
EXTENDS Integers, FiniteSets, Functions

CONSTANTS
    Threads,       \* threads that call into the driver
    Devices,       \* registered accelerators
    Accesses,      \* the struct esp_access user space passes
    l2_size, llc_bank_size,  \* cache_l2_size, cache_llc_bank_size
    llc_banks,     \* cache_llc_banks, at most N_MEM
    Crowd,         \* active accelerators from which on AUTO avoids caches: 6
    Word,          \* where the unsigned counters wrap: 2^32
    Signals,       \* whether signals reach the threads
    RunCalls, FlushCalls,    \* whether user space uses these two ioctls
    NoThread, NoDevice

N_MEM == 2
Mems == 0 .. N_MEM - 1
Banks == 0 .. llc_banks - 1
llc_size == llc_bank_size * llc_banks

\* enum accelerator_coherence, in its order.
NONE == 0
LLC == 1
RECALL == 2
FULL == 3
AUTO == 4
Coherence == NONE .. AUTO
Policies == {"preferred", "least_loaded", "balanced"}

Access == [coherence : Coherence, footprint : Nat, alloc_policy : Policies,
           ddr_node : Mems, run : BOOLEAN, p2p_found : BOOLEAN]

ASSUME EspAssumption ==
    /\ Accesses \subseteq Access
    /\ llc_banks \in 1 .. N_MEM
    /\ l2_size \in Nat /\ llc_bank_size \in Nat /\ Crowd \in Nat
    /\ Word \in Nat /\ Word > 1
    /\ Signals \in BOOLEAN /\ RunCalls \in BOOLEAN /\ FlushCalls \in BOOLEAN
    /\ NoThread \notin Threads /\ NoDevice \notin Devices

VARIABLES
    lock,             \* esp->lock: its holder
    coherence, footprint, alloc_policy, ddr_node,   \* esp->...
    err, completion,  \* esp->err is set; esp->completion is complete
    state,            \* CMD_REG and STATUS_REG: idle, running, done or error
    coherence_reg, pt_reg,    \* COHERENCE_REG and PT_ADDRESS_REG
    irq,              \* what the interrupt handler has still to report
    status_lock,      \* esp_status.lock: its holder
    active_acc_cnt, active_acc_cnt_full,
    active_footprint, active_footprint_split,       \* esp_status....
    pc, dev, req, rc, \* per thread: where it is, its device, access, answer
    charge,           \* history: the coherence asked for by the access whose
                      \*   share esp_status still holds, or "none"
    lost,             \* history: the devices whose lock a call left behind
    run_by,           \* history: the call that started the present run
    flushed, outcome  \* history: caches flushed, end of the run, per call

fields == <<coherence, footprint, alloc_policy, ddr_node>>
sync == <<err, completion>>
regs == <<coherence_reg, pt_reg>>
counters == <<active_acc_cnt, active_acc_cnt_full, active_footprint,
              active_footprint_split>>
call == <<dev, req>>
history == <<run_by, flushed, outcome>>
vars == <<lock, fields, sync, state, regs, irq, status_lock, counters, pc, call,
          rc, charge, lost, history>>

Labels == {"idle", "lock", "setup", "config", "charge", "configured", "flush_l2",
           "flush_llc", "clear", "transfer", "run", "wait", "release",
           "update_footprint", "updated", "unlock", "ioc_flush_l2", "ioc_flush_llc"}

BlankAccess == [coherence |-> NONE, footprint |-> 0, alloc_policy |-> "preferred",
                ddr_node |-> 0, run |-> FALSE, p2p_found |-> TRUE]

Init ==
    /\ lock = [d \in Devices |-> NoThread]
    /\ coherence = [d \in Devices |-> NONE]
    /\ footprint = [d \in Devices |-> 0]
    /\ alloc_policy = [d \in Devices |-> "preferred"]
    /\ ddr_node = [d \in Devices |-> 0]
    /\ err = [d \in Devices |-> FALSE]
    /\ completion = [d \in Devices |-> FALSE]
    /\ state = [d \in Devices |-> "idle"]
    /\ coherence_reg = [d \in Devices |-> NONE]
    /\ pt_reg = [d \in Devices |-> NoThread]
    /\ irq = [d \in Devices |-> "none"]
    /\ status_lock = NoThread
    /\ active_acc_cnt = 0 /\ active_acc_cnt_full = 0 /\ active_footprint = 0
    /\ active_footprint_split = [m \in Mems |-> 0]
    /\ pc = [t \in Threads |-> "idle"]
    /\ dev = [t \in Threads |-> NoDevice]
    /\ req = [t \in Threads |-> BlankAccess]
    /\ rc = [t \in Threads |-> "ok"]
    /\ charge = [d \in Devices |-> "none"] /\ lost = {}
    /\ run_by = [d \in Devices |-> NoThread]
    /\ flushed = [t \in Threads |-> {}]
    /\ outcome = [t \in Threads |-> "none"]

-----------------------------------------------------------------------------
(* The coherence of an access: esp_runtime_config and esp_update_status    *)

\* Unsigned arithmetic.
Plus(a, b) == (a + b) % Word
Minus(a, b) == (a - b) % Word

OneBank(policy) == policy \in {"preferred", "least_loaded"}

\* The accesses that are counted in esp_status.
Managed(r) == r.coherence \in {AUTO, FULL}

\* Whether the data of the accelerators at work and of this one outgrow the
\* part of the cache they go through.
Overflows(d) ==
    IF OneBank(alloc_policy[d])
    THEN Plus(active_footprint_split[ddr_node[d]], footprint[d]) > llc_bank_size
    ELSE Plus(active_footprint, footprint[d]) > llc_size

\* Mutant: lets a second fully coherent accelerator in.
Chosen_late(d, n) ==
    IF coherence[d] = FULL \/ footprint[d] < l2_size
    THEN IF active_acc_cnt_full > 1 THEN LLC ELSE FULL
    ELSE IF n >= Crowd \/ Overflows(d) THEN NONE ELSE LLC

\* The coherence esp_runtime_config leaves in esp->coherence; n is the number
\* of active accelerators, this one included.
Chosen(d, n) ==
    IF coherence[d] = FULL \/ footprint[d] < l2_size
    THEN IF active_acc_cnt_full >= 1 THEN LLC ELSE FULL
    ELSE IF n >= Crowd \/ Overflows(d) THEN NONE ELSE LLC

\* active_acc_cnt with device d: a FULL access returns before it is counted.
CountWith(d) == IF coherence[d] = FULL THEN active_acc_cnt ELSE Plus(active_acc_cnt, 1)

\* Mutant: every access gives a fully coherent accelerator back.
FullWithout_all(d) == active_acc_cnt_full - 1

\* active_acc_cnt_full when device d is released.
FullWithout(d) ==
    IF coherence[d] = FULL THEN Minus(active_acc_cnt_full, 1) ELSE active_acc_cnt_full

\* What the footprint of device d adds to each entry of the split.
Share(d, m) ==
    IF OneBank(alloc_policy[d])
    THEN IF m = ddr_node[d] THEN footprint[d] ELSE 0
    ELSE IF m \in Banks THEN footprint[d] \div llc_banks ELSE 0

-----------------------------------------------------------------------------
Goto(t, label) == pc' = [pc EXCEPT ![t] = label]

\* A call returns, and what it kept on its stack is gone.
Return(t) ==
    /\ Goto(t, "idle")
    /\ rc' = [rc EXCEPT ![t] = "ok"]
    /\ dev' = [dev EXCEPT ![t] = NoDevice]
    /\ req' = [req EXCEPT ![t] = BlankAccess]
    /\ flushed' = [flushed EXCEPT ![t] = {}]
    /\ outcome' = [outcome EXCEPT ![t] = "none"]
    /\ run_by' = [d \in Devices |-> IF run_by[d] = t THEN NoThread ELSE run_by[d]]

\* A call leaves through "goto out": whatever mutex it holds stays locked.
Out(t) ==
    /\ Return(t)
    /\ lost' = IF lock[dev[t]] = t THEN lost \cup {dev[t]} ELSE lost
    /\ UNCHANGED <<lock, fields, sync, state, regs, irq, status_lock, counters, charge>>

\* esp_access_ioctl: the checks before the lock fail or let the call through.
AccessCall(t) ==
    /\ pc[t] = "idle"
    /\ \E d \in Devices, r \in Accesses :
         /\ dev' = [dev EXCEPT ![t] = d]
         /\ req' = [req EXCEPT ![t] = r]
    /\ Goto(t, "lock")
    /\ UNCHANGED <<lock, fields, sync, state, regs, irq, status_lock, counters, rc,
                   charge, lost, history>>

Lock(t) ==
    /\ pc[t] = "lock"
    /\ lock[dev[t]] = NoThread
    /\ lock' = [lock EXCEPT ![dev[t]] = t]
    /\ Goto(t, "setup")
    /\ UNCHANGED <<fields, sync, state, regs, irq, status_lock, counters, call, rc,
                   charge, lost, history>>

LockInterrupted(t) ==
    /\ pc[t] = "lock"
    /\ Signals
    /\ lock[dev[t]] # NoThread
    /\ Out(t)

\* esp_p2p_init, and the fields of the access are copied.
Setup(t) ==
    LET d == dev[t]
        r == req[t]
    IN  /\ pc[t] = "setup"
        /\ r.p2p_found
        /\ coherence' = [coherence EXCEPT ![d] = r.coherence]
        /\ footprint' = [footprint EXCEPT ![d] = r.footprint]
        /\ alloc_policy' = [alloc_policy EXCEPT ![d] = r.alloc_policy]
        /\ ddr_node' = [ddr_node EXCEPT ![d] = r.ddr_node]
        /\ Goto(t, IF Managed(r) THEN "config" ELSE "flush_l2")
        /\ UNCHANGED <<lock, sync, state, regs, irq, status_lock, counters, call, rc,
                       charge, lost, history>>

\* A source that no device has the name of: -ENODEV, esp->lock stays locked.
SetupFailed(t) ==
    /\ pc[t] = "setup"
    /\ ~req[t].p2p_found
    /\ Out(t)

\* A signal ends the wait for esp_status.lock: -EINTR, esp->lock stays locked.
ConfigInterrupted(t) ==
    /\ pc[t] = "config"
    /\ Signals
    /\ status_lock # NoThread
    /\ Out(t)

\* The first half of esp_runtime_config: the coherence and the two counts. For
\* a FULL access it is all.
Config(t) ==
    LET d == dev[t]
        auto == coherence[d] # FULL
        n == CountWith(d)
        c == Chosen(d, n)
    IN  /\ pc[t] = "config"
        /\ status_lock = NoThread
        /\ active_acc_cnt' = n
        /\ active_acc_cnt_full' = IF c = FULL THEN Plus(active_acc_cnt_full, 1)
                                              ELSE active_acc_cnt_full
        /\ coherence' = [coherence EXCEPT ![d] = c]
        /\ charge' = [charge EXCEPT ![d] = IF auto THEN "auto" ELSE "full"]
        /\ status_lock' = t
        /\ Goto(t, IF auto THEN "charge" ELSE "configured")
        /\ UNCHANGED <<lock, footprint, alloc_policy, ddr_node, sync, state, regs, irq,
                       active_footprint, active_footprint_split, call, rc, lost, history>>

\* Its second half reads esp->coherence again.
Charge(t) ==
    LET d == dev[t]
    IN  /\ pc[t] = "charge"
        /\ IF coherence[d] = NONE
           THEN UNCHANGED <<active_footprint, active_footprint_split>>
           ELSE /\ active_footprint' = Plus(active_footprint, footprint[d])
                /\ active_footprint_split' =
                     [m \in Mems |-> Plus(active_footprint_split[m], Share(d, m))]
        /\ Goto(t, "configured")
        /\ UNCHANGED <<lock, fields, sync, state, regs, irq, status_lock, active_acc_cnt,
                       active_acc_cnt_full, call, rc, charge, lost, history>>

ConfigUnlock(t) ==
    /\ pc[t] = "configured"
    /\ status_lock' = NoThread
    /\ Goto(t, "flush_l2")
    /\ UNCHANGED <<lock, fields, sync, state, regs, irq, counters, call, rc, charge, lost,
                   history>>

-----------------------------------------------------------------------------
(* esp_flush, esp_transfer, esp_run and esp_wait                           *)

\* The caches have mutexes of their own; a flush is a step.
\* Mutant: flushes the private caches for NONE alone.
FlushL2_none(t) ==
    /\ pc[t] = "flush_l2"
    /\ flushed' = [flushed EXCEPT ![t] =
                     IF coherence[dev[t]] < LLC THEN @ \cup {"l2"} ELSE @]
    /\ Goto(t, "flush_llc")
    /\ UNCHANGED <<lock, fields, sync, state, regs, irq, status_lock, counters, call, rc,
                   charge, lost, run_by, outcome>>

\* esp_private_cache_flush cannot fail.
FlushL2(t) ==
    /\ pc[t] = "flush_l2"
    /\ flushed' = [flushed EXCEPT ![t] =
                     IF coherence[dev[t]] < RECALL THEN @ \cup {"l2"} ELSE @]
    /\ Goto(t, "flush_llc")
    /\ UNCHANGED <<lock, fields, sync, state, regs, irq, status_lock, counters, call, rc,
                   charge, lost, run_by, outcome>>

FlushLlc(t) ==
    /\ pc[t] = "flush_llc"
    /\ flushed' = [flushed EXCEPT ![t] =
                     IF coherence[dev[t]] < LLC THEN @ \cup {"llc"} ELSE @]
    /\ Goto(t, "clear")
    /\ UNCHANGED <<lock, fields, sync, state, regs, irq, status_lock, counters, call, rc,
                   charge, lost, run_by, outcome>>

OtherFlush(t) == \E u \in Threads \ {t} : pc[u] \in {"flush_llc", "ioc_flush_llc"}

\* esp_cache_flush waits for another flush and is interrupted: -EINTR, with
\* esp->lock and the share of esp_status kept.
FlushInterrupted(t) ==
    /\ pc[t] = "flush_llc"
    /\ Signals
    /\ coherence[dev[t]] < LLC
    /\ OtherFlush(t)
    /\ Out(t)

\* esp_transfer: err is cleared first.
Clear(t) ==
    /\ pc[t] = "clear"
    /\ err' = [err EXCEPT ![dev[t]] = FALSE]
    /\ Goto(t, "transfer")
    /\ UNCHANGED <<lock, fields, completion, state, regs, irq, status_lock, counters,
                   call, rc, charge, lost, history>>

\* Mutant: reinit_completion is forgotten.
Transfer_stale(t) ==
    LET d == dev[t]
    IN  /\ pc[t] = "transfer"
        /\ coherence_reg' = [coherence_reg EXCEPT ![d] = coherence[d]]
        /\ pt_reg' = [pt_reg EXCEPT ![d] = t]
        /\ Goto(t, CASE req[t].run -> "run"
                     [] ~req[t].run /\ Managed(req[t]) -> "release"
                     [] OTHER -> "unlock")
        /\ UNCHANGED <<lock, fields, sync, state, irq, status_lock, counters, call, rc,
                       charge, lost, history>>

\* reinit_completion, the registers and prep_xfer of the driver.
Transfer(t) ==
    LET d == dev[t]
    IN  /\ pc[t] = "transfer"
        /\ completion' = [completion EXCEPT ![d] = FALSE]
        /\ coherence_reg' = [coherence_reg EXCEPT ![d] = coherence[d]]
        /\ pt_reg' = [pt_reg EXCEPT ![d] = t]
        /\ Goto(t, CASE req[t].run -> "run"
                     [] ~req[t].run /\ Managed(req[t]) -> "release"
                     [] OTHER -> "unlock")
        /\ UNCHANGED <<lock, fields, err, state, irq, status_lock, counters, call, rc,
                       charge, lost, history>>

\* The start bit is written: it has an effect on an idle accelerator only.
Start(d, starter) ==
    IF state[d] = "idle"
    THEN /\ state' = [state EXCEPT ![d] = "running"]
         /\ run_by' = [run_by EXCEPT ![d] = starter]
    ELSE UNCHANGED <<state, run_by>>

Run(t) ==
    /\ pc[t] = "run"
    /\ Start(dev[t], t)
    /\ Goto(t, "wait")
    /\ UNCHANGED <<lock, fields, sync, regs, irq, status_lock, counters, call, rc,
                   charge, lost, flushed, outcome>>

\* Mutant: an interrupted call does not go through esp_status again.
AfterWait_straight(t) ==
    IF Managed(req[t]) /\ completion[dev[t]] THEN "release" ELSE "unlock"

AfterWait(t) == IF Managed(req[t]) THEN "release" ELSE "unlock"

\* Mutant: does not wait.
Wait_not(t) ==
    /\ pc[t] = "wait"
    /\ rc' = [rc EXCEPT ![t] = IF err[dev[t]] THEN "error" ELSE "ok"]
    /\ Goto(t, AfterWait(t))
    /\ UNCHANGED <<lock, fields, sync, state, regs, irq, status_lock, counters, call,
                   charge, lost, history>>

Wait(t) ==
    /\ pc[t] = "wait"
    /\ completion[dev[t]]
    /\ rc' = [rc EXCEPT ![t] = IF err[dev[t]] THEN "error" ELSE "ok"]
    /\ Goto(t, AfterWait(t))
    /\ UNCHANGED <<lock, fields, sync, state, regs, irq, status_lock, counters, call,
                   charge, lost, history>>

\* A signal ends the wait, not the run: the accelerator goes on.
WaitInterrupted(t) ==
    /\ pc[t] = "wait"
    /\ Signals
    /\ ~completion[dev[t]]
    /\ rc' = [rc EXCEPT ![t] = "EINTR"]
    /\ run_by' = [d \in Devices |-> IF run_by[d] = t THEN NoThread ELSE run_by[d]]
    /\ Goto(t, AfterWait(t))
    /\ UNCHANGED <<lock, fields, sync, state, regs, irq, status_lock, counters, call,
                   charge, lost, flushed, outcome>>

\* As ConfigInterrupted; the share of esp_status stays charged as well.
UpdateInterrupted(t) ==
    /\ pc[t] = "release"
    /\ Signals
    /\ status_lock # NoThread
    /\ Out(t)

\* esp_update_status, up to its early return.
UpdateFull(t) ==
    LET d == dev[t]
        auto == req[t].coherence = AUTO
    IN  /\ pc[t] = "release"
        /\ status_lock = NoThread
        /\ active_acc_cnt_full' = FullWithout(d)
        /\ status_lock' = t
        /\ IF auto
           THEN /\ active_acc_cnt' = Minus(active_acc_cnt, 1)
                /\ Goto(t, "update_footprint")
                /\ UNCHANGED charge
           ELSE /\ charge' = [charge EXCEPT ![d] = "none"]
                /\ Goto(t, "updated")
                /\ UNCHANGED active_acc_cnt
        /\ UNCHANGED <<lock, fields, sync, state, regs, irq, active_footprint,
                       active_footprint_split, call, rc, lost, history>>

\* Mutant: a balanced buffer is taken back from one controller.
UpdateFootprint_one(t) ==
    LET d == dev[t]
    IN  /\ pc[t] = "update_footprint"
        /\ IF coherence[d] = NONE
           THEN UNCHANGED <<active_footprint, active_footprint_split>>
           ELSE /\ active_footprint' = Minus(active_footprint, footprint[d])
                /\ active_footprint_split' =
                     [active_footprint_split EXCEPT ![ddr_node[d]] = Minus(@, footprint[d])]
        /\ charge' = [charge EXCEPT ![d] = "none"]
        /\ Goto(t, "updated")
        /\ UNCHANGED <<lock, fields, sync, state, regs, irq, status_lock, active_acc_cnt,
                       active_acc_cnt_full, call, rc, lost, history>>

\* The rest of esp_update_status.
UpdateFootprint(t) ==
    LET d == dev[t]
    IN  /\ pc[t] = "update_footprint"
        /\ IF coherence[d] = NONE
           THEN UNCHANGED <<active_footprint, active_footprint_split>>
           ELSE /\ active_footprint' = Minus(active_footprint, footprint[d])
                /\ active_footprint_split' =
                     [m \in Mems |-> Minus(active_footprint_split[m], Share(d, m))]
        /\ charge' = [charge EXCEPT ![d] = "none"]
        /\ Goto(t, "updated")
        /\ UNCHANGED <<lock, fields, sync, state, regs, irq, status_lock, active_acc_cnt,
                       active_acc_cnt_full, call, rc, lost, history>>

UpdateUnlock(t) ==
    /\ pc[t] = "updated"
    /\ status_lock' = NoThread
    /\ Goto(t, "unlock")
    /\ UNCHANGED <<lock, fields, sync, state, regs, irq, counters, call, rc, charge, lost,
                   history>>

Unlock(t) ==
    /\ pc[t] = "unlock"
    /\ lock' = [lock EXCEPT ![dev[t]] = NoThread]
    /\ Return(t)
    /\ UNCHANGED <<fields, sync, state, regs, irq, status_lock, counters, charge, lost>>

-----------------------------------------------------------------------------
(* ESP_IOC_RUN and ESP_IOC_FLUSH take no lock                              *)

RunIoctl(t, d) ==
    /\ RunCalls
    /\ pc[t] = "idle"
    /\ Start(d, NoThread)
    /\ UNCHANGED <<lock, fields, sync, regs, irq, status_lock, counters, pc, call, rc,
                   charge, lost, flushed, outcome>>

FlushIoctl(t) ==
    /\ FlushCalls
    /\ pc[t] = "idle"
    /\ \E d \in Devices, r \in Accesses :
         /\ coherence' = [coherence EXCEPT ![d] = r.coherence]
         /\ dev' = [dev EXCEPT ![t] = d]
    /\ Goto(t, "ioc_flush_l2")
    /\ UNCHANGED <<lock, footprint, alloc_policy, ddr_node, sync, state, regs, irq,
                   status_lock, counters, req, rc, charge, lost, history>>

\* The caches are flushed as for an access, whether or not a signal breaks it
\* off; the call has no run to prepare.
FlushIoctlL2(t) ==
    /\ pc[t] = "ioc_flush_l2"
    /\ Goto(t, "ioc_flush_llc")
    /\ UNCHANGED <<lock, fields, sync, state, regs, irq, status_lock, counters, call, rc,
                   charge, lost, history>>

FlushIoctlLlc(t) ==
    /\ pc[t] = "ioc_flush_llc"
    /\ Out(t)

-----------------------------------------------------------------------------
(* The accelerator and its interrupt                                       *)

\* The accelerator ends its run, well or not.
Finish(d) ==
    /\ state[d] = "running"
    /\ \E how \in {"done", "error"} :
         /\ state' = [state EXCEPT ![d] = how]
         /\ outcome' = [t \in Threads |-> IF run_by[d] = t THEN how ELSE outcome[t]]
    /\ UNCHANGED <<lock, fields, sync, regs, irq, status_lock, counters, pc, call, rc,
                   charge, lost, run_by, flushed>>

\* esp_irq reads STATUS_REG and clears CMD_REG, which resets the accelerator.
IrqAck(d) ==
    /\ state[d] \in {"done", "error"}
    /\ irq[d] = "none"
    /\ irq' = [irq EXCEPT ![d] = state[d]]
    /\ state' = [state EXCEPT ![d] = "idle"]
    /\ UNCHANGED <<lock, fields, sync, regs, status_lock, counters, pc, call, rc,
                   charge, lost, history>>

\* Mutant: an error wakes nobody.
IrqComplete_err(d) ==
    /\ irq[d] # "none"
    /\ err' = [err EXCEPT ![d] = @ \/ irq[d] = "error"]
    /\ completion' = [completion EXCEPT ![d] = @ \/ irq[d] = "done"]
    /\ irq' = [irq EXCEPT ![d] = "none"]
    /\ UNCHANGED <<lock, fields, state, regs, status_lock, counters, pc, call, rc,
                   charge, lost, history>>

\* esp_irq sets err and completes.
IrqComplete(d) ==
    /\ irq[d] # "none"
    /\ err' = [err EXCEPT ![d] = @ \/ irq[d] = "error"]
    /\ completion' = [completion EXCEPT ![d] = TRUE]
    /\ irq' = [irq EXCEPT ![d] = "none"]
    /\ UNCHANGED <<lock, fields, state, regs, status_lock, counters, pc, call, rc,
                   charge, lost, history>>

-----------------------------------------------------------------------------
InCall(t) ==
    \/ Lock(t) \/ LockInterrupted(t) \/ Setup(t) \/ SetupFailed(t)
    \/ ConfigInterrupted(t) \/ Config(t) \/ Charge(t) \/ ConfigUnlock(t)
    \/ FlushL2(t) \/ FlushLlc(t) \/ FlushInterrupted(t)
    \/ Clear(t) \/ Transfer(t) \/ Run(t) \/ Wait(t) \/ WaitInterrupted(t)
    \/ UpdateInterrupted(t) \/ UpdateFull(t) \/ UpdateFootprint(t) \/ UpdateUnlock(t)
    \/ Unlock(t)
    \/ FlushIoctlL2(t) \/ FlushIoctlLlc(t)

Hardware(d) == Finish(d) \/ IrqAck(d) \/ IrqComplete(d)

Next ==
    \/ \E t \in Threads : AccessCall(t) \/ FlushIoctl(t) \/ InCall(t)
    \/ \E t \in Threads, d \in Devices : RunIoctl(t, d)
    \/ \E d \in Devices : Hardware(d)

Spec == Init /\ [][Next]_vars

-----------------------------------------------------------------------------
(* Properties                                                              *)

\* The variables have their types.
TypeOK ==
    /\ lock \in [Devices -> Threads \cup {NoThread}]
    /\ coherence \in [Devices -> Coherence]
    /\ footprint \in [Devices -> Nat]
    /\ alloc_policy \in [Devices -> Policies]
    /\ ddr_node \in [Devices -> Mems]
    /\ err \in [Devices -> BOOLEAN]
    /\ completion \in [Devices -> BOOLEAN]
    /\ state \in [Devices -> {"idle", "running", "done", "error"}]
    /\ coherence_reg \in [Devices -> Coherence]
    /\ pt_reg \in [Devices -> Threads \cup {NoThread}]
    /\ irq \in [Devices -> {"none", "done", "error"}]
    /\ status_lock \in Threads \cup {NoThread}
    /\ active_acc_cnt \in 0 .. Word - 1
    /\ active_acc_cnt_full \in 0 .. Word - 1
    /\ active_footprint \in 0 .. Word - 1
    /\ active_footprint_split \in [Mems -> 0 .. Word - 1]
    /\ pc \in [Threads -> Labels]
    /\ dev \in [Threads -> Devices \cup {NoDevice}]
    /\ req \in [Threads -> Access]
    /\ rc \in [Threads -> {"ok", "error", "EINTR"}]
    /\ charge \in [Devices -> {"none", "auto", "full"}]
    /\ lost \in SUBSET Devices
    /\ run_by \in [Devices -> Threads \cup {NoThread}]
    /\ flushed \in [Threads -> SUBSET {"l2", "llc"}]
    /\ outcome \in [Threads -> {"none", "done", "error"}]

\* active_acc_cnt is the number of accelerators configured by an AUTO access
\* and not yet released, however accesses interleave and fail.
ActiveCounted ==
    status_lock = NoThread =>
        active_acc_cnt = Cardinality({d \in Devices : charge[d] = "auto"}) % Word

\* At most one accelerator is fully coherent, and active_acc_cnt_full says
\* whether there is one: the coherence it is released with is the one it was
\* counted with.
Releasing(d) == lock[d] \in Threads /\ pc[lock[d]] = "update_footprint"
                                    /\ dev[lock[d]] = d
HoldsFull(d) == charge[d] # "none" /\ coherence[d] = FULL /\ ~Releasing(d)
OneFull ==
    /\ \A d, e \in Devices : HoldsFull(d) /\ HoldsFull(e) => d = e
    /\ active_acc_cnt_full = IF \E d \in Devices : HoldsFull(d) THEN 1 ELSE 0

\* The footprints from which AUTO decides are those of the accelerators that
\* go through the LLC, in all and for each memory controller.
Charged == {d \in Devices : charge[d] = "auto" /\ coherence[d] # NONE}
FootprintsCounted ==
    status_lock = NoThread =>
        /\ active_footprint = SumFunctionOnSet(footprint, Charged) % Word
        /\ \A m \in Mems : active_footprint_split[m] =
                             SumFunctionOnSet([d \in Devices |-> Share(d, m)], Charged) % Word

\* esp_status describes the accelerators in use, in number and in footprints,
\* whatever path a call left by.
StatusExact == ActiveCounted /\ FootprintsCounted

\* What an accelerator was counted for is taken back before another access can
\* use it.
ChargeHeld == \A d \in Devices : charge[d] # "none" => lock[d] # NoThread

\* An accelerator started by an access reads memory only after the caches its
\* coherence bypasses were flushed, by that access and for the coherence that
\* was programmed.
FlushCoversDma ==
    \A d \in Devices : state[d] = "running" /\ run_by[d] # NoThread =>
        /\ coherence_reg[d] < RECALL => "l2" \in flushed[run_by[d]]
        /\ coherence_reg[d] < LLC => "llc" \in flushed[run_by[d]]

\* AUTO is a request; the accelerator is programmed with a coherence it has.
\* Without a share in esp_status it is never the fully coherent one.
CoherenceResolved ==
    \A t \in Threads : pc[t] \in {"run", "wait"} =>
        /\ coherence_reg[dev[t]] \in NONE .. FULL
        /\ coherence_reg[dev[t]] = FULL => charge[dev[t]] # "none"

\* The answer an access gives is about the run it asked for: ok when the
\* accelerator finished it, an error when the accelerator reported one.
AnswerIsMine ==
    \A t \in Threads :
        req[t].run /\ pc[t] \in {"release", "update_footprint", "updated", "unlock"} =>
            /\ rc[t] = "ok" => outcome[t] = "done"
            /\ rc[t] = "error" => outcome[t] = "error"

\* Two accelerators never run fully coherent at once.
FullExclusive ==
    \A d, e \in Devices :
        /\ state[d] = "running" /\ coherence_reg[d] = FULL
        /\ state[e] = "running" /\ coherence_reg[e] = FULL
        => d = e

\* An access ioctl keeps the promise of EspJob.  A job begins when the start
\* bit is written and ends when esp_wait returns.
Waited(d) == run_by[d] # NoThread /\ pc[run_by[d]] = "wait"
JobOwner ==
    [d \in Devices |-> IF state[d] = "running" \/ Waited(d) THEN pt_reg[d] ELSE NoThread]
JobPhase ==
    [d \in Devices |->
        CASE state[d] = "running" -> "working"
          [] state[d] # "running" /\ JobOwner[d] # NoThread -> outcome[run_by[d]]
          [] OTHER -> "free"]
Job == INSTANCE EspJob WITH Callers <- Threads, Nobody <- NoThread,
                            owner <- JobOwner, phase <- JobPhase
JobSpec == Job!Spec

\* The accelerator ends its run, the interrupt is handled, and a mutex goes to
\* each of its waiters in turn.
Fairness ==
    /\ \A t \in Threads : /\ WF_vars(InCall(t))
                          /\ SF_vars(Lock(t) \/ Config(t) \/ UpdateFull(t))
    /\ \A d \in Devices : WF_vars(Hardware(d))
FairSpec == Spec /\ Fairness

\* Every call returns, unless it waits for an accelerator whose lock another one
\* left behind: without signals one whose P2P source was not found (esp.c:390).
AccessReturns ==
    \A t \in Threads :
        pc[t] # "idle" ~> pc[t] = "idle" \/ (pc[t] = "lock" /\ dev[t] \in lost)

=============================================================================
