# A verification project for the ESP accelerator drivers

The repository holds the Linux drivers that let several programs share the
accelerators of an ESP system-on-chip: a kernel allocator of the memory the
accelerators read, a kernel core that configures, starts and awaits them, two
drivers that flush caches, and libraries for user space. This directory models
the parts that keep state between calls, model-checks them with TLC on small
instances, and proves the main safety properties with TLAPS for every value of
the constants.

Paths below are relative to `src/drivers/`. `PROJECT.json` says which lines of
the source each definition translates (`map`), what every run checks (`runs`), how
each property has been seen to fail when the code is broken (`mutants`), what is
hard to test (`hazards`), and where the code disagrees with its comments
(`findings`).

## 1. Inventory

### 1.1 The contiguous allocator, kernel: `contig_alloc/contig_alloc.c`

*State.* Per DDR controller the list `inactive_chunks[]` of free chunks and the
count `mem_allocated[]`; the global `desc_list` of buffers (`struct contig_desc`:
chunks, size, the controller that holds most of it); per open file
`priv->desc_list`; one mutex, `contig_lock`.

*Operations.* `open`; `CONTIG_IOC_ALLOC` under one of three policies (PREFERRED,
LEAST_LOADED, BALANCED); `CONTIG_IOC_FREE`; `mmap`; the last `close`, which frees
what the file still has; `contig_khandle_to_desc`, called by the esp core.

*Hard.* The lists of a file are changed without a lock while `contig_mmap` walks
them under `contig_lock`; `contig_mmap` uses the descriptor after the unlock; an
allocation has to be undone when the copy to user space fails; three policies
share counters that BUG_ONs check calls later.

*Correct when* the counters say what the lists say, no chunk is lost or in two
buffers, every descriptor has one owner, a closed file leaves nothing behind, a
buffer does not change under its user, no BUG_ON fires, each policy puts chunks
by its rule (`include/contig_alloc.h` words them; the code departs from it for
LEAST_LOADED, see section 5), and every call returns.

### 1.2 The esp core, kernel: `esp/esp.c`

*State.* Per accelerator (`struct esp_device`) a mutex, the fields of the access
in progress, `err`, a completion, and the registers; for all of them
`esp_status`: the number of active accelerators, whether one is fully coherent,
and the footprints per controller, under a mutex of its own.

*Operations.* The access ioctl (configure, choose the coherence, flush, program,
start, wait, account); the run and flush ioctls, which take no lock; the interrupt
handler; registration, removal, the list of devices and its use by
point-to-point (P2P) transfers.

*Hard.* Every wait may be broken off by a signal; on most of those paths the
code leaves with a mutex held or a share of `esp_status` still charged; the
accelerator goes on after its caller left; the interrupt races the caller; what
is taken back from `esp_status` is computed again, not remembered; two ioctls
work beside the lock.

*Correct when* `esp_status` describes exactly the accelerators that were charged,
at most one accelerator runs fully coherent, no run starts before the flushes its
coherence needs, an answer is about the caller's own run, and every access
returns.

### 1.3 libcontig, user space: `contig_alloc/lib.c`

*State.* `fd`, `chunk_size` and a mutex shared by the threads of a process; per
buffer a request with its mapping and kernel handle.

*Operations.* `contig_init` (lazy open), `contig_alloc`, `contig_alloc_policy`,
`contig_free`, `contig_copy`, accessors.

*Hard.* Threads race for the first open; `fd` is published before `chunk_size` is
known; error paths of an allocation.

*Correct when* one descriptor stays open, every buffer is freed through the one
it came from, no handle is lost, and no legal call ends the process.

### 1.4 The cache drivers, kernel: `esp_cache/`

*State.* Two lists of devices, one of banks of the last-level cache (LLC), one of private
caches (L2); a mutex per bank; one mutex for the list of private caches; per cache a
command and a status register.

*Operations.* `esp_private_cache_flush` commands every L2 under the mutex of the list,
waits until each command has arrived, has every processor flush its L1, and waits for
each L2. `esp_cache_flush` flushes the banks one by one, each under an interruptible
mutex. Probe and remove of both.

*Hard.* `BUG_ON(cmd_reg)`; a command that is lost, or that is over before anyone looks; a
signal between two banks; flushes that run beside each other; devices that come and
go.

*Correct when* a flush that returns 0 has brought what its caller wrote to where the
accelerator looks for it, no two flushes drive one register, no walk meets a device
that is gone, and every flush returns.

### 1.5 libesp and the workload generator, user space

*State.* `libesp/libesp.c`: the buffer, the descriptors and threads of a call.
`synth/app/synth.c`: per phase and thread a buffer, a chain of accesses and a policy.

*Operations.* `esp_alloc`; `esp_run` configures the accesses, opens one device per
entry, starts one thread each, joins them and closes; `esp_cleanup`. The generator
goes through nine phases: configure chains, allocate, open, start, join, free.

*Hard.* A buffer is looked up by handle without a reference while a program may fail
or be killed at any point, with accelerators at work; failures of `pthread_create` and of the
ioctl are printed and forgotten. Sizes and offsets of the regions of a chain are
summed up by different rules; hand-written tables say which accelerators run in
parallel.

*Correct when* no buffer is freed under an access, `esp_run` leaves no thread behind, a
killed program ends; the regions of a chain fit its buffer and feed each other, and
parallel chains do not share an accelerator.

### 1.6 The rest

The Linux drivers of single accelerators (`mac`, `fft`, `sort`, ...: one template of
probe, `xfer_input_ok` and `prep_xfer`), the test harness `test/`, the applications,
and the bare-metal programs (`probe/`, `*/barec`, `dvi`).

### 1.7 How they interact

    application ── libesp ── ioctl ──────────> esp core ── registers ──> accelerator
        │                                      │  │  ^                       │
        │                                      │  │  └────── interrupt ──────┘
        └── libcontig ── ioctl, mmap ─> allocator │
                                  ^      khandle  └─ flush ──> LLC and L2 drivers
                                  └──────┘

A thread gets a buffer from the allocator through libcontig, hands its kernel
handle to an access ioctl, and the esp core gives the buffer's page table to the
accelerator. The policy and the controller of the buffer come back to user
space and from there into the access, where the esp core charges the traffic.

## 2. Modules

| module | models |
|---|---|
| `ContigAlloc` | the allocator: one action per operation, cut where threads interleave |
| `ContigAbs` | what the allocator promises: buffers appear and disappear whole |
| `ContigAlloc_proofs` | the allocator's bookkeeping, its policies, and that it implements `ContigAbs`, proved |
| `EspAccess` | the esp core: access, run and flush ioctls, interrupt, accelerator |
| `EspJob` | what an access promises: one job at a time, answered to its caller |
| `EspAccess_proofs` | the theorems about accesses, and that they implement `EspJob` |
| `EspCaches`, `EspCaches_proofs` | the two cache drivers with their hardware, and their theorems |
| `EspDevices`, `EspDevices_proofs` | devices, drivers, open files and P2P lookups of the esp core; theorems |
| `LibContig`, `LibContig_proofs` | libcontig in one process, and its theorems |
| `LibEsp`, `LibEsp_proofs` | programs using libesp, composed with the life of their buffer and of their accesses in the kernel; theorems |
| `SynthChains`, `SynthTables`, `SynthChains_proofs` | the workload generator, its tables, and theorems for any tables |
| `DataLemmas` | lemmas about lists, sums over finite sets and remainders that the proofs share |
| `MCContigAlloc`, `MCEspAccess`, `MCEspCaches`, `MCEspDevices`, `MCLibContig`, `MCLibEsp`, `MCSynthChains` | the instances for TLC |

Variables and actions keep the names of the code where it has one. Definitions
whose names have a suffix and whose comment begins with "Mutant" are plausible
bugs; nothing uses them except `mutants` in `PROJECT.json`.

### 2.1 ContigAlloc

A chunk is `<<controller, number>>`; `inactive_chunks`, `desc_list` and each file's
list are sequences or sets of chunks and descriptors, `alloc_list[d]` the chunks of
descriptor `d`. A thread's `pc` names the point between two steps:

* `alloc` to `fill`: `AllocRefused` (`contig_alloc_ok`, no room), `AllocLock` takes
  the mutex and chooses the first controller, `Fill` takes one chunk,
  `FillDone` ends the loop and gives the mutex back, `CopyOut` copies to user
  space or fails, `Link` adds to the file's list.
* `unlink` to `drain`: `FreeFind` and `Unlink` are the two halves of
  `contig_free_ioctl` between which nothing is locked, `FreeLock`, `Drain` (one
  chunk) and `DrainDone` are `contig_free`. `ReleaseCall` and `ReleaseNext` are the
  last close, which goes through the same steps for each buffer.
* `mmap` to `remap`: `MmapCall`, `MmapLock`, `MmapFind` (four exits), `Remap`, which
  reads the descriptor with no lock.

Sizes are counted in chunks wherever the code counts in multiples of
`chunk_size`; a request keeps its bytes and is rounded up as in the code.
`deallocated`, an `unsigned int` in the code, wraps at `UIntChunks`. `oops` records that
a BUG_ON fired or freed memory was touched.

### 2.2 EspAccess

The access ioctl is cut at the places where something else may happen: `Lock`,
`Setup` (with the P2P lookup) or `SetupFailed`, `Config`, `Charge` and `ConfigUnlock`
(`esp_runtime_config` between lock and unlock of `esp_status.lock`, also for a FULL
access), `FlushL2`, `FlushLlc`, `Clear` and `Transfer` (`esp_transfer`), `Run`, `Wait`,
`UpdateFull`, `UpdateFootprint` and `UpdateUnlock` (`esp_update_status`), `Unlock`. Every
interruptible wait has its interrupted twin: `LockInterrupted`, `ConfigInterrupted`,
`FlushInterrupted`, `WaitInterrupted`, `UpdateInterrupted`; all but `WaitInterrupted` leave
through `Out`, which, as in the code, gives no mutex back. `lost` are the accelerators
whose `esp->lock` was left that way. `RunIoctl` and `FlushIoctl...` take no lock. `Finish` is the accelerator,
`IrqAck` and `IrqComplete` the halves of `esp_irq`. The constants `Signals`, `RunCalls` and
`FlushCalls` say which of these a run or a theorem admits.

The code outside `src/` is the accelerator alone: it ignores the start bit while it
runs, ends well or not, and is idle again when `CMD_REG` is cleared. That is how
`esp_irq` and `esp_run` use it. A flush is a step that another flush can delay;
`#ifndef __riscv` in `esp_flush` is taken, since otherwise there is no flush at all.
`charge`, `run_by`, `flushed` and `outcome` are history: no guard reads them.

### 2.3 EspCaches

`L2Lock`, `L2Start` (with the BUG_ON), `L2Set`, `L1Flush`, `L2Check`, `L2Wait`, `L2Done` are
`esp_private_cache_flush`; `BankLock`, `BankInterrupted`, `BankFlush`, `BankWait`, `BankClear`
the loop of `esp_cache_flush`; `ProbeL2`, `RemoveL2`, `ProbeBank`, `RemoveBank` the two
drivers' probe and remove. A cache is two bits of its registers and `hw`, what it does:
a command that was written is `posted` until it arrives (`Latch`; the code waits for that,
"may loose synch flush with L1 otherwise"), an L2 is then `armed` until the flush
of L1 starts it, and a flush ends at `SweepEnd`, where an L2 may reset its command
register itself, the case the second loop allows for. A flush writes back the lines that are in the
cache when it begins: `loc[x]` says how far line `x` has come, programs `Store` before
they call, and caches `Evict` at any time. The hardware is outside `src/`; this is how the
drivers use it. The list of banks is walked without any lock; that a bank
is not unbound by hand during the walk is assumed, in the guard of `RemoveBank`.

### 2.4 EspDevices

A driver is loaded, going or out (`Insmod`, `Rmmod`, `RmmodDone`). A device goes through
`Probe`, `CdevAdd`, `DeviceCreate`, `RequestIrq`, `MapRegisters`, `ListAdd`, `Registered`; each step
but the last two has its failure, which takes back what the code takes back, and `MapFails`,
where the error pointer is taken for a mapping, kills the thread. `held` is what the device has
at each point: it can be opened as soon as it has its cdev. It is removed by `ListDel`, `Unlink`
and `Release`. `Open` and `Close` move the references of the module. An access of a file
locks its device (`P2pInit`), looks up its sources one by one on the list (`LookUp`, `WalkOn`,
`Found`, `NotFound`) under `esp_devices_lock`, sets P2P_REG bit by bit (`P2pDone`) and ends; the
part in between is `EspAccess`.

`list_del` of `esp_device_unregister` takes no lock, as in the code. It begins at `ListDel`
and takes the device off at `Unlink`; a walk between or after them may break (`WalkBreaks`). Another
writer that begins in between on a neighbouring entry, be it another `list_del` or `list_add` under
the lock, overlaps with it: from then on (`raced`, the drivers of the first two that did) the
list of the model is what the writers meant, and a walk may go from any device to any
other and break at each. `steady` are the devices that were listed all through an access.
Both are history. `dangling` are files whose device was freed under them; what
a program then does is undefined and is not followed. `Parallel` are the drivers
whose devices several processes bind by hand at once, `Unbinds` the devices that are
unbound by hand, `Failing` those whose registration may fail, at any step.

### 2.5 LibEsp

The main thread of each program goes through `esp_alloc`, `esp_run` (`esp_config`, `Open`,
`Create`, `Join`, each with its failure), `esp_cleanup` and `End`; each worker through the
points of the access ioctl that matter to the buffer: `Lookup` (`contig_khandle_to_desc`),
`Lock`, `Flush`, `Transfer`, `Wait`, with its early returns (`Refused`) and those that keep `esp->lock`:
`SourceMissing`, `FlushInterrupted`, `UpdateInterrupted`. `Kill` may come at any time; the interrupted
twins are open only to a program that is dying, and `Reap`, the close of its files, waits for its
threads to leave the kernel. That a flush ends is left to `EspCaches`. `Finish` is the accelerator. `left` remembers that the
ioctl left before its run was over.

### 2.6 LibContig

`AllocCall` and `FreeCall` are the fast path of `contig_init`; `Open`, `Lock`, `Publish`,
`ReadChunk`, `Unlock`, with `OpenFails`, `CloseFails`, `ReadChunkFails` and `GiveUp`, the slow
one; `Size`, `CallocFails`, `DivideByZero`, `Alloc`, `AllocFails`, `Mmap`, `MmapFailed` and
`Free` the bodies of `contig_alloc`, `contig_alloc_policy` and `contig_free`. The kernel is
seen through its system calls: `files` the open descriptors, `buffers` the one each
buffer was allocated on. The division by an unset `chunk_size` traps or yields all
ones (a size `calloc` refuses), depending on the processor.

### 2.7 SynthChains and SynthTables

`main` is a loop over phases and, in each step of it, over threads: `Configure` is
`config_thread` for one accelerator with the sizes it reads and writes, its `Offset`
and the `Words` of the buffer so far; `AllocThread` chooses the policy (`Params`, with
`LargestThread` and `PreferredNode`); `Prepare`, `Create`, `Join`, `Free` are the functions of
those names; `Advance(t)` is the end of one ioctl in a thread's chain. The tables are constants of
`SynthChains`, given in `SynthTables` as the program has them.

## 3. What is checked

| run | instance | shows |
|---|---|---|
| `contig` | 2 processes, 3 + 2 chunks, 3 descriptors, 6 requests | nine properties of the allocator, with its refinement of `ContigAbs` |
| `contig_live` | 1 + 1 chunks, 2 descriptors, fairness | every call returns |
| `contig_penalty` | as `contig`, 2 descriptors | finding: a LEAST_LOADED buffer on DDR0 against the penalty |
| `esp` | 2 threads, 2 accelerators, signals | `esp_status` stays exact on every path |
| `esp_caches` | 2 threads, 1 accelerator, every access, signals, run ioctls | flushes cover the programmed coherence |
| `esp_beside` | 2 threads, 1 accelerator, flush ioctls, P2P sources that do not exist, fairness | answers are the caller's own; refinement of `EspJob`; accesses return |
| `esp_late` | as `esp_caches`, few accesses | finding: an interrupted access's interrupt answers the next |
| `libcontig` | 3 threads, 3 descriptors, 2 buffers, fairness | the race for the first open, and every call returns |
| `caches` | 2 threads, 2 L2s, 2 banks, 1 line, signals, hotplug, fairness | data reach the accelerator, no BUG_ON, every flush returns |
| `libesp` | 2 programs, 2 entries, 2 accelerators, kills, failures, fairness | no buffer is freed under an access; a killed program ends |
| `devices` | 2 drivers of 2 devices, 2 files, P2P, every step of a registration failing | lookups are exact, unloading is safe, nothing is left behind, until writers overlap on the list, and who can |
| `synth` | the generator's own nine phases | chains are disjoint, regions fit, the largest buffer is near |

### 3.1 The properties

*Allocator.* `CountersExact`: `mem_allocated` is what the free lists lack, also between
two chunks. `OneHome`: each chunk is on one free list or in one buffer. `OneOwner`:
each live descriptor is on one file's list or in one call's hands. `NoOops`: no BUG_ON.
`PoliciesKept`: where the chunks of each of the three policies are, by the code's own rule;
for LEAST_LOADED that is one controller, and DDR0 exactly when it is below DDR1 by more than
the threshold or DDR1 has no room. The header's rule has no such exception: that is
`PenaltyKept`, which `contig_penalty` shows to fail. `MostAllocated`:
the reported controller has the most. `BufferStable`: a buffer on a list keeps its
chunks. `AbsSpec`: a buffer appears at once and goes at once although chunks move one
at a time. `CallsReturn`.

*Esp core, accesses.* `StatusExact` and `OneFull`: each counter equals what the
history says was charged. `ChargeHeld`: a share is taken back before the
accelerator can be used again. Under signals this holds because `esp->lock` is never
given back on those paths: the price is that the accelerator is lost, which
the hazards at lines 390 to 434 record. `FlushCoversDma`: what the accelerator was
programmed with is what the flushes were for. `AnswerIsMine`, `JobSpec`: an access
answers for its own run, and runs of one accelerator do not overlap.
`AccessReturns`: no lost wake-up; an access returns unless it waits for an accelerator whose lock
another one kept, without signals one whose P2P source was not found (`esp.c:390`).

*Esp core, devices.* `LookupExact`: `strncmp` over the length of the device's own name
lets `adder.1` answer for `adder.10`, and the search stops at the first that answers;
it is the order of the list, newest first, that keeps the lookup exact, also while
devices are removed under it. `P2pDecodes`: what the access runs with in P2P_REG decodes to the
number of sources it asked for, each a device of the driver named, and the very device named
if that was registered since the access began. `UnloadSafe`: no file outlives its device and no
walk meets one that is gone, except in the cases it names (`OpenAlive`, `WalkSafe`).
`NothingLeft`: after any failed registration and any removal. All four hold of the list only until
two writers overlap on it, and say so: `RacesApart`, a part of `UnloadSafe`, is what can be said of
that, namely that the first to overlap are of two drivers, or of one whose devices are unbound
by hand, so that loading, unloading and using one driver never gets there.

*Cache drivers.* `DataReached`: a flush that returns 0 has brought the data written
before it to where the accelerator looks, through L2 and every bank. `NoBugOn`.
`WalkBound`: no walk is on a private cache that was removed. `FlushReturns`: no command is lost between the two loops.

*libcontig.* `OneDescriptor`, `BuffersReachable`, `HandlesTracked`, `CallsFinish`.

*libesp.* `BufferLive`: between the lookup without a reference
(`contig_alloc.c:383`) and the transfer, and under an accelerator at work, the buffer is
allocated, unless a fatal signal ended the ioctl of that run. What keeps it so is that
`esp_run` joins its threads before `esp_cleanup`, and that the files of a killed
program are closed by the last of its threads. `RunLeavesNothing`: when `esp_run`
returns, what it leaves open are the descriptors of entries it did not run.
`KillEnds`: with nothing assumed of the accelerators.

*synth.* `ChainsDisjoint`, `RegionFits`, `LargestNear`, over the program's own tables.

### 3.2 The bounds, and why they are enough

* Allocator: five chunks over two controllers let every policy run off the end of one
  controller and come back; three descriptors leave room for two buffers and one
  being made; the requests fit
  one controller, need both, or take all the memory, so that they are refused once
  something is allocated; sizes are multiples of a chunk or not, and one caller's
  array is too short for its buffer. The descriptors and the processes are interchangeable (SYMMETRY).
* Esp core: two threads contend for one accelerator or for `esp_status`; more add only
  waiters. `Crowd` (6 in the code) is 2, so that the limit is met by two accelerators,
  and 3, so that it is not. Cache sizes of 2, 3 and 6 units against footprints of 1,
  3 and 6 make each choice of coherence occur. `Word`, where counters wrap, is 16, or
  2 in `esp_beside` where no counter is checked and a flush ioctl makes them drift:
  16 there would only repeat each state. `esp_beside` has one accelerator, on which both
  threads meet; contention for `esp_status.lock` needs two, and is met in `esp`. `esp` uses a VIEW that leaves out what
  no guard and none of its properties reads: registers, answers, and fields that are
  written before they are read again. Symmetry is used in no run with a liveness
  property.
* libcontig: three threads make one win the race, one close its descriptor and one
  take the fast path.
* Caches: two of each kind, one that stays and one that comes and goes, so that
  walks have a first and a last device and both loops meet a changed list; one line,
  written by one thread while the other flushes too. Lines do not interact.
* Devices: numbers in base 2 up to `MaxNumber` = 2, so that 1 is the beginning of 2 as in
  base 10 it is of 10, and every device may be bound twice. One driver is bound by
  several processes at once (`Parallel`), the other has a device that is unbound by
  hand (`Unbinds`); a driver with both breaks `LookupExact`, since a number could then be
  given twice, the older device last. Programs open one device, on which they wait for each other, and one request
  names devices of both drivers; the files are interchangeable (SYMMETRY). Once writers have
  overlapped on the list, states are followed only during a walk (`Followed`), since
  nothing else depends on what is then on it. A VIEW leaves out the registers of devices that no
  access has locked, which are cleared before they are read.
* libesp: two programs meet on two accelerators, one of them calls `esp_run` again
  (`MaxRuns`); entries that run, do not, have an unknown type, or name a P2P source that does not
  exist, after which `esp->lock` stays held.
* synth: no bound but `Width`, the threads of a phase at work at once, which is 2
  because the property compares two. Creation waits for room, so that every two
  threads of a phase meet: the first stays where it is while those in between finish.

`CHECK_DEADLOCK FALSE` is set where the system really stops: after a signal has left a
mutex locked (`esp`, `esp_caches`, `esp_late`), or a P2P source that does not exist has (`esp_beside`),
after the process or the programs have
ended (`libcontig`, `libesp`, `synth`), after all numbers are used up or a walk broke (`devices`).

### 3.3 Fairness

*Weak fairness of a call's steps*: the scheduler runs every thread, and no step of these
calls waits except for a mutex, a completion or a register. *Strong fairness of taking a mutex*: Linux
mutexes hand over to waiters that starve; for libcontig's pthread mutex it
is an assumption about the C library, needed for `CallsFinish` only when calls never stop.
*Weak fairness of the hardware*: an accelerator
ends its run and its interrupt is handled; a posted command arrives and a flush ends.
Without them `esp_wait` and the loops of the cache drivers have no bound. `KillEnds` assumes
nothing of accelerators, and not that `esp->lock` is given back: a fatal signal breaks off these
waits. It does assume that a flush ends, since `esp_private_cache_flush` takes its mutex and spins
whatever signals come; `FlushReturns` shows it, under the fairness of the hardware. No
thread has to make a call. Liveness is stated without signals for the esp core,
because with them the code stops for good (see `ChargeHeld` above), and with the exception of
`lost` for the same reason.

## 4. What is proved

Each theorem holds for every number of threads, files, devices, chunks, requests
and sizes that the module's assumption admits.

**`ContigAlloc_proofs`.** `TypeCorrect` needs `ConstantsAssumption` alone. `InvariantHolds`,
`NeverOops`, `AllocatedIsExact`, `ChunksHaveOneHome`, `DescriptorsHaveOneOwner` assume
`PrivateFiles` (two threads do not call through one file), `NodesInRange` (a PREFERRED
request names a controller that exists: `contig_alloc_ok` lets one too many
through, line 490) and `NoWrap` (the memory is below 4 GB: line 346). The first is
needed: two threads that free one buffer of a shared file both find it before either
unlinks it (line 561). libcontig shares one file among the threads of a process, so there the
assumption rests on the program, whose threads must not free the same buffer at once.
The inductive invariant `IInv` joins the properties with what makes them
inductive: who holds `contig_lock` and where it then is; that a call has the
descriptor it works on to itself; how many chunks a buffer has at each point of
the loop; and `SumInv`, that `Room(k)` is the length of the free list, which is
what the BUG_ONs of the policies rest on: BALANCED and PREFERRED never find both
controllers full, because the chunks still to be placed are no more than the room
left, and a LEAST_LOADED buffer fits where it was begun. `DataLemmas` says that taking
the head of a list, appending to it or deleting from it keeps its elements distinct, by
cardinalities and ranges, with no induction over sequences.

What a buffer is to its users: `PoliciesKeep`, `ReportsMost`, `BuffersStay` and `BuffersAreAtomic`, under
the same assumptions; the last also asks that no pair of a descriptor and a file is the
value that stands for no descriptor. `PolicyInv` says what the loop of each policy has
placed so far: PREFERRED fills its controller before the other, LEAST_LOADED stays where
it was begun, which is where the code's two tests say, BALANCED is a whole number of clusters and one whose length
`cluster_chunk` gives; `most_allocated` then follows by cardinalities. The
refinement maps the end of the loop (`FillDone`) to `Alloc`, the start of
`contig_free` under the mutex (`FreeLock`) to `Release`, and every other step to a stutter. `ListedInv`
says which descriptors are in `desc_list`; that a chunk has at most one owner, `OneHome` and
`OneOwner`.

**`EspAccess_proofs`.** `TypeCorrect` holds with every ioctl and signal. `OnlyOneFull`,
`SharesAreHeld`, `RunsAreFlushed` and `ProgrammedIsResolved` hold with signals and run
ioctls but without flush ioctls: one that changes `esp->coherence` under an access
breaks the counts, and between the flush and the programming it makes the flush the wrong one.
`ActiveIsExact` adds that `active_acc_cnt` is a cardinality, for any finite number of
accelerators: `CountInv` counts those whose share is not being
taken back, and knows that a call takes back what it was counted as. `StatusIsExact` adds the
footprints: `FootInv` says that each of the counters is, modulo its word, the sum of the
shares not yet taken back. What is taken back is computed again from the device's
fields, and the proof shows that it is what was added; the sum changes in
one term (`DataLemmas`), and since only remainders are compared, wrapping around does no harm.
`AnswersAreOwn` and `AccessesAreJobs` hold with flush ioctls but without signals (`esp_late` shows why) and run
ioctls, `FullRunsAlone` without any of the three. The invariant ties every label of the access ioctl to the lock it holds,
to the device's fields, to the charge and to the state of the hardware: between the
start bit and the interrupt the accelerator is running, has an unacknowledged
result, or an interrupt to report, or the completion is done, and exactly one of these.
`JobInv` adds, for `AccessesAreJobs`, that a call past the programming has its own buffer in
the register and a call that waits has the run: the start bit is `Begin`, the end of the run
`Finish`, the return of `esp_wait` `Tell`.

**`LibContig_proofs`.** `OneDescriptorOpen`, `BuffersKnown`, `FreeNeverAborts`, `HandlesKnown`, for any number
of threads, from the invariant that the mutex is held from the look at `fd` to the unlock, that the
descriptors still in the race differ from each other and from `fd`, and that a
call which holds a buffer came after `fd` was set; `KnownInv` adds that a buffer of the
kernel is held by the program, in the hands of one call, or lost to a failed `mmap`.

**`EspCaches_proofs`.** `TypeCorrect`, `NeverBugs`, `DataReaches`, `WalksStayBound`,
`CommandsExclusive`, for any number of caches, lines and threads, with signals, hotplug and
with or without SMP. `NoBugOn` and `DataReached` are not inductive: that a command register is
clear at the BUG_ON follows from what every walk leaves behind. `IInv` is the conjunction
of `ListInv` (lists without repetition; what a call has seen is listed), `HoldInv` (the
mutex is held exactly in the walk of the L2s), `HwInv` (what registers say of the
hardware), `WalkInv` (in the first loop what is behind is started and what is ahead is
quiet; in the second what is behind is quiet again, and caches off the list always
are), `BankInv` (one thread per bank) and `LineInv`: where a caller's line is at each
point of its call, and that a flush in progress will carry it on. `LineInv` is the
argument of `DataReached`: after the walk of the L2s the line is in no L2, and after
each bank of `todo` it is not in that bank.

**`LibEsp_proofs`.** `TypeCorrect`, `BuffersLive`, `RunsLeaveNothing`, for any number of
programs, entries, devices and calls. `BufferInv` and `WorkInv` say that a worker in the kernel
has a program which is creating, joining or dying, and that the join has not passed it;
`JobInv` that an accelerator that was not left belongs to a worker that waits for it;
`FdInv` which descriptors are open in each call of `esp_run`. `BuffersLive` does not cover the run whose
ioctl a fatal signal ended: the accelerator goes on over the buffer that the close then frees
(`esp.c:234`, `contig_alloc.c:473`), and the theorem excepts it by `left`.

**`EspDevices_proofs`.** `TypeCorrect`, `UnloadIsSafe`, `NothingIsLeft`, `LookupsExact`, for any
number of drivers, devices and files, any base and any requests, under `UnbindsAlone`: the
devices that are unbound by hand are of drivers that nobody binds in parallel. The
hypothesis is needed: two probes at once take one number, and the one that gets the node
may finish last. `DevInv` ties what a device holds to how far its registration has come,
`NumInv` says that a node has a number of its own and that a device which
has its node and is not yet counted has the next one, `NumbersDescend` that the list is ordered,
`RefInv` that the references of a module are twice its open files, `WalkInv` what a
walk knows: nothing it passed has the name it looks for, and a device taken off
the list under it is newer than what is left; it knows so only while `raced` is empty.
`RaceInv` is why a driver does not race with itself: before it removes its devices, one by one, the
kernel waits for those who bind and unbind them. Two drivers are kept apart by nothing.
`RegistersDecode` is about P2P_REG, under the same hypothesis. `P2pInv` says that between the lock and
the unlock of an access the thread holds the mutex of its own device, that the sources it passed
are in the register's fields in their order, with the last field counting them, and that
nothing else is there: sources are ORed into the register, so that a field comes out right only
if nothing was in it, neither of an access before nor of a source to the left.

**`SynthChains_proofs`.** `TypeCorrect`, `RegionsFit`, `LargestIsNear` for any tables of phases,
threads, chains, sizes and hops that `SynthAssumption` admits (no chain is empty, nodes are numbered from 0), and
`ThreadsApart` for those that satisfy `TablesDisjoint`; `OwnThreadsApart` proves that the program's own
tables do, by giving each accelerator its owner. `ChainInv` says which accesses are
configured at each point of `main`, `PlaceInv` what exists in each of its loops, `DescInv` that an access
is the table's and writes no more than it reads, which is why an access in place fits.
`LargestIsNear` needs what the loops of `alloc_phase` find. The model writes them as one fold,
`FirstMost`; the community modules define a fold by a recursive function, and `BestTableExists`
shows that this function exists, without which nothing could be said of its values.

**`DataLemmas`.** `NumberInduction` is induction in the form these provers can use: a set of
numbers with 0 and with the successor of each member holds them all. It is proved from the theorem about
well-founded sets and stands in for the library's induction over operators; sums over finite sets
and the fold of `FirstMost` are reasoned about with it.

### 4.1 Only model-checked

Liveness: `CallsReturn`, `AccessReturns`, `CallsFinish`, `FlushReturns`, `KillEnds`, which is
out of the prover's reach. Every invariant and every action property of a passing run is a theorem, and
so are the two refinements, under the hypotheses given above. The symmetry and the VIEWs of
the runs play no part in the proofs.

## 5. Findings

`esp.c:235`, shown by `esp_late`: after an interrupted wait the accelerator is still at
work, and the next access is answered by the old run.

`contig_alloc.c:203`, shown by `contig_penalty`: a LEAST_LOADED buffer that does not fit behind DDR1
goes to DDR0 whatever the threshold, where `include/contig_alloc.h:33-35` says "only when".

Read while modelling, and not made a run of their own, because nothing in the
repository promises otherwise, the outcome is undefined, or the instance would be
trivial:

* `contig_alloc.c:490` the bound of `ddr_node` is off by one; `contig_alloc.c:354` the sum
  that is compared wraps for a buffer of 4 GB; `contig_alloc.c:561` two threads on
  one file unlink one descriptor twice.
* `esp.c:390`, `404`, `414`, `434` leave with a mutex held; `esp.c:473` the flush ioctl changes
  `esp->coherence` under a running access; `esp.c:565` requests the interrupt before the handler can
  find the device (`esp.c:62`); `esp.c:610` takes a device off the list without its lock;
  `esp.c:573` looks for NULL where
  `devm_ioremap_resource` returns an error pointer; `esp.c:603` frees a device that the
  driver, `synth/linux/synth.c:103`, then frees again.
* `lib.c:67` `fd` is published before `chunk_size` is known.
* `synth.c:501-509` the phases are announced as small and large the other way round from
  what the sizes say; `synth.c:450-463` both arguments are read from `argv[1]`; the
  descriptors of `prepare_thread` are never closed.

## 6. Not modelled, and why

* `contig_copy`, mapping lengths and `munmap` of the first chunk only (`lib.c:178`):
  data and address space, no interleaving.
* Module init's failure paths, `CONTIG_IOC_CHUNK_LOG`: start-up, and a constant.
* `prep_xfer` and `xfer_input_ok` of the per-accelerator drivers: register writes and one
  comparison of sizes each.
* The data that `synth` writes and compares, and its output. `synth/invocation.c` does
  not compile.
* What a program does with a device or a buffer that was freed under it: undefined.
* The test harness and the applications: sequential, command lines and golden data.
* The bare-metal programs (`probe/`, `*/barec`), `dvi`: sequential register I/O without a
  kernel, and generated tables of input data. `vitbfly2/app` and the `data*.h` files
  alone are over 37,000 of the repository's 54,000 lines, so that the share of lines the
  models stand for is small although they cover the drivers' and libraries' control.

## 7. What could come next

1. `EspAccess` and `EspCaches` composed, in place of the flush steps of `EspAccess`, with
   the refinement proved.
2. `contig_copy` with the sizes of mappings, shared with `munmap`.
3. The failures of a module's initialisation.
