----------------------------- MODULE EspDevices -----------------------------
(***************************************************************************)
(* The devices of the esp core, src/drivers/esp/esp.c, and the template of *)
(* the accelerator drivers (src/drivers/synth/linux/synth.c): loading and  *)
(* unloading a driver, registering and removing a device step by step,     *)
(* open and release, and the point-to-point (P2P) part of an access, which *)
(* looks its sources up on the list of all devices.                        *)
(*                                                                         *)
(* A device is bound and unbound when its driver is loaded and unloaded,   *)
(* or by hand through sysfs.  The list is kept under a spinlock, except    *)
(* that esp_device_unregister takes a device off it without: two writers   *)
(* that overlap on neighbouring entries leave the list with a freed device *)
(* on it, or with one missing.  From then on esp_devices is the list that  *)
(* the writers meant, and a walk may meet any device; what the writers do  *)
(* to the memory of a freed device is not followed.  A name is a driver    *)
(* and a number; that strncmp looks at the length of the device's own name *)
(* only makes one number match another that it is a prefix of.             *)
(***************************************************************************)
EXTENDS Integers, Sequences, SequencesExt, FiniteSets

CONSTANTS
    Drivers, Devices,
    driver_of,       \* [Devices -> Drivers]
    yx,              \* per device: the tile it is on, <<y, x>>
    Base,            \* base in which numbers are written (10 in the code)
    Files, Used,     \* open files, the devices that programs open
    Requests,        \* the P2P parts of the accesses made
    Failing,         \* devices whose registration may fail, at any step
    Unbinds,         \* devices that are unbound and bound again by hand
    Parallel,        \* drivers that several processes bind by hand at once
    MaxNumber,       \* bound: number of the last device of a driver
    NoFile, NoDevice

Names == Drivers \X Nat
Tiles == (0 .. 7) \X (0 .. 7)
Access == [p2p_srcs : Seq(Names), p2p_store : BOOLEAN]

ASSUME DevicesAssumption ==
    /\ driver_of \in [Devices -> Drivers]
    /\ yx \in [Devices -> Tiles]
    /\ Base \in Nat \ {0, 1} /\ MaxNumber \in Nat
    /\ Requests \subseteq Access
    /\ \A r \in Requests : Len(r.p2p_srcs) <= 4      \* esp.c:370
    /\ Used \subseteq Devices
    /\ Failing \subseteq Devices /\ Unbinds \subseteq Devices
    /\ Parallel \subseteq Drivers
    /\ IsFiniteSet(Files)
    /\ NoFile \notin Files /\ NoDevice \notin Devices

VARIABLES
    module, refs,    \* per driver: out, live or going; its reference count
    synth_devs,      \* per driver: devices registered since it was loaded
    number,          \* per device: esp->number
    pc, held,        \* per device: where registration or removal is, and which
                     \*   of cdev, node, interrupt and registers it holds
    esp_devices, esp_devices_lock,
    raced,           \* the drivers of the first writers that overlapped on the
                     \*   list; none as long as there are none
    file, dangling,  \* per file: its device; the files whose device was freed
    lock,            \* per device, esp->lock: its holder
    io, req, k, at,  \* per file: where its access is, what it asks for, which
                     \*   source it looks for, the device that the walk is on
    steady,          \*   and which devices were on the list all through it
    P2P_REG          \* per device: the bits set in its register

driver == <<module, refs, synth_devs>>
device == <<number, pc, held>>
list == <<esp_devices, esp_devices_lock, raced>>
access == <<lock, io, req, k, at, steady, P2P_REG>>
vars == <<driver, device, list, file, dangling, access>>

NoRequest == [p2p_srcs |-> << >>, p2p_store |-> FALSE]

\* The step that is next; "oops": the thread that probed the device is dead.
Labels == {"unbound", "cdev", "node", "irq", "map", "list", "listed", "oops",
           "bound", "unlinking", "unlisted"}

Init ==
    /\ module = [d \in Drivers |-> "out"] /\ refs = [d \in Drivers |-> 0]
    /\ synth_devs = [d \in Drivers |-> 0]
    /\ number = [v \in Devices |-> 0]
    /\ pc = [v \in Devices |-> "unbound"]
    /\ held = [v \in Devices |-> {}]
    /\ esp_devices = << >> /\ esp_devices_lock = NoFile /\ raced = {}
    /\ file = [f \in Files |-> NoDevice] /\ dangling = {}
    /\ lock = [v \in Devices |-> NoFile]
    /\ io = [f \in Files |-> "none"]
    /\ req = [f \in Files |-> NoRequest]
    /\ k = [f \in Files |-> 1]
    /\ at = [f \in Files |-> NoDevice]
    /\ steady = [f \in Files |-> {}]
    /\ P2P_REG = [v \in Devices |-> {}]

Goto(v, label) == pc' = [pc EXCEPT ![v] = label]
Listed == {esp_devices[i] : i \in DOMAIN esp_devices}
Name(v) == <<driver_of[v], number[v]>>
Probing(v) == pc[v] \in {"cdev", "node", "irq", "map", "list", "listed"}

\* The i-th device of the list (from 1), or its end.
Entry(i) == IF i \in DOMAIN esp_devices THEN esp_devices[i] ELSE NoDevice

-----------------------------------------------------------------------------
(* Drivers                                                                 *)

\* esp_driver_register: the devices are probed as they are found.
Insmod(d) ==
    /\ module[d] = "out"
    /\ module' = [module EXCEPT ![d] = "live"]
    /\ synth_devs' = [synth_devs EXCEPT ![d] = 0]
    /\ UNCHANGED <<refs, device, list, file, dangling, access>>

\* A module goes when nobody has a reference to it.
Rmmod(d) ==
    /\ module[d] = "live"
    /\ refs[d] = 0
    /\ module' = [module EXCEPT ![d] = "going"]
    /\ UNCHANGED <<refs, synth_devs, device, list, file, dangling, access>>

\* esp_driver_unregister returns when every device has been removed.
RmmodDone(d) ==
    /\ module[d] = "going"
    /\ \A v \in Devices : driver_of[v] = d => pc[v] = "unbound"
    /\ module' = [module EXCEPT ![d] = "out"]
    /\ UNCHANGED <<refs, synth_devs, device, list, file, dangling, access>>

-----------------------------------------------------------------------------
(* synth_probe and esp_device_register                                     *)

Probe(v) ==
    LET d == driver_of[v]
    IN  /\ pc[v] = "unbound"
        /\ module[d] = "live"
        /\ synth_devs[d] <= MaxNumber
        /\ d \in Parallel \/ \A u \in Devices : driver_of[u] = d => ~Probing(u)
        /\ number' = [number EXCEPT ![v] = synth_devs[d]]
        /\ Goto(v, "cdev")
        /\ lock' = [lock EXCEPT ![v] = NoFile]
        /\ UNCHANGED <<driver, held, list, file, dangling, io, req, k, at, steady, P2P_REG>>

\* cdev_add: from here on the number of the device can be opened, which a
\* device of the same number may have a node for.
CdevAdd(v) ==
    /\ pc[v] = "cdev"
    /\ Goto(v, "node")
    /\ held' = [held EXCEPT ![v] = {"cdev"}]
    /\ UNCHANGED <<driver, number, list, file, dangling, access>>

\* The memory of the device goes, whoever has it open (it is freed twice: at
\* esp.c:603 and at synth.c:103, as after every failure).
Free(v) ==
    /\ Goto(v, "unbound")
    /\ number' = [number EXCEPT ![v] = 0]
    /\ dangling' = dangling \cup {f \in Files : file[f] = v}

CdevAddFails(v) ==
    /\ pc[v] = "cdev"
    /\ v \in Failing
    /\ Free(v)
    /\ UNCHANGED <<driver, held, list, file, access>>

\* device_create refuses a name that is in use.
NameTaken(v) == \E u \in Devices : "node" \in held[u] /\ Name(u) = Name(v)

DeviceCreate(v) ==
    /\ pc[v] = "node"
    /\ ~NameTaken(v)
    /\ Goto(v, "irq")
    /\ held' = [held EXCEPT ![v] = @ \cup {"node"}]
    /\ UNCHANGED <<driver, number, list, file, dangling, access>>

\* cdev_del, after the device could be opened
DeviceCreateFails(v) ==
    /\ pc[v] = "node"
    /\ v \in Failing \/ NameTaken(v)
    /\ held' = [held EXCEPT ![v] = {}]
    /\ Free(v)
    /\ UNCHANGED <<driver, list, file, access>>

\* The device may interrupt from here on, on a shared line even another one
\* may, and esp_irq finds no device yet (esp.c:62): not followed.
RequestIrq(v) ==
    /\ pc[v] = "irq"
    /\ Goto(v, "map")
    /\ held' = [held EXCEPT ![v] = @ \cup {"irq"}]
    /\ UNCHANGED <<driver, number, list, file, dangling, access>>

\* Mutant: leaves without destroying the node (goto out instead of out_irq).
RequestIrqFails_out(v) ==
    /\ pc[v] = "irq"
    /\ v \in Failing
    /\ Free(v)
    /\ UNCHANGED <<driver, held, list, file, access>>

\* out_irq: the node is destroyed, after it could be opened.
RequestIrqFails(v) ==
    /\ pc[v] = "irq"
    /\ v \in Failing
    /\ held' = [held EXCEPT ![v] = {}]
    /\ Free(v)
    /\ UNCHANGED <<driver, list, file, access>>

\* The registers are mapped and the accelerator is reset.
MapRegisters(v) ==
    /\ pc[v] = "map"
    /\ Goto(v, "list")
    /\ held' = [held EXCEPT ![v] = @ \cup {"iomem"}]
    /\ UNCHANGED <<driver, number, list, file, dangling, access>>

\* devm_ioremap_resource does not return NULL but an error pointer, which the
\* reset writes to: the thread dies, and the device stays half registered.
MapFails(v) ==
    /\ pc[v] = "map"
    /\ v \in Failing
    /\ Goto(v, "oops")
    /\ UNCHANGED <<driver, number, held, list, file, dangling, access>>

\* v is put on the list, or is taken off it, while the devices us next to it
\* are being taken off.
Overlaps(v, us) ==
    raced' = IF raced = {} /\ us # {} THEN {driver_of[u] : u \in us \cup {v}} ELSE raced

\* Mutant: list_add_tail.
ListAdd_tail(v) ==
    /\ pc[v] = "list"
    /\ esp_devices_lock = NoFile
    /\ esp_devices' = Append(esp_devices, v)
    /\ Goto(v, "listed")
    /\ UNCHANGED <<driver, number, held, esp_devices_lock, raced, file, dangling, access>>

ListAdd(v) ==
    /\ pc[v] = "list"
    /\ esp_devices_lock = NoFile
    /\ esp_devices' = <<v>> \o esp_devices
    /\ Overlaps(v, {u \in Devices : pc[u] = "unlinking" /\ u = Entry(1)})
    /\ Goto(v, "listed")
    /\ UNCHANGED <<driver, number, held, esp_devices_lock, file, dangling, access>>

\* Only now the number is used up.
Registered(v) ==
    /\ pc[v] = "listed"
    /\ synth_devs' = [synth_devs EXCEPT ![driver_of[v]] = @ + 1]
    /\ Goto(v, "bound")
    /\ UNCHANGED <<module, refs, number, held, list, file, dangling, access>>

-----------------------------------------------------------------------------
(* synth_remove and esp_device_unregister                                  *)

\* The devices next to v on the list.
Beside(v) ==
    {u \in Devices : \E i \in DOMAIN esp_devices : {Entry(i), Entry(i + 1)} = {u, v} /\ u # v}

\* list_del begins, without esp_devices_lock. Before it detaches the devices of
\* a driver, one by one, the kernel closes its bind files and waits for those
\* who bind and unbind.
ListDel(v) ==
    /\ pc[v] = "bound"
    /\ \/ v \in Unbinds /\ module[driver_of[v]] = "live"
       \/ /\ module[driver_of[v]] = "going"
          /\ \A u \in Devices : driver_of[u] = driver_of[v] =>
               pc[u] \in {"unbound", "bound", "oops"}
    /\ Overlaps(v, {u \in Beside(v) : pc[u] = "unlinking"})
    /\ Goto(v, "unlinking")
    /\ UNCHANGED <<driver, number, held, esp_devices, esp_devices_lock, file, dangling,
                   access>>

\* prev->next = next: from here on a walk from the head passes the device over.
Unlink(v) ==
    /\ pc[v] = "unlinking"
    /\ \E i \in DOMAIN esp_devices :
         /\ esp_devices[i] = v
         /\ esp_devices' = RemoveAt(esp_devices, i)
    /\ Goto(v, "unlisted")
    /\ steady' = [f \in Files |-> steady[f] \ {v}]
    /\ UNCHANGED <<driver, number, held, esp_devices_lock, raced, file, dangling,
                   lock, io, req, k, at, P2P_REG>>

\* free_irq, esp_destroy_cdev, devm_iounmap, and the kfree of synth_remove
Release(v) ==
    /\ pc[v] = "unlisted"
    /\ held' = [held EXCEPT ![v] = {}]
    /\ Free(v)
    /\ UNCHANGED <<driver, list, file, access>>

-----------------------------------------------------------------------------
(* Files: what a program does with a freed device is undefined, and is     *)
(* left out                                                                *)

\* Mutant: does not take the reference that esp_release gives back.
Open_noget(f) ==
    \E v \in Used :
        LET d == driver_of[v]
        IN  /\ file[f] = NoDevice
            /\ "cdev" \in held[v] /\ module[d] = "live"
            /\ file' = [file EXCEPT ![f] = v]
            /\ refs' = [refs EXCEPT ![d] = @ + 1]
            /\ UNCHANGED <<module, synth_devs, device, list, dangling, access>>

\* A device can be opened from cdev_add to cdev_del: one reference for the cdev,
\* one in esp_open; neither is given while the module goes.
Open(f) ==
    \E v \in Used :
        LET d == driver_of[v]
        IN  /\ file[f] = NoDevice
            /\ "cdev" \in held[v] /\ module[d] = "live"
            /\ file' = [file EXCEPT ![f] = v]
            /\ refs' = [refs EXCEPT ![d] = @ + 2]
            /\ UNCHANGED <<module, synth_devs, device, list, dangling, access>>

\* esp_release, and the reference of the cdev
Close(f) ==
    /\ file[f] # NoDevice
    /\ f \notin dangling
    /\ io[f] = "none"
    /\ refs' = [refs EXCEPT ![driver_of[file[f]]] = @ - 2]
    /\ file' = [file EXCEPT ![f] = NoDevice]
    /\ UNCHANGED <<module, synth_devs, device, list, dangling, access>>

-----------------------------------------------------------------------------
(* esp_p2p_init, under esp->lock of the file's own device                  *)

Srcs(f) == req[f].p2p_srcs
Step(f, label) == io' = [io EXCEPT ![f] = label]

\* The access locks the device; esp_p2p_reset.  Before the registers are mapped
\* the program dies instead, reading one (esp.c:375), and its file is closed.
P2pInit(f) ==
    LET v == file[f]
    IN  /\ v # NoDevice /\ f \notin dangling
        /\ io[f] = "none"
        /\ "iomem" \in held[v]
        /\ lock[v] = NoFile
        /\ lock' = [lock EXCEPT ![v] = f]
        /\ \E r \in Requests : req' = [req EXCEPT ![f] = r]
        /\ P2P_REG' = [P2P_REG EXCEPT ![v] = {}]
        /\ k' = [k EXCEPT ![f] = 1]
        /\ steady' = [steady EXCEPT ![f] = Listed]
        /\ Step(f, "src")
        /\ UNCHANGED <<driver, device, list, file, dangling, at>>

\* Where a walk may go on from device v, or begin.
Anywhere == Devices \cup {NoDevice}
First == IF raced = {} THEN {Entry(1)} ELSE Anywhere
After(v) ==
    IF raced = {} THEN {Entry(i + 1) : i \in {j \in DOMAIN esp_devices : esp_devices[j] = v}}
    ELSE Anywhere

\* esp_p2p_set_src takes the spinlock for the next source.
LookUp(f) ==
    /\ io[f] = "src" /\ f \notin dangling
    /\ k[f] <= Len(Srcs(f))
    /\ esp_devices_lock = NoFile
    /\ esp_devices_lock' = f
    /\ \E u \in First : at' = [at EXCEPT ![f] = u]
    /\ Step(f, "walk")
    /\ UNCHANGED <<driver, device, esp_devices, raced, file, dangling, lock, req, k, steady,
                   P2P_REG>>

\* The number a is, digit by digit, a beginning of b.
Prefix(a, b) ==
    \/ a = b
    \/ a # 0 /\ \E m \in 2 .. b : b \div m = a /\ \E e \in 1 .. b : m = Base ^ e

\* strncmp(src_name, kobj.name, strlen(kobj.name)) = 0
Matches(name, v) == name[1] = driver_of[v] /\ Prefix(number[v], name[2])

Bits(n, shift) == {shift + b : b \in {c \in 0 .. 2 : (n \div (2 ^ c)) % 2 = 1}}

\* Mutant: one position for all sources.
SourceBits_first(n, v) == Bits(yx[v][1], 7) \cup Bits(yx[v][2], 4)

\* esp_p2p_set_y and esp_p2p_set_x: the n-th source (from 0) is device v.
SourceBits(n, v) == Bits(yx[v][1], 7 + n * 6) \cup Bits(yx[v][2], 4 + n * 6)

Found(f) ==
    /\ io[f] = "walk" /\ f \notin dangling
    /\ at[f] # NoDevice
    /\ "node" \in held[at[f]]       \* its name can still be read
    /\ Matches(Srcs(f)[k[f]], at[f])
    /\ P2P_REG' = [P2P_REG EXCEPT ![file[f]] = @ \cup SourceBits(k[f] - 1, at[f])]
    /\ k' = [k EXCEPT ![f] = @ + 1]
    /\ esp_devices_lock' = NoFile
    /\ at' = [at EXCEPT ![f] = NoDevice]
    /\ Step(f, "src")
    /\ UNCHANGED <<driver, device, esp_devices, raced, file, dangling, lock, req, steady>>

WalkOn(f) ==
    /\ io[f] = "walk" /\ f \notin dangling
    /\ at[f] # NoDevice
    /\ "node" \in held[at[f]] /\ ~Matches(Srcs(f)[k[f]], at[f])
    /\ \E u \in After(at[f]) : at' = [at EXCEPT ![f] = u]
    /\ UNCHANGED <<driver, device, list, file, dangling, lock, io, req, k, steady, P2P_REG>>

\* The device was removed under the walk, or left on the list by writers that
\* overlapped: a poisoned pointer or a freed name.
WalkBreaks(f) ==
    /\ io[f] = "walk" /\ f \notin dangling
    /\ at[f] # NoDevice
    /\ at[f] \notin Listed \/ raced # {}
    /\ ~("node" \in held[at[f]] /\ Matches(Srcs(f)[k[f]], at[f]))
    /\ Step(f, "oops")
    /\ UNCHANGED <<driver, device, list, file, dangling, lock, req, k, at, steady, P2P_REG>>

\* The access returns, and what it kept on its stack is gone.
Leave(f) ==
    /\ Step(f, "none")
    /\ req' = [req EXCEPT ![f] = NoRequest]
    /\ k' = [k EXCEPT ![f] = 1]
    /\ at' = [at EXCEPT ![f] = NoDevice]
    /\ steady' = [steady EXCEPT ![f] = {}]

\* -ENODEV; esp->lock is not given back (esp.c:391).
NotFound(f) ==
    /\ io[f] = "walk" /\ f \notin dangling
    /\ at[f] = NoDevice
    /\ esp_devices_lock' = NoFile
    /\ Leave(f)
    /\ UNCHANGED <<driver, device, esp_devices, raced, file, dangling, lock, P2P_REG>>

\* esp_p2p_enable_dst, esp_p2p_enable_src, esp_p2p_set_nsrcs; the rest of the
\* access is that of module EspAccess.
P2pDone(f) ==
    LET v == file[f]
        n == Len(Srcs(f))
    IN  /\ io[f] = "src" /\ f \notin dangling
        /\ k[f] > n
        /\ P2P_REG' = [P2P_REG EXCEPT ![v] = @
               \cup (IF req[f].p2p_store THEN {3} ELSE {})
               \cup (IF n # 0 THEN {2} \cup Bits((n - 1) % 4, 0) ELSE {})]
        /\ Step(f, "run")
        /\ UNCHANGED <<driver, device, list, file, dangling, lock, req, k, at, steady>>

AccessEnds(f) ==
    /\ io[f] = "run" /\ f \notin dangling
    /\ lock' = [lock EXCEPT ![file[f]] = NoFile]
    /\ Leave(f)
    /\ UNCHANGED <<driver, device, list, file, dangling, P2P_REG>>

P2p(f) ==
    \/ P2pInit(f) \/ LookUp(f) \/ Found(f) \/ WalkOn(f) \/ WalkBreaks(f)
    \/ NotFound(f) \/ P2pDone(f) \/ AccessEnds(f)

Next ==
    \/ \E d \in Drivers : Insmod(d) \/ Rmmod(d) \/ RmmodDone(d)
    \/ \E v \in Devices :
         \/ Probe(v) \/ CdevAdd(v) \/ CdevAddFails(v)
         \/ DeviceCreate(v) \/ DeviceCreateFails(v)
         \/ RequestIrq(v) \/ RequestIrqFails(v) \/ MapRegisters(v) \/ MapFails(v)
         \/ ListAdd(v) \/ Registered(v) \/ ListDel(v) \/ Unlink(v) \/ Release(v)
    \/ \E f \in Files : Open(f) \/ Close(f) \/ P2p(f)

Spec == Init /\ [][Next]_vars

-----------------------------------------------------------------------------
(* Properties                                                              *)

\* The values the variables range over.
TypeOK ==
    /\ module \in [Drivers -> {"out", "live", "going"}]
    /\ refs \in [Drivers -> Nat] /\ synth_devs \in [Drivers -> Nat]
    /\ number \in [Devices -> Nat]
    /\ pc \in [Devices -> Labels]
    /\ held \in [Devices -> SUBSET {"cdev", "node", "irq", "iomem"}]
    /\ esp_devices \in Seq(Devices)
    /\ esp_devices_lock \in Files \cup {NoFile}
    /\ raced \in SUBSET Drivers
    /\ file \in [Files -> Devices \cup {NoDevice}]
    /\ dangling \in SUBSET Files
    /\ lock \in [Devices -> Files \cup {NoFile}]
    /\ io \in [Files -> {"none", "src", "walk", "run", "oops"}]
    /\ req \in [Files -> Access]
    /\ k \in [Files -> Nat \ {0}]
    /\ at \in [Files -> Devices \cup {NoDevice}]
    /\ steady \in [Files -> SUBSET Devices]
    /\ P2P_REG \in [Devices -> SUBSET (0 .. 31)]

\* Newer devices come first: on the list, the numbers of one driver descend.
\* Nothing in the code says so, and the lookup of P2P sources rests on it.
NumbersDescend ==
    \A i, j \in DOMAIN esp_devices :
        i < j /\ driver_of[esp_devices[i]] = driver_of[esp_devices[j]] =>
            number[esp_devices[i]] > number[esp_devices[j]]

\* Although a device answers to every name that begins with its own
\* (esp.c:308), a P2P source that is on the list is found, and not another, as
\* long as no writers overlap on the list.
LookupExact ==
    [][raced = {} => \A f \in Files : io[f] = "walk" /\ io'[f] \in {"src", "none"} =>
         \A v \in Listed : Name(v) = Srcs(f)[k[f]] => v = at[f]]_vars

\* The s-th source (from 1) in the register of the file's device is device v.
Field(reg, shift) == {c \in reg : shift <= c /\ c < shift + 3}
Holds(f, s, v) ==
    /\ Field(P2P_REG[file[f]], 7 + 6 * (s - 1)) = Bits(yx[v][1], 7 + 6 * (s - 1))
    /\ Field(P2P_REG[file[f]], 4 + 6 * (s - 1)) = Bits(yx[v][2], 4 + 6 * (s - 1))

\* It is a device of the driver asked for; and unless writers overlapped on the
\* list, it is the one that was asked for, if that was registered all along.
SourceProgrammed(f, s) ==
    /\ \E v \in Devices : driver_of[v] = Srcs(f)[s][1] /\ Holds(f, s, v)
    /\ raced = {} => \A v \in steady[f] : Name(v) = Srcs(f)[s] => Holds(f, s, v)

\* The register that the accelerator runs with decodes to what the access asked
\* for: the number of sources and the sources in the order asked for, each the
\* device of that name if one was registered since the access began; and nothing
\* of an access before (esp.c:324-345).
Decoded(f) ==
    LET reg == P2P_REG[file[f]]
        n == Len(Srcs(f))
    IN  /\ 3 \in reg <=> req[f].p2p_store
        /\ 2 \in reg <=> n > 0
        /\ n > 0 => reg \cap {0, 1} = Bits(n - 1, 0)
        /\ \A s \in 1 .. n : SourceProgrammed(f, s)
        /\ \A c \in reg : c < 4 + 6 * n
P2pDecodes == \A f \in Files : io[f] = "run" /\ f \notin dangling => Decoded(f)

\* The references of a module count its open files, so that a device that is
\* unloaded is open nowhere: only one that is unbound by hand is freed under a
\* program, or one that failed after it could be opened (esp.c:516): it or another
\* of its driver fails, or several devices of the driver take the same number.
OpenAlive ==
    \A f \in dangling :
        \/ file[f] \in Unbinds \/ driver_of[file[f]] \in Parallel
        \/ \E u \in Failing : driver_of[u] = driver_of[file[f]]

\* A walk breaks off only over a device of a driver that the walker does not
\* itself keep loaded, or over one that is unbound by hand (esp.c:610), or after
\* writers overlapped on the list.
WalkSafe ==
    \A f \in Files : io[f] = "oops" =>
        at[f] \in Unbinds \/ driver_of[at[f]] # driver_of[file[f]] \/ raced # {}

\* The first writers to overlap on the list, of which one at least runs the
\* unlocked list_del, are of two drivers, or of one whose devices are unbound by
\* hand: loading and unloading a single driver never does it.
RacesApart == \A d \in Drivers : raced = {d} => \E v \in Unbinds : driver_of[v] = d

\* A file never outlives its device, and a walk never meets one that is gone,
\* but for devices unbound by hand, failed registrations and other drivers; and
\* the list goes wrong by these alone.
UnloadSafe == OpenAlive /\ WalkSafe /\ RacesApart

\* Whichever step failed, and after every removal, a device that is not bound
\* has no node, no interrupt, no registers, and is not on the list unless writers
\* overlapped there; but for one whose registers could not be mapped (esp.c:579).
NothingLeft ==
    \A v \in Devices : pc[v] \in {"unbound", "cdev"} =>
        held[v] = {} /\ (raced = {} => v \notin Listed)
=============================================================================
