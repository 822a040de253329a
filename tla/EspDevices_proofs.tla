------------------------- MODULE EspDevices_proofs -------------------------
(* Proofs about the devices of the esp core, for any number of drivers,    *)
(* devices and files, any base of the numbers and any requests.            *)
EXTENDS EspDevices, DataLemmas, FiniteSetTheorems, TLAPS

-----------------------------------------------------------------------------
(* The invariant                                                           *)

\* Devices that are unbound by hand are bound again one at a time.
UnbindsAlone == \A v \in Unbinds : driver_of[v] \notin Parallel

\* What a device holds, and that it is listed, follows from how far its
\* registration has come.
DevInv ==
    /\ IsInjective(esp_devices)
    /\ \A v \in Devices :
         /\ pc[v] \in {"unbound", "cdev"} => held[v] = {}
         /\ pc[v] = "node" => held[v] = {"cdev"}
         /\ pc[v] \notin {"unbound", "cdev"} => "cdev" \in held[v]
         /\ pc[v] \notin {"unbound", "cdev", "node"} => "node" \in held[v]
         /\ v \in Listed <=> pc[v] \in {"listed", "bound", "unlinking"}
         /\ pc[v] # "unbound" => module[driver_of[v]] # "out"
         /\ pc[v] \in {"unlinking", "unlisted"} =>
              v \in Unbinds \/ module[driver_of[v]] = "going"
         /\ pc[v] = "oops" => v \in Failing

\* A device that has a node has a number of its own; until it is registered its
\* number is the next one, afterwards it is less.
NumInv ==
    /\ \A u, v \in Devices :
         "node" \in held[u] /\ "node" \in held[v] /\ Name(u) = Name(v) => u = v
    /\ \A v \in Devices :
         LET next == synth_devs[driver_of[v]]
         IN  /\ pc[v] \in {"irq", "map", "list", "listed", "oops"} => number[v] = next
             /\ pc[v] \in {"bound", "unlinking", "unlisted"} => number[v] < next
             /\ pc[v] \in {"cdev", "node"} =>
                  \/ number[v] = next
                  \/ /\ driver_of[v] \in Parallel
                     /\ \E u \in Devices : pc[u] = "bound" /\ Name(u) = Name(v)
             /\ Probing(v) /\ driver_of[v] \notin Parallel =>
                  \A u \in Devices : driver_of[u] = driver_of[v] /\ Probing(u) => u = v

\* The open files of a driver's devices.
OpenOf(d) == {f \in Files : file[f] # NoDevice /\ driver_of[file[f]] = d}

\* The references of a module are those of its open files; one that goes, or is
\* out, has none.
RefInv == \A d \in Drivers :
    /\ refs[d] = 2 * Cardinality(OpenOf(d))
    /\ module[d] # "live" => refs[d] = 0

\* Only an open file is in a request, or has a device that was freed.
FileInv == \A f \in Files :
    /\ io[f] # "none" => file[f] # NoDevice
    /\ req[f] \in Requests \cup {NoRequest}
    /\ f \in dangling => file[f] # NoDevice

\* What a walk knows of the device it is on: no earlier device of the list has
\* the name that it looks for; and if the device was taken off the list since, it
\* is newer than the ones of its driver that are still there.
Walk(f) ==
    LET u == at[f]
        src == Srcs(f)[k[f]]
    IN  /\ \A i, j \in DOMAIN esp_devices :
             i < j /\ esp_devices[j] = u => Name(esp_devices[i]) # src
        /\ u \in Devices \ Listed /\ "node" \in held[u] =>
             \A v \in Listed : driver_of[v] = driver_of[u] /\ Name(v) = src =>
                 number[u] > number[v]
        /\ u = NoDevice => \A v \in Listed : Name(v) # src
        /\ f \notin dangling /\ u \in Devices \ Unbinds
              /\ driver_of[u] = driver_of[file[f]] => u \in Listed

\* A walk, and a file in the oops of one, holds the mutex; what a walk knows holds
\* until writers overlap on the list.
WalkInv ==
    /\ \A f \in Files : io[f] \in {"walk", "oops"} <=> esp_devices_lock = f
    /\ \A f \in Files : io[f] = "walk" => k[f] <= Len(Srcs(f)) /\ (raced = {} => Walk(f))

\* A device that its driver's unloading takes off the list is the only one of the
\* driver that moves; and what an access saw on the list all along is still there.
RaceInv ==
    /\ RacesApart
    /\ \A u, v \in Devices :
         /\ driver_of[u] = driver_of[v] /\ u # v
         /\ pc[u] = "unlinking" /\ u \notin Unbinds
         => pc[v] \in {"unbound", "bound", "oops"}
    /\ \A f \in Files : steady[f] \subseteq Listed

\* The inductive invariant.
IInv ==
    /\ TypeOK /\ DevInv /\ NumInv /\ NumbersDescend
    /\ RefInv /\ FileInv /\ OpenAlive /\ WalkInv /\ WalkSafe /\ RaceInv

-----------------------------------------------------------------------------
(* Each action keeps the invariant                                         *)

USE DEF driver, device, list, access, Goto

\* An action that leaves the devices and the list alone keeps what is known of
\* them.
LEMMA DevicesKept ==
    ASSUME IInv, UNCHANGED <<module, synth_devs, number, pc, held, esp_devices>>
    PROVE  DevInv' /\ NumInv' /\ NumbersDescend'
  <1>1. Listed' = Listed /\ \A v \in Devices : Name(v)' = Name(v) /\ Probing(v)' = Probing(v)
    BY DEF Listed, Name, Probing
  <1>2. DevInv'
    BY <1>1 DEF IInv, DevInv
  <1>3. NumInv'
    BY <1>1 DEF IInv, NumInv
  <1>4. NumbersDescend'
    BY DEF IInv, NumbersDescend
  <1> QED  BY <1>2, <1>3, <1>4

\* Likewise for the files and the references of the modules.
LEMMA FilesKept ==
    ASSUME IInv, UNCHANGED <<module, refs, file, dangling>>
    PROVE  RefInv' /\ OpenAlive'
  <1>1. \A d \in Drivers : OpenOf(d)' = OpenOf(d)
    BY DEF OpenOf
  <1> QED  BY <1>1 DEF IInv, RefInv, OpenAlive

\* Likewise for the walks of the list.
LEMMA WalksKept ==
    ASSUME IInv, UNCHANGED <<number, held, esp_devices, esp_devices_lock, raced, file,
                             dangling, io, req, k, at>>
    PROVE  FileInv' /\ WalkInv' /\ WalkSafe'
  <1>1. Listed' = Listed /\ \A v : Name(v)' = Name(v)
    BY DEF Listed, Name
  <1>2. \A f \in Files : Srcs(f)' = Srcs(f)
    BY DEF Srcs
  <1>3. \A f \in Files : Walk(f)' <=> Walk(f)
    BY <1>1, <1>2 DEF Walk
  <1> QED  BY <1>2, <1>3 DEF IInv, FileInv, WalkInv, WalkSafe

\* Likewise for the races of writers.
LEMMA RacesKept ==
    ASSUME IInv, UNCHANGED <<pc, raced, esp_devices, steady>>
    PROVE  RaceInv'
  <1>1. Listed' = Listed
    BY DEF Listed
  <1> QED  BY <1>1 DEF IInv, RaceInv, RacesApart

\* A device that is registered or released makes no race.
LEMMA RacesAside ==
    ASSUME DevicesAssumption, IInv, NEW v \in Devices, NEW l, Goto(v, l), l # "unlinking",
           \/ l \in {"unbound", "bound", "oops"}
           \/ pc[v] \notin {"unbound", "bound", "oops"}
           \/ module[driver_of[v]] = "live",
           UNCHANGED <<raced, esp_devices, steady>>
    PROVE  RaceInv'
  <1>1. Listed' = Listed
    BY DEF Listed
  <1>2. \A u \in Devices : pc'[u] = IF u = v THEN l ELSE pc[u]
    BY DEF IInv, TypeOK
  <1>3. \A u \in Devices : pc[u] = "unlinking" =>
           u \in Unbinds \/ module[driver_of[u]] = "going"
    BY DEF IInv, DevInv
  <1> QED  BY <1>1, <1>2, <1>3 DEF IInv, RaceInv, RacesApart

\* The list as a set.
LEMMA ListFacts ==
    ASSUME IInv
    PROVE  /\ esp_devices \in Seq(Devices) /\ Len(esp_devices) \in Nat
           /\ DOMAIN esp_devices = 1 .. Len(esp_devices)
           /\ Listed \subseteq Devices /\ Listed = Range(esp_devices)
           /\ \A i \in DOMAIN esp_devices : esp_devices[i] \in Listed
  BY LenProperties DEF IInv, TypeOK, Listed, Range

\* list_add puts a device first and moves the others down.
LEMMA PushOrder ==
    ASSUME NEW S, NEW s \in Seq(S), NEW x \in S
    PROVE  \A j \in 1 .. Len(s) + 1 : (<<x>> \o s)[j] = IF j = 1 THEN x ELSE s[j - 1]
  <1>1. <<x>> \in Seq(S) /\ Len(<<x>>) = 1 /\ <<x>>[1] = x /\ Len(s) \in Nat
    BY LenProperties
  <1>2. \A j \in 1 .. 1 + Len(s) : (<<x>> \o s)[j] = IF j <= 1 THEN <<x>>[j] ELSE s[j - 1]
    BY <1>1, ConcatProperties
  <1> QED  BY <1>1, <1>2

\* What a walk knows survives an action that leaves the list alone, if a device
\* that is not on it only gets a node with the highest number of its driver.
LEMMA WalkStays ==
    ASSUME IInv, UNCHANGED <<esp_devices, esp_devices_lock, io, req, k, at>>,
           raced' = {} => raced = {},
           \A v \in Listed : number'[v] = number[v],
           dangling \subseteq dangling',
           \A f \in Files : io[f] # "none" => file'[f] = file[f],
           \A u \in Devices \ Listed : "node" \in held'[u] =>
              \/ "node" \in held[u] /\ number'[u] = number[u]
              \/ \A v \in Listed : driver_of[v] = driver_of[u] => number'[u] > number[v]
    PROVE  WalkInv' /\ WalkSafe'
  <1>1. Listed' = Listed /\ \A v \in Listed : Name(v)' = Name(v)
    BY DEF Listed, Name
  <1>2. \A f \in Files : Srcs(f)' = Srcs(f)
    BY DEF Srcs
  <1>3. ASSUME NEW f \in Files, io[f] = "walk", raced' = {} PROVE Walk(f)'
    <2>1. Walk(f) /\ file'[f] = file[f]
      BY <1>3 DEF IInv, WalkInv
    <2>2. \A i \in DOMAIN esp_devices : Name(esp_devices[i])' = Name(esp_devices[i])
      BY <1>1, ListFacts DEF Name
    <2> QED  BY <2>1, <2>2, <1>1, <1>2 DEF Walk
  <1>4. WalkSafe'
    BY DEF IInv, WalkSafe
  <1> QED  BY <1>2, <1>3, <1>4 DEF IInv, WalkInv

\* list_del of the i-th device.
LEMMA ListDelOrder ==
    ASSUME IInv, NEW i \in DOMAIN esp_devices
    PROVE  LET d == RemoveAt(esp_devices, i)
           IN  /\ d \in Seq(Devices) /\ IsInjective(d)
               /\ DOMAIN d = 1 .. Len(esp_devices) - 1
               /\ \A j \in 1 .. Len(esp_devices) - 1 :
                    d[j] = IF j < i THEN esp_devices[j] ELSE esp_devices[j + 1]
               /\ Range(d) = Listed \ {esp_devices[i]}
  <1> DEFINE d == RemoveAt(esp_devices, i)
  <1>1. esp_devices \in Seq(Devices) /\ IsInjective(esp_devices) /\ Range(esp_devices) = Listed
    BY ListFacts DEF IInv, DevInv
  <1>2. /\ d \in Seq(Devices) /\ Len(d) = Len(esp_devices) - 1
        /\ \A j \in 1 .. Len(esp_devices) - 1 :
             d[j] = IF j < i THEN esp_devices[j] ELSE esp_devices[j + 1]
        /\ IsInjective(d) /\ Range(d) = Range(esp_devices) \ {esp_devices[i]}
    BY <1>1, DelFacts DEF RemoveAt
  <1> HIDE DEF d
  <1>3. DOMAIN d = 1 .. Len(d)
    BY <1>2, LenProperties
  <1> QED  BY <1>1, <1>2, <1>3 DEF d

\* The program of a file walks, and the others stay where they are.
LEMMA OthersStay ==
    ASSUME IInv, NEW f \in Files,
           UNCHANGED <<number, held, esp_devices, raced, file, dangling>>,
           \A g \in Files \ {f} :
              /\ io'[g] = io[g] /\ req'[g] = req[g] /\ k'[g] = k[g] /\ at'[g] = at[g]
              /\ esp_devices_lock' = g <=> esp_devices_lock = g,
           esp_devices_lock' = f <=> io'[f] \in {"walk", "oops"},
           io'[f] = "walk" => k'[f] <= Len(Srcs(f))' /\ (raced = {} => Walk(f)')
    PROVE  WalkInv'
  <1>1. Listed' = Listed /\ \A v : Name(v)' = Name(v)
    BY DEF Listed, Name
  <1>2. \A g \in Files \ {f} : Srcs(g)' = Srcs(g)
    BY DEF Srcs
  <1>3. \A g \in Files \ {f} : Walk(g)' <=> Walk(g)
    BY <1>1, <1>2 DEF Walk
  <1> QED  BY <1>2, <1>3 DEF IInv, WalkInv

\* Three bits of a register.
LEMMA BitsRange ==
    ASSUME NEW n, NEW shift \in Nat
    PROVE  Bits(n, shift) \subseteq shift .. shift + 2
  <1> DEFINE S == {c \in 0 .. 2 : (n \div (2 ^ c)) % 2 = 1}
  <1>1. S \subseteq 0 .. 2
    OBVIOUS
  <1>2. Bits(n, shift) = {shift + b : b \in S}
    BY DEF Bits
  <1> HIDE DEF S
  <1> QED  BY <1>1, <1>2

\* The bits of the n-th source are in the register, for the four sources there
\* may be.
LEMMA SourceRange == ASSUME NEW n \in 0 .. 3, NEW v PROVE SourceBits(n, v) \subseteq 0 .. 31
  <1>1. 7 + n * 6 \in 0 .. 25 /\ 4 + n * 6 \in 0 .. 22
    OBVIOUS
  <1>2. Bits(yx[v][1], 7 + n * 6) \subseteq 0 .. 31 /\ Bits(yx[v][2], 4 + n * 6) \subseteq 0 .. 31
    BY <1>1, BitsRange
  <1> QED  BY <1>2 DEF SourceBits

\* A source that is asked for is one of four.
LEMMA SourceIndex ==
    ASSUME NEW a \in Nat \ {0}, NEW n \in Nat, a <= n, n <= 4
    PROVE  a - 1 \in 0 .. 3
  OBVIOUS

\* Insmod keeps the invariant.
LEMMA InsmodKeeps ==
    ASSUME DevicesAssumption, UnbindsAlone, IInv, NEW d \in Drivers, Insmod(d) PROVE IInv'
  <1>1. TypeOK'
    BY DEF IInv, TypeOK, Insmod
  <1>2. DevInv'
    <2>1. Listed' = Listed
      BY DEF Listed, Insmod
    <2> QED  BY <2>1 DEF IInv, TypeOK, DevInv, Insmod
  <1>3. NumInv'
    BY DEF IInv, TypeOK, DevInv, NumInv, Name, Probing, Insmod
  <1>4. NumbersDescend'
    BY DEF IInv, TypeOK, NumbersDescend, Insmod
  <1>5. RefInv'
    <2>1. \A e \in Drivers : OpenOf(e)' = OpenOf(e)
      BY DEF OpenOf, Insmod
    <2> QED  BY <2>1 DEF IInv, TypeOK, RefInv, Insmod
  <1>6. FileInv'
    BY WalksKept DEF Insmod
  <1>7. OpenAlive'
    BY DEF IInv, TypeOK, OpenAlive, Insmod
  <1>8. WalkInv'
    BY WalksKept DEF Insmod
  <1>9. WalkSafe'
    BY WalksKept DEF Insmod
  <1>10. RaceInv'
    BY RacesKept DEF Insmod
  <1> QED
    BY <1>1, <1>2, <1>3, <1>4, <1>5, <1>6, <1>7, <1>8, <1>9, <1>10 DEF IInv

\* Rmmod keeps the invariant.
LEMMA RmmodKeeps ==
    ASSUME DevicesAssumption, UnbindsAlone, IInv, NEW d \in Drivers, Rmmod(d) PROVE IInv'
  <1>1. TypeOK'
    BY DEF IInv, TypeOK, Rmmod
  <1>2. DevInv'
    <2>1. Listed' = Listed
      BY DEF Listed, Rmmod
    <2> QED  BY <2>1 DEF IInv, TypeOK, DevInv, Rmmod
  <1>3. NumInv'
    BY DEF IInv, TypeOK, NumInv, Name, Probing, Rmmod
  <1>4. NumbersDescend'
    BY DEF IInv, TypeOK, NumbersDescend, Rmmod
  <1>5. RefInv'
    <2>1. \A e \in Drivers : OpenOf(e)' = OpenOf(e)
      BY DEF OpenOf, Rmmod
    <2> QED  BY <2>1 DEF IInv, TypeOK, RefInv, Rmmod
  <1>6. FileInv'
    BY WalksKept DEF Rmmod
  <1>7. OpenAlive'
    BY DEF IInv, TypeOK, OpenAlive, Rmmod
  <1>8. WalkInv'
    BY WalksKept DEF Rmmod
  <1>9. WalkSafe'
    BY WalksKept DEF Rmmod
  <1>10. RaceInv'
    BY RacesKept DEF Rmmod
  <1> QED
    BY <1>1, <1>2, <1>3, <1>4, <1>5, <1>6, <1>7, <1>8, <1>9, <1>10 DEF IInv

\* RmmodDone keeps the invariant.
LEMMA RmmodDoneKeeps ==
    ASSUME DevicesAssumption, UnbindsAlone, IInv, NEW d \in Drivers, RmmodDone(d) PROVE IInv'
  <1>1. TypeOK'
    BY DEF IInv, TypeOK, RmmodDone
  <1>2. DevInv'
    <2>1. Listed' = Listed
      BY DEF Listed, RmmodDone
    <2> QED  BY <2>1 DEF IInv, TypeOK, DevInv, RmmodDone
  <1>3. NumInv'
    BY DEF IInv, TypeOK, NumInv, Name, Probing, RmmodDone
  <1>4. NumbersDescend'
    BY DEF IInv, TypeOK, NumbersDescend, RmmodDone
  <1>5. RefInv'
    <2>1. \A e \in Drivers : OpenOf(e)' = OpenOf(e)
      BY DEF OpenOf, RmmodDone
    <2> QED  BY <2>1 DEF IInv, TypeOK, RefInv, RmmodDone
  <1>6. FileInv'
    BY WalksKept DEF RmmodDone
  <1>7. OpenAlive'
    BY DEF IInv, TypeOK, OpenAlive, RmmodDone
  <1>8. WalkInv'
    BY WalksKept DEF RmmodDone
  <1>9. WalkSafe'
    BY WalksKept DEF RmmodDone
  <1>10. RaceInv'
    BY RacesKept DEF RmmodDone
  <1> QED
    BY <1>1, <1>2, <1>3, <1>4, <1>5, <1>6, <1>7, <1>8, <1>9, <1>10 DEF IInv

\* Probe keeps the invariant.
LEMMA ProbeKeeps ==
    ASSUME DevicesAssumption, UnbindsAlone, IInv, NEW v \in Devices, Probe(v) PROVE IInv'
  <1>1. TypeOK'
    BY DEF IInv, TypeOK, Labels, Probe
  <1>2. DevInv'
    <2>1. Listed' = Listed
      BY DEF Listed, Probe
    <2> QED  BY <2>1 DEF IInv, TypeOK, DevInv, Probe
  <1>3. NumInv'
    BY DEF IInv, TypeOK, DevInv, NumInv, Name, Probing, Probe
  <1>4. NumbersDescend'
    <2>1. \A j \in DOMAIN esp_devices : esp_devices[j] \in Devices /\ esp_devices[j] # v
      BY ListFacts DEF IInv, DevInv, Probe
    <2>2. \A j \in DOMAIN esp_devices : number'[esp_devices[j]] = number[esp_devices[j]]
      BY <2>1 DEF IInv, TypeOK, Probe
    <2> QED  BY <2>2 DEF IInv, NumbersDescend, Probe
  <1>5. RefInv'
    BY FilesKept DEF Probe, Probing
  <1>6. FileInv'
    BY DEF IInv, TypeOK, FileInv, Probe
  <1>7. OpenAlive'
    BY FilesKept DEF Probe, Probing
  <1>8. WalkInv'
    <2>1. v \notin Listed
      BY DEF IInv, DevInv, Probe
    <2>2. \A u \in Listed : number'[u] = number[u]
      BY <2>1, ListFacts DEF IInv, TypeOK, Probe
    <2>3. \A u \in Devices : "node" \in held'[u] => "node" \in held[u] /\ number'[u] = number[u]
      BY DEF IInv, TypeOK, DevInv, Probe
    <2> QED  BY <2>2, <2>3, WalkStays DEF Probe
  <1>9. WalkSafe'
    BY DEF IInv, TypeOK, WalkSafe, Probe
  <1>10. RaceInv'
    BY RacesAside DEF Probe
  <1> QED
    BY <1>1, <1>2, <1>3, <1>4, <1>5, <1>6, <1>7, <1>8, <1>9, <1>10 DEF IInv

\* CdevAdd keeps the invariant.
LEMMA CdevAddKeeps ==
    ASSUME DevicesAssumption, UnbindsAlone, IInv, NEW v \in Devices, CdevAdd(v) PROVE IInv'
  <1>1. TypeOK'
    BY DEF IInv, TypeOK, Labels, CdevAdd
  <1>2. DevInv'
    <2>1. Listed' = Listed
      BY DEF Listed, CdevAdd
    <2> QED  BY <2>1 DEF IInv, TypeOK, DevInv, CdevAdd
  <1>3. NumInv'
    BY DEF IInv, TypeOK, NumInv, Name, Probing, CdevAdd
  <1>4. NumbersDescend'
    BY DEF IInv, TypeOK, NumbersDescend, CdevAdd
  <1>5. RefInv'
    BY FilesKept DEF CdevAdd
  <1>6. FileInv'
    BY DEF IInv, TypeOK, FileInv, CdevAdd
  <1>7. OpenAlive'
    BY FilesKept DEF CdevAdd
  <1>8. WalkInv'
    <2>1. v \notin Listed
      BY DEF IInv, DevInv, CdevAdd
    <2>2. \A u \in Listed : number'[u] = number[u]
      BY <2>1, ListFacts DEF IInv, TypeOK, CdevAdd
    <2>3. \A u \in Devices : "node" \in held'[u] => "node" \in held[u] /\ number'[u] = number[u]
      BY DEF IInv, TypeOK, DevInv, CdevAdd
    <2> QED  BY <2>2, <2>3, WalkStays DEF CdevAdd
  <1>9. WalkSafe'
    BY DEF IInv, TypeOK, WalkSafe, CdevAdd
  <1>10. RaceInv'
    BY RacesAside DEF CdevAdd
  <1> QED
    BY <1>1, <1>2, <1>3, <1>4, <1>5, <1>6, <1>7, <1>8, <1>9, <1>10 DEF IInv

\* CdevAddFails keeps the invariant.
LEMMA CdevAddFailsKeeps ==
    ASSUME DevicesAssumption, UnbindsAlone, IInv, NEW v \in Devices, CdevAddFails(v)
    PROVE  IInv'
  <1>1. TypeOK'
    BY DEF IInv, TypeOK, Labels, CdevAddFails, Free
  <1>2. DevInv'
    <2>1. Listed' = Listed
      BY DEF Listed, CdevAddFails, Free
    <2> QED  BY <2>1 DEF IInv, TypeOK, DevInv, CdevAddFails, Free
  <1>3. NumInv'
    BY DEF IInv, TypeOK, DevInv, NumInv, Name, Probing, CdevAddFails, Free
  <1>4. NumbersDescend'
    <2>1. \A j \in DOMAIN esp_devices : esp_devices[j] \in Devices /\ esp_devices[j] # v
      BY ListFacts DEF IInv, DevInv, CdevAddFails
    <2>2. \A j \in DOMAIN esp_devices : number'[esp_devices[j]] = number[esp_devices[j]]
      BY <2>1 DEF IInv, TypeOK, CdevAddFails, Free
    <2> QED  BY <2>2 DEF IInv, NumbersDescend, CdevAddFails, Free
  <1>5. RefInv'
    <2>1. \A e \in Drivers : OpenOf(e)' = OpenOf(e)
      BY DEF OpenOf, CdevAddFails, Free
    <2> QED  BY <2>1 DEF IInv, TypeOK, RefInv, CdevAddFails, Free
  <1>6. FileInv'
    BY DEF IInv, TypeOK, FileInv, DevicesAssumption, CdevAddFails, Free
  <1>7. OpenAlive'
    <2> QED  BY DEF IInv, OpenAlive, CdevAddFails, Free
  <1>8. WalkInv'
    <2>1. v \notin Listed
      BY DEF IInv, DevInv, CdevAddFails
    <2>2. \A u \in Listed : number'[u] = number[u]
      BY <2>1, ListFacts DEF IInv, TypeOK, CdevAddFails, Free
    <2>3. \A u \in Devices : "node" \in held'[u] => "node" \in held[u] /\ number'[u] = number[u]
      BY DEF IInv, TypeOK, DevInv, CdevAddFails, Free
    <2> QED  BY <2>2, <2>3, WalkStays DEF CdevAddFails, Free
  <1>9. WalkSafe'
    BY DEF IInv, TypeOK, WalkSafe, CdevAddFails, Free
  <1>10. RaceInv'
    BY RacesAside DEF CdevAddFails, Free
  <1> QED
    BY <1>1, <1>2, <1>3, <1>4, <1>5, <1>6, <1>7, <1>8, <1>9, <1>10 DEF IInv

\* DeviceCreate keeps the invariant.
LEMMA DeviceCreateKeeps ==
    ASSUME DevicesAssumption, UnbindsAlone, IInv, NEW v \in Devices, DeviceCreate(v) PROVE IInv'
  <1>1. TypeOK'
    BY DEF IInv, TypeOK, Labels, DeviceCreate, NameTaken
  <1>2. DevInv'
    <2>1. Listed' = Listed
      BY DEF Listed, DeviceCreate
    <2> QED  BY <2>1 DEF IInv, TypeOK, DevInv, DeviceCreate
  <1>3. NumInv'
    <2>1. \A u \in Devices :
            /\ Name(u)' = Name(u) /\ pc'[u] = (IF u = v THEN "irq" ELSE pc[u])
            /\ "node" \in held'[u] <=> u = v \/ "node" \in held[u]
      BY DEF IInv, TypeOK, DeviceCreate, Name
    <2>2. /\ pc[v] = "node" /\ UNCHANGED <<number, synth_devs>>
          /\ \A u \in Devices : "node" \in held[u] => Name(u) # Name(v)
      BY DEF DeviceCreate, NameTaken
    <2>3. number[v] = synth_devs[driver_of[v]]
      BY <2>2 DEF IInv, NumInv, DevInv
    <2>4. \A u \in Devices : Probing(u)' <=> Probing(u)
      BY <2>1, <2>2 DEF Probing
    <2> QED  BY <2>1, <2>2, <2>3, <2>4 DEF IInv, NumInv
  <1>4. NumbersDescend'
    BY DEF IInv, TypeOK, NumbersDescend, DeviceCreate, NameTaken
  <1>5. RefInv'
    BY FilesKept DEF DeviceCreate
  <1>6. FileInv'
    BY DEF IInv, TypeOK, FileInv, DeviceCreate, NameTaken
  <1>7. OpenAlive'
    BY FilesKept DEF DeviceCreate
  <1>8. WalkInv'
    <2>1. v \notin Listed
      BY DEF IInv, DevInv, DeviceCreate
    <2>2. \A u \in Listed : number'[u] = number[u]
      BY <2>1, ListFacts DEF IInv, TypeOK, DeviceCreate
    <2>3. \A u \in Listed : driver_of[u] = driver_of[v] => number[v] > number[u]
      <3>1. ASSUME NEW u \in Listed, driver_of[u] = driver_of[v] PROVE number[v] > number[u]
        <4>1. u \in Devices /\ pc[u] \in {"listed", "bound", "unlinking"} /\ "node" \in held[u]
          BY ListFacts DEF IInv, DevInv
        <4>2. Name(u) # Name(v) /\ number[u] # number[v]
          BY <3>1, <4>1 DEF DeviceCreate, NameTaken, Name
        <4>3. number[v] = synth_devs[driver_of[v]]
          BY DEF IInv, NumInv, DevInv, DeviceCreate, NameTaken
        <4>4. number[u] <= synth_devs[driver_of[v]] /\ number[u] \in Nat /\ number[v] \in Nat
          BY <3>1, <4>1 DEF IInv, NumInv, TypeOK, DevicesAssumption
        <4> QED  BY <4>2, <4>3, <4>4
      <3> QED  BY <3>1
    <2>4. \A u \in Devices : u # v => held'[u] = held[u] /\ number'[u] = number[u]
      BY DEF IInv, TypeOK, DeviceCreate
    <2>5. number'[v] = number[v]
      BY DEF DeviceCreate
    <2> QED  BY <2>2, <2>3, <2>4, <2>5, WalkStays DEF DeviceCreate
  <1>9. WalkSafe'
    BY DEF IInv, TypeOK, WalkSafe, DeviceCreate, NameTaken
  <1>10. RaceInv'
    BY RacesAside DEF DeviceCreate
  <1> QED
    BY <1>1, <1>2, <1>3, <1>4, <1>5, <1>6, <1>7, <1>8, <1>9, <1>10 DEF IInv

\* DeviceCreateFails keeps the invariant.
LEMMA DeviceCreateFailsKeeps ==
    ASSUME DevicesAssumption, UnbindsAlone, IInv, NEW v \in Devices, DeviceCreateFails(v)
    PROVE  IInv'
  <1>1. TypeOK'
    BY DEF IInv, TypeOK, Labels, DeviceCreateFails, Free
  <1>2. DevInv'
    <2>1. Listed' = Listed
      BY DEF Listed, DeviceCreateFails, Free
    <2> QED  BY <2>1 DEF IInv, TypeOK, DevInv, DeviceCreateFails, Free
  <1>3. NumInv'
    BY DEF IInv, TypeOK, NumInv, Name, Probing, DeviceCreateFails, Free
  <1>4. NumbersDescend'
    <2>1. \A j \in DOMAIN esp_devices : esp_devices[j] \in Devices /\ esp_devices[j] # v
      BY ListFacts DEF IInv, DevInv, DeviceCreateFails
    <2>2. \A j \in DOMAIN esp_devices : number'[esp_devices[j]] = number[esp_devices[j]]
      BY <2>1 DEF IInv, TypeOK, DeviceCreateFails, Free
    <2> QED  BY <2>2 DEF IInv, NumbersDescend, DeviceCreateFails, Free
  <1>5. RefInv'
    <2>1. \A e \in Drivers : OpenOf(e)' = OpenOf(e)
      BY DEF OpenOf, DeviceCreateFails, Free
    <2> QED  BY <2>1 DEF IInv, TypeOK, RefInv, DeviceCreateFails, Free
  <1>6. FileInv'
    BY DEF IInv, TypeOK, FileInv, DevicesAssumption, DeviceCreateFails, Free
  <1>7. OpenAlive'
    <2>1. \/ driver_of[v] \in Parallel
          \/ \E u \in Failing : driver_of[u] = driver_of[v]
      <3>1. CASE v \in Failing
        BY <3>1
      <3>2. CASE driver_of[v] \notin Parallel /\ NameTaken(v)
        <4>1. PICK u \in Devices :
                "node" \in held[u] /\ driver_of[u] = driver_of[v] /\ number[u] = number[v]
          BY <3>2 DEF NameTaken, Name
        <4>2. pc[v] = "node" /\ held[v] = {"cdev"} /\ number[v] = synth_devs[driver_of[v]]
          BY <3>2 DEF DeviceCreateFails, IInv, DevInv, NumInv
        <4>3. u # v /\ ~Probing(u)
          BY <3>2, <4>1, <4>2 DEF IInv, NumInv, Probing
        <4>4. ~(number[u] < synth_devs[driver_of[u]])
          BY <4>1, <4>2 DEF IInv, TypeOK
        <4>5. pc[u] = "oops"
          BY <4>1, <4>3, <4>4 DEF IInv, TypeOK, DevInv, NumInv, Probing, Labels
        <4> QED  BY <4>1, <4>5 DEF IInv, DevInv
      <3> QED  BY <3>1, <3>2 DEF DeviceCreateFails
    <2> QED  BY <2>1 DEF IInv, OpenAlive, DeviceCreateFails, Free
  <1>8. WalkInv'
    <2>1. v \notin Listed
      BY DEF IInv, DevInv, DeviceCreateFails
    <2>2. \A u \in Listed : number'[u] = number[u]
      BY <2>1, ListFacts DEF IInv, TypeOK, DeviceCreateFails, Free
    <2>3. \A u \in Devices : "node" \in held'[u] => "node" \in held[u] /\ number'[u] = number[u]
      BY DEF IInv, TypeOK, DeviceCreateFails, Free
    <2> QED  BY <2>2, <2>3, WalkStays DEF DeviceCreateFails, Free
  <1>9. WalkSafe'
    BY DEF IInv, TypeOK, WalkSafe, DeviceCreateFails, Free
  <1>10. RaceInv'
    BY RacesAside DEF DeviceCreateFails, Free
  <1> QED
    BY <1>1, <1>2, <1>3, <1>4, <1>5, <1>6, <1>7, <1>8, <1>9, <1>10 DEF IInv

\* RequestIrq keeps the invariant.
LEMMA RequestIrqKeeps ==
    ASSUME DevicesAssumption, UnbindsAlone, IInv, NEW v \in Devices, RequestIrq(v) PROVE IInv'
  <1>1. TypeOK'
    BY DEF IInv, TypeOK, Labels, RequestIrq
  <1>2. DevInv'
    <2>1. Listed' = Listed
      BY DEF Listed, RequestIrq
    <2> QED  BY <2>1 DEF IInv, TypeOK, DevInv, RequestIrq
  <1>3. NumInv'
    BY DEF IInv, TypeOK, NumInv, Name, Probing, RequestIrq
  <1>4. NumbersDescend'
    BY DEF IInv, TypeOK, NumbersDescend, RequestIrq
  <1>5. RefInv'
    BY FilesKept DEF RequestIrq
  <1>6. FileInv'
    BY DEF IInv, TypeOK, FileInv, RequestIrq
  <1>7. OpenAlive'
    BY FilesKept DEF RequestIrq
  <1>8. WalkInv'
    <2>1. v \notin Listed
      BY DEF IInv, DevInv, RequestIrq
    <2>2. \A u \in Listed : number'[u] = number[u]
      BY <2>1, ListFacts DEF IInv, TypeOK, RequestIrq
    <2>3. \A u \in Devices : "node" \in held'[u] => "node" \in held[u] /\ number'[u] = number[u]
      BY DEF IInv, TypeOK, DevInv, RequestIrq
    <2> QED  BY <2>2, <2>3, WalkStays DEF RequestIrq
  <1>9. WalkSafe'
    BY DEF IInv, TypeOK, WalkSafe, RequestIrq
  <1>10. RaceInv'
    BY RacesAside DEF RequestIrq
  <1> QED
    BY <1>1, <1>2, <1>3, <1>4, <1>5, <1>6, <1>7, <1>8, <1>9, <1>10 DEF IInv

\* RequestIrqFails keeps the invariant.
LEMMA RequestIrqFailsKeeps ==
    ASSUME DevicesAssumption, UnbindsAlone, IInv, NEW v \in Devices, RequestIrqFails(v)
    PROVE  IInv'
  <1>1. TypeOK'
    BY DEF IInv, TypeOK, Labels, RequestIrqFails, Free
  <1>2. DevInv'
    <2>1. Listed' = Listed
      BY DEF Listed, RequestIrqFails, Free
    <2> QED  BY <2>1 DEF IInv, TypeOK, DevInv, RequestIrqFails, Free
  <1>3. NumInv'
    BY DEF IInv, TypeOK, NumInv, Name, Probing, RequestIrqFails, Free
  <1>4. NumbersDescend'
    <2>1. \A j \in DOMAIN esp_devices : esp_devices[j] \in Devices /\ esp_devices[j] # v
      BY ListFacts DEF IInv, DevInv, RequestIrqFails
    <2>2. \A j \in DOMAIN esp_devices : number'[esp_devices[j]] = number[esp_devices[j]]
      BY <2>1 DEF IInv, TypeOK, RequestIrqFails, Free
    <2> QED  BY <2>2 DEF IInv, NumbersDescend, RequestIrqFails, Free
  <1>5. RefInv'
    <2>1. \A e \in Drivers : OpenOf(e)' = OpenOf(e)
      BY DEF OpenOf, RequestIrqFails, Free
    <2> QED  BY <2>1 DEF IInv, TypeOK, RefInv, RequestIrqFails, Free
  <1>6. FileInv'
    BY DEF IInv, TypeOK, FileInv, DevicesAssumption, RequestIrqFails, Free
  <1>7. OpenAlive'
    <2> QED  BY DEF IInv, OpenAlive, RequestIrqFails, Free
  <1>8. WalkInv'
    <2>1. v \notin Listed
      BY DEF IInv, DevInv, RequestIrqFails
    <2>2. \A u \in Listed : number'[u] = number[u]
      BY <2>1, ListFacts DEF IInv, TypeOK, RequestIrqFails, Free
    <2>3. \A u \in Devices : "node" \in held'[u] => "node" \in held[u] /\ number'[u] = number[u]
      BY DEF IInv, TypeOK, RequestIrqFails, Free
    <2> QED  BY <2>2, <2>3, WalkStays DEF RequestIrqFails, Free
  <1>9. WalkSafe'
    BY DEF IInv, TypeOK, WalkSafe, RequestIrqFails, Free
  <1>10. RaceInv'
    BY RacesAside DEF RequestIrqFails, Free
  <1> QED
    BY <1>1, <1>2, <1>3, <1>4, <1>5, <1>6, <1>7, <1>8, <1>9, <1>10 DEF IInv

\* MapRegisters keeps the invariant.
LEMMA MapRegistersKeeps ==
    ASSUME DevicesAssumption, UnbindsAlone, IInv, NEW v \in Devices, MapRegisters(v) PROVE IInv'
  <1>1. TypeOK'
    BY DEF IInv, TypeOK, Labels, MapRegisters
  <1>2. DevInv'
    <2>1. Listed' = Listed
      BY DEF Listed, MapRegisters
    <2> QED  BY <2>1 DEF IInv, TypeOK, DevInv, MapRegisters
  <1>3. NumInv'
    BY DEF IInv, TypeOK, NumInv, Name, Probing, MapRegisters
  <1>4. NumbersDescend'
    BY DEF IInv, TypeOK, NumbersDescend, MapRegisters
  <1>5. RefInv'
    BY FilesKept DEF MapRegisters
  <1>6. FileInv'
    BY DEF IInv, TypeOK, FileInv, MapRegisters
  <1>7. OpenAlive'
    BY FilesKept DEF MapRegisters
  <1>8. WalkInv'
    <2>1. v \notin Listed
      BY DEF IInv, DevInv, MapRegisters
    <2>2. \A u \in Listed : number'[u] = number[u]
      BY <2>1, ListFacts DEF IInv, TypeOK, MapRegisters
    <2>3. \A u \in Devices : "node" \in held'[u] => "node" \in held[u] /\ number'[u] = number[u]
      BY DEF IInv, TypeOK, DevInv, MapRegisters
    <2> QED  BY <2>2, <2>3, WalkStays DEF MapRegisters
  <1>9. WalkSafe'
    BY DEF IInv, TypeOK, WalkSafe, MapRegisters
  <1>10. RaceInv'
    BY RacesAside DEF MapRegisters
  <1> QED
    BY <1>1, <1>2, <1>3, <1>4, <1>5, <1>6, <1>7, <1>8, <1>9, <1>10 DEF IInv

\* MapFails keeps the invariant.
LEMMA MapFailsKeeps ==
    ASSUME DevicesAssumption, UnbindsAlone, IInv, NEW v \in Devices, MapFails(v) PROVE IInv'
  <1>1. TypeOK'
    BY DEF IInv, TypeOK, Labels, MapFails
  <1>2. DevInv'
    <2>1. Listed' = Listed
      BY DEF Listed, MapFails
    <2> QED  BY <2>1 DEF IInv, TypeOK, DevInv, MapFails
  <1>3. NumInv'
    BY DEF IInv, TypeOK, NumInv, Name, Probing, MapFails
  <1>4. NumbersDescend'
    BY DEF IInv, TypeOK, NumbersDescend, MapFails
  <1>5. RefInv'
    BY FilesKept DEF MapFails
  <1>6. FileInv'
    BY DEF IInv, TypeOK, FileInv, MapFails
  <1>7. OpenAlive'
    BY FilesKept DEF MapFails
  <1>8. WalkInv'
    <2>1. v \notin Listed
      BY DEF IInv, DevInv, MapFails
    <2>2. \A u \in Listed : number'[u] = number[u]
      BY <2>1, ListFacts DEF IInv, TypeOK, MapFails
    <2>3. \A u \in Devices : "node" \in held'[u] => "node" \in held[u] /\ number'[u] = number[u]
      BY DEF IInv, TypeOK, DevInv, MapFails
    <2> QED  BY <2>2, <2>3, WalkStays DEF MapFails
  <1>9. WalkSafe'
    BY DEF IInv, TypeOK, WalkSafe, MapFails
  <1>10. RaceInv'
    BY RacesAside DEF MapFails
  <1> QED
    BY <1>1, <1>2, <1>3, <1>4, <1>5, <1>6, <1>7, <1>8, <1>9, <1>10 DEF IInv

\* ListAdd keeps the invariant.
LEMMA ListAddKeeps ==
    ASSUME DevicesAssumption, UnbindsAlone, IInv, NEW v \in Devices, ListAdd(v) PROVE IInv'
  <1>1. TypeOK'
    <2>0. /\ v \in Devices /\ v \notin Listed /\ pc[v] = "list"
          /\ esp_devices' = <<v>> \o esp_devices /\ pc' = [pc EXCEPT ![v] = "listed"]
          /\ UNCHANGED <<driver, number, held, esp_devices_lock, file, dangling, access>>
      BY DEF IInv, DevInv, ListAdd
    <2>1. /\ esp_devices' \in Seq(Devices) /\ IsInjective(esp_devices')
          /\ Range(esp_devices') = {v} \cup Listed
      BY <2>0, ListFacts, PushFacts DEF IInv, DevInv
    <2>2. raced' \in SUBSET Drivers
      BY DEF IInv, TypeOK, ListAdd, Overlaps, DevicesAssumption
    <2> QED  BY <2>0, <2>1, <2>2 DEF IInv, TypeOK, Labels
  <1>2. DevInv'
    <2>0. /\ v \in Devices /\ v \notin Listed /\ pc[v] = "list"
          /\ esp_devices' = <<v>> \o esp_devices /\ pc' = [pc EXCEPT ![v] = "listed"]
          /\ UNCHANGED <<driver, number, held, esp_devices_lock, file, dangling, access>>
      BY DEF IInv, DevInv, ListAdd
    <2>1. /\ esp_devices' \in Seq(Devices) /\ IsInjective(esp_devices')
          /\ Range(esp_devices') = {v} \cup Listed
      BY <2>0, ListFacts, PushFacts DEF IInv, DevInv
    <2>2. Listed' = {v} \cup Listed
      BY <2>1 DEF Listed, Range
    <2> QED  BY <2>0, <2>1, <2>2 DEF IInv, TypeOK, DevInv
  <1>3. NumInv'
    BY DEF IInv, TypeOK, NumInv, Name, Probing, ListAdd
  <1>4. NumbersDescend'
    <2>0. /\ v \in Devices /\ v \notin Listed /\ pc[v] = "list"
          /\ esp_devices' = <<v>> \o esp_devices /\ pc' = [pc EXCEPT ![v] = "listed"]
          /\ UNCHANGED <<driver, number, held, esp_devices_lock, file, dangling, access>>
      BY DEF IInv, DevInv, ListAdd
    <2>1. /\ esp_devices' \in Seq(Devices) /\ IsInjective(esp_devices')
          /\ Range(esp_devices') = {v} \cup Listed
      BY <2>0, ListFacts, PushFacts DEF IInv, DevInv
    <2>2. /\ DOMAIN esp_devices' = 1 .. Len(esp_devices) + 1
          /\ \A j \in 1 .. Len(esp_devices) + 1 :
               esp_devices'[j] = IF j = 1 THEN v ELSE esp_devices[j - 1]
      BY <2>0, <2>1, ListFacts, PushOrder, PushFacts, LenProperties
    <2>3. ASSUME NEW u \in Listed, driver_of[u] = driver_of[v] PROVE number[v] > number[u]
      <3>1. /\ u \in Devices /\ pc[u] \in {"listed", "bound", "unlinking"}
            /\ "node" \in held[u] /\ u # v
        BY <2>0, ListFacts DEF IInv, DevInv
      <3>2. Name(u) # Name(v) /\ number[u] # number[v]
        BY <2>0, <2>3, <3>1 DEF IInv, DevInv, NumInv, Name
      <3>3. number[v] = synth_devs[driver_of[v]] /\ number[u] <= number[v]
        BY <2>0, <2>3, <3>1 DEF IInv, NumInv, TypeOK, DevicesAssumption
      <3>4. number[u] \in Nat /\ number[v] \in Nat
        BY <3>1 DEF IInv, TypeOK
      <3> QED  BY <3>2, <3>3, <3>4
    <2>4. ASSUME NEW j \in DOMAIN esp_devices', NEW l \in DOMAIN esp_devices', j < l,
                 driver_of[esp_devices'[j]] = driver_of[esp_devices'[l]]
          PROVE  number[esp_devices'[j]] > number[esp_devices'[l]]
      <3>1. l # 1 /\ l - 1 \in DOMAIN esp_devices /\ esp_devices'[l] = esp_devices[l - 1]
        BY <2>2, <2>4, ListFacts
      <3>2. CASE j = 1
        BY <3>1, <3>2, <2>2, <2>3, <2>4, ListFacts
      <3>3. CASE j # 1
        <4>1. j - 1 \in DOMAIN esp_devices /\ j - 1 < l - 1 /\ esp_devices'[j] = esp_devices[j - 1]
          BY <3>3, <2>2, <2>4, ListFacts
        <4> QED  BY <4>1, <3>1, <2>4 DEF IInv, NumbersDescend
      <3> QED  BY <3>2, <3>3
    <2> QED  BY <2>0, <2>4 DEF NumbersDescend
  <1>5. RefInv'
    BY FilesKept DEF ListAdd
  <1>6. FileInv'
    BY DEF IInv, TypeOK, FileInv, ListAdd
  <1>7. OpenAlive'
    BY FilesKept DEF ListAdd
  <1>8. WalkInv'
    <2>1. \A f \in Files : io[f] \notin {"walk", "oops"}
      BY DEF IInv, WalkInv, ListAdd, DevicesAssumption
    <2> QED  BY <2>1 DEF IInv, WalkInv, ListAdd
  <1>9. WalkSafe'
    <2>1. raced # {} => raced' # {}
      BY DEF ListAdd, Overlaps
    <2> QED  BY <2>1 DEF IInv, TypeOK, WalkSafe, ListAdd
  <1>10. RaceInv'
    <2>1. ASSUME NEW d \in Drivers, raced' = {d} PROVE \E u \in Unbinds : driver_of[u] = d
      <3>1. CASE raced' = raced
        BY <2>1, <3>1 DEF IInv, RaceInv, RacesApart
      <3>2. CASE raced' # raced
        <4> DEFINE us == {u \in Devices : pc[u] = "unlinking" /\ u = Entry(1)}
        <4>1. us # {} /\ raced' = {driver_of[u] : u \in us \cup {v}}
          BY <3>2 DEF ListAdd, Overlaps
        <4>2. PICK u \in Devices : pc[u] = "unlinking" /\ driver_of[u] = d
          BY <2>1, <4>1
        <4>3. driver_of[v] = d /\ pc[v] = "list"
          BY <2>1, <4>1 DEF ListAdd
        <4> QED  BY <4>2, <4>3 DEF IInv, RaceInv
      <3> QED  BY <3>1, <3>2
    <2>2. \A u \in Devices : pc'[u] = IF u = v THEN "listed" ELSE pc[u]
      BY DEF IInv, TypeOK, ListAdd
    <2>3. pc[v] = "list" /\ UNCHANGED steady
      BY DEF ListAdd
    <2>4. Listed \subseteq Listed'
      <3>1. Range(esp_devices') = {v} \cup Range(esp_devices)
        BY ListFacts, PushFacts DEF ListAdd, IInv, DevInv
      <3> QED  BY <3>1 DEF Listed, Range
    <2> QED  BY <2>1, <2>2, <2>3, <2>4 DEF IInv, RaceInv, RacesApart
  <1> QED
    BY <1>1, <1>2, <1>3, <1>4, <1>5, <1>6, <1>7, <1>8, <1>9, <1>10 DEF IInv

\* Registered keeps the invariant.
LEMMA RegisteredKeeps ==
    ASSUME DevicesAssumption, UnbindsAlone, IInv, NEW v \in Devices, Registered(v) PROVE IInv'
  <1>1. TypeOK'
    <2>1. synth_devs' \in [Drivers -> Nat] /\ pc' \in [Devices -> Labels]
      BY DEF IInv, TypeOK, Labels, Registered
    <2> QED  BY <2>1 DEF IInv, TypeOK, Registered
  <1>2. DevInv'
    <2>1. Listed' = Listed
      BY DEF Listed, Registered
    <2> QED  BY <2>1 DEF IInv, TypeOK, DevInv, Registered
  <1>3. NumInv'
    <2>1. /\ \A u \in Devices : pc'[u] = IF u = v THEN "bound" ELSE pc[u]
          /\ \A d \in Drivers :
               synth_devs'[d] = IF d = driver_of[v] THEN synth_devs[d] + 1 ELSE synth_devs[d]
          /\ UNCHANGED <<number, held>> /\ pc[v] = "listed"
      BY DEF IInv, TypeOK, Registered, DevicesAssumption
    <2>2. \A u \in Devices : Name(u)' = Name(u) /\ (Probing(u)' <=> Probing(u) /\ u # v)
      BY <2>1 DEF Name, Probing
    <2>3. ASSUME NEW u \in Devices, u # v, driver_of[u] = driver_of[v],
                 pc[u] \in {"irq", "map", "list", "listed", "oops"}
          PROVE  FALSE
      <3>1. "node" \in held[u] /\ "node" \in held[v]
        BY <2>1, <2>3 DEF IInv, DevInv
      <3>2. Name(u) = Name(v)
        BY <2>1, <2>3 DEF IInv, NumInv, Name
      <3> QED  BY <2>3, <3>1, <3>2 DEF IInv, NumInv
    <2>4. ASSUME NEW u \in Devices, u # v, pc[u] \in {"bound", "unlinking", "unlisted"}
          PROVE  number[u] < synth_devs'[driver_of[u]]
      <3>1. number[u] < synth_devs[driver_of[u]]
        BY <2>4 DEF IInv, NumInv
      <3>2. driver_of[u] \in Drivers /\ number[u] \in Nat /\ synth_devs[driver_of[u]] \in Nat
        BY DEF IInv, TypeOK, DevicesAssumption
      <3>3. synth_devs'[driver_of[u]] >= synth_devs[driver_of[u]]
        BY <2>1, <3>2
      <3>4. synth_devs'[driver_of[u]] \in Nat
        BY <1>1, <3>2 DEF TypeOK
      <3> QED  BY <3>1, <3>2, <3>3, <3>4
    <2>5. number[v] < synth_devs'[driver_of[v]]
      BY <2>1 DEF IInv, TypeOK, NumInv, DevicesAssumption
    <2>6. ASSUME NEW u \in Devices, pc[u] \in {"cdev", "node"}
          PROVE  \/ number[u] = synth_devs'[driver_of[u]]
                 \/ /\ driver_of[u] \in Parallel
                    /\ \E w \in Devices : pc'[w] = "bound" /\ Name(w) = Name(u)
      <3>1. CASE driver_of[u] # driver_of[v]
        BY <2>1, <2>6, <3>1 DEF IInv, NumInv, DevicesAssumption
      <3>2. CASE driver_of[u] = driver_of[v]
        <4>1. Probing(u) /\ Probing(v) /\ u # v
          BY <2>1, <2>6 DEF Probing
        <4>2. driver_of[u] \in Parallel
          BY <3>2, <4>1 DEF IInv, NumInv
        <4>3. CASE number[u] = synth_devs[driver_of[u]]
          <5>1. Name(v) = Name(u)
            BY <2>1, <3>2, <4>3 DEF IInv, NumInv, Name
          <5> QED  BY <2>1, <4>2, <5>1
        <4> QED  BY <2>1, <2>6, <4>2, <4>3 DEF IInv, NumInv
      <3> QED  BY <3>1, <3>2
    <2>7. ASSUME NEW u \in Devices, pc[u] \in {"irq", "map", "list", "listed", "oops"}, u # v
          PROVE  number[u] = synth_devs'[driver_of[u]]
      BY <2>1, <2>3, <2>7 DEF IInv, NumInv, DevicesAssumption
    <2> QED  BY <2>1, <2>2, <2>4, <2>5, <2>6, <2>7 DEF IInv, NumInv
  <1>4. NumbersDescend'
    BY DEF IInv, TypeOK, NumbersDescend, Registered
  <1>5. RefInv'
    <2>1. \A e \in Drivers : OpenOf(e)' = OpenOf(e)
      BY DEF OpenOf, Registered
    <2> QED  BY <2>1 DEF IInv, TypeOK, RefInv, Registered
  <1>6. FileInv'
    BY WalksKept DEF Registered
  <1>7. OpenAlive'
    BY DEF IInv, TypeOK, OpenAlive, Registered
  <1>8. WalkInv'
    BY WalksKept DEF Registered
  <1>9. WalkSafe'
    BY WalksKept DEF Registered
  <1>10. RaceInv'
    BY RacesAside DEF Registered
  <1> QED
    BY <1>1, <1>2, <1>3, <1>4, <1>5, <1>6, <1>7, <1>8, <1>9, <1>10 DEF IInv

\* list_del begins: the list is still as it was.
LEMMA ListDelKeeps ==
    ASSUME DevicesAssumption, UnbindsAlone, IInv, NEW v \in Devices, ListDel(v) PROVE IInv'
  <1>1. /\ pc[v] = "bound" /\ v \in Listed
        /\ \A u \in Devices : pc'[u] = IF u = v THEN "unlinking" ELSE pc[u]
        /\ UNCHANGED <<driver, number, held, esp_devices, esp_devices_lock, file, dangling,
                       access>>
        /\ raced' = {} => raced = {}
    <2>1. pc[v] = "bound" /\ v \in Listed
      BY DEF IInv, DevInv, ListDel
    <2>2. \A u \in Devices : pc'[u] = IF u = v THEN "unlinking" ELSE pc[u]
      BY DEF IInv, TypeOK, ListDel
    <2>3. raced' = {} => raced = {}
      BY DEF ListDel, Overlaps
    <2> QED  BY <2>1, <2>2, <2>3 DEF ListDel
  <1>2. \/ v \in Unbinds /\ module[driver_of[v]] = "live"
        \/ /\ module[driver_of[v]] = "going"
           /\ \A u \in Devices : driver_of[u] = driver_of[v] =>
                pc[u] \in {"unbound", "bound", "oops"}
    BY DEF ListDel
  <1>3. Listed' = Listed /\ \A u \in Devices : Name(u)' = Name(u)
    BY <1>1 DEF Listed, Name
  <1>4. \A u \in Devices : Probing(u)' <=> Probing(u)
    BY <1>1 DEF Probing
  <1>5. TypeOK'
    <2>1. pc' \in [Devices -> Labels]
      BY DEF IInv, TypeOK, Labels, ListDel
    <2>2. raced' \in SUBSET Drivers
      <3>1. raced \in SUBSET Drivers /\ \A u \in Devices : driver_of[u] \in Drivers
        BY DEF IInv, TypeOK, DevicesAssumption
      <3> DEFINE us == {u \in Beside(v) : pc[u] = "unlinking"}
      <3>2. us \subseteq Devices
        BY DEF Beside
      <3>3. raced' = raced \/ raced' = {driver_of[u] : u \in us \cup {v}}
        BY DEF ListDel, Overlaps
      <3> HIDE DEF us
      <3> QED  BY <3>1, <3>2, <3>3
    <2> QED  BY <1>1, <2>1, <2>2 DEF IInv, TypeOK
  <1>6. DevInv'
    BY <1>1, <1>2, <1>3 DEF IInv, DevInv
  <1>7. NumInv'
    <2>1. ASSUME NEW u \in Devices, pc[u] \in {"cdev", "node"}, driver_of[u] \in Parallel,
                 Name(u) = Name(v)
          PROVE  FALSE
      BY <1>2, <2>1 DEF UnbindsAlone, Name
    <2> QED  BY <1>1, <1>3, <1>4, <2>1 DEF IInv, NumInv
  <1>8. NumbersDescend' /\ FileInv'
    BY <1>1 DEF IInv, NumbersDescend, FileInv
  <1>9. RefInv' /\ OpenAlive'
    BY <1>1, FilesKept
  <1>10. WalkInv' /\ WalkSafe'
    BY <1>1, <1>3, WalkStays
  <1>11. RaceInv'
    <2>1. ASSUME NEW d \in Drivers, raced' = {d} PROVE \E u \in Unbinds : driver_of[u] = d
      <3>1. CASE raced' = raced
        BY <2>1, <3>1 DEF IInv, RaceInv, RacesApart
      <3>2. CASE raced' # raced
        <4> DEFINE us == {u \in Beside(v) : pc[u] = "unlinking"}
        <4>1. us # {} /\ raced' = {driver_of[u] : u \in us \cup {v}}
          BY <3>2 DEF ListDel, Overlaps
        <4>5. \A u \in us : u \in Devices /\ u # v /\ pc[u] = "unlinking"
          BY DEF Beside
        <4> HIDE DEF us
        <4>2. PICK u \in Devices : u # v /\ pc[u] = "unlinking" /\ driver_of[u] = d
          BY <2>1, <4>1, <4>5
        <4>3. driver_of[v] = d
          BY <2>1, <4>1
        <4>4. u \notin Unbinds => module[driver_of[u]] = "going"
          BY <4>2 DEF IInv, DevInv
        <4> QED  BY <1>2, <4>2, <4>3, <4>4
      <3> QED  BY <3>1, <3>2
    <2>2. ASSUME NEW u \in Devices, NEW w \in Devices, driver_of[u] = driver_of[w], u # w,
                 pc'[u] = "unlinking", u \notin Unbinds
          PROVE  pc'[w] \in {"unbound", "bound", "oops"}
      <3>1. CASE u = v
        BY <1>1, <1>2, <2>2, <3>1
      <3>2. CASE u # v
        <4>1. pc[u] = "unlinking" /\ module[driver_of[u]] = "going"
          BY <1>1, <2>2, <3>2 DEF IInv, DevInv
        <4>2. w # v
          BY <1>2, <2>2, <4>1
        <4> QED  BY <1>1, <2>2, <4>1, <4>2 DEF IInv, RaceInv
      <3> QED  BY <3>1, <3>2
    <2>3. \A f \in Files : steady'[f] \subseteq Listed'
      BY <1>1, <1>3 DEF IInv, RaceInv
    <2> QED  BY <2>1, <2>2, <2>3 DEF RaceInv, RacesApart
  <1> QED
    BY <1>5, <1>6, <1>7, <1>8, <1>9, <1>10, <1>11 DEF IInv

\* The list without the device that is unlinked: the others keep their order.
LEMMA UnlinkFacts ==
    ASSUME IInv, NEW v \in Devices, Unlink(v)
    PROVE  /\ esp_devices' \in Seq(Devices) /\ IsInjective(esp_devices')
           /\ Listed' = Listed \ {v}
           /\ \A j, l \in DOMAIN esp_devices' : j < l =>
                \E m, n \in DOMAIN esp_devices :
                   m < n /\ esp_devices'[j] = esp_devices[m] /\ esp_devices'[l] = esp_devices[n]
  <1>0. PICK i \in DOMAIN esp_devices :
          esp_devices[i] = v /\ esp_devices' = RemoveAt(esp_devices, i)
    BY DEF Unlink
  <1>1. /\ esp_devices' \in Seq(Devices) /\ IsInjective(esp_devices')
        /\ DOMAIN esp_devices' = 1 .. Len(esp_devices) - 1
        /\ \A j \in 1 .. Len(esp_devices) - 1 :
             esp_devices'[j] = IF j < i THEN esp_devices[j] ELSE esp_devices[j + 1]
        /\ Range(esp_devices') = Listed \ {v}
    BY <1>0, ListDelOrder
  <1>2. Listed' = Listed \ {v}
    BY <1>1 DEF Listed, Range
  <1>3. ASSUME NEW j \in DOMAIN esp_devices', NEW l \in DOMAIN esp_devices', j < l
        PROVE  \E m, n \in DOMAIN esp_devices :
                  m < n /\ esp_devices'[j] = esp_devices[m] /\ esp_devices'[l] = esp_devices[n]
    <2> DEFINE up(n) == IF n < i THEN n ELSE n + 1
    <2>1. up(j) \in DOMAIN esp_devices /\ up(l) \in DOMAIN esp_devices /\ up(j) < up(l)
      BY <1>0, <1>1, <1>3, ListFacts
    <2>2. esp_devices'[j] = esp_devices[up(j)] /\ esp_devices'[l] = esp_devices[up(l)]
      BY <1>1
    <2> QED  BY <2>1, <2>2
  <1> QED  BY <1>1, <1>2, <1>3

\* Unlink keeps the invariant.
LEMMA UnlinkKeeps ==
    ASSUME DevicesAssumption, UnbindsAlone, IInv, NEW v \in Devices, Unlink(v) PROVE IInv'
  <1>1. /\ pc[v] = "unlinking" /\ v \in Listed
        /\ \A u \in Devices : pc'[u] = IF u = v THEN "unlisted" ELSE pc[u]
        /\ steady' = [f \in Files |-> steady[f] \ {v}]
        /\ UNCHANGED <<driver, number, held, esp_devices_lock, raced, file, dangling,
                       lock, io, req, k, at, P2P_REG>>
    <2>1. pc[v] = "unlinking" /\ v \in Listed
      BY DEF IInv, DevInv, Unlink
    <2>2. \A u \in Devices : pc'[u] = IF u = v THEN "unlisted" ELSE pc[u]
      BY DEF IInv, TypeOK, Unlink
    <2> QED  BY <2>1, <2>2 DEF Unlink
  <1>2. v \in Unbinds \/ module[driver_of[v]] = "going"
    BY <1>1 DEF IInv, DevInv
  <1>3. Listed' = Listed \ {v}
    BY UnlinkFacts
  <1>4. \A u : Name(u)' = Name(u)
    BY <1>1 DEF Name
  <1>5. TypeOK'
    <2>1. pc' \in [Devices -> Labels]
      BY DEF IInv, TypeOK, Labels, Unlink
    <2>2. steady' \in [Files -> SUBSET Devices] /\ esp_devices' \in Seq(Devices)
      BY <1>1, UnlinkFacts DEF IInv, TypeOK
    <2> QED  BY <1>1, <2>1, <2>2 DEF IInv, TypeOK
  <1>6. DevInv'
    BY <1>1, <1>2, <1>3, UnlinkFacts DEF IInv, DevInv
  <1>7. NumInv'
    <2>1. \A u \in Devices : Probing(u)' <=> Probing(u)
      BY <1>1 DEF Probing
    <2> QED  BY <1>1, <1>4, <2>1 DEF IInv, NumInv
  <1>8. NumbersDescend' /\ FileInv'
    BY <1>1, UnlinkFacts DEF IInv, NumbersDescend, FileInv
  <1>9. RefInv' /\ OpenAlive'
    BY <1>1, FilesKept
  <1>10. ASSUME NEW f \in Files, io[f] = "walk", raced = {} PROVE Walk(f)'
    <2> DEFINE src == Srcs(f)[k[f]]
    <2>1. Walk(f) /\ Srcs(f)' = Srcs(f) /\ src' = src
      BY <1>1, <1>10 DEF IInv, WalkInv, Srcs
    <2>2. ASSUME NEW j \in DOMAIN esp_devices', NEW l \in DOMAIN esp_devices',
                 j < l, esp_devices'[l] = at[f]
          PROVE  Name(esp_devices'[j]) # src
      BY <2>1, <2>2, UnlinkFacts DEF Walk
    <2>3. ASSUME at[f] = v, NEW u \in Listed \ {v}, driver_of[u] = driver_of[v], Name(u) = src
          PROVE  number[v] > number[u]
      <3>1. PICK i \in DOMAIN esp_devices : esp_devices[i] = v
        BY <1>1 DEF Listed
      <3>2. PICK n \in DOMAIN esp_devices : esp_devices[n] = u
        BY <2>3 DEF Listed
      <3>3. i # n /\ ~(n < i) /\ i \in Int /\ n \in Int
        BY <2>1, <2>3, <3>1, <3>2, ListFacts DEF Walk
      <3>4. i < n
        BY <3>3
      <3> QED  BY <2>3, <3>1, <3>2, <3>4 DEF IInv, NumbersDescend
    <2>4. ASSUME f \notin dangling, v \notin Unbinds, driver_of[v] = driver_of[file[f]]
          PROVE  FALSE
      <3>1. module[driver_of[v]] = "going" /\ driver_of[v] \in Drivers /\ file[f] # NoDevice
        BY <1>2, <1>10, <2>4 DEF IInv, FileInv, DevicesAssumption
      <3>2. 2 * Cardinality(OpenOf(driver_of[v])) = 0
        BY <3>1 DEF IInv, RefInv
      <3>3. IsFiniteSet(OpenOf(driver_of[v])) /\ f \in OpenOf(driver_of[v])
        BY <2>4, <3>1, FS_Subset DEF OpenOf, DevicesAssumption
      <3>4. Cardinality(OpenOf(driver_of[v])) \in Nat \ {0}
        BY <3>3, FS_EmptySet, FS_CardinalityType
      <3> QED  BY <3>2, <3>4
    <2> QED  BY <1>1, <1>3, <1>4, <2>1, <2>2, <2>3, <2>4 DEF Walk
  <1>11. WalkInv' /\ WalkSafe'
    <2>1. \A f \in Files : Srcs(f)' = Srcs(f)
      BY <1>1 DEF Srcs
    <2> QED  BY <1>1, <1>10, <2>1 DEF IInv, WalkInv, WalkSafe
  <1>12. RaceInv'
    BY <1>1, <1>3 DEF IInv, RaceInv, RacesApart, TypeOK
  <1> QED
    BY <1>5, <1>6, <1>7, <1>8, <1>9, <1>11, <1>12 DEF IInv

\* Release keeps the invariant.
LEMMA ReleaseKeeps ==
    ASSUME DevicesAssumption, UnbindsAlone, IInv, NEW v \in Devices, Release(v) PROVE IInv'
  <1>1. TypeOK'
    BY DEF IInv, TypeOK, Labels, Release, Free
  <1>2. DevInv'
    <2>1. Listed' = Listed
      BY DEF Listed, Release, Free
    <2> QED  BY <2>1 DEF IInv, TypeOK, DevInv, Release, Free
  <1>3. NumInv'
    BY DEF IInv, TypeOK, NumInv, Name, Probing, Release, Free
  <1>4. NumbersDescend'
    <2>1. \A j \in DOMAIN esp_devices : esp_devices[j] \in Devices /\ esp_devices[j] # v
      BY ListFacts DEF IInv, DevInv, Release
    <2>2. \A j \in DOMAIN esp_devices : number'[esp_devices[j]] = number[esp_devices[j]]
      BY <2>1 DEF IInv, TypeOK, Release, Free
    <2> QED  BY <2>2 DEF IInv, NumbersDescend, Release, Free
  <1>5. RefInv'
    <2>1. \A e \in Drivers : OpenOf(e)' = OpenOf(e)
      BY DEF OpenOf, Release, Free
    <2> QED  BY <2>1 DEF IInv, TypeOK, RefInv, Release, Free
  <1>6. FileInv'
    BY DEF IInv, TypeOK, FileInv, DevicesAssumption, Release, Free
  <1>7. OpenAlive'
    <2>1. ASSUME NEW f \in Files, file[f] = v, v \notin Unbinds PROVE FALSE
      <3>1. module[driver_of[v]] = "going" /\ driver_of[v] \in Drivers
        BY <2>1 DEF IInv, DevInv, Release, DevicesAssumption
      <3>2. 2 * Cardinality(OpenOf(driver_of[v])) = 0
        BY <3>1 DEF IInv, RefInv
      <3>3. IsFiniteSet(OpenOf(driver_of[v])) /\ f \in OpenOf(driver_of[v])
        BY <2>1, FS_Subset DEF OpenOf, DevicesAssumption
      <3>4. Cardinality(OpenOf(driver_of[v])) \in Nat \ {0}
        BY <3>3, FS_EmptySet, FS_CardinalityType
      <3> QED  BY <3>2, <3>4
    <2> QED  BY <2>1 DEF IInv, OpenAlive, Release, Free
  <1>8. WalkInv'
    <2>1. v \notin Listed
      BY DEF IInv, DevInv, Release
    <2>2. \A u \in Listed : number'[u] = number[u]
      BY <2>1, ListFacts DEF IInv, TypeOK, Release, Free
    <2>3. \A u \in Devices : "node" \in held'[u] => "node" \in held[u] /\ number'[u] = number[u]
      BY DEF IInv, TypeOK, Release, Free
    <2> QED  BY <2>2, <2>3, WalkStays DEF Release, Free
  <1>9. WalkSafe'
    BY DEF IInv, TypeOK, WalkSafe, Release, Free
  <1>10. RaceInv'
    BY RacesAside DEF Release, Free
  <1> QED
    BY <1>1, <1>2, <1>3, <1>4, <1>5, <1>6, <1>7, <1>8, <1>9, <1>10 DEF IInv

\* Open keeps the invariant.
LEMMA OpenKeeps ==
    ASSUME DevicesAssumption, UnbindsAlone, IInv, NEW f \in Files, Open(f) PROVE IInv'
  <1>1. TypeOK'
    <2>1. PICK v \in Used : /\ file' = [file EXCEPT ![f] = v]
                            /\ refs' = [refs EXCEPT ![driver_of[v]] = @ + 2]
      BY DEF Open
    <2>2. v \in Devices
      BY DEF DevicesAssumption
    <2>3. file' \in [Files -> Devices \cup {NoDevice}]
      BY <2>1, <2>2 DEF IInv, TypeOK
    <2>4. refs' \in [Drivers -> Nat]
      BY <2>1 DEF IInv, TypeOK
    <2> QED  BY <2>3, <2>4 DEF IInv, TypeOK, Open
  <1>2. DevInv'
    BY DevicesKept DEF Open
  <1>3. NumInv'
    BY DevicesKept DEF Open
  <1>4. NumbersDescend'
    BY DevicesKept DEF Open
  <1>5. RefInv'
    <2>1. PICK v \in Used : /\ file[f] = NoDevice /\ module[driver_of[v]] = "live"
                            /\ file' = [file EXCEPT ![f] = v]
                            /\ refs' = [refs EXCEPT ![driver_of[v]] = @ + 2]
                            /\ UNCHANGED module
      BY DEF Open
    <2>2. v \in Devices /\ v # NoDevice /\ driver_of[v] \in Drivers
      BY DEF DevicesAssumption
    <2>3. OpenOf(driver_of[v])' = OpenOf(driver_of[v]) \cup {f} /\ f \notin OpenOf(driver_of[v])
      BY <2>1, <2>2 DEF IInv, TypeOK, OpenOf
    <2>4. \A d \in Drivers \ {driver_of[v]} : OpenOf(d)' = OpenOf(d)
      BY <2>1, <2>2 DEF IInv, TypeOK, OpenOf
    <2>5. IsFiniteSet(OpenOf(driver_of[v]))
      BY FS_Subset DEF OpenOf, DevicesAssumption
    <2>6. /\ Cardinality(OpenOf(driver_of[v]))' = Cardinality(OpenOf(driver_of[v])) + 1
          /\ Cardinality(OpenOf(driver_of[v])) \in Nat
      BY <2>3, <2>5, FS_AddElement, FS_CardinalityType
    <2>7. /\ refs'[driver_of[v]] = refs[driver_of[v]] + 2
          /\ \A e \in Drivers \ {driver_of[v]} : refs'[e] = refs[e]
          /\ refs[driver_of[v]] = 2 * Cardinality(OpenOf(driver_of[v]))
      BY <2>1, <2>2 DEF IInv, TypeOK, RefInv
    <2>8. refs'[driver_of[v]] = 2 * Cardinality(OpenOf(driver_of[v]))'
      BY <2>6, <2>7
    <2>9. \A e \in Drivers \ {driver_of[v]} :
            refs'[e] = 2 * Cardinality(OpenOf(e))' /\ (module'[e] # "live" => refs'[e] = 0)
      BY <2>1, <2>4, <2>7 DEF IInv, RefInv
    <2> QED  BY <2>1, <2>8, <2>9 DEF RefInv
  <1>6. FileInv'
    BY DEF IInv, TypeOK, FileInv, Open
  <1>7. OpenAlive'
    BY DEF IInv, TypeOK, FileInv, OpenAlive, Open
  <1>8. WalkInv'
    <2>1. \A g \in Files : io[g] # "none" => file'[g] = file[g]
      BY DEF IInv, TypeOK, FileInv, Open
    <2> QED  BY <2>1, WalkStays DEF Open
  <1>9. WalkSafe'
    <2>1. \A g \in Files : io[g] # "none" => file'[g] = file[g]
      BY DEF IInv, TypeOK, FileInv, Open
    <2> QED  BY <2>1, WalkStays DEF Open
  <1>10. RaceInv'
    BY RacesKept DEF Open
  <1> QED
    BY <1>1, <1>2, <1>3, <1>4, <1>5, <1>6, <1>7, <1>8, <1>9, <1>10 DEF IInv

\* Close keeps the invariant.
LEMMA CloseKeeps ==
    ASSUME DevicesAssumption, UnbindsAlone, IInv, NEW f \in Files, Close(f) PROVE IInv'
  <1>1. TypeOK'
    <2>1. file[f] \in Devices /\ driver_of[file[f]] \in Drivers
      BY DEF IInv, TypeOK, DevicesAssumption, Close
    <2>2. f \in OpenOf(driver_of[file[f]]) /\ IsFiniteSet(OpenOf(driver_of[file[f]]))
      BY <2>1, FS_Subset DEF OpenOf, DevicesAssumption, Close
    <2>3. /\ Cardinality(OpenOf(driver_of[file[f]])) \in Nat \ {0}
          /\ refs[driver_of[file[f]]] = 2 * Cardinality(OpenOf(driver_of[file[f]]))
      BY <2>1, <2>2, FS_CardinalityType, FS_EmptySet DEF IInv, RefInv
    <2>4. refs[driver_of[file[f]]] - 2 \in Nat
      BY <2>3
    <2>5. refs' \in [Drivers -> Nat]
      BY <2>4 DEF IInv, TypeOK, Close
    <2>6. file' \in [Files -> Devices \cup {NoDevice}]
      BY DEF IInv, TypeOK, Close
    <2> QED  BY <2>5, <2>6 DEF IInv, TypeOK, Close
  <1>2. DevInv'
    BY DevicesKept DEF Close
  <1>3. NumInv'
    BY DevicesKept DEF Close
  <1>4. NumbersDescend'
    BY DevicesKept DEF Close
  <1>5. RefInv'
    <2>0. PICK d : d = driver_of[file[f]]
      OBVIOUS
    <2>1. /\ d = driver_of[file[f]]
          /\ file[f] # NoDevice /\ file' = [file EXCEPT ![f] = NoDevice]
          /\ refs' = [refs EXCEPT ![d] = @ - 2] /\ UNCHANGED module
      BY <2>0 DEF Close
    <2>2. d \in Drivers
      BY <2>1 DEF IInv, TypeOK, DevicesAssumption
    <2>3. OpenOf(d)' = OpenOf(d) \ {f} /\ f \in OpenOf(d)
      BY <2>1 DEF IInv, TypeOK, OpenOf
    <2>4. \A e \in Drivers \ {d} : OpenOf(e)' = OpenOf(e)
      BY <2>1 DEF IInv, TypeOK, OpenOf
    <2>5. IsFiniteSet(OpenOf(d))
      BY FS_Subset DEF OpenOf, DevicesAssumption
    <2>6. /\ Cardinality(OpenOf(d))' = Cardinality(OpenOf(d)) - 1
          /\ Cardinality(OpenOf(d)) \in Nat /\ Cardinality(OpenOf(d)) # 0
      BY <2>3, <2>5, FS_RemoveElement, FS_CardinalityType, FS_EmptySet
    <2>7. /\ refs'[d] = refs[d] - 2 /\ \A e \in Drivers \ {d} : refs'[e] = refs[e]
          /\ refs[d] = 2 * Cardinality(OpenOf(d)) /\ (module[d] # "live" => refs[d] = 0)
      BY <2>1, <2>2 DEF IInv, TypeOK, RefInv
    <2>8. refs'[d] = 2 * Cardinality(OpenOf(d))' /\ (module'[d] # "live" => refs'[d] = 0)
      BY <2>1, <2>6, <2>7
    <2>9. \A e \in Drivers \ {d} :
            refs'[e] = 2 * Cardinality(OpenOf(e))' /\ (module'[e] # "live" => refs'[e] = 0)
      BY <2>1, <2>4, <2>7 DEF IInv, RefInv
    <2> QED  BY <2>8, <2>9 DEF RefInv
  <1>6. FileInv'
    BY DEF IInv, TypeOK, FileInv, Close
  <1>7. OpenAlive'
    BY DEF IInv, TypeOK, OpenAlive, Close
  <1>8. WalkInv'
    <2>1. \A g \in Files : io[g] # "none" => file'[g] = file[g]
      BY DEF IInv, TypeOK, FileInv, Close
    <2> QED  BY <2>1, WalkStays DEF Close
  <1>9. WalkSafe'
    <2>1. \A g \in Files : io[g] # "none" => file'[g] = file[g]
      BY DEF IInv, TypeOK, FileInv, Close
    <2> QED  BY <2>1, WalkStays DEF Close
  <1>10. RaceInv'
    BY RacesKept DEF Close
  <1> QED
    BY <1>1, <1>2, <1>3, <1>4, <1>5, <1>6, <1>7, <1>8, <1>9, <1>10 DEF IInv

\* P2pInit keeps the invariant.
LEMMA P2pInitKeeps ==
    ASSUME DevicesAssumption, UnbindsAlone, IInv, NEW f \in Files, P2pInit(f) PROVE IInv'
  <1>1. TypeOK'
    <2>1. /\ lock' \in [Devices -> Files \cup {NoFile}] /\ P2P_REG' \in [Devices -> SUBSET (0 .. 31)]
          /\ k' \in [Files -> Nat \ {0}]
      <3>1. file[f] \in Devices
        BY DEF IInv, TypeOK, P2pInit
      <3>2. /\ lock' = [lock EXCEPT ![file[f]] = f]
            /\ P2P_REG' = [P2P_REG EXCEPT ![file[f]] = {}] /\ k' = [k EXCEPT ![f] = 1]
        BY DEF P2pInit
      <3>3. P2P_REG' \in [Devices -> SUBSET (0 .. 31)]
        <4>1. ASSUME NEW S, {} \in S, P2P_REG \in [Devices -> S] PROVE P2P_REG' \in [Devices -> S]
          BY <3>2, <4>1
        <4>2. P2P_REG \in [Devices -> SUBSET (0 .. 31)] /\ {} \in SUBSET (0 .. 31)
          BY DEF IInv, TypeOK
        <4> QED  BY <4>1, <4>2
      <3>4. lock' \in [Devices -> Files \cup {NoFile}] /\ k' \in [Files -> Nat \ {0}]
        <4>1. lock' = [lock EXCEPT ![file[f]] = f] /\ lock \in [Devices -> Files \cup {NoFile}]
          BY <3>2 DEF IInv, TypeOK
        <4>2. k' = [k EXCEPT ![f] = 1] /\ k \in [Files -> Nat \ {0}]
          BY <3>2 DEF IInv, TypeOK
        <4>3. lock' \in [Devices -> Files \cup {NoFile}]
          BY <4>1
        <4>4. k' \in [Files -> Nat \ {0}]
          BY <4>2
        <4> QED  BY <4>3, <4>4
      <3> QED  BY <3>3, <3>4
    <2>2. io' \in [Files -> {"none", "src", "walk", "run", "oops"}]
      BY DEF IInv, TypeOK, P2pInit, Step
    <2>3. req' \in [Files -> Access]
      BY DEF IInv, TypeOK, P2pInit, DevicesAssumption
    <2>4. steady' \in [Files -> SUBSET Devices]
      BY ListFacts DEF IInv, TypeOK, P2pInit
    <2> QED  BY <2>1, <2>2, <2>3, <2>4 DEF IInv, TypeOK, P2pInit
  <1>2. DevInv'
    BY DevicesKept DEF P2pInit, Step
  <1>3. NumInv'
    BY DevicesKept DEF P2pInit, Step
  <1>4. NumbersDescend'
    BY DevicesKept DEF P2pInit, Step
  <1>5. RefInv'
    BY FilesKept DEF P2pInit, Step
  <1>6. FileInv'
    BY DEF IInv, TypeOK, FileInv, P2pInit, Step
  <1>7. OpenAlive'
    BY FilesKept DEF P2pInit, Step
  <1>8. WalkInv'
    <2>1. \A g \in Files \ {f} :
            /\ io'[g] = io[g] /\ req'[g] = req[g] /\ k'[g] = k[g] /\ at'[g] = at[g]
            /\ esp_devices_lock' = g <=> esp_devices_lock = g
      BY DEF IInv, TypeOK, P2pInit, Step
    <2>2. io'[f] # "walk" /\ (esp_devices_lock' = f <=> io'[f] \in {"walk", "oops"})
      BY DEF IInv, TypeOK, WalkInv, P2pInit, Step
    <2> QED  BY <2>1, <2>2, OthersStay DEF P2pInit
  <1>9. WalkSafe'
    BY DEF IInv, TypeOK, WalkSafe, P2pInit, Step
  <1>10. RaceInv'
    <2>1. \A g \in Files : steady'[g] \subseteq Listed'
      BY DEF IInv, TypeOK, RaceInv, Listed, P2pInit
    <2>2. UNCHANGED <<pc, raced>>
      BY DEF P2pInit
    <2> QED  BY <2>1, <2>2 DEF IInv, RaceInv, RacesApart
  <1> QED
    BY <1>1, <1>2, <1>3, <1>4, <1>5, <1>6, <1>7, <1>8, <1>9, <1>10 DEF IInv

\* LookUp keeps the invariant.
LEMMA LookUpKeeps ==
    ASSUME DevicesAssumption, UnbindsAlone, IInv, NEW f \in Files, LookUp(f) PROVE IInv'
  <1>1. TypeOK'
    <2>1. First \subseteq Devices \cup {NoDevice}
      BY ListFacts DEF First, Anywhere, Entry
    <2>2. at' \in [Files -> Devices \cup {NoDevice}]
      BY <2>1 DEF IInv, TypeOK, LookUp
    <2>3. io' \in [Files -> {"none", "src", "walk", "run", "oops"}]
      BY DEF IInv, TypeOK, LookUp, Step
    <2> QED  BY <2>2, <2>3 DEF IInv, TypeOK, LookUp
  <1>2. DevInv'
    BY DevicesKept DEF LookUp, Step, Entry, Srcs
  <1>3. NumInv'
    BY DevicesKept DEF LookUp, Step, Entry, Srcs
  <1>4. NumbersDescend'
    BY DevicesKept DEF LookUp, Step, Entry, Srcs
  <1>5. RefInv'
    BY FilesKept DEF LookUp, Step, Entry, Srcs
  <1>6. FileInv'
    BY DEF IInv, TypeOK, FileInv, LookUp, Step, Entry
  <1>7. OpenAlive'
    BY FilesKept DEF LookUp, Step, Entry, Srcs
  <1>8. WalkInv'
    <2>1. \A g \in Files \ {f} :
            /\ io'[g] = io[g] /\ req'[g] = req[g] /\ k'[g] = k[g] /\ at'[g] = at[g]
            /\ esp_devices_lock' = g <=> esp_devices_lock = g
      BY DEF IInv, TypeOK, LookUp, Step
    <2>2. io'[f] = "walk" /\ esp_devices_lock' = f /\ k[f] <= Len(Srcs(f))
      BY DEF IInv, TypeOK, LookUp, Step
    <2>3. Entry(1) = NoDevice => Listed = {}
      BY ListFacts DEF Entry, DevicesAssumption, Listed
    <2>4. Entry(1) # NoDevice => Entry(1) \in Listed /\ Entry(1) = esp_devices[1]
      BY ListFacts DEF Entry
    <2>5. \A i \in DOMAIN esp_devices : esp_devices[i] = Entry(1) => i = 1
      BY <2>3, <2>4, ListFacts DEF IInv, DevInv, IsInjective, DevicesAssumption
    <2>6. ASSUME raced = {} PROVE Walk(f)'
      <3>0. at'[f] = Entry(1)
        BY <2>6 DEF IInv, TypeOK, LookUp, First
      <3>1. Listed' = Listed /\ Srcs(f)' = Srcs(f) /\ k' = k /\ (\A v : Name(v)' = Name(v))
        BY DEF LookUp, Listed, Srcs, Name
      <3>2. \A i, j \in DOMAIN esp_devices : i < j => j # 1
        BY ListFacts
      <3> QED  BY <2>2, <2>3, <2>4, <2>5, <3>0, <3>1, <3>2 DEF Walk, LookUp
    <2>7. k'[f] <= Len(Srcs(f))'
      BY <2>2 DEF LookUp, Srcs
    <2> QED  BY <2>1, <2>2, <2>6, <2>7, OthersStay DEF LookUp
  <1>9. WalkSafe'
    BY DEF IInv, TypeOK, WalkSafe, LookUp, Step, Entry
  <1>10. RaceInv'
    BY RacesKept DEF LookUp, Step
  <1> QED
    BY <1>1, <1>2, <1>3, <1>4, <1>5, <1>6, <1>7, <1>8, <1>9, <1>10 DEF IInv

\* Found keeps the invariant.
LEMMA FoundKeeps ==
    ASSUME DevicesAssumption, UnbindsAlone, IInv, NEW f \in Files, Found(f) PROVE IInv'
  <1>1. TypeOK'
    <2>1. file[f] \in Devices /\ at[f] \in Devices /\ k[f] \in Nat \ {0} /\ k[f] <= Len(Srcs(f))
      BY DEF IInv, TypeOK, FileInv, WalkInv, Walk, Found
    <2>2. SourceBits(k[f] - 1, at[f]) \subseteq 0 .. 31
      <3>1. req[f] \in Requests \/ req[f] = NoRequest
        BY DEF IInv, FileInv
      <3>2. Len(Srcs(f)) \in Nat /\ Len(Srcs(f)) <= 4
        <4>1. CASE req[f] \in Requests
          <5>1. req[f].p2p_srcs \in Seq(Names) /\ Len(req[f].p2p_srcs) <= 4
            BY <4>1 DEF DevicesAssumption, Access
          <5> QED  BY <5>1, LenProperties DEF Srcs
        <4>2. CASE req[f] = NoRequest
          BY <4>2 DEF NoRequest, Srcs
        <4> QED  BY <3>1, <4>1, <4>2
      <3>3. k[f] - 1 \in 0 .. 3
        BY <2>1, <3>2, SourceIndex
      <3> QED  BY <3>3, SourceRange
    <2>3. P2P_REG' \in [Devices -> SUBSET (0 .. 31)]
      BY <2>1, <2>2 DEF IInv, TypeOK, Found
    <2>4. k' \in [Files -> Nat \ {0}] /\ at' \in [Files -> Devices \cup {NoDevice}]
      BY DEF IInv, TypeOK, Found
    <2>5. io' \in [Files -> {"none", "src", "walk", "run", "oops"}] /\ esp_devices_lock' = NoFile
      BY DEF IInv, TypeOK, Found, Step
    <2> QED  BY <2>3, <2>4, <2>5 DEF IInv, TypeOK, Found
  <1>2. DevInv'
    BY DevicesKept DEF Found, Step, Srcs
  <1>3. NumInv'
    BY DevicesKept DEF Found, Step, Srcs
  <1>4. NumbersDescend'
    BY DevicesKept DEF Found, Step, Srcs
  <1>5. RefInv'
    BY FilesKept DEF Found, Step, Srcs
  <1>6. FileInv'
    BY DEF IInv, TypeOK, FileInv, Found, Step
  <1>7. OpenAlive'
    BY FilesKept DEF Found, Step, Srcs
  <1>8. WalkInv'
    <2>1. \A g \in Files \ {f} :
            /\ io'[g] = io[g] /\ req'[g] = req[g] /\ k'[g] = k[g] /\ at'[g] = at[g]
            /\ esp_devices_lock' = g <=> esp_devices_lock = g
      BY DEF IInv, TypeOK, WalkInv, Found, Step
    <2>2. io'[f] # "walk" /\ (esp_devices_lock' = f <=> io'[f] \in {"walk", "oops"})
      BY DEF IInv, TypeOK, Found, Step
    <2> QED  BY <2>1, <2>2, OthersStay DEF Found
  <1>9. WalkSafe'
    BY DEF IInv, TypeOK, WalkSafe, Found, Step
  <1>10. RaceInv'
    BY RacesKept DEF Found, Step
  <1> QED
    BY <1>1, <1>2, <1>3, <1>4, <1>5, <1>6, <1>7, <1>8, <1>9, <1>10 DEF IInv

\* WalkOn keeps the invariant.
LEMMA WalkOnKeeps ==
    ASSUME DevicesAssumption, UnbindsAlone, IInv, NEW f \in Files, WalkOn(f) PROVE IInv'
  <1>1. TypeOK'
    <2>1. PICK u \in After(at[f]) : at' = [at EXCEPT ![f] = u]
      BY DEF WalkOn
    <2>2. u \in Devices \cup {NoDevice}
      BY <2>1, ListFacts DEF After, Anywhere, Entry
    <2>3. at' \in [Files -> Devices \cup {NoDevice}]
      BY <2>1, <2>2 DEF IInv, TypeOK
    <2> QED  BY <2>3 DEF IInv, TypeOK, WalkOn
  <1>2. DevInv'
    BY DevicesKept DEF WalkOn, Srcs, Entry, Matches
  <1>3. NumInv'
    BY DevicesKept DEF WalkOn, Srcs, Entry, Matches
  <1>4. NumbersDescend'
    BY DevicesKept DEF WalkOn, Srcs, Entry, Matches
  <1>5. RefInv'
    BY FilesKept DEF WalkOn, Srcs, Entry, Matches
  <1>6. FileInv'
    BY DEF IInv, TypeOK, FileInv, WalkOn, Entry, Matches
  <1>7. OpenAlive'
    BY FilesKept DEF WalkOn, Srcs, Entry, Matches
  <1>8. ASSUME raced = {} PROVE Walk(f)'
    <2>1. PICK i \in DOMAIN esp_devices :
            esp_devices[i] = at[f] /\ at' = [at EXCEPT ![f] = Entry(i + 1)]
      BY <1>8 DEF WalkOn, After
    <2>2. /\ io[f] = "walk" /\ at'[f] = Entry(i + 1) /\ Walk(f)
          /\ \A g \in Files \ {f} : at'[g] = at[g]
      BY <1>8, <2>1 DEF IInv, TypeOK, WalkInv, WalkOn
    <2>3. Name(esp_devices[i]) # Srcs(f)[k[f]]
      <3>1. ~Matches(Srcs(f)[k[f]], at[f])
        BY DEF WalkOn
      <3>2. Name(at[f])[1] = driver_of[at[f]] /\ Name(at[f])[2] = number[at[f]]
        BY DEF Name
      <3>3. Prefix(number[at[f]], number[at[f]])
        BY DEF Prefix
      <3> QED  BY <2>1, <3>1, <3>2, <3>3 DEF Matches
    <2>4. \A j \in DOMAIN esp_devices : j < i + 1 => Name(esp_devices[j]) # Srcs(f)[k[f]]
      <3>1. \A j \in DOMAIN esp_devices : j < i + 1 => j < i \/ j = i
        BY ListFacts
      <3> QED  BY <2>1, <2>2, <2>3, <3>1 DEF Walk
    <2>5. Entry(i + 1) # NoDevice =>
            /\ Entry(i + 1) \in Listed /\ i + 1 \in DOMAIN esp_devices
            /\ Entry(i + 1) = esp_devices[i + 1]
      BY ListFacts DEF Entry
    <2>6. \A j \in DOMAIN esp_devices : esp_devices[j] = Entry(i + 1) => j = i + 1
      BY <2>5, ListFacts DEF IInv, DevInv, IsInjective, DevicesAssumption
    <2>7. Entry(i + 1) = NoDevice => \A v \in Listed : Name(v) # Srcs(f)[k[f]]
      <3>1. Entry(i + 1) = NoDevice => \A j \in DOMAIN esp_devices : j < i + 1
        BY ListFacts DEF Entry, DevicesAssumption
      <3> QED  BY <2>4, <3>1 DEF Listed
    <2>8. Listed' = Listed /\ Srcs(f)' = Srcs(f) /\ (\A v : Name(v)' = Name(v))
      BY DEF WalkOn, Listed, Srcs, Name
    <2> QED  BY <2>2, <2>4, <2>5, <2>6, <2>7, <2>8 DEF Walk, WalkOn, DevicesAssumption
  <1>9. WalkInv'
    <2>1. \A g \in Files \ {f} : at'[g] = at[g]
      BY DEF IInv, TypeOK, WalkOn
    <2>2. k'[f] <= Len(Srcs(f))' /\ io'[f] = "walk" /\ esp_devices_lock' = f
      BY DEF IInv, WalkInv, WalkOn, Srcs
    <2> QED  BY <1>8, <2>1, <2>2, OthersStay DEF WalkOn
  <1>10. WalkSafe'
    BY DEF IInv, TypeOK, WalkSafe, WalkOn, Entry, Matches
  <1>11. RaceInv'
    BY RacesKept DEF WalkOn, Step
  <1> QED
    BY <1>1, <1>2, <1>3, <1>4, <1>5, <1>6, <1>7, <1>9, <1>10, <1>11 DEF IInv

\* WalkBreaks keeps the invariant.
LEMMA WalkBreaksKeeps ==
    ASSUME DevicesAssumption, UnbindsAlone, IInv, NEW f \in Files, WalkBreaks(f) PROVE IInv'
  <1>1. TypeOK'
    BY DEF IInv, TypeOK, WalkBreaks, Step
  <1>2. DevInv'
    BY DevicesKept DEF WalkBreaks, Step, Srcs
  <1>3. NumInv'
    BY DevicesKept DEF WalkBreaks, Step, Srcs
  <1>4. NumbersDescend'
    BY DevicesKept DEF WalkBreaks, Step, Srcs
  <1>5. RefInv'
    BY FilesKept DEF WalkBreaks, Step, Srcs
  <1>6. FileInv'
    BY DEF IInv, TypeOK, FileInv, WalkBreaks, Step
  <1>7. OpenAlive'
    BY FilesKept DEF WalkBreaks, Step, Srcs
  <1>8. WalkInv'
    <2>1. \A g \in Files \ {f} :
            /\ io'[g] = io[g] /\ req'[g] = req[g] /\ k'[g] = k[g] /\ at'[g] = at[g]
            /\ esp_devices_lock' = g <=> esp_devices_lock = g
      BY DEF IInv, TypeOK, WalkBreaks, Step
    <2>2. io'[f] # "walk" /\ (esp_devices_lock' = f <=> io'[f] \in {"walk", "oops"})
      BY DEF IInv, TypeOK, WalkInv, WalkBreaks, Step
    <2> QED  BY <2>1, <2>2, OthersStay DEF WalkBreaks
  <1>9. WalkSafe'
    <2>1. /\ io' = [io EXCEPT ![f] = "oops"] /\ UNCHANGED <<at, file, raced>>
          /\ raced = {} => Walk(f) /\ f \notin dangling /\ at[f] \in Devices \ Listed
      BY DEF IInv, TypeOK, WalkInv, WalkBreaks, Step
    <2>2. at[f] \in Unbinds \/ driver_of[at[f]] # driver_of[file[f]] \/ raced # {}
      BY <2>1 DEF Walk
    <2> QED  BY <2>1, <2>2 DEF IInv, TypeOK, WalkSafe
  <1>10. RaceInv'
    BY RacesKept DEF WalkBreaks, Step
  <1> QED
    BY <1>1, <1>2, <1>3, <1>4, <1>5, <1>6, <1>7, <1>8, <1>9, <1>10 DEF IInv

\* NotFound keeps the invariant.
LEMMA NotFoundKeeps ==
    ASSUME DevicesAssumption, UnbindsAlone, IInv, NEW f \in Files, NotFound(f) PROVE IInv'
  <1>1. TypeOK'
    <2>1. NoRequest \in Access
      BY DEF NoRequest, Access
    <2>2. /\ req' \in [Files -> Access] /\ k' \in [Files -> Nat \ {0}]
          /\ at' \in [Files -> Devices \cup {NoDevice}]
          /\ steady' \in [Files -> SUBSET Devices]
          /\ io' \in [Files -> {"none", "src", "walk", "run", "oops"}]
      BY <2>1 DEF IInv, TypeOK, NotFound, Leave, Step
    <2> QED  BY <2>2 DEF IInv, TypeOK, NotFound
  <1>2. DevInv'
    BY DevicesKept DEF NotFound, Leave, Step
  <1>3. NumInv'
    BY DevicesKept DEF NotFound, Leave, Step
  <1>4. NumbersDescend'
    BY DevicesKept DEF NotFound, Leave, Step
  <1>5. RefInv'
    BY FilesKept DEF NotFound, Leave, Step
  <1>6. FileInv'
    BY DEF IInv, TypeOK, FileInv, NotFound, Leave, Step
  <1>7. OpenAlive'
    BY FilesKept DEF NotFound, Leave, Step
  <1>8. WalkInv'
    <2>1. \A g \in Files \ {f} :
            /\ io'[g] = io[g] /\ req'[g] = req[g] /\ k'[g] = k[g] /\ at'[g] = at[g]
            /\ esp_devices_lock' = g <=> esp_devices_lock = g
      BY DEF IInv, TypeOK, WalkInv, NotFound, Leave, Step
    <2>2. io'[f] # "walk" /\ (esp_devices_lock' = f <=> io'[f] \in {"walk", "oops"})
      BY DEF IInv, TypeOK, NotFound, Leave, Step
    <2> QED  BY <2>1, <2>2, OthersStay DEF NotFound
  <1>9. WalkSafe'
    BY DEF IInv, TypeOK, WalkSafe, NotFound, Leave, Step
  <1>10. RaceInv'
    <2>1. \A g \in Files : steady'[g] \subseteq Listed'
      BY DEF IInv, TypeOK, RaceInv, Listed, NotFound, Leave
    <2>2. UNCHANGED <<pc, raced>>
      BY DEF NotFound
    <2> QED  BY <2>1, <2>2 DEF IInv, RaceInv, RacesApart
  <1> QED
    BY <1>1, <1>2, <1>3, <1>4, <1>5, <1>6, <1>7, <1>8, <1>9, <1>10 DEF IInv

\* P2pDone keeps the invariant.
LEMMA P2pDoneKeeps ==
    ASSUME DevicesAssumption, UnbindsAlone, IInv, NEW f \in Files, P2pDone(f) PROVE IInv'
  <1>1. TypeOK'
    <2>1. file[f] \in Devices
      BY DEF IInv, TypeOK, FileInv, P2pDone
    <2> DEFINE new == (IF req[f].p2p_store THEN {3} ELSE {})
                   \cup (IF Len(Srcs(f)) # 0 THEN {2} \cup Bits((Len(Srcs(f)) - 1) % 4, 0) ELSE {})
    <2>2. new \subseteq 0 .. 31
      <3>1. Bits((Len(Srcs(f)) - 1) % 4, 0) \subseteq 0 .. 2
        BY BitsRange
      <3> QED  BY <3>1
    <2>3. P2P_REG' = [P2P_REG EXCEPT ![file[f]] = P2P_REG[file[f]] \cup new]
      BY DEF P2pDone
    <2> HIDE DEF new
    <2>4. P2P_REG' \in [Devices -> SUBSET (0 .. 31)]
      BY <2>1, <2>2, <2>3 DEF IInv, TypeOK
    <2>5. io' \in [Files -> {"none", "src", "walk", "run", "oops"}]
      BY DEF IInv, TypeOK, P2pDone, Step
    <2> QED  BY <2>4, <2>5 DEF IInv, TypeOK, P2pDone
  <1>2. DevInv'
    BY DevicesKept DEF P2pDone, Step, Srcs
  <1>3. NumInv'
    BY DevicesKept DEF P2pDone, Step, Srcs
  <1>4. NumbersDescend'
    BY DevicesKept DEF P2pDone, Step, Srcs
  <1>5. RefInv'
    BY FilesKept DEF P2pDone, Step, Srcs
  <1>6. FileInv'
    BY DEF IInv, TypeOK, FileInv, P2pDone, Step
  <1>7. OpenAlive'
    BY FilesKept DEF P2pDone, Step, Srcs
  <1>8. WalkInv'
    <2>1. \A g \in Files \ {f} :
            /\ io'[g] = io[g] /\ req'[g] = req[g] /\ k'[g] = k[g] /\ at'[g] = at[g]
            /\ esp_devices_lock' = g <=> esp_devices_lock = g
      BY DEF IInv, TypeOK, P2pDone, Step
    <2>2. io'[f] # "walk" /\ (esp_devices_lock' = f <=> io'[f] \in {"walk", "oops"})
      BY DEF IInv, TypeOK, WalkInv, P2pDone, Step
    <2> QED  BY <2>1, <2>2, OthersStay DEF P2pDone
  <1>9. WalkSafe'
    BY DEF IInv, TypeOK, WalkSafe, P2pDone, Step
  <1>10. RaceInv'
    BY RacesKept DEF P2pDone, Step
  <1> QED
    BY <1>1, <1>2, <1>3, <1>4, <1>5, <1>6, <1>7, <1>8, <1>9, <1>10 DEF IInv

\* AccessEnds keeps the invariant.
LEMMA AccessEndsKeeps ==
    ASSUME DevicesAssumption, UnbindsAlone, IInv, NEW f \in Files, AccessEnds(f) PROVE IInv'
  <1>1. TypeOK'
    <2>1. NoRequest \in Access
      BY DEF NoRequest, Access
    <2>2. /\ req' \in [Files -> Access] /\ k' \in [Files -> Nat \ {0}]
          /\ at' \in [Files -> Devices \cup {NoDevice}]
          /\ steady' \in [Files -> SUBSET Devices]
          /\ io' \in [Files -> {"none", "src", "walk", "run", "oops"}]
      BY <2>1 DEF IInv, TypeOK, AccessEnds, Leave, Step
    <2> QED  BY <2>2 DEF IInv, TypeOK, AccessEnds
  <1>2. DevInv'
    BY DevicesKept DEF AccessEnds, Leave, Step
  <1>3. NumInv'
    BY DevicesKept DEF AccessEnds, Leave, Step
  <1>4. NumbersDescend'
    BY DevicesKept DEF AccessEnds, Leave, Step
  <1>5. RefInv'
    BY FilesKept DEF AccessEnds, Leave, Step
  <1>6. FileInv'
    BY DEF IInv, TypeOK, FileInv, AccessEnds, Leave, Step
  <1>7. OpenAlive'
    BY FilesKept DEF AccessEnds, Leave, Step
  <1>8. WalkInv'
    <2>1. \A g \in Files \ {f} :
            /\ io'[g] = io[g] /\ req'[g] = req[g] /\ k'[g] = k[g] /\ at'[g] = at[g]
            /\ esp_devices_lock' = g <=> esp_devices_lock = g
      BY DEF IInv, TypeOK, AccessEnds, Leave, Step
    <2>2. io'[f] # "walk" /\ (esp_devices_lock' = f <=> io'[f] \in {"walk", "oops"})
      BY DEF IInv, TypeOK, WalkInv, AccessEnds, Leave, Step
    <2> QED  BY <2>1, <2>2, OthersStay DEF AccessEnds
  <1>9. WalkSafe'
    BY DEF IInv, TypeOK, WalkSafe, AccessEnds, Leave, Step
  <1>10. RaceInv'
    <2>1. \A g \in Files : steady'[g] \subseteq Listed'
      BY DEF IInv, TypeOK, RaceInv, Listed, AccessEnds, Leave
    <2>2. UNCHANGED <<pc, raced>>
      BY DEF AccessEnds
    <2> QED  BY <2>1, <2>2 DEF IInv, RaceInv, RacesApart
  <1> QED
    BY <1>1, <1>2, <1>3, <1>4, <1>5, <1>6, <1>7, <1>8, <1>9, <1>10 DEF IInv

-----------------------------------------------------------------------------
(* The theorems                                                            *)

\* The invariant holds before the first driver is loaded.
LEMMA InitInv == ASSUME DevicesAssumption, Init PROVE IInv
  <1>1. NoRequest \in Access /\ Listed = {}
    BY DEF Init, NoRequest, Access, Listed
  <1>2. TypeOK
    <2>1. << >> \in Seq(Devices) /\ {} \in SUBSET (0 .. 31) /\ {} \in SUBSET Files
      OBVIOUS
    <2> QED  BY <1>1, <2>1 DEF Init, TypeOK, Labels
  <1>3. DevInv /\ NumInv /\ NumbersDescend
    BY <1>1 DEF Init, DevInv, NumInv, NumbersDescend, Probing, IsInjective
  <1>4. \A d \in Drivers : OpenOf(d) = {}
    BY DEF Init, OpenOf
  <1>5. RefInv /\ FileInv /\ OpenAlive
    <2>1. ASSUME NEW d \in Drivers PROVE refs[d] = 2 * Cardinality(OpenOf(d)) /\ refs[d] = 0
      <3>1. refs[d] = 0
        BY DEF Init
      <3>2. Cardinality(OpenOf(d)) = 0
        BY <1>4, FS_EmptySet
      <3> QED  BY <3>1, <3>2
    <2>2. RefInv
      BY <2>1 DEF RefInv
    <2>3. FileInv
      BY DEF Init, FileInv
    <2>4. OpenAlive
      BY DEF Init, OpenAlive
    <2> QED  BY <2>2, <2>3, <2>4
  <1>6. WalkInv /\ WalkSafe /\ RaceInv
    BY DEF Init, WalkInv, WalkSafe, RaceInv, RacesApart, DevicesAssumption
  <1> QED  BY <1>2, <1>3, <1>5, <1>6 DEF IInv

\* Every step keeps the invariant.
LEMMA NextInv == ASSUME DevicesAssumption, UnbindsAlone, IInv, [Next]_vars PROVE IInv'
  <1>1. ASSUME NEW d \in Drivers, Insmod(d) \/ Rmmod(d) \/ RmmodDone(d) PROVE IInv'
    BY <1>1, InsmodKeeps, RmmodKeeps, RmmodDoneKeeps
  <1>2. ASSUME NEW v \in Devices,
               \/ Probe(v) \/ CdevAdd(v) \/ CdevAddFails(v)
               \/ DeviceCreate(v) \/ DeviceCreateFails(v)
               \/ RequestIrq(v) \/ RequestIrqFails(v) \/ MapRegisters(v) \/ MapFails(v)
               \/ ListAdd(v) \/ Registered(v) \/ ListDel(v) \/ Unlink(v) \/ Release(v)
        PROVE  IInv'
    BY <1>2, ProbeKeeps, CdevAddKeeps, CdevAddFailsKeeps, DeviceCreateKeeps,
       DeviceCreateFailsKeeps, RequestIrqKeeps, RequestIrqFailsKeeps, MapRegistersKeeps,
       MapFailsKeeps, ListAddKeeps, RegisteredKeeps, ListDelKeeps, UnlinkKeeps, ReleaseKeeps
  <1>3. ASSUME NEW f \in Files, Open(f) \/ Close(f) \/ P2p(f) PROVE IInv'
    BY <1>3, OpenKeeps, CloseKeeps, P2pInitKeeps, LookUpKeeps, FoundKeeps, WalkOnKeeps,
       WalkBreaksKeeps, NotFoundKeeps, P2pDoneKeeps, AccessEndsKeeps
       DEF P2p
  <1>4. CASE UNCHANGED vars
    <2> USE <1>4 DEF vars
    <2>1. TypeOK'
      BY DEF IInv, TypeOK
    <2>2. DevInv' /\ NumInv' /\ NumbersDescend'
      BY DevicesKept
    <2>3. RefInv' /\ OpenAlive'
      BY FilesKept
    <2>4. FileInv' /\ WalkInv' /\ WalkSafe'
      BY WalksKept
    <2>5. RaceInv'
      BY RacesKept
    <2> QED  BY <2>1, <2>2, <2>3, <2>4, <2>5 DEF IInv
  <1> QED  BY <1>1, <1>2, <1>3, <1>4 DEF Next

\* The invariant, for every number of drivers, devices and files.
THEOREM InvariantHolds == ASSUME DevicesAssumption, UnbindsAlone PROVE Spec => []IInv
  <1>1. Init => IInv
    BY InitInv
  <1>2. IInv /\ [Next]_vars => IInv'
    BY NextInv
  <1> QED  BY <1>1, <1>2, PTL DEF Spec

\* The variables of the esp core keep their types; four sources fit the register.
THEOREM TypeCorrect == ASSUME DevicesAssumption, UnbindsAlone PROVE Spec => []TypeOK
  <1>1. IInv => TypeOK
    BY DEF IInv
  <1> QED  BY <1>1, InvariantHolds, PTL

\* No file outlives its device and no walk meets a device that is gone, but for
\* devices unbound by hand, failed registrations, other drivers and what follows a
\* race of writers on the list; and the unlocked list_del (esp.c:610) races only
\* between two drivers, or beside devices unbound by hand.
THEOREM UnloadIsSafe == ASSUME DevicesAssumption, UnbindsAlone PROVE Spec => []UnloadSafe
  <1>1. IInv => UnloadSafe
    BY DEF IInv, UnloadSafe, RaceInv
  <1> QED  BY <1>1, InvariantHolds, PTL

\* After every failure and every removal nothing of a device is left: no cdev, node,
\* interrupt or registers, and no entry of the list unless writers raced there.
THEOREM NothingIsLeft == ASSUME DevicesAssumption, UnbindsAlone PROVE Spec => []NothingLeft
  <1>1. IInv => NothingLeft
    BY DEF IInv, DevInv, NothingLeft
  <1> QED  BY <1>1, InvariantHolds, PTL

\* The beginning of a number is not greater than the number.
LEMMA PrefixLeq == ASSUME NEW m \in Nat, NEW n \in Nat, Prefix(m, n) PROVE m <= n
  <1>1. CASE m = n
    BY <1>1
  <1>2. CASE m # n
    <2>1. PICK q \in 2 .. n : n \div q = m
      BY <1>2 DEF Prefix
    <2> QED  BY <2>1
  <1> QED  BY <1>1, <1>2

\* A walk that stops at a device has not passed over one that is on the list and
\* has the name looked for, though the device may match a longer number as well.
LEMMA StopsAtName ==
    ASSUME DevicesAssumption, IInv, NEW f \in Files, NEW v \in Listed, io[f] = "walk",
           raced = {}, Name(v) = Srcs(f)[k[f]],
           \/ at[f] = NoDevice
           \/ /\ at[f] \in Devices /\ "node" \in held[at[f]]
              /\ Matches(Srcs(f)[k[f]], at[f])
    PROVE  v = at[f]
  <1>1. Walk(f) /\ v \in Devices
    BY ListFacts DEF IInv, WalkInv
  <1>2. at[f] # NoDevice
    BY <1>1 DEF Walk
  <1>3. SUFFICES ASSUME v # at[f] PROVE FALSE
    OBVIOUS
  <1>4. /\ at[f] \in Devices /\ "node" \in held[at[f]]
        /\ driver_of[at[f]] = driver_of[v] /\ Prefix(number[at[f]], number[v])
    <2>1. Srcs(f)[k[f]][1] = driver_of[v] /\ Srcs(f)[k[f]][2] = number[v]
      BY DEF Name
    <2> QED  BY <1>2, <2>1 DEF Matches
  <1>5. number[at[f]] <= number[v] /\ number[at[f]] \in Nat /\ number[v] \in Nat
    BY <1>1, <1>4, PrefixLeq DEF IInv, TypeOK
  <1>6. PICK j \in DOMAIN esp_devices : esp_devices[j] = v
    BY DEF Listed
  <1>7. CASE at[f] \in Listed
    <2>1. PICK i \in DOMAIN esp_devices : esp_devices[i] = at[f]
      BY <1>7 DEF Listed
    <2>2. ~(j < i) /\ i # j /\ i \in Int /\ j \in Int
      BY <1>1, <1>3, <1>6, <2>1, ListFacts DEF Walk
    <2>3. i < j
      BY <2>2
    <2> QED  BY <1>4, <1>5, <1>6, <2>1, <2>3 DEF IInv, NumbersDescend
  <1>8. CASE at[f] \notin Listed
    BY <1>1, <1>4, <1>5, <1>8 DEF Walk
  <1> QED  BY <1>7, <1>8

\* A P2P source that is on the list is found, and not another (esp.c:308): the
\* numbers of a driver descend along the list, and whatever is removed under the
\* walk, what is left is still in that order, as long as no writers race.
THEOREM LookupsExact ==
    ASSUME DevicesAssumption, UnbindsAlone PROVE Spec => LookupExact
  <1> DEFINE A == raced = {} => \A f \in Files : io[f] = "walk" /\ io'[f] \in {"src", "none"} =>
                       \A v \in Listed : Name(v) = Srcs(f)[k[f]] => v = at[f]
  <1>1. ASSUME IInv, [Next]_vars PROVE [A]_vars
    <2>1. ASSUME NEW f \in Files, io[f] = "walk", io'[f] \in {"src", "none"}, Next
          PROVE  Found(f) \/ NotFound(f)
      <3>1. PICK g \in Files : P2p(g)
        BY <1>1, <2>1 DEF Next, Insmod, Rmmod, RmmodDone, Probe, CdevAdd, CdevAddFails,
               DeviceCreate, DeviceCreateFails, RequestIrq, RequestIrqFails, MapRegisters,
               MapFails, ListAdd, Registered, ListDel, Unlink, Release, Open, Close
      <3>2. g = f
        BY <1>1, <2>1, <3>1 DEF IInv, TypeOK, P2p, P2pInit, LookUp, Found, WalkOn,
               WalkBreaks, NotFound, P2pDone, AccessEnds, Leave, Step
      <3> QED
        BY <1>1, <2>1, <3>1, <3>2 DEF IInv, TypeOK, P2p, P2pInit, LookUp, WalkOn, WalkBreaks,
               P2pDone, AccessEnds, Step
    <2>2. ASSUME NEW f \in Files, io[f] = "walk", raced = {}, Found(f) \/ NotFound(f),
                 NEW v \in Listed, Name(v) = Srcs(f)[k[f]]
          PROVE  v = at[f]
      <3>1. \/ at[f] = NoDevice
            \/ /\ at[f] \in Devices /\ "node" \in held[at[f]]
               /\ Matches(Srcs(f)[k[f]], at[f])
        BY <1>1, <2>2 DEF IInv, TypeOK, Found, NotFound
      <3> QED  BY <1>1, <2>2, <3>1, StopsAtName
    <2> QED  BY <1>1, <2>1, <2>2
  <1> QED  BY <1>1, InvariantHolds, PTL DEF Spec, LookupExact

-----------------------------------------------------------------------------
(* The register of a point-to-point access                                 *)

\* A device that a file can use has its cdev.
AliveInv == \A f \in Files : file[f] # NoDevice /\ f \notin dangling => "cdev" \in held[file[f]]

\* The access of the file is between P2pInit and AccessEnds.
Programming(f) == f \notin dangling /\ io[f] \in {"src", "walk", "run"}

\* It holds the mutex of its device, and the sources it has found so far, and
\* nothing else, are in the register.
ProgInv(f) ==
    /\ lock[file[f]] = f
    /\ io[f] # "run" =>
         /\ k[f] - 1 <= Len(Srcs(f))
         /\ \A c \in P2P_REG[file[f]] : 4 <= c /\ c < 4 + 6 * (k[f] - 1)
         /\ \A s \in 1 .. k[f] - 1 : SourceProgrammed(f, s)
    /\ io[f] = "run" => Decoded(f)

\* The registers, between any two steps.
P2pInv == AliveInv /\ \A f \in Files : Programming(f) => ProgInv(f)

\* A step that leaves alone what is about a file keeps what its access knows.
LEMMA ProgKept ==
    ASSUME P2pInv, NEW f \in Files, Programming(f),
           io'[f] = io[f], req'[f] = req[f], k'[f] = k[f], file'[f] = file[f],
           lock'[file[f]] = lock[file[f]], P2P_REG'[file[f]] = P2P_REG[file[f]],
           raced' = {} => raced = {}, steady'[f] \subseteq steady[f],
           \A v \in steady'[f] : number'[v] = number[v]
    PROVE  ProgInv(f)'
  <1>1. ProgInv(f)
    BY DEF P2pInv
  <1>2. Srcs(f)' = Srcs(f)
    BY DEF Srcs
  <1>3. \A s : SourceProgrammed(f, s) => SourceProgrammed(f, s)'
    BY <1>2 DEF SourceProgrammed, Holds, Field, Name
  <1>4. Decoded(f) => Decoded(f)'
    BY <1>2, <1>3 DEF Decoded
  <1> QED  BY <1>1, <1>2, <1>3, <1>4 DEF ProgInv

\* So do the others when a file takes a step of its access: two accesses that are
\* programming have two devices.
LEMMA OthersProgram ==
    ASSUME IInv, P2pInv, NEW f \in Files, NEW g \in Files \ {f}, Programming(g)',
           UNCHANGED <<number, raced, file, dangling, held>>,
           io'[g] = io[g], req'[g] = req[g], k'[g] = k[g], steady'[g] = steady[g],
           \A v \in Devices : v # file[f] => lock'[v] = lock[v] /\ P2P_REG'[v] = P2P_REG[v],
           Programming(f) \/ UNCHANGED <<lock, P2P_REG>> \/ lock[file[f]] # g
    PROVE  ProgInv(g)'
  <1>1. Programming(g) /\ lock[file[g]] = g /\ file[g] \in Devices
    <2>1. Programming(g) /\ lock[file[g]] = g
      BY DEF Programming, P2pInv, ProgInv
    <2> QED  BY <2>1 DEF Programming, IInv, TypeOK, FileInv
  <1>2. Programming(f) => lock[file[f]] = f
    BY DEF P2pInv, ProgInv
  <1>3. lock'[file[g]] = lock[file[g]] /\ P2P_REG'[file[g]] = P2P_REG[file[g]]
    BY <1>1, <1>2
  <1> QED  BY <1>1, <1>3, ProgKept

\* A request names four sources at most.
LEMMA FourSources ==
    ASSUME DevicesAssumption, IInv, NEW f \in Files
    PROVE  Len(Srcs(f)) \in 0 .. 4 /\ req[f].p2p_store \in BOOLEAN
  <1>1. req[f] \in Requests \/ req[f] = NoRequest
    BY DEF IInv, FileInv
  <1>2. CASE req[f] \in Requests
    <2>1. req[f].p2p_srcs \in Seq(Names)
      BY <1>2 DEF DevicesAssumption, Access
    <2>2. Len(req[f].p2p_srcs) <= 4 /\ req[f].p2p_store \in BOOLEAN
      BY <1>2 DEF DevicesAssumption, Access
    <2>3. Len(req[f].p2p_srcs) \in Nat
      BY <2>1, LenProperties
    <2>4. Len(req[f].p2p_srcs) \in 0 .. 4
      <3> DEFINE n == Len(req[f].p2p_srcs)
      <3> HIDE DEF n
      <3>1. n \in Nat /\ n <= 4 => n \in 0 .. 4
        OBVIOUS
      <3> QED  BY <2>2, <2>3, <3>1 DEF n
    <2> QED  BY <2>2, <2>4 DEF Srcs
  <1>3. CASE req[f] = NoRequest
    BY <1>3 DEF NoRequest, Srcs
  <1> QED  BY <1>1, <1>2, <1>3

\* Drivers and devices come and go, and no access that is at work is disturbed.
LEMMA DeviceSteps ==
    ASSUME DevicesAssumption, IInv, P2pInv,
           \/ \E d \in Drivers : Insmod(d) \/ Rmmod(d) \/ RmmodDone(d)
           \/ \E v \in Devices :
                \/ Probe(v) \/ CdevAdd(v) \/ CdevAddFails(v)
                \/ DeviceCreate(v) \/ DeviceCreateFails(v)
                \/ RequestIrq(v) \/ RequestIrqFails(v) \/ MapRegisters(v) \/ MapFails(v)
                \/ ListAdd(v) \/ Registered(v) \/ ListDel(v) \/ Unlink(v) \/ Release(v)
    PROVE  P2pInv'
  <1>1. UNCHANGED <<file, io, req, k, P2P_REG>> /\ dangling \subseteq dangling'
    BY DEF Insmod, Rmmod, RmmodDone, Probe, CdevAdd, CdevAddFails, DeviceCreate,
           DeviceCreateFails, RequestIrq, RequestIrqFails, MapRegisters, MapFails, ListAdd,
           Registered, ListDel, Unlink, Release, Free
  <1>2. ASSUME NEW f \in Files, file[f] # NoDevice, f \notin dangling'
        PROVE  /\ "cdev" \in held'[file[f]]
               /\ lock'[file[f]] = lock[file[f]]
    <2>1. /\ file[f] \in Devices /\ "cdev" \in held[file[f]] /\ pc[file[f]] \notin {"unbound", "cdev"}
      BY <1>1, <1>2 DEF P2pInv, AliveInv, IInv, TypeOK, DevInv
    <2>2. "cdev" \in held'[file[f]]
      <3>1. held \in [Devices -> SUBSET {"cdev", "node", "irq", "iomem"}]
        BY DEF IInv, TypeOK
      <3>2. CASE held' = held
        BY <2>1, <3>2
      <3>3. ASSUME NEW v \in Devices, DeviceCreateFails(v) \/ RequestIrqFails(v) \/ Release(v)
            PROVE  "cdev" \in held'[file[f]]
        <4>1. file[f] # v
          BY <1>2, <3>3 DEF DeviceCreateFails, RequestIrqFails, Release, Free
        <4>2. held' = [held EXCEPT ![v] = {}]
          BY <3>3 DEF DeviceCreateFails, RequestIrqFails, Release
        <4> QED  BY <2>1, <3>1, <4>1, <4>2
      <3>4. ASSUME NEW v \in Devices,
                   CdevAdd(v) \/ DeviceCreate(v) \/ RequestIrq(v) \/ MapRegisters(v)
            PROVE  "cdev" \in held'[file[f]]
        <4>1. PICK more : held' = [held EXCEPT ![v] = @ \cup more] \/ held' = [held EXCEPT ![v] = {"cdev"}]
          BY <3>4 DEF CdevAdd, DeviceCreate, RequestIrq, MapRegisters
        <4> QED  BY <2>1, <3>1, <4>1
      <3> QED
        BY <3>2, <3>3, <3>4 DEF Insmod, Rmmod, RmmodDone, Probe, CdevAddFails, MapFails,
               ListAdd, Registered, ListDel, Unlink, driver, device
    <2>3. lock'[file[f]] = lock[file[f]]
      <3>1. lock' = lock \/ \E v \in Devices : Probe(v)
        BY DEF Insmod, Rmmod, RmmodDone, CdevAdd, CdevAddFails, DeviceCreate,
               DeviceCreateFails, RequestIrq, RequestIrqFails, MapRegisters, MapFails, ListAdd,
               Registered, ListDel, Unlink, Release, access
      <3>2. ASSUME NEW v \in Devices, Probe(v) PROVE lock'[file[f]] = lock[file[f]]
        <4>1. pc[v] = "unbound" /\ lock' = [lock EXCEPT ![v] = NoFile]
          BY <3>2 DEF Probe
        <4> QED  BY <2>1, <4>1 DEF IInv, TypeOK
      <3> QED  BY <3>1, <3>2
    <2> QED  BY <2>2, <2>3
  <1>3. AliveInv'
    BY <1>1, <1>2 DEF AliveInv
  <1>4. raced' = {} => raced = {}
    BY DEF Insmod, Rmmod, RmmodDone, Probe, CdevAdd, CdevAddFails, DeviceCreate,
           DeviceCreateFails, RequestIrq, RequestIrqFails, MapRegisters, MapFails, ListAdd,
           Registered, ListDel, Unlink, Release, Overlaps, list
  <1>5. ASSUME NEW f \in Files
        PROVE  /\ steady'[f] \subseteq steady[f]
               /\ \A v \in steady'[f] : number'[v] = number[v]
    <2>1. steady'[f] \subseteq steady[f]
      <3>1. steady' = steady \/ \E v : steady' = [g \in Files |-> steady[g] \ {v}]
        BY DEF Insmod, Rmmod, RmmodDone, Probe, CdevAdd, CdevAddFails, DeviceCreate,
               DeviceCreateFails, RequestIrq, RequestIrqFails, MapRegisters, MapFails, ListAdd,
               Registered, ListDel, Unlink, Release, access
      <3> QED  BY <3>1
    <2>2. ASSUME NEW v \in Listed PROVE number'[v] = number[v]
      <3>1. v \in Devices /\ pc[v] \in {"listed", "bound", "unlinking"}
        BY ListFacts DEF IInv, DevInv
      <3>2. \/ number' = number
            \/ \E u \in Devices : \E n : /\ number' = [number EXCEPT ![u] = n]
                                         /\ pc[u] \notin {"listed", "bound", "unlinking"}
        BY DEF Insmod, Rmmod, RmmodDone, Probe, CdevAdd, CdevAddFails, DeviceCreate,
               DeviceCreateFails, RequestIrq, RequestIrqFails, MapRegisters, MapFails, ListAdd,
               Registered, ListDel, Unlink, Release, Free, device
      <3> QED  BY <3>1, <3>2 DEF IInv, TypeOK
    <2> QED  BY <2>1, <2>2 DEF IInv, RaceInv
  <1>6. ASSUME NEW f \in Files, Programming(f)' PROVE ProgInv(f)'
    <2>1. Programming(f) /\ file[f] # NoDevice /\ f \notin dangling'
      BY <1>1, <1>6 DEF Programming, IInv, FileInv
    <2> QED  BY <1>1, <1>2, <1>4, <1>5, <2>1, ProgKept
  <1> QED  BY <1>3, <1>6 DEF P2pInv

\* A file is opened with its cdev, and closed between accesses.
LEMMA OpenSteps ==
    ASSUME DevicesAssumption, IInv, P2pInv, NEW f \in Files, Open(f) \/ Close(f)
    PROVE  P2pInv'
  <1>1. /\ UNCHANGED <<number, raced, held, dangling, io, req, k, lock, steady, P2P_REG>>
        /\ \A g \in Files \ {f} : file'[g] = file[g]
        /\ io[f] = "none"
    BY DEF Open, Close, IInv, TypeOK, FileInv
  <1>2. file'[f] # NoDevice => "cdev" \in held[file'[f]]
    BY DEF Open, Close, IInv, TypeOK
  <1>3. AliveInv'
    BY <1>1, <1>2 DEF P2pInv, AliveInv
  <1>4. ASSUME NEW g \in Files, Programming(g)' PROVE ProgInv(g)'
    <2>1. g # f /\ Programming(g)
      BY <1>1, <1>4 DEF Programming
    <2> QED  BY <1>1, <2>1, ProgKept
  <1> QED  BY <1>3, <1>4 DEF P2pInv

\* The steps of an access but the two that write its bits.
LEMMA QuietSteps ==
    ASSUME DevicesAssumption, IInv, P2pInv, NEW f \in Files,
           \/ P2pInit(f) \/ LookUp(f) \/ WalkOn(f) \/ WalkBreaks(f) \/ NotFound(f)
           \/ AccessEnds(f)
    PROVE  P2pInv'
  <1>1. /\ UNCHANGED <<number, raced, file, dangling, held>> /\ f \notin dangling
        /\ \A g \in Files \ {f} :
             io'[g] = io[g] /\ req'[g] = req[g] /\ k'[g] = k[g] /\ steady'[g] = steady[g]
        /\ \A v \in Devices : v # file[f] => lock'[v] = lock[v] /\ P2P_REG'[v] = P2P_REG[v]
        /\ Programming(f) \/ lock[file[f]] = NoFile
    <2>1. /\ UNCHANGED <<number, raced, file, dangling, held>> /\ f \notin dangling
          /\ Programming(f) \/ lock[file[f]] = NoFile
      BY DEF P2pInit, LookUp, WalkOn, WalkBreaks, NotFound, AccessEnds, Programming, device
    <2>2. ASSUME NEW g \in Files \ {f}
          PROVE  io'[g] = io[g] /\ req'[g] = req[g] /\ k'[g] = k[g] /\ steady'[g] = steady[g]
      BY DEF P2pInit, LookUp, WalkOn, WalkBreaks, NotFound, AccessEnds, Leave, Step, IInv,
         TypeOK
    <2>3. ASSUME NEW v \in Devices, v # file[f]
          PROVE  lock'[v] = lock[v] /\ P2P_REG'[v] = P2P_REG[v]
      <3>1. \/ UNCHANGED lock
            \/ \E h : lock' = [lock EXCEPT ![file[f]] = h]
        BY DEF P2pInit, LookUp, WalkOn, WalkBreaks, NotFound, AccessEnds
      <3>2. \/ UNCHANGED P2P_REG
            \/ P2P_REG' = [P2P_REG EXCEPT ![file[f]] = {}]
        BY DEF P2pInit, LookUp, WalkOn, WalkBreaks, NotFound, AccessEnds
      <3>3. lock'[v] = lock[v]
        BY <2>3, <3>1 DEF IInv, TypeOK
      <3>4. P2P_REG'[v] = P2P_REG[v]
        BY <2>3, <3>2 DEF IInv, TypeOK
      <3> QED  BY <3>3, <3>4
    <2> QED  BY <2>1, <2>2, <2>3
  <1>2. AliveInv'
    BY <1>1 DEF P2pInv, AliveInv
  <1>3. ASSUME NEW g \in Files \ {f}, Programming(g)' PROVE ProgInv(g)'
    <2>1. g # NoFile
      BY DEF DevicesAssumption
    <2> QED  BY <1>1, <1>3, <2>1, OthersProgram
  <1>4. ASSUME Programming(f)' PROVE ProgInv(f)'
    <2>1. CASE P2pInit(f)
      <3>1. /\ io'[f] = "src" /\ k'[f] = 1 /\ P2P_REG'[file[f]] = {} /\ lock'[file[f]] = f
            /\ file' = file /\ file[f] \in Devices
        BY <2>1 DEF P2pInit, Step, IInv, TypeOK
      <3>2. Len(Srcs(f))' >= 0
        <4>1. req'[f] \in Requests
          BY <2>1 DEF P2pInit, IInv, TypeOK
        <4>2. req'[f].p2p_srcs \in Seq(Names)
          BY <4>1 DEF DevicesAssumption, Access
        <4> QED  BY <4>2, LenProperties DEF Srcs
      <3> QED  BY <3>1, <3>2 DEF ProgInv
    <2>2. CASE LookUp(f)
      <3>1. /\ UNCHANGED <<number, raced, file, req, k, lock, steady, P2P_REG>> /\ io[f] = "src" /\ io'[f] = "walk"
            /\ Programming(f)
        BY <2>2 DEF LookUp, Step, IInv, TypeOK, Programming
      <3>2. ProgInv(f) /\ Srcs(f)' = Srcs(f)
        BY <3>1 DEF P2pInv, Srcs
      <3>3. \A s : SourceProgrammed(f, s)' <=> SourceProgrammed(f, s)
        BY <3>1, <3>2 DEF SourceProgrammed, Holds, Field, Name
      <3> QED  BY <3>1, <3>2, <3>3 DEF ProgInv
    <2>3. CASE WalkOn(f)
      <3>1. UNCHANGED <<number, raced, file, io, req, k, lock, steady, P2P_REG>> /\ Programming(f)
        BY <2>3 DEF WalkOn, Programming
      <3> QED  BY <3>1, ProgKept
    <2>4. CASE WalkBreaks(f) \/ NotFound(f) \/ AccessEnds(f)
      <3>1. io'[f] \in {"oops", "none"}
        BY <2>4 DEF WalkBreaks, NotFound, AccessEnds, Leave, Step, IInv, TypeOK
      <3> QED  BY <1>4, <3>1 DEF Programming
    <2> QED  BY <2>1, <2>2, <2>3, <2>4
  <1> QED  BY <1>2, <1>3, <1>4 DEF P2pInv

\* The register holds no bit at the n-th source (from 0) or after it.
Below(n, reg) == reg \subseteq Nat /\ \A c \in reg : c < 4 + 6 * n

\* The bits of the n-th source, device v, are its fields of the register, and those
\* of the sources before it are as they were.
Fields(n, v, reg, new) ==
    /\ \A c \in SourceBits(n, v) : 4 + 6 * n <= c /\ c < 4 + 6 * (n + 1)
    /\ Field(new, 7 + 6 * n) = Bits(yx[v][1], 7 + 6 * n)
    /\ Field(new, 4 + 6 * n) = Bits(yx[v][2], 4 + 6 * n)
    /\ \A shift \in 0 .. 4 + 6 * n - 3 : Field(new, shift) = Field(reg, shift)

\* The bits of one source are read back from the register, and disturb no source
\* before it.
LEMMA SourceFields ==
    ASSUME NEW n \in 0 .. 3, NEW v, NEW reg, NEW new,
           Below(n, reg), new = reg \cup SourceBits(n, v)
    PROVE  Fields(n, v, reg, new)
  <1> DEFINE y == Bits(yx[v][1], 7 + 6 * n)
             x == Bits(yx[v][2], 4 + 6 * n)
  <1>1. 7 + n * 6 = 7 + 6 * n /\ 4 + n * 6 = 4 + 6 * n /\ 7 + 6 * n \in Nat /\ 4 + 6 * n \in Nat
    OBVIOUS
  <1>2. y \subseteq 7 + 6 * n .. 7 + 6 * n + 2 /\ x \subseteq 4 + 6 * n .. 4 + 6 * n + 2
    BY <1>1, BitsRange
  <1>3. SourceBits(n, v) = y \cup x
    BY <1>1 DEF SourceBits
  <1> DEFINE m == 6 * n
  <1>4. m \in Nat /\ 6 * (n + 1) = m + 6
    OBVIOUS
  <1>5. y \subseteq 7 + m .. 7 + m + 2 /\ x \subseteq 4 + m .. 4 + m + 2
    BY <1>2
  <1>6. \A c \in reg : c \in Nat /\ c < 4 + m
    BY DEF Below
  <1> HIDE DEF x, y, m
  <1>7. /\ \A c \in y : c \in Nat /\ 7 + m <= c /\ c < 10 + m
        /\ \A c \in x : c \in Nat /\ 4 + m <= c /\ c < 7 + m
    BY <1>4, <1>5
  <1>8. \A c \in SourceBits(n, v) : c \in Nat /\ 4 + m <= c /\ c < 4 + (m + 6)
    BY <1>3, <1>4, <1>7
  <1>9. Field(new, 7 + m) = y
    <2>1. \A c \in new : 7 + m <= c /\ c < 10 + m <=> c \in y
      BY <1>3, <1>4, <1>6, <1>7
    <2>2. y \subseteq new
      BY <1>3
    <2>3. 7 + m + 3 = 10 + m
      BY <1>4
    <2> QED  BY <2>1, <2>2, <2>3 DEF Field
  <1>10. Field(new, 4 + m) = x
    <2>1. \A c \in new : 4 + m <= c /\ c < 7 + m <=> c \in x
      BY <1>3, <1>4, <1>6, <1>7
    <2>2. x \subseteq new
      BY <1>3
    <2>3. 4 + m + 3 = 7 + m
      BY <1>4
    <2> QED  BY <2>1, <2>2, <2>3 DEF Field
  <1>11. ASSUME NEW shift \in 0 .. 4 + m - 3
        PROVE  Field(new, shift) = Field(reg, shift)
    <2>1. \A c \in SourceBits(n, v) : ~ (c < shift + 3)
      BY <1>8, <1>4
    <2> QED  BY <2>1 DEF Field
  <1> QED  BY <1>4, <1>8, <1>9, <1>10, <1>11 DEF x, y, m, Fields

\* A source that was found is in the register, after those before it.
LEMMA FoundStep ==
    ASSUME DevicesAssumption, IInv, P2pInv, NEW f \in Files, Found(f)
    PROVE  P2pInv'
  <1>1. /\ UNCHANGED <<number, raced, file, dangling, held, lock, req, steady>> /\ f \notin dangling
        /\ \A g \in Files \ {f} : io'[g] = io[g] /\ k'[g] = k[g]
        /\ io[f] = "walk" /\ Programming(f) /\ file[f] \in Devices /\ at[f] \in Devices
        /\ io'[f] = "src" /\ k'[f] = k[f] + 1
        /\ k[f] \in Nat \ {0} /\ k[f] <= Len(Srcs(f))
    BY DEF Found, Step, IInv, TypeOK, FileInv, WalkInv, Walk, Programming
  <1>2. /\ P2P_REG'[file[f]] = P2P_REG[file[f]] \cup SourceBits(k[f] - 1, at[f])
        /\ \A v \in Devices : v # file[f] => P2P_REG'[v] = P2P_REG[v]
        /\ driver_of[at[f]] = Srcs(f)[k[f]][1]
    BY <1>1 DEF Found, IInv, TypeOK, Matches
  <1>3. ProgInv(f) /\ Srcs(f)' = Srcs(f)
    BY <1>1 DEF P2pInv, Srcs
  <1> DEFINE n == k[f] - 1
             reg == P2P_REG[file[f]]
             new == reg \cup SourceBits(n, at[f])
  <1>4. n \in 0 .. 3 /\ Len(Srcs(f)) \in 0 .. 4
    <2>1. Len(Srcs(f)) \in 0 .. 4
      BY FourSources
    <2>2. k[f] \in Nat \ {0} /\ k[f] <= Len(Srcs(f))
      BY <1>1
    <2> DEFINE a == k[f]
               m == Len(Srcs(f))
    <2> HIDE DEF a, m
    <2>3. a \in Nat \ {0} /\ m \in 0 .. 4 /\ a <= m => a - 1 \in 0 .. 3
      OBVIOUS
    <2> QED  BY <2>1, <2>2, <2>3 DEF a, m
  <1>5. reg \subseteq Nat /\ \A c \in reg : 4 <= c /\ c < 4 + 6 * n
    <2>1. reg \in SUBSET (0 .. 31)
      BY <1>1 DEF IInv, TypeOK
    <2>2. \A c \in reg : 4 <= c /\ c < 4 + 6 * n
      BY <1>1, <1>3 DEF ProgInv
    <2> HIDE DEF reg
    <2> QED  BY <2>1, <2>2
  <1>6. Fields(n, at[f], reg, new)
    <2>1. new = reg \cup SourceBits(n, at[f])
      OBVIOUS
    <2> HIDE DEF n, reg, new
    <2>2. n \in 0 .. 3
      BY <1>4
    <2>3. Below(n, reg)
      BY <1>5 DEF Below
    <2> QED  BY <2>1, <2>2, <2>3, SourceFields
  <1>7. SourceBits(n, at[f]) \subseteq Nat
    <2>1. SourceBits(n, at[f]) \subseteq 0 .. 31
      BY <1>4, SourceRange
    <2> DEFINE S == SourceBits(n, at[f])
    <2> HIDE DEF S
    <2>2. S \subseteq 0 .. 31 => S \subseteq Nat
      OBVIOUS
    <2> QED  BY <2>1, <2>2 DEF S
  <1>8. \A c \in new : 4 <= c /\ c < 4 + 6 * (n + 1)
    <2> HIDE DEF n, reg
    <2> QED  BY <1>4, <1>5, <1>6, <1>7 DEF Fields
  <1>9. ASSUME NEW s \in 1 .. n + 1 PROVE SourceProgrammed(f, s)'
    <2>1. CASE s = n + 1
      <3>1. 6 * (s - 1) = 6 * n /\ s = k[f] /\ (s - 1) = n
        BY <2>1, <1>1
      <3>5. PICK u \in Devices : u = at[f]
        BY <1>1
      <3>2. Holds(f, s, u)'
        BY <1>1, <1>2, <1>6, <3>1, <3>5 DEF Holds, Fields
      <3>3. ASSUME raced = {}, NEW v \in steady[f], Name(v) = Srcs(f)[s] PROVE v = u
        <4>1. v \in Listed /\ "node" \in held[at[f]] /\ Matches(Srcs(f)[k[f]], at[f])
          BY <3>3 DEF Found, IInv, RaceInv
        <4> QED  BY <1>1, <3>1, <3>3, <3>5, <4>1, StopsAtName
      <3>4. \A v : Name(v)' = Name(v)
        BY <1>1 DEF Name
      <3> HIDE DEF n, reg, new
      <3> QED  BY <1>1, <1>2, <1>3, <3>1, <3>2, <3>3, <3>4, <3>5 DEF SourceProgrammed
    <2>2. CASE s # n + 1
      <3>1. s \in 1 .. n
        BY <2>2, <1>4
      <3>2. SourceProgrammed(f, s)
        BY <1>1, <1>3, <3>1 DEF ProgInv
      <3>3. 7 + 6 * (s - 1) \in 0 .. 4 + 6 * n - 3 /\ 4 + 6 * (s - 1) \in 0 .. 4 + 6 * n - 3
        <4> HIDE DEF n
        <4> QED  BY <3>1, <1>4
      <3>4. /\ Field(new, 7 + 6 * (s - 1)) = Field(reg, 7 + 6 * (s - 1))
            /\ Field(new, 4 + 6 * (s - 1)) = Field(reg, 4 + 6 * (s - 1))
        <4> HIDE DEF n, reg, new
        <4> QED  BY <1>6, <3>3 DEF Fields
      <3>5. \A v : Holds(f, s, v) => Holds(f, s, v)'
        BY <1>1, <1>2, <3>4 DEF Holds
      <3> HIDE DEF n, reg, new
      <3> QED  BY <1>1, <1>3, <3>2, <3>5 DEF SourceProgrammed, Name
    <2> QED  BY <2>1, <2>2
  <1>10. ProgInv(f)'
    <2>1. k'[f] - 1 = n + 1 /\ k'[f] - 1 <= Len(Srcs(f))
      BY <1>1, <1>4
    <2>2. P2P_REG'[file'[f]] = new /\ lock'[file'[f]] = f
      BY <1>1, <1>2, <1>3 DEF ProgInv
    <2> HIDE DEF n, new
    <2> QED  BY <1>1, <1>3, <1>8, <1>9, <2>1, <2>2 DEF ProgInv
  <1>11. ASSUME NEW g \in Files \ {f}, Programming(g)' PROVE ProgInv(g)'
    BY <1>1, <1>2, <1>11, OthersProgram
  <1>12. AliveInv'
    BY <1>1 DEF P2pInv, AliveInv
  <1> QED  BY <1>10, <1>11, <1>12 DEF P2pInv

\* The number of sources, in two bits.
LEMMA CountBits ==
    ASSUME NEW n \in 1 .. 4
    PROVE  (n - 1) % 4 = n - 1 /\ Bits(n - 1, 0) \subseteq {0, 1}
  <1>1. n - 1 \in 0 .. 3 /\ (n - 1) % 4 = n - 1
    OBVIOUS
  <1>2. Bits(n - 1, 0) \subseteq 0 .. 2
    BY BitsRange
  <1>3. 2 \notin Bits(n - 1, 0)
    <2>1. 2 ^ 2 = 4
      OBVIOUS
    <2>2. ((n - 1) \div 4) % 2 = 0
      BY <1>1
    <2> DEFINE S == {c \in 0 .. 2 : ((n - 1) \div (2 ^ c)) % 2 = 1}
    <2>3. 2 \notin S
      BY <2>1, <2>2
    <2>4. S \subseteq 0 .. 2 /\ Bits(n - 1, 0) = {0 + b : b \in S}
      BY DEF Bits
    <2> HIDE DEF S
    <2> QED  BY <2>3, <2>4
  <1> QED  BY <1>1, <1>2, <1>3

\* And with it the register is complete.
LEMMA DoneStep ==
    ASSUME DevicesAssumption, IInv, P2pInv, NEW f \in Files, P2pDone(f)
    PROVE  P2pInv'
  <1> DEFINE n == Len(Srcs(f))
             reg == P2P_REG[file[f]]
             new == reg \cup (IF req[f].p2p_store THEN {3} ELSE {})
                        \cup (IF n # 0 THEN {2} \cup Bits((n - 1) % 4, 0) ELSE {})
  <1>1. /\ UNCHANGED <<number, raced, file, dangling, held, lock, req, k, steady>> /\ f \notin dangling
        /\ \A g \in Files \ {f} : io'[g] = io[g]
        /\ io[f] = "src" /\ Programming(f) /\ file[f] \in Devices /\ io'[f] = "run"
        /\ k[f] \in Nat \ {0} /\ k[f] > n
    BY DEF P2pDone, Step, IInv, TypeOK, FileInv, Programming
  <1>2. P2P_REG'[file[f]] = new /\ \A v \in Devices : v # file[f] => P2P_REG'[v] = P2P_REG[v]
    BY <1>1 DEF P2pDone, IInv, TypeOK
  <1>3. ProgInv(f) /\ Srcs(f)' = Srcs(f)
    BY <1>1 DEF P2pInv, Srcs
  <1>4. n \in 0 .. 4 /\ k[f] - 1 = n
    <2>1. n \in 0 .. 4
      BY FourSources
    <2>2. k[f] - 1 <= n
      BY <1>1, <1>3 DEF ProgInv
    <2> HIDE DEF n
    <2> QED  BY <2>1, <2>2, <1>1
  <1>5. reg \subseteq Nat /\ \A c \in reg : 4 <= c /\ c < 4 + 6 * n
    <2>1. reg \in SUBSET (0 .. 31)
      BY <1>1 DEF IInv, TypeOK
    <2>2. \A c \in reg : 4 <= c /\ c < 4 + 6 * n
      BY <1>1, <1>3, <1>4 DEF ProgInv
    <2> HIDE DEF reg
    <2> QED  BY <2>1, <2>2
  <1>6. ASSUME n # 0
        PROVE  /\ Bits((n - 1) % 4, 0) = Bits(n - 1, 0)
               /\ Bits(n - 1, 0) \subseteq {0, 1}
    <2>1. n \in 1 .. 4
      BY <1>4, <1>6
    <2> HIDE DEF n
    <2> QED  BY <2>1, CountBits
  <1>7. /\ 3 \in new <=> req[f].p2p_store
        /\ 2 \in new <=> n > 0
        /\ n > 0 => new \cap {0, 1} = Bits(n - 1, 0)
        /\ \A c \in new : c < 4 + 6 * n
        /\ \A c \in Nat : 4 <= c => (c \in new <=> c \in reg)
    <2> HIDE DEF n, reg
    <2>1. CASE n = 0
      BY <2>1, <1>5
    <2>2. CASE n # 0
      <3> DEFINE B == Bits(n - 1, 0)
      <3>1. new = reg \cup (IF req[f].p2p_store THEN {3} ELSE {}) \cup {2} \cup B
        BY <2>2, <1>6
      <3>2. B \subseteq {0, 1} /\ n > 0
        BY <2>2, <1>4, <1>6
      <3> HIDE DEF B, new
      <3> QED  BY <3>1, <3>2, <1>4, <1>5 DEF B
    <2> QED  BY <2>1, <2>2
  <1>8. ASSUME NEW s \in 1 .. n PROVE SourceProgrammed(f, s)'
    <2>1. SourceProgrammed(f, s)
      BY <1>1, <1>3, <1>4 DEF ProgInv
    <2>2. \A shift \in Nat : 4 <= shift => Field(new, shift) = Field(reg, shift)
      <3>1. new \subseteq Nat
        <4>1. Bits((n - 1) % 4, 0) \subseteq Nat
          BY BitsRange
        <4> QED  BY <4>1, <1>5
      <3> HIDE DEF n, reg, new
      <3> SUFFICES ASSUME NEW shift \in Nat, 4 <= shift
                   PROVE  Field(new, shift) = Field(reg, shift)
        OBVIOUS
      <3>2. \A c \in Nat : shift <= c => (c \in new <=> c \in reg)
        BY <1>7
      <3> QED  BY <1>5, <3>1, <3>2 DEF Field
    <2>3. 7 + 6 * (s - 1) \in Nat /\ 4 + 6 * (s - 1) \in Nat /\ 4 <= 7 + 6 * (s - 1)
          /\ 4 <= 4 + 6 * (s - 1)
      <3> HIDE DEF n
      <3> QED  BY <1>4
    <2>4. /\ Field(new, 7 + 6 * (s - 1)) = Field(reg, 7 + 6 * (s - 1))
          /\ Field(new, 4 + 6 * (s - 1)) = Field(reg, 4 + 6 * (s - 1))
      <3> HIDE DEF n, reg, new
      <3> QED  BY <2>2, <2>3
    <2>5. \A v : Holds(f, s, v) => Holds(f, s, v)'
      BY <1>1, <1>2, <2>4 DEF Holds
    <2> HIDE DEF n, reg, new
    <2> QED  BY <1>1, <1>3, <2>1, <2>5 DEF SourceProgrammed, Name
  <1>9. ProgInv(f)'
    <2>1. Decoded(f)'
      <3>1. /\ P2P_REG'[file'[f]] = new /\ Len(Srcs(f)') = n
            /\ req'[f] = req[f]
        BY <1>1, <1>2, <1>3
      <3> HIDE DEF n, new
      <3> QED  BY <1>7, <1>8, <3>1 DEF Decoded
    <2> QED  BY <1>1, <1>3, <2>1 DEF ProgInv
  <1>10. ASSUME NEW g \in Files \ {f}, Programming(g)' PROVE ProgInv(g)'
    BY <1>1, <1>2, <1>10, OthersProgram
  <1>11. AliveInv'
    BY <1>1 DEF P2pInv, AliveInv
  <1> QED  BY <1>9, <1>10, <1>11 DEF P2pInv

\* The accelerator runs with a register that decodes to what its access asked for: as
\* many sources, in that order, each a device of the driver named, and the very device
\* named if that was registered all along and no writers raced on the list; whatever
\* else is registered, removed and freed meanwhile.
THEOREM RegistersDecode ==
    ASSUME DevicesAssumption, UnbindsAlone PROVE Spec => []P2pDecodes
  <1>1. Init => P2pInv
    BY DEF Init, P2pInv, AliveInv, Programming
  <1>2. ASSUME IInv, P2pInv, [Next]_vars PROVE P2pInv'
    <2>1. CASE UNCHANGED vars
      <3>1. UNCHANGED <<number, raced, file, dangling, held, io, req, k, lock, steady, P2P_REG>>
        BY <2>1 DEF vars
      <3>2. AliveInv'
        BY <1>2, <3>1 DEF P2pInv, AliveInv
      <3>3. \A f \in Files : Programming(f)' => Programming(f)
        BY <3>1 DEF Programming
      <3>4. \A f \in Files : Programming(f)' => ProgInv(f)'
        BY <1>2, <3>1, <3>3, ProgKept
      <3> QED  BY <3>2, <3>4 DEF P2pInv
    <2> QED
      BY <1>2, <2>1, DeviceSteps, OpenSteps, QuietSteps, FoundStep, DoneStep DEF Next, P2p
  <1>3. P2pInv => P2pDecodes
    BY DEF P2pInv, P2pDecodes, Programming, ProgInv
  <1> QED  BY <1>1, <1>2, <1>3, InvariantHolds, PTL DEF Spec

=============================================================================
