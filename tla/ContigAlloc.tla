---------------------------- MODULE ContigAlloc ----------------------------
(***************************************************************************)
(* The kernel allocator of accelerator memory,                             *)
(* src/drivers/contig_alloc/contig_alloc.c.  The memory behind each of the *)
(* two DDR controllers is cut into chunks; a buffer (a struct contig_desc) *)
(* is a list of chunks picked by one of three policies.  A buffer belongs  *)
(* to the open file through which it was allocated.                        *)
(*                                                                         *)
(* What contig_lock protects is cut into one step per chunk, because the   *)
(* paths that do NOT take the lock (the copy to user space, the list of    *)
(* the file, remap_pfn_range) interleave with it.  Chunk counts stand for  *)
(* byte counts: mem_size, mem_allocated and `allocated' are multiples of   *)
(* chunk_size throughout the code.  A request keeps its size in bytes.     *)
(* What the code never reads again is blanked.                             *)
(***************************************************************************)
EXTENDS Integers, Sequences, FiniteSets, Functions

CONSTANTS
    Threads,      \* threads that call into the driver
    Files,        \* open instances of /dev/contig
    FileOf,       \* the file a thread calls through
    Descs,        \* addresses kmalloc can return for a struct contig_desc
    Requests,     \* the allocation requests user space makes
    mem_size,     \* chunks behind each controller, a function on Nodes
    ChunkSize,    \* bytes in a chunk
    UIntChunks,   \* chunks in 2^32 bytes, where an unsigned int wraps
    NoThread, NoDesc

DDR_NODES == 2
Nodes == 0 .. DDR_NODES - 1
Policies == {"preferred", "least_loaded", "balanced"}

\* A chunk is the pair of its controller (ch->ddr_node) and its place there.
Chunks == UNION {{k} \X (1 .. mem_size[k]) : k \in Nodes}

Request == [policy : Policies, ddr_node : Int, threshold : Nat,
            cluster_size : Nat, size : Nat, n_max : Nat]

ASSUME ConstantsAssumption ==
    /\ FileOf \in [Threads -> Files]
    /\ mem_size \in [Nodes -> Nat \ {0}]
    /\ ChunkSize \in Nat \ {0}
    /\ UIntChunks \in Nat \ {0}
    /\ Requests \subseteq Request
    /\ NoThread \notin Threads
    /\ NoDesc \notin Descs

VARIABLES
    inactive_chunks,  \* per controller, the list of free chunks
    mem_allocated,    \* per controller, chunks handed out
    live,             \* the struct contig_desc kmalloc'ed and not yet kfree'd
    desc_n,           \* desc->n, the chunks a descriptor is to hold
    alloc_list,       \* desc->alloc_list, the chunks it holds
    most_allocated,   \* desc->most_allocated, the controller it reports
    desc_list,        \* the global list of descriptors
    file_state,       \* per open instance: closed, open, or in contig_release
    file_list,        \* per open instance: priv->desc_list
    contig_lock,      \* the thread that holds the mutex
    chunk_index, ddr_node, cluster_chunk, n_per_node, deallocated,
                      \* the locals of the loop that runs under contig_lock
    pc, req, cur,     \* per thread: where it is, its request, its descriptor
    oops              \* a BUG_ON fired, or freed memory was touched

memory == <<inactive_chunks, mem_allocated>>
desc == <<desc_n, alloc_list, most_allocated>>
files == <<file_state, file_list>>
fill == <<chunk_index, ddr_node, cluster_chunk, n_per_node>>
loop == <<fill, deallocated>>
vars == <<memory, live, desc, desc_list, files, contig_lock, loop, pc, req, cur, oops>>

Labels == {"idle", "alloc", "fill", "copyout", "link", "unlink", "free",
           "drain", "release", "mmap", "walk", "remap"}

BlankReq == [policy |-> "preferred", ddr_node |-> 0, threshold |-> 0,
             cluster_size |-> 1, size |-> 0, n_max |-> 0]

Init ==
    /\ inactive_chunks =
         [k \in Nodes |-> [j \in 1 .. mem_size[k] |-> <<k, j>>]]
    /\ mem_allocated = [k \in Nodes |-> 0]
    /\ live = {}
    /\ desc_n = [d \in Descs |-> 0]
    /\ alloc_list = [d \in Descs |-> <<>>]
    /\ most_allocated = [d \in Descs |-> 0]
    /\ desc_list = {}
    /\ file_state = [f \in Files |-> "closed"]
    /\ file_list = [f \in Files |-> {}]
    /\ contig_lock = NoThread
    /\ chunk_index = 0 /\ ddr_node = 0 /\ cluster_chunk = 0
    /\ n_per_node = [k \in Nodes |-> 0] /\ deallocated = 0
    /\ pc = [t \in Threads |-> "idle"]
    /\ req = [t \in Threads |-> BlankReq]
    /\ cur = [t \in Threads |-> NoDesc]
    /\ oops = FALSE

-----------------------------------------------------------------------------
(* Choosing controllers                                                    *)

Other(k) == (k + 1) % DDR_NODES
Room(k) == mem_size[k] - mem_allocated[k]
Full(k) == mem_allocated[k] = mem_size[k]
NChunks(size) == (size + ChunkSize - 1) \div ChunkSize

\* The checks made before contig_lock is taken.  The bound on ddr_node is the
\* code's: it lets DDR_NODES itself through.
contig_alloc_ok(r) ==
    /\ r.policy = "preferred" => r.ddr_node >= 0 /\ r.ddr_node <= DDR_NODES
    /\ r.policy # "preferred" => r.threshold <= mem_size[0]
    /\ r.policy = "balanced" => r.cluster_size >= 1

NoNode == -1

\* What get_next_ddr_node returns; NoNode when one of its BUG_ONs fires or it
\* indexes the controllers out of range.
get_next_ddr_node(k, first) ==
    IF k \notin Nodes \/ mem_allocated[k] > mem_size[k]
    THEN NoNode
    ELSE IF ~Full(k) THEN k
    ELSE IF Other(k) = first \/ Full(Other(k)) THEN NoNode
    ELSE Other(k)

\* Mutant: compares with the size of a controller, not with the room left.
least_loaded_alloc_ok_total(n) == \E k \in Nodes : mem_size[k] >= n

least_loaded_alloc_ok(n) == \E k \in Nodes : Room(k) >= n

get_least_loaded_ddr_node(n, threshold) ==
    LET fits1 == Room(1) >= n
        min_allocated == IF fits1 THEN mem_allocated[1] ELSE mem_size[1]
    IN  IF fits1 /\ ~(mem_allocated[0] + threshold < min_allocated /\ Room(0) >= n)
        THEN 1 ELSE 0

FirstNode(r) ==
    CASE r.policy = "preferred"    -> r.ddr_node
      [] r.policy = "least_loaded" -> get_least_loaded_ddr_node(NChunks(r.size), r.threshold)
      [] r.policy = "balanced"     -> get_least_loaded_ddr_node(1, r.threshold)

\* Mutant: a cluster is closed one chunk late.
NextNode_late(r) ==
    IF r.policy = "balanced" /\ cluster_chunk > r.cluster_size
    THEN get_next_ddr_node(Other(ddr_node), Other(ddr_node))
    ELSE get_next_ddr_node(ddr_node, IF r.policy = "preferred" THEN r.ddr_node ELSE ddr_node)

\* The controller of the next chunk of a buffer being filled.
NextNode(r) ==
    CASE r.policy = "preferred"    -> get_next_ddr_node(ddr_node, r.ddr_node)
      [] r.policy = "least_loaded" -> ddr_node
      [] r.policy = "balanced"     ->
           IF cluster_chunk = r.cluster_size
           THEN get_next_ddr_node(Other(ddr_node), Other(ddr_node))
           ELSE get_next_ddr_node(ddr_node, ddr_node)

\* Mutant: any chunk behind DDR1 makes DDR1 the answer.
Most_any(r) == IF n_per_node[1] > 0 THEN 1 ELSE 0

\* Mutant: the largest count instead of the controller that has it.
Most_count(r) ==
    IF n_per_node[1] > n_per_node[0] THEN n_per_node[1] ELSE n_per_node[0]

\* "Compute which DDR holds most of the data."
Most(r) ==
    IF r.policy = "least_loaded" THEN ddr_node
    ELSE IF n_per_node[1] > n_per_node[0] THEN 1 ELSE 0

-----------------------------------------------------------------------------
(* CONTIG_IOC_ALLOC                                                        *)

Goto(t, label) == pc' = [pc EXCEPT ![t] = label]
At(t, label) == pc[t] = label /\ ~oops

LoopInit(k) ==
    /\ chunk_index' = 0 /\ ddr_node' = k /\ cluster_chunk' = 0
    /\ n_per_node' = [m \in Nodes |-> 0] /\ deallocated' = 0

contig_open(f) ==
    /\ ~oops
    /\ file_state[f] = "closed"
    /\ file_state' = [file_state EXCEPT ![f] = "open"]
    /\ UNCHANGED <<memory, desc, live, desc_list, file_list, contig_lock, loop, pc,
                   req, cur, oops>>

AllocCall(t) ==
    /\ At(t, "idle")
    /\ file_state[FileOf[t]] = "open"
    /\ \E r \in Requests :
         /\ contig_alloc_ok(r)
         /\ r.size # 0
         /\ req' = [req EXCEPT ![t] = r]
    /\ Goto(t, "alloc")
    /\ UNCHANGED <<memory, desc, live, desc_list, files, contig_lock, loop, cur, oops>>

\* The lock is taken and given back without a buffer: too little memory, no
\* controller with room for a LEAST_LOADED buffer, or kmalloc fails.
AllocRefused(t) ==
    /\ At(t, "alloc")
    /\ contig_lock = NoThread
    /\ Goto(t, "idle")
    /\ req' = [req EXCEPT ![t] = BlankReq]
    /\ UNCHANGED <<memory, desc, live, desc_list, files, contig_lock, loop, cur, oops>>

\* contig_alloc takes the lock and __contig_alloc finds enough memory.
AllocLock(t) ==
    LET r == req[t]
        n == NChunks(r.size)
    IN  /\ At(t, "alloc")
        /\ contig_lock = NoThread
        /\ r.size <= (Room(0) + Room(1)) * ChunkSize
        /\ r.policy = "least_loaded" => least_loaded_alloc_ok(n)
        /\ \E d \in Descs \ live :
             /\ live' = live \cup {d}
             /\ desc_n' = [desc_n EXCEPT ![d] = n]
             /\ alloc_list' = [alloc_list EXCEPT ![d] = <<>>]
             /\ cur' = [cur EXCEPT ![t] = d]
        /\ contig_lock' = t
        /\ LoopInit(FirstNode(r))
        /\ Goto(t, "fill")
        /\ oops' = (n > Room(0) + Room(1))
        /\ UNCHANGED <<memory, most_allocated, desc_list, files, req>>

\* Mutant: the chunk goes on the buffer's list and stays on the free list.
Fill_shared(t) ==
    LET d == cur[t]
        k == NextNode(req[t])
    IN  /\ At(t, "fill")
        /\ chunk_index < desc_n[d]
        /\ k \in Nodes
        /\ mem_allocated' = [mem_allocated EXCEPT ![k] = @ + 1]
        /\ alloc_list' = [alloc_list EXCEPT ![d] = <<Head(inactive_chunks[k])>> \o @]
        /\ chunk_index' = chunk_index + 1
        /\ ddr_node' = k
        /\ UNCHANGED <<inactive_chunks, cluster_chunk, n_per_node, desc_n, most_allocated,
                       live, desc_list, files, contig_lock, deallocated, pc, req, cur, oops>>

\* One turn of the policy's loop and allocate_chunk.
Fill(t) ==
    LET d == cur[t]
        k == NextNode(req[t])
        ch == Head(inactive_chunks[k])
    IN  /\ At(t, "fill")
        /\ chunk_index < desc_n[d]
        /\ IF k = NoNode \/ inactive_chunks[k] = <<>>
           THEN oops' = TRUE /\ UNCHANGED <<memory, alloc_list, fill>>
           ELSE /\ inactive_chunks' = [inactive_chunks EXCEPT ![k] = Tail(@)]
                /\ mem_allocated' = [mem_allocated EXCEPT ![k] = @ + 1]
                /\ alloc_list' = [alloc_list EXCEPT ![d] = <<ch>> \o @]
                /\ chunk_index' = chunk_index + 1
                /\ ddr_node' = k
                /\ cluster_chunk' = IF k = ddr_node THEN cluster_chunk + 1 ELSE 1
                /\ n_per_node' = [n_per_node EXCEPT ![k] = @ + 1]
                /\ UNCHANGED oops
        /\ UNCHANGED <<desc_n, most_allocated, live, desc_list, files, contig_lock,
                       deallocated, pc, req, cur>>

\* The loop ends: most_allocated, list_add to desc_list, mutex_unlock.
FillDone(t) ==
    LET d == cur[t]
    IN  /\ At(t, "fill")
        /\ chunk_index = desc_n[d]
        /\ most_allocated' = [most_allocated EXCEPT ![d] = Most(req[t])]
        /\ desc_list' = desc_list \cup {d}
        /\ contig_lock' = NoThread
        /\ LoopInit(0)
        /\ Goto(t, "copyout")
        /\ UNCHANGED <<memory, desc_n, alloc_list, live, files, req, cur, oops>>

\* Mutant: a fault returns -EFAULT without contig_free.
CopyOut_leak(t) ==
    /\ At(t, "copyout")
    /\ \/ Goto(t, "idle")
       \/ desc_n[cur[t]] <= req[t].n_max /\ Goto(t, "link")
    /\ req' = [req EXCEPT ![t] = BlankReq]
    /\ UNCHANGED <<memory, desc, live, desc_list, files, contig_lock, loop, cur, oops>>

\* Back in contig_alloc_ioctl: the buffer is given up when the caller's array
\* is too short or a copy_to_user faults.
CopyOut(t) ==
    /\ At(t, "copyout")
    /\ \/ Goto(t, "free")
       \/ desc_n[cur[t]] <= req[t].n_max /\ Goto(t, "link")
    /\ req' = [req EXCEPT ![t] = BlankReq]
    /\ UNCHANGED <<memory, desc, live, desc_list, files, contig_lock, loop, cur, oops>>

\* list_add to the list of the file: no lock is held.
Link(t) ==
    /\ At(t, "link")
    /\ file_list' = [file_list EXCEPT ![FileOf[t]] = @ \cup {cur[t]}]
    /\ cur' = [cur EXCEPT ![t] = NoDesc]
    /\ Goto(t, "idle")
    /\ UNCHANGED <<memory, desc, live, desc_list, file_state, contig_lock, loop, req, oops>>

-----------------------------------------------------------------------------
(* CONTIG_IOC_FREE, contig_free and the last close of a file               *)

\* contig_free_ioctl walks the list of the file, again without a lock.  A
\* handle that is not on the list changes nothing (-EFAULT).
FreeFind(t) ==
    /\ At(t, "idle")
    /\ file_state[FileOf[t]] = "open"
    /\ \E d \in file_list[FileOf[t]] : cur' = [cur EXCEPT ![t] = d]
    /\ Goto(t, "unlink")
    /\ UNCHANGED <<memory, desc, live, desc_list, files, contig_lock, loop, req, oops>>

\* Mutant: the descriptor freed is left on the list of the file.
Unlink_forgotten(t) ==
    /\ At(t, "unlink")
    /\ Goto(t, "free")
    /\ UNCHANGED <<memory, desc, live, desc_list, files, contig_lock, loop, req, cur, oops>>

\* list_del of the descriptor found; fatal if it is no longer on the list.
Unlink(t) ==
    /\ At(t, "unlink")
    /\ oops' = (cur[t] \notin file_list[FileOf[t]])
    /\ file_list' = [file_list EXCEPT ![FileOf[t]] = @ \ {cur[t]}]
    /\ Goto(t, "free")
    /\ UNCHANGED <<memory, desc, live, desc_list, file_state, contig_lock, loop, req, cur>>

FreeLock(t) ==
    /\ At(t, "free")
    /\ contig_lock = NoThread
    /\ contig_lock' = t
    /\ oops' = (cur[t] \notin live)
    /\ Goto(t, "drain")
    /\ UNCHANGED <<memory, desc, live, desc_list, files, loop, req, cur>>

\* Mutant: the chunk goes to the list of the controller the buffer reported.
Drain_reported(t) ==
    LET d == cur[t]
        ch == Head(alloc_list[d])
    IN  /\ At(t, "drain")
        /\ alloc_list[d] # <<>>
        /\ alloc_list' = [alloc_list EXCEPT ![d] = Tail(@)]
        /\ inactive_chunks' = [inactive_chunks EXCEPT ![most_allocated[d]] = <<ch>> \o @]
        /\ mem_allocated' = [mem_allocated EXCEPT ![ch[1]] = @ - 1]
        /\ deallocated' = (deallocated + 1) % UIntChunks
        /\ UNCHANGED <<desc_n, most_allocated, live, desc_list, files, contig_lock,
                       fill, pc, req, cur, oops>>

\* One turn of the loop of __contig_free.
Drain(t) ==
    LET d == cur[t]
        ch == Head(alloc_list[d])
        k == ch[1]
    IN  /\ At(t, "drain")
        /\ alloc_list[d] # <<>>
        /\ alloc_list' = [alloc_list EXCEPT ![d] = Tail(@)]
        /\ inactive_chunks' = [inactive_chunks EXCEPT ![k] = <<ch>> \o @]
        /\ mem_allocated' = [mem_allocated EXCEPT ![k] = @ - 1]
        /\ deallocated' = (deallocated + 1) % UIntChunks
        /\ UNCHANGED <<desc_n, most_allocated, live, desc_list, files, contig_lock,
                       fill, pc, req, cur, oops>>

\* BUG_ON(deallocated != n), list_del, kfree, mutex_unlock.
DrainDone(t) ==
    LET d == cur[t]
    IN  /\ At(t, "drain")
        /\ alloc_list[d] = <<>>
        /\ oops' = (deallocated # desc_n[d])
        /\ desc_list' = desc_list \ {d}
        /\ live' = live \ {d}
        /\ desc_n' = [desc_n EXCEPT ![d] = 0]
        /\ most_allocated' = [most_allocated EXCEPT ![d] = 0]
        /\ contig_lock' = NoThread
        /\ LoopInit(0)
        /\ cur' = [cur EXCEPT ![t] = NoDesc]
        /\ Goto(t, IF file_state[FileOf[t]] = "releasing" THEN "release" ELSE "idle")
        /\ UNCHANGED <<memory, alloc_list, files, req>>

\* The kernel calls contig_release when the last reference to the file goes,
\* so no call is running on it.
ReleaseCall(t) ==
    /\ At(t, "idle")
    /\ file_state[FileOf[t]] = "open"
    /\ \A u \in Threads : FileOf[u] = FileOf[t] => pc[u] = "idle"
    /\ file_state' = [file_state EXCEPT ![FileOf[t]] = "releasing"]
    /\ Goto(t, "release")
    /\ UNCHANGED <<memory, desc, live, desc_list, file_list, contig_lock, loop, req, cur, oops>>

ReleaseNext(t) ==
    LET f == FileOf[t]
    IN  /\ At(t, "release")
        /\ IF file_list[f] = {}
           THEN /\ file_state' = [file_state EXCEPT ![f] = "closed"]
                /\ Goto(t, "idle")
                /\ UNCHANGED <<file_list, cur>>
           ELSE \E d \in file_list[f] :
                  /\ file_list' = [file_list EXCEPT ![f] = @ \ {d}]
                  /\ cur' = [cur EXCEPT ![t] = d]
                  /\ Goto(t, "free")
                  /\ UNCHANGED file_state
        /\ UNCHANGED <<memory, desc, live, desc_list, contig_lock, loop, req, oops>>

-----------------------------------------------------------------------------
(* mmap                                                                    *)

MmapCall(t) ==
    /\ At(t, "idle")
    /\ file_state[FileOf[t]] = "open"
    /\ Goto(t, "mmap")
    /\ UNCHANGED <<memory, desc, live, desc_list, files, contig_lock, loop, req, cur, oops>>

MmapLock(t) ==
    /\ At(t, "mmap")
    /\ contig_lock = NoThread
    /\ contig_lock' = t
    /\ Goto(t, "walk")
    /\ UNCHANGED <<memory, desc, live, desc_list, files, loop, req, cur, oops>>

\* Mutant: an unknown address returns with contig_lock held.
MmapFind_locked(t) ==
    /\ At(t, "walk")
    /\ \/ /\ \E d \in file_list[FileOf[t]] : cur' = [cur EXCEPT ![t] = d]
          /\ contig_lock' = NoThread
          /\ Goto(t, "remap")
       \/ Goto(t, "idle") /\ UNCHANGED <<contig_lock, cur>>
    /\ UNCHANGED <<memory, desc, live, desc_list, files, loop, req, oops>>

\* The descriptor whose first chunk has the address asked for, or none.
MmapFind(t) ==
    /\ At(t, "walk")
    /\ contig_lock' = NoThread
    /\ \/ /\ \E d \in file_list[FileOf[t]] : cur' = [cur EXCEPT ![t] = d]
          /\ Goto(t, "remap")
       \/ /\ Goto(t, "idle")
          /\ UNCHANGED cur
    /\ UNCHANGED <<memory, desc, live, desc_list, files, loop, req, oops>>

\* remap_pfn_range reads the descriptor after contig_lock was given back.
Remap(t) ==
    /\ At(t, "remap")
    /\ oops' = (cur[t] \notin live)
    /\ cur' = [cur EXCEPT ![t] = NoDesc]
    /\ Goto(t, "idle")
    /\ UNCHANGED <<memory, desc, live, desc_list, files, contig_lock, loop, req>>

-----------------------------------------------------------------------------
\* Steps a thread takes inside a call; the calls themselves are user space's.
InCall(t) ==
    \/ AllocRefused(t) \/ AllocLock(t) \/ Fill(t) \/ FillDone(t)
    \/ CopyOut(t) \/ Link(t) \/ Unlink(t) \/ FreeLock(t) \/ Drain(t)
    \/ DrainDone(t) \/ ReleaseNext(t) \/ MmapLock(t) \/ MmapFind(t) \/ Remap(t)

Next ==
    \/ \E f \in Files : contig_open(f)
    \/ \E t \in Threads :
         AllocCall(t) \/ FreeFind(t) \/ ReleaseCall(t) \/ MmapCall(t) \/ InCall(t)

Spec == Init /\ [][Next]_vars

-----------------------------------------------------------------------------
(* Properties                                                              *)

\* What the driver takes for granted of its users and its configuration: a file
\* is not shared by threads that call at once (no call locks its list), the
\* controller a PREFERRED request names exists, and the whole memory is less
\* than 4 GB, so that `deallocated' does not wrap.
PrivateFiles == \A t, u \in Threads : FileOf[t] = FileOf[u] => t = u
NodesInRange == \A r \in Requests : r.policy = "preferred" => r.ddr_node \in Nodes
NoWrap == mem_size[0] + mem_size[1] < UIntChunks

Holder(label) == {t \in Threads : pc[t] = label}
Draining(d) == \E t \in Threads : pc[t] = "drain" /\ cur[t] = d

\* The variables have their types.
TypeOK ==
    /\ inactive_chunks \in [Nodes -> Seq(Chunks)]
    /\ mem_allocated \in [Nodes -> Int]
    /\ desc_n \in [Descs -> Nat]
    /\ alloc_list \in [Descs -> Seq(Chunks)]
    /\ most_allocated \in [Descs -> Nodes]
    /\ live \subseteq Descs
    /\ desc_list \subseteq Descs
    /\ file_state \in [Files -> {"closed", "open", "releasing"}]
    /\ file_list \in [Files -> SUBSET Descs]
    /\ contig_lock \in Threads \cup {NoThread}
    /\ chunk_index \in Nat /\ ddr_node \in Int /\ cluster_chunk \in Nat
    /\ n_per_node \in [Nodes -> Nat] /\ deallocated \in Nat
    /\ pc \in [Threads -> Labels]
    /\ req \in [Threads -> Request]
    /\ cur \in [Threads -> Descs \cup {NoDesc}]
    /\ oops \in BOOLEAN

\* No sequence of calls reaches a BUG_ON of the allocator (a controller over
\* its size, no chunk where one was promised, a buffer that gives back fewer
\* chunks than it took), nor a descriptor that was already unlinked or freed.
NoOops == ~oops

\* mem_allocated, from which every policy decides, is what the free lists say:
\* the chunks of a controller that are not on its free list.  It never
\* underflows, whatever the order in which buffers are freed.
CountersExact ==
    \A k \in Nodes : /\ mem_allocated[k] >= 0
                     /\ mem_allocated[k] + Len(inactive_chunks[k]) = mem_size[k]

\* A chunk is on one list, once: on the free list of its own controller or in
\* one buffer.  Two buffers never share memory and no memory is lost.
OneHome ==
    /\ \A k \in Nodes : /\ IsInjective(inactive_chunks[k])
                        /\ Range(inactive_chunks[k]) \subseteq {k} \X (1 .. mem_size[k])
    /\ \A d \in Descs : /\ IsInjective(alloc_list[d])
                        /\ d \notin live => alloc_list[d] = <<>>
    /\ \A d \in Descs, k \in Nodes :
         Range(alloc_list[d]) \cap Range(inactive_chunks[k]) = {}
    /\ \A d, e \in Descs :
         d # e => Range(alloc_list[d]) \cap Range(alloc_list[e]) = {}
    /\ \A ch \in Chunks :
         \/ ch \in Range(inactive_chunks[ch[1]])
         \/ \E d \in Descs : ch \in Range(alloc_list[d])

\* A descriptor belongs to one file, or is in the hands of one thread; it
\* never belongs to nobody, from where no close could give it back.
InHand == {t \in Threads : pc[t] \in {"fill", "copyout", "link", "free", "drain"}}
OneOwner ==
    /\ \A d \in live : \/ \E f \in Files : d \in file_list[f]
                       \/ \E t \in InHand : cur[t] = d
    /\ \A f \in Files : file_list[f] \subseteq live
    /\ \A t \in InHand : cur[t] \in live /\ \A f \in Files : cur[t] \notin file_list[f]
    /\ \A f, g \in Files : f # g => file_list[f] \cap file_list[g] = {}
    /\ \A t, u \in InHand : t # u => cur[t] # cur[u]

\* PREFERRED leaves the controller the caller named only when it is full.
PreferredFirst ==
    \A t \in Holder("fill") : req[t].policy = "preferred" =>
        \A j \in 1 .. Len(alloc_list[cur[t]]) :
            alloc_list[cur[t]][j][1] # req[t].ddr_node => Full(req[t].ddr_node)

\* What was handed out behind a controller when the loop of a LEAST_LOADED
\* buffer began: all its chunks since come from ddr_node.
AllocatedBefore(k) == mem_allocated[k] - (IF k = ddr_node THEN chunk_index ELSE 0)
HadRoom(k, n) == mem_size[k] - AllocatedBefore(k) >= n
Penalised(t) == AllocatedBefore(0) + req[t].threshold < AllocatedBefore(1)

\* The controller of a LEAST_LOADED buffer: one with room for all of it, and DDR0
\* exactly when it is below DDR1 by more than the threshold or DDR1 has no room.
Chosen(t) ==
    LET n == desc_n[cur[t]]
    IN  /\ HadRoom(ddr_node, n)
        /\ ddr_node = 0 => Penalised(t) \/ ~HadRoom(1, n)
        /\ ddr_node = 1 => ~Penalised(t) \/ ~HadRoom(0, n)

\* A LEAST_LOADED buffer lies behind one controller, the one the loads at the
\* start of its loop call for, though the loop itself changes them.
LeastLoadedTogether ==
    \A t \in Holder("fill") : req[t].policy = "least_loaded" =>
        /\ Chosen(t)
        /\ \A j \in 1 .. Len(alloc_list[cur[t]]) : alloc_list[cur[t]][j][1] = ddr_node

\* The penalty of DDR0 as contig_alloc.h:33-34 words it: "DDR0 is chosen only
\* when allocated_mem(DDR0) < allocated_mem(DDRx) - T for every controller".
PenaltyKept ==
    \A t \in Holder("fill") :
        req[t].policy = "least_loaded" /\ ddr_node = 0 => Penalised(t)

\* BALANCED puts more than cluster_size chunks in a row behind a controller only
\* when the other one is full.
BalancedClusters ==
    \A t \in Holder("fill") : req[t].policy = "balanced" =>
        LET s == alloc_list[cur[t]]
            c == req[t].cluster_size
        IN  \A j \in 1 .. Len(s) - c : \A k \in Nodes :
              (\A m \in j .. j + c : s[m][1] = k) => Full(Other(k))

\* What each policy does hold to while it fills a buffer.  It is less than the
\* words of contig_alloc.h say of LEAST_LOADED: when DDR1 has no room the buffer
\* goes to DDR0 whatever the penalty (PenaltyKept).
PoliciesKept == PreferredFirst /\ LeastLoadedTogether /\ BalancedClusters

\* The controller reported to the caller, which esp.c then charges for the
\* accelerator's traffic, holds at least as many chunks as the other one.
MostAllocated ==
    \A t \in Holder("link") :
        LET s == alloc_list[cur[t]]
            On(k) == Cardinality({j \in 1 .. Len(s) : s[j][1] = k})
            m == most_allocated[cur[t]]
        IN  On(m) >= On(Other(m))

\* While a buffer is on the list of a file its chunks stay its own: nothing
\* another thread does moves the memory under an accelerator or an mmap.
BufferStable ==
    [][\A f \in Files : \A d \in file_list[f] \cap file_list'[f] :
          alloc_list'[d] = alloc_list[d]]_vars

\* Every call returns, with a mutex that is fair to its waiters.
Fairness ==
    \A t \in Threads :
        /\ WF_vars(InCall(t))
        /\ SF_vars(AllocRefused(t) \/ AllocLock(t))
        /\ SF_vars(FreeLock(t))
        /\ SF_vars(MmapLock(t))
FairSpec == Spec /\ Fairness

CallsReturn == \A t \in Threads : pc[t] # "idle" ~> pc[t] = "idle"

\* The allocator implements the atomic one: a buffer appears when it is put on
\* desc_list and is gone when its first chunk may go back.
OwnerOf(ch) ==
    LET Has(d) == /\ d \in desc_list /\ ~Draining(d)
                  /\ ch \in Range(alloc_list[d])
        Of(d, f) == \/ d \in file_list[f]
                    \/ \E t \in Threads : /\ FileOf[t] = f /\ cur[t] = d
                                          /\ pc[t] \in {"copyout", "link", "free"}
        Owners == {b \in Descs \X Files : Has(b[1]) /\ Of(b[1], b[2])}
    IN  IF Owners = {} THEN NoDesc ELSE CHOOSE b \in Owners : TRUE

Abs == INSTANCE ContigAbs WITH Nobody <- NoDesc, owner <- [ch \in Chunks |-> OwnerOf(ch)]
AbsSpec == Abs!Spec

=============================================================================
