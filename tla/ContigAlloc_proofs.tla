------------------------ MODULE ContigAlloc_proofs ------------------------
(* Proofs about the allocator of contig_alloc.c, for any number of         *)
(* threads, files, descriptors and chunks: first its bookkeeping, then     *)
(* what a buffer is to its users, that is, where the policies put its      *)
(* chunks, that it stays as it is, and that it appears and disappears      *)
(* whole (module ContigAbs).                                               *)
EXTENDS ContigAlloc, DataLemmas

-----------------------------------------------------------------------------
(* Types                                                                   *)

\* contig_lock names the thread that runs a loop or a walk under it.
LockInv == \A t \in Threads : pc[t] \in {"fill", "drain", "walk"} <=> contig_lock = t

\* A thread past the choice of a descriptor has one.
CurInv == \A t \in Threads :
    pc[t] \in {"fill", "copyout", "link", "unlink", "free", "drain", "remap"} => cur[t] \in Descs

\* LEAST_LOADED starts, and stays, on a controller that exists.
NodeInv == \A t \in Threads :
    pc[t] = "fill" /\ req[t].policy = "least_loaded" => ddr_node \in Nodes

\* The types, and who holds contig_lock, a descriptor and a controller.
TypeInv == TypeOK /\ LockInv /\ CurInv /\ NodeInv

\* A controller is 0 or 1, and the other one is a controller.
LEMMA NodeFacts ==
    /\ Nodes = {0, 1}
    /\ Other(0) = 1 /\ Other(1) = 0
    /\ \A ch \in Chunks : ch[1] \in Nodes /\ ch[2] \in 1 .. mem_size[ch[1]] /\ ch = <<ch[1], ch[2]>>
    /\ \A k \in Nodes : {k} \X (1 .. mem_size[k]) \subseteq Chunks
  <1>1. Nodes = {0, 1}
    BY DEF Nodes, DDR_NODES
  <1>2. Other(0) = 1 /\ Other(1) = 0
    BY DEF Other, DDR_NODES
  <1>3. \A ch \in Chunks : ch[1] \in Nodes /\ ch[2] \in 1 .. mem_size[ch[1]] /\ ch = <<ch[1], ch[2]>>
    BY DEF Chunks
  <1>4. \A k \in Nodes : {k} \X (1 .. mem_size[k]) \subseteq Chunks
    BY DEF Chunks
  <1> QED  BY <1>1, <1>2, <1>3, <1>4

\* get_next_ddr_node returns a controller or fires a BUG_ON; the policies never
\* pick anything else.
LEMMA NextNodeType ==
    ASSUME TypeOK, NEW t \in Threads, NodeInv, pc[t] = "fill"
    PROVE  NextNode(req[t]) \in Nodes \cup {NoNode}
  <1>1. \A x, y : get_next_ddr_node(x, y) \in Nodes \cup {NoNode}
    BY NodeFacts DEF get_next_ddr_node
  <1>2. req[t].policy \in Policies
    BY DEF TypeOK, Request
  <1> QED  BY <1>1, <1>2 DEF NextNode, NodeInv, Policies

\* A size is rounded up to a number of chunks.
LEMMA NChunksType ==
    ASSUME ConstantsAssumption, NEW size \in Nat
    PROVE  NChunks(size) \in Nat
  BY DEF ConstantsAssumption, NChunks

\* The module starts with every chunk free and no call under way.
LEMMA InitTypeInv == ASSUME ConstantsAssumption PROVE Init => TypeInv
  <1> SUFFICES ASSUME Init PROVE TypeInv
    OBVIOUS
  <1>1. inactive_chunks \in [Nodes -> Seq(Chunks)]
    <2> SUFFICES ASSUME NEW k \in Nodes
                 PROVE  [j \in 1 .. mem_size[k] |-> <<k, j>>] \in Seq(Chunks)
      BY DEF Init
    <2>1. mem_size[k] \in Nat
      BY DEF ConstantsAssumption
    <2>2. \A j \in 1 .. mem_size[k] : <<k, j>> \in Chunks
      BY NodeFacts
    <2> QED  BY <2>1, <2>2
  <1>2. TypeOK
    <2>1. /\ mem_allocated \in [Nodes -> Int] /\ n_per_node \in [Nodes -> Nat]
          /\ most_allocated \in [Descs -> Nodes] /\ desc_n \in [Descs -> Nat]
      BY NodeFacts DEF Init
    <2>2. alloc_list \in [Descs -> Seq(Chunks)]
      BY DEF Init
    <2>3. req \in [Threads -> Request]
      BY DEF Init, BlankReq, Request, Policies
    <2>4. pc \in [Threads -> Labels]
      BY DEF Init, Labels
    <2>5. /\ chunk_index \in Nat /\ ddr_node \in Int /\ cluster_chunk \in Nat
          /\ deallocated \in Nat /\ live = {} /\ desc_list = {} /\ contig_lock = NoThread
          /\ oops = FALSE
      BY DEF Init
    <2>6. /\ file_state \in [Files -> {"closed", "open", "releasing"}]
          /\ file_list \in [Files -> SUBSET Descs]
          /\ cur \in [Threads -> Descs \cup {NoDesc}]
      BY DEF Init
    <2> QED  BY <1>1, <2>1, <2>2, <2>3, <2>4, <2>5, <2>6 DEF TypeOK
  <1>3. LockInv
    BY DEF Init, LockInv, ConstantsAssumption
  <1> QED  BY <1>2, <1>3 DEF TypeInv, Init, CurInv, NodeInv

\* Every step keeps the types.
LEMMA NextTypeInv ==
    ASSUME ConstantsAssumption, TypeInv, [Next]_vars
    PROVE  TypeInv'
  <1> USE DEF TypeInv, ConstantsAssumption, memory, desc, files, fill, loop
  <1>0. CASE UNCHANGED vars
    BY <1>0 DEF vars, TypeOK, LockInv, CurInv, NodeInv
  <1>a. ASSUME NEW f \in Files, contig_open(f) PROVE TypeInv'
    BY <1>a DEF contig_open, TypeOK, LockInv, CurInv, NodeInv
  <1>b. ASSUME NEW t \in Threads, AllocCall(t) PROVE TypeInv'
    BY <1>b DEF AllocCall, At, Goto, TypeOK, LockInv, CurInv, NodeInv, Labels
  <1>c. ASSUME NEW t \in Threads, AllocRefused(t) PROVE TypeInv'
    <2>1. BlankReq \in Request
      BY DEF BlankReq, Request, Policies
    <2> QED  BY <1>c, <2>1 DEF AllocRefused, At, Goto, TypeOK, LockInv, CurInv, NodeInv, Labels
  <1>d. ASSUME NEW t \in Threads, AllocLock(t) PROVE TypeInv'
    <2>1. NChunks(req[t].size) \in Nat
      BY NChunksType DEF TypeOK, Request
    <2>2. FirstNode(req[t]) \in Int
      <3>1. \A n, th : get_least_loaded_ddr_node(n, th) \in Nodes
        BY NodeFacts DEF get_least_loaded_ddr_node
      <3>2. req[t].policy \in Policies /\ req[t].ddr_node \in Int
        BY DEF TypeOK, Request
      <3> QED  BY <3>1, <3>2, NodeFacts DEF FirstNode, Policies
    <2>3. req[t].policy = "least_loaded" => FirstNode(req[t]) \in Nodes
      BY NodeFacts DEF FirstNode, get_least_loaded_ddr_node
    <2>4. PICK d \in Descs :
             /\ live' = live \cup {d}
             /\ desc_n' = [desc_n EXCEPT ![d] = NChunks(req[t].size)]
             /\ alloc_list' = [alloc_list EXCEPT ![d] = <<>>]
             /\ cur' = [cur EXCEPT ![t] = d]
      BY <1>d DEF AllocLock
    <2>5. /\ chunk_index' \in Nat /\ ddr_node' \in Int /\ cluster_chunk' \in Nat
          /\ n_per_node' \in [Nodes -> Nat] /\ deallocated' \in Nat
          /\ ddr_node' = FirstNode(req[t])
      BY <1>d, <2>2 DEF AllocLock, LoopInit
    <2>6. alloc_list' \in [Descs -> Seq(Chunks)]
      BY <2>4 DEF TypeOK
    <2>7. TypeOK'
      BY <1>d, <2>1, <2>4, <2>5, <2>6 DEF AllocLock, At, Goto, TypeOK, Labels
    <2> QED  BY <1>d, <2>3, <2>4, <2>5, <2>7 DEF AllocLock, At, Goto, TypeOK, LockInv,
         CurInv, NodeInv
  <1>e. ASSUME NEW t \in Threads, Fill(t) PROVE TypeInv'
    <2> DEFINE d == cur[t]
               k == NextNode(req[t])
    <2>0. pc[t] = "fill" /\ d \in Descs
      BY <1>e DEF Fill, At, CurInv
    <2>1. CASE k = NoNode \/ inactive_chunks[k] = <<>>
      BY <1>e, <2>1 DEF Fill, At, TypeOK, LockInv, CurInv, NodeInv
    <2>2. CASE ~(k = NoNode \/ inactive_chunks[k] = <<>>)
      <3>1. k \in Nodes
        BY <2>0, <2>2, NextNodeType
      <3> HIDE DEF k
      <3>2. inactive_chunks[k] \in Seq(Chunks) /\ alloc_list[d] \in Seq(Chunks)
        BY <2>0, <3>1 DEF TypeOK
      <3>3. Head(inactive_chunks[k]) \in Chunks /\ Tail(inactive_chunks[k]) \in Seq(Chunks)
        BY <3>2, <2>2, HeadTailProperties
      <3>4. <<Head(inactive_chunks[k])>> \o alloc_list[d] \in Seq(Chunks)
        BY <3>2, <3>3
      <3>a. /\ inactive_chunks' = [inactive_chunks EXCEPT ![k] = Tail(@)]
            /\ mem_allocated' = [mem_allocated EXCEPT ![k] = @ + 1]
            /\ chunk_index' = chunk_index + 1
            /\ ddr_node' = k
            /\ cluster_chunk' = IF k = ddr_node THEN cluster_chunk + 1 ELSE 1
            /\ n_per_node' = [n_per_node EXCEPT ![k] = @ + 1]
        BY <1>e, <2>2 DEF Fill, k
      <3>5. inactive_chunks' \in [Nodes -> Seq(Chunks)] /\ mem_allocated' \in [Nodes -> Int]
        BY <3>1, <3>3, <3>a DEF TypeOK
      <3>6. alloc_list' \in [Descs -> Seq(Chunks)]
        BY <1>e, <2>0, <2>2, <3>4 DEF Fill, TypeOK, k
      <3>7. /\ chunk_index' \in Nat /\ ddr_node' = k /\ cluster_chunk' \in Nat
            /\ n_per_node' \in [Nodes -> Nat]
        BY <3>1, <3>a DEF TypeOK
      <3>8. k \in Int
        BY <3>1, NodeFacts
      <3> QED  BY <1>e, <2>2, <3>1, <3>5, <3>6, <3>7, <3>8 DEF Fill, At, TypeOK, LockInv,
           CurInv, NodeInv, k
    <2> QED  BY <2>1, <2>2
  <1>f. ASSUME NEW t \in Threads, FillDone(t) PROVE TypeInv'
    <2>1. Most(req[t]) \in Nodes
      BY <1>f, NodeFacts DEF FillDone, At, Most, NodeInv
    <2>2. cur[t] \in Descs
      BY <1>f DEF FillDone, At, CurInv
    <2> QED  BY <1>f, <2>1, <2>2 DEF FillDone, LoopInit, At, Goto, TypeOK, LockInv, CurInv,
         NodeInv, Labels
  <1>g. ASSUME NEW t \in Threads, CopyOut(t) PROVE TypeInv'
    <2>1. BlankReq \in Request
      BY DEF BlankReq, Request, Policies
    <2> QED  BY <1>g, <2>1 DEF CopyOut, At, Goto, TypeOK, LockInv, CurInv, NodeInv, Labels
  <1>h. ASSUME NEW t \in Threads, Link(t) PROVE TypeInv'
    <2>1. cur[t] \in Descs /\ FileOf[t] \in Files
      BY <1>h DEF Link, At, CurInv
    <2> QED  BY <1>h, <2>1 DEF Link, At, Goto, TypeOK, LockInv, CurInv, NodeInv, Labels
  <1>i. ASSUME NEW t \in Threads, FreeFind(t) PROVE TypeInv'
    BY <1>i DEF FreeFind, At, Goto, TypeOK, LockInv, CurInv, NodeInv, Labels
  <1>j. ASSUME NEW t \in Threads, Unlink(t) PROVE TypeInv'
    BY <1>j DEF Unlink, At, Goto, TypeOK, LockInv, CurInv, NodeInv, Labels
  <1>k. ASSUME NEW t \in Threads, FreeLock(t) PROVE TypeInv'
    BY <1>k DEF FreeLock, At, Goto, TypeOK, LockInv, CurInv, NodeInv, Labels
  <1>l. ASSUME NEW t \in Threads, Drain(t) PROVE TypeInv'
    <2> DEFINE d == cur[t]
               s == alloc_list[d]
               k == Head(s)[1]
    <2>1. d \in Descs /\ s \in Seq(Chunks) /\ s # <<>>
      BY <1>l DEF Drain, At, CurInv, TypeOK
    <2>2. Head(s) \in Chunks /\ Tail(s) \in Seq(Chunks)
      BY <2>1, HeadTailProperties
    <2>3. k \in Nodes
      BY <2>2, NodeFacts
    <2>4. <<Head(s)>> \o inactive_chunks[k] \in Seq(Chunks)
      BY <2>2, <2>3 DEF TypeOK
    <2>5. inactive_chunks' \in [Nodes -> Seq(Chunks)] /\ mem_allocated' \in [Nodes -> Int]
      <3> HIDE DEF k
      <3>1. /\ inactive_chunks' = [inactive_chunks EXCEPT ![k] = <<Head(s)>> \o @]
            /\ mem_allocated' = [mem_allocated EXCEPT ![k] = @ - 1]
        BY <1>l DEF Drain, k
      <3> QED  BY <2>3, <2>4, <3>1 DEF TypeOK
    <2>6. alloc_list' \in [Descs -> Seq(Chunks)]
      BY <1>l, <2>1, <2>2 DEF Drain, TypeOK
    <2>7. deallocated' \in Nat
      BY <1>l DEF Drain, TypeOK
    <2> QED  BY <1>l, <2>5, <2>6, <2>7 DEF Drain, At, TypeOK, LockInv, CurInv, NodeInv
  <1>m. ASSUME NEW t \in Threads, DrainDone(t) PROVE TypeInv'
    BY <1>m, NodeFacts DEF DrainDone, LoopInit, At, Goto, TypeOK, LockInv, CurInv, NodeInv,
       Labels
  <1>n. ASSUME NEW t \in Threads, ReleaseCall(t) PROVE TypeInv'
    BY <1>n DEF ReleaseCall, At, Goto, TypeOK, LockInv, CurInv, NodeInv, Labels
  <1>o. ASSUME NEW t \in Threads, ReleaseNext(t) PROVE TypeInv'
    <2> USE <1>o DEF ReleaseNext, At, Goto
    <2>1. TypeOK'
      <3>1. CASE file_list[FileOf[t]] = {}
        BY <3>1 DEF TypeOK, Labels
      <3>2. CASE file_list[FileOf[t]] # {}
        <4>1. PICK d \in file_list[FileOf[t]] :
                 /\ file_list' = [file_list EXCEPT ![FileOf[t]] = @ \ {d}]
                 /\ cur' = [cur EXCEPT ![t] = d]
                 /\ pc' = [pc EXCEPT ![t] = "free"]
                 /\ UNCHANGED file_state
          BY <3>2
        <4>2. d \in Descs /\ file_list[FileOf[t]] \subseteq Descs
          BY DEF TypeOK
        <4>3. /\ file_list' \in [Files -> SUBSET Descs]
              /\ cur' \in [Threads -> Descs \cup {NoDesc}]
              /\ pc' \in [Threads -> Labels]
          BY <4>1, <4>2 DEF TypeOK, Labels
        <4> QED  BY <4>1, <4>3 DEF TypeOK
      <3> QED  BY <3>1, <3>2
    <2>2. LockInv' /\ NodeInv'
      BY DEF TypeOK, LockInv, NodeInv
    <2>3. CurInv'
      BY DEF TypeOK, CurInv
    <2> QED  BY <2>1, <2>2, <2>3
  <1>p. ASSUME NEW t \in Threads, MmapCall(t) PROVE TypeInv'
    BY <1>p DEF MmapCall, At, Goto, TypeOK, LockInv, CurInv, NodeInv, Labels
  <1>q. ASSUME NEW t \in Threads, MmapLock(t) PROVE TypeInv'
    BY <1>q DEF MmapLock, At, Goto, TypeOK, LockInv, CurInv, NodeInv, Labels
  <1>r. ASSUME NEW t \in Threads, MmapFind(t) PROVE TypeInv'
    <2> USE <1>r DEF MmapFind, At, Goto
    <2>1. TypeOK'
      BY DEF TypeOK, Labels
    <2>2. LockInv' /\ NodeInv'
      BY DEF TypeOK, LockInv, NodeInv
    <2>3. CurInv'
      BY DEF TypeOK, CurInv
    <2> QED  BY <2>1, <2>2, <2>3
  <1>s. ASSUME NEW t \in Threads, Remap(t) PROVE TypeInv'
    BY <1>s DEF Remap, At, Goto, TypeOK, LockInv, CurInv, NodeInv, Labels
  <1> QED
    BY <1>0, <1>a, <1>b, <1>c, <1>d, <1>e, <1>f, <1>g, <1>h, <1>i, <1>j, <1>k, <1>l,
       <1>m, <1>n, <1>o, <1>p, <1>q, <1>r, <1>s DEF Next, InCall

\* Every variable keeps its type; in particular the controller reported to the
\* caller exists, whatever the requests and the sharing of files.
THEOREM TypeCorrect == Spec => []TypeOK
  <1>1. Init => TypeInv
    BY InitTypeInv, ConstantsAssumption
  <1>2. TypeInv /\ [Next]_vars => TypeInv'
    BY NextTypeInv, ConstantsAssumption
  <1>3. TypeInv => TypeOK
    BY DEF TypeInv
  <1> QED  BY <1>1, <1>2, <1>3, PTL DEF Spec

-----------------------------------------------------------------------------
(* The inductive invariant                                                 *)

\* The requests being served were made by user space.
ReqInv == \A t \in Threads : pc[t] \in {"alloc", "fill"} => req[t] \in Requests

\* Every policy reads mem_allocated; it is the complement of the free lists.
SumInv == \A k \in Nodes : mem_allocated[k] + Len(inactive_chunks[k]) = mem_size[k]

\* A descriptor found on the list of the file stays there: no other thread
\* calls through that file.
HeldInv == \A t \in Threads : pc[t] \in {"unlink", "remap"} => cur[t] \in file_list[FileOf[t]]

\* `deallocated' starts at zero.
DeallocInv == (\A t \in Threads : pc[t] # "drain") => deallocated = 0

\* A buffer that no loop is working on has all its chunks.
SizeInv == \A d \in live :
    /\ desc_n[d] <= mem_size[0] + mem_size[1]
    /\ (\A t \in Threads : pc[t] \in {"fill", "drain"} => cur[t] # d) => Len(alloc_list[d]) = desc_n[d]

\* While a buffer is filled, what is still to be taken is there, and where the
\* policy looks for it.
FillInv == \A t \in Threads : pc[t] = "fill" =>
    /\ chunk_index = Len(alloc_list[cur[t]])
    /\ chunk_index <= desc_n[cur[t]]
    /\ desc_n[cur[t]] - chunk_index <= Room(0) + Room(1)
    /\ ddr_node \in Nodes
    /\ req[t].policy = "preferred" /\ ddr_node # req[t].ddr_node => Full(req[t].ddr_node)
    /\ req[t].policy = "least_loaded" => desc_n[cur[t]] - chunk_index <= Room(ddr_node)

\* While a buffer is drained, what was given back and what is left add up.
DrainInv == \A t \in Threads :
    pc[t] = "drain" => deallocated + Len(alloc_list[cur[t]]) = desc_n[cur[t]]

\* The inductive invariant.
IInv == /\ TypeInv /\ ReqInv /\ OneHome /\ SumInv /\ OneOwner /\ HeldInv
        /\ DeallocInv /\ SizeInv /\ FillInv /\ DrainInv /\ NoOops

\* The room left behind a controller is the length of its free list.
LEMMA RoomFacts ==
    ASSUME ConstantsAssumption, TypeOK, OneHome, SumInv, NEW k \in Nodes
    PROVE  /\ inactive_chunks[k] \in Seq(Chunks) /\ mem_size[k] \in Nat
           /\ Len(inactive_chunks[k]) \in Nat /\ mem_allocated[k] \in Int
           /\ Room(k) = Len(inactive_chunks[k])
           /\ Room(k) <= mem_size[k]
           /\ mem_allocated[k] >= 0
           /\ inactive_chunks[k] = <<>> <=> Room(k) = 0
  <1>1. /\ inactive_chunks[k] \in Seq(Chunks) /\ mem_size[k] \in Nat /\ mem_allocated[k] \in Int
        /\ Len(inactive_chunks[k]) \in Nat
    BY DEF TypeOK, ConstantsAssumption
  <1>2. Room(k) = Len(inactive_chunks[k])
    BY <1>1 DEF Room, SumInv
  <1>3. IsFiniteSet({k} \X (1 .. mem_size[k])) /\ Cardinality({k} \X (1 .. mem_size[k])) = mem_size[k]
    <2>1. IsFiniteSet({k}) /\ Cardinality({k}) = 1
      BY FS_Singleton
    <2>2. IsFiniteSet(1 .. mem_size[k]) /\ Cardinality(1 .. mem_size[k]) = mem_size[k]
      BY <1>1, FS_Interval
    <2>3. Cardinality({k} \X (1 .. mem_size[k])) = 1 * mem_size[k]
      BY <2>1, <2>2, FS_Product
    <2> QED  BY <1>1, <2>1, <2>2, <2>3, FS_Product
  <1>4. Len(inactive_chunks[k]) <= mem_size[k]
    <2>1. IsInjective(inactive_chunks[k]) /\ Range(inactive_chunks[k]) \subseteq {k} \X (1 .. mem_size[k])
      BY DEF OneHome
    <2> QED  BY <1>1, <1>3, <2>1, LenBound
  <1>5. inactive_chunks[k] = <<>> <=> Len(inactive_chunks[k]) = 0
    BY <1>1, EmptySeq
  <1> QED  BY <1>1, <1>2, <1>4, <1>5 DEF Room

\* The policies find a controller with a free chunk as long as the buffer needs
\* one more: no BUG_ON of get_next_ddr_node or allocate_chunk fires.
LEMMA NextNodeFacts ==
    ASSUME ConstantsAssumption, NodesInRange, IInv,
           NEW t \in Threads, pc[t] = "fill", chunk_index < desc_n[cur[t]]
    PROVE  /\ NextNode(req[t]) \in Nodes
           /\ Room(NextNode(req[t])) > 0
           /\ req[t].policy = "preferred" /\ NextNode(req[t]) # req[t].ddr_node
                 => Full(req[t].ddr_node)
           /\ req[t].policy = "least_loaded" => NextNode(req[t]) = ddr_node
  <1>1. /\ cur[t] \in Descs /\ desc_n[cur[t]] \in Nat /\ chunk_index \in Nat
        /\ ddr_node \in Nodes
        /\ desc_n[cur[t]] - chunk_index >= 1
        /\ desc_n[cur[t]] - chunk_index <= Room(0) + Room(1)
        /\ req[t] \in Requests /\ req[t].policy \in Policies
    <2>1. cur[t] \in Descs /\ desc_n[cur[t]] \in Nat /\ chunk_index \in Nat
      BY DEF IInv, TypeInv, TypeOK, CurInv
    <2>2. ddr_node \in Nodes /\ desc_n[cur[t]] - chunk_index <= Room(0) + Room(1)
      BY DEF IInv, FillInv
    <2>3. req[t] \in Requests /\ req[t].policy \in Policies
      BY DEF IInv, ReqInv, ConstantsAssumption, Request
    <2> QED  BY <2>1, <2>2, <2>3
  <1>2. \A k \in Nodes : /\ Room(k) \in Nat /\ mem_allocated[k] \in Nat /\ mem_size[k] \in Nat
                         /\ mem_allocated[k] <= mem_size[k]
                         /\ Full(k) <=> Room(k) = 0
    BY RoomFacts DEF IInv, TypeInv, Room, Full
  <1>3. Room(0) + Room(1) >= 1 /\ Room(0) \in Nat /\ Room(1) \in Nat
    <2>1. Room(0) \in Nat /\ Room(1) \in Nat
      BY <1>2, NodeFacts
    <2> QED  BY <1>1, <2>1
  <1>4. ASSUME NEW x \in Nodes
        PROVE  get_next_ddr_node(x, x) \in Nodes /\ Room(get_next_ddr_node(x, x)) > 0
    BY <1>2, <1>3, NodeFacts DEF get_next_ddr_node
  <1>5. CASE req[t].policy = "preferred"
    <2>1. req[t].ddr_node \in Nodes
      BY <1>1, <1>5 DEF NodesInRange
    <2>2. NextNode(req[t]) = get_next_ddr_node(ddr_node, req[t].ddr_node)
      BY <1>5 DEF NextNode
    <2>3. CASE ddr_node = req[t].ddr_node
      BY <1>1, <1>2, <1>4, <2>1, <2>2, <2>3, <1>5, NodeFacts DEF get_next_ddr_node
    <2>4. CASE ddr_node # req[t].ddr_node
      <3>1. Full(req[t].ddr_node)
        BY <1>5, <2>4 DEF IInv, FillInv
      <3>2. ~Full(ddr_node)
        BY <1>1, <1>2, <1>3, <2>1, <2>4, <3>1, NodeFacts
      <3>3. get_next_ddr_node(ddr_node, req[t].ddr_node) = ddr_node
        BY <1>1, <1>2, <3>2 DEF get_next_ddr_node
      <3> QED  BY <1>1, <1>2, <1>5, <2>2, <3>1, <3>2, <3>3
    <2> QED  BY <2>3, <2>4
  <1>6. CASE req[t].policy = "least_loaded"
    <2>1. NextNode(req[t]) = ddr_node
      BY <1>6 DEF NextNode
    <2>2. desc_n[cur[t]] - chunk_index <= Room(ddr_node)
      BY <1>6 DEF IInv, FillInv
    <2> QED  BY <1>1, <1>2, <1>6, <2>1, <2>2
  <1>7. CASE req[t].policy = "balanced"
    <2>1. Other(ddr_node) \in Nodes
      BY <1>1, NodeFacts
    <2> QED  BY <1>1, <1>4, <1>7, <2>1 DEF NextNode
  <1> QED  BY <1>1, <1>5, <1>6, <1>7 DEF Policies

\* A size that fits in R chunks is rounded up to at most R chunks.
LEMMA NChunksBound ==
    ASSUME ConstantsAssumption, NEW size \in Nat, NEW R \in Nat, size <= R * ChunkSize
    PROVE  NChunks(size) <= R
  <1> DEFINE q == NChunks(size)
  <1>1. ChunkSize \in Nat /\ ChunkSize > 0
    BY DEF ConstantsAssumption
  <1>2. q \in Nat /\ ChunkSize * q <= size + ChunkSize - 1
    BY <1>1 DEF NChunks
  <1> HIDE DEF q
  <1>3. ASSUME q >= R + 1 PROVE FALSE
    <2>1. ChunkSize * (R + 1) <= ChunkSize * q
      BY <1>1, <1>2, <1>3
    <2>2. ChunkSize * (R + 1) = R * ChunkSize + ChunkSize
      BY <1>1
    <2>3. R * ChunkSize \in Nat /\ ChunkSize * q \in Nat
      BY <1>1, <1>2
    <2> QED  BY <1>1, <1>2, <2>1, <2>2, <2>3
  <1> QED  BY <1>2, <1>3 DEF q

\* What one turn of a policy's loop does.
LEMMA FillFacts ==
    ASSUME ConstantsAssumption, NodesInRange, IInv, NEW t \in Threads, Fill(t)
    PROVE  \E k \in Nodes :
             /\ k = NextNode(req[t])
             /\ inactive_chunks[k] # <<>>
             /\ pc[t] = "fill" /\ cur[t] \in live /\ chunk_index < desc_n[cur[t]]
             /\ inactive_chunks' = [inactive_chunks EXCEPT ![k] = Tail(@)]
             /\ mem_allocated' = [mem_allocated EXCEPT ![k] = @ + 1]
             /\ alloc_list' = [alloc_list EXCEPT ![cur[t]] = <<Head(inactive_chunks[k])>> \o @]
             /\ chunk_index' = chunk_index + 1
             /\ ddr_node' = k
             /\ UNCHANGED <<desc_n, live, files, deallocated, pc, req, cur, oops>>
  <1>1. pc[t] = "fill" /\ chunk_index < desc_n[cur[t]]
    BY DEF Fill, At
  <1>2. NextNode(req[t]) \in Nodes /\ Room(NextNode(req[t])) > 0
    BY <1>1, NextNodeFacts
  <1>3. NextNode(req[t]) # NoNode
    BY <1>2, NodeFacts DEF NoNode
  <1>4. inactive_chunks[NextNode(req[t])] # <<>>
    BY <1>2, RoomFacts DEF IInv, TypeInv
  <1>5. cur[t] \in live
    BY <1>1 DEF IInv, OneOwner, InHand
  <1> QED  BY <1>1, <1>2, <1>3, <1>4, <1>5 DEF Fill

\* What one turn of the loop of __contig_free does.
LEMMA DrainFacts ==
    ASSUME ConstantsAssumption, NoWrap, IInv, NEW t \in Threads, Drain(t)
    PROVE  \E ch \in Chunks :
             /\ pc[t] = "drain" /\ cur[t] \in live
             /\ alloc_list[cur[t]] # <<>> /\ ch = Head(alloc_list[cur[t]])
             /\ ch[1] \in Nodes
             /\ inactive_chunks' = [inactive_chunks EXCEPT ![ch[1]] = <<ch>> \o @]
             /\ mem_allocated' = [mem_allocated EXCEPT ![ch[1]] = @ - 1]
             /\ alloc_list' = [alloc_list EXCEPT ![cur[t]] = Tail(@)]
             /\ deallocated' = deallocated + 1
             /\ UNCHANGED <<desc_n, live, files, fill, pc, req, cur, oops>>
  <1> DEFINE s == alloc_list[cur[t]]
  <1>1. /\ pc[t] = "drain" /\ cur[t] \in live /\ cur[t] \in Descs /\ s # <<>> /\ s \in Seq(Chunks)
        /\ deallocated \in Nat /\ desc_n[cur[t]] \in Nat
    BY DEF Drain, At, IInv, OneOwner, InHand, TypeInv, TypeOK, CurInv
  <1>2. Head(s) \in Chunks /\ Len(s) \in Nat \ {0}
    BY <1>1, HeadInRange
  <1>3. Head(s)[1] \in Nodes
    BY <1>2, NodeFacts
  <1>4. deallocated + Len(s) = desc_n[cur[t]] /\ desc_n[cur[t]] <= mem_size[0] + mem_size[1]
    BY <1>1 DEF IInv, DrainInv, SizeInv
  <1>5. mem_size[0] \in Nat /\ mem_size[1] \in Nat /\ UIntChunks \in Nat
    BY NodeFacts DEF ConstantsAssumption
  <1>6. deallocated + 1 \in 0 .. UIntChunks - 1
    BY <1>1, <1>2, <1>4, <1>5 DEF NoWrap
  <1>7. (deallocated + 1) % UIntChunks = deallocated + 1
    BY <1>5, <1>6
  <1> QED  BY <1>1, <1>2, <1>3, <1>7 DEF Drain, fill

\* The steps that move no chunk.
LEMMA QuietSteps ==
    ASSUME ConstantsAssumption, IInv, [Next]_vars,
           ~ \E t \in Threads : Fill(t) \/ Drain(t)
    PROVE  UNCHANGED <<inactive_chunks, mem_allocated, alloc_list>>
  <1>1. ASSUME NEW t \in Threads, AllocLock(t) PROVE UNCHANGED <<inactive_chunks, mem_allocated, alloc_list>>
    <2>1. PICK d \in Descs \ live : alloc_list' = [alloc_list EXCEPT ![d] = <<>>]
      BY <1>1 DEF AllocLock
    <2>2. alloc_list[d] = <<>>
      BY <2>1 DEF IInv, OneHome
    <2>3. alloc_list' = alloc_list
      BY <2>1, <2>2 DEF IInv, TypeInv, TypeOK
    <2> QED  BY <1>1, <2>3 DEF AllocLock, memory
  <1> QED
    BY <1>1 DEF Next, InCall, vars, memory, desc, contig_open, AllocCall, AllocRefused,
       FillDone, CopyOut, Link, FreeFind, Unlink, FreeLock, DrainDone, ReleaseCall,
       ReleaseNext, MmapCall, MmapLock, MmapFind, Remap

\* Chunks move between lists without being copied or lost.
LEMMA StepOneHome ==
    ASSUME ConstantsAssumption, NodesInRange, NoWrap, IInv, TypeInv', [Next]_vars
    PROVE  OneHome'
  <1>0. TypeOK /\ OneHome
    BY DEF IInv, TypeInv
  <1>1. ASSUME NEW t \in Threads, Fill(t) PROVE OneHome'
    <2>1. PICK k \in Nodes :
             /\ inactive_chunks[k] # <<>> /\ cur[t] \in live
             /\ inactive_chunks' = [inactive_chunks EXCEPT ![k] = Tail(@)]
             /\ alloc_list' = [alloc_list EXCEPT ![cur[t]] = <<Head(inactive_chunks[k])>> \o @]
             /\ live' = live
      BY <1>1, FillFacts
    <2> DEFINE d == cur[t]
               ch == Head(inactive_chunks[k])
    <2>2. /\ d \in Descs /\ inactive_chunks[k] \in Seq(Chunks) /\ alloc_list[d] \in Seq(Chunks)
          /\ IsInjective(inactive_chunks[k]) /\ IsInjective(alloc_list[d])
      BY <1>0, <2>1 DEF TypeOK, OneHome
    <2>3. ch \in Chunks /\ ch \in Range(inactive_chunks[k])
      BY <2>1, <2>2, HeadInRange
    <2>4. ch \notin Range(alloc_list[d])
      BY <1>0, <2>2, <2>3 DEF OneHome
    <2>5. /\ IsInjective(inactive_chunks'[k])
          /\ Range(inactive_chunks'[k]) = Range(inactive_chunks[k]) \ {ch}
          /\ \A m \in Nodes : m # k => inactive_chunks'[m] = inactive_chunks[m]
      BY <1>0, <2>1, <2>2, PopFacts DEF TypeOK
    <2>6. /\ IsInjective(alloc_list'[d])
          /\ Range(alloc_list'[d]) = {ch} \cup Range(alloc_list[d])
          /\ \A e \in Descs : e # d => alloc_list'[e] = alloc_list[e]
      BY <1>0, <2>1, <2>2, <2>3, <2>4, PushFacts DEF TypeOK
    <2> HIDE DEF d, ch
    <2>7. \A m \in Nodes : /\ IsInjective(inactive_chunks'[m])
                           /\ Range(inactive_chunks'[m]) \subseteq {m} \X (1 .. mem_size[m])
      BY <1>0, <2>5 DEF OneHome
    <2>8. \A e \in Descs : /\ IsInjective(alloc_list'[e])
                           /\ e \notin live' => alloc_list'[e] = <<>>
      BY <1>0, <2>1, <2>6 DEF OneHome, d
    <2>9. \A m \in Nodes : m # k => ch \notin Range(inactive_chunks[m])
      BY <1>0, <2>3 DEF OneHome
    <2>10. \A e \in Descs, m \in Nodes : Range(alloc_list'[e]) \cap Range(inactive_chunks'[m]) = {}
      BY <1>0, <2>5, <2>6, <2>9 DEF OneHome
    <2>11. \A e \in Descs : ch \notin Range(alloc_list[e])
      BY <1>0, <2>3 DEF OneHome
    <2>12. \A e, g \in Descs : e # g => Range(alloc_list'[e]) \cap Range(alloc_list'[g]) = {}
      <3> SUFFICES ASSUME NEW e \in Descs, NEW g \in Descs, e # g
                   PROVE  Range(alloc_list'[e]) \cap Range(alloc_list'[g]) = {}
        OBVIOUS
      <3>1. Range(alloc_list[e]) \cap Range(alloc_list[g]) = {}
        BY <1>0 DEF OneHome
      <3>2. CASE e = d
        BY <2>6, <2>11, <3>1, <3>2
      <3>3. CASE g = d
        BY <2>6, <2>11, <3>1, <3>3
      <3>4. CASE e # d /\ g # d
        BY <2>6, <3>1, <3>4
      <3> QED  BY <3>2, <3>3, <3>4
    <2>13. \A c \in Chunks : \/ c \in Range(inactive_chunks'[c[1]])
                             \/ \E e \in Descs : c \in Range(alloc_list'[e])
      <3> SUFFICES ASSUME NEW c \in Chunks
                   PROVE  \/ c \in Range(inactive_chunks'[c[1]])
                          \/ \E e \in Descs : c \in Range(alloc_list'[e])
        OBVIOUS
      <3>1. CASE c = ch
        BY <2>2, <2>6, <3>1 DEF d
      <3>2. CASE c # ch /\ c \in Range(inactive_chunks[c[1]])
        BY <2>5, <3>2, NodeFacts
      <3>3. CASE \E e \in Descs : c \in Range(alloc_list[e])
        BY <2>6, <3>3
      <3> QED  BY <1>0, <3>1, <3>2, <3>3 DEF OneHome
    <2> QED  BY <2>7, <2>8, <2>10, <2>12, <2>13 DEF OneHome
  <1>2. ASSUME NEW t \in Threads, Drain(t) PROVE OneHome'
    <2>1. PICK ch \in Chunks :
             /\ cur[t] \in live
             /\ alloc_list[cur[t]] # <<>> /\ ch = Head(alloc_list[cur[t]])
             /\ ch[1] \in Nodes
             /\ inactive_chunks' = [inactive_chunks EXCEPT ![ch[1]] = <<ch>> \o @]
             /\ alloc_list' = [alloc_list EXCEPT ![cur[t]] = Tail(@)]
             /\ live' = live
      BY <1>2, DrainFacts
    <2> DEFINE d == cur[t]
               k == ch[1]
    <2>2. /\ d \in Descs /\ inactive_chunks[k] \in Seq(Chunks) /\ alloc_list[d] \in Seq(Chunks)
          /\ IsInjective(inactive_chunks[k]) /\ IsInjective(alloc_list[d])
      BY <1>0, <2>1 DEF TypeOK, OneHome
    <2>3. ch \in Range(alloc_list[d])
      BY <2>1, <2>2, HeadInRange
    <2>4. \A m \in Nodes : ch \notin Range(inactive_chunks[m])
      BY <1>0, <2>2, <2>3 DEF OneHome
    <2>5. /\ IsInjective(inactive_chunks'[k])
          /\ Range(inactive_chunks'[k]) = {ch} \cup Range(inactive_chunks[k])
          /\ \A m \in Nodes : m # k => inactive_chunks'[m] = inactive_chunks[m]
      BY <1>0, <2>1, <2>2, <2>4, PushFacts DEF TypeOK
    <2>6. /\ IsInjective(alloc_list'[d])
          /\ Range(alloc_list'[d]) = Range(alloc_list[d]) \ {ch}
          /\ \A e \in Descs : e # d => alloc_list'[e] = alloc_list[e]
      BY <1>0, <2>1, <2>2, PopFacts DEF TypeOK
    <2>a. ch \in {k} \X (1 .. mem_size[k])
      BY <2>1, NodeFacts
    <2>b. k \in Nodes
      BY <2>1
    <2> HIDE DEF d
    <2>7. \A m \in Nodes : /\ IsInjective(inactive_chunks'[m])
                           /\ Range(inactive_chunks'[m]) \subseteq {m} \X (1 .. mem_size[m])
      <3> HIDE DEF k
      <3> QED  BY <1>0, <2>5, <2>a DEF OneHome
    <2>8. \A e \in Descs : /\ IsInjective(alloc_list'[e])
                           /\ e \notin live' => alloc_list'[e] = <<>>
      BY <1>0, <2>1, <2>6 DEF OneHome, d
    <2>9. \A e \in Descs : e # d => ch \notin Range(alloc_list[e])
      BY <1>0, <2>2, <2>3 DEF OneHome
    <2>10. \A e \in Descs, m \in Nodes : Range(alloc_list'[e]) \cap Range(inactive_chunks'[m]) = {}
      <3> HIDE DEF k
      <3> QED  BY <1>0, <2>5, <2>6, <2>9 DEF OneHome
    <2>12. \A e, g \in Descs : e # g => Range(alloc_list'[e]) \cap Range(alloc_list'[g]) = {}
      BY <1>0, <2>6 DEF OneHome
    <2>13. \A c \in Chunks : \/ c \in Range(inactive_chunks'[c[1]])
                             \/ \E e \in Descs : c \in Range(alloc_list'[e])
      <3> SUFFICES ASSUME NEW c \in Chunks
                   PROVE  \/ c \in Range(inactive_chunks'[c[1]])
                          \/ \E e \in Descs : c \in Range(alloc_list'[e])
        OBVIOUS
      <3>1. CASE c = ch
        BY <2>5, <3>1
      <3>2. CASE c \in Range(inactive_chunks[c[1]])
        BY <2>5, <3>2, NodeFacts
      <3>3. CASE c # ch /\ \E e \in Descs : c \in Range(alloc_list[e])
        BY <2>6, <3>3
      <3> QED  BY <1>0, <3>1, <3>2, <3>3 DEF OneHome
    <2> QED  BY <2>7, <2>8, <2>10, <2>12, <2>13 DEF OneHome
  <1>3. CASE ~ \E t \in Threads : Fill(t) \/ Drain(t)
    <2>1. UNCHANGED <<inactive_chunks, mem_allocated, alloc_list>>
      BY <1>3, QuietSteps
    <2>2. \A d \in Descs : d \notin live' => alloc_list[d] = <<>>
      <3>1. CASE \E t \in Threads : DrainDone(t)
        <4>1. PICK t \in Threads : alloc_list[cur[t]] = <<>> /\ live' = live \ {cur[t]}
          BY <3>1 DEF DrainDone
        <4> QED  BY <1>0, <4>1 DEF OneHome
      <3>2. CASE ~ \E t \in Threads : DrainDone(t)
        <4>1. live \subseteq live'
          BY <1>3, <3>2 DEF Next, InCall, vars, memory, desc, contig_open, AllocCall,
             AllocRefused, AllocLock, FillDone, CopyOut, Link, FreeFind, Unlink, FreeLock,
             ReleaseCall, ReleaseNext, MmapCall, MmapLock, MmapFind, Remap
        <4> QED  BY <1>0, <4>1 DEF OneHome
      <3> QED  BY <3>1, <3>2
    <2> QED  BY <1>0, <2>1, <2>2 DEF OneHome
  <1> QED  BY <1>1, <1>2, <1>3

\* A chunk taken is counted, a chunk given back is counted off.
LEMMA StepSumInv ==
    ASSUME ConstantsAssumption, NodesInRange, NoWrap, IInv, [Next]_vars
    PROVE  SumInv'
  <1>0. TypeOK /\ SumInv /\ OneHome
    BY DEF IInv, TypeInv
  <1>1. ASSUME NEW t \in Threads, Fill(t) PROVE SumInv'
    <2>1. PICK k \in Nodes :
             /\ inactive_chunks[k] # <<>>
             /\ inactive_chunks' = [inactive_chunks EXCEPT ![k] = Tail(@)]
             /\ mem_allocated' = [mem_allocated EXCEPT ![k] = @ + 1]
      BY <1>1, FillFacts
    <2>2. /\ inactive_chunks[k] \in Seq(Chunks) /\ mem_allocated[k] \in Int
          /\ Len(inactive_chunks[k]) \in Nat
      BY <1>0 DEF TypeOK
    <2>3. Len(Tail(inactive_chunks[k])) = Len(inactive_chunks[k]) - 1
      BY <2>1, <2>2, HeadTailProperties
    <2> QED  BY <1>0, <2>1, <2>2, <2>3 DEF TypeOK, SumInv
  <1>2. ASSUME NEW t \in Threads, Drain(t) PROVE SumInv'
    <2>1. PICK ch \in Chunks :
             /\ ch[1] \in Nodes
             /\ inactive_chunks' = [inactive_chunks EXCEPT ![ch[1]] = <<ch>> \o @]
             /\ mem_allocated' = [mem_allocated EXCEPT ![ch[1]] = @ - 1]
      BY <1>2, DrainFacts
    <2> DEFINE k == ch[1]
    <2>2. /\ inactive_chunks[k] \in Seq(Chunks) /\ mem_allocated[k] \in Int
          /\ Len(inactive_chunks[k]) \in Nat /\ k \in Nodes
      BY <1>0, <2>1 DEF TypeOK
    <2>3. Len(<<ch>> \o inactive_chunks[k]) = Len(inactive_chunks[k]) + 1
      BY <2>2, PushFacts
    <2>4. /\ inactive_chunks' = [inactive_chunks EXCEPT ![k] = <<ch>> \o @]
          /\ mem_allocated' = [mem_allocated EXCEPT ![k] = @ - 1]
      BY <2>1
    <2> HIDE DEF k
    <2> QED  BY <1>0, <2>2, <2>3, <2>4 DEF TypeOK, SumInv
  <1>3. CASE ~ \E t \in Threads : Fill(t) \/ Drain(t)
    BY <1>0, <1>3, QuietSteps DEF SumInv
  <1> QED  BY <1>1, <1>2, <1>3

\* Descriptors pass from hand to hand: from the thread that allocates to a file,
\* from the file to the thread that frees.
LEMMA StepOneOwner ==
    ASSUME ConstantsAssumption, NodesInRange, NoWrap, IInv, TypeInv', [Next]_vars
    PROVE  OneOwner'
  <1>0. /\ OneOwner /\ HeldInv /\ TypeOK /\ CurInv
        /\ FileOf \in [Threads -> Files]
    BY DEF IInv, TypeInv, ConstantsAssumption
  <1> USE DEF OneOwner, InHand
  <1>1. ASSUME NEW t \in Threads, AllocLock(t) PROVE OneOwner'
    <2>1. PICK d \in Descs \ live :
             /\ live' = live \cup {d} /\ cur' = [cur EXCEPT ![t] = d]
             /\ pc' = [pc EXCEPT ![t] = "fill"] /\ UNCHANGED files /\ pc[t] = "alloc"
      BY <1>1 DEF AllocLock, Goto, At
    <2>2. \A u \in InHand' : u = t \/ (u \in InHand /\ cur'[u] = cur[u])
      BY <1>0, <2>1 DEF TypeOK
    <2>3. cur'[t] = d /\ t \in InHand' /\ \A u \in InHand : u # t /\ u \in InHand' /\ cur'[u] = cur[u]
      BY <1>0, <2>1 DEF TypeOK
    <2>4. file_list' = file_list
      BY <2>1 DEF files
    <2> QED  BY <1>0, <2>1, <2>2, <2>3, <2>4
  <1>2. ASSUME NEW t \in Threads, DrainDone(t) PROVE OneOwner'
    <2>1. /\ pc[t] = "drain" /\ live' = live \ {cur[t]} /\ cur' = [cur EXCEPT ![t] = NoDesc]
          /\ pc' \in {[pc EXCEPT ![t] = "idle"], [pc EXCEPT ![t] = "release"]}
          /\ file_list' = file_list
      BY <1>2 DEF DrainDone, Goto, At, files
    <2>2. t \in InHand /\ t \notin InHand' /\ \A u \in Threads \ {t} : cur'[u] = cur[u] /\ (u \in InHand' <=> u \in InHand)
      BY <1>0, <2>1 DEF TypeOK
    <2> QED  BY <1>0, <2>1, <2>2
  <1>3. ASSUME NEW t \in Threads, Link(t) PROVE OneOwner'
    <2>1. /\ pc[t] = "link" /\ live' = live /\ cur' = [cur EXCEPT ![t] = NoDesc]
          /\ pc' = [pc EXCEPT ![t] = "idle"]
          /\ file_list' = [file_list EXCEPT ![FileOf[t]] = @ \cup {cur[t]}]
      BY <1>3 DEF Link, Goto, At
    <2>2. t \in InHand /\ t \notin InHand' /\ \A u \in Threads \ {t} : cur'[u] = cur[u] /\ (u \in InHand' <=> u \in InHand)
      BY <1>0, <2>1 DEF TypeOK
    <2>3. /\ file_list'[FileOf[t]] = file_list[FileOf[t]] \cup {cur[t]}
          /\ \A f \in Files : f # FileOf[t] => file_list'[f] = file_list[f]
      BY <1>0, <2>1 DEF TypeOK
    <2>4. cur[t] \in live /\ \A f \in Files : cur[t] \notin file_list[f]
      BY <1>0, <2>2
    <2>5. \A u \in InHand' : cur'[u] \in live' /\ \A f \in Files : cur'[u] \notin file_list'[f]
      BY <1>0, <2>1, <2>2, <2>3
    <2>6. \A f, g \in Files : f # g => file_list'[f] \cap file_list'[g] = {}
      BY <1>0, <2>3, <2>4
    <2>7. \A d \in live' : \/ \E f \in Files : d \in file_list'[f]
                           \/ \E u \in InHand' : cur'[u] = d
      <3> SUFFICES ASSUME NEW d \in live
                   PROVE  \/ \E f \in Files : d \in file_list'[f]
                          \/ \E u \in InHand' : cur'[u] = d
        BY <2>1
      <3>1. CASE d = cur[t]
        BY <1>0, <2>3, <3>1
      <3>2. CASE d # cur[t]
        BY <1>0, <2>2, <2>3, <3>2
      <3> QED  BY <3>1, <3>2
    <2>8. \A f \in Files : file_list'[f] \subseteq live'
      BY <1>0, <2>1, <2>3, <2>4
    <2>9. \A u, v \in InHand' : u # v => cur'[u] # cur'[v]
      BY <1>0, <2>2
    <2> QED  BY <2>5, <2>6, <2>7, <2>8, <2>9
  <1>4. ASSUME NEW t \in Threads, NEW f \in Files, NEW d \in file_list[f],
               t \notin InHand, live' = live, cur' = [cur EXCEPT ![t] = d],
               pc' = [pc EXCEPT ![t] = "free"],
               file_list' = [file_list EXCEPT ![f] = @ \ {d}]
        PROVE  OneOwner'
    <2>1. t \in InHand' /\ cur'[t] = d /\ d \in live
      BY <1>0, <1>4 DEF TypeOK
    <2>2. \A u \in Threads \ {t} : cur'[u] = cur[u] /\ (u \in InHand' <=> u \in InHand)
      BY <1>0, <1>4 DEF TypeOK
    <2>3. /\ file_list'[f] = file_list[f] \ {d}
          /\ \A g \in Files : g # f => file_list'[g] = file_list[g] /\ d \notin file_list[g]
      BY <1>0, <1>4 DEF TypeOK
    <2>4. \A u \in InHand : cur[u] # d
      BY <1>0, <1>4
    <2>5. \A u \in InHand' : cur'[u] \in live' /\ \A g \in Files : cur'[u] \notin file_list'[g]
      BY <1>0, <1>4, <2>1, <2>2, <2>3
    <2>6. \A g, h \in Files : g # h => file_list'[g] \cap file_list'[h] = {}
      BY <1>0, <2>3
    <2>7. \A e \in live' : \/ \E g \in Files : e \in file_list'[g]
                           \/ \E u \in InHand' : cur'[u] = e
      <3> SUFFICES ASSUME NEW e \in live
                   PROVE  \/ \E g \in Files : e \in file_list'[g]
                          \/ \E u \in InHand' : cur'[u] = e
        BY <1>4
      <3>1. CASE e = d
        BY <2>1, <3>1
      <3>2. CASE e # d
        BY <1>0, <1>4, <2>2, <2>3, <3>2
      <3> QED  BY <3>1, <3>2
    <2>8. \A g \in Files : file_list'[g] \subseteq live'
      BY <1>0, <1>4, <2>3
    <2>9. \A u, v \in InHand' : u # v => cur'[u] # cur'[v]
      BY <1>0, <2>1, <2>2, <2>4
    <2> QED  BY <2>5, <2>6, <2>7, <2>8, <2>9
  <1>5. ASSUME NEW t \in Threads, Unlink(t) PROVE OneOwner'
    <2>1. cur[t] \in file_list[FileOf[t]] /\ FileOf[t] \in Files /\ t \notin InHand
      BY <1>0, <1>5 DEF Unlink, At, HeldInv
    <2>2. cur' = [cur EXCEPT ![t] = cur[t]]
      BY <1>0, <1>5 DEF Unlink, TypeOK
    <2> QED  BY <1>4, <1>5, <2>1, <2>2 DEF Unlink, Goto
  <1>6. ASSUME NEW t \in Threads, ReleaseNext(t) PROVE OneOwner'
    <2>1. CASE file_list[FileOf[t]] = {}
      <3>1. /\ file_list' = file_list /\ live' = live /\ cur' = cur
            /\ InHand' = InHand
        BY <1>0, <1>6, <2>1 DEF ReleaseNext, At, Goto, TypeOK
      <3> QED  BY <1>0, <3>1
    <2>2. CASE file_list[FileOf[t]] # {}
      <3>1. FileOf[t] \in Files /\ t \notin InHand /\ live' = live
        BY <1>0, <1>6 DEF ReleaseNext, At
      <3>2. PICK d \in file_list[FileOf[t]] :
               /\ file_list' = [file_list EXCEPT ![FileOf[t]] = @ \ {d}]
               /\ cur' = [cur EXCEPT ![t] = d]
               /\ pc' = [pc EXCEPT ![t] = "free"]
        BY <1>6, <2>2 DEF ReleaseNext, Goto
      <3> QED  BY <1>4, <3>1, <3>2
    <2> QED  BY <2>1, <2>2
  <1>7. ASSUME NEW t \in Threads, InHand' = InHand, live' = live, file_list' = file_list,
               \A u \in InHand : cur'[u] = cur[u]
        PROVE  OneOwner'
    BY <1>0, <1>7
  <1>8. ASSUME NEW t \in Threads,
               AllocCall(t) \/ FreeFind(t) \/ ReleaseCall(t) \/ MmapCall(t) \/ AllocRefused(t) \/ Fill(t)
               \/ FillDone(t) \/ CopyOut(t) \/ FreeLock(t) \/ Drain(t) \/ MmapLock(t) \/ MmapFind(t) \/ Remap(t)
        PROVE  OneOwner'
    <2>1. live' = live /\ file_list' = file_list
      BY <1>8 DEF AllocCall, FreeFind, ReleaseCall, MmapCall, AllocRefused, Fill, FillDone,
         CopyOut, FreeLock, Drain, MmapLock, MmapFind, Remap, files
    <2>2. InHand' = InHand /\ \A u \in InHand : cur'[u] = cur[u]
      <3>1. CASE AllocCall(t) \/ FreeFind(t) \/ ReleaseCall(t) \/ MmapCall(t) \/ AllocRefused(t)
        BY <1>0, <3>1 DEF AllocCall, FreeFind, ReleaseCall, MmapCall, AllocRefused, At,
           Goto, TypeOK
      <3>2. CASE Fill(t) \/ Drain(t)
        BY <1>0, <3>2 DEF Fill, Drain
      <3>3. CASE FillDone(t) \/ CopyOut(t) \/ FreeLock(t)
        BY <1>0, <3>3 DEF FillDone, CopyOut, FreeLock, At, Goto, TypeOK
      <3>4. CASE MmapLock(t) \/ MmapFind(t) \/ Remap(t)
        BY <1>0, <3>4 DEF MmapLock, MmapFind, Remap, At, Goto, TypeOK
      <3> QED  BY <1>8, <3>1, <3>2, <3>3, <3>4
    <2> QED  BY <1>7, <2>1, <2>2
  <1>9. CASE UNCHANGED vars \/ \E f \in Files : contig_open(f)
    BY <1>0, <1>9 DEF vars, contig_open, files
  <1> QED  BY <1>1, <1>2, <1>3, <1>5, <1>6, <1>8, <1>9 DEF Next, InCall

\* A request is only replaced by another one of user space's.
LEMMA StepReqInv ==
    ASSUME ConstantsAssumption, IInv, [Next]_vars
    PROVE  ReqInv'
  <1>0. TypeOK /\ ReqInv
    BY DEF IInv, TypeInv
  <1>1. ASSUME NEW t \in Threads,
               AllocRefused(t) \/ AllocLock(t) \/ AllocCall(t) \/ CopyOut(t)
        PROVE  ReqInv'
    BY <1>0, <1>1 DEF AllocRefused, AllocLock, AllocCall, CopyOut, At, Goto, TypeOK, ReqInv
  <1>2. ASSUME NEW t \in Threads, req' = req,
               NEW l \in Labels \ {"alloc", "fill"}, pc' = [pc EXCEPT ![t] = l]
        PROVE  ReqInv'
    BY <1>0, <1>2 DEF TypeOK, ReqInv
  <1>3. ASSUME NEW t \in Threads,
               FillDone(t) \/ Link(t) \/ FreeFind(t) \/ Unlink(t) \/ FreeLock(t) \/ DrainDone(t)
               \/ ReleaseCall(t) \/ ReleaseNext(t) \/ MmapCall(t) \/ MmapLock(t) \/ MmapFind(t) \/ Remap(t)
        PROVE  ReqInv'
    <2>1. req' = req
      BY <1>3 DEF FillDone, Link, FreeFind, Unlink, FreeLock, DrainDone, ReleaseCall,
         ReleaseNext, MmapCall, MmapLock, MmapFind, Remap
    <2>2. \E l \in Labels \ {"alloc", "fill"} : pc' = [pc EXCEPT ![t] = l]
      BY <1>3 DEF FillDone, Link, FreeFind, Unlink, FreeLock, DrainDone, ReleaseCall,
         ReleaseNext, MmapCall, MmapLock, MmapFind, Remap, Goto, Labels
    <2> QED  BY <1>2, <2>1, <2>2
  <1>4. ASSUME NEW t \in Threads, Fill(t) \/ Drain(t) PROVE ReqInv'
    BY <1>0, <1>4 DEF Fill, Drain, ReqInv
  <1>5. CASE UNCHANGED vars \/ \E f \in Files : contig_open(f)
    BY <1>0, <1>5 DEF vars, contig_open, ReqInv
  <1> QED  BY <1>1, <1>3, <1>4, <1>5 DEF Next, InCall

\* Only the thread that found a descriptor takes it off the list of its file.
LEMMA StepHeldInv ==
    ASSUME ConstantsAssumption, PrivateFiles, IInv, [Next]_vars
    PROVE  HeldInv'
  <1>0. TypeOK /\ HeldInv /\ FileOf \in [Threads -> Files]
    BY DEF IInv, TypeInv, ConstantsAssumption
  <1> USE DEF HeldInv
  <1>1. ASSUME NEW t \in Threads,
               cur'[t] \in file_list'[FileOf[t]] \/ pc'[t] \notin {"unlink", "remap"},
               \A u \in Threads \ {t} : pc'[u] = pc[u] /\ cur'[u] = cur[u],
               \A f \in Files : f # FileOf[t] => file_list'[f] = file_list[f]
        PROVE  HeldInv'
    BY <1>0, <1>1 DEF PrivateFiles
  <1>2. ASSUME NEW t \in Threads,
               AllocCall(t) \/ AllocRefused(t) \/ AllocLock(t) \/ FillDone(t) \/ CopyOut(t)
               \/ FreeLock(t) \/ DrainDone(t) \/ MmapCall(t) \/ MmapLock(t) \/ Remap(t) \/ ReleaseCall(t)
        PROVE  HeldInv'
    <2>1. file_list' = file_list
      BY <1>2 DEF AllocCall, AllocRefused, AllocLock, FillDone, CopyOut, FreeLock,
         DrainDone, MmapCall, MmapLock, Remap, ReleaseCall, files
    <2>2. \A u \in Threads \ {t} : pc'[u] = pc[u] /\ cur'[u] = cur[u]
      BY <1>0, <1>2 DEF AllocCall, AllocRefused, AllocLock, FillDone, CopyOut, FreeLock,
         DrainDone, MmapCall, MmapLock, Remap, ReleaseCall, Goto, TypeOK
    <2>3. pc'[t] \notin {"unlink", "remap"}
      BY <1>0, <1>2 DEF AllocCall, AllocRefused, AllocLock, FillDone, CopyOut, FreeLock,
         DrainDone, MmapCall, MmapLock, Remap, ReleaseCall, Goto, TypeOK
    <2> QED  BY <1>1, <2>1, <2>2, <2>3
  <1>3. ASSUME NEW t \in Threads, FreeFind(t) \/ MmapFind(t)
        PROVE  HeldInv'
    BY <1>0, <1>3 DEF FreeFind, MmapFind, Goto, TypeOK, files
  <1>4. ASSUME NEW t \in Threads, Link(t) \/ Unlink(t) \/ ReleaseNext(t)
        PROVE  HeldInv'
    <2>1. \A u \in Threads \ {t} : pc'[u] = pc[u] /\ cur'[u] = cur[u]
      BY <1>0, <1>4 DEF Link, Unlink, ReleaseNext, Goto, TypeOK
    <2>2. pc'[t] \notin {"unlink", "remap"}
      BY <1>0, <1>4 DEF Link, Unlink, ReleaseNext, Goto, TypeOK
    <2>3. \A f \in Files : f # FileOf[t] => file_list'[f] = file_list[f]
      BY <1>0, <1>4 DEF Link, Unlink, ReleaseNext, TypeOK
    <2> QED  BY <1>1, <2>1, <2>2, <2>3
  <1>5. ASSUME NEW t \in Threads, Fill(t) \/ Drain(t)
        PROVE  HeldInv'
    BY <1>0, <1>5 DEF Fill, Drain, files
  <1>6. CASE UNCHANGED vars \/ \E f \in Files : contig_open(f)
    BY <1>0, <1>6 DEF vars, contig_open, files
  <1> QED  BY <1>2, <1>3, <1>4, <1>5, <1>6 DEF Next, InCall

\* The loops start and end with fresh locals.
LEMMA StepDeallocInv ==
    ASSUME ConstantsAssumption, IInv, [Next]_vars
    PROVE  DeallocInv'
  <1>0. TypeOK /\ DeallocInv
    BY DEF IInv, TypeInv
  <1> USE DEF DeallocInv
  <1>1. ASSUME NEW t \in Threads, AllocLock(t) \/ FillDone(t) \/ DrainDone(t) PROVE DeallocInv'
    BY <1>1 DEF AllocLock, FillDone, DrainDone, LoopInit
  <1>2. ASSUME NEW t \in Threads,
               AllocCall(t) \/ AllocRefused(t) \/ CopyOut(t) \/ Link(t) \/ FreeFind(t) \/ Unlink(t)
               \/ FreeLock(t) \/ ReleaseCall(t) \/ ReleaseNext(t) \/ MmapCall(t) \/ MmapLock(t)
               \/ MmapFind(t) \/ Remap(t)
        PROVE  DeallocInv'
    <2>1. deallocated' = deallocated /\ pc[t] # "drain"
      BY <1>2 DEF AllocCall, AllocRefused, CopyOut, Link, FreeFind, Unlink, FreeLock,
         ReleaseCall, ReleaseNext, MmapCall, MmapLock, MmapFind, Remap, loop, At
    <2>2. \A u \in Threads \ {t} : pc'[u] = pc[u]
      BY <1>0, <1>2 DEF AllocCall, AllocRefused, CopyOut, Link, FreeFind, Unlink, FreeLock,
         ReleaseCall, ReleaseNext, MmapCall, MmapLock, MmapFind, Remap, Goto, TypeOK
    <2> QED  BY <1>0, <2>1, <2>2
  <1>3. ASSUME NEW t \in Threads, Fill(t) PROVE DeallocInv'
    BY <1>0, <1>3 DEF Fill
  <1>4. ASSUME NEW t \in Threads, Drain(t) PROVE DeallocInv'
    BY <1>4 DEF Drain, At
  <1>5. CASE UNCHANGED vars \/ \E f \in Files : contig_open(f)
    BY <1>0, <1>5 DEF vars, contig_open, loop
  <1> QED  BY <1>1, <1>2, <1>3, <1>4, <1>5 DEF Next, InCall

\* The steps of a thread that works on no descriptor of its own.
Aside(t) ==
    \/ AllocCall(t) \/ AllocRefused(t) \/ CopyOut(t) \/ Link(t) \/ FreeFind(t) \/ Unlink(t)
    \/ ReleaseCall(t) \/ ReleaseNext(t) \/ MmapCall(t) \/ MmapLock(t) \/ MmapFind(t) \/ Remap(t)

\* Such a step leaves the free lists, the counters and the descriptors alone.
LEMMA AsideFacts ==
    ASSUME TypeOK, NEW t \in Threads, Aside(t)
    PROVE  /\ UNCHANGED <<inactive_chunks, mem_allocated, alloc_list, desc_n, live, loop>>
           /\ pc[t] \notin {"fill", "drain"} /\ pc'[t] \notin {"fill", "drain"}
           /\ \A u \in Threads \ {t} : pc'[u] = pc[u] /\ cur'[u] = cur[u] /\ req'[u] = req[u]
  <1>1. UNCHANGED <<inactive_chunks, mem_allocated, alloc_list, desc_n, live, loop>>
    BY DEF Aside, AllocCall, AllocRefused, CopyOut, Link, FreeFind, Unlink, ReleaseCall,
       ReleaseNext, MmapCall, MmapLock, MmapFind, Remap, memory, desc
  <1>2. pc[t] \notin {"fill", "drain"}
    BY DEF Aside, AllocCall, AllocRefused, CopyOut, Link, FreeFind, Unlink, ReleaseCall,
       ReleaseNext, MmapCall, MmapLock, MmapFind, Remap, At
  <1>3. pc'[t] \notin {"fill", "drain"}
    BY DEF Aside, AllocCall, AllocRefused, CopyOut, Link, FreeFind, Unlink, ReleaseCall,
       ReleaseNext, MmapCall, MmapLock, MmapFind, Remap, Goto, TypeOK
  <1>4. \A u \in Threads \ {t} : pc'[u] = pc[u] /\ cur'[u] = cur[u] /\ req'[u] = req[u]
    BY DEF Aside, AllocCall, AllocRefused, CopyOut, Link, FreeFind, Unlink, ReleaseCall,
       ReleaseNext, MmapCall, MmapLock, MmapFind, Remap, Goto, TypeOK
  <1> QED  BY <1>1, <1>2, <1>3, <1>4

\* Next, as the proofs below split it.
LEMMA NextCases ==
    ASSUME [Next]_vars
    PROVE  \/ \E t \in Threads : AllocLock(t) \/ Fill(t) \/ FillDone(t) \/ FreeLock(t)
                                 \/ Drain(t) \/ DrainDone(t) \/ Aside(t)
           \/ UNCHANGED vars
           \/ \E f \in Files : contig_open(f)
  BY DEF Next, InCall, Aside

\* What AllocLock does: the buffer gets a descriptor nobody has, and there is
\* memory for it.
LEMMA AllocLockFacts ==
    ASSUME ConstantsAssumption, IInv, NEW t \in Threads, AllocLock(t)
    PROVE  \E d \in Descs \ live :
             /\ live' = live \cup {d} /\ cur' = [cur EXCEPT ![t] = d]
             /\ desc_n' = [desc_n EXCEPT ![d] = NChunks(req[t].size)]
             /\ alloc_list' = [alloc_list EXCEPT ![d] = <<>>]
             /\ pc' = [pc EXCEPT ![t] = "fill"] /\ pc[t] = "alloc" /\ contig_lock = NoThread
             /\ \A u \in Threads : pc[u] \notin {"fill", "drain"}
             /\ NChunks(req[t].size) \in Nat
             /\ NChunks(req[t].size) <= Room(0) + Room(1)
             /\ NChunks(req[t].size) <= mem_size[0] + mem_size[1]
             /\ chunk_index' = 0 /\ ddr_node' = FirstNode(req[t])
             /\ UNCHANGED <<inactive_chunks, mem_allocated, req>>
  <1>1. req[t] \in Request /\ req[t].size \in Nat /\ TypeOK /\ OneHome /\ SumInv
    BY DEF IInv, TypeInv, TypeOK, Request
  <1>2. /\ Room(0) \in Nat /\ Room(1) \in Nat /\ Room(0) <= mem_size[0] /\ Room(1) <= mem_size[1]
        /\ mem_size[0] \in Nat /\ mem_size[1] \in Nat
    BY <1>1, RoomFacts, NodeFacts
  <1>3. req[t].size <= (Room(0) + Room(1)) * ChunkSize
    BY DEF AllocLock
  <1>4. NChunks(req[t].size) <= Room(0) + Room(1)
    <2>1. Room(0) + Room(1) \in Nat
      BY <1>2
    <2> QED  BY <1>1, <1>3, <2>1, NChunksBound
  <1>5. NChunks(req[t].size) \in Nat
    BY <1>1, NChunksType
  <1>6. NChunks(req[t].size) <= mem_size[0] + mem_size[1]
    BY <1>2, <1>4, <1>5
  <1>7. \A u \in Threads : pc[u] \notin {"fill", "drain"}
    BY DEF AllocLock, IInv, TypeInv, LockInv, ConstantsAssumption
  <1> QED  BY <1>4, <1>5, <1>6, <1>7 DEF AllocLock, LoopInit, Goto, At, memory

\* A buffer whose loop is over has all its chunks, and is no larger than the memory.
LEMMA StepSizeInv ==
    ASSUME ConstantsAssumption, NodesInRange, NoWrap, IInv, [Next]_vars
    PROVE  SizeInv'
  <1>0. TypeOK /\ SizeInv /\ OneOwner /\ LockInv /\ FillInv
    BY DEF IInv, TypeInv
  <1> USE DEF SizeInv
  <1>1. ASSUME NEW t \in Threads, AllocLock(t) PROVE SizeInv'
    <2>1. PICK d \in Descs \ live :
             /\ live' = live \cup {d} /\ cur' = [cur EXCEPT ![t] = d]
             /\ desc_n' = [desc_n EXCEPT ![d] = NChunks(req[t].size)]
             /\ alloc_list' = [alloc_list EXCEPT ![d] = <<>>]
             /\ pc' = [pc EXCEPT ![t] = "fill"]
             /\ \A u \in Threads : pc[u] \notin {"fill", "drain"}
             /\ NChunks(req[t].size) <= mem_size[0] + mem_size[1]
             /\ UNCHANGED <<inactive_chunks, mem_allocated, req>>
      BY <1>1, AllocLockFacts
    <2>2. pc'[t] = "fill" /\ cur'[t] = d
      BY <1>0, <2>1 DEF TypeOK
    <2>3. \A e \in live : e \in Descs /\ e # d
      BY <1>0, <2>1 DEF TypeOK
    <2> QED  BY <1>0, <2>1, <2>2, <2>3 DEF TypeOK
  <1>2. ASSUME NEW t \in Threads, Fill(t) \/ Drain(t) PROVE SizeInv'
    <2>1. /\ desc_n' = desc_n /\ live' = live /\ pc' = pc /\ cur' = cur
          /\ pc[t] \in {"fill", "drain"}
      BY <1>2 DEF Fill, Drain, At
    <2>2. \A d \in live : d # cur[t] => alloc_list'[d] = alloc_list[d]
      <3>1. \E q \in Seq(Chunks) : alloc_list' = [alloc_list EXCEPT ![cur[t]] = q]
        <4>1. CASE Fill(t)
          <5>1. PICK k \in Nodes : alloc_list' = [alloc_list EXCEPT ![cur[t]] = <<Head(inactive_chunks[k])>> \o @]
                                   /\ inactive_chunks[k] # <<>> /\ cur[t] \in live
            BY <4>1, FillFacts
          <5>2. Head(inactive_chunks[k]) \in Chunks /\ alloc_list[cur[t]] \in Seq(Chunks)
            BY <1>0, <5>1, HeadInRange DEF TypeOK
          <5>3. <<Head(inactive_chunks[k])>> \o alloc_list[cur[t]] \in Seq(Chunks)
            BY <5>2, PushFacts
          <5> QED  BY <5>1, <5>3
        <4>2. CASE Drain(t)
          <5>1. alloc_list' = [alloc_list EXCEPT ![cur[t]] = Tail(@)]
                /\ alloc_list[cur[t]] # <<>> /\ cur[t] \in live
            BY <4>2, DrainFacts
          <5>2. Tail(alloc_list[cur[t]]) \in Seq(Chunks)
            BY <1>0, <5>1, HeadTailProperties DEF TypeOK
          <5> QED  BY <5>1, <5>2
        <4> QED  BY <1>2, <4>1, <4>2
      <3> QED  BY <1>0, <3>1 DEF TypeOK
    <2> QED  BY <1>0, <2>1, <2>2
  <1>3. ASSUME NEW t \in Threads, FillDone(t) PROVE SizeInv'
    <2>1. /\ pc[t] = "fill" /\ chunk_index = desc_n[cur[t]]
          /\ UNCHANGED <<desc_n, alloc_list, live, cur>>
          /\ pc' = [pc EXCEPT ![t] = "copyout"]
      BY <1>3 DEF FillDone, At, Goto
    <2>2. Len(alloc_list[cur[t]]) = desc_n[cur[t]]
      BY <1>0, <2>1 DEF FillInv
    <2>3. \A u \in Threads : u # t => pc'[u] = pc[u]
      BY <1>0, <2>1 DEF TypeOK
    <2> QED  BY <1>0, <2>1, <2>2, <2>3
  <1>4. ASSUME NEW t \in Threads, FreeLock(t) PROVE SizeInv'
    <2>1. /\ pc[t] = "free"
          /\ UNCHANGED <<desc_n, alloc_list, live, cur>>
          /\ pc' = [pc EXCEPT ![t] = "drain"]
      BY <1>4 DEF FreeLock, At, Goto, desc
    <2>3. \A u \in Threads : u # t => pc'[u] = pc[u]
      BY <1>0, <2>1 DEF TypeOK
    <2> QED  BY <1>0, <2>1, <2>3
  <1>5. ASSUME NEW t \in Threads, DrainDone(t) PROVE SizeInv'
    <2>1. /\ pc[t] = "drain" /\ live' = live \ {cur[t]}
          /\ desc_n' = [desc_n EXCEPT ![cur[t]] = 0]
          /\ UNCHANGED alloc_list
          /\ \A u \in Threads : u # t => pc'[u] = pc[u] /\ cur'[u] = cur[u]
      BY <1>0, <1>5 DEF DrainDone, At, Goto, TypeOK
    <2>2. \A d \in live' : d \in live /\ d # cur[t] /\ desc_n'[d] = desc_n[d]
      BY <1>0, <2>1 DEF TypeOK
    <2> QED  BY <1>0, <2>1, <2>2
  <1>6. ASSUME NEW t \in Threads, Aside(t) PROVE SizeInv'
    BY <1>0, <1>6, AsideFacts
  <1>7. CASE UNCHANGED vars \/ \E f \in Files : contig_open(f)
    BY <1>0, <1>7 DEF vars, contig_open, desc
  <1> QED  BY <1>1, <1>2, <1>3, <1>4, <1>5, <1>6, <1>7, NextCases

\* The loop that fills a buffer keeps what it counts on; the lock keeps everybody
\* else away from the counters.
LEMMA StepFillInv ==
    ASSUME ConstantsAssumption, NodesInRange, NoWrap, IInv, [Next]_vars
    PROVE  FillInv'
  <1>0. TypeOK /\ LockInv /\ FillInv /\ CurInv /\ SumInv /\ OneHome
    BY DEF IInv, TypeInv
  <1> DEFINE FillOf(u) ==
        /\ chunk_index = Len(alloc_list[cur[u]])
        /\ chunk_index <= desc_n[cur[u]]
        /\ desc_n[cur[u]] - chunk_index <= Room(0) + Room(1)
        /\ ddr_node \in Nodes
        /\ req[u].policy = "preferred" /\ ddr_node # req[u].ddr_node => Full(req[u].ddr_node)
        /\ req[u].policy = "least_loaded" => desc_n[cur[u]] - chunk_index <= Room(ddr_node)
  <1>1. ASSUME NEW t \in Threads, AllocLock(t) PROVE FillInv'
    <2>1. PICK d \in Descs \ live :
             /\ cur' = [cur EXCEPT ![t] = d]
             /\ desc_n' = [desc_n EXCEPT ![d] = NChunks(req[t].size)]
             /\ alloc_list' = [alloc_list EXCEPT ![d] = <<>>]
             /\ pc' = [pc EXCEPT ![t] = "fill"] /\ pc[t] = "alloc"
             /\ \A u \in Threads : pc[u] \notin {"fill", "drain"}
             /\ NChunks(req[t].size) \in Nat
             /\ NChunks(req[t].size) <= Room(0) + Room(1)
             /\ chunk_index' = 0 /\ ddr_node' = FirstNode(req[t])
             /\ UNCHANGED <<inactive_chunks, mem_allocated, req>>
      BY <1>1, AllocLockFacts
    <2> DEFINE n == NChunks(req[t].size)
    <2>2. \A u \in Threads : pc'[u] = "fill" <=> u = t
      BY <1>0, <2>1 DEF TypeOK
    <2>3. cur'[t] = d /\ desc_n'[d] = n /\ alloc_list'[d] = <<>> /\ req' = req
      BY <1>0, <2>1 DEF TypeOK
    <2>4. \A k \in Nodes : Room(k)' = Room(k) /\ (Full(k)' <=> Full(k))
      BY <2>1 DEF Room, Full
    <2>5. req[t] \in Requests /\ req[t].policy \in Policies
      BY <2>1 DEF IInv, ReqInv, ConstantsAssumption, Request
    <2>6. req[t].policy = "preferred" => ddr_node' = req[t].ddr_node /\ ddr_node' \in Nodes
      BY <2>1, <2>5 DEF FirstNode, NodesInRange
    <2>7. req[t].policy # "preferred" => ddr_node' \in Nodes
      BY <2>1, <2>5, NodeFacts DEF FirstNode, Policies, get_least_loaded_ddr_node
    <2>8. \A k \in Nodes : Room(k) \in Nat
      BY <1>0, RoomFacts
    <2>9. req[t].policy = "least_loaded" => n <= Room(ddr_node')
      <3> SUFFICES ASSUME req[t].policy = "least_loaded" PROVE n <= Room(ddr_node')
        OBVIOUS
      <3>1. ddr_node' = get_least_loaded_ddr_node(n, req[t].threshold)
        BY <2>1 DEF FirstNode
      <3>2. Room(0) >= n \/ Room(1) >= n
        BY <1>1, NodeFacts DEF AllocLock, least_loaded_alloc_ok
      <3> HIDE DEF n
      <3>3. CASE ddr_node' = 1
        BY <3>1, <3>3 DEF get_least_loaded_ddr_node
      <3>4. CASE ddr_node' = 0
        BY <3>1, <3>2, <3>4 DEF get_least_loaded_ddr_node
      <3> QED  BY <2>7, <3>3, <3>4, NodeFacts
    <2>10. Len(<<>>) = 0 /\ 0 <= n /\ n - 0 = n
      BY <2>1
    <2>11. FillOf(t)'
      <3> HIDE DEF n
      <3>1. chunk_index' = Len(alloc_list'[cur'[t]]) /\ chunk_index' <= desc_n'[cur'[t]]
        BY <2>1, <2>3, <2>10
      <3>2. desc_n'[cur'[t]] - chunk_index' <= (Room(0) + Room(1))'
        BY <2>1, <2>3, <2>4, <2>10, NodeFacts DEF n
      <3>3. ddr_node' \in Nodes
        BY <2>6, <2>7
      <3>4. req'[t].policy = "least_loaded" => desc_n'[cur'[t]] - chunk_index' <= Room(ddr_node)'
        BY <2>1, <2>3, <2>4, <2>9, <2>10, <3>3 DEF Room
      <3>5. req'[t].policy = "preferred" => ddr_node' = req'[t].ddr_node
        BY <2>3, <2>6
      <3> QED  BY <3>1, <3>2, <3>3, <3>4, <3>5
    <2> QED  BY <2>2, <2>11 DEF FillInv
  <1>2. ASSUME NEW t \in Threads, Fill(t) PROVE FillInv'
    <2>1. PICK k \in Nodes :
             /\ k = NextNode(req[t])
             /\ inactive_chunks[k] # <<>>
             /\ pc[t] = "fill" /\ chunk_index < desc_n[cur[t]]
             /\ inactive_chunks' = [inactive_chunks EXCEPT ![k] = Tail(@)]
             /\ mem_allocated' = [mem_allocated EXCEPT ![k] = @ + 1]
             /\ alloc_list' = [alloc_list EXCEPT ![cur[t]] = <<Head(inactive_chunks[k])>> \o @]
             /\ chunk_index' = chunk_index + 1
             /\ ddr_node' = k
             /\ UNCHANGED <<desc_n, pc, req, cur>>
      BY <1>2, FillFacts
    <2> DEFINE d == cur[t]
               n == desc_n[d]
    <2>2. /\ d \in Descs /\ n \in Nat /\ chunk_index \in Nat /\ alloc_list[d] \in Seq(Chunks)
          /\ inactive_chunks[k] \in Seq(Chunks) /\ FillOf(t)
      BY <1>0, <2>1 DEF TypeOK, CurInv, FillInv
    <2>3. Len(alloc_list'[d]) = Len(alloc_list[d]) + 1
      <3>1. Head(inactive_chunks[k]) \in Chunks
        BY <2>1, <2>2, HeadInRange
      <3> QED  BY <1>0, <2>1, <2>2, <3>1, PushFacts DEF TypeOK
    <2>4. /\ \A m \in Nodes : Room(m) \in Nat /\ mem_allocated[m] \in Int /\ mem_size[m] \in Int
          /\ Room(k)' = Room(k) - 1
          /\ \A m \in Nodes : m # k => Room(m)' = Room(m) /\ (Full(m)' <=> Full(m))
      <3>1. \A m \in Nodes : Room(m) \in Nat /\ mem_allocated[m] \in Int /\ mem_size[m] \in Int
        BY <1>0, RoomFacts
      <3>2. mem_allocated'[k] = mem_allocated[k] + 1
            /\ \A m \in Nodes : m # k => mem_allocated'[m] = mem_allocated[m]
        BY <1>0, <2>1 DEF TypeOK
      <3> QED  BY <3>1, <3>2 DEF Room, Full
    <2>5. /\ req[t].policy = "preferred" /\ k # req[t].ddr_node => Full(req[t].ddr_node)
          /\ req[t].policy = "least_loaded" => k = ddr_node
      BY <2>1, NextNodeFacts
    <2>6. req[t].policy = "preferred" => req[t].ddr_node \in Nodes
      BY <2>1 DEF IInv, ReqInv, NodesInRange
    <2>7. FillOf(t)'
      <3>1. chunk_index' = Len(alloc_list'[d]) /\ chunk_index' <= n
        BY <2>1, <2>2, <2>3
      <3>2. Room(0) \in Nat /\ Room(1) \in Nat /\ (Room(0) + Room(1))' = Room(0) + Room(1) - 1
        <4>1. CASE k = 0
          BY <2>4, <4>1, NodeFacts
        <4>2. CASE k = 1
          BY <2>4, <4>2, NodeFacts
        <4> QED  BY <4>1, <4>2, NodeFacts
      <3>3. n - chunk_index' <= (Room(0) + Room(1))'
        BY <2>1, <2>2, <3>2
      <3>4. req[t].policy = "least_loaded" => n - chunk_index' <= Room(k)'
        BY <2>1, <2>2, <2>4, <2>5
      <3>5. req[t].policy = "preferred" /\ k # req[t].ddr_node => Full(req[t].ddr_node)'
        <4>1. SUFFICES ASSUME req[t].policy = "preferred", k # req[t].ddr_node
                       PROVE  Full(req[t].ddr_node)'
          OBVIOUS
        <4>2. Full(req[t].ddr_node) /\ req[t].ddr_node \in Nodes /\ req' = req
          BY <2>1, <2>5, <2>6, <4>1
        <4>3. mem_allocated'[req[t].ddr_node] = mem_allocated[req[t].ddr_node]
          BY <1>0, <2>1, <4>1, <4>2 DEF TypeOK
        <4> QED  BY <4>2, <4>3 DEF Full
      <3> QED  BY <2>1, <3>1, <3>3, <3>4, <3>5 DEF Room
    <2>8. \A u \in Threads : pc'[u] = "fill" => u = t
      BY <1>0, <2>1 DEF LockInv
    <2> QED  BY <2>7, <2>8 DEF FillInv
  <1>3. ASSUME NEW t \in Threads, FillDone(t) \/ DrainDone(t) \/ FreeLock(t) \/ Drain(t)
        PROVE  \A u \in Threads : pc'[u] # "fill"
    <2>1. CASE FillDone(t)
      BY <1>0, <2>1 DEF FillDone, At, Goto, TypeOK, LockInv
    <2>2. CASE DrainDone(t)
      BY <1>0, <2>2 DEF DrainDone, At, Goto, TypeOK, LockInv
    <2>3. CASE FreeLock(t)
      BY <1>0, <2>3 DEF FreeLock, At, Goto, TypeOK, LockInv, ConstantsAssumption
    <2>4. CASE Drain(t)
      BY <1>0, <2>4 DEF Drain, At, LockInv
    <2> QED  BY <1>3, <2>1, <2>2, <2>3, <2>4
  <1>4. ASSUME NEW t \in Threads, Aside(t) PROVE FillInv'
    <2>1. /\ UNCHANGED <<mem_allocated, alloc_list, desc_n, chunk_index, ddr_node>>
          /\ pc'[t] # "fill"
          /\ \A u \in Threads \ {t} : pc'[u] = pc[u] /\ cur'[u] = cur[u] /\ req'[u] = req[u]
      BY <1>0, <1>4, AsideFacts DEF loop, fill
    <2> QED  BY <1>0, <2>1 DEF FillInv, Room, Full
  <1>5. CASE UNCHANGED vars \/ \E f \in Files : contig_open(f)
    BY <1>0, <1>5 DEF vars, contig_open, memory, desc, loop, fill, FillInv, Room, Full
  <1>6. (\A u \in Threads : pc'[u] # "fill") => FillInv'
    BY DEF FillInv
  <1> QED  BY <1>1, <1>2, <1>3, <1>4, <1>5, <1>6, NextCases

\* A chunk leaves the buffer for every one that is counted.
LEMMA StepDrainInv ==
    ASSUME ConstantsAssumption, NodesInRange, NoWrap, IInv, [Next]_vars
    PROVE  DrainInv'
  <1>0. TypeOK /\ LockInv /\ DrainInv /\ SizeInv /\ DeallocInv /\ OneOwner
    BY DEF IInv, TypeInv
  <1> USE DEF DrainInv
  <1>1. ASSUME NEW t \in Threads, Drain(t) PROVE DrainInv'
    <2>1. PICK ch \in Chunks :
             /\ pc[t] = "drain" /\ cur[t] \in live /\ alloc_list[cur[t]] # <<>>
             /\ alloc_list' = [alloc_list EXCEPT ![cur[t]] = Tail(@)]
             /\ deallocated' = deallocated + 1
             /\ UNCHANGED <<desc_n, pc, cur>>
      BY <1>1, DrainFacts
    <2>2. /\ alloc_list[cur[t]] \in Seq(Chunks) /\ deallocated \in Nat /\ desc_n[cur[t]] \in Nat
          /\ cur[t] \in Descs
      BY <1>0, <2>1 DEF TypeOK
    <2>3. /\ alloc_list'[cur[t]] = Tail(alloc_list[cur[t]])
          /\ Len(Tail(alloc_list[cur[t]])) = Len(alloc_list[cur[t]]) - 1
          /\ Len(alloc_list[cur[t]]) \in Nat
      BY <1>0, <2>1, <2>2, HeadTailProperties DEF TypeOK
    <2>4. deallocated' + Len(alloc_list'[cur[t]]) = desc_n'[cur'[t]]
      <3>1. deallocated + Len(alloc_list[cur[t]]) = desc_n[cur[t]]
        BY <1>0, <2>1
      <3>2. PICK left \in Nat : left = Len(alloc_list[cur[t]])
        BY <2>3
      <3>3. PICK n \in Nat : n = desc_n[cur[t]]
        BY <2>2
      <3>4. deallocated \in Nat /\ deallocated + left = n
        BY <2>2, <3>1, <3>2, <3>3
      <3>5. (deallocated + 1) + (left - 1) = n
        BY ONLY <3>4, left \in Nat, n \in Nat
      <3>6. (deallocated + 1) + (Len(alloc_list[cur[t]]) - 1) = desc_n[cur[t]]
        BY <3>2, <3>3, <3>5
      <3>7. desc_n'[cur'[t]] = desc_n[cur[t]] /\ deallocated' = deallocated + 1
        BY <2>1
      <3>8. Len(alloc_list'[cur[t]]) = Len(alloc_list[cur[t]]) - 1
        BY <2>3
      <3> QED  BY <3>6, <3>7, <3>8
    <2>5. \A u \in Threads : pc'[u] = "drain" => u = t
      BY <1>0, <2>1 DEF LockInv
    <2> QED  BY <2>1, <2>4, <2>5
  <1>2. ASSUME NEW t \in Threads, FreeLock(t) PROVE DrainInv'
    <2>1. /\ pc[t] = "free" /\ contig_lock = NoThread /\ pc' = [pc EXCEPT ![t] = "drain"]
          /\ UNCHANGED <<desc_n, alloc_list, cur, deallocated>>
      BY <1>2 DEF FreeLock, At, Goto, desc, loop
    <2>2. \A u \in Threads : pc[u] \notin {"fill", "drain"}
      BY <2>1, <1>0 DEF LockInv, ConstantsAssumption
    <2>3. cur[t] \in live /\ \A u \in Threads : pc[u] \in {"fill", "drain"} => cur[u] # cur[t]
      BY <1>0, <2>1, <2>2 DEF OneOwner, InHand
    <2>4. Len(alloc_list[cur[t]]) = desc_n[cur[t]]
      BY <1>0, <2>3 DEF SizeInv
    <2>5. deallocated = 0 /\ Len(alloc_list[cur[t]]) \in Nat
      BY <1>0, <2>2, <2>3 DEF DeallocInv, TypeOK
    <2>6. \A u \in Threads : pc'[u] = "drain" => u = t
      BY <1>0, <2>1, <2>2 DEF TypeOK
    <2> QED  BY <2>1, <2>4, <2>5, <2>6
  <1>3. ASSUME NEW t \in Threads, AllocLock(t) \/ Fill(t) \/ FillDone(t) \/ DrainDone(t)
        PROVE  \A u \in Threads : pc'[u] # "drain"
    <2>1. CASE AllocLock(t)
      BY <1>0, <2>1 DEF AllocLock, At, Goto, TypeOK, LockInv, ConstantsAssumption
    <2>2. CASE Fill(t)
      BY <1>0, <2>2 DEF Fill, At, LockInv
    <2>3. CASE FillDone(t)
      BY <1>0, <2>3 DEF FillDone, At, Goto, TypeOK, LockInv
    <2>4. CASE DrainDone(t)
      BY <1>0, <2>4 DEF DrainDone, At, Goto, TypeOK, LockInv
    <2> QED  BY <1>3, <2>1, <2>2, <2>3, <2>4
  <1>4. ASSUME NEW t \in Threads, Aside(t) PROVE DrainInv'
    <2>1. /\ UNCHANGED <<alloc_list, desc_n, deallocated>>
          /\ pc'[t] # "drain"
          /\ \A u \in Threads \ {t} : pc'[u] = pc[u] /\ cur'[u] = cur[u]
      BY <1>0, <1>4, AsideFacts DEF loop
    <2> QED  BY <1>0, <2>1
  <1>5. CASE UNCHANGED vars \/ \E f \in Files : contig_open(f)
    BY <1>0, <1>5 DEF vars, contig_open, desc, loop
  <1> QED  BY <1>1, <1>2, <1>3, <1>4, <1>5, NextCases

\* No BUG_ON fires and no descriptor is used after it was freed.
LEMMA StepNoOops ==
    ASSUME ConstantsAssumption, NodesInRange, NoWrap, IInv, [Next]_vars
    PROVE  NoOops'
  <1>0. TypeOK /\ NoOops /\ OneOwner /\ HeldInv /\ DrainInv
    BY DEF IInv, TypeInv
  <1> USE DEF NoOops
  <1>1. ASSUME NEW t \in Threads, AllocLock(t) PROVE NoOops'
    <2>1. /\ NChunks(req[t].size) <= Room(0) + Room(1) /\ NChunks(req[t].size) \in Nat
      BY <1>1, AllocLockFacts
    <2>2. Room(0) \in Int /\ Room(1) \in Int
      BY <1>0, RoomFacts, NodeFacts DEF IInv
    <2>3. ~(NChunks(req[t].size) > Room(0) + Room(1))
      BY <2>1, <2>2
    <2>4. oops' = (NChunks(req[t].size) > Room(0) + Room(1))
      BY <1>1 DEF AllocLock
    <2> QED  BY <2>3, <2>4
  <1>2. ASSUME NEW t \in Threads, Fill(t) PROVE NoOops'
    BY <1>0, <1>2, FillFacts
  <1>3. ASSUME NEW t \in Threads, FreeLock(t) PROVE NoOops'
    BY <1>0, <1>3 DEF FreeLock, At, OneOwner, InHand
  <1>4. ASSUME NEW t \in Threads, DrainDone(t) PROVE NoOops'
    <2>1. pc[t] = "drain" /\ alloc_list[cur[t]] = <<>> /\ oops' = (deallocated # desc_n[cur[t]])
      BY <1>4 DEF DrainDone, At
    <2>2. deallocated + Len(alloc_list[cur[t]]) = desc_n[cur[t]] /\ deallocated \in Nat
      BY <1>0, <2>1 DEF DrainInv, TypeOK
    <2>3. desc_n[cur[t]] \in Nat /\ Len(alloc_list[cur[t]]) = 0
      BY <1>0, <1>4, <2>1, EmptySeq DEF TypeOK, CurInv, IInv, TypeInv
    <2>4. ~(deallocated # desc_n[cur[t]])
      BY <2>2, <2>3
    <2> QED  BY <2>1, <2>4
  <1>5. ASSUME NEW t \in Threads, Unlink(t) PROVE NoOops'
    BY <1>0, <1>5 DEF Unlink, At, HeldInv
  <1>6. ASSUME NEW t \in Threads, Remap(t) PROVE NoOops'
    <2>1. cur[t] \in file_list[FileOf[t]] /\ FileOf[t] \in Files
      BY <1>0, <1>6 DEF Remap, At, HeldInv, ConstantsAssumption
    <2> QED  BY <1>0, <1>6, <2>1 DEF Remap, OneOwner
  <1>7. CASE UNCHANGED oops
    BY <1>0, <1>7
  <1> QED
    BY <1>1, <1>2, <1>3, <1>4, <1>5, <1>6, <1>7 DEF Next, InCall, vars, contig_open,
       AllocCall, AllocRefused, FillDone, CopyOut, Link, FreeFind, Drain, ReleaseCall,
       ReleaseNext, MmapCall, MmapLock, MmapFind

\* Once probed, every chunk is on the free list of its controller.
LEMMA InitIInv == ASSUME ConstantsAssumption PROVE Init => IInv
  <1> SUFFICES ASSUME Init PROVE IInv
    OBVIOUS
  <1>1. TypeInv
    BY InitTypeInv
  <1>2. \A k \in Nodes : /\ mem_size[k] \in Nat
                         /\ inactive_chunks[k] = [j \in 1 .. mem_size[k] |-> <<k, j>>]
    BY DEF Init, ConstantsAssumption
  <1>3. OneHome
    <2>1. \A k \in Nodes : /\ IsInjective(inactive_chunks[k])
                           /\ Range(inactive_chunks[k]) = {k} \X (1 .. mem_size[k])
      <3> SUFFICES ASSUME NEW k \in Nodes
                   PROVE  /\ IsInjective(inactive_chunks[k])
                          /\ Range(inactive_chunks[k]) = {k} \X (1 .. mem_size[k])
        OBVIOUS
      <3>1. /\ DOMAIN inactive_chunks[k] = 1 .. mem_size[k]
            /\ \A j \in 1 .. mem_size[k] : inactive_chunks[k][j] = <<k, j>>
        BY <1>2
      <3>2. IsInjective(inactive_chunks[k])
        BY <3>1 DEF IsInjective
      <3>3. Range(inactive_chunks[k]) = {<<k, j>> : j \in 1 .. mem_size[k]}
        BY <3>1 DEF Range
      <3>4. {<<k, j>> : j \in 1 .. mem_size[k]} = {k} \X (1 .. mem_size[k])
        OBVIOUS
      <3> QED  BY <3>2, <3>3, <3>4
    <2>2. \A d \in Descs : alloc_list[d] = <<>>
      BY DEF Init
    <2>3. IsInjective(<<>>) /\ Range(<<>>) = {}
      BY DEF IsInjective, Range
    <2>4. \A ch \in Chunks : ch \in Range(inactive_chunks[ch[1]])
      BY <2>1, NodeFacts
    <2> QED  BY <2>1, <2>2, <2>3, <2>4 DEF OneHome
  <1>4. SumInv
    <2> SUFFICES ASSUME NEW k \in Nodes PROVE mem_allocated[k] + Len(inactive_chunks[k]) = mem_size[k]
      BY DEF SumInv
    <2>1. Len(inactive_chunks[k]) = mem_size[k]
      <3>1. DOMAIN inactive_chunks[k] = 1 .. mem_size[k] /\ mem_size[k] \in Nat
        BY <1>2
      <3>2. inactive_chunks[k] \in Seq(Chunks)
        BY <1>1 DEF TypeInv, TypeOK
      <3>3. DOMAIN inactive_chunks[k] = 1 .. Len(inactive_chunks[k]) /\ Len(inactive_chunks[k]) \in Nat
        BY <3>2, LenProperties
      <3> QED  BY <3>1, <3>3
    <2> QED  BY <1>2, <2>1 DEF Init
  <1>5. OneOwner
    BY DEF Init, OneOwner, InHand
  <1>6. /\ ReqInv /\ HeldInv /\ DeallocInv /\ SizeInv /\ FillInv /\ DrainInv /\ NoOops
    BY DEF Init, ReqInv, HeldInv, DeallocInv, SizeInv, FillInv, DrainInv, NoOops
  <1> QED  BY <1>1, <1>3, <1>4, <1>5, <1>6 DEF IInv

\* The assumptions under which the allocator keeps its promises.
Assumptions == PrivateFiles /\ NodesInRange /\ NoWrap

\* Every step keeps every part of the invariant.
LEMMA NextIInv ==
    ASSUME ConstantsAssumption, Assumptions, IInv, [Next]_vars
    PROVE  IInv'
  <1>1. TypeInv'
    BY NextTypeInv DEF IInv
  <1> QED
    BY <1>1, StepReqInv, StepOneHome, StepSumInv, StepOneOwner, StepHeldInv, StepDeallocInv,
       StepSizeInv, StepFillInv, StepDrainInv, StepNoOops DEF IInv, Assumptions

\* Under these assumptions the chunks stay where the allocator accounts for them:
\* each is on one list, the counters say how many, and every descriptor has the
\* chunks it was asked for.
THEOREM InvariantHolds == Assumptions => (Spec => []IInv)
  <1> SUFFICES ASSUME Assumptions PROVE Spec => []IInv
    OBVIOUS
  <1>1. Init => IInv
    BY InitIInv, ConstantsAssumption
  <1>2. IInv /\ [Next]_vars => IInv'
    BY NextIInv, ConstantsAssumption
  <1> QED  BY <1>1, <1>2, PTL DEF Spec

-----------------------------------------------------------------------------
(* What follows from the invariant                                         *)

\* No sequence of calls, by any number of processes, reaches a BUG_ON of the
\* allocator or touches a descriptor that was freed.
THEOREM NeverOops == Assumptions => (Spec => []NoOops)
  <1>1. IInv => NoOops
    BY DEF IInv
  <1> QED  BY <1>1, InvariantHolds, PTL

\* mem_allocated is exact and never underflows, so every policy decides from the
\* real state of the memory.
THEOREM AllocatedIsExact == Assumptions => (Spec => []CountersExact)
  <1>1. IInv => CountersExact
    BY ConstantsAssumption, RoomFacts DEF IInv, TypeInv, SumInv, CountersExact
  <1> QED  BY <1>1, InvariantHolds, PTL

\* Two buffers never share a chunk and no chunk is lost.
THEOREM ChunksHaveOneHome == Assumptions => (Spec => []OneHome)
  <1>1. IInv => OneHome
    BY DEF IInv
  <1> QED  BY <1>1, InvariantHolds, PTL

\* A live descriptor has exactly one owner, so a close or the call in progress
\* will free it.
THEOREM DescriptorsHaveOneOwner == Assumptions => (Spec => []OneOwner)
  <1>1. IInv => OneOwner
    BY DEF IInv
  <1> QED  BY <1>1, InvariantHolds, PTL

-----------------------------------------------------------------------------
(* The invariant of the policies                                           *)

\* The chunks of the buffer a call works on.
Held(t) == alloc_list[cur[t]]

\* The places of a list whose chunks lie behind a controller.
On(s, k) == {j \in 1 .. Len(s) : s[j][1] = k}

\* contig_alloc_ioctl refuses what is not a request before it takes the lock.
OkInv == \A t \in Threads : pc[t] \in {"alloc", "fill"} => contig_alloc_ok(req[t])

\* PREFERRED: a chunk elsewhere means that the controller named is full.
Preferred(t) ==
    \A j \in 1 .. Len(Held(t)) :
        Held(t)[j][1] # req[t].ddr_node => Full(req[t].ddr_node)

\* LEAST_LOADED: every chunk lies behind the controller chosen first (and that
\* one was chosen by the rule of the code, Chosen).
Together(t) == \A j \in 1 .. Len(Held(t)) : Held(t)[j][1] = ddr_node

\* BALANCED: cluster_chunk is the length of the run of chunks at the head of the
\* list, which passes cluster_size only when the other controller is full.
Clusters(t) ==
    LET s == Held(t)
        c == req[t].cluster_size
    IN  /\ cluster_chunk <= Len(s)
        /\ cluster_chunk = 0 => Len(s) = 0
        /\ \A j \in 1 .. cluster_chunk : s[j][1] = ddr_node
        /\ cluster_chunk < Len(s) => s[cluster_chunk + 1][1] # ddr_node
        /\ cluster_chunk > c => Full(Other(ddr_node))
        /\ \A j \in 1 .. Len(s) - c : \A k \in Nodes :
             (\A m \in j .. j + c : s[m][1] = k) => Full(Other(k))

\* n_per_node counts the chunks of the buffer behind each controller.
Counts(t) == \A k \in Nodes : n_per_node[k] = Cardinality(On(Held(t), k))

\* What is known of a buffer that is being filled.
Filling(t) ==
    /\ req[t].policy = "preferred" => Preferred(t)
    /\ req[t].policy = "least_loaded" => Together(t) /\ Chosen(t)
    /\ req[t].policy = "balanced" => Clusters(t)
    /\ Counts(t)

\* The controller a finished buffer reports has the most chunks.
Reported(t) ==
    LET m == most_allocated[cur[t]]
    IN  Cardinality(On(Held(t), m)) >= Cardinality(On(Held(t), Other(m)))

\* The invariant.
PolicyInv ==
    /\ OkInv
    /\ \A t \in Threads : /\ pc[t] = "fill" => Filling(t)
                          /\ pc[t] \in {"copyout", "link"} => Reported(t)

-----------------------------------------------------------------------------
(* Lists of chunks                                                         *)

\* An empty list has no chunk behind any controller.
LEMMA OnEmpty == ASSUME NEW k PROVE Cardinality(On(<<>>, k)) = 0
  <1>1. On(<<>>, k) = {}
    BY DEF On
  <1> QED  BY <1>1, FS_EmptySet

\* A chunk put in front of a list is counted for its controller.
LEMMA OnPush ==
    ASSUME NEW s \in Seq(Chunks), NEW ch \in Chunks, NEW k
    PROVE  /\ Cardinality(On(<<ch>> \o s, k)) =
                Cardinality(On(s, k)) + (IF ch[1] = k THEN 1 ELSE 0)
           /\ Cardinality(On(s, k)) \in Nat
  <1> DEFINE z == <<ch>> \o s
             M == {j \in 2 .. Len(s) + 1 : s[j - 1][1] = k}
             f == [j \in On(s, k) |-> j + 1]
  <1>1. Len(s) \in Nat /\ Len(z) = Len(s) + 1
    BY LenProperties
  <1>2. z[1] = ch /\ \A j \in 2 .. Len(s) + 1 : z[j] = s[j - 1]
    BY <1>1
  <1>3. IsFiniteSet(On(s, k)) /\ On(s, k) \subseteq 1 .. Len(s)
    <2>1. IsFiniteSet(1 .. Len(s))
      BY <1>1, FS_Interval
    <2>2. On(s, k) \subseteq 1 .. Len(s)
      BY DEF On
    <2> QED  BY <2>1, <2>2, FS_Subset
  <1> HIDE DEF z
  <1>4. f \in Bijection(On(s, k), M)
    <2>1. \A j \in On(s, k) : j + 1 \in M
      BY <1>1 DEF On
    <2>2. \A j \in M : j - 1 \in On(s, k) /\ f[j - 1] = j
      BY <1>1 DEF On
    <2>3. \A i, j \in On(s, k) : f[i] = f[j] => i = j
      BY <1>1 DEF On
    <2> QED  BY <2>1, <2>2, <2>3 DEF Bijection, Injection, Surjection, IsInjective
  <1>5. IsFiniteSet(M) /\ Cardinality(M) = Cardinality(On(s, k))
    BY <1>3, <1>4, FS_Bijection DEF ExistsBijection
  <1>6. On(z, k) = IF ch[1] = k THEN M \cup {1} ELSE M
    <2>1. \A j \in 1 .. Len(s) + 1 : j = 1 \/ j \in 2 .. Len(s) + 1
      BY <1>1
    <2> QED  BY <1>1, <1>2, <2>1 DEF On
  <1>7. 1 \notin M
    BY <1>1
  <1>8. Cardinality(On(z, k)) = Cardinality(M) + (IF ch[1] = k THEN 1 ELSE 0)
    <2>1. CASE ch[1] = k
      <3>1. Cardinality(M \cup {1}) = Cardinality(M) + 1
        BY <1>5, <1>7, FS_AddElement
      <3> QED  BY <1>6, <2>1, <3>1
    <2>2. CASE ch[1] # k
      <3>1. Cardinality(M) \in Nat
        BY <1>5, FS_CardinalityType
      <3> QED  BY <1>6, <2>2, <3>1
    <2> QED  BY <2>1, <2>2
  <1>9. Cardinality(On(s, k)) \in Nat
    BY <1>3, FS_CardinalityType
  <1> QED  BY <1>5, <1>8, <1>9 DEF z

-----------------------------------------------------------------------------
(* Each step keeps the invariant                                           *)

\* A thread that does not move, and whose buffer and request stay, keeps what it
\* knows when the loop's locals and the counters do not change.
LEMMA ThreadKept ==
    ASSUME NEW u \in Threads, pc'[u] = pc[u], cur'[u] = cur[u], req'[u] = req[u],
           alloc_list'[cur[u]] = alloc_list[cur[u]],
           pc[u] = "fill" => UNCHANGED <<mem_allocated, fill>> /\ desc_n'[cur[u]] = desc_n[cur[u]],
           pc[u] \in {"copyout", "link"} =>
              most_allocated'[cur[u]] = most_allocated[cur[u]],
           PolicyInv
    PROVE  /\ pc'[u] = "fill" => Filling(u)'
           /\ pc'[u] \in {"copyout", "link"} => Reported(u)'
  <1>1. Held(u)' = Held(u)
    BY DEF Held
  <1>2. ASSUME pc[u] = "fill" PROVE Filling(u)'
    <2>1. /\ Filling(u)
          /\ UNCHANGED <<mem_allocated, ddr_node, chunk_index, cluster_chunk, n_per_node>>
          /\ \A k : Full(k)' = Full(k)
      BY <1>2 DEF PolicyInv, fill, Full
    <2>2. Chosen(u)' = Chosen(u)
      BY <1>2, <2>1 DEF Chosen, HadRoom, Penalised, AllocatedBefore
    <2> QED  BY <1>1, <2>1, <2>2 DEF Filling, Preferred, Together, Clusters, Counts
  <1>3. ASSUME pc[u] \in {"copyout", "link"} PROVE Reported(u)'
    BY <1>1, <1>3 DEF PolicyInv, Reported
  <1> QED  BY <1>2, <1>3

\* What a request promises holds from the call to the end of the loop.
LEMMA StepOkInv ==
    ASSUME TypeOK, OkInv, [Next]_vars
    PROVE  OkInv'
  <1>1. ASSUME NEW t \in Threads, AllocCall(t) PROVE OkInv'
    <2>1. PICK r \in Requests : contig_alloc_ok(r) /\ req' = [req EXCEPT ![t] = r]
      BY <1>1 DEF AllocCall
    <2>2. pc' = [pc EXCEPT ![t] = "alloc"]
      BY <1>1 DEF AllocCall, Goto
    <2> QED  BY <2>1, <2>2 DEF OkInv, TypeOK, contig_alloc_ok
  <1>2. ASSUME NEW t \in Threads, AllocLock(t) PROVE OkInv'
    BY <1>2 DEF OkInv, TypeOK, AllocLock, Goto, At, contig_alloc_ok
  <1>3. ASSUME NEW t \in Threads,
               AllocRefused(t) \/ Fill(t) \/ FillDone(t) \/ CopyOut(t) \/ Link(t) \/ FreeFind(t)
               \/ Unlink(t) \/ FreeLock(t) \/ Drain(t) \/ DrainDone(t) \/ ReleaseCall(t)
               \/ ReleaseNext(t) \/ MmapCall(t) \/ MmapLock(t) \/ MmapFind(t) \/ Remap(t)
        PROVE  OkInv'
    <2>1. \A u \in Threads : pc'[u] \in {"alloc", "fill"} => pc[u] = pc'[u] /\ req'[u] = req[u]
      BY <1>3 DEF TypeOK, AllocRefused, Fill, FillDone, CopyOut, Link, FreeFind, Unlink,
         FreeLock, Drain, DrainDone, ReleaseCall, ReleaseNext, MmapCall, MmapLock, MmapFind,
         Remap, Goto, At
    <2> QED  BY <2>1 DEF OkInv, contig_alloc_ok
  <1>4. CASE UNCHANGED vars \/ \E f \in Files : contig_open(f)
    BY <1>4 DEF vars, contig_open, OkInv, contig_alloc_ok
  <1> QED  BY <1>1, <1>2, <1>3, <1>4 DEF Next, InCall

\* Threads with a descriptor in hand hold different ones, and one of them at most
\* is in a loop.
LEMMA Apart ==
    ASSUME IInv, NEW t \in Threads, NEW u \in Threads, u # t
    PROVE  /\ t \in InHand /\ u \in InHand => cur[t] # cur[u]
           /\ pc[t] \in {"fill", "drain"} => pc[u] \notin {"fill", "drain"}
  BY DEF IInv, OneOwner, InHand, TypeInv, LockInv

\* get_least_loaded_ddr_node picks a controller with room for the buffer, and DDR0
\* only when it pays the penalty or DDR1 has no room.
LEMMA ChosenFirst ==
    ASSUME ConstantsAssumption, IInv, NEW t \in Threads, AllocLock(t),
           req[t].policy = "least_loaded"
    PROVE  Chosen(t)'
  <1>0. TypeOK
    BY DEF IInv, TypeInv
  <1>1. PICK d \in Descs \ live :
          /\ cur' = [cur EXCEPT ![t] = d]
          /\ desc_n' = [desc_n EXCEPT ![d] = NChunks(req[t].size)]
          /\ NChunks(req[t].size) \in Nat
          /\ chunk_index' = 0 /\ ddr_node' = FirstNode(req[t])
          /\ UNCHANGED <<mem_allocated, req>>
    BY AllocLockFacts
  <1>2. PICK n \in Nat, th \in Nat :
          /\ n = NChunks(req[t].size) /\ th = req[t].threshold /\ th = req'[t].threshold
          /\ mem_size[0] \in Int /\ mem_size[1] \in Int
          /\ mem_allocated[0] \in Int /\ mem_allocated[1] \in Int
    <2>1. req[t].threshold \in Nat
      BY <1>0 DEF TypeOK, Request
    <2>2. /\ mem_size[0] \in Int /\ mem_size[1] \in Int
          /\ mem_allocated[0] \in Int /\ mem_allocated[1] \in Int
      BY <1>0, NodeFacts DEF TypeOK, ConstantsAssumption
    <2> QED  BY <1>1, <2>1, <2>2
  <1>3. desc_n'[cur'[t]] = n
    BY <1>0, <1>1, <1>2 DEF TypeOK
  <1>4. Room(0) >= n \/ Room(1) >= n
    BY <1>2, NodeFacts DEF AllocLock, least_loaded_alloc_ok
  <1>5. ddr_node' = get_least_loaded_ddr_node(n, th)
    BY <1>1, <1>2 DEF FirstNode
  <1>6. /\ AllocatedBefore(0)' = mem_allocated[0] /\ AllocatedBefore(1)' = mem_allocated[1]
    BY <1>1, <1>2 DEF AllocatedBefore
  <1>7. Penalised(t)' <=> mem_allocated[0] + th < mem_allocated[1]
    BY <1>2, <1>6 DEF Penalised
  <1>8. \A k \in {0, 1} : HadRoom(k, desc_n[cur[t]])' <=> Room(k) >= n
    BY <1>3, <1>6 DEF HadRoom, Room
  <1>9. \/ /\ ddr_node' = 1 /\ Room(1) >= n
           /\ ~(mem_allocated[0] + th < mem_allocated[1]) \/ ~(Room(0) >= n)
        \/ /\ ddr_node' = 0 /\ Room(0) >= n
           /\ mem_allocated[0] + th < mem_allocated[1] \/ ~(Room(1) >= n)
    BY <1>2, <1>4, <1>5 DEF get_least_loaded_ddr_node, Room
  <1>10. CASE ddr_node' = 1
    <2>1. HadRoom(ddr_node, desc_n[cur[t]])' /\ (~Penalised(t)' \/ ~HadRoom(0, desc_n[cur[t]])')
      BY <1>7, <1>8, <1>9, <1>10
    <2> QED  BY <1>10, <2>1 DEF Chosen
  <1>11. CASE ddr_node' = 0
    <2>1. HadRoom(ddr_node, desc_n[cur[t]])' /\ (Penalised(t)' \/ ~HadRoom(1, desc_n[cur[t]])')
      BY <1>7, <1>8, <1>9, <1>11
    <2> QED  BY <1>11, <2>1 DEF Chosen
  <1> QED  BY <1>9, <1>10, <1>11

\* A new buffer is empty, and its loop starts where the policy says.
LEMMA StepAllocLock ==
    ASSUME ConstantsAssumption, IInv, PolicyInv, NEW t \in Threads, AllocLock(t)
    PROVE  \A u \in Threads : /\ pc'[u] = "fill" => Filling(u)'
                              /\ pc'[u] \in {"copyout", "link"} => Reported(u)'
  <1>0. TypeOK /\ LockInv
    BY DEF IInv, TypeInv
  <1>1. PICK d \in Descs \ live :
          /\ alloc_list' = [alloc_list EXCEPT ![d] = <<>>] /\ cur' = [cur EXCEPT ![t] = d]
          /\ contig_lock = NoThread /\ pc' = [pc EXCEPT ![t] = "fill"]
          /\ ddr_node' = FirstNode(req[t]) /\ cluster_chunk' = 0
          /\ n_per_node' = [m \in Nodes |-> 0]
          /\ UNCHANGED <<req, most_allocated>>
    BY DEF AllocLock, LoopInit, Goto
  <1>2. Held(t)' = <<>>
    BY <1>0, <1>1 DEF Held, TypeOK
  <1>3. Filling(t)'
    <2>1. Len(<<>>) = 0
      OBVIOUS
    <2>2. req'[t] \in Request
      BY <1>0, <1>1 DEF TypeOK
    <2>3. (Preferred(t) /\ Together(t))'
      BY <1>2, <2>1 DEF Preferred, Together
    <2>4. Counts(t)'
      BY <1>1, <1>2, OnEmpty DEF Counts
    <2>5. Clusters(t)'
      BY <1>1, <1>2, <2>1, <2>2 DEF Clusters, Request
    <2>6. req'[t].policy = "least_loaded" => Chosen(t)'
      BY <1>1, ChosenFirst
    <2> QED  BY <2>3, <2>4, <2>5, <2>6 DEF Filling
  <1>4. ASSUME NEW u \in Threads, u # t
        PROVE  /\ pc'[u] = "fill" => Filling(u)'
               /\ pc'[u] \in {"copyout", "link"} => Reported(u)'
    <2>1. pc'[u] = pc[u] /\ cur'[u] = cur[u] /\ req'[u] = req[u] /\ pc[u] # "fill"
      BY <1>0, <1>1, <1>4 DEF TypeOK, LockInv, ConstantsAssumption
    <2>2. alloc_list'[cur[u]] = alloc_list[cur[u]]
      BY QuietSteps, <1>0, <1>1 DEF TypeOK, IInv, OneHome
    <2> QED  BY <1>1, <2>1, <2>2, ThreadKept
  <1> QED  BY <1>0, <1>1, <1>3, <1>4 DEF TypeOK

\* One turn of a loop puts the first free chunk of a controller that has one in
\* front of the buffer; a controller that is full stays full.
LEMMA TurnFacts ==
    ASSUME ConstantsAssumption, NodesInRange, IInv, NEW t \in Threads, Fill(t)
    PROVE  \E k \in Nodes, ch \in Chunks :
             /\ k = NextNode(req[t]) /\ ch[1] = k
             /\ Held(t) \in Seq(Chunks) /\ Held(t)' = <<ch>> \o Held(t)
             /\ \A x \in Nodes : Full(x) => Full(x)'
             /\ \A d \in Descs \ {cur[t]} : alloc_list'[d] = alloc_list[d]
             /\ pc[t] = "fill" /\ ddr_node \in Nodes /\ ddr_node' = k
             /\ cluster_chunk' = IF k = ddr_node THEN cluster_chunk + 1 ELSE 1
             /\ n_per_node' = [n_per_node EXCEPT ![k] = @ + 1]
             /\ UNCHANGED <<pc, req, cur, most_allocated>>
  <1>0. TypeOK /\ OneHome /\ SumInv
    BY DEF IInv, TypeInv
  <1>1. PICK k \in Nodes :
          /\ k = NextNode(req[t]) /\ inactive_chunks[k] # <<>>
          /\ pc[t] = "fill" /\ cur[t] \in live /\ chunk_index < desc_n[cur[t]]
          /\ mem_allocated' = [mem_allocated EXCEPT ![k] = @ + 1]
          /\ alloc_list' = [alloc_list EXCEPT ![cur[t]] = <<Head(inactive_chunks[k])>> \o @]
          /\ ddr_node' = k
          /\ UNCHANGED <<pc, req, cur>>
    BY FillFacts
  <1>2. /\ Head(inactive_chunks[k]) \in Chunks
        /\ Head(inactive_chunks[k]) \in Range(inactive_chunks[k])
    BY <1>0, <1>1, HeadInRange DEF TypeOK
  <1>3. Head(inactive_chunks[k])[1] = k
    BY <1>0, <1>2 DEF OneHome
  <1>4. cur[t] \in Descs /\ Held(t) \in Seq(Chunks)
        /\ Held(t)' = <<Head(inactive_chunks[k])>> \o Held(t)
    BY <1>0, <1>1 DEF TypeOK, Held
  <1>5. ASSUME NEW x \in Nodes, Full(x) PROVE Full(x)'
    <2>1. Room(k) # 0 /\ Room(x) = 0
      BY <1>0, <1>1, <1>5, RoomFacts DEF Room, Full
    <2> QED  BY <1>0, <1>1, <1>5, <2>1 DEF TypeOK, Full
  <1>6. ddr_node \in Nodes
    BY <1>1 DEF IInv, FillInv
  <1>7. /\ cluster_chunk' = IF k = ddr_node THEN cluster_chunk + 1 ELSE 1
        /\ n_per_node' = [n_per_node EXCEPT ![k] = @ + 1]
        /\ UNCHANGED most_allocated
    <2>1. k # NoNode
      BY NodeFacts DEF NoNode
    <2> QED  BY <1>1, <2>1 DEF Fill
  <1>8. \A d \in Descs \ {cur[t]} : alloc_list'[d] = alloc_list[d]
    BY <1>0, <1>1 DEF TypeOK
  <1> QED  BY <1>1, <1>2, <1>3, <1>4, <1>5, <1>6, <1>7, <1>8

\* The loop of LEAST_LOADED moves the counters it chose by, not the choice.
LEMMA TurnChosen ==
    ASSUME ConstantsAssumption, NodesInRange, IInv, NEW t \in Threads, Fill(t),
           req[t].policy = "least_loaded", Chosen(t)
    PROVE  Chosen(t)'
  <1>0. TypeOK
    BY DEF IInv, TypeInv
  <1>1. PICK k \in Nodes :
          /\ k = NextNode(req[t]) /\ pc[t] = "fill" /\ chunk_index < desc_n[cur[t]]
          /\ mem_allocated' = [mem_allocated EXCEPT ![k] = @ + 1]
          /\ chunk_index' = chunk_index + 1
          /\ ddr_node' = k
          /\ UNCHANGED <<desc_n, req, cur>>
    BY FillFacts
  <1>2. k = ddr_node
    BY <1>1, NextNodeFacts
  <1>3. /\ mem_allocated[0] \in Int /\ mem_allocated[1] \in Int /\ chunk_index \in Nat
        /\ k = 0 \/ k = 1
        /\ \A x \in {0, 1} : mem_allocated'[x] = mem_allocated[x] + (IF x = k THEN 1 ELSE 0)
    <2>1. mem_allocated \in [{0, 1} -> Int] /\ chunk_index \in Nat /\ k \in {0, 1}
      BY <1>0, NodeFacts DEF TypeOK
    <2>2. \A x \in {0, 1} : mem_allocated'[x] = IF x = k THEN mem_allocated[x] + 1 ELSE mem_allocated[x]
      BY <1>1, <2>1
    <2> QED  BY <2>1, <2>2
  <1>4. AllocatedBefore(0)' = AllocatedBefore(0) /\ AllocatedBefore(1)' = AllocatedBefore(1)
    <2>1. ddr_node' = ddr_node /\ chunk_index' = chunk_index + 1
      BY <1>1, <1>2
    <2>2. CASE k = 0
      <3>1. mem_allocated'[0] = mem_allocated[0] + 1 /\ mem_allocated'[1] = mem_allocated[1]
        BY <1>3, <2>2
      <3> QED  BY <1>2, <1>3, <2>1, <2>2, <3>1 DEF AllocatedBefore
    <2>3. CASE k = 1
      <3>1. mem_allocated'[1] = mem_allocated[1] + 1 /\ mem_allocated'[0] = mem_allocated[0]
        BY <1>3, <2>3
      <3> QED  BY <1>2, <1>3, <2>1, <2>3, <3>1 DEF AllocatedBefore
    <2> QED  BY <1>3, <2>2, <2>3
  <1>5. /\ Penalised(t)' = Penalised(t) /\ ddr_node' = ddr_node /\ (k = 0 \/ k = 1)
        /\ HadRoom(0, desc_n[cur[t]])' = HadRoom(0, desc_n[cur[t]])
        /\ HadRoom(1, desc_n[cur[t]])' = HadRoom(1, desc_n[cur[t]])
    BY <1>1, <1>2, <1>3, <1>4 DEF Penalised, HadRoom
  <1> QED  BY <1>1, <1>2, <1>5 DEF Chosen, HadRoom

\* The turn keeps the word of PREFERRED and LEAST_LOADED and the counts.
LEMMA TurnSimple ==
    ASSUME ConstantsAssumption, NodesInRange, IInv, PolicyInv, NEW t \in Threads, Fill(t)
    PROVE  /\ req[t].policy = "preferred" => Preferred(t)'
           /\ req[t].policy = "least_loaded" => Together(t)' /\ Chosen(t)'
           /\ Counts(t)'
  <1>0. PICK k \in Nodes, ch \in Chunks :
          /\ k = NextNode(req[t]) /\ ch[1] = k
          /\ Held(t) \in Seq(Chunks) /\ Held(t)' = <<ch>> \o Held(t)
          /\ \A x \in Nodes : Full(x) => Full(x)'
          /\ \A d \in Descs \ {cur[t]} : alloc_list'[d] = alloc_list[d]
          /\ pc[t] = "fill" /\ ddr_node \in Nodes /\ ddr_node' = k
          /\ cluster_chunk' = IF k = ddr_node THEN cluster_chunk + 1 ELSE 1
          /\ n_per_node' = [n_per_node EXCEPT ![k] = @ + 1]
          /\ UNCHANGED <<pc, req, cur, most_allocated>>
    BY TurnFacts
  <1> DEFINE s == Held(t)
             r == req[t]
  <1>1. /\ k = NextNode(r) /\ ch[1] = k
        /\ s \in Seq(Chunks) /\ s' = <<ch>> \o s
        /\ \A x \in Nodes : Full(x) => Full(x)'
        /\ pc[t] = "fill" /\ ddr_node' = k
        /\ n_per_node' = [n_per_node EXCEPT ![k] = @ + 1]
        /\ UNCHANGED req
    BY <1>0
  <1>2. Len(s) \in Nat /\ Len(s') = Len(s) + 1
        /\ \A j \in 1 .. Len(s') : s'[j] = IF j = 1 THEN ch ELSE s[j - 1]
    BY <1>1
  <1>3. Filling(t) /\ chunk_index < desc_n[cur[t]] /\ r \in Requests
    BY <1>1 DEF PolicyInv, Fill, IInv, ReqInv
  <1> HIDE DEF s
  <1>4. ASSUME r.policy = "preferred" PROVE Preferred(t)'
    <2>1. r.ddr_node \in Nodes
      BY <1>3, <1>4 DEF NodesInRange
    <2>2. k # r.ddr_node => Full(r.ddr_node)
      BY <1>1, <1>3, <1>4, NextNodeFacts
    <2>3. \A j \in 1 .. Len(s) : s[j][1] # r.ddr_node => Full(r.ddr_node)
      BY <1>3, <1>4 DEF Filling, Preferred, s
    <2>4. \A j \in 1 .. Len(s') : s'[j][1] # r.ddr_node => Full(r.ddr_node)
      BY <1>1, <1>2, <2>2, <2>3
    <2> QED  BY <1>1, <2>1, <2>4 DEF Preferred, s
  <1>5. ASSUME r.policy = "least_loaded" PROVE Together(t)' /\ Chosen(t)'
    <2>1. k = ddr_node
      BY <1>1, <1>3, <1>5, NextNodeFacts
    <2>2. \A j \in 1 .. Len(s) : s[j][1] = ddr_node
      BY <1>3, <1>5 DEF Filling, Together, s
    <2>3. \A j \in 1 .. Len(s') : s'[j][1] = k
      BY <1>1, <1>2, <2>1, <2>2
    <2>4. Chosen(t)'
      BY <1>3, <1>5, TurnChosen DEF Filling
    <2> QED  BY <1>1, <2>3, <2>4 DEF Together, s
  <1>6. Counts(t)'
    <2>1. \A x \in Nodes : n_per_node[x] = Cardinality(On(s, x))
      BY <1>3 DEF Filling, Counts, s
    <2>2. n_per_node \in [Nodes -> Nat]
      BY DEF IInv, TypeInv, TypeOK
    <2>3. \A x \in Nodes : n_per_node'[x] = n_per_node[x] + (IF k = x THEN 1 ELSE 0)
      BY <1>1, <2>2
    <2>4. \A x \in Nodes : Cardinality(On(<<ch>> \o s, x)) =
                             Cardinality(On(s, x)) + (IF ch[1] = x THEN 1 ELSE 0)
      BY <1>1, OnPush
    <2>5. \A x \in Nodes : n_per_node'[x] = Cardinality(On(s', x))
      BY <1>1, <2>1, <2>3, <2>4
    <2>6. Counts(t)' <=> \A x \in Nodes : n_per_node'[x] = Cardinality(On(s', x))
      BY DEF Counts, On, s
    <2> QED  BY <2>5, <2>6
  <1> QED  BY <1>4, <1>5, <1>6

\* BALANCED changes the controller after cluster_size chunks unless the other one
\* is full.
LEMMA NextCluster ==
    ASSUME ConstantsAssumption, NodesInRange, IInv, NEW t \in Threads, Fill(t),
           req[t].policy = "balanced", NextNode(req[t]) = ddr_node,
           cluster_chunk = req[t].cluster_size
    PROVE  Full(Other(ddr_node))
  <1>1. ddr_node \in Nodes /\ Other(ddr_node) \in Nodes /\ Other(ddr_node) # ddr_node
    <2>1. ddr_node \in Nodes
      BY TurnFacts
    <2> QED  BY <2>1, NodeFacts
  <1>2. NextNode(req[t]) = get_next_ddr_node(Other(ddr_node), Other(ddr_node))
    BY DEF NextNode
  <1>3. ~(mem_allocated[Other(ddr_node)] > mem_size[Other(ddr_node)])
    BY <1>1, RoomFacts DEF IInv, TypeInv, Room
  <1> QED  BY <1>1, <1>2, <1>3 DEF get_next_ddr_node

\* The turn keeps the word of BALANCED.
LEMMA TurnClusters ==
    ASSUME ConstantsAssumption, NodesInRange, IInv, PolicyInv, NEW t \in Threads, Fill(t),
           req[t].policy = "balanced"
    PROVE  Clusters(t)'
  <1>0. PICK k \in Nodes, ch \in Chunks :
          /\ k = NextNode(req[t]) /\ ch[1] = k
          /\ Held(t) \in Seq(Chunks) /\ Held(t)' = <<ch>> \o Held(t)
          /\ \A x \in Nodes : Full(x) => Full(x)'
          /\ \A d \in Descs \ {cur[t]} : alloc_list'[d] = alloc_list[d]
          /\ pc[t] = "fill" /\ ddr_node \in Nodes /\ ddr_node' = k
          /\ cluster_chunk' = IF k = ddr_node THEN cluster_chunk + 1 ELSE 1
          /\ n_per_node' = [n_per_node EXCEPT ![k] = @ + 1]
          /\ UNCHANGED <<pc, req, cur, most_allocated>>
    BY TurnFacts
  <1> DEFINE s == Held(t)
             z == Held(t)'
             c == req[t].cluster_size
             n == cluster_chunk
  <1>1. /\ k = NextNode(req[t]) /\ ch[1] = k
        /\ s \in Seq(Chunks) /\ z = <<ch>> \o s
        /\ \A x \in Nodes : Full(x) => Full(x)'
        /\ pc[t] = "fill" /\ ddr_node \in Nodes /\ ddr_node' = k
        /\ n' = IF k = ddr_node THEN n + 1 ELSE 1
        /\ UNCHANGED req
    BY <1>0
  <1>2. Len(s) \in Nat /\ Len(z) = Len(s) + 1
        /\ \A j \in 1 .. Len(z) : z[j] = IF j = 1 THEN ch ELSE s[j - 1]
    BY <1>1
  <1>3. Clusters(t) /\ n \in Nat /\ c \in Nat /\ c >= 1
    <2>1. Clusters(t) /\ contig_alloc_ok(req[t])
      BY <1>1 DEF PolicyInv, OkInv, Filling
    <2>2. n \in Nat /\ req[t] \in Request
      BY DEF IInv, TypeInv, TypeOK
    <2> QED  BY <2>1, <2>2 DEF contig_alloc_ok, Request
  <1>4. /\ n <= Len(s)
        /\ n = 0 => Len(s) = 0
        /\ \A j \in 1 .. n : s[j][1] = ddr_node
        /\ n < Len(s) => s[n + 1][1] # ddr_node
        /\ n > c => Full(Other(ddr_node))
        /\ \A j \in 1 .. Len(s) - c : \A x \in Nodes :
             (\A m \in j .. j + c : s[m][1] = x) => Full(Other(x))
    BY <1>3 DEF Clusters
  <1>5. \A x \in Nodes : Other(x) \in Nodes /\ (Full(Other(x)) => Full(Other(x))')
    BY <1>1, NodeFacts DEF Full, Other
  <1>6. k = ddr_node /\ n = c => Full(Other(k))
    BY <1>1, NextCluster
  <1> HIDE DEF s, z, c
  <1>7. n' <= Len(z) /\ n' # 0 /\ \A j \in 1 .. n' : z[j][1] = k
    BY <1>1, <1>2, <1>3, <1>4
  <1>8. n' < Len(z) => z[n' + 1][1] # k
    BY <1>1, <1>2, <1>3, <1>4
  <1>9. n' > c => Full(Other(k))
    BY <1>1, <1>3, <1>4, <1>6
  <1>10. ASSUME NEW j \in 1 .. Len(z) - c, NEW x \in Nodes, \A m \in j .. j + c : z[m][1] = x
         PROVE  Full(Other(x))
    <2>1. CASE j = 1
      <3>1. \A m \in 1 .. c : s[m][1] = x
        <4> SUFFICES ASSUME NEW m \in 1 .. c PROVE s[m][1] = x
          OBVIOUS
        <4>1. m + 1 \in j .. j + c /\ m + 1 \in 1 .. Len(z) /\ m + 1 # 1
          BY <1>2, <1>3, <2>1
        <4> QED  BY <1>2, <1>10, <4>1
      <3>2. x = k
        BY <1>1, <1>2, <1>3, <1>10, <2>1
      <3>3. c <= Len(s)
        BY <1>2, <1>3, <2>1
      <3>4. x = ddr_node
        BY <1>3, <1>4, <3>1, <3>3
      <3>5. n >= c
        BY <1>3, <1>4, <3>1, <3>3, <3>4
      <3> QED  BY <1>3, <1>4, <1>6, <3>2, <3>4, <3>5
    <2>2. CASE j # 1
      <3>1. j - 1 \in 1 .. Len(s) - c
        BY <1>2, <1>3, <2>2
      <3>2. \A m \in j - 1 .. (j - 1) + c : s[m][1] = x
        <4> SUFFICES ASSUME NEW m \in j - 1 .. (j - 1) + c PROVE s[m][1] = x
          OBVIOUS
        <4>1. m + 1 \in j .. j + c /\ m + 1 \in 1 .. Len(z) /\ m + 1 # 1
          BY <1>2, <1>3, <2>2
        <4>2. z[m + 1] = s[m]
          BY <1>2, <1>3, <2>2, <4>1
        <4> QED  BY <1>10, <4>1, <4>2
      <3> QED  BY <1>4, <3>1, <3>2
    <2> QED  BY <2>1, <2>2
  <1>11. c' = c
    BY <1>1 DEF c
  <1> QED
    BY <1>1, <1>5, <1>7, <1>8, <1>9, <1>10, <1>11 DEF Clusters, z, c

\* So a turn keeps the invariant.
LEMMA StepFill ==
    ASSUME ConstantsAssumption, NodesInRange, IInv, PolicyInv, NEW t \in Threads, Fill(t)
    PROVE  \A u \in Threads : /\ pc'[u] = "fill" => Filling(u)'
                              /\ pc'[u] \in {"copyout", "link"} => Reported(u)'
  <1>1. /\ pc[t] = "fill" /\ UNCHANGED <<pc, req, cur, most_allocated>>
        /\ \A d \in Descs \ {cur[t]} : alloc_list'[d] = alloc_list[d]
    BY TurnFacts
  <1>2. Filling(t)'
    BY <1>1, TurnSimple, TurnClusters DEF Filling
  <1>3. ASSUME NEW u \in Threads, u # t
        PROVE  /\ pc'[u] = "fill" => Filling(u)'
               /\ pc'[u] \in {"copyout", "link"} => Reported(u)'
    <2>1. pc[u] # "fill"
      BY <1>1, <1>3, Apart
    <2>2. pc[u] \in {"copyout", "link"} => cur[u] \in Descs \ {cur[t]}
      BY <1>1, <1>3, Apart DEF InHand, IInv, TypeInv, CurInv
    <2> QED  BY <1>1, <2>1, <2>2, ThreadKept
  <1> QED  BY <1>1, <1>2, <1>3

\* The counts of the loop give the controller with the most chunks.
LEMMA StepFillDone ==
    ASSUME ConstantsAssumption, IInv, PolicyInv, NEW t \in Threads, FillDone(t)
    PROVE  \A u \in Threads : /\ pc'[u] = "fill" => Filling(u)'
                              /\ pc'[u] \in {"copyout", "link"} => Reported(u)'
  <1>0. TypeOK /\ pc[t] = "fill" /\ Filling(t) /\ ddr_node \in Nodes
    BY DEF IInv, TypeInv, FillInv, FillDone, At, PolicyInv
  <1>1. /\ pc' = [pc EXCEPT ![t] = "copyout"]
        /\ most_allocated' = [most_allocated EXCEPT ![cur[t]] = Most(req[t])]
        /\ UNCHANGED <<alloc_list, req, cur>>
    BY DEF FillDone, Goto
  <1>2. cur[t] \in Descs
    BY <1>0 DEF IInv, TypeInv, CurInv
  <1>3. Reported(t)'
    <2> DEFINE s == Held(t)
               m == Most(req[t])
    <2>1. Held(t)' = s /\ most_allocated'[cur'[t]] = m
      BY <1>0, <1>1, <1>2 DEF Held, TypeOK
    <2>2. \A k \in Nodes : n_per_node[k] = Cardinality(On(s, k)) /\ n_per_node[k] \in Nat
      BY <1>0 DEF Filling, Counts, TypeOK
    <2>3. Cardinality(On(s, m)) >= Cardinality(On(s, Other(m)))
      <3>1. CASE req[t].policy = "least_loaded"
        <4>1. Other(ddr_node) # ddr_node /\ Other(ddr_node) \in Nodes
          BY <1>0, NodeFacts
        <4>2. On(s, Other(ddr_node)) = {}
          BY <1>0, <3>1, <4>1 DEF Filling, Together, On
        <4>3. m = ddr_node /\ Cardinality(On(s, ddr_node)) \in Nat
          BY <1>0, <3>1, <2>2 DEF Most
        <4> HIDE DEF s, m
        <4> QED  BY <4>2, <4>3, FS_EmptySet
      <3>2. CASE req[t].policy # "least_loaded"
        <4>1. m = IF n_per_node[1] > n_per_node[0] THEN 1 ELSE 0
          BY <3>2 DEF Most
        <4> HIDE DEF s, m
        <4> QED  BY <2>2, <4>1, NodeFacts
      <3> QED  BY <3>1, <3>2
    <2> HIDE DEF s, m
    <2> QED  BY <2>1, <2>3 DEF Reported, On
  <1>4. ASSUME NEW u \in Threads, u # t
        PROVE  /\ pc'[u] = "fill" => Filling(u)'
               /\ pc'[u] \in {"copyout", "link"} => Reported(u)'
    <2>1. pc[u] # "fill" /\ pc'[u] = pc[u]
      BY <1>0, <1>1, <1>4, Apart DEF TypeOK
    <2>2. pc[u] \in {"copyout", "link"} => cur[u] # cur[t]
      BY <1>0, <1>4, Apart DEF InHand
    <2>3. pc[u] \in {"copyout", "link"} => most_allocated'[cur[u]] = most_allocated[cur[u]]
      BY <1>0, <1>1, <2>2 DEF TypeOK, IInv, TypeInv, CurInv
    <2> QED  BY <1>1, <2>1, <2>3, ThreadKept
  <1> QED  BY <1>0, <1>1, <1>3, <1>4 DEF TypeOK

\* A free takes chunks from its own buffer only.
LEMMA StepDrain ==
    ASSUME ConstantsAssumption, NoWrap, IInv, PolicyInv, NEW t \in Threads,
           Drain(t) \/ DrainDone(t)
    PROVE  \A u \in Threads : /\ pc'[u] = "fill" => Filling(u)'
                              /\ pc'[u] \in {"copyout", "link"} => Reported(u)'
  <1>0. TypeOK /\ pc[t] = "drain"
    BY DEF IInv, TypeInv, Drain, DrainDone, At
  <1>1. /\ \A u \in Threads \ {t} : pc'[u] = pc[u] /\ cur'[u] = cur[u] /\ req'[u] = req[u]
        /\ pc'[t] \in {"drain", "idle", "release"}
    BY <1>0 DEF TypeOK, Drain, DrainDone, Goto
  <1>2. \A d \in Descs \ {cur[t]} : /\ alloc_list'[d] = alloc_list[d]
                                    /\ most_allocated'[d] = most_allocated[d]
    BY <1>0 DEF TypeOK, Drain, DrainDone
  <1>3. ASSUME NEW u \in Threads, u # t
        PROVE  /\ pc'[u] = "fill" => Filling(u)'
               /\ pc'[u] \in {"copyout", "link"} => Reported(u)'
    <2>1. pc[u] # "fill"
      BY <1>0, <1>3, Apart
    <2>2. pc[u] \in {"copyout", "link"} => cur[u] \in Descs \ {cur[t]}
      BY <1>0, <1>3, Apart DEF InHand, IInv, TypeInv, CurInv
    <2>3. CASE pc[u] \in {"copyout", "link"}
      BY <1>1, <1>2, <1>3, <2>1, <2>2, <2>3, ThreadKept
    <2>4. CASE pc[u] \notin {"copyout", "link"}
      BY <1>1, <1>3, <2>1, <2>4
    <2> QED  BY <2>3, <2>4
  <1> QED  BY <1>1, <1>3

\* The other steps leave the buffers and the loop alone.
LEMMA StepAside ==
    ASSUME ConstantsAssumption, IInv, PolicyInv, [Next]_vars,
           \/ \E t \in Threads : FreeLock(t) \/ Aside(t)
           \/ UNCHANGED vars
           \/ \E f \in Files : contig_open(f)
    PROVE  \A u \in Threads : /\ pc'[u] = "fill" => Filling(u)'
                              /\ pc'[u] \in {"copyout", "link"} => Reported(u)'
  <1>0. TypeOK
    BY DEF IInv, TypeInv
  <1>1. UNCHANGED <<alloc_list, most_allocated, desc_n, mem_allocated, fill>>
    BY DEF FreeLock, Aside, AllocCall, AllocRefused, CopyOut, Link, FreeFind, Unlink,
       ReleaseCall, ReleaseNext, MmapCall, MmapLock, MmapFind, Remap, contig_open, vars,
       memory, desc, loop
  <1>2. ASSUME NEW u \in Threads, pc'[u] = pc[u], cur'[u] = cur[u], req'[u] = req[u]
        PROVE  /\ pc'[u] = "fill" => Filling(u)'
               /\ pc'[u] \in {"copyout", "link"} => Reported(u)'
    BY <1>1, <1>2, ThreadKept
  <1>3. ASSUME NEW t \in Threads, FreeLock(t) \/ Aside(t)
        PROVE  \A u \in Threads : /\ pc'[u] = "fill" => Filling(u)'
                                  /\ pc'[u] \in {"copyout", "link"} => Reported(u)'
    <2>1. \A u \in Threads \ {t} : pc'[u] = pc[u] /\ cur'[u] = cur[u] /\ req'[u] = req[u]
      BY <1>0, <1>3, AsideFacts DEF FreeLock, Goto, TypeOK
    <2>2. CASE CopyOut(t)
      <3>1. /\ pc[t] = "copyout" /\ pc'[t] \in {"free", "link"}
            /\ cur'[t] = cur[t]
        BY <1>0, <2>2 DEF CopyOut, Goto, At, TypeOK
      <3>2. Reported(t)'
        BY <1>1, <3>1 DEF PolicyInv, Reported, Held
      <3> QED  BY <1>2, <2>1, <3>1, <3>2
    <2>3. CASE ~CopyOut(t)
      <3>1. pc'[t] \notin {"fill", "copyout", "link"}
        BY <1>0, <1>3, <2>3 DEF FreeLock, Aside, AllocCall, AllocRefused, Link, FreeFind,
           Unlink, ReleaseCall, ReleaseNext, MmapCall, MmapLock, MmapFind, Remap, Goto,
           TypeOK
      <3> QED  BY <1>2, <2>1, <3>1
    <2> QED  BY <2>2, <2>3
  <1>4. CASE UNCHANGED vars \/ \E f \in Files : contig_open(f)
    BY <1>2, <1>4 DEF vars, contig_open
  <1> QED  BY <1>3, <1>4

\* The invariant of the policies holds before the first open, and every step
\* keeps it.
LEMMA PolicyInvHolds == Assumptions => (Spec => []PolicyInv)
  <1> SUFFICES ASSUME Assumptions PROVE Spec => []PolicyInv
    OBVIOUS
  <1>1. Init => PolicyInv
    BY DEF Init, PolicyInv, OkInv
  <1>2. IInv /\ PolicyInv /\ [Next]_vars => PolicyInv'
    <2> SUFFICES ASSUME IInv, PolicyInv, [Next]_vars PROVE PolicyInv'
      OBVIOUS
    <2>1. OkInv'
      BY StepOkInv DEF PolicyInv, IInv, TypeInv
    <2>2. \A u \in Threads : /\ pc'[u] = "fill" => Filling(u)'
                             /\ pc'[u] \in {"copyout", "link"} => Reported(u)'
      BY ConstantsAssumption, NextCases, StepAllocLock, StepFill, StepFillDone, StepDrain,
         StepAside DEF Assumptions
    <2> QED  BY <2>1, <2>2 DEF PolicyInv
  <1>3. Spec => []IInv
    BY InvariantHolds
  <1> QED  BY <1>1, <1>2, <1>3, PTL DEF Spec

-----------------------------------------------------------------------------
(* The theorems                                                            *)

\* While it fills a buffer, PREFERRED leaves its controller only when it is full,
\* LEAST_LOADED stays behind one (DDR0 only when it is below DDR1 by more than the
\* threshold or DDR1 had no room for the buffer), BALANCED exceeds a cluster only
\* when the other controller is full.
THEOREM PoliciesKeep == Assumptions => (Spec => []PoliciesKept)
  <1>1. TypeOK /\ ConstantsAssumption /\ NodeInv /\ PolicyInv => PoliciesKept
    <2> SUFFICES ASSUME TypeOK, NodeInv, PolicyInv PROVE PoliciesKept
      OBVIOUS
    <2>1. PreferredFirst
      BY DEF PreferredFirst, Holder, PolicyInv, Filling, Preferred, Held
    <2>2. LeastLoadedTogether
      BY DEF LeastLoadedTogether, Holder, PolicyInv, Filling, Together, Held
    <2>3. BalancedClusters
      BY DEF BalancedClusters, Holder, PolicyInv, Filling, Clusters, Held
    <2> QED  BY <2>1, <2>2, <2>3 DEF PoliciesKept
  <1>2. IInv => TypeOK /\ NodeInv
    BY DEF IInv, TypeInv
  <1> QED  BY <1>1, <1>2, ConstantsAssumption, InvariantHolds, PolicyInvHolds, PTL

\* The controller reported for a buffer holds at least as many of its chunks as
\* the other one.
THEOREM ReportsMost == Assumptions => (Spec => []MostAllocated)
  <1>1. PolicyInv => MostAllocated
    BY DEF MostAllocated, Holder, PolicyInv, Reported, Held, On
  <1> QED  BY <1>1, PolicyInvHolds, PTL

\* No step of any thread changes the chunks of a buffer that stays on the list
\* of a file.
THEOREM BuffersStay == Assumptions => (Spec => BufferStable)
  <1> SUFFICES ASSUME Assumptions PROVE Spec => BufferStable
    OBVIOUS
  <1>1. ASSUME IInv, [Next]_vars, NEW f \in Files, NEW d \in file_list[f] \cap file_list'[f]
        PROVE  alloc_list'[d] = alloc_list[d]
    <2>1. TypeOK /\ d \in Descs
      BY <1>1 DEF IInv, TypeInv, TypeOK
    <2>2. ASSUME NEW t \in Threads, Fill(t) \/ Drain(t) PROVE alloc_list'[d] = alloc_list[d]
      <3>1. t \in InHand
        BY <2>2 DEF Fill, Drain, At, InHand
      <3>2. d # cur[t]
        BY <1>1, <3>1 DEF IInv, OneOwner
      <3> QED  BY <2>1, <2>2, <3>2 DEF Fill, Drain, TypeOK
    <2>3. CASE ~ \E t \in Threads : Fill(t) \/ Drain(t)
      BY <1>1, <2>3, ConstantsAssumption, QuietSteps
    <2> QED  BY <2>2, <2>3
  <1>2. IInv /\ [Next]_vars => \A f \in Files : \A d \in file_list[f] \cap file_list'[f] :
                                  alloc_list'[d] = alloc_list[d]
    BY <1>1
  <1> QED  BY <1>2, InvariantHolds, PTL DEF Spec, BufferStable

-----------------------------------------------------------------------------
(* The allocator implements the atomic one of ContigAbs                    *)

\* A buffer is listed from the end of its loop to its kfree.
ListedInv ==
    /\ desc_list \subseteq live
    /\ \A t \in Threads : pc[t] = "fill" => cur[t] \notin desc_list

\* desc_list has what is alive and filled.
LEMMA StepListedInv ==
    ASSUME ConstantsAssumption, IInv, ListedInv, [Next]_vars
    PROVE  ListedInv'
  <1>0. TypeOK
    BY DEF IInv, TypeInv
  <1>1. ASSUME NEW t \in Threads, AllocLock(t) PROVE ListedInv'
    <2>1. PICK d \in Descs \ live :
            live' = live \cup {d} /\ cur' = [cur EXCEPT ![t] = d]
      BY <1>1 DEF AllocLock
    <2>2. pc' = [pc EXCEPT ![t] = "fill"] /\ UNCHANGED desc_list
      BY <1>1 DEF AllocLock, Goto
    <2> QED  BY <1>0, <2>1, <2>2 DEF ListedInv, TypeOK
  <1>2. ASSUME NEW t \in Threads, FillDone(t) PROVE ListedInv'
    <2>1. pc[t] = "fill" /\ cur[t] \in live /\ \A u \in Threads \ {t} : pc[u] # "fill"
      BY <1>2, Apart DEF FillDone, At, IInv, OneOwner, InHand
    <2> QED  BY <1>0, <1>2, <2>1 DEF ListedInv, TypeOK, FillDone, Goto
  <1>3. ASSUME NEW t \in Threads, DrainDone(t) PROVE ListedInv'
    BY <1>0, <1>3 DEF ListedInv, TypeOK, DrainDone, Goto
  <1>4. ASSUME NEW t \in Threads, Fill(t) \/ FreeLock(t) \/ Drain(t) PROVE ListedInv'
    BY <1>0, <1>4 DEF ListedInv, TypeOK, Fill, FreeLock, Drain, Goto
  <1>5. ASSUME NEW t \in Threads, Aside(t) PROVE ListedInv'
    <2>1. UNCHANGED desc_list
      BY <1>5 DEF Aside, AllocCall, AllocRefused, CopyOut, Link, FreeFind, Unlink, ReleaseCall,
         ReleaseNext, MmapCall, MmapLock, MmapFind, Remap
    <2> QED  BY <1>0, <1>5, <2>1, AsideFacts DEF ListedInv
  <1>6. CASE UNCHANGED vars \/ \E f \in Files : contig_open(f)
    BY <1>6 DEF ListedInv, vars, contig_open
  <1> QED  BY <1>1, <1>2, <1>3, <1>4, <1>5, <1>6, NextCases

\* A buffer belongs to the file on whose list it is, or that of the call which
\* has it in hand.
Of(d, f) == \/ d \in file_list[f]
            \/ \E t \in Threads : /\ FileOf[t] = f /\ cur[t] = d
                                  /\ pc[t] \in {"copyout", "link", "free"}
\* File f has descriptor d as a buffer.
Owns(d, f) == d \in desc_list /\ ~Draining(d) /\ Of(d, f)
\* Who owns a buffer with this chunk.
Owners(ch) == {b \in Descs \X Files : Owns(b[1], b[2]) /\ ch \in Range(alloc_list[b[1]])}

\* The refinement mapping in terms of Owners, now and after a step.
LEMMA OwnerOfIs ==
    ASSUME NEW ch
    PROVE  LET Some(S) == IF S = {} THEN NoDesc ELSE CHOOSE b \in S : TRUE
           IN  OwnerOf(ch) = Some(Owners(ch)) /\ OwnerOf(ch)' = Some(Owners(ch)')
  <1> DEFINE S == {b \in Descs \X Files :
                    /\ b[1] \in desc_list /\ ~Draining(b[1]) /\ ch \in Range(alloc_list[b[1]])
                    /\ \/ b[1] \in file_list[b[2]]
                       \/ \E t \in Threads : /\ FileOf[t] = b[2] /\ cur[t] = b[1]
                                             /\ pc[t] \in {"copyout", "link", "free"}}
  <1>1. Owners(ch) = S /\ Owners(ch)' = S'
    BY DEF Owners, Owns, Of
  <1>2. OwnerOf(ch) = IF S = {} THEN NoDesc ELSE CHOOSE b \in S : TRUE
    BY DEF OwnerOf
  <1>3. OwnerOf(ch)' = IF S' = {} THEN NoDesc ELSE CHOOSE b \in S' : TRUE
    BY DEF OwnerOf
  <1> QED  BY <1>1, <1>2, <1>3

\* A chunk has one owner: a buffer is of one file and a chunk in one buffer.
LEMMA OneOwnerOf ==
    ASSUME ConstantsAssumption, NoDesc \notin Descs \X Files, IInv,
           NEW ch \in Chunks, NEW d \in Descs, NEW f \in Files
    PROVE  OwnerOf(ch) = <<d, f>> <=> Owns(d, f) /\ ch \in Range(alloc_list[d])
  <1>1. ASSUME NEW e \in Descs, NEW g \in Files, NEW h \in Files, Of(e, g), Of(e, h)
        PROVE  g = h
    BY <1>1 DEF Of, IInv, OneOwner, InHand
  <1>2. ASSUME NEW b \in Owners(ch), NEW e \in Owners(ch) PROVE b = e
    <2>1. /\ b \in Descs \X Files /\ Of(b[1], b[2]) /\ ch \in Range(alloc_list[b[1]])
          /\ e \in Descs \X Files /\ Of(e[1], e[2]) /\ ch \in Range(alloc_list[e[1]])
      BY DEF Owners, Owns
    <2>2. b[1] = e[1]
      BY <2>1 DEF IInv, OneHome
    <2>3. b[2] = e[2]
      BY <1>1, <2>1, <2>2
    <2> QED  BY <2>1, <2>2, <2>3
  <1>3. <<d, f>> \in Owners(ch) <=> Owns(d, f) /\ ch \in Range(alloc_list[d])
    BY DEF Owners
  <1>4. CASE Owners(ch) = {}
    BY <1>3, <1>4, OwnerOfIs
  <1>5. CASE Owners(ch) # {}
    <2>1. PICK b \in Owners(ch) : OwnerOf(ch) = b
      BY <1>5, OwnerOfIs
    <2> QED  BY <1>2, <1>3, <2>1
  <1> QED  BY <1>4, <1>5

\* Every owner is a buffer of a file, or there is none.
LEMMA OwnerType ==
    ASSUME NEW ch \in Chunks
    PROVE  OwnerOf(ch) \in (Descs \X Files) \cup {NoDesc}
  <1>1. Owners(ch) \subseteq Descs \X Files
    BY DEF Owners
  <1> QED  BY <1>1, OwnerOfIs

\* A step that changes no owner and no chunk of an owned buffer is a stutter.
LEMMA OwnersKept ==
    ASSUME \A d \in Descs, f \in Files : Owns(d, f)' <=> Owns(d, f),
           \A d \in Descs, f \in Files : Owns(d, f) => alloc_list'[d] = alloc_list[d]
    PROVE  \A ch \in Chunks : OwnerOf(ch)' = OwnerOf(ch)
  <1> SUFFICES ASSUME NEW ch \in Chunks PROVE OwnerOf(ch)' = OwnerOf(ch)
    OBVIOUS
  <1>1. Owners(ch)' = Owners(ch)
    BY DEF Owners
  <1> QED  BY <1>1, OwnerOfIs

\* Most steps change no owner: a buffer passes between a call and the list of its
\* file, and a loop works on a buffer that is not owned yet, or no longer.
LEMMA QuietOwners ==
    ASSUME ConstantsAssumption, NodesInRange, NoWrap, IInv, ListedInv, [Next]_vars,
           ~ \E t \in Threads : FillDone(t) \/ FreeLock(t)
    PROVE  \A ch \in Chunks : OwnerOf(ch)' = OwnerOf(ch)
  <1>0. /\ TypeOK /\ OneOwner /\ HeldInv /\ CurInv /\ FileOf \in [Threads -> Files]
        /\ \A t \in Threads : pc[t] = "fill" => cur[t] \notin desc_list
    BY DEF IInv, TypeInv, ListedInv, ConstantsAssumption
  <1>1. ASSUME NEW t \in Threads, AllocLock(t)
        PROVE  \A ch \in Chunks : OwnerOf(ch)' = OwnerOf(ch)
    <2>1. PICK e \in Descs \ live : cur' = [cur EXCEPT ![t] = e]
      BY <1>1 DEF AllocLock
    <2>2. /\ pc[t] = "alloc" /\ pc' = [pc EXCEPT ![t] = "fill"]
          /\ UNCHANGED <<desc_list, file_list, alloc_list>>
      BY <1>1, QuietSteps DEF AllocLock, At, Goto, files, Fill, Drain
    <2>3. \A d \in Descs, f \in Files : Owns(d, f)' <=> Owns(d, f)
      BY <1>0, <2>1, <2>2 DEF Owns, Of, Draining, TypeOK
    <2> QED  BY <2>2, <2>3, OwnersKept
  <1>2. ASSUME NEW t \in Threads, Fill(t)
        PROVE  \A ch \in Chunks : OwnerOf(ch)' = OwnerOf(ch)
    <2>1. /\ pc[t] = "fill" /\ UNCHANGED <<desc_list, file_list, pc, cur>>
          /\ \A d \in Descs \ {cur[t]} : alloc_list'[d] = alloc_list[d]
      BY <1>2, TurnFacts DEF Fill, files
    <2>2. \A d \in Descs, f \in Files : Owns(d, f)' <=> Owns(d, f)
      BY <2>1 DEF Owns, Of, Draining
    <2>3. \A d \in Descs, f \in Files : Owns(d, f) => d # cur[t]
      BY <1>0, <2>1 DEF Owns
    <2> QED  BY <2>1, <2>2, <2>3, OwnersKept
  <1>3. ASSUME NEW t \in Threads, Drain(t)
        PROVE  \A ch \in Chunks : OwnerOf(ch)' = OwnerOf(ch)
    <2>1. /\ pc[t] = "drain" /\ UNCHANGED <<desc_list, file_list, pc, cur>>
          /\ \A d \in Descs \ {cur[t]} : alloc_list'[d] = alloc_list[d]
      BY <1>0, <1>3 DEF Drain, At, files, TypeOK
    <2>2. \A d \in Descs, f \in Files : Owns(d, f)' <=> Owns(d, f)
      BY <2>1 DEF Owns, Of, Draining
    <2>3. \A d \in Descs, f \in Files : Owns(d, f) => d # cur[t]
      BY <2>1 DEF Owns, Draining
    <2> QED  BY <2>1, <2>2, <2>3, OwnersKept
  <1>4. ASSUME NEW t \in Threads, DrainDone(t)
        PROVE  \A ch \in Chunks : OwnerOf(ch)' = OwnerOf(ch)
    <2>1. /\ pc[t] = "drain" /\ pc'[t] \in {"idle", "release"}
          /\ desc_list' = desc_list \ {cur[t]}
          /\ \A u \in Threads \ {t} : pc'[u] = pc[u] /\ cur'[u] = cur[u]
          /\ UNCHANGED <<file_list, alloc_list>>
      BY <1>0, <1>4 DEF DrainDone, At, Goto, files, TypeOK
    <2>2. \A d \in Descs, f \in Files : Owns(d, f)' <=> Owns(d, f)
      BY <2>1 DEF Owns, Of, Draining
    <2> QED  BY <2>1, <2>2, OwnersKept
  <1>5. ASSUME NEW t \in Threads, Link(t) \/ Unlink(t) \/ ReleaseNext(t) \/ CopyOut(t)
        PROVE  \A ch \in Chunks : OwnerOf(ch)' = OwnerOf(ch)
    <2>1. /\ \A u \in Threads \ {t} : pc'[u] = pc[u] /\ cur'[u] = cur[u]
          /\ UNCHANGED <<desc_list, alloc_list>>
          /\ pc[t] # "drain" /\ pc'[t] # "drain"
      BY <1>0, <1>5 DEF Link, Unlink, ReleaseNext, CopyOut, At, Goto, desc, TypeOK
    <2>2. ASSUME NEW d \in Descs, NEW f \in Files PROVE Of(d, f)' <=> Of(d, f)
      <3>1. CASE CopyOut(t)
        BY <1>0, <2>1, <3>1 DEF CopyOut, At, Goto, files, Of, TypeOK
      <3>2. CASE Link(t)
        <4>1. /\ pc[t] = "link" /\ pc'[t] = "idle"
              /\ file_list' = [file_list EXCEPT ![FileOf[t]] = @ \cup {cur[t]}]
          BY <1>0, <3>2 DEF Link, At, Goto, TypeOK
        <4>2. d \in file_list'[f] <=> d \in file_list[f] \/ (f = FileOf[t] /\ d = cur[t])
          BY <1>0, <4>1 DEF TypeOK
        <4> QED  BY <2>1, <4>1, <4>2 DEF Of
      <3>3. CASE Unlink(t)
        <4>1. /\ pc[t] = "unlink" /\ pc'[t] = "free" /\ cur'[t] = cur[t]
              /\ file_list' = [file_list EXCEPT ![FileOf[t]] = @ \ {cur[t]}]
          BY <1>0, <3>3 DEF Unlink, At, Goto, TypeOK
        <4>2. cur[t] \in file_list[FileOf[t]]
          BY <1>0, <4>1 DEF HeldInv
        <4>3. d \in file_list'[f] <=> d \in file_list[f] /\ ~(f = FileOf[t] /\ d = cur[t])
          BY <1>0, <4>1 DEF TypeOK
        <4> QED  BY <2>1, <4>1, <4>2, <4>3 DEF Of
      <3>4. CASE ReleaseNext(t)
        <4>1. CASE file_list[FileOf[t]] = {}
          BY <1>0, <2>1, <3>4, <4>1 DEF ReleaseNext, At, Goto, Of, TypeOK
        <4>2. CASE file_list[FileOf[t]] # {}
          <5>1. PICK e \in file_list[FileOf[t]] :
                  /\ file_list' = [file_list EXCEPT ![FileOf[t]] = @ \ {e}]
                  /\ cur' = [cur EXCEPT ![t] = e]
                  /\ pc' = [pc EXCEPT ![t] = "free"]
            BY <3>4, <4>2 DEF ReleaseNext, Goto
          <5>2. pc[t] = "release" /\ pc'[t] = "free" /\ cur'[t] = e
            BY <1>0, <3>4, <5>1 DEF ReleaseNext, At, TypeOK
          <5>3. d \in file_list'[f] <=> d \in file_list[f] /\ ~(f = FileOf[t] /\ d = e)
            BY <1>0, <5>1 DEF TypeOK
          <5> QED  BY <2>1, <5>1, <5>2, <5>3 DEF Of
        <4> QED  BY <4>1, <4>2
      <3> QED  BY <1>5, <3>1, <3>2, <3>3, <3>4
    <2>3. \A d \in Descs : Draining(d)' <=> Draining(d)
      BY <2>1 DEF Draining
    <2>4. \A d \in Descs, f \in Files : Owns(d, f)' <=> Owns(d, f)
      BY <2>1, <2>2, <2>3 DEF Owns
    <2> QED  BY <2>1, <2>4, OwnersKept
  <1>6. ASSUME NEW t \in Threads,
               AllocCall(t) \/ AllocRefused(t) \/ FreeFind(t) \/ ReleaseCall(t) \/ MmapCall(t)
               \/ MmapLock(t) \/ MmapFind(t) \/ Remap(t)
        PROVE  \A ch \in Chunks : OwnerOf(ch)' = OwnerOf(ch)
    <2>1. /\ \A u \in Threads \ {t} : pc'[u] = pc[u] /\ cur'[u] = cur[u]
          /\ UNCHANGED <<desc_list, alloc_list, file_list>>
          /\ {pc[t], pc'[t]} \cap {"copyout", "link", "free", "drain"} = {}
      BY <1>0, <1>6 DEF AllocCall, AllocRefused, FreeFind, ReleaseCall, MmapCall, MmapLock,
         MmapFind, Remap, At, Goto, desc, files, TypeOK
    <2>2. \A d \in Descs, f \in Files : Owns(d, f)' <=> Owns(d, f)
      BY <2>1 DEF Owns, Of, Draining
    <2> QED  BY <2>1, <2>2, OwnersKept
  <1>7. CASE UNCHANGED vars \/ \E f \in Files : contig_open(f)
    <2>1. UNCHANGED <<desc_list, alloc_list, file_list, pc, cur>>
      BY <1>7 DEF vars, contig_open, desc, files
    <2>2. \A d \in Descs, f \in Files : Owns(d, f)' <=> Owns(d, f)
      BY <2>1 DEF Owns, Of, Draining
    <2> QED  BY <2>1, <2>2, OwnersKept
  <1> QED  BY <1>1, <1>2, <1>3, <1>4, <1>5, <1>6, <1>7 DEF Next, InCall

\* When a loop ends its buffer gets all its chunks at once, which were nobody's.
LEMMA FillDoneOwners ==
    ASSUME ConstantsAssumption, IInv, ListedInv, NEW t \in Threads, FillDone(t)
    PROVE  \A ch \in Chunks :
             /\ ch \in Range(alloc_list[cur[t]]) =>
                  OwnerOf(ch) = NoDesc /\ OwnerOf(ch)' = <<cur[t], FileOf[t]>>
             /\ ch \notin Range(alloc_list[cur[t]]) => OwnerOf(ch)' = OwnerOf(ch)
  <1> DEFINE d == cur[t]
             f == FileOf[t]
  <1>0. /\ TypeOK /\ OneOwner /\ pc[t] = "fill" /\ d \notin desc_list
        /\ d \in Descs /\ f \in Files
    BY DEF IInv, TypeInv, CurInv, ListedInv, FillDone, At, ConstantsAssumption
  <1>1. /\ desc_list' = desc_list \cup {d} /\ pc' = [pc EXCEPT ![t] = "copyout"]
        /\ UNCHANGED <<alloc_list, file_list, cur>>
    BY DEF FillDone, Goto, files
  <1>2. \A u \in Threads \ {t} : pc[u] \in {"copyout", "link", "free", "drain"} => cur[u] # d
    BY <1>0, Apart DEF InHand
  <1>3. \A g \in Files : d \notin file_list[g]
    BY <1>0 DEF OneOwner, InHand
  <1>4. \A e \in Descs, g \in Files : e = d => (Owns(e, g)' <=> g = f)
    BY <1>0, <1>1, <1>2, <1>3 DEF Owns, Of, Draining, TypeOK
  <1>5. \A e \in Descs \ {d}, g \in Files : Owns(e, g)' <=> Owns(e, g)
    BY <1>0, <1>1 DEF Owns, Of, Draining, TypeOK
  <1>6. \A g \in Files : ~Owns(d, g)
    BY <1>0 DEF Owns
  <1>7. ASSUME NEW ch \in Chunks, ch \in Range(alloc_list[d])
        PROVE  Owners(ch) = {} /\ Owners(ch)' = {<<d, f>>}
    <2>1. \A e \in Descs \ {d} : ch \notin Range(alloc_list[e])
      BY <1>0, <1>7 DEF IInv, OneHome
    <2>2. Owners(ch) = {}
      BY <1>6, <2>1 DEF Owners
    <2>3. <<d, f>> \in Owners(ch)'
      BY <1>0, <1>1, <1>4, <1>7 DEF Owners
    <2>4. ASSUME NEW b \in Owners(ch)' PROVE b = <<d, f>>
      <3>1. b \in Descs \X Files /\ Owns(b[1], b[2])' /\ ch \in Range(alloc_list[b[1]])
        BY <1>1 DEF Owners
      <3>2. b[1] = d /\ b = <<b[1], b[2]>>
        BY <2>1, <3>1
      <3> QED  BY <1>4, <3>1, <3>2
    <2> QED  BY <2>2, <2>3, <2>4
  <1>8. ASSUME NEW ch \in Chunks, ch \notin Range(alloc_list[d])
        PROVE  Owners(ch)' = Owners(ch)
    BY <1>1, <1>5, <1>8 DEF Owners
  <1> HIDE DEF d, f
  <1>9. ASSUME NEW ch \in Chunks, ch \in Range(alloc_list[d])
        PROVE  OwnerOf(ch) = NoDesc /\ OwnerOf(ch)' = <<d, f>>
    <2>1. \A x : (CHOOSE b \in {x} : TRUE) = x
      OBVIOUS
    <2> QED  BY <1>7, <1>9, <2>1, OwnerOfIs
  <1>10. ASSUME NEW ch \in Chunks, ch \notin Range(alloc_list[d])
         PROVE  OwnerOf(ch)' = OwnerOf(ch)
    BY <1>8, <1>10, OwnerOfIs
  <1> QED  BY <1>9, <1>10 DEF d, f

\* When the drain of a buffer begins all its chunks are nobody's.
LEMMA FreeLockOwners ==
    ASSUME ConstantsAssumption, NoDesc \notin Descs \X Files, IInv, NEW t \in Threads, FreeLock(t)
    PROVE  \A ch \in Chunks :
             OwnerOf(ch)' = IF OwnerOf(ch) = <<cur[t], FileOf[t]>> THEN NoDesc ELSE OwnerOf(ch)
  <1> DEFINE d == cur[t]
             f == FileOf[t]
  <1>0. TypeOK /\ OneOwner /\ pc[t] = "free" /\ d \in Descs /\ f \in Files
    BY DEF IInv, TypeInv, CurInv, FreeLock, At, ConstantsAssumption
  <1>1. /\ pc' = [pc EXCEPT ![t] = "drain"]
        /\ UNCHANGED <<alloc_list, desc_list, file_list, cur>>
    BY DEF FreeLock, Goto, files, desc
  <1>2. \A u \in Threads \ {t} : pc[u] \in {"copyout", "link", "free"} => cur[u] # d
    BY <1>0, Apart DEF InHand
  <1>3. \A g \in Files : d \notin file_list[g]
    BY <1>0 DEF OneOwner, InHand
  <1>4. \A g \in Files : ~Owns(d, g)' /\ (Owns(d, g) => g = f)
    BY <1>0, <1>1, <1>2, <1>3 DEF Owns, Of, Draining, TypeOK
  <1>5. \A e \in Descs \ {d}, g \in Files : Owns(e, g)' <=> Owns(e, g)
    BY <1>0, <1>1 DEF Owns, Of, Draining, TypeOK
  <1> SUFFICES ASSUME NEW ch \in Chunks
               PROVE  OwnerOf(ch)' = IF OwnerOf(ch) = <<d, f>> THEN NoDesc ELSE OwnerOf(ch)
    OBVIOUS
  <1>6. OwnerOf(ch) = <<d, f>> <=> Owns(d, f) /\ ch \in Range(alloc_list[d])
    BY <1>0, OneOwnerOf
  <1>7. CASE OwnerOf(ch) = <<d, f>>
    <2>1. \A e \in Descs \ {d} : ch \notin Range(alloc_list[e])
      BY <1>0, <1>6, <1>7 DEF IInv, OneHome
    <2>2. Owners(ch)' = {}
      BY <1>1, <1>4, <2>1 DEF Owners
    <2> QED  BY <1>7, <2>2, OwnerOfIs
  <1>8. CASE OwnerOf(ch) # <<d, f>>
    <2>1. Owners(ch)' = Owners(ch)
      BY <1>1, <1>4, <1>5, <1>6, <1>8 DEF Owners
    <2> QED  BY <1>8, <2>1, OwnerOfIs
  <1> QED  BY <1>7, <1>8

\* Every step of the allocator is one of the atomic allocator, or none.
LEMMA StepRefines ==
    ASSUME ConstantsAssumption, Assumptions, NoDesc \notin Descs \X Files,
           IInv, ListedInv, [Next]_vars
    PROVE  [Abs!Next]_([ch \in Chunks |-> OwnerOf(ch)])
  <1> DEFINE owner == [ch \in Chunks |-> OwnerOf(ch)]
  <1>1. CASE \A ch \in Chunks : OwnerOf(ch)' = OwnerOf(ch)
    BY <1>1
  <1>2. ASSUME NEW t \in Threads, FillDone(t) PROVE Abs!Next \/ owner' = owner
    <2> DEFINE d == cur[t]
               f == FileOf[t]
               S == Range(alloc_list[d])
    <2>1. d \in Descs /\ f \in Files /\ d \notin desc_list /\ S \subseteq Chunks
      BY <1>2 DEF IInv, TypeInv, TypeOK, CurInv, ListedInv, FillDone, At,
         ConstantsAssumption, Range
    <2>2. \A ch \in S : OwnerOf(ch) = NoDesc
      BY <1>2, <2>1, FillDoneOwners
    <2>3. \A ch \in Chunks : OwnerOf(ch)' = IF ch \in S THEN <<d, f>> ELSE OwnerOf(ch)
      BY <1>2, FillDoneOwners
    <2>4. \A g \in Files : \A ch \in Chunks : OwnerOf(ch) # <<d, g>>
      BY <2>1, OneOwnerOf DEF Owns
    <2>5. CASE S = {}
      BY <2>3, <2>5
    <2>6. CASE S # {}
      <3> HIDE DEF d, f, S
      <3>1. \A g \in Files : Abs!Buffer(<<d, g>>) = {}
        BY <2>4 DEF Abs!Buffer
      <3>2. S \in (SUBSET Abs!Free) \ {{}}
        BY <2>1, <2>2, <2>6 DEF Abs!Free
      <3>3. owner' = [ch \in Chunks |-> IF ch \in S THEN <<d, f>> ELSE owner[ch]]
        BY <2>3
      <3> QED  BY <2>1, <3>1, <3>2, <3>3 DEF Abs!Next, Abs!Alloc
    <2> QED  BY <2>5, <2>6
  <1>3. ASSUME NEW t \in Threads, FreeLock(t) PROVE Abs!Next \/ owner' = owner
    <2> DEFINE d == cur[t]
               f == FileOf[t]
    <2>1. d \in Descs /\ f \in Files
      BY <1>3 DEF IInv, TypeInv, CurInv, FreeLock, At, ConstantsAssumption
    <2>2. \A ch \in Chunks : OwnerOf(ch)' = IF OwnerOf(ch) = <<d, f>> THEN NoDesc ELSE OwnerOf(ch)
      BY <1>3, FreeLockOwners
    <2> HIDE DEF d, f
    <2>3. CASE \A ch \in Chunks : OwnerOf(ch) # <<d, f>>
      BY <2>2, <2>3
    <2>4. CASE \E ch \in Chunks : OwnerOf(ch) = <<d, f>>
      <3>1. Abs!Buffer(<<d, f>>) # {}
        BY <2>4 DEF Abs!Buffer
      <3>2. owner' = [ch \in Chunks |-> IF owner[ch] = <<d, f>> THEN NoDesc ELSE owner[ch]]
        BY <2>2
      <3> QED  BY <2>1, <3>1, <3>2 DEF Abs!Next, Abs!Release
    <2> QED  BY <2>3, <2>4
  <1>4. CASE ~ \E t \in Threads : FillDone(t) \/ FreeLock(t)
    BY <1>1, <1>4, QuietOwners DEF Assumptions
  <1> QED  BY <1>2, <1>3, <1>4

\* The allocator, whose loops move one chunk at a time, implements the one in
\* which a buffer appears and disappears whole: no process ever sees, or shares,
\* half of one.
THEOREM BuffersAreAtomic == Assumptions /\ NoDesc \notin Descs \X Files => (Spec => AbsSpec)
  <1> SUFFICES ASSUME Assumptions, NoDesc \notin Descs \X Files PROVE Spec => AbsSpec
    OBVIOUS
  <1>1. Init => ListedInv /\ Abs!Init
    <2> SUFFICES ASSUME Init PROVE ListedInv /\ Abs!Init
      OBVIOUS
    <2>1. \A ch : Owners(ch) = {}
      BY DEF Init, Owners, Owns
    <2>2. \A ch \in Chunks : OwnerOf(ch) = NoDesc
      BY <2>1, OwnerOfIs
    <2> QED  BY <2>2 DEF Init, ListedInv, Abs!Init
  <1>2. IInv /\ ListedInv /\ [Next]_vars => ListedInv'
    BY StepListedInv, ConstantsAssumption
  <1>3. IInv /\ ListedInv /\ [Next]_vars => [Abs!Next]_([ch \in Chunks |-> OwnerOf(ch)])
    BY StepRefines, ConstantsAssumption
  <1> QED  BY <1>1, <1>2, <1>3, InvariantHolds, PTL DEF Spec, AbsSpec, Abs!Spec
=============================================================================
