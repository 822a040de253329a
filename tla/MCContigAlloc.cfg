SPECIFICATION Spec
CONSTANTS
    t1 = t1  t2 = t2  f1 = f1  f2 = f2  d1 = d1  d2 = d2  d3 = d3
    NoThread = NoThread  NoDesc = NoDesc
    Threads <- MCThreads
    Files <- MCFiles
    FileOf <- PrivateFile
    Descs <- MCDescs
    Requests <- MCRequests
    mem_size <- MCMem
    ChunkSize = 2
    UIntChunks = 8
SYMMETRY Symmetry
INVARIANTS TypeOK NoOops CountersExact OneHome OneOwner
    PoliciesKept MostAllocated
PROPERTIES BufferStable AbsSpec
