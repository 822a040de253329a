SPECIFICATION FairSpec
CONSTANTS
    t1 = t1  t2 = t2  t3 = t3  h1 = h1  h2 = h2
    NoThread = NoThread  NoHandle = NoHandle
    Threads <- ThreeThreads
    Fds <- ThreeFds
    Handles <- TwoHandles
INVARIANTS OneDescriptor BuffersReachable HandlesTracked
PROPERTY CallsFinish
CHECK_DEADLOCK FALSE
