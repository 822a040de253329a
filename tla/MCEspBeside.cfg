SPECIFICATION FairSpec
CONSTANTS
    t1 = t1  t2 = t2  a1 = a1  a2 = a2
    NoThread = NoThread  NoDevice = NoDevice
    Threads <- TwoThreads
    Devices <- OneDevice
    Accesses <- Mixed
    l2_size = 2  llc_bank_size = 3  llc_banks = 2  Crowd = 3  Word = 2
    Signals = FALSE  RunCalls = FALSE  FlushCalls = TRUE
INVARIANT AnswerIsMine
PROPERTIES JobSpec AccessReturns
CHECK_DEADLOCK FALSE
