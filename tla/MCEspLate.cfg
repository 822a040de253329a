SPECIFICATION Spec
CONSTANTS
    t1 = t1  t2 = t2  a1 = a1  a2 = a2
    NoThread = NoThread  NoDevice = NoDevice
    Threads <- TwoThreads
    Devices <- OneDevice
    Accesses <- Few
    l2_size = 2  llc_bank_size = 3  llc_banks = 2  Crowd = 3  Word = 16
    Signals = TRUE  RunCalls = FALSE  FlushCalls = FALSE
INVARIANT AnswerIsMine
CHECK_DEADLOCK FALSE
