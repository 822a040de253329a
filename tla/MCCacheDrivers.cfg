SPECIFICATION FairSpec
CONSTANTS
    t1 = t1 t2 = t2 c1 = c1 c2 = c2 b1 = b1 b2 = b2 x = x
    Threads = {t1, t2}
    L2s = {c1, c2}
    Llcs = {b1, b2}
    Lines = {x}
    writer <- MCWriter
    l2_of <- MCL2Of
    bank_of <- MCBankOf
    cpuid <- MCCpuid
    SMP = TRUE
    Hotplug = {c2, b2}
    Signals = TRUE
    NoThread = NoThread
INVARIANTS TypeOK NoBugOn DataReached WalkBound
PROPERTIES FlushReturns
