SPECIFICATION Spec
CONSTANTS
    a = a b = b a1 = a1 a2 = a2 b1 = b1 b2 = b2 f1 = f1 f2 = f2
    Drivers = {a, b}
    Devices = {a1, a2, b1, b2}
    driver_of <- MCDriverOf
    yx <- MCYx
    Base = 2
    Files = {f1, f2}
    Used = {b2}
    Requests <- MCRequests
    Failing = {a2}
    Unbinds = {b1}
    Parallel = {a}
    MaxNumber = 2
    NoFile = NoFile
    NoDevice = NoDevice
VIEW View
CONSTRAINT Followed
SYMMETRY FileSymmetry
INVARIANTS TypeOK P2pDecodes UnloadSafe NothingLeft
PROPERTIES LookupExact
CHECK_DEADLOCK FALSE
