SPECIFICATION FairSpec
CONSTANTS
    p = p q = q d1 = d1 d2 = d2
    Programs = {p, q}
    Devices = {d1, d2}
    nacc = 2
    Configs <- MCConfigs
    Fails = TRUE
    MaxRuns <- MCMaxRuns
    NoJob = NoJob
INVARIANTS TypeOK BufferLive RunLeavesNothing
PROPERTIES KillEnds
CHECK_DEADLOCK FALSE
