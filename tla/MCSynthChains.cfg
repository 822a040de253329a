SPECIFICATION Spec
CONSTANTS
    NPhases <- MCNPhases
    NThreads <- MCNThreads
    NDev <- MCNDev
    DevId <- MCDevId
    FirstSize <- MCFirstSize
    Cfg <- MCCfg
    Accelerators <- MCAccelerators
    Nodes <- MCNodes
    Hops <- MCHops
    Width = 2
INVARIANTS TypeOK ChainsDisjoint RegionFits LargestNear
CHECK_DEADLOCK FALSE
