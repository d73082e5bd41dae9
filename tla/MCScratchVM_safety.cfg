SPECIFICATION Spec
CONSTANTS
    near = near
    far = far
    Scratches = {s1, s2}
    Zones <- BothZones
    Rank <- NearFirst
    CooldownTTL = 1
    IdleThreshold = 1
    MaxCreate = 1
    ReapEvery = 2
    MaxClock = 5
    ClientsUntil = 9
    NoZone = NoZone
    FaultKinds = {"insert", "db", "crash"}
    MaxFaults = 1
SYMMETRY Interchangeable
INVARIANTS TypeOK OneVM EveryVMTracked ReadyHasVM
