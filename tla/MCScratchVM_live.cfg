SPECIFICATION FairSpec
CONSTANTS
    near = near
    far = far
    Scratches = {s1}
    Zones <- BothZones
    Rank <- NearFirst
    CooldownTTL = 1
    IdleThreshold = 1
    MaxCreate = 1
    ReapEvery = 1
    MaxClock = 11
    ClientsUntil = 4
    NoZone = NoZone
    FaultKinds = {"insert", "db", "crash", "create_crash", "vm_delete"}
    MaxFaults = 2
PROPERTIES HalfDoneEnds
