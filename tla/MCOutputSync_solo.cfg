SPECIFICATION FairSpec
CONSTANTS
    Getters = {g}
    Waiters = {}
    Reapers = {}
    Endings = {"completed", "timed_out", "lost"}
    MaxBytes = 3
    MaxGen = 3
    FaultKinds = {}
    MaxFaults = 0
    NoPart = NoPart
INVARIANT CompletedHasAllOutput
PROPERTY TailLands
CHECK_DEADLOCK FALSE
