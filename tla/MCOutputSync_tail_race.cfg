SPECIFICATION Spec
CONSTANTS
    Getters = {g}
    Waiters = {}
    Reapers = {r}
    Endings = {"completed", "timed_out", "lost"}
    MaxBytes = 2
    MaxGen = 2
    FaultKinds = {}
    MaxFaults = 0
    NoPart = NoPart
INVARIANT CompletedHasAllOutput
CHECK_DEADLOCK FALSE
