SPECIFICATION Spec
CONSTANTS
    Execs = {e1, e2}
    Pollers = {}
    Deleters = {}
    Timeouts = {1, 4}
    IdleThreshold = 3
    Grace = 1
    GCGrace = 6
    ReapEvery = 3
    PassLasts = 2
    MaxClock = 8
    ClientsUntil = 9
    QuietAt = {2, 4, 6, 8}
    FaultKinds = {}
    MaxFaults = 0
SYMMETRY Interchangeable
INVARIANT AnswerKept
PROPERTY RecheckSparesAcknowledged
