SPECIFICATION FairSpec
CONSTANTS
    Execs = {e1}
    Pollers = {p}
    Deleters = {d}
    Timeouts = {0, 1}
    IdleThreshold = 1
    Grace = 0
    GCGrace = 2
    ReapEvery = 1
    PassLasts = 1
    MaxClock = 8
    ClientsUntil = 1
    QuietAt = {1, 2, 3, 4, 5, 6, 7, 8}
    FaultKinds = {"crash", "rpc", "vm_delete", "start_reply_lost", "bump_lost"}
    MaxFaults = 2
PROPERTIES ExecEnds IdleScratchReaped
