SPECIFICATION Spec
CONSTANTS
    Execs = {e1}
    Pollers = {p}
    Deleters = {d}
    Timeouts = {0, 1}
    IdleThreshold = 1
    Grace = 0
    GCGrace = 2
    ReapEvery = 9
    PassLasts = 9
    MaxClock = 3
    ClientsUntil = 4
    QuietAt = {}
    FaultKinds = {"crash", "rpc", "start_reply_lost", "bump_lost", "vm_delete"}
    MaxFaults = 1
INVARIANTS TypeOK LostHasCause
PROPERTIES BehavesAsOp
