SPECIFICATION Spec
CONSTANTS
    Getters = {g}
    Waiters = {w}
    Reapers = {r}
    Endings = {"completed", "lost"}
    MaxBytes = 2
    MaxGen = 3
    FaultKinds = {"crash", "reply_lost", "delete_lost"}
    MaxFaults = 1
    NoPart = NoPart
INVARIANTS TypeOK PublishedIsPrefix NoOrphanParts NoEmptyParts
PROPERTY PublishesALog
CHECK_DEADLOCK FALSE
