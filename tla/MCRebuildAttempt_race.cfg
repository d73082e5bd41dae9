SPECIFICATION Spec
CONSTANTS
    x = x
    again = again
    fast = fast
    retry = retry
    r1 = r1
    r2 = r2
    Calls = {x, fast}
    Extended = {x}
    Direct = {}
    MaxCalls = 2
    Attempts = {r1, r2}
    RunOf <- OneEach
    Modes = {""}
    Versions = {1}
    FaultKinds = {}
    MaxFaults = 0
INVARIANT OneAttestation
CHECK_DEADLOCK FALSE
