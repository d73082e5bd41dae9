SPECIFICATION FairSpec
CONSTANTS
    x = x
    again = again
    fast = fast
    retry = retry
    r1 = r1
    r2 = r2
    Calls = {x, again, fast, retry}
    Extended = {x, again}
    Direct = {retry}
    MaxCalls = 2
    Attempts = {r1, r2}
    RunOf <- TwoRuns
    Modes = {"", "force", "service_update"}
    Versions = {1, 2}
    FaultKinds = {"db", "crash", "launch", "launch_reply_lost", "publish_reply_lost"}
    MaxFaults = 1
INVARIANTS TypeOK SuccessIsPublished FailureIsUnpublished RecordedModeIsTrue
PROPERTIES DoneIsFinal OperationEnds
CHECK_DEADLOCK FALSE
