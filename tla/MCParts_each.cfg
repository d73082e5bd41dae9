SPECIFICATION Spec
CONSTANTS
    MaxIterations = 2
    SessionFaults = {"db", "crash", "scratch", "launch", "launch_reply_lost", "answer_lost", "vm_delete"}
    MaxSessionFaults = 2
    CloudFaults = {"create", "poll", "cancel", "upload"}
    MaxCloudFaults = 1
    Builds = {b1, b2}
    MaxParallel = 1
    Phases = 2
    ScratchFaults = {"create", "poll", "command"}
    MaxScratchFaults = 1
INVARIANTS TypeOK NumbersAreUnique SuccessIsRecorded CompletionLasts AnswerIsTrue StrayHasCause OnlyItsContainer ClosedIsQuiet
PROPERTIES SessionEnds IterationEnds BuildsEnd
CHECK_DEADLOCK FALSE
