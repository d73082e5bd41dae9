------------------------------ MODULE CloudBuild ------------------------------
(***************************************************************************)
(* One build of the Cloud Build executor (pkg/build/gcb): the handle, the  *)
(* goroutine that submits and watches the build, the caller in Wait, and   *)
(* the executor's Close.                                                   *)
(*                                                                         *)
(* They share the handle (its status, operation and one-place result       *)
(* channel) and the executor's map of active builds, and each talks to     *)
(* Cloud Build on its own.  Every caller in the repository passes one      *)
(* context to Start and to Wait.                                           *)
(***************************************************************************)
EXTENDS Naturals

CONSTANTS
    FaultKinds,  \* the faults that may happen, out of AllFaults
    MaxFaults    \* bound: how many of them

AllFaults == {"create", "poll", "cancel", "upload"}

CloudBuildAssumption == FaultKinds \subseteq AllFaults /\ MaxFaults \in Nat

VARIABLES
    opts,     \* the cancel policy, and the executor's terminateOnTimeout
    ctx,      \* the context of Start and Wait
    handle,   \* status, whether operation is set, and what resultChan holds
    active,   \* is the handle in activeBuilds?
    cloud,    \* the build in Cloud Build
    run,      \* executeBuild: where it stands and the outcome it will report
    wait,     \* Wait: where it stands and what it got
    close,    \* where Close stands
    faults    \* faults so far

vars == <<opts, ctx, handle, active, cloud, run, wait, close, faults>>

-----------------------------------------------------------------------------
Over == {"succeeded", "failed", "cancelled"}

\* gcb.ToError, of the build's final status.
Outcome == IF cloud = "succeeded" THEN "success" ELSE "error"

Init ==
    /\ opts \in [detached : BOOLEAN, terminate : BOOLEAN]
    /\ ctx = "live"
    /\ handle = [status |-> "starting", op |-> FALSE, result |-> "none"]
    /\ active = TRUE
    /\ cloud = "none"
    /\ run = [pc |-> "create", outcome |-> "none"]
    /\ wait = [pc |-> "waiting", got |-> "none"]
    /\ close = "idle"
    /\ faults = 0

Fault(kind) ==
    /\ kind \in FaultKinds
    /\ faults < MaxFaults
    /\ faults' = faults + 1

SetStatus(status) == handle' = [handle EXCEPT !.status = status]

\* setResult: what comes second is dropped.
Put(result) == handle' = [handle EXCEPT !.result = IF @ = "none" THEN result ELSE @]

\* Cloud Build takes a cancellation of a build that has not ended, and acts on it
\* in its own time.
CancelOperation ==
    \/ cloud' = (IF cloud = "working" THEN "cancelling" ELSE cloud) /\ UNCHANGED faults
    \/ Fault("cancel") /\ UNCHANGED cloud

-----------------------------------------------------------------------------
(* executeBuild and doBuild. *)

RunTo(pc) == run' = [run EXCEPT !.pc = pc]
RunEnds(outcome) == run' = [pc |-> "upload", outcome |-> outcome]

CreateBuild ==
    /\ run.pc = "create" /\ ctx = "live"
    /\ cloud' = "working"
    /\ RunTo("created")
    /\ UNCHANGED <<opts, ctx, handle, active, wait, close, faults>>

\* The request may have been carried out all the same.
CreateBuildFails ==
    /\ run.pc = "create"
    /\ \/ ctx # "live" /\ UNCHANGED faults
       \/ Fault("create")
    /\ cloud' \in {"none", "working"}
    /\ RunEnds("error")
    /\ UNCHANGED <<opts, ctx, handle, active, wait, close>>

SetOperation ==
    /\ run.pc = "created"
    /\ handle' = [handle EXCEPT !.op = TRUE]
    /\ RunTo("running")
    /\ UNCHANGED <<opts, ctx, active, cloud, wait, close, faults>>

MarkRunning ==
    /\ run.pc = "running"
    /\ SetStatus("running")
    /\ RunTo("watch")
    /\ UNCHANGED <<opts, ctx, active, cloud, wait, close, faults>>

SeeEnd ==
    /\ run.pc = "watch" /\ cloud \in Over
    /\ RunEnds(Outcome)
    /\ UNCHANGED <<opts, ctx, handle, active, cloud, wait, close, faults>>

\* "allowing the build to continue": what Cloud Build said of it at its creation is
\* no final status, and an error.
SeeContextEnd ==
    /\ run.pc = "watch" /\ ctx # "live"
    /\ IF ctx = "cancelled" \/ opts.terminate THEN RunTo("cancel") ELSE RunEnds("error")
    /\ UNCHANGED <<opts, ctx, handle, active, cloud, wait, close, faults>>

PollFails ==
    /\ run.pc = "watch" /\ Fault("poll")
    /\ RunEnds("error")
    /\ UNCHANGED <<opts, ctx, handle, active, cloud, wait, close>>

\* Mutant: the wait is over, and so is the build.
StopsWatching ==
    /\ run.pc = "cancel"
    /\ RunEnds("error")
    /\ UNCHANGED <<opts, ctx, handle, active, cloud, wait, close, faults>>

CancelOwn ==
    /\ run.pc = "cancel"
    /\ CancelOperation
    /\ IF faults' = faults THEN RunTo("rewatch") ELSE RunEnds("error")
    /\ UNCHANGED <<opts, ctx, handle, active, wait, close>>

\* "We can wait 10 more seconds"
SeeCancelled ==
    /\ run.pc = "rewatch"
    /\ RunEnds(IF cloud \in Over THEN Outcome ELSE "error")
    /\ UNCHANGED <<opts, ctx, handle, active, cloud, wait, close, faults>>

\* The uploads use the context of the build; one that fails replaces its outcome.
Upload ==
    /\ run.pc = "upload"
    /\ \/ ctx = "live" /\ RunTo("complete") /\ UNCHANGED faults
       \/ ctx # "live" /\ run' = [pc |-> "complete", outcome |-> "error"] /\ UNCHANGED faults
       \/ Fault("upload") /\ run' = [pc |-> "complete", outcome |-> "error"]
    /\ UNCHANGED <<opts, ctx, handle, active, cloud, wait, close>>

MarkCompleted ==
    /\ run.pc = "complete"
    /\ SetStatus("completed")
    /\ RunTo("retire")
    /\ UNCHANGED <<opts, ctx, active, cloud, wait, close, faults>>

\* Mutant: the result is set first.
AnswersThenRetires ==
    \/ /\ run.pc = "retire" /\ Put(run.outcome) /\ RunTo("answer")
       /\ UNCHANGED <<opts, ctx, active, cloud, wait, close, faults>>
    \/ /\ run.pc = "answer" /\ active' = FALSE /\ RunTo("over")
       /\ UNCHANGED <<opts, ctx, handle, cloud, wait, close, faults>>

\* "Delete before setResult so handle.Wait returns *after* executor considers it
\* retired."
RetireThenAnswer ==
    \/ /\ run.pc = "retire" /\ active' = FALSE /\ RunTo("answer")
       /\ UNCHANGED <<opts, ctx, handle, cloud, wait, close, faults>>
    \/ /\ run.pc = "answer" /\ Put(run.outcome) /\ RunTo("over")
       /\ UNCHANGED <<opts, ctx, active, cloud, wait, close, faults>>

-----------------------------------------------------------------------------
(* Wait. *)

TakeResult ==
    /\ wait.pc = "waiting" /\ handle.result # "none"
    /\ wait' = [pc |-> "done", got |-> handle.result]
    /\ handle' = [handle EXCEPT !.result = "none"]
    /\ UNCHANGED <<opts, ctx, active, cloud, run, close, faults>>

\* Cancel by the policy, if the operation is known by now; its answer is ignored.
WaitCancels ==
    /\ wait.pc = "waiting" /\ ctx # "live"
    /\ IF ~opts.detached /\ handle.op THEN CancelOperation ELSE UNCHANGED <<cloud, faults>>
    /\ wait' = [wait EXCEPT !.pc = "cancelled"]
    /\ UNCHANGED <<opts, ctx, handle, active, run, close>>

WaitGivesUp ==
    /\ wait.pc = "cancelled"
    /\ SetStatus("cancelled")
    /\ wait' = [wait EXCEPT !.pc = "gave_up"]
    /\ UNCHANGED <<opts, ctx, active, cloud, run, close, faults>>

-----------------------------------------------------------------------------
(* Close, by whoever owns the executor. *)

CloseCancels ==
    /\ close = "idle" /\ active
    /\ IF handle.op THEN CancelOperation ELSE UNCHANGED <<cloud, faults>>
    /\ close' = "status"
    /\ UNCHANGED <<opts, ctx, handle, active, run, wait>>

CloseMarks ==
    /\ close = "status"
    /\ SetStatus("cancelled")
    /\ close' = "result"
    /\ UNCHANGED <<opts, ctx, active, cloud, run, wait, faults>>

CloseAnswers ==
    /\ close = "result"
    /\ Put("closed")
    /\ close' = "waiting"
    /\ UNCHANGED <<opts, ctx, active, cloud, run, wait, faults>>

CloseReturns ==
    /\ close = "waiting" /\ ~active
    /\ close' = "closed"
    /\ UNCHANGED <<opts, ctx, handle, active, cloud, run, wait, faults>>

-----------------------------------------------------------------------------
(* The world. *)

ContextEnds ==
    /\ ctx = "live"
    /\ ctx' \in {"cancelled", "deadline"}
    /\ UNCHANGED <<opts, handle, active, cloud, run, wait, close, faults>>

\* A build has a timeout in Cloud Build.
CloudEnds ==
    /\ \/ cloud = "working" /\ cloud' \in {"succeeded", "failed"}
       \/ cloud = "cancelling" /\ cloud' \in Over
    /\ UNCHANGED <<opts, ctx, handle, active, run, wait, close, faults>>

-----------------------------------------------------------------------------
RunSteps ==
    \/ CreateBuild \/ CreateBuildFails \/ SetOperation \/ MarkRunning
    \/ SeeEnd \/ SeeContextEnd \/ PollFails \/ CancelOwn \/ SeeCancelled
    \/ Upload \/ MarkCompleted \/ RetireThenAnswer
WaitSteps == TakeResult \/ WaitCancels \/ WaitGivesUp
CloseSteps == CloseMarks \/ CloseAnswers \/ CloseReturns

Next == RunSteps \/ WaitSteps \/ CloseCancels \/ CloseSteps \/ ContextEnds \/ CloudEnds

Spec == Init /\ [][Next]_vars

\* Goroutines that can go on do, and Cloud Build ends every build.
FairSpec ==
    /\ Spec
    /\ WF_vars(RunSteps) /\ WF_vars(WaitSteps) /\ WF_vars(CloseSteps) /\ WF_vars(CloudEnds)

-----------------------------------------------------------------------------
(* Properties. *)

TypeOK ==
    /\ opts \in [detached : BOOLEAN, terminate : BOOLEAN]
    /\ ctx \in {"live", "cancelled", "deadline"}
    /\ handle \in [status : {"starting", "running", "completed", "cancelled"},
                   op : BOOLEAN, result : {"none", "success", "error", "closed"}]
    /\ active \in BOOLEAN
    /\ cloud \in {"none", "working", "cancelling"} \cup Over
    /\ run \in [pc : {"create", "created", "running", "watch", "cancel", "rewatch", "upload",
                      "complete", "retire", "answer", "over"},
                outcome : {"none", "success", "error"}]
    /\ wait \in [pc : {"waiting", "cancelled", "done", "gave_up"},
                 got : {"none", "success", "error", "closed"}]
    /\ close \in {"idle", "status", "result", "waiting", "closed"}
    /\ faults \in 0 .. MaxFaults

\* What Wait returns is true, unless it is Close's answer: the executor considers the
\* build retired, and a success is that of the build in Cloud Build, however the
\* context ends and whatever Close puts into the channel meanwhile.
AnswerIsTrue ==
    wait.pc = "done" /\ wait.got # "closed" =>
        /\ ~active
        /\ wait.got = "success" => cloud = "succeeded"

\* A build nobody watches any more and nobody cancelled has a cause: a fault, a request
\* for it that the end of the context cut off, or a deadline that was to leave it alone.
StrayHasCause ==
    run.pc = "over" /\ cloud = "working" =>
        \/ faults > 0
        \/ ctx # "live" /\ ~handle.op
        \/ ctx = "deadline" /\ ~opts.terminate

\* Wait ends once the build was asked for, however that goes, and Close does.
CallsEnd ==
    /\ run.pc # "create" ~> wait.pc \in {"done", "gave_up"}
    /\ close = "status" ~> close = "closed"
=============================================================================
