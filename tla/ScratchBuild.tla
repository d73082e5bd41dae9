----------------------------- MODULE ScratchBuild -----------------------------
(***************************************************************************)
(* The builds of one scratch executor (pkg/build/scratch): build slots,    *)
(* handles, and the commands a build has the scratch VM run one after the  *)
(* other (DockerRunExecutor.runBuild over exec).                           *)
(*                                                                         *)
(* A command that nobody polls any more runs on: there is no way to kill   *)
(* it.  Commands act on the VM's containers as they end.  The operations   *)
(* behind them are the subject of ScratchExec.                             *)
(***************************************************************************)
EXTENDS Naturals, FiniteSets

CONSTANTS
    Builds,
    MaxParallel,  \* slots
    Phases,       \* phase commands of a build
    FaultKinds,   \* the faults that may happen, out of AllFaults
    MaxFaults     \* bound: how many of them

\* A request for a command fails; polling it fails for good or for too long; a command
\* that is none of the build's own fails.
AllFaults == {"create", "poll", "command"}

ScratchBuildAssumption ==
    /\ MaxParallel \in Nat \ {0} /\ Phases \in Nat \ {0}
    /\ FaultKinds \subseteq AllFaults /\ MaxFaults \in Nat

VARIABLES
    build,      \* per build: where it stands, its phase, its error, and its handle
    call,       \* per build: the command it has asked for
    cancelled,  \* the builds whose context is cancelled
    strays,     \* commands that run, or will, and that nobody polls: <<build, command>>
    stranded,   \* was there ever such a command?
    container,  \* the builds whose container is there
    close,      \* where Close stands, and the handles it has yet to cancel
    faults      \* faults so far

vars == <<build, call, cancelled, strays, stranded, container, close, faults>>

-----------------------------------------------------------------------------
Commands == {"prepare", "start", "phase", "stop", "fetch"}
HoldsSlot(b) == build[b].pc \in Commands \cup {"finish", "answer", "release"}
Slots == Cardinality({b \in Builds : HoldsSlot(b)})
Active == {b \in Builds : build[b].pc \notin {"idle", "over"}}

Init ==
    /\ build = [b \in Builds |-> [pc |-> "idle", phase |-> 0, err |-> FALSE,
                                  status |-> "starting", result |-> "none"]]
    /\ call = [b \in Builds |-> "none"]
    /\ cancelled = {} /\ strays = {} /\ stranded = FALSE /\ container = {}
    /\ close = [pc |-> "idle", todo |-> {}]
    /\ faults = 0

Fault(kind) ==
    /\ kind \in FaultKinds
    /\ faults < MaxFaults
    /\ faults' = faults + 1

-----------------------------------------------------------------------------
(* startBuild and executeBuild. *)

\* Nobody starts a build on an executor that is being closed.
Start(b) ==
    /\ build[b].pc = "idle" /\ close.pc = "idle"
    /\ build' = [build EXCEPT ![b].pc = "queue"]
    /\ UNCHANGED <<call, cancelled, strays, stranded, container, close, faults>>

\* Mutant: the slots are not counted.
TakesAnySlot(b) ==
    /\ build[b].pc = "queue"
    /\ build' = [build EXCEPT ![b].pc = "prepare"]
    /\ UNCHANGED <<call, cancelled, strays, stranded, container, close, faults>>

TakeSlot(b) ==
    /\ build[b].pc = "queue" /\ Slots < MaxParallel
    /\ build' = [build EXCEPT ![b].pc = "prepare"]
    /\ UNCHANGED <<call, cancelled, strays, stranded, container, close, faults>>

\* A cancelled build takes a free slot as well as not.
LeaveQueue(b) ==
    /\ build[b].pc = "queue" /\ b \in cancelled
    /\ build' = [build EXCEPT ![b] = [@ EXCEPT !.pc = "over", !.status = "cancelled",
                                                !.result = "error"]]
    /\ UNCHANGED <<call, cancelled, strays, stranded, container, close, faults>>

\* "Cancelled when a failure coincides with build context cancellation, Completed
\* otherwise"
Finish(b) ==
    /\ build[b].pc = "finish"
    /\ build' = [build EXCEPT ![b].pc = "answer",
                     ![b].status = IF build[b].err /\ b \in cancelled THEN "cancelled"
                                   ELSE "completed"]
    /\ UNCHANGED <<call, cancelled, strays, stranded, container, close, faults>>

\* Mutant: an error is returned before a result is set.
AnswersSuccessOnly(b) ==
    /\ build[b].pc = "answer"
    /\ build' = [build EXCEPT ![b].pc = "release",
                     ![b].result = IF build[b].err THEN @ ELSE "success"]
    /\ UNCHANGED <<call, cancelled, strays, stranded, container, close, faults>>

Answer(b) ==
    /\ build[b].pc = "answer"
    /\ build' = [build EXCEPT ![b].pc = "release",
                     ![b].result = IF build[b].err THEN "error" ELSE "success"]
    /\ UNCHANGED <<call, cancelled, strays, stranded, container, close, faults>>

Release(b) ==
    /\ build[b].pc = "release"
    /\ build' = [build EXCEPT ![b].pc = "over"]
    /\ UNCHANGED <<call, cancelled, strays, stranded, container, close, faults>>

-----------------------------------------------------------------------------
(* runBuild: one command after the other. *)

\* "The container is stopped after the phases", whatever became of them, and a stop
\* that fails does no harm.
Moved(b, ok) ==
    LET rec == build[b] IN
    CASE rec.pc \in {"prepare", "start", "fetch"} /\ ~ok ->
             [rec EXCEPT !.pc = "finish", !.err = TRUE]
      [] rec.pc = "prepare" /\ ok -> [rec EXCEPT !.pc = "start"]
      [] rec.pc = "start" /\ ok ->
             [rec EXCEPT !.pc = "phase", !.phase = 1, !.status = "running"]
      [] rec.pc = "phase" /\ ok ->
             IF rec.phase < Phases THEN [rec EXCEPT !.phase = @ + 1]
             ELSE [rec EXCEPT !.pc = "stop"]
      [] rec.pc = "phase" /\ ~ok -> [rec EXCEPT !.pc = "stop", !.err = TRUE]
      [] rec.pc = "stop" -> [rec EXCEPT !.pc = IF rec.err THEN "finish" ELSE "fetch"]
      [] rec.pc = "fetch" /\ ok -> [rec EXCEPT !.pc = "finish"]

Move(b, ok) == build' = [build EXCEPT ![b] = Moved(b, ok)]

\* What a command does to the containers: prepareBuild removes those of all builds.
Effect(b, command) ==
    CASE command = "prepare" -> {}
      [] command = "start" -> container \cup {b}
      [] command = "stop" -> container \ {b}
      [] OTHER -> container

\* The stop and the retrieval have a context of their own.
ContextOver(b) == b \in cancelled /\ build[b].pc \in {"prepare", "start", "phase"}

Strand(b) ==
    /\ strays' = strays \cup {<<b, build[b].pc>>}
    /\ stranded' = TRUE

Ask(b) ==
    /\ build[b].pc \in Commands /\ call[b] = "none" /\ ~ContextOver(b)
    /\ call' = [call EXCEPT ![b] = "asked"]
    /\ UNCHANGED <<build, cancelled, strays, stranded, container, close, faults>>

\* A request with a context that is over is not sent.
AskNot(b) ==
    /\ call[b] = "none" /\ ContextOver(b)
    /\ Move(b, FALSE)
    /\ UNCHANGED <<call, cancelled, strays, stranded, container, close, faults>>

Asked(b) ==
    /\ call[b] = "asked"
    /\ call' = [call EXCEPT ![b] = "running"]
    /\ UNCHANGED <<build, cancelled, strays, stranded, container, close, faults>>

\* Nobody knows whether the request got through.
AskFails(b) ==
    /\ call[b] = "asked"
    /\ \/ ContextOver(b) /\ UNCHANGED faults
       \/ Fault("create")
    /\ \/ Strand(b)
       \/ UNCHANGED <<strays, stranded>>
    /\ call' = [call EXCEPT ![b] = "none"]
    /\ Move(b, FALSE)
    /\ UNCHANGED <<cancelled, container, close>>

\* "Giving up strands the remote command"
StopPolling(b) ==
    /\ call[b] = "running"
    /\ \/ ContextOver(b) /\ UNCHANGED faults
       \/ Fault("poll")
    /\ Strand(b)
    /\ call' = [call EXCEPT ![b] = "none"]
    /\ Move(b, FALSE)
    /\ UNCHANGED <<cancelled, container, close>>

CommandEnds(b) ==
    /\ call[b] = "running"
    /\ build[b].pc = "phase" => b \in container
    /\ container' = Effect(b, build[b].pc)
    /\ call' = [call EXCEPT ![b] = "none"]
    /\ Move(b, TRUE)
    /\ UNCHANGED <<cancelled, strays, stranded, close, faults>>

\* A phase fails for its own reasons, the retrieval for want of an artifact.  A command
\* that fails or is killed may have done what it is for.
CommandFails(b) ==
    /\ call[b] = "running"
    /\ \/ build[b].pc \in {"phase", "fetch"} /\ UNCHANGED faults
       \/ build[b].pc \in {"prepare", "start", "stop"} /\ Fault("command")
    /\ container' \in {container, Effect(b, build[b].pc)}
    /\ call' = [call EXCEPT ![b] = "none"]
    /\ Move(b, FALSE)
    /\ UNCHANGED <<cancelled, strays, stranded, close>>

StrayEnds ==
    \E s \in strays :
        /\ strays' = strays \ {s}
        /\ container' \in {container, Effect(s[1], s[2])}
        /\ UNCHANGED <<build, call, cancelled, stranded, close, faults>>

-----------------------------------------------------------------------------
(* Close, by whoever owns the executor, and the handles' Cancel. *)

CloseBegins ==
    /\ close.pc = "idle"
    /\ close' = [pc |-> "cancel", todo |-> Active]
    /\ UNCHANGED <<build, call, cancelled, strays, stranded, container, faults>>

\* Mutant: the builds in progress are cancelled.
CancelsInProgress(b) ==
    /\ close.pc = "cancel" /\ b \in close.todo
    /\ cancelled' = IF HoldsSlot(b) THEN cancelled \cup {b} ELSE cancelled
    /\ build' = [build EXCEPT ![b].status = "cancelled"]
    /\ close' = [close EXCEPT !.todo = @ \ {b}]
    /\ UNCHANGED <<call, strays, stranded, container, faults>>

CancelHandle(b) ==
    /\ close.pc = "cancel" /\ b \in close.todo
    /\ \/ /\ b \notin cancelled
          /\ cancelled' = cancelled \cup {b}
          /\ UNCHANGED <<build, close>>
       \/ /\ b \in cancelled
          /\ build' = [build EXCEPT ![b].status = "cancelled"]
          /\ close' = [close EXCEPT !.todo = @ \ {b}]
          /\ UNCHANGED cancelled
    /\ UNCHANGED <<call, strays, stranded, container, faults>>

CloseWaits ==
    /\ close.pc = "cancel" /\ close.todo = {}
    /\ Slots = 0
    /\ close' = [close EXCEPT !.pc = "closed"]
    /\ UNCHANGED <<build, call, cancelled, strays, stranded, container, faults>>

-----------------------------------------------------------------------------
Drive(b) ==
    \/ TakeSlot(b) \/ LeaveQueue(b) \/ Finish(b) \/ Answer(b) \/ Release(b)
    \/ Ask(b) \/ AskNot(b) \/ Asked(b) \/ AskFails(b)
    \/ StopPolling(b) \/ CommandEnds(b) \/ CommandFails(b)

CloseSteps == (\E b \in Builds : CancelHandle(b)) \/ CloseWaits

Next ==
    \/ \E b \in Builds : Start(b) \/ Drive(b)
    \/ StrayEnds
    \/ CloseBegins \/ CloseSteps

Spec == Init /\ [][Next]_vars

\* A goroutine that can go on does; a command that is polled ends, by its timeout if
\* by nothing else, and so is answered for.
FairSpec == Spec /\ (\A b \in Builds : WF_vars(Drive(b))) /\ WF_vars(CloseSteps)

-----------------------------------------------------------------------------
(* Properties. *)

TypeOK ==
    /\ build \in [Builds ->
           [pc : Commands \cup {"idle", "queue", "finish", "answer", "release", "over"},
            phase : 0 .. Phases, err : BOOLEAN,
            status : {"starting", "running", "completed", "cancelled"},
            result : {"none", "success", "error"}]]
    /\ call \in [Builds -> {"none", "asked", "running"}]
    /\ cancelled \subseteq Builds
    /\ strays \subseteq Builds \X Commands
    /\ stranded \in BOOLEAN
    /\ container \subseteq Builds
    /\ close \in [pc : {"idle", "cancel", "closed"}, todo : SUBSET Builds]
    /\ faults \in 0 .. MaxFaults

\* One slot and the sweep before each build make the VM that build's own: in its phases
\* its container is there and nobody else's, whatever earlier builds failed at, failed
\* to stop or were cancelled in, unless a command was left running unattended.
OnlyItsContainer ==
    \A b \in Builds : build[b].pc = "phase" /\ ~stranded => container = {b}

\* What Close leaves behind has nothing run any more: a build of the queue that takes a
\* slot after all has no command accepted.
ClosedIsQuiet == close.pc = "closed" => \A b \in Builds : call[b] = "none"

\* A build that was started gets a result, and Close returns.
BuildsEnd ==
    /\ \A b \in Builds : build[b].pc = "queue" ~> build[b].result # "none"
    /\ close.pc = "cancel" ~> close.pc = "closed"
=============================================================================
