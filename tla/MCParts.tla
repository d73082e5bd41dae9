------------------------------- MODULE MCParts -------------------------------
(***************************************************************************)
(* For TLC, in one run: an agent session, and the two executors its        *)
(* iterations build with.  A behaviour is of one of the three parts; the   *)
(* others stay as they are at first.  Two of the parts come with what is   *)
(* proved of them, for PartsProofs.                                        *)
(***************************************************************************)
EXTENDS Naturals

CONSTANTS
    MaxIterations, SessionFaults, MaxSessionFaults,    \* of AgentSession
    CloudFaults, MaxCloudFaults,                       \* of CloudBuild
    Builds, MaxParallel, Phases, ScratchFaults, MaxScratchFaults  \* of ScratchBuild

VARIABLES
    part,
    mode, session, iter, vm, create, agent, handler, complete, sessionFaults,
    opts, ctx, handle, active, cloud, run, wait, cloudClose, cloudFaults,
    build, call, cancelled, strays, stranded, container, scratchClose, scratchFaults

sessionVars == <<mode, session, iter, vm, create, agent, handler, complete, sessionFaults>>
cloudVars == <<opts, ctx, handle, active, cloud, run, wait, cloudClose, cloudFaults>>
scratchVars ==
    <<build, call, cancelled, strays, stranded, container, scratchClose, scratchFaults>>
vars == <<part, sessionVars, cloudVars, scratchVars>>

AS == INSTANCE AgentSessionProofs
          WITH faults <- sessionFaults, FaultKinds <- SessionFaults,
               MaxFaults <- MaxSessionFaults
CB == INSTANCE CloudBuild
          WITH close <- cloudClose, faults <- cloudFaults, FaultKinds <- CloudFaults,
               MaxFaults <- MaxCloudFaults
SB == INSTANCE ScratchBuildProofs
          WITH close <- scratchClose, faults <- scratchFaults, FaultKinds <- ScratchFaults,
               MaxFaults <- MaxScratchFaults

ASSUME PartsAssumption ==
    /\ AS!AgentSessionAssumption
    /\ CB!CloudBuildAssumption
    /\ SB!ScratchBuildAssumption

-----------------------------------------------------------------------------
Init ==
    /\ part \in {"session", "cloud", "scratch"}
    /\ AS!Init /\ CB!Init /\ SB!Init
    /\ part = "session" \/ mode = [scratch |-> TRUE, external |-> FALSE]
    /\ part = "cloud" \/ opts = [detached |-> FALSE, terminate |-> FALSE]

Session(step) == part = "session" /\ step /\ UNCHANGED <<part, cloudVars, scratchVars>>
Cloud(step) == part = "cloud" /\ step /\ UNCHANGED <<part, sessionVars, scratchVars>>
Scratch(step) == part = "scratch" /\ step /\ UNCHANGED <<part, sessionVars, cloudVars>>

Next == Session(AS!Next) \/ Cloud(CB!Next) \/ Scratch(SB!Next)

\* The fairness of the three.
Spec ==
    /\ Init /\ [][Next]_vars
    /\ WF_vars(Session(AS!CreateSteps)) /\ WF_vars(Session(AS!AgentSteps))
    /\ WF_vars(Session(AS!CompleteSteps))
    /\ \A k \in 1 .. MaxIterations : WF_vars(Session(AS!HandlerSteps(k)))
    /\ WF_vars(Cloud(CB!RunSteps)) /\ WF_vars(Cloud(CB!WaitSteps))
    /\ WF_vars(Cloud(CB!CloseSteps)) /\ WF_vars(Cloud(CB!CloudEnds))
    /\ \A b \in Builds : WF_vars(Scratch(SB!Drive(b)))
    /\ WF_vars(Scratch(SB!CloseSteps))

-----------------------------------------------------------------------------
(* The properties of the parts. *)

\* Every part keeps its types.
TypeOK == AS!TypeOK /\ CB!TypeOK /\ SB!TypeOK

\* Iterations have numbers of their own (reserveIteration beside AgentCreate's write).
NumbersAreUnique == AS!NumbersAreUnique

\* The iteration named as a session's success is one (AgentComplete).
SuccessIsRecorded == AS!SuccessIsRecorded

\* A completion of a running session lasts (AgentComplete beside AgentCreate).
CompletionLasts == AS!CompletionLasts

\* A session ends, unless one of the named failures keeps it from it.
SessionEnds == AS!SessionEnds

\* An iteration record gets a result, unless its call failed or died.
IterationEnds == AS!IterationEnds

\* What Wait returns is true of the build in Cloud Build, and of the executor (gcb).
AnswerIsTrue == CB!AnswerIsTrue

\* A build left in Cloud Build, unwatched and uncancelled, has a cause (gcb).
StrayHasCause == CB!StrayHasCause

\* The VM is one build's own while its phases run (scratch).
OnlyItsContainer == SB!OnlyItsContainer

\* After Close nothing is asked of the VM (scratch).
ClosedIsQuiet == SB!ClosedIsQuiet

\* Wait and Close return, whichever executor it is, and a build that was started gets
\* a result.
BuildsEnd == CB!CallsEnd /\ SB!BuildsEnd
=============================================================================
