----------------------------- MODULE AgentSession -----------------------------
(***************************************************************************)
(* One agent session: AgentCreate (internal/api/apiservice), the agent it  *)
(* launches (internal/agent), AgentCreateIteration and AgentComplete       *)
(* (internal/api/agentapiservice), over the session and iteration records  *)
(* and the session's scratch VM.                                           *)
(*                                                                         *)
(* AgentCreate writes the whole record it holds, at a time when the agent  *)
(* may already be running; the other two change it in transactions.  What  *)
(* the model proposes and what a build yields is a choice.  The scratch is *)
(* reduced to whether it is up: ScratchVM and ScratchExec have the rest.   *)
(***************************************************************************)
EXTENDS Integers

CONSTANTS
    MaxIterations,  \* req.MaxIterations
    FaultKinds,     \* the faults that may happen, out of AllFaults
    MaxFaults       \* bound: how many of them

AllFaults == {"db", "crash", "scratch", "launch", "launch_reply_lost", "answer_lost", "vm_delete"}

AgentSessionAssumption ==
    /\ MaxIterations \in Nat \ {0}
    /\ FaultKinds \subseteq AllFaults
    /\ MaxFaults \in Nat

VARIABLES
    mode,      \* of the request: is the execution on a scratch? is the agent external?
    session,   \* the session record
    iter,      \* the iteration records, by the attempt of the agent they are for
    vm,        \* the session's scratch VM
    create,    \* where AgentCreate stands
    agent,     \* where the agent stands
    handler,   \* where each AgentCreateIteration stands
    complete,  \* where AgentComplete stands
    faults     \* faults so far

vars == <<mode, session, iter, vm, create, agent, handler, complete, faults>>

-----------------------------------------------------------------------------
Tries == 1 .. MaxIterations

\* count: IterationCount.  scratch: is ScratchID set?  success: SuccessIteration.
NoSession == [status |-> "none", count |-> 0, scratch |-> FALSE, success |-> 0]

Init ==
    /\ mode \in [scratch : BOOLEAN, external : BOOLEAN]
    /\ session = NoSession
    /\ iter = [k \in Tries |-> [number |-> 0, status |-> "none"]]
    /\ vm = "none"
    /\ create = "insert"
    /\ agent = [pc |-> "none", try |-> 0, success |-> 0]
    /\ handler = [k \in Tries |-> [pc |-> "idle", number |-> 0, result |-> "none"]]
    /\ complete = [pc |-> "idle", before |-> "none", scratch |-> FALSE]
    /\ faults = 0

Fault(kind) ==
    /\ kind \in FaultKinds
    /\ faults < MaxFaults
    /\ faults' = faults + 1

\* A write that fails may have been applied all the same.
SessionWriteFails(write) == Fault("db") /\ (write \/ UNCHANGED session)
IterWriteFails(write) == Fault("db") /\ (write \/ UNCHANGED iter)

\* Best effort everywhere: a failure is logged and left to the idle reaper.
ReleaseScratch ==
    \/ vm' = "gone" /\ UNCHANGED faults
    \/ Fault("vm_delete") /\ UNCHANGED vm

-----------------------------------------------------------------------------
(* AgentCreate. *)

\* The record AgentCreate holds; it writes all of it.
Copy(status) ==
    [NoSession EXCEPT !.status = status, !.scratch = (vm # "none")]

InsertSession ==
    /\ create = "insert"
    /\ \/ /\ session' = Copy("initializing") /\ UNCHANGED faults
          /\ create' = IF mode.scratch THEN "scratch" ELSE "launch"
       \/ /\ SessionWriteFails(session' = Copy("initializing"))
          /\ create' = "failed"
    /\ UNCHANGED <<mode, iter, vm, agent, handler, complete>>

CreateScratch ==
    /\ create = "scratch"
    /\ \/ vm' = "up" /\ create' = "launch" /\ UNCHANGED faults
       \/ Fault("scratch") /\ create' = "give_up" /\ UNCHANGED vm
    /\ UNCHANGED <<mode, session, iter, agent, handler, complete>>

\* "Without a terminal update it would sit INITIALIZING forever"
GiveUp ==
    /\ create = "give_up"
    /\ \/ session' = Copy("completed") /\ UNCHANGED faults
       \/ SessionWriteFails(session' = Copy("completed"))
    /\ create' = "failed"
    /\ UNCHANGED <<mode, iter, vm, agent, handler, complete>>

StartAgent == agent' = [agent EXCEPT !.pc = "iterate"]

\* An external agent is started by the caller, once it has the answer.  An
\* operation that names no execution does not stop the call.
Launch ==
    /\ create = "launch"
    /\ IF mode.external THEN UNCHANGED agent ELSE StartAgent
    /\ create' = "mark_running"
    /\ UNCHANGED <<mode, session, iter, vm, handler, complete, faults>>

LaunchFails ==
    /\ create = "launch" /\ ~mode.external
    /\ \/ Fault("launch") /\ UNCHANGED agent
       \/ Fault("launch_reply_lost") /\ StartAgent
    /\ create' = IF mode.scratch THEN "release" ELSE "failed"
    /\ UNCHANGED <<mode, session, iter, vm, handler, complete>>

\* Mutant: the scratch is left out of the record.
MarksWithoutScratch ==
    /\ create = "mark_running"
    /\ session' = [Copy("running") EXCEPT !.scratch = FALSE]
    /\ create' = "answered"
    /\ UNCHANGED <<mode, iter, vm, agent, handler, complete, faults>>

MarkRunning ==
    /\ create = "mark_running"
    /\ session' = Copy("running")
    /\ create' = "answered"
    /\ UNCHANGED <<mode, iter, vm, agent, handler, complete, faults>>

MarkRunningFails ==
    /\ create = "mark_running"
    /\ SessionWriteFails(session' = Copy("running"))
    /\ create' = IF mode.external /\ mode.scratch THEN "release" ELSE "failed"
    /\ UNCHANGED <<mode, iter, vm, agent, handler, complete>>

Release ==
    /\ create = "release"
    /\ ReleaseScratch
    /\ create' = "failed"
    /\ UNCHANGED <<mode, session, iter, agent, handler, complete>>

CreateDies ==
    /\ create \notin {"insert", "answered", "failed", "died"}
    /\ Fault("crash")
    /\ create' = "died"
    /\ UNCHANGED <<mode, session, iter, vm, agent, handler, complete>>

ExternalAgentStarts ==
    /\ mode.external /\ create = "answered" /\ agent.pc = "none"
    /\ StartAgent
    /\ UNCHANGED <<mode, session, iter, vm, create, handler, complete, faults>>

-----------------------------------------------------------------------------
(* The agent: doSession and RunSession. *)

\* Nothing to build, a model call that fails, or a local attempt on the scratch
\* that does not succeed: none reaches the iteration handler.
TryLocally ==
    /\ agent.pc = "iterate" /\ agent.try < MaxIterations
    /\ agent' = [agent EXCEPT !.try = @ + 1]
    /\ UNCHANGED <<mode, session, iter, vm, create, handler, complete, faults>>

TryIteration ==
    /\ agent.pc = "iterate" /\ agent.try < MaxIterations
    /\ agent' = [agent EXCEPT !.try = @ + 1, !.pc = "waiting"]
    /\ handler' = [handler EXCEPT ![agent.try + 1].pc = "reserve"]
    /\ UNCHANGED <<mode, session, iter, vm, create, complete, faults>>

\* Mutant: the agent believes every iteration that was answered.
BelievesAnswer ==
    /\ agent.pc = "waiting"
    /\ handler[agent.try].pc = "answered"
    /\ agent' = [agent EXCEPT !.pc = "complete", !.success = agent.try]
    /\ UNCHANGED <<mode, session, iter, vm, create, handler, complete, faults>>

HearAnswer ==
    /\ agent.pc = "waiting"
    /\ \/ /\ handler[agent.try].pc = "answered" /\ handler[agent.try].result = "success"
          /\ agent' = [agent EXCEPT !.pc = "complete", !.success = agent.try]
       \/ /\ handler[agent.try].pc = "answered" /\ handler[agent.try].result # "success"
          /\ agent' = [agent EXCEPT !.pc = "iterate"]
       \/ /\ handler[agent.try].pc \in {"failed", "died"}
          /\ agent' = [agent EXCEPT !.pc = "iterate"]
    /\ UNCHANGED <<mode, session, iter, vm, create, handler, complete, faults>>

\* The connection breaks; the handler may go on.
LoseAnswer ==
    /\ agent.pc = "waiting" /\ Fault("answer_lost")
    /\ agent' = [agent EXCEPT !.pc = "iterate"]
    /\ UNCHANGED <<mode, session, iter, vm, create, handler, complete>>

\* Mutant: an agent that cannot go on exits without a completion.
ExitsSilently ==
    /\ agent.pc = "iterate"
    /\ agent' = [agent EXCEPT !.pc = "over"]
    /\ UNCHANGED <<mode, session, iter, vm, create, handler, complete, faults>>

\* Iterations used up, or the agent cannot go on; a completion names no iteration.
StopTrying ==
    /\ agent.pc = "iterate"
    /\ agent' = [agent EXCEPT !.pc = "complete"]
    /\ UNCHANGED <<mode, session, iter, vm, create, handler, complete, faults>>

\* The job reaches its timeout or is killed.
AgentDies ==
    /\ agent.pc \in {"iterate", "waiting", "complete"}
    /\ Fault("crash")
    /\ agent' = [agent EXCEPT !.pc = "died"]
    /\ UNCHANGED <<mode, session, iter, vm, create, handler, complete>>

-----------------------------------------------------------------------------
(* AgentCreateIteration. *)

To(k, where) == handler' = [handler EXCEPT ![k].pc = where]

\* Mutant: the function of the transaction runs twice on one record.
CountsTwice(k) ==
    /\ session' = [session EXCEPT !.count = @ + 2]
    /\ handler' = [handler EXCEPT ![k].pc = "insert", ![k].number = session.count + 1]

Reserved(k) ==
    /\ session' = [session EXCEPT !.count = @ + 1]
    /\ handler' = [handler EXCEPT ![k].pc = "insert", ![k].number = session.count + 1]

\* Mutant: a session that is not yet running takes iterations.
ReservesEarly(k) ==
    /\ handler[k].pc = "reserve"
    /\ IF session.status # "completed" /\ session.count < MaxIterations
       THEN Reserved(k)
       ELSE To(k, "failed") /\ UNCHANGED session
    /\ UNCHANGED <<mode, iter, vm, create, agent, complete, faults>>

\* reserveIteration, in a transaction.
Reserve(k) ==
    /\ handler[k].pc = "reserve"
    /\ IF session.status = "running" /\ session.count < MaxIterations
       THEN Reserved(k)
       ELSE To(k, "failed") /\ UNCHANGED session
    /\ UNCHANGED <<mode, iter, vm, create, agent, complete, faults>>

ReserveFails(k) ==
    /\ handler[k].pc = "reserve"
    /\ SessionWriteFails(
         /\ session.status = "running" /\ session.count < MaxIterations
         /\ session' = [session EXCEPT !.count = @ + 1])
    /\ To(k, "failed")
    /\ UNCHANGED <<mode, iter, vm, create, agent, complete>>

Record(k, status) ==
    iter' = [iter EXCEPT ![k] = [number |-> handler[k].number, status |-> status]]

\* The three writes of the iteration record; each error ends the call and leaves
\* the record as it is, or as the write would have it.
WriteIter(k, at, status, next) ==
    /\ handler[k].pc = at
    /\ \/ Record(k, status) /\ To(k, next) /\ UNCHANGED faults
       \/ IterWriteFails(Record(k, status)) /\ To(k, "failed")
    /\ UNCHANGED <<mode, session, vm, create, agent, complete>>

InsertIteration(k) == WriteIter(k, "insert", "pending", "start")
MarkBuilding(k) == WriteIter(k, "mark_building", "building", "build")

\* Mutant: the result is not written to an iteration of a completed session.
DropsLateResult(k) ==
    /\ handler[k].pc = "result"
    /\ IF session.status = "completed" THEN UNCHANGED iter ELSE Record(k, handler[k].result)
    /\ To(k, "answered")
    /\ UNCHANGED <<mode, session, vm, create, agent, complete, faults>>

WriteResult(k) == WriteIter(k, "result", handler[k].result, "answered")

StartBuild(k) ==
    /\ handler[k].pc = "start"
    /\ \/ To(k, "mark_building")
       \/ To(k, "failed")
    /\ UNCHANGED <<mode, session, iter, vm, create, agent, complete, faults>>

\* The build and the comparison have a result; or the comparison fails, which is
\* an error of the call and not of the iteration.
AwaitBuild(k) ==
    /\ handler[k].pc = "build"
    /\ \/ \E result \in {"success", "failed", "error"} :
            handler' = [handler EXCEPT ![k].pc = "result", ![k].result = result]
       \/ To(k, "failed")
    /\ UNCHANGED <<mode, session, iter, vm, create, agent, complete, faults>>

HandlerDies(k) ==
    /\ handler[k].pc \in {"reserve", "insert", "start", "mark_building", "build", "result"}
    /\ Fault("crash")
    /\ To(k, "died")
    /\ UNCHANGED <<mode, session, iter, vm, create, agent, complete>>

-----------------------------------------------------------------------------
(* AgentComplete, called once by the agent. *)

Completed ==
    IF session.status = "completed" THEN session
    ELSE [session EXCEPT !.status = "completed",
             !.success = IF agent.success = 0 THEN @ ELSE agent.success]

MarkCompleted ==
    /\ agent.pc = "complete" /\ complete.pc = "idle"
    /\ session' = Completed
    /\ complete' = [pc |-> "teardown", before |-> session.status, scratch |-> session.scratch]
    /\ UNCHANGED <<mode, iter, vm, create, agent, handler, faults>>

MarkCompletedFails ==
    /\ agent.pc = "complete" /\ complete.pc = "idle"
    /\ SessionWriteFails(session' = Completed)
    /\ complete' = [complete EXCEPT !.pc = "failed"]
    /\ agent' = [agent EXCEPT !.pc = "over"]
    /\ UNCHANGED <<mode, iter, vm, create, handler>>

\* The agent hears how its call ended, or that it broke, and exits.
AgentHearsEnd == agent' = IF agent.pc = "complete" THEN [agent EXCEPT !.pc = "over"] ELSE agent

Teardown ==
    /\ complete.pc = "teardown"
    /\ IF complete.scratch THEN ReleaseScratch ELSE UNCHANGED <<vm, faults>>
    /\ complete' = [complete EXCEPT !.pc = "done"]
    /\ AgentHearsEnd
    /\ UNCHANGED <<mode, session, iter, create, handler>>

\* The session is completed and its scratch is left to the idle reaper.
CompleteDies ==
    /\ complete.pc = "teardown"
    /\ Fault("crash")
    /\ complete' = [complete EXCEPT !.pc = "died"]
    /\ AgentHearsEnd
    /\ UNCHANGED <<mode, session, iter, vm, create, handler>>

\* The idle reaper takes a scratch nobody uses any more.
ReapIdle ==
    /\ vm = "up" /\ agent.pc \in {"none", "over", "died"}
    /\ create \in {"answered", "failed", "died"}
    /\ vm' = "gone"
    /\ UNCHANGED <<mode, session, iter, create, agent, handler, complete, faults>>

-----------------------------------------------------------------------------
CreateSteps ==
    \/ InsertSession \/ CreateScratch \/ GiveUp \/ Launch \/ LaunchFails
    \/ MarkRunning \/ MarkRunningFails \/ Release
AgentSteps ==
    \/ TryLocally \/ TryIteration \/ HearAnswer \/ StopTrying
CompleteSteps == MarkCompleted \/ MarkCompletedFails \/ Teardown
HandlerSteps(k) ==
    \/ Reserve(k) \/ ReserveFails(k) \/ InsertIteration(k) \/ StartBuild(k)
    \/ MarkBuilding(k) \/ AwaitBuild(k) \/ WriteResult(k)

Next ==
    \/ CreateSteps \/ CreateDies \/ ExternalAgentStarts
    \/ AgentSteps \/ LoseAnswer \/ AgentDies
    \/ CompleteSteps \/ CompleteDies \/ ReapIdle
    \/ \E k \in Tries : HandlerSteps(k) \/ HandlerDies(k)

Spec == Init /\ [][Next]_vars

\* A process that runs goes on: a build is bounded by the timeout of Cloud Build,
\* and an agent that makes no progress by that of its job.
FairSpec ==
    /\ Spec
    /\ WF_vars(CreateSteps) /\ WF_vars(AgentSteps) /\ WF_vars(CompleteSteps)
    /\ \A k \in Tries : WF_vars(HandlerSteps(k))

-----------------------------------------------------------------------------
(* Properties. *)

TypeOK ==
    /\ mode \in [scratch : BOOLEAN, external : BOOLEAN]
    /\ session \in [status : {"none", "initializing", "running", "completed"},
                    count : 0 .. MaxIterations, scratch : BOOLEAN, success : 0 .. MaxIterations]
    /\ iter \in [Tries -> [number : 0 .. MaxIterations,
          status : {"none", "pending", "building", "success", "failed", "error"}]]
    /\ vm \in {"none", "up", "gone"}
    /\ create \in {"insert", "scratch", "give_up", "launch", "mark_running", "release",
                   "answered", "failed", "died"}
    /\ agent \in [pc : {"none", "iterate", "waiting", "complete", "over", "died"},
                  try : 0 .. MaxIterations, success : 0 .. MaxIterations]
    /\ handler \in [Tries ->
          [pc : {"idle", "reserve", "insert", "start", "mark_building", "build", "result",
                 "answered", "failed", "died"},
           number : 0 .. MaxIterations,
           result : {"none", "success", "failed", "error"}]]
    /\ complete \in [pc : {"idle", "teardown", "done", "failed", "died"},
                     before : {"none", "initializing", "running", "completed"},
                     scratch : BOOLEAN]
    /\ faults \in 0 .. MaxFaults

\* The iterations of a session have numbers of their own, whatever call fails and
\* although AgentCreate writes a record whose count is zero: reserveIteration
\* takes nothing before that write.
NumbersAreUnique ==
    \A k, m \in Tries :
        k # m /\ iter[k].status # "none" /\ iter[m].status # "none"
        => iter[k].number # iter[m].number

\* The iteration a session names as its success is recorded as one: the answer the
\* agent acts on comes after the last write.
SuccessIsRecorded == session.success # 0 => iter[session.success].status = "success"

\* A completion of a running session lasts, and its scratch is released unless the
\* delete failed or AgentComplete died before it.  One that comes before AgentCreate's last write does neither: the
\* write makes the session running again, and the teardown knew of no scratch.
CompletionLasts ==
    complete.pc \in {"done", "died"} /\ complete.before = "running" =>
        /\ session.status = "completed"
        /\ vm = "up" => faults > 0

\* A session ends, unless AgentCreate failed or died, or the agent died, could not
\* write the completion, or completed before AgentCreate's last write, or the caller
\* never starts the external agent.
SessionEnds ==
    session.status # "none" ~>
        \/ session.status = "completed"
        \/ create \in {"failed", "died"} \/ agent.pc = "died"
        \/ complete.pc = "failed" \/ complete.before = "initializing"
        \/ mode.external /\ agent.pc = "none" /\ create = "answered"

\* An iteration record gets a result unless its call failed or died, whatever the
\* agent does meanwhile, and even if the session is completed.
IterationEnds ==
    \A k \in Tries : iter[k].status = "pending" ~>
        \/ iter[k].status \in {"success", "failed", "error"}
        \/ handler[k].pc \in {"failed", "died"}
=============================================================================
