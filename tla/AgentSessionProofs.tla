--------------------------- MODULE AgentSessionProofs ---------------------------
(***************************************************************************)
(* What AgentCreate, AgentCreateIteration and AgentComplete achieve on one *)
(* session record without a lock, proved for any number of iterations and  *)
(* faults.                                                                 *)
(*                                                                         *)
(* The argument: AgentCreate writes its copy of the record only while it   *)
(* is Early, and while it is, the session is not running, so that nothing  *)
(* was reserved and no completion has found it running.  Afterwards the    *)
(* count only grows and a completion is final.                             *)
(***************************************************************************)
EXTENDS AgentSession, TLAPS

\* AgentCreate may still write its copy of the record.
Early == {"insert", "scratch", "give_up", "launch", "mark_running"}

Numbering ==
    /\ create \in Early =>
        /\ session.status # "running" /\ session.count = 0
        /\ \A k \in Tries : handler[k].number = 0
    /\ \A k \in Tries :
        /\ k > agent.try => handler[k].pc = "idle"
        /\ handler[k].pc \in {"idle", "reserve"} =>
            handler[k].number = 0 /\ iter[k].status = "none"
        /\ handler[k].pc \notin {"idle", "reserve", "failed", "died"} => handler[k].number # 0
        /\ handler[k].number <= session.count
        /\ iter[k].status # "none" => iter[k].number = handler[k].number /\ handler[k].number # 0
    /\ \A k, m \in Tries :
        k # m /\ handler[k].number # 0 => handler[k].number # handler[m].number

Naming ==
    /\ \A k \in Tries : handler[k].pc = "answered" => iter[k].status = handler[k].result
    /\ agent.success # 0 =>
        /\ agent.pc \in {"complete", "over", "died"}
        /\ handler[agent.success].pc = "answered"
        /\ handler[agent.success].result = "success"
    /\ session.success # 0 => session.success = agent.success
    /\ create \in {"insert", "scratch", "give_up", "launch"} => agent.pc = "none"

Lasting ==
    /\ create \in Early => session.status # "running"
    /\ session.status = "running" /\ vm = "up" => session.scratch
    /\ complete.before = "running" => create \notin Early /\ session.status = "completed"
    /\ complete.before = "running" /\ complete.pc = "teardown" /\ vm = "up" => complete.scratch
    /\ CompletionLasts

IndInv == TypeOK /\ Numbering /\ Naming /\ Lasting

-----------------------------------------------------------------------------
Statuses == {"none", "initializing", "running", "completed"}
Sessions == [status : Statuses, count : 0 .. MaxIterations, scratch : BOOLEAN,
             success : 0 .. MaxIterations]
Iterations == [number : 0 .. MaxIterations,
               status : {"none", "pending", "building", "success", "failed", "error"}]
AgentPCs == {"none", "iterate", "waiting", "complete", "over", "died"}
Agents == [pc : AgentPCs, try : 0 .. MaxIterations, success : 0 .. MaxIterations]
HandlerPCs == {"idle", "reserve", "insert", "start", "mark_building", "build", "result",
               "answered", "failed", "died"}
Results == {"none", "success", "failed", "error"}
Handlers == [pc : HandlerPCs, number : 0 .. MaxIterations, result : Results]
Completions == [pc : {"idle", "teardown", "done", "failed", "died"}, before : Statuses,
                scratch : BOOLEAN]
CreatePCs == {"insert", "scratch", "give_up", "launch", "mark_running", "release",
              "answered", "failed", "died"}

\* TypeOK with its sets named.
Typed ==
    /\ mode \in [scratch : BOOLEAN, external : BOOLEAN]
    /\ session \in Sessions
    /\ iter \in [Tries -> Iterations]
    /\ vm \in {"none", "up", "gone"}
    /\ create \in CreatePCs
    /\ agent \in Agents
    /\ handler \in [Tries -> Handlers]
    /\ complete \in Completions
    /\ faults \in 0 .. MaxFaults

LEMMA TypedIsTypeOK == (TypeOK <=> Typed) /\ (TypeOK' <=> Typed')
    BY DEF TypeOK, Typed, Statuses, Sessions, Iterations, AgentPCs, Agents, HandlerPCs, Results,
           Handlers, Completions, CreatePCs

LEMMA FaultType ==
    ASSUME Typed, AgentSessionAssumption, NEW kind, Fault(kind)
    PROVE  faults' \in 0 .. MaxFaults /\ faults' > 0
    BY DEF Typed, Fault, AgentSessionAssumption

LEMMA SessionRecord ==
    ASSUME NEW status \in Statuses, NEW c \in 0 .. MaxIterations, NEW b \in BOOLEAN,
           NEW n \in 0 .. MaxIterations
    PROVE  [status |-> status, count |-> c, scratch |-> b, success |-> n] \in Sessions
    BY DEF Sessions

LEMMA CopyIs ==
    ASSUME NEW status
    PROVE  Copy(status) = [status |-> status, count |-> 0, scratch |-> (vm # "none"), success |-> 0]
<1>1. CASE vm = "none"
    <2>1. (vm # "none") = FALSE
        BY <1>1
    <2>2. Copy(status) = [NoSession EXCEPT !.status = status, !.scratch = FALSE]
        BY <1>1, Zenon DEF Copy
    <2>3. Copy(status) = [status |-> status, count |-> 0, scratch |-> FALSE, success |-> 0]
        BY <2>2, Zenon DEF NoSession
    <2>. QED BY <2>1, <2>3
<1>2. CASE vm # "none"
    <2>1. (vm # "none") = TRUE
        BY <1>2
    <2>2. Copy(status) = [NoSession EXCEPT !.status = status, !.scratch = TRUE]
        BY <1>2, Zenon DEF Copy
    <2>3. Copy(status) = [status |-> status, count |-> 0, scratch |-> TRUE, success |-> 0]
        BY <2>2, Zenon DEF NoSession
    <2>. QED BY <2>1, <2>3
<1>. QED BY <1>1, <1>2

LEMMA CopyType ==
    ASSUME NEW status \in Statuses, AgentSessionAssumption
    PROVE  /\ Copy(status) \in Sessions
           /\ Copy(status).status = status
           /\ Copy(status).count = 0
           /\ Copy(status).success = 0
           /\ Copy(status).scratch = (vm # "none")
<1>1. PICK b \in BOOLEAN : b = (vm # "none")
    OBVIOUS
<1>2. Copy(status) = [status |-> status, count |-> 0, scratch |-> b, success |-> 0]
    BY <1>1, CopyIs
<1>3. Copy(status) \in Sessions
    BY <1>2, SessionRecord DEF AgentSessionAssumption
<1>4. Copy(status).status = status /\ Copy(status).count = 0 /\ Copy(status).success = 0
    BY CopyIs
<1>5. Copy(status).scratch = (vm # "none")
    BY CopyIs, Zenon
<1>. QED BY <1>3, <1>4, <1>5

\* What the writes of the session other than AgentCreate's leave alone.
LEMMA CountEffect ==
    ASSUME Typed, AgentSessionAssumption, session.count < MaxIterations,
           session' = [session EXCEPT !.count = @ + 1]
    PROVE  /\ session' \in Sessions
           /\ session'.count = session.count + 1
           /\ session'.status = session.status
           /\ session'.scratch = session.scratch
           /\ session'.success = session.success
<1>1. session \in Sessions /\ session.count + 1 \in 0 .. MaxIterations
    BY DEF Typed, Sessions, AgentSessionAssumption
<1>. QED BY <1>1, Zenon DEF Sessions

LEMMA CompletedEffect ==
    ASSUME Typed, session' = Completed
    PROVE  /\ session' \in Sessions
           /\ session'.status = "completed"
           /\ session'.count = session.count
           /\ session'.scratch = session.scratch
           /\ session'.success \in {session.success, agent.success}
<1>1. session \in Sessions /\ agent.success \in 0 .. MaxIterations
    BY DEF Typed, Agents
<1>2. CASE session.status = "completed"
    BY <1>1, <1>2 DEF Completed
<1>3. CASE session.status # "completed"
    <2>1. session' = [session EXCEPT !.status = "completed",
             !.success = IF agent.success = 0 THEN session.success ELSE agent.success]
        BY <1>3 DEF Completed
    <2>2. session.success \in 0 .. MaxIterations /\ "completed" \in Statuses
        BY <1>1 DEF Sessions, Statuses
    <2>3. PICK n \in {session.success, agent.success} :
             session' = [session EXCEPT !.status = "completed", !.success = n]
        BY <2>1
    <2>4. n \in 0 .. MaxIterations
        BY <1>1, <2>2, <2>3
    <2>. QED BY <1>1, <2>2, <2>3, <2>4, Zenon DEF Sessions
<1>. QED BY <1>2, <1>3

LEMMA NextTry ==
    ASSUME Typed, AgentSessionAssumption, agent.try < MaxIterations
    PROVE  agent.try + 1 \in Tries
    BY DEF Tries, Typed, Agents, AgentSessionAssumption

LEMMA AgentGoes ==
    ASSUME Typed, NEW where \in AgentPCs, agent' = [agent EXCEPT !.pc = where]
    PROVE  /\ agent' \in Agents
           /\ agent'.pc = where
           /\ agent'.try = agent.try
           /\ agent'.success = agent.success
    BY DEF Typed, Agents

LEMMA AgentTries ==
    ASSUME Typed, AgentSessionAssumption, agent.try < MaxIterations, NEW where \in AgentPCs,
           agent' = [agent EXCEPT !.try = @ + 1, !.pc = where]
    PROVE  /\ agent' \in Agents
           /\ agent'.pc = where
           /\ agent'.try = agent.try + 1
           /\ agent'.success = agent.success
<1>1. agent \in Agents /\ agent.try + 1 \in 0 .. MaxIterations
    BY DEF Typed, Agents, AgentSessionAssumption
<1>. QED BY <1>1 DEF Agents

LEMMA AgentTry ==
    ASSUME Typed, AgentSessionAssumption, agent.try < MaxIterations,
           agent' = [agent EXCEPT !.try = @ + 1]
    PROVE  /\ agent' \in Agents
           /\ agent'.pc = agent.pc
           /\ agent'.try = agent.try + 1
           /\ agent'.success = agent.success
<1>1. agent \in Agents /\ agent.try + 1 \in 0 .. MaxIterations
    BY DEF Typed, Agents, AgentSessionAssumption
<1>. QED BY <1>1 DEF Agents

LEMMA AgentNames ==
    ASSUME Typed, agent' = [agent EXCEPT !.pc = "complete", !.success = agent.try]
    PROVE  /\ agent' \in Agents
           /\ agent'.pc = "complete"
           /\ agent'.try = agent.try
           /\ agent'.success = agent.try
    BY DEF Typed, Agents, AgentPCs

\* The record of every other call stays as it is, and so does what is not named.
LEMMA ToEffect ==
    ASSUME Typed, NEW k \in Tries, NEW where \in HandlerPCs,
           handler' = [handler EXCEPT ![k].pc = where]
    PROVE  /\ handler' \in [Tries -> Handlers]
           /\ handler'[k].pc = where
           /\ handler'[k].number = handler[k].number
           /\ handler'[k].result = handler[k].result
           /\ \A m \in Tries : m # k => handler'[m] = handler[m]
<1>1. handler \in [Tries -> Handlers]
    BY DEF Typed
<1>2. [handler[k] EXCEPT !.pc = where] \in Handlers
    BY <1>1 DEF Handlers
<1>3. handler' = [handler EXCEPT ![k] = [handler[k] EXCEPT !.pc = where]]
    BY <1>1
<1>4. handler'[k] = [handler[k] EXCEPT !.pc = where] /\ handler[k] \in Handlers
    BY <1>1, <1>3
<1>. QED BY <1>1, <1>2, <1>3, <1>4 DEF Handlers

LEMMA ReservedEffect ==
    ASSUME Typed, AgentSessionAssumption, session.count < MaxIterations, NEW k \in Tries,
           Reserved(k)
    PROVE  /\ handler' \in [Tries -> Handlers]
           /\ handler'[k].pc = "insert"
           /\ handler'[k].number = session.count + 1
           /\ handler'[k].result = handler[k].result
           /\ \A m \in Tries : m # k => handler'[m] = handler[m]
<1>1. handler \in [Tries -> Handlers] /\ session.count + 1 \in 0 .. MaxIterations
    BY DEF Typed, Sessions, AgentSessionAssumption
<1>2. [handler[k] EXCEPT !.pc = "insert", !.number = session.count + 1] \in Handlers
    BY <1>1 DEF Handlers, HandlerPCs
<1>3. handler' = [handler EXCEPT ![k] = [handler[k] EXCEPT !.pc = "insert",
                                                           !.number = session.count + 1]]
    BY <1>1 DEF Reserved
<1>4. /\ handler'[k] = [handler[k] EXCEPT !.pc = "insert", !.number = session.count + 1]
      /\ handler[k] \in Handlers
    BY <1>1, <1>3
<1>. QED BY <1>1, <1>2, <1>3, <1>4 DEF Handlers

LEMMA ResultEffect ==
    ASSUME Typed, NEW k \in Tries, NEW result \in Results,
           handler' = [handler EXCEPT ![k].pc = "result", ![k].result = result]
    PROVE  /\ handler' \in [Tries -> Handlers]
           /\ handler'[k].pc = "result"
           /\ handler'[k].number = handler[k].number
           /\ handler'[k].result = result
           /\ \A m \in Tries : m # k => handler'[m] = handler[m]
<1>1. handler \in [Tries -> Handlers]
    BY DEF Typed
<1>2. [handler[k] EXCEPT !.pc = "result", !.result = result] \in Handlers
    BY <1>1 DEF Handlers, HandlerPCs
<1>3. handler' = [handler EXCEPT ![k] = [handler[k] EXCEPT !.pc = "result", !.result = result]]
    BY <1>1
<1>4. /\ handler'[k] = [handler[k] EXCEPT !.pc = "result", !.result = result]
      /\ handler[k] \in Handlers
    BY <1>1, <1>3
<1>. QED BY <1>1, <1>2, <1>3, <1>4 DEF Handlers

LEMMA RecordEffect ==
    ASSUME Typed, NEW k \in Tries,
           NEW status \in {"none", "pending", "building", "success", "failed", "error"},
           Record(k, status)
    PROVE  /\ iter' \in [Tries -> Iterations]
           /\ iter'[k].number = handler[k].number
           /\ iter'[k].status = status
           /\ \A m \in Tries : m # k => iter'[m] = iter[m]
<1>1. iter \in [Tries -> Iterations] /\ handler[k].number \in 0 .. MaxIterations
    BY DEF Typed, Handlers
<1>2. [number |-> handler[k].number, status |-> status] \in Iterations
    BY <1>1 DEF Iterations
<1>3. iter' = [iter EXCEPT ![k] = [number |-> handler[k].number, status |-> status]]
    BY DEF Record
<1>. QED BY <1>1, <1>2, <1>3

\* The three writes of an iteration record, whether they are applied, reported, or not.
LEMMA WriteEffect ==
    ASSUME Typed, AgentSessionAssumption, NEW k \in Tries, NEW at,
           NEW status \in {"none", "pending", "building", "success", "failed", "error"},
           NEW next \in HandlerPCs,
           WriteIter(k, at, status, next)
    PROVE  /\ handler[k].pc = at
           /\ handler' \in [Tries -> Handlers]
           /\ iter' \in [Tries -> Iterations]
           /\ handler'[k].number = handler[k].number
           /\ handler'[k].result = handler[k].result
           /\ handler'[k].pc \in {next, "failed"}
           /\ \/ iter'[k].number = handler[k].number /\ iter'[k].status = status
              \/ iter'[k] = iter[k] /\ handler'[k].pc = "failed"
           /\ \A m \in Tries : m # k => iter'[m] = iter[m] /\ handler'[m] = handler[m]
           /\ faults' \in 0 .. MaxFaults /\ faults' >= faults
           /\ UNCHANGED <<mode, session, vm, create, agent, complete>>
<1>1. CASE Record(k, status) /\ To(k, next) /\ UNCHANGED faults
    <2>1. handler' = [handler EXCEPT ![k].pc = next]
        BY <1>1 DEF To
    <2>2. faults' \in 0 .. MaxFaults /\ faults' >= faults
        BY <1>1 DEF Typed
    <2>3. handler' \in [Tries -> Handlers] /\ handler'[k].pc = next
          /\ handler'[k].number = handler[k].number /\ handler'[k].result = handler[k].result
          /\ \A m \in Tries : m # k => handler'[m] = handler[m]
        BY <2>1, ToEffect
    <2>4. iter' \in [Tries -> Iterations]
          /\ iter'[k].number = handler[k].number /\ iter'[k].status = status
          /\ \A m \in Tries : m # k => iter'[m] = iter[m]
        BY <1>1, RecordEffect
    <2>. QED BY <2>2, <2>3, <2>4 DEF WriteIter
<1>2. CASE IterWriteFails(Record(k, status)) /\ To(k, "failed")
    <2>1. "failed" \in HandlerPCs
        BY DEF HandlerPCs
    <2>2. handler' = [handler EXCEPT ![k].pc = "failed"]
        BY <1>2 DEF To
    <2>3. faults' \in 0 .. MaxFaults /\ faults' >= faults
        BY <1>2 DEF IterWriteFails, Fault, Typed, AgentSessionAssumption
    <2>4. CASE Record(k, status)
        <3>1. handler' \in [Tries -> Handlers] /\ handler'[k].pc = "failed"
              /\ handler'[k].number = handler[k].number /\ handler'[k].result = handler[k].result
              /\ \A m \in Tries : m # k => handler'[m] = handler[m]
            BY <2>1, <2>2, ToEffect
        <3>2. iter' \in [Tries -> Iterations]
              /\ iter'[k].number = handler[k].number /\ iter'[k].status = status
              /\ \A m \in Tries : m # k => iter'[m] = iter[m]
            BY <2>4, RecordEffect
        <3>. QED BY <2>3, <3>1, <3>2 DEF WriteIter
    <2>5. CASE UNCHANGED iter
        BY <2>1, <2>2, <2>3, <2>5, ToEffect DEF WriteIter, Typed
    <2>. QED BY <1>2, <2>4, <2>5 DEF IterWriteFails
<1>. QED BY <1>1, <1>2 DEF WriteIter

LEMMA ReserveFailsEffect ==
    ASSUME Typed, AgentSessionAssumption, NEW k \in Tries, ReserveFails(k)
    PROVE  /\ handler[k].pc = "reserve"
           /\ handler' \in [Tries -> Handlers]
           /\ handler'[k].pc = "failed"
           /\ handler'[k].number = handler[k].number
           /\ handler'[k].result = handler[k].result
           /\ \A m \in Tries : m # k => handler'[m] = handler[m]
           /\ session' \in Sessions
           /\ \/ session' = session
              \/ session.status = "running" /\ session'.count = session.count + 1
           /\ session'.status = session.status
           /\ session'.scratch = session.scratch
           /\ session'.success = session.success
           /\ faults' \in 0 .. MaxFaults /\ faults' > 0
           /\ UNCHANGED <<mode, iter, vm, create, agent, complete>>
<1>1. handler' = [handler EXCEPT ![k].pc = "failed"] /\ "failed" \in HandlerPCs
    BY DEF ReserveFails, To, HandlerPCs
<1>2. handler' \in [Tries -> Handlers] /\ handler'[k].pc = "failed"
      /\ handler'[k].number = handler[k].number /\ handler'[k].result = handler[k].result
      /\ \A m \in Tries : m # k => handler'[m] = handler[m]
    BY <1>1, ToEffect
<1>3. faults' \in 0 .. MaxFaults /\ faults' > 0
    BY FaultType DEF ReserveFails, SessionWriteFails
<1>4. CASE /\ session.status = "running" /\ session.count < MaxIterations
           /\ session' = [session EXCEPT !.count = @ + 1]
    BY <1>2, <1>3, <1>4, CountEffect DEF ReserveFails
<1>5. CASE UNCHANGED session
    <2>1. session \in Sessions
        BY DEF Typed
    <2>. QED BY <1>2, <1>3, <1>5, <2>1 DEF ReserveFails
<1>. QED BY <1>4, <1>5 DEF ReserveFails, SessionWriteFails

LEMMA ReserveEffect ==
    ASSUME Typed, AgentSessionAssumption, NEW k \in Tries, Reserve(k)
    PROVE  /\ handler[k].pc = "reserve"
           /\ handler' \in [Tries -> Handlers]
           /\ handler'[k].result = handler[k].result
           /\ \A m \in Tries : m # k => handler'[m] = handler[m]
           /\ session' \in Sessions
           /\ \/ /\ session.status = "running" /\ session'.count = session.count + 1
                 /\ handler'[k].pc = "insert" /\ handler'[k].number = session.count + 1
              \/ /\ session' = session
                 /\ handler'[k].pc = "failed" /\ handler'[k].number = handler[k].number
           /\ session'.status = session.status
           /\ session'.scratch = session.scratch
           /\ session'.success = session.success
           /\ UNCHANGED <<mode, iter, vm, create, agent, complete, faults>>
<1>1. CASE session.status = "running" /\ session.count < MaxIterations
    <2>1. Reserved(k) /\ session' = [session EXCEPT !.count = @ + 1]
        BY <1>1 DEF Reserve, Reserved
    <2>. QED BY <1>1, <2>1, ReservedEffect, CountEffect DEF Reserve
<1>2. CASE ~(session.status = "running" /\ session.count < MaxIterations)
    <2>1. handler' = [handler EXCEPT ![k].pc = "failed"] /\ "failed" \in HandlerPCs
          /\ session' = session
        BY <1>2 DEF Reserve, To, HandlerPCs
    <2>2. session \in Sessions
        BY DEF Typed
    <2>. QED BY <2>1, <2>2, ToEffect DEF Reserve
<1>. QED BY <1>1, <1>2

LEMMA HandlerDiesEffect ==
    ASSUME Typed, AgentSessionAssumption, NEW k \in Tries, HandlerDies(k)
    PROVE  /\ handler[k].pc \in {"reserve", "insert", "start", "mark_building", "build", "result"}
           /\ handler' \in [Tries -> Handlers]
           /\ handler'[k].pc = "died"
           /\ handler'[k].number = handler[k].number
           /\ handler'[k].result = handler[k].result
           /\ \A m \in Tries : m # k => handler'[m] = handler[m]
           /\ faults' \in 0 .. MaxFaults /\ faults' > 0
           /\ UNCHANGED <<mode, session, iter, vm, create, agent, complete>>
<1>1. handler' = [handler EXCEPT ![k].pc = "died"] /\ "died" \in HandlerPCs
    BY DEF HandlerDies, To, HandlerPCs
<1>2. handler' \in [Tries -> Handlers] /\ handler'[k].pc = "died"
      /\ handler'[k].number = handler[k].number /\ handler'[k].result = handler[k].result
      /\ \A m \in Tries : m # k => handler'[m] = handler[m]
    BY <1>1, ToEffect
<1>3. faults' \in 0 .. MaxFaults /\ faults' > 0
    BY FaultType DEF HandlerDies
<1>. QED BY <1>2, <1>3 DEF HandlerDies

\* Every step keeps the variables in their types.
LEMMA TypeStep ==
    ASSUME AgentSessionAssumption, TypeOK, [Next]_vars
    PROVE  TypeOK'
<1>. SUFFICES Typed'
    BY TypedIsTypeOK
<1>0. Typed /\ agent.try \in 0 .. MaxIterations
    BY TypedIsTypeOK DEF Typed, Agents
<1>1. CASE InsertSession
    BY <1>0, <1>1, CopyType DEF Typed, InsertSession, SessionWriteFails, Statuses,
        CreatePCs, Fault, AgentSessionAssumption
<1>2. CASE CreateScratch
    BY <1>0, <1>2 DEF Typed, CreateScratch, CreatePCs, Fault, AgentSessionAssumption
<1>3. CASE GiveUp
    BY <1>0, <1>3, CopyType DEF Typed, GiveUp, SessionWriteFails, Statuses, CreatePCs,
        Fault, AgentSessionAssumption
<1>4. CASE Launch
    BY <1>0, <1>4, AgentGoes DEF Typed, Launch, StartAgent, AgentPCs, CreatePCs
<1>5. CASE LaunchFails
    BY <1>0, <1>5, AgentGoes DEF Typed, LaunchFails, StartAgent, AgentPCs, CreatePCs,
        Fault, AgentSessionAssumption
<1>6. CASE MarkRunning
    BY <1>0, <1>6, CopyType DEF Typed, MarkRunning, Statuses, CreatePCs
<1>7. CASE MarkRunningFails
    BY <1>0, <1>7, CopyType DEF Typed, MarkRunningFails, SessionWriteFails, Statuses,
        CreatePCs, Fault, AgentSessionAssumption
<1>8. CASE Release
    BY <1>0, <1>8 DEF Typed, Release, ReleaseScratch, CreatePCs, Fault, AgentSessionAssumption
<1>9. CASE CreateDies
    BY <1>0, <1>9 DEF Typed, CreateDies, CreatePCs, Fault, AgentSessionAssumption
<1>10. CASE ExternalAgentStarts
    BY <1>0, <1>10, AgentGoes DEF Typed, ExternalAgentStarts, StartAgent, AgentPCs
<1>11. CASE TryLocally
    BY <1>0, <1>11, AgentTry DEF Typed, TryLocally, AgentPCs
<1>12. CASE TryIteration
    BY <1>0, <1>12, AgentTries, NextTry, ToEffect DEF Typed, TryIteration, AgentPCs, HandlerPCs
<1>13. CASE HearAnswer
    BY <1>0, <1>13, AgentGoes, AgentNames DEF Typed, HearAnswer, AgentPCs
<1>14. CASE StopTrying
    BY <1>0, <1>14, AgentGoes DEF Typed, StopTrying, AgentPCs
<1>15. CASE LoseAnswer
    BY <1>0, <1>15, AgentGoes DEF Typed, LoseAnswer, AgentPCs, Fault, AgentSessionAssumption
<1>16. CASE AgentDies
    BY <1>0, <1>16, AgentGoes DEF Typed, AgentDies, AgentPCs, Fault, AgentSessionAssumption
<1>17. CASE MarkCompleted
    BY <1>0, <1>17, CompletedEffect DEF Typed, MarkCompleted, Sessions, Completions
<1>18. CASE MarkCompletedFails
    BY <1>0, <1>18, CompletedEffect, AgentGoes DEF Typed, MarkCompletedFails,
        SessionWriteFails, AgentPCs, Completions, Fault, AgentSessionAssumption
<1>19. CASE Teardown
    BY <1>0, <1>19, AgentGoes DEF Typed, Teardown, ReleaseScratch, AgentHearsEnd, AgentPCs, Completions,
        Fault, AgentSessionAssumption
<1>30. CASE CompleteDies
    BY <1>0, <1>30, AgentGoes DEF Typed, CompleteDies, AgentHearsEnd, AgentPCs, Completions,
        Fault, AgentSessionAssumption
<1>20. CASE ReapIdle
    BY <1>0, <1>20 DEF Typed, ReapIdle
<1>21. ASSUME NEW k \in Tries, Reserve(k) PROVE Typed'
    BY <1>0, <1>21, ReserveEffect DEF Typed
<1>22. ASSUME NEW k \in Tries, ReserveFails(k) PROVE Typed'
    BY <1>0, <1>22, ReserveFailsEffect DEF Typed
<1>23. ASSUME NEW k \in Tries, InsertIteration(k) PROVE Typed'
    BY <1>0, <1>23, WriteEffect DEF Typed, InsertIteration, HandlerPCs
<1>24. ASSUME NEW k \in Tries, StartBuild(k) PROVE Typed'
    BY <1>0, <1>24, ToEffect DEF Typed, StartBuild, To, HandlerPCs
<1>25. ASSUME NEW k \in Tries, MarkBuilding(k) PROVE Typed'
    BY <1>0, <1>25, WriteEffect DEF Typed, MarkBuilding, HandlerPCs
<1>26. ASSUME NEW k \in Tries, AwaitBuild(k) PROVE Typed'
    BY <1>0, <1>26, ToEffect, ResultEffect DEF Typed, AwaitBuild, To, HandlerPCs, Results
<1>27. ASSUME NEW k \in Tries, WriteResult(k) PROVE Typed'
    <2>1. PICK status \in {"none", "pending", "building", "success", "failed", "error"} :
             status = handler[k].result
        BY <1>0 DEF Typed, Handlers, Results
    <2>2. WriteIter(k, "result", status, "answered") /\ "answered" \in HandlerPCs
        BY <1>27, <2>1 DEF WriteResult, HandlerPCs
    <2>3. /\ handler' \in [Tries -> Handlers] /\ iter' \in [Tries -> Iterations]
          /\ faults' \in 0 .. MaxFaults
          /\ UNCHANGED <<mode, session, vm, create, agent, complete>>
        BY <1>0, <2>2, WriteEffect
    <2>. QED BY <1>0, <2>3 DEF Typed
<1>28. ASSUME NEW k \in Tries, HandlerDies(k) PROVE Typed'
    BY <1>0, <1>28, HandlerDiesEffect DEF Typed
<1>29. CASE UNCHANGED vars
    BY <1>0, <1>29 DEF Typed, vars
<1>. QED BY <1>1, <1>2, <1>3, <1>4, <1>5, <1>6, <1>7, <1>8, <1>9, <1>10, <1>11, <1>12,
            <1>13, <1>14, <1>15, <1>16, <1>17, <1>18, <1>19, <1>20, <1>21, <1>22,
            <1>23, <1>24, <1>25, <1>26, <1>27, <1>28, <1>29, <1>30
         DEF Next, CreateSteps, AgentSteps, CompleteSteps, HandlerSteps

LEMMA InitInv == AgentSessionAssumption /\ Init => IndInv
    BY DEF AgentSessionAssumption, Init, NoSession, IndInv, TypeOK, Numbering, Naming, Lasting,
           CompletionLasts, Early, Tries


\* What a step of one iteration has to leave as it is.
LEMMA NumberingKept ==
    ASSUME Typed, Numbering, NEW k \in Tries,
           agent' = agent, create' = create, session'.status = session.status,
           session.count \in Nat, session'.count \in Nat, session'.count >= session.count,
           create \in Early => session'.count = 0,
           \A m \in Tries : m # k => handler'[m] = handler[m] /\ iter'[m] = iter[m],
           \A m \in Tries : handler[m].number \in Nat,
           handler'[k].number = handler[k].number,
           handler[k].pc # "idle", handler'[k].pc \notin {"idle", "reserve"},
           handler'[k].pc \in {"failed", "died"} \/ handler[k].number # 0,
           \/ iter'[k] = iter[k]
           \/ iter'[k].number = handler[k].number /\ handler[k].number # 0
    PROVE  Numbering'
<1>1. \A m \in Tries : handler'[m].number = handler[m].number
    OBVIOUS
<1>2. (create' \in Early =>
        /\ session'.status # "running" /\ session'.count = 0
        /\ \A m \in Tries : handler'[m].number = 0)
    BY <1>1 DEF Numbering
<1>3. \A m, n \in Tries :
        m # n /\ handler'[m].number # 0 => handler'[m].number # handler'[n].number
    BY <1>1 DEF Numbering
<1>4. \A m \in Tries : handler'[m].number <= session'.count
    BY <1>1 DEF Numbering
<1>5. ASSUME NEW m \in Tries
      PROVE  /\ m > agent'.try => handler'[m].pc = "idle"
             /\ handler'[m].pc \in {"idle", "reserve"} =>
                    handler'[m].number = 0 /\ iter'[m].status = "none"
             /\ handler'[m].pc \notin {"idle", "reserve", "failed", "died"} =>
                    handler'[m].number # 0
             /\ iter'[m].status # "none" =>
                    iter'[m].number = handler'[m].number /\ handler'[m].number # 0
    <2>1. CASE m = k
        BY <2>1 DEF Numbering
    <2>2. CASE m # k
        BY <2>2 DEF Numbering
    <2>. QED BY <2>1, <2>2
<1>. QED BY <1>2, <1>3, <1>4, <1>5, Zenon DEF Numbering

\* Numbers are given out in order, from a count that nobody resets once it is used.
LEMMA NumberingStep ==
    ASSUME AgentSessionAssumption, IndInv, [Next]_vars
    PROVE  Numbering'
<1>0. /\ Typed
      /\ agent.try \in 0 .. MaxIterations /\ agent.success \in 0 .. MaxIterations
      /\ session.count \in 0 .. MaxIterations /\ faults \in 0 .. MaxFaults
      /\ \A k \in Tries : handler[k].number \in 0 .. MaxIterations /\ handler[k].result \in Results
    BY TypedIsTypeOK DEF IndInv, Typed, Agents, Sessions, Handlers
<1>00. Numbering
    BY DEF IndInv
<1>1. CASE InsertSession
    BY <1>0, <1>00, <1>1, CopyType DEF Numbering, Early, Tries, InsertSession,
        SessionWriteFails, Statuses
<1>2. CASE CreateScratch
    BY <1>0, <1>00, <1>2 DEF Numbering, Early, Tries, CreateScratch
<1>3. CASE GiveUp
    BY <1>0, <1>00, <1>3, CopyType DEF Numbering, Early, Tries, GiveUp, SessionWriteFails,
        Statuses
<1>4. CASE Launch
    BY <1>0, <1>00, <1>4, AgentGoes DEF Numbering, Early, Tries, Launch, StartAgent, AgentPCs
<1>5. CASE LaunchFails
    BY <1>0, <1>00, <1>5, AgentGoes DEF Numbering, Early, Tries, LaunchFails, StartAgent,
        AgentPCs
<1>6. CASE MarkRunning
    BY <1>0, <1>00, <1>6, CopyType DEF Numbering, Early, Tries, MarkRunning, Statuses
<1>7. CASE MarkRunningFails
    BY <1>0, <1>00, <1>7, CopyType DEF Numbering, Early, Tries, MarkRunningFails,
        SessionWriteFails, Statuses
<1>8. CASE Release
    BY <1>0, <1>00, <1>8 DEF Numbering, Early, Tries, Release
<1>9. CASE CreateDies
    BY <1>0, <1>00, <1>9 DEF Numbering, Early, Tries, CreateDies
<1>10. CASE ExternalAgentStarts
    BY <1>0, <1>00, <1>10, AgentGoes DEF Numbering, Early, Tries, ExternalAgentStarts,
        StartAgent, AgentPCs
<1>11. CASE TryLocally
    BY <1>0, <1>00, <1>11, AgentTry DEF Numbering, Early, Tries, TryLocally
<1>12. CASE TryIteration
    <2>1. /\ agent.try < MaxIterations /\ agent' = [agent EXCEPT !.try = @ + 1, !.pc = "waiting"]
          /\ handler' = [handler EXCEPT ![agent.try + 1].pc = "reserve"]
          /\ UNCHANGED <<session, iter, create>>
        BY <1>12 DEF TryIteration
    <2>2. agent.try + 1 \in Tries
        BY <1>0, <2>1, NextTry
    <2>3. agent'.try = agent.try + 1 /\ agent'.pc = "waiting"
        BY <1>0, <2>1, AgentTries DEF AgentPCs
    <2>4. /\ handler'[agent.try + 1].pc = "reserve"
          /\ handler'[agent.try + 1].number = handler[agent.try + 1].number
          /\ handler'[agent.try + 1].result = handler[agent.try + 1].result
          /\ \A m \in Tries : m # agent.try + 1 => handler'[m] = handler[m]
        BY <1>0, <2>1, <2>2, ToEffect DEF HandlerPCs
    <2>. QED BY <1>0, <1>00, <1>12, <2>1, <2>2, <2>3, <2>4 DEF Numbering, Early, Tries, TryIteration
<1>13. CASE HearAnswer
    BY <1>0, <1>00, <1>13, AgentGoes, AgentNames DEF Numbering, Early, Tries, HearAnswer,
        AgentPCs
<1>14. CASE StopTrying
    BY <1>0, <1>00, <1>14, AgentGoes DEF Numbering, Early, Tries, StopTrying, AgentPCs
<1>15. CASE LoseAnswer
    BY <1>0, <1>00, <1>15, AgentGoes DEF Numbering, Early, Tries, LoseAnswer, AgentPCs
<1>16. CASE AgentDies
    BY <1>0, <1>00, <1>16, AgentGoes DEF Numbering, Early, Tries, AgentDies, AgentPCs
<1>17. CASE MarkCompleted
    BY <1>0, <1>00, <1>17, CompletedEffect DEF Numbering, Early, Tries, MarkCompleted
<1>18. CASE MarkCompletedFails
    BY <1>0, <1>00, <1>18, CompletedEffect, AgentGoes DEF Numbering, Early, Tries,
        MarkCompletedFails, SessionWriteFails, AgentPCs
<1>19. CASE Teardown
    BY <1>0, <1>00, <1>19, AgentGoes DEF Numbering, Early, Tries, Teardown, AgentHearsEnd, AgentPCs
<1>30. CASE CompleteDies
    BY <1>0, <1>00, <1>30, AgentGoes DEF Numbering, Early, Tries, CompleteDies, AgentHearsEnd, AgentPCs
<1>20. CASE ReapIdle
    BY <1>0, <1>00, <1>20 DEF Numbering, Early, Tries, ReapIdle
<1>21. ASSUME NEW k \in Tries, Reserve(k) PROVE Numbering'
    <2>1. /\ handler[k].pc = "reserve" /\ agent' = agent /\ create' = create /\ iter' = iter
          /\ session'.status = session.status
          /\ \A m \in Tries : m # k => handler'[m] = handler[m]
        BY <1>0, <1>21, ReserveEffect
    <2>2. \/ /\ session.status = "running" /\ session'.count = session.count + 1
             /\ handler'[k].pc = "insert" /\ handler'[k].number = session.count + 1
          \/ /\ session' = session
             /\ handler'[k].pc = "failed" /\ handler'[k].number = handler[k].number
        BY <1>0, <1>21, ReserveEffect
    <2>3. CASE /\ session' = session
               /\ handler'[k].pc = "failed" /\ handler'[k].number = handler[k].number
        <3>1. create \in Early => session'.count = 0
            BY <1>00, <2>3 DEF Numbering
        <3>. QED BY <1>0, <1>00, <2>1, <2>3, <3>1, NumberingKept
    <2>4. CASE /\ session.status = "running" /\ session'.count = session.count + 1
               /\ handler'[k].pc = "insert" /\ handler'[k].number = session.count + 1
        <3>1. create' \notin Early
            BY <1>00, <2>1, <2>4 DEF Numbering
        <3>2. \A m \in Tries : handler[m].number \in Nat /\ handler[m].number <= session.count
            BY <1>0, <1>00 DEF Numbering
        <3>3. iter[k].status = "none" /\ k <= agent.try
            BY <1>0, <1>00, <2>1 DEF Numbering, Tries
        <3>4. session.count \in Nat /\ handler'[k].number \in Nat /\ handler'[k].number # 0
            BY <1>0, <2>4
        <3>5. \A m, n \in Tries :
                m # n /\ handler'[m].number # 0 => handler'[m].number # handler'[n].number
            <4>. SUFFICES ASSUME NEW m \in Tries, NEW n \in Tries, m # n,
                                 handler'[m].number # 0
                          PROVE  handler'[m].number # handler'[n].number
                OBVIOUS
            <4>1. CASE m = k
                <5>1. handler'[n].number <= session.count /\ handler'[n].number \in Nat
                    BY <2>1, <3>2, <4>1
                <5>. QED BY <2>4, <3>4, <4>1, <5>1
            <4>2. CASE n = k
                <5>1. handler'[m].number <= session.count /\ handler'[m].number \in Nat
                    BY <2>1, <3>2, <4>2
                <5>. QED BY <2>4, <3>4, <4>2, <5>1
            <4>3. CASE m # k /\ n # k
                BY <1>00, <2>1, <4>3 DEF Numbering
            <4>. QED BY <4>1, <4>2, <4>3
        <3>6. \A m \in Tries : handler'[m].number <= session'.count
            <4>. SUFFICES ASSUME NEW m \in Tries PROVE handler'[m].number <= session'.count
                OBVIOUS
            <4>1. CASE m = k
                BY <2>4, <3>4, <4>1
            <4>2. CASE m # k
                <5>1. handler'[m].number <= session.count /\ handler'[m].number \in Nat
                    BY <2>1, <3>2, <4>2
                <5>. QED BY <2>4, <3>4, <5>1
            <4>. QED BY <4>1, <4>2
        <3>7. ASSUME NEW m \in Tries
              PROVE  /\ m > agent'.try => handler'[m].pc = "idle"
                     /\ handler'[m].pc \in {"idle", "reserve"} =>
                            handler'[m].number = 0 /\ iter'[m].status = "none"
                     /\ handler'[m].pc \notin {"idle", "reserve", "failed", "died"} =>
                            handler'[m].number # 0
                     /\ iter'[m].status # "none" =>
                            iter'[m].number = handler'[m].number /\ handler'[m].number # 0
            <4>1. CASE m = k
                BY <1>0, <2>1, <2>4, <3>3, <3>4, <4>1 DEF Tries
            <4>2. CASE m # k
                BY <1>00, <2>1, <4>2 DEF Numbering
            <4>. QED BY <4>1, <4>2
        <3>. QED BY <3>1, <3>5, <3>6, <3>7, Zenon DEF Numbering
    <2>. QED BY <2>2, <2>3, <2>4
<1>22. ASSUME NEW k \in Tries, ReserveFails(k) PROVE Numbering'
    <2>1. /\ agent' = agent /\ create' = create /\ session'.status = session.status
          /\ session'.count \in Nat /\ session'.count >= session.count
          /\ create \in Early => session'.count = 0
          /\ \A m \in Tries : m # k => handler'[m] = handler[m] /\ iter'[m] = iter[m]
          /\ handler'[k].number = handler[k].number
          /\ handler[k].pc # "idle" /\ handler'[k].pc \notin {"idle", "reserve"}
          /\ handler'[k].pc \in {"failed", "died"} \/ handler[k].number # 0
          /\ \/ iter'[k] = iter[k]
             \/ iter'[k].number = handler[k].number /\ handler[k].number # 0
        BY <1>0, <1>00, <1>22, ReserveFailsEffect DEF Numbering
    <2>. QED BY <1>0, <1>00, <2>1, NumberingKept
<1>23. ASSUME NEW k \in Tries, InsertIteration(k) PROVE Numbering'
    <2>1. /\ agent' = agent /\ create' = create /\ session'.status = session.status
          /\ session'.count \in Nat /\ session'.count >= session.count
          /\ create \in Early => session'.count = 0
          /\ \A m \in Tries : m # k => handler'[m] = handler[m] /\ iter'[m] = iter[m]
          /\ handler'[k].number = handler[k].number
          /\ handler[k].pc # "idle" /\ handler'[k].pc \notin {"idle", "reserve"}
          /\ handler'[k].pc \in {"failed", "died"} \/ handler[k].number # 0
          /\ \/ iter'[k] = iter[k]
             \/ iter'[k].number = handler[k].number /\ handler[k].number # 0
        BY <1>0, <1>00, <1>23, WriteEffect DEF Numbering, InsertIteration, HandlerPCs
    <2>. QED BY <1>0, <1>00, <2>1, NumberingKept
<1>24. ASSUME NEW k \in Tries, StartBuild(k) PROVE Numbering'
    <2>1. /\ agent' = agent /\ create' = create /\ session'.status = session.status
          /\ session'.count \in Nat /\ session'.count >= session.count
          /\ create \in Early => session'.count = 0
          /\ \A m \in Tries : m # k => handler'[m] = handler[m] /\ iter'[m] = iter[m]
          /\ handler'[k].number = handler[k].number
          /\ handler[k].pc # "idle" /\ handler'[k].pc \notin {"idle", "reserve"}
          /\ handler'[k].pc \in {"failed", "died"} \/ handler[k].number # 0
          /\ \/ iter'[k] = iter[k]
             \/ iter'[k].number = handler[k].number /\ handler[k].number # 0
        BY <1>0, <1>00, <1>24, ToEffect DEF Numbering, StartBuild, To, HandlerPCs
    <2>. QED BY <1>0, <1>00, <2>1, NumberingKept
<1>25. ASSUME NEW k \in Tries, MarkBuilding(k) PROVE Numbering'
    <2>1. /\ agent' = agent /\ create' = create /\ session'.status = session.status
          /\ session'.count \in Nat /\ session'.count >= session.count
          /\ create \in Early => session'.count = 0
          /\ \A m \in Tries : m # k => handler'[m] = handler[m] /\ iter'[m] = iter[m]
          /\ handler'[k].number = handler[k].number
          /\ handler[k].pc # "idle" /\ handler'[k].pc \notin {"idle", "reserve"}
          /\ handler'[k].pc \in {"failed", "died"} \/ handler[k].number # 0
          /\ \/ iter'[k] = iter[k]
             \/ iter'[k].number = handler[k].number /\ handler[k].number # 0
        BY <1>0, <1>00, <1>25, WriteEffect DEF Numbering, MarkBuilding, HandlerPCs
    <2>. QED BY <1>0, <1>00, <2>1, NumberingKept
<1>26. ASSUME NEW k \in Tries, AwaitBuild(k) PROVE Numbering'
    <2>1. /\ agent' = agent /\ create' = create /\ session'.status = session.status
          /\ session'.count \in Nat /\ session'.count >= session.count
          /\ create \in Early => session'.count = 0
          /\ \A m \in Tries : m # k => handler'[m] = handler[m] /\ iter'[m] = iter[m]
          /\ handler'[k].number = handler[k].number
          /\ handler[k].pc # "idle" /\ handler'[k].pc \notin {"idle", "reserve"}
          /\ handler'[k].pc \in {"failed", "died"} \/ handler[k].number # 0
          /\ \/ iter'[k] = iter[k]
             \/ iter'[k].number = handler[k].number /\ handler[k].number # 0
        BY <1>0, <1>00, <1>26, ToEffect, ResultEffect
           DEF Numbering, AwaitBuild, To, HandlerPCs, Results
    <2>. QED BY <1>0, <1>00, <2>1, NumberingKept
<1>27. ASSUME NEW k \in Tries, WriteResult(k) PROVE Numbering'
    <2>1. /\ agent' = agent /\ create' = create /\ session'.status = session.status
          /\ session'.count \in Nat /\ session'.count >= session.count
          /\ create \in Early => session'.count = 0
          /\ \A m \in Tries : m # k => handler'[m] = handler[m] /\ iter'[m] = iter[m]
          /\ handler'[k].number = handler[k].number
          /\ handler[k].pc # "idle" /\ handler'[k].pc \notin {"idle", "reserve"}
          /\ handler'[k].pc \in {"failed", "died"} \/ handler[k].number # 0
          /\ \/ iter'[k] = iter[k]
             \/ iter'[k].number = handler[k].number /\ handler[k].number # 0
        BY <1>0, <1>00, <1>27, WriteEffect DEF Numbering, WriteResult, HandlerPCs, Results
    <2>. QED BY <1>0, <1>00, <2>1, NumberingKept
<1>28. ASSUME NEW k \in Tries, HandlerDies(k) PROVE Numbering'
    <2>1. /\ agent' = agent /\ create' = create /\ session'.status = session.status
          /\ session'.count \in Nat /\ session'.count >= session.count
          /\ create \in Early => session'.count = 0
          /\ \A m \in Tries : m # k => handler'[m] = handler[m] /\ iter'[m] = iter[m]
          /\ handler'[k].number = handler[k].number
          /\ handler[k].pc # "idle" /\ handler'[k].pc \notin {"idle", "reserve"}
          /\ handler'[k].pc \in {"failed", "died"} \/ handler[k].number # 0
          /\ \/ iter'[k] = iter[k]
             \/ iter'[k].number = handler[k].number /\ handler[k].number # 0
        BY <1>0, <1>00, <1>28, HandlerDiesEffect DEF Numbering
    <2>. QED BY <1>0, <1>00, <2>1, NumberingKept
<1>29. CASE UNCHANGED vars
    BY <1>0, <1>00, <1>29 DEF Numbering, Early, Tries, vars
<1>. QED BY <1>1, <1>2, <1>3, <1>4, <1>5, <1>6, <1>7, <1>8, <1>9, <1>10, <1>11, <1>12,
            <1>13, <1>14, <1>15, <1>16, <1>17, <1>18, <1>19, <1>20, <1>21, <1>22,
            <1>23, <1>24, <1>25, <1>26, <1>27, <1>28, <1>29, <1>30
         DEF Next, CreateSteps, AgentSteps, CompleteSteps, HandlerSteps

\* An answer follows the last write of its iteration, and only it makes the agent name one.
LEMMA NamingStep ==
    ASSUME AgentSessionAssumption, IndInv, [Next]_vars
    PROVE  Naming'
<1>0. /\ Typed
      /\ agent.try \in 0 .. MaxIterations /\ agent.success \in 0 .. MaxIterations
      /\ session.count \in 0 .. MaxIterations /\ faults \in 0 .. MaxFaults
      /\ \A k \in Tries : handler[k].number \in 0 .. MaxIterations /\ handler[k].result \in Results
    BY TypedIsTypeOK DEF IndInv, Typed, Agents, Sessions, Handlers
<1>00. Numbering /\ Naming
    BY DEF IndInv
<1>1. CASE InsertSession
    BY <1>0, <1>00, <1>1, CopyType DEF Numbering, Naming, Tries, InsertSession,
        SessionWriteFails, Statuses
<1>2. CASE CreateScratch
    BY <1>0, <1>00, <1>2 DEF Numbering, Naming, Tries, CreateScratch
<1>3. CASE GiveUp
    BY <1>0, <1>00, <1>3, CopyType DEF Numbering, Naming, Tries, GiveUp,
        SessionWriteFails, Statuses
<1>4. CASE Launch
    BY <1>0, <1>00, <1>4, AgentGoes DEF Numbering, Naming, Tries, Launch, StartAgent, AgentPCs
<1>5. CASE LaunchFails
    BY <1>0, <1>00, <1>5, AgentGoes DEF Numbering, Naming, Tries, LaunchFails, StartAgent,
        AgentPCs
<1>6. CASE MarkRunning
    BY <1>0, <1>00, <1>6, CopyType DEF Numbering, Naming, Tries, MarkRunning, Statuses
<1>7. CASE MarkRunningFails
    BY <1>0, <1>00, <1>7, CopyType DEF Numbering, Naming, Tries, MarkRunningFails,
        SessionWriteFails, Statuses
<1>8. CASE Release
    BY <1>0, <1>00, <1>8 DEF Numbering, Naming, Tries, Release
<1>9. CASE CreateDies
    BY <1>0, <1>00, <1>9 DEF Numbering, Naming, Tries, CreateDies
<1>10. CASE ExternalAgentStarts
    BY <1>0, <1>00, <1>10, AgentGoes DEF Numbering, Naming, Tries, ExternalAgentStarts,
        StartAgent, AgentPCs
<1>11. CASE TryLocally
    BY <1>0, <1>00, <1>11, AgentTry DEF Numbering, Naming, Tries, TryLocally
<1>12. CASE TryIteration
    BY <1>0, <1>00, <1>12, AgentTries, NextTry, ToEffect, ZenonT(60) DEF Numbering, Naming, Tries,
        TryIteration, AgentPCs, HandlerPCs
<1>13. CASE HearAnswer
    BY <1>0, <1>00, <1>13, AgentGoes, AgentNames DEF Numbering, Naming, Tries, HearAnswer,
        AgentPCs
<1>14. CASE StopTrying
    BY <1>0, <1>00, <1>14, AgentGoes DEF Numbering, Naming, Tries, StopTrying, AgentPCs
<1>15. CASE LoseAnswer
    BY <1>0, <1>00, <1>15, AgentGoes DEF Numbering, Naming, Tries, LoseAnswer, AgentPCs
<1>16. CASE AgentDies
    BY <1>0, <1>00, <1>16, AgentGoes DEF Numbering, Naming, Tries, AgentDies, AgentPCs
<1>17. CASE MarkCompleted
    BY <1>0, <1>00, <1>17, CompletedEffect DEF Numbering, Naming, Tries, MarkCompleted
<1>18. CASE MarkCompletedFails
    BY <1>0, <1>00, <1>18, CompletedEffect, AgentGoes DEF Numbering, Naming, Tries,
        MarkCompletedFails, SessionWriteFails, AgentPCs
<1>19. CASE Teardown
    BY <1>0, <1>00, <1>19, AgentGoes DEF Numbering, Naming, Tries, Teardown, AgentHearsEnd, AgentPCs
<1>30. CASE CompleteDies
    BY <1>0, <1>00, <1>30, AgentGoes DEF Numbering, Naming, Tries, CompleteDies, AgentHearsEnd,
        AgentPCs
<1>20. CASE ReapIdle
    BY <1>0, <1>00, <1>20 DEF Numbering, Naming, Tries, ReapIdle
<1>21. ASSUME NEW k \in Tries, Reserve(k) PROVE Naming'
    BY <1>0, <1>00, <1>21, ReserveEffect DEF Numbering, Naming, Tries
<1>22. ASSUME NEW k \in Tries, ReserveFails(k) PROVE Naming'
    BY <1>0, <1>00, <1>22, ReserveFailsEffect, SMTT(30) DEF Numbering, Naming, Tries
<1>23. ASSUME NEW k \in Tries, InsertIteration(k) PROVE Naming'
    BY <1>0, <1>00, <1>23, WriteEffect, SMTT(30) DEF Numbering, Naming, Tries, InsertIteration, HandlerPCs
<1>24. ASSUME NEW k \in Tries, StartBuild(k) PROVE Naming'
    BY <1>0, <1>00, <1>24, ToEffect DEF Numbering, Naming, Tries, StartBuild, To, HandlerPCs
<1>25. ASSUME NEW k \in Tries, MarkBuilding(k) PROVE Naming'
    BY <1>0, <1>00, <1>25, WriteEffect, SMTT(30) DEF Numbering, Naming, Tries, MarkBuilding, HandlerPCs
<1>26. ASSUME NEW k \in Tries, AwaitBuild(k) PROVE Naming'
    <2>1. /\ handler[k].pc = "build" /\ handler'[k].pc \in {"result", "failed"}
          /\ \A m \in Tries : m # k => handler'[m] = handler[m]
        BY <1>0, <1>26, ToEffect, ResultEffect DEF AwaitBuild, To, HandlerPCs, Results
    <2>2. UNCHANGED <<session, iter, agent, create>>
        BY <1>26 DEF AwaitBuild
    <2>3. \A m \in Tries : handler'[m].pc = "answered" => handler'[m] = handler[m]
        BY <2>1
    <2>4. agent.success # 0 => handler'[agent.success] = handler[agent.success]
        BY <1>0, <1>00, <2>1 DEF Naming, Tries
    <2>. QED BY <1>00, <2>2, <2>3, <2>4 DEF Naming
<1>27. ASSUME NEW k \in Tries, WriteResult(k) PROVE Naming'
    <2>1. PICK status \in {"none", "pending", "building", "success", "failed", "error"} :
             status = handler[k].result
        BY <1>0 DEF Results
    <2>2. WriteIter(k, "result", status, "answered") /\ "answered" \in HandlerPCs
        BY <1>27, <2>1 DEF WriteResult, HandlerPCs
    <2>3. handler[k].pc = "result"
        BY <2>2 DEF WriteIter
    <2>4. handler'[k].pc \in {"answered", "failed"}
        BY <1>0, <2>2, ToEffect DEF WriteIter, To, HandlerPCs
    <2>5. /\ handler'[k].result = handler[k].result
          /\ iter'[k].status = status \/ handler'[k].pc = "failed"
          /\ \A m \in Tries : m # k => iter'[m] = iter[m] /\ handler'[m] = handler[m]
          /\ UNCHANGED <<session, agent, create>>
        BY <1>0, <2>2, WriteEffect, ZenonT(60)
    <2>6. \A m \in Tries : handler'[m].pc = "answered" => iter'[m].status = handler'[m].result
        BY <1>00, <2>1, <2>4, <2>5 DEF Naming
    <2>7. agent.success # 0 => handler'[agent.success] = handler[agent.success]
        BY <1>0, <1>00, <2>3, <2>5 DEF Naming, Tries
    <2>. QED BY <1>00, <2>5, <2>6, <2>7 DEF Naming
<1>28. ASSUME NEW k \in Tries, HandlerDies(k) PROVE Naming'
    BY <1>0, <1>00, <1>28, HandlerDiesEffect DEF Numbering, Naming, Tries
<1>29. CASE UNCHANGED vars
    BY <1>0, <1>00, <1>29 DEF Numbering, Naming, Tries, vars
<1>. QED BY <1>1, <1>2, <1>3, <1>4, <1>5, <1>6, <1>7, <1>8, <1>9, <1>10, <1>11, <1>12,
            <1>13, <1>14, <1>15, <1>16, <1>17, <1>18, <1>19, <1>20, <1>21, <1>22,
            <1>23, <1>24, <1>25, <1>26, <1>27, <1>28, <1>29, <1>30
         DEF Next, CreateSteps, AgentSteps, CompleteSteps, HandlerSteps

\* A completion that found the session running is the last write of its status.
LEMMA LastingStep ==
    ASSUME AgentSessionAssumption, IndInv, [Next]_vars
    PROVE  Lasting'
<1>0. /\ Typed
      /\ agent.try \in 0 .. MaxIterations /\ agent.success \in 0 .. MaxIterations
      /\ session.count \in 0 .. MaxIterations /\ faults \in 0 .. MaxFaults
      /\ \A k \in Tries : handler[k].number \in 0 .. MaxIterations /\ handler[k].result \in Results
    BY TypedIsTypeOK DEF IndInv, Typed, Agents, Sessions, Handlers
<1>00. Lasting
    BY DEF IndInv
<1>1. CASE InsertSession
    BY <1>0, <1>00, <1>1, CopyType DEF Lasting, CompletionLasts, Early, InsertSession,
        SessionWriteFails, Statuses
<1>2. CASE CreateScratch
    BY <1>0, <1>00, <1>2 DEF Lasting, CompletionLasts, Early, CreateScratch
<1>3. CASE GiveUp
    BY <1>0, <1>00, <1>3, CopyType DEF Lasting, CompletionLasts, Early, GiveUp,
        SessionWriteFails, Statuses
<1>4. CASE Launch
    BY <1>0, <1>00, <1>4, AgentGoes DEF Lasting, CompletionLasts, Early, Launch,
        StartAgent, AgentPCs
<1>5. CASE LaunchFails
    BY <1>0, <1>00, <1>5, AgentGoes DEF Lasting, CompletionLasts, Early, LaunchFails,
        StartAgent, AgentPCs
<1>6. CASE MarkRunning
    BY <1>0, <1>00, <1>6, CopyType DEF Lasting, CompletionLasts, Early, MarkRunning, Statuses
<1>7. CASE MarkRunningFails
    BY <1>0, <1>00, <1>7, CopyType DEF Lasting, CompletionLasts, Early, MarkRunningFails,
        SessionWriteFails, Statuses
<1>8. CASE Release
    BY <1>0, <1>00, <1>8, FaultType DEF Lasting, CompletionLasts, Early, Release, ReleaseScratch
<1>9. CASE CreateDies
    BY <1>0, <1>00, <1>9, FaultType DEF Lasting, CompletionLasts, Early, CreateDies
<1>10. CASE ExternalAgentStarts
    BY <1>0, <1>00, <1>10, AgentGoes DEF Lasting, CompletionLasts, Early,
        ExternalAgentStarts, StartAgent, AgentPCs
<1>11. CASE TryLocally
    BY <1>0, <1>00, <1>11, AgentTry DEF Lasting, CompletionLasts, Early, TryLocally
<1>12. CASE TryIteration
    BY <1>0, <1>00, <1>12, AgentTries, NextTry, ToEffect DEF Lasting, CompletionLasts,
        Early, TryIteration, AgentPCs, HandlerPCs
<1>13. CASE HearAnswer
    BY <1>0, <1>00, <1>13, AgentGoes, AgentNames DEF Lasting, CompletionLasts, Early,
        HearAnswer, AgentPCs
<1>14. CASE StopTrying
    BY <1>0, <1>00, <1>14, AgentGoes DEF Lasting, CompletionLasts, Early, StopTrying, AgentPCs
<1>15. CASE LoseAnswer
    BY <1>0, <1>00, <1>15, AgentGoes, FaultType DEF Lasting, CompletionLasts, Early,
        LoseAnswer, AgentPCs
<1>16. CASE AgentDies
    BY <1>0, <1>00, <1>16, AgentGoes, FaultType DEF Lasting, CompletionLasts, Early,
        AgentDies, AgentPCs
<1>17. CASE MarkCompleted
    BY <1>0, <1>00, <1>17, CompletedEffect DEF Lasting, CompletionLasts, Early, MarkCompleted
<1>18. CASE MarkCompletedFails
    BY <1>0, <1>00, <1>18, CompletedEffect, AgentGoes DEF Lasting, CompletionLasts, Early,
        MarkCompletedFails, SessionWriteFails, AgentPCs
<1>19. CASE Teardown
    BY <1>0, <1>00, <1>19, AgentGoes, FaultType DEF Lasting, CompletionLasts, Early,
        Teardown, AgentHearsEnd, ReleaseScratch, AgentPCs
<1>30. CASE CompleteDies
    BY <1>0, <1>00, <1>30, AgentGoes, FaultType DEF Lasting, CompletionLasts, Early,
        CompleteDies, AgentHearsEnd, AgentPCs
<1>20. CASE ReapIdle
    BY <1>0, <1>00, <1>20 DEF Lasting, CompletionLasts, Early, ReapIdle
<1>21. ASSUME NEW k \in Tries, Reserve(k) PROVE Lasting'
    BY <1>0, <1>00, <1>21, ReserveEffect DEF Lasting, CompletionLasts, Early
<1>22. ASSUME NEW k \in Tries, ReserveFails(k) PROVE Lasting'
    BY <1>0, <1>00, <1>22, ReserveFailsEffect DEF Lasting, CompletionLasts, Early
<1>23. ASSUME NEW k \in Tries, InsertIteration(k) PROVE Lasting'
    BY <1>0, <1>00, <1>23, WriteEffect, SMTT(30) DEF Lasting, CompletionLasts, Early,
        InsertIteration, HandlerPCs
<1>24. ASSUME NEW k \in Tries, StartBuild(k) PROVE Lasting'
    BY <1>0, <1>00, <1>24, ToEffect DEF Lasting, CompletionLasts, Early, StartBuild, To,
        HandlerPCs
<1>25. ASSUME NEW k \in Tries, MarkBuilding(k) PROVE Lasting'
    BY <1>0, <1>00, <1>25, WriteEffect, SMTT(30) DEF Lasting, CompletionLasts, Early, MarkBuilding,
        HandlerPCs
<1>26. ASSUME NEW k \in Tries, AwaitBuild(k) PROVE Lasting'
    BY <1>0, <1>00, <1>26, ToEffect, ResultEffect DEF Lasting, CompletionLasts, Early,
        AwaitBuild, To, HandlerPCs, Results
<1>27. ASSUME NEW k \in Tries, WriteResult(k) PROVE Lasting'
    BY <1>0, <1>00, <1>27, WriteEffect, SMTT(30) DEF Lasting, CompletionLasts, Early, WriteResult,
        HandlerPCs, Results
<1>28. ASSUME NEW k \in Tries, HandlerDies(k) PROVE Lasting'
    BY <1>0, <1>00, <1>28, HandlerDiesEffect DEF Lasting, CompletionLasts, Early
<1>29. CASE UNCHANGED vars
    BY <1>0, <1>00, <1>29 DEF Lasting, CompletionLasts, Early, vars
<1>. QED BY <1>1, <1>2, <1>3, <1>4, <1>5, <1>6, <1>7, <1>8, <1>9, <1>10, <1>11, <1>12,
            <1>13, <1>14, <1>15, <1>16, <1>17, <1>18, <1>19, <1>20, <1>21, <1>22,
            <1>23, <1>24, <1>25, <1>26, <1>27, <1>28, <1>29, <1>30
         DEF Next, CreateSteps, AgentSteps, CompleteSteps, HandlerSteps

-----------------------------------------------------------------------------
LEMMA Inductive == ASSUME AgentSessionAssumption PROVE Spec => []IndInv
<1>1. Init => IndInv
    BY InitInv
<1>2. IndInv /\ [Next]_vars => IndInv'
    BY TypeStep, NumberingStep, NamingStep, LastingStep DEF IndInv
<1>. QED BY <1>1, <1>2, PTL DEF Spec

\* The records of a session and the calls on it keep their types.
THEOREM TypeCorrect == ASSUME AgentSessionAssumption PROVE Spec => []TypeOK
<1>1. IndInv => TypeOK
    BY DEF IndInv
<1>. QED BY <1>1, Inductive, PTL

\* reserveIteration gives every iteration of a session a number of its own.
THEOREM IterationsDiffer == ASSUME AgentSessionAssumption PROVE Spec => []NumbersAreUnique
<1>1. IndInv => NumbersAreUnique
    BY DEF IndInv, Numbering, NumbersAreUnique
<1>. QED BY <1>1, Inductive, PTL

\* AgentComplete names as the success of a session an iteration recorded as one.
THEOREM NamesASuccess == ASSUME AgentSessionAssumption PROVE Spec => []SuccessIsRecorded
<1>1. IndInv => SuccessIsRecorded
    <2>. SUFFICES ASSUME IndInv, session.success # 0
                  PROVE  iter[session.success].status = "success"
        BY DEF SuccessIsRecorded
    <2>1. session.success \in Tries /\ session.success = agent.success
        BY DEF IndInv, TypeOK, Naming, Tries
    <2>2. /\ handler[session.success].pc = "answered"
          /\ handler[session.success].result = "success"
        BY <2>1 DEF IndInv, Naming
    <2>. QED BY <2>1, <2>2 DEF IndInv, Naming
<1>. QED BY <1>1, Inductive, PTL

\* AgentComplete's completion of a running session is never overwritten, and releases its
\* scratch unless that fails.
THEOREM CompletionStays == ASSUME AgentSessionAssumption PROVE Spec => []CompletionLasts
<1>1. IndInv => CompletionLasts
    BY DEF IndInv, Lasting
<1>. QED BY <1>1, Inductive, PTL
=============================================================================
