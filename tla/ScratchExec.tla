------------------------------ MODULE ScratchExec ------------------------------
(***************************************************************************)
(* The life of exec operations on one scratch VM, as the broker's handlers *)
(* drive it: ScratchExecCreate, ScratchExecGet, ScratchReap and            *)
(* ScratchDelete (internal/api/agentapiservice), the records they share in *)
(* the database and the worker on the VM (internal/api/                    *)
(* scratchworkerservice).                                                  *)
(*                                                                         *)
(* Every database or network call of a handler is a step of its own, so    *)
(* that what a handler has read can be stale when it acts on it. Sync is   *)
(* reduced to its two effects on the record, the status it reads and the   *)
(* final record it writes; the bytes it moves are the subject of           *)
(* OutputSync.                                                             *)
(***************************************************************************)
EXTENDS Integers

CONSTANTS
    Execs,          \* exec operations; each has one create call
    Pollers,        \* agents polling ScratchExecGet
    Deleters,       \* calls of ScratchDelete: the agent's, its session's end
    Timeouts,       \* TimeoutSeconds a request may carry; 0 is unbounded
    IdleThreshold,  \* ScratchReapDeps.IdleThreshold
    Grace,          \* opDeadlineGrace
    GCGrace,        \* the worker's gcGrace
    ReapEvery,      \* bound: the scheduler begins a pass this soon after the last
    PassLasts,      \* bound: a pass is over this soon after its beginning
    MaxClock,       \* bound: the clock
    ClientsUntil,   \* bound: clients make no new call from this time on
    QuietAt,        \* bound: the times before which every call of a client is over
    FaultKinds,     \* the faults that may happen, out of AllFaults
    MaxFaults       \* bound: how many of them

AllFaults == {"crash", "rpc", "start_reply_lost", "bump_lost", "vm_delete"}

ASSUME ScratchExecAssumption ==
    /\ Timeouts \subseteq Nat
    /\ IdleThreshold \in Nat /\ Grace \in Nat /\ GCGrace \in Nat
    /\ ReapEvery \in Nat \ {0}
    /\ PassLasts \in 1 .. ReapEvery
    /\ MaxClock \in Nat /\ ClientsUntil \in Nat /\ MaxFaults \in Nat
    /\ QuietAt \subseteq Nat
    /\ FaultKinds \subseteq AllFaults

VARIABLES
    clock,    \* wall clock, shared by the brokers and the database
    scratch,  \* the scratch record
    vm,       \* whether the VM exists
    exec,     \* the exec records
    wk,       \* the worker's entry for each exec: its state, startedAt, and whether
              \* it has been kept from gc
    create,   \* where each ScratchExecCreate stands
    poll,     \* where each ScratchExecGet stands
    reap,     \* where the ScratchReap pass stands
    delete,   \* where each ScratchDelete stands
    faults    \* faults so far

vars == <<clock, scratch, vm, exec, wk, create, poll, reap, delete, faults>>

-----------------------------------------------------------------------------
(* Records. *)

ScratchStates == {"starting", "ready", "deleting", "deleted"}
Terminal == {"completed", "timed_out", "lost"}
ExecStates == {"absent", "pending"} \cup Terminal

Absent == [state |-> "absent", exit |-> 0, err |-> FALSE, created |-> 0, timeout |-> 0]

Pending(e) == exec[e].state = "pending"
PendingExecs == {e \in Execs : Pending(e)}

\* What the worker can say of an op: unknown, running, or how it ended.
WorkerStates == {"none", "running", "exited", "killed", "infra"}
Ended == {"exited", "killed", "infra"}

\* finalFromStatus. Exit code 1 stands for whatever code the command chose.
ObservedCode == 1
KillCode == 124
\* Mutant: the kill is not told from an exit.
TakesKillForExit(e, how) ==
    IF how \in {"exited", "killed"}
    THEN [exec[e] EXCEPT !.state = "completed", !.exit = ObservedCode, !.err = FALSE]
    ELSE [exec[e] EXCEPT !.state = IF how = "blind" THEN "timed_out" ELSE "lost",
                         !.exit = 0, !.err = TRUE]

Final(e, how) ==
    CASE how = "exited" -> [exec[e] EXCEPT !.state = "completed",
                                           !.exit = ObservedCode, !.err = FALSE]
      [] how = "killed" -> [exec[e] EXCEPT !.state = "timed_out",
                                           !.exit = KillCode, !.err = TRUE]
      [] how \in {"infra", "lost"} -> [exec[e] EXCEPT !.state = "lost",
                                                     !.exit = 0, !.err = TRUE]
      [] how = "blind"  -> [exec[e] EXCEPT !.state = "timed_out",
                                           !.exit = 0, !.err = TRUE]

\* Every write of an exec record replaces it by a copy of the Pending record
\* the writer holds, with a terminal state: finalize, finalFromStatus and the
\* reaper. Nothing looks at what the stored record says by then.
Persist(e, how) == exec' = [exec EXCEPT ![e] = Final(e, how)]

Deadline(e) == exec[e].created + exec[e].timeout + Grace
Unbounded(e) == exec[e].timeout = 0

\* Mutant: only Ready scratches are listed.
ListsReadyOnly(at) == scratch.state = "ready" /\ scratch.lastUsed < at - IdleThreshold

\* ListIdleSince's condition, for the cutoff of a pass that began at time at.
IdleAt(at) ==
    \/ scratch.state = "ready" /\ scratch.lastUsed < at - IdleThreshold
    \/ scratch.state \in {"starting", "deleting"} /\ scratch.updated < at - IdleThreshold

SetState(st) == scratch' = [scratch EXCEPT !.state = st, !.updated = clock]
\* Mutant: last_used holds the end of the lease instead of its start.
BumpsAhead == scratch' = [scratch EXCEPT !.lastUsed = clock + IdleThreshold + 1,
                                         !.updated = clock]
BumpLastUsed == scratch' = [scratch EXCEPT !.lastUsed = clock, !.updated = clock]

\* Mutant: the worker drops an entry as its command ends.
RunningOnly(e) == vm /\ wk[e].state = "running"

\* Whether a status call for e can be answered.
Reachable(e) == vm /\ wk[e].state # "none" /\ wk[e].kept

\* How a create call may be over: it answered with the op, having recorded the
\* use of the scratch (or lost the op) or not; or it answered with an error or
\* not at all, and the client knows of no op. One that waits for the op after a
\* lost bump is at "waitblind" and "finalblind", not at "wait" and "waitfinal".
Answered == {"done", "unrecorded"}
Over == Answered \cup {"gone"}

NoPoll == [pc |-> "idle", e |-> "none"]
NoPass == [pc |-> "idle", at |-> 0, pending |-> {}, todo |-> {}, was |-> "ready",
           e |-> "none", how |-> "none"]

Init ==
    /\ clock = 0
    /\ scratch = [state |-> "ready", lastUsed |-> 0, updated |-> 0]
    /\ vm = TRUE
    /\ exec = [e \in Execs |-> Absent]
    /\ wk = [e \in Execs |-> [state |-> "none", at |-> 0, kept |-> TRUE]]
    /\ create = [e \in Execs |-> "idle"]
    /\ poll = [p \in Pollers |-> NoPoll]
    /\ reap = NoPass
    /\ delete = [d \in Deleters |-> "idle"]
    /\ faults = 0

Fault(kind) ==
    /\ kind \in FaultKinds
    /\ faults < MaxFaults
    /\ faults' = faults + 1

ClientsMayCall == clock < ClientsUntil

\* The calls made so far have ended: only the reaper is left.
ClientsQuiet ==
    /\ \A e \in Execs : create[e] \in {"idle"} \cup Over
    /\ \A p \in Pollers : poll[p].pc = "idle"
    /\ \A d \in Deleters : delete[d] \in {"idle", "done"}

Tick ==
    /\ clock < MaxClock
    /\ clock < reap.at + IF reap.pc = "idle" THEN ReapEvery ELSE PassLasts
    /\ clock + 1 \in QuietAt => ClientsQuiet
    /\ clock' = clock + 1
    /\ UNCHANGED <<scratch, vm, exec, wk, create, poll, reap, delete, faults>>

-----------------------------------------------------------------------------
(* The worker. *)

\* The command exits, or its run fails (spawn, stdin, wait).
WorkerEnds(e) ==
    /\ vm /\ wk[e].state = "running"
    /\ \E how \in {"exited", "infra"} : wk' = [wk EXCEPT ![e].state = how]
    /\ UNCHANGED <<clock, scratch, vm, exec, create, poll, reap, delete, faults>>

\* runCommand kills the command once its timeout has passed.
WorkerKills(e) ==
    /\ vm /\ wk[e].state = "running"
    /\ ~Unbounded(e)
    /\ clock >= wk[e].at + exec[e].timeout
    /\ wk' = [wk EXCEPT ![e].state = "killed"]
    /\ UNCHANGED <<clock, scratch, vm, exec, create, poll, reap, delete, faults>>

-----------------------------------------------------------------------------
(* ScratchExecCreate. *)

creating == <<clock, vm, poll, reap, delete>>

CreateCheck(e) ==
    /\ create[e] = "idle" /\ ClientsMayCall
    /\ create' = [create EXCEPT ![e] = IF scratch.state = "ready" THEN "insert"
                                                                 ELSE "gone"]
    /\ UNCHANGED <<creating, scratch, exec, wk, faults>>

CreateInsert(e) ==
    /\ create[e] = "insert"
    /\ \E t \in Timeouts :
        exec' = [exec EXCEPT ![e] = [Absent EXCEPT !.state = "pending",
                                                   !.created = clock, !.timeout = t]]
    /\ create' = [create EXCEPT ![e] = "start"]
    /\ UNCHANGED <<creating, scratch, wk, faults>>

\* Mutant: retention does not count the timeout.
LapsesWithoutTimeout(e) ==
    wk[e].state \in Ended /\ ~Unbounded(e) /\ clock > wk[e].at + GCGrace

\* gc's condition: an entry is released once its retention has lapsed. An
\* unbounded one never is.
Lapsed(e) ==
    /\ wk[e].state \in Ended
    /\ ~Unbounded(e)
    /\ clock > wk[e].at + exec[e].timeout + GCGrace

\* ExecStart: the worker collects what has lapsed, registers the op and spawns
\* the command.
Dispatched(e) ==
    [x \in Execs |-> IF x = e THEN [state |-> "running", at |-> clock, kept |-> TRUE]
                     ELSE [wk[x] EXCEPT !.kept = @ /\ ~Lapsed(x)]]

CreateStart(e) ==
    /\ create[e] = "start"
    /\ vm
    /\ wk' = Dispatched(e)
    /\ create' = [create EXCEPT ![e] = "bump"]
    /\ UNCHANGED <<creating, scratch, exec, faults>>

\* The dispatch fails: the worker is gone, or the call fails before or after
\* the worker has acted on it.
CreateStartFails(e) ==
    /\ create[e] = "start"
    /\ \/ ~vm /\ UNCHANGED <<wk, faults>>
       \/ Fault("rpc") /\ UNCHANGED wk
       \/ vm /\ Fault("start_reply_lost") /\ wk' = Dispatched(e)
    /\ create' = [create EXCEPT ![e] = "finalize"]
    /\ UNCHANGED <<creating, scratch, exec>>

CreateFinalize(e) ==
    /\ create[e] = "finalize"
    /\ \/ Persist(e, "lost") /\ create' = [create EXCEPT ![e] = "done"] /\ UNCHANGED faults
       \/ Fault("rpc") /\ create' = [create EXCEPT ![e] = "gone"] /\ UNCHANGED exec
    /\ UNCHANGED <<creating, scratch, wk>>

\* UpdateLastUsed, best effort: its failure is only logged. Either way a request
\* that asks to wait goes on to optimisticWait.
CreateBump(e) ==
    /\ create[e] = "bump"
    /\ \/ BumpLastUsed /\ UNCHANGED faults
          /\ \E next \in {"done", "wait"} : create' = [create EXCEPT ![e] = next]
       \/ Fault("bump_lost") /\ UNCHANGED scratch
          /\ \E next \in {"unrecorded", "waitblind"} : create' = [create EXCEPT ![e] = next]
    /\ UNCHANGED <<creating, exec, wk>>

\* optimisticWait: it syncs until the op has ended, and retries what fails, until
\* its time is up.
CreateWait(e) ==
    /\ create[e] \in {"wait", "waitblind"}
    /\ \/ Reachable(e) /\ wk[e].state \in Ended
          /\ create' = [create EXCEPT ![e] = IF @ = "wait" THEN "waitfinal" ELSE "finalblind"]
       \/ create' = [create EXCEPT ![e] = IF @ = "wait" THEN "done" ELSE "unrecorded"]
    /\ UNCHANGED <<creating, scratch, exec, wk, faults>>

CreateWaitFinal(e) ==
    /\ create[e] \in {"waitfinal", "finalblind"}
    /\ \/ Persist(e, wk[e].state) /\ UNCHANGED faults
          /\ create' = [create EXCEPT ![e] = IF @ = "waitfinal" THEN "done" ELSE "unrecorded"]
       \/ Fault("rpc") /\ UNCHANGED exec
          /\ create' = [create EXCEPT ![e] = IF @ = "waitfinal" THEN "wait" ELSE "waitblind"]
    /\ UNCHANGED <<creating, scratch, wk>>

CreateCrash(e) ==
    /\ Fault("crash")
    /\ create[e] \notin {"idle"} \cup Over
    /\ create' = [create EXCEPT ![e] = "gone"]
    /\ UNCHANGED <<creating, scratch, exec, wk>>

Create(e) ==
    \/ CreateCheck(e) \/ CreateInsert(e) \/ CreateStart(e) \/ CreateStartFails(e)
    \/ CreateFinalize(e) \/ CreateBump(e) \/ CreateWait(e) \/ CreateWaitFinal(e)

-----------------------------------------------------------------------------
(* ScratchExecGet, with the Sync it makes. *)

polling == <<clock, vm, wk, create, reap, delete>>

PollTo(p, where) == poll' = [poll EXCEPT ![p].pc = where]

\* A client can ask for an op it was told of. A terminal record is projected as
\* it is.
PollGet(p) ==
    /\ poll[p].pc = "idle" /\ ClientsMayCall
    /\ \E e \in PendingExecs :
        /\ create[e] \in Answered
        /\ poll' = [poll EXCEPT ![p] = [pc |-> "scratch", e |-> e]]
    /\ UNCHANGED <<polling, scratch, exec, faults>>

\* A scratch that is not Ready, or cannot be read, loses the exec.
PollScratch(p) ==
    /\ poll[p].pc = "scratch"
    /\ \/ PollTo(p, IF scratch.state = "ready" THEN "status" ELSE "lose") /\ UNCHANGED faults
       \/ Fault("rpc") /\ PollTo(p, "lose")
    /\ UNCHANGED <<polling, scratch, exec>>

PollStatus(p) ==
    /\ poll[p].pc = "status"
    /\ Reachable(poll[p].e)
    /\ poll' = [poll EXCEPT ![p] = IF wk[@.e].state = "running" THEN NoPoll
                                   ELSE [@ EXCEPT !.pc = "final"]]
    /\ UNCHANGED <<polling, scratch, exec, faults>>

\* Any error of Sync loses the exec: the worker is gone or does not know the op,
\* or a call or the write of the final record fails.
PollSyncFails(p) ==
    /\ poll[p].pc \in {"status", "final"}
    /\ \/ poll[p].pc = "status" /\ ~Reachable(poll[p].e) /\ UNCHANGED faults
       \/ Fault("rpc")
    /\ PollTo(p, "lose")
    /\ UNCHANGED <<polling, scratch, exec>>

\* The worker keeps its answer: what an op ended with never changes.
PollFinal(p) ==
    /\ poll[p].pc = "final"
    /\ Persist(poll[p].e, wk[poll[p].e].state)
    /\ PollTo(p, "bump")
    /\ UNCHANGED <<polling, scratch, faults>>

\* This poll saw the exec end: the scratch gets a fresh idle window.
PollBump(p) ==
    /\ poll[p].pc = "bump"
    /\ \/ BumpLastUsed /\ UNCHANGED faults
       \/ Fault("bump_lost") /\ UNCHANGED scratch
    /\ poll' = [poll EXCEPT ![p] = NoPoll]
    /\ UNCHANGED <<polling, exec>>

\* finalize: the Pending copy this call holds is written back as Lost.
PollLose(p) ==
    /\ poll[p].pc = "lose"
    /\ \/ Persist(poll[p].e, "lost") /\ UNCHANGED faults
       \/ Fault("rpc") /\ UNCHANGED exec
    /\ poll' = [poll EXCEPT ![p] = NoPoll]
    /\ UNCHANGED <<polling, scratch>>

PollCrash(p) ==
    /\ poll[p].pc # "idle"
    /\ Fault("crash")
    /\ poll' = [poll EXCEPT ![p] = NoPoll]
    /\ UNCHANGED <<polling, scratch, exec>>

Poll(p) ==
    \/ PollGet(p) \/ PollScratch(p) \/ PollStatus(p) \/ PollSyncFails(p)
    \/ PollFinal(p) \/ PollBump(p) \/ PollLose(p)

-----------------------------------------------------------------------------
(* ScratchReap: one pass at a time. *)

reaping == <<clock, wk, create, poll, delete>>

ReapTo(where) == reap' = [reap EXCEPT !.pc = where]

\* The pass takes its time and its snapshot of the pending ops.
ReapBegin ==
    /\ reap.pc = "idle"
    /\ reap' = [NoPass EXCEPT !.pc = "idle_list", !.at = clock, !.pending = PendingExecs]
    /\ UNCHANGED <<reaping, scratch, vm, exec, faults>>

\* An op with no bound, or inside its deadline, exempts its scratch.
Busy == \E e \in reap.pending : Unbounded(e) \/ reap.at < Deadline(e)

ReapIdleList ==
    /\ reap.pc = "idle_list"
    /\ reap' = IF IdleAt(reap.at) /\ ~Busy
               THEN [reap EXCEPT !.pc = "presync", !.todo = reap.pending,
                                 !.was = scratch.state]
               ELSE [reap EXCEPT !.pc = "sweep_list"]
    /\ UNCHANGED <<reaping, scratch, vm, exec, faults>>

\* syncPendingFor: each op of the snapshot gets a last sync; errors are logged.
ReapPresync(e) ==
    /\ reap.pc = "presync" /\ e \in reap.todo
    /\ \/ /\ Reachable(e) /\ wk[e].state \in Ended
          /\ reap' = [reap EXCEPT !.pc = "presync_final", !.e = e, !.how = wk[e].state]
          /\ UNCHANGED faults
       \/ /\ ~Reachable(e) \/ wk[e].state = "running"
          /\ reap' = [reap EXCEPT !.todo = @ \ {e}]
          /\ UNCHANGED faults
       \/ /\ Fault("rpc")
          /\ reap' = [reap EXCEPT !.todo = @ \ {e}]
    /\ UNCHANGED <<reaping, scratch, vm, exec>>

ReapPresyncFinal ==
    /\ reap.pc = "presync_final"
    /\ \/ Persist(reap.e, reap.how) /\ UNCHANGED faults
       \/ Fault("rpc") /\ UNCHANGED exec
    /\ reap' = [reap EXCEPT !.pc = "presync", !.todo = @ \ {reap.e}, !.e = "none",
                            !.how = "none"]
    /\ UNCHANGED <<reaping, scratch, vm>>

\* Mutant: the listing is trusted.
TearsDownListed ==
    /\ reap.pc = "presync" /\ reap.todo = {}
    /\ ReapTo(IF reap.was # "deleting" THEN "mark" ELSE "delete_vm")
    /\ UNCHANGED <<reaping, scratch, vm, exec, faults>>

\* The scratch is read again before the destructive step. teardownScratch then
\* goes by the record of the idle listing.
ReapRecheck ==
    /\ reap.pc = "presync" /\ reap.todo = {}
    /\ \/ /\ reap' = [reap EXCEPT !.pc = IF ~IdleAt(reap.at) THEN "sweep_list"
                                        ELSE IF reap.was # "deleting" THEN "mark"
                                        ELSE "delete_vm"]
          /\ UNCHANGED faults
       \/ Fault("rpc") /\ ReapTo("sweep_list")
    /\ UNCHANGED <<reaping, scratch, vm, exec>>

ReapMark ==
    /\ reap.pc = "mark"
    /\ \/ SetState("deleting") /\ ReapTo("delete_vm") /\ UNCHANGED faults
       \/ Fault("rpc") /\ ReapTo("sweep_list") /\ UNCHANGED scratch
    /\ UNCHANGED <<reaping, vm, exec>>

\* An error of DeleteInstance is only logged.
ReapDeleteVM ==
    /\ reap.pc = "delete_vm"
    /\ \/ vm' = FALSE /\ UNCHANGED faults
       \/ Fault("vm_delete") /\ UNCHANGED vm
    /\ ReapTo("deleted")
    /\ UNCHANGED <<reaping, scratch, exec>>

ReapDeleted ==
    /\ reap.pc = "deleted"
    /\ \/ SetState("deleted") /\ UNCHANGED faults
       \/ Fault("rpc") /\ UNCHANGED scratch
    /\ ReapTo("sweep_list")
    /\ UNCHANGED <<reaping, vm, exec>>

ReapSweepList ==
    /\ reap.pc = "sweep_list"
    /\ reap' = [reap EXCEPT !.pc = "sweep", !.todo = PendingExecs]
    /\ UNCHANGED <<reaping, scratch, vm, exec, faults>>

Expired(e) == ~Unbounded(e) /\ reap.at > Deadline(e)

\* terminalStateFor up to its decision: an expired op is pulled through a Ready
\* scratch or finalized blind; one whose scratch is gone is Lost.
ReapDecide(e) ==
    /\ reap.pc = "sweep" /\ e \in reap.todo
    /\ \/ /\ Expired(e) /\ scratch.state = "ready"
          /\ reap' = [reap EXCEPT !.pc = "pull", !.e = e]
          /\ UNCHANGED faults
       \/ /\ Expired(e)
          /\ (scratch.state # "ready" /\ UNCHANGED faults) \/ Fault("rpc")
          /\ reap' = [reap EXCEPT !.pc = "settle", !.e = e, !.how = "blind"]
       \/ /\ ~Expired(e) /\ scratch.state \notin {"ready", "starting"}
          /\ reap' = [reap EXCEPT !.pc = "settle", !.e = e, !.how = "lost"]
          /\ UNCHANGED faults
       \/ /\ ~Expired(e)
          /\ (scratch.state # "deleting" /\ scratch.state # "deleted" /\ UNCHANGED faults)
             \/ Fault("rpc")
          /\ reap' = [reap EXCEPT !.todo = @ \ {e}]
    /\ UNCHANGED <<reaping, scratch, vm, exec>>

\* The pull-through sync: the worker's answer, or the blind fallback.
ReapPull ==
    /\ reap.pc = "pull"
    /\ \/ /\ Reachable(reap.e) /\ wk[reap.e].state \in Ended
          /\ reap' = [reap EXCEPT !.pc = "settle", !.how = wk[reap.e].state]
          /\ UNCHANGED faults
       \/ /\ Reachable(reap.e) => wk[reap.e].state = "running"
          /\ reap' = [reap EXCEPT !.pc = "settle", !.how = "blind"]
          /\ UNCHANGED faults
       \/ /\ Fault("rpc")
          /\ reap' = [reap EXCEPT !.pc = "settle", !.how = "blind"]
    /\ UNCHANGED <<reaping, scratch, vm, exec>>

\* Mutant: an op no worker answers for is left to the next pass.
SettlesAnswersOnly ==
    /\ reap.pc = "settle"
    /\ IF reap.how \in Ended THEN Persist(reap.e, reap.how) ELSE UNCHANGED exec
    /\ reap' = [reap EXCEPT !.pc = "sweep", !.todo = @ \ {reap.e}, !.e = "none",
                            !.how = "none"]
    /\ UNCHANGED <<reaping, scratch, vm, faults>>

\* The final write. If the sync's own write fails the op is finalized blind; if
\* the reaper's fails, the error is logged.
ReapSettle ==
    /\ reap.pc = "settle"
    /\ \/ /\ Persist(reap.e, reap.how)
          /\ reap' = [reap EXCEPT !.pc = "sweep", !.todo = @ \ {reap.e}, !.e = "none",
                                  !.how = "none"]
          /\ UNCHANGED faults
       \/ /\ Fault("rpc")
          /\ reap' = IF reap.how \in Ended
                     THEN [reap EXCEPT !.how = "blind"]
                     ELSE [reap EXCEPT !.pc = "sweep", !.todo = @ \ {reap.e},
                                       !.e = "none", !.how = "none"]
          /\ UNCHANGED exec
    /\ UNCHANGED <<reaping, scratch, vm>>

ReapEnd ==
    /\ reap.pc = "sweep" /\ reap.todo = {}
    /\ reap' = [NoPass EXCEPT !.at = reap.at]
    /\ UNCHANGED <<reaping, scratch, vm, exec, faults>>

ReapCrash ==
    /\ reap.pc # "idle"
    /\ Fault("crash")
    /\ reap' = [NoPass EXCEPT !.at = reap.at]
    /\ UNCHANGED <<reaping, scratch, vm, exec>>

ReapStep ==
    \/ ReapIdleList \/ (\E e \in Execs : ReapPresync(e)) \/ ReapPresyncFinal
    \/ ReapRecheck \/ ReapMark \/ ReapDeleteVM \/ ReapDeleted
    \/ ReapSweepList \/ (\E e \in Execs : ReapDecide(e)) \/ ReapPull \/ ReapSettle
    \/ ReapEnd

-----------------------------------------------------------------------------
(* ScratchDelete. It looks at nothing but the names in the record. *)

deleting == <<clock, wk, exec, create, poll, reap>>

DeleteTo(d, where) == delete' = [delete EXCEPT ![d] = where]

DeleteMark(d) ==
    /\ delete[d] = "idle" /\ ClientsMayCall
    /\ SetState("deleting")
    /\ DeleteTo(d, "delete_vm")
    /\ UNCHANGED <<deleting, vm, faults>>

DeleteVM(d) ==
    /\ delete[d] = "delete_vm"
    /\ \/ vm' = FALSE /\ UNCHANGED faults
       \/ Fault("vm_delete") /\ UNCHANGED vm
    /\ DeleteTo(d, "deleted")
    /\ UNCHANGED <<deleting, scratch>>

DeleteDone(d) ==
    /\ delete[d] = "deleted"
    /\ SetState("deleted")
    /\ DeleteTo(d, "done")
    /\ UNCHANGED <<deleting, vm, faults>>

\* The broker crashes, or the write of the state fails.
DeleteStops(d) ==
    /\ delete[d] \in {"delete_vm", "deleted"}
    /\ Fault("crash")
    /\ DeleteTo(d, "done")
    /\ UNCHANGED <<deleting, scratch, vm>>

Delete(d) == DeleteMark(d) \/ DeleteVM(d) \/ DeleteDone(d)

-----------------------------------------------------------------------------
Next ==
    \/ Tick
    \/ \E e \in Execs :
        WorkerEnds(e) \/ WorkerKills(e) \/ Create(e) \/ CreateCrash(e)
    \/ \E p \in Pollers : Poll(p) \/ PollCrash(p)
    \/ ReapBegin \/ ReapStep \/ ReapCrash
    \/ \E d \in Deleters : Delete(d) \/ DeleteStops(d)

Spec == Init /\ [][Next]_vars

\* Time passes; the scheduler keeps calling the reaper, and calls that have begun
\* go on. Clients owe nothing: an agent may stop polling for ever.
FairSpec ==
    /\ Spec
    /\ SF_vars(Tick)
    /\ WF_vars(ReapBegin) /\ WF_vars(ReapStep)
    /\ \A d \in Deleters : WF_vars(Delete(d) /\ delete[d] # "idle")
    /\ \A e \in Execs : WF_vars(Create(e) /\ create[e] # "idle")
    /\ \A p \in Pollers : WF_vars(Poll(p) /\ poll[p].pc # "idle")

-----------------------------------------------------------------------------
(* Properties. *)

PollPCs == {"idle", "scratch", "status", "final", "bump", "lose"}
CreatePCs == {"idle", "insert", "start", "bump", "finalize", "wait", "waitfinal",
              "waitblind", "finalblind"} \cup Over
ReapPCs == {"idle", "idle_list", "presync", "presync_final", "mark", "delete_vm",
            "deleted", "sweep_list", "sweep", "pull", "settle"}
Hows == {"none", "lost", "blind"} \cup Ended

TypeOK ==
    /\ clock \in 0 .. MaxClock
    /\ scratch \in [state : ScratchStates, lastUsed : 0 .. MaxClock, updated : 0 .. MaxClock]
    /\ vm \in BOOLEAN
    /\ exec \in [Execs -> [state : ExecStates, exit : {0, ObservedCode, KillCode},
                           err : BOOLEAN, created : 0 .. MaxClock,
                           timeout : Timeouts \cup {0}]]
    /\ wk \in [Execs -> [state : WorkerStates, at : 0 .. MaxClock, kept : BOOLEAN]]
    /\ create \in [Execs -> CreatePCs]
    /\ poll \in [Pollers -> [pc : PollPCs, e : Execs \cup {"none"}]]
    /\ reap \in [pc : ReapPCs, at : 0 .. MaxClock, pending : SUBSET Execs,
                 todo : SUBSET Execs, was : ScratchStates,
                 e : Execs \cup {"none"}, how : Hows]
    /\ delete \in [Deleters -> {"idle", "delete_vm", "deleted", "done"}]
    /\ faults \in 0 .. MaxFaults

\* The fields of a record agree with its state (schema.ScratchExec): Completed
\* carries the exit that was observed and no error, every other end an error.
FieldsMatchState ==
    \A e \in Execs :
        /\ exec[e].state = "pending" => exec[e].exit = 0 /\ ~exec[e].err
        /\ exec[e].state = "completed" =>
            /\ wk[e].state = "exited"
            /\ exec[e].exit = ObservedCode /\ ~exec[e].err
        /\ exec[e].state = "timed_out" => exec[e].err
        /\ exec[e].state = "lost" => exec[e].err /\ exec[e].exit = 0

\* What the record says is what a client may rely on (schema.ScratchExec), whoever of
\* create, polls, pre-sync and sweep wrote it last: the command was launched once and for
\* this op, Completed and the kill's TimedOut are the worker's own word, the blind
\* TimedOut comes only after the deadline, and no op is Pending again.
Op == INSTANCE ExecOp WITH
    Ops <- Execs, Limits <- Timeouts, now <- clock,
    command <- [e \in Execs |-> wk[e].state], op <- exec
BehavesAsOp == Op!Spec

\* An op is not called Lost on a whim: where no call fails, its worker said so or
\* its scratch was being torn down when somebody looked.
LostHasCause ==
    faults = 0 => \A e \in Execs :
        exec[e].state = "lost" =>
            wk[e].state = "infra" \/ scratch.state # "ready" \/ ~wk[e].kept

\* "gcGrace extends retention past each op's timeout so late broker pulls still
\* find the entry": the worker releases no answer that the broker has not taken
\* over, if a pass that finds the op late is over while the entry is still kept.
AnswerKept ==
    faults = 0 => \A e \in Execs : Pending(e) => wk[e].kept

\* An exec that is live: its command runs, inside its deadline.
Live(e) ==
    /\ Pending(e)
    /\ wk[e].state = "running"
    /\ Unbounded(e) \/ clock < Deadline(e)

\* What the busy set and the re-check do achieve: when the reaper decides to tear
\* a scratch down, a live exec on it is one whose create call has not recorded
\* the use of the scratch, because it has not got there or never did.
RecheckSparesAcknowledged ==
    [][reap.pc = "presync" /\ reap'.pc \in {"mark", "delete_vm"}
        => \A e \in Execs : create[e] = "done" => ~Live(e)]_vars

\* A bounded exec does not stay Pending for ever, whether or not its agent polls, and
\* no exec does whose scratch is gone.
ExecEnds ==
    \A e \in Execs :
        Pending(e) /\ (~Unbounded(e) \/ scratch.state = "deleted")
            ~> exec[e].state \in Terminal

\* A scratch nobody uses any more, and a half finished delete, end Deleted.
IdleScratchReaped ==
    (\A e \in Execs : ~(Pending(e) /\ Unbounded(e)))
        ~> scratch.state = "deleted" \/ \E e \in Execs : Pending(e) /\ Unbounded(e)

=============================================================================
