------------------------------- MODULE OutputSync -------------------------------
(***************************************************************************)
(* One exec's output on its way from the worker's capture file to the GCS  *)
(* object behind OutURI, and the exec record that the same calls finalize: *)
(* gcsSyncer.Sync and pullOutput                                           *)
(* (internal/api/agentapiservice/scratch_exec.go), run concurrently by     *)
(* agent polls (ScratchExecGet), by the optimistic wait of                 *)
(* ScratchExecCreate and by the reaper.                                    *)
(*                                                                         *)
(* A byte is named by its 1-based position in the capture file, so the     *)
(* published object is a sequence of positions and a gap, a repetition or  *)
(* a reordering is visible in it.                                          *)
(***************************************************************************)
EXTENDS Integers, Sequences

CONSTANTS
    Getters,    \* agent polls: ScratchExecGet
    Waiters,    \* optimisticWait loops of ScratchExecCreate
    Reapers,    \* syncs made by ScratchReap
    Endings,    \* how the command may end, out of Verdicts
    MaxBytes,   \* bound: size of the capture file
    MaxGen,     \* bound: generations of the published object
    FaultKinds, \* the faults that may happen, out of AllFaults
    MaxFaults,  \* bound: how many of them
    NoPart      \* marks a part name under which no object exists

AllFaults == {"crash", "reply_lost", "delete_lost"}
Verdicts == {"completed", "timed_out", "lost"}

ASSUME OutputSyncAssumption ==
    /\ FaultKinds \subseteq AllFaults
    /\ Endings \subseteq Verdicts
    /\ NoPart \notin Seq(Nat)
    /\ MaxBytes \in Nat
    /\ MaxGen \in Nat
    /\ MaxFaults \in Nat

Syncers == Getters \cup Waiters \cup Reapers

VARIABLES
    capture,  \* size of the worker's capture file
    worker,   \* the worker's execEntry: verdict, and the size frozen at finish
    main,     \* contents of the published object
    gen,      \* its GCS generation; 0 when the object does not exist
    parts,    \* part objects by the start offset in their name
    rec,      \* State of the stored ScratchExec
    pc,       \* where each call of Sync stands
    seen,     \* what each call has read: worker status, size and generation
    data,     \* the tail each call has streamed
    faults    \* faults so far

vars == <<capture, worker, main, gen, parts, rec, pc, seen, data, faults>>
gcs == <<main, gen, parts>>
env == <<capture, worker>>

RecStates == {"pending"} \cup Verdicts
PCs == {"idle", "status", "attrs", "stream", "close", "compose",
        "delete_ok", "delete_err", "after", "returned", "failed", "stopped"}

Offsets == 0 .. MaxBytes
Bytes(from, to) == [i \in 1 .. (to - from) |-> from + i]

NothingSeen == [state |-> "running", total |-> 0, size |-> 0, gen |-> 0]

Init ==
    /\ capture = 0
    /\ worker = [state |-> "running", total |-> 0]
    /\ main = <<>> /\ gen = 0
    /\ parts = [o \in Offsets |-> NoPart]
    /\ rec = "pending"
    /\ pc = [s \in Syncers |-> "idle"]
    /\ seen = [s \in Syncers |-> NothingSeen]
    /\ data = [s \in Syncers |-> <<>>]
    /\ faults = 0

-----------------------------------------------------------------------------
(* The worker. *)

\* The command, or a background child that outlives it and still holds the
\* file descriptor, writes output.
WorkerWrite ==
    /\ capture < MaxBytes
    /\ capture' = capture + 1
    /\ UNCHANGED <<worker, gcs, rec, pc, seen, data, faults>>

\* finalizeExec stats the file and ExecStore.finish freezes its size: the exit
\* is observed, or the command was killed at its timeout, or it never ran.
WorkerFinish ==
    /\ worker.state = "running"
    /\ \E v \in Endings : worker' = [state |-> v, total |-> capture]
    /\ UNCHANGED <<capture, gcs, rec, pc, seen, data, faults>>

\* Mutant: the status runs one byte ahead of the file.
ReportsOneMore == capture + 1

\* ExecStore.status: the live file size until done, the frozen one after.
ReportedTotal == IF worker.state = "running" THEN capture ELSE worker.total

-----------------------------------------------------------------------------
(* gcsSyncer.Sync. *)

\* The call of s is over and its local variables with it.
Release(s) ==
    /\ seen' = [seen EXCEPT ![s] = NothingSeen]
    /\ data' = [data EXCEPT ![s] = <<>>]

Drained(s) == [data EXCEPT ![s] = <<>>]   \* the tail is in the part

\* A caller holds a Pending copy of the record: ScratchExecGet and the reaper
\* have just read it, optimisticWait keeps the one ScratchExecCreate inserted.
Begin(s) ==
    /\ pc[s] = "idle"
    /\ s \in Waiters \/ rec = "pending"
    /\ pc' = [pc EXCEPT ![s] = "status"]
    /\ UNCHANGED <<env, gcs, rec, seen, data, faults>>

FetchStatus(s) ==
    /\ pc[s] = "status"
    /\ seen' = [seen EXCEPT ![s] = [state |-> worker.state, total |-> ReportedTotal,
                                    size |-> 0, gen |-> 0]]
    /\ pc' = [pc EXCEPT ![s] = "attrs"]
    /\ UNCHANGED <<env, gcs, rec, data, faults>>

\* Mutant: the throttle also holds back terminal syncs.
ThrottlesTerminal(s) == gen # 0

\* shouldCompose: a terminal sync and a first sync are never throttled; any
\* other one is or is not, by the clock and the schedule.
Throttleable(s) == seen[s].state = "running" /\ gen # 0

StatMain(s) ==
    /\ pc[s] = "attrs"
    /\ seen' = [seen EXCEPT ![s] = [state |-> seen[s].state, total |-> 0,
                                    size |-> Len(main), gen |-> gen]]
    /\ \/ /\ seen[s].total > Len(main)
          /\ pc' = [pc EXCEPT ![s] = "stream"]
       \/ /\ seen[s].total <= Len(main) \/ Throttleable(s)
          /\ pc' = [pc EXCEPT ![s] = "after"]
    /\ UNCHANGED <<env, gcs, rec, data, faults>>

-----------------------------------------------------------------------------
(* gcsSyncer.pullOutput. *)

\* ExecStore.outputFrom: the file from the offset to its size at entry.
Stream(s) ==
    /\ pc[s] = "stream"
    /\ data' = [data EXCEPT ![s] = Bytes(seen[s].size, capture)]
    /\ pc' = [pc EXCEPT ![s] = "close"]
    /\ UNCHANGED <<env, gcs, rec, seen, faults>>

Gone(o) == [parts EXCEPT ![o] = NoPart]

\* The stream or a write breaks off: the upload is cancelled and the part's
\* name deleted, whoever created the object it names.
StreamBreaks(s) ==
    /\ pc[s] = "stream"
    /\ parts' = Gone(seen[s].size)
    /\ pc' = [pc EXCEPT ![s] = "failed"]
    /\ UNCHANGED <<env, main, gen, rec, seen, data, faults>>

\* Closing the writer creates the part if its name is free; 412 otherwise. The
\* branch for an empty tail is never taken: see NoEmptyParts.
ClosePart(s) ==
    /\ pc[s] = "close"
    /\ IF parts[seen[s].size] = NoPart
       THEN /\ parts' = [parts EXCEPT ![seen[s].size] = data[s]]
            /\ pc' = [pc EXCEPT ![s] = "compose"]
       ELSE /\ pc' = [pc EXCEPT ![s] = "after"]
            /\ UNCHANGED parts
    /\ data' = Drained(s)
    /\ UNCHANGED <<env, main, gen, rec, seen, faults>>

\* Mutant: every compose takes the part alone.
ComposesPartOnly(s) == parts[seen[s].size]

\* The object a successful compose leaves: the part alone on the first sync,
\* main followed by the part after that. The part is read by name.
Composed(s) ==
    IF seen[s].gen = 0 THEN parts[seen[s].size] ELSE main \o parts[seen[s].size]

\* Mutant: main is composed without a precondition.
NoPrecondition(s) == TRUE

\* DoesNotExist is generation 0, so both preconditions read the same way.
Precondition(s) == gen = seen[s].gen

ComposeApplies(s) ==
    /\ pc[s] = "compose"
    /\ gen < MaxGen
    /\ Precondition(s)
    /\ parts[seen[s].size] # NoPart
    /\ main' = Composed(s)
    /\ gen' = gen + 1

Compose(s) ==
    /\ ComposeApplies(s)
    /\ pc' = [pc EXCEPT ![s] = "delete_ok"]
    /\ UNCHANGED <<env, parts, rec, seen, data, faults>>

\* 412: another sync extended main first. The call goes on without an error.
ComposeLosesRace(s) ==
    /\ pc[s] = "compose"
    /\ ~Precondition(s)
    /\ pc' = [pc EXCEPT ![s] = "delete_ok"]
    /\ UNCHANGED <<env, gcs, rec, seen, data, faults>>

\* The part is gone, or the request failed without effect.
ComposeFails(s) ==
    /\ pc[s] = "compose"
    /\ pc' = [pc EXCEPT ![s] = "delete_err"]
    /\ UNCHANGED <<env, gcs, rec, seen, data, faults>>

\* Mutant: the part is kept when the compose has failed.
DeletesOnSuccess(s) ==
    /\ pc[s] \in {"delete_ok", "delete_err"}
    /\ parts' = IF pc[s] = "delete_ok" THEN Gone(seen[s].size) ELSE parts
    /\ pc' = [pc EXCEPT ![s] = IF pc[s] = "delete_ok" THEN "after" ELSE "failed"]
    /\ UNCHANGED <<env, main, gen, rec, seen, data, faults>>

DeletePart(s) ==
    /\ pc[s] \in {"delete_ok", "delete_err"}
    /\ parts' = Gone(seen[s].size)
    /\ pc' = [pc EXCEPT ![s] = IF pc[s] = "delete_ok" THEN "after" ELSE "failed"]
    /\ UNCHANGED <<env, main, gen, rec, seen, data, faults>>

-----------------------------------------------------------------------------
(* The rest of Sync, and what its caller does with the result. *)

\* Not done: the exec is returned as it was. Done: finalFromStatus is written
\* over the whole record, whatever the record says by now.
Finish(s) ==
    /\ pc[s] = "after"
    /\ IF seen[s].state = "running"
       THEN /\ pc' = [pc EXCEPT ![s] = "returned"]
            /\ UNCHANGED <<rec, seen, data>>
       ELSE /\ rec' = seen[s].state
            /\ pc' = [pc EXCEPT ![s] = IF s \in Waiters THEN "stopped" ELSE "idle"]
            /\ Release(s)
    /\ UNCHANGED <<env, gcs, faults>>

\* A dial, status, attrs, close or Firestore call fails without effect.
CallFails(s) ==
    /\ pc[s] \in {"status", "attrs", "close", "after"}
    /\ pc[s] = "after" => seen[s].state # "running"
    /\ pc' = [pc EXCEPT ![s] = "failed"]
    /\ data' = Drained(s)
    /\ UNCHANGED <<env, gcs, rec, seen, faults>>

\* Mutant: a failed sync is reported without touching the record.
ReportsErrorOnly(s) ==
    /\ s \in Getters
    /\ pc[s] = "failed"
    /\ pc' = [pc EXCEPT ![s] = "idle"]
    /\ Release(s)
    /\ UNCHANGED <<env, gcs, rec, faults>>

\* ScratchExecGet's last-error-is-final policy: finalize as Lost.
FinalizeLost(s) ==
    /\ s \in Getters
    /\ pc[s] = "failed"
    /\ rec' = "lost"
    /\ pc' = [pc EXCEPT ![s] = "idle"]
    /\ Release(s)
    /\ UNCHANGED <<env, gcs, faults>>

\* The reaper's blind TimedOut for an expired op that did not sync to an end.
BlindTimeout(s) ==
    /\ s \in Reapers
    /\ pc[s] \in {"returned", "failed"}
    /\ rec' = "timed_out"
    /\ pc' = [pc EXCEPT ![s] = "idle"]
    /\ Release(s)
    /\ UNCHANGED <<env, gcs, faults>>

\* A poll returns the Pending operation; an optimistic wait sleeps and loops;
\* the reaper only logs before a teardown; or the caller's own write fails.
Return(s) ==
    /\ pc[s] \in {"returned", "failed"}
    /\ pc' = [pc EXCEPT ![s] = "idle"]
    /\ Release(s)
    /\ UNCHANGED <<env, gcs, rec, faults>>

-----------------------------------------------------------------------------
(* Faults. *)

Fault(kind) ==
    /\ kind \in FaultKinds
    /\ faults < MaxFaults
    /\ faults' = faults + 1

\* The broker instance dies and nothing resumes the call: an optimistic wait is
\* over, later polls and reap passes are new calls.
Crash(s) ==
    /\ Fault("crash")
    /\ pc[s] \notin {"idle", "stopped"}
    /\ pc' = [pc EXCEPT ![s] = IF s \in Waiters THEN "stopped" ELSE "idle"]
    /\ Release(s)
    /\ UNCHANGED <<env, gcs, rec>>

\* The part is created but its reply is lost: the call sees an error, or the
\* client library's retry meets the object it has just created as 412.
ClosePartReplyLost(s) ==
    /\ Fault("reply_lost")
    /\ pc[s] = "close"
    /\ parts[seen[s].size] = NoPart
    /\ parts' = [parts EXCEPT ![seen[s].size] = data[s]]
    /\ \E to \in {"failed", "after"} : pc' = [pc EXCEPT ![s] = to]
    /\ data' = Drained(s)
    /\ UNCHANGED <<env, main, gen, rec, seen>>

\* The same for the compose.
ComposeReplyLost(s) ==
    /\ Fault("reply_lost")
    /\ ComposeApplies(s)
    /\ \E to \in {"delete_err", "delete_ok"} : pc' = [pc EXCEPT ![s] = to]
    /\ UNCHANGED <<env, parts, rec, seen, data>>

\* Deleting the part fails; the error is dropped.
DeletePartFails(s) ==
    /\ Fault("delete_lost")
    /\ pc[s] \in {"delete_ok", "delete_err"}
    /\ pc' = [pc EXCEPT ![s] = IF pc[s] = "delete_err" THEN "failed" ELSE "after"]
    /\ UNCHANGED <<env, gcs, rec, seen, data>>

-----------------------------------------------------------------------------
Sync(s) ==
    \/ Begin(s) \/ FetchStatus(s) \/ StatMain(s)
    \/ Stream(s) \/ StreamBreaks(s) \/ ClosePart(s)
    \/ Compose(s) \/ ComposeLosesRace(s) \/ ComposeFails(s) \/ DeletePart(s)
    \/ Finish(s) \/ CallFails(s)
    \/ FinalizeLost(s) \/ BlindTimeout(s) \/ Return(s)

Faults(s) ==
    \/ Crash(s) \/ ClosePartReplyLost(s) \/ ComposeReplyLost(s)
    \/ DeletePartFails(s)

Next ==
    \/ WorkerWrite
    \/ WorkerFinish
    \/ \E s \in Syncers : Sync(s) \/ Faults(s)

Spec == Init /\ [][Next]_vars

\* The store and the network do not fail every time, polls keep coming, and a
\* call that has begun goes on.
Fairness ==
    \A s \in Syncers :
        /\ WF_vars(Begin(s))
        /\ WF_vars(Sync(s) /\ pc[s] # "idle")
        /\ SF_vars(FetchStatus(s)) /\ SF_vars(StatMain(s))
        /\ SF_vars(Finish(s)) /\ SF_vars(FinalizeLost(s))

FairSpec == Spec /\ WF_vars(WorkerFinish) /\ Fairness

-----------------------------------------------------------------------------
(* Properties. *)

TypeOK ==
    /\ capture \in Offsets
    /\ worker \in [state : {"running"} \cup Verdicts, total : Offsets]
    /\ main \in Seq(Nat)
    /\ gen \in Nat
    /\ parts \in [Offsets -> Seq(Nat) \cup {NoPart}]
    /\ rec \in RecStates
    /\ pc \in [Syncers -> PCs]
    /\ seen \in [Syncers -> [state : {"running"} \cup Verdicts, total : Offsets,
                             size : Offsets, gen : Nat]]
    /\ data \in [Syncers -> Seq(Nat)]
    /\ faults \in 0 .. MaxFaults

\* Whatever calls race, break off, crash or lose a reply, the object behind
\* OutURI is a prefix of the worker's output: pullOutput never leaves a gap,
\* repeats bytes or publishes bytes from the wrong offset.
PublishedIsPrefix == main = Bytes(0, Len(main)) /\ Len(main) <= capture

\* What a reader of OutURI relies on: the object only ever grows at its end, with
\* the bytes the worker wrote next (OutputLog).
Log == INSTANCE OutputLog WITH written <- capture, published <- main
PublishesALog == Log!Spec

\* "The part is deleted on success, failure, and precondition loss": unless a
\* broker dies or a GCS reply is lost, a part object exists only while a call
\* that will delete it is running, so no offset stays claimed.
NoOrphanParts ==
    faults = 0 =>
        \A o \in Offsets : parts[o] # NoPart =>
            \E s \in Syncers :
                /\ seen[s].size = o
                /\ pc[s] \in {"compose", "delete_ok", "delete_err"}

\* A part is never empty: a call streams only after the worker has reported more
\* bytes than the object holds, and neither number ever falls. So pullOutput's
\* "wrote == 0" branch is dead, and every compose publishes something.
NoEmptyParts == \A o \in Offsets : parts[o] # <<>>

\* A Completed record promises a complete OutURI (schema.ScratchExec): the
\* terminal sync that writes Completed has published everything the worker had
\* captured when the command exited.
CompletedHasAllOutput == rec = "completed" => Len(main) >= worker.total

\* Once the worker has finished, polling brings the record to a terminal state, and
\* what the worker holds is published by then or the record says that it was not:
\* after a 412 "next poll re-stats and continues from the new size" (pullOutput).
TailLands ==
    worker.state # "running" ~>
        /\ rec # "pending"
        /\ Len(main) >= worker.total \/ rec \in {"lost", "timed_out"}

=============================================================================
