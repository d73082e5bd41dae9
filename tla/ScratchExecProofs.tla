--------------------------- MODULE ScratchExecProofs ---------------------------
(***************************************************************************)
(* What the record of an exec says is so, proved for any number of execs,  *)
(* pollers, deletes and faults and any thresholds.                         *)
(*                                                                         *)
(* The argument: four kinds of callers overwrite a record with what they   *)
(* read some time ago.  What they read does not go stale: a command that   *)
(* has ended stays so, an entry that gc took does not come back, and a     *)
(* scratch that is being torn down is never ready again (Steady).          *)
(***************************************************************************)
EXTENDS ScratchExec, TLAPS

Down == scratch.state # "ready"

\* Why an exec is called Lost.
Cause(e) == wk[e].state = "infra" \/ Down \/ ~wk[e].kept

\* The VM is deleted only by who has found, or made, the scratch not ready.
TeardownOK ==
    /\ ~vm => Down
    /\ \A d \in Deleters : delete[d] \in {"delete_vm", "deleted"} => Down

CreateAt(e) ==
    /\ create[e] \in {"idle", "insert", "start"} => wk[e].state = "none" /\ wk[e].kept
    /\ create[e] \in {"bump", "wait", "waitfinal", "waitblind", "finalblind", "unrecorded"}
        => wk[e].state # "none"
    /\ create[e] \in {"waitfinal", "finalblind"} => wk[e].state \in Ended
    /\ faults = 0 /\ create[e] = "finalize" => Down
    /\ faults = 0 /\ create[e] = "done" => wk[e].state # "none" \/ Down

CreateOK == \A e \in Execs : CreateAt(e)

PollAt(p) ==
    /\ poll[p].pc # "idle" => poll[p].e \in Execs /\ create[poll[p].e] \in Answered
    /\ poll[p].pc = "final" => wk[poll[p].e].state \in Ended
    /\ faults = 0 /\ poll[p].pc = "lose" => Cause(poll[p].e)

PollOK == \A p \in Pollers : PollAt(p)

ReapOK ==
    /\ reap.pc \in {"presync_final", "pull", "settle"} => reap.e \in Execs
    /\ reap.pc \in {"presync", "presync_final"} /\ reap.was = "deleting" => Down
    /\ reap.pc \in {"delete_vm", "deleted"} => Down
    /\ reap.pc = "presync_final" => reap.how \in Ended /\ reap.how = wk[reap.e].state
    /\ reap.pc = "settle" =>
        \/ reap.how = "blind"
        \/ reap.how = "lost" /\ Down
        \/ reap.how \in Ended /\ reap.how = wk[reap.e].state

RecordOK == FieldsMatchState /\ LostHasCause

IndInv == TypeOK /\ TeardownOK /\ CreateOK /\ PollOK /\ ReapOK /\ RecordOK

-----------------------------------------------------------------------------
Times == 0 .. MaxClock
Scratches == [state : ScratchStates, lastUsed : Times, updated : Times]
ExecRecs == [state : ExecStates, exit : {0, ObservedCode, KillCode}, err : BOOLEAN,
             created : Times, timeout : Timeouts \cup {0}]
Entries == [state : WorkerStates, at : Times, kept : BOOLEAN]
Polls == [pc : PollPCs, e : Execs \cup {"none"}]
Passes == [pc : ReapPCs, at : Times, pending : SUBSET Execs, todo : SUBSET Execs,
           was : ScratchStates, e : Execs \cup {"none"}, how : Hows]
DeletePCs == {"idle", "delete_vm", "deleted", "done"}

\* TypeOK with its sets named.
Typed ==
    /\ clock \in Times
    /\ scratch \in Scratches
    /\ vm \in BOOLEAN
    /\ exec \in [Execs -> ExecRecs]
    /\ wk \in [Execs -> Entries]
    /\ create \in [Execs -> CreatePCs]
    /\ poll \in [Pollers -> Polls]
    /\ reap \in Passes
    /\ delete \in [Deleters -> DeletePCs]
    /\ faults \in 0 .. MaxFaults

LEMMA TypedIsTypeOK == (TypeOK <=> Typed) /\ (TypeOK' <=> Typed')
    BY DEF TypeOK, Typed, Times, Scratches, ExecRecs, Entries, Polls, Passes, DeletePCs

LEMMA FaultType ==
    ASSUME Typed, NEW kind, Fault(kind)
    PROVE  faults' \in 0 .. MaxFaults /\ faults' > 0
    BY ScratchExecAssumption DEF Typed, Fault

\* The writes of the scratch record.
LEMMA StateIs ==
    ASSUME Typed, NEW st \in ScratchStates, SetState(st)
    PROVE  /\ scratch' \in Scratches /\ scratch'.state = st
           /\ scratch'.lastUsed = scratch.lastUsed /\ scratch'.updated = clock
    BY DEF Typed, SetState, Scratches

LEMMA BumpIs ==
    ASSUME Typed, BumpLastUsed
    PROVE  /\ scratch' \in Scratches /\ scratch'.state = scratch.state
           /\ scratch'.lastUsed = clock /\ scratch'.updated = clock
    BY DEF Typed, BumpLastUsed, Scratches

\* A final write of an exec record, by what the writer knows of its end.
LEMMA PersistIs ==
    ASSUME Typed, NEW e \in Execs, NEW how \in {"lost", "blind"} \cup Ended, Persist(e, how)
    PROVE  /\ exec' \in [Execs -> ExecRecs]
           /\ \A x \in Execs : x # e => exec'[x] = exec[x]
           /\ exec'[e].created = exec[e].created /\ exec'[e].timeout = exec[e].timeout
           /\ how = "exited" => /\ exec'[e].state = "completed"
                                /\ exec'[e].exit = ObservedCode /\ ~exec'[e].err
           /\ how \in {"killed", "blind"} => exec'[e].state = "timed_out" /\ exec'[e].err
           /\ how \in {"infra", "lost"} => /\ exec'[e].state = "lost"
                                           /\ exec'[e].exit = 0 /\ exec'[e].err
<1>1. exec \in [Execs -> ExecRecs] /\ exec[e] \in ExecRecs
    BY DEF Typed
<1>2. exec' = [exec EXCEPT ![e] = Final(e, how)]
    BY DEF Persist
<1>. DEFINE Written(st, code, bad) ==
        [exec[e] EXCEPT !.state = st, !.exit = code, !.err = bad]
<1>3. ASSUME NEW st \in ExecStates, NEW code \in {0, ObservedCode, KillCode}, NEW bad \in BOOLEAN
      PROVE  /\ Written(st, code, bad) \in ExecRecs
             /\ Written(st, code, bad).state = st
             /\ Written(st, code, bad).exit = code
             /\ Written(st, code, bad).err = bad
             /\ Written(st, code, bad).created = exec[e].created
             /\ Written(st, code, bad).timeout = exec[e].timeout
    BY <1>1, Zenon DEF ExecRecs
<1>4. {"completed", "timed_out", "lost"} \subseteq ExecStates
    BY DEF ExecStates, Terminal
<1>5. CASE how = "exited"
    <2>1. Final(e, how) = Written("completed", ObservedCode, FALSE)
        BY <1>5 DEF Final
    <2>2. /\ Written("completed", ObservedCode, FALSE) \in ExecRecs
          /\ Written("completed", ObservedCode, FALSE).state = "completed"
          /\ Written("completed", ObservedCode, FALSE).exit = ObservedCode
          /\ ~Written("completed", ObservedCode, FALSE).err
          /\ Written("completed", ObservedCode, FALSE).created = exec[e].created /\ Written("completed", ObservedCode, FALSE).timeout = exec[e].timeout
        BY <1>3, <1>4, Zenon
    <2>. HIDE DEF Written
    <2>3. exec' = [exec EXCEPT ![e] = Written("completed", ObservedCode, FALSE)]
        BY <1>2, <2>1
    <2>. QED BY <1>1, <1>5, <2>2, <2>3 DEF Ended
<1>6. CASE how = "killed"
    <2>1. Final(e, how) = Written("timed_out", KillCode, TRUE)
        BY <1>6 DEF Final
    <2>2. /\ Written("timed_out", KillCode, TRUE) \in ExecRecs
          /\ Written("timed_out", KillCode, TRUE).state = "timed_out"
          /\ Written("timed_out", KillCode, TRUE).exit = KillCode
          /\ Written("timed_out", KillCode, TRUE).err
          /\ Written("timed_out", KillCode, TRUE).created = exec[e].created /\ Written("timed_out", KillCode, TRUE).timeout = exec[e].timeout
        BY <1>3, <1>4, Zenon
    <2>. HIDE DEF Written
    <2>3. exec' = [exec EXCEPT ![e] = Written("timed_out", KillCode, TRUE)]
        BY <1>2, <2>1
    <2>. QED BY <1>1, <1>6, <2>2, <2>3 DEF Ended
<1>7. CASE how \in {"infra", "lost"}
    <2>1. Final(e, how) = Written("lost", 0, TRUE)
        BY <1>7 DEF Final
    <2>2. /\ Written("lost", 0, TRUE) \in ExecRecs
          /\ Written("lost", 0, TRUE).state = "lost"
          /\ Written("lost", 0, TRUE).exit = 0
          /\ Written("lost", 0, TRUE).err
          /\ Written("lost", 0, TRUE).created = exec[e].created /\ Written("lost", 0, TRUE).timeout = exec[e].timeout
        BY <1>3, <1>4, Zenon
    <2>. HIDE DEF Written
    <2>3. exec' = [exec EXCEPT ![e] = Written("lost", 0, TRUE)]
        BY <1>2, <2>1
    <2>. QED BY <1>1, <1>7, <2>2, <2>3 DEF Ended
<1>8. CASE how = "blind"
    <2>1. Final(e, how) = Written("timed_out", 0, TRUE)
        BY <1>8 DEF Final
    <2>2. /\ Written("timed_out", 0, TRUE) \in ExecRecs
          /\ Written("timed_out", 0, TRUE).state = "timed_out"
          /\ Written("timed_out", 0, TRUE).exit = 0
          /\ Written("timed_out", 0, TRUE).err
          /\ Written("timed_out", 0, TRUE).created = exec[e].created /\ Written("timed_out", 0, TRUE).timeout = exec[e].timeout
        BY <1>3, <1>4, Zenon
    <2>. HIDE DEF Written
    <2>3. exec' = [exec EXCEPT ![e] = Written("timed_out", 0, TRUE)]
        BY <1>2, <2>1
    <2>. QED BY <1>1, <1>8, <2>2, <2>3 DEF Ended
<1>. QED BY <1>5, <1>6, <1>7, <1>8 DEF Ended

LEMMA CreateIs ==
    ASSUME Typed, NEW e \in Execs, NEW where \in CreatePCs, create' = [create EXCEPT ![e] = where]
    PROVE  /\ create' \in [Execs -> CreatePCs] /\ create'[e] = where
           /\ \A x \in Execs : x # e => create'[x] = create[x]
    BY DEF Typed

LEMMA InsertIs ==
    ASSUME Typed, NEW e \in Execs, NEW t \in Timeouts,
           exec' = [exec EXCEPT ![e] = [Absent EXCEPT !.state = "pending",
                                                      !.created = clock, !.timeout = t]]
    PROVE  /\ exec' \in [Execs -> ExecRecs]
           /\ exec'[e].state = "pending" /\ exec'[e].exit = 0 /\ ~exec'[e].err
           /\ exec'[e].created = clock
           /\ \A x \in Execs : x # e => exec'[x] = exec[x]
<1>. DEFINE new == [Absent EXCEPT !.state = "pending", !.created = clock, !.timeout = t]
<1>1. Absent \in ExecRecs
    <2>1. "absent" \in ExecStates /\ 0 \in {0, ObservedCode, KillCode} /\ 0 \in Times
          /\ 0 \in Timeouts \cup {0}
        BY ScratchExecAssumption DEF ExecStates, Times
    <2>. QED BY <2>1, Zenon DEF Absent, ExecRecs
<1>2. "pending" \in ExecStates /\ clock \in Times /\ t \in Timeouts \cup {0}
    BY DEF Typed, ExecStates
<1>3. new \in ExecRecs /\ new.state = "pending" /\ new.created = clock
    BY <1>1, <1>2, Zenon DEF ExecRecs
<1>4. new.exit = 0 /\ ~new.err
    BY Zenon DEF Absent
<1>5. exec \in [Execs -> ExecRecs] /\ exec' = [exec EXCEPT ![e] = new]
    BY DEF Typed
<1>. HIDE DEF new
<1>. QED BY <1>3, <1>4, <1>5

\* The worker: what ended stays, and what gc took does not come back.
LEMMA EndsIs ==
    ASSUME Typed, NEW e \in Execs, NEW how \in Ended, wk' = [wk EXCEPT ![e].state = how]
    PROVE  /\ wk' \in [Execs -> Entries]
           /\ wk'[e].state = how /\ wk'[e].kept = wk[e].kept /\ wk'[e].at = wk[e].at
           /\ \A x \in Execs : x # e => wk'[x] = wk[x]
<1>1. wk \in [Execs -> Entries] /\ wk[e] \in Entries /\ how \in WorkerStates
    BY DEF Typed, Ended, WorkerStates
<1>2. [wk[e] EXCEPT !.state = how] \in Entries
    BY <1>1, Zenon DEF Entries
<1>3. wk' = [wk EXCEPT ![e] = [wk[e] EXCEPT !.state = how]]
    BY <1>1
<1>4. wk'[e] = [wk[e] EXCEPT !.state = how]
    BY <1>1, <1>3
<1>5. wk'[e].state = how /\ wk'[e].kept = wk[e].kept /\ wk'[e].at = wk[e].at
    BY <1>1, <1>4, Zenon DEF Entries
<1>. QED BY <1>1, <1>2, <1>3, <1>5

LEMMA DispatchedIs ==
    ASSUME Typed, NEW e \in Execs, wk' = Dispatched(e)
    PROVE  /\ wk' \in [Execs -> Entries]
           /\ wk'[e].state = "running" /\ wk'[e].at = clock /\ wk'[e].kept
           /\ \A x \in Execs : x # e =>
                /\ wk'[x].state = wk[x].state /\ wk'[x].at = wk[x].at
                /\ wk[x].kept => wk'[x].kept \/ Lapsed(x)
                /\ ~wk[x].kept => ~wk'[x].kept
                /\ wk[x].state \notin Ended => wk'[x] = wk[x]
<1>1. wk \in [Execs -> Entries] /\ clock \in Times /\ "running" \in WorkerStates
    BY DEF Typed, WorkerStates
<1>2. [state |-> "running", at |-> clock, kept |-> TRUE] \in Entries
    BY <1>1, Zenon DEF Entries
<1>3. wk'[e] = [state |-> "running", at |-> clock, kept |-> TRUE]
    BY DEF Dispatched
<1>4. ASSUME NEW x \in Execs, x # e
      PROVE  /\ wk'[x] \in Entries
             /\ wk'[x].state = wk[x].state /\ wk'[x].at = wk[x].at
             /\ wk[x].kept => wk'[x].kept \/ Lapsed(x)
             /\ ~wk[x].kept => ~wk'[x].kept
             /\ wk[x].state \notin Ended => wk'[x] = wk[x]
    <2>1. PICK b \in BOOLEAN : b = (wk[x].kept /\ ~Lapsed(x))
        OBVIOUS
    <2>2. wk[x] \in Entries
        BY <1>1
    <2>3. wk'[x] = [wk[x] EXCEPT !.kept = wk[x].kept /\ ~Lapsed(x)]
        BY <1>4, Zenon DEF Dispatched
    <2>4. wk'[x] = [wk[x] EXCEPT !.kept = b]
        BY <2>1, <2>3, Zenon
    <2>5. /\ wk'[x] \in Entries /\ wk'[x].state = wk[x].state /\ wk'[x].at = wk[x].at
          /\ wk'[x].kept = b
        BY <2>2, <2>4, Zenon DEF Entries
    <2>6. /\ ~wk[x].kept => ~wk'[x].kept
          /\ wk[x].kept => wk'[x].kept \/ Lapsed(x)
        BY <2>1, <2>5, Zenon
    <2>7. ASSUME wk[x].state \notin Ended PROVE wk'[x] = wk[x]
        <3>1. ~Lapsed(x)
            BY <2>7 DEF Lapsed
        <3>2. b = wk[x].kept
            BY <2>1, <2>2, <3>1, Zenon DEF Entries
        <3>. QED BY <2>2, <2>4, <3>2, Zenon DEF Entries
    <2>. QED BY <2>5, <2>6, <2>7
<1>5. wk' = [x \in Execs |-> wk'[x]]
    BY DEF Dispatched
<1>6. wk' \in [Execs -> Entries]
    <2>1. \A x \in Execs : wk'[x] \in Entries
        BY <1>2, <1>3, <1>4
    <2>. QED BY <1>5, <2>1
<1>7. wk'[e].state = "running" /\ wk'[e].at = clock /\ wk'[e].kept
    BY <1>3
<1>. QED BY <1>4, <1>6, <1>7

LEMMA PollGoes ==
    ASSUME Typed, NEW p \in Pollers, NEW where \in PollPCs, PollTo(p, where)
    PROVE  /\ poll' \in [Pollers -> Polls]
           /\ poll'[p].pc = where /\ poll'[p].e = poll[p].e
           /\ \A q \in Pollers : q # p => poll'[q] = poll[q]
<1>1. poll \in [Pollers -> Polls] /\ poll[p] \in Polls
    BY DEF Typed
<1>2. [poll[p] EXCEPT !.pc = where] \in Polls
    BY <1>1, Zenon DEF Polls
<1>3. poll' = [poll EXCEPT ![p] = [poll[p] EXCEPT !.pc = where]]
    BY <1>1 DEF PollTo
<1>4. poll'[p] = [poll[p] EXCEPT !.pc = where]
    BY <1>1, <1>3
<1>. QED BY <1>1, <1>2, <1>3, <1>4 DEF Polls

LEMMA PollEnds ==
    ASSUME Typed, NEW p \in Pollers, poll' = [poll EXCEPT ![p] = NoPoll]
    PROVE  /\ poll' \in [Pollers -> Polls]
           /\ poll'[p].pc = "idle"
           /\ \A q \in Pollers : q # p => poll'[q] = poll[q]
<1>1. NoPoll \in Polls /\ NoPoll.pc = "idle"
    BY DEF NoPoll, Polls, PollPCs
<1>. QED BY <1>1 DEF Typed

LEMMA PollBegins ==
    ASSUME Typed, NEW p \in Pollers, NEW e \in Execs,
           poll' = [poll EXCEPT ![p] = [pc |-> "scratch", e |-> e]]
    PROVE  /\ poll' \in [Pollers -> Polls]
           /\ poll'[p].pc = "scratch" /\ poll'[p].e = e
           /\ \A q \in Pollers : q # p => poll'[q] = poll[q]
<1>1. [pc |-> "scratch", e |-> e] \in Polls
    BY DEF Polls, PollPCs
<1>. QED BY <1>1 DEF Typed

LEMMA DeleteGoes ==
    ASSUME Typed, NEW d \in Deleters, NEW where \in DeletePCs, DeleteTo(d, where)
    PROVE  /\ delete' \in [Deleters -> DeletePCs]
           /\ delete'[d] = where
           /\ \A f \in Deleters : f # d => delete'[f] = delete[f]
    BY DEF Typed, DeleteTo

LEMMA NoPassIs == NoPass \in Passes
<1>1. /\ "idle" \in ReapPCs /\ 0 \in Times /\ "ready" \in ScratchStates /\ "none" \in Hows
      /\ {} \in SUBSET Execs /\ "none" \in Execs \cup {"none"}
    BY ScratchExecAssumption DEF ReapPCs, Times, ScratchStates, Hows
<1>. QED BY <1>1, Zenon DEF NoPass, Passes

LEMMA ReapGoes ==
    ASSUME Typed, NEW where \in ReapPCs, ReapTo(where)
    PROVE  /\ reap' \in Passes /\ reap'.pc = where
           /\ reap'.was = reap.was /\ reap'.e = reap.e /\ reap'.how = reap.how
           /\ reap'.at = reap.at /\ reap'.pending = reap.pending /\ reap'.todo = reap.todo
    BY Zenon DEF Typed, ReapTo, Passes

\* The pass goes on with what is left to do.
LEMMA ReapLeaves ==
    ASSUME Typed, NEW where \in ReapPCs, NEW rest \in SUBSET Execs,
           reap' = [reap EXCEPT !.pc = where, !.todo = rest]
    PROVE  /\ reap' \in Passes /\ reap'.pc = where /\ reap'.todo = rest
           /\ reap'.at = reap.at /\ reap'.pending = reap.pending
    BY Zenon DEF Typed, Passes

LEMMA ReapSkips ==
    ASSUME Typed, NEW rest \in SUBSET Execs, reap' = [reap EXCEPT !.todo = rest]
    PROVE  /\ reap' \in Passes /\ reap'.pc = reap.pc /\ reap'.todo = rest
           /\ reap'.was = reap.was /\ reap'.e = reap.e /\ reap'.how = reap.how
           /\ reap'.at = reap.at /\ reap'.pending = reap.pending
    BY Zenon DEF Typed, Passes

LEMMA ReapLists ==
    ASSUME Typed, NEW where \in ReapPCs, NEW rest \in SUBSET Execs, NEW st \in ScratchStates,
           reap' = [reap EXCEPT !.pc = where, !.todo = rest, !.was = st]
    PROVE  /\ reap' \in Passes /\ reap'.pc = where /\ reap'.was = st
           /\ reap'.at = reap.at /\ reap'.pending = reap.pending /\ reap'.todo = rest
    BY Zenon DEF Typed, Passes

\* It takes up an op, with or without having learnt how it is to end.
LEMMA ReapTakes ==
    ASSUME Typed, NEW where \in ReapPCs, NEW e \in Execs,
           reap' = [reap EXCEPT !.pc = where, !.e = e]
    PROVE  /\ reap' \in Passes /\ reap'.pc = where /\ reap'.e = e
           /\ reap'.at = reap.at /\ reap'.pending = reap.pending /\ reap'.todo = reap.todo
<1>1. e \in Execs \cup {"none"}
    OBVIOUS
<1>. QED BY <1>1, Zenon DEF Typed, Passes

LEMMA ReapTakesKnown ==
    ASSUME Typed, NEW where \in ReapPCs, NEW e \in Execs, NEW how \in Hows,
           reap' = [reap EXCEPT !.pc = where, !.e = e, !.how = how]
    PROVE  /\ reap' \in Passes /\ reap'.pc = where /\ reap'.was = reap.was
           /\ reap'.e = e /\ reap'.how = how
           /\ reap'.at = reap.at /\ reap'.pending = reap.pending /\ reap'.todo = reap.todo
<1>1. e \in Execs \cup {"none"}
    OBVIOUS
<1>. QED BY <1>1, Zenon DEF Typed, Passes

LEMMA ReapLearns ==
    ASSUME Typed, NEW where \in ReapPCs, NEW how \in Hows,
           reap' = [reap EXCEPT !.pc = where, !.how = how]
    PROVE  /\ reap' \in Passes /\ reap'.pc = where /\ reap'.e = reap.e /\ reap'.how = how
           /\ reap'.at = reap.at /\ reap'.pending = reap.pending /\ reap'.todo = reap.todo
    BY Zenon DEF Typed, Passes

LEMMA ReapFallsBack ==
    ASSUME Typed, NEW how \in Hows, reap' = [reap EXCEPT !.how = how]
    PROVE  /\ reap' \in Passes /\ reap'.pc = reap.pc /\ reap'.e = reap.e /\ reap'.how = how
           /\ reap'.at = reap.at /\ reap'.pending = reap.pending /\ reap'.todo = reap.todo
    BY Zenon DEF Typed, Passes

LEMMA ReapIsDone ==
    ASSUME Typed, NEW where \in ReapPCs, NEW rest \in SUBSET Execs,
           reap' = [reap EXCEPT !.pc = where, !.todo = rest, !.e = "none", !.how = "none"]
    PROVE  /\ reap' \in Passes /\ reap'.pc = where /\ reap'.was = reap.was
           /\ reap'.at = reap.at /\ reap'.pending = reap.pending /\ reap'.todo = rest
<1>1. "none" \in Execs \cup {"none"} /\ "none" \in Hows
    BY DEF Hows
<1>. QED BY <1>1, Zenon DEF Typed, Passes

LEMMA ReapStarts ==
    ASSUME Typed, NEW ops \in SUBSET Execs,
           reap' = [NoPass EXCEPT !.pc = "idle_list", !.at = clock, !.pending = ops]
    PROVE  /\ reap' \in Passes /\ reap'.pc = "idle_list"
           /\ reap'.at = clock /\ reap'.pending = ops /\ reap'.todo = {}
<1>1. clock \in Times /\ "idle_list" \in ReapPCs /\ NoPass.todo = {}
    BY DEF Typed, ReapPCs, NoPass
<1>. QED BY <1>1, NoPassIs, Zenon DEF Passes

LEMMA ReapStops ==
    ASSUME Typed, reap' = [NoPass EXCEPT !.at = reap.at]
    PROVE  /\ reap' \in Passes /\ reap'.pc = "idle" /\ reap'.at = reap.at
           /\ reap'.pending = {} /\ reap'.todo = {}
<1>1. reap.at \in Times
    BY DEF Typed, Passes
<1>2. reap' \in Passes
    BY <1>1, NoPassIs, Zenon DEF Passes
<1>3. reap'.pc = "idle" /\ reap'.at = reap.at /\ reap'.pending = {} /\ reap'.todo = {}
    BY Zenon DEF NoPass
<1>. QED BY <1>2, <1>3
-----------------------------------------------------------------------------
\* What no step undoes, so that what a caller has read of it stays so.
Steady ==
    /\ Down => Down'
    /\ \A e \in Execs :
        /\ wk[e].state \in Ended => wk'[e].state = wk[e].state
        /\ wk[e].state # "none" => wk'[e].state # "none"
        /\ ~wk[e].kept => ~wk'[e].kept
        /\ create[e] \in Answered => create'[e] \in Answered
    /\ faults' = 0 => faults = 0

LEMMA CauseLasts ==
    ASSUME Steady, NEW e \in Execs, Cause(e)
    PROVE  Cause(e)'
    BY DEF Steady, Cause, Ended

LEMMA TeardownKept ==
    ASSUME TeardownOK, Steady, vm' = vm, delete' = delete
    PROVE  TeardownOK'
    BY DEF TeardownOK, Steady

LEMMA CreateKept ==
    ASSUME CreateOK, Steady, create' = create, wk' = wk
    PROVE  CreateOK'
    BY DEF CreateOK, CreateAt, Steady, Down

LEMMA PollKept ==
    ASSUME PollOK, Steady, poll' = poll
    PROVE  PollOK'
<1>. SUFFICES ASSUME NEW p \in Pollers
              PROVE  /\ poll[p].pc # "idle" =>
                            poll[p].e \in Execs /\ create'[poll[p].e] \in Answered
                     /\ poll[p].pc = "final" => wk'[poll[p].e].state \in Ended
                     /\ faults' = 0 /\ poll[p].pc = "lose" => Cause(poll[p].e)'
    BY DEF PollOK, PollAt, Cause, Down
<1>1. CASE poll[p].pc = "idle"
    BY <1>1
<1>2. CASE poll[p].pc # "idle"
    BY <1>2, CauseLasts DEF PollOK, PollAt, Steady
<1>. QED BY <1>1, <1>2

LEMMA ReapKept ==
    ASSUME ReapOK, Steady, reap' = reap
    PROVE  ReapOK'
    BY DEF ReapOK, Steady

LEMMA CreateMoves ==
    ASSUME CreateOK, Steady, NEW e \in Execs, CreateAt(e)',
           \A x \in Execs : x # e =>
               /\ create'[x] = create[x]
               /\ wk'[x].state = wk[x].state
               /\ wk[x].state = "none" => wk'[x] = wk[x]
    PROVE  CreateOK'
<1>1. ASSUME NEW x \in Execs, x # e PROVE CreateAt(x)'
    BY <1>1 DEF CreateOK, CreateAt, Steady, Down
<1>. QED BY <1>1 DEF CreateOK

LEMMA PollMoves ==
    ASSUME PollOK, Steady, NEW p \in Pollers, PollAt(p)',
           \A q \in Pollers : q # p => poll'[q] = poll[q]
    PROVE  PollOK'
<1>1. ASSUME NEW q \in Pollers, q # p PROVE PollAt(q)'
    <2>1. CASE poll[q].pc = "idle"
        BY <1>1, <2>1 DEF PollAt
    <2>2. CASE poll[q].pc # "idle"
        <3>1. poll'[q] = poll[q] /\ poll[q].e \in Execs
            BY <1>1, <2>2 DEF PollOK, PollAt
        <3>2. Cause(poll[q].e) => Cause(poll[q].e)'
            BY <3>1, CauseLasts
        <3>3. PollAt(q)
            BY DEF PollOK
        <3>. QED BY <2>2, <3>1, <3>2, <3>3 DEF PollAt, Steady, Cause, Down
    <2>. QED BY <2>1, <2>2
<1>. QED BY <1>1 DEF PollOK

LEMMA RecordKept ==
    ASSUME RecordOK, Steady, exec' = exec
    PROVE  RecordOK'
<1>1. FieldsMatchState'
    BY DEF RecordOK, FieldsMatchState, Steady, Ended
<1>2. ASSUME faults' = 0, NEW e \in Execs, exec[e].state = "lost" PROVE Cause(e)'
    <2>1. Cause(e)
        BY <1>2 DEF RecordOK, LostHasCause, Steady, Cause, Down
    <2>. QED BY <2>1, CauseLasts
<1>. QED BY <1>1, <1>2 DEF RecordOK, LostHasCause, Cause, Down

\* A final write says what the worker says, or is Lost for a cause, or blind.
LEMMA RecordWritten ==
    ASSUME Typed, RecordOK, Steady, NEW e \in Execs, NEW how \in {"lost", "blind"} \cup Ended,
           Persist(e, how),
           how \in Ended => wk[e].state = how,
           how = "lost" /\ faults = 0 => Cause(e)
    PROVE  RecordOK'
<1>0. /\ how \in Ended => wk'[e].state = how
      /\ how = "lost" /\ faults' = 0 => Cause(e)'
    BY CauseLasts DEF Steady
<1>1. \A x \in Execs : x # e => exec'[x] = exec[x]
    BY PersistIs
<1>2. FieldsMatchState'
    <2>1. ASSUME NEW x \in Execs
          PROVE  /\ exec'[x].state = "pending" => exec'[x].exit = 0 /\ ~exec'[x].err
                 /\ exec'[x].state = "completed" =>
                        /\ wk'[x].state = "exited"
                        /\ exec'[x].exit = ObservedCode /\ ~exec'[x].err
                 /\ exec'[x].state = "timed_out" => exec'[x].err
                 /\ exec'[x].state = "lost" => exec'[x].err /\ exec'[x].exit = 0
        <3>1. CASE x # e
            BY <1>1, <3>1 DEF RecordOK, FieldsMatchState, Steady, Ended
        <3>2. CASE x = e /\ how = "exited"
            BY <1>0, <3>2, PersistIs DEF Ended
        <3>3. CASE x = e /\ how \in {"killed", "blind"}
            BY <3>3, PersistIs
        <3>4. CASE x = e /\ how \in {"infra", "lost"}
            BY <3>4, PersistIs
        <3>. QED BY <3>1, <3>2, <3>3, <3>4 DEF Ended
    <2>. QED BY <2>1 DEF FieldsMatchState
<1>3. ASSUME faults' = 0, NEW x \in Execs, exec'[x].state = "lost" PROVE Cause(x)'
    <2>1. CASE x # e
        <3>1. Cause(x)
            BY <1>1, <1>3, <2>1 DEF RecordOK, LostHasCause, Steady, Cause, Down
        <3>. QED BY <3>1, CauseLasts
    <2>2. CASE x = e
        <3>1. how \in {"infra", "lost"}
            BY <1>3, <2>2, PersistIs DEF Ended
        <3>. QED BY <1>0, <1>3, <2>2, <3>1 DEF Cause, Ended
    <2>. QED BY <2>1, <2>2
<1>. QED BY <1>2, <1>3 DEF RecordOK, LostHasCause, Cause, Down

LEMMA RecordInserted ==
    ASSUME Typed, RecordOK, Steady, NEW e \in Execs, NEW t \in Timeouts,
           exec' = [exec EXCEPT ![e] = [Absent EXCEPT !.state = "pending",
                                                      !.created = clock, !.timeout = t]]
    PROVE  RecordOK'
<1>1. /\ exec'[e].state = "pending" /\ exec'[e].exit = 0 /\ ~exec'[e].err
      /\ \A x \in Execs : x # e => exec'[x] = exec[x]
    BY InsertIs
<1>2. FieldsMatchState'
    <2>1. ASSUME NEW x \in Execs
          PROVE  /\ exec'[x].state = "pending" => exec'[x].exit = 0 /\ ~exec'[x].err
                 /\ exec'[x].state = "completed" =>
                        /\ wk'[x].state = "exited"
                        /\ exec'[x].exit = ObservedCode /\ ~exec'[x].err
                 /\ exec'[x].state = "timed_out" => exec'[x].err
                 /\ exec'[x].state = "lost" => exec'[x].err /\ exec'[x].exit = 0
        <3>1. CASE x # e
            BY <1>1, <3>1 DEF RecordOK, FieldsMatchState, Steady, Ended
        <3>2. CASE x = e
            BY <1>1, <3>2
        <3>. QED BY <3>1, <3>2
    <2>. QED BY <2>1 DEF FieldsMatchState
<1>3. ASSUME faults' = 0, NEW x \in Execs, exec'[x].state = "lost" PROVE Cause(x)'
    <2>1. x # e
        BY <1>1, <1>3
    <2>2. Cause(x)
        BY <1>1, <1>3, <2>1 DEF RecordOK, LostHasCause, Steady, Cause, Down
    <2>. QED BY <2>2, CauseLasts
<1>. QED BY <1>2, <1>3 DEF RecordOK, LostHasCause, Cause, Down

\* Every step keeps the variables in their types.
LEMMA TypeStep ==
    ASSUME IndInv, [Next]_vars
    PROVE  TypeOK'
<1>. SUFFICES Typed'
    BY TypedIsTypeOK
<1>0. Typed /\ CreateOK /\ PollOK /\ ReapOK
    BY TypedIsTypeOK DEF IndInv
<1>1. ASSUME Tick PROVE Typed'
    BY <1>0, <1>1, ScratchExecAssumption DEF Typed, Tick, Times
<1>2. ASSUME NEW e \in Execs, WorkerEnds(e) PROVE Typed'
    BY <1>0, <1>2, EndsIs DEF Typed, WorkerEnds, Ended
<1>3. ASSUME NEW e \in Execs, WorkerKills(e) PROVE Typed'
    BY <1>0, <1>3, EndsIs DEF Typed, WorkerKills, Ended
<1>4. ASSUME NEW e \in Execs, CreateCheck(e) PROVE Typed'
    BY <1>0, <1>4, CreateIs DEF Typed, CreateCheck, creating, CreatePCs, Over, Answered
<1>5. ASSUME NEW e \in Execs, CreateInsert(e) PROVE Typed'
    BY <1>0, <1>5, CreateIs, InsertIs DEF Typed, CreateInsert, creating, CreatePCs
<1>6. ASSUME NEW e \in Execs, CreateStart(e) PROVE Typed'
    BY <1>0, <1>6, CreateIs, DispatchedIs DEF Typed, CreateStart, creating, CreatePCs
<1>7. ASSUME NEW e \in Execs, CreateStartFails(e) PROVE Typed'
    BY <1>0, <1>7, CreateIs, DispatchedIs, FaultType DEF Typed, CreateStartFails, creating,
        CreatePCs
<1>8. ASSUME NEW e \in Execs, CreateFinalize(e) PROVE Typed'
    BY <1>0, <1>8, CreateIs, PersistIs, FaultType DEF Typed, CreateFinalize, creating,
        CreatePCs, Over, Answered
<1>9. ASSUME NEW e \in Execs, CreateBump(e) PROVE Typed'
    BY <1>0, <1>9, CreateIs, BumpIs, FaultType DEF Typed, CreateBump, creating, CreatePCs, Over,
        Answered
<1>10. ASSUME NEW e \in Execs, CreateWait(e) PROVE Typed'
    BY <1>0, <1>10, CreateIs DEF Typed, CreateWait, creating, CreatePCs, Over, Answered
<1>11. ASSUME NEW e \in Execs, CreateWaitFinal(e) PROVE Typed'
    BY <1>0, <1>11, CreateIs, PersistIs, FaultType DEF Typed, CreateWaitFinal, creating,
        CreatePCs, Over, Answered, CreateOK, CreateAt
<1>12. ASSUME NEW e \in Execs, CreateCrash(e) PROVE Typed'
    BY <1>0, <1>12, CreateIs, FaultType DEF Typed, CreateCrash, creating, CreatePCs, Over
<1>13. ASSUME NEW p \in Pollers, PollGet(p) PROVE Typed'
    BY <1>0, <1>13, PollBegins DEF Typed, PollGet, polling, PendingExecs
<1>14. ASSUME NEW p \in Pollers, PollScratch(p) PROVE Typed'
    BY <1>0, <1>14, PollGoes, FaultType DEF Typed, PollScratch, polling, PollPCs
<1>15. ASSUME NEW p \in Pollers, PollStatus(p) PROVE Typed'
    <2>1. poll' = [poll EXCEPT ![p] = NoPoll] \/ PollTo(p, "final")
        BY <1>0, <1>15 DEF PollStatus, PollTo, Typed
    <2>. QED BY <1>0, <1>15, <2>1, PollEnds, PollGoes DEF Typed, PollStatus, polling, PollPCs
<1>16. ASSUME NEW p \in Pollers, PollSyncFails(p) PROVE Typed'
    BY <1>0, <1>16, PollGoes, FaultType DEF Typed, PollSyncFails, polling, PollPCs
<1>17. ASSUME NEW p \in Pollers, PollFinal(p) PROVE Typed'
    BY <1>0, <1>17, PollGoes, PersistIs DEF Typed, PollFinal, polling, PollPCs, PollOK, PollAt
<1>18. ASSUME NEW p \in Pollers, PollBump(p) PROVE Typed'
    BY <1>0, <1>18, PollEnds, BumpIs, FaultType DEF Typed, PollBump, polling
<1>19. ASSUME NEW p \in Pollers, PollLose(p) PROVE Typed'
    BY <1>0, <1>19, PollEnds, PersistIs, FaultType DEF Typed, PollLose, polling, PollOK, PollAt
<1>20. ASSUME NEW p \in Pollers, PollCrash(p) PROVE Typed'
    BY <1>0, <1>20, PollEnds, FaultType DEF Typed, PollCrash, polling
<1>21. ASSUME ReapBegin PROVE Typed'
    <2>1. PendingExecs \in SUBSET Execs
        BY DEF PendingExecs
    <2>2. reap' \in Passes
        BY <1>0, <1>21, <2>1, ReapStarts DEF ReapBegin
    <2>. QED BY <1>0, <1>21, <2>2 DEF Typed, ReapBegin, reaping
<1>22. ASSUME ReapIdleList PROVE Typed'
    <2>1. /\ reap.pending \in SUBSET Execs /\ scratch.state \in ScratchStates
          /\ "presync" \in ReapPCs /\ "sweep_list" \in ReapPCs
        BY <1>0 DEF Typed, Passes, Scratches, ReapPCs
    <2>2. \/ reap' = [reap EXCEPT !.pc = "presync", !.todo = reap.pending, !.was = scratch.state]
          \/ ReapTo("sweep_list")
        BY <1>22 DEF ReapIdleList, ReapTo
    <2>3. reap' \in Passes
        BY <1>0, <2>1, <2>2, ReapLists, ReapGoes
    <2>. QED BY <1>0, <1>22, <2>3 DEF Typed, ReapIdleList, reaping
<1>23. ASSUME NEW e \in Execs, ReapPresync(e) PROVE Typed'
    <2>1. reap.todo \ {e} \in SUBSET Execs /\ "presync_final" \in ReapPCs
        BY <1>0 DEF Typed, Passes, ReapPCs
    <2>2. \/ /\ wk[e].state \in Hows
             /\ reap' = [reap EXCEPT !.pc = "presync_final", !.e = e, !.how = wk[e].state]
          \/ reap' = [reap EXCEPT !.todo = reap.todo \ {e}]
        BY <1>23 DEF ReapPresync, Hows
    <2>3. reap' \in Passes
        BY <1>0, <2>1, <2>2, ReapTakesKnown, ReapSkips, ZenonT(60)
    <2>4. faults' \in 0 .. MaxFaults
        BY <1>0, <1>23, FaultType DEF ReapPresync, Typed
    <2>. QED BY <1>0, <1>23, <2>3, <2>4 DEF Typed, ReapPresync, reaping
<1>24. ASSUME ReapPresyncFinal PROVE Typed'
    <2>1. reap.todo \ {reap.e} \in SUBSET Execs /\ "presync" \in ReapPCs
        BY <1>0 DEF Typed, Passes, ReapPCs
    <2>2. reap' \in Passes
        BY <1>0, <1>24, <2>1, ReapIsDone DEF ReapPresyncFinal
    <2>3. reap.e \in Execs /\ reap.how \in Ended
        BY <1>0, <1>24 DEF ReapPresyncFinal, ReapOK
    <2>4. exec' \in [Execs -> ExecRecs]
        BY <1>0, <1>24, <2>3, PersistIs DEF ReapPresyncFinal, Typed
    <2>5. faults' \in 0 .. MaxFaults
        BY <1>0, <1>24, FaultType DEF ReapPresyncFinal, Typed
    <2>. QED BY <1>0, <1>24, <2>2, <2>4, <2>5 DEF Typed, ReapPresyncFinal, reaping
<1>25. ASSUME ReapRecheck PROVE Typed'
    BY <1>0, <1>25, ReapGoes, FaultType DEF Typed, ReapRecheck, reaping, ReapPCs, ReapTo
<1>26. ASSUME ReapMark PROVE Typed'
    BY <1>0, <1>26, ReapGoes, StateIs, FaultType DEF Typed, ReapMark, reaping, ReapPCs,
        ScratchStates
<1>27. ASSUME ReapDeleteVM PROVE Typed'
    BY <1>0, <1>27, ReapGoes, FaultType DEF Typed, ReapDeleteVM, reaping, ReapPCs
<1>28. ASSUME ReapDeleted PROVE Typed'
    BY <1>0, <1>28, ReapGoes, StateIs, FaultType DEF Typed, ReapDeleted, reaping, ReapPCs,
        ScratchStates
<1>29. ASSUME ReapSweepList PROVE Typed'
    <2>1. PendingExecs \in SUBSET Execs /\ "sweep" \in ReapPCs
        BY DEF PendingExecs, ReapPCs
    <2>2. reap' \in Passes
        BY <1>0, <1>29, <2>1, ReapLeaves DEF ReapSweepList
    <2>. QED BY <1>0, <1>29, <2>2 DEF Typed, ReapSweepList, reaping
<1>30. ASSUME NEW e \in Execs, ReapDecide(e) PROVE Typed'
    <2>1. /\ reap.todo \ {e} \in SUBSET Execs /\ "pull" \in ReapPCs /\ "settle" \in ReapPCs
          /\ "blind" \in Hows /\ "lost" \in Hows
        BY <1>0 DEF Typed, Passes, ReapPCs, Hows
    <2>2. reap' \in Passes
        BY <1>0, <1>30, <2>1, ReapTakes, ReapTakesKnown, ReapSkips, ZenonT(60) DEF ReapDecide
    <2>3. faults' \in 0 .. MaxFaults
        BY <1>0, <1>30, FaultType DEF ReapDecide, Typed
    <2>. QED BY <1>0, <1>30, <2>2, <2>3 DEF Typed, ReapDecide, reaping
<1>31. ASSUME ReapPull PROVE Typed'
    BY <1>0, <1>31, ReapLearns, FaultType DEF Typed, ReapPull, reaping, ReapPCs, Hows, Ended
<1>32. ASSUME ReapSettle PROVE Typed'
    <2>1. /\ reap.todo \ {reap.e} \in SUBSET Execs
          /\ "sweep" \in ReapPCs /\ "blind" \in Hows
        BY <1>0 DEF Typed, Passes, ReapPCs, Hows
    <2>2. reap' \in Passes
        BY <1>0, <1>32, <2>1, ReapIsDone, ReapFallsBack DEF ReapSettle
    <2>3. reap.e \in Execs /\ reap.how \in {"lost", "blind"} \cup Ended
        BY <1>0, <1>32 DEF ReapSettle, ReapOK
    <2>4. exec' \in [Execs -> ExecRecs]
        BY <1>0, <1>32, <2>3, PersistIs DEF ReapSettle, Typed
    <2>5. faults' \in 0 .. MaxFaults
        BY <1>0, <1>32, FaultType DEF ReapSettle, Typed
    <2>. QED BY <1>0, <1>32, <2>2, <2>4, <2>5 DEF Typed, ReapSettle, reaping
<1>33. ASSUME ReapEnd PROVE Typed'
    BY <1>0, <1>33, ReapStops DEF Typed, ReapEnd, reaping
<1>34. ASSUME ReapCrash PROVE Typed'
    BY <1>0, <1>34, ReapStops, FaultType DEF Typed, ReapCrash, reaping
<1>35. ASSUME NEW d \in Deleters, DeleteMark(d) PROVE Typed'
    BY <1>0, <1>35, DeleteGoes, StateIs DEF Typed, DeleteMark, deleting, DeletePCs,
        ScratchStates
<1>36. ASSUME NEW d \in Deleters, DeleteVM(d) PROVE Typed'
    BY <1>0, <1>36, DeleteGoes, FaultType DEF Typed, DeleteVM, deleting, DeletePCs
<1>37. ASSUME NEW d \in Deleters, DeleteDone(d) PROVE Typed'
    BY <1>0, <1>37, DeleteGoes, StateIs DEF Typed, DeleteDone, deleting, DeletePCs,
        ScratchStates
<1>38. ASSUME NEW d \in Deleters, DeleteStops(d) PROVE Typed'
    BY <1>0, <1>38, DeleteGoes, FaultType DEF Typed, DeleteStops, deleting, DeletePCs
<1>39. CASE UNCHANGED vars
    BY <1>0, <1>39 DEF Typed, vars
<1>. QED BY <1>1, <1>2, <1>3, <1>4, <1>5, <1>6, <1>7, <1>8, <1>9, <1>10, <1>11, <1>12, <1>13,
         <1>14, <1>15, <1>16, <1>17, <1>18, <1>19, <1>20, <1>21, <1>22, <1>23, <1>24, <1>25, <1>26,
         <1>27, <1>28, <1>29, <1>30, <1>31, <1>32, <1>33, <1>34, <1>35, <1>36, <1>37, <1>38, <1>39
         DEF Next, Create, Poll, ReapStep, Delete

\* Every step keeps what the callers rely on.
LEMMA InvStep ==
    ASSUME IndInv, [Next]_vars
    PROVE  TeardownOK' /\ CreateOK' /\ PollOK' /\ ReapOK' /\ RecordOK'
<1>0. Typed /\ TeardownOK /\ CreateOK /\ PollOK /\ ReapOK /\ RecordOK
    BY TypedIsTypeOK DEF IndInv
<1>. DEFINE Rest == TeardownOK' /\ CreateOK' /\ PollOK' /\ ReapOK' /\ RecordOK'
<1>1. ASSUME Tick PROVE Rest
    <2>1. Steady
        BY <1>0, <1>1 DEF Tick, Steady, Down, Ended, Answered
    <2>2. TeardownOK'
        BY <1>0, <1>1, <2>1, TeardownKept DEF Tick
    <2>3. CreateOK'
        BY <1>0, <1>1, <2>1, CreateKept DEF Tick
    <2>4. PollOK'
        BY <1>0, <1>1, <2>1, PollKept DEF Tick
    <2>5. ReapOK'
        BY <1>0, <1>1, <2>1, ReapKept DEF Tick
    <2>6. RecordOK'
        BY <1>0, <1>1, <2>1, RecordKept DEF Tick
    <2>. QED BY <2>2, <2>3, <2>4, <2>5, <2>6
<1>2. ASSUME NEW e \in Execs, WorkerEnds(e) PROVE Rest
    <2>1. Steady
        BY <1>0, <1>2, EndsIs DEF WorkerEnds, Steady, Down, Ended, Answered
    <2>2. TeardownOK'
        BY <1>0, <1>2, <2>1, TeardownKept DEF WorkerEnds
    <2>3. CreateOK'
        <3>1. CreateAt(e)'
            BY <1>0, <1>2, <2>1, EndsIs DEF WorkerEnds, Ended, CreateOK, CreateAt, Steady,
                TeardownOK, Down
        <3>2. \A x \in Execs : x # e =>
                 /\ create'[x] = create[x]
                 /\ wk'[x].state = wk[x].state
                 /\ wk[x].state = "none" => wk'[x] = wk[x]
            BY <1>0, <1>2, EndsIs DEF WorkerEnds, Ended
        <3>. QED BY <1>0, <2>1, <3>1, <3>2, CreateMoves
    <2>4. PollOK'
        BY <1>0, <1>2, <2>1, PollKept DEF WorkerEnds
    <2>5. ReapOK'
        BY <1>0, <1>2, <2>1, ReapKept DEF WorkerEnds
    <2>6. RecordOK'
        BY <1>0, <1>2, <2>1, RecordKept DEF WorkerEnds
    <2>. QED BY <2>2, <2>3, <2>4, <2>5, <2>6
<1>3. ASSUME NEW e \in Execs, WorkerKills(e) PROVE Rest
    <2>1. Steady
        BY <1>0, <1>3, EndsIs DEF WorkerKills, Steady, Down, Ended, Answered
    <2>2. TeardownOK'
        BY <1>0, <1>3, <2>1, TeardownKept DEF WorkerKills
    <2>3. CreateOK'
        <3>1. CreateAt(e)'
            BY <1>0, <1>3, <2>1, EndsIs DEF WorkerKills, Ended, CreateOK, CreateAt, Steady,
                TeardownOK, Down
        <3>2. \A x \in Execs : x # e =>
                 /\ create'[x] = create[x]
                 /\ wk'[x].state = wk[x].state
                 /\ wk[x].state = "none" => wk'[x] = wk[x]
            BY <1>0, <1>3, EndsIs DEF WorkerKills, Ended
        <3>. QED BY <1>0, <2>1, <3>1, <3>2, CreateMoves
    <2>4. PollOK'
        BY <1>0, <1>3, <2>1, PollKept DEF WorkerKills
    <2>5. ReapOK'
        BY <1>0, <1>3, <2>1, ReapKept DEF WorkerKills
    <2>6. RecordOK'
        BY <1>0, <1>3, <2>1, RecordKept DEF WorkerKills
    <2>. QED BY <2>2, <2>3, <2>4, <2>5, <2>6
<1>4. ASSUME NEW e \in Execs, CreateCheck(e) PROVE Rest
    <2>1. Steady
        BY <1>0, <1>4, CreateIs DEF CreateCheck, Steady, Down, Ended, Answered, creating,
            CreatePCs, Over
    <2>2. TeardownOK'
        BY <1>0, <1>4, <2>1, TeardownKept DEF CreateCheck, creating
    <2>3. CreateOK'
        <3>1. CreateAt(e)'
            BY <1>0, <1>4, <2>1, CreateIs DEF CreateCheck, creating, CreatePCs, Over, Answered,
                CreateOK, CreateAt, Steady, TeardownOK, Down, Ended
        <3>2. \A x \in Execs : x # e =>
                 /\ create'[x] = create[x]
                 /\ wk'[x].state = wk[x].state
                 /\ wk[x].state = "none" => wk'[x] = wk[x]
            BY <1>0, <1>4, CreateIs DEF CreateCheck, creating, CreatePCs, Over, Answered, Ended
        <3>. QED BY <1>0, <2>1, <3>1, <3>2, CreateMoves
    <2>4. PollOK'
        BY <1>0, <1>4, <2>1, PollKept DEF CreateCheck, creating
    <2>5. ReapOK'
        BY <1>0, <1>4, <2>1, ReapKept DEF CreateCheck, creating
    <2>6. RecordOK'
        BY <1>0, <1>4, <2>1, RecordKept DEF CreateCheck, creating
    <2>. QED BY <2>2, <2>3, <2>4, <2>5, <2>6
<1>5. ASSUME NEW e \in Execs, CreateInsert(e) PROVE Rest
    <2>1. Steady
        BY <1>0, <1>5, CreateIs DEF CreateInsert, Steady, Down, Ended, Answered, creating,
            CreatePCs, Over
    <2>2. TeardownOK'
        BY <1>0, <1>5, <2>1, TeardownKept DEF CreateInsert, creating
    <2>3. CreateOK'
        <3>1. CreateAt(e)'
            BY <1>0, <1>5, <2>1, CreateIs DEF CreateInsert, creating, CreatePCs, Over, Answered,
                CreateOK, CreateAt, Steady, TeardownOK, Down, Ended
        <3>2. \A x \in Execs : x # e =>
                 /\ create'[x] = create[x]
                 /\ wk'[x].state = wk[x].state
                 /\ wk[x].state = "none" => wk'[x] = wk[x]
            BY <1>0, <1>5, CreateIs DEF CreateInsert, creating, CreatePCs, Over, Answered, Ended
        <3>. QED BY <1>0, <2>1, <3>1, <3>2, CreateMoves
    <2>4. PollOK'
        BY <1>0, <1>5, <2>1, PollKept DEF CreateInsert, creating
    <2>5. ReapOK'
        BY <1>0, <1>5, <2>1, ReapKept DEF CreateInsert, creating
    <2>6. RecordOK'
        BY <1>0, <1>5, <2>1, RecordInserted DEF CreateInsert
    <2>. QED BY <2>2, <2>3, <2>4, <2>5, <2>6
<1>6. ASSUME NEW e \in Execs, CreateStart(e) PROVE Rest
    <2>0. /\ create[e] = "start" /\ wk[e].state = "none" /\ wk[e].kept
          /\ create'[e] = "bump" /\ wk'[e].state = "running"
          /\ \A x \in Execs : x # e =>
                /\ create'[x] = create[x]
                /\ wk'[x].state = wk[x].state
                /\ ~wk[x].kept => ~wk'[x].kept
                /\ wk[x].state \notin Ended => wk'[x] = wk[x]
        <3>1. create[e] = "start" /\ wk[e].state = "none" /\ wk[e].kept
            BY <1>0, <1>6 DEF CreateStart, CreateOK, CreateAt
        <3>2. create'[e] = "bump" /\ \A x \in Execs : x # e => create'[x] = create[x]
            BY <1>0, <1>6, CreateIs DEF CreateStart, CreatePCs
        <3>. QED BY <1>0, <1>6, <3>1, <3>2, DispatchedIs DEF CreateStart
    <2>1. Steady
        BY <1>6, <2>0 DEF CreateStart, creating, Steady, Down, Ended, Answered
    <2>2. TeardownOK'
        BY <1>0, <1>6, <2>1, TeardownKept DEF CreateStart, creating
    <2>3. CreateOK'
        <3>1. CreateAt(e)'
            BY <2>0 DEF CreateAt, Ended
        <3>. QED BY <1>0, <2>0, <2>1, <3>1, CreateMoves DEF Ended
    <2>4. PollOK'
        BY <1>0, <1>6, <2>1, PollKept DEF CreateStart, creating
    <2>5. ReapOK'
        BY <1>0, <1>6, <2>1, ReapKept DEF CreateStart, creating
    <2>6. RecordOK'
        BY <1>0, <1>6, <2>1, RecordKept DEF CreateStart, creating
    <2>. QED BY <2>2, <2>3, <2>4, <2>5, <2>6
<1>7. ASSUME NEW e \in Execs, CreateStartFails(e) PROVE Rest
    <2>0. /\ create[e] = "start" /\ wk[e].state = "none" /\ wk[e].kept
          /\ create'[e] = "finalize"
          /\ \A x \in Execs : x # e =>
                /\ create'[x] = create[x]
                /\ wk'[x].state = wk[x].state
                /\ ~wk[x].kept => ~wk'[x].kept
                /\ wk[x].state \notin Ended => wk'[x] = wk[x]
          /\ faults' > 0 \/ (~vm /\ faults' = faults)
        <3>1. create[e] = "start" /\ wk[e].state = "none" /\ wk[e].kept
            BY <1>0, <1>7 DEF CreateStartFails, CreateOK, CreateAt
        <3>2. create'[e] = "finalize" /\ \A x \in Execs : x # e => create'[x] = create[x]
            BY <1>0, <1>7, CreateIs DEF CreateStartFails, CreatePCs
        <3>3. CASE wk' = wk
            BY <1>0, <1>7, <3>1, <3>2, <3>3, FaultType DEF CreateStartFails
        <3>4. CASE Fault("start_reply_lost") /\ wk' = Dispatched(e)
            BY <1>0, <3>1, <3>2, <3>4, DispatchedIs, FaultType
        <3>. QED BY <1>7, <3>3, <3>4 DEF CreateStartFails
    <2>1. Steady
        BY <1>7, <2>0 DEF CreateStartFails, creating, Steady, Down, Ended, Answered
    <2>2. TeardownOK'
        BY <1>0, <1>7, <2>1, TeardownKept DEF CreateStartFails, creating
    <2>3. CreateOK'
        <3>1. CreateAt(e)'
            BY <1>0, <1>7, <2>0 DEF CreateAt, Ended, TeardownOK, Down, CreateStartFails
        <3>. QED BY <1>0, <2>0, <2>1, <3>1, CreateMoves DEF Ended
    <2>4. PollOK'
        BY <1>0, <1>7, <2>1, PollKept DEF CreateStartFails, creating
    <2>5. ReapOK'
        BY <1>0, <1>7, <2>1, ReapKept DEF CreateStartFails, creating
    <2>6. RecordOK'
        BY <1>0, <1>7, <2>1, RecordKept DEF CreateStartFails, creating
    <2>. QED BY <2>2, <2>3, <2>4, <2>5, <2>6
<1>8. ASSUME NEW e \in Execs, CreateFinalize(e) PROVE Rest
    <2>1. Steady
        BY <1>0, <1>8, CreateIs, FaultType DEF CreateFinalize, Steady, Down, Ended, Answered,
            creating, CreatePCs, Over
    <2>2. TeardownOK'
        BY <1>0, <1>8, <2>1, TeardownKept DEF CreateFinalize, creating
    <2>3. CreateOK'
        <3>1. CreateAt(e)'
            BY <1>0, <1>8, <2>1, CreateIs, FaultType DEF CreateFinalize, creating, CreatePCs,
                Over, Answered, CreateOK, CreateAt, Steady, TeardownOK, Down, Ended
        <3>2. \A x \in Execs : x # e =>
                 /\ create'[x] = create[x]
                 /\ wk'[x].state = wk[x].state
                 /\ wk[x].state = "none" => wk'[x] = wk[x]
            BY <1>0, <1>8, CreateIs DEF CreateFinalize, creating, CreatePCs, Over, Answered,
                Ended
        <3>. QED BY <1>0, <2>1, <3>1, <3>2, CreateMoves
    <2>4. PollOK'
        BY <1>0, <1>8, <2>1, PollKept DEF CreateFinalize, creating
    <2>5. ReapOK'
        BY <1>0, <1>8, <2>1, ReapKept DEF CreateFinalize, creating
    <2>6. RecordOK'
        <3>1. CASE exec' = exec
            BY <1>0, <2>1, <3>1, RecordKept
        <3>2. CASE Persist(e, "lost") /\ UNCHANGED faults
            <4>1. PICK x \in Execs, h \in {"lost", "blind"} \cup Ended :
                     /\ x = e /\ h = "lost"
                     /\ h \in Ended => wk[x].state = h
                     /\ h = "lost" /\ faults = 0 => Cause(x)
                BY <1>0, <1>8, <3>2 DEF CreateFinalize, creating, CreateOK, CreateAt, Steady, Cause,
                    Ended
            <4>2. Persist(x, h)
                BY <3>2, <4>1
            <4>. QED BY <1>0, <2>1, <4>1, <4>2, RecordWritten
        <3>. QED BY <1>8, <3>1, <3>2 DEF CreateFinalize, creating
    <2>. QED BY <2>2, <2>3, <2>4, <2>5, <2>6
<1>9. ASSUME NEW e \in Execs, CreateBump(e) PROVE Rest
    <2>1. Steady
        BY <1>0, <1>9, CreateIs, BumpIs, FaultType DEF CreateBump, Steady, Down, Ended,
            Answered, creating, CreatePCs, Over
    <2>2. TeardownOK'
        BY <1>0, <1>9, <2>1, TeardownKept DEF CreateBump, creating
    <2>3. CreateOK'
        <3>1. CreateAt(e)'
            BY <1>0, <1>9, <2>1, CreateIs, BumpIs, FaultType DEF CreateBump, creating,
                CreatePCs, Over, Answered, CreateOK, CreateAt, Steady, TeardownOK, Down, Ended
        <3>2. \A x \in Execs : x # e =>
                 /\ create'[x] = create[x]
                 /\ wk'[x].state = wk[x].state
                 /\ wk[x].state = "none" => wk'[x] = wk[x]
            BY <1>0, <1>9, CreateIs DEF CreateBump, creating, CreatePCs, Over, Answered, Ended
        <3>. QED BY <1>0, <2>1, <3>1, <3>2, CreateMoves
    <2>4. PollOK'
        BY <1>0, <1>9, <2>1, PollKept DEF CreateBump, creating
    <2>5. ReapOK'
        BY <1>0, <1>9, <2>1, ReapKept DEF CreateBump, creating
    <2>6. RecordOK'
        BY <1>0, <1>9, <2>1, RecordKept DEF CreateBump, creating
    <2>. QED BY <2>2, <2>3, <2>4, <2>5, <2>6
<1>10. ASSUME NEW e \in Execs, CreateWait(e) PROVE Rest
    <2>1. Steady
        BY <1>0, <1>10, CreateIs DEF CreateWait, Steady, Down, Ended, Answered, creating,
            CreatePCs, Over
    <2>2. TeardownOK'
        BY <1>0, <1>10, <2>1, TeardownKept DEF CreateWait, creating
    <2>3. CreateOK'
        <3>1. CreateAt(e)'
            BY <1>0, <1>10, <2>1, CreateIs DEF CreateWait, creating, CreatePCs, Over, Answered,
                CreateOK, CreateAt, Steady, TeardownOK, Down, Ended, Reachable
        <3>2. \A x \in Execs : x # e =>
                 /\ create'[x] = create[x]
                 /\ wk'[x].state = wk[x].state
                 /\ wk[x].state = "none" => wk'[x] = wk[x]
            BY <1>0, <1>10, CreateIs DEF CreateWait, creating, CreatePCs, Over, Answered, Ended
        <3>. QED BY <1>0, <2>1, <3>1, <3>2, CreateMoves
    <2>4. PollOK'
        BY <1>0, <1>10, <2>1, PollKept DEF CreateWait, creating
    <2>5. ReapOK'
        BY <1>0, <1>10, <2>1, ReapKept DEF CreateWait, creating
    <2>6. RecordOK'
        BY <1>0, <1>10, <2>1, RecordKept DEF CreateWait, creating
    <2>. QED BY <2>2, <2>3, <2>4, <2>5, <2>6
<1>11. ASSUME NEW e \in Execs, CreateWaitFinal(e) PROVE Rest
    <2>1. Steady
        BY <1>0, <1>11, CreateIs, FaultType DEF CreateWaitFinal, Steady, Down, Ended, Answered,
            creating, CreatePCs, Over
    <2>2. TeardownOK'
        BY <1>0, <1>11, <2>1, TeardownKept DEF CreateWaitFinal, creating
    <2>3. CreateOK'
        <3>1. CreateAt(e)'
            BY <1>0, <1>11, <2>1, CreateIs, FaultType DEF CreateWaitFinal, creating, CreatePCs,
                Over, Answered, CreateOK, CreateAt, Steady, TeardownOK, Down, Ended
        <3>2. \A x \in Execs : x # e =>
                 /\ create'[x] = create[x]
                 /\ wk'[x].state = wk[x].state
                 /\ wk[x].state = "none" => wk'[x] = wk[x]
            BY <1>0, <1>11, CreateIs DEF CreateWaitFinal, creating, CreatePCs, Over, Answered,
                Ended
        <3>. QED BY <1>0, <2>1, <3>1, <3>2, CreateMoves
    <2>4. PollOK'
        BY <1>0, <1>11, <2>1, PollKept DEF CreateWaitFinal, creating
    <2>5. ReapOK'
        BY <1>0, <1>11, <2>1, ReapKept DEF CreateWaitFinal, creating
    <2>6. RecordOK'
        <3>1. CASE exec' = exec
            BY <1>0, <2>1, <3>1, RecordKept
        <3>2. CASE Persist(e, wk[e].state) /\ UNCHANGED faults
            <4>1. PICK x \in Execs, h \in {"lost", "blind"} \cup Ended :
                     /\ x = e /\ h = wk[e].state
                     /\ h \in Ended => wk[x].state = h
                     /\ h = "lost" /\ faults = 0 => Cause(x)
                BY <1>0, <1>11, <3>2 DEF CreateWaitFinal, creating, CreateOK, CreateAt, Steady, Cause,
                    Ended
            <4>2. Persist(x, h)
                BY <3>2, <4>1
            <4>. QED BY <1>0, <2>1, <4>1, <4>2, RecordWritten
        <3>. QED BY <1>11, <3>1, <3>2 DEF CreateWaitFinal, creating
    <2>. QED BY <2>2, <2>3, <2>4, <2>5, <2>6
<1>12. ASSUME NEW e \in Execs, CreateCrash(e) PROVE Rest
    <2>1. Steady
        BY <1>0, <1>12, CreateIs, FaultType DEF CreateCrash, Steady, Down, Ended, Answered,
            creating, CreatePCs, Over
    <2>2. TeardownOK'
        BY <1>0, <1>12, <2>1, TeardownKept DEF CreateCrash, creating
    <2>3. CreateOK'
        <3>1. CreateAt(e)'
            BY <1>0, <1>12, <2>1, CreateIs, FaultType DEF CreateCrash, creating, CreatePCs,
                Over, Answered, CreateOK, CreateAt, Steady, TeardownOK, Down, Ended
        <3>2. \A x \in Execs : x # e =>
                 /\ create'[x] = create[x]
                 /\ wk'[x].state = wk[x].state
                 /\ wk[x].state = "none" => wk'[x] = wk[x]
            BY <1>0, <1>12, CreateIs DEF CreateCrash, creating, CreatePCs, Over, Answered, Ended
        <3>. QED BY <1>0, <2>1, <3>1, <3>2, CreateMoves
    <2>4. PollOK'
        BY <1>0, <1>12, <2>1, PollKept DEF CreateCrash, creating
    <2>5. ReapOK'
        BY <1>0, <1>12, <2>1, ReapKept DEF CreateCrash, creating
    <2>6. RecordOK'
        BY <1>0, <1>12, <2>1, RecordKept DEF CreateCrash, creating
    <2>. QED BY <2>2, <2>3, <2>4, <2>5, <2>6
<1>13. ASSUME NEW p \in Pollers, PollGet(p) PROVE Rest
    <2>1. Steady
        BY <1>0, <1>13 DEF PollGet, Steady, Down, Ended, Answered, polling
    <2>2. TeardownOK'
        BY <1>0, <1>13, <2>1, TeardownKept DEF PollGet, polling
    <2>3. CreateOK'
        BY <1>0, <1>13, <2>1, CreateKept DEF PollGet, polling
    <2>4. PollOK'
        <3>1. PollAt(p)'
            BY <1>0, <1>13, <2>1, PollBegins DEF PollGet, polling, PollPCs, PollOK, PollAt,
                PendingExecs, Steady, Cause, Down, Reachable, CreateOK, CreateAt, TeardownOK,
                Ended
        <3>2. \A q \in Pollers : q # p => poll'[q] = poll[q]
            BY <1>0, <1>13, PollBegins DEF PollGet, PollPCs
        <3>. QED BY <1>0, <2>1, <3>1, <3>2, PollMoves
    <2>5. ReapOK'
        BY <1>0, <1>13, <2>1, ReapKept DEF PollGet, polling
    <2>6. RecordOK'
        BY <1>0, <1>13, <2>1, RecordKept DEF PollGet, polling
    <2>. QED BY <2>2, <2>3, <2>4, <2>5, <2>6
<1>14. ASSUME NEW p \in Pollers, PollScratch(p) PROVE Rest
    <2>1. Steady
        BY <1>0, <1>14, FaultType DEF PollScratch, Steady, Down, Ended, Answered, polling
    <2>2. TeardownOK'
        BY <1>0, <1>14, <2>1, TeardownKept DEF PollScratch, polling
    <2>3. CreateOK'
        BY <1>0, <1>14, <2>1, CreateKept DEF PollScratch, polling
    <2>4. PollOK'
        <3>1. PollAt(p)'
            BY <1>0, <1>14, <2>1, PollGoes, FaultType DEF PollScratch, polling, PollPCs, PollOK,
                PollAt, PendingExecs, Steady, Cause, Down, Reachable, CreateOK, CreateAt,
                TeardownOK, Ended
        <3>2. \A q \in Pollers : q # p => poll'[q] = poll[q]
            BY <1>0, <1>14, PollGoes DEF PollScratch, PollPCs
        <3>. QED BY <1>0, <2>1, <3>1, <3>2, PollMoves
    <2>5. ReapOK'
        BY <1>0, <1>14, <2>1, ReapKept DEF PollScratch, polling
    <2>6. RecordOK'
        BY <1>0, <1>14, <2>1, RecordKept DEF PollScratch, polling
    <2>. QED BY <2>2, <2>3, <2>4, <2>5, <2>6
<1>15. ASSUME NEW p \in Pollers, PollStatus(p) PROVE Rest
    <2>1. Steady
        BY <1>0, <1>15 DEF PollStatus, Steady, Down, Ended, Answered, polling
    <2>2. TeardownOK'
        BY <1>0, <1>15, <2>1, TeardownKept DEF PollStatus, polling
    <2>3. CreateOK'
        BY <1>0, <1>15, <2>1, CreateKept DEF PollStatus, polling
    <2>4. PollOK'
        <3>1. poll[p].e \in Execs /\ create[poll[p].e] \in Answered
            BY <1>0, <1>15 DEF PollStatus, PollOK, PollAt
        <3>2. \/ poll' = [poll EXCEPT ![p] = NoPoll]
              \/ PollTo(p, "final") /\ wk[poll[p].e].state \in Ended
            BY <1>0, <1>15, <3>1 DEF PollStatus, PollTo, Reachable, Typed, Entries, WorkerStates,
                Ended
        <3>3. \/ poll'[p].pc = "idle"
              \/ poll'[p].pc = "final" /\ poll'[p].e = poll[p].e /\ wk[poll[p].e].state \in Ended
            BY <1>0, <3>2, PollGoes, PollEnds DEF PollPCs
        <3>4. PollAt(p)'
            BY <1>15, <2>1, <3>1, <3>3 DEF PollStatus, polling, PollAt, Steady
        <3>5. \A q \in Pollers : q # p => poll'[q] = poll[q]
            BY <1>0, <3>2, PollGoes, PollEnds DEF PollPCs
        <3>. QED BY <1>0, <2>1, <3>4, <3>5, PollMoves
    <2>5. ReapOK'
        BY <1>0, <1>15, <2>1, ReapKept DEF PollStatus, polling
    <2>6. RecordOK'
        BY <1>0, <1>15, <2>1, RecordKept DEF PollStatus, polling
    <2>. QED BY <2>2, <2>3, <2>4, <2>5, <2>6
<1>16. ASSUME NEW p \in Pollers, PollSyncFails(p) PROVE Rest
    <2>1. Steady
        BY <1>0, <1>16, FaultType DEF PollSyncFails, Steady, Down, Ended, Answered, polling
    <2>2. TeardownOK'
        BY <1>0, <1>16, <2>1, TeardownKept DEF PollSyncFails, polling
    <2>3. CreateOK'
        BY <1>0, <1>16, <2>1, CreateKept DEF PollSyncFails, polling
    <2>4. PollOK'
        <3>1. poll[p].e \in Execs /\ create[poll[p].e] \in Answered
            BY <1>0, <1>16 DEF PollSyncFails, PollOK, PollAt
        <3>2. /\ poll'[p].pc = "lose" /\ poll'[p].e = poll[p].e
              /\ \A q \in Pollers : q # p => poll'[q] = poll[q]
            BY <1>0, <1>16, PollGoes DEF PollSyncFails, PollPCs
        <3>3. faults' = 0 => faults = 0 /\ ~Reachable(poll[p].e)
            BY <1>0, <1>16, FaultType DEF PollSyncFails, Typed
        <3>4. faults' = 0 => Cause(poll[p].e)
            BY <1>0, <3>1, <3>3 DEF Reachable, Cause, TeardownOK, CreateOK, CreateAt, Answered
        <3>5. PollAt(p)'
            BY <1>16, <2>1, <3>1, <3>2, <3>4 DEF PollSyncFails, polling, PollAt, Steady, Cause,
                Down
        <3>. QED BY <1>0, <2>1, <3>2, <3>5, PollMoves
    <2>5. ReapOK'
        BY <1>0, <1>16, <2>1, ReapKept DEF PollSyncFails, polling
    <2>6. RecordOK'
        BY <1>0, <1>16, <2>1, RecordKept DEF PollSyncFails, polling
    <2>. QED BY <2>2, <2>3, <2>4, <2>5, <2>6
<1>17. ASSUME NEW p \in Pollers, PollFinal(p) PROVE Rest
    <2>1. Steady
        BY <1>0, <1>17 DEF PollFinal, Steady, Down, Ended, Answered, polling
    <2>2. TeardownOK'
        BY <1>0, <1>17, <2>1, TeardownKept DEF PollFinal, polling
    <2>3. CreateOK'
        BY <1>0, <1>17, <2>1, CreateKept DEF PollFinal, polling
    <2>4. PollOK'
        <3>1. PollAt(p)'
            BY <1>0, <1>17, <2>1, PollGoes DEF PollFinal, polling, PollPCs, PollOK, PollAt,
                PendingExecs, Steady, Cause, Down, Reachable, CreateOK, CreateAt, TeardownOK,
                Ended
        <3>2. \A q \in Pollers : q # p => poll'[q] = poll[q]
            BY <1>0, <1>17, PollGoes DEF PollFinal, PollPCs
        <3>. QED BY <1>0, <2>1, <3>1, <3>2, PollMoves
    <2>5. ReapOK'
        BY <1>0, <1>17, <2>1, ReapKept DEF PollFinal, polling
    <2>6. RecordOK'
        <3>2. CASE Persist(poll[p].e, wk[poll[p].e].state) /\ UNCHANGED faults
            <4>1. PICK x \in Execs, h \in {"lost", "blind"} \cup Ended :
                     /\ x = poll[p].e /\ h = wk[poll[p].e].state
                     /\ h \in Ended => wk[x].state = h
                     /\ h = "lost" /\ faults = 0 => Cause(x)
                BY <1>0, <1>17, <3>2 DEF PollFinal, polling, PollOK, PollAt, Steady, Cause, Ended
            <4>2. Persist(x, h)
                BY <3>2, <4>1
            <4>. QED BY <1>0, <2>1, <4>1, <4>2, RecordWritten
        <3>. QED BY <1>17, <3>2 DEF PollFinal, polling
    <2>. QED BY <2>2, <2>3, <2>4, <2>5, <2>6
<1>18. ASSUME NEW p \in Pollers, PollBump(p) PROVE Rest
    <2>1. Steady
        BY <1>0, <1>18, BumpIs, FaultType DEF PollBump, Steady, Down, Ended, Answered, polling
    <2>2. TeardownOK'
        BY <1>0, <1>18, <2>1, TeardownKept DEF PollBump, polling
    <2>3. CreateOK'
        BY <1>0, <1>18, <2>1, CreateKept DEF PollBump, polling
    <2>4. PollOK'
        <3>1. PollAt(p)'
            BY <1>0, <1>18, <2>1, PollEnds, FaultType DEF PollBump, polling, PollPCs, PollOK,
                PollAt, PendingExecs, Steady, Cause, Down, Reachable, CreateOK, CreateAt,
                TeardownOK, Ended
        <3>2. \A q \in Pollers : q # p => poll'[q] = poll[q]
            BY <1>0, <1>18, PollEnds DEF PollBump, PollPCs
        <3>. QED BY <1>0, <2>1, <3>1, <3>2, PollMoves
    <2>5. ReapOK'
        BY <1>0, <1>18, <2>1, ReapKept DEF PollBump, polling
    <2>6. RecordOK'
        BY <1>0, <1>18, <2>1, RecordKept DEF PollBump, polling
    <2>. QED BY <2>2, <2>3, <2>4, <2>5, <2>6
<1>19. ASSUME NEW p \in Pollers, PollLose(p) PROVE Rest
    <2>1. Steady
        BY <1>0, <1>19, FaultType DEF PollLose, Steady, Down, Ended, Answered, polling
    <2>2. TeardownOK'
        BY <1>0, <1>19, <2>1, TeardownKept DEF PollLose, polling
    <2>3. CreateOK'
        BY <1>0, <1>19, <2>1, CreateKept DEF PollLose, polling
    <2>4. PollOK'
        <3>1. PollAt(p)'
            BY <1>0, <1>19, <2>1, PollEnds, FaultType DEF PollLose, polling, PollPCs, PollOK,
                PollAt, PendingExecs, Steady, Cause, Down, Reachable, CreateOK, CreateAt,
                TeardownOK, Ended
        <3>2. \A q \in Pollers : q # p => poll'[q] = poll[q]
            BY <1>0, <1>19, PollEnds DEF PollLose, PollPCs
        <3>. QED BY <1>0, <2>1, <3>1, <3>2, PollMoves
    <2>5. ReapOK'
        BY <1>0, <1>19, <2>1, ReapKept DEF PollLose, polling
    <2>6. RecordOK'
        <3>1. CASE exec' = exec
            BY <1>0, <2>1, <3>1, RecordKept
        <3>2. CASE Persist(poll[p].e, "lost") /\ UNCHANGED faults
            <4>1. PICK x \in Execs, h \in {"lost", "blind"} \cup Ended :
                     /\ x = poll[p].e /\ h = "lost"
                     /\ h \in Ended => wk[x].state = h
                     /\ h = "lost" /\ faults = 0 => Cause(x)
                BY <1>0, <1>19, <3>2 DEF PollLose, polling, PollOK, PollAt, Steady, Cause, Ended
            <4>2. Persist(x, h)
                BY <3>2, <4>1
            <4>. QED BY <1>0, <2>1, <4>1, <4>2, RecordWritten
        <3>. QED BY <1>19, <3>1, <3>2 DEF PollLose, polling
    <2>. QED BY <2>2, <2>3, <2>4, <2>5, <2>6
<1>20. ASSUME NEW p \in Pollers, PollCrash(p) PROVE Rest
    <2>1. Steady
        BY <1>0, <1>20, FaultType DEF PollCrash, Steady, Down, Ended, Answered, polling
    <2>2. TeardownOK'
        BY <1>0, <1>20, <2>1, TeardownKept DEF PollCrash, polling
    <2>3. CreateOK'
        BY <1>0, <1>20, <2>1, CreateKept DEF PollCrash, polling
    <2>4. PollOK'
        <3>1. PollAt(p)'
            BY <1>0, <1>20, <2>1, PollEnds, FaultType DEF PollCrash, polling, PollPCs, PollOK,
                PollAt, PendingExecs, Steady, Cause, Down, Reachable, CreateOK, CreateAt,
                TeardownOK, Ended
        <3>2. \A q \in Pollers : q # p => poll'[q] = poll[q]
            BY <1>0, <1>20, PollEnds DEF PollCrash, PollPCs
        <3>. QED BY <1>0, <2>1, <3>1, <3>2, PollMoves
    <2>5. ReapOK'
        BY <1>0, <1>20, <2>1, ReapKept DEF PollCrash, polling
    <2>6. RecordOK'
        BY <1>0, <1>20, <2>1, RecordKept DEF PollCrash, polling
    <2>. QED BY <2>2, <2>3, <2>4, <2>5, <2>6
<1>21. ASSUME ReapBegin PROVE Rest
    <2>1. Steady
        BY <1>0, <1>21 DEF ReapBegin, Steady, Down, Ended, Answered, reaping
    <2>2. TeardownOK'
        BY <1>0, <1>21, <2>1, TeardownKept DEF ReapBegin, reaping
    <2>3. CreateOK'
        BY <1>0, <1>21, <2>1, CreateKept DEF ReapBegin, reaping
    <2>4. PollOK'
        BY <1>0, <1>21, <2>1, PollKept DEF ReapBegin, reaping
    <2>5. ReapOK'
        <3>1. PendingExecs \in SUBSET Execs
            BY DEF PendingExecs
        <3>2. reap'.pc = "idle_list"
            BY <1>0, <1>21, <3>1, ReapStarts DEF ReapBegin
        <3>. QED BY <3>2 DEF ReapOK
    <2>6. RecordOK'
        BY <1>0, <1>21, <2>1, RecordKept DEF ReapBegin, reaping
    <2>. QED BY <2>2, <2>3, <2>4, <2>5, <2>6
<1>22. ASSUME ReapIdleList PROVE Rest
    <2>1. Steady
        BY <1>0, <1>22 DEF ReapIdleList, Steady, Down, Ended, Answered, reaping
    <2>2. TeardownOK'
        BY <1>0, <1>22, <2>1, TeardownKept DEF ReapIdleList, reaping
    <2>3. CreateOK'
        BY <1>0, <1>22, <2>1, CreateKept DEF ReapIdleList, reaping
    <2>4. PollOK'
        BY <1>0, <1>22, <2>1, PollKept DEF ReapIdleList, reaping
    <2>5. ReapOK'
        <3>1. /\ reap.pending \in SUBSET Execs /\ scratch.state \in ScratchStates
              /\ "presync" \in ReapPCs /\ "sweep_list" \in ReapPCs
            BY <1>0 DEF Typed, Passes, Scratches, ReapPCs
        <3>2. \/ reap' = [reap EXCEPT !.pc = "presync", !.todo = reap.pending,
                                      !.was = scratch.state]
              \/ ReapTo("sweep_list")
            BY <1>22 DEF ReapIdleList, ReapTo
        <3>3. \/ reap'.pc = "sweep_list"
              \/ reap'.pc = "presync" /\ reap'.was = scratch.state
            BY <1>0, <3>1, <3>2, ReapLists, ReapGoes, ZenonT(60)
        <3>. QED BY <1>22, <3>3 DEF ReapIdleList, ReapOK, Down
    <2>6. RecordOK'
        BY <1>0, <1>22, <2>1, RecordKept DEF ReapIdleList, reaping
    <2>. QED BY <2>2, <2>3, <2>4, <2>5, <2>6
<1>23. ASSUME NEW e \in Execs, ReapPresync(e) PROVE Rest
    <2>1. Steady
        BY <1>0, <1>23, FaultType DEF ReapPresync, Steady, Down, Ended, Answered, reaping
    <2>2. TeardownOK'
        BY <1>0, <1>23, <2>1, TeardownKept DEF ReapPresync, reaping
    <2>3. CreateOK'
        BY <1>0, <1>23, <2>1, CreateKept DEF ReapPresync, reaping
    <2>4. PollOK'
        BY <1>0, <1>23, <2>1, PollKept DEF ReapPresync, reaping
    <2>5. ReapOK'
        <3>1. /\ reap.pc = "presync"
              /\ reap.todo \ {e} \in SUBSET Execs /\ "presync_final" \in ReapPCs
            BY <1>0, <1>23 DEF ReapPresync, Typed, Passes, ReapPCs
        <3>2. CASE reap' = [reap EXCEPT !.todo = reap.todo \ {e}]
            <4>1. reap'.pc = "presync" /\ reap'.was = reap.was
                BY <1>0, <3>1, <3>2, ReapSkips
            <4>. QED BY <1>0, <1>23, <3>1, <4>1 DEF ReapPresync, ReapOK, Down
        <3>3. CASE /\ wk[e].state \in Ended
                   /\ reap' = [reap EXCEPT !.pc = "presync_final", !.e = e, !.how = wk[e].state]
            <4>1. PICK h \in Ended : h = wk[e].state
                BY <3>3
            <4>3. /\ h \in Hows /\ "presync_final" \in ReapPCs
                  /\ reap' = [reap EXCEPT !.pc = "presync_final", !.e = e, !.how = h]
                BY <3>3, <4>1 DEF Hows, ReapPCs
            <4>2. /\ reap'.pc = "presync_final" /\ reap'.was = reap.was
                  /\ reap'.e = e /\ reap'.how = h
                BY <1>0, <4>3, ReapTakesKnown
            <4>. QED BY <1>0, <1>23, <3>1, <4>1, <4>2 DEF ReapPresync, reaping, ReapOK, Down
        <3>. QED BY <1>23, <3>2, <3>3 DEF ReapPresync
    <2>6. RecordOK'
        BY <1>0, <1>23, <2>1, RecordKept DEF ReapPresync, reaping
    <2>. QED BY <2>2, <2>3, <2>4, <2>5, <2>6
<1>24. ASSUME ReapPresyncFinal PROVE Rest
    <2>1. Steady
        BY <1>0, <1>24, FaultType DEF ReapPresyncFinal, Steady, Down, Ended, Answered, reaping
    <2>2. TeardownOK'
        BY <1>0, <1>24, <2>1, TeardownKept DEF ReapPresyncFinal, reaping
    <2>3. CreateOK'
        BY <1>0, <1>24, <2>1, CreateKept DEF ReapPresyncFinal, reaping
    <2>4. PollOK'
        BY <1>0, <1>24, <2>1, PollKept DEF ReapPresyncFinal, reaping
    <2>5. ReapOK'
        <3>1. reap.todo \ {reap.e} \in SUBSET Execs /\ "presync" \in ReapPCs
            BY <1>0 DEF Typed, Passes, ReapPCs
        <3>2. reap'.pc = "presync" /\ reap'.was = reap.was
            BY <1>0, <1>24, <3>1, ReapIsDone DEF ReapPresyncFinal
        <3>. QED BY <1>0, <1>24, <3>2 DEF ReapPresyncFinal, ReapOK, Down
    <2>6. RecordOK'
        <3>1. CASE exec' = exec
            BY <1>0, <2>1, <3>1, RecordKept
        <3>2. CASE Persist(reap.e, reap.how) /\ UNCHANGED faults
            <4>1. PICK x \in Execs, h \in {"lost", "blind"} \cup Ended :
                     /\ x = reap.e /\ h = reap.how
                     /\ h \in Ended => wk[x].state = h
                     /\ h = "lost" /\ faults = 0 => Cause(x)
                BY <1>0, <1>24, <3>2 DEF ReapPresyncFinal, reaping, ReapOK, Steady, Cause, Ended
            <4>2. Persist(x, h)
                BY <3>2, <4>1
            <4>. QED BY <1>0, <2>1, <4>1, <4>2, RecordWritten
        <3>. QED BY <1>24, <3>1, <3>2 DEF ReapPresyncFinal, reaping
    <2>. QED BY <2>2, <2>3, <2>4, <2>5, <2>6
<1>25. ASSUME ReapRecheck PROVE Rest
    <2>1. Steady
        BY <1>0, <1>25, FaultType DEF ReapRecheck, Steady, Down, Ended, Answered, reaping
    <2>2. TeardownOK'
        BY <1>0, <1>25, <2>1, TeardownKept DEF ReapRecheck, reaping
    <2>3. CreateOK'
        BY <1>0, <1>25, <2>1, CreateKept DEF ReapRecheck, reaping
    <2>4. PollOK'
        BY <1>0, <1>25, <2>1, PollKept DEF ReapRecheck, reaping
    <2>5. ReapOK'
        BY <1>0, <1>25, <2>1, ReapGoes, FaultType DEF ReapRecheck, reaping, ReapPCs, ReapOK,
            Steady, Down, Hows, Ended, ScratchStates, ReapTo
    <2>6. RecordOK'
        BY <1>0, <1>25, <2>1, RecordKept DEF ReapRecheck, reaping
    <2>. QED BY <2>2, <2>3, <2>4, <2>5, <2>6
<1>26. ASSUME ReapMark PROVE Rest
    <2>1. Steady
        BY <1>0, <1>26, StateIs, FaultType DEF ReapMark, Steady, Down, Ended, Answered, reaping,
            ScratchStates
    <2>2. TeardownOK'
        BY <1>0, <1>26, <2>1, TeardownKept DEF ReapMark, reaping
    <2>3. CreateOK'
        BY <1>0, <1>26, <2>1, CreateKept DEF ReapMark, reaping
    <2>4. PollOK'
        BY <1>0, <1>26, <2>1, PollKept DEF ReapMark, reaping
    <2>5. ReapOK'
        BY <1>0, <1>26, <2>1, ReapGoes, StateIs, FaultType DEF ReapMark, reaping, ReapPCs,
            ReapOK, Steady, Down, Hows, Ended, ScratchStates, ReapTo
    <2>6. RecordOK'
        BY <1>0, <1>26, <2>1, RecordKept DEF ReapMark, reaping
    <2>. QED BY <2>2, <2>3, <2>4, <2>5, <2>6
<1>27. ASSUME ReapDeleteVM PROVE Rest
    <2>1. Steady
        BY <1>0, <1>27, FaultType DEF ReapDeleteVM, Steady, Down, Ended, Answered, reaping
    <2>2. TeardownOK'
        BY <1>0, <1>27, <2>1, ReapGoes, FaultType DEF ReapDeleteVM, reaping, TeardownOK, ReapOK,
            Steady, Down, ScratchStates, DeletePCs
    <2>3. CreateOK'
        BY <1>0, <1>27, <2>1, CreateKept DEF ReapDeleteVM, reaping
    <2>4. PollOK'
        BY <1>0, <1>27, <2>1, PollKept DEF ReapDeleteVM, reaping
    <2>5. ReapOK'
        BY <1>0, <1>27, <2>1, ReapGoes, FaultType DEF ReapDeleteVM, reaping, ReapPCs, ReapOK,
            Steady, Down, Hows, Ended, ScratchStates, ReapTo
    <2>6. RecordOK'
        BY <1>0, <1>27, <2>1, RecordKept DEF ReapDeleteVM, reaping
    <2>. QED BY <2>2, <2>3, <2>4, <2>5, <2>6
<1>28. ASSUME ReapDeleted PROVE Rest
    <2>1. Steady
        BY <1>0, <1>28, StateIs, FaultType DEF ReapDeleted, Steady, Down, Ended, Answered,
            reaping, ScratchStates
    <2>2. TeardownOK'
        BY <1>0, <1>28, <2>1, TeardownKept DEF ReapDeleted, reaping
    <2>3. CreateOK'
        BY <1>0, <1>28, <2>1, CreateKept DEF ReapDeleted, reaping
    <2>4. PollOK'
        BY <1>0, <1>28, <2>1, PollKept DEF ReapDeleted, reaping
    <2>5. ReapOK'
        BY <1>0, <1>28, <2>1, ReapGoes, StateIs, FaultType DEF ReapDeleted, reaping, ReapPCs,
            ReapOK, Steady, Down, Hows, Ended, ScratchStates, ReapTo
    <2>6. RecordOK'
        BY <1>0, <1>28, <2>1, RecordKept DEF ReapDeleted, reaping
    <2>. QED BY <2>2, <2>3, <2>4, <2>5, <2>6
<1>29. ASSUME ReapSweepList PROVE Rest
    <2>1. Steady
        BY <1>0, <1>29 DEF ReapSweepList, Steady, Down, Ended, Answered, reaping
    <2>2. TeardownOK'
        BY <1>0, <1>29, <2>1, TeardownKept DEF ReapSweepList, reaping
    <2>3. CreateOK'
        BY <1>0, <1>29, <2>1, CreateKept DEF ReapSweepList, reaping
    <2>4. PollOK'
        BY <1>0, <1>29, <2>1, PollKept DEF ReapSweepList, reaping
    <2>5. ReapOK'
        <3>1. PendingExecs \in SUBSET Execs /\ "sweep" \in ReapPCs
            BY DEF PendingExecs, ReapPCs
        <3>2. reap'.pc = "sweep"
            BY <1>0, <1>29, <3>1, ReapLeaves DEF ReapSweepList
        <3>. QED BY <3>2 DEF ReapOK
    <2>6. RecordOK'
        BY <1>0, <1>29, <2>1, RecordKept DEF ReapSweepList, reaping
    <2>. QED BY <2>2, <2>3, <2>4, <2>5, <2>6
<1>30. ASSUME NEW e \in Execs, ReapDecide(e) PROVE Rest
    <2>1. Steady
        BY <1>0, <1>30, FaultType DEF ReapDecide, Steady, Down, Ended, Answered, reaping
    <2>2. TeardownOK'
        BY <1>0, <1>30, <2>1, TeardownKept DEF ReapDecide, reaping
    <2>3. CreateOK'
        BY <1>0, <1>30, <2>1, CreateKept DEF ReapDecide, reaping
    <2>4. PollOK'
        BY <1>0, <1>30, <2>1, PollKept DEF ReapDecide, reaping
    <2>5. ReapOK'
        <3>1. /\ reap.pc = "sweep" /\ reap.todo \ {e} \in SUBSET Execs
              /\ "pull" \in ReapPCs /\ "settle" \in ReapPCs
              /\ "blind" \in Hows /\ "lost" \in Hows
            BY <1>0, <1>30 DEF ReapDecide, Typed, Passes, ReapPCs, Hows
        <3>2. CASE reap' = [reap EXCEPT !.pc = "pull", !.e = e]
            <4>1. reap'.pc = "pull" /\ reap'.e = e
                BY <1>0, <3>1, <3>2, ReapTakes
            <4>. QED BY <4>1 DEF ReapOK
        <3>3. CASE reap' = [reap EXCEPT !.pc = "settle", !.e = e, !.how = "blind"]
            <4>1. reap'.pc = "settle" /\ reap'.e = e /\ reap'.how = "blind"
                BY <1>0, <3>1, <3>3, ReapTakesKnown
            <4>. QED BY <4>1 DEF ReapOK
        <3>4. CASE Down /\ reap' = [reap EXCEPT !.pc = "settle", !.e = e, !.how = "lost"]
            <4>1. reap'.pc = "settle" /\ reap'.e = e /\ reap'.how = "lost"
                BY <1>0, <3>1, <3>4, ReapTakesKnown
            <4>. QED BY <2>1, <3>4, <4>1 DEF ReapOK, Steady
        <3>5. CASE reap' = [reap EXCEPT !.todo = reap.todo \ {e}]
            <4>1. reap'.pc = "sweep"
                BY <1>0, <3>1, <3>5, ReapSkips
            <4>. QED BY <4>1 DEF ReapOK
        <3>. QED BY <1>30, <3>2, <3>3, <3>4, <3>5 DEF ReapDecide, Down
    <2>6. RecordOK'
        BY <1>0, <1>30, <2>1, RecordKept DEF ReapDecide, reaping
    <2>. QED BY <2>2, <2>3, <2>4, <2>5, <2>6
<1>31. ASSUME ReapPull PROVE Rest
    <2>1. Steady
        BY <1>0, <1>31, FaultType DEF ReapPull, Steady, Down, Ended, Answered, reaping
    <2>2. TeardownOK'
        BY <1>0, <1>31, <2>1, TeardownKept DEF ReapPull, reaping
    <2>3. CreateOK'
        BY <1>0, <1>31, <2>1, CreateKept DEF ReapPull, reaping
    <2>4. PollOK'
        BY <1>0, <1>31, <2>1, PollKept DEF ReapPull, reaping
    <2>5. ReapOK'
        BY <1>0, <1>31, <2>1, ReapLearns, FaultType DEF ReapPull, reaping, ReapPCs, ReapOK,
            Steady, Down, Hows, Ended, ScratchStates, ReapTo
    <2>6. RecordOK'
        BY <1>0, <1>31, <2>1, RecordKept DEF ReapPull, reaping
    <2>. QED BY <2>2, <2>3, <2>4, <2>5, <2>6
<1>32. ASSUME ReapSettle PROVE Rest
    <2>1. Steady
        BY <1>0, <1>32, FaultType DEF ReapSettle, Steady, Down, Ended, Answered, reaping
    <2>2. TeardownOK'
        BY <1>0, <1>32, <2>1, TeardownKept DEF ReapSettle, reaping
    <2>3. CreateOK'
        BY <1>0, <1>32, <2>1, CreateKept DEF ReapSettle, reaping
    <2>4. PollOK'
        BY <1>0, <1>32, <2>1, PollKept DEF ReapSettle, reaping
    <2>5. ReapOK'
        <3>1. /\ reap.pc = "settle" /\ reap.e \in Execs
              /\ reap.todo \ {reap.e} \in SUBSET Execs
              /\ "sweep" \in ReapPCs /\ "blind" \in Hows
            BY <1>0, <1>32 DEF ReapSettle, ReapOK, Typed, Passes, ReapPCs, Hows
        <3>2. CASE reap' = [reap EXCEPT !.how = "blind"]
            <4>1. reap'.pc = "settle" /\ reap'.e = reap.e /\ reap'.how = "blind"
                BY <1>0, <3>1, <3>2, ReapFallsBack
            <4>. QED BY <3>1, <4>1 DEF ReapOK
        <3>3. CASE reap' = [reap EXCEPT !.pc = "sweep", !.todo = reap.todo \ {reap.e},
                                        !.e = "none", !.how = "none"]
            <4>1. reap'.pc = "sweep"
                BY <1>0, <3>1, <3>3, ReapIsDone
            <4>. QED BY <4>1 DEF ReapOK
        <3>. QED BY <1>32, <3>2, <3>3 DEF ReapSettle
    <2>6. RecordOK'
        <3>1. CASE exec' = exec
            BY <1>0, <2>1, <3>1, RecordKept
        <3>2. CASE Persist(reap.e, reap.how) /\ UNCHANGED faults
            <4>1. PICK x \in Execs, h \in {"lost", "blind"} \cup Ended :
                     /\ x = reap.e /\ h = reap.how
                     /\ h \in Ended => wk[x].state = h
                     /\ h = "lost" /\ faults = 0 => Cause(x)
                BY <1>0, <1>32, <3>2 DEF ReapSettle, reaping, ReapOK, Steady, Cause, Ended
            <4>2. Persist(x, h)
                BY <3>2, <4>1
            <4>. QED BY <1>0, <2>1, <4>1, <4>2, RecordWritten
        <3>. QED BY <1>32, <3>1, <3>2 DEF ReapSettle, reaping
    <2>. QED BY <2>2, <2>3, <2>4, <2>5, <2>6
<1>33. ASSUME ReapEnd PROVE Rest
    <2>1. Steady
        BY <1>0, <1>33 DEF ReapEnd, Steady, Down, Ended, Answered, reaping
    <2>2. TeardownOK'
        BY <1>0, <1>33, <2>1, TeardownKept DEF ReapEnd, reaping
    <2>3. CreateOK'
        BY <1>0, <1>33, <2>1, CreateKept DEF ReapEnd, reaping
    <2>4. PollOK'
        BY <1>0, <1>33, <2>1, PollKept DEF ReapEnd, reaping
    <2>5. ReapOK'
        BY <1>0, <1>33, <2>1, ReapStops DEF ReapEnd, reaping, ReapPCs, ReapOK, Steady, Down,
            Hows, Ended, ScratchStates, ReapTo
    <2>6. RecordOK'
        BY <1>0, <1>33, <2>1, RecordKept DEF ReapEnd, reaping
    <2>. QED BY <2>2, <2>3, <2>4, <2>5, <2>6
<1>34. ASSUME ReapCrash PROVE Rest
    <2>1. Steady
        BY <1>0, <1>34, FaultType DEF ReapCrash, Steady, Down, Ended, Answered, reaping
    <2>2. TeardownOK'
        BY <1>0, <1>34, <2>1, TeardownKept DEF ReapCrash, reaping
    <2>3. CreateOK'
        BY <1>0, <1>34, <2>1, CreateKept DEF ReapCrash, reaping
    <2>4. PollOK'
        BY <1>0, <1>34, <2>1, PollKept DEF ReapCrash, reaping
    <2>5. ReapOK'
        BY <1>0, <1>34, <2>1, ReapStops, FaultType DEF ReapCrash, reaping, ReapPCs, ReapOK,
            Steady, Down, Hows, Ended, ScratchStates, ReapTo
    <2>6. RecordOK'
        BY <1>0, <1>34, <2>1, RecordKept DEF ReapCrash, reaping
    <2>. QED BY <2>2, <2>3, <2>4, <2>5, <2>6
<1>35. ASSUME NEW d \in Deleters, DeleteMark(d) PROVE Rest
    <2>1. Steady
        BY <1>0, <1>35, DeleteGoes, StateIs DEF DeleteMark, Steady, Down, Ended, Answered,
            deleting, ScratchStates
    <2>2. TeardownOK'
        BY <1>0, <1>35, <2>1, DeleteGoes, StateIs DEF DeleteMark, deleting, TeardownOK, ReapOK,
            Steady, Down, ScratchStates, DeletePCs
    <2>3. CreateOK'
        BY <1>0, <1>35, <2>1, CreateKept DEF DeleteMark, deleting
    <2>4. PollOK'
        BY <1>0, <1>35, <2>1, PollKept DEF DeleteMark, deleting
    <2>5. ReapOK'
        BY <1>0, <1>35, <2>1, ReapKept DEF DeleteMark, deleting
    <2>6. RecordOK'
        BY <1>0, <1>35, <2>1, RecordKept DEF DeleteMark, deleting
    <2>. QED BY <2>2, <2>3, <2>4, <2>5, <2>6
<1>36. ASSUME NEW d \in Deleters, DeleteVM(d) PROVE Rest
    <2>1. Steady
        BY <1>0, <1>36, DeleteGoes, FaultType DEF DeleteVM, Steady, Down, Ended, Answered,
            deleting
    <2>2. TeardownOK'
        BY <1>0, <1>36, <2>1, DeleteGoes, FaultType DEF DeleteVM, deleting, TeardownOK, ReapOK,
            Steady, Down, ScratchStates, DeletePCs
    <2>3. CreateOK'
        BY <1>0, <1>36, <2>1, CreateKept DEF DeleteVM, deleting
    <2>4. PollOK'
        BY <1>0, <1>36, <2>1, PollKept DEF DeleteVM, deleting
    <2>5. ReapOK'
        BY <1>0, <1>36, <2>1, ReapKept DEF DeleteVM, deleting
    <2>6. RecordOK'
        BY <1>0, <1>36, <2>1, RecordKept DEF DeleteVM, deleting
    <2>. QED BY <2>2, <2>3, <2>4, <2>5, <2>6
<1>37. ASSUME NEW d \in Deleters, DeleteDone(d) PROVE Rest
    <2>1. Steady
        BY <1>0, <1>37, DeleteGoes, StateIs DEF DeleteDone, Steady, Down, Ended, Answered,
            deleting, ScratchStates
    <2>2. TeardownOK'
        BY <1>0, <1>37, <2>1, DeleteGoes, StateIs DEF DeleteDone, deleting, TeardownOK, ReapOK,
            Steady, Down, ScratchStates, DeletePCs
    <2>3. CreateOK'
        BY <1>0, <1>37, <2>1, CreateKept DEF DeleteDone, deleting
    <2>4. PollOK'
        BY <1>0, <1>37, <2>1, PollKept DEF DeleteDone, deleting
    <2>5. ReapOK'
        BY <1>0, <1>37, <2>1, ReapKept DEF DeleteDone, deleting
    <2>6. RecordOK'
        BY <1>0, <1>37, <2>1, RecordKept DEF DeleteDone, deleting
    <2>. QED BY <2>2, <2>3, <2>4, <2>5, <2>6
<1>38. ASSUME NEW d \in Deleters, DeleteStops(d) PROVE Rest
    <2>1. Steady
        BY <1>0, <1>38, DeleteGoes, FaultType DEF DeleteStops, Steady, Down, Ended, Answered,
            deleting
    <2>2. TeardownOK'
        BY <1>0, <1>38, <2>1, DeleteGoes, FaultType DEF DeleteStops, deleting, TeardownOK,
            ReapOK, Steady, Down, ScratchStates, DeletePCs
    <2>3. CreateOK'
        BY <1>0, <1>38, <2>1, CreateKept DEF DeleteStops, deleting
    <2>4. PollOK'
        BY <1>0, <1>38, <2>1, PollKept DEF DeleteStops, deleting
    <2>5. ReapOK'
        BY <1>0, <1>38, <2>1, ReapKept DEF DeleteStops, deleting
    <2>6. RecordOK'
        BY <1>0, <1>38, <2>1, RecordKept DEF DeleteStops, deleting
    <2>. QED BY <2>2, <2>3, <2>4, <2>5, <2>6
<1>39. CASE UNCHANGED vars
    <2>1. Steady
        BY <1>39 DEF vars, Steady, Down
    <2>. QED BY <1>0, <1>39, <2>1, TeardownKept, CreateKept, PollKept, ReapKept, RecordKept DEF vars
<1>. QED BY <1>1, <1>2, <1>3, <1>4, <1>5, <1>6, <1>7, <1>8, <1>9, <1>10, <1>11, <1>12, <1>13,
         <1>14, <1>15, <1>16, <1>17, <1>18, <1>19, <1>20, <1>21, <1>22, <1>23, <1>24, <1>25, <1>26,
         <1>27, <1>28, <1>29, <1>30, <1>31, <1>32, <1>33, <1>34, <1>35, <1>36, <1>37, <1>38, <1>39
         DEF Next, Create, Poll, ReapStep, Delete

\* The initial states satisfy the invariant.
LEMMA InitInv == ASSUME Init PROVE IndInv
<1>1. Typed
    <2>1. 0 \in Times /\ 0 \in 0 .. MaxFaults
        BY ScratchExecAssumption DEF Times
    <2>2. [state |-> "ready", lastUsed |-> 0, updated |-> 0] \in Scratches
        BY <2>1, Zenon DEF Scratches, ScratchStates
    <2>3. Absent \in ExecRecs
        <3>1. "absent" \in ExecStates /\ 0 \in {0, ObservedCode, KillCode}
              /\ 0 \in Timeouts \cup {0}
            BY DEF ExecStates
        <3>. QED BY <2>1, <3>1, Zenon DEF Absent, ExecRecs
    <2>4. [state |-> "none", at |-> 0, kept |-> TRUE] \in Entries
        BY <2>1, Zenon DEF Entries, WorkerStates
    <2>5. NoPoll \in Polls
        BY DEF NoPoll, Polls, PollPCs
    <2>. QED BY <2>1, <2>2, <2>3, <2>4, <2>5, NoPassIs
             DEF Init, Typed, CreatePCs, DeletePCs
<1>2. TypeOK
    BY <1>1, TypedIsTypeOK
<1>3. TeardownOK
    BY DEF Init, TeardownOK
<1>4. CreateOK
    BY DEF Init, CreateOK, CreateAt
<1>5. PollOK
    BY DEF Init, PollOK, PollAt, NoPoll
<1>6. ReapOK
    BY DEF Init, ReapOK, NoPass
<1>7. RecordOK
    BY DEF Init, RecordOK, FieldsMatchState, LostHasCause, Absent
<1>. QED BY <1>2, <1>3, <1>4, <1>5, <1>6, <1>7 DEF IndInv

LEMMA Inductive == Spec => []IndInv
<1>1. IndInv /\ [Next]_vars => IndInv'
    BY TypeStep, InvStep DEF IndInv
<1>. QED BY <1>1, InitInv, PTL DEF Spec

\* The records, the worker's entries and the places of the callers keep their
\* types: a caller is never at a step it has not the op for.
THEOREM TypeCorrect == Spec => []TypeOK
<1>1. IndInv => TypeOK
    BY DEF IndInv
<1>. QED BY <1>1, Inductive, PTL

\* Whoever of the four kinds of callers wrote an exec record last, its exit code
\* and its error agree with its state, and Completed only stands for a command
\* that exited: the fields finalFromStatus, finalize and the reaper set.
THEOREM FieldsMatch == Spec => []FieldsMatchState
<1>1. IndInv => FieldsMatchState
    BY DEF IndInv, RecordOK
<1>. QED BY <1>1, Inductive, PTL

\* Without faults, an exec is Lost only if its worker said so, its scratch is no
\* longer ready or gc has released the worker's entry.
THEOREM LostHasACause == Spec => []LostHasCause
<1>1. IndInv => LostHasCause
    BY DEF IndInv, RecordOK
<1>. QED BY <1>1, Inductive, PTL
-----------------------------------------------------------------------------
(* Time: what a record, an entry and a pass know of each other's age. *)

\* The create call has recorded the use of the scratch, or has settled the op.
Recorded == {"done", "wait", "waitfinal"}
PreTeardown == {"presync", "presync_final"}
Sweeping == {"sweep", "pull", "settle"}

\* No time stamp is ahead of the clock, and a worker's entry is no older than the
\* record of its op.
StampsOK ==
    /\ scratch.lastUsed <= scratch.updated /\ scratch.updated <= clock
    /\ reap.at <= clock /\ clock <= reap.at + ReapEvery
    /\ reap.pc # "idle" => clock <= reap.at + PassLasts
    /\ \A e \in Execs :
        /\ exec[e].created <= clock
        /\ create[e] \in {"idle", "insert"} => ~Pending(e)
        /\ wk[e].state # "none" => exec[e].created <= wk[e].at

\* What a pass knows of the pending ops from its snapshot: those in it are bounded and
\* late once the pass has found the scratch idle; the others were created since
\* the pass began, and so was the use of the scratch that they record.
SnapshotOK ==
    reap.pc # "idle" => \A e \in Execs :
        /\ e \in reap.pending =>
            /\ create[e] \notin {"idle", "insert"}
            /\ reap.pc \in PreTeardown => ~Unbounded(e) /\ Deadline(e) <= reap.at
        /\ e \notin reap.pending /\ Pending(e) /\ create[e] \in Recorded =>
            reap.at <= scratch.lastUsed

\* A pass leaves no op pending whose deadline it has seen pass.
SweepOK ==
    faults = 0 => \A e \in Execs : Pending(e) /\ ~Unbounded(e) =>
        /\ reap.at <= Deadline(e) + ReapEvery
        /\ reap.pc = "idle" => reap.at <= Deadline(e)
        /\ reap.pc \in Sweeping => reap.at <= Deadline(e) \/ e \in reap.todo

\* What one step may do to the record of an op, to its entry, its create call, the
\* scratch record, the pass and the clock.
RecordMoves(e) ==
    \/ exec'[e] = exec[e]
    \/ /\ exec'[e].state # "pending"
       /\ exec'[e].created = exec[e].created /\ exec'[e].timeout = exec[e].timeout
    \/ create[e] = "insert" /\ create'[e] = "start" /\ exec'[e].created = clock

EntryMoves(e) ==
    \/ /\ wk'[e].state = "none" <=> wk[e].state = "none"
       /\ wk'[e].at = wk[e].at
       /\ wk[e].kept => wk'[e].kept \/ Lapsed(e)
    \/ wk'[e].at = clock /\ wk'[e].kept /\ exec'[e] = exec[e]

CallMoves(e) ==
    /\ create'[e] \in {"idle", "insert"} => create[e] \in {"idle", "insert"}
    /\ create'[e] \in Recorded =>
        create[e] \in Recorded \/ scratch'.lastUsed = clock \/ exec'[e].state # "pending"

ScratchMoves ==
    \/ scratch' = scratch
    \/ scratch'.updated = clock /\ scratch'.lastUsed \in {scratch.lastUsed, clock}

PassBegins ==
    /\ reap.pc = "idle" /\ reap'.pc = "idle_list"
    /\ reap'.at = clock /\ reap'.pending = PendingExecs /\ exec' = exec /\ create' = create

PassGoesOn ==
    /\ reap.pc # "idle" /\ reap'.at = reap.at
    /\ reap'.pc # "idle" => reap'.pending = reap.pending
    /\ reap'.pc \in PreTeardown => reap.pc \in PreTeardown \/ (~Busy /\ exec' = exec)
    /\ faults' = 0 =>
        /\ reap'.pc = "idle" => reap.pc = "sweep" /\ reap.todo = {}
        /\ reap'.pc \in Sweeping =>
            \/ exec' = exec /\ reap'.todo = PendingExecs
            \/ /\ reap.pc \in Sweeping
               /\ \A e \in reap.todo \ reap'.todo : ~Expired(e) \/ exec'[e].state # "pending"

Moves ==
    /\ \A e \in Execs : RecordMoves(e) /\ EntryMoves(e) /\ CallMoves(e)
    /\ ScratchMoves
    /\ reap' = reap \/ PassBegins \/ PassGoesOn
    /\ clock' = clock
    /\ faults' = 0 => faults = 0

LEMMA OthersMove ==
    ASSUME Typed, exec' = exec, NEW e \in Execs
    PROVE  RecordMoves(e)
    BY DEF RecordMoves

LEMMA WritesMove ==
    ASSUME Typed, NEW x \in Execs, NEW how \in {"lost", "blind"} \cup Ended, Persist(x, how)
    PROVE  /\ \A e \in Execs : RecordMoves(e)
           /\ exec'[x].state # "pending"
<1>1. exec'[x].state # "pending"
    BY PersistIs, Zenon DEF Ended
<1>2. /\ \A e \in Execs : e # x => exec'[e] = exec[e]
      /\ exec'[x].created = exec[x].created /\ exec'[x].timeout = exec[x].timeout
    BY PersistIs
<1>. QED BY <1>1, <1>2 DEF RecordMoves

LEMMA EntriesKept ==
    ASSUME wk' = wk
    PROVE  \A e \in Execs : EntryMoves(e)
    BY DEF EntryMoves

LEMMA CallsKept ==
    ASSUME create' = create
    PROVE  \A e \in Execs : CallMoves(e)
    BY DEF CallMoves

\* The create call of x moves on to where; the others stay.
LEMMA CallsMove ==
    ASSUME Typed, NEW x \in Execs, NEW where \in CreatePCs \ {"idle"},
           create' = [create EXCEPT ![x] = where],
           where = "insert" => create[x] = "idle",
           where \in Recorded =>
              create[x] \in Recorded \/ scratch'.lastUsed = clock \/ exec'[x].state # "pending"
    PROVE  \A e \in Execs : CallMoves(e)
<1>1. create'[x] = where /\ \A e \in Execs : e # x => create'[e] = create[e]
    BY CreateIs
<1>. QED BY <1>1 DEF CallMoves

\* The dispatch of x: the entries of the others may be collected.
LEMMA EntriesMove ==
    ASSUME Typed, NEW x \in Execs, wk' = Dispatched(x), exec' = exec
    PROVE  \A e \in Execs : EntryMoves(e)
<1>1. EntryMoves(x)
    BY DispatchedIs DEF EntryMoves
<1>2. ASSUME NEW e \in Execs, e # x PROVE EntryMoves(e)
    BY <1>2, DispatchedIs DEF EntryMoves
<1>. QED BY <1>1, <1>2

\* The steps of the worker and of the create calls.
LEMMA CreateStepMoves ==
    ASSUME IndInv, NEW x \in Execs,
           WorkerEnds(x) \/ WorkerKills(x) \/ Create(x) \/ CreateCrash(x)
    PROVE  Moves
<1>0. Typed
    BY TypedIsTypeOK DEF IndInv
<1>1. CASE WorkerEnds(x) \/ WorkerKills(x)
    <2>1. PICK how \in Ended : wk' = [wk EXCEPT ![x].state = how]
        BY <1>1 DEF WorkerEnds, WorkerKills, Ended
    <2>2. wk[x].state = "running"
        BY <1>1 DEF WorkerEnds, WorkerKills
    <2>3. \A e \in Execs : EntryMoves(e)
        BY <1>0, <2>1, <2>2, EndsIs DEF EntryMoves, Ended
    <2>. QED BY <1>0, <1>1, <2>3, OthersMove, CallsKept
             DEF WorkerEnds, WorkerKills, Moves, ScratchMoves
<1>2. CASE CreateCheck(x)
    <2>1. PICK where \in {"insert", "gone"} : create' = [create EXCEPT ![x] = where]
        BY <1>2 DEF CreateCheck
    <2>2. \A e \in Execs : CallMoves(e)
        BY <1>0, <1>2, <2>1, CallsMove DEF CreateCheck, CreatePCs, Over, Recorded
    <2>. QED BY <1>0, <1>2, <2>2, OthersMove, EntriesKept
             DEF CreateCheck, creating, Moves, ScratchMoves
<1>3. CASE CreateInsert(x)
    <2>1. \A e \in Execs : CallMoves(e)
        BY <1>0, <1>3, CallsMove DEF CreateInsert, CreatePCs, Recorded
    <2>2. create'[x] = "start"
        BY <1>0, <1>3, CreateIs DEF CreateInsert, CreatePCs
    <2>3. PICK t \in Timeouts :
            exec' = [exec EXCEPT ![x] = [Absent EXCEPT !.state = "pending",
                                                       !.created = clock, !.timeout = t]]
        BY <1>3 DEF CreateInsert
    <2>4. exec'[x].created = clock /\ \A e \in Execs : e # x => exec'[e] = exec[e]
        BY <1>0, <2>3, InsertIs
    <2>5. \A e \in Execs : RecordMoves(e)
        BY <1>3, <2>2, <2>4 DEF CreateInsert, RecordMoves
    <2>. QED BY <1>3, <2>1, <2>5, EntriesKept
             DEF CreateInsert, creating, Moves, ScratchMoves
<1>4. CASE CreateStart(x)
    <2>1. \A e \in Execs : CallMoves(e)
        BY <1>0, <1>4, CallsMove DEF CreateStart, CreatePCs, Recorded
    <2>2. \A e \in Execs : EntryMoves(e)
        BY <1>0, <1>4, EntriesMove DEF CreateStart
    <2>. QED BY <1>0, <1>4, <2>1, <2>2, OthersMove
             DEF CreateStart, creating, Moves, ScratchMoves
<1>5. CASE CreateStartFails(x)
    <2>1. \A e \in Execs : CallMoves(e)
        BY <1>0, <1>5, CallsMove DEF CreateStartFails, CreatePCs, Recorded
    <2>2. \A e \in Execs : EntryMoves(e)
        BY <1>0, <1>5, EntriesMove, EntriesKept DEF CreateStartFails
    <2>. QED BY <1>0, <1>5, <2>1, <2>2, OthersMove, FaultType
             DEF CreateStartFails, creating, Moves, ScratchMoves
<1>6. CASE CreateFinalize(x) \/ CreateWaitFinal(x)
    <2>1. CASE \E how \in {"lost", "blind"} \cup Ended, where \in {"done", "unrecorded"} :
                  Persist(x, how) /\ create' = [create EXCEPT ![x] = where] /\ faults' = faults
        <3>1. \A e \in Execs : CallMoves(e)
            BY <1>0, <2>1, CallsMove, WritesMove DEF CreatePCs, Over, Answered
        <3>2. \A e \in Execs : RecordMoves(e)
            BY <1>0, <2>1, WritesMove
        <3>. QED BY <1>6, <2>1, <3>1, <3>2, EntriesKept
                 DEF CreateFinalize, CreateWaitFinal, creating, Moves, ScratchMoves
    <2>2. CASE Fault("rpc") /\ exec' = exec
        <3>1. \A e \in Execs : CallMoves(e)
            BY <1>0, <1>6, <2>2, CallsMove, WritesMove
               DEF CreateFinalize, CreateWaitFinal, CreatePCs, Over, Recorded, Answered
        <3>. QED BY <1>0, <1>6, <2>2, <3>1, EntriesKept, OthersMove, FaultType
                 DEF CreateFinalize, CreateWaitFinal, creating, Moves, ScratchMoves
    <2>3. create[x] \in {"waitfinal", "finalblind"} => wk[x].state \in Ended
        BY DEF IndInv, CreateOK, CreateAt
    <2>. QED BY <1>6, <2>1, <2>2, <2>3 DEF CreateFinalize, CreateWaitFinal
<1>7. CASE CreateBump(x)
    <2>1. ScratchMoves
        BY <1>0, <1>7, BumpIs DEF CreateBump, ScratchMoves
    <2>2. \A e \in Execs : CallMoves(e)
        BY <1>0, <1>7, BumpIs, CallsMove DEF CreateBump, CreatePCs, Over, Answered, Recorded
    <2>. QED BY <1>0, <1>7, <2>1, <2>2, OthersMove, EntriesKept, FaultType
             DEF CreateBump, creating, Moves
<1>8. CASE CreateWait(x)
    <2>1. \A e \in Execs : CallMoves(e)
        BY <1>0, <1>8, CallsMove DEF CreateWait, CreatePCs, Over, Answered, Recorded
    <2>. QED BY <1>0, <1>8, <2>1, OthersMove, EntriesKept
             DEF CreateWait, creating, Moves, ScratchMoves
<1>9. CASE CreateCrash(x)
    <2>1. \A e \in Execs : CallMoves(e)
        BY <1>0, <1>9, CallsMove DEF CreateCrash, CreatePCs, Over, Recorded
    <2>. QED BY <1>0, <1>9, <2>1, OthersMove, EntriesKept, FaultType
             DEF CreateCrash, creating, Moves, ScratchMoves
<1>. QED BY <1>1, <1>2, <1>3, <1>4, <1>5, <1>6, <1>7, <1>8, <1>9 DEF Create

\* The steps of the polls and of the deletes.
LEMMA PollStepMoves ==
    ASSUME IndInv, NEW p \in Pollers, Poll(p) \/ PollCrash(p)
    PROVE  Moves
<1>0. Typed
    BY TypedIsTypeOK DEF IndInv
<1>1. wk' = wk /\ create' = create /\ reap' = reap /\ clock' = clock
    BY DEF Poll, PollCrash, PollGet, PollScratch, PollStatus, PollSyncFails, PollFinal,
           PollBump, PollLose, polling
<1>2. faults' = 0 => faults = 0
    BY <1>0, FaultType
       DEF Poll, PollCrash, PollGet, PollScratch, PollStatus, PollSyncFails, PollFinal,
           PollBump, PollLose
<1>3. ScratchMoves
    BY <1>0, BumpIs
       DEF Poll, PollCrash, PollGet, PollScratch, PollStatus, PollSyncFails, PollFinal,
           PollBump, PollLose, ScratchMoves
<1>4. \A e \in Execs : RecordMoves(e)
    <2>1. CASE exec' = exec
        BY <1>0, <2>1, OthersMove
    <2>2. CASE PollFinal(p) \/ (PollLose(p) /\ exec' # exec)
        <3>1. poll[p].e \in Execs /\ (poll[p].pc = "final" => wk[poll[p].e].state \in Ended)
            BY <2>2 DEF IndInv, PollOK, PollAt, PollFinal, PollLose
        <3>2. PICK x \in Execs, how \in {"lost", "blind"} \cup Ended : Persist(x, how)
            BY <2>2, <3>1 DEF PollFinal, PollLose
        <3>. QED BY <1>0, <3>2, WritesMove
    <2>. QED BY <2>1, <2>2 DEF Poll, PollCrash, PollGet, PollScratch, PollStatus,
                PollSyncFails, PollBump
<1>. QED BY <1>1, <1>2, <1>3, <1>4, EntriesKept, CallsKept DEF Moves

LEMMA DeleteStepMoves ==
    ASSUME IndInv, NEW d \in Deleters, Delete(d) \/ DeleteStops(d)
    PROVE  Moves
<1>0. Typed
    BY TypedIsTypeOK DEF IndInv
<1>1. /\ wk' = wk /\ create' = create /\ reap' = reap /\ clock' = clock /\ exec' = exec
      /\ faults' = 0 => faults = 0
    BY <1>0, FaultType DEF Delete, DeleteStops, DeleteMark, DeleteVM, DeleteDone, deleting
<1>2. ScratchMoves
    BY <1>0, StateIs DEF Delete, DeleteStops, DeleteMark, DeleteVM, DeleteDone,
       ScratchMoves, ScratchStates
<1>. QED BY <1>0, <1>1, <1>2, OthersMove, EntriesKept, CallsKept DEF Moves

\* The steps of a pass.
LEMMA PassMoves ==
    ASSUME IndInv, ReapBegin \/ ReapStep \/ ReapCrash
    PROVE  reap' = reap \/ PassBegins \/ PassGoesOn
<1>. DEFINE Moved == PassBegins \/ PassGoesOn
<1>0. Typed /\ ReapOK /\ PendingExecs \in SUBSET Execs
    BY TypedIsTypeOK DEF IndInv, PendingExecs
<1>1. CASE ReapBegin
    <2>1. reap'.pc = "idle_list" /\ reap'.at = clock /\ reap'.pending = PendingExecs
        BY <1>0, <1>1, ReapStarts DEF ReapBegin
    <2>. QED BY <1>1, <2>1 DEF ReapBegin, reaping, PassBegins
<1>2. CASE ReapIdleList
    <2>0. exec' = exec /\ reap.pc = "idle_list" /\ scratch.state \in ScratchStates
          /\ reap.pending \in SUBSET Execs
        BY <1>0, <1>2 DEF ReapIdleList, Typed, Scratches, Passes
    <2>1. CASE IdleAt(reap.at) /\ ~Busy
        <3>1. /\ reap'.pc = "presync" /\ reap'.at = reap.at /\ reap'.pending = reap.pending
            BY <1>0, <1>2, <2>0, <2>1, ReapLists DEF ReapIdleList, ReapPCs
        <3>. QED BY <2>0, <2>1, <3>1 DEF PassGoesOn, Sweeping
    <2>2. CASE ~(IdleAt(reap.at) /\ ~Busy)
        <3>1. ReapTo("sweep_list")
            BY <1>2, <2>2 DEF ReapIdleList, ReapTo
        <3>2. reap'.pc = "sweep_list" /\ reap'.at = reap.at /\ reap'.pending = reap.pending
            BY <1>0, <3>1, ReapGoes DEF ReapPCs
        <3>. QED BY <2>0, <3>2 DEF PassGoesOn, Sweeping, PreTeardown
    <2>. QED BY <2>1, <2>2
<1>3. ASSUME NEW e \in Execs, ReapPresync(e) PROVE PassGoesOn
    <2>1. /\ reap.pc = "presync" /\ reap.todo \ {e} \in SUBSET Execs
          /\ "presync_final" \in ReapPCs /\ wk[e].state \in WorkerStates
        BY <1>0, <1>3 DEF ReapPresync, Typed, Passes, ReapPCs, Entries
    <2>2. CASE /\ wk[e].state \in Ended
               /\ reap' = [reap EXCEPT !.pc = "presync_final", !.e = e, !.how = wk[e].state]
        <3>1. /\ reap'.pc = "presync_final" /\ reap'.at = reap.at
              /\ reap'.pending = reap.pending
            BY <1>0, <2>1, <2>2, ReapTakesKnown DEF Hows
        <3>. QED BY <2>1, <3>1 DEF PassGoesOn, Sweeping, PreTeardown
    <2>3. CASE reap' = [reap EXCEPT !.todo = reap.todo \ {e}]
        <3>1. reap'.pc = "presync" /\ reap'.at = reap.at /\ reap'.pending = reap.pending
            BY <1>0, <2>1, <2>3, ReapSkips
        <3>. QED BY <2>1, <3>1 DEF PassGoesOn, Sweeping, PreTeardown
    <2>. QED BY <1>3, <2>2, <2>3 DEF ReapPresync
<1>4. CASE ReapPresyncFinal
    <2>1. /\ reap.pc = "presync_final" /\ reap.todo \ {reap.e} \in SUBSET Execs
          /\ reap' = [reap EXCEPT !.pc = "presync", !.todo = reap.todo \ {reap.e},
                                  !.e = "none", !.how = "none"]
        BY <1>0, <1>4 DEF ReapPresyncFinal, Typed, Passes
    <2>2. reap'.pc = "presync" /\ reap'.at = reap.at /\ reap'.pending = reap.pending
        BY <1>0, <2>1, ReapIsDone DEF ReapPCs
    <2>. QED BY <2>1, <2>2 DEF PassGoesOn, Sweeping, PreTeardown
<1>5. CASE ReapRecheck \/ ReapMark \/ ReapDeleteVM \/ ReapDeleted
    <2>1. /\ reap.pc \in {"presync", "mark", "delete_vm", "deleted"}
          /\ \E where \in {"mark", "delete_vm", "deleted", "sweep_list"} : ReapTo(where)
        BY <1>5 DEF ReapRecheck, ReapMark, ReapDeleteVM, ReapDeleted, ReapTo
    <2>2. /\ reap'.pc \in {"mark", "delete_vm", "deleted", "sweep_list"}
          /\ reap'.at = reap.at /\ reap'.pending = reap.pending
        BY <1>0, <2>1, ReapGoes DEF ReapPCs
    <2>. QED BY <2>1, <2>2 DEF PassGoesOn, Sweeping, PreTeardown
<1>6. CASE ReapSweepList
    <2>1. /\ reap'.pc = "sweep" /\ reap'.todo = PendingExecs
          /\ reap'.at = reap.at /\ reap'.pending = reap.pending
        BY <1>0, <1>6, ReapLeaves DEF ReapSweepList, ReapPCs
    <2>. QED BY <1>6, <2>1 DEF ReapSweepList, reaping, PassGoesOn, PreTeardown
<1>7. ASSUME NEW e \in Execs, ReapDecide(e) PROVE PassGoesOn
    <2>1. /\ reap.pc = "sweep" /\ reap.todo \ {e} \in SUBSET Execs
          /\ {"pull", "settle"} \subseteq ReapPCs /\ {"blind", "lost"} \subseteq Hows
        BY <1>0, <1>7 DEF ReapDecide, Typed, Passes, ReapPCs, Hows
    <2>2. CASE reap' = [reap EXCEPT !.pc = "pull", !.e = e]
        <3>1. /\ reap'.pc = "pull" /\ reap'.at = reap.at
              /\ reap'.pending = reap.pending /\ reap'.todo = reap.todo
            BY <1>0, <2>1, <2>2, ReapTakes
        <3>. QED BY <2>1, <3>1 DEF PassGoesOn, Sweeping, PreTeardown
    <2>4. ASSUME NEW how \in {"blind", "lost"},
                 reap' = [reap EXCEPT !.pc = "settle", !.e = e, !.how = how]
          PROVE  PassGoesOn
        <3>1. /\ reap'.pc = "settle" /\ reap'.at = reap.at
              /\ reap'.pending = reap.pending /\ reap'.todo = reap.todo
            BY <1>0, <2>1, <2>4, ReapTakesKnown
        <3>. QED BY <2>1, <3>1 DEF PassGoesOn, Sweeping, PreTeardown
    <2>3. CASE ~Expired(e) /\ reap' = [reap EXCEPT !.todo = reap.todo \ {e}]
        <3>1. /\ reap'.pc = "sweep" /\ reap'.at = reap.at
              /\ reap'.pending = reap.pending /\ reap'.todo = reap.todo \ {e}
            BY <1>0, <2>1, <2>3, ReapSkips
        <3>. QED BY <2>1, <2>3, <3>1 DEF PassGoesOn, Sweeping, PreTeardown
    <2>. QED BY <1>7, <2>2, <2>3, <2>4 DEF ReapDecide
<1>8. CASE ReapPull
    <2>1. reap.pc = "pull" /\ wk[reap.e].state \in WorkerStates
        BY <1>0, <1>8 DEF ReapPull, ReapOK, Typed, Entries
    <2>2. PICK how \in Hows : reap' = [reap EXCEPT !.pc = "settle", !.how = how]
        BY <1>8 DEF ReapPull, Hows, Ended
    <2>3. /\ reap'.pc = "settle" /\ reap'.at = reap.at
          /\ reap'.pending = reap.pending /\ reap'.todo = reap.todo
        BY <1>0, <2>2, ReapLearns DEF ReapPCs
    <2>. QED BY <2>1, <2>3 DEF PassGoesOn, Sweeping, PreTeardown
<1>9. CASE ReapSettle
    <2>1. /\ reap.pc = "settle" /\ reap.e \in Execs
          /\ reap.todo \ {reap.e} \in SUBSET Execs
          /\ reap.how \in {"lost", "blind"} \cup Ended
        BY <1>0, <1>9 DEF ReapSettle, ReapOK, Typed, Passes
    <2>2. CASE reap' = [reap EXCEPT !.how = "blind"]
        <3>1. /\ reap'.pc = "settle" /\ reap'.at = reap.at
              /\ reap'.pending = reap.pending /\ reap'.todo = reap.todo
            BY <1>0, <2>1, <2>2, ReapFallsBack DEF Hows
        <3>. QED BY <2>1, <3>1 DEF PassGoesOn, Sweeping, PreTeardown
    <2>3. CASE /\ Persist(reap.e, reap.how) \/ Fault("rpc")
               /\ reap' = [reap EXCEPT !.pc = "sweep", !.todo = reap.todo \ {reap.e},
                                       !.e = "none", !.how = "none"]
        <3>1. /\ reap'.pc = "sweep" /\ reap'.at = reap.at
              /\ reap'.pending = reap.pending /\ reap'.todo = reap.todo \ {reap.e}
            BY <1>0, <2>1, <2>3, ReapIsDone DEF ReapPCs
        <3>2. faults' = 0 => exec'[reap.e].state # "pending"
            BY <1>0, <2>1, <2>3, WritesMove, FaultType
        <3>. QED BY <2>1, <3>1, <3>2 DEF PassGoesOn, Sweeping, PreTeardown
    <2>. QED BY <1>9, <2>2, <2>3 DEF ReapSettle
<1>10. CASE ReapEnd
    <2>1. reap'.pc = "idle" /\ reap'.at = reap.at
        BY <1>0, <1>10, ReapStops DEF ReapEnd
    <2>. QED BY <1>10, <2>1 DEF ReapEnd, PassGoesOn, Sweeping, PreTeardown
<1>11. CASE ReapCrash
    <2>1. reap'.pc = "idle" /\ reap'.at = reap.at
        BY <1>0, <1>11, ReapStops DEF ReapCrash
    <2>2. ~(faults' = 0)
        BY <1>0, <1>11, FaultType DEF ReapCrash
    <2>. QED BY <1>11, <2>1, <2>2 DEF ReapCrash, PassGoesOn, PreTeardown
<1>. QED BY <1>1, <1>2, <1>3, <1>4, <1>5, <1>6, <1>7, <1>8, <1>9, <1>10, <1>11 DEF ReapStep

LEMMA ReapStepMoves ==
    ASSUME IndInv, ReapBegin \/ ReapStep \/ ReapCrash
    PROVE  Moves
<1>0. Typed /\ ReapOK
    BY TypedIsTypeOK DEF IndInv
<1>. USE DEF ReapStep, ReapBegin, ReapIdleList, ReapPresync, ReapPresyncFinal, ReapRecheck,
         ReapMark, ReapDeleteVM, ReapDeleted, ReapSweepList, ReapDecide, ReapPull, ReapSettle,
         ReapEnd, ReapCrash
<1>1. wk' = wk /\ create' = create /\ clock' = clock
    BY DEF reaping
<1>2. faults' = faults \/ \E kind \in AllFaults : Fault(kind)
    BY DEF AllFaults
<1>3. ScratchMoves
    <2>1. CASE scratch' = scratch
        BY <2>1 DEF ScratchMoves
    <2>2. CASE SetState("deleting") \/ SetState("deleted")
        BY <1>0, <2>2, StateIs DEF ScratchMoves, ScratchStates
    <2>. QED BY <2>1, <2>2
<1>4. \A e \in Execs : RecordMoves(e)
    <2>1. CASE exec' = exec
        BY <1>0, <2>1, OthersMove
    <2>2. CASE /\ reap.pc \in {"presync_final", "settle"}
               /\ Persist(reap.e, reap.how)
        <3>1. PICK x \in Execs, how \in {"lost", "blind"} \cup Ended : Persist(x, how)
            BY <1>0, <2>2 DEF ReapOK
        <3>. QED BY <1>0, <3>1, WritesMove
    <2>. QED BY <2>1, <2>2
<1>. HIDE DEF ReapStep, ReapBegin, ReapCrash
<1>5. faults' = 0 => faults = 0
    BY <1>0, <1>2, FaultType
<1>. QED BY <1>1, <1>3, <1>4, <1>5, PassMoves, EntriesKept, CallsKept DEF Moves

LEMMA StepMoves ==
    ASSUME IndInv, Next
    PROVE  Tick \/ Moves
    BY CreateStepMoves, PollStepMoves, DeleteStepMoves, ReapStepMoves DEF Next

LEMMA TimesAre ==
    ASSUME Typed
    PROVE  /\ clock \in Int /\ scratch.lastUsed \in Int /\ scratch.updated \in Int
           /\ reap.at \in Int /\ reap.pending \in SUBSET Execs /\ reap.todo \in SUBSET Execs
           /\ \A e \in Execs :
                /\ exec[e].created \in Int /\ exec[e].timeout \in Nat /\ wk[e].at \in Int
                /\ Deadline(e) \in Int /\ exec[e].created <= Deadline(e)
<1>1. clock \in Int /\ scratch \in Scratches /\ reap \in Passes
    BY DEF Typed, Times
<1>2. scratch.lastUsed \in Int /\ scratch.updated \in Int
    BY <1>1 DEF Scratches, Times
<1>3. reap.at \in Int /\ reap.pending \in SUBSET Execs /\ reap.todo \in SUBSET Execs
    BY <1>1 DEF Passes, Times
<1>4. ASSUME NEW e \in Execs
      PROVE  /\ exec[e].created \in Int /\ exec[e].timeout \in Nat /\ wk[e].at \in Int
             /\ Deadline(e) \in Int /\ exec[e].created <= Deadline(e)
    <2>1. exec[e] \in ExecRecs /\ wk[e] \in Entries
        BY DEF Typed
    <2>2. exec[e].created \in Times /\ exec[e].timeout \in Timeouts \cup {0}
        BY <2>1 DEF ExecRecs
    <2>5. Timeouts \cup {0} \subseteq Nat
        BY ScratchExecAssumption
    <2>4. exec[e].created \in Int /\ exec[e].timeout \in Nat
        BY <2>2, <2>5 DEF Times
    <2>3. wk[e].at \in Int
        BY <2>1 DEF Entries, Times
    <2>. QED BY <2>3, <2>4, ScratchExecAssumption DEF Deadline
<1>. QED BY <1>1, <1>2, <1>3, <1>4

TimeInv == IndInv /\ StampsOK /\ SnapshotOK /\ SweepOK

LEMMA StampsStep ==
    ASSUME TimeInv, IndInv', Moves
    PROVE  StampsOK'
<1>0. Typed /\ Typed' /\ StampsOK /\ clock' = clock
    BY TypedIsTypeOK DEF TimeInv, IndInv, Moves
<1>1. scratch'.lastUsed <= scratch'.updated /\ scratch'.updated <= clock'
    BY <1>0, TimesAre DEF StampsOK, Moves, ScratchMoves
<1>2. /\ reap'.at <= clock' /\ clock' <= reap'.at + ReapEvery
      /\ reap'.pc # "idle" => clock' <= reap'.at + PassLasts
    BY <1>0, TimesAre, ScratchExecAssumption DEF StampsOK, Moves, PassBegins, PassGoesOn
<1>3. ASSUME NEW e \in Execs
      PROVE  /\ exec'[e].created <= clock'
             /\ create'[e] \in {"idle", "insert"} => exec'[e].state # "pending"
             /\ wk'[e].state # "none" => exec'[e].created <= wk'[e].at
    <2>1. RecordMoves(e) /\ EntryMoves(e) /\ CallMoves(e)
        BY DEF Moves
    <2>2. create'[e] = "start" => wk'[e].state = "none"
        BY DEF IndInv, CreateOK, CreateAt
    <2>3. exec'[e].created <= clock'
        BY <1>0, <2>1, TimesAre DEF RecordMoves, StampsOK
    <2>4. create'[e] \in {"idle", "insert"} => exec'[e].state # "pending"
        BY <1>0, <2>1 DEF RecordMoves, CallMoves, StampsOK, Pending
    <2>5. ASSUME wk'[e].state # "none" PROVE exec'[e].created <= wk'[e].at
        <3>1. CASE exec'[e].created = exec[e].created
            BY <1>0, <2>1, <2>5, <3>1, TimesAre DEF EntryMoves, StampsOK
        <3>2. CASE create'[e] = "start"
            BY <2>2, <2>5, <3>2
        <3>. QED BY <2>1, <3>1, <3>2 DEF RecordMoves
    <2>. QED BY <2>3, <2>4, <2>5
<1>. QED BY <1>1, <1>2, <1>3 DEF StampsOK, Pending

LEMMA SnapshotStep ==
    ASSUME TimeInv, IndInv', Moves
    PROVE  SnapshotOK'
<1>0. Typed /\ Typed' /\ StampsOK /\ StampsOK' /\ SnapshotOK /\ clock' = clock
    BY TypedIsTypeOK, StampsStep DEF TimeInv, IndInv, Moves
<1>. SUFFICES ASSUME reap'.pc # "idle", NEW e \in Execs
              PROVE  /\ e \in reap'.pending =>
                        /\ create'[e] \notin {"idle", "insert"}
                        /\ reap'.pc \in PreTeardown =>
                            exec'[e].timeout # 0 /\ Deadline(e)' <= reap'.at
                     /\ e \notin reap'.pending /\ Pending(e)' /\ create'[e] \in Recorded =>
                            reap'.at <= scratch'.lastUsed
    BY DEF SnapshotOK, Unbounded
<1>1. RecordMoves(e) /\ CallMoves(e) /\ ScratchMoves
    BY DEF Moves
<1>2. CASE PassBegins
    BY <1>0, <1>2 DEF PassBegins, PendingExecs, StampsOK, Pending, PreTeardown
<1>3. CASE reap.pc # "idle" /\ reap'.at = reap.at /\ reap'.pending = reap.pending
    <2>1. ASSUME e \in reap.pending
          PROVE  create'[e] \notin {"idle", "insert"}
        BY <1>0, <1>1, <1>3, <2>1 DEF SnapshotOK, CallMoves
    <2>2. ASSUME e \in reap.pending, reap'.pc \in PreTeardown
          PROVE  exec'[e].timeout # 0 /\ Deadline(e)' <= reap'.at
        <3>1. exec'[e].created = exec[e].created /\ exec'[e].timeout = exec[e].timeout
            BY <1>0, <1>1, <1>3, <2>2 DEF SnapshotOK, RecordMoves
        <3>2. reap.pc \in PreTeardown \/ ~Busy
            BY <2>2 DEF Moves, PassGoesOn, PassBegins, PreTeardown
        <3>3. ~Unbounded(e) /\ Deadline(e) <= reap.at
            BY <1>0, <1>3, <2>2, <3>2, TimesAre DEF SnapshotOK, Busy
        <3>. QED BY <1>3, <3>1, <3>3 DEF Unbounded, Deadline
    <2>3. ASSUME e \notin reap.pending, Pending(e)', create'[e] \in Recorded
          PROVE  reap'.at <= scratch'.lastUsed
        <3>1. CASE create[e] \in Recorded
            <4>1. Pending(e)
                BY <1>1, <2>3, <3>1 DEF RecordMoves, Pending, Recorded
            <4>2. reap.at <= scratch.lastUsed
                BY <1>0, <1>3, <2>3, <3>1, <4>1 DEF SnapshotOK
            <4>. QED BY <1>0, <1>1, <1>3, <4>2, TimesAre DEF ScratchMoves, StampsOK
        <3>2. CASE scratch'.lastUsed = clock
            BY <1>0, <1>3, <3>2 DEF StampsOK
        <3>. QED BY <1>1, <2>3, <3>1, <3>2 DEF CallMoves, Pending
    <2>. QED BY <1>3, <2>1, <2>2, <2>3
<1>. QED BY <1>2, <1>3 DEF Moves, PassGoesOn

LEMMA SweepStep ==
    ASSUME TimeInv, IndInv', Moves
    PROVE  SweepOK'
<1>0. /\ Typed /\ Typed' /\ StampsOK /\ StampsOK' /\ SweepOK /\ clock' = clock
      /\ reap'.at \in Int /\ reap.at \in Int /\ clock \in Int
    <2>1. Typed /\ Typed' /\ StampsOK /\ StampsOK' /\ SweepOK /\ clock' = clock
        BY TypedIsTypeOK, StampsStep DEF TimeInv, IndInv, Moves
    <2>2. reap.at \in Int /\ clock \in Int
        BY <2>1, TimesAre
    <2>3. reap'.at \in Int
        BY <2>1, <2>2 DEF Moves, PassBegins, PassGoesOn
    <2>. QED BY <2>1, <2>2, <2>3
<1>. SUFFICES ASSUME faults' = 0, NEW e \in Execs, Pending(e)', ~Unbounded(e)'
              PROVE  /\ reap'.at <= Deadline(e)' + ReapEvery
                     /\ reap'.pc = "idle" => reap'.at <= Deadline(e)'
                     /\ reap'.pc \in Sweeping => reap'.at <= Deadline(e)' \/ e \in reap'.todo
    BY DEF SweepOK
<1>1. RecordMoves(e) /\ faults = 0 /\ ReapEvery \in Nat
    BY ScratchExecAssumption DEF Moves
<1>2. CASE exec'[e].created = clock
    <2>1. Deadline(e)' \in Int /\ clock <= Deadline(e)'
        <3>1. /\ Deadline(e)' = clock + exec'[e].timeout + Grace /\ Grace \in Nat
              /\ exec'[e] \in ExecRecs
            BY <1>0, <1>2, ScratchExecAssumption DEF Deadline, Typed
        <3>2. exec'[e].timeout \in Timeouts \cup {0}
            BY <3>1 DEF ExecRecs
        <3>4. Timeouts \cup {0} \subseteq Nat
            BY ScratchExecAssumption
        <3>3. exec'[e].timeout \in Nat
            BY <3>2, <3>4
        <3>. QED BY <1>0, <3>1, <3>3
    <2>. QED BY <1>0, <1>1, <2>1 DEF StampsOK
<1>3. CASE exec'[e] = exec[e]
    <2>1. /\ Pending(e) /\ ~Unbounded(e) /\ Deadline(e)' = Deadline(e) /\ Deadline(e) \in Int
        BY <1>0, <1>3, TimesAre DEF Pending, Unbounded, Deadline
    <2>2. /\ reap.at <= Deadline(e) + ReapEvery
          /\ reap.pc = "idle" => reap.at <= Deadline(e)
          /\ reap.pc \in Sweeping => reap.at <= Deadline(e) \/ e \in reap.todo
        BY <1>0, <1>1, <2>1 DEF SweepOK
    <2>3. CASE reap' = reap
        BY <2>1, <2>2, <2>3
    <2>4. CASE PassBegins
        BY <1>0, <1>1, <2>1, <2>2, <2>4 DEF PassBegins, StampsOK, Sweeping
    <2>5. CASE PassGoesOn
        <3>1. reap'.at <= Deadline(e)' + ReapEvery
            BY <2>1, <2>2, <2>5 DEF PassGoesOn
        <3>2. ASSUME reap'.pc = "idle" PROVE reap'.at <= Deadline(e)'
            BY <2>1, <2>2, <2>5, <3>2 DEF PassGoesOn, Sweeping
        <3>3. ASSUME reap'.pc \in Sweeping PROVE reap'.at <= Deadline(e)' \/ e \in reap'.todo
            <4>1. CASE reap'.todo = PendingExecs
                BY <2>1, <4>1 DEF PendingExecs
            <4>2. CASE /\ reap.pc \in Sweeping
                       /\ \A x \in reap.todo \ reap'.todo :
                            ~Expired(x) \/ exec'[x].state # "pending"
                <5>1. e \in reap'.todo \/ e \notin reap.todo \/ ~Expired(e)
                    BY <4>2 DEF Pending
                <5>. QED BY <1>0, <2>1, <2>2, <2>5, <4>2, <5>1 DEF Expired, PassGoesOn
            <4>. QED BY <2>5, <3>3, <4>1, <4>2 DEF PassGoesOn
        <3>. QED BY <3>1, <3>2, <3>3
    <2>. QED BY <2>3, <2>4, <2>5 DEF Moves
<1>. QED BY <1>1, <1>2, <1>3 DEF RecordMoves, Pending

LEMMA TimeStep ==
    ASSUME TimeInv, IndInv', [Next]_vars
    PROVE  TimeInv'
<1>1. CASE Tick
    <2>1. /\ Typed /\ clock' = clock + 1 /\ clock < reap.at + ReapEvery
          /\ reap.pc # "idle" => clock < reap.at + PassLasts
          /\ UNCHANGED <<scratch, vm, exec, wk, create, poll, reap, delete, faults>>
        <3>1. Typed
            BY TypedIsTypeOK DEF TimeInv, IndInv
        <3>. QED BY <1>1, <3>1, TimesAre, ScratchExecAssumption DEF Tick
    <2>2. StampsOK'
        BY <2>1, TimesAre, ScratchExecAssumption DEF TimeInv, StampsOK, Pending
    <2>3. SnapshotOK' /\ SweepOK'
        BY <2>1 DEF TimeInv, SnapshotOK, SweepOK, Pending, Unbounded, Deadline
    <2>. QED BY <2>2, <2>3 DEF TimeInv
<1>2. CASE UNCHANGED vars
    BY <1>2 DEF TimeInv, vars, StampsOK, SnapshotOK, SweepOK, Pending, Unbounded, Deadline
<1>3. CASE Moves
    BY <1>3, StampsStep, SnapshotStep, SweepStep DEF TimeInv
<1>4. IndInv
    BY DEF TimeInv
<1>. QED BY <1>1, <1>2, <1>3, <1>4, StepMoves

LEMMA TimeInit == ASSUME Init PROVE TimeInv
<1>1. StampsOK
    BY ScratchExecAssumption DEF Init, StampsOK, NoPass, Absent, Pending
<1>2. SnapshotOK /\ SweepOK
    BY DEF Init, SnapshotOK, SweepOK, NoPass, Absent, Pending
<1>. QED BY <1>1, <1>2, InitInv DEF TimeInv

LEMMA TimeInductive == Spec => []TimeInv
<1>1. TimeInv /\ IndInv' /\ [Next]_vars => TimeInv'
    BY TimeStep
<1>. QED BY <1>1, TimeInit, Inductive, PTL DEF Spec

\* "gcGrace extends retention past each op's timeout so late broker pulls still find
\* the entry": it does if gcGrace covers opDeadlineGrace, the gap between two passes
\* and the length of one, whatever the number of execs, pollers and deletes. They
\* are 60, 10 and, by the schedule of the deployment, 30 minutes: the entry is kept
\* as long as a pass is over in 20. An entry is then released only when a pass has
\* seen the op's deadline pass and has settled it.
THEOREM GCSparesPending ==
    ASSUME GCGrace >= Grace + ReapEvery + PassLasts
    PROVE  Spec => []AnswerKept
<1>1. Init => AnswerKept
    BY DEF Init, AnswerKept
<1>2. AnswerKept /\ TimeInv /\ TimeInv' /\ [Next]_vars => AnswerKept'
    <2>. SUFFICES ASSUME AnswerKept, TimeInv, TimeInv', [Next]_vars, faults' = 0,
                         NEW e \in Execs, Pending(e)'
                  PROVE  wk'[e].kept
        BY DEF AnswerKept
    <2>0. Typed /\ IndInv /\ IndInv' /\ StampsOK /\ SweepOK
        BY TypedIsTypeOK DEF TimeInv, IndInv
    <2>1. CASE Tick \/ UNCHANGED vars
        BY <2>1 DEF Tick, vars, AnswerKept, Pending
    <2>2. CASE Moves
        <3>1. faults = 0 /\ RecordMoves(e) /\ EntryMoves(e)
            BY <2>2 DEF Moves
        <3>2. CASE create'[e] = "start"
            BY <2>0, <3>2 DEF IndInv, CreateOK, CreateAt
        <3>3. CASE exec'[e] = exec[e]
            <4>1. Pending(e) /\ wk[e].kept
                BY <3>1, <3>3 DEF AnswerKept, Pending
            <4>2. ~Lapsed(e)
                <5>. SUFFICES ASSUME Lapsed(e) PROVE FALSE
                    OBVIOUS
                <5>1. /\ ~Unbounded(e) /\ wk[e].state # "none"
                      /\ clock > wk[e].at + exec[e].timeout + GCGrace
                    BY DEF Lapsed, Ended
                <5>2. /\ exec[e].created <= wk[e].at
                      /\ \/ reap.at <= Deadline(e) /\ clock <= reap.at + ReapEvery
                         \/ /\ reap.at <= Deadline(e) + ReapEvery
                            /\ clock <= reap.at + PassLasts
                    BY <2>0, <3>1, <4>1, <5>1 DEF StampsOK, SweepOK
                <5>3. /\ clock \in Int /\ reap.at \in Int /\ exec[e].created \in Int
                      /\ exec[e].timeout \in Nat /\ wk[e].at \in Int
                      /\ Deadline(e) = exec[e].created + exec[e].timeout + Grace
                    BY <2>0, TimesAre DEF Deadline
                <5>. QED BY <5>1, <5>2, <5>3, ScratchExecAssumption
            <4>. QED BY <3>1, <4>1, <4>2 DEF EntryMoves
        <3>. QED BY <3>1, <3>2, <3>3 DEF RecordMoves, Pending
    <2>. QED BY <2>0, <2>1, <2>2, StepMoves
<1>. QED BY <1>1, <1>2, TimeInductive, PTL DEF Spec

\* A pass that decides to tear the scratch down, by its snapshot of the ops and a
\* second look at the scratch, kills no live exec whose create call has answered
\* with the use of the scratch recorded: one in the snapshot is past its deadline,
\* and one that is not has given the scratch a new idle window.
THEOREM TeardownSparesRecorded == Spec => RecheckSparesAcknowledged
<1>1. TimeInv /\ [Next]_vars =>
        [reap.pc = "presync" /\ reap'.pc \in {"mark", "delete_vm"}
            => \A e \in Execs : create[e] = "done" => ~Live(e)]_vars
    <2>. SUFFICES ASSUME TimeInv, Next, reap.pc = "presync", reap'.pc \in {"mark", "delete_vm"},
                         NEW e \in Execs, create[e] = "done", Live(e)
                  PROVE  FALSE
        OBVIOUS
    <2>0. Typed /\ StampsOK /\ SnapshotOK
        BY TypedIsTypeOK DEF TimeInv, IndInv
    <2>1. IdleAt(reap.at)
        <3>1. ReapStep \/ ReapCrash
            <4>1. ASSUME NEW x \in Execs,
                         WorkerEnds(x) \/ WorkerKills(x) \/ Create(x) \/ CreateCrash(x)
                  PROVE  reap' = reap
                BY <4>1 DEF WorkerEnds, WorkerKills, Create, CreateCrash, CreateCheck,
                   CreateInsert, CreateStart, CreateStartFails, CreateFinalize, CreateBump,
                   CreateWait, CreateWaitFinal, creating
            <4>2. ASSUME NEW p \in Pollers, Poll(p) \/ PollCrash(p)
                  PROVE  reap' = reap
                BY <4>2 DEF Poll, PollCrash, PollGet, PollScratch, PollStatus, PollSyncFails,
                   PollFinal, PollBump, PollLose, polling
            <4>3. ASSUME NEW d \in Deleters, Delete(d) \/ DeleteStops(d)
                  PROVE  reap' = reap
                BY <4>3 DEF Delete, DeleteStops, DeleteMark, DeleteVM, DeleteDone, deleting
            <4>4. ~Tick /\ ~ReapBegin
                BY DEF Tick, ReapBegin
            <4>. QED BY <4>1, <4>2, <4>3, <4>4 DEF Next
        <3>2. ~ReapCrash
            BY <2>0, ReapStops DEF ReapCrash
        <3>3. ASSUME NEW x \in Execs, ReapPresync(x) PROVE FALSE
            <4>1. /\ reap.todo \ {x} \in SUBSET Execs /\ "presync_final" \in ReapPCs
                  /\ Ended \subseteq Hows
                BY <2>0 DEF Typed, Passes, ReapPCs, Hows
            <4>2. CASE /\ wk[x].state \in Ended
                       /\ reap' = [reap EXCEPT !.pc = "presync_final", !.e = x,
                                               !.how = wk[x].state]
                BY <2>0, <4>1, <4>2, ReapTakesKnown
            <4>3. CASE reap' = [reap EXCEPT !.todo = reap.todo \ {x}]
                BY <2>0, <4>1, <4>3, ReapSkips
            <4>. QED BY <3>3, <4>2, <4>3 DEF ReapPresync
        <3>4. ReapRecheck
            BY <3>1, <3>2, <3>3 DEF ReapStep, ReapIdleList, ReapPresyncFinal, ReapMark,
               ReapDeleteVM, ReapDeleted, ReapSweepList, ReapDecide, ReapPull, ReapSettle, ReapEnd
        <3>5. CASE IdleAt(reap.at)
            BY <3>5
        <3>6. CASE ~IdleAt(reap.at)
            <4>1. ReapTo("sweep_list")
                BY <3>4, <3>6 DEF ReapRecheck, ReapTo
            <4>2. reap'.pc = "sweep_list"
                BY <2>0, <4>1, ReapGoes DEF ReapPCs
            <4>. QED BY <4>2
        <3>. QED BY <3>5, <3>6
    <2>2. scratch.lastUsed < reap.at
        BY <2>0, <2>1, TimesAre, ScratchExecAssumption DEF IdleAt, StampsOK
    <2>3. e \in reap.pending
        BY <2>0, <2>2, TimesAre DEF SnapshotOK, Recorded, Live
    <2>4. ~Unbounded(e) /\ Deadline(e) <= reap.at
        BY <2>0, <2>3 DEF SnapshotOK, PreTeardown
    <2>. QED BY <2>0, <2>4, TimesAre DEF Live, StampsOK
<1>. QED BY <1>1, TimeInductive, PTL DEF Spec, RecheckSparesAcknowledged

-----------------------------------------------------------------------------
(* The refinement of ExecOp: a step of a handler answers an op, or the client does *)
(* not see it.                                                                     *)

Known(e) == exec[e].state # "absent"
NotYet == {"idle", "insert"}
HasOp == {"presync_final", "pull", "settle"}
Judged == reap.pc = "pull" \/ (reap.pc = "settle" /\ reap.how # "lost")

\* Nobody writes the record of an op before its create call has, and a pass gives up
\* only an op whose deadline has passed.
CallsKnown ==
    \A e \in Execs :
        /\ create[e] \in NotYet => ~Known(e)
        /\ create[e] \notin NotYet \cup {"gone"} => Known(e)

PassKnown ==
    /\ \A e \in reap.pending \cup reap.todo : Known(e)
    /\ reap.pc \in HasOp => Known(reap.e)
    /\ Judged => Expired(reap.e)

OpInv == TimeInv /\ CallsKnown /\ PassKnown

\* What a client does not see.
Still == clock' = clock /\ exec' = exec /\ \A e \in Execs : wk'[e].state = wk[e].state

\* A record that is there stays and keeps what it was asked for.
Lasts ==
    \A e \in Execs : Known(e) =>
        /\ exec'[e].state # "absent"
        /\ exec'[e].created = exec[e].created /\ exec'[e].timeout = exec[e].timeout

\* A create call reserves the record only by its insert.
CallGoes(e) ==
    \/ create'[e] = create[e]
    \/ create[e] \in NotYet /\ create'[e] \in {"insert", "gone"} /\ exec' = exec
    \/ create[e] = "insert" /\ create'[e] = "start" /\ exec'[e].state = "pending"
    \/ create[e] \notin NotYet \cup {"gone"} /\ create'[e] \notin NotYet

LEMMA CommandMoves ==
    ASSUME NEW x \in Execs, NEW st, wk'[x].state = st,
           \A e \in Execs : e # x => wk'[e].state = wk[e].state
    PROVE  [e \in Execs |-> wk'[e].state] = [[e \in Execs |-> wk[e].state] EXCEPT ![x] = st]
    OBVIOUS

LEMMA StillIs ==
    ASSUME Still
    PROVE  UNCHANGED Op!vars
    BY DEF Still, Op!vars

LEMMA EndStep ==
    ASSUME IndInv, StampsOK, NEW x \in Execs, WorkerEnds(x) \/ WorkerKills(x)
    PROVE  Op!End(x)
<1>0. Typed
    BY TypedIsTypeOK DEF IndInv
<1>1. /\ wk[x].state = "running" /\ exec' = exec /\ clock' = clock
      /\ [e \in Execs |-> wk[e].state][x] = "running"
    BY DEF WorkerEnds, WorkerKills
<1>2. PICK how \in {"exited", "infra", "killed"} :
        /\ wk' = [wk EXCEPT ![x].state = how]
        /\ how = "killed" => exec[x].timeout # 0 /\ clock >= wk[x].at + exec[x].timeout
    BY DEF WorkerEnds, WorkerKills, Unbounded
<1>3. [e \in Execs |-> wk'[e].state] = [[e \in Execs |-> wk[e].state] EXCEPT ![x] = how]
    <2>1. how \in Ended
        BY DEF Ended
    <2>2. wk'[x].state = how /\ \A e \in Execs : e # x => wk'[e] = wk[e]
        BY <1>0, <1>2, <2>1, EndsIs
    <2>. QED BY <2>2, CommandMoves
<1>4. how = "killed" => clock >= exec[x].created + exec[x].timeout
    BY <1>0, <1>1, <1>2, TimesAre DEF StampsOK
<1>. QED BY <1>1, <1>2, <1>3, <1>4 DEF Op!End

LEMMA LaunchStep ==
    ASSUME Typed, CreateOK, CallsKnown, NEW x \in Execs, create[x] = "start",
           wk' = Dispatched(x), exec' = exec, clock' = clock
    PROVE  Op!Launch(x)
<1>1. wk[x].state = "none" /\ Known(x) /\ [e \in Execs |-> wk[e].state][x] = "none"
    BY DEF CreateOK, CreateAt, CallsKnown, NotYet
<1>2. [e \in Execs |-> wk'[e].state] = [[e \in Execs |-> wk[e].state] EXCEPT ![x] = "running"]
    BY DispatchedIs, CommandMoves
<1>. QED BY <1>1, <1>2 DEF Op!Launch, Op!Known, Known

LEMMA AnswerStep ==
    ASSUME NEW x \in Execs, NEW how \in {"lost", "blind"} \cup Ended, Known(x), Persist(x, how),
           how \in Ended => how = wk[x].state, how = "blind" => Op!Overdue(x),
           wk' = wk, clock' = clock
    PROVE  Op!Answer(x)
<1>1. [e \in Execs |-> wk[e].state][x] = wk[x].state
    OBVIOUS
<1>2. exec' = [exec EXCEPT ![x] = Final(x, how)]
    BY DEF Persist
<1>3. CASE how = "exited"
    <2>1. Op!Says(x, "completed", ObservedCode, FALSE)
        BY <1>2, <1>3 DEF Final, Op!Says
    <2>. QED BY <1>1, <1>3, <2>1 DEF Op!Answer, Op!Known, Known, Ended
<1>4. CASE how = "killed"
    <2>1. Op!Says(x, "timed_out", KillCode, TRUE)
        BY <1>2, <1>4 DEF Final, Op!Says
    <2>. QED BY <1>1, <1>4, <2>1 DEF Op!Answer, Op!Known, Known, Ended
<1>5. CASE how \in {"infra", "lost"}
    <2>1. Op!Says(x, "lost", 0, TRUE)
        BY <1>2, <1>5 DEF Final, Op!Says
    <2>. QED BY <2>1 DEF Op!Answer, Op!Known, Known
<1>6. CASE how = "blind"
    <2>1. Op!Says(x, "timed_out", 0, TRUE)
        BY <1>2, <1>6 DEF Final, Op!Says
    <2>. QED BY <1>6, <2>1 DEF Op!Answer, Op!Known, Known
<1>. QED BY <1>3, <1>4, <1>5, <1>6 DEF Ended

LEMMA CreateRefines ==
    ASSUME OpInv, NEW x \in Execs, Create(x) \/ CreateCrash(x)
    PROVE  \/ Still \/ Op!Launch(x) \/ Op!Answer(x)
           \/ Op!Submit(x) /\ create[x] = "insert" /\ create'[x] = "start"
<1>0. IndInv /\ Typed /\ CallsKnown /\ CreateOK /\ clock' = clock
    BY TypedIsTypeOK
       DEF OpInv, TimeInv, IndInv, Create, CreateCrash, CreateCheck, CreateInsert, CreateStart,
           CreateStartFails, CreateFinalize, CreateBump, CreateWait, CreateWaitFinal, creating
<1>1. CASE CreateCheck(x) \/ CreateBump(x) \/ CreateWait(x) \/ CreateCrash(x)
    BY <1>0, <1>1 DEF CreateCheck, CreateBump, CreateWait, CreateCrash, creating, Still
<1>2. CASE CreateInsert(x)
    <2>1. create[x] = "insert" /\ create'[x] = "start" /\ wk' = wk
        BY <1>0, <1>2, CreateIs DEF CreateInsert, CreatePCs
    <2>2. ~Known(x)
        BY <1>0, <2>1 DEF CallsKnown, NotYet
    <2>. QED BY <1>0, <1>2, <2>1, <2>2
             DEF CreateInsert, Absent, Op!Submit, Op!Known, Op!None, Known
<1>3. CASE CreateStart(x) \/ CreateStartFails(x)
    <2>1. create[x] = "start" /\ exec' = exec /\ (wk' = wk \/ wk' = Dispatched(x))
        BY <1>3 DEF CreateStart, CreateStartFails
    <2>. QED BY <1>0, <2>1, LaunchStep DEF Still
<1>4. CASE CreateFinalize(x) \/ CreateWaitFinal(x)
    <2>1. wk' = wk /\ Known(x) /\ (create[x] \in {"waitfinal", "finalblind"} => wk[x].state \in Ended)
        BY <1>0, <1>4
           DEF CreateFinalize, CreateWaitFinal, creating, CallsKnown, NotYet, CreateOK, CreateAt
    <2>2. CASE exec' = exec
        BY <1>0, <2>1, <2>2 DEF Still
    <2>3. CASE create[x] = "finalize" /\ Persist(x, "lost")
        BY <1>0, <2>1, <2>3, AnswerStep DEF Ended
    <2>4. CASE create[x] \in {"waitfinal", "finalblind"} /\ Persist(x, wk[x].state)
        BY <1>0, <2>1, <2>4, AnswerStep DEF Ended
    <2>. QED BY <1>4, <2>2, <2>3, <2>4 DEF CreateFinalize, CreateWaitFinal
<1>. QED BY <1>1, <1>2, <1>3, <1>4 DEF Create

LEMMA PollRefines ==
    ASSUME OpInv, NEW p \in Pollers, Poll(p) \/ PollCrash(p)
    PROVE  Still \/ \E x \in Execs : Op!Answer(x)
<1>0. IndInv /\ CallsKnown /\ PollAt(p) /\ clock' = clock /\ wk' = wk
    BY DEF OpInv, TimeInv, IndInv, PollOK, Poll, PollCrash, PollGet, PollScratch, PollStatus,
           PollSyncFails, PollFinal, PollBump, PollLose, polling
<1>1. poll[p].pc # "idle" => poll[p].e \in Execs /\ Known(poll[p].e)
    BY <1>0 DEF PollAt, CallsKnown, NotYet, Answered
<1>2. CASE exec' = exec
    BY <1>0, <1>2 DEF Still
<1>3. CASE PollFinal(p)
    BY <1>0, <1>1, <1>3, AnswerStep DEF PollFinal, PollAt, Ended
<1>4. CASE PollLose(p) /\ exec' # exec
    BY <1>0, <1>1, <1>4, AnswerStep DEF PollLose, Ended
<1>. QED BY <1>2, <1>3, <1>4
         DEF Poll, PollCrash, PollGet, PollScratch, PollStatus, PollSyncFails, PollBump, PollLose

LEMMA ReapRefines ==
    ASSUME OpInv, ReapBegin \/ ReapStep \/ ReapCrash
    PROVE  Still \/ \E x \in Execs : Op!Answer(x)
<1>0. /\ Typed /\ StampsOK /\ ReapOK /\ PassKnown /\ clock' = clock /\ wk' = wk
    BY TypedIsTypeOK
       DEF OpInv, TimeInv, IndInv, ReapBegin, ReapStep, ReapCrash, ReapIdleList, ReapPresync,
           ReapPresyncFinal, ReapRecheck, ReapMark, ReapDeleteVM, ReapDeleted, ReapSweepList,
           ReapDecide, ReapPull, ReapSettle, ReapEnd, reaping
<1>1. CASE exec' = exec
    BY <1>0, <1>1 DEF Still
<1>2. CASE reap.pc \in {"presync_final", "settle"} /\ Persist(reap.e, reap.how)
    <2>1. /\ reap.e \in Execs /\ Known(reap.e) /\ reap.how \in {"lost", "blind"} \cup Ended
          /\ reap.how \in Ended => reap.how = wk[reap.e].state
        BY <1>0, <1>2 DEF ReapOK, PassKnown, HasOp, Ended
    <2>2. reap.how = "blind" => Op!Overdue(reap.e)
        <3>. SUFFICES ASSUME reap.how = "blind" PROVE Op!Overdue(reap.e)
            OBVIOUS
        <3>1. reap.pc = "settle" \/ reap.how \in Ended
            BY <1>0, <1>2 DEF ReapOK
        <3>2. Expired(reap.e)
            BY <1>0, <3>1 DEF PassKnown, Judged, Ended
        <3>. QED BY <1>0, <2>1, <3>2, TimesAre, ScratchExecAssumption
                 DEF Expired, Unbounded, Deadline, StampsOK, Op!Overdue
    <2>. QED BY <1>0, <1>2, <2>1, <2>2, AnswerStep
<1>. QED BY <1>1, <1>2
         DEF ReapBegin, ReapStep, ReapCrash, ReapIdleList, ReapPresync, ReapPresyncFinal,
             ReapRecheck, ReapMark, ReapDeleteVM, ReapDeleted, ReapSweepList, ReapDecide,
             ReapPull, ReapSettle, ReapEnd

\* What each step is to the client.
OpStep ==
    \/ Still \/ Op!Pass
    \/ \E x \in Execs :
        \/ Op!Launch(x) \/ Op!End(x) \/ Op!Answer(x)
        \/ Op!Submit(x) /\ create[x] = "insert" /\ create'[x] = "start"

LEMMA StepRefines ==
    ASSUME OpInv, [Next]_vars
    PROVE  OpStep
<1>1. CASE Tick
    BY <1>1 DEF Tick, OpStep, Op!Pass
<1>2. CASE UNCHANGED vars
    BY <1>2 DEF vars, OpStep, Still
<1>3. ASSUME NEW x \in Execs, WorkerEnds(x) \/ WorkerKills(x) PROVE OpStep
    BY <1>3, EndStep DEF OpInv, TimeInv, OpStep
<1>4. ASSUME NEW x \in Execs, Create(x) \/ CreateCrash(x) PROVE OpStep
    BY <1>4, CreateRefines DEF OpStep
<1>5. ASSUME NEW p \in Pollers, Poll(p) \/ PollCrash(p) PROVE OpStep
    BY <1>5, PollRefines DEF OpStep
<1>6. ASSUME NEW d \in Deleters, Delete(d) \/ DeleteStops(d) PROVE OpStep
    BY <1>6 DEF Delete, DeleteStops, DeleteMark, DeleteVM, DeleteDone, deleting, OpStep, Still
<1>7. CASE ReapBegin \/ ReapStep \/ ReapCrash
    BY <1>7, ReapRefines DEF OpStep
<1>. QED BY <1>1, <1>2, <1>3, <1>4, <1>5, <1>6, <1>7 DEF Next

LEMMA RecordsLast ==
    ASSUME Typed, OpStep
    PROVE  /\ Lasts
           /\ \A e \in Execs : exec'[e].state = "absent" \/ Known(e)
                               \/ (create[e] = "insert" /\ create'[e] = "start")
<1>0. exec \in [Execs -> ExecRecs]
    BY DEF Typed
<1>1. CASE exec' = exec
    BY <1>1 DEF Lasts, Known
<1>2. ASSUME NEW x \in Execs, Op!Answer(x)
      PROVE  /\ Lasts
             /\ \A e \in Execs : exec'[e].state = "absent" \/ Known(e)
    <2>1. PICK st \in {"completed", "timed_out", "lost"},
             code \in {0, ObservedCode, KillCode}, bad \in BOOLEAN : Op!Says(x, st, code, bad)
        BY <1>2 DEF Op!Answer
    <2>2. exec' = [exec EXCEPT ![x] = [exec[x] EXCEPT !.state = st, !.exit = code, !.err = bad]]
        BY <2>1 DEF Op!Says
    <2>3. /\ \A e \in Execs : e # x => exec'[e] = exec[e]
          /\ exec'[x] = [exec[x] EXCEPT !.state = st, !.exit = code, !.err = bad]
        BY <1>0, <2>2
    <2>4. /\ exec'[x].state = st /\ exec'[x].created = exec[x].created
          /\ exec'[x].timeout = exec[x].timeout
        BY <1>0, <2>3 DEF ExecRecs
    <2>5. Known(x)
        BY <1>2 DEF Op!Answer, Op!Known, Known
    <2>. QED BY <2>3, <2>4, <2>5 DEF Lasts, Known
<1>3. ASSUME NEW x \in Execs, Op!Submit(x), create[x] = "insert", create'[x] = "start"
      PROVE  /\ Lasts
             /\ \A e \in Execs : exec'[e].state = "absent" \/ Known(e)
                                 \/ (create[e] = "insert" /\ create'[e] = "start")
    <2>1. ~Known(x) /\ \A e \in Execs : e # x => exec'[e] = exec[e]
        BY <1>0, <1>3 DEF Op!Submit, Op!Known, Known
    <2>. QED BY <1>3, <2>1 DEF Lasts, Known
<1>. QED BY <1>1, <1>2, <1>3 DEF OpStep, Still, Op!Pass, Op!Launch, Op!End

LEMMA CallsGo ==
    ASSUME Typed, [Next]_vars
    PROVE  \A e \in Execs : CallGoes(e)
<1>1. ASSUME NEW x \in Execs, Create(x) \/ CreateCrash(x) PROVE \A e \in Execs : CallGoes(e)
    <2>1. create \in [Execs -> CreatePCs]
        BY DEF Typed
    <2>2. CASE CreateInsert(x)
        <3>1. exec'[x].state = "pending"
            BY <2>2, InsertIs DEF CreateInsert
        <3>. QED BY <2>1, <2>2, <3>1 DEF CreateInsert, CallGoes
    <2>3. CASE CreateCheck(x)
        BY <2>1, <2>3 DEF CreateCheck, CallGoes, NotYet
    <2>4. CASE CreateCrash(x)
        BY <2>1, <2>4 DEF CreateCrash, CallGoes, NotYet, creating, Over, Answered
    <2>5. CASE \/ CreateStart(x) \/ CreateStartFails(x) \/ CreateFinalize(x)
               \/ CreateBump(x) \/ CreateWait(x) \/ CreateWaitFinal(x)
        <3>1. /\ create[x] \in {"start", "finalize", "bump", "wait", "waitfinal",
                               "waitblind", "finalblind"}
              /\ \E where \in CreatePCs \ NotYet : create' = [create EXCEPT ![x] = where]
            BY <2>5 DEF CreateStart, CreateStartFails, CreateFinalize, CreateBump, CreateWait,
               CreateWaitFinal, CreatePCs, NotYet, Over, Answered
        <3>. QED BY <2>1, <3>1 DEF CallGoes, NotYet
    <2>. QED BY <1>1, <2>2, <2>3, <2>4, <2>5 DEF Create
<1>2. CASE create' = create
    BY <1>2 DEF CallGoes
<1>3. ASSUME NEW x \in Execs, WorkerEnds(x) \/ WorkerKills(x) PROVE create' = create
    BY <1>3 DEF WorkerEnds, WorkerKills
<1>4. ASSUME NEW p \in Pollers, Poll(p) \/ PollCrash(p) PROVE create' = create
    BY <1>4 DEF Poll, PollCrash, PollGet, PollScratch, PollStatus, PollSyncFails, PollFinal,
       PollBump, PollLose, polling
<1>5. ASSUME NEW d \in Deleters, Delete(d) \/ DeleteStops(d) PROVE create' = create
    BY <1>5 DEF Delete, DeleteStops, DeleteMark, DeleteVM, DeleteDone, deleting
<1>6. ReapBegin \/ ReapStep \/ ReapCrash => create' = create
    BY DEF ReapBegin, ReapStep, ReapCrash, ReapIdleList, ReapPresync, ReapPresyncFinal,
       ReapRecheck, ReapMark, ReapDeleteVM, ReapDeleted, ReapSweepList, ReapDecide,
       ReapPull, ReapSettle, ReapEnd, reaping
<1>7. Tick \/ UNCHANGED vars => create' = create
    BY DEF Tick, vars
<1>. QED BY <1>1, <1>2, <1>3, <1>4, <1>5, <1>6, <1>7 DEF Next

LEMMA CallsStep ==
    ASSUME OpInv, [Next]_vars
    PROVE  CallsKnown'
<1>0. Typed /\ CallsKnown
    BY TypedIsTypeOK DEF OpInv, TimeInv, IndInv
<1>1. /\ Lasts
      /\ \A e \in Execs : exec'[e].state = "absent" \/ Known(e)
                          \/ (create[e] = "insert" /\ create'[e] = "start")
    BY <1>0, StepRefines, RecordsLast
<1>2. ASSUME NEW e \in Execs
      PROVE  /\ create'[e] \in NotYet => exec'[e].state = "absent"
             /\ create'[e] \notin NotYet \cup {"gone"} => exec'[e].state # "absent"
    <2>1. CallGoes(e)
        BY <1>0, CallsGo
    <2>. QED BY <1>0, <1>1, <2>1 DEF CallsKnown, CallGoes, Lasts, Known, NotYet
<1>. QED BY <1>2 DEF CallsKnown, Known

\* A pass that goes on without a new op in hand, or with one it has judged.
LEMMA PassKept ==
    ASSUME PassKnown, Lasts, reap'.at = reap.at,
           \A e \in reap'.pending \cup reap'.todo : e \in Execs /\ Known(e),
           reap'.pc \in HasOp => reap'.e \in Execs /\ Known(reap'.e),
           Judged' => Expired(reap'.e)
    PROVE  PassKnown'
<1>1. reap'.pc \in HasOp => exec'[reap'.e].state # "absent"
    BY DEF Lasts
<1>2. Judged' => reap'.pc \in HasOp
    BY DEF Judged, HasOp
<1>3. Judged' =>
        /\ exec'[reap'.e].timeout # 0
        /\ reap'.at > exec'[reap'.e].created + exec'[reap'.e].timeout + Grace
    BY <1>2 DEF Lasts, Expired, Unbounded, Deadline
<1>. QED BY <1>1, <1>3 DEF PassKnown, Lasts, Known, Expired, Unbounded, Deadline

LEMMA PassStep ==
    ASSUME OpInv, [Next]_vars
    PROVE  PassKnown'
<1>0. /\ Typed /\ ReapOK /\ PassKnown /\ Lasts
      /\ reap.pending \subseteq Execs /\ reap.todo \subseteq Execs
      /\ PendingExecs \in SUBSET Execs /\ \A e \in PendingExecs : Known(e)
    <2>1. Typed /\ ReapOK /\ PassKnown
        BY TypedIsTypeOK DEF OpInv, TimeInv, IndInv
    <2>. QED BY <2>1, StepRefines, RecordsLast, TimesAre DEF PendingExecs, Pending, Known
<1>1. CASE reap' = reap
    <2>1. reap.pc \in HasOp => reap.e \in Execs
        BY <1>0 DEF ReapOK, HasOp
    <2>. QED BY <1>0, <1>1, <2>1, PassKept DEF PassKnown, Judged
<1>2. CASE ReapBegin
    <2>1. reap'.pc = "idle_list" /\ reap'.pending = PendingExecs /\ reap'.todo = {} /\ exec' = exec
        BY <1>0, <1>2, ReapStarts DEF ReapBegin
    <2>. QED BY <1>0, <2>1 DEF PassKnown, HasOp, Judged, Known
<1>3. CASE ReapIdleList
    <2>1. scratch.state \in ScratchStates
        BY <1>0 DEF Typed, Scratches
    <2>2. CASE reap' = [reap EXCEPT !.pc = "presync", !.todo = reap.pending, !.was = scratch.state]
        <3>1. /\ reap'.pc = "presync" /\ reap'.at = reap.at /\ reap'.pending = reap.pending
              /\ reap'.todo = reap.pending
            BY <1>0, <2>1, <2>2, ReapLists DEF ReapPCs
        <3>. QED BY <1>0, <3>1, PassKept DEF PassKnown, HasOp, Judged
    <2>3. CASE ReapTo("sweep_list")
        <3>1. /\ reap'.pc = "sweep_list" /\ reap'.at = reap.at
              /\ reap'.pending = reap.pending /\ reap'.todo = reap.todo
            BY <1>0, <2>3, ReapGoes DEF ReapPCs
        <3>. QED BY <1>0, <3>1, PassKept DEF PassKnown, HasOp, Judged
    <2>. QED BY <1>3, <2>2, <2>3 DEF ReapIdleList, ReapTo
<1>4. ASSUME NEW e \in Execs, ReapPresync(e) PROVE PassKnown'
    <2>1. /\ reap.pc = "presync" /\ e \in reap.todo /\ reap.todo \ {e} \in SUBSET Execs
          /\ "presync_final" \in ReapPCs
        BY <1>0, <1>4 DEF ReapPresync, ReapPCs
    <2>2. CASE /\ wk[e].state \in Ended
               /\ reap' = [reap EXCEPT !.pc = "presync_final", !.e = e, !.how = wk[e].state]
        <3>1. /\ reap'.pc = "presync_final" /\ reap'.at = reap.at /\ reap'.e = e
              /\ reap'.pending = reap.pending /\ reap'.todo = reap.todo
            BY <1>0, <2>1, <2>2, ReapTakesKnown DEF Hows
        <3>. QED BY <1>0, <2>1, <3>1, PassKept DEF PassKnown, Judged
    <2>3. CASE reap' = [reap EXCEPT !.todo = reap.todo \ {e}]
        <3>1. /\ reap'.pc = "presync" /\ reap'.at = reap.at
              /\ reap'.pending = reap.pending /\ reap'.todo = reap.todo \ {e}
            BY <1>0, <2>1, <2>3, ReapSkips
        <3>. QED BY <1>0, <3>1, PassKept DEF PassKnown, HasOp, Judged
    <2>. QED BY <1>4, <2>2, <2>3 DEF ReapPresync
<1>5. CASE ReapPresyncFinal
    <2>1. /\ reap.todo \ {reap.e} \in SUBSET Execs
          /\ reap' = [reap EXCEPT !.pc = "presync", !.todo = reap.todo \ {reap.e},
                                  !.e = "none", !.how = "none"]
        BY <1>0, <1>5 DEF ReapPresyncFinal
    <2>2. /\ reap'.pc = "presync" /\ reap'.at = reap.at /\ reap'.pending = reap.pending
          /\ reap'.todo = reap.todo \ {reap.e}
        BY <1>0, <2>1, ReapIsDone DEF ReapPCs
    <2>. QED BY <1>0, <2>2, PassKept DEF PassKnown, HasOp, Judged
<1>6. CASE ReapRecheck \/ ReapMark \/ ReapDeleteVM \/ ReapDeleted
    <2>1. \E where \in {"mark", "delete_vm", "deleted", "sweep_list"} : ReapTo(where)
        BY <1>6 DEF ReapRecheck, ReapMark, ReapDeleteVM, ReapDeleted, ReapTo
    <2>2. /\ reap'.pc \in {"mark", "delete_vm", "deleted", "sweep_list"}
          /\ reap'.at = reap.at /\ reap'.pending = reap.pending /\ reap'.todo = reap.todo
        BY <1>0, <2>1, ReapGoes DEF ReapPCs
    <2>. QED BY <1>0, <2>2, PassKept DEF PassKnown, HasOp, Judged
<1>7. CASE ReapSweepList
    <2>1. /\ reap'.pc = "sweep" /\ reap'.todo = PendingExecs
          /\ reap'.at = reap.at /\ reap'.pending = reap.pending
        BY <1>0, <1>7, ReapLeaves DEF ReapSweepList, ReapPCs
    <2>. QED BY <1>0, <2>1, PassKept DEF PassKnown, HasOp, Judged
<1>8. ASSUME NEW e \in Execs, ReapDecide(e) PROVE PassKnown'
    <2>1. /\ reap.pc = "sweep" /\ e \in reap.todo /\ reap.todo \ {e} \in SUBSET Execs
          /\ {"pull", "settle"} \subseteq ReapPCs /\ {"blind", "lost"} \subseteq Hows
        BY <1>0, <1>8 DEF ReapDecide, ReapPCs, Hows
    <2>2. CASE Expired(e) /\ reap' = [reap EXCEPT !.pc = "pull", !.e = e]
        <3>1. /\ reap'.pc = "pull" /\ reap'.at = reap.at /\ reap'.e = e
              /\ reap'.pending = reap.pending /\ reap'.todo = reap.todo
            BY <1>0, <2>1, <2>2, ReapTakes
        <3>. QED BY <1>0, <2>1, <2>2, <3>1, PassKept DEF PassKnown
    <2>3. ASSUME NEW how \in {"blind", "lost"}, how = "blind" => Expired(e),
                 reap' = [reap EXCEPT !.pc = "settle", !.e = e, !.how = how]
          PROVE  PassKnown'
        <3>1. /\ reap'.pc = "settle" /\ reap'.at = reap.at /\ reap'.e = e /\ reap'.how = how
              /\ reap'.pending = reap.pending /\ reap'.todo = reap.todo
            BY <1>0, <2>1, <2>3, ReapTakesKnown
        <3>. QED BY <1>0, <2>1, <2>3, <3>1, PassKept DEF PassKnown, Judged
    <2>4. CASE reap' = [reap EXCEPT !.todo = reap.todo \ {e}]
        <3>1. /\ reap'.pc = "sweep" /\ reap'.at = reap.at
              /\ reap'.pending = reap.pending /\ reap'.todo = reap.todo \ {e}
            BY <1>0, <2>1, <2>4, ReapSkips
        <3>. QED BY <1>0, <3>1, PassKept DEF PassKnown, HasOp, Judged
    <2>. QED BY <1>8, <2>2, <2>3, <2>4 DEF ReapDecide
<1>9. CASE ReapPull
    <2>1. /\ reap.pc = "pull" /\ reap.e \in Execs /\ Known(reap.e) /\ Expired(reap.e)
        BY <1>0, <1>9 DEF ReapPull, ReapOK, PassKnown, HasOp, Judged
    <2>2. PICK how \in Hows : reap' = [reap EXCEPT !.pc = "settle", !.how = how]
        BY <1>9 DEF ReapPull, Hows, Ended
    <2>3. /\ reap'.pc = "settle" /\ reap'.at = reap.at /\ reap'.e = reap.e
          /\ reap'.pending = reap.pending /\ reap'.todo = reap.todo
        BY <1>0, <2>2, ReapLearns DEF ReapPCs
    <2>. QED BY <1>0, <2>1, <2>3, PassKept DEF PassKnown
<1>10. CASE ReapSettle
    <2>1. /\ reap.pc = "settle" /\ reap.e \in Execs /\ reap.todo \ {reap.e} \in SUBSET Execs
          /\ Known(reap.e)
        BY <1>0, <1>10 DEF ReapSettle, ReapOK, PassKnown, HasOp
    <2>2. CASE reap.how \in Ended /\ reap' = [reap EXCEPT !.how = "blind"]
        <3>1. /\ reap'.pc = "settle" /\ reap'.at = reap.at /\ reap'.e = reap.e
              /\ reap'.pending = reap.pending /\ reap'.todo = reap.todo
            BY <1>0, <2>1, <2>2, ReapFallsBack DEF Hows
        <3>2. Expired(reap.e)
            BY <1>0, <2>1, <2>2 DEF PassKnown, Judged, Ended
        <3>. QED BY <1>0, <2>1, <3>1, <3>2, PassKept DEF PassKnown
    <2>3. CASE reap' = [reap EXCEPT !.pc = "sweep", !.todo = reap.todo \ {reap.e},
                                    !.e = "none", !.how = "none"]
        <3>1. /\ reap'.pc = "sweep" /\ reap'.at = reap.at
              /\ reap'.pending = reap.pending /\ reap'.todo = reap.todo \ {reap.e}
            BY <1>0, <2>1, <2>3, ReapIsDone DEF ReapPCs
        <3>. QED BY <1>0, <3>1, PassKept DEF PassKnown, HasOp, Judged
    <2>. QED BY <1>10, <2>2, <2>3 DEF ReapSettle
<1>11. CASE ReapEnd \/ ReapCrash
    <2>1. /\ reap'.pc = "idle" /\ reap'.at = reap.at /\ reap'.pending = {} /\ reap'.todo = {}
        BY <1>0, <1>11, ReapStops DEF ReapEnd, ReapCrash
    <2>. QED BY <1>0, <2>1, PassKept DEF HasOp, Judged
<1>12. reap' = reap \/ ReapBegin \/ ReapStep \/ ReapCrash
    <2>1. ASSUME NEW x \in Execs,
                 WorkerEnds(x) \/ WorkerKills(x) \/ Create(x) \/ CreateCrash(x)
          PROVE  reap' = reap
        BY <2>1 DEF WorkerEnds, WorkerKills, Create, CreateCrash, CreateCheck, CreateInsert,
           CreateStart, CreateStartFails, CreateFinalize, CreateBump, CreateWait,
           CreateWaitFinal, creating
    <2>2. ASSUME NEW p \in Pollers, Poll(p) \/ PollCrash(p)
          PROVE  reap' = reap
        BY <2>2 DEF Poll, PollCrash, PollGet, PollScratch, PollStatus, PollSyncFails,
           PollFinal, PollBump, PollLose, polling
    <2>3. ASSUME NEW d \in Deleters, Delete(d) \/ DeleteStops(d)
          PROVE  reap' = reap
        BY <2>3 DEF Delete, DeleteStops, DeleteMark, DeleteVM, DeleteDone, deleting
    <2>4. Tick \/ UNCHANGED vars => reap' = reap
        BY DEF Tick, vars
    <2>. QED BY <2>1, <2>2, <2>3, <2>4 DEF Next
<1>. QED BY <1>1, <1>2, <1>3, <1>4, <1>5, <1>6, <1>7, <1>8, <1>9, <1>10, <1>11, <1>12
         DEF ReapStep

LEMMA OpInductive == Spec => []OpInv
<1>1. Init => CallsKnown /\ PassKnown
    BY DEF Init, CallsKnown, PassKnown, Known, Absent, NoPass, NotYet, HasOp, Judged
<1>2. OpInv /\ TimeInv' /\ [Next]_vars => OpInv'
    BY CallsStep, PassStep DEF OpInv
<1>3. Init => OpInv
    BY <1>1, TimeInit DEF OpInv
<1>. QED BY <1>2, <1>3, TimeInductive, PTL DEF Spec

\* To the client that polls it an exec is an operation: whoever settles it, and from
\* however old a copy, it answers with what became of the one command it was launched
\* with, TimedOut without the worker's word only after the deadline, and is never again
\* Pending. What a sweep pulls through goes by a deadline it has checked before
\* (PassKnown), and no record is written before its create call has (CallsKnown).
THEOREM ImplementsOp == Spec => BehavesAsOp
<1>1. Init => Op!Init
    BY DEF Init, Op!Init, Absent, Op!None
<1>2. OpInv /\ [Next]_vars => [Op!Next]_(Op!vars)
    BY StepRefines, StillIs DEF OpStep, Op!Next
<1>. QED BY <1>1, <1>2, OpInductive, PTL DEF Spec, BehavesAsOp, Op!Spec

=============================================================================
