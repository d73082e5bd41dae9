---------------------------- MODULE RebuildAttempt ----------------------------
(***************************************************************************)
(* The rebuilds of one target: CreateRebuildOp and the rebuild job it      *)
(* launches or runs in process, RebuildPackage as /rebuild serves it       *)
(* (internal/api/apiservice), the attempt records operations are read      *)
(* from, and the bundle Attestor.PublishBundle writes (internal/verifier). *)
(*                                                                         *)
(* Every database or storage call is a step of its own.  The attestation   *)
(* bucket keeps the generations of an object, so the bundle is a sequence  *)
(* whose last element is the current one.  Strategies, artifacts and their *)
(* comparison are reduced to the verdict of a build.                       *)
(***************************************************************************)
EXTENDS Integers, Sequences, FiniteSets

CONSTANTS
    Calls,        \* calls of CreateRebuildOp and of /rebuild, each with its job
    Extended,     \* the calls that ask for ExtendedExecution
    Direct,       \* the calls of /rebuild
    MaxCalls,     \* bound: how many calls are made and not refused
    Attempts,     \* run IDs: a record is found by the target and the run
    RunOf,        \* the run a call names: a task delivered twice, or a call made
                  \* again, names the same one
    Modes,        \* the overwrite modes of the requests
    Versions,     \* ServiceRepo.Ref of the replicas, each with a changelog entry
    FaultKinds,   \* the faults that may happen, out of AllFaults
    MaxFaults     \* bound: how many of them

AllModes == {"", "force", "service_update"}
AllFaults == {"db", "crash", "launch", "launch_reply_lost", "publish_reply_lost"}

ASSUME RebuildAttemptAssumption ==
    /\ Extended \subseteq Calls
    /\ Direct \subseteq Calls \ Extended
    /\ MaxCalls \in Nat
    /\ RunOf \in [Calls -> Attempts]
    /\ Modes \subseteq AllModes
    /\ Versions \subseteq Nat
    /\ FaultKinds \subseteq AllFaults
    /\ MaxFaults \in Nat

VARIABLES
    rec,      \* the status of each attempt record; "none" is no record
    bundle,   \* the generations of the target's attestation bundle
    call,     \* where each CreateRebuildOp or /rebuild stands
    job,      \* where each RebuildPackage stands, and its locals
    faults    \* faults so far

vars == <<rec, bundle, call, job, faults>>

-----------------------------------------------------------------------------
Final == {"success", "failure", "error", "cancelled"}

\* pc: the next call of the job.  allow: a.AllowOverwrite.  ended: its context is
\* cancelled or expired.
NoJob == [pc |-> "none", mode |-> "", version |-> 0, allow |-> FALSE,
          verdict |-> "none", ended |-> FALSE]

Init ==
    /\ rec = [a \in Attempts |-> "none"]
    /\ bundle = << >>
    /\ call = [c \in Calls |-> "idle"]
    /\ job = [c \in Calls |-> NoJob]
    /\ faults = 0

Fault(kind) ==
    /\ kind \in FaultKinds
    /\ faults < MaxFaults
    /\ faults' = faults + 1

SetStatus(c, status) == rec' = [rec EXCEPT ![RunOf[c]] = status]

\* A write that fails may have been applied all the same.
WriteFails(write) == Fault("db") /\ (write \/ UNCHANGED rec)

CallTo(c, where) == call' = [call EXCEPT ![c] = where]
JobTo(c, where) == job' = [job EXCEPT ![c].pc = where]

Exists == bundle # << >>

-----------------------------------------------------------------------------
(* CreateRebuildOp, and /rebuild. *)

Begins(c) ==
    /\ call[c] = "idle"
    /\ Cardinality({d \in Calls : call[d] \notin {"idle", "refused"}}) < MaxCalls

StartJob(c) ==
    \E mode \in Modes, version \in Versions :
        job' = [job EXCEPT ![c] =
                  [NoJob EXCEPT !.pc = "init", !.mode = mode, !.version = version]]

\* Mutant: an existing record is overwritten.
InsertsBlindly(c) ==
    /\ c \in Extended /\ Begins(c)
    /\ SetStatus(c, "running") /\ CallTo(c, "launch")
    /\ UNCHANGED <<bundle, job, faults>>

\* ExtendedExecution: the record is created before the job, once per run.
InsertAttempt(c) ==
    /\ c \in Extended /\ Begins(c)
    /\ IF rec[RunOf[c]] = "none"
       THEN SetStatus(c, "running") /\ CallTo(c, "launch")
       ELSE UNCHANGED rec /\ CallTo(c, "refused")
    /\ UNCHANGED <<bundle, job, faults>>

InsertFails(c) ==
    /\ c \in Extended /\ Begins(c) /\ rec[RunOf[c]] = "none"
    /\ WriteFails(SetStatus(c, "running"))
    /\ CallTo(c, "failed")
    /\ UNCHANGED <<bundle, job>>

Launch(c) ==
    /\ call[c] = "launch"
    /\ StartJob(c) /\ CallTo(c, "answered")
    /\ UNCHANGED <<rec, bundle, faults>>

LaunchFails(c) ==
    /\ call[c] = "launch"
    /\ \/ Fault("launch") /\ UNCHANGED job
       \/ Fault("launch_reply_lost") /\ StartJob(c)
    /\ CallTo(c, "launch_failed")
    /\ UNCHANGED <<rec, bundle>>

\* Mutant: a failed launch is only reported to the caller.
LeavesRunning(c) ==
    /\ call[c] = "launch_failed"
    /\ CallTo(c, "marked")
    /\ UNCHANGED <<rec, bundle, job, faults>>

\* Best effort: the error of this write is ignored.
MarkFailed(c) ==
    /\ call[c] = "launch_failed"
    /\ \/ SetStatus(c, "error") /\ CallTo(c, "marked") /\ UNCHANGED faults
       \/ WriteFails(SetStatus(c, "error")) /\ CallTo(c, "failed")
    /\ UNCHANGED <<bundle, job>>

\* FastExecution, or /rebuild itself: the rebuild runs inside the call. Nothing looks
\* for a record of the run: RebuildPackage begins by writing one over it.
RunInProcess(c) ==
    /\ c \notin Extended /\ Begins(c)
    /\ StartJob(c) /\ CallTo(c, "running")
    /\ UNCHANGED <<rec, bundle, faults>>

\* CreateRebuildOp answers from the record.
AnswerInProcess(c) ==
    /\ c \notin Direct
    /\ call[c] = "running" /\ job[c].pc \in {"over", "unwritten"}
    /\ CallTo(c, IF rec[RunOf[c]] = "none" \/ job[c].ended THEN "failed" ELSE "answered")
    /\ UNCHANGED <<rec, bundle, job, faults>>

\* /rebuild answers with the verdict or the error it recorded; there is neither if its
\* first write failed.
AnswerRebuild(c) ==
    /\ c \in Direct
    /\ call[c] = "running" /\ job[c].pc \in {"over", "unwritten"}
    /\ CallTo(c, IF job[c].verdict = "none" THEN "failed" ELSE "answered")
    /\ UNCHANGED <<rec, bundle, job, faults>>

CallDies(c) ==
    /\ call[c] \in {"launch", "launch_failed", "running"}
    /\ Fault("crash")
    /\ CallTo(c, "died")
    /\ job' = IF call[c] = "running" THEN [job EXCEPT ![c].pc = "died"] ELSE job
    /\ UNCHANGED <<rec, bundle>>

-----------------------------------------------------------------------------
(* RebuildPackage and rebuildPackage. *)

Live(c) == ~job[c].ended

Verdict(c, v) == job' = [job EXCEPT ![c].pc = "finish", ![c].verdict = v]

\* The job is given up by its caller, or its BuildTimeout expires.
ContextEnds(c) ==
    /\ job[c].pc \in {"init", "check", "read", "build", "recheck", "publish", "finish"}
    /\ Live(c)
    /\ job' = [job EXCEPT ![c].ended = TRUE]
    /\ UNCHANGED <<rec, bundle, call, faults>>

UpsertRunning(c) ==
    /\ job[c].pc = "init"
    /\ \/ Live(c) /\ SetStatus(c, "running") /\ JobTo(c, "check") /\ UNCHANGED faults
       \/ WriteFails(SetStatus(c, "running")) /\ JobTo(c, "unwritten")
       \/ ~Live(c) /\ JobTo(c, "unwritten") /\ UNCHANGED <<rec, faults>>
    /\ UNCHANGED <<bundle, call>>

\* Mutant: the mode stays in the request when there is nothing to overwrite.
KeepsMode(c) ==
    /\ job[c].pc = "check" /\ Live(c)
    /\ CASE Exists /\ job[c].mode = "force" ->
                job' = [job EXCEPT ![c].pc = "build", ![c].allow = TRUE]
         [] Exists /\ job[c].mode = "service_update" -> JobTo(c, "read")
         [] Exists /\ job[c].mode = "" -> Verdict(c, "error")
         [] OTHER -> JobTo(c, "build")
    /\ UNCHANGED <<rec, bundle, call, faults>>

\* Is an existing bundle to be overwritten?  A force that overwrites nothing is
\* not recorded as one.
CheckExisting(c) ==
    /\ job[c].pc = "check" /\ Live(c)
    /\ CASE Exists /\ job[c].mode = "force" ->
                job' = [job EXCEPT ![c].pc = "build", ![c].allow = TRUE]
         [] Exists /\ job[c].mode = "service_update" -> JobTo(c, "read")
         [] Exists /\ job[c].mode = "" -> Verdict(c, "error")
         [] ~Exists /\ job[c].mode = "service_update" -> Verdict(c, "error")
         [] OTHER -> job' = [job EXCEPT ![c].pc = "build", ![c].mode = ""]
    /\ UNCHANGED <<rec, bundle, call, faults>>

\* changelog.EntryOnInterval: the service changed since it wrote that bundle.
ReadExisting(c) ==
    /\ job[c].pc = "read" /\ Live(c)
    /\ IF bundle[Len(bundle)].version < job[c].version
       THEN job' = [job EXCEPT ![c].pc = "build", ![c].allow = TRUE]
       ELSE Verdict(c, "error")
    /\ UNCHANGED <<rec, bundle, call, faults>>

Build(c) ==
    /\ job[c].pc = "build" /\ Live(c)
    /\ \/ JobTo(c, "recheck")
       \/ Verdict(c, "mismatch")
    /\ UNCHANGED <<rec, bundle, call, faults>>

\* PublishBundle looks again, then signs and writes without a precondition.
RecheckExisting(c) ==
    /\ job[c].pc = "recheck" /\ Live(c)
    /\ IF Exists /\ ~job[c].allow
       THEN Verdict(c, "error")
       ELSE JobTo(c, "publish")
    /\ UNCHANGED <<rec, bundle, call, faults>>

WriteBundle(c) ==
    bundle' = Append(bundle, [by |-> c, mode |-> job[c].mode, version |-> job[c].version])

Publish(c) ==
    /\ job[c].pc = "publish" /\ Live(c)
    /\ WriteBundle(c)
    /\ Verdict(c, "success")
    /\ UNCHANGED <<rec, call, faults>>

PublishUnanswered(c) ==
    /\ job[c].pc = "publish"
    /\ \/ ~Live(c) /\ UNCHANGED faults
       \/ Live(c) /\ Fault("publish_reply_lost")
    /\ WriteBundle(c)
    /\ Verdict(c, "unknown")
    /\ UNCHANGED <<rec, call>>

\* Any call of the rebuild fails, and all do once the context has ended.
StepFails(c) ==
    /\ job[c].pc \in {"check", "read", "build", "recheck", "publish"}
    /\ Verdict(c, "error")
    /\ UNCHANGED <<rec, bundle, call, faults>>

\* Mutant: a context that ended is looked at first.
CancelledFirst(c) ==
    CASE job[c].ended -> "cancelled"
      [] job[c].verdict = "success" /\ ~job[c].ended -> "success"
      [] job[c].verdict = "mismatch" /\ ~job[c].ended -> "failure"
      [] OTHER -> "error"

\* Mutant: the outcome of the publication does not count.
SucceedsUnpublished(c) ==
    CASE job[c].ended -> "cancelled"
      [] job[c].verdict = "mismatch" /\ ~job[c].ended -> "failure"
      [] OTHER -> "success"

\* Mutant: the verdict is stored as it is.
StoresVerdict(c) == job[c].verdict

\* The message of the verdict decides; an empty one is a success.
StatusOf(c) ==
    CASE job[c].verdict = "success" -> "success"
      [] job[c].verdict # "success" /\ job[c].ended -> "cancelled"
      [] job[c].verdict = "mismatch" /\ ~job[c].ended -> "failure"
      [] OTHER -> "error"

\* finish uses a background context; a failed write is only logged.
Finish(c) ==
    /\ job[c].pc = "finish"
    /\ \/ SetStatus(c, StatusOf(c)) /\ JobTo(c, "over") /\ UNCHANGED faults
       \/ WriteFails(SetStatus(c, StatusOf(c))) /\ JobTo(c, "unwritten")
    /\ UNCHANGED <<bundle, call>>

\* A Cloud Run job is not retried.  An in-process job dies with its call.
JobDies(c) ==
    /\ c \in Extended
    /\ job[c].pc \notin {"none", "over", "unwritten", "died"}
    /\ Fault("crash")
    /\ JobTo(c, "died")
    /\ UNCHANGED <<rec, bundle, call>>

-----------------------------------------------------------------------------
CallSteps(c) ==
    \/ InsertAttempt(c) \/ InsertFails(c) \/ Launch(c) \/ LaunchFails(c) \/ MarkFailed(c)
    \/ RunInProcess(c) \/ AnswerInProcess(c) \/ AnswerRebuild(c) \/ CallDies(c)

JobSteps(c) ==
    \/ ContextEnds(c) \/ UpsertRunning(c) \/ CheckExisting(c) \/ ReadExisting(c)
    \/ Build(c) \/ RecheckExisting(c) \/ Publish(c) \/ PublishUnanswered(c)
    \/ StepFails(c) \/ Finish(c) \/ JobDies(c)

Next == \E c \in Calls : CallSteps(c) \/ JobSteps(c)

Spec == Init /\ [][Next]_vars

\* A call in progress goes on, and so does a job: builds are bounded, and calls
\* of a context that has ended fail.
CallGoesOn(c) ==
    Launch(c) \/ LaunchFails(c) \/ MarkFailed(c) \/ AnswerInProcess(c) \/ AnswerRebuild(c)
JobGoesOn(c) ==
    \/ UpsertRunning(c) \/ CheckExisting(c) \/ ReadExisting(c) \/ Build(c)
    \/ RecheckExisting(c) \/ Publish(c) \/ PublishUnanswered(c) \/ StepFails(c)
    \/ Finish(c)

FairSpec ==
    /\ Spec
    /\ \A c \in Calls : WF_vars(CallGoesOn(c)) /\ WF_vars(JobGoesOn(c))
-----------------------------------------------------------------------------
(* Properties. *)

\* The records, the bundle, the calls and the jobs hold what the code writes.
TypeOK ==
    /\ rec \in [Attempts -> Final \cup {"none", "running"}]
    /\ bundle \in Seq([by : Calls, mode : Modes \cup {""}, version : Versions])
    /\ call \in [Calls -> {"idle", "launch", "launch_failed", "running", "refused",
                           "answered", "marked", "failed", "died"}]
    /\ job \in [Calls ->
          [pc : {"none", "init", "check", "read", "build", "recheck", "publish",
                 "finish", "over", "unwritten", "died"},
           mode : Modes \cup {""}, version : Versions \cup {0}, allow : BOOLEAN,
           verdict : {"none", "error", "mismatch", "success", "unknown"},
           ended : BOOLEAN]]
    /\ faults \in 0 .. MaxFaults

Published(a) == \E i \in DOMAIN bundle : RunOf[bundle[i].by] = a

\* A run that is reported as a success has an attestation in the bucket: no path
\* from a failed build, a refused overwrite or a failed publication ends there.
SuccessIsPublished == \A a \in Attempts : rec[a] = "success" => Published(a)

\* The launch of run a was reported as failed although the job was started.
LaunchLost(a) ==
    \E c \in Calls : /\ RunOf[c] = a
                     /\ call[c] \in {"launch_failed", "marked", "failed", "died"}
                     /\ c \in Extended /\ job[c].pc # "none"

\* Run a was asked for a second time, by a call that nothing refused: Upsert takes a
\* record of any status back to Running.
Repeated(a) ==
    \E c \in Calls \ Extended, d \in Calls :
        /\ c # d /\ RunOf[c] = a /\ RunOf[d] = a
        /\ call[c] # "idle" /\ call[d] \notin {"idle", "refused"}

\* The other way round: a run that is reported as failed, broken or cancelled has
\* written no attestation, even if its context ends while it publishes; unless
\* the answer to its upload, or to the launch of its job, was lost, or the run
\* was repeated in process: the second job finds the bundle of the first, and
\* records that conflict over its success.
FailureIsUnpublished ==
    \A c \in Calls :
        (/\ rec[RunOf[c]] \in {"failure", "error", "cancelled"}
         /\ \E i \in DOMAIN bundle : bundle[i].by = c)
        => job[c].verdict = "unknown" \/ LaunchLost(RunOf[c]) \/ Repeated(RunOf[c])

\* An attestation names an overwrite mode only if it did overwrite one, and a service
\* update replaces that of an older service: the mode is cleared when the check
\* found nothing, and nothing that happens until the upload makes it untrue.
RecordedModeIsTrue ==
    \A i \in DOMAIN bundle :
        /\ bundle[i].mode # "" => i > 1
        /\ bundle[i].mode = "service_update" =>
               \E k \in 1 .. i - 1 : bundle[k].version < bundle[i].version

\* An operation a client has seen done stays as it was, unless the launch of its
\* job was reported as failed although it was started, and the job and the
\* best-effort write of the call overwrite each other; or the run was repeated
\* in process, and its jobs do.
DoneIsFinal ==
    [][\A a \in Attempts : rec[a] \in Final =>
            rec'[a] = rec[a] \/ LaunchLost(a) \/ Repeated(a)]_vars

\* Nobody will finish run a: its process died, or could not write the record.
Abandoned(a) ==
    \E c \in Calls : RunOf[c] = a /\ (call[c] \in {"failed", "died"}
                                      \/ job[c].pc \in {"unwritten", "died"})

\* Every operation ends, whatever step of the rebuild fails, unless a process
\* died or a database write failed: no reaper ends it then.
OperationEnds ==
    \A a \in Attempts : rec[a] = "running" ~> (rec[a] \in Final \/ Abandoned(a))

\* rebuild.go:373 on the absence of a bundle: "This ensures racing rebuilds won't
\* result in multiple attestations being written".  They do: both look, then write.
OneAttestation == \A i \in DOMAIN bundle : bundle[i].mode = "" => i = 1

=============================================================================
