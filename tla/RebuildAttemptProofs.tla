------------------------- MODULE RebuildAttemptProofs -------------------------
(***************************************************************************)
(* What an attempt record and an attestation bundle promise about each     *)
(* other, proved for any number of calls, runs, versions and faults.       *)
(*                                                                         *)
(* The argument: a job's verdict is a success only once its bundle is      *)
(* there, and bundles are never removed, so that whatever a job found to   *)
(* overwrite is still there when it uploads, however many rebuilds came in *)
(* between.                                                                *)
(***************************************************************************)
EXTENDS RebuildAttempt, TLAPS

\* A verdict of success has a bundle.
Backed == \A c \in Calls :
    job[c].verdict = "success" => \E i \in DOMAIN bundle : bundle[i].by = c

\* What a job has decided to overwrite is there, and so is what it is about to read.
Grounded == \A c \in Calls :
    /\ job[c].pc \in {"init", "check", "read", "build", "recheck", "publish"} =>
        job[c].version \in Versions
    /\ job[c].pc = "read" => Exists
    /\ job[c].pc \in {"build", "recheck", "publish"} =>
        /\ job[c].mode # "" => Exists
        /\ job[c].mode = "service_update" =>
               \E k \in DOMAIN bundle : bundle[k].version < job[c].version

IndInv == TypeOK /\ Backed /\ Grounded /\ SuccessIsPublished /\ RecordedModeIsTrue

-----------------------------------------------------------------------------
Statuses == Final \cup {"none", "running"}
Bundles == [by : Calls, mode : Modes \cup {""}, version : Versions]
CallPCs == {"idle", "launch", "launch_failed", "running", "refused", "answered", "marked",
            "failed", "died"}
JobPCs == {"none", "init", "check", "read", "build", "recheck", "publish", "finish", "over",
           "unwritten", "died"}
Verdicts == {"none", "error", "mismatch", "success", "unknown"}
Jobs == [pc : JobPCs, mode : Modes \cup {""}, version : Versions \cup {0}, allow : BOOLEAN,
         verdict : Verdicts, ended : BOOLEAN]

\* TypeOK with its sets named.
Typed ==
    /\ rec \in [Attempts -> Statuses]
    /\ bundle \in Seq(Bundles)
    /\ call \in [Calls -> CallPCs]
    /\ job \in [Calls -> Jobs]
    /\ faults \in 0 .. MaxFaults

LEMMA TypedIsTypeOK == (TypeOK <=> Typed) /\ (TypeOK' <=> Typed')
    BY DEF TypeOK, Typed, Statuses, Bundles, CallPCs, JobPCs, Verdicts, Jobs

LEMMA FaultType ==
    ASSUME Typed, NEW kind, Fault(kind)
    PROVE  faults' \in 0 .. MaxFaults
    BY RebuildAttemptAssumption DEF Typed, Fault

\* A write of a record, applied or reported as failed, changes one run's record or none.
LEMMA StatusType ==
    ASSUME Typed, NEW c \in Calls, NEW status \in Statuses,
           SetStatus(c, status) \/ UNCHANGED rec
    PROVE  rec' \in [Attempts -> Statuses]
    BY DEF Typed, SetStatus

LEMMA CallType ==
    ASSUME Typed, NEW c \in Calls, NEW where \in CallPCs, CallTo(c, where)
    PROVE  call' \in [Calls -> CallPCs]
    BY DEF Typed, CallTo

\* The steps of a job: each changes its own, and what is not named stays.
LEMMA JobGoes ==
    ASSUME Typed, NEW c \in Calls, NEW where \in JobPCs, JobTo(c, where)
    PROVE  /\ job' \in [Calls -> Jobs]
           /\ job'[c].pc = where
           /\ job'[c].mode = job[c].mode
           /\ job'[c].version = job[c].version
           /\ job'[c].verdict = job[c].verdict
           /\ \A d \in Calls : d # c => job'[d] = job[d]
<1>1. job \in [Calls -> Jobs] /\ job[c] \in Jobs
    BY DEF Typed
<1>2. [job[c] EXCEPT !.pc = where] \in Jobs
    BY <1>1, Zenon DEF Jobs
<1>3. job' = [job EXCEPT ![c] = [job[c] EXCEPT !.pc = where]]
    BY <1>1 DEF JobTo
<1>4. job'[c] = [job[c] EXCEPT !.pc = where]
    BY <1>1, <1>3
<1>. QED BY <1>1, <1>2, <1>3, <1>4 DEF Jobs

LEMMA JobDecides ==
    ASSUME Typed, NEW c \in Calls, NEW v \in Verdicts, Verdict(c, v)
    PROVE  /\ job' \in [Calls -> Jobs]
           /\ job'[c].pc = "finish"
           /\ job'[c].verdict = v
           /\ \A d \in Calls : d # c => job'[d] = job[d]
<1>1. job \in [Calls -> Jobs] /\ job[c] \in Jobs /\ "finish" \in JobPCs
    BY DEF Typed, JobPCs
<1>2. [job[c] EXCEPT !.pc = "finish", !.verdict = v] \in Jobs
    BY <1>1, Zenon DEF Jobs
<1>3. job' = [job EXCEPT ![c] = [job[c] EXCEPT !.pc = "finish", !.verdict = v]]
    BY <1>1 DEF Verdict
<1>4. job'[c] = [job[c] EXCEPT !.pc = "finish", !.verdict = v]
    BY <1>1, <1>3
<1>. QED BY <1>1, <1>2, <1>3, <1>4 DEF Jobs

LEMMA JobStarts ==
    ASSUME Typed, NEW c \in Calls, StartJob(c)
    PROVE  /\ job' \in [Calls -> Jobs]
           /\ job'[c].pc = "init"
           /\ job'[c].version \in Versions
           /\ job'[c].verdict = "none"
           /\ \A d \in Calls : d # c => job'[d] = job[d]
<1>1. PICK mode \in Modes, version \in Versions :
         job' = [job EXCEPT ![c] =
                   [NoJob EXCEPT !.pc = "init", !.mode = mode, !.version = version]]
    BY DEF StartJob
<1>. DEFINE new == [NoJob EXCEPT !.pc = "init", !.mode = mode, !.version = version]
<1>2. NoJob \in Jobs
    <2>1. "none" \in JobPCs /\ "none" \in Verdicts /\ "" \in Modes \cup {""}
          /\ 0 \in Versions \cup {0}
        BY DEF JobPCs, Verdicts
    <2>. QED BY <2>1, Zenon DEF Jobs, NoJob
<1>3. new \in Jobs
    <2>1. "init" \in JobPCs /\ mode \in Modes \cup {""} /\ version \in Versions \cup {0}
        BY DEF JobPCs
    <2>. QED BY <1>2, <2>1, Zenon DEF Jobs
<1>4. new.pc = "init" /\ new.version = version
    BY <1>2, Zenon DEF Jobs
<1>5. new.verdict = "none"
    BY Zenon DEF NoJob
<1>. HIDE DEF new
<1>6. job \in [Calls -> Jobs] /\ job' = [job EXCEPT ![c] = new]
    BY <1>1 DEF Typed, new
<1>. QED BY <1>3, <1>4, <1>5, <1>6

LEMMA JobAllows ==
    ASSUME Typed, NEW c \in Calls, job' = [job EXCEPT ![c].pc = "build", ![c].allow = TRUE]
    PROVE  /\ job' \in [Calls -> Jobs]
           /\ job'[c].pc = "build"
           /\ job'[c].mode = job[c].mode
           /\ job'[c].version = job[c].version
           /\ job'[c].verdict = job[c].verdict
           /\ \A d \in Calls : d # c => job'[d] = job[d]
<1>1. job \in [Calls -> Jobs] /\ job[c] \in Jobs /\ "build" \in JobPCs
    BY DEF Typed, JobPCs
<1>2. [job[c] EXCEPT !.pc = "build", !.allow = TRUE] \in Jobs
    BY <1>1, Zenon DEF Jobs
<1>3. job' = [job EXCEPT ![c] = [job[c] EXCEPT !.pc = "build", !.allow = TRUE]]
    BY <1>1
<1>4. job'[c] = [job[c] EXCEPT !.pc = "build", !.allow = TRUE]
    BY <1>1, <1>3
<1>5. /\ job'[c].pc = "build" /\ job'[c].mode = job[c].mode
      /\ job'[c].version = job[c].version /\ job'[c].verdict = job[c].verdict
    BY <1>1, <1>4, Zenon DEF Jobs
<1>. QED BY <1>1, <1>2, <1>3, <1>5

LEMMA JobClearsMode ==
    ASSUME Typed, NEW c \in Calls, job' = [job EXCEPT ![c].pc = "build", ![c].mode = ""]
    PROVE  /\ job' \in [Calls -> Jobs]
           /\ job'[c].pc = "build"
           /\ job'[c].mode = ""
           /\ job'[c].version = job[c].version
           /\ job'[c].verdict = job[c].verdict
           /\ \A d \in Calls : d # c => job'[d] = job[d]
<1>1. /\ job \in [Calls -> Jobs] /\ job[c] \in Jobs
      /\ "build" \in JobPCs /\ "" \in Modes \cup {""}
    BY DEF Typed, JobPCs
<1>2. [job[c] EXCEPT !.pc = "build", !.mode = ""] \in Jobs
    BY <1>1, Zenon DEF Jobs
<1>3. job' = [job EXCEPT ![c] = [job[c] EXCEPT !.pc = "build", !.mode = ""]]
    BY <1>1
<1>4. job'[c] = [job[c] EXCEPT !.pc = "build", !.mode = ""]
    BY <1>1, <1>3
<1>5. /\ job'[c].pc = "build" /\ job'[c].mode = ""
      /\ job'[c].version = job[c].version /\ job'[c].verdict = job[c].verdict
    BY <1>1, <1>4, Zenon DEF Jobs
<1>. QED BY <1>1, <1>2, <1>3, <1>5

LEMMA JobEnded ==
    ASSUME Typed, NEW c \in Calls, job' = [job EXCEPT ![c].ended = TRUE]
    PROVE  /\ job' \in [Calls -> Jobs]
           /\ job'[c].pc = job[c].pc
           /\ job'[c].mode = job[c].mode
           /\ job'[c].version = job[c].version
           /\ job'[c].verdict = job[c].verdict
           /\ \A d \in Calls : d # c => job'[d] = job[d]
<1>1. job \in [Calls -> Jobs] /\ job[c] \in Jobs
    BY DEF Typed
<1>2. [job[c] EXCEPT !.ended = TRUE] \in Jobs
    BY <1>1, Zenon DEF Jobs
<1>3. job' = [job EXCEPT ![c] = [job[c] EXCEPT !.ended = TRUE]]
    BY <1>1
<1>4. job'[c] = [job[c] EXCEPT !.ended = TRUE]
    BY <1>1, <1>3
<1>5. /\ job'[c].pc = job[c].pc /\ job'[c].mode = job[c].mode
      /\ job'[c].version = job[c].version /\ job'[c].verdict = job[c].verdict
    BY <1>1, <1>4, Zenon DEF Jobs
<1>. QED BY <1>1, <1>2, <1>3, <1>5

\* An upload adds a generation; none is lost.
LEMMA Uploads ==
    ASSUME Typed, NEW c \in Calls, job[c].version \in Versions, WriteBundle(c)
    PROVE  /\ bundle' \in Seq(Bundles)
           /\ Len(bundle') = Len(bundle) + 1
           /\ \A i \in DOMAIN bundle : i \in DOMAIN bundle' /\ bundle'[i] = bundle[i]
           /\ Len(bundle) + 1 \in DOMAIN bundle'
           /\ bundle'[Len(bundle) + 1].by = c
           /\ bundle'[Len(bundle) + 1].mode = job[c].mode
           /\ bundle'[Len(bundle) + 1].version = job[c].version
           /\ \A i \in DOMAIN bundle' : i \in DOMAIN bundle \/ i = Len(bundle) + 1
<1>. DEFINE new == [by |-> c, mode |-> job[c].mode, version |-> job[c].version]
<1>1. job[c].mode \in Modes \cup {""}
    BY DEF Typed, Jobs
<1>2. new \in Bundles
    BY <1>1, Zenon DEF Bundles
<1>3. bundle' = Append(bundle, new)
    BY DEF WriteBundle
<1>4. new.by = c /\ new.mode = job[c].mode /\ new.version = job[c].version
    OBVIOUS
<1>. HIDE DEF new
<1>5. bundle \in Seq(Bundles) /\ Len(bundle) \in Nat /\ DOMAIN bundle = 1 .. Len(bundle)
    BY DEF Typed
<1>6. /\ bundle' \in Seq(Bundles)
      /\ Len(bundle') = Len(bundle) + 1
      /\ DOMAIN bundle' = 1 .. Len(bundle) + 1
      /\ \A i \in 1 .. Len(bundle) : bundle'[i] = bundle[i]
      /\ bundle'[Len(bundle) + 1] = new
    BY <1>2, <1>3, <1>5
<1>. QED BY <1>4, <1>5, <1>6
-----------------------------------------------------------------------------
\* A step of call c or its job, seen by the invariants of jobs: what it must establish.
LEMMA JobKept ==
    ASSUME Backed, Grounded, NEW c \in Calls,
           \A d \in Calls : d # c => job'[d] = job[d],
           \A i \in DOMAIN bundle : i \in DOMAIN bundle' /\ bundle'[i] = bundle[i],
           Exists => Exists',
           job'[c].verdict = "success" => \E i \in DOMAIN bundle' : bundle'[i].by = c,
           job'[c].pc \in {"init", "check", "read", "build", "recheck", "publish"} =>
               job'[c].version \in Versions,
           job'[c].pc = "read" => Exists',
           job'[c].pc \in {"build", "recheck", "publish"} =>
               /\ job'[c].mode # "" => Exists'
               /\ job'[c].mode = "service_update" =>
                      \E k \in DOMAIN bundle' : bundle'[k].version < job'[c].version
    PROVE  Backed' /\ Grounded'
<1>1. ASSUME NEW d \in Calls, job'[d].verdict = "success"
      PROVE  \E i \in DOMAIN bundle' : bundle'[i].by = d
    <2>1. CASE d = c
        BY <1>1, <2>1
    <2>2. CASE d # c
        <3>1. PICK i \in DOMAIN bundle : bundle[i].by = d
            BY <1>1, <2>2 DEF Backed
        <3>. QED BY <3>1
    <2>. QED BY <2>1, <2>2
<1>2. ASSUME NEW d \in Calls
      PROVE  /\ job'[d].pc \in {"init", "check", "read", "build", "recheck", "publish"} =>
                    job'[d].version \in Versions
             /\ job'[d].pc = "read" => Exists'
             /\ job'[d].pc \in {"build", "recheck", "publish"} =>
                    /\ job'[d].mode # "" => Exists'
                    /\ job'[d].mode = "service_update" =>
                           \E k \in DOMAIN bundle' : bundle'[k].version < job'[d].version
    <2>1. CASE d = c
        BY <2>1
    <2>2. CASE d # c
        <3>1. job'[d] = job[d]
            BY <2>2
        <3>2. ASSUME job[d].pc \in {"build", "recheck", "publish"}, job[d].mode = "service_update"
              PROVE  \E k \in DOMAIN bundle' : bundle'[k].version < job[d].version
            <4>1. PICK k \in DOMAIN bundle : bundle[k].version < job[d].version
                BY <3>2 DEF Grounded
            <4>. QED BY <4>1
        <3>. QED BY <3>1, <3>2 DEF Grounded
    <2>. QED BY <2>1, <2>2
<1>. QED BY <1>1, <1>2 DEF Backed, Grounded

\* A step that leaves the bundles alone and takes the job nowhere new.
LEMMA JobStays ==
    ASSUME Backed, Grounded, bundle' = bundle, NEW c \in Calls,
           \A d \in Calls : d # c => job'[d] = job[d],
           job'[c].verdict \in {job[c].verdict, "none", "error", "mismatch"},
           \/ job'[c].pc \in {"finish", "over", "unwritten", "died"}
           \/ job'[c].pc \in {"init", "check"} /\ job'[c].version \in Versions
           \/ /\ job'[c].pc = job[c].pc \/ (job[c].pc = "build" /\ job'[c].pc = "recheck")
                                         \/ (job[c].pc = "recheck" /\ job'[c].pc = "publish")
              /\ job'[c].mode = job[c].mode /\ job'[c].version = job[c].version
    PROVE  Backed' /\ Grounded'
<1>1. Exists => Exists'
    BY DEF Exists
<1>2. job'[c].verdict = "success" => \E i \in DOMAIN bundle' : bundle'[i].by = c
    BY DEF Backed
<1>3. CASE job'[c].pc \in {"finish", "over", "unwritten", "died"}
    BY <1>1, <1>2, <1>3, JobKept
<1>4. CASE job'[c].pc \in {"init", "check"} /\ job'[c].version \in Versions
    BY <1>1, <1>2, <1>4, JobKept
<1>5. CASE /\ job'[c].pc = job[c].pc \/ (job[c].pc = "build" /\ job'[c].pc = "recheck")
                                     \/ (job[c].pc = "recheck" /\ job'[c].pc = "publish")
           /\ job'[c].mode = job[c].mode /\ job'[c].version = job[c].version
    <2>1. /\ job'[c].pc \in {"init", "check", "read", "build", "recheck", "publish"} =>
                job'[c].version \in Versions
          /\ job'[c].pc = "read" => Exists'
          /\ job'[c].pc \in {"build", "recheck", "publish"} =>
                /\ job'[c].mode # "" => Exists'
                /\ job'[c].mode = "service_update" =>
                       \E k \in DOMAIN bundle' : bundle'[k].version < job'[c].version
        BY <1>1, <1>5 DEF Grounded
    <2>. QED BY <1>1, <1>2, <2>1, JobKept
<1>. QED BY <1>3, <1>4, <1>5

\* A status is written by a call or its job; a success needs the job's bundle.
LEMMA StatusKept ==
    ASSUME Typed, SuccessIsPublished, NEW c \in Calls, NEW status,
           SetStatus(c, status) \/ UNCHANGED rec,
           \A i \in DOMAIN bundle : i \in DOMAIN bundle' /\ bundle'[i] = bundle[i],
           status = "success" => \E i \in DOMAIN bundle : bundle[i].by = c
    PROVE  SuccessIsPublished'
<1>. SUFFICES ASSUME NEW a \in Attempts, rec'[a] = "success"
              PROVE  \E i \in DOMAIN bundle' : RunOf[bundle'[i].by] = a
    BY DEF SuccessIsPublished, Published
<1>1. CASE rec[a] = "success"
    <2>1. PICK i \in DOMAIN bundle : RunOf[bundle[i].by] = a
        BY <1>1 DEF SuccessIsPublished, Published
    <2>. QED BY <2>1
<1>2. CASE rec[a] # "success"
    <2>1. rec' = [rec EXCEPT ![RunOf[c]] = status]
        BY <1>2 DEF SetStatus
    <2>2. RunOf[c] = a /\ status = "success"
        BY <1>2, <2>1 DEF Typed
    <2>3. PICK i \in DOMAIN bundle : bundle[i].by = c
        BY <2>2
    <2>. QED BY <2>2, <2>3
<1>. QED BY <1>1, <1>2

\* Where nothing is uploaded, records and bundles agree as before.
LEMMA BundleStays ==
    ASSUME Typed, SuccessIsPublished, RecordedModeIsTrue, bundle' = bundle, NEW c \in Calls,
           \/ UNCHANGED rec
           \/ SetStatus(c, "running")
           \/ SetStatus(c, "error")
    PROVE  SuccessIsPublished' /\ RecordedModeIsTrue'
<1>1. SuccessIsPublished'
    <2>1. CASE UNCHANGED rec \/ SetStatus(c, "running")
        BY <2>1, StatusKept
    <2>2. CASE SetStatus(c, "error")
        BY <2>2, StatusKept
    <2>. QED BY <2>1, <2>2
<1>. QED BY <1>1 DEF RecordedModeIsTrue

\* An upload names a mode only if the job found something to overwrite, which is still there.
LEMMA UploadIsTrue ==
    ASSUME Typed, Grounded, RecordedModeIsTrue, NEW c \in Calls, job[c].pc = "publish",
           WriteBundle(c)
    PROVE  RecordedModeIsTrue'
<1>1. job[c].version \in Versions
    BY DEF Grounded
<1>2. /\ \A i \in DOMAIN bundle : i \in DOMAIN bundle' /\ bundle'[i] = bundle[i]
      /\ bundle'[Len(bundle) + 1].mode = job[c].mode
      /\ bundle'[Len(bundle) + 1].version = job[c].version
      /\ \A i \in DOMAIN bundle' : i \in DOMAIN bundle \/ i = Len(bundle) + 1
    BY <1>1, Uploads
<1>3. DOMAIN bundle = 1 .. Len(bundle) /\ Len(bundle) \in Nat
      /\ (bundle # << >> => Len(bundle) > 0)
    BY DEF Typed
<1>. SUFFICES ASSUME NEW i \in DOMAIN bundle'
              PROVE  /\ bundle'[i].mode # "" => i > 1
                     /\ bundle'[i].mode = "service_update" =>
                            \E k \in 1 .. i - 1 : bundle'[k].version < bundle'[i].version
    BY DEF RecordedModeIsTrue
<1>4. CASE i \in DOMAIN bundle
    <2>1. bundle'[i] = bundle[i] /\ 1 .. i - 1 \subseteq DOMAIN bundle
        BY <1>2, <1>3, <1>4
    <2>2. ASSUME bundle[i].mode = "service_update"
          PROVE  \E k \in 1 .. i - 1 : bundle'[k].version < bundle[i].version
        <3>1. PICK k \in 1 .. i - 1 : bundle[k].version < bundle[i].version
            BY <1>4, <2>2 DEF RecordedModeIsTrue
        <3>2. bundle'[k] = bundle[k]
            BY <1>2, <2>1
        <3>. QED BY <3>1, <3>2
    <2>3. bundle[i].mode # "" => i > 1
        BY <1>4 DEF RecordedModeIsTrue
    <2>. QED BY <2>1, <2>2, <2>3
<1>5. CASE i = Len(bundle) + 1
    <2>1. bundle'[i].mode # "" => i > 1
        <3>1. bundle'[i].mode = job[c].mode
            BY <1>2, <1>5
        <3>2. job[c].mode # "" => bundle # << >>
            BY DEF Grounded, Exists
        <3>3. bundle # << >> => i > 1
            BY <1>3, <1>5
        <3>. QED BY <3>1, <3>2, <3>3
    <2>2. ASSUME job[c].mode = "service_update"
          PROVE  \E k \in 1 .. i - 1 : bundle'[k].version < job[c].version
        <3>1. PICK k \in DOMAIN bundle : bundle[k].version < job[c].version
            BY <2>2 DEF Grounded
        <3>2. k \in 1 .. i - 1 /\ bundle'[k] = bundle[k]
            BY <1>2, <1>3, <1>5
        <3>. QED BY <3>1, <3>2
    <2>. QED BY <1>2, <1>5, <2>1, <2>2
<1>. QED BY <1>2, <1>4, <1>5
-----------------------------------------------------------------------------
\* Every step keeps the variables in their types.
LEMMA TypeStep ==
    ASSUME TypeOK, Grounded, [Next]_vars
    PROVE  TypeOK'
<1>. SUFFICES Typed'
    BY TypedIsTypeOK
<1>0. Typed
    BY TypedIsTypeOK
<1>1. ASSUME NEW c \in Calls, InsertAttempt(c) PROVE Typed'
    BY <1>0, <1>1, StatusType, CallType DEF Typed, InsertAttempt, Statuses, CallPCs
<1>2. ASSUME NEW c \in Calls, InsertFails(c) PROVE Typed'
    BY <1>0, <1>2, StatusType, CallType, FaultType DEF Typed, InsertFails, WriteFails, Statuses,
        CallPCs
<1>3. ASSUME NEW c \in Calls, Launch(c) PROVE Typed'
    BY <1>0, <1>3, JobStarts, CallType DEF Typed, Launch, CallPCs
<1>4. ASSUME NEW c \in Calls, LaunchFails(c) PROVE Typed'
    BY <1>0, <1>4, JobStarts, CallType, FaultType DEF Typed, LaunchFails, CallPCs
<1>5. ASSUME NEW c \in Calls, MarkFailed(c) PROVE Typed'
    BY <1>0, <1>5, StatusType, CallType, FaultType DEF Typed, MarkFailed, WriteFails, Statuses,
        Final, CallPCs
<1>6. ASSUME NEW c \in Calls, RunInProcess(c) PROVE Typed'
    BY <1>0, <1>6, JobStarts, CallType DEF Typed, RunInProcess, CallPCs
<1>7. ASSUME NEW c \in Calls, AnswerInProcess(c) PROVE Typed'
    BY <1>0, <1>7, CallType DEF Typed, AnswerInProcess, CallPCs
<1>8. ASSUME NEW c \in Calls, CallDies(c) PROVE Typed'
    BY <1>0, <1>8, CallType, JobGoes, FaultType DEF Typed, CallDies, CallPCs, JobPCs, JobTo
<1>9. ASSUME NEW c \in Calls, ContextEnds(c) PROVE Typed'
    BY <1>0, <1>9, JobEnded DEF Typed, ContextEnds
<1>10. ASSUME NEW c \in Calls, UpsertRunning(c) PROVE Typed'
    BY <1>0, <1>10, StatusType, JobGoes, FaultType DEF Typed, UpsertRunning, WriteFails,
        Statuses, JobPCs
<1>11. ASSUME NEW c \in Calls, CheckExisting(c) PROVE Typed'
    BY <1>0, <1>11, JobGoes, JobDecides, JobAllows, JobClearsMode DEF Typed, CheckExisting,
        JobPCs, Verdicts
<1>12. ASSUME NEW c \in Calls, ReadExisting(c) PROVE Typed'
    BY <1>0, <1>12, JobDecides, JobAllows DEF Typed, ReadExisting, Verdicts
<1>13. ASSUME NEW c \in Calls, Build(c) PROVE Typed'
    BY <1>0, <1>13, JobGoes, JobDecides DEF Typed, Build, JobPCs, Verdicts
<1>14. ASSUME NEW c \in Calls, RecheckExisting(c) PROVE Typed'
    BY <1>0, <1>14, JobGoes, JobDecides DEF Typed, RecheckExisting, JobPCs, Verdicts
<1>15. ASSUME NEW c \in Calls, Publish(c) PROVE Typed'
    BY <1>0, <1>15, JobDecides, Uploads DEF Typed, Publish, Verdicts, Grounded
<1>16. ASSUME NEW c \in Calls, PublishUnanswered(c) PROVE Typed'
    BY <1>0, <1>16, JobDecides, Uploads, FaultType DEF Typed, PublishUnanswered, Verdicts,
        Grounded
<1>17. ASSUME NEW c \in Calls, StepFails(c) PROVE Typed'
    BY <1>0, <1>17, JobDecides DEF Typed, StepFails, Verdicts
<1>18. ASSUME NEW c \in Calls, Finish(c) PROVE Typed'
    BY <1>0, <1>18, StatusType, JobGoes, FaultType DEF Typed, Finish, WriteFails, StatusOf,
        Statuses, Final, JobPCs
<1>19. ASSUME NEW c \in Calls, JobDies(c) PROVE Typed'
    BY <1>0, <1>19, JobGoes, FaultType DEF Typed, JobDies, JobPCs
<1>20. ASSUME NEW c \in Calls, AnswerRebuild(c) PROVE Typed'
    BY <1>0, <1>20, CallType DEF Typed, AnswerRebuild, CallPCs
<1>21. CASE UNCHANGED vars
    BY <1>0, <1>21 DEF Typed, vars
<1>. QED BY <1>1, <1>2, <1>3, <1>4, <1>5, <1>6, <1>7, <1>8, <1>9, <1>10, <1>11, <1>12, <1>13,
         <1>14, <1>15, <1>16, <1>17, <1>18, <1>19, <1>20, <1>21 DEF Next, CallSteps, JobSteps

\* Every step keeps what jobs, records and bundles say of each other.
LEMMA InvStep ==
    ASSUME IndInv, [Next]_vars
    PROVE  Backed' /\ Grounded' /\ SuccessIsPublished' /\ RecordedModeIsTrue'
<1>0. Typed /\ Backed /\ Grounded /\ SuccessIsPublished /\ RecordedModeIsTrue
    BY TypedIsTypeOK DEF IndInv
<1>. DEFINE Rest == Backed' /\ Grounded' /\ SuccessIsPublished' /\ RecordedModeIsTrue'
<1>1. ASSUME NEW c \in Calls, InsertAttempt(c) PROVE Rest
    <2>1. /\ \A d \in Calls : d # c => job'[d] = job[d]
          /\ job'[c].verdict \in {job[c].verdict, "none", "error", "mismatch"}
          /\ \/ job'[c].pc \in {"finish", "over", "unwritten", "died"}
             \/ job'[c].pc \in {"init", "check"} /\ job'[c].version \in Versions
             \/ /\ job'[c].pc = job[c].pc \/ (job[c].pc = "build" /\ job'[c].pc = "recheck")
                                           \/ (job[c].pc = "recheck" /\ job'[c].pc = "publish")
                /\ job'[c].mode = job[c].mode /\ job'[c].version = job[c].version
        BY <1>0, <1>1 DEF InsertAttempt
    <2>2. /\ bundle' = bundle
          /\ UNCHANGED rec \/ SetStatus(c, "running") \/ SetStatus(c, "error")
        BY <1>1 DEF InsertAttempt, SetStatus
    <2>. QED BY <1>0, <2>1, <2>2, JobStays, BundleStays
<1>2. ASSUME NEW c \in Calls, InsertFails(c) PROVE Rest
    <2>1. /\ \A d \in Calls : d # c => job'[d] = job[d]
          /\ job'[c].verdict \in {job[c].verdict, "none", "error", "mismatch"}
          /\ \/ job'[c].pc \in {"finish", "over", "unwritten", "died"}
             \/ job'[c].pc \in {"init", "check"} /\ job'[c].version \in Versions
             \/ /\ job'[c].pc = job[c].pc \/ (job[c].pc = "build" /\ job'[c].pc = "recheck")
                                           \/ (job[c].pc = "recheck" /\ job'[c].pc = "publish")
                /\ job'[c].mode = job[c].mode /\ job'[c].version = job[c].version
        BY <1>0, <1>2 DEF InsertFails
    <2>2. /\ bundle' = bundle
          /\ UNCHANGED rec \/ SetStatus(c, "running") \/ SetStatus(c, "error")
        BY <1>2 DEF InsertFails, WriteFails
    <2>. QED BY <1>0, <2>1, <2>2, JobStays, BundleStays
<1>3. ASSUME NEW c \in Calls, Launch(c) PROVE Rest
    <2>1. /\ \A d \in Calls : d # c => job'[d] = job[d]
          /\ job'[c].verdict \in {job[c].verdict, "none", "error", "mismatch"}
          /\ \/ job'[c].pc \in {"finish", "over", "unwritten", "died"}
             \/ job'[c].pc \in {"init", "check"} /\ job'[c].version \in Versions
             \/ /\ job'[c].pc = job[c].pc \/ (job[c].pc = "build" /\ job'[c].pc = "recheck")
                                           \/ (job[c].pc = "recheck" /\ job'[c].pc = "publish")
                /\ job'[c].mode = job[c].mode /\ job'[c].version = job[c].version
        BY <1>0, <1>3, JobStarts DEF Launch
    <2>2. /\ bundle' = bundle
          /\ UNCHANGED rec \/ SetStatus(c, "running") \/ SetStatus(c, "error")
        BY <1>3 DEF Launch
    <2>. QED BY <1>0, <2>1, <2>2, JobStays, BundleStays
<1>4. ASSUME NEW c \in Calls, LaunchFails(c) PROVE Rest
    <2>1. /\ \A d \in Calls : d # c => job'[d] = job[d]
          /\ job'[c].verdict \in {job[c].verdict, "none", "error", "mismatch"}
          /\ \/ job'[c].pc \in {"finish", "over", "unwritten", "died"}
             \/ job'[c].pc \in {"init", "check"} /\ job'[c].version \in Versions
             \/ /\ job'[c].pc = job[c].pc \/ (job[c].pc = "build" /\ job'[c].pc = "recheck")
                                           \/ (job[c].pc = "recheck" /\ job'[c].pc = "publish")
                /\ job'[c].mode = job[c].mode /\ job'[c].version = job[c].version
        BY <1>0, <1>4, JobStarts DEF LaunchFails
    <2>2. /\ bundle' = bundle
          /\ UNCHANGED rec \/ SetStatus(c, "running") \/ SetStatus(c, "error")
        BY <1>4 DEF LaunchFails
    <2>. QED BY <1>0, <2>1, <2>2, JobStays, BundleStays
<1>5. ASSUME NEW c \in Calls, MarkFailed(c) PROVE Rest
    <2>1. /\ \A d \in Calls : d # c => job'[d] = job[d]
          /\ job'[c].verdict \in {job[c].verdict, "none", "error", "mismatch"}
          /\ \/ job'[c].pc \in {"finish", "over", "unwritten", "died"}
             \/ job'[c].pc \in {"init", "check"} /\ job'[c].version \in Versions
             \/ /\ job'[c].pc = job[c].pc \/ (job[c].pc = "build" /\ job'[c].pc = "recheck")
                                           \/ (job[c].pc = "recheck" /\ job'[c].pc = "publish")
                /\ job'[c].mode = job[c].mode /\ job'[c].version = job[c].version
        BY <1>0, <1>5 DEF MarkFailed
    <2>2. /\ bundle' = bundle
          /\ UNCHANGED rec \/ SetStatus(c, "running") \/ SetStatus(c, "error")
        BY <1>5 DEF MarkFailed, WriteFails
    <2>. QED BY <1>0, <2>1, <2>2, JobStays, BundleStays
<1>6. ASSUME NEW c \in Calls, RunInProcess(c) PROVE Rest
    <2>1. /\ \A d \in Calls : d # c => job'[d] = job[d]
          /\ job'[c].verdict \in {job[c].verdict, "none", "error", "mismatch"}
          /\ \/ job'[c].pc \in {"finish", "over", "unwritten", "died"}
             \/ job'[c].pc \in {"init", "check"} /\ job'[c].version \in Versions
             \/ /\ job'[c].pc = job[c].pc \/ (job[c].pc = "build" /\ job'[c].pc = "recheck")
                                           \/ (job[c].pc = "recheck" /\ job'[c].pc = "publish")
                /\ job'[c].mode = job[c].mode /\ job'[c].version = job[c].version
        BY <1>0, <1>6, JobStarts DEF RunInProcess
    <2>2. /\ bundle' = bundle
          /\ UNCHANGED rec \/ SetStatus(c, "running") \/ SetStatus(c, "error")
        BY <1>6 DEF RunInProcess
    <2>. QED BY <1>0, <2>1, <2>2, JobStays, BundleStays
<1>7. ASSUME NEW c \in Calls, AnswerInProcess(c) PROVE Rest
    <2>1. /\ \A d \in Calls : d # c => job'[d] = job[d]
          /\ job'[c].verdict \in {job[c].verdict, "none", "error", "mismatch"}
          /\ \/ job'[c].pc \in {"finish", "over", "unwritten", "died"}
             \/ job'[c].pc \in {"init", "check"} /\ job'[c].version \in Versions
             \/ /\ job'[c].pc = job[c].pc \/ (job[c].pc = "build" /\ job'[c].pc = "recheck")
                                           \/ (job[c].pc = "recheck" /\ job'[c].pc = "publish")
                /\ job'[c].mode = job[c].mode /\ job'[c].version = job[c].version
        BY <1>0, <1>7 DEF AnswerInProcess
    <2>2. /\ bundle' = bundle
          /\ UNCHANGED rec \/ SetStatus(c, "running") \/ SetStatus(c, "error")
        BY <1>7 DEF AnswerInProcess
    <2>. QED BY <1>0, <2>1, <2>2, JobStays, BundleStays
<1>8. ASSUME NEW c \in Calls, CallDies(c) PROVE Rest
    <2>1. /\ \A d \in Calls : d # c => job'[d] = job[d]
          /\ job'[c].verdict \in {job[c].verdict, "none", "error", "mismatch"}
          /\ \/ job'[c].pc \in {"finish", "over", "unwritten", "died"}
             \/ job'[c].pc \in {"init", "check"} /\ job'[c].version \in Versions
             \/ /\ job'[c].pc = job[c].pc \/ (job[c].pc = "build" /\ job'[c].pc = "recheck")
                                           \/ (job[c].pc = "recheck" /\ job'[c].pc = "publish")
                /\ job'[c].mode = job[c].mode /\ job'[c].version = job[c].version
        BY <1>0, <1>8, JobGoes DEF CallDies, JobTo, JobPCs
    <2>2. /\ bundle' = bundle
          /\ UNCHANGED rec \/ SetStatus(c, "running") \/ SetStatus(c, "error")
        BY <1>8 DEF CallDies
    <2>. QED BY <1>0, <2>1, <2>2, JobStays, BundleStays
<1>9. ASSUME NEW c \in Calls, ContextEnds(c) PROVE Rest
    <2>1. /\ \A d \in Calls : d # c => job'[d] = job[d]
          /\ job'[c].verdict \in {job[c].verdict, "none", "error", "mismatch"}
          /\ \/ job'[c].pc \in {"finish", "over", "unwritten", "died"}
             \/ job'[c].pc \in {"init", "check"} /\ job'[c].version \in Versions
             \/ /\ job'[c].pc = job[c].pc \/ (job[c].pc = "build" /\ job'[c].pc = "recheck")
                                           \/ (job[c].pc = "recheck" /\ job'[c].pc = "publish")
                /\ job'[c].mode = job[c].mode /\ job'[c].version = job[c].version
        BY <1>0, <1>9, JobEnded DEF ContextEnds
    <2>2. /\ bundle' = bundle
          /\ UNCHANGED rec \/ SetStatus(c, "running") \/ SetStatus(c, "error")
        BY <1>9 DEF ContextEnds
    <2>. QED BY <1>0, <2>1, <2>2, JobStays, BundleStays
<1>10. ASSUME NEW c \in Calls, UpsertRunning(c) PROVE Rest
    <2>1. /\ \A d \in Calls : d # c => job'[d] = job[d]
          /\ job'[c].verdict \in {job[c].verdict, "none", "error", "mismatch"}
          /\ \/ job'[c].pc \in {"finish", "over", "unwritten", "died"}
             \/ job'[c].pc \in {"init", "check"} /\ job'[c].version \in Versions
             \/ /\ job'[c].pc = job[c].pc \/ (job[c].pc = "build" /\ job'[c].pc = "recheck")
                                           \/ (job[c].pc = "recheck" /\ job'[c].pc = "publish")
                /\ job'[c].mode = job[c].mode /\ job'[c].version = job[c].version
        BY <1>0, <1>10, JobGoes DEF UpsertRunning, JobPCs, Grounded
    <2>2. /\ bundle' = bundle
          /\ UNCHANGED rec \/ SetStatus(c, "running") \/ SetStatus(c, "error")
        BY <1>10 DEF UpsertRunning, WriteFails
    <2>. QED BY <1>0, <2>1, <2>2, JobStays, BundleStays
<1>11. ASSUME NEW c \in Calls, CheckExisting(c) PROVE Rest
    <2>1. bundle' = bundle /\ UNCHANGED rec
        BY <1>11 DEF CheckExisting
    <2>2. job[c].pc = "check" /\ job[c].version \in Versions /\ job[c].mode \in AllModes
        BY <1>0, <1>11, RebuildAttemptAssumption DEF CheckExisting, Grounded, Typed, Jobs, AllModes
    <2>3. CASE JobTo(c, "read") /\ Exists
        <3>1. /\ \A d \in Calls : d # c => job'[d] = job[d]
              /\ job'[c].pc = "read" /\ job'[c].version = job[c].version
              /\ job'[c].verdict = job[c].verdict
            BY <1>0, <2>3, JobGoes DEF JobPCs
        <3>2. Exists' /\ (job'[c].verdict = "success" =>
                                \E i \in DOMAIN bundle' : bundle'[i].by = c)
            BY <1>0, <2>1, <2>3, <3>1 DEF Exists, Backed
        <3>. QED BY <1>0, <2>1, <2>2, <3>1, <3>2, JobKept, BundleStays
    <2>4. CASE Verdict(c, "error")
        <3>1. /\ \A d \in Calls : d # c => job'[d] = job[d]
              /\ job'[c].pc = "finish" /\ job'[c].verdict = "error"
            BY <1>0, <2>4, JobDecides DEF Verdicts
        <3>. QED BY <1>0, <2>1, <3>1, JobStays, BundleStays
    <2>5. CASE /\ Exists /\ job[c].mode = "force"
               /\ job' = [job EXCEPT ![c].pc = "build", ![c].allow = TRUE]
        <3>1. /\ \A d \in Calls : d # c => job'[d] = job[d]
              /\ job'[c].pc = "build" /\ job'[c].mode = "force"
              /\ job'[c].version = job[c].version /\ job'[c].verdict = job[c].verdict
            BY <1>0, <2>5, JobAllows
        <3>2. Exists' /\ (job'[c].verdict = "success" =>
                                \E i \in DOMAIN bundle' : bundle'[i].by = c)
            BY <1>0, <2>1, <2>5, <3>1 DEF Exists, Backed
        <3>. QED BY <1>0, <2>1, <2>2, <3>1, <3>2, JobKept, BundleStays
    <2>6. CASE job' = [job EXCEPT ![c].pc = "build", ![c].mode = ""]
        <3>1. /\ \A d \in Calls : d # c => job'[d] = job[d]
              /\ job'[c].pc = "build" /\ job'[c].mode = ""
              /\ job'[c].version = job[c].version /\ job'[c].verdict = job[c].verdict
            BY <1>0, <2>6, JobClearsMode
        <3>2. (Exists => Exists') /\ (job'[c].verdict = "success" =>
                                \E i \in DOMAIN bundle' : bundle'[i].by = c)
            BY <1>0, <2>1, <3>1 DEF Exists, Backed
        <3>. QED BY <1>0, <2>1, <2>2, <3>1, <3>2, JobKept, BundleStays
    <2>. QED BY <1>11, <2>2, <2>3, <2>4, <2>5, <2>6 DEF CheckExisting, AllModes
<1>12. ASSUME NEW c \in Calls, ReadExisting(c) PROVE Rest
    <2>1. bundle' = bundle /\ UNCHANGED rec
        BY <1>12 DEF ReadExisting
    <2>2. job[c].pc = "read" /\ job[c].version \in Versions /\ Exists
        BY <1>0, <1>12 DEF ReadExisting, Grounded
    <2>3. CASE Verdict(c, "error")
        <3>1. /\ \A d \in Calls : d # c => job'[d] = job[d]
              /\ job'[c].pc = "finish" /\ job'[c].verdict = "error"
            BY <1>0, <2>3, JobDecides DEF Verdicts
        <3>. QED BY <1>0, <2>1, <3>1, JobStays, BundleStays
    <2>4. CASE /\ bundle[Len(bundle)].version < job[c].version
               /\ job' = [job EXCEPT ![c].pc = "build", ![c].allow = TRUE]
        <3>1. /\ \A d \in Calls : d # c => job'[d] = job[d]
              /\ job'[c].pc = "build" /\ job'[c].mode = job[c].mode
              /\ job'[c].version = job[c].version /\ job'[c].verdict = job[c].verdict
            BY <1>0, <2>4, JobAllows
        <3>2. Exists' /\ (job'[c].verdict = "success" =>
                                \E i \in DOMAIN bundle' : bundle'[i].by = c)
            BY <1>0, <2>1, <2>2, <3>1 DEF Exists, Backed
        <3>3. Len(bundle) \in DOMAIN bundle
            BY <1>0, <2>2 DEF Typed, Exists
        <3>4. \E k \in DOMAIN bundle' : bundle'[k].version < job'[c].version
            BY <2>1, <2>4, <3>1, <3>3
        <3>. QED BY <1>0, <2>1, <2>2, <3>1, <3>2, <3>4, JobKept, BundleStays
    <2>. QED BY <1>12, <2>3, <2>4 DEF ReadExisting
<1>13. ASSUME NEW c \in Calls, Build(c) PROVE Rest
    <2>1. /\ \A d \in Calls : d # c => job'[d] = job[d]
          /\ job'[c].verdict \in {job[c].verdict, "none", "error", "mismatch"}
          /\ \/ job'[c].pc \in {"finish", "over", "unwritten", "died"}
             \/ job'[c].pc \in {"init", "check"} /\ job'[c].version \in Versions
             \/ /\ job'[c].pc = job[c].pc \/ (job[c].pc = "build" /\ job'[c].pc = "recheck")
                                           \/ (job[c].pc = "recheck" /\ job'[c].pc = "publish")
                /\ job'[c].mode = job[c].mode /\ job'[c].version = job[c].version
        BY <1>0, <1>13, JobGoes, JobDecides DEF Build, JobPCs, Verdicts
    <2>2. /\ bundle' = bundle
          /\ UNCHANGED rec \/ SetStatus(c, "running") \/ SetStatus(c, "error")
        BY <1>13 DEF Build
    <2>. QED BY <1>0, <2>1, <2>2, JobStays, BundleStays
<1>14. ASSUME NEW c \in Calls, RecheckExisting(c) PROVE Rest
    <2>1. /\ \A d \in Calls : d # c => job'[d] = job[d]
          /\ job'[c].verdict \in {job[c].verdict, "none", "error", "mismatch"}
          /\ \/ job'[c].pc \in {"finish", "over", "unwritten", "died"}
             \/ job'[c].pc \in {"init", "check"} /\ job'[c].version \in Versions
             \/ /\ job'[c].pc = job[c].pc \/ (job[c].pc = "build" /\ job'[c].pc = "recheck")
                                           \/ (job[c].pc = "recheck" /\ job'[c].pc = "publish")
                /\ job'[c].mode = job[c].mode /\ job'[c].version = job[c].version
        BY <1>0, <1>14, JobGoes, JobDecides DEF RecheckExisting, JobPCs, Verdicts
    <2>2. /\ bundle' = bundle
          /\ UNCHANGED rec \/ SetStatus(c, "running") \/ SetStatus(c, "error")
        BY <1>14 DEF RecheckExisting
    <2>. QED BY <1>0, <2>1, <2>2, JobStays, BundleStays
<1>15. ASSUME NEW c \in Calls, Publish(c) PROVE Rest
    <2>1. job[c].pc = "publish" /\ WriteBundle(c) /\ Verdict(c, "success") /\ UNCHANGED rec
        BY <1>15 DEF Publish
    <2>2. job[c].version \in Versions
        BY <1>0, <2>1 DEF Grounded
    <2>3. /\ \A d \in Calls : d # c => job'[d] = job[d]
          /\ job'[c].pc = "finish" /\ job'[c].verdict = "success"
        BY <1>0, <2>1, JobDecides DEF Verdicts
    <2>4. /\ \A i \in DOMAIN bundle : i \in DOMAIN bundle' /\ bundle'[i] = bundle[i]
          /\ Len(bundle) + 1 \in DOMAIN bundle' /\ bundle'[Len(bundle) + 1].by = c
        BY <1>0, <2>1, <2>2, Uploads
    <2>5. Exists'
        BY <2>4 DEF Exists
    <2>6. Backed' /\ Grounded'
        BY <1>0, <2>3, <2>4, <2>5, JobKept
    <2>7. SuccessIsPublished'
        BY <1>0, <2>1, <2>4, StatusKept
    <2>8. RecordedModeIsTrue'
        BY <1>0, <2>1, UploadIsTrue
    <2>. QED BY <2>6, <2>7, <2>8
<1>16. ASSUME NEW c \in Calls, PublishUnanswered(c) PROVE Rest
    <2>1. job[c].pc = "publish" /\ WriteBundle(c) /\ Verdict(c, "unknown") /\ UNCHANGED rec
        BY <1>16 DEF PublishUnanswered
    <2>2. job[c].version \in Versions
        BY <1>0, <2>1 DEF Grounded
    <2>3. /\ \A d \in Calls : d # c => job'[d] = job[d]
          /\ job'[c].pc = "finish" /\ job'[c].verdict = "unknown"
        BY <1>0, <2>1, JobDecides DEF Verdicts
    <2>4. /\ \A i \in DOMAIN bundle : i \in DOMAIN bundle' /\ bundle'[i] = bundle[i]
          /\ Len(bundle) + 1 \in DOMAIN bundle' /\ bundle'[Len(bundle) + 1].by = c
        BY <1>0, <2>1, <2>2, Uploads
    <2>5. Exists'
        BY <2>4 DEF Exists
    <2>6. Backed' /\ Grounded'
        BY <1>0, <2>3, <2>4, <2>5, JobKept
    <2>7. SuccessIsPublished'
        BY <1>0, <2>1, <2>4, StatusKept
    <2>8. RecordedModeIsTrue'
        BY <1>0, <2>1, UploadIsTrue
    <2>. QED BY <2>6, <2>7, <2>8
<1>17. ASSUME NEW c \in Calls, StepFails(c) PROVE Rest
    <2>1. /\ \A d \in Calls : d # c => job'[d] = job[d]
          /\ job'[c].verdict \in {job[c].verdict, "none", "error", "mismatch"}
          /\ \/ job'[c].pc \in {"finish", "over", "unwritten", "died"}
             \/ job'[c].pc \in {"init", "check"} /\ job'[c].version \in Versions
             \/ /\ job'[c].pc = job[c].pc \/ (job[c].pc = "build" /\ job'[c].pc = "recheck")
                                           \/ (job[c].pc = "recheck" /\ job'[c].pc = "publish")
                /\ job'[c].mode = job[c].mode /\ job'[c].version = job[c].version
        BY <1>0, <1>17, JobDecides DEF StepFails, Verdicts
    <2>2. /\ bundle' = bundle
          /\ UNCHANGED rec \/ SetStatus(c, "running") \/ SetStatus(c, "error")
        BY <1>17 DEF StepFails
    <2>. QED BY <1>0, <2>1, <2>2, JobStays, BundleStays
<1>18. ASSUME NEW c \in Calls, Finish(c) PROVE Rest
    <2>1. /\ \A d \in Calls : d # c => job'[d] = job[d]
          /\ job'[c].verdict \in {job[c].verdict, "none", "error", "mismatch"}
          /\ \/ job'[c].pc \in {"finish", "over", "unwritten", "died"}
             \/ job'[c].pc \in {"init", "check"} /\ job'[c].version \in Versions
             \/ /\ job'[c].pc = job[c].pc \/ (job[c].pc = "build" /\ job'[c].pc = "recheck")
                                           \/ (job[c].pc = "recheck" /\ job'[c].pc = "publish")
                /\ job'[c].mode = job[c].mode /\ job'[c].version = job[c].version
        BY <1>0, <1>18, JobGoes DEF Finish, JobPCs
    <2>2. bundle' = bundle /\ (UNCHANGED rec \/ SetStatus(c, StatusOf(c)))
        BY <1>18 DEF Finish, WriteFails
    <2>3. StatusOf(c) = "success" => \E i \in DOMAIN bundle : bundle[i].by = c
        BY <1>0 DEF StatusOf, Backed
    <2>4. SuccessIsPublished'
        BY <1>0, <2>2, <2>3, StatusKept
    <2>5. RecordedModeIsTrue'
        BY <1>0, <2>2 DEF RecordedModeIsTrue
    <2>. QED BY <1>0, <2>1, <2>2, <2>4, <2>5, JobStays
<1>19. ASSUME NEW c \in Calls, JobDies(c) PROVE Rest
    <2>1. /\ \A d \in Calls : d # c => job'[d] = job[d]
          /\ job'[c].verdict \in {job[c].verdict, "none", "error", "mismatch"}
          /\ \/ job'[c].pc \in {"finish", "over", "unwritten", "died"}
             \/ job'[c].pc \in {"init", "check"} /\ job'[c].version \in Versions
             \/ /\ job'[c].pc = job[c].pc \/ (job[c].pc = "build" /\ job'[c].pc = "recheck")
                                           \/ (job[c].pc = "recheck" /\ job'[c].pc = "publish")
                /\ job'[c].mode = job[c].mode /\ job'[c].version = job[c].version
        BY <1>0, <1>19, JobGoes DEF JobDies, JobPCs
    <2>2. /\ bundle' = bundle
          /\ UNCHANGED rec \/ SetStatus(c, "running") \/ SetStatus(c, "error")
        BY <1>19 DEF JobDies
    <2>. QED BY <1>0, <2>1, <2>2, JobStays, BundleStays
<1>20. ASSUME NEW c \in Calls, AnswerRebuild(c) PROVE Rest
    <2>1. /\ \A d \in Calls : d # c => job'[d] = job[d]
          /\ job'[c].verdict \in {job[c].verdict, "none", "error", "mismatch"}
          /\ \/ job'[c].pc \in {"finish", "over", "unwritten", "died"}
             \/ job'[c].pc \in {"init", "check"} /\ job'[c].version \in Versions
             \/ /\ job'[c].pc = job[c].pc \/ (job[c].pc = "build" /\ job'[c].pc = "recheck")
                                           \/ (job[c].pc = "recheck" /\ job'[c].pc = "publish")
                /\ job'[c].mode = job[c].mode /\ job'[c].version = job[c].version
        BY <1>0, <1>20 DEF AnswerRebuild
    <2>2. /\ bundle' = bundle
          /\ UNCHANGED rec \/ SetStatus(c, "running") \/ SetStatus(c, "error")
        BY <1>20 DEF AnswerRebuild
    <2>. QED BY <1>0, <2>1, <2>2, JobStays, BundleStays
<1>21. CASE UNCHANGED vars
    BY <1>0, <1>21 DEF vars, Backed, Grounded, SuccessIsPublished, Published, RecordedModeIsTrue,
        Exists
<1>. QED BY <1>1, <1>2, <1>3, <1>4, <1>5, <1>6, <1>7, <1>8, <1>9, <1>10, <1>11, <1>12, <1>13,
         <1>14, <1>15, <1>16, <1>17, <1>18, <1>19, <1>20, <1>21 DEF Next, CallSteps, JobSteps

LEMMA InitInv == Init => IndInv
<1>. SUFFICES ASSUME Init PROVE IndInv
    OBVIOUS
<1>1. Typed
    <2>1. NoJob \in Jobs
        <3>1. "none" \in JobPCs /\ "none" \in Verdicts /\ "" \in Modes \cup {""}
              /\ 0 \in Versions \cup {0}
            BY DEF JobPCs, Verdicts
        <3>. QED BY <3>1, Zenon DEF Jobs, NoJob
    <2>. QED BY <2>1, RebuildAttemptAssumption DEF Init, Typed, Statuses, CallPCs
<1>2. \A c \in Calls : job[c].verdict = "none" /\ job[c].pc = "none"
    BY DEF Init, NoJob
<1>3. Backed /\ Grounded
    BY <1>2 DEF Backed, Grounded
<1>4. SuccessIsPublished /\ RecordedModeIsTrue
    BY DEF Init, SuccessIsPublished, RecordedModeIsTrue
<1>. QED BY <1>1, <1>3, <1>4, TypedIsTypeOK DEF IndInv

LEMMA Inductive == Spec => []IndInv
<1>1. IndInv /\ [Next]_vars => IndInv'
    BY TypeStep, InvStep DEF IndInv
<1>. QED BY InitInv, <1>1, PTL DEF Spec

\* The records, the bundle, the calls and the jobs keep their types.
THEOREM TypeCorrect == Spec => []TypeOK
<1>1. IndInv => TypeOK
    BY DEF IndInv
<1>. QED BY <1>1, Inductive, PTL

\* RebuildPackage reports a success only with an attestation in the bucket.
THEOREM SuccessHasBundle == Spec => []SuccessIsPublished
<1>1. IndInv => SuccessIsPublished
    BY DEF IndInv
<1>. QED BY <1>1, Inductive, PTL

\* checkOverwrite's answer stays true until the upload that records it.
THEOREM ModeStaysTrue == Spec => []RecordedModeIsTrue
<1>1. IndInv => RecordedModeIsTrue
    BY DEF IndInv
<1>. QED BY <1>1, Inductive, PTL
-----------------------------------------------------------------------------
(* Who writes the record of a run.  The insert of CreateRebuildOp lets one *)
(* extended call of a run through; from then on only that call and its job *)
(* write, unless the run is repeated by a call that inserts nothing.       *)

Uploaded(c) == \E i \in DOMAIN bundle : bundle[i].by = c

\* Call c has come past its insert.
Started(c) ==
    call[c] \in {"launch", "launch_failed", "marked", "answered"} \/ job[c].pc # "none"

\* Call c or its job is to write the record, and nothing has ended it yet.
Working(c) ==
    \/ call[c] = "launch"
    \/ call[c] = "launch_failed" /\ job[c].pc = "none"
    \/ job[c].pc \in {"init", "check", "read", "build", "recheck", "publish", "finish"}

Lost(c) ==
    /\ call[c] \in {"launch_failed", "marked", "failed", "died"}
    /\ c \in Extended /\ job[c].pc # "none"

\* More than one call or job may write the record of run a.
Shared(a) == LaunchLost(a) \/ Repeated(a)

Bad == {"failure", "error", "cancelled"}

Settled(c) ==
    /\ call[c] \in {"idle", "refused", "launch"} => job[c].pc = "none"
    /\ call[c] \in {"launch", "launch_failed", "marked"} => c \in Extended
    /\ call[c] = "running" => c \notin Extended
    /\ c \in Extended /\ Started(c) => rec[RunOf[c]] # "none"
    /\ Working(c) => rec[RunOf[c]] \notin Final \/ Shared(RunOf[c])
    /\ Uploaded(c) =>
        /\ job[c].pc \in {"finish", "over", "unwritten", "died"}
        /\ job[c].verdict \in {"success", "unknown"}
        /\ rec[RunOf[c]] \in Bad => job[c].verdict = "unknown" \/ Shared(RunOf[c])

Alone == \A c, d \in Extended : c # d /\ RunOf[c] = RunOf[d] => ~(Started(c) /\ Started(d))

\* Whatever the record of a run says, a call of that run wrote it.
Asked == \A c \in Calls : rec[RunOf[c]] # "none" =>
    \E d \in Calls : RunOf[d] = RunOf[c] /\ call[d] \notin {"idle", "refused"}

Writers == Alone /\ Asked /\ \A c \in Calls : Settled(c)

\* What a step of call c or its job does to the others' and to its own part of Writers.
Move(c) ==
    /\ \A d \in Calls : d # c =>
        job'[d] = job[d] /\ call'[d] = call[d] /\ (Uploaded(d)' <=> Uploaded(d))
    /\ \A a : Shared(a) => Shared(a)'
    /\ call[c] # "idle" => call'[c] # "idle" /\ (call[c] # "refused" => call'[c] # "refused")
    /\ \/ rec' = rec
       \/ /\ \E status \in Statuses \ {"none"} : SetStatus(c, status)
          /\ rec[RunOf[c]] = "none" \/ Working(c) \/ Lost(c)
          /\ call'[c] \notin {"idle", "refused"}
    /\ c \in Extended /\ Started(c)' => Started(c) \/ rec[RunOf[c]] = "none"
    /\ Settled(c)'

\* A launch reported as failed although the job was started stays one, and a run
\* that was repeated stays repeated.
LEMMA SharedLasts ==
    ASSUME NEW c \in Calls, Lost(c) => Lost(c)',
           \A d \in Calls : d # c => job'[d] = job[d] /\ call'[d] = call[d],
           call[c] # "idle" => call'[c] # "idle" /\ (call[c] # "refused" => call'[c] # "refused")
    PROVE  /\ \A a : Shared(a) => Shared(a)'
           /\ Lost(c) => Shared(RunOf[c])
           /\ Lost(c)' => Shared(RunOf[c])'
<1>1. ASSUME NEW a, LaunchLost(a) PROVE LaunchLost(a)'
    <2>1. PICK d \in Calls : RunOf[d] = a /\ Lost(d)
        BY <1>1 DEF LaunchLost, Lost
    <2>2. Lost(d)'
        BY <2>1 DEF Lost
    <2>. QED BY <2>1, <2>2 DEF LaunchLost, Lost
<1>2. ASSUME NEW a, Repeated(a) PROVE Repeated(a)'
    <2>1. PICK x \in Calls \ Extended, y \in Calls :
              /\ x # y /\ RunOf[x] = a /\ RunOf[y] = a
              /\ call[x] # "idle" /\ call[y] \notin {"idle", "refused"}
        BY <1>2 DEF Repeated
    <2>2. call'[x] # "idle" /\ call'[y] \notin {"idle", "refused"}
        BY <2>1
    <2>. QED BY <2>1, <2>2 DEF Repeated
<1>. QED BY <1>1, <1>2 DEF LaunchLost, Lost, Shared

LEMMA MoveKeeps ==
    ASSUME Typed, Writers, NEW c \in Calls, Move(c)
    PROVE  Writers'
<1>0. \A d \in Calls : d # c => job'[d] = job[d] /\ call'[d] = call[d]
    BY DEF Move
<1>1. \A a : Shared(a) => Shared(a)'
    BY DEF Move
<1>2. Working(c) \/ Lost(c) => Started(c)
    BY DEF Working, Lost, Started
<1>3. ASSUME NEW d \in Calls, d # c PROVE Settled(d)'
    <2>1. /\ job'[d] = job[d] /\ call'[d] = call[d]
          /\ Uploaded(d)' <=> Uploaded(d)
          /\ Started(d)' <=> Started(d)
          /\ Working(d)' <=> Working(d)
        BY <1>3 DEF Move, Started, Working
    <2>2. Settled(d)
        BY DEF Writers
    <2>3. CASE rec'[RunOf[d]] = rec[RunOf[d]]
        BY <1>1, <2>1, <2>2, <2>3 DEF Settled
    <2>4. CASE rec'[RunOf[d]] # rec[RunOf[d]]
        <3>1. PICK status \in Statuses \ {"none"} : rec' = [rec EXCEPT ![RunOf[c]] = status]
            BY <2>4 DEF Move, SetStatus
        <3>2. RunOf[c] = RunOf[d] /\ rec'[RunOf[d]] # "none"
            BY <2>4, <3>1, RebuildAttemptAssumption DEF Typed
        <3>3. Working(d) \/ Uploaded(d) => Started(d)
            BY <2>2 DEF Settled, Started, Working
        <3>4. Started(d) => Shared(RunOf[d])'
            <4>. SUFFICES ASSUME Started(d) PROVE Shared(RunOf[d])'
                OBVIOUS
            <4>1. call[d] \notin {"idle", "refused"}
                BY <2>2 DEF Settled, Started
            <4>2. call'[c] \notin {"idle", "refused"}
                BY <2>4 DEF Move
            <4>3. ~(c \in Extended /\ d \in Extended)
                <5>. SUFFICES ASSUME c \in Extended, d \in Extended PROVE FALSE
                    OBVIOUS
                <5>1. rec[RunOf[c]] # "none"
                    BY <2>2, <3>2 DEF Settled
                <5>2. Started(c)
                    BY <1>2, <2>4, <5>1 DEF Move
                <5>. QED BY <1>3, <3>2, <5>2 DEF Writers, Alone
            <4>4. Repeated(RunOf[d])'
                BY <1>3, <2>1, <3>2, <4>1, <4>2, <4>3 DEF Repeated
            <4>. QED BY <4>4 DEF Shared
        <3>. QED BY <2>1, <2>2, <3>2, <3>3, <3>4 DEF Settled
    <2>. QED BY <2>3, <2>4
<1>4. Settled(c)'
    BY DEF Move
<1>5. Alone'
    <2>. SUFFICES ASSUME NEW d \in Extended, NEW e \in Extended, d # e, RunOf[d] = RunOf[e],
                         Started(d)', Started(e)'
                  PROVE  FALSE
        BY DEF Alone
    <2>1. d \in Calls /\ e \in Calls
        BY RebuildAttemptAssumption
    <2>2. ASSUME NEW x \in Calls, NEW y \in Calls, x = c, y # c, RunOf[x] = RunOf[y],
                 x \in Extended, y \in Extended, Started(x)', Started(y)'
          PROVE  FALSE
        <3>1. Started(y)
            BY <2>2 DEF Move, Started
        <3>2. rec[RunOf[y]] # "none"
            BY <2>2, <3>1 DEF Writers, Settled
        <3>3. Started(x)
            BY <2>2, <3>2 DEF Move
        <3>. QED BY <2>2, <3>1, <3>3 DEF Writers, Alone
    <2>3. CASE d = c
        BY <2>1, <2>2, <2>3
    <2>4. CASE e = c
        BY <2>1, <2>2, <2>4
    <2>5. CASE d # c /\ e # c
        <3>1. Started(d) /\ Started(e)
            BY <2>1, <2>5 DEF Move, Started
        <3>. QED BY <2>1, <3>1 DEF Writers, Alone
    <2>. QED BY <2>3, <2>4, <2>5
<1>6. Asked'
    <2>. SUFFICES ASSUME NEW d \in Calls, rec'[RunOf[d]] # "none"
                  PROVE  \E e \in Calls : RunOf[e] = RunOf[d] /\ call'[e] \notin {"idle", "refused"}
        BY DEF Asked
    <2>1. CASE rec'[RunOf[d]] = rec[RunOf[d]]
        <3>1. PICK e \in Calls : RunOf[e] = RunOf[d] /\ call[e] \notin {"idle", "refused"}
            BY <2>1 DEF Writers, Asked
        <3>2. call'[e] \notin {"idle", "refused"}
            BY <1>0, <3>1 DEF Move
        <3>. QED BY <3>1, <3>2
    <2>2. CASE rec'[RunOf[d]] # rec[RunOf[d]]
        <3>1. PICK status \in Statuses \ {"none"} : rec' = [rec EXCEPT ![RunOf[c]] = status]
            BY <2>2 DEF Move, SetStatus
        <3>2. RunOf[c] = RunOf[d]
            BY <2>2, <3>1, RebuildAttemptAssumption DEF Typed
        <3>. QED BY <2>2, <3>2 DEF Move
    <2>. QED BY <2>1, <2>2
<1>. QED BY <1>3, <1>4, <1>5, <1>6 DEF Writers

LEMMA CallIs ==
    ASSUME Typed, NEW c \in Calls, NEW where, CallTo(c, where)
    PROVE  call'[c] = where /\ \A d \in Calls : d # c => call'[d] = call[d]
    BY DEF Typed, CallTo

LEMMA StatusIs ==
    ASSUME Typed, NEW c \in Calls, NEW status, SetStatus(c, status)
    PROVE  rec'[RunOf[c]] = status
    BY RebuildAttemptAssumption DEF Typed, SetStatus

LEMMA UploadIs ==
    ASSUME Typed, Grounded, NEW c \in Calls, job[c].pc = "publish", WriteBundle(c)
    PROVE  \A d \in Calls : d # c => (Uploaded(d)' <=> Uploaded(d))
<1>1. /\ \A i \in DOMAIN bundle : i \in DOMAIN bundle' /\ bundle'[i] = bundle[i]
      /\ bundle'[Len(bundle) + 1].by = c
      /\ \A i \in DOMAIN bundle' : i \in DOMAIN bundle \/ i = Len(bundle) + 1
    BY Uploads DEF Grounded
<1>. QED BY <1>1 DEF Uploaded

\* Every step of a call or its job is a Move.
LEMMA StepMoves ==
    ASSUME Typed, Grounded, Writers, NEW c \in Calls, CallSteps(c) \/ JobSteps(c)
    PROVE  Move(c)
<1>0. Settled(c)
    BY DEF Writers
<1>. DEFINE Others == \A d \in Calls : d # c =>
              job'[d] = job[d] /\ call'[d] = call[d] /\ (Uploaded(d)' <=> Uploaded(d))
            Written == \/ rec' = rec
                       \/ /\ \E status \in Statuses \ {"none"} : SetStatus(c, status)
                          /\ rec[RunOf[c]] = "none" \/ Working(c) \/ Lost(c)
                          /\ call'[c] \notin {"idle", "refused"}
            Onward == call[c] # "idle" =>
                        call'[c] # "idle" /\ (call[c] # "refused" => call'[c] # "refused")
            Entered == c \in Extended /\ Started(c)' => Started(c) \/ rec[RunOf[c]] = "none"
            Own == Settled(c)'
<1>1. CASE InsertAttempt(c)
    <2>1. /\ c \in Extended /\ call[c] = "idle" /\ job' = job
          /\ \/ rec[RunOf[c]] = "none" /\ rec'[RunOf[c]] = "running" /\ call'[c] = "launch"
             \/ rec' = rec /\ call'[c] = "refused"
        BY <1>1, CallIs, StatusIs DEF InsertAttempt, Begins, Statuses
    <2>2. Others
        BY <1>1, CallIs, StatusIs DEF InsertAttempt, Uploaded, Statuses
    <2>3. Lost(c) => Lost(c)'
        BY <1>0, <2>1 DEF Settled, Lost
    <2>4. Onward
        BY <2>1
    <2>5. \A a : Shared(a) => Shared(a)'
        BY <2>2, <2>3, <2>4, SharedLasts
    <2>6. (Lost(c) => Shared(RunOf[c])) /\ (Lost(c)' => Shared(RunOf[c])')
        BY <2>2, <2>3, <2>4, SharedLasts
    <2>7. Written
        BY <1>0, <1>1, <2>1 DEF InsertAttempt, Working, Lost, Statuses
    <2>8. Entered
        BY <1>0, <2>1 DEF Settled, Started
    <2>9. Own
        <3>1. Uploaded(c)' <=> Uploaded(c)
            BY <1>1 DEF InsertAttempt, Uploaded
        <3>. QED BY <1>0, <2>1, <2>5, <2>6, <3>1
                 DEF Settled, Started, Working, Lost, Bad, Final
    <2>. QED BY <2>2, <2>4, <2>5, <2>7, <2>8, <2>9 DEF Move
<1>2. CASE InsertFails(c)
    <2>1. /\ c \in Extended /\ call[c] = "idle" /\ job' = job /\ call'[c] = "failed"
          /\ rec[RunOf[c]] = "none" /\ (rec' = rec \/ rec'[RunOf[c]] = "running")
        BY <1>2, CallIs, StatusIs DEF InsertFails, Begins, WriteFails, Statuses
    <2>2. Others
        BY <1>2, CallIs, StatusIs DEF InsertFails, Uploaded, WriteFails, Statuses
    <2>3. Lost(c) => Lost(c)'
        BY <1>0, <2>1 DEF Settled, Lost
    <2>4. Onward
        BY <2>1
    <2>5. \A a : Shared(a) => Shared(a)'
        BY <2>2, <2>3, <2>4, SharedLasts
    <2>6. (Lost(c) => Shared(RunOf[c])) /\ (Lost(c)' => Shared(RunOf[c])')
        BY <2>2, <2>3, <2>4, SharedLasts
    <2>7. Written
        BY <1>0, <1>2, <2>1 DEF InsertFails, Working, Lost, WriteFails, Statuses
    <2>8. Entered
        BY <1>0, <2>1 DEF Settled, Started
    <2>9. Own
        <3>1. Uploaded(c)' <=> Uploaded(c)
            BY <1>2 DEF InsertFails, Uploaded
        <3>. QED BY <1>0, <2>1, <2>5, <2>6, <3>1
                 DEF Settled, Started, Working, Lost, Bad, Final
    <2>. QED BY <2>2, <2>4, <2>5, <2>7, <2>8, <2>9 DEF Move
<1>3. CASE Launch(c)
    <2>1. /\ call[c] = "launch" /\ call'[c] = "answered" /\ rec' = rec
          /\ job'[c].pc = "init" /\ job'[c].verdict = "none"
        BY <1>3, CallIs, JobStarts DEF Launch
    <2>2. Others
        BY <1>3, CallIs, JobStarts DEF Launch, Uploaded
    <2>3. Lost(c) => Lost(c)'
        BY <1>0, <2>1 DEF Settled, Lost
    <2>4. Onward
        BY <2>1
    <2>5. \A a : Shared(a) => Shared(a)'
        BY <2>2, <2>3, <2>4, SharedLasts
    <2>6. (Lost(c) => Shared(RunOf[c])) /\ (Lost(c)' => Shared(RunOf[c])')
        BY <2>2, <2>3, <2>4, SharedLasts
    <2>7. Written
        BY <1>0, <1>3, <2>1 DEF Launch, Working, Lost
    <2>8. Entered
        BY <1>0, <2>1 DEF Settled, Started
    <2>9. Own
        <3>1. Uploaded(c)' <=> Uploaded(c)
            BY <1>3 DEF Launch, Uploaded
        <3>. QED BY <1>0, <2>1, <2>5, <2>6, <3>1
                 DEF Settled, Started, Working, Lost, Bad, Final
    <2>. QED BY <2>2, <2>4, <2>5, <2>7, <2>8, <2>9 DEF Move
<1>4. CASE LaunchFails(c)
    <2>1. /\ call[c] = "launch" /\ call'[c] = "launch_failed" /\ rec' = rec
          /\ \/ job' = job
             \/ job'[c].pc = "init" /\ job'[c].verdict = "none"
        BY <1>4, CallIs, JobStarts DEF LaunchFails
    <2>2. Others
        BY <1>4, CallIs, JobStarts DEF LaunchFails, Uploaded
    <2>3. Lost(c) => Lost(c)'
        BY <1>0, <2>1 DEF Settled, Lost
    <2>4. Onward
        BY <2>1
    <2>5. \A a : Shared(a) => Shared(a)'
        BY <2>2, <2>3, <2>4, SharedLasts
    <2>6. (Lost(c) => Shared(RunOf[c])) /\ (Lost(c)' => Shared(RunOf[c])')
        BY <2>2, <2>3, <2>4, SharedLasts
    <2>7. Written
        BY <1>0, <1>4, <2>1 DEF LaunchFails, Working, Lost
    <2>8. Entered
        BY <1>0, <2>1 DEF Settled, Started
    <2>9. Own
        <3>1. Uploaded(c)' <=> Uploaded(c)
            BY <1>4 DEF LaunchFails, Uploaded
        <3>. QED BY <1>0, <2>1, <2>5, <2>6, <3>1
                 DEF Settled, Started, Working, Lost, Bad, Final
    <2>. QED BY <2>2, <2>4, <2>5, <2>7, <2>8, <2>9 DEF Move
<1>5. CASE MarkFailed(c)
    <2>1. /\ call[c] = "launch_failed" /\ call'[c] \in {"marked", "failed"} /\ job' = job
          /\ (rec' = rec /\ call'[c] = "failed") \/ rec'[RunOf[c]] = "error"
        BY <1>5, CallIs, StatusIs DEF MarkFailed, WriteFails, Statuses, Final
    <2>2. Others
        BY <1>5, CallIs, StatusIs DEF MarkFailed, Uploaded, WriteFails, Statuses, Final
    <2>3. Lost(c) => Lost(c)'
        BY <1>0, <2>1 DEF Settled, Lost
    <2>4. Onward
        BY <2>1
    <2>5. \A a : Shared(a) => Shared(a)'
        BY <2>2, <2>3, <2>4, SharedLasts
    <2>6. (Lost(c) => Shared(RunOf[c])) /\ (Lost(c)' => Shared(RunOf[c])')
        BY <2>2, <2>3, <2>4, SharedLasts
    <2>7. Written
        BY <1>0, <1>5, <2>1 DEF MarkFailed, Working, Lost, WriteFails, Statuses, Final, Settled
    <2>8. Entered
        BY <1>0, <2>1 DEF Settled, Started
    <2>9. Own
        <3>1. Uploaded(c)' <=> Uploaded(c)
            BY <1>5 DEF MarkFailed, Uploaded
        <3>. QED BY <1>0, <2>1, <2>5, <2>6, <3>1
                 DEF Settled, Started, Working, Lost, Bad, Final
    <2>. QED BY <2>2, <2>4, <2>5, <2>7, <2>8, <2>9 DEF Move
<1>6. CASE RunInProcess(c)
    <2>1. /\ c \notin Extended /\ call[c] = "idle" /\ call'[c] = "running" /\ rec' = rec
          /\ job'[c].pc = "init" /\ job'[c].verdict = "none"
        BY <1>6, CallIs, JobStarts DEF RunInProcess, Begins
    <2>2. Others
        BY <1>6, CallIs, JobStarts DEF RunInProcess, Uploaded
    <2>3. Lost(c) => Lost(c)'
        BY <1>0, <2>1 DEF Settled, Lost
    <2>4. Onward
        BY <2>1
    <2>5. \A a : Shared(a) => Shared(a)'
        BY <2>2, <2>3, <2>4, SharedLasts
    <2>6. (Lost(c) => Shared(RunOf[c])) /\ (Lost(c)' => Shared(RunOf[c])')
        BY <2>2, <2>3, <2>4, SharedLasts
    <2>7. Written
        BY <1>0, <1>6, <2>1 DEF RunInProcess, Working, Lost
    <2>8. Entered
        BY <1>0, <2>1 DEF Settled, Started
    <2>9. Own
        <3>1. Uploaded(c)' <=> Uploaded(c)
            BY <1>6 DEF RunInProcess, Uploaded
        <3>2. rec[RunOf[c]] # "none" => Shared(RunOf[c])'
            <4>. SUFFICES ASSUME rec[RunOf[c]] # "none" PROVE Repeated(RunOf[c])'
                BY DEF Shared
            <4>1. PICK d \in Calls : RunOf[d] = RunOf[c] /\ call[d] \notin {"idle", "refused"}
                BY DEF Writers, Asked
            <4>2. d # c /\ call'[d] = call[d]
                BY <2>1, <2>2, <4>1
            <4>. QED BY <2>1, <4>1, <4>2 DEF Repeated
        <3>. QED BY <1>0, <2>1, <2>5, <2>6, <3>1, <3>2
                 DEF Settled, Started, Working, Lost, Bad, Final
    <2>. QED BY <2>2, <2>4, <2>5, <2>7, <2>8, <2>9 DEF Move
<1>7. CASE AnswerInProcess(c)
    <2>1. /\ call[c] = "running" /\ job[c].pc \in {"over", "unwritten"}
          /\ call'[c] \in {"answered", "failed"} /\ rec' = rec /\ job' = job
        BY <1>7, CallIs DEF AnswerInProcess
    <2>2. Others
        BY <1>7, CallIs DEF AnswerInProcess, Uploaded
    <2>3. Lost(c) => Lost(c)'
        BY <1>0, <2>1 DEF Settled, Lost
    <2>4. Onward
        BY <2>1
    <2>5. \A a : Shared(a) => Shared(a)'
        BY <2>2, <2>3, <2>4, SharedLasts
    <2>6. (Lost(c) => Shared(RunOf[c])) /\ (Lost(c)' => Shared(RunOf[c])')
        BY <2>2, <2>3, <2>4, SharedLasts
    <2>7. Written
        BY <1>0, <1>7, <2>1 DEF AnswerInProcess, Working, Lost
    <2>8. Entered
        BY <1>0, <2>1 DEF Settled, Started
    <2>9. Own
        <3>1. Uploaded(c)' <=> Uploaded(c)
            BY <1>7 DEF AnswerInProcess, Uploaded
        <3>. QED BY <1>0, <2>1, <2>5, <2>6, <3>1
                 DEF Settled, Started, Working, Lost, Bad, Final
    <2>. QED BY <2>2, <2>4, <2>5, <2>7, <2>8, <2>9 DEF Move
<1>8. CASE CallDies(c)
    <2>1. /\ call[c] \in {"launch", "launch_failed", "running"} /\ call'[c] = "died" /\ rec' = rec
          /\ \/ job' = job /\ call[c] # "running"
             \/ /\ call[c] = "running" /\ job'[c].pc = "died"
                /\ job'[c].verdict = job[c].verdict
        BY <1>8, CallIs, JobGoes DEF CallDies, JobTo, JobPCs
    <2>2. Others
        BY <1>8, CallIs, JobGoes, SMTT(30) DEF CallDies, Uploaded, JobTo, JobPCs
    <2>3. Lost(c) => Lost(c)'
        BY <1>0, <2>1 DEF Settled, Lost
    <2>4. Onward
        BY <2>1
    <2>5. \A a : Shared(a) => Shared(a)'
        BY <2>2, <2>3, <2>4, SharedLasts
    <2>6. (Lost(c) => Shared(RunOf[c])) /\ (Lost(c)' => Shared(RunOf[c])')
        BY <2>2, <2>3, <2>4, SharedLasts
    <2>7. Written
        BY <1>0, <1>8, <2>1 DEF CallDies, Working, Lost
    <2>8. Entered
        BY <1>0, <2>1 DEF Settled, Started
    <2>9. Own
        <3>1. Uploaded(c)' <=> Uploaded(c)
            BY <1>8 DEF CallDies, Uploaded
        <3>. QED BY <1>0, <2>1, <2>5, <2>6, <3>1
                 DEF Settled, Started, Working, Lost, Bad, Final
    <2>. QED BY <2>2, <2>4, <2>5, <2>7, <2>8, <2>9 DEF Move
<1>9. CASE ContextEnds(c)
    <2>1. /\ call' = call /\ rec' = rec
          /\ job'[c].pc = job[c].pc /\ job'[c].verdict = job[c].verdict
        BY <1>9, JobEnded DEF ContextEnds
    <2>2. Others
        BY <1>9, JobEnded DEF ContextEnds, Uploaded
    <2>3. Lost(c) => Lost(c)'
        BY <1>0, <2>1 DEF Settled, Lost
    <2>4. Onward
        BY <2>1
    <2>5. \A a : Shared(a) => Shared(a)'
        BY <2>2, <2>3, <2>4, SharedLasts
    <2>6. (Lost(c) => Shared(RunOf[c])) /\ (Lost(c)' => Shared(RunOf[c])')
        BY <2>2, <2>3, <2>4, SharedLasts
    <2>7. Written
        BY <1>0, <1>9, <2>1 DEF ContextEnds, Working, Lost
    <2>8. Entered
        BY <1>0, <2>1 DEF Settled, Started
    <2>9. Own
        <3>1. Uploaded(c)' <=> Uploaded(c)
            BY <1>9 DEF ContextEnds, Uploaded
        <3>. QED BY <1>0, <2>1, <2>5, <2>6, <3>1
                 DEF Settled, Started, Working, Lost, Bad, Final
    <2>. QED BY <2>2, <2>4, <2>5, <2>7, <2>8, <2>9 DEF Move
<1>10. CASE UpsertRunning(c)
    <2>1. /\ job[c].pc = "init" /\ call' = call
          /\ job'[c].pc \in {"check", "unwritten"} /\ job'[c].verdict = job[c].verdict
          /\ (rec' = rec /\ job'[c].pc = "unwritten") \/ rec'[RunOf[c]] = "running"
        BY <1>10, StatusIs, JobGoes DEF UpsertRunning, WriteFails, Statuses, JobPCs
    <2>2. Others
        BY <1>10, StatusIs, JobGoes DEF UpsertRunning, Uploaded, WriteFails, Statuses, JobPCs
    <2>3. Lost(c) => Lost(c)'
        BY <1>0, <2>1 DEF Settled, Lost
    <2>4. Onward
        BY <2>1
    <2>5. \A a : Shared(a) => Shared(a)'
        BY <2>2, <2>3, <2>4, SharedLasts
    <2>6. (Lost(c) => Shared(RunOf[c])) /\ (Lost(c)' => Shared(RunOf[c])')
        BY <2>2, <2>3, <2>4, SharedLasts
    <2>7. Written
        <3>1. call'[c] \notin {"idle", "refused"}
            BY <1>0, <2>1 DEF Settled
        <3>. QED
            BY <1>10, <2>1, <3>1 DEF UpsertRunning, Working, Lost, WriteFails, Statuses
    <2>8. Entered
        BY <1>0, <2>1 DEF Settled, Started
    <2>9. Own
        <3>1. Uploaded(c)' <=> Uploaded(c)
            BY <1>10 DEF UpsertRunning, Uploaded
        <3>. QED BY <1>0, <2>1, <2>5, <2>6, <3>1
                 DEF Settled, Started, Working, Lost, Bad, Final
    <2>. QED BY <2>2, <2>4, <2>5, <2>7, <2>8, <2>9 DEF Move
<1>11. CASE CheckExisting(c)
    <2>1. /\ job[c].pc = "check" /\ call' = call /\ rec' = rec
          /\ job'[c].pc \in {"read", "build", "finish"}
        BY <1>11, JobGoes, JobDecides, JobAllows, JobClearsMode DEF CheckExisting, JobPCs,
            Verdicts
    <2>2. Others
        BY <1>11, JobGoes, JobDecides, JobAllows, JobClearsMode, ZenonT(60) DEF CheckExisting, Uploaded,
            JobPCs, Verdicts
    <2>3. Lost(c) => Lost(c)'
        BY <1>0, <2>1 DEF Settled, Lost
    <2>4. Onward
        BY <2>1
    <2>5. \A a : Shared(a) => Shared(a)'
        BY <2>2, <2>3, <2>4, SharedLasts
    <2>6. (Lost(c) => Shared(RunOf[c])) /\ (Lost(c)' => Shared(RunOf[c])')
        BY <2>2, <2>3, <2>4, SharedLasts
    <2>7. Written
        BY <1>0, <1>11, <2>1 DEF CheckExisting, Working, Lost
    <2>8. Entered
        BY <1>0, <2>1 DEF Settled, Started
    <2>9. Own
        <3>1. Uploaded(c)' <=> Uploaded(c)
            BY <1>11 DEF CheckExisting, Uploaded
        <3>. QED BY <1>0, <2>1, <2>5, <2>6, <3>1
                 DEF Settled, Started, Working, Lost, Bad, Final
    <2>. QED BY <2>2, <2>4, <2>5, <2>7, <2>8, <2>9 DEF Move
<1>12. CASE ReadExisting(c)
    <2>1. /\ job[c].pc = "read" /\ call' = call /\ rec' = rec
          /\ job'[c].pc \in {"build", "finish"}
        BY <1>12, JobDecides, JobAllows DEF ReadExisting, Verdicts
    <2>2. Others
        BY <1>12, JobDecides, JobAllows DEF ReadExisting, Uploaded, Verdicts
    <2>3. Lost(c) => Lost(c)'
        BY <1>0, <2>1 DEF Settled, Lost
    <2>4. Onward
        BY <2>1
    <2>5. \A a : Shared(a) => Shared(a)'
        BY <2>2, <2>3, <2>4, SharedLasts
    <2>6. (Lost(c) => Shared(RunOf[c])) /\ (Lost(c)' => Shared(RunOf[c])')
        BY <2>2, <2>3, <2>4, SharedLasts
    <2>7. Written
        BY <1>0, <1>12, <2>1 DEF ReadExisting, Working, Lost
    <2>8. Entered
        BY <1>0, <2>1 DEF Settled, Started
    <2>9. Own
        <3>1. Uploaded(c)' <=> Uploaded(c)
            BY <1>12 DEF ReadExisting, Uploaded
        <3>. QED BY <1>0, <2>1, <2>5, <2>6, <3>1
                 DEF Settled, Started, Working, Lost, Bad, Final
    <2>. QED BY <2>2, <2>4, <2>5, <2>7, <2>8, <2>9 DEF Move
<1>13. CASE Build(c)
    <2>1. /\ job[c].pc = "build" /\ call' = call /\ rec' = rec
          /\ job'[c].pc \in {"recheck", "finish"}
        BY <1>13, JobGoes, JobDecides DEF Build, JobPCs, Verdicts
    <2>2. Others
        BY <1>13, JobGoes, JobDecides DEF Build, Uploaded, JobPCs, Verdicts
    <2>3. Lost(c) => Lost(c)'
        BY <1>0, <2>1 DEF Settled, Lost
    <2>4. Onward
        BY <2>1
    <2>5. \A a : Shared(a) => Shared(a)'
        BY <2>2, <2>3, <2>4, SharedLasts
    <2>6. (Lost(c) => Shared(RunOf[c])) /\ (Lost(c)' => Shared(RunOf[c])')
        BY <2>2, <2>3, <2>4, SharedLasts
    <2>7. Written
        BY <1>0, <1>13, <2>1 DEF Build, Working, Lost
    <2>8. Entered
        BY <1>0, <2>1 DEF Settled, Started
    <2>9. Own
        <3>1. Uploaded(c)' <=> Uploaded(c)
            BY <1>13 DEF Build, Uploaded
        <3>. QED BY <1>0, <2>1, <2>5, <2>6, <3>1
                 DEF Settled, Started, Working, Lost, Bad, Final
    <2>. QED BY <2>2, <2>4, <2>5, <2>7, <2>8, <2>9 DEF Move
<1>14. CASE RecheckExisting(c)
    <2>1. /\ job[c].pc = "recheck" /\ call' = call /\ rec' = rec
          /\ job'[c].pc \in {"publish", "finish"}
        BY <1>14, JobGoes, JobDecides DEF RecheckExisting, JobPCs, Verdicts
    <2>2. Others
        BY <1>14, JobGoes, JobDecides DEF RecheckExisting, Uploaded, JobPCs, Verdicts
    <2>3. Lost(c) => Lost(c)'
        BY <1>0, <2>1 DEF Settled, Lost
    <2>4. Onward
        BY <2>1
    <2>5. \A a : Shared(a) => Shared(a)'
        BY <2>2, <2>3, <2>4, SharedLasts
    <2>6. (Lost(c) => Shared(RunOf[c])) /\ (Lost(c)' => Shared(RunOf[c])')
        BY <2>2, <2>3, <2>4, SharedLasts
    <2>7. Written
        BY <1>0, <1>14, <2>1 DEF RecheckExisting, Working, Lost
    <2>8. Entered
        BY <1>0, <2>1 DEF Settled, Started
    <2>9. Own
        <3>1. Uploaded(c)' <=> Uploaded(c)
            BY <1>14 DEF RecheckExisting, Uploaded
        <3>. QED BY <1>0, <2>1, <2>5, <2>6, <3>1
                 DEF Settled, Started, Working, Lost, Bad, Final
    <2>. QED BY <2>2, <2>4, <2>5, <2>7, <2>8, <2>9 DEF Move
<1>15. CASE Publish(c)
    <2>1. /\ job[c].pc = "publish" /\ call' = call /\ rec' = rec
          /\ job'[c].pc = "finish" /\ job'[c].verdict = "success"
        BY <1>15, JobDecides DEF Publish, Verdicts
    <2>2. Others
        BY <1>0, <1>15, JobDecides, UploadIs DEF Publish, Verdicts
    <2>3. Lost(c) => Lost(c)'
        BY <1>0, <2>1 DEF Settled, Lost
    <2>4. Onward
        BY <2>1
    <2>5. \A a : Shared(a) => Shared(a)'
        BY <2>2, <2>3, <2>4, SharedLasts
    <2>6. (Lost(c) => Shared(RunOf[c])) /\ (Lost(c)' => Shared(RunOf[c])')
        BY <2>2, <2>3, <2>4, SharedLasts
    <2>7. Written
        BY <1>0, <1>15, <2>1 DEF Publish, Working, Lost
    <2>8. Entered
        BY <1>0, <2>1 DEF Settled, Started
    <2>9. Own
        BY <1>0, <2>1, <2>5, <2>6 DEF Settled, Started, Working, Lost, Bad, Final
    <2>. QED BY <2>2, <2>4, <2>5, <2>7, <2>8, <2>9 DEF Move
<1>16. CASE PublishUnanswered(c)
    <2>1. /\ job[c].pc = "publish" /\ call' = call /\ rec' = rec
          /\ job'[c].pc = "finish" /\ job'[c].verdict = "unknown"
        BY <1>16, JobDecides DEF PublishUnanswered, Verdicts
    <2>2. Others
        BY <1>0, <1>16, JobDecides, UploadIs DEF PublishUnanswered, Verdicts
    <2>3. Lost(c) => Lost(c)'
        BY <1>0, <2>1 DEF Settled, Lost
    <2>4. Onward
        BY <2>1
    <2>5. \A a : Shared(a) => Shared(a)'
        BY <2>2, <2>3, <2>4, SharedLasts
    <2>6. (Lost(c) => Shared(RunOf[c])) /\ (Lost(c)' => Shared(RunOf[c])')
        BY <2>2, <2>3, <2>4, SharedLasts
    <2>7. Written
        BY <1>0, <1>16, <2>1 DEF PublishUnanswered, Working, Lost
    <2>8. Entered
        BY <1>0, <2>1 DEF Settled, Started
    <2>9. Own
        BY <1>0, <2>1, <2>5, <2>6 DEF Settled, Started, Working, Lost, Bad, Final
    <2>. QED BY <2>2, <2>4, <2>5, <2>7, <2>8, <2>9 DEF Move
<1>17. CASE StepFails(c)
    <2>1. /\ job[c].pc \in {"check", "read", "build", "recheck", "publish"}
          /\ call' = call /\ rec' = rec /\ job'[c].pc = "finish"
        BY <1>17, JobDecides DEF StepFails, Verdicts
    <2>2. Others
        BY <1>17, JobDecides DEF StepFails, Uploaded, Verdicts
    <2>3. Lost(c) => Lost(c)'
        BY <1>0, <2>1 DEF Settled, Lost
    <2>4. Onward
        BY <2>1
    <2>5. \A a : Shared(a) => Shared(a)'
        BY <2>2, <2>3, <2>4, SharedLasts
    <2>6. (Lost(c) => Shared(RunOf[c])) /\ (Lost(c)' => Shared(RunOf[c])')
        BY <2>2, <2>3, <2>4, SharedLasts
    <2>7. Written
        BY <1>0, <1>17, <2>1 DEF StepFails, Working, Lost
    <2>8. Entered
        BY <1>0, <2>1 DEF Settled, Started
    <2>9. Own
        <3>1. Uploaded(c)' <=> Uploaded(c)
            BY <1>17 DEF StepFails, Uploaded
        <3>. QED BY <1>0, <2>1, <2>5, <2>6, <3>1
                 DEF Settled, Started, Working, Lost, Bad, Final
    <2>. QED BY <2>2, <2>4, <2>5, <2>7, <2>8, <2>9 DEF Move
<1>18. CASE Finish(c)
    <2>1. /\ job[c].pc = "finish" /\ call' = call
          /\ job'[c].pc \in {"over", "unwritten"} /\ job'[c].verdict = job[c].verdict
          /\ \/ rec' = rec
             \/ /\ rec'[RunOf[c]] \in Final
                /\ job[c].verdict = "success" => rec'[RunOf[c]] = "success"
        BY <1>18, StatusIs, JobGoes DEF Finish, WriteFails, StatusOf, Statuses, Final, JobPCs
    <2>2. Others
        BY <1>18, StatusIs, JobGoes DEF Finish, Uploaded, WriteFails, StatusOf, Statuses, Final,
            JobPCs
    <2>3. Lost(c) => Lost(c)'
        BY <1>0, <2>1 DEF Settled, Lost
    <2>4. Onward
        BY <2>1
    <2>5. \A a : Shared(a) => Shared(a)'
        BY <2>2, <2>3, <2>4, SharedLasts
    <2>6. (Lost(c) => Shared(RunOf[c])) /\ (Lost(c)' => Shared(RunOf[c])')
        BY <2>2, <2>3, <2>4, SharedLasts
    <2>7. Written
        <3>1. call'[c] \notin {"idle", "refused"}
            BY <1>0, <2>1 DEF Settled
        <3>. QED
            BY <1>18, <2>1, <3>1 DEF Finish, Working, Lost, WriteFails, StatusOf, Statuses, Final
    <2>8. Entered
        BY <1>0, <2>1 DEF Settled, Started
    <2>9. Own
        <3>1. Uploaded(c)' <=> Uploaded(c)
            BY <1>18 DEF Finish, Uploaded
        <3>. QED BY <1>0, <2>1, <2>5, <2>6, <3>1
                 DEF Settled, Started, Working, Lost, Bad, Final
    <2>. QED BY <2>2, <2>4, <2>5, <2>7, <2>8, <2>9 DEF Move
<1>19. CASE JobDies(c)
    <2>1. /\ job[c].pc \notin {"none", "over", "unwritten", "died"} /\ call' = call /\ rec' = rec
          /\ job'[c].pc = "died" /\ job'[c].verdict = job[c].verdict
        BY <1>19, JobGoes DEF JobDies, JobPCs
    <2>2. Others
        BY <1>19, JobGoes DEF JobDies, Uploaded, JobPCs
    <2>3. Lost(c) => Lost(c)'
        BY <1>0, <2>1 DEF Settled, Lost
    <2>4. Onward
        BY <2>1
    <2>5. \A a : Shared(a) => Shared(a)'
        BY <2>2, <2>3, <2>4, SharedLasts
    <2>6. (Lost(c) => Shared(RunOf[c])) /\ (Lost(c)' => Shared(RunOf[c])')
        BY <2>2, <2>3, <2>4, SharedLasts
    <2>7. Written
        BY <1>0, <1>19, <2>1 DEF JobDies, Working, Lost
    <2>8. Entered
        BY <1>0, <2>1 DEF Settled, Started
    <2>9. Own
        <3>1. Uploaded(c)' <=> Uploaded(c)
            BY <1>19 DEF JobDies, Uploaded
        <3>. QED BY <1>0, <2>1, <2>5, <2>6, <3>1
                 DEF Settled, Started, Working, Lost, Bad, Final
    <2>. QED BY <2>2, <2>4, <2>5, <2>7, <2>8, <2>9 DEF Move
<1>20. CASE AnswerRebuild(c)
    <2>1. /\ call[c] = "running" /\ job[c].pc \in {"over", "unwritten"}
          /\ call'[c] \in {"answered", "failed"} /\ rec' = rec /\ job' = job
        BY <1>20, CallIs DEF AnswerRebuild
    <2>2. Others
        BY <1>20, CallIs DEF AnswerRebuild, Uploaded
    <2>3. Lost(c) => Lost(c)'
        BY <1>0, <2>1 DEF Settled, Lost
    <2>4. Onward
        BY <2>1
    <2>5. \A a : Shared(a) => Shared(a)'
        BY <2>2, <2>3, <2>4, SharedLasts
    <2>6. (Lost(c) => Shared(RunOf[c])) /\ (Lost(c)' => Shared(RunOf[c])')
        BY <2>2, <2>3, <2>4, SharedLasts
    <2>7. Written
        BY <1>0, <1>20, <2>1 DEF AnswerRebuild, Working, Lost
    <2>8. Entered
        BY <1>0, <2>1 DEF Settled, Started
    <2>9. Own
        <3>1. Uploaded(c)' <=> Uploaded(c)
            BY <1>20 DEF AnswerRebuild, Uploaded
        <3>. QED BY <1>0, <2>1, <2>5, <2>6, <3>1
                 DEF Settled, Started, Working, Lost, Bad, Final
    <2>. QED BY <2>2, <2>4, <2>5, <2>7, <2>8, <2>9 DEF Move
<1>. QED BY <1>1, <1>2, <1>3, <1>4, <1>5, <1>6, <1>7, <1>8, <1>9, <1>10, <1>11, <1>12, <1>13,
         <1>14, <1>15, <1>16, <1>17, <1>18, <1>19, <1>20 DEF CallSteps, JobSteps

LEMMA InitWriters == Init => Writers
<1>. SUFFICES ASSUME Init PROVE Writers
    OBVIOUS
<1>1. \A c \in Calls : call[c] = "idle" /\ job[c].pc = "none"
    BY DEF Init, NoJob
<1>2. \A c \in Calls : rec[RunOf[c]] = "none" /\ ~Uploaded(c)
    <2>1. DOMAIN bundle = {}
        BY DEF Init
    <2>2. \A c \in Calls : rec[RunOf[c]] = "none"
        BY RebuildAttemptAssumption DEF Init
    <2>. QED BY <2>1, <2>2 DEF Uploaded
<1>3. \A c \in Calls : ~Started(c) /\ ~Working(c)
    BY <1>1 DEF Started, Working
<1>. QED BY <1>1, <1>2, <1>3, RebuildAttemptAssumption DEF Writers, Alone, Asked, Settled

LEMMA WritersInductive == Spec => [](IndInv /\ Writers)
<1>1. IndInv /\ Writers /\ [Next]_vars => Writers'
    <2>. SUFFICES ASSUME IndInv, Writers, [Next]_vars PROVE Writers'
        OBVIOUS
    <2>1. Typed /\ Grounded
        BY TypedIsTypeOK DEF IndInv
    <2>2. CASE Next
        <3>1. PICK c \in Calls : CallSteps(c) \/ JobSteps(c)
            BY <2>2 DEF Next
        <3>. QED BY <2>1, <3>1, StepMoves, MoveKeeps
    <2>3. CASE UNCHANGED vars
        BY <2>3 DEF vars, Writers, Alone, Asked, Settled, Started, Working, Uploaded, Shared,
            LaunchLost, Repeated
    <2>. QED BY <2>2, <2>3
<1>2. Init => Writers
    BY InitWriters
<1>. QED BY <1>1, <1>2, Inductive, PTL DEF Spec

\* A run that RebuildPackage reports as failed, broken or cancelled has uploaded nothing,
\* unless the answer to its upload or to its launch was lost, or the run was repeated by a
\* call that RebuildPackage serves in process, whose Upsert looks for no record.
THEOREM FailureHasNoBundle == Spec => []FailureIsUnpublished
<1>1. Writers => FailureIsUnpublished
    BY DEF Writers, Settled, Shared, FailureIsUnpublished, Uploaded, Bad
<1>. QED BY <1>1, WritersInductive, PTL

\* A record that operations are read from does not change once it is final, unless the call and
\* its job both write it, or the run was repeated in process and RebuildPackage's Upsert began
\* it again.
THEOREM DoneStays == Spec => DoneIsFinal
<1>1. IndInv /\ Writers /\ [Next]_vars =>
        [\A a \in Attempts : rec[a] \in Final =>
            rec'[a] = rec[a] \/ LaunchLost(a) \/ Repeated(a)]_vars
    <2>. SUFFICES ASSUME IndInv, Writers, Next, NEW a \in Attempts, rec[a] \in Final,
                         rec'[a] # rec[a]
                  PROVE  Shared(a)
        BY DEF vars, Shared
    <2>1. Typed /\ Grounded
        BY TypedIsTypeOK DEF IndInv
    <2>2. PICK c \in Calls : CallSteps(c) \/ JobSteps(c)
        BY DEF Next
    <2>3. Move(c)
        BY <2>1, <2>2, StepMoves
    <2>4. PICK status \in Statuses : rec' = [rec EXCEPT ![RunOf[c]] = status]
        BY <2>3 DEF Move, SetStatus
    <2>5. RunOf[c] = a
        BY <2>1, <2>4 DEF Typed
    <2>6. Working(c) \/ Lost(c)
        BY <2>3, <2>5 DEF Move, Final
    <2>7. CASE Working(c)
        BY <2>5, <2>7 DEF Writers, Settled
    <2>8. CASE Lost(c)
        BY <2>5, <2>8 DEF Lost, LaunchLost, Shared
    <2>. QED BY <2>6, <2>7, <2>8
<1>. QED BY <1>1, WritersInductive, PTL DEF Spec, DoneIsFinal
=============================================================================
