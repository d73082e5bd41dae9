# Specifications of OSS Rebuild

TLA+ models of the concurrent core of OSS Rebuild, checked with TLC, and proofs
about them checked with TLAPS. Paths below are relative to the root of the
repository; `agentapi/` stands for `internal/api/agentapiservice/` and `worker/`
for `internal/api/scratchworkerservice/`.

1. [The system](#1-the-system)
2. [Plan](#2-plan)
3. [The modules](#3-the-modules)
4. [The runs](#4-the-runs)
5. [Fairness](#5-fairness)
6. [What is proved](#6-what-is-proved)
7. [Where code and documentation disagree](#7-where-code-and-documentation-disagree)
8. [What is not modelled](#8-what-is-not-modelled)

## 1. The system

OSS Rebuild rebuilds published packages from source and attests those that come
out the same. Most of the repository is sequential: it parses package metadata,
guesses a build recipe, renders it, normalises archives and compares them. What is
hard to test is in the services around that: handlers of several stateless
replicas which share records in Firestore, objects in Cloud Storage (GCS) and
virtual machines, with no lock between them, where any call can fail, stop half
way or be repeated.

The **scratch subsystem** is the densest part of it. An agent session owns a
*scratch*, a VM with a small worker on it. The agent asks the broker to run
commands (*execs*) on the VM, polls them, and reads their output from a GCS object
that the broker extends at every poll. A reaper, called by a scheduler every
30 minutes, ends what nobody looks after any more. Its five handlers communicate
only by what they read and write.

```
 agent ──ScratchCreate/ScratchDelete──┐            ┌── Firestore: scratch and
 agent ──ScratchExecCreate────────────┤            │   exec records
 agent ──ScratchExecGet (poll)────────┼─ brokers ──┼── GCS: OutURI, parts/<offset>
 scheduler ──ScratchReap──────────────┤            ├── Compute Engine: the VMs
 session end ──AgentComplete──────────┘            └── worker on the VM: ExecStart,
                                                       Status, Output
```

### Components

For each component: the state it keeps, its operations, how it interacts, what is
hard, and what makes it correct.

**Exec output sync** (`agentapi/scratch_exec.go`, `gcsSyncer`). *State*: the published
object and its generation, part objects named by their start offset, all in GCS.
*Operations*: `Sync`, `pullOutput`. *Interaction*: called by `ScratchExecGet`,
`optimisticWait` and the reaper, on any replica; reads the worker over HTTP. *Hard*: there
is no lock; two preconditions of GCS (a part must not exist, the object's generation
must match) order concurrent calls; a broker can die between any two of the calls.
*Correct when*: the published object is always a prefix of the output and only grows;
no part is left behind; a Completed exec has all its output published.

**Exec operations** (`agentapi/scratch_exec.go`). *State*: the `ScratchExec` records.
*Operations*: `ScratchExecCreate` (check, insert, dispatch, record use, optionally wait),
`ScratchExecGet` (read, check scratch, sync, finalize). *Hard*: every terminal write
replaces the whole record by a copy read earlier; the dispatch comes before the use of
the scratch is recorded. *Correct when*: a terminal record is consistent in itself; an
exec is Lost only for a reason; a bounded exec ends though its agent walks away.

**Scratch reaper** (`agentapi/scratch_reap.go`). *State*: none of its own; one pass works from a
snapshot of the pending execs and a listing of idle scratches. *Operations*: `ScratchReap`
with `syncPendingFor`, `teardownScratch`, `terminalStateFor`. *Hard*: all it reads may be
stale when it acts. *Correct when*: it does not tear down a scratch in use; every idle
or half deleted scratch ends Deleted; no exec stays Pending for ever.

**Scratch lifecycle** (`agentapi/scratch.go`, `scratch_zone.go`, `scratch_gce.go`,
`complete.go`). *State*: the `Scratch` records, the VMs, a cool-down per zone in each
broker. *Operations*: `ScratchCreate` with `insertWithFallthrough`, `waitHealthy`, the
cleanup of a failed create, `ScratchDelete`, `AgentComplete`'s release. *Hard*: a VM is
known only by the zone in a record or in the memory of a call. *Correct when*: a scratch has
at most one VM, a Ready one has it, and no VM is forgotten.

**Scratch worker** (`worker/exec.go`, `cmd.go`). *State*: one entry per exec: state, exit
code, frozen size, capture file. *Operations*: `ExecStart`, `Status`, `Output`, the timeout's
kill, `gc`. *Hard*: `gc` runs on the path of another exec's start; a background child may
write to the capture file after the command exits; reads go on without the lock.
*Correct when*: an answer is kept until the broker has it; the reported size never falls.

**Scratch records** (`internal/db/scratch.go`, `scratch_exec.go`). Field updates and listings of
the records above; each is one database call.

**Agent sessions** (`internal/api/apiservice/agent.go`, `agentapi/iteration.go`, `complete.go`,
`internal/agent/session.go`). *State*: session and iteration records; how far the agent has got.
*Operations*: `AgentCreate`, the agent's `RunSession`, `AgentCreateIteration` with `reserveIteration`,
`AgentComplete`. *Interaction*: `AgentCreate` launches the agent, which calls the other two over HTTP; an
iteration starts a build. *Hard*: `AgentCreate` writes its whole copy of the session after the job has been
launched; an iteration waits for its build while the session may be completed, or while its caller has
given up. *Correct when*: iteration numbers are unique; a session names as its success an iteration that is
recorded as one; a completion lasts; sessions and iterations end.

**Rebuild attempts and attestation publishing** (`internal/api/apiservice/rebuild.go`,
`rebuild_lro.go`, `internal/verifier/attestor.go`). *State*: attempt records, attestation
bundles. *Operations*: `CreateRebuildOp`, `RebuildPackage`, `BundleExists`, `PublishBundle`. *Interaction*: an
operation is launched as a job of its own or runs in the call; clients read the record. *Hard*:
the existence check and the publication are far apart; the launch, the publication and the context can each fail
with the work done; the terminal write is only logged when it fails. *Correct when*: what an attempt reports
is what was published; a bundle says truly what it overwrote; a done operation stays as it is; an attempt ends.

**Build executors** (`pkg/build/scratch`, `pkg/build/gcb`, `pkg/build/local`, `pkg/gcb`). *State*: the active
builds, slots, one handle per build; the build in Cloud Build or the commands and containers on the VM.
*Operations*: `Start`, `executeBuild`, `Wait`, `Cancel`, `Close`, `WaitForOperation`. *Hard*: `Wait`, `Close` and the
build's own goroutine share the handle, and all three may end the build; a command on the VM cannot be killed.
*Correct when*: a caller is told what happened, once; a build left behind has a cause; the VM is one build's own
while its phases run; `Close` leaves nothing running.

**Build output pipe** (`internal/bufiox`). A buffer of whole lines behind a blocking pipe.
*Correct when*: what is evicted is whole lines from the front, readers see the rest in
order, and a reader is woken by data or `Close`.

**In-memory caches** (`internal/cache`). *Correct when*: concurrent `GetOrSet` calls fetch once,
and a failed fetch is not remembered.

**Published database cache** (`internal/docdb`, `internal/snapshot`). *State*: Firestore; a bucket with one base and
delta segments named by time; each replica's local copy. *Operations*: the jobs `Delta` and `Rollup`; the cache's
`sync`, `hydrate`, `replay`. *Hard*: writes become visible after their stamp; a job scans one collection after the
other; a base is older than the segments that follow it; the cache reads the bucket object by object. *Correct when*: the
copy is complete through its freshness, never goes back, and has everything in the end.

**Rate limiting** (`internal/ratex`). A period that grows by a third and shrinks by a tenth.
*Correct when*: it stays between its bounds.

Other components (inference, stabilizers, registries, proxy, time warp, gateway, git cache,
dashboard, tools) are listed in `PROJECT.json` with the reason they are not modelled.

## 2. Plan

The scratch subsystem came first: it has the most actors, the most shared state and the
most comments that promise something about an interleaving. Then what it serves (sessions and builds), then the rest of
the services that share records or objects.

| # | Module | Models | Status |
|---|--------|--------|--------|
| 1 | `OutputSync` | one exec's output and its record under concurrent syncs | done |
| 2 | `OutputLog` | abstract: an append-only log; refined by `OutputSync` | done |
| 3 | `OutputSyncProofs` | inductive invariant, refinement | done |
| 4 | `ScratchExec` | execs of one scratch: create, poll, reap, delete, worker, time | done |
| 5 | `ScratchVM` | several scratches, their VMs, zones, create, delete, teardown | done |
| 6 | `ScratchVMProofs` | inductive invariants of 5 | done |
| 7 | `AgentSession` | `AgentCreate`, the agent, iterations, `AgentComplete` | done |
| 8 | `RebuildAttempt` | attempt records and racing attestation publishers | done |
| 9 | `CloudBuild` | one build of the Cloud Build executor: goroutine, `Wait`, `Close` | done |
| 10 | `ScratchBuild` | builds of the scratch executor: slots, commands, containers, `Close` | done |
| 11 | `MCParts` | 7, 9 and 10 checked in one run | done |
| 12 | `Snapshot` | delta, rollup, and the cache that replays them | done |
| 13 | `AgentSessionProofs` | types, iteration numbers, the named success, completion | done |
| 14 | `RebuildAttemptProofs` | types, success has its bundle, failure has none, done stays done | done |
| 15 | `ScratchExecProofs` | types, records agree with the worker, Lost has a cause, what gc and teardown spare, the refinement of 20 | done |
| 16 | `ScratchBuildProofs` | types, quiet after `Close`, the container is the build's own | done |
| 17 | `PartsProofs` | 9: types, what `Wait` tells, why a build is left behind; and what it, 13 and 16 say of the whole of 11 | done |
| 18 | `Replica` | abstract: what the published database promises those who query it; refined by 12 | done |
| 19 | `SnapshotProofs` | completeness through Freshness, the refinement of 18 | done |
| 20 | `ExecOp` | abstract: an exec as its client sees it; refined by 4 | done |
| | `ExecStore` | the worker's entries, gc and readers; refines what 1 and 4 assume of the worker | open |
| | `GitCache`, `LineBuffer` | archives in object storage; the bounded buffer behind the build output | open |

The parameters of every module are CONSTANTS with named assumptions, no module declares a
RECURSIVE operator, and each invariant is a conjunction of named parts, so that the
same modules serve TLC and TLAPS.

## 3. The modules

Each module maps one action to one call that leaves the handler: a read or write of the database,
of GCS, of Compute Engine or of the worker. What a handler has read lives in the variables of its
call until it is used, so everything stale that the code can act on is stale in the
model too. A definition preceded by the comment `Mutant:` is a plausible bug; it is
used by nothing and serves to show that a property would notice it.

### OutputSync

| TLA+ | Code |
|------|------|
| `capture`, `worker` | size of the capture file; `execEntry` (state, frozen size) |
| `main`, `gen`, `parts` | the object behind OutURI, its generation, `parts/<offset>` |
| `rec` | `ScratchExec.State` |
| `pc`, `seen`, `data` | where a call of `Sync` is, the status and attrs it has read, the tail it streamed |
| `Begin` .. `StatMain` | `Sync` up to `shouldCompose` |
| `Stream`, `StreamBreaks`, `ClosePart` | `pullOutput` up to `w.Close` and its 412 branch |
| `Compose`, `ComposeLosesRace`, `ComposeFails`, `DeletePart` | the compose and the deletion of the part |
| `Finish`, `FinalizeLost`, `BlindTimeout`, `Return` | the end of `Sync`, and what each kind of caller does with an error |
| `Crash`, `...ReplyLost`, `DeletePartFails` | the faults |

A byte is named by its position in the capture file, so a gap, a repetition or a
reordering in `main` is visible. The compose schedule (`shouldCompose`) is abstracted to a
choice, except for what the code promises of it: terminal and first syncs are never
throttled. The branch for an empty tail (`wrote == 0`) is left out because it can never be
taken, which is the theorem `NeverEmpty`. A lost reply covers a conditional create or
compose that took effect and is answered by an error, or is repeated by the storage
library and answered by 412.

### OutputLog

The abstract specification: `written` grows by one; `published` becomes a longer prefix of
what is written. `OutputSync!PublishesALog` instantiates it with `capture` and `main`.

### ScratchExec

| TLA+ | Code |
|------|------|
| `clock` | `time.Now()` of brokers and database, in units of the thresholds |
| `scratch` | `Scratch.State`, `LastUsed`, `Updated` |
| `exec` | `ScratchExec.State`, `ExitCode`, `Error`, `Created`, `TimeoutSeconds` |
| `wk` | the worker's entry: how the command stands, `startedAt`, and whether gc has spared it |
| `Create*` | `ScratchExecCreate`, `optimisticWait`, which is entered after a lost bump of `LastUsed` too (`waitblind`) |
| `Poll*` | `ScratchExecGet` with its `Sync` |
| `Reap*` | `ScratchReap` step by step: snapshot, listing, presync, re-check, teardown, re-listing, sweep |
| `Delete*` | `ScratchDelete` |
| `WorkerEnds`, `WorkerKills`, `Dispatched` | `runCommand`; `ExecStart` with the `gc` it runs first |

`Sync` is reduced to what it does to the record: `FetchStatus` and the final write. The bytes
are the subject of `OutputSync`. Three simplifications: `time.Now()` and `ListPending`, which
the reaper does back to back, are one step (a pass that began earlier has an earlier cutoff
and would tear down less); the value and the write of `LastUsed` are one step; and one
reaper pass runs at a time. `ReapEvery` is how late a pass may begin, `PassLasts` how long one may last. A client polls only execs whose create call has told it of them.

### ExecOp

The abstract specification of an exec, as a client sees it that holds the operation's id: it is submitted, its command launched once and ended, by the
timeout's kill not before the timeout, and it is answered: Completed if the command exited, TimedOut with the kill's code if it was killed,
TimedOut without one after the deadline, or Lost. It can be answered again, since callers overwrite each other, but it is not Pending
again. The pollers, the reaper, the scratch and the VM are not in it. `ScratchExec!BehavesAsOp` instantiates it with the clock, how the commands stand
on the worker, and the records.

### ScratchVM

| TLA+ | Code |
|------|------|
| `rec`, `vms` | the `Scratch` records; the instances of Compute Engine as pairs of a scratch and a zone |
| `until` | `ZoneCooldown.until` of one broker |
| `create` | where `ScratchCreate` stands, its `scratch.Zone`, the zones left to try |
| `CreatePick` .. `CreateVMFails` | `active`, `insertWithFallthrough`, `mark` |
| `CreateUpdate`, `CreateProbe`, `CreateReady` | the rest of `ScratchCreate` |
| `CleanupVM`, `CleanupState` | its deferred cleanup |
| `Delete*` | `ScratchDelete`, as its holder or `AgentComplete` calls it |
| `Reap*` | the teardown half of `ScratchReap` |
| `Use` | `UpdateLastUsed`; the rest of an exec is in `ScratchExec` |

A database write that fails may have taken effect or not; an insert that fails for any
reason but exhaustion may have left a VM.

### AgentSession

| TLA+ | Code |
|------|------|
| `mode` | `req.ExecutionMode` scratch or not; `req.External` |
| `session` | the session record: status, `IterationCount`, `ScratchID` set or not, `SuccessIteration` |
| `iter`, `handler` | an iteration record, and the call of `AgentCreateIteration` it belongs to, by the agent's attempt |
| `vm` | the session's scratch: not made, up, gone |
| `InsertSession` .. `Release` | `AgentCreate` write by write, with its three ways out |
| `TryLocally`, `TryIteration`, `HearAnswer`, `StopTrying` | `RunSession` and `doSession` |
| `Reserve`, `InsertIteration`, `StartBuild`, `MarkBuilding`, `AwaitBuild`, `WriteResult` | `AgentCreateIteration` |
| `MarkCompleted`, `Teardown`, `CompleteDies` | `AgentComplete`, and its process ending between the record and the scratch |
| `AgentHearsEnd` | the agent that sees its session completed |
| `ReapIdle` | what `ScratchReap` does to a scratch nobody uses (`ScratchVM`) |

`AgentCreate` writes the record it holds and not a field: `Copy` is that record, with a count of zero. What the model
proposes, whether a local attempt succeeds and what a build yields are choices.

### RebuildAttempt

| TLA+ | Code |
|------|------|
| `rec` | the status of the attempt record of each run of the target |
| `bundle` | the generations of the target's attestation bundle, the last one current |
| `call`, `InsertAttempt` .. `CallDies` | `CreateRebuildOp`, with the job or in process, and `/rebuild` (`Direct`), which is `RebuildPackage` itself |
| `RunOf`, `Repeated` | which run a call names; that one was asked for again by a call nothing refused |
| `job`, `UpsertRunning`, `Finish`, `StatusOf` | `RebuildPackage`: the first and the last write of the record |
| `CheckExisting`, `ReadExisting`, `Build` | `rebuildPackage` and `checkOverwrite`'s three modes |
| `RecheckExisting`, `Publish`, `PublishUnanswered` | `Attestor.PublishBundle` |
| `ContextEnds` | the caller leaves or the timeout passes; calls made from then on fail |

A bundle is who wrote it, the overwrite mode it records and the version of the service. Any two calls may name
one run: `tools/benchmark/run/run.go:385` puts `/rebuild` with the run's ID into a queue that delivers at least once, and line 185 retries
with the same ID. `MCRebuildAttempt` names the runs: an extended one asked for twice, and one in process asked for again by `/rebuild`.
`MaxCalls` bounds how many of the calls are made in one behaviour.

### CloudBuild

| TLA+ | Code |
|------|------|
| `opts` | `CancelPolicy` detached or not; `TerminateOnTimeout` |
| `handle`, `active` | `gcbHandle`; its presence in `activeBuilds` |
| `cloud` | the build in Cloud Build |
| `CreateBuild` .. `RetireThenAnswer` | `executeBuild`, `doBuild` and `gcb.WaitForOperation` |
| `TakeResult`, `WaitCancels`, `WaitGivesUp` | `gcbHandle.Wait` |
| `CloseCancels` .. `CloseReturns` | `Executor.Close` |

### ScratchBuild

| TLA+ | Code |
|------|------|
| `build` | where `executeBuild` or `runBuild` stands; the handle's status and result |
| `call`, `strays` | the command a build has asked the scratch for; commands that run with nobody polling them |
| `container` | the containers on the VM |
| `TakeSlot`, `LeaveQueue`, `Finish`, `Answer`, `Release` | `startBuild`, `executeBuild` |
| `Moved`, `Effect` | `runBuild`: which command comes next, and what each does to the containers |
| `Ask` .. `CommandFails` | `exec`: the create request, the polls, and the ways of giving up |
| `CloseBegins`, `CancelHandle`, `CloseWaits` | `Executor.Close` and the handle's `Cancel` |

A command given up on is not killed: it is in `strays` and takes effect at any time or never (`StrayEnds`).

### Snapshot

| TLA+ | Code |
|------|------|
| `source`, `writing`, `written` | the rows visible in Firestore, the writes stamped and not yet visible, all updates |
| `delta`, `DeltaStart`, `DeltaScan`, `DeltaWrite` | `snapshot.Delta` |
| `rollup`, `Rollup*` | `snapshot.Rollup` |
| `segments`, `base` | the bucket |
| `sync`, `SyncStat`, `SyncFetch`, `HydrateList`, `HydrateSwap`, `SyncList`, `Apply` | the cache's `sync`, `hydrate` (the listing, and later the copy put in place) and `replay` |
| `cache`, `Freshness` | the copy that is served |
| `Upserts` | the upserts guarded by `updated` |

A row is the stamp of its last update. The bounds `Skew` (from stamp to visibility) and `Longest` (of a delta) are the
environment's: the code's two slacks, of two minutes each, are to cover them, and so does the module's assumption.
`Tick` keeps the schedule: a delta of the first day starts before the bootstrap window has passed.

### Replica

The abstract specification of the published database, as one who queries a cache sees it: `rows`, each at the stamp of one of its
`updates`, and `through`, the point up to which the copy claims to be complete. A `Serve` moves rows to later updates only, and whatever
is stamped a `Delay` before the new claim is there. The jobs, the bucket and the steps of a refresh are not in it.
`Snapshot!ServesAReplica` instantiates it with the copy served and its `Freshness`. The claim itself may fall back, and in the code does (section 7).

### The MC modules

`MCOutputSync`, `MCScratchExec` and `MCScratchVM` add the symmetry sets and, for
`ScratchVM`, the two zones and their order. Symmetry is never used with a liveness property. `MCParts` puts the three modules
of a session and its builds next to each other, one of them moving in each behaviour, so that one run checks all
three; its properties are theirs under the same names. It instantiates the proof modules of two of them, so that `PartsProofs` has their
theorems at hand, and `CloudBuild`, whose proofs are in `PartsProofs` itself. `MCSnapshot` is `Snapshot` under its own configuration.

## 4. The runs

`tlc -config <cfg> <module>` repeats a run. The passing ones take three minutes or less.

| Run | Instance | States | What it shows |
|-----|----------|--------|---------------|
| `output_races` | a poll, an optimistic wait, a reaper; 2 bytes; 1 fault of any kind | 2.8 M | `PublishedIsPrefix`, `NoOrphanParts`, `NoEmptyParts`, and the refinement `PublishesALog` |
| `output_solo` | one poller, 3 bytes, no fault | 2 k | `CompletedHasAllOutput`; `TailLands` under fairness |
| `output_tail_race` | a poll and a reaper | | violates `CompletedHasAllOutput` |
| `exec_single` | 1 exec, 1 poller, 1 delete, reaper; 1 fault of any kind | 2.9 M | the refinement `BehavesAsOp`; `LostHasCause` |
| `exec_pair` | 2 execs, repeated passes, 8 ticks of ten minutes | 5.1 M | `RecheckSparesAcknowledged`, `AnswerKept` |
| `exec_live` | 1 exec, all actors, 2 faults of any kind, 8 ticks | 81 k | `ExecEnds`, `IdleScratchReaped` |
| `vm_safety` | 2 scratches, 2 zones; 1 failed insert, database call or interrupted delete | 2.7 M | `OneVM`, `EveryVMTracked`, `ReadyHasVM` |
| `vm_live` | 1 scratch, 2 zones, 2 faults of any kind, 11 ticks | 55 k | `HalfDoneEnds` |
| `rebuild_ops` | 2 of 4 calls: an operation asked for twice, a rebuild in process and `/rebuild` of the same run; 3 modes, 2 service versions, 1 fault of any kind | 755 k | `SuccessIsPublished`, `FailureIsUnpublished`, `RecordedModeIsTrue`, `DoneIsFinal`; `OperationEnds` under fairness |
| `rebuild_race` | two rebuilds that are to overwrite nothing, no fault | | violates `OneAttestation` |
| `parts` | a session of 2 iterations with 2 faults of any kind; a Cloud Build build with 1; 2 scratch builds of 2 phases over 1 slot with 1 | 174 k | `NumbersAreUnique`, `SuccessIsRecorded`, `CompletionLasts`, `SessionEnds`, `IterationEnds`; `AnswerIsTrue`, `StrayHasCause`; `OnlyItsContainer`, `ClosedIsQuiet`; `BuildsEnd` |
| `snapshot_feed` | 2 collections, one delta job, 2 rollups, 2 updates, 1 failed job or refresh, 3 ticks | 810 k | `CompleteThroughFreshness`, the refinement `ServesAReplica`; `AllServed` under fairness |

Each module's `TypeOK` is checked by its first run.

**What the properties say.**

* `PublishedIsPrefix`, `PublishesALog`: readers of OutURI see a growing prefix of the output, whatever syncs
  race. The two preconditions and the re-read of the size carry this; without the generation
  match on the compose it fails with two syncs.
* `NoOrphanParts`: without faults a part exists only while a call that will delete it runs. A part left
  behind blocks its offset for good, since its name is the offset.
* `BehavesAsOp`: four kinds of callers overwrite a record in any order, each with what it learnt some time before; whichever is last,
  the record says what became of the command, and a sweep that gives an op up does so after its deadline. An op that is Lost or TimedOut can
  still become Completed: the schema's immutable records do not exist (section 7).
* `LostHasCause`, `AnswerKept`: a poll finalizes as Lost on the first error, so it must not get one for
  nothing: without failing calls, an op is Lost only if its worker said so, the scratch was being torn down, or
  the answer was collected, and the last cannot happen to a pending op where the passes of the reaper are
  punctual and short (section 6).
* `RecheckSparesAcknowledged`: between the listing of idle scratches and a teardown an exec may be inserted, dispatched
  and recorded. The busy set and the re-check together spare every live exec whose create call
  has returned after recording the use. For the window they leave see section 7.
* `ExecEnds`, `IdleScratchReaped`: the reaper cleans up after crashed brokers and agents
  that walk away. `IdleScratchReaped` states the exemption in the code: a pending unbounded exec keeps its
  scratch.
* `OneVM`, `EveryVMTracked`, `ReadyHasVM`: the fall-through over zones and the cleanup of a failed create
  know exactly where a VM may be; both teardowns mark the record before they delete; and the reaper cannot take
  a create in progress for an abandoned one.
* `HalfDoneEnds`: a create or delete that stopped half way is finished by a later pass.
* `NumbersAreUnique`, `SuccessIsRecorded`, `CompletionLasts`: the three handlers of a session change one record without
  a lock around them, one of them blindly. Numbers are unique only because nothing is reserved before the session is
  running; a completion lasts only if it found the session running.
* `SessionEnds`, `IterationEnds`: they name all the failures after which a record never ends, and nothing else does.
* `SuccessIsPublished`, `FailureIsUnpublished`: the status of an attempt and the bucket agree in both directions, even if the
  context ends during the upload; the exceptions are answers that were lost, and for the second a run that was repeated in process (section 7).
* `RecordedModeIsTrue`: a bundle's recorded mode was decided long before its upload; other rebuilds in between do not
  make it untrue, since bundles are never deleted.
* `DoneIsFinal`, `OperationEnds`: what a client polling an operation relies on, with the failures that break it named.
* `AnswerIsTrue`, `StrayHasCause`: `Wait` returns a success only for a build that succeeded, after the executor has let go of it; a
  build left running in Cloud Build means a fault, a context that ended before the operation was known, or a deadline
  that was to leave it.
* `OnlyItsContainer`: what each build cleans up and leaves behind, with builds that fail or are cancelled anywhere,
  never disturbs another's phases; it needs one slot and no command given up on.
* `ClosedIsQuiet`, `BuildsEnd`: `Close` waits for the slots and not for the builds; that is enough.
* `CompleteThroughFreshness`, `ServesAReplica`, `AllServed`: what the slacks, the resume point of a delta and the
  replay window of the cache achieve together. A new base is older than the segments already applied; with the copy it replaces go all rows
  they brought, and only the replay from before its watermark brings them back.

**The bounds.** `MaxBytes` 2 gives two successive syncs something to publish, which a stale offset or
generation needs in order to repeat or skip a byte. `MaxGen` is above the number of composes that so many bytes
allow and never cuts. `Endings` leaves out a killed command in `output_races` only; no property of that run
tells it from an exit. A unit of `exec_pair` is ten minutes, and the times are the code's: 30 minutes until a scratch is
idle, 10 of grace in the broker and 60 in the worker, a pass every 30 (`deployments/platform.tf:589`). Of the length of a pass the repository says nothing;
`PassLasts` is 2, the most with which `AnswerKept` holds (section 6), and with 3, half an hour, TLC finds it violated. A timeout of 1 and 8 ticks let the
entry of a command that ends at once be collected, and one of 4 lets a command run past the idle threshold, so that the busy set counts. To keep the run
small the clock goes to 2, 4, 6 and 8 only when no client's call is under way (`QuietAt`); to the other times it may go in the middle of one. The other
two runs of `ScratchExec` have the coarsest units that keep the order `timeout < deadline < retention`: `IdleThreshold` and timeout 1, `Grace` 0, `GCGrace` 2. In `exec_single`
`ReapEvery` and `PassLasts` are 9, more than the clock, since its properties must not depend on the reaper being punctual; `exec_live` lets time pass between
calls only. In the liveness runs
clients make no new call from `ClientsUntil` on, and the clock goes on long enough for the passes that clean up;
a property that fails there would not be saved by more time. Two scratches and two zones are enough for a call on
one scratch to see another's stockout and for a fall-through with a choice. Two rebuilds of one target are what a
race or a repetition needs; which two, and of which run, is a choice among the four calls. Two iterations, two builds and two phases are the least with which one can meet what
another left. In `snapshot_feed` slack, skew and the length of a job are one unit, so that each is just enough; a clock of 3 lets a
segment precede a base and a base a segment.

**Faults.** `MaxFaults` counts single failures: a broker that dies in a call (`crash`, `create_crash`), a failed call
(`rpc`, `db`, `insert`), an action whose reply is lost (`reply_lost`, `start_reply_lost`), a
best-effort write that fails (`bump_lost`, `delete_lost`), a VM deletion that fails (`vm_delete`). Two facts keep a kind
out of a run. `vm_safety` leaves out `create_crash` and `vm_delete`, because `EveryVMTracked` does not
hold under them: if a broker dies between the VM's creation and the write of its zone, or a deletion fails and is only
logged, nothing in the code can find the VM again. `output_solo` leaves out `crash`: after a crash between
a part and its compose the offset stays claimed (section 7).

**Deadlock** is checked for `ScratchExec` and `ScratchVM`, where a reaper pass is always possible. `OutputSync`
really stops when everything is published and finalized, so its runs do not check it; nor do those of the last four rows, where sessions, operations and
builds end and the clock stops.

## 5. Fairness

* `OutputSync!FairSpec`: the command ends; agents keep polling (`WF` on `Begin`); a call that has begun goes on; and
  the store and the network do not fail every time a call is made (`SF` on the calls a sync
  must get through). Nothing is assumed of the order among callers, or of the compose.
* `ScratchExec!FairSpec`: time passes (`SF` on `Tick`, which is held back while a pass is late), the scheduler
  calls the reaper (`google_cloud_scheduler_job` in `deployments/platform.tf`), and calls that have begun go on (`WF`).
  Clients owe nothing: no fairness makes an agent poll, delete or create, and a command need not end.
* `ScratchVM!FairSpec`: the same with `WF` on the steps of creates and deletes that have begun.

* `AgentSession!FairSpec`: a process that runs goes on: handlers, the agent and each iteration (`WF` on their steps). A build that is
  waited for ends, by the timeout of Cloud Build. Nobody has to start an external agent.
* `RebuildAttempt!FairSpec`: `WF` on calls and jobs that have begun; nobody has to make a call.
* `CloudBuild!FairSpec`: goroutines that can go on do, and Cloud Build ends every build. The context need not end, nor need
  anybody call `Close`.
* `ScratchBuild!FairSpec`: `WF` on each build's goroutine and on `Close`; a command that is polled ends, by its own
  timeout. Strays need not.
* `Snapshot!FairSpec`: time passes, writes appear, the two jobs and the cache's poll run as scheduled.

Crashes and failures are never forced and never forbidden; their number is bounded.

## 6. What is proved

`tlapm` checks every obligation of `OutputSyncProofs`, `ScratchVMProofs`, `ScratchExecProofs`, `AgentSessionProofs`,
`RebuildAttemptProofs`, `ScratchBuildProofs`, `PartsProofs` and `SnapshotProofs`. The assumptions are those of the
modules, each named after its module: they say of what sort the parameters are. Four say more. `ScratchVMAssumption`: a create takes
no longer than the idle threshold (in the code 2 minutes per zone operation and 3 for the health
probe against 30). `ScratchExecAssumption`: a pass of the reaper is over by the time the next is due. `SnapshotAssumption`: a write is visible
within `Slack` and a delta lasts no longer than `CacheSlack`; the code takes two minutes for each and has nothing that makes it so, and
without it both theorems on what is served are false. And the theorems on `ScratchBuild` suppose that the builds of one executor are finitely many. Modules that
`MCParts` takes by INSTANCE state their assumption as a hypothesis of the theorem, and `MCParts` assumes it.

**Parts.** A step of `MCParts` is a step of one module or leaves that module's variables alone, so its specification implies
each of theirs (`SessionPart`, `CloudPart`, `ScratchPart`), and the theorems on `AgentSession`, `CloudBuild` and
`ScratchBuild` below hold of the properties the run `parts` checks. `PartsProofs` states them under the same names.

**OutputSync** (any callers, bytes, generations and faults). `TypeCorrect`, `PrefixAlways`, `ImplementsLog`,
`NeverEmpty`. Being a prefix is not inductive: a compose appends a part somebody streamed earlier. `IndInv` adds
what makes that right: every part, and every streamed tail, holds the bytes that follow the offset it is named by; a
call has seen a size no larger than the object's; and if the generation it has seen is the present one, the size is the
present size. So a compose that passes its precondition appends exactly the next bytes
(`ComposeExtends`). The refinement follows: a compose is a `Publish`, a write of the command a
`Write`, and every other step a stutter. `NeverEmpty` needs `TailInv`: what the worker has reported stays
below the size of its file, so a tail that was worth streaming still is when it is streamed.
`NothingLeftBehind` (`NoOrphanParts`) is about uninterrupted syncs: of two that aim at one offset only the one that wrote the part deletes it, and no other
step removes or adds a part (`HeldStays`). `CompletedIsComplete` (`CompletedHasAllOutput`) has two hypotheses, no faults and one caller:
its invariant `Told` follows what that caller has been told from place to place, and it is what the run `output_tail_race` breaks with a second one.

**ScratchVM** (any scratches, zones, ranks and faults). `TypeCorrect`, `AtMostOneVM`, `HandedOutHasVM`, `NoVMLost`.
`ScratchInv` relates one scratch's record, VMs and calls: VMs are only in the zone its create has in hand; while
that create is under way the record says Starting and is fresh, so that it cannot be listed; and a delete that
has got as far as the VM has marked the record. `PassInv` says what a reaper pass may rely on although it works from
copies: it has listed only scratches past their create, copies have the zone of the record, and what it is
about to delete is marked and stays so. `NoVMLost` has two hypotheses in its statement, `create_crash` and
`vm_delete` not among the faults, for the reason given in section 4; it carries in addition that where a call
has finished its cleanup there is no VM.

**ScratchExec** (any execs, pollers, deletes, thresholds and faults). `TypeCorrect`, `LostHasACause`, `FieldsMatch` (the fields of
a record fit its state), and the three below. Create, poll, pre-sync and sweep each write a record from what they read steps before. The invariant says for every place of
every call what it knows (`CreateAt`, `PollAt`, `ReapOK`, `TeardownOK`): an answer in hand is what the worker still says, a poll that is
about to call an exec Lost has a cause. `Steady` is why that lasts: no step takes back the end of a command, brings back an entry `gc`
released, or makes a scratch Ready again. A record is then right whoever writes it last.
Time is in `TimeInv`. `StampsOK`: no stamp is ahead of the clock, and an entry is no older than its record. `SnapshotOK`: an op that the
snapshot of a pass holds is past its deadline once the pass has listed the scratch; one that it does not hold was created since, and has recorded
a use no older than the pass. `SweepOK`: no pass ends with an op pending whose deadline it has seen pass. Each step is reduced to
what it may do to one record, entry and call and to the pass (`Moves`), and the three follow from that. `TeardownSparesRecorded`
(`RecheckSparesAcknowledged`) is `SnapshotOK` at the re-check. `GCSparesPending` (`AnswerKept`) has the hypothesis that gc's grace is at least the deadline's
grace, the period of the reaper and the length of a pass: an op can miss a pass by being just inside its deadline, the next one begins a period
later, and gets to the op before it is over. With the 60 and 10 minutes of the code and the 30 of the schedule (`deployments/platform.tf:589`) that leaves
20 for a pass. The deployment does not bound a pass to that: a request to the agent API may take 59 minutes (`deployments/services.tf:393`), and
a pass handles its scratches one after the other. So the theorem covers the deployment while passes are over in 20 minutes; with longer ones
gc may release the answer of a completed op first, and it ends Lost.
`ImplementsOp` (`BehavesAsOp`): every step of a handler, of gc, the reaper or the environment is, for each op, a `Submit`, `Launch`, `End`, `Answer`,
`Pass` or a stutter of `ExecOp` (`StepRefines`). It needs two facts more (`OpInv`): no record is written before the insert of the call
that creates it (`CallsKnown`), and what a pass is about to settle is past its deadline, which lies in the past for good (`PassKnown`).

**AgentSession** (any iterations and faults). `TypeCorrect`, `IterationsDiffer`, `NamesASuccess`, `CompletionStays`. `AgentCreate` writes its
whole copy of the record, count included, and could hand a number out twice. It does so only while it is `Early`, and while it is, the session
is not running, so that nothing was reserved (`Numbering`) and no completion has found it running (`Lasting`). Afterwards the count
only grows and a completion is final. A completion that came while `AgentCreate` was `Early` is the exception `CompletionLasts` makes.

**RebuildAttempt** (any calls, runs, versions and faults). `TypeCorrect`, `SuccessHasBundle`, `ModeStaysTrue`, `FailureHasNoBundle`,
`DoneStays`. Bundles are never removed, so a verdict of success keeps its bundle (`Backed`) and what a job found to overwrite is still there when it
uploads (`Grounded`). `FailureHasNoBundle` and `DoneStays` rest on `Writers`: of the calls of one run that is not shared (`Shared`: repeated in process, or its launch lost)
one at most gets past the insert of the record (`Asked`), and only it and its job write that record. A run that is shared stays so (`SharedLasts`), and every step of a call on one that
is not moves that run on only (`StepMoves`). No assumption is made on `RunOf`: for a run whose calls are all extended the exception never applies, however often it is asked for.

**CloudBuild** (any faults; in `PartsProofs`). `TypeCorrect`, `TellsTheTruth`, `NoStrayWithoutCause`. The outcome is read from a build that has ended and the handle is
retired before the outcome is put where `Wait` looks (`Told`); each way out of `executeBuild` has seen the build end, has cancelled it, or has
the cause the property names (`Left`).

**ScratchBuild** (any finite set of builds, any phases and faults). `TypeCorrect`, `NothingAfterClose`, `OneBuildOneContainer`. Commands are asked for
in a slot only (`Working`); `Close` has cancelled every build it knows of and returns when no slot is held, so a build that leaves the queue
later finds its context over before its first command (`Closing`). `OneBuildOneContainer` has the hypothesis of one slot, the
default: with two, a build's sweep takes the other's container (section 7).

**Snapshot** (any number of collections, overlapping deltas, rollups, updates and faults, any slacks that satisfy the assumption).
`TypeCorrect`, `ServesWhatWasDue` (`CompleteThroughFreshness`), `ImplementsReplica` (`ServesAReplica`). An update is due at a
time if it was stamped more than a skew before. A delta that begins then finds all that is due, unless it is older than the window; the window reaches a slack
back from the newest segment, so such an update was due at an earlier segment already (`DueOK`). Going back from segment to segment ends
(`FirstDue`), so the first segment at which an update is due has it, or the base has: completeness of a copy follows whichever segments it was made of. That a
copy never goes back is `RowsOK` and `ServedOK`: what of a segment a base has not, is replayed over it. `StampsOK` adds for the refinement that
every stamp anywhere is that of an update. A step of `Snapshot` is then a `Pass`, an `Update`, a `Serve` (`HydrateSwap` and `Apply`) or a
stutter of `Replica`. Completeness is stated less the skew because `Freshness` is the start of a delta and not the time through which its scan is
complete.

**Only model-checked.** The liveness properties `TailLands`, `ExecEnds`, `IdleScratchReaped`, `HalfDoneEnds`, `OperationEnds`, `SessionEnds`,
`IterationEnds`, `BuildsEnd` and `AllServed`: they rest on fairness and ENABLED, which the prover does not reason about. Every invariant and
every action property of the runs that pass is the subject of a theorem.

## 7. Where code and documentation disagree

Two are runs that TLC ends with a counterexample.

1. `output_tail_race`. `scratch_exec.go:316` says that a terminal sync always brings the tail to GCS, and
   `pkg/rebuild/schema/scratch.go:138` that a Completed exec's OutURI is complete. A terminal sync that loses the race for the part or
   the compose gets 412, returns no error, and writes Completed though the sync that won had read an earlier end of the file. No
   later poll syncs a Completed exec.
2. `rebuild_race`. `rebuild.go:373` says that the second look for a bundle keeps racing rebuilds from writing several
   attestations. Both look, then both write: the upload has no precondition.

The others came up in modelling; the properties name them as exceptions, or the models leave them out and say so.

* `scratch_exec.go:554` says that a claimed offset belongs to another sync and the next poll continues from the
  new size. After a crash between part and compose there is neither: every later sync meets 412 at the same
  offset. The lifecycle rule named as backstop is a TODO in `deployments/platform.tf`.
* `pkg/rebuild/schema/scratch.go:101` calls terminal records immutable. A caller that still holds the Pending copy
  overwrites them. Line 139 says that TimedOut carries the kill's exit code; the reaper's blind TimedOut leaves it 0.
* `rebuild.go:413` upserts the attempt as Running whatever it was. A run that `/rebuild` or a fast execution repeats (`tools/benchmark/run/run.go:385`
  and 185 do) goes from Success back to Running and then to Error, since the second job meets the bundle of the first, which stays published. `CreateRebuildOp` refuses
  such a call only where it is extended.
* `scratch_reap.go:112` says the re-check keeps an exec dispatched after the snapshot from being orphaned. The
  dispatch comes before the use is recorded; in between the re-check passes.
* `complete.go:54` leaves failures to the idle reaper. A failed VM deletion is logged and the record marked
  Deleted, which the reaper never lists.
* `apiservice/agent.go:118` gives a session a terminal state because it would else sit INITIALIZING for ever. A failed launch
  (line 183) releases the scratch and leaves it so.
* `apiservice/agent.go:200` writes the whole session record after the launch. An agent that has completed the session by then
  is overwritten, and its `AgentComplete` did not know of the scratch.
* `pkg/build/gcb/executor.go:398` logs that a build whose context has expired is allowed to continue. The caller, in
  `Wait` on the same context, cancels it unless its policy is detached.
* The handle's cancellation is lost before the operation is known, in `Wait` and in `Close`; and a status of cancelled is
  overwritten by running or completed. Results are not affected.
* `pkg/gcb/gcb.go:169` retries after a connection reset with the nil operation the failed call returned.
* `pkg/build/scratch/executor.go:248` removes every build's containers before a build. With more than one slot (the
  default is one) that takes the container of a build in its phases.
* `internal/docdb`'s Freshness is the time through which the data is complete; it is so less the time a write takes to become
  visible. `docdb/cache.go:92` says that it is the base's watermark and advanced by segments: a segment that lands after a base and is named
  earlier, within the slack, sets it back to its own time. The data is not affected. Two deltas of one second share a name, and the second replaces the first; both are outside the model's bounds.

## 8. What is not modelled

* Of the modelled components: request validation and wire formats; logs; the exact compose schedule; the worker's files and
  processes, and readers of a capture file that `gc` closes; a second broker's zone cool-down (it is only
  a hint of latency); overlapping reaper passes; two agents of one session; the panic of `gcb.go:169`; the refusal of a base of another
  schema and the deletion of segments after fourteen days; deltas that outlast the slack.
* The scratch executor's `docker build` variant and the local executor: the life cycle of `ScratchBuild` with one phase, and with
  processes of the same host that a cancelled context kills.
* Line buffer, in-memory cache, back-off: one lock or one atomic operation around sequential code, which the tests of these packages
  enumerate.
* Git cache: a candidate for a later module.
* Inference, strategies, stabilizers, archives, registries, feeds, verification of artifacts, syscall graphs: sequential
  computations over data and formats. They, generated protobuf code, and the command lines and terminal interfaces under `tools/` make up most
  of the lines of the repository; a model of them would restate them, so the share of lines the models cover
  stays small.
* Proxy, time warp, gateway, dashboard, task queue, clients of models and of Cloud services: stateless or thin.
* Tools and command lines: wiring.
