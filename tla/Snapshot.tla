------------------------------- MODULE Snapshot -------------------------------
(***************************************************************************)
(* The published database: the delta and rollup jobs that copy Firestore   *)
(* into a bucket (internal/snapshot), and the cache that serves a local    *)
(* copy of what they publish (internal/docdb).                             *)
(*                                                                         *)
(* A row is known by the stamp of its last update.  A writer stamps a row  *)
(* before the write is visible, so a scan may miss it; the jobs and the    *)
(* cache look back by a slack each.  Nothing here is atomic: a job scans   *)
(* one collection after the other and publishes later, and the cache reads *)
(* the bucket object by object.                                            *)
(***************************************************************************)
EXTENDS Naturals, FiniteSets, FiniteSetsExt

CONSTANTS
    Collections, \* how many are scanned, one row in each
    Deltas,      \* delta jobs, which may overlap
    Slack,       \* how far a delta looks back before the last segment
    CacheSlack,  \* how far the cache looks back before the base's watermark
    Bootstrap,   \* how far the first delta looks back
    Skew,        \* bound: a write is visible this long after its stamp
    Longest,     \* bound: a delta takes no longer
    MaxWrites,   \* bound: updates
    WritesUntil, \* bound: none after this time
    MaxRollups,  \* bound: rollups
    MaxClock,    \* bound: the time at which the clock stops
    MaxFaults    \* bound: jobs and refreshes that fail

ASSUME SnapshotAssumption ==
    /\ Collections \in Nat \ {0}
    /\ {Slack, CacheSlack, Bootstrap, Skew, Longest, MaxWrites, WritesUntil, MaxFaults}
        \subseteq Nat
    /\ {MaxRollups, MaxClock} \subseteq Nat \ {0}
    /\ Skew <= Slack /\ Longest <= CacheSlack

VARIABLES
    clock,
    source,   \* Firestore: per row the stamp that is visible, 0 if it is not there
    writing,  \* per row the stamp of a write that is not visible yet, 0 if there is none
    written,  \* every update ever stamped: [row, stamp]
    delta,    \* per delta job: where it stands, its name, its window, what it found
    rollup,   \* the rollup job: where it stands, its watermark, what it found
    covered,  \* the start of the first rollup, then of the newest delta that was carried out
    segments, \* the published segments: [at, rows]
    base,     \* the published base: its tag, its watermark, its rows
    sync,     \* the cache's refresh: where it stands and what it has fetched
    cache,    \* the copy served: its tag, watermark, newest segment and rows
    faults

vars == <<clock, source, writing, written, delta, rollup, covered, segments, base, sync, cache,
          faults>>
jobs == <<delta, rollup, covered>>
database == <<source, writing, written>>
bucket == <<segments, base>>
reader == <<sync, cache>>

-----------------------------------------------------------------------------
Times == 0 .. MaxClock
Rows == 1 .. Collections
NoRows == [r \in Rows |-> 0]
Back(t, d) == IF t > d THEN t - d ELSE 0
Later(s, t) == IF s >= t THEN s ELSE t

\* The guarded upserts of a segment after the other: no row goes back.
Upserts(rows, segs) == [r \in Rows |-> Max({rows[r]} \cup {s.rows[r] : s \in segs})]

NoJob == [pc |-> "idle", at |-> 0, since |-> 0, next |-> 1, rows |-> NoRows]
NoSync == [pc |-> "idle", tag |-> 0, watermark |-> 0, rows |-> NoRows, segs |-> {}]

\* The first rollup found nothing.
Init ==
    /\ clock = 1
    /\ source = NoRows /\ writing = NoRows /\ written = {}
    /\ delta = [d \in Deltas |-> NoJob] /\ rollup = NoJob /\ covered = clock
    /\ segments = {} /\ base = [tag |-> 1, watermark |-> clock, rows |-> NoRows]
    /\ sync = NoSync
    /\ cache = [tag |-> 0, watermark |-> 0, applied |-> 0, rows |-> NoRows]
    /\ faults = 0

Fault == faults < MaxFaults /\ faults' = faults + 1

-----------------------------------------------------------------------------
(* Firestore, and time. *)

Write(r) ==
    /\ Cardinality(written) < MaxWrites /\ clock <= WritesUntil
    /\ writing[r] = 0 /\ source[r] < clock
    /\ writing' = [writing EXCEPT ![r] = clock]
    /\ written' = written \cup {[row |-> r, stamp |-> clock]}
    /\ UNCHANGED <<clock, source, jobs, bucket, reader, faults>>

Appear(r) ==
    /\ writing[r] # 0
    /\ source' = [source EXCEPT ![r] = writing[r]]
    /\ writing' = [writing EXCEPT ![r] = 0]
    /\ UNCHANGED <<clock, written, jobs, bucket, reader, faults>>

\* "Anything older is covered by the snapshot rollup", or by a delta that found nothing.
InTime(t) == segments = {} => Back(t, Bootstrap) <= Back(covered, Skew)

\* The jobs run: a delta of the first day before that day is over, and a rollup for less
\* than that.
Tick ==
    /\ clock < MaxClock
    /\ \A r \in Rows : writing[r] # 0 => clock < writing[r] + Skew
    /\ \A d \in Deltas : delta[d].pc = "scan" => clock < delta[d].at + Longest
    /\ InTime(clock + 1)
    /\ rollup.pc = "scan" => Back(clock + 1, Bootstrap) <= Back(rollup.at, Skew)
    /\ clock' = clock + 1
    /\ UNCHANGED <<database, jobs, bucket, reader, faults>>

-----------------------------------------------------------------------------
(* Delta, every five minutes.  Segments are named by the second: two deltas do *)
(* not start at once.                                                          *)

Newest == IF segments = {} THEN 0 ELSE Max({s.at : s \in segments})

CanStart(d) ==
    /\ delta[d].pc = "idle" /\ InTime(clock)
    /\ \A s \in segments : s.at # clock
    /\ \A e \in Deltas : delta[e].at # clock

\* Mutant: the last delta's window ends where the next one's begins.
ResumesAtSegment(d) ==
    /\ CanStart(d)
    /\ delta' = [delta EXCEPT ![d] =
           [NoJob EXCEPT !.pc = "scan", !.at = clock,
                !.since = IF segments = {} THEN Back(clock, Bootstrap) ELSE Newest]]
    /\ UNCHANGED <<clock, database, rollup, covered, bucket, reader, faults>>

\* Mutant: a delta looks back from its own start.
LooksBackFromNow(d) ==
    /\ CanStart(d)
    /\ delta' = [delta EXCEPT ![d] =
           [NoJob EXCEPT !.pc = "scan", !.at = clock,
                !.since = Back(clock, IF segments = {} THEN Bootstrap ELSE Slack)]]
    /\ UNCHANGED <<clock, database, rollup, covered, bucket, reader, faults>>

DeltaStart(d) ==
    /\ CanStart(d)
    /\ delta' = [delta EXCEPT ![d] =
           [NoJob EXCEPT !.pc = "scan", !.at = clock,
                !.since = IF segments = {} THEN Back(clock, Bootstrap)
                          ELSE Back(Newest, Slack)]]
    /\ UNCHANGED <<clock, database, rollup, covered, bucket, reader, faults>>

DeltaScan(d) ==
    LET r == delta[d].next IN
    /\ delta[d].pc = "scan" /\ r \in Rows
    /\ delta' = [delta EXCEPT ![d].next = r + 1,
             ![d].rows[r] = IF source[r] >= delta[d].since THEN source[r] ELSE 0]
    /\ UNCHANGED <<clock, database, rollup, covered, bucket, reader, faults>>

\* Mutant: a segment is written though nothing has changed.
WritesEmpty(d) ==
    /\ delta[d].pc = "scan" /\ delta[d].next \notin Rows
    /\ segments' = segments \cup {[at |-> delta[d].at, rows |-> delta[d].rows]}
    /\ covered' = Later(covered, delta[d].at)
    /\ delta' = [delta EXCEPT ![d] = NoJob]
    /\ UNCHANGED <<clock, database, rollup, base, reader, faults>>

DeltaWrite(d) ==
    /\ delta[d].pc = "scan" /\ delta[d].next \notin Rows
    /\ segments' = IF delta[d].rows = NoRows THEN segments
                   ELSE segments \cup {[at |-> delta[d].at, rows |-> delta[d].rows]}
    /\ covered' = Later(covered, delta[d].at)
    /\ delta' = [delta EXCEPT ![d] = NoJob]
    /\ UNCHANGED <<clock, database, rollup, base, reader, faults>>

DeltaFails(d) ==
    /\ delta[d].pc = "scan" /\ Fault
    /\ delta' = [delta EXCEPT ![d] = NoJob]
    /\ UNCHANGED <<clock, database, rollup, covered, bucket, reader>>

-----------------------------------------------------------------------------
(* Rollup, once a day. *)

RollupStart ==
    /\ rollup.pc = "idle" /\ base.tag < MaxRollups
    /\ rollup' = [NoJob EXCEPT !.pc = "scan", !.at = clock]
    /\ UNCHANGED <<clock, database, delta, covered, bucket, reader, faults>>

RollupScan ==
    LET r == rollup.next IN
    /\ rollup.pc = "scan" /\ r \in Rows
    /\ rollup' = [rollup EXCEPT !.next = r + 1, !.rows[r] = source[r]]
    /\ UNCHANGED <<clock, database, delta, covered, bucket, reader, faults>>

RollupPublish ==
    /\ rollup.pc = "scan" /\ rollup.next \notin Rows
    /\ base' = [tag |-> base.tag + 1, watermark |-> rollup.at, rows |-> rollup.rows]
    /\ rollup' = NoJob
    /\ UNCHANGED <<clock, database, delta, covered, segments, reader, faults>>

RollupFails ==
    /\ rollup.pc = "scan" /\ Fault
    /\ rollup' = NoJob
    /\ UNCHANGED <<clock, database, delta, covered, bucket, reader>>

-----------------------------------------------------------------------------
(* Cache.sync and hydrate, every poll.  Queries run between any two steps. *)

\* Mutant: a new copy is brought up to date from its watermark on.
ReplaysFromWatermark(after, watermark) ==
    {s \in segments : IF after = 0 THEN s.at >= watermark ELSE s.at > after}

\* fetchNewSegments: past the newest applied, or from the watermark less the slack.
NewSegments(after, watermark) ==
    {s \in segments : IF after = 0 THEN s.at >= Back(watermark, CacheSlack) ELSE s.at > after}

SyncStat ==
    /\ sync.pc = "idle" /\ base.tag # cache.tag
    /\ sync' = [NoSync EXCEPT !.pc = "fetch", !.tag = base.tag]
    /\ UNCHANGED <<clock, database, jobs, bucket, cache, faults>>

\* What is fetched may be newer than what was seen.
SyncFetch ==
    /\ sync.pc = "fetch"
    /\ sync' = [sync EXCEPT !.pc = "hydrate", !.watermark = base.watermark, !.rows = base.rows]
    /\ UNCHANGED <<clock, database, jobs, bucket, cache, faults>>

HydrateList ==
    /\ sync.pc = "hydrate"
    /\ sync' = [sync EXCEPT !.pc = "replay", !.segs = NewSegments(0, sync.watermark)]
    /\ UNCHANGED <<clock, database, jobs, bucket, cache, faults>>

\* The replay is on the fetched copy, which nobody queries before the swap.
HydrateSwap ==
    /\ sync.pc = "replay"
    /\ cache' = [tag |-> sync.tag, watermark |-> sync.watermark,
                 applied |-> Max({0} \cup {s.at : s \in sync.segs}),
                 rows |-> Upserts(sync.rows, sync.segs)]
    /\ sync' = NoSync
    /\ UNCHANGED <<clock, database, jobs, bucket, faults>>

\* Nothing depends on what comes between the look at the base and the listing.
SyncList ==
    /\ sync.pc = "idle" /\ base.tag = cache.tag
    /\ LET segs == NewSegments(cache.applied, cache.watermark) IN
       /\ segs # {}
       /\ sync' = [NoSync EXCEPT !.pc = "apply", !.segs = segs]
    /\ UNCHANGED <<clock, database, jobs, bucket, cache, faults>>

Apply ==
    /\ sync.pc = "apply"
    /\ LET s == CHOOSE s \in sync.segs : \A t \in sync.segs : s.at <= t.at IN
       /\ cache' = [cache EXCEPT !.applied = s.at, !.rows = Upserts(@, {s})]
       /\ sync' = IF sync.segs = {s} THEN NoSync ELSE [sync EXCEPT !.segs = @ \ {s}]
    /\ UNCHANGED <<clock, database, jobs, bucket, faults>>

\* The copy goes on being served.
SyncFails ==
    /\ sync.pc # "idle" /\ Fault
    /\ sync' = NoSync
    /\ UNCHANGED <<clock, database, jobs, bucket, cache>>

-----------------------------------------------------------------------------
DeltaSteps(d) == DeltaStart(d) \/ DeltaScan(d) \/ DeltaWrite(d)
RollupSteps == RollupStart \/ RollupScan \/ RollupPublish
SyncSteps == SyncStat \/ SyncFetch \/ HydrateList \/ HydrateSwap \/ SyncList \/ Apply

Next ==
    \/ Tick
    \/ \E r \in Rows : Write(r) \/ Appear(r)
    \/ \E d \in Deltas : DeltaSteps(d) \/ DeltaFails(d)
    \/ RollupSteps \/ RollupFails
    \/ SyncSteps \/ SyncFails

Spec == Init /\ [][Next]_vars

\* Time passes, writes become visible, the jobs run as they are scheduled, and the cache
\* polls.
FairSpec ==
    /\ Spec
    /\ WF_vars(Tick) /\ WF_vars(\E r \in Rows : Appear(r))
    /\ WF_vars(\E d \in Deltas : DeltaSteps(d)) /\ WF_vars(RollupSteps) /\ WF_vars(SyncSteps)

-----------------------------------------------------------------------------
(* Properties. *)

\* Cache.Freshness, of a copy that is served.
Freshness == IF cache.applied # 0 THEN cache.applied ELSE cache.watermark

RowStamps == [Rows -> Times]
Job == [pc : {"idle", "scan"}, at : Times, since : Times,
        next : 1 .. Collections + 1, rows : RowStamps]
IsSegment(s) == s.at \in Times /\ s.rows \in RowStamps /\ s.rows # NoRows

TypeOK ==
    /\ clock \in Times
    /\ source \in RowStamps /\ writing \in RowStamps
    /\ written \subseteq [row : Rows, stamp : Times]
    /\ delta \in [Deltas -> Job] /\ rollup \in Job /\ covered \in Times
    /\ \A s \in segments : IsSegment(s)
    /\ \A s, t \in segments : s.at = t.at => s = t
    /\ base \in [tag : 0 .. MaxRollups, watermark : Times, rows : RowStamps]
    /\ sync \in [pc : {"idle", "fetch", "hydrate", "replay", "apply"}, tag : 0 .. MaxRollups,
                watermark : Times, rows : RowStamps, segs : SUBSET segments]
    /\ sync.pc = "apply" => sync.segs # {}
    /\ cache \in [tag : 0 .. MaxRollups, watermark : Times, applied : Times, rows : RowStamps]
    /\ faults \in 0 .. MaxFaults

\* The copy served is complete through its Freshness, less the time a write takes to
\* become visible: whatever overlapped, was late or failed on the way, every update
\* stamped before that is in it, or a later one of its row.
CompleteThroughFreshness ==
    \A w \in written :
        cache.tag # 0 /\ w.stamp + Skew < Freshness => cache.rows[w.row] >= w.stamp

\* The copy is a replica of the source, as those who query it rely on: every row is
\* served at the stamp of one of its updates, it only moves to later ones, and
\* everything due before Freshness is there at every refresh. Applying and replaying
\* segments keep it so, and so does a new base that was scanned before the segment that
\* brought the row was written.
Rep == INSTANCE Replica WITH
    Names <- Rows, Delay <- Skew, now <- clock, updates <- written, rows <- cache.rows,
    through <- IF cache.tag = 0 THEN 0 ELSE Freshness
ServesAReplica == Rep!Spec

\* Whatever was written while the clock was not about to stop is served in the end.
AllServed ==
    <>[](\A w \in written : w.stamp + Skew < MaxClock => cache.rows[w.row] >= w.stamp)
=============================================================================
