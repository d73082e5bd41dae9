----------------------------- MODULE SnapshotProofs -----------------------------
(***************************************************************************)
(* What the published database serves, proved for any number of            *)
(* collections, overlapping deltas, rollups, updates and faults and any    *)
(* slacks that satisfy the assumption.                                     *)
(*                                                                         *)
(* The argument: a scan that begins at t finds what was stamped a Skew     *)
(* before t.  A delta therefore has what was due before it, unless that is *)
(* older than its window; then it was due before the segment the window is *)
(* counted from.  So the first segment before which an update was due has  *)
(* it, and the cache has applied that segment, or its base has the update. *)
(***************************************************************************)
EXTENDS Snapshot, FiniteSetTheorems, WellFoundedInduction, TLAPS

\* w was visible before t.
Due(w, t) == w.stamp + Skew < t
Earlier(w, t, segs) == \E u \in segs : u.at < t /\ Due(w, u.at)
Scanned(job, r) == job.pc = "scan" /\ r < job.next

\* A write is visible within Skew, and rows only move on.
WritesOK ==
    /\ clock >= 1
    /\ \A r \in Rows : writing[r] # 0 =>
        source[r] < writing[r] /\ writing[r] <= clock /\ clock <= writing[r] + Skew
    /\ \A w \in written :
        /\ 1 <= w.stamp /\ w.stamp <= clock
        /\ w.stamp <= source[w.row] \/ w.stamp = writing[w.row]

\* No time is ahead of the clock, jobs and segments differ in theirs, and a delta job
\* is no older than Longest.
TimesOK ==
    /\ covered <= clock /\ base.watermark <= clock /\ rollup.at <= clock
    /\ sync.watermark <= clock /\ cache.watermark <= clock /\ cache.applied <= clock
    /\ \A s \in segments : 1 <= s.at /\ s.at <= clock
    /\ \A d \in Deltas : delta[d].pc = "scan" =>
        /\ 1 <= delta[d].at /\ delta[d].at <= clock /\ clock <= delta[d].at + Longest
        /\ \A s \in segments : s.at # delta[d].at
        /\ \A e \in Deltas : delta[e].pc = "scan" /\ e # d => delta[e].at # delta[d].at
    /\ 1 <= base.tag /\ (rollup.pc = "scan" => base.tag < MaxRollups)

\* What is published was visible; a base has what it replaces, and what of a segment it
\* has not, is replayed.
RowsOK ==
    /\ \A r \in Rows : base.rows[r] <= source[r] /\ rollup.rows[r] <= source[r]
    /\ \A r \in Rows, d \in Deltas : delta[d].rows[r] <= source[r]
    /\ \A r \in Rows, s \in segments :
        /\ s.rows[r] <= source[r]
        /\ s.rows[r] <= base.rows[r] \/ Back(base.watermark, CacheSlack) <= s.at
        /\ Scanned(rollup, r) =>
            s.rows[r] <= rollup.rows[r] \/ Back(rollup.at, CacheSlack) <= s.at
    /\ \A r \in Rows : Scanned(rollup, r) => base.rows[r] <= rollup.rows[r]

\* What is served was published, and a copy that is fetched replaces it.
ServedOK ==
    /\ \A r \in Rows : sync.rows[r] <= base.rows[r]
    /\ \A r \in Rows :
        cache.rows[r] <= base.rows[r] \/ \E s \in segments : cache.rows[r] <= s.rows[r]
    /\ sync.pc = "hydrate" => \A r \in Rows :
        \/ cache.rows[r] <= sync.rows[r]
        \/ \E s \in segments :
            cache.rows[r] <= s.rows[r] /\ Back(sync.watermark, CacheSlack) <= s.at
    /\ sync.pc = "replay" => \A r \in Rows :
        cache.rows[r] <= sync.rows[r] \/ \E s \in sync.segs : cache.rows[r] <= s.rows[r]

\* A segment, a base, a copy has what was due, or an earlier segment covers it.
DueOK ==
    \A w \in written :
        /\ segments = {} => ~Due(w, covered)
        /\ \A d \in Deltas : delta[d].pc = "scan" /\ Due(w, delta[d].at) =>
            /\ w.stamp < delta[d].since => Earlier(w, delta[d].at, segments)
            /\ w.row < delta[d].next =>
                w.stamp <= delta[d].rows[w.row] \/ Earlier(w, delta[d].at, segments)
        /\ \A s \in segments : Due(w, s.at) =>
            w.stamp <= s.rows[w.row] \/ Earlier(w, s.at, segments)
        /\ Due(w, base.watermark) => w.stamp <= base.rows[w.row]
        /\ Scanned(rollup, w.row) /\ Due(w, rollup.at) => w.stamp <= rollup.rows[w.row]

CopyOK ==
    /\ sync.pc = "apply" => cache.tag # 0
    /\ \A w \in written :
        /\ sync.pc \in {"hydrate", "replay"} /\ Due(w, sync.watermark) =>
            w.stamp <= sync.rows[w.row]
        /\ sync.pc = "replay" => \A s \in sync.segs : Due(w, s.at) =>
            \/ w.stamp <= sync.rows[w.row]
            \/ w.stamp <= s.rows[w.row]
            \/ Earlier(w, s.at, sync.segs)
        /\ sync.pc = "apply" => \A s \in sync.segs : Due(w, s.at) =>
            \/ w.stamp <= cache.rows[w.row]
            \/ w.stamp <= s.rows[w.row]
            \/ Earlier(w, s.at, sync.segs)
    /\ CompleteThroughFreshness

\* No row holds a stamp that no update of it has.
Stamped(rows) == \A r \in Rows : rows[r] = 0 \/ [row |-> r, stamp |-> rows[r]] \in written

StampsOK ==
    /\ Stamped(source) /\ Stamped(writing)
    /\ \A d \in Deltas : Stamped(delta[d].rows)
    /\ Stamped(rollup.rows) /\ Stamped(base.rows)
    /\ \A s \in segments : Stamped(s.rows)
    /\ Stamped(sync.rows) /\ Stamped(cache.rows)

Inv == TypeOK /\ WritesOK /\ TimesOK /\ RowsOK /\ ServedOK /\ DueOK /\ CopyOK /\ StampsOK

-----------------------------------------------------------------------------
(* The ends of a set of times. *)

\* A set of naturals below a bound has a least element: of the intervals below its
\* elements, one is smallest.
LEMMA Least ==
    ASSUME NEW N \in Nat, NEW S, S \subseteq 0 .. N, S # {}
    PROVE  \E m \in S : \A n \in S : m <= n
<1>. DEFINE Below(s) == 1 .. s
            Belows == {Below(s) : s \in S}
<1>1. Belows \subseteq SUBSET (1 .. N) /\ Belows # {}
    <2>1. \A s \in S : Below(s) \subseteq 1 .. N
        OBVIOUS
    <2>. HIDE DEF Below
    <2>. QED BY <2>1
<1>2. IsWellFoundedOn(StrictSubsetOrdering(1 .. N), FiniteSubsetsOf(1 .. N))
    BY FS_StrictSubsetOrderingWellFounded
<1>3. Belows \subseteq FiniteSubsetsOf(1 .. N)
    BY <1>1, FS_Interval, FS_Subset DEF FiniteSubsetsOf
<1>4. PICK x \in Belows : \A y \in Belows : <<y, x>> \notin StrictSubsetOrdering(1 .. N)
    <2>. HIDE DEF Belows
    <2>. QED BY <1>1, <1>2, <1>3, WFMin
<1>5. PICK m \in S : x = Below(m)
    OBVIOUS
<1>6. ASSUME NEW n \in S, n < m PROVE FALSE
    <2>1. Below(n) \in Belows /\ Below(n) \subseteq Below(m) /\ m \in Below(m) /\ m \notin Below(n)
        BY <1>6
    <2>. QED BY <1>1, <1>4, <1>5, <2>1 DEF StrictSubsetOrdering
<1>. QED BY <1>6

\* Max of the library is the greatest of a set of times.
LEMMA Greatest ==
    ASSUME NEW N \in Nat, NEW S, S \subseteq 0 .. N, S # {}
    PROVE  Max(S) \in S /\ \A n \in S : n <= Max(S)
<1>. DEFINE Flip == {N - s : s \in S}
<1>1. Flip \subseteq 0 .. N /\ Flip # {}
    BY SMT
<1>2. PICK t \in Flip : \A u \in Flip : t <= u
    <2>. HIDE DEF Flip
    <2>. QED BY <1>1, Least
<1>3. PICK m \in S : t = N - m
    OBVIOUS
<1>4. \A n \in S : n <= m
    <2>. TAKE n \in S
    <2>1. N - n \in Flip
        OBVIOUS
    <2>2. t <= N - n
        <3>. HIDE DEF Flip
        <3>. QED BY <1>2, <2>1
    <2>. QED BY <1>3, <2>2
<1>. QED BY <1>4 DEF Max

LEMMA Bounds ==
    /\ MaxClock \in Nat /\ MaxRollups \in Nat /\ Collections \in Nat
    /\ MaxClock > 0 /\ MaxRollups > 0 /\ Collections > 0
    /\ Slack \in Nat /\ CacheSlack \in Nat /\ Bootstrap \in Nat /\ Skew \in Nat
    /\ Longest \in Nat /\ MaxFaults \in Nat /\ Skew <= Slack /\ Longest <= CacheSlack
    BY SnapshotAssumption

LEMMA BackIs ==
    ASSUME NEW t \in Nat, NEW d \in Nat
    PROVE  /\ Back(t, d) \in Nat /\ Back(t, d) <= t /\ t <= Back(t, d) + d
           /\ \A s \in Nat : s < Back(t, d) => s + d < t
    BY DEF Back

\* The upserts of segments: every row is the latest of those that are merged.
LEMMA UpsertsAre ==
    ASSUME NEW rows \in RowStamps, NEW segs, \A s \in segs : s.rows \in RowStamps
    PROVE  /\ Upserts(rows, segs) \in RowStamps
           /\ \A r \in Rows :
                /\ rows[r] <= Upserts(rows, segs)[r]
                /\ \A s \in segs : s.rows[r] <= Upserts(rows, segs)[r]
                /\ \/ Upserts(rows, segs)[r] = rows[r]
                   \/ \E s \in segs : Upserts(rows, segs)[r] = s.rows[r]
<1>1. ASSUME NEW r \in Rows
      PROVE  /\ Upserts(rows, segs)[r] \in Times
             /\ rows[r] <= Upserts(rows, segs)[r]
             /\ \A s \in segs : s.rows[r] <= Upserts(rows, segs)[r]
             /\ \/ Upserts(rows, segs)[r] = rows[r]
                \/ \E s \in segs : Upserts(rows, segs)[r] = s.rows[r]
    <2>. DEFINE S == {rows[r]} \cup {s.rows[r] : s \in segs}
    <2>1. S \subseteq 0 .. MaxClock /\ S # {}
        BY DEF RowStamps, Times
    <2>2. Upserts(rows, segs)[r] = Max(S)
        BY DEF Upserts
    <2>3. /\ rows[r] \in S /\ \A s \in segs : s.rows[r] \in S
          /\ \A n \in S : n = rows[r] \/ \E s \in segs : n = s.rows[r]
        OBVIOUS
    <2>. HIDE DEF S
    <2>4. Max(S) \in S /\ \A n \in S : n <= Max(S)
        BY <2>1, Bounds, Greatest
    <2>. QED BY <2>1, <2>2, <2>3, <2>4 DEF Times
<1>. QED BY <1>1 DEF Upserts, RowStamps

\* If an update was due before a segment, there is a first such segment.
LEMMA FirstDue ==
    ASSUME NEW segs, \A s \in segs : s.at \in Times, NEW w, NEW s \in segs, Due(w, s.at)
    PROVE  \E u \in segs : u.at <= s.at /\ Due(w, u.at) /\ ~Earlier(w, u.at, segs)
<1>. DEFINE S == {u.at : u \in {u \in segs : Due(w, u.at)}}
<1>1. S \subseteq 0 .. MaxClock /\ s.at \in S
    BY DEF Times
<1>2. PICK m \in S : \A n \in S : m <= n
    <2>. HIDE DEF S
    <2>. QED BY <1>1, Bounds, Least
<1>3. PICK u \in segs : Due(w, u.at) /\ m = u.at
    OBVIOUS
<1>4. u.at <= s.at
    <2>. HIDE DEF S
    <2>. QED BY <1>1, <1>2, <1>3
<1>5. ASSUME NEW v \in segs, v.at < u.at, Due(w, v.at) PROVE FALSE
    <2>1. v.at \in S /\ v.at \in Nat /\ u.at \in Nat
        BY <1>5 DEF Times
    <2>. HIDE DEF S
    <2>. QED BY <1>2, <1>3, <1>5, <2>1
<1>. QED BY <1>3, <1>4, <1>5 DEF Earlier

\* The segment that is applied next.
LEMMA OldestIs ==
    ASSUME NEW segs, \A s \in segs : s.at \in Times, segs # {}
    PROVE  \E s \in segs : \A t \in segs : s.at <= t.at
<1>. DEFINE S == {u.at : u \in segs}
<1>1. S \subseteq 0 .. MaxClock /\ S # {}
    BY DEF Times
<1>2. PICK m \in S : \A n \in S : m <= n
    <2>. HIDE DEF S
    <2>. QED BY <1>1, Bounds, Least
<1>3. PICK u \in segs : m = u.at
    OBVIOUS
<1>. QED BY <1>2, <1>3

LEMMA NewestIs ==
    ASSUME \A s \in segments : s.at \in Times, segments # {}
    PROVE  /\ Newest \in Times
           /\ \E u \in segments : u.at = Newest
<1>. DEFINE S == {u.at : u \in segments}
<1>1. S \subseteq 0 .. MaxClock /\ S # {}
    BY DEF Times
<1>2. Newest = Max(S)
    BY DEF Newest
<1>3. Max(S) \in S
    <2>. HIDE DEF S
    <2>. QED BY <1>1, Bounds, Greatest
<1>. QED BY <1>1, <1>2, <1>3 DEF Times

\* The newest segment of those a hydration applies, or none.
LEMMA AppliedIs ==
    ASSUME NEW segs, \A s \in segs : s.at \in Times
    PROVE  LET top == Max({0} \cup {s.at : s \in segs}) IN
           top \in Times /\ (top = 0 \/ \E s \in segs : s.at = top)
<1>. DEFINE S == {0} \cup {u.at : u \in segs}
<1>1. S \subseteq 0 .. MaxClock /\ S # {}
    BY Bounds DEF Times
<1>2. Max(S) \in S
    <2>. HIDE DEF S
    <2>. QED BY <1>1, Bounds, Greatest
<1>. QED BY <1>1, <1>2 DEF Times

-----------------------------------------------------------------------------
(* Types, and what the steps of the jobs change. *)

Bases == [tag : 0 .. MaxRollups, watermark : Times, rows : RowStamps]
Syncs(segs) == [pc : {"idle", "fetch", "hydrate", "replay", "apply"}, tag : 0 .. MaxRollups,
                watermark : Times, rows : RowStamps, segs : SUBSET segs]
Copies == [tag : 0 .. MaxRollups, watermark : Times, applied : Times, rows : RowStamps]

LEMMA Zeros ==
    /\ 0 \in Times /\ 1 \in Times /\ NoRows \in RowStamps
    /\ \A r \in Rows : NoRows[r] = 0
    /\ NoJob \in Job /\ NoJob.pc = "idle" /\ NoJob.at = 0 /\ NoJob.since = 0 /\ NoJob.next = 1
    /\ NoJob.rows = NoRows
<1>1. 0 \in Times /\ 1 \in Times /\ 1 \in 1 .. Collections + 1
    BY Bounds DEF Times
<1>2. NoRows \in RowStamps /\ \A r \in Rows : NoRows[r] = 0
    BY <1>1 DEF NoRows, RowStamps
<1>3. /\ NoJob.pc = "idle" /\ NoJob.at = 0 /\ NoJob.since = 0 /\ NoJob.next = 1
      /\ NoJob.rows = NoRows
    BY DEF NoJob
<1>4. NoJob \in Job
    BY <1>1, <1>2, Zenon DEF NoJob, Job
<1>. QED BY <1>1, <1>2, <1>3, <1>4

\* A job that begins a scan of what was updated since t.
Begun(t, u) == [NoJob EXCEPT !.pc = "scan", !.at = t, !.since = u]

LEMMA BeginIs ==
    ASSUME NEW t \in Times, NEW u \in Times
    PROVE  /\ Begun(t, u) \in Job /\ Begun(t, u).pc = "scan" /\ Begun(t, u).at = t
           /\ Begun(t, u).since = u /\ Begun(t, u).next = 1 /\ Begun(t, u).rows = NoRows
<1>1. Begun(t, u) \in Job
    BY Zeros, Zenon DEF Job, Begun
<1>2. Begun(t, u).pc = "scan" /\ Begun(t, u).at = t /\ Begun(t, u).since = u
    BY Zenon DEF NoJob, Begun
<1>3. Begun(t, u).next = 1 /\ Begun(t, u).rows = NoRows
    BY Zenon DEF NoJob, Begun
<1>. QED BY <1>1, <1>2, <1>3

\* The scan of one collection.
Advanced(job, n, r, t) == [job EXCEPT !.next = n, !.rows[r] = t]

LEMMA ScanIs ==
    ASSUME NEW job \in Job, NEW r \in Rows, NEW n \in 1 .. Collections + 1, NEW t \in Times
    PROVE  LET new == Advanced(job, n, r, t) IN
           /\ new \in Job /\ new.pc = job.pc /\ new.at = job.at /\ new.since = job.since
           /\ new.next = n /\ new.rows[r] = t
           /\ \A x \in Rows : x # r => new.rows[x] = job.rows[x]
<1>. DEFINE new == Advanced(job, n, r, t)
            rows == [job.rows EXCEPT ![r] = t]
<1>1. job.rows \in RowStamps
    BY DEF Job
<1>2. rows \in RowStamps /\ rows[r] = t /\ \A x \in Rows : x # r => rows[x] = job.rows[x]
    BY <1>1 DEF RowStamps
<1>3. new = [job EXCEPT !.next = n, !.rows = rows]
    BY DEF Advanced
<1>. HIDE DEF rows, new
<1>4. new \in Job /\ new.pc = job.pc /\ new.at = job.at /\ new.since = job.since
    BY <1>2, <1>3, Zenon DEF Job
<1>5. new.next = n /\ new.rows = rows
    BY <1>3, Zenon DEF Job
<1>. QED BY <1>2, <1>4, <1>5 DEF new

LEMMA TypesAre ==
    ASSUME TypeOK
    PROVE  /\ clock \in Nat /\ covered \in Nat
           /\ \A r \in Rows : source[r] \in Nat /\ writing[r] \in Nat
           /\ \A w \in written : w.row \in Rows /\ w.stamp \in Nat
           /\ \A d \in Deltas :
                /\ delta[d] \in Job /\ delta[d].at \in Nat /\ delta[d].since \in Nat
                /\ delta[d].next \in 1 .. Collections + 1 /\ delta[d].rows \in RowStamps
           /\ rollup \in Job /\ rollup.at \in Nat /\ rollup.next \in 1 .. Collections + 1
           /\ rollup.rows \in RowStamps
           /\ base.tag \in Nat /\ base.watermark \in Nat /\ base.rows \in RowStamps
           /\ cache.tag \in Nat /\ cache.watermark \in Nat /\ cache.applied \in Nat
           /\ cache.rows \in RowStamps /\ sync.watermark \in Nat
           /\ \A s \in segments : s.at \in Times /\ s.at \in Nat /\ s.rows \in RowStamps
           /\ \A rows \in RowStamps : \A r \in Rows : rows[r] \in Nat
<1>1. clock \in Nat /\ covered \in Nat
    BY DEF TypeOK, Times
<1>2. \A r \in Rows : source[r] \in Nat /\ writing[r] \in Nat
    BY DEF TypeOK, Times, RowStamps
<1>3. \A w \in written : w.row \in Rows /\ w.stamp \in Nat
    BY DEF TypeOK, Times
<1>4. ASSUME NEW job \in Job
      PROVE  /\ job.at \in Nat /\ job.since \in Nat
             /\ job.next \in 1 .. Collections + 1 /\ job.rows \in RowStamps
    BY DEF Job, Times
<1>5. rollup \in Job /\ \A d \in Deltas : delta[d] \in Job
    BY DEF TypeOK
<1>6. base.tag \in Nat /\ base.watermark \in Nat /\ base.rows \in RowStamps
    BY DEF TypeOK, Times
<1>7. /\ cache.tag \in Nat /\ cache.watermark \in Nat /\ cache.applied \in Nat
      /\ cache.rows \in RowStamps /\ sync.watermark \in Nat
    BY DEF TypeOK, Times
<1>8. \A s \in segments : s.at \in Times /\ s.at \in Nat /\ s.rows \in RowStamps
    BY DEF TypeOK, IsSegment, Times
<1>9. \A rows \in RowStamps : \A r \in Rows : rows[r] \in Nat
    BY DEF RowStamps, Times
<1>. QED BY <1>1, <1>2, <1>3, <1>4, <1>5, <1>6, <1>7, <1>8, <1>9

\* How far back a delta looks.
Window == IF segments = {} THEN Back(clock, Bootstrap) ELSE Back(Newest, Slack)

LEMMA WindowIs ==
    ASSUME TypeOK
    PROVE  Window \in Times
<1>1. ASSUME NEW t \in Times, NEW d \in Nat PROVE Back(t, d) \in Times
    BY Bounds DEF Back, Times
<1>2. CASE segments = {}
    BY <1>1, <1>2, Bounds DEF Window, TypeOK
<1>3. CASE segments # {}
    BY <1>1, <1>3, Bounds, NewestIs DEF Window, TypeOK, IsSegment
<1>. QED BY <1>2, <1>3

LEMMA DeltaStartIs ==
    ASSUME TypeOK, NEW d \in Deltas, DeltaStart(d)
    PROVE  /\ delta' \in [Deltas -> Job]
           /\ delta'[d].pc = "scan" /\ delta'[d].at = clock /\ delta'[d].since = Window
           /\ delta'[d].next = 1 /\ delta'[d].rows = NoRows
           /\ \A e \in Deltas : e # d => delta'[e] = delta[e]
<1>1. delta' = [delta EXCEPT ![d] = Begun(clock, Window)]
    BY DEF DeltaStart, Window, Begun
<1>2. delta \in [Deltas -> Job] /\ clock \in Times /\ Window \in Times
    BY WindowIs DEF TypeOK
<1>. QED BY <1>1, <1>2, BeginIs

LEMMA DeltaScanIs ==
    ASSUME TypeOK, NEW d \in Deltas, DeltaScan(d), NEW r, r = delta[d].next
    PROVE  /\ r \in Rows /\ delta' \in [Deltas -> Job]
           /\ delta'[d].pc = delta[d].pc /\ delta'[d].at = delta[d].at
           /\ delta'[d].since = delta[d].since /\ delta'[d].next = r + 1
           /\ delta'[d].rows[r] = IF source[r] >= delta[d].since THEN source[r] ELSE 0
           /\ \A x \in Rows : x # r => delta'[d].rows[x] = delta[d].rows[x]
           /\ \A e \in Deltas : e # d => delta'[e] = delta[e]
<1>1. PICK t : t = IF source[r] >= delta[d].since THEN source[r] ELSE 0
    OBVIOUS
<1>3. r \in Rows
    BY DEF DeltaScan
<1>4. t \in Times /\ r + 1 \in 1 .. Collections + 1 /\ delta[d] \in Job
    BY <1>1, <1>3, Zeros, Bounds DEF TypeOK, RowStamps, Rows
<1>5. delta' = [delta EXCEPT ![d] = Advanced(delta[d], r + 1, r, t)]
    BY <1>1 DEF DeltaScan, Advanced
<1>6. PICK job : job = Advanced(delta[d], r + 1, r, t)
    OBVIOUS
<1>7. /\ job \in Job /\ job.pc = delta[d].pc /\ job.at = delta[d].at
      /\ job.since = delta[d].since /\ job.next = r + 1 /\ job.rows[r] = t
      /\ \A x \in Rows : x # r => job.rows[x] = delta[d].rows[x]
    BY <1>3, <1>4, <1>6, ScanIs
<1>8. delta' = [delta EXCEPT ![d] = job] /\ delta \in [Deltas -> Job]
    BY <1>5, <1>6 DEF TypeOK
<1>9. /\ delta' \in [Deltas -> Job] /\ delta'[d] = job
      /\ \A e \in Deltas : e # d => delta'[e] = delta[e]
    BY <1>7, <1>8
<1>. QED BY <1>1, <1>3, <1>7, <1>9

LEMMA DeltaEndIs ==
    ASSUME TypeOK, NEW d \in Deltas, delta' = [delta EXCEPT ![d] = NoJob]
    PROVE  /\ delta' \in [Deltas -> Job] /\ delta'[d] = NoJob
           /\ \A e \in Deltas : e # d => delta'[e] = delta[e]
    BY Zeros DEF TypeOK

\* What a delta that has scanned everything publishes.
Found(d) == [at |-> delta[d].at, rows |-> delta[d].rows]

LEMMA DeltaWriteIs ==
    ASSUME TypeOK, NEW d \in Deltas, DeltaWrite(d)
    PROVE  /\ delta[d].pc = "scan" /\ \A r \in Rows : r < delta[d].next
           /\ covered' = Later(covered, delta[d].at)
           /\ delta' \in [Deltas -> Job] /\ delta'[d] = NoJob
           /\ \A e \in Deltas : e # d => delta'[e] = delta[e]
           /\ \/ delta[d].rows = NoRows /\ segments' = segments
              \/ delta[d].rows # NoRows /\ segments' = segments \cup {Found(d)}
<1>1. delta[d].next \in 1 .. Collections + 1 /\ delta[d].next \notin 1 .. Collections
    BY TypesAre DEF DeltaWrite, Rows
<1>2. \A r \in Rows : r < delta[d].next
    BY <1>1, Bounds DEF Rows
<1>3. delta' = [delta EXCEPT ![d] = NoJob]
    BY DEF DeltaWrite
<1>. QED BY <1>2, <1>3, DeltaEndIs DEF DeltaWrite, Found

LEMMA RollupStartIs ==
    ASSUME TypeOK, RollupStart
    PROVE  /\ rollup' \in Job /\ rollup'.pc = "scan" /\ rollup'.at = clock
           /\ rollup'.next = 1 /\ rollup'.rows = NoRows
<1>1. rollup' = [NoJob EXCEPT !.pc = "scan", !.at = clock] /\ clock \in Times
    BY DEF RollupStart, TypeOK
<1>2. rollup' \in Job
    BY <1>1, Zeros, Zenon DEF Job
<1>3. rollup'.pc = "scan" /\ rollup'.at = clock
    BY <1>1, Zenon DEF NoJob
<1>4. rollup'.next = 1 /\ rollup'.rows = NoRows
    BY <1>1, Zenon DEF NoJob
<1>. QED BY <1>2, <1>3, <1>4

LEMMA RollupScanIs ==
    ASSUME TypeOK, RollupScan, NEW r, r = rollup.next
    PROVE  /\ r \in Rows /\ rollup' \in Job
           /\ rollup'.pc = rollup.pc /\ rollup'.at = rollup.at
           /\ rollup'.next = r + 1 /\ rollup'.rows[r] = source[r]
           /\ \A x \in Rows : x # r => rollup'.rows[x] = rollup.rows[x]
<1>1. r \in Rows /\ rollup' = Advanced(rollup, r + 1, r, source[r])
    BY DEF RollupScan, Advanced
<1>2. source[r] \in Times /\ r + 1 \in 1 .. Collections + 1 /\ rollup \in Job
    BY <1>1, Bounds DEF TypeOK, RowStamps, Rows
<1>. QED BY <1>1, <1>2, ScanIs

LEMMA RollupPublishIs ==
    ASSUME TypeOK, RollupPublish
    PROVE  /\ rollup.pc = "scan" /\ \A r \in Rows : r < rollup.next
           /\ base'.tag = base.tag + 1 /\ base'.watermark = rollup.at /\ base'.rows = rollup.rows
           /\ rollup' = NoJob
<1>1. rollup.next \in 1 .. Collections + 1 /\ rollup.next \notin 1 .. Collections
    BY TypesAre DEF RollupPublish, Rows
<1>2. \A r \in Rows : r < rollup.next
    BY <1>1, Bounds DEF Rows
<1>. QED BY <1>2 DEF RollupPublish

LEMMA NoSyncIs ==
    ASSUME NEW segs
    PROVE  /\ NoSync \in Syncs(segs) /\ NoSync.pc = "idle" /\ NoSync.tag = 0
           /\ NoSync.watermark = 0 /\ NoSync.rows = NoRows /\ NoSync.segs = {}
<1>1. 0 \in 0 .. MaxRollups /\ {} \in SUBSET segs
    BY Bounds
<1>2. NoSync \in Syncs(segs)
    BY <1>1, Zeros, Zenon DEF NoSync, Syncs
<1>. QED BY <1>2 DEF NoSync

LEMMA SyncIs ==
    ASSUME TypeOK
    PROVE  /\ sync \in Syncs(segments) /\ base \in Bases /\ cache \in Copies
           /\ sync.segs \subseteq segments /\ sync.rows \in RowStamps
           /\ sync.watermark \in Times /\ sync.tag \in 0 .. MaxRollups
           /\ base.rows \in RowStamps /\ base.watermark \in Times /\ base.tag \in 0 .. MaxRollups
           /\ cache.rows \in RowStamps /\ cache.watermark \in Times /\ cache.applied \in Times
           /\ cache.tag \in 0 .. MaxRollups
<1>1. sync \in Syncs(segments) /\ base \in Bases /\ cache \in Copies
    BY DEF TypeOK, Syncs, Bases, Copies
<1>2. /\ sync.segs \subseteq segments /\ sync.rows \in RowStamps
      /\ sync.watermark \in Times /\ sync.tag \in 0 .. MaxRollups
    BY <1>1 DEF Syncs
<1>3. /\ base.rows \in RowStamps /\ base.watermark \in Times /\ base.tag \in 0 .. MaxRollups
    BY <1>1 DEF Bases
<1>4. /\ cache.rows \in RowStamps /\ cache.watermark \in Times /\ cache.applied \in Times
      /\ cache.tag \in 0 .. MaxRollups
    BY <1>1 DEF Copies
<1>. QED BY <1>1, <1>2, <1>3, <1>4

LEMMA SyncStatIs ==
    ASSUME TypeOK, SyncStat
    PROVE  /\ sync' \in Syncs(segments) /\ sync'.pc = "fetch" /\ sync'.tag = base.tag
           /\ sync'.rows = NoRows /\ sync'.watermark = 0
<1>1. sync' = [NoSync EXCEPT !.pc = "fetch", !.tag = base.tag]
    BY DEF SyncStat
<1>2. base.tag \in 0 .. MaxRollups
    BY SyncIs
<1>3. sync' \in Syncs(segments)
    BY <1>1, <1>2, NoSyncIs, Zenon DEF Syncs
<1>4. sync'.pc = "fetch" /\ sync'.tag = base.tag
    BY <1>1, Zenon DEF NoSync
<1>5. sync'.rows = NoRows /\ sync'.watermark = 0
    BY <1>1, Zenon DEF NoSync
<1>. QED BY <1>3, <1>4, <1>5

LEMMA SyncFetchIs ==
    ASSUME TypeOK, SyncFetch
    PROVE  /\ sync' \in Syncs(segments) /\ sync'.pc = "hydrate" /\ sync'.tag = sync.tag
           /\ sync'.watermark = base.watermark /\ sync'.rows = base.rows
<1>1. sync' = [sync EXCEPT !.pc = "hydrate", !.watermark = base.watermark, !.rows = base.rows]
    BY DEF SyncFetch
<1>2. sync \in Syncs(segments) /\ base.watermark \in Times /\ base.rows \in RowStamps
    BY SyncIs
<1>. QED BY <1>1, <1>2, Zenon DEF Syncs

LEMMA SyncListIs ==
    ASSUME TypeOK, SyncList
    PROVE  /\ sync' \in Syncs(segments) /\ sync'.pc = "apply"
           /\ sync'.rows = NoRows /\ sync'.watermark = 0
           /\ sync'.segs = NewSegments(cache.applied, cache.watermark) /\ sync'.segs # {}
<1>1. PICK segs \in SUBSET segments :
        /\ segs = NewSegments(cache.applied, cache.watermark) /\ segs # {}
        /\ sync' = [NoSync EXCEPT !.pc = "apply", !.segs = segs]
    BY DEF SyncList, NewSegments
<1>2. sync' \in Syncs(segments)
    BY <1>1, NoSyncIs, Zenon DEF Syncs
<1>3. sync'.pc = "apply" /\ sync'.segs = segs
    BY <1>1, Zenon DEF NoSync
<1>4. sync'.rows = NoRows /\ sync'.watermark = 0
    BY <1>1, Zenon DEF NoSync
<1>. QED BY <1>1, <1>2, <1>3, <1>4

LEMMA HydrateListIs ==
    ASSUME TypeOK, HydrateList
    PROVE  /\ sync' \in Syncs(segments) /\ sync'.pc = "replay" /\ sync'.tag = sync.tag
           /\ sync'.watermark = sync.watermark /\ sync'.rows = sync.rows
           /\ sync'.segs = NewSegments(0, sync.watermark)
<1>1. PICK segs \in SUBSET segments :
        /\ segs = NewSegments(0, sync.watermark)
        /\ sync' = [sync EXCEPT !.pc = "replay", !.segs = segs]
    BY DEF HydrateList, NewSegments
<1>2. sync \in Syncs(segments)
    BY SyncIs
<1>3. sync' \in Syncs(segments) /\ sync'.pc = "replay" /\ sync'.segs = segs
    BY <1>1, <1>2, Zenon DEF Syncs
<1>4. sync'.tag = sync.tag /\ sync'.watermark = sync.watermark /\ sync'.rows = sync.rows
    BY <1>1, <1>2, Zenon DEF Syncs
<1>. QED BY <1>1, <1>3, <1>4

LEMMA HydrateSwapIs ==
    ASSUME TypeOK, HydrateSwap
    PROVE  /\ cache' \in Copies
           /\ cache'.tag = sync.tag /\ cache'.watermark = sync.watermark
           /\ cache'.applied = 0 \/ \E s \in sync.segs : s.at = cache'.applied
           /\ \A r \in Rows :
                /\ sync.rows[r] <= cache'.rows[r]
                /\ \A s \in sync.segs : s.rows[r] <= cache'.rows[r]
                /\ \/ cache'.rows[r] = sync.rows[r]
                   \/ \E s \in sync.segs : cache'.rows[r] = s.rows[r]
           /\ sync' = NoSync
<1>. DEFINE top == Max({0} \cup {s.at : s \in sync.segs})
            rows == Upserts(sync.rows, sync.segs)
<1>1. \A s \in sync.segs : s \in segments /\ s.at \in Times /\ s.rows \in RowStamps
    BY SyncIs, TypesAre
<1>2. cache' = [tag |-> sync.tag, watermark |-> sync.watermark, applied |-> top, rows |-> rows]
    BY DEF HydrateSwap
<1>3. top \in Times /\ (top = 0 \/ \E s \in sync.segs : s.at = top)
    BY <1>1, AppliedIs
<1>4. /\ rows \in RowStamps
      /\ \A r \in Rows :
            /\ sync.rows[r] <= rows[r]
            /\ \A s \in sync.segs : s.rows[r] <= rows[r]
            /\ rows[r] = sync.rows[r] \/ \E s \in sync.segs : rows[r] = s.rows[r]
    BY <1>1, SyncIs, UpsertsAre
<1>. HIDE DEF top, rows
<1>5. cache' \in Copies
    BY <1>2, <1>3, <1>4, SyncIs, Zenon DEF Copies
<1>6. /\ cache'.tag = sync.tag /\ cache'.watermark = sync.watermark /\ cache'.applied = top
      /\ cache'.rows = rows
    BY <1>2
<1>7. sync' = NoSync
    BY DEF HydrateSwap
<1>. QED BY <1>3, <1>4, <1>5, <1>6, <1>7

LEMMA ApplyIs ==
    ASSUME TypeOK, Apply
    PROVE  \E s \in sync.segs :
           /\ \A t \in sync.segs : s.at <= t.at
           /\ cache' \in Copies
           /\ cache'.tag = cache.tag /\ cache'.watermark = cache.watermark
           /\ cache'.applied = s.at
           /\ \A r \in Rows :
                /\ cache.rows[r] <= cache'.rows[r] /\ s.rows[r] <= cache'.rows[r]
                /\ cache'.rows[r] = cache.rows[r] \/ cache'.rows[r] = s.rows[r]
           /\ \/ sync' = NoSync
              \/ /\ sync' \in Syncs(segments) /\ sync'.pc = "apply"
                 /\ sync'.segs = sync.segs \ {s} /\ sync'.segs # {}
                 /\ sync'.rows = sync.rows /\ sync'.watermark = sync.watermark
<1>1. PICK s : s = CHOOSE u \in sync.segs : \A t \in sync.segs : u.at <= t.at
    OBVIOUS
<1>2. \A t \in sync.segs : t \in segments /\ t.at \in Times /\ t.rows \in RowStamps
    BY SyncIs, TypesAre
<1>3. sync.segs # {} /\ sync.pc = "apply"
    BY DEF Apply, TypeOK
<1>4. s \in sync.segs /\ \A t \in sync.segs : s.at <= t.at
    BY <1>1, <1>2, <1>3, OldestIs
<1>. DEFINE rows == Upserts(cache.rows, {s})
<1>5. cache' = [cache EXCEPT !.applied = s.at, !.rows = rows]
    BY <1>1 DEF Apply
<1>6. /\ sync' = NoSync \/ sync' = [sync EXCEPT !.segs = sync.segs \ {s}]
      /\ sync' # NoSync => sync.segs # {s}
    BY <1>1 DEF Apply
<1>7. /\ rows \in RowStamps
      /\ \A r \in Rows : /\ cache.rows[r] <= rows[r] /\ s.rows[r] <= rows[r]
                         /\ rows[r] = cache.rows[r] \/ rows[r] = s.rows[r]
    BY <1>2, <1>4, SyncIs, UpsertsAre
<1>. HIDE DEF rows
<1>8. /\ cache' \in Copies /\ cache'.tag = cache.tag /\ cache'.watermark = cache.watermark
      /\ cache'.applied = s.at /\ cache'.rows = rows
    <2>1. s.at \in Times /\ cache \in Copies
        BY <1>2, <1>4, SyncIs
    <2>2. cache' \in Copies /\ cache'.tag = cache.tag /\ cache'.watermark = cache.watermark
        BY <1>5, <1>7, <2>1, Zenon DEF Copies
    <2>3. cache'.applied = s.at /\ cache'.rows = rows
        BY <1>5, <2>1, Zenon DEF Copies
    <2>. QED BY <2>2, <2>3
<1>9. ASSUME sync' # NoSync
      PROVE  /\ sync' \in Syncs(segments) /\ sync'.pc = "apply"
             /\ sync'.segs = sync.segs \ {s} /\ sync'.segs # {}
             /\ sync'.rows = sync.rows /\ sync'.watermark = sync.watermark
    <2>1. sync.segs \ {s} \in SUBSET segments /\ sync \in Syncs(segments)
        BY SyncIs
    <2>2. sync' = [sync EXCEPT !.segs = sync.segs \ {s}] /\ sync.segs \ {s} # {}
        BY <1>4, <1>6, <1>9
    <2>3. /\ sync' \in Syncs(segments) /\ sync'.pc = sync.pc
          /\ sync'.segs = sync.segs \ {s}
        BY <2>1, <2>2, Zenon DEF Syncs
    <2>4. sync'.rows = sync.rows /\ sync'.watermark = sync.watermark
        BY <2>1, <2>2, Zenon DEF Syncs
    <2>. QED BY <1>3, <2>2, <2>3, <2>4
<1>. QED BY <1>4, <1>7, <1>8, <1>9

-----------------------------------------------------------------------------
(* Type correctness. *)

\* A segment is named by the time its job started, which no other has.
LEMMA FoundIs ==
    ASSUME TypeOK, TimesOK, NEW d \in Deltas, delta[d].pc = "scan", delta[d].rows # NoRows
    PROVE  /\ IsSegment(Found(d)) /\ Found(d).at = delta[d].at /\ Found(d).rows = delta[d].rows
           /\ \A s \in segments : s.at # Found(d).at
<1>1. Found(d).at = delta[d].at /\ Found(d).rows = delta[d].rows
    BY DEF Found
<1>2. delta[d].at \in Times /\ delta[d].rows \in RowStamps
    BY DEF TypeOK, Job
<1>. QED BY <1>1, <1>2 DEF IsSegment, TimesOK

LEMMA TypeStep ==
    ASSUME TypeOK, TimesOK, [Next]_vars
    PROVE  TypeOK'
<1>. USE DEF vars, jobs, database, bucket, reader
<1>1. CASE Tick
    <2>1. clock' \in Times
        BY <1>1, Bounds DEF Tick, TypeOK, Times
    <2>2. UNCHANGED <<source, writing, written, delta, rollup, covered, segments, base, sync,
                      cache, faults>>
        BY <1>1 DEF Tick
    <2>. QED BY <2>1, <2>2 DEF TypeOK
<1>2. ASSUME NEW r \in Rows, Write(r) PROVE TypeOK'
    <2>1. writing' = [writing EXCEPT ![r] = clock]
        /\ written' = written \cup {[row |-> r, stamp |-> clock]}
        BY <1>2 DEF Write
    <2>2. writing' \in RowStamps /\ written' \subseteq [row : Rows, stamp : Times]
        BY <2>1 DEF TypeOK, RowStamps
    <2>3. UNCHANGED <<clock, source, delta, rollup, covered, segments, base, sync, cache, faults>>
        BY <1>2 DEF Write
    <2>. QED BY <2>2, <2>3 DEF TypeOK
<1>3. ASSUME NEW r \in Rows, Appear(r) PROVE TypeOK'
    <2>1. /\ source' = [source EXCEPT ![r] = writing[r]]
          /\ writing' = [writing EXCEPT ![r] = 0]
        BY <1>3 DEF Appear
    <2>2. source' \in RowStamps /\ writing' \in RowStamps
        BY <2>1, Zeros DEF TypeOK, RowStamps
    <2>3. UNCHANGED <<clock, written, delta, rollup, covered, segments, base, sync, cache, faults>>
        BY <1>3 DEF Appear
    <2>. QED BY <2>2, <2>3 DEF TypeOK
<1>4. ASSUME NEW d \in Deltas, DeltaStart(d) \/ DeltaScan(d) PROVE TypeOK'
    <2>1. delta' \in [Deltas -> Job]
        BY <1>4, DeltaStartIs, DeltaScanIs
    <2>2. UNCHANGED <<clock, source, writing, written, rollup, covered, segments, base, sync,
                      cache, faults>>
        BY <1>4 DEF DeltaStart, DeltaScan
    <2>. QED BY <2>1, <2>2 DEF TypeOK
<1>5. ASSUME NEW d \in Deltas, DeltaWrite(d) PROVE TypeOK'
    <2>1. delta' \in [Deltas -> Job] /\ covered' = Later(covered, delta[d].at)
        /\ delta[d].pc = "scan"
        BY <1>5, DeltaWriteIs
    <2>2. covered' \in Times
        BY <2>1 DEF TypeOK, Job, Later
    <2>3. UNCHANGED <<clock, source, writing, written, rollup, base, sync, cache, faults>>
        BY <1>5 DEF DeltaWrite
    <2>4. CASE segments' = segments
        BY <2>1, <2>2, <2>3, <2>4 DEF TypeOK
    <2>5. CASE delta[d].rows # NoRows /\ segments' = segments \cup {Found(d)}
        <3>1. IsSegment(Found(d)) /\ \A s \in segments : s.at # Found(d).at
            BY <2>1, <2>5, FoundIs
        <3>2. \A s \in segments' : IsSegment(s)
            BY <2>5, <3>1 DEF TypeOK
        <3>3. \A s, t \in segments' : s.at = t.at => s = t
            BY <2>5, <3>1 DEF TypeOK
        <3>4. sync \in Syncs(segments')
            <4>1. sync \in Syncs(segments) /\ SUBSET segments \subseteq SUBSET segments'
                BY <2>5, SyncIs
            <4>. QED BY <4>1 DEF Syncs
        <3>. QED BY <2>1, <2>2, <2>3, <3>2, <3>3, <3>4 DEF TypeOK, Syncs
    <2>. QED BY <1>5, <2>4, <2>5, DeltaWriteIs
<1>6. ASSUME NEW d \in Deltas, DeltaFails(d) PROVE TypeOK'
    <2>1. delta' \in [Deltas -> Job]
        BY <1>6, DeltaEndIs DEF DeltaFails
    <2>2. faults' \in 0 .. MaxFaults
        BY <1>6, Bounds DEF DeltaFails, Fault, TypeOK
    <2>3. UNCHANGED <<clock, source, writing, written, rollup, covered, segments, base, sync, cache>>
        BY <1>6 DEF DeltaFails
    <2>. QED BY <2>1, <2>2, <2>3 DEF TypeOK
<1>7. CASE RollupStart \/ RollupScan
    <2>1. rollup' \in Job
        BY <1>7, RollupStartIs, RollupScanIs
    <2>2. UNCHANGED <<clock, source, writing, written, delta, covered, segments, base, sync,
                      cache, faults>>
        BY <1>7 DEF RollupStart, RollupScan
    <2>. QED BY <2>1, <2>2 DEF TypeOK
<1>8. CASE RollupPublish
    <2>1. base' = [tag |-> base.tag + 1, watermark |-> rollup.at, rows |-> rollup.rows]
        /\ rollup' = NoJob
        BY <1>8 DEF RollupPublish
    <2>2. base.tag + 1 \in 0 .. MaxRollups
        BY <1>8, Bounds, TypesAre DEF RollupPublish, TimesOK
    <2>3. rollup.at \in Times /\ rollup.rows \in RowStamps
        BY DEF TypeOK, Job
    <2>4. base' \in Bases
        BY <2>1, <2>2, <2>3 DEF Bases
    <2>5. UNCHANGED <<clock, source, writing, written, delta, covered, segments, sync, cache,
                      faults>>
        BY <1>8 DEF RollupPublish
    <2>. QED BY <2>1, <2>4, <2>5, Zeros DEF TypeOK, Bases
<1>9. CASE RollupFails
    <2>1. rollup' \in Job
        BY <1>9, Zeros DEF RollupFails
    <2>2. faults' \in 0 .. MaxFaults
        BY <1>9, Bounds DEF RollupFails, Fault, TypeOK
    <2>3. UNCHANGED <<clock, source, writing, written, delta, covered, segments, base, sync, cache>>
        BY <1>9 DEF RollupFails
    <2>. QED BY <2>1, <2>2, <2>3 DEF TypeOK
<1>10. CASE SyncStat \/ SyncFetch \/ HydrateList \/ SyncList
    <2>1. sync' \in Syncs(segments) /\ (sync'.pc = "apply" => sync'.segs # {})
        BY <1>10, SyncStatIs, SyncFetchIs, HydrateListIs, SyncListIs
    <2>2. UNCHANGED <<clock, source, writing, written, delta, rollup, covered, segments, base,
                      cache, faults>>
        BY <1>10 DEF SyncStat, SyncFetch, HydrateList, SyncList
    <2>. QED BY <2>1, <2>2 DEF TypeOK, Syncs
<1>11. CASE HydrateSwap \/ Apply
    <2>1. sync' \in Syncs(segments) /\ (sync'.pc = "apply" => sync'.segs # {})
        BY <1>11, HydrateSwapIs, ApplyIs, NoSyncIs
    <2>2. cache' \in Copies
        BY <1>11, HydrateSwapIs, ApplyIs
    <2>3. UNCHANGED <<clock, source, writing, written, delta, rollup, covered, segments, base,
                      faults>>
        BY <1>11 DEF HydrateSwap, Apply
    <2>. QED BY <2>1, <2>2, <2>3 DEF TypeOK, Syncs, Copies
<1>12. CASE SyncFails
    <2>1. sync' \in Syncs(segments) /\ sync'.pc = "idle"
        BY <1>12, NoSyncIs DEF SyncFails
    <2>2. faults' \in 0 .. MaxFaults
        BY <1>12, Bounds DEF SyncFails, Fault, TypeOK
    <2>3. UNCHANGED <<clock, source, writing, written, delta, rollup, covered, segments, base,
                      cache>>
        BY <1>12 DEF SyncFails
    <2>. QED BY <2>1, <2>2, <2>3 DEF TypeOK, Syncs
<1>13. CASE UNCHANGED vars
    BY <1>13 DEF TypeOK, IsSegment
<1>. QED BY <1>1, <1>2, <1>3, <1>4, <1>5, <1>6, <1>7, <1>8, <1>9, <1>10, <1>11, <1>12, <1>13
         DEF Next, DeltaSteps, RollupSteps, SyncSteps

-----------------------------------------------------------------------------
(* Writes, and times. *)

LEMMA WritesStep ==
    ASSUME TypeOK, WritesOK, [Next]_vars
    PROVE  WritesOK'
<1>. USE DEF vars, jobs, database, bucket, reader
<1>1. CASE Tick
    <2>1. clock' = clock + 1 /\ UNCHANGED <<source, writing, written>>
        BY <1>1 DEF Tick
    <2>2. ASSUME NEW r \in Rows, writing[r] # 0 PROVE clock + 1 <= writing[r] + Skew
        BY <1>1, <2>2, TypesAre, Bounds DEF Tick
    <2>. QED BY <2>1, <2>2, TypesAre DEF WritesOK
<1>2. ASSUME NEW r \in Rows, Write(r) PROVE WritesOK'
    <2>1. /\ clock' = clock /\ source' = source
          /\ written' = written \cup {[row |-> r, stamp |-> clock]}
          /\ writing[r] = 0 /\ source[r] < clock
          /\ writing'[r] = clock /\ \A x \in Rows : x # r => writing'[x] = writing[x]
        BY <1>2 DEF Write, TypeOK, RowStamps
    <2>2. \A x \in Rows : writing'[x] # 0 =>
            source[x] < writing'[x] /\ writing'[x] <= clock /\ clock <= writing'[x] + Skew
        BY <2>1, TypesAre, Bounds DEF WritesOK
    <2>3. ASSUME NEW w \in written'
          PROVE  /\ 1 <= w.stamp /\ w.stamp <= clock
                 /\ w.stamp <= source[w.row] \/ w.stamp = writing'[w.row]
        <3>1. CASE w \in written
            <4>1. w.row \in Rows /\ w.stamp \in Nat
                BY <3>1, TypesAre
            <4>2. 1 <= w.stamp /\ w.stamp <= clock
                BY <3>1 DEF WritesOK
            <4>3. w.stamp <= source[w.row] \/ w.stamp = writing[w.row]
                BY <3>1 DEF WritesOK
            <4>4. w.row = r => w.stamp <= source[w.row]
                BY <2>1, <4>1, <4>2, <4>3
            <4>. QED BY <2>1, <4>1, <4>2, <4>3, <4>4
        <3>2. CASE w = [row |-> r, stamp |-> clock]
            BY <2>1, <3>2, TypesAre DEF WritesOK
        <3>. QED BY <2>1, <2>3, <3>1, <3>2
    <2>. QED BY <2>1, <2>2, <2>3 DEF WritesOK
<1>3. ASSUME NEW r \in Rows, Appear(r) PROVE WritesOK'
    <2>1. /\ clock' = clock /\ written' = written /\ writing[r] # 0
          /\ source'[r] = writing[r] /\ \A x \in Rows : x # r => source'[x] = source[x]
          /\ writing'[r] = 0 /\ \A x \in Rows : x # r => writing'[x] = writing[x]
        BY <1>3 DEF Appear, TypeOK, RowStamps
    <2>2. \A x \in Rows : writing'[x] # 0 =>
            source'[x] < writing'[x] /\ writing'[x] <= clock /\ clock <= writing'[x] + Skew
        BY <2>1 DEF WritesOK
    <2>3. ASSUME NEW w \in written
          PROVE  w.stamp <= source'[w.row] \/ w.stamp = writing'[w.row]
        <3>1. w.row \in Rows /\ w.stamp \in Nat
            BY TypesAre
        <3>2. w.stamp <= source[w.row] \/ w.stamp = writing[w.row]
            BY DEF WritesOK
        <3>3. source[r] < writing[r] /\ source[r] \in Nat /\ writing[r] \in Nat
            BY <2>1, TypesAre DEF WritesOK
        <3>. QED BY <2>1, <3>1, <3>2, <3>3
    <2>. QED BY <2>1, <2>2, <2>3 DEF WritesOK
<1>4. CASE UNCHANGED <<clock, source, writing, written>>
    BY <1>4 DEF WritesOK
<1>. QED BY <1>1, <1>2, <1>3, <1>4
         DEF Next, DeltaSteps, RollupSteps, SyncSteps, DeltaStart, DeltaScan, DeltaWrite,
             DeltaFails, RollupStart, RollupScan, RollupPublish, RollupFails, SyncStat, SyncFetch,
             HydrateList, HydrateSwap, SyncList, Apply, SyncFails

LEMMA TimesStep ==
    ASSUME TypeOK, TypeOK', WritesOK, TimesOK, [Next]_vars
    PROVE  TimesOK'
<1>. USE DEF vars, jobs, database, bucket, reader
<1>1. CASE Tick
    <2>1. /\ clock' = clock + 1
          /\ UNCHANGED <<delta, rollup, covered, segments, base, sync, cache>>
        BY <1>1 DEF Tick
    <2>2. ASSUME NEW d \in Deltas, delta[d].pc = "scan" PROVE clock + 1 <= delta[d].at + Longest
        BY <1>1, <2>2, TypesAre, Bounds DEF Tick
    <2>3. /\ covered <= clock' /\ base.watermark <= clock' /\ rollup.at <= clock'
          /\ sync.watermark <= clock' /\ cache.watermark <= clock' /\ cache.applied <= clock'
        BY <2>1, TypesAre DEF TimesOK
    <2>4. \A s \in segments : 1 <= s.at /\ s.at <= clock'
        BY <2>1, TypesAre DEF TimesOK
    <2>5. \A d \in Deltas : delta[d].pc = "scan" => 1 <= delta[d].at /\ delta[d].at <= clock'
        BY <2>1, TypesAre DEF TimesOK
    <2>. QED BY <2>1, <2>2, <2>3, <2>4, <2>5 DEF TimesOK
<1>2. ASSUME NEW d \in Deltas, DeltaStart(d) PROVE TimesOK'
    <2>1. UNCHANGED <<clock, rollup, covered, segments, base, sync, cache>>
        BY <1>2 DEF DeltaStart
    <2>2. /\ delta'[d].pc = "scan" /\ delta'[d].at = clock
          /\ \A e \in Deltas : e # d => delta'[e] = delta[e]
        BY <1>2, DeltaStartIs
    <2>3. (\A s \in segments : s.at # clock) /\ (\A e \in Deltas : delta[e].at # clock)
        BY <1>2 DEF DeltaStart, CanStart
    <2>4. 1 <= clock /\ clock <= clock + Longest
        BY TypesAre, Bounds DEF WritesOK
    <2>5. ASSUME NEW e \in Deltas, delta'[e].pc = "scan"
          PROVE  /\ 1 <= delta'[e].at /\ delta'[e].at <= clock /\ clock <= delta'[e].at + Longest
                 /\ \A s \in segments : s.at # delta'[e].at
                 /\ \A f \in Deltas : delta'[f].pc = "scan" /\ f # e =>
                        delta'[f].at # delta'[e].at
        <3>1. CASE e = d
            BY <2>2, <2>3, <2>4, <3>1, TypesAre
        <3>2. CASE e # d
            BY <2>2, <2>3, <2>5, <3>2 DEF TimesOK
        <3>. QED BY <3>1, <3>2
    <2>. QED BY <2>1, <2>5 DEF TimesOK
<1>3. ASSUME NEW d \in Deltas, DeltaScan(d) PROVE TimesOK'
    <2>1. UNCHANGED <<clock, rollup, covered, segments, base, sync, cache>>
        BY <1>3 DEF DeltaScan
    <2>2. /\ delta'[d].pc = delta[d].pc /\ delta'[d].at = delta[d].at
          /\ \A e \in Deltas : e # d => delta'[e] = delta[e]
        BY <1>3, DeltaScanIs
    <2>3. \A e \in Deltas : delta'[e].pc = delta[e].pc /\ delta'[e].at = delta[e].at
        BY <2>2
    <2>. QED BY <2>1, <2>3 DEF TimesOK
<1>4. ASSUME NEW d \in Deltas, DeltaWrite(d) PROVE TimesOK'
    <2>1. UNCHANGED <<clock, rollup, base, sync, cache>>
        BY <1>4 DEF DeltaWrite
    <2>2. /\ delta[d].pc = "scan" /\ covered' = Later(covered, delta[d].at)
          /\ delta'[d].pc = "idle" /\ \A e \in Deltas : e # d => delta'[e] = delta[e]
        BY <1>4, DeltaWriteIs, Zeros
    <2>3. segments' = segments \/ segments' = segments \cup {Found(d)}
        BY <1>4, DeltaWriteIs
    <2>4. 1 <= delta[d].at /\ delta[d].at <= clock /\ Found(d).at = delta[d].at
        BY <2>2 DEF TimesOK, Found
    <2>5. covered' <= clock
        BY <2>2, <2>4 DEF TimesOK, Later
    <2>6. \A s \in segments' : 1 <= s.at /\ s.at <= clock
        BY <2>3, <2>4 DEF TimesOK
    <2>7. ASSUME NEW e \in Deltas, delta'[e].pc = "scan"
          PROVE  /\ e # d /\ delta'[e] = delta[e] /\ delta[e].pc = "scan"
                 /\ \A s \in segments' : s.at # delta[e].at
        BY <2>2, <2>3, <2>4, <2>7 DEF TimesOK
    <2>8. \A e, f \in Deltas : delta'[e].pc = "scan" /\ delta'[f].pc = "scan" /\ f # e =>
            delta'[f].at # delta'[e].at
        BY <2>7 DEF TimesOK
    <2>9. \A e \in Deltas : delta'[e].pc = "scan" =>
            1 <= delta'[e].at /\ delta'[e].at <= clock /\ clock <= delta'[e].at + Longest
        BY <2>7 DEF TimesOK
    <2>10. \A e \in Deltas : delta'[e].pc = "scan" => \A s \in segments' : s.at # delta'[e].at
        BY <2>7
    <2>. QED BY <2>1, <2>5, <2>6, <2>8, <2>9, <2>10 DEF TimesOK
<1>5. ASSUME NEW d \in Deltas, DeltaFails(d) PROVE TimesOK'
    <2>1. UNCHANGED <<clock, rollup, covered, segments, base, sync, cache>>
        BY <1>5 DEF DeltaFails
    <2>2. delta'[d].pc = "idle" /\ \A e \in Deltas : e # d => delta'[e] = delta[e]
        BY <1>5, DeltaEndIs, Zeros DEF DeltaFails
    <2>. QED BY <2>1, <2>2 DEF TimesOK
<1>6. CASE RollupStart
    <2>1. UNCHANGED <<clock, delta, covered, segments, base, sync, cache>>
        BY <1>6 DEF RollupStart
    <2>2. rollup'.at = clock /\ base.tag < MaxRollups
        BY <1>6, RollupStartIs DEF RollupStart
    <2>. QED BY <2>1, <2>2, TypesAre DEF TimesOK
<1>7. CASE RollupScan
    <2>1. UNCHANGED <<clock, delta, covered, segments, base, sync, cache>>
        BY <1>7 DEF RollupScan
    <2>2. rollup'.at = rollup.at /\ rollup'.pc = rollup.pc
        BY <1>7, RollupScanIs
    <2>. QED BY <2>1, <2>2 DEF TimesOK
<1>8. CASE RollupPublish
    <2>1. UNCHANGED <<clock, delta, covered, segments, sync, cache>>
        BY <1>8 DEF RollupPublish
    <2>2. /\ rollup'.pc = "idle" /\ rollup'.at = 0
          /\ base'.tag = base.tag + 1 /\ base'.watermark = rollup.at
        BY <1>8, RollupPublishIs, Zeros
    <2>. QED BY <2>1, <2>2, TypesAre DEF TimesOK
<1>9. CASE RollupFails
    <2>1. UNCHANGED <<clock, delta, covered, segments, base, sync, cache>>
        BY <1>9 DEF RollupFails
    <2>2. rollup'.pc = "idle" /\ rollup'.at = 0
        BY <1>9, Zeros DEF RollupFails
    <2>. QED BY <2>1, <2>2, TypesAre DEF TimesOK
<1>10. CASE SyncStat \/ SyncFetch \/ HydrateList \/ SyncList \/ SyncFails
    <2>1. UNCHANGED <<clock, delta, rollup, covered, segments, base, cache>>
        BY <1>10 DEF SyncStat, SyncFetch, HydrateList, SyncList, SyncFails
    <2>2. sync'.watermark \in {0, base.watermark, sync.watermark}
        BY <1>10, SyncStatIs, SyncFetchIs, HydrateListIs, SyncListIs, NoSyncIs DEF SyncFails
    <2>3. sync'.watermark <= clock
        BY <2>2, TypesAre DEF TimesOK
    <2>. QED BY <2>1, <2>3 DEF TimesOK
<1>11. CASE HydrateSwap
    <2>1. UNCHANGED <<clock, delta, rollup, covered, segments, base>>
        BY <1>11 DEF HydrateSwap
    <2>2. /\ cache'.watermark = sync.watermark /\ sync'.watermark = 0
          /\ cache'.applied = 0 \/ \E s \in segments : s.at = cache'.applied
        BY <1>11, HydrateSwapIs, NoSyncIs, SyncIs
    <2>3. cache'.applied <= clock /\ cache'.watermark <= clock /\ sync'.watermark <= clock
        BY <2>2, TypesAre DEF TimesOK
    <2>. QED BY <2>1, <2>3 DEF TimesOK
<1>12. CASE Apply
    <2>1. UNCHANGED <<clock, delta, rollup, covered, segments, base>>
        BY <1>12 DEF Apply
    <2>2. /\ cache'.watermark = cache.watermark
          /\ sync'.watermark = 0 \/ sync'.watermark = sync.watermark
          /\ \E s \in segments : s.at = cache'.applied
        BY <1>12, ApplyIs, NoSyncIs, SyncIs
    <2>3. cache'.applied <= clock /\ cache'.watermark <= clock /\ sync'.watermark <= clock
        BY <2>2, TypesAre DEF TimesOK
    <2>. QED BY <2>1, <2>3 DEF TimesOK
<1>13. CASE UNCHANGED <<clock, delta, rollup, covered, segments, base, sync, cache>>
    BY <1>13 DEF TimesOK
<1>14. ASSUME NEW r \in Rows, Write(r) \/ Appear(r) PROVE TimesOK'
    BY <1>13, <1>14 DEF Write, Appear
<1>. QED BY <1>1, <1>2, <1>3, <1>4, <1>5, <1>6, <1>7, <1>8, <1>9, <1>10, <1>11, <1>12, <1>13,
            <1>14
         DEF Next, DeltaSteps, RollupSteps, SyncSteps

-----------------------------------------------------------------------------
(* What is published, and what is served. *)

\* What is visible is only replaced by what is later.
LEMMA SourceMovesOn ==
    ASSUME TypeOK, WritesOK, [Next]_vars
    PROVE  \A r \in Rows : source'[r] \in Nat /\ source[r] <= source'[r]
<1>. USE DEF vars, jobs, database, bucket, reader
<1>1. ASSUME NEW r \in Rows, Appear(r)
      PROVE  \A x \in Rows : source'[x] \in Nat /\ source[x] <= source'[x]
    <2>1. source' = [source EXCEPT ![r] = writing[r]] /\ source[r] < writing[r]
        BY <1>1 DEF Appear, WritesOK
    <2>. QED BY <2>1, TypesAre DEF TypeOK, RowStamps
<1>2. CASE source' = source
    BY <1>2, TypesAre
<1>. QED BY <1>1, <1>2
         DEF Next, DeltaSteps, RollupSteps, SyncSteps, Tick, Write, DeltaStart, DeltaScan,
             DeltaWrite, DeltaFails, RollupStart, RollupScan, RollupPublish, RollupFails,
             SyncStat, SyncFetch, HydrateList, HydrateSwap, SyncList, Apply, SyncFails

\* A segment is published while a base from before it still has it replayed.
LEMMA LateIs ==
    ASSUME TypeOK, TimesOK, NEW d \in Deltas, delta[d].pc = "scan"
    PROVE  /\ Back(base.watermark, CacheSlack) <= delta[d].at
           /\ Back(rollup.at, CacheSlack) <= delta[d].at
<1>1. clock <= delta[d].at + CacheSlack
    BY TypesAre, Bounds DEF TimesOK
<1>2. base.watermark <= clock /\ rollup.at <= clock
    BY DEF TimesOK
<1>. QED BY <1>1, <1>2, TypesAre, Bounds DEF Back

LEMMA RowsStep ==
    ASSUME TypeOK, TypeOK', WritesOK, TimesOK, RowsOK, [Next]_vars
    PROVE  RowsOK'
<1>. USE DEF vars, jobs, database, bucket, reader
<1>0. \A r \in Rows : source'[r] \in Nat /\ source[r] <= source'[r]
    BY SourceMovesOn
<1>1. ASSUME NEW d \in Deltas, DeltaStart(d) \/ DeltaScan(d) \/ DeltaFails(d) PROVE RowsOK'
    <2>1. UNCHANGED <<source, rollup, segments, base>>
        BY <1>1 DEF DeltaStart, DeltaScan, DeltaFails
    <2>2. \A e \in Deltas : e # d => delta'[e] = delta[e]
        BY <1>1, DeltaStartIs, DeltaScanIs, DeltaEndIs DEF DeltaFails
    <2>3. \A r \in Rows : delta'[d].rows[r] <= source[r]
        <3>1. CASE DeltaStart(d)
            BY <3>1, DeltaStartIs, Zeros, TypesAre
        <3>2. CASE DeltaScan(d)
            BY <3>2, DeltaScanIs, TypesAre DEF RowsOK
        <3>3. CASE DeltaFails(d)
            <4>1. delta'[d].rows = NoRows
                BY <3>3, DeltaEndIs, Zeros DEF DeltaFails
            <4>. QED BY <4>1, Zeros, TypesAre
        <3>. QED BY <1>1, <3>1, <3>2, <3>3
    <2>. QED BY <2>1, <2>2, <2>3 DEF RowsOK, Scanned
<1>2. ASSUME NEW d \in Deltas, DeltaWrite(d) PROVE RowsOK'
    <2>1. UNCHANGED <<source, rollup, base>>
        BY <1>2 DEF DeltaWrite
    <2>2. /\ delta[d].pc = "scan" /\ delta'[d].rows = NoRows
          /\ \A e \in Deltas : e # d => delta'[e] = delta[e]
          /\ segments' = segments \/ segments' = segments \cup {Found(d)}
        BY <1>2, DeltaWriteIs, Zeros
    <2>3. \A r \in Rows, e \in Deltas : delta'[e].rows[r] <= source[r]
        BY <2>2, Zeros, TypesAre DEF RowsOK
    <2>4. ASSUME NEW r \in Rows, NEW s \in segments'
          PROVE  /\ s.rows[r] <= source[r]
                 /\ s.rows[r] <= base.rows[r] \/ Back(base.watermark, CacheSlack) <= s.at
                 /\ Scanned(rollup, r) =>
                     s.rows[r] <= rollup.rows[r] \/ Back(rollup.at, CacheSlack) <= s.at
        <3>1. CASE s \in segments
            BY <3>1 DEF RowsOK
        <3>2. CASE s = Found(d)
            <4>1. s.at = delta[d].at /\ s.rows = delta[d].rows
                BY <3>2 DEF Found
            <4>2. delta[d].rows[r] <= source[r]
                BY DEF RowsOK
            <4>3. /\ Back(base.watermark, CacheSlack) <= delta[d].at
                  /\ Back(rollup.at, CacheSlack) <= delta[d].at
                BY <2>2, LateIs
            <4>. QED BY <4>1, <4>2, <4>3
        <3>. QED BY <2>2, <3>1, <3>2
    <2>. QED BY <2>1, <2>3, <2>4 DEF RowsOK, Scanned
<1>3. CASE RollupStart \/ RollupFails
    <2>1. UNCHANGED <<source, delta, segments, base>>
        BY <1>3 DEF RollupStart, RollupFails
    <2>2. rollup'.rows = NoRows /\ (rollup'.pc = "scan" => rollup'.next = 1)
        BY <1>3, RollupStartIs, Zeros DEF RollupFails
    <2>3. \A r \in Rows : ~Scanned(rollup', r)
        BY <2>2, Bounds DEF Rows, Scanned
    <2>. QED BY <2>1, <2>2, <2>3, Zeros, TypesAre DEF RowsOK, Scanned
<1>4. CASE RollupScan
    <2>1. UNCHANGED <<source, delta, segments, base>>
        BY <1>4 DEF RollupScan
    <2>2. PICK r : r = rollup.next
        OBVIOUS
    <2>3. /\ r \in Rows /\ rollup'.pc = rollup.pc /\ rollup'.at = rollup.at
          /\ rollup'.next = r + 1 /\ rollup'.rows[r] = source[r]
          /\ \A x \in Rows : x # r => rollup'.rows[x] = rollup.rows[x]
        BY <1>4, <2>2, RollupScanIs
    <2>4. \A x \in Rows : Scanned(rollup', x) => x = r \/ (x # r /\ Scanned(rollup, x))
        BY <2>2, <2>3 DEF Scanned, Rows
    <2>5. \A x \in Rows : rollup'.rows[x] <= source[x]
        BY <2>3, TypesAre DEF RowsOK
    <2>6. ASSUME NEW x \in Rows, Scanned(rollup', x)
          PROVE  /\ base.rows[x] <= rollup'.rows[x]
                 /\ \A s \in segments :
                     s.rows[x] <= rollup'.rows[x] \/ Back(rollup.at, CacheSlack) <= s.at
        <3>1. CASE x = r
            BY <2>3, <3>1 DEF RowsOK
        <3>2. CASE x # r /\ Scanned(rollup, x)
            BY <2>3, <3>2 DEF RowsOK
        <3>. QED BY <2>4, <2>6, <3>1, <3>2
    <2>. QED BY <2>1, <2>3, <2>5, <2>6 DEF RowsOK
<1>5. CASE RollupPublish
    <2>1. UNCHANGED <<source, delta, segments>>
        BY <1>5 DEF RollupPublish
    <2>2. /\ \A r \in Rows : Scanned(rollup, r)
          /\ base'.watermark = rollup.at /\ base'.rows = rollup.rows
          /\ rollup'.rows = NoRows /\ rollup'.pc = "idle"
        BY <1>5, RollupPublishIs, Zeros DEF Scanned
    <2>. QED BY <2>1, <2>2, Zeros, TypesAre DEF RowsOK, Scanned
<1>6. CASE UNCHANGED <<delta, rollup, segments, base>>
    <2>1. \A r \in Rows : base.rows[r] <= source'[r] /\ rollup.rows[r] <= source'[r]
        BY <1>0, TypesAre DEF RowsOK
    <2>2. \A r \in Rows, d \in Deltas : delta[d].rows[r] <= source'[r]
        BY <1>0, TypesAre DEF RowsOK
    <2>3. \A r \in Rows, s \in segments : s.rows[r] <= source'[r]
        BY <1>0, TypesAre DEF RowsOK
    <2>. QED BY <1>6, <2>1, <2>2, <2>3 DEF RowsOK, Scanned
<1>. QED BY <1>1, <1>2, <1>3, <1>4, <1>5, <1>6
         DEF Next, DeltaSteps, RollupSteps, SyncSteps, Tick, Write, Appear, SyncStat, SyncFetch,
             HydrateList, HydrateSwap, SyncList, Apply, SyncFails

LEMMA ServedStep ==
    ASSUME TypeOK, TypeOK', TimesOK, RowsOK, ServedOK, [Next]_vars
    PROVE  ServedOK'
<1>. USE DEF vars, jobs, database, bucket, reader
<1>1. ASSUME NEW d \in Deltas, DeltaWrite(d) PROVE ServedOK'
    <2>1. UNCHANGED <<base, sync, cache>>
        BY <1>1 DEF DeltaWrite
    <2>2. segments \subseteq segments'
        BY <1>1, DeltaWriteIs
    <2>. QED BY <2>1, <2>2 DEF ServedOK
<1>2. CASE RollupPublish
    <2>1. UNCHANGED <<segments, sync, cache>>
        BY <1>2 DEF RollupPublish
    <2>2. \A r \in Rows : base.rows[r] <= base'.rows[r]
        BY <1>2, RollupPublishIs DEF RowsOK, Scanned
    <2>3. /\ base'.rows \in RowStamps /\ sync.rows \in RowStamps
          /\ \A r \in Rows : base'.rows[r] \in Nat /\ sync.rows[r] \in Nat
        BY <2>1, SyncIs, TypesAre, RollupPublishIs, <1>2
    <2>4. \A r \in Rows : sync.rows[r] <= base'.rows[r]
        BY <2>2, <2>3, TypesAre DEF ServedOK
    <2>5. \A r \in Rows :
            cache.rows[r] <= base'.rows[r] \/ \E s \in segments : cache.rows[r] <= s.rows[r]
        BY <2>2, <2>3, TypesAre DEF ServedOK
    <2>. QED BY <2>1, <2>4, <2>5 DEF ServedOK
<1>3. CASE SyncStat \/ SyncList \/ SyncFails
    <2>1. UNCHANGED <<segments, base, cache>>
        BY <1>3 DEF SyncStat, SyncList, SyncFails
    <2>2. sync'.rows = NoRows /\ sync'.pc \notin {"hydrate", "replay"}
        BY <1>3, SyncStatIs, SyncListIs, NoSyncIs DEF SyncFails
    <2>. QED BY <2>1, <2>2, Zeros, TypesAre DEF ServedOK
<1>4. CASE SyncFetch
    <2>1. UNCHANGED <<segments, base, cache>>
        BY <1>4 DEF SyncFetch
    <2>2. /\ sync'.watermark = base.watermark /\ sync'.rows = base.rows
          /\ sync'.pc = "hydrate"
        BY <1>4, SyncFetchIs
    <2>3. ASSUME NEW r \in Rows
          PROVE  \/ cache.rows[r] <= base.rows[r]
                 \/ \E s \in segments :
                     cache.rows[r] <= s.rows[r] /\ Back(base.watermark, CacheSlack) <= s.at
        <3>1. CASE cache.rows[r] <= base.rows[r]
            BY <3>1
        <3>2. ASSUME NEW s \in segments, cache.rows[r] <= s.rows[r]
              PROVE  \/ cache.rows[r] <= base.rows[r]
                     \/ cache.rows[r] <= s.rows[r] /\ Back(base.watermark, CacheSlack) <= s.at
            <4>1. s.rows[r] <= base.rows[r] \/ Back(base.watermark, CacheSlack) <= s.at
                BY DEF RowsOK
            <4>. QED BY <3>2, <4>1, TypesAre
        <3>. QED BY <3>1, <3>2 DEF ServedOK
    <2>4. \A r \in Rows : base.rows[r] <= base.rows[r]
        BY TypesAre
    <2>. QED BY <2>1, <2>2, <2>3, <2>4 DEF ServedOK
<1>5. CASE HydrateSwap
    <2>1. UNCHANGED <<segments, base>>
        BY <1>5 DEF HydrateSwap
    <2>2. sync'.rows = NoRows /\ sync'.pc = "idle"
        BY <1>5, HydrateSwapIs, NoSyncIs
    <2>3. \A r \in Rows :
            cache'.rows[r] = sync.rows[r] \/ \E s \in segments : cache'.rows[r] = s.rows[r]
        BY <1>5, HydrateSwapIs, SyncIs
    <2>4. \A r \in Rows :
            cache'.rows[r] <= base.rows[r] \/ \E s \in segments : cache'.rows[r] <= s.rows[r]
        BY <2>3, TypesAre DEF ServedOK
    <2>. QED BY <2>1, <2>2, <2>4, Zeros, TypesAre DEF ServedOK
<1>6. CASE Apply
    <2>1. UNCHANGED <<segments, base>>
        BY <1>6 DEF Apply
    <2>2. sync'.rows = NoRows \/ sync'.rows = sync.rows
        BY <1>6, ApplyIs, NoSyncIs
    <2>3. sync'.pc \notin {"hydrate", "replay"}
        BY <1>6, ApplyIs, NoSyncIs
    <2>4. \A r \in Rows :
            cache'.rows[r] = cache.rows[r] \/ \E s \in segments : cache'.rows[r] = s.rows[r]
        BY <1>6, ApplyIs, SyncIs
    <2>5. \A r \in Rows :
            cache'.rows[r] <= base.rows[r] \/ \E s \in segments : cache'.rows[r] <= s.rows[r]
        BY <2>4, TypesAre DEF ServedOK
    <2>. QED BY <2>1, <2>2, <2>3, <2>5, Zeros, TypesAre DEF ServedOK
<1>7. CASE HydrateList
    <2>1. UNCHANGED <<segments, base, cache>> /\ sync.pc = "hydrate"
        BY <1>7 DEF HydrateList
    <2>2. /\ sync'.pc = "replay" /\ sync'.rows = sync.rows
          /\ sync'.segs = NewSegments(0, sync.watermark)
        BY <1>7, HydrateListIs
    <2>3. ASSUME NEW s \in segments, Back(sync.watermark, CacheSlack) <= s.at
          PROVE  s \in sync'.segs
        <3>1. s.at \in Nat /\ Back(sync.watermark, CacheSlack) \in Nat
            BY Bounds, TypesAre, BackIs
        <3>. QED BY <2>2, <2>3, <3>1 DEF NewSegments
    <2>4. \A r \in Rows :
            cache.rows[r] <= sync.rows[r] \/ \E s \in sync'.segs : cache.rows[r] <= s.rows[r]
        BY <2>1, <2>3 DEF ServedOK
    <2>. QED BY <2>1, <2>2, <2>4 DEF ServedOK
<1>8. CASE UNCHANGED <<segments, base, sync, cache>>
    BY <1>8 DEF ServedOK
<1>. QED BY <1>1, <1>2, <1>3, <1>4, <1>5, <1>6, <1>7, <1>8
         DEF Next, DeltaSteps, RollupSteps, SyncSteps, Tick, Write, Appear, DeltaStart, DeltaScan,
             DeltaFails, RollupStart, RollupScan, RollupFails

-----------------------------------------------------------------------------
(* What was due is published. *)

\* A write that was due before a time that has come is visible.
LEMMA DueIsVisible ==
    ASSUME TypeOK, WritesOK, NEW w \in written, NEW t \in Nat, t <= clock, Due(w, t)
    PROVE  w.row \in Rows /\ w.stamp <= source[w.row]
<1>1. w.row \in Rows /\ w.stamp \in Nat /\ clock \in Nat /\ writing[w.row] \in Nat
    BY TypesAre
<1>2. 1 <= w.stamp /\ (w.stamp <= source[w.row] \/ w.stamp = writing[w.row])
    BY DEF WritesOK
<1>3. w.stamp + Skew < clock
    BY <1>1, Bounds DEF Due
<1>4. writing[w.row] # 0 => clock <= writing[w.row] + Skew
    BY <1>1 DEF WritesOK
<1>. QED BY <1>1, <1>2, <1>3, <1>4, Bounds

\* A new update is not due before any time that has come.
LEMMA NewIsNotDue ==
    ASSUME TypeOK, NEW r \in Rows, Write(r), NEW w \in written', w \notin written
    PROVE  \A t \in Nat : t <= clock => ~Due(w, t)
<1>1. w.stamp = clock
    BY DEF Write
<1>. QED BY <1>1, TypesAre, Bounds DEF Due

\* A time that is due stays due later.
LEMMA DueLater ==
    ASSUME NEW w, w.stamp \in Nat, NEW t \in Nat, NEW u \in Nat, t <= u, Due(w, t)
    PROVE  Due(w, u)
    BY Bounds DEF Due

\* What a delta does not look back to was due before the segment it is counted from.
LEMMA WindowCovers ==
    ASSUME TypeOK, TimesOK, DueOK, NEW d \in Deltas, DeltaStart(d),
           NEW w \in written, w.stamp < Window
    PROVE  Earlier(w, clock, segments)
<1>1. InTime(clock) /\ \A s \in segments : s.at # clock
    BY DEF DeltaStart, CanStart
<1>2. clock \in Nat /\ covered \in Nat /\ w.stamp \in Nat
    BY TypesAre
<1>3. CASE segments = {}
    <2>1. w.stamp < Back(clock, Bootstrap) /\ Back(clock, Bootstrap) <= Back(covered, Skew)
        BY <1>1, <1>3 DEF Window, InTime
    <2>2. /\ Back(clock, Bootstrap) \in Nat /\ Back(covered, Skew) \in Nat
          /\ w.stamp < Back(covered, Skew) => w.stamp + Skew < covered
        BY <1>2, BackIs, Bounds
    <2>3. Due(w, covered)
        BY <1>2, <2>1, <2>2 DEF Due
    <2>. QED BY <1>3, <2>3 DEF DueOK
<1>4. CASE segments # {}
    <2>1. PICK u \in segments : u.at = Newest
        BY <1>4, TypesAre, NewestIs
    <2>2. u.at \in Nat /\ u.at < clock
        BY <1>1, <1>2, TypesAre DEF TimesOK
    <2>3. w.stamp < Back(u.at, Slack)
        BY <1>4, <2>1 DEF Window
    <2>4. w.stamp + Slack < u.at
        BY <1>2, <2>2, <2>3, BackIs, Bounds
    <2>. QED BY <1>2, <2>2, <2>4, Bounds DEF Due, Earlier
<1>. QED BY <1>3, <1>4

\* What DueOK says of a delta job.
DeltaDue(w, job) ==
    job.pc = "scan" /\ Due(w, job.at) =>
        /\ w.stamp < job.since => Earlier(w, job.at, segments)
        /\ w.row < job.next => w.stamp <= job.rows[w.row] \/ Earlier(w, job.at, segments)

LEMMA DeltaDueStep ==
    ASSUME TypeOK, WritesOK, TimesOK, DueOK, NEW w \in written, NEW d \in Deltas,
           DeltaStart(d) \/ DeltaScan(d)
    PROVE  DeltaDue(w, delta'[d])
<1>1. w.row \in Rows /\ w.stamp \in Nat /\ w.row \in Nat /\ w.row >= 1
    BY TypesAre, Bounds DEF Rows
<1>2. CASE DeltaStart(d)
    <2>1. delta'[d].at = clock /\ delta'[d].since = Window /\ delta'[d].next = 1
        BY <1>2, DeltaStartIs
    <2>2. w.stamp < Window => Earlier(w, clock, segments)
        BY <1>2, WindowCovers
    <2>. QED BY <1>1, <2>1, <2>2 DEF DeltaDue
<1>3. CASE DeltaScan(d)
    <2>1. PICK r : r = delta[d].next
        OBVIOUS
    <2>0. delta[d].pc = "scan"
        BY <1>3 DEF DeltaScan
    <2>2. /\ r \in Rows /\ delta'[d].at = delta[d].at /\ delta'[d].since = delta[d].since
          /\ delta'[d].next = r + 1
          /\ delta'[d].rows[r] = IF source[r] >= delta[d].since THEN source[r] ELSE 0
          /\ \A x \in Rows : x # r => delta'[d].rows[x] = delta[d].rows[x]
        BY <1>3, <2>1, DeltaScanIs
    <2>3. SUFFICES ASSUME Due(w, delta[d].at)
                   PROVE  /\ w.stamp < delta[d].since => Earlier(w, delta[d].at, segments)
                          /\ w.row < r + 1 => \/ w.stamp <= delta'[d].rows[w.row]
                                              \/ Earlier(w, delta[d].at, segments)
        BY <2>2 DEF DeltaDue
    <2>4. w.stamp < delta[d].since => Earlier(w, delta[d].at, segments)
        BY <2>0, <2>3 DEF DueOK
    <2>5. CASE w.row = r
        <3>1. delta[d].at \in Nat /\ delta[d].at <= clock
            BY <2>0, TypesAre DEF TimesOK
        <3>2. w.stamp <= source[r]
            BY <2>3, <2>5, <3>1, DueIsVisible
        <3>3. source[r] \in Nat /\ delta[d].since \in Nat
            BY <2>2, TypesAre
        <3>. QED BY <1>1, <2>2, <2>4, <2>5, <3>2, <3>3
    <2>6. CASE w.row # r
        <3>1. w.row < r => w.stamp <= delta[d].rows[w.row] \/ Earlier(w, delta[d].at, segments)
            BY <2>0, <2>1, <2>3 DEF DueOK
        <3>2. w.row < r + 1 => w.row < r
            BY <1>1, <2>2, <2>6 DEF Rows
        <3>. QED BY <1>1, <2>2, <2>4, <2>6, <3>1, <3>2
    <2>. QED BY <2>5, <2>6
<1>. QED BY <1>2, <1>3

LEMMA DueStep ==
    ASSUME TypeOK, TypeOK', WritesOK, TimesOK, DueOK, [Next]_vars
    PROVE  DueOK'
<1>. USE DEF vars, jobs, database, bucket, reader
<1>1. ASSUME NEW r \in Rows, Write(r) PROVE DueOK'
    <2>1. UNCHANGED <<clock, delta, rollup, covered, segments, base>>
        BY <1>1 DEF Write
    <2>2. ASSUME NEW w \in written', w \notin written
          PROVE  /\ ~Due(w, covered) /\ ~Due(w, base.watermark) /\ ~Due(w, rollup.at)
                 /\ \A s \in segments : ~Due(w, s.at)
                 /\ \A d \in Deltas : delta[d].pc = "scan" => ~Due(w, delta[d].at)
        <3>1. \A t \in Nat : t <= clock => ~Due(w, t)
            BY <1>1, <2>2, NewIsNotDue
        <3>2. ~Due(w, covered) /\ ~Due(w, base.watermark) /\ ~Due(w, rollup.at)
            BY <3>1, TypesAre DEF TimesOK
        <3>3. \A s \in segments : ~Due(w, s.at)
            BY <3>1, TypesAre DEF TimesOK
        <3>4. \A d \in Deltas : delta[d].pc = "scan" => ~Due(w, delta[d].at)
            BY <3>1, TypesAre DEF TimesOK
        <3>. QED BY <3>2, <3>3, <3>4
    <2>. QED BY <2>1, <2>2 DEF DueOK, Scanned
<1>2. ASSUME NEW d \in Deltas, DeltaStart(d) \/ DeltaScan(d) PROVE DueOK'
    <2>1. UNCHANGED <<written, rollup, covered, segments, base>>
        BY <1>2 DEF DeltaStart, DeltaScan
    <2>2. \A e \in Deltas : e # d => delta'[e] = delta[e]
        BY <1>2, DeltaStartIs, DeltaScanIs
    <2>3. \A w \in written : DeltaDue(w, delta'[d])
        BY <1>2, DeltaDueStep
    <2>. QED BY <2>1, <2>2, <2>3 DEF DueOK, DeltaDue, Scanned
<1>3. ASSUME NEW d \in Deltas, DeltaFails(d) PROVE DueOK'
    <2>1. UNCHANGED <<written, rollup, covered, segments, base>>
        BY <1>3 DEF DeltaFails
    <2>2. delta'[d].pc = "idle" /\ \A e \in Deltas : e # d => delta'[e] = delta[e]
        BY <1>3, DeltaEndIs, Zeros DEF DeltaFails
    <2>. QED BY <2>1, <2>2 DEF DueOK, Scanned
<1>4. ASSUME NEW d \in Deltas, DeltaWrite(d) PROVE DueOK'
    <2>1. UNCHANGED <<written, rollup, base>>
        BY <1>4 DEF DeltaWrite
    <2>2. /\ delta[d].pc = "scan" /\ \A r \in Rows : r < delta[d].next
          /\ covered' = Later(covered, delta[d].at) /\ delta'[d].pc = "idle"
          /\ \A e \in Deltas : e # d => delta'[e] = delta[e]
        BY <1>4, DeltaWriteIs, Zeros
    <2>3. \/ delta[d].rows = NoRows /\ segments' = segments
          \/ delta[d].rows # NoRows /\ segments' = segments \cup {Found(d)}
        BY <1>4, DeltaWriteIs
    <2>. SUFFICES ASSUME NEW w \in written
                  PROVE  /\ segments' = {} => ~Due(w, covered')
                         /\ \A e \in Deltas : delta'[e].pc = "scan" /\ Due(w, delta'[e].at) =>
                             /\ w.stamp < delta'[e].since => Earlier(w, delta'[e].at, segments')
                             /\ w.row < delta'[e].next =>
                                 \/ w.stamp <= delta'[e].rows[w.row]
                                 \/ Earlier(w, delta'[e].at, segments')
                         /\ \A s \in segments' : Due(w, s.at) =>
                             w.stamp <= s.rows[w.row] \/ Earlier(w, s.at, segments')
        BY <2>1 DEF DueOK, Scanned
    <2>4. w.row \in Rows /\ w.stamp \in Nat /\ 1 <= w.stamp
        BY TypesAre DEF WritesOK
    <2>5. \A t : Earlier(w, t, segments) => Earlier(w, t, segments')
        BY <2>3 DEF Earlier
    <2>6. Due(w, delta[d].at) =>
            w.stamp <= delta[d].rows[w.row] \/ Earlier(w, delta[d].at, segments)
        BY <2>2, <2>4 DEF DueOK
    <2>7. ASSUME segments' = {} PROVE ~Due(w, covered')
        <3>1. segments = {} /\ delta[d].rows[w.row] = 0
            BY <2>3, <2>4, <2>7, Zeros
        <3>2. ~Due(w, covered) /\ ~Due(w, delta[d].at)
            BY <2>4, <2>6, <3>1 DEF DueOK, Earlier
        <3>. QED BY <2>2, <3>2 DEF Later
    <2>8. ASSUME NEW e \in Deltas, delta'[e].pc = "scan", Due(w, delta'[e].at)
          PROVE  /\ w.stamp < delta'[e].since => Earlier(w, delta'[e].at, segments')
                 /\ w.row < delta'[e].next => \/ w.stamp <= delta'[e].rows[w.row]
                                              \/ Earlier(w, delta'[e].at, segments')
        <3>1. delta'[e] = delta[e]
            BY <2>2, <2>8
        <3>. QED BY <2>5, <2>8, <3>1 DEF DueOK
    <2>9. ASSUME NEW s \in segments', Due(w, s.at)
          PROVE  w.stamp <= s.rows[w.row] \/ Earlier(w, s.at, segments')
        <3>1. CASE s \in segments
            BY <2>5, <2>9, <3>1 DEF DueOK
        <3>2. CASE s = Found(d)
            BY <2>5, <2>6, <2>9, <3>2 DEF Found
        <3>. QED BY <2>3, <3>1, <3>2
    <2>. QED BY <2>7, <2>8, <2>9
<1>5. CASE RollupStart \/ RollupFails
    <2>1. UNCHANGED <<written, delta, covered, segments, base>>
        BY <1>5 DEF RollupStart, RollupFails
    <2>2. rollup'.pc = "scan" => rollup'.next = 1
        BY <1>5, RollupStartIs, Zeros DEF RollupFails
    <2>3. \A w \in written : ~Scanned(rollup', w.row)
        BY <2>2, TypesAre, Bounds DEF Rows, Scanned
    <2>. QED BY <2>1, <2>3 DEF DueOK, Scanned
<1>6. CASE RollupScan
    <2>1. UNCHANGED <<written, delta, covered, segments, base>>
        BY <1>6 DEF RollupScan
    <2>2. PICK r : r = rollup.next
        OBVIOUS
    <2>3. /\ r \in Rows /\ rollup'.pc = rollup.pc /\ rollup'.at = rollup.at
          /\ rollup'.next = r + 1 /\ rollup'.rows[r] = source[r]
          /\ \A x \in Rows : x # r => rollup'.rows[x] = rollup.rows[x]
        BY <1>6, <2>2, RollupScanIs
    <2>4. ASSUME NEW w \in written, Scanned(rollup', w.row), Due(w, rollup.at)
          PROVE  w.stamp <= rollup'.rows[w.row]
        <3>1. w.row \in Rows
            BY TypesAre
        <3>2. CASE w.row = r
            BY <2>3, <2>4, <3>2, DueIsVisible, TypesAre DEF TimesOK
        <3>3. CASE w.row # r
            <4>1. Scanned(rollup, w.row)
                BY <2>2, <2>3, <2>4, <3>1, <3>3 DEF Scanned, Rows
            <4>. QED BY <2>3, <2>4, <3>1, <3>3, <4>1 DEF DueOK
        <3>. QED BY <3>2, <3>3
    <2>. QED BY <2>1, <2>3, <2>4 DEF DueOK
<1>7. CASE RollupPublish
    <2>1. UNCHANGED <<written, delta, covered, segments>>
        BY <1>7 DEF RollupPublish
    <2>2. /\ \A r \in Rows : Scanned(rollup, r)
          /\ base'.watermark = rollup.at /\ base'.rows = rollup.rows
          /\ rollup'.pc = "idle"
        BY <1>7, RollupPublishIs, Zeros DEF Scanned
    <2>3. \A w \in written : Due(w, rollup.at) => w.stamp <= rollup.rows[w.row]
        BY <2>2, TypesAre DEF DueOK
    <2>. QED BY <2>1, <2>2, <2>3 DEF DueOK, Scanned
<1>8. CASE UNCHANGED <<written, delta, rollup, covered, segments, base>>
    BY <1>8 DEF DueOK, Scanned
<1>. QED BY <1>1, <1>2, <1>3, <1>4, <1>5, <1>6, <1>7, <1>8
         DEF Next, DeltaSteps, RollupSteps, SyncSteps, Tick, Appear, SyncStat, SyncFetch,
             HydrateList, HydrateSwap, SyncList, Apply, SyncFails

-----------------------------------------------------------------------------
(* What is published is served. *)

\* Of the segments that are listed for a base, the first before which an update was due has
\* it, or the base does.
LEMMA HydrateListServes ==
    ASSUME TypeOK, DueOK, CopyOK, HydrateList, NEW w \in written,
           NEW s \in NewSegments(0, sync.watermark), Due(w, s.at)
    PROVE  \/ w.stamp <= sync.rows[w.row]
           \/ w.stamp <= s.rows[w.row]
           \/ Earlier(w, s.at, NewSegments(0, sync.watermark))
<1>. DEFINE segs == NewSegments(0, sync.watermark)
<1>1. w.row \in Rows /\ w.stamp \in Nat /\ sync.watermark \in Nat
    BY TypesAre
<1>2. Due(w, sync.watermark) => w.stamp <= sync.rows[w.row]
    BY DEF CopyOK, HydrateList
<1>3. s \in segments /\ \A u \in segments : u.at \in Times
    BY TypesAre DEF NewSegments
<1>4. PICK u \in segments : u.at <= s.at /\ Due(w, u.at) /\ ~Earlier(w, u.at, segments)
    BY <1>3, FirstDue
<1>5. w.stamp <= u.rows[w.row]
    BY <1>4 DEF DueOK
<1>6. u.at \in Nat /\ s.at \in Nat
    BY <1>3, TypesAre
<1>7. CASE u \in segs
    <2>1. u.at = s.at => u = s
        BY <1>3 DEF TypeOK
    <2>2. u.at < s.at => Earlier(w, s.at, segs)
        <3>. HIDE DEF segs
        <3>. QED BY <1>4, <1>7 DEF Earlier
    <2>. QED BY <1>4, <1>5, <1>6, <2>1, <2>2
<1>8. CASE u \notin segs
    <2>1. ~(u.at >= Back(sync.watermark, CacheSlack))
        BY <1>8 DEF NewSegments
    <2>2. u.at <= sync.watermark
        <3>1. /\ Back(sync.watermark, CacheSlack) \in Nat
              /\ Back(sync.watermark, CacheSlack) <= sync.watermark
            BY <1>1, Bounds, BackIs
        <3>. QED BY <1>1, <1>6, <2>1, <3>1
    <2>3. Due(w, sync.watermark)
        BY <1>1, <1>4, <1>6, <2>2, DueLater
    <2>. QED BY <1>2, <2>3
<1>. QED BY <1>7, <1>8

\* A copy that a base and the segments that count are merged into has what was due.
LEMMA HydrateSwapServes ==
    ASSUME TypeOK, CopyOK, HydrateSwap, NEW w \in written,
           Due(w, IF cache'.applied # 0 THEN cache'.applied ELSE cache'.watermark)
    PROVE  w.stamp <= cache'.rows[w.row]
<1>1. w.row \in Rows /\ w.stamp \in Nat
    BY TypesAre
<1>2. /\ cache'.watermark = sync.watermark
      /\ cache'.applied = 0 \/ \E s \in sync.segs : s.at = cache'.applied
      /\ sync.rows[w.row] <= cache'.rows[w.row]
      /\ \A s \in sync.segs : s.rows[w.row] <= cache'.rows[w.row]
      /\ cache'.rows \in RowStamps
    BY <1>1, HydrateSwapIs DEF Copies
<1>3. sync.rows[w.row] \in Nat /\ cache'.rows[w.row] \in Nat
    BY <1>1, <1>2, SyncIs, TypesAre
<1>4. w.stamp <= sync.rows[w.row] => w.stamp <= cache'.rows[w.row]
    BY <1>1, <1>2, <1>3
<1>5. CASE cache'.applied = 0
    BY <1>2, <1>4, <1>5 DEF CopyOK, HydrateSwap
<1>6. CASE cache'.applied # 0
    <2>1. PICK s \in sync.segs : s.at = cache'.applied
        BY <1>2, <1>6
    <2>2. Due(w, s.at) /\ \A u \in sync.segs : u \in segments /\ u.at \in Times
        BY <1>6, <2>1, SyncIs, TypesAre
    <2>3. PICK u \in sync.segs : Due(w, u.at) /\ ~Earlier(w, u.at, sync.segs)
        BY <2>2, FirstDue
    <2>4. w.stamp <= sync.rows[w.row] \/ w.stamp <= u.rows[w.row]
        BY <2>3 DEF CopyOK, HydrateSwap
    <2>5. u.rows[w.row] \in Nat /\ u.rows[w.row] <= cache'.rows[w.row]
        BY <1>1, <1>2, <2>2, TypesAre
    <2>. QED BY <1>1, <1>3, <1>4, <2>4, <2>5
<1>. QED BY <1>5, <1>6

\* Of the segments that are listed, the first before which an update was due has it, or
\* the copy does.
LEMMA ListServes ==
    ASSUME TypeOK, TimesOK, DueOK, CopyOK, SyncList, NEW w \in written,
           NEW s \in NewSegments(cache.applied, cache.watermark), Due(w, s.at)
    PROVE  \/ w.stamp <= cache.rows[w.row]
           \/ w.stamp <= s.rows[w.row]
           \/ Earlier(w, s.at, NewSegments(cache.applied, cache.watermark))
<1>. DEFINE segs == NewSegments(cache.applied, cache.watermark)
<1>1. /\ w.row \in Rows /\ w.stamp \in Nat
      /\ cache.watermark \in Nat /\ cache.applied \in Nat
      /\ cache.rows[w.row] \in Nat
    BY TypesAre
<1>2. cache.tag # 0
    BY TypesAre DEF SyncList, TimesOK
<1>3. Due(w, Freshness) => w.stamp <= cache.rows[w.row]
    BY <1>1, <1>2 DEF CopyOK, CompleteThroughFreshness, Due
<1>4. s \in segments /\ \A u \in segments : u.at \in Times
    BY TypesAre DEF NewSegments
<1>5. PICK u \in segments : u.at <= s.at /\ Due(w, u.at) /\ ~Earlier(w, u.at, segments)
    BY <1>4, FirstDue
<1>6. w.stamp <= u.rows[w.row]
    BY <1>5 DEF DueOK
<1>7. u.at \in Nat /\ s.at \in Nat
    BY <1>4, TypesAre
<1>8. CASE u \in segs
    <2>1. u.at = s.at => u = s
        BY <1>4 DEF TypeOK
    <2>2. u.at < s.at => Earlier(w, s.at, segs)
        <3>. HIDE DEF segs
        <3>. QED BY <1>5, <1>8 DEF Earlier
    <2>. QED BY <1>5, <1>6, <1>7, <2>1, <2>2
<1>9. CASE u \notin segs
    <2>1. CASE cache.applied = 0
        <3>1. ~(u.at >= Back(cache.watermark, CacheSlack))
            BY <1>9, <2>1 DEF NewSegments
        <3>2. u.at <= cache.watermark
            <4>1. /\ Back(cache.watermark, CacheSlack) \in Nat
                  /\ Back(cache.watermark, CacheSlack) <= cache.watermark
                BY <1>1, Bounds, BackIs
            <4>. QED BY <1>1, <1>7, <3>1, <4>1
        <3>3. Due(w, cache.watermark)
            BY <1>1, <1>5, <1>7, <3>2, DueLater
        <3>. QED BY <1>3, <2>1, <3>3 DEF Freshness
    <2>2. CASE cache.applied # 0
        <3>1. u.at <= cache.applied
            BY <1>1, <1>7, <1>9, <2>2 DEF NewSegments
        <3>2. Due(w, cache.applied)
            BY <1>1, <1>5, <1>7, <3>1, DueLater
        <3>. QED BY <1>3, <2>2, <3>2 DEF Freshness
    <2>. QED BY <2>1, <2>2
<1>. QED BY <1>8, <1>9

LEMMA CopyStep ==
    ASSUME TypeOK, TypeOK', WritesOK, TimesOK, DueOK, CopyOK, [Next]_vars
    PROVE  CopyOK'
<1>. USE DEF vars, jobs, database, bucket, reader
<1>1. ASSUME NEW r \in Rows, Write(r) PROVE CopyOK'
    <2>1. UNCHANGED <<sync, cache>>
        BY <1>1 DEF Write
    <2>2. ASSUME NEW w \in written', w \notin written
          PROVE  /\ ~Due(w, sync.watermark) /\ ~Due(w, Freshness)
                 /\ \A s \in sync.segs : ~Due(w, s.at)
        <3>1. \A t \in Nat : t <= clock => ~Due(w, t)
            BY <1>1, <2>2, NewIsNotDue
        <3>2. Freshness \in Nat /\ Freshness <= clock
            BY TypesAre DEF TimesOK, Freshness
        <3>3. sync.watermark \in Nat /\ sync.watermark <= clock
            BY TypesAre DEF TimesOK
        <3>4. \A s \in sync.segs : s.at \in Nat /\ s.at <= clock
            BY SyncIs, TypesAre DEF TimesOK
        <3>. QED BY <3>1, <3>2, <3>3, <3>4
    <2>3. Freshness' = Freshness
        BY <2>1 DEF Freshness
    <2>4. CompleteThroughFreshness'
        <3>. SUFFICES ASSUME NEW w \in written', cache.tag # 0, w.stamp + Skew < Freshness
                      PROVE  cache.rows[w.row] >= w.stamp
            BY <2>1, <2>3 DEF CompleteThroughFreshness
        <3>1. w \in written
            BY <2>2 DEF Due
        <3>. QED BY <3>1 DEF CopyOK, CompleteThroughFreshness
    <2>. QED BY <2>1, <2>2, <2>4 DEF CopyOK
<1>2. CASE SyncStat \/ SyncFails
    <2>1. UNCHANGED <<written, cache>> /\ sync'.pc \notin {"hydrate", "replay", "apply"}
        BY <1>2, SyncStatIs, NoSyncIs DEF SyncStat, SyncFails
    <2>. QED BY <2>1 DEF CopyOK, CompleteThroughFreshness, Freshness
<1>3. CASE SyncFetch
    <2>1. UNCHANGED <<written, cache>>
        BY <1>3 DEF SyncFetch
    <2>2. /\ sync'.pc = "hydrate"
          /\ sync'.watermark = base.watermark /\ sync'.rows = base.rows
        BY <1>3, SyncFetchIs
    <2>3. \A w \in written : Due(w, base.watermark) => w.stamp <= base.rows[w.row]
        BY DEF DueOK
    <2>4. CompleteThroughFreshness'
        BY <2>1 DEF CopyOK, CompleteThroughFreshness, Freshness
    <2>. QED BY <2>1, <2>2, <2>3, <2>4 DEF CopyOK
<1>4. CASE HydrateSwap
    <2>1. written' = written /\ sync'.pc = "idle"
        BY <1>4, HydrateSwapIs, NoSyncIs DEF HydrateSwap
    <2>2. ASSUME NEW w \in written, w.stamp + Skew < Freshness'
          PROVE  cache'.rows[w.row] >= w.stamp
        <3>1. Due(w, IF cache'.applied # 0 THEN cache'.applied ELSE cache'.watermark)
            BY <2>2 DEF Due, Freshness
        <3>. QED BY <1>4, <3>1, HydrateSwapServes
    <2>. QED BY <2>1, <2>2 DEF CopyOK, CompleteThroughFreshness
<1>5. CASE SyncList
    <2>1. UNCHANGED <<written, cache>>
        BY <1>5 DEF SyncList
    <2>2. cache.tag # 0
        BY <1>5, TypesAre DEF SyncList, TimesOK
    <2>3. sync'.pc = "apply" /\ sync'.segs = NewSegments(cache.applied, cache.watermark)
        BY <1>5, SyncListIs
    <2>4. ASSUME NEW w \in written, NEW s \in sync'.segs, Due(w, s.at)
          PROVE  \/ w.stamp <= cache.rows[w.row] \/ w.stamp <= s.rows[w.row]
                 \/ Earlier(w, s.at, sync'.segs)
        BY <1>5, <2>3, <2>4, ListServes
    <2>5. CompleteThroughFreshness'
        BY <2>1 DEF CopyOK, CompleteThroughFreshness, Freshness
    <2>. QED BY <2>1, <2>2, <2>3, <2>4, <2>5 DEF CopyOK
<1>6. CASE Apply
    <2>1. written' = written /\ sync.pc = "apply"
        BY <1>6 DEF Apply
    <2>2. PICK s \in sync.segs :
            /\ \A t \in sync.segs : s.at <= t.at
            /\ cache' \in Copies /\ cache'.tag = cache.tag /\ cache'.applied = s.at
            /\ \A r \in Rows : cache.rows[r] <= cache'.rows[r] /\ s.rows[r] <= cache'.rows[r]
            /\ \/ sync' = NoSync
               \/ sync'.pc = "apply" /\ sync'.segs = sync.segs \ {s}
        BY <1>6, ApplyIs
    <2>3. s \in segments /\ \A t \in sync.segs : t.at \in Nat /\ t.rows \in RowStamps
        BY SyncIs, TypesAre
    <2>4. ASSUME NEW w \in written
          PROVE  /\ w.row \in Rows /\ w.stamp \in Nat
                 /\ cache.rows[w.row] \in Nat /\ cache'.rows[w.row] \in Nat
                 /\ \A t \in sync.segs : t.rows[w.row] \in Nat
        BY <2>2, <2>3, TypesAre DEF Copies
    <2>5. ASSUME NEW w \in written, w.stamp <= cache.rows[w.row] \/ w.stamp <= s.rows[w.row]
          PROVE  w.stamp <= cache'.rows[w.row]
        <3>1. cache.rows[w.row] <= cache'.rows[w.row] /\ s.rows[w.row] <= cache'.rows[w.row]
            BY <2>2, <2>4
        <3>2. s.rows[w.row] \in Nat
            BY <2>4
        <3>. QED BY <2>4, <2>5, <3>1, <3>2
    <2>6. ASSUME NEW w \in written, Due(w, s.at) PROVE w.stamp <= cache'.rows[w.row]
        <3>1. ~Earlier(w, s.at, sync.segs)
            BY <2>2, <2>3 DEF Earlier
        <3>. QED BY <2>1, <2>5, <2>6, <3>1 DEF CopyOK
    <2>7. Freshness' = s.at
        BY <2>2, <2>3 DEF Freshness, TimesOK
    <2>8. CompleteThroughFreshness'
        <3>. SUFFICES ASSUME NEW w \in written, w.stamp + Skew < s.at
                      PROVE  cache'.rows[w.row] >= w.stamp
            BY <2>1, <2>7 DEF CompleteThroughFreshness
        <3>. QED BY <2>6 DEF Due
    <2>9. CASE sync' = NoSync
        <3>1. sync'.pc = "idle"
            BY <2>9, NoSyncIs
        <3>. QED BY <2>1, <2>8, <3>1 DEF CopyOK
    <2>10. CASE sync'.pc = "apply" /\ sync'.segs = sync.segs \ {s}
        <3>1. ASSUME NEW w \in written, NEW t \in sync.segs, t # s, Due(w, t.at)
              PROVE  \/ w.stamp <= cache'.rows[w.row] \/ w.stamp <= t.rows[w.row]
                     \/ Earlier(w, t.at, sync.segs \ {s})
            <4>1. CASE w.stamp <= cache.rows[w.row]
                BY <2>5, <4>1
            <4>2. ASSUME NEW u \in sync.segs, u.at < t.at, Due(w, u.at)
                  PROVE  w.stamp <= cache'.rows[w.row] \/ Earlier(w, t.at, sync.segs \ {s})
                BY <2>6, <4>2 DEF Earlier
            <4>3. \/ w.stamp <= cache.rows[w.row] \/ w.stamp <= t.rows[w.row]
                  \/ Earlier(w, t.at, sync.segs)
                BY <2>1, <3>1 DEF CopyOK
            <4>. QED BY <4>1, <4>2, <4>3 DEF Earlier
        <3>2. cache'.tag # 0
            BY <2>1, <2>2 DEF CopyOK
        <3>. QED BY <2>1, <2>8, <2>10, <3>1, <3>2 DEF CopyOK
    <2>. QED BY <2>2, <2>9, <2>10
<1>7. CASE HydrateList
    <2>1. UNCHANGED <<written, cache>> /\ sync.pc = "hydrate"
        BY <1>7 DEF HydrateList
    <2>2. /\ sync'.pc = "replay" /\ sync'.watermark = sync.watermark /\ sync'.rows = sync.rows
          /\ sync'.segs = NewSegments(0, sync.watermark)
        BY <1>7, HydrateListIs
    <2>3. ASSUME NEW w \in written, NEW s \in sync'.segs, Due(w, s.at)
          PROVE  \/ w.stamp <= sync.rows[w.row] \/ w.stamp <= s.rows[w.row]
                 \/ Earlier(w, s.at, sync'.segs)
        BY <1>7, <2>2, <2>3, HydrateListServes
    <2>4. \A w \in written : Due(w, sync.watermark) => w.stamp <= sync.rows[w.row]
        BY <2>1 DEF CopyOK
    <2>5. CompleteThroughFreshness'
        BY <2>1 DEF CopyOK, CompleteThroughFreshness, Freshness
    <2>. QED BY <2>1, <2>2, <2>3, <2>4, <2>5 DEF CopyOK
<1>8. CASE UNCHANGED <<written, sync, cache>>
    BY <1>8 DEF CopyOK, CompleteThroughFreshness, Freshness
<1>. QED BY <1>1, <1>2, <1>3, <1>4, <1>5, <1>6, <1>7, <1>8
         DEF Next, DeltaSteps, RollupSteps, SyncSteps, Tick, Appear, DeltaStart, DeltaScan,
             DeltaWrite, DeltaFails, RollupStart, RollupScan, RollupPublish, RollupFails

-----------------------------------------------------------------------------
(* Nothing is served that was not written. *)

LEMMA StampsStep ==
    ASSUME TypeOK, StampsOK, [Next]_vars
    PROVE  StampsOK'
<1>. USE DEF vars, jobs, database, bucket, reader
<1>. DEFINE Kept(w) == \A r \in Rows : w[r] = 0 \/ [row |-> r, stamp |-> w[r]] \in written'
<1>1. ASSUME NEW r \in Rows, Write(r) PROVE StampsOK'
    <2>1. /\ UNCHANGED <<source, delta, rollup, segments, base, sync, cache>>
          /\ written' = written \cup {[row |-> r, stamp |-> clock]}
          /\ writing'[r] = clock /\ \A x \in Rows : x # r => writing'[x] = writing[x]
        BY <1>1 DEF Write, TypeOK, RowStamps
    <2>2. Kept(writing')
        BY <2>1 DEF StampsOK, Stamped
    <2>3. ASSUME NEW rows, Stamped(rows) PROVE Kept(rows)
        BY <2>1, <2>3 DEF Stamped
    <2>. QED BY <2>1, <2>2, <2>3 DEF StampsOK, Stamped
<1>2. ASSUME NEW r \in Rows, Appear(r) PROVE StampsOK'
    <2>1. /\ UNCHANGED <<written, delta, rollup, segments, base, sync, cache>>
          /\ source'[r] = writing[r] /\ \A x \in Rows : x # r => source'[x] = source[x]
          /\ writing'[r] = 0 /\ \A x \in Rows : x # r => writing'[x] = writing[x]
        BY <1>2 DEF Appear, TypeOK, RowStamps
    <2>2. Stamped(source') /\ Stamped(writing')
        BY <2>1 DEF StampsOK, Stamped
    <2>. QED BY <2>1, <2>2 DEF StampsOK, Stamped
<1>3. Stamped(NoRows)
    BY Zeros DEF Stamped
<1>4. ASSUME NEW d \in Deltas, DeltaStart(d) \/ DeltaScan(d) \/ DeltaFails(d) PROVE StampsOK'
    <2>1. UNCHANGED <<source, writing, written, rollup, segments, base, sync, cache>>
        BY <1>4 DEF DeltaStart, DeltaScan, DeltaFails
    <2>2. \A e \in Deltas : e # d => delta'[e] = delta[e]
        BY <1>4, DeltaStartIs, DeltaScanIs, DeltaEndIs DEF DeltaFails
    <2>3. Stamped(delta'[d].rows)
        <3>1. CASE DeltaStart(d)
            BY <1>3, <3>1, DeltaStartIs
        <3>2. CASE DeltaScan(d)
            BY <3>2, DeltaScanIs DEF StampsOK, Stamped
        <3>3. CASE DeltaFails(d)
            BY <1>3, <3>3, DeltaEndIs, Zeros DEF DeltaFails
        <3>. QED BY <1>4, <3>1, <3>2, <3>3
    <2>. QED BY <2>1, <2>2, <2>3 DEF StampsOK, Stamped
<1>5. ASSUME NEW d \in Deltas, DeltaWrite(d) PROVE StampsOK'
    <2>1. UNCHANGED <<source, writing, written, rollup, base, sync, cache>>
        BY <1>5 DEF DeltaWrite
    <2>2. /\ delta'[d].rows = NoRows /\ \A e \in Deltas : e # d => delta'[e] = delta[e]
          /\ segments' = segments \/ segments' = segments \cup {Found(d)}
        BY <1>5, DeltaWriteIs, Zeros
    <2>3. Stamped(Found(d).rows)
        BY DEF StampsOK, Found
    <2>. QED BY <1>3, <2>1, <2>2, <2>3 DEF StampsOK, Stamped
<1>6. CASE RollupStart \/ RollupScan \/ RollupFails
    <2>1. UNCHANGED <<source, writing, written, delta, segments, base, sync, cache>>
        BY <1>6 DEF RollupStart, RollupScan, RollupFails
    <2>2. Stamped(rollup'.rows)
        <3>1. CASE RollupStart \/ RollupFails
            BY <1>3, <3>1, RollupStartIs, Zeros DEF RollupFails
        <3>2. CASE RollupScan
            BY <3>2, RollupScanIs DEF StampsOK, Stamped
        <3>. QED BY <1>6, <3>1, <3>2
    <2>. QED BY <2>1, <2>2 DEF StampsOK, Stamped
<1>7. CASE RollupPublish
    <2>1. UNCHANGED <<source, writing, written, delta, segments, sync, cache>>
        BY <1>7 DEF RollupPublish
    <2>2. base'.rows = rollup.rows /\ rollup'.rows = NoRows
        BY <1>7, RollupPublishIs, Zeros
    <2>. QED BY <1>3, <2>1, <2>2 DEF StampsOK, Stamped
<1>8. CASE SyncStat \/ SyncFetch \/ HydrateList \/ SyncList \/ SyncFails
    <2>1. UNCHANGED <<source, writing, written, delta, rollup, segments, base, cache>>
        BY <1>8 DEF SyncStat, SyncFetch, HydrateList, SyncList, SyncFails
    <2>2. sync'.rows \in {NoRows, base.rows, sync.rows}
        BY <1>8, SyncStatIs, SyncFetchIs, HydrateListIs, SyncListIs, NoSyncIs DEF SyncFails
    <2>. QED BY <1>3, <2>1, <2>2 DEF StampsOK, Stamped
<1>9. CASE HydrateSwap
    <2>1. UNCHANGED <<source, writing, written, delta, rollup, segments, base>>
        BY <1>9 DEF HydrateSwap
    <2>2. sync'.rows = NoRows
        BY <1>9, HydrateSwapIs, NoSyncIs
    <2>3. \A r \in Rows :
            cache'.rows[r] = sync.rows[r] \/ \E s \in segments : cache'.rows[r] = s.rows[r]
        BY <1>9, HydrateSwapIs, SyncIs
    <2>4. Stamped(cache'.rows)
        BY <2>3 DEF StampsOK, Stamped
    <2>. QED BY <1>3, <2>1, <2>2, <2>4 DEF StampsOK, Stamped
<1>10. CASE Apply
    <2>1. UNCHANGED <<source, writing, written, delta, rollup, segments, base>>
        BY <1>10 DEF Apply
    <2>2. sync'.rows = NoRows \/ sync'.rows = sync.rows
        BY <1>10, ApplyIs, NoSyncIs
    <2>3. \A r \in Rows :
            cache'.rows[r] = cache.rows[r] \/ \E s \in segments : cache'.rows[r] = s.rows[r]
        BY <1>10, ApplyIs, SyncIs
    <2>4. Stamped(cache'.rows)
        BY <2>3 DEF StampsOK, Stamped
    <2>. QED BY <1>3, <2>1, <2>2, <2>4 DEF StampsOK, Stamped
<1>11. CASE UNCHANGED <<source, writing, written, delta, rollup, segments, base, sync, cache>>
    BY <1>11 DEF StampsOK, Stamped
<1>. QED BY <1>1, <1>2, <1>4, <1>5, <1>6, <1>7, <1>8, <1>9, <1>10, <1>11
         DEF Next, DeltaSteps, RollupSteps, SyncSteps, Tick

-----------------------------------------------------------------------------
(* The invariant, and what it shows. *)

LEMMA InitInv == Init => Inv
<1>. SUFFICES ASSUME Init PROVE Inv
    OBVIOUS
<1>1. /\ clock = 1 /\ source = NoRows /\ writing = NoRows /\ written = {}
      /\ delta = [d \in Deltas |-> NoJob] /\ rollup = NoJob /\ covered = 1
      /\ segments = {} /\ base = [tag |-> 1, watermark |-> 1, rows |-> NoRows]
      /\ sync = NoSync /\ cache = [tag |-> 0, watermark |-> 0, applied |-> 0, rows |-> NoRows]
      /\ faults = 0
    BY DEF Init
<1>2. 1 \in 0 .. MaxRollups /\ 0 \in 0 .. MaxRollups /\ 0 \in 0 .. MaxFaults
    BY Bounds
<1>3. TypeOK
    <2>1. base \in Bases
        BY <1>1, <1>2, Zeros, Zenon DEF Bases
    <2>2. cache \in Copies
        BY <1>1, <1>2, Zeros, Zenon DEF Copies
    <2>3. sync \in Syncs(segments) /\ sync.pc = "idle"
        BY <1>1, NoSyncIs
    <2>. QED BY <1>1, <1>2, <2>1, <2>2, <2>3, Zeros DEF TypeOK, Bases, Copies, Syncs
<1>4. WritesOK
    BY <1>1, Zeros DEF WritesOK
<1>5. TimesOK
    BY <1>1, Zeros, NoSyncIs DEF TimesOK
<1>6. RowsOK
    BY <1>1, Zeros DEF RowsOK, Scanned
<1>7. ServedOK
    BY <1>1, Zeros, NoSyncIs DEF ServedOK
<1>8. DueOK
    BY <1>1 DEF DueOK
<1>9. CopyOK
    BY <1>1, NoSyncIs DEF CopyOK, CompleteThroughFreshness
<1>10. StampsOK
    BY <1>1, Zeros, NoSyncIs DEF StampsOK, Stamped
<1>. QED BY <1>3, <1>4, <1>5, <1>6, <1>7, <1>8, <1>9, <1>10 DEF Inv

LEMMA InvStep == Inv /\ [Next]_vars => Inv'
<1>. SUFFICES ASSUME Inv, [Next]_vars PROVE Inv'
    OBVIOUS
<1>1. TypeOK /\ WritesOK /\ TimesOK /\ RowsOK /\ ServedOK /\ DueOK /\ CopyOK /\ StampsOK
    BY DEF Inv
<1>2. TypeOK'
    BY <1>1, TypeStep
<1>3. WritesOK' /\ TimesOK'
    BY <1>1, <1>2, WritesStep, TimesStep
<1>4. RowsOK' /\ ServedOK'
    BY <1>1, <1>2, RowsStep, ServedStep
<1>5. DueOK' /\ CopyOK' /\ StampsOK'
    BY <1>1, <1>2, DueStep, CopyStep, StampsStep
<1>. QED BY <1>2, <1>3, <1>4, <1>5 DEF Inv

LEMMA Inductive == Spec => []Inv
    BY InitInv, InvStep, PTL DEF Spec

\* The variables have their types; in particular no two segments have one name, which is
\* the second a delta job started at (snapshot.Delta).
THEOREM TypeCorrect == Spec => []TypeOK
<1>1. Inv => TypeOK
    BY DEF Inv
<1>. QED BY <1>1, Inductive, PTL

\* Cache.Freshness promises what it says, whatever deltas overlap, fail or are late,
\* whenever a rollup publishes and wherever a sync is caught by it: an update stamped a
\* Skew before the freshness of the copy that is served is in that copy, or a later one
\* of its row is.
THEOREM ServesWhatWasDue == Spec => []CompleteThroughFreshness
<1>1. Inv => CompleteThroughFreshness
    BY DEF Inv, CopyOK
<1>. QED BY <1>1, Inductive, PTL

\* No row that was served goes back, though a new base may have been scanned before the
\* segment that brought the row was written.
LEMMA RowsStay ==
    ASSUME TypeOK, ServedOK, [Next]_vars, NEW r \in Rows
    PROVE  cache'.rows[r] >= cache.rows[r]
<1>1. cache.rows[r] \in Nat
    BY TypesAre
<1>2. CASE HydrateSwap
    <2>1. /\ sync.rows[r] <= cache'.rows[r] /\ cache' \in Copies
          /\ \A s \in sync.segs : s.rows[r] <= cache'.rows[r]
        BY <1>2, HydrateSwapIs
    <2>2. cache'.rows[r] \in Nat /\ sync.rows[r] \in Nat
        BY <2>1, SyncIs, TypesAre DEF Copies
    <2>3. CASE cache.rows[r] <= sync.rows[r]
        BY <1>1, <2>1, <2>2, <2>3
    <2>4. ASSUME NEW s \in sync.segs, cache.rows[r] <= s.rows[r]
          PROVE  cache'.rows[r] >= cache.rows[r]
        <3>1. s.rows[r] \in Nat /\ s.rows[r] <= cache'.rows[r]
            BY <2>1, SyncIs, TypesAre
        <3>. QED BY <1>1, <2>2, <2>4, <3>1
    <2>. QED BY <1>2, <2>3, <2>4 DEF ServedOK, HydrateSwap
<1>3. CASE Apply
    BY <1>1, <1>3, ApplyIs
<1>4. CASE cache' = cache
    BY <1>1, <1>4
<1>. QED BY <1>2, <1>3, <1>4
         DEF Next, DeltaSteps, RollupSteps, SyncSteps, Tick, Write, Appear, DeltaStart,
             DeltaScan, DeltaWrite, DeltaFails, RollupStart, RollupScan, RollupPublish,
             RollupFails, SyncStat, SyncFetch, HydrateList, SyncList, SyncFails, vars, reader

\* The point through which a copy is complete; none before there is one.
Through == IF cache.tag = 0 THEN 0 ELSE Freshness

\* A refresh serves updates that were made, later ones than before, and all that were
\* due at the new Freshness.
LEMMA RefreshServes ==
    ASSUME Inv, Inv', [Next]_vars, UNCHANGED <<clock, written>>
    PROVE  Rep!Serve
<1>1. TypeOK /\ TypeOK' /\ ServedOK /\ TimesOK' /\ StampsOK' /\ CompleteThroughFreshness'
    BY DEF Inv, CopyOK
<1>2. /\ cache'.rows \in RowStamps /\ \A r \in Rows : cache'.rows[r] \in Nat
      /\ \A r \in Rows : cache.rows[r] \in Nat
    <2>1. cache.rows \in RowStamps /\ cache'.rows \in RowStamps
        BY <1>1 DEF TypeOK
    <2>. QED BY <2>1 DEF RowStamps, Times
<1>3. cache'.rows \in [Rows -> Nat]
    BY <1>2 DEF RowStamps, Times
<1>4. ASSUME NEW r \in Rows PROVE cache'.rows[r] \in Rep!Ahead(r)
    <2>1. cache'.rows[r] >= cache.rows[r]
        BY <1>1, RowsStay
    <2>2. cache'.rows[r] = 0 \/ [row |-> r, stamp |-> cache'.rows[r]] \in written
        BY <1>1 DEF StampsOK, Stamped
    <2>3. CASE cache'.rows[r] = 0
        BY <1>2, <2>1, <2>3 DEF Rep!Ahead
    <2>4. CASE [row |-> r, stamp |-> cache'.rows[r]] \in written
        BY <2>1, <2>4 DEF Rep!Ahead
    <2>. QED BY <2>2, <2>3, <2>4
<1>5. Through' \in 0 .. clock
    <2>1. /\ cache'.applied \in Nat /\ cache'.watermark \in Nat /\ clock \in Nat
          /\ cache'.applied <= clock /\ cache'.watermark <= clock
        BY <1>1 DEF TypeOK, TimesOK, Times
    <2>. QED BY <2>1 DEF Through, Freshness
<1>6. ASSUME NEW w \in written, w.stamp + Skew < Through' PROVE cache'.rows[w.row] >= w.stamp
    <2>1. w.stamp \in Nat
        BY <1>1, TypesAre
    <2>2. cache'.tag # 0 /\ Through' = Freshness'
        BY <1>6, <2>1, Bounds DEF Through
    <2>. QED BY <1>1, <1>6, <2>2 DEF CompleteThroughFreshness
<1>. QED BY <1>3, <1>4, <1>5, <1>6 DEF Rep!Serve, Through

\* The delta and rollup jobs and Cache's sync, hydrate and replay together implement a
\* replica (Replica): what is queried holds nothing that was never written, never takes
\* a row back, and is complete, less a Skew, through the Freshness it states.
THEOREM ImplementsReplica == Spec => ServesAReplica
<1>1. Init => Rep!Init
    BY Zeros DEF Init, Rep!Init, NoRows
<1>2. Inv /\ Inv' /\ [Next]_vars => [Rep!Next]_(Rep!vars)
    <2>. SUFFICES ASSUME Inv, Inv', [Next]_vars
                  PROVE  Rep!Next \/ UNCHANGED Rep!vars
        OBVIOUS
    <2>. USE DEF vars, jobs, database, bucket, reader
    <2>1. CASE Tick
        BY <2>1 DEF Tick, Rep!Next, Rep!Pass, Freshness
    <2>2. ASSUME NEW r \in Rows, Write(r) PROVE Rep!Next
        <3>1. Rep!Update(r)
            BY <2>2 DEF Write, Rep!Update, Freshness
        <3>. QED BY <3>1 DEF Rep!Next
    <2>3. CASE UNCHANGED <<clock, written>>
        BY <2>3, RefreshServes DEF Rep!Next
    <2>. QED BY <2>1, <2>2, <2>3
             DEF Next, DeltaSteps, RollupSteps, SyncSteps, Appear, DeltaStart, DeltaScan,
                 DeltaWrite, DeltaFails, RollupStart, RollupScan, RollupPublish, RollupFails,
                 SyncStat, SyncFetch, HydrateList, HydrateSwap, SyncList, Apply, SyncFails
<1>. QED BY <1>1, <1>2, Inductive, PTL DEF Spec, ServesAReplica, Rep!Spec

===============================================================================
