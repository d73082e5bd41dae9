---------------------------- MODULE OutputSyncProofs ----------------------------
(***************************************************************************)
(* The published output is a prefix of the captured output, and the object *)
(* only grows at its end: proved for any set of callers, any file size and *)
(* any number of crashes and lost replies.                                 *)
(*                                                                         *)
(* The argument: a part named o holds the bytes that follow position o,    *)
(* because its name is the offset its writer streamed from; and a          *)
(* generation of main that a call has seen pins the size it has seen, so a *)
(* compose whose precondition holds appends a part named by the size main  *)
(* still has. It does not matter who wrote the part.                       *)
(***************************************************************************)
EXTENDS OutputSync, SequenceTheorems, TLAPS

\* Bytes s follow position o of the capture file.
Follows(o, s) == s = Bytes(o, o + Len(s)) /\ o + Len(s) <= capture

PartsFollowTheirNames ==
    \A o \in Offsets : parts[o] # NoPart => Follows(o, parts[o])

StreamedFollowsSize ==
    \A s \in Syncers : pc[s] = "close" => Follows(seen[s].size, data[s])

GenerationPinsSize ==
    /\ gen = 0 => main = <<>>
    /\ \A s \in Syncers :
        /\ seen[s].gen <= gen
        /\ seen[s].gen = gen => seen[s].size = Len(main)
        /\ seen[s].size <= Len(main)

IndInv ==
    /\ TypeOK
    /\ PublishedIsPrefix
    /\ PartsFollowTheirNames
    /\ StreamedFollowsSize
    /\ GenerationPinsSize

-----------------------------------------------------------------------------
\* A run of positions is a sequence of naturals as long as the run.
LEMMA BytesSeq ==
    ASSUME NEW from \in Nat, NEW to \in Nat
    PROVE  /\ Bytes(from, to) \in Seq(Nat)
           /\ Len(Bytes(from, to)) = IF from <= to THEN to - from ELSE 0
           /\ \A i \in 1 .. (to - from) : Bytes(from, to)[i] = from + i
<1>1. CASE from <= to
    BY <1>1 DEF Bytes
<1>2. CASE ~(from <= to)
    <2>1. 1 .. (to - from) = {}
        BY <1>2
    <2>2. Bytes(from, to) = <<>>
        BY <2>1 DEF Bytes
    <2>. QED BY <1>2, <2>1, <2>2
<1>. QED BY <1>1, <1>2

\* A run that ends after it starts is not empty.
LEMMA BytesNonEmpty ==
    ASSUME NEW from \in Nat, NEW to \in Nat, from < to
    PROVE  Bytes(from, to) # <<>>
<1>1. Len(Bytes(from, to)) = to - from
    BY BytesSeq
<1>2. to - from # 0
    OBVIOUS
<1>3. Len(<<>>) = 0
    OBVIOUS
<1>. QED BY <1>1, <1>2, <1>3

\* The same for a run from the start of the file.
LEMMA BytesFromZero ==
    ASSUME NEW n \in Nat
    PROVE  /\ Bytes(0, n) \in Seq(Nat)
           /\ Len(Bytes(0, n)) = n
           /\ \A i \in 1 .. n : Bytes(0, n)[i] = i
<1>1. Bytes(0, n) = [i \in 1 .. n |-> i]
    BY DEF Bytes
<1>. QED BY <1>1

\* A sequence made of the positions 1..n, then n+1..n+k, has the positions
\* 1..n+k.
LEMMA JoinRuns ==
    ASSUME NEW n \in Nat, NEW k \in Nat,
           NEW a \in Seq(Nat), Len(a) = n, \A i \in 1 .. n : a[i] = i,
           NEW b \in Seq(Nat), Len(b) = k, \A i \in 1 .. k : b[i] = n + i,
           NEW c \in Seq(Nat), Len(c) = n + k, \A i \in 1 .. (n + k) : c[i] = i
    PROVE  a \o b = c
<1>1. /\ a \o b \in Seq(Nat)
      /\ Len(a \o b) = n + k
      /\ \A i \in 1 .. (n + k) : (a \o b)[i] = IF i <= n THEN a[i] ELSE b[i - n]
    BY ConcatProperties, SMTT(30)
<1>2. ASSUME NEW i \in 1 .. (n + k)
      PROVE  (a \o b)[i] = c[i]
    <2>1. CASE i <= n
        BY <1>1, <2>1
    <2>2. CASE ~(i <= n)
        <3>1. i - n \in 1 .. k
            BY <2>2
        <3>. QED BY <1>1, <2>2, <3>1
    <2>. QED BY <2>1, <2>2
<1>. QED BY <1>1, <1>2, SeqEqual

\* Adjacent runs of positions join.
LEMMA BytesConcat ==
    ASSUME NEW n \in Nat, NEW k \in Nat
    PROVE  Bytes(0, n) \o Bytes(n, n + k) = Bytes(0, n + k)
<1>1. /\ Bytes(0, n) \in Seq(Nat) /\ Len(Bytes(0, n)) = n
      /\ \A i \in 1 .. n : Bytes(0, n)[i] = i
    BY BytesFromZero
<1>2. /\ Bytes(n, n + k) \in Seq(Nat) /\ Len(Bytes(n, n + k)) = k
      /\ \A i \in 1 .. k : Bytes(n, n + k)[i] = n + i
    BY BytesSeq, (n + k) - n = k, n + k \in Nat
<1>3. /\ Bytes(0, n + k) \in Seq(Nat) /\ Len(Bytes(0, n + k)) = n + k
      /\ \A i \in 1 .. (n + k) : Bytes(0, n + k)[i] = i
    BY BytesFromZero, n + k \in Nat
<1>. QED BY <1>1, <1>2, <1>3, JoinRuns, ZenonT(60)

-----------------------------------------------------------------------------
USE OutputSyncAssumption
USE DEF Offsets, Verdicts, RecStates, PCs

\* What a call streams follows the size it has seen.
LEMMA StreamFollows ==
    ASSUME TypeOK, PublishedIsPrefix, GenerationPinsSize, NEW s \in Syncers
    PROVE  /\ Bytes(seen[s].size, capture) \in Seq(Nat)
           /\ Follows(seen[s].size, Bytes(seen[s].size, capture))
<1>1. /\ seen[s].size \in Nat /\ capture \in Nat
      /\ seen[s].size <= capture
    BY DEF TypeOK, PublishedIsPrefix, GenerationPinsSize
<1>2. /\ Bytes(seen[s].size, capture) \in Seq(Nat)
      /\ Len(Bytes(seen[s].size, capture)) = capture - seen[s].size
    BY <1>1, BytesSeq
<1>3. seen[s].size + (capture - seen[s].size) = capture
    BY <1>1
<1>. QED BY <1>1, <1>2, <1>3 DEF Follows

\* A compose whose precondition holds extends main to a longer prefix.
LEMMA ComposeExtends ==
    ASSUME IndInv, NEW s \in Syncers, ComposeApplies(s)
    PROVE  /\ main' \in Seq(Nat)
           /\ main' = Bytes(0, Len(main'))
           /\ Len(main) <= Len(main') /\ Len(main') <= capture
           /\ Len(main') = seen[s].size + Len(parts[seen[s].size])
<1>. DEFINE o == seen[s].size
<1>1. /\ o \in Offsets /\ o = Len(main) /\ o \in Nat
      /\ main \in Seq(Nat) /\ main = Bytes(0, o)
    BY DEF IndInv, TypeOK, PublishedIsPrefix, GenerationPinsSize,
           ComposeApplies, Precondition
<1>2. parts[o] \in Seq(Nat) /\ parts[o] = Bytes(o, o + Len(parts[o]))
      /\ o + Len(parts[o]) <= capture /\ Len(parts[o]) \in Nat
    BY <1>1 DEF IndInv, TypeOK, PartsFollowTheirNames, Follows, ComposeApplies
<1>3. main' = main \o parts[o]
    <2>1. CASE seen[s].gen = 0
        <3>1. main = <<>>
            BY <2>1 DEF IndInv, GenerationPinsSize, ComposeApplies, Precondition
        <3>. QED BY <1>2, <2>1, <3>1, ConcatEmptySeq DEF ComposeApplies, Composed
    <2>2. CASE seen[s].gen # 0
        BY <2>2 DEF ComposeApplies, Composed
    <2>. QED BY <2>1, <2>2
<1>4. main' = Bytes(0, o + Len(parts[o]))
    BY <1>1, <1>2, <1>3, BytesConcat
<1>5. o + Len(parts[o]) \in Nat
    BY <1>1, <1>2
<1>6. main' \in Seq(Nat) /\ Len(main') = o + Len(parts[o])
    BY <1>4, <1>5, BytesFromZero
<1>7. main' = Bytes(0, Len(main'))
    BY <1>4, <1>6
<1>8. Len(main) <= Len(main')
    <2>. DEFINE k == Len(parts[o])
    <2>1. o \in Nat /\ k \in Nat /\ Len(main) = o /\ Len(main') = o + k
        BY <1>1, <1>2, <1>6
    <2>. HIDE DEF o, k
    <2>. QED BY <2>1
<1>9. Len(main') <= capture
    BY <1>2, <1>6
<1>. QED BY <1>6, <1>7, <1>8, <1>9

LEMMA InitInv == Init => IndInv
<1>. SUFFICES ASSUME Init PROVE IndInv
    OBVIOUS
<1>. QED
    BY DEF Init, IndInv, TypeOK, PublishedIsPrefix, PartsFollowTheirNames,
           StreamedFollowsSize, GenerationPinsSize, Bytes, NothingSeen

LEMMA NextInv == IndInv /\ [Next]_vars => IndInv'
<1>. SUFFICES ASSUME IndInv, [Next]_vars PROVE IndInv'
    OBVIOUS
<1>. USE DEF IndInv, env, gcs
<1>1. ASSUME WorkerWrite PROVE IndInv'
    BY <1>1 DEF WorkerWrite, TypeOK,
               PublishedIsPrefix, PartsFollowTheirNames, StreamedFollowsSize,
               GenerationPinsSize, Follows
<1>2. ASSUME WorkerFinish PROVE IndInv'
    BY <1>2 DEF WorkerFinish, TypeOK,
               PublishedIsPrefix, PartsFollowTheirNames, StreamedFollowsSize,
               GenerationPinsSize, Follows
<1>3. ASSUME NEW s \in Syncers, FetchStatus(s) PROVE IndInv'
    <2>1. TypeOK'
        BY <1>3 DEF FetchStatus, TypeOK, NothingSeen, ReportedTotal
    <2>2. GenerationPinsSize'
        BY <1>3 DEF FetchStatus, TypeOK, GenerationPinsSize, NothingSeen
    <2>3. PublishedIsPrefix' /\ PartsFollowTheirNames' /\ StreamedFollowsSize'
        BY <1>3 DEF FetchStatus, TypeOK, PublishedIsPrefix, Follows,
                   PartsFollowTheirNames, StreamedFollowsSize
    <2>. QED BY <2>1, <2>2, <2>3
<1>4. ASSUME NEW s \in Syncers, StatMain(s) PROVE IndInv'
    <2>1. TypeOK'
        <3>1. Len(main) \in Offsets
            BY DEF TypeOK, PublishedIsPrefix
        <3>2. pc' \in [Syncers -> PCs]
            BY <1>4 DEF StatMain, TypeOK
        <3>. QED BY <1>4, <3>1, <3>2 DEF StatMain, TypeOK
    <2>2. GenerationPinsSize'
        BY <1>4 DEF StatMain, TypeOK, GenerationPinsSize
    <2>3. PublishedIsPrefix' /\ PartsFollowTheirNames' /\ StreamedFollowsSize'
        BY <1>4 DEF StatMain, TypeOK, PublishedIsPrefix, Follows,
                   PartsFollowTheirNames, StreamedFollowsSize
    <2>. QED BY <2>1, <2>2, <2>3
<1>5. ASSUME NEW s \in Syncers, Stream(s) PROVE IndInv'
    <2>1. TypeOK'
        BY <1>5, StreamFollows DEF Stream, TypeOK
    <2>2. StreamedFollowsSize'
        BY <1>5, StreamFollows DEF Stream, TypeOK, StreamedFollowsSize, Follows
    <2>3. PublishedIsPrefix' /\ PartsFollowTheirNames' /\ GenerationPinsSize'
        BY <1>5 DEF Stream, PublishedIsPrefix, PartsFollowTheirNames, Follows,
                   GenerationPinsSize
    <2>. QED BY <2>1, <2>2, <2>3
<1>6. ASSUME NEW s \in Syncers, ClosePart(s) PROVE IndInv'
    <2>1. TypeOK'
        <3>1. pc' \in [Syncers -> PCs]
            <4>1. PICK to \in PCs : pc' = [pc EXCEPT ![s] = to]
                BY <1>6, Zenon DEF ClosePart
            <4>. QED BY <4>1 DEF TypeOK
        <3>2. data' \in [Syncers -> Seq(Nat)]
            BY <1>6 DEF ClosePart, TypeOK, Drained
        <3>3. parts' \in [Offsets -> Seq(Nat) \cup {NoPart}]
            <4>1. data[s] \in Seq(Nat)
                BY DEF TypeOK
            <4>2. \/ parts' = [parts EXCEPT ![seen[s].size] = data[s]]
                  \/ parts' = parts
                BY <1>6, Zenon DEF ClosePart
            <4>. QED BY <4>1, <4>2 DEF TypeOK
        <3>. QED BY <1>6, <3>1, <3>2, <3>3 DEF ClosePart, TypeOK
    <2>2. PartsFollowTheirNames'
        BY <1>6, ZenonT(60) DEF ClosePart, TypeOK, PartsFollowTheirNames, StreamedFollowsSize,
                   Follows
    <2>3. StreamedFollowsSize'
        BY <1>6 DEF ClosePart, TypeOK, Drained, StreamedFollowsSize, Follows
    <2>4. PublishedIsPrefix' /\ GenerationPinsSize'
        BY <1>6 DEF ClosePart, PublishedIsPrefix, GenerationPinsSize
    <2>. QED BY <2>1, <2>2, <2>3, <2>4
<1>7. ASSUME NEW s \in Syncers, ClosePartReplyLost(s) PROVE IndInv'
    <2>1. TypeOK'
        BY <1>7 DEF ClosePartReplyLost, TypeOK, Drained, Fault
    <2>2. PartsFollowTheirNames'
        BY <1>7 DEF ClosePartReplyLost, TypeOK, PartsFollowTheirNames, StreamedFollowsSize,
                   Follows
    <2>3. StreamedFollowsSize'
        BY <1>7 DEF ClosePartReplyLost, TypeOK, Drained, StreamedFollowsSize, Follows
    <2>4. PublishedIsPrefix' /\ GenerationPinsSize'
        BY <1>7 DEF ClosePartReplyLost, PublishedIsPrefix, GenerationPinsSize
    <2>. QED BY <2>1, <2>2, <2>3, <2>4
<1>8. ASSUME NEW s \in Syncers, Compose(s) PROVE IndInv'
    <2>1. /\ main' \in Seq(Nat) /\ main' = Bytes(0, Len(main'))
          /\ Len(main) <= Len(main') /\ Len(main') <= capture
        BY <1>8, ComposeExtends DEF Compose
    <2>2. TypeOK'
        BY <1>8, <2>1 DEF Compose, ComposeApplies, TypeOK
    <2>3. GenerationPinsSize'
        <3>1. gen \in Nat /\ gen' = gen + 1 /\ seen' = seen
            BY <1>8 DEF Compose, ComposeApplies, TypeOK
        <3>2. ASSUME NEW x \in Syncers
              PROVE  /\ seen[x].gen <= gen' /\ seen[x].gen # gen'
                     /\ seen[x].size <= Len(main')
            <4>1. /\ seen[x].gen \in Nat /\ seen[x].gen <= gen
                  /\ seen[x].size \in Nat /\ seen[x].size <= Len(main)
                BY DEF TypeOK, GenerationPinsSize
            <4>2. Len(main) \in Nat /\ Len(main') \in Nat
                BY <2>1 DEF TypeOK
            <4>. QED BY <2>1, <3>1, <4>1, <4>2
        <3>. QED BY <3>1, <3>2 DEF GenerationPinsSize
    <2>4. PublishedIsPrefix'
        BY <1>8, <2>1 DEF Compose, PublishedIsPrefix
    <2>5. PartsFollowTheirNames' /\ StreamedFollowsSize'
        BY <1>8 DEF Compose, TypeOK, PartsFollowTheirNames, StreamedFollowsSize,
                   Follows
    <2>. QED BY <2>2, <2>3, <2>4, <2>5
<1>9. ASSUME NEW s \in Syncers, ComposeReplyLost(s) PROVE IndInv'
    <2>1. /\ main' \in Seq(Nat) /\ main' = Bytes(0, Len(main'))
          /\ Len(main) <= Len(main') /\ Len(main') <= capture
        BY <1>9, ComposeExtends DEF ComposeReplyLost
    <2>2. TypeOK'
        BY <1>9, <2>1 DEF ComposeReplyLost, ComposeApplies, TypeOK, Fault
    <2>3. GenerationPinsSize'
        <3>1. gen \in Nat /\ gen' = gen + 1 /\ seen' = seen
            BY <1>9 DEF ComposeReplyLost, ComposeApplies, TypeOK
        <3>2. ASSUME NEW x \in Syncers
              PROVE  /\ seen[x].gen <= gen' /\ seen[x].gen # gen'
                     /\ seen[x].size <= Len(main')
            <4>1. /\ seen[x].gen \in Nat /\ seen[x].gen <= gen
                  /\ seen[x].size \in Nat /\ seen[x].size <= Len(main)
                BY DEF TypeOK, GenerationPinsSize
            <4>2. Len(main) \in Nat /\ Len(main') \in Nat
                BY <2>1 DEF TypeOK
            <4>. QED BY <2>1, <3>1, <4>1, <4>2
        <3>. QED BY <3>1, <3>2 DEF GenerationPinsSize
    <2>4. PublishedIsPrefix'
        BY <1>9, <2>1 DEF ComposeReplyLost, PublishedIsPrefix
    <2>5. PartsFollowTheirNames' /\ StreamedFollowsSize'
        BY <1>9 DEF ComposeReplyLost, TypeOK, PartsFollowTheirNames, StreamedFollowsSize,
                   Follows
    <2>. QED BY <2>2, <2>3, <2>4, <2>5
<1>10. ASSUME NEW s \in Syncers, Finish(s) PROVE IndInv'
    <2>1. CASE seen[s].state = "running"
        BY <1>10, <2>1, ZenonT(60) DEF Finish, TypeOK, PublishedIsPrefix, Follows,
                PartsFollowTheirNames, StreamedFollowsSize, GenerationPinsSize
    <2>2. CASE seen[s].state # "running"
        <3>0. /\ seen' = [seen EXCEPT ![s] = NothingSeen]
              /\ data' = [data EXCEPT ![s] = <<>>]
              /\ rec' = seen[s].state
              /\ UNCHANGED <<capture, worker, main, gen, parts, faults>>
            BY <1>10, <2>2 DEF Finish, Release
        <3>1. TypeOK'
            <4>1. pc' \in [Syncers -> PCs]
                BY <1>10, <2>2 DEF Finish, TypeOK
            <4>2. rec' \in RecStates
                BY <2>2, <3>0 DEF TypeOK
            <4>3. data' \in [Syncers -> Seq(Nat)]
                BY <3>0 DEF TypeOK
            <4>4. NothingSeen \in [state : {"running"} \cup Verdicts,
                                  total : Offsets, size : Offsets, gen : Nat]
                BY DEF NothingSeen
            <4>5. seen' \in [Syncers -> [state : {"running"} \cup Verdicts,
                                        total : Offsets, size : Offsets, gen : Nat]]
                BY <3>0, <4>4 DEF TypeOK
            <4>. QED BY <3>0, <4>1, <4>2, <4>3, <4>5 DEF TypeOK
        <3>2. GenerationPinsSize'
            <4>1. ASSUME NEW x \in Syncers
                  PROVE seen'[x] = seen[x] \/ seen'[x] = NothingSeen
                BY <3>0 DEF TypeOK
            <4>. QED BY <3>0, <4>1 DEF TypeOK, GenerationPinsSize, NothingSeen
        <3>3. /\ PublishedIsPrefix' /\ PartsFollowTheirNames'
              /\ StreamedFollowsSize'
            BY <1>10, <2>2, ZenonT(60) DEF Finish, TypeOK, PublishedIsPrefix, Follows,
                    Release, PartsFollowTheirNames, StreamedFollowsSize
        <3>. QED BY <3>1, <3>2, <3>3
    <2>. QED BY <2>1, <2>2
<1>11. ASSUME NEW s \in Syncers, Begin(s) PROVE IndInv'
    BY <1>11 DEF Begin, TypeOK,
               PublishedIsPrefix, PartsFollowTheirNames, StreamedFollowsSize,
               GenerationPinsSize, Follows
<1>12. ASSUME NEW s \in Syncers, StreamBreaks(s) PROVE IndInv'
    BY <1>12 DEF StreamBreaks, Gone, TypeOK,
               PublishedIsPrefix, PartsFollowTheirNames, StreamedFollowsSize,
               GenerationPinsSize, Follows
<1>13. ASSUME NEW s \in Syncers, ComposeLosesRace(s) PROVE IndInv'
    BY <1>13 DEF ComposeLosesRace, Precondition, TypeOK,
               PublishedIsPrefix, PartsFollowTheirNames, StreamedFollowsSize,
               GenerationPinsSize, Follows
<1>14. ASSUME NEW s \in Syncers, ComposeFails(s) PROVE IndInv'
    BY <1>14 DEF ComposeFails, TypeOK,
               PublishedIsPrefix, PartsFollowTheirNames, StreamedFollowsSize,
               GenerationPinsSize, Follows
<1>15. ASSUME NEW s \in Syncers, DeletePart(s) PROVE IndInv'
    BY <1>15 DEF DeletePart, Gone, TypeOK,
               PublishedIsPrefix, PartsFollowTheirNames, StreamedFollowsSize,
               GenerationPinsSize, Follows
<1>16. ASSUME NEW s \in Syncers, CallFails(s) PROVE IndInv'
    BY <1>16, SMTT(30) DEF CallFails, Drained, TypeOK,
               PublishedIsPrefix, PartsFollowTheirNames, StreamedFollowsSize,
               GenerationPinsSize, Follows
<1>17. ASSUME NEW s \in Syncers, FinalizeLost(s) PROVE IndInv'
    BY <1>17 DEF FinalizeLost, Release, NothingSeen, TypeOK,
               PublishedIsPrefix, PartsFollowTheirNames, StreamedFollowsSize,
               GenerationPinsSize, Follows
<1>18. ASSUME NEW s \in Syncers, BlindTimeout(s) PROVE IndInv'
    BY <1>18 DEF BlindTimeout, Release, NothingSeen, TypeOK,
               PublishedIsPrefix, PartsFollowTheirNames, StreamedFollowsSize,
               GenerationPinsSize, Follows
<1>19. ASSUME NEW s \in Syncers, Return(s) PROVE IndInv'
    BY <1>19 DEF Return, Release, NothingSeen, TypeOK,
               PublishedIsPrefix, PartsFollowTheirNames, StreamedFollowsSize,
               GenerationPinsSize, Follows
<1>20. ASSUME NEW s \in Syncers, Crash(s) PROVE IndInv'
    BY <1>20 DEF Crash, Release, NothingSeen, Fault, TypeOK,
               PublishedIsPrefix, PartsFollowTheirNames, StreamedFollowsSize,
               GenerationPinsSize, Follows
<1>21. ASSUME NEW s \in Syncers, DeletePartFails(s) PROVE IndInv'
    BY <1>21 DEF DeletePartFails, Fault, TypeOK,
               PublishedIsPrefix, PartsFollowTheirNames, StreamedFollowsSize,
               GenerationPinsSize, Follows
<1>22. ASSUME UNCHANGED vars PROVE IndInv'
    BY <1>22 DEF vars, TypeOK,
               PublishedIsPrefix, PartsFollowTheirNames, StreamedFollowsSize,
               GenerationPinsSize, Follows
<1>. QED
    BY <1>1, <1>2, <1>3, <1>4, <1>5, <1>6, <1>7, <1>8, <1>9, <1>10, <1>11,
       <1>12, <1>13, <1>14, <1>15, <1>16, <1>17, <1>18, <1>19,
       <1>20, <1>21, <1>22
    DEF Next, Sync, Faults

-----------------------------------------------------------------------------
\* The inductive invariant holds in every reachable state.
THEOREM Invariance == Spec => []IndInv
BY InitInv, NextInv, PTL DEF Spec

\* Types are respected by every call, at every interleaving.
THEOREM TypeCorrect == Spec => []TypeOK
<1>1. IndInv => TypeOK
    BY DEF IndInv
<1>. QED BY <1>1, Invariance, PTL

\* The object behind OutURI is always a prefix of what the worker captured.
THEOREM PrefixAlways == Spec => []PublishedIsPrefix
<1>1. IndInv => PublishedIsPrefix
    BY DEF IndInv
<1>. QED BY <1>1, Invariance, PTL

\* pullOutput implements an append-only log (OutputLog): readers of OutURI see
\* bytes appear only at the end, in the order the command wrote them.
THEOREM ImplementsLog == Spec => PublishesALog
<1>1. Init => Log!Init
    BY DEF Init, Log!Init
<1>2. IndInv /\ [Next]_vars => [Log!Next]_<<capture, main>>
    <2>. SUFFICES ASSUME IndInv, [Next]_vars
                  PROVE  [Log!Next]_<<capture, main>>
        OBVIOUS
    <2>1. CASE WorkerWrite
        BY <2>1 DEF WorkerWrite, gcs, Log!Next, Log!Write
    <2>2. ASSUME NEW s \in Syncers, ComposeApplies(s), UNCHANGED capture
          PROVE  Log!Next
        <3>1. /\ main' = Bytes(0, Len(main')) /\ main' \in Seq(Nat)
              /\ Len(main) <= Len(main') /\ Len(main') <= capture
            BY <2>2, ComposeExtends
        <3>2. Len(main') \in Len(main) .. capture
            BY <3>1 DEF IndInv, TypeOK
        <3>3. main' = Log!Prefix(Len(main'))
            BY <3>1 DEF Bytes, Log!Prefix
        <3>. QED BY <2>2, <3>2, <3>3 DEF Log!Next, Log!Publish
    <2>3. CASE UNCHANGED <<capture, main>>
        BY <2>3
    <2>4. \/ WorkerWrite
          \/ UNCHANGED <<capture, main>>
          \/ \E s \in Syncers : ComposeApplies(s) /\ UNCHANGED capture
        BY DEF Next, Sync, Faults, vars, env, gcs, WorkerFinish, Begin,
               FetchStatus, StatMain, Stream, StreamBreaks, ClosePart,
               Compose, ComposeLosesRace, ComposeFails, DeletePart, Finish,
               CallFails, FinalizeLost, BlindTimeout, Return, Crash,
               ClosePartReplyLost, ComposeReplyLost, DeletePartFails
    <2>. QED BY <2>1, <2>2, <2>3, <2>4
<1>. QED
    BY <1>1, <1>2, Invariance, PTL DEF Spec, PublishesALog, Log!Spec

-----------------------------------------------------------------------------
(* No part is ever empty. *)

\* What a call has been told the worker holds is there to be streamed.
TailIsThere ==
    /\ worker.total <= capture
    /\ \A s \in Syncers :
        /\ pc[s] = "attrs" => seen[s].total <= capture
        /\ pc[s] = "stream" => seen[s].size < capture
        /\ pc[s] = "close" => data[s] # <<>>

TailInv == TailIsThere /\ NoEmptyParts

LEMMA TailStep == IndInv /\ TailInv /\ [Next]_vars => TailInv'
<1>. SUFFICES ASSUME IndInv, TailInv, [Next]_vars PROVE TailInv'
    OBVIOUS
<1>. USE DEF TailInv, TailIsThere, NoEmptyParts, env, gcs
<1>0. TypeOK
    BY DEF IndInv
<1>1. ASSUME WorkerWrite PROVE TailInv'
    BY <1>0, <1>1 DEF WorkerWrite, TypeOK
<1>2. ASSUME WorkerFinish PROVE TailInv'
    BY <1>0, <1>2 DEF WorkerFinish, TypeOK
<1>3. ASSUME NEW s \in Syncers, FetchStatus(s) PROVE TailInv'
    <2>1. ReportedTotal <= capture
        BY <1>0 DEF ReportedTotal, TypeOK
    <2>. QED BY <1>0, <1>3, <2>1 DEF FetchStatus, TypeOK
<1>4. ASSUME NEW s \in Syncers, StatMain(s) PROVE TailInv'
    <2>1. /\ seen[s].total <= capture
          /\ seen'[s].size = Len(main)
          /\ pc'[s] = "stream" => seen[s].total > Len(main)
          /\ pc'[s] \in {"stream", "after"}
        BY <1>0, <1>4 DEF StatMain, TypeOK
    <2>2. seen[s].total \in Nat /\ capture \in Nat /\ Len(main) \in Nat
        BY <1>0 DEF TypeOK
    <2>3. pc'[s] = "stream" => seen'[s].size < capture
        BY <2>1, <2>2
    <2>4. ASSUME NEW x \in Syncers, x # s
          PROVE pc'[x] = pc[x] /\ seen'[x] = seen[x]
        BY <1>0, <1>4, <2>4 DEF StatMain, TypeOK
    <2>. QED BY <1>4, <2>1, <2>3, <2>4 DEF StatMain
<1>5. ASSUME NEW s \in Syncers, Stream(s) PROVE TailInv'
    <2>1. /\ seen[s].size \in Nat /\ capture \in Nat
          /\ seen[s].size < capture
        BY <1>0, <1>5 DEF Stream, TypeOK
    <2>2. Bytes(seen[s].size, capture) # <<>>
        BY <2>1, BytesNonEmpty
    <2>. QED BY <1>0, <1>5, <2>2 DEF Stream, TypeOK
<1>6. ASSUME NEW s \in Syncers, ClosePart(s) PROVE TailInv'
    BY <1>0, <1>6 DEF ClosePart, Drained, TypeOK
<1>7. ASSUME NEW s \in Syncers, ClosePartReplyLost(s) PROVE TailInv'
    BY <1>0, <1>7 DEF ClosePartReplyLost, Drained, TypeOK
<1>8. NoPart # <<>>
    BY EmptySeq
<1>9. ASSUME NEW s \in Syncers, StreamBreaks(s) PROVE TailInv'
    BY <1>0, <1>8, <1>9 DEF StreamBreaks, Gone, TypeOK
<1>10. ASSUME NEW s \in Syncers, ComposeLosesRace(s) PROVE TailInv'
    BY <1>0, <1>8, <1>10 DEF ComposeLosesRace, TypeOK
<1>11. ASSUME NEW s \in Syncers, ComposeFails(s) PROVE TailInv'
    BY <1>0, <1>8, <1>11 DEF ComposeFails, TypeOK
<1>12. ASSUME NEW s \in Syncers, DeletePart(s) PROVE TailInv'
    BY <1>0, <1>8, <1>12 DEF DeletePart, Gone, TypeOK
<1>13. ASSUME NEW s \in Syncers, CallFails(s) PROVE TailInv'
    BY <1>0, <1>8, <1>13 DEF CallFails, Drained, TypeOK
<1>14. ASSUME NEW s \in Syncers, FinalizeLost(s) PROVE TailInv'
    BY <1>0, <1>8, <1>14 DEF FinalizeLost, Release, TypeOK
<1>15. ASSUME NEW s \in Syncers, BlindTimeout(s) PROVE TailInv'
    BY <1>0, <1>8, <1>15 DEF BlindTimeout, Release, TypeOK
<1>16. ASSUME NEW s \in Syncers, Return(s) PROVE TailInv'
    BY <1>0, <1>8, <1>16 DEF Return, Release, TypeOK
<1>17. ASSUME NEW s \in Syncers, Crash(s) PROVE TailInv'
    BY <1>0, <1>8, <1>17 DEF Crash, Release, TypeOK
<1>18. ASSUME NEW s \in Syncers, DeletePartFails(s) PROVE TailInv'
    BY <1>0, <1>8, <1>18 DEF DeletePartFails, TypeOK
<1>19. ASSUME NEW s \in Syncers, Begin(s) PROVE TailInv'
    BY <1>0, <1>8, <1>19 DEF Begin, TypeOK
<1>20. ASSUME NEW s \in Syncers, Finish(s) PROVE TailInv'
    BY <1>0, <1>8, <1>20, SMTT(30) DEF Finish, Release, TypeOK
<1>21. ASSUME NEW s \in Syncers, ComposeReplyLost(s) PROVE TailInv'
    BY <1>0, <1>8, <1>21 DEF ComposeReplyLost, ComposeApplies, TypeOK
<1>22. ASSUME NEW s \in Syncers, Compose(s) PROVE TailInv'
    BY <1>0, <1>8, <1>22 DEF Compose, ComposeApplies, TypeOK
<1>23. ASSUME UNCHANGED vars PROVE TailInv'
    BY <1>23 DEF vars
<1>. QED
    BY <1>1, <1>2, <1>3, <1>4, <1>5, <1>6, <1>7, <1>9, <1>10, <1>11,
       <1>12, <1>13, <1>14, <1>15, <1>16, <1>17, <1>18, <1>19, <1>20,
       <1>21, <1>22, <1>23
    DEF Next, Sync, Faults

\* The guard TotalBytes > currentSize is enough: no call, however late, uploads
\* an empty part, so the "wrote == 0" branch of pullOutput cannot be taken.
THEOREM NeverEmpty == Spec => []NoEmptyParts
<1>1. Init => TailInv
    BY EmptySeq DEF Init, TailInv, TailIsThere, NoEmptyParts
<1>2. TailInv => NoEmptyParts
    BY DEF TailInv
<1>. QED BY <1>1, <1>2, TailStep, Invariance, PTL DEF Spec

-----------------------------------------------------------------------------
(* No part is left behind. *)

\* Part o is in the hands of a call that is going to delete it.
Held(o) == \E s \in Syncers : seen[s].size = o /\ pc[s] \in {"compose", "delete_ok", "delete_err"}

\* A step of s, not a fault, that leaves parts alone or removes one, and that
\* s takes outside its compose, lets go of nothing.
LEMMA HeldStays ==
    ASSUME TypeOK, NoOrphanParts, NEW s \in Syncers, faults' = faults,
           \A o \in Offsets : parts'[o] \in {parts[o], NoPart},
           \A x \in Syncers : x # s => pc'[x] = pc[x] /\ seen'[x] = seen[x],
           \/ pc[s] \notin {"compose", "delete_ok", "delete_err"}
           \/ pc'[s] \in {"delete_ok", "delete_err"} /\ seen'[s] = seen[s]
           \/ parts'[seen[s].size] = NoPart
    PROVE  NoOrphanParts'
<1>. SUFFICES ASSUME faults = 0, NEW o \in Offsets, parts'[o] # NoPart
              PROVE  Held(o)'
    BY DEF NoOrphanParts, Held
<1>1. parts[o] # NoPart
    OBVIOUS
<1>2. PICK x \in Syncers : seen[x].size = o /\ pc[x] \in {"compose", "delete_ok", "delete_err"}
    BY <1>1 DEF NoOrphanParts
<1>. QED BY <1>2 DEF Held

LEMMA OrphanStep == TypeOK /\ NoOrphanParts /\ [Next]_vars => NoOrphanParts'
<1>. SUFFICES ASSUME TypeOK, NoOrphanParts, [Next]_vars PROVE NoOrphanParts'
    OBVIOUS
<1>. USE DEF env, gcs
<1>1. CASE UNCHANGED vars \/ WorkerWrite \/ WorkerFinish
    BY <1>1 DEF vars, WorkerWrite, WorkerFinish, NoOrphanParts
<1>2. ASSUME NEW s \in Syncers, Faults(s) PROVE NoOrphanParts'
    <2>1. faults' # 0
        BY <1>2 DEF Faults, Crash, ClosePartReplyLost, ComposeReplyLost, DeletePartFails,
            Fault, TypeOK
    <2>. QED BY <2>1 DEF NoOrphanParts
<1>3. ASSUME NEW s \in Syncers, ClosePart(s) PROVE NoOrphanParts'
    <2>1. CASE parts[seen[s].size] = NoPart
        <3>1. /\ parts' = [parts EXCEPT ![seen[s].size] = data[s]]
              /\ pc' = [pc EXCEPT ![s] = "compose"] /\ pc[s] = "close"
              /\ UNCHANGED <<seen, faults>>
            BY <1>3, <2>1 DEF ClosePart
        <3>2. ASSUME faults = 0, NEW o \in Offsets, parts'[o] # NoPart PROVE Held(o)'
            <4>1. CASE o = seen[s].size
                BY <3>1, <4>1 DEF Held, TypeOK
            <4>2. CASE o # seen[s].size
                <5>1. PICK x \in Syncers : /\ seen[x].size = o
                                           /\ pc[x] \in {"compose", "delete_ok", "delete_err"}
                    BY <3>1, <3>2, <4>2 DEF NoOrphanParts, TypeOK
                <5>. QED BY <3>1, <5>1 DEF Held, TypeOK
            <4>. QED BY <4>1, <4>2
        <3>. QED BY <3>1, <3>2 DEF NoOrphanParts, Held
    <2>2. CASE parts[seen[s].size] # NoPart
        BY <1>3, <2>2, HeldStays DEF ClosePart, TypeOK
    <2>. QED BY <2>1, <2>2
<1>4. ASSUME NEW s \in Syncers,
             \/ Begin(s) \/ FetchStatus(s) \/ StatMain(s) \/ Stream(s)
             \/ Finish(s) \/ CallFails(s) \/ FinalizeLost(s) \/ BlindTimeout(s) \/ Return(s)
      PROVE  NoOrphanParts'
    BY <1>4, HeldStays DEF Begin, FetchStatus, StatMain, Stream, Finish, CallFails,
        FinalizeLost, BlindTimeout, Return, Release, TypeOK
<1>5. ASSUME NEW s \in Syncers, StreamBreaks(s) \/ DeletePart(s) PROVE NoOrphanParts'
    BY <1>5, HeldStays DEF StreamBreaks, DeletePart, Gone, TypeOK
<1>6. ASSUME NEW s \in Syncers, Compose(s) \/ ComposeLosesRace(s) \/ ComposeFails(s)
      PROVE  NoOrphanParts'
    BY <1>6, HeldStays DEF Compose, ComposeApplies, ComposeLosesRace, ComposeFails, TypeOK
<1>. QED BY <1>1, <1>2, <1>3, <1>4, <1>5, <1>6 DEF Next, Sync

\* pullOutput deletes its part on success, failure and precondition loss: unless a
\* broker dies or a reply or a deletion is lost, no offset stays claimed.
THEOREM NothingLeftBehind == Spec => []NoOrphanParts
<1>1. Init => NoOrphanParts
    BY DEF Init, NoOrphanParts
<1>. QED BY <1>1, OrphanStep, TypeCorrect, PTL DEF Spec

-----------------------------------------------------------------------------
(* One call at a time, and no faults. *)

Alone == FaultKinds = {} /\ \A s, t \in Syncers : s = t

\* What the only call knows, once it has seen how the command ended: the size it goes
\* by is that of the object, and what it carries reaches to the end of the output.
Carries(s) ==
    /\ worker.state = seen[s].state
    /\ pc[s] = "attrs" => seen[s].total = worker.total
    /\ pc[s] \in {"stream", "close", "compose"} => seen[s].gen = gen
    /\ pc[s] = "close" => seen[s].size + Len(data[s]) >= worker.total
    /\ pc[s] = "compose" =>
        /\ parts[seen[s].size] # NoPart
        /\ seen[s].size + Len(parts[seen[s].size]) >= worker.total
    /\ pc[s] \in {"delete_ok", "after"} => Len(main) >= worker.total

Told ==
    /\ \A s \in Syncers : seen[s].state # "running" => Carries(s)
    /\ \A s \in Syncers : pc[s] = "close" => \A o \in Offsets : parts[o] = NoPart
    /\ rec = "completed" => worker.state # "running"

LoneInv == Told /\ CompletedHasAllOutput /\ NoOrphanParts /\ faults = 0 /\ worker.total <= capture

\* A call that is not over leaves the object and the verdict alone, or extends the object.
LEMMA LoneStep ==
    ASSUME Alone, IndInv, LoneInv, [Next]_vars
    PROVE  Told' /\ CompletedHasAllOutput' /\ faults' = 0
<1>. USE DEF env, gcs, Told, Carries, CompletedHasAllOutput
<1>0. /\ TypeOK /\ Told /\ CompletedHasAllOutput /\ NoOrphanParts /\ faults = 0
      /\ worker.total <= capture /\ \A s, t \in Syncers : s = t
    BY DEF IndInv, LoneInv, Alone
<1>1. CASE UNCHANGED vars
    BY <1>0, <1>1 DEF vars
<1>2. CASE WorkerWrite
    BY <1>0, <1>2 DEF WorkerWrite
<1>3. CASE WorkerFinish
    BY <1>0, <1>3 DEF WorkerFinish
<1>4. ASSUME NEW s \in Syncers, Faults(s) PROVE FALSE
    BY <1>4 DEF Faults, Crash, ClosePartReplyLost, ComposeReplyLost, DeletePartFails, Fault,
        Alone
<1>5. ASSUME NEW s \in Syncers, FetchStatus(s)
      PROVE  Told' /\ CompletedHasAllOutput' /\ faults' = 0
    BY <1>0, <1>5 DEF FetchStatus, ReportedTotal, TypeOK
<1>6. ASSUME NEW s \in Syncers, StatMain(s)
      PROVE  Told' /\ CompletedHasAllOutput' /\ faults' = 0
    BY <1>0, <1>6 DEF StatMain, Throttleable, TypeOK
<1>7. ASSUME NEW s \in Syncers, Stream(s)
      PROVE  Told' /\ CompletedHasAllOutput' /\ faults' = 0
    <2>1. /\ seen[s].size \in Nat /\ capture \in Nat /\ seen[s].size <= capture
        BY <1>0 DEF TypeOK, IndInv, GenerationPinsSize, PublishedIsPrefix
    <2>2. Len(Bytes(seen[s].size, capture)) = capture - seen[s].size
        BY <2>1, BytesSeq
    <2>3. data'[s] = Bytes(seen[s].size, capture) /\ UNCHANGED <<worker, seen, parts, gen>>
        BY <1>0, <1>7 DEF Stream, TypeOK
    <2>4. seen[s].size + Len(data'[s]) >= worker.total
        BY <1>0, <2>1, <2>2, <2>3 DEF TypeOK
    <2>5. \A o \in Offsets : parts[o] = NoPart
        BY <1>0, <1>7 DEF Stream, NoOrphanParts
    <2>. QED BY <1>0, <1>7, <2>4, <2>5 DEF Stream, TypeOK
<1>8. ASSUME NEW s \in Syncers, ClosePart(s)
      PROVE  Told' /\ CompletedHasAllOutput' /\ faults' = 0
    <2>1. parts[seen[s].size] = NoPart /\ seen[s].size \in Offsets
        BY <1>0, <1>8 DEF ClosePart, TypeOK
    <2>2. parts'[seen[s].size] = data[s] /\ data[s] # NoPart
        BY <1>0, <1>8, <2>1 DEF ClosePart, TypeOK
    <2>. QED BY <1>0, <1>8, <2>1, <2>2 DEF ClosePart, TypeOK
<1>9. ASSUME NEW s \in Syncers, Compose(s)
      PROVE  Told' /\ CompletedHasAllOutput' /\ faults' = 0
    <2>1. Len(main') = seen[s].size + Len(parts[seen[s].size]) /\ Len(main) <= Len(main')
        BY <1>9, ComposeExtends DEF Compose
    <2>2. Len(main) \in Nat /\ Len(main') \in Nat /\ worker.total \in Nat
        BY <1>0, <1>9, ComposeExtends DEF Compose, TypeOK
    <2>. QED BY <1>0, <1>9, <2>1, <2>2 DEF Compose, ComposeApplies, TypeOK
<1>10. ASSUME NEW s \in Syncers, ComposeLosesRace(s)
       PROVE  Told' /\ CompletedHasAllOutput' /\ faults' = 0
    BY <1>0, <1>10 DEF ComposeLosesRace, Precondition, TypeOK
<1>11. ASSUME NEW s \in Syncers, StreamBreaks(s) \/ DeletePart(s) \/ ComposeFails(s)
       PROVE  Told' /\ CompletedHasAllOutput' /\ faults' = 0
    BY <1>0, <1>11, SMTT(30) DEF StreamBreaks, DeletePart, ComposeFails, TypeOK
<1>12. ASSUME NEW s \in Syncers, Begin(s) \/ CallFails(s)
       PROVE  Told' /\ CompletedHasAllOutput' /\ faults' = 0
    BY <1>0, <1>12 DEF Begin, CallFails, TypeOK
<1>13. ASSUME NEW s \in Syncers, Finish(s)
       PROVE  Told' /\ CompletedHasAllOutput' /\ faults' = 0
    BY <1>0, <1>13 DEF Finish, Release, NothingSeen, TypeOK
<1>14. ASSUME NEW s \in Syncers, FinalizeLost(s) \/ BlindTimeout(s) \/ Return(s)
       PROVE  Told' /\ CompletedHasAllOutput' /\ faults' = 0
    BY <1>0, <1>14 DEF FinalizeLost, BlindTimeout, Return, Release, NothingSeen, TypeOK
<1>. QED BY <1>1, <1>2, <1>3, <1>4, <1>5, <1>6, <1>7, <1>8, <1>9, <1>10, <1>11, <1>12,
            <1>13, <1>14
         DEF Next, Sync

\* A lone caller that meets no fault writes Completed only when everything the worker
\* held at the end is published. (Two callers do not: run output_tail_race.)
THEOREM CompletedIsComplete ==
    ASSUME FaultKinds = {}, \A s, t \in Syncers : s = t
    PROVE  Spec => []CompletedHasAllOutput
<1>1. Init => Told /\ CompletedHasAllOutput /\ faults = 0
    BY DEF Init, Told, CompletedHasAllOutput, NothingSeen
<1>2. TailInv => worker.total <= capture
    BY DEF TailInv, TailIsThere
<1>3. Init => TailInv
    BY EmptySeq DEF Init, TailInv, TailIsThere, NoEmptyParts
<1>4. /\ IndInv /\ TailInv /\ NoOrphanParts /\ Told /\ CompletedHasAllOutput /\ faults = 0
      /\ [Next]_vars
      => Told' /\ CompletedHasAllOutput' /\ (faults = 0)'
    BY <1>2, LoneStep DEF LoneInv, Alone
<1>. QED BY <1>1, <1>3, <1>4, TailStep, Invariance, NothingLeftBehind, PTL DEF Spec

=============================================================================
