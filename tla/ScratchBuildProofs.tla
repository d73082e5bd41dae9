--------------------------- MODULE ScratchBuildProofs ---------------------------
(***************************************************************************)
(* What a build of the scratch executor finds on its VM and what Close     *)
(* leaves behind, proved for any number of builds, phases and faults.      *)
(*                                                                         *)
(* The argument: a build asks for commands only in its slot, and once its  *)
(* context is cancelled it asks for none but the last two (Working).       *)
(* Close has cancelled every build it has not yet to cancel, and returns   *)
(* when no slot is held, so that whoever takes one later is cancelled      *)
(* (Closing).  With one slot, nobody touches the containers between the    *)
(* sweep of a build and the stop of its own (Owning).                      *)
(***************************************************************************)
EXTENDS ScratchBuild, FiniteSetTheorems, TLAPS

PCs == Commands \cup {"idle", "queue", "finish", "answer", "release", "over"}
BuildRecs == [pc : PCs, phase : 0 .. Phases, err : BOOLEAN,
              status : {"starting", "running", "completed", "cancelled"},
              result : {"none", "success", "error"}]
CloseRecs == [pc : {"idle", "cancel", "closed"}, todo : SUBSET Builds]

\* TypeOK with its sets named.
Typed ==
    /\ build \in [Builds -> BuildRecs]
    /\ call \in [Builds -> {"none", "asked", "running"}]
    /\ cancelled \subseteq Builds
    /\ strays \subseteq Builds \X Commands
    /\ stranded \in BOOLEAN
    /\ container \subseteq Builds
    /\ close \in CloseRecs
    /\ faults \in 0 .. MaxFaults

\* A command is asked for in a slot.
Working == \A b \in Builds : call[b] # "none" => build[b].pc \in Commands

\* Where a build may be whom Close did not wait for, and has cancelled.
Left == {"idle", "queue", "prepare", "finish", "answer", "release", "over"}

Closing ==
    \A b \in Builds :
        /\ close.pc = "cancel" /\ build[b].pc \notin {"idle", "over"} =>
            b \in close.todo \cup cancelled
        /\ close.pc = "closed" =>
            /\ build[b].pc \in Left
            /\ build[b].pc \in {"queue", "prepare"} => b \in cancelled
            /\ call[b] = "none"

\* With one slot.
Owning ==
    /\ ~stranded => strays = {}
    /\ \A b, c \in Builds : HoldsSlot(b) /\ HoldsSlot(c) => b = c
    /\ \A b \in Builds : build[b].pc = "start" /\ ~stranded => container = {}
    /\ \A b \in Builds : build[b].pc = "phase" /\ ~stranded => container = {b}

IndInv == Typed /\ Working /\ Closing

-----------------------------------------------------------------------------
LEMMA TypedIsTypeOK == TypeOK <=> Typed
    BY DEF TypeOK, Typed, BuildRecs, PCs, CloseRecs

LEMMA BuildIs ==
    ASSUME Typed, NEW b \in Builds, NEW r \in BuildRecs, build' = [build EXCEPT ![b] = r]
    PROVE  /\ build' \in [Builds -> BuildRecs] /\ build'[b] = r
           /\ \A c \in Builds : c # b => build'[c] = build[c]
    BY DEF Typed

\* A build goes from one place to another.
LEMMA BuildGoes ==
    ASSUME Typed, NEW b \in Builds, NEW where \in PCs,
           build' = [build EXCEPT ![b].pc = where]
    PROVE  /\ build' \in [Builds -> BuildRecs] /\ build'[b].pc = where
           /\ \A c \in Builds : c # b => build'[c] = build[c]
<1>1. build[b] \in BuildRecs
    BY DEF Typed
<1>2. [build[b] EXCEPT !.pc = where] \in BuildRecs
      /\ [build[b] EXCEPT !.pc = where].pc = where
    BY <1>1, Zenon DEF BuildRecs
<1>3. build' = [build EXCEPT ![b] = [build[b] EXCEPT !.pc = where]]
    BY DEF Typed
<1>. HIDE DEF BuildRecs
<1>. QED BY <1>2, <1>3, BuildIs

\* What becomes of a build by its command.
LEMMA MovedIs ==
    ASSUME ScratchBuildAssumption, Typed, NEW b \in Builds, NEW ok \in BOOLEAN,
           build[b].pc \in Commands
    PROVE  /\ Moved(b, ok) \in BuildRecs
           /\ Moved(b, ok).pc \in (Commands \ {"prepare"}) \cup {"finish"}
           /\ Moved(b, ok).pc = "start" => build[b].pc = "prepare" /\ ok
           /\ Moved(b, ok).pc = "phase" => build[b].pc \in {"start", "phase"} /\ ok
           /\ build[b].pc = "prepare" /\ ~ok => Moved(b, ok).pc = "finish"
<1>. DEFINE rec == build[b]
            m == Moved(b, ok)
<1>1. rec \in BuildRecs
    BY DEF Typed
<1>2. /\ rec.phase < Phases => rec.phase + 1 \in 0 .. Phases
      /\ 1 \in 0 .. Phases
    BY <1>1 DEF BuildRecs, ScratchBuildAssumption
<1>3. {"start", "phase", "stop", "fetch", "finish"} \subseteq PCs
    BY DEF PCs, Commands
<1>4. CASE rec.pc \in {"prepare", "start", "fetch"} /\ ~ok
    <2>1. m = [rec EXCEPT !.pc = "finish", !.err = TRUE]
        BY <1>4 DEF Moved
    <2>2. m \in BuildRecs /\ m.pc = "finish"
        BY <1>1, <1>3, <2>1, Zenon DEF BuildRecs
    <2>. QED BY <1>4, <2>2
<1>5. CASE rec.pc = "prepare" /\ ok
    <2>1. m = [rec EXCEPT !.pc = "start"]
        BY <1>5 DEF Moved
    <2>2. m \in BuildRecs /\ m.pc = "start"
        BY <1>1, <1>3, <2>1, Zenon DEF BuildRecs
    <2>. QED BY <1>5, <2>2 DEF Commands
<1>6. CASE rec.pc = "start" /\ ok
    <2>1. m = [rec EXCEPT !.pc = "phase", !.phase = 1, !.status = "running"]
        BY <1>6 DEF Moved
    <2>2. m \in BuildRecs /\ m.pc = "phase"
        BY <1>1, <1>2, <1>3, <2>1, Zenon DEF BuildRecs
    <2>. QED BY <1>6, <2>2 DEF Commands
<1>7. CASE rec.pc = "phase" /\ ok /\ rec.phase < Phases
    <2>1. PICK next \in 0 .. Phases : next = rec.phase + 1
        BY <1>2, <1>7
    <2>2. m = [rec EXCEPT !.phase = next]
        BY <1>7, <2>1 DEF Moved
    <2>3. m \in BuildRecs /\ m.pc = rec.pc
        BY <1>1, <2>2, Zenon DEF BuildRecs
    <2>. QED BY <1>7, <2>3 DEF Commands
<1>8. CASE rec.pc = "phase" /\ ok /\ ~(rec.phase < Phases)
    <2>1. m = [rec EXCEPT !.pc = "stop"]
        BY <1>8 DEF Moved
    <2>2. m \in BuildRecs /\ m.pc = "stop"
        BY <1>1, <1>3, <2>1, Zenon DEF BuildRecs
    <2>. QED BY <1>8, <2>2 DEF Commands
<1>9. CASE rec.pc = "phase" /\ ~ok
    <2>1. m = [rec EXCEPT !.pc = "stop", !.err = TRUE]
        BY <1>9 DEF Moved
    <2>2. m \in BuildRecs /\ m.pc = "stop"
        BY <1>1, <1>3, <2>1, Zenon DEF BuildRecs
    <2>. QED BY <1>9, <2>2 DEF Commands
<1>10. CASE rec.pc = "stop"
    <2>1. m = [rec EXCEPT !.pc = "finish"] \/ m = [rec EXCEPT !.pc = "fetch"]
        BY <1>10 DEF Moved
    <2>2. m \in BuildRecs /\ m.pc \in {"finish", "fetch"}
        BY <1>1, <1>3, <2>1, Zenon DEF BuildRecs
    <2>. QED BY <1>10, <2>2 DEF Commands
<1>11. CASE rec.pc = "fetch" /\ ok
    <2>1. m = [rec EXCEPT !.pc = "finish"]
        BY <1>11 DEF Moved
    <2>2. m \in BuildRecs /\ m.pc = "finish"
        BY <1>1, <1>3, <2>1, Zenon DEF BuildRecs
    <2>. QED BY <1>11, <2>2
<1>. QED BY <1>4, <1>5, <1>6, <1>7, <1>8, <1>9, <1>10, <1>11 DEF Commands

LEMMA MoveIs ==
    ASSUME ScratchBuildAssumption, Typed, NEW b \in Builds, NEW ok \in BOOLEAN,
           build[b].pc \in Commands, Move(b, ok)
    PROVE  /\ build' \in [Builds -> BuildRecs]
           /\ \A c \in Builds : c # b => build'[c] = build[c]
           /\ build'[b].pc \in (Commands \ {"prepare"}) \cup {"finish"}
           /\ build'[b].pc = "start" => build[b].pc = "prepare" /\ ok
           /\ build'[b].pc = "phase" => build[b].pc \in {"start", "phase"} /\ ok
           /\ build[b].pc = "prepare" /\ ~ok => build'[b].pc = "finish"
<1>1. PICK r \in BuildRecs : r = Moved(b, ok)
    BY MovedIs
<1>2. build' = [build EXCEPT ![b] = r]
    BY <1>1 DEF Move
<1>. QED BY <1>1, <1>2, MovedIs, BuildIs, ZenonT(60)

LEMMA FaultType ==
    ASSUME ScratchBuildAssumption, Typed, NEW kind, Fault(kind)
    PROVE  faults' \in 0 .. MaxFaults
    BY DEF ScratchBuildAssumption, Typed, Fault

LEMMA EffectType ==
    ASSUME Typed, NEW b \in Builds, NEW command \in Commands
    PROVE  Effect(b, command) \subseteq Builds
    BY DEF Typed, Effect, Commands

LEMMA StrandType ==
    ASSUME Typed, NEW b \in Builds, build[b].pc \in Commands, Strand(b)
    PROVE  strays' \subseteq Builds \X Commands /\ stranded' = TRUE
    BY DEF Typed, Strand

\* Where no slot is held, nobody is in one.
LEMMA NoSlotHeld ==
    ASSUME IsFiniteSet(Builds), ~(Slots > 0)
    PROVE  \A b \in Builds : ~HoldsSlot(b)
<1>. DEFINE H == {b \in Builds : HoldsSlot(b)}
<1>1. H \in SUBSET Builds
    OBVIOUS
<1>2. IsFiniteSet(H) /\ Cardinality(H) \in Nat
    BY <1>1, FS_Subset, FS_CardinalityType
<1>3. Cardinality(H) = 0
    BY <1>2 DEF Slots
<1>4. H = {}
    <2>. HIDE DEF H
    <2>. QED BY <1>2, <1>3, FS_EmptySet
<1>. QED BY <1>4

-----------------------------------------------------------------------------
\* A build that goes on without a command: its own part of the invariant, and what
\* the others keep.
LEMMA Goes ==
    ASSUME IndInv, NEW b \in Builds, build' \in [Builds -> BuildRecs],
           \A c \in Builds : c # b => build'[c] = build[c],
           UNCHANGED <<call, cancelled, strays, stranded, container, close, faults>>,
           call[b] = "none" \/ build'[b].pc \in Commands,
           build[b].pc \in {"idle", "over"} =>
               close.pc # "cancel" \/ build'[b].pc \in {"idle", "over"},
           close.pc = "closed" =>
               /\ build'[b].pc \in Left
               /\ build'[b].pc \in {"queue", "prepare"} => b \in cancelled
    PROVE  IndInv'
<1>1. Typed'
    BY DEF IndInv, Typed
<1>2. Working'
    BY DEF IndInv, Working
<1>3. Closing'
    BY DEF IndInv, Closing
<1>. QED BY <1>1, <1>2, <1>3 DEF IndInv

\* A build that is done with a command, whatever came of it.
LEMMA Done ==
    ASSUME ScratchBuildAssumption, IndInv, NEW b \in Builds, NEW ok \in BOOLEAN,
           build[b].pc \in Commands, Move(b, ok),
           call' = [call EXCEPT ![b] = "none"],
           UNCHANGED <<cancelled, close>>,
           close.pc = "closed" => ~ok /\ build[b].pc = "prepare" /\ call[b] = "none",
           strays' \subseteq Builds \X Commands, stranded' \in BOOLEAN,
           container' \subseteq Builds, faults' \in 0 .. MaxFaults
    PROVE  IndInv'
<1>0. Typed /\ Working /\ Closing
    BY DEF IndInv
<1>1. /\ build' \in [Builds -> BuildRecs]
      /\ \A c \in Builds : c # b => build'[c] = build[c]
      /\ build[b].pc = "prepare" /\ ~ok => build'[b].pc = "finish"
    BY <1>0, MoveIs
<1>2. /\ call' \in [Builds -> {"none", "asked", "running"}] /\ call'[b] = "none"
      /\ \A c \in Builds : c # b => call'[c] = call[c]
    BY <1>0 DEF Typed
<1>3. Typed'
    BY <1>0, <1>1, <1>2 DEF Typed
<1>4. Working'
    BY <1>0, <1>1, <1>2 DEF Working
<1>5. Closing'
    <2>1. ASSUME NEW c \in Builds, c # b
          PROVE  /\ close.pc = "cancel" /\ build'[c].pc \notin {"idle", "over"} =>
                     c \in close.todo \cup cancelled
                 /\ close.pc = "closed" =>
                     /\ build'[c].pc \in Left
                     /\ build'[c].pc \in {"queue", "prepare"} => c \in cancelled
                     /\ call'[c] = "none"
        BY <1>0, <1>1, <1>2, <2>1 DEF Closing
    <2>2. close.pc = "cancel" => b \in close.todo \cup cancelled
        BY <1>0 DEF Closing, Commands
    <2>3. close.pc = "closed" => build'[b].pc = "finish" /\ call'[b] = "none"
        BY <1>1, <1>2
    <2>. QED BY <2>1, <2>2, <2>3 DEF Closing, Left
<1>. QED BY <1>3, <1>4, <1>5 DEF IndInv

LEMMA Step ==
    ASSUME ScratchBuildAssumption, IsFiniteSet(Builds), IndInv, [Next]_vars
    PROVE  IndInv'
<1>0. Typed /\ Working /\ Closing
    BY DEF IndInv
<1>1. ASSUME NEW b \in Builds, Start(b) PROVE IndInv'
    <2>1. /\ build' \in [Builds -> BuildRecs] /\ build'[b].pc = "queue"
          /\ \A c \in Builds : c # b => build'[c] = build[c]
        BY <1>0, <1>1, BuildGoes DEF Start, PCs
    <2>. QED BY <1>0, <1>1, <2>1, Goes DEF Start, Working, Commands
<1>2. ASSUME NEW b \in Builds, TakeSlot(b) PROVE IndInv'
    <2>1. /\ build' \in [Builds -> BuildRecs] /\ build'[b].pc = "prepare"
          /\ \A c \in Builds : c # b => build'[c] = build[c]
        BY <1>0, <1>2, BuildGoes DEF TakeSlot, PCs, Commands
    <2>. QED BY <1>0, <1>2, <2>1, Goes DEF TakeSlot, Commands, Closing, Left
<1>3. ASSUME NEW b \in Builds, LeaveQueue(b) PROVE IndInv'
    <2>. DEFINE r == [build[b] EXCEPT !.pc = "over", !.status = "cancelled",
                                      !.result = "error"]
    <2>1. build[b] \in BuildRecs /\ "over" \in PCs
        BY <1>0 DEF Typed, PCs
    <2>2. r \in BuildRecs /\ r.pc = "over"
        BY <2>1, Zenon DEF BuildRecs
    <2>3. build' = [build EXCEPT ![b] = r]
        BY <1>3 DEF LeaveQueue
    <2>4. /\ build' \in [Builds -> BuildRecs] /\ build'[b].pc = "over"
          /\ \A c \in Builds : c # b => build'[c] = build[c]
        <3>. HIDE DEF r
        <3>. QED BY <1>0, <2>2, <2>3, BuildIs
    <2>. QED BY <1>0, <1>3, <2>4, Goes DEF LeaveQueue, Working, Commands, Left
<1>4. ASSUME NEW b \in Builds, Finish(b) PROVE IndInv'
    <2>1. PICK st \in {"cancelled", "completed"} :
              build' = [build EXCEPT ![b].pc = "answer", ![b].status = st]
        BY <1>4 DEF Finish
    <2>. DEFINE r == [build[b] EXCEPT !.pc = "answer", !.status = st]
    <2>2. build[b] \in BuildRecs /\ "answer" \in PCs
        BY <1>0 DEF Typed, PCs
    <2>3. r \in BuildRecs /\ r.pc = "answer"
        BY <2>2, Zenon DEF BuildRecs
    <2>4. build' = [build EXCEPT ![b] = r]
        BY <1>0, <2>1 DEF Typed
    <2>5. /\ build' \in [Builds -> BuildRecs] /\ build'[b].pc = "answer"
          /\ \A c \in Builds : c # b => build'[c] = build[c]
        <3>. HIDE DEF r
        <3>. QED BY <1>0, <2>3, <2>4, BuildIs
    <2>. QED BY <1>0, <1>4, <2>5, Goes DEF Finish, Working, Commands, Left
<1>5. ASSUME NEW b \in Builds, Answer(b) PROVE IndInv'
    <2>1. PICK res \in {"error", "success"} :
              build' = [build EXCEPT ![b].pc = "release", ![b].result = res]
        BY <1>5 DEF Answer
    <2>. DEFINE r == [build[b] EXCEPT !.pc = "release", !.result = res]
    <2>2. build[b] \in BuildRecs /\ "release" \in PCs
        BY <1>0 DEF Typed, PCs
    <2>3. r \in BuildRecs /\ r.pc = "release"
        BY <2>2, Zenon DEF BuildRecs
    <2>4. build' = [build EXCEPT ![b] = r]
        BY <1>0, <2>1 DEF Typed
    <2>5. /\ build' \in [Builds -> BuildRecs] /\ build'[b].pc = "release"
          /\ \A c \in Builds : c # b => build'[c] = build[c]
        <3>. HIDE DEF r
        <3>. QED BY <1>0, <2>3, <2>4, BuildIs
    <2>. QED BY <1>0, <1>5, <2>5, Goes DEF Answer, Working, Commands, Left
<1>6. ASSUME NEW b \in Builds, Release(b) PROVE IndInv'
    <2>1. /\ build' \in [Builds -> BuildRecs] /\ build'[b].pc = "over"
          /\ \A c \in Builds : c # b => build'[c] = build[c]
        BY <1>0, <1>6, BuildGoes DEF Release, PCs
    <2>. QED BY <1>0, <1>6, <2>1, Goes DEF Release, Working, Commands, Left
<1>7. ASSUME NEW b \in Builds, Ask(b) PROVE IndInv'
    <2>1. close.pc # "closed"
        BY <1>0, <1>7 DEF Ask, ContextOver, Closing, Left, Commands
    <2>. QED BY <1>0, <1>7, <2>1 DEF Ask, IndInv, Typed, Working, Closing
<1>8. ASSUME NEW b \in Builds, AskNot(b) PROVE IndInv'
    <2>1. build[b].pc \in Commands /\ call' = [call EXCEPT ![b] = "none"]
        BY <1>0, <1>8 DEF AskNot, ContextOver, Commands, Typed
    <2>2. close.pc = "closed" => build[b].pc = "prepare"
        BY <1>0, <1>8 DEF AskNot, ContextOver, Closing, Left
    <2>. QED BY <1>0, <1>8, <2>1, <2>2, Done DEF AskNot, Typed
<1>9. ASSUME NEW b \in Builds, Asked(b) PROVE IndInv'
    BY <1>0, <1>9 DEF Asked, IndInv, Typed, Working, Closing
<1>10. ASSUME NEW b \in Builds, call[b] # "none"
       PROVE  build[b].pc \in Commands /\ close.pc # "closed"
    BY <1>0, <1>10 DEF Working, Closing
<1>11. ASSUME NEW b \in Builds, AskFails(b) PROVE IndInv'
    <2>1. build[b].pc \in Commands /\ close.pc # "closed"
        BY <1>10, <1>11 DEF AskFails
    <2>2. strays' \subseteq Builds \X Commands /\ stranded' \in BOOLEAN
        BY <1>0, <1>11, <2>1, StrandType DEF AskFails, Typed
    <2>3. faults' \in 0 .. MaxFaults
        BY <1>0, <1>11, FaultType DEF AskFails, Typed
    <2>. QED BY <1>0, <1>11, <2>1, <2>2, <2>3, Done DEF AskFails, Typed
<1>12. ASSUME NEW b \in Builds, StopPolling(b) PROVE IndInv'
    <2>1. build[b].pc \in Commands /\ close.pc # "closed"
        BY <1>10, <1>12 DEF StopPolling
    <2>2. strays' \subseteq Builds \X Commands /\ stranded' \in BOOLEAN
        BY <1>0, <1>12, <2>1, StrandType DEF StopPolling
    <2>3. faults' \in 0 .. MaxFaults
        BY <1>0, <1>12, FaultType DEF StopPolling, Typed
    <2>. QED BY <1>0, <1>12, <2>1, <2>2, <2>3, Done DEF StopPolling, Typed
<1>13. ASSUME NEW b \in Builds, CommandEnds(b) PROVE IndInv'
    <2>1. build[b].pc \in Commands /\ close.pc # "closed"
        BY <1>10, <1>13 DEF CommandEnds
    <2>2. container' \subseteq Builds
        BY <1>0, <1>13, <2>1, EffectType DEF CommandEnds
    <2>. QED BY <1>0, <1>13, <2>1, <2>2, Done DEF CommandEnds, Typed
<1>14. ASSUME NEW b \in Builds, CommandFails(b) PROVE IndInv'
    <2>1. build[b].pc \in Commands /\ close.pc # "closed"
        BY <1>10, <1>14 DEF CommandFails
    <2>2. container' \subseteq Builds
        BY <1>0, <1>14, <2>1, EffectType DEF CommandFails, Typed
    <2>3. faults' \in 0 .. MaxFaults
        BY <1>0, <1>14, FaultType DEF CommandFails, Typed
    <2>. QED BY <1>0, <1>14, <2>1, <2>2, <2>3, Done DEF CommandFails, Typed
<1>15. ASSUME StrayEnds PROVE IndInv'
    <2>1. PICK s \in strays :
              /\ strays' = strays \ {s}
              /\ container' \in {container, Effect(s[1], s[2])}
        BY <1>15 DEF StrayEnds
    <2>2. s[1] \in Builds /\ s[2] \in Commands
        BY <1>0, <2>1 DEF Typed
    <2>3. container' \subseteq Builds
        BY <1>0, <2>1, <2>2, EffectType DEF Typed
    <2>. QED BY <1>0, <1>15, <2>1, <2>3 DEF StrayEnds, IndInv, Typed, Working, Closing
<1>16. ASSUME CloseBegins PROVE IndInv'
    <2>1. Active \in SUBSET Builds
        BY DEF Active
    <2>2. close' \in CloseRecs /\ close'.pc = "cancel" /\ close'.todo = Active
        BY <1>16, <2>1 DEF CloseBegins, CloseRecs
    <2>. QED BY <1>0, <1>16, <2>2 DEF CloseBegins, Active, IndInv, Typed, Working, Closing
<1>17. ASSUME NEW b \in Builds, CancelHandle(b) PROVE IndInv'
    <2>1. CASE build' = build /\ close' = close
        BY <1>0, <1>17, <2>1 DEF CancelHandle, IndInv, Typed, Working, Closing
    <2>2. CASE /\ b \in cancelled /\ cancelled' = cancelled
               /\ build' = [build EXCEPT ![b].status = "cancelled"]
               /\ close' = [close EXCEPT !.todo = close.todo \ {b}]
        <3>1. PICK r : r = [build[b] EXCEPT !.status = "cancelled"]
            OBVIOUS
        <3>2. build[b] \in BuildRecs
            BY <1>0 DEF Typed
        <3>3. r \in BuildRecs /\ r.pc = build[b].pc
            BY <3>1, <3>2, Zenon DEF BuildRecs
        <3>4. build' = [build EXCEPT ![b] = r]
            BY <1>0, <2>2, <3>1 DEF Typed
        <3>5. /\ build' \in [Builds -> BuildRecs]
              /\ \A c \in Builds : build'[c].pc = build[c].pc
            BY <1>0, <3>3, <3>4, BuildIs
        <3>6. close.todo \ {b} \in SUBSET Builds
            BY <1>0 DEF Typed, CloseRecs
        <3>7. close' \in CloseRecs /\ close'.pc = close.pc /\ close'.todo = close.todo \ {b}
            BY <1>0, <2>2, <3>6 DEF Typed, CloseRecs
        <3>. QED BY <1>0, <1>17, <2>2, <3>5, <3>7
                 DEF CancelHandle, IndInv, Typed, Working, Closing
    <2>. QED BY <1>17, <2>1, <2>2 DEF CancelHandle
<1>18. ASSUME CloseWaits PROVE IndInv'
    <2>1. \A b \in Builds : ~HoldsSlot(b)
        BY <1>18, NoSlotHeld DEF CloseWaits
    <2>2. close' \in CloseRecs /\ close'.pc = "closed"
        BY <1>0, <1>18 DEF CloseWaits, Typed, CloseRecs
    <2>3. ASSUME NEW b \in Builds
          PROVE  /\ build[b].pc \in {"idle", "queue", "over"}
                 /\ build[b].pc = "queue" => b \in cancelled
                 /\ call[b] = "none"
        <3>1. build[b].pc \in PCs
            BY <1>0 DEF Typed, BuildRecs
        <3>. QED BY <1>0, <1>18, <2>1, <3>1 DEF HoldsSlot, PCs, Working, Closing, CloseWaits
    <2>. QED BY <1>0, <1>18, <2>2, <2>3
             DEF CloseWaits, IndInv, Typed, Working, Closing, Left
<1>19. CASE UNCHANGED vars
    BY <1>19 DEF vars, IndInv, Typed, Working, Closing
<1>. QED BY <1>1, <1>2, <1>3, <1>4, <1>5, <1>6, <1>7, <1>8, <1>9, <1>11, <1>12, <1>13,
            <1>14, <1>15, <1>16, <1>17, <1>18, <1>19 DEF Next, Drive, CloseSteps

-----------------------------------------------------------------------------
\* With one slot the holder has the containers to itself.

\* A step that leaves the containers alone, and takes nobody to where they matter.
LEMMA OwningKept ==
    ASSUME Owning,
           \A b \in Builds :
               /\ HoldsSlot(b)' => HoldsSlot(b)
               /\ build'[b].pc \in {"start", "phase"} => build'[b].pc = build[b].pc,
           UNCHANGED <<strays, stranded, container>>
    PROVE  Owning'
    BY DEF Owning

LEMMA OwningMoves ==
    ASSUME Owning, NEW b \in Builds, HoldsSlot(b),
           \A c \in Builds : c # b => build'[c] = build[c],
           ~stranded' => ~stranded /\ strays' = strays,
           build'[b].pc = "start" /\ ~stranded' => container' = {},
           build'[b].pc = "phase" /\ ~stranded' => container' = {b}
    PROVE  Owning'
<1>1. ASSUME NEW c \in Builds, c # b
      PROVE  /\ ~HoldsSlot(c) /\ ~HoldsSlot(c)'
             /\ build'[c].pc \notin {"start", "phase"}
    <2>1. ~HoldsSlot(c) /\ build'[c] = build[c]
        BY <1>1 DEF Owning
    <2>. QED BY <2>1 DEF HoldsSlot, Commands
<1>2. \A c, d \in Builds : HoldsSlot(c)' /\ HoldsSlot(d)' => c = d
    BY <1>1
<1>. QED BY <1>1, <1>2 DEF Owning

LEMMA OwningStep ==
    ASSUME ScratchBuildAssumption, IsFiniteSet(Builds), MaxParallel = 1,
           IndInv, Owning, [Next]_vars
    PROVE  Owning'
<1>0. Typed /\ Working
    BY DEF IndInv
<1>1. ASSUME NEW b \in Builds, NEW where \in PCs \ {"start", "phase"},
             build'[b].pc = where, HoldsSlot(b)' => HoldsSlot(b),
             \A c \in Builds : c # b => build'[c] = build[c],
             UNCHANGED <<strays, stranded, container>>
      PROVE  Owning'
    <2>1. ASSUME NEW c \in Builds
          PROVE  /\ HoldsSlot(c)' => HoldsSlot(c)
                 /\ build'[c].pc \in {"start", "phase"} => build'[c].pc = build[c].pc
        BY <1>1 DEF HoldsSlot
    <2>. QED BY <1>1, <2>1, OwningKept
<1>2. ASSUME NEW b \in Builds, Start(b) PROVE Owning'
    <2>1. /\ build'[b].pc = "queue" /\ "queue" \in PCs \ {"start", "phase"}
          /\ \A c \in Builds : c # b => build'[c] = build[c]
        BY <1>0, <1>2, BuildGoes DEF Start, PCs
    <2>. QED BY <1>1, <1>2, <2>1 DEF Start, HoldsSlot, Commands
<1>3. ASSUME NEW b \in Builds, TakeSlot(b) PROVE Owning'
    <2>1. /\ build'[b].pc = "prepare"
          /\ \A c \in Builds : c # b => build'[c] = build[c]
        BY <1>0, <1>3, BuildGoes DEF TakeSlot, PCs, Commands
    <2>2. \A c \in Builds : ~HoldsSlot(c)
        <3>1. {c \in Builds : HoldsSlot(c)} \in SUBSET Builds
            OBVIOUS
        <3>2. Slots \in Nat
            BY <3>1, FS_Subset, FS_CardinalityType DEF Slots
        <3>. QED BY <1>3, <3>2, NoSlotHeld DEF TakeSlot
    <2>3. ASSUME NEW c \in Builds, c # b
          PROVE  ~HoldsSlot(c)' /\ build'[c].pc \notin {"start", "phase"}
        BY <2>1, <2>2, <2>3 DEF HoldsSlot, Commands
    <2>4. \A c, d \in Builds : HoldsSlot(c)' /\ HoldsSlot(d)' => c = d
        BY <2>3
    <2>. QED BY <1>3, <2>1, <2>3, <2>4 DEF Owning, TakeSlot
<1>4. ASSUME NEW b \in Builds, LeaveQueue(b) PROVE Owning'
    <2>1. build'[b].pc = "over" /\ \A c \in Builds : c # b => build'[c] = build[c]
        BY <1>0, <1>4 DEF LeaveQueue, Typed
    <2>2. ~HoldsSlot(b)' /\ "over" \in PCs \ {"start", "phase"}
        BY <2>1 DEF HoldsSlot, Commands, PCs
    <2>. QED BY <1>1, <1>4, <2>1, <2>2 DEF LeaveQueue
<1>5. ASSUME NEW b \in Builds, Finish(b) PROVE Owning'
    <2>1. build'[b].pc = "answer" /\ \A c \in Builds : c # b => build'[c] = build[c]
        BY <1>0, <1>5 DEF Finish, Typed
    <2>2. HoldsSlot(b) /\ "answer" \in PCs \ {"start", "phase"}
        BY <1>5 DEF Finish, HoldsSlot, PCs
    <2>. QED BY <1>1, <1>5, <2>1, <2>2 DEF Finish
<1>6. ASSUME NEW b \in Builds, Answer(b) PROVE Owning'
    <2>1. build'[b].pc = "release" /\ \A c \in Builds : c # b => build'[c] = build[c]
        BY <1>0, <1>6 DEF Answer, Typed
    <2>2. HoldsSlot(b) /\ "release" \in PCs \ {"start", "phase"}
        BY <1>6 DEF Answer, HoldsSlot, PCs
    <2>. QED BY <1>1, <1>6, <2>1, <2>2 DEF Answer
<1>7. ASSUME NEW b \in Builds, Release(b) PROVE Owning'
    <2>1. /\ build'[b].pc = "over" /\ "over" \in PCs \ {"start", "phase"}
          /\ \A c \in Builds : c # b => build'[c] = build[c]
        BY <1>0, <1>7, BuildGoes DEF Release, PCs
    <2>. QED BY <1>1, <1>7, <2>1 DEF Release, HoldsSlot, Commands
<1>8. ASSUME NEW b \in Builds, Ask(b) \/ Asked(b) PROVE Owning'
    BY <1>8, OwningKept DEF Ask, Asked, HoldsSlot
<1>9. ASSUME NEW b \in Builds, AskNot(b) PROVE Owning'
    <2>1. build[b].pc \in Commands
        BY <1>9 DEF AskNot, ContextOver, Commands
    <2>2. /\ \A c \in Builds : c # b => build'[c] = build[c]
          /\ build'[b].pc \notin {"start", "phase"}
        BY <1>0, <1>9, <2>1, MoveIs DEF AskNot
    <2>. QED BY <1>9, <2>1, <2>2, OwningMoves DEF AskNot, HoldsSlot
<1>10. ASSUME NEW b \in Builds, AskFails(b) \/ StopPolling(b) PROVE Owning'
    <2>1. build[b].pc \in Commands /\ Move(b, FALSE)
        BY <1>0, <1>10 DEF AskFails, StopPolling, Working
    <2>2. /\ \A c \in Builds : c # b => build'[c] = build[c]
          /\ build'[b].pc \notin {"start", "phase"}
        BY <1>0, <2>1, MoveIs
    <2>3. ~stranded' => ~stranded /\ strays' = strays
        BY <1>10 DEF AskFails, StopPolling, Strand
    <2>. QED BY <2>1, <2>2, <2>3, OwningMoves DEF HoldsSlot
<1>11. ASSUME NEW b \in Builds, CommandEnds(b) PROVE Owning'
    <2>1. build[b].pc \in Commands /\ Move(b, TRUE)
        BY <1>0, <1>11 DEF CommandEnds, Working
    <2>2. /\ \A c \in Builds : c # b => build'[c] = build[c]
          /\ build'[b].pc = "start" => build[b].pc = "prepare"
          /\ build'[b].pc = "phase" => build[b].pc \in {"start", "phase"}
        BY <1>0, <2>1, MoveIs
    <2>3. build[b].pc = "prepare" => container' = {}
        BY <1>11 DEF CommandEnds, Effect
    <2>4. build[b].pc = "start" /\ ~stranded => container' = {b}
        BY <1>11 DEF CommandEnds, Effect, Owning
    <2>5. build[b].pc = "phase" /\ ~stranded => container' = {b}
        BY <1>11 DEF CommandEnds, Effect, Owning
    <2>. QED BY <1>11, <2>1, <2>2, <2>3, <2>4, <2>5, OwningMoves DEF CommandEnds, HoldsSlot
<1>12. ASSUME NEW b \in Builds, CommandFails(b) PROVE Owning'
    <2>1. build[b].pc \in Commands /\ Move(b, FALSE)
        BY <1>0, <1>12 DEF CommandFails, Working
    <2>2. /\ \A c \in Builds : c # b => build'[c] = build[c]
          /\ build'[b].pc \notin {"start", "phase"}
        BY <1>0, <2>1, MoveIs
    <2>. QED BY <1>12, <2>1, <2>2, OwningMoves DEF CommandFails, HoldsSlot
<1>13. ASSUME StrayEnds PROVE Owning'
    <2>1. stranded /\ stranded' /\ build' = build
        BY <1>0, <1>13 DEF StrayEnds, Owning, Typed
    <2>. QED BY <2>1 DEF Owning, HoldsSlot
<1>14. ASSUME CloseBegins \/ CloseWaits PROVE Owning'
    BY <1>14, OwningKept DEF CloseBegins, CloseWaits, HoldsSlot
<1>15. ASSUME NEW b \in Builds, CancelHandle(b) PROVE Owning'
    <2>1. \A c \in Builds : build'[c].pc = build[c].pc
        BY <1>0, <1>15 DEF CancelHandle, Typed, BuildRecs
    <2>. QED BY <1>15, <2>1, OwningKept DEF CancelHandle, HoldsSlot
<1>16. CASE UNCHANGED vars
    BY <1>16, OwningKept DEF vars, HoldsSlot
<1>. QED BY <1>2, <1>3, <1>4, <1>5, <1>6, <1>7, <1>8, <1>9, <1>10, <1>11, <1>12, <1>13,
            <1>14, <1>15, <1>16 DEF Next, Drive, CloseSteps

-----------------------------------------------------------------------------
LEMMA InitInv == ASSUME ScratchBuildAssumption, Init PROVE IndInv /\ Owning
<1>1. Typed
    <2>. DEFINE r == [pc |-> "idle", phase |-> 0, err |-> FALSE,
                      status |-> "starting", result |-> "none"]
    <2>1. "idle" \in PCs /\ 0 \in 0 .. Phases /\ 0 \in 0 .. MaxFaults
        BY DEF PCs, ScratchBuildAssumption
    <2>2. r \in BuildRecs
        BY <2>1, Zenon DEF BuildRecs
    <2>3. [pc |-> "idle", todo |-> {}] \in CloseRecs
        BY DEF CloseRecs
    <2>4. build = [b \in Builds |-> r]
        BY DEF Init
    <2>. HIDE DEF r
    <2>5. build \in [Builds -> BuildRecs]
        BY <2>2, <2>4
    <2>. QED BY <2>1, <2>3, <2>5 DEF Init, Typed
<1>2. Working
    BY DEF Init, Working
<1>3. Closing
    BY DEF Init, Closing
<1>4. Owning
    BY DEF Init, Owning, HoldsSlot, Commands
<1>. QED BY <1>1, <1>2, <1>3, <1>4 DEF IndInv

LEMMA Inductive ==
    ASSUME ScratchBuildAssumption, IsFiniteSet(Builds)
    PROVE  Spec => []IndInv
<1>1. Init => IndInv
    BY InitInv
<1>2. IndInv /\ [Next]_vars => IndInv'
    BY Step
<1>. QED BY <1>1, <1>2, PTL DEF Spec

\* The builds, their commands and Close keep their types.
THEOREM TypeCorrect ==
    ASSUME ScratchBuildAssumption, IsFiniteSet(Builds)
    PROVE  Spec => []TypeOK
<1>1. IndInv => TypeOK
    BY TypedIsTypeOK DEF IndInv
<1>. QED BY <1>1, Inductive, PTL

\* After DockerRunExecutor.Close no build, not even one that takes its slot then, has a
\* command accepted.
THEOREM NothingAfterClose ==
    ASSUME ScratchBuildAssumption, IsFiniteSet(Builds)
    PROVE  Spec => []ClosedIsQuiet
<1>1. IndInv => ClosedIsQuiet
    BY DEF IndInv, Closing, ClosedIsQuiet
<1>. QED BY <1>1, Inductive, PTL

\* With one slot, the containers of runBuild are the running build's own, unless some
\* command was left running.
THEOREM OneBuildOneContainer ==
    ASSUME ScratchBuildAssumption, IsFiniteSet(Builds), MaxParallel = 1
    PROVE  Spec => []OnlyItsContainer
<1>1. Init => Owning
    BY InitInv
<1>2. IndInv /\ Owning /\ [Next]_vars => Owning'
    BY OwningStep
<1>3. Owning => OnlyItsContainer
    BY DEF Owning, OnlyItsContainer
<1>. QED BY <1>1, <1>2, <1>3, Inductive, PTL DEF Spec
=============================================================================
