---------------------------- MODULE ScratchVMProofs ----------------------------
(***************************************************************************)
(* What the teardown paths of a scratch leave behind, proved for any set   *)
(* of scratches and zones and any number of faults.                        *)
(*                                                                         *)
(* The argument: a create call is the only one that makes VMs, makes them  *)
(* in the zone it has in hand, and makes no more once it has one; while it *)
(* runs its record is too fresh for the reaper; so whoever tears a scratch *)
(* down finds a create that has handed it out or given it up, and marks    *)
(* the record before it touches the VM.                                    *)
(***************************************************************************)
EXTENDS ScratchVM, TLAPS

NoVM(s) == \A z \in Zones : <<s, z>> \notin vms

\* A create call up to the moment it hands the scratch out, and after the moment
\* it has handed it out or given it up.
Pre == {"pick", "insert", "update", "probe", "ready"}
Post == {"cleanup_vm", "cleanup_state", "failed", "crashed", "done"}

Fresh(s) == clock <= rec[s].updated + MaxCreate

ScratchInv(s) ==
    /\ \A z \in Zones : <<s, z>> \in vms =>
        z = create[s].zone /\ create[s].pc \notin {"idle", "pick", "insert"}
    /\ create[s].pc = "idle" => rec[s].state = "none"
    /\ create[s].pc \in Pre => rec[s].state = "starting" /\ Fresh(s)
    /\ create[s].pc \in {"probe", "ready", "done"} => rec[s].zone = create[s].zone
    /\ create[s].pc = "ready" => <<s, create[s].zone>> \in vms
    /\ create[s].pc = "done" =>
        /\ rec[s].state \in {"ready", "deleting", "deleted"}
        /\ rec[s].state = "ready" => <<s, create[s].zone>> \in vms
    /\ delete[s] # "idle" => create[s].pc = "done"
    /\ delete[s] \in {"delete_vm", "deleted"} => rec[s].state \in {"deleting", "deleted"}

\* A scratch that was handed out and marked stays marked.
Marked(s) == create[s].pc = "done" => rec[s].state \in {"deleting", "deleted"}

PassInv ==
    /\ reap.at <= clock
    /\ reap.pc \in {"mark", "delete_vm", "deleted"} =>
        reap.s \in Scratches /\ reap.listed[reap.s].state # "none"
    /\ reap.pc \in {"delete_vm", "deleted"} => Marked(reap.s)
    /\ \A s \in Scratches :
        /\ reap.listed[s].state # "none" =>
            /\ create[s].pc \in Post
            /\ create[s].pc = "done" => reap.listed[s].zone = create[s].zone
        /\ reap.listed[s].state = "deleting" => Marked(s)
    /\ \A s \in reap.todo : reap.listed[s].state # "none"

IndInv ==
    /\ TypeOK
    /\ \A s \in Scratches : ScratchInv(s)
    /\ PassInv

-----------------------------------------------------------------------------
USE ScratchVMAssumption
USE DEF States, CreateOver, CreatePCs

\* The parts of a step that keep their types wherever they are used.
LEMMA FaultType ==
    ASSUME TypeOK, NEW kind, Fault(kind) \/ UNCHANGED faults
    PROVE  faults' \in 0 .. MaxFaults
    BY DEF TypeOK, Fault

Times == {ZeroTime} \cup Start .. MaxClock

LEMMA RecordType ==
    ASSUME NEW r \in Records, NEW st \in States, NEW t \in Times
    PROVE  /\ [r EXCEPT !.state = st, !.updated = t] \in Records
           /\ [r EXCEPT !.lastUsed = t, !.updated = t] \in Records
    BY DEF Records, Times

LEMMA SetStateType ==
    ASSUME TypeOK, NEW s, NEW st \in States,
           SetState(s, st) \/ UNCHANGED rec
    PROVE  rec' \in [Scratches -> Records]
<1>1. rec \in [Scratches -> Records] /\ clock \in Times
    BY DEF TypeOK, Times
<1>2. CASE SetState(s, st) /\ s \in Scratches
    <2>1. [rec[s] EXCEPT !.state = st, !.updated = clock] \in Records
        BY <1>1, <1>2, RecordType
    <2>2. rec' = [rec EXCEPT ![s] = [rec[s] EXCEPT !.state = st, !.updated = clock]]
        BY <1>1, <1>2 DEF SetState
    <2>. QED BY <1>1, <2>1, <2>2
<1>3. CASE SetState(s, st) /\ s \notin Scratches
    BY <1>1, <1>3 DEF SetState
<1>. QED BY <1>1, <1>2, <1>3

CreateTypes == [pc : CreatePCs, zone : Zones \cup {NoZone}, left : SUBSET Zones]

LEMMA CreateRecordType ==
    ASSUME NEW c \in CreateTypes, NEW where \in CreatePCs, NEW left \in SUBSET Zones
    PROVE  /\ [c EXCEPT !.pc = where] \in CreateTypes
           /\ [c EXCEPT !.pc = where, !.left = left] \in CreateTypes
           /\ [c EXCEPT !.left = left, !.pc = where] \in CreateTypes
    BY DEF CreateTypes

LEMMA CreateToType ==
    ASSUME TypeOK, NEW s \in Scratches, NEW where \in CreatePCs, CreateTo(s, where)
    PROVE  create' \in [Scratches -> CreateTypes]
<1>1. create \in [Scratches -> CreateTypes]
    BY DEF TypeOK, CreateTypes
<1>2. [create[s] EXCEPT !.pc = where] \in CreateTypes
    BY <1>1, CreateRecordType
<1>3. create' = [create EXCEPT ![s] = [create[s] EXCEPT !.pc = where]]
    BY <1>1, <1>2 DEF CreateTo
<1>. QED BY <1>1, <1>2, <1>3

LEMMA DeleteInstanceType ==
    ASSUME TypeOK, NEW s, NEW z, DeleteInstance(s, z)
    PROVE  vms' \subseteq Scratches \X Zones /\ faults' \in 0 .. MaxFaults
    BY FaultType DEF TypeOK, DeleteInstance

ReapTypes == [pc : {"idle", "list", "next", "mark", "delete_vm", "deleted"},
              at : Start .. MaxClock, s : Scratches \cup {"none"},
              todo : SUBSET Scratches, listed : [Scratches -> Records]]

LEMMA NoRecordType == NoRecord \in Records
    BY DEF NoRecord, Records

LEMMA NoPassType ==
    ASSUME TypeOK
    PROVE  NoPass \in ReapTypes /\ [NoPass EXCEPT !.at = reap.at] \in ReapTypes
    BY NoRecordType DEF TypeOK, NoPass, ReapTypes, Start

LEMMA SkipType ==
    ASSUME TypeOK, NEW s, Skip(s)
    PROVE  reap' \in ReapTypes
    BY DEF TypeOK, Skip, ReapTypes

LEMMA ReapToType ==
    ASSUME TypeOK, NEW where \in {"mark", "delete_vm", "deleted"}, ReapTo(where)
    PROVE  reap' \in ReapTypes
    BY DEF TypeOK, ReapTo, ReapTypes

\* Every step keeps the variables in their types.
LEMMA TypeStep == TypeOK /\ [Next]_vars => TypeOK'
<1>. SUFFICES ASSUME TypeOK, [Next]_vars
              PROVE  TypeOK'
    OBVIOUS
<1>. USE DEF TypeOK
<1>1. CASE UNCHANGED vars
    BY <1>1 DEF vars
<1>2. CASE Tick
    BY <1>2 DEF Tick, Start
<1>3. ASSUME NEW s \in Scratches,
             CreateInsert(s) \/ CreatePick(s) \/ CreateCrash(s) \/ Use(s)
      PROVE  TypeOK'
    <2>1. CASE CreateInsert(s)
        <3>1. rec' \in [Scratches -> Records]
            BY <2>1 DEF CreateInsert, NoRecord, Records
        <3>. QED BY <2>1, <3>1, CreateToType DEF CreateInsert, creating, CreateTypes
    <2>2. CASE CreatePick(s)
        <3>1. until' \in [Zones -> 0 .. MaxClock + CooldownTTL]
            BY <2>2 DEF CreatePick
        <3>2. Active \subseteq Zones
            BY DEF Active
        <3>3. [create[s] EXCEPT !.pc = "insert", !.left = IF Active = {} THEN Zones ELSE Active]
                \in CreateTypes
            <4>1. create[s] \in CreateTypes
                BY DEF CreateTypes
            <4>. QED BY <3>2, <4>1, CreateRecordType
        <3>4. create' \in [Scratches -> CreateTypes]
            <4>1. create \in [Scratches -> CreateTypes]
                BY DEF CreateTypes
            <4>. QED BY <2>2, <3>3, <4>1 DEF CreatePick
        <3>. QED BY <2>2, <3>1, <3>4 DEF CreatePick, creating, CreateTypes
    <2>3. CASE CreateCrash(s)
        BY <2>3, CreateToType, FaultType DEF CreateCrash, creating, CreateTypes
    <2>4. CASE Use(s)
        <3>1. [rec[s] EXCEPT !.lastUsed = clock, !.updated = clock] \in Records
            BY RecordType DEF Times
        <3>2. rec' \in [Scratches -> Records]
            BY <2>4, <3>1 DEF Use
        <3>. QED BY <2>4, <3>2 DEF Use, creating
    <2>. QED BY <1>3, <2>1, <2>2, <2>3, <2>4
<1>4. ASSUME NEW s \in Scratches,
             CreateVM(s) \/ CreateStockout(s) \/ CreateVMFails(s)
      PROVE  TypeOK'
    <2>1. CASE CreateVM(s)
        BY <2>1 DEF CreateVM, creating, Leave
    <2>2. CASE CreateStockout(s)
        <3>1. PICK z \in Zones : /\ until' = [until EXCEPT ![z] = clock + CooldownTTL]
                                /\ FallThrough(s, z)
            BY <2>2 DEF CreateStockout
        <3>2. clock + CooldownTTL \in 0 .. MaxClock + CooldownTTL
            BY DEF Start
        <3>3. until' \in [Zones -> 0 .. MaxClock + CooldownTTL]
            BY <3>1, <3>2
        <3>4. \A pc \in CreatePCs :
                [create[s] EXCEPT !.left = create[s].left \ {z}, !.pc = pc] \in CreateTypes
            <4>1. create[s] \in CreateTypes /\ create[s].left \ {z} \in SUBSET Zones
                BY DEF CreateTypes
            <4>. QED BY <4>1, CreateRecordType
        <3>5. create' \in [Scratches -> CreateTypes]
            <4>1. create \in [Scratches -> CreateTypes]
                BY DEF CreateTypes
            <4>. QED BY <3>1, <3>4, <4>1 DEF FallThrough
        <3>. QED BY <2>2, <3>3, <3>5 DEF CreateStockout, creating, CreateTypes
    <2>3. CASE CreateVMFails(s)
        BY <2>3, FaultType DEF CreateVMFails, creating, Leave
    <2>. QED BY <1>4, <2>1, <2>2, <2>3
<1>5. ASSUME NEW s \in Scratches,
             CreateUpdate(s) \/ CreateProbe(s) \/ CreateReady(s) \/ CleanupVM(s)
                \/ CleanupState(s)
      PROVE  TypeOK'
    <2>. USE DEF creating, Written, WriteFails
    <2>1. CASE CreateUpdate(s)
        <3>1. [state |-> "starting", zone |-> create[s].zone, lastUsed |-> clock,
               updated |-> clock] \in Records
            BY DEF Records
        <3>2. rec' \in [Scratches -> Records]
            BY <2>1, <3>1 DEF CreateUpdate, Provisioned
        <3>. QED BY <2>1, <3>2, CreateToType, FaultType DEF CreateUpdate, CreateTypes
    <2>2. CASE CreateProbe(s)
        BY <2>2, CreateToType DEF CreateProbe, CreateTypes
    <2>3. CASE CreateReady(s)
        BY <2>3, CreateToType, SetStateType, FaultType DEF CreateReady, CreateTypes
    <2>4. CASE CleanupVM(s)
        BY <2>4, CreateToType, DeleteInstanceType DEF CleanupVM, CreateTypes
    <2>5. CASE CleanupState(s)
        BY <2>5, CreateToType, SetStateType, FaultType DEF CleanupState, CreateTypes
    <2>. QED BY <1>5, <2>1, <2>2, <2>3, <2>4, <2>5
<1>6. ASSUME NEW s \in Scratches,
             DeleteMark(s) \/ DeleteVM(s) \/ DeleteDone(s) \/ DeleteCrash(s)
      PROVE  TypeOK'
    <2>. USE DEF deletes, DeleteTo, Written, WriteFails
    <2>1. CASE DeleteMark(s)
        BY <2>1, SetStateType, FaultType DEF DeleteMark
    <2>2. CASE DeleteVM(s)
        BY <2>2, DeleteInstanceType DEF DeleteVM
    <2>3. CASE DeleteDone(s)
        BY <2>3, SetStateType, FaultType DEF DeleteDone
    <2>4. CASE DeleteCrash(s)
        BY <2>4, FaultType DEF DeleteCrash
    <2>. QED BY <1>6, <2>1, <2>2, <2>3, <2>4
<1>7. CASE ReapBegin \/ ReapStep \/ ReapCrash
    <2>. USE DEF reaping, Written, WriteFails
    <2>. SUFFICES reap' \in ReapTypes /\ rec' \in [Scratches -> Records]
                    /\ vms' \subseteq Scratches \X Zones /\ faults' \in 0 .. MaxFaults
        BY <1>7 DEF ReapTypes, ReapBegin, ReapStep, ReapCrash, ReapList, ReapRecheck,
            ReapMark, ReapDeleteVM, ReapDeleted, ReapEnd
    <2>1. CASE ReapBegin
        BY <2>1 DEF ReapBegin, ReapTypes
    <2>2. CASE ReapList
        BY <2>2, NoRecordType DEF ReapList, ReapTypes
    <2>3. ASSUME NEW s \in Scratches, ReapRecheck(s)
          PROVE  /\ reap' \in ReapTypes /\ rec' \in [Scratches -> Records]
                 /\ vms' \subseteq Scratches \X Zones /\ faults' \in 0 .. MaxFaults
        <3>1. reap' \in ReapTypes
            <4>1. CASE Skip(s)
                BY <4>1, SkipType
            <4>2. CASE ~Skip(s)
                BY <2>3, <4>2 DEF ReapRecheck, ReapTypes
            <4>. QED BY <4>1, <4>2
        <3>. QED BY <2>3, <3>1, FaultType DEF ReapRecheck
    <2>4. CASE ReapMark
        BY <2>4, SetStateType, FaultType, SkipType, ReapToType DEF ReapMark
    <2>5. CASE ReapDeleteVM
        BY <2>5, DeleteInstanceType, ReapToType DEF ReapDeleteVM
    <2>6. CASE ReapDeleted
        BY <2>6, SetStateType, FaultType, SkipType DEF ReapDeleted
    <2>7. CASE ReapEnd
        BY <2>7, NoPassType DEF ReapEnd
    <2>8. CASE ReapCrash
        BY <2>8, FaultType, NoPassType DEF ReapCrash
    <2>. QED BY <1>7, <2>1, <2>2, <2>3, <2>4, <2>5, <2>6, <2>7, <2>8 DEF ReapStep
<1>. QED BY <1>1, <1>2, <1>3, <1>4, <1>5, <1>6, <1>7 DEF Next, Create, Delete

-----------------------------------------------------------------------------
\* A scratch nothing of which changes keeps its invariant.
Same(t) ==
    /\ rec'[t] = rec[t] /\ create'[t] = create[t] /\ delete'[t] = delete[t]
    /\ clock' = clock
    /\ \A z : <<t, z>> \in vms' <=> <<t, z>> \in vms

LEMMA SameKeeps ==
    ASSUME NEW t \in Scratches, ScratchInv(t), Same(t)
    PROVE  ScratchInv(t)'
    BY DEF ScratchInv, Same, Fresh, Pre

\* What a pass relies on: what was past its create stays so, and stays marked.
Steady(t) ==
    create[t].pc \in Post =>
        /\ create'[t].pc \in Post /\ (Marked(t) => Marked(t)')
        /\ create'[t].pc = "done" => create[t].pc = "done" /\ create'[t].zone = create[t].zone

LEMMA SteadyKeeps ==
    ASSUME PassInv, reap' = reap, clock <= clock', clock \in Int, clock' \in Int,
           reap.at \in Int, reap.todo \subseteq Scratches,
           \A t \in Scratches : Steady(t)
    PROVE  PassInv'
    BY DEF PassInv, Steady, Marked

\* A step of a call on s leaves the other scratches alone.
LEMMA OnlyOne ==
    ASSUME IndInv, NEW s \in Scratches, ScratchInv(s)', Steady(s),
           reap' = reap, clock' = clock,
           \A t \in Scratches \ {s} : Same(t)
    PROVE  (\A t \in Scratches : ScratchInv(t)') /\ PassInv'
<1>1. \A t \in Scratches : ScratchInv(t)'
    BY SameKeeps DEF IndInv
<1>2. \A t \in Scratches : Steady(t)
    BY DEF Same, Steady, Marked
<1>3. clock \in Int /\ reap.at \in Int /\ reap.todo \subseteq Scratches
    BY DEF IndInv, TypeOK, Start
<1>. QED BY <1>1, <1>2, <1>3, SteadyKeeps DEF IndInv

LEMMA CreateKeeps ==
    ASSUME IndInv, TypeOK', NEW s \in Scratches,
           CreateInsert(s) \/ Create(s) \/ CreateCrash(s) \/ Use(s)
    PROVE  (\A t \in Scratches : ScratchInv(t)') /\ PassInv'
<1>. USE DEF creating, CreateTo
<1>0. /\ ScratchInv(s) /\ TypeOK
      /\ clock \in Nat /\ rec[s].updated \in Nat /\ MaxCreate \in Nat
    BY DEF IndInv, TypeOK, Records, Start, ZeroTime
<1>1. CASE CreateInsert(s)
    <2>1. ScratchInv(s)' /\ Steady(s)
        BY <1>0, <1>1 DEF CreateInsert, NoRecord, ScratchInv, Steady, Fresh, Pre, Post, TypeOK
    <2>2. \A t \in Scratches \ {s} : Same(t)
        BY <1>0, <1>1 DEF CreateInsert, Same, TypeOK
    <2>. QED BY <1>1, <2>1, <2>2, OnlyOne DEF CreateInsert
<1>2. CASE CreatePick(s)
    <2>1. ScratchInv(s)' /\ Steady(s)
        <3>1. create'[s].pc = "insert" /\ create'[s].zone = create[s].zone
            <4>1. create'[s] = [create[s] EXCEPT !.pc = "insert",
                                    !.left = IF Active = {} THEN Zones ELSE Active]
                BY <1>0, <1>2 DEF CreatePick, TypeOK
            <4>2. create[s] \in CreateTypes
                BY <1>0 DEF TypeOK, CreateTypes
            <4>. QED BY <4>1, <4>2 DEF CreateTypes
        <3>. QED BY <1>0, <1>2, <3>1 DEF CreatePick, ScratchInv, Steady, Fresh, Pre, Post
    <2>2. \A t \in Scratches \ {s} : Same(t)
        BY <1>0, <1>2, ZenonT(60) DEF CreatePick, Same, TypeOK
    <2>. QED BY <1>2, <2>1, <2>2, OnlyOne DEF CreatePick
<1>3. CASE CreateVM(s)
    <2>1. ScratchInv(s)' /\ Steady(s)
        BY <1>0, <1>3 DEF CreateVM, Trying, Leave, ScratchInv, Steady, Fresh, Pre, Post, TypeOK
    <2>2. \A t \in Scratches \ {s} : Same(t)
        BY <1>0, <1>3 DEF CreateVM, Leave, Same, TypeOK
    <2>. QED BY <1>3, <2>1, <2>2, OnlyOne DEF CreateVM
<1>4. CASE CreateStockout(s)
    <2>1. ScratchInv(s)' /\ Steady(s)
        <3>1. /\ create[s].pc = "insert"
              /\ create'[s].pc \in {"insert", "cleanup_state"}
              /\ create'[s].zone = create[s].zone
            <4>1. PICK z \in Zones : Trying(s, z) /\ FallThrough(s, z)
                BY <1>4 DEF CreateStockout
            <4>2. create'[s] = [create[s] EXCEPT !.left = create[s].left \ {z},
                                    !.pc = IF create[s].left = {z} THEN "cleanup_state"
                                                                  ELSE "insert"]
                BY <1>0, <4>1 DEF FallThrough, TypeOK
            <4>3. create[s] \in CreateTypes
                BY <1>0 DEF TypeOK, CreateTypes
            <4>. QED BY <4>1, <4>2, <4>3 DEF CreateTypes, Trying
        <3>. QED BY <1>0, <1>4, <3>1 DEF CreateStockout, ScratchInv, Steady, Fresh, Pre, Post
    <2>2. \A t \in Scratches \ {s} : Same(t)
        BY <1>0, <1>4 DEF CreateStockout, FallThrough, Same, TypeOK
    <2>. QED BY <1>4, <2>1, <2>2, OnlyOne DEF CreateStockout
<1>5. CASE CreateVMFails(s)
    <2>1. ScratchInv(s)' /\ Steady(s)
        BY <1>0, <1>5 DEF CreateVMFails, Trying, Leave, ScratchInv, Steady, Fresh, Pre, Post,
            TypeOK
    <2>2. \A t \in Scratches \ {s} : Same(t)
        BY <1>0, <1>5 DEF CreateVMFails, Leave, Same, TypeOK
    <2>. QED BY <1>5, <2>1, <2>2, OnlyOne DEF CreateVMFails
<1>6. CASE CreateUpdate(s)
    <2>. USE DEF Written, WriteFails, Provisioned
    <2>1. ScratchInv(s)' /\ Steady(s)
        BY <1>0, <1>6 DEF CreateUpdate, ScratchInv, Steady, Fresh, Pre, Post, TypeOK
    <2>2. \A t \in Scratches \ {s} : Same(t)
        BY <1>0, <1>6 DEF CreateUpdate, Same, TypeOK
    <2>. QED BY <1>6, <2>1, <2>2, OnlyOne DEF CreateUpdate
<1>7. CASE CreateProbe(s)
    <2>1. ScratchInv(s)' /\ Steady(s)
        <3>1. /\ create[s].pc = "probe"
              /\ \/ create'[s].pc = "ready" /\ <<s, create[s].zone>> \in vms
                 \/ create'[s].pc = "cleanup_vm"
              /\ create'[s].zone = create[s].zone
            BY <1>0, <1>7 DEF CreateProbe, TypeOK
        <3>. QED BY <1>0, <1>7, <3>1 DEF CreateProbe, ScratchInv, Steady, Fresh, Pre, Post
    <2>2. \A t \in Scratches \ {s} : Same(t)
        BY <1>0, <1>7 DEF CreateProbe, Same, TypeOK
    <2>. QED BY <1>7, <2>1, <2>2, OnlyOne DEF CreateProbe
<1>8. CASE CreateReady(s)
    <2>. USE DEF Written, WriteFails, SetState
    <2>1. ScratchInv(s)' /\ Steady(s)
        <3>1. /\ create[s].pc = "ready" /\ create'[s].zone = create[s].zone
              /\ \/ create'[s].pc = "done" /\ rec'[s].state = "ready"
                 \/ create'[s].pc = "cleanup_vm" /\ rec'[s].state = "ready"
                 \/ create'[s].pc = "cleanup_vm" /\ rec'[s] = rec[s]
              /\ rec'[s].zone = rec[s].zone
            BY <1>0, <1>8 DEF CreateReady, TypeOK, Records
        <3>. QED BY <1>0, <1>8, <3>1 DEF CreateReady, ScratchInv, Steady, Fresh, Pre, Post
    <2>2. \A t \in Scratches \ {s} : Same(t)
        BY <1>0, <1>8 DEF CreateReady, Same, TypeOK
    <2>. QED BY <1>8, <2>1, <2>2, OnlyOne DEF CreateReady
<1>9. CASE CleanupVM(s)
    <2>1. ScratchInv(s)' /\ Steady(s)
        BY <1>0, <1>9 DEF CleanupVM, DeleteInstance, ScratchInv, Steady, Fresh, Pre, Post,
            Marked, TypeOK
    <2>2. \A t \in Scratches \ {s} : Same(t)
        BY <1>0, <1>9 DEF CleanupVM, DeleteInstance, Same, TypeOK
    <2>. QED BY <1>9, <2>1, <2>2, OnlyOne DEF CleanupVM
<1>10. CASE CleanupState(s)
    <2>. USE DEF Written, WriteFails, SetState
    <2>1. ScratchInv(s)' /\ Steady(s)
        BY <1>0, <1>10 DEF CleanupState, ScratchInv, Steady, Fresh, Pre, Post, Marked, TypeOK
    <2>2. \A t \in Scratches \ {s} : Same(t)
        BY <1>0, <1>10 DEF CleanupState, Same, TypeOK
    <2>. QED BY <1>10, <2>1, <2>2, OnlyOne DEF CleanupState
<1>11. CASE CreateCrash(s)
    <2>1. ScratchInv(s)' /\ Steady(s)
        BY <1>0, <1>11 DEF CreateCrash, Creating, ScratchInv, Steady, Fresh, Pre, Post, Marked,
            TypeOK
    <2>2. \A t \in Scratches \ {s} : Same(t)
        BY <1>0, <1>11 DEF CreateCrash, Same, TypeOK
    <2>. QED BY <1>11, <2>1, <2>2, OnlyOne DEF CreateCrash
<1>12. CASE Use(s)
    <2>1. ScratchInv(s)' /\ Steady(s)
        BY <1>0, <1>12 DEF Use, ScratchInv, Steady, Fresh, Pre, Post, Marked, TypeOK
    <2>2. \A t \in Scratches \ {s} : Same(t)
        BY <1>0, <1>12 DEF Use, Same, TypeOK
    <2>. QED BY <1>12, <2>1, <2>2, OnlyOne DEF Use
<1>. QED BY <1>1, <1>2, <1>3, <1>4, <1>5, <1>6, <1>7, <1>8, <1>9, <1>10, <1>11, <1>12
        DEF Create

LEMMA DeleteKeeps ==
    ASSUME IndInv, TypeOK', NEW s \in Scratches,
           DeleteMark(s) \/ Delete(s) \/ DeleteCrash(s)
    PROVE  (\A t \in Scratches : ScratchInv(t)') /\ PassInv'
<1>. USE DEF deletes, DeleteTo
<1>0. /\ ScratchInv(s) /\ TypeOK
      /\ clock \in Nat /\ rec[s].updated \in Nat /\ MaxCreate \in Nat
    BY DEF IndInv, TypeOK, Records, Start, ZeroTime
<1>1. CASE DeleteMark(s)
    <2>. USE DEF Written, WriteFails, SetState
    <2>1. ScratchInv(s)' /\ Steady(s)
        <3>1. /\ create[s].pc = "done" /\ create'[s] = create[s]
              /\ rec'[s].zone = rec[s].zone
              /\ \/ delete'[s] = "delete_vm" /\ rec'[s].state = "deleting"
                 \/ delete'[s] = "over" /\ rec'[s].state \in {rec[s].state, "deleting"}
            BY <1>0, <1>1 DEF DeleteMark, TypeOK, Records
        <3>. QED BY <1>0, <1>1, <3>1 DEF DeleteMark, ScratchInv, Steady, Fresh, Pre, Post, Marked
    <2>2. \A t \in Scratches \ {s} : Same(t)
        BY <1>0, <1>1 DEF DeleteMark, Same, TypeOK
    <2>. QED BY <1>1, <2>1, <2>2, OnlyOne DEF DeleteMark
<1>2. CASE DeleteVM(s)
    <2>1. ScratchInv(s)' /\ Steady(s)
        BY <1>0, <1>2 DEF DeleteVM, DeleteInstance, ScratchInv, Steady, Fresh, Pre, Post, Marked,
            TypeOK
    <2>2. \A t \in Scratches \ {s} : Same(t)
        BY <1>0, <1>2 DEF DeleteVM, DeleteInstance, Same, TypeOK
    <2>. QED BY <1>2, <2>1, <2>2, OnlyOne DEF DeleteVM
<1>3. CASE DeleteDone(s)
    <2>. USE DEF Written, WriteFails, SetState
    <2>1. ScratchInv(s)' /\ Steady(s)
        <3>1. /\ delete[s] = "deleted" /\ create'[s] = create[s]
              /\ rec'[s].zone = rec[s].zone
              /\ delete'[s] = "over" /\ rec'[s].state \in {rec[s].state, "deleted"}
            BY <1>0, <1>3 DEF DeleteDone, TypeOK, Records
        <3>. QED BY <1>0, <1>3, <3>1 DEF DeleteDone, ScratchInv, Steady, Fresh, Pre, Post, Marked
    <2>2. \A t \in Scratches \ {s} : Same(t)
        BY <1>0, <1>3 DEF DeleteDone, Same, TypeOK
    <2>. QED BY <1>3, <2>1, <2>2, OnlyOne DEF DeleteDone
<1>4. CASE DeleteCrash(s)
    <2>1. ScratchInv(s)' /\ Steady(s)
        BY <1>0, <1>4 DEF DeleteCrash, ScratchInv, Steady, Fresh, Pre, Post, Marked, TypeOK
    <2>2. \A t \in Scratches \ {s} : Same(t)
        BY <1>0, <1>4 DEF DeleteCrash, Same, TypeOK
    <2>. QED BY <1>4, <2>1, <2>2, OnlyOne DEF DeleteCrash
<1>. QED BY <1>1, <1>2, <1>3, <1>4 DEF Delete

-----------------------------------------------------------------------------
\* The listing of a pass holds no scratch whose create is under way: those are
\* too fresh.
LEMMA IdleIsPost ==
    ASSUME IndInv, NEW s \in Scratches, IdleAt(rec[s], reap.at)
    PROVE  /\ create[s].pc \in Post
           /\ rec[s].state = "deleting" => Marked(s)
           /\ rec[s].state # "none"
<1>1. /\ ScratchInv(s) /\ create[s].pc \in CreatePCs
      /\ clock \in Nat /\ rec[s].updated \in Nat /\ reap.at \in Nat /\ reap.at <= clock
    BY DEF IndInv, PassInv, TypeOK, Records, Start, ZeroTime
<1>2. create[s].pc \notin Pre
    BY <1>1 DEF IdleAt, ScratchInv, Fresh, Pre
<1>3. create[s].pc # "idle"
    BY <1>1 DEF IdleAt, ScratchInv
<1>. QED BY <1>1, <1>2, <1>3 DEF IdleAt, Pre, Post, Marked

\* A step of a pass on a scratch past its create.
LEMMA PassStep ==
    ASSUME IndInv, NEW s \in Scratches, create[s].pc \in Post,
           clock' = clock, create' = create, delete' = delete,
           \/ UNCHANGED <<rec, vms>>
           \/ UNCHANGED vms /\ SetState(s, "deleting")
           \/ UNCHANGED vms /\ SetState(s, "deleted") /\ Marked(s)
           \/ UNCHANGED rec /\ Marked(s) /\ \E z : vms' = vms \ {<<s, z>>}
    PROVE  \A t \in Scratches : ScratchInv(t)' /\ Steady(t)
<1>1. ASSUME NEW t \in Scratches \ {s}
      PROVE  ScratchInv(t)' /\ Steady(t)
    <2>1. Same(t)
        BY DEF Same, SetState, IndInv, TypeOK
    <2>. QED BY <2>1, SameKeeps DEF IndInv, Same, Steady, Marked
<1>2. ScratchInv(s)' /\ Steady(s)
    <2>1. /\ ScratchInv(s) /\ rec[s] \in Records /\ rec \in [Scratches -> Records]
          /\ clock \in Nat /\ rec[s].updated \in Nat
        BY DEF IndInv, TypeOK, Records, Start, ZeroTime
    <2>2. CASE UNCHANGED <<rec, vms>>
        BY <2>1, <2>2 DEF ScratchInv, Steady, Marked, Fresh, Pre, Post
    <2>3. CASE UNCHANGED vms /\ SetState(s, "deleting")
        <3>1. rec'[s].state = "deleting" /\ rec'[s].zone = rec[s].zone
            BY <2>1, <2>3 DEF SetState, Records
        <3>. QED BY <2>1, <2>3, <3>1 DEF ScratchInv, Steady, Marked, Fresh, Pre, Post
    <2>4. CASE UNCHANGED vms /\ SetState(s, "deleted") /\ Marked(s)
        <3>1. rec'[s].state = "deleted" /\ rec'[s].zone = rec[s].zone
            BY <2>1, <2>4 DEF SetState, Records
        <3>. QED BY <2>1, <2>4, <3>1 DEF ScratchInv, Steady, Marked, Fresh, Pre, Post
    <2>5. CASE UNCHANGED rec /\ Marked(s) /\ \E z : vms' = vms \ {<<s, z>>}
        BY <2>1, <2>5 DEF ScratchInv, Steady, Marked, Fresh, Pre, Post
    <2>. QED BY <2>2, <2>3, <2>4, <2>5
<1>. QED BY <1>1, <1>2

LEMMA SkipKeeps ==
    ASSUME TypeOK, NEW s, Skip(s)
    PROVE  /\ reap'.at = reap.at /\ reap'.listed = reap.listed
           /\ reap'.todo \subseteq reap.todo /\ reap'.pc = "next"
    BY DEF Skip, TypeOK

LEMMA ReapToKeeps ==
    ASSUME TypeOK, NEW w, ReapTo(w)
    PROVE  /\ reap'.at = reap.at /\ reap'.listed = reap.listed
           /\ reap'.todo = reap.todo /\ reap'.s = reap.s /\ reap'.pc = w
    BY DEF ReapTo, TypeOK

LEMMA PassKeeps ==
    ASSUME IndInv, TypeOK', ReapBegin \/ ReapStep \/ ReapCrash
    PROVE  (\A t \in Scratches : ScratchInv(t)') /\ PassInv'
<1>. USE DEF reaping
<1>0. /\ TypeOK /\ PassInv /\ \A t \in Scratches : ScratchInv(t)
      /\ clock \in Nat /\ reap.at \in Nat
    BY DEF IndInv, TypeOK, Start
<1>. DEFINE Kept == UNCHANGED <<rec, vms, create, delete, clock>>
<1>1. ASSUME Kept PROVE \A t \in Scratches : ScratchInv(t)'
    BY <1>0, <1>1 DEF ScratchInv, Fresh
<1>2. CASE ReapBegin
    BY <1>0, <1>1, <1>2 DEF ReapBegin, PassInv, Marked, TypeOK
<1>3. CASE ReapList
    <2>. DEFINE idle == {s \in Scratches : IdleAt(rec[s], reap.at)}
    <2>1. /\ reap'.pc = "next" /\ reap'.at = reap.at /\ reap'.todo = idle
          /\ reap'.listed = [s \in Scratches |-> IF s \in idle THEN rec[s] ELSE NoRecord]
        BY <1>0, <1>3 DEF ReapList, TypeOK
    <2>2. \A s \in idle : /\ create[s].pc \in Post
                          /\ rec[s].state = "deleting" => Marked(s)
                          /\ rec[s].state # "none"
                          /\ create[s].pc = "done" => rec[s].zone = create[s].zone
        BY <1>0, IdleIsPost DEF ScratchInv
    <2>3. PassInv'
        BY <1>0, <1>3, <2>1, <2>2 DEF ReapList, PassInv, Marked, NoRecord
    <2>. QED BY <1>1, <1>3, <2>3 DEF ReapList
<1>4. ASSUME NEW s \in Scratches, ReapRecheck(s)
      PROVE  (\A t \in Scratches : ScratchInv(t)') /\ PassInv'
    <2>1. /\ s \in reap.todo /\ reap.listed[s].state # "none"
          /\ reap'.at = reap.at /\ reap'.listed = reap.listed /\ reap'.todo \subseteq reap.todo
          /\ \/ reap'.pc = "next"
             \/ reap'.s = s /\ reap'.pc = "mark"
             \/ reap'.s = s /\ reap'.pc = "delete_vm" /\ reap.listed[s].state = "deleting"
        <3>1. s \in reap.todo /\ reap.listed[s].state # "none"
            BY <1>0, <1>4 DEF ReapRecheck, PassInv
        <3>2. CASE Skip(s)
            BY <1>0, <3>1, <3>2, SkipKeeps
        <3>3. CASE reap' = [reap EXCEPT !.s = s, !.pc = IF reap.listed[s].state # "deleting"
                                                       THEN "mark" ELSE "delete_vm"]
            BY <1>0, <3>1, <3>3 DEF TypeOK
        <3>. QED BY <1>4, <3>2, <3>3 DEF ReapRecheck
    <2>2. PassInv'
        BY <1>0, <1>4, <2>1 DEF ReapRecheck, PassInv, Marked
    <2>. QED BY <1>1, <1>4, <2>2 DEF ReapRecheck
<1>5. CASE ReapMark
    <2>1. /\ reap.s \in Scratches /\ reap.listed[reap.s].state # "none"
          /\ create[reap.s].pc \in Post /\ reap.pc = "mark"
        BY <1>0, <1>5 DEF ReapMark, PassInv
    <2>2. UNCHANGED rec \/ SetState(reap.s, "deleting")
        BY <1>5 DEF ReapMark, Written, WriteFails
    <2>3. \A t \in Scratches : ScratchInv(t)' /\ Steady(t)
        BY <1>5, <2>1, <2>2, PassStep DEF ReapMark
    <2>4. /\ reap'.at = reap.at /\ reap'.listed = reap.listed /\ reap'.todo \subseteq reap.todo
          /\ \/ reap'.pc = "next"
             \/ reap'.s = reap.s /\ reap'.pc = "delete_vm" /\ rec'[reap.s].state = "deleting"
        <3>1. CASE SetState(reap.s, "deleting") /\ ReapTo("delete_vm")
            BY <1>0, <2>1, <3>1, ReapToKeeps DEF SetState, TypeOK, Records
        <3>2. CASE Skip(reap.s)
            BY <1>0, <3>2, SkipKeeps
        <3>. QED BY <1>5, <3>1, <3>2 DEF ReapMark, Written, WriteFails
    <2>5. PassInv'
        BY <1>0, <1>5, <2>1, <2>3, <2>4 DEF ReapMark, PassInv, Steady, Marked
    <2>. QED BY <2>3, <2>5
<1>6. CASE ReapDeleteVM
    <2>1. /\ reap.s \in Scratches /\ reap.listed[reap.s].state # "none"
          /\ create[reap.s].pc \in Post /\ Marked(reap.s)
        BY <1>0, <1>6 DEF ReapDeleteVM, PassInv
    <2>2. \A t \in Scratches : ScratchInv(t)' /\ Steady(t)
        BY <1>6, <2>1, PassStep DEF ReapDeleteVM, DeleteInstance
    <2>3. /\ reap'.at = reap.at /\ reap'.listed = reap.listed /\ reap'.todo = reap.todo
          /\ reap'.s = reap.s /\ reap'.pc = "deleted"
        BY <1>0, <1>6, ReapToKeeps DEF ReapDeleteVM
    <2>4. PassInv'
        BY <1>0, <1>6, <2>1, <2>2, <2>3 DEF ReapDeleteVM, PassInv, Steady, Marked
    <2>. QED BY <2>2, <2>4
<1>7. CASE ReapDeleted
    <2>1. /\ reap.s \in Scratches /\ reap.listed[reap.s].state # "none"
          /\ create[reap.s].pc \in Post /\ Marked(reap.s)
        BY <1>0, <1>7 DEF ReapDeleted, PassInv
    <2>2. UNCHANGED rec \/ SetState(reap.s, "deleted")
        BY <1>7 DEF ReapDeleted, Written, WriteFails
    <2>3. \A t \in Scratches : ScratchInv(t)' /\ Steady(t)
        BY <1>7, <2>1, <2>2, PassStep DEF ReapDeleted
    <2>4. /\ reap'.at = reap.at /\ reap'.listed = reap.listed /\ reap'.todo \subseteq reap.todo
          /\ reap'.pc = "next"
        BY <1>0, <1>7, SkipKeeps DEF ReapDeleted
    <2>5. PassInv'
        BY <1>0, <1>7, <2>3, <2>4 DEF ReapDeleted, PassInv, Steady, Marked
    <2>. QED BY <2>3, <2>5
<1>8. CASE ReapEnd
    <2>1. PassInv'
        BY <1>0, <1>8 DEF ReapEnd, NoPass, NoRecord, PassInv, Marked
    <2>. QED BY <1>1, <1>8, <2>1 DEF ReapEnd
<1>9. CASE ReapCrash
    <2>1. PassInv'
        BY <1>0, <1>9 DEF ReapCrash, NoPass, NoRecord, PassInv, Marked
    <2>. QED BY <1>1, <1>9, <2>1 DEF ReapCrash
<1>. QED BY <1>2, <1>3, <1>4, <1>5, <1>6, <1>7, <1>8, <1>9 DEF ReapStep

\* A call that is under way holds the clock back.
LEMMA TickKeeps ==
    ASSUME IndInv, Tick
    PROVE  (\A t \in Scratches : ScratchInv(t)') /\ PassInv'
<1>1. /\ clock \in Nat /\ reap.at \in Nat /\ reap.todo \subseteq Scratches /\ clock' = clock + 1
    BY DEF IndInv, TypeOK, Tick, Start
<1>2. ASSUME NEW t \in Scratches
      PROVE  ScratchInv(t)' /\ Steady(t)
    <2>1. rec[t].updated \in Nat /\ ScratchInv(t)
        BY DEF IndInv, TypeOK, Records, Start, ZeroTime
    <2>2. create[t].pc \in Pre => Creating(t)
        BY DEF Pre, Creating
    <2>. QED BY <1>1, <2>1, <2>2 DEF Tick, ScratchInv, Fresh, Steady, Marked, Pre
<1>3. PassInv'
    BY <1>1, <1>2, SteadyKeeps DEF Tick, IndInv
<1>. QED BY <1>2, <1>3

LEMMA InitInv == Init => IndInv
<1>. SUFFICES ASSUME Init PROVE IndInv
    OBVIOUS
<1>1. TypeOK
    BY DEF Init, TypeOK, NoPass, NoRecord, Records, Start, ZeroTime
<1>2. \A s \in Scratches : ScratchInv(s)
    BY DEF Init, ScratchInv, NoRecord, Pre
<1>3. PassInv
    BY DEF Init, PassInv, NoPass, NoRecord, Start
<1>. QED BY <1>1, <1>2, <1>3 DEF IndInv

LEMMA InvStep ==
    ASSUME IndInv, [Next]_vars
    PROVE  IndInv'
<1>1. TypeOK'
    BY TypeStep DEF IndInv
<1>2. CASE Tick
    BY <1>1, <1>2, TickKeeps DEF IndInv
<1>3. ASSUME NEW s \in Scratches,
             CreateInsert(s) \/ Create(s) \/ CreateCrash(s) \/ Use(s)
      PROVE  IndInv'
    BY <1>1, <1>3, CreateKeeps DEF IndInv
<1>4. ASSUME NEW s \in Scratches, DeleteMark(s) \/ Delete(s) \/ DeleteCrash(s)
      PROVE  IndInv'
    BY <1>1, <1>4, DeleteKeeps DEF IndInv
<1>5. CASE ReapBegin \/ ReapStep \/ ReapCrash
    BY <1>1, <1>5, PassKeeps DEF IndInv
<1>6. CASE UNCHANGED vars
    BY <1>1, <1>6 DEF vars, IndInv, ScratchInv, Fresh, PassInv, Marked
<1>. QED BY <1>2, <1>3, <1>4, <1>5, <1>6 DEF Next

LEMMA Invariance == Spec => []IndInv
<1>1. IndInv /\ [Next]_vars => IndInv'
    BY InvStep
<1>. QED BY InitInv, <1>1, PTL DEF Spec

-----------------------------------------------------------------------------
\* The records, the VMs and the places in the calls of a run of ScratchCreate,
\* ScratchDelete and ScratchReap are of their types, whatever fails.
THEOREM TypeCorrect == Spec => []TypeOK
<1>1. IndInv => TypeOK
    BY DEF IndInv
<1>. QED BY Invariance, <1>1, PTL

\* insertWithFallthrough never leaves a VM of a scratch behind in one zone and makes
\* a second one in another, whatever else fails.
THEOREM AtMostOneVM == Spec => []OneVM
<1>1. ASSUME IndInv PROVE OneVM
    <2>1. SUFFICES ASSUME NEW s \in Scratches, NEW v \in vms, NEW w \in vms,
                          v[1] = s, w[1] = s
                   PROVE  v = w
        BY DEF OneVM
    <2>2. v \in Scratches \X Zones /\ w \in Scratches \X Zones /\ ScratchInv(s)
        BY <1>1 DEF IndInv, TypeOK
    <2>3. v = <<s, v[2]>> /\ w = <<s, w[2]>> /\ v[2] \in Zones /\ w[2] \in Zones
        BY <2>1, <2>2
    <2>. QED BY <2>2, <2>3 DEF ScratchInv
<1>. QED BY Invariance, <1>1, PTL

\* A scratch that was handed out and reads Ready has its VM: neither ScratchDelete
\* nor the reaper's teardown takes the VM away before it marks the record, whatever
\* crashes or fails in between.
THEOREM HandedOutHasVM == Spec => []ReadyHasVM
<1>1. ASSUME IndInv PROVE ReadyHasVM
    BY <1>1 DEF IndInv, ScratchInv, ReadyHasVM
<1>. QED BY Invariance, <1>1, PTL

-----------------------------------------------------------------------------
(* That no VM is lost needs more: no broker dies in the middle of a create, and   *)
(* Compute Engine deletes what it is told to delete.                              *)

Track(s) ==
    /\ create[s].pc # "crashed"
    /\ create[s].pc \in {"cleanup_state", "failed"} => NoVM(s)
    /\ create[s].pc = "done" /\ rec[s].state = "deleted" => NoVM(s)
    /\ delete[s] = "deleted" => NoVM(s)
    /\ reap.pc = "deleted" /\ reap.s = s /\ create[s].pc = "done" => NoVM(s)

LEMMA SameTracks ==
    ASSUME NEW t \in Scratches, Track(t), Same(t), reap' = reap
    PROVE  Track(t)'
    BY DEF Track, Same, NoVM

LEMMA CreateTracks ==
    ASSUME IndInv, NEW s \in Scratches, \A t \in Scratches : Track(t),
           "create_crash" \notin FaultKinds, "vm_delete" \notin FaultKinds,
           CreateInsert(s) \/ Create(s) \/ CreateCrash(s) \/ Use(s)
    PROVE  \A t \in Scratches : Track(t)'
<1>. USE DEF creating, CreateTo
<1>0. ScratchInv(s) /\ Track(s) /\ TypeOK
    BY DEF IndInv
<1>1. CASE CreateInsert(s)
    <2>1. ASSUME NEW t \in Scratches \ {s} PROVE Track(t)'
        BY <1>0, <1>1, <2>1, SameTracks DEF CreateInsert, Same, TypeOK
    <2>2. Track(s)'
        BY <1>0, <1>1 DEF CreateInsert, ScratchInv, Track, NoVM, TypeOK
    <2>. QED BY <2>1, <2>2
<1>2. CASE CreatePick(s)
    <2>1. ASSUME NEW t \in Scratches \ {s} PROVE Track(t)'
        BY <1>0, <1>2, <2>1, SameTracks DEF CreatePick, Same, TypeOK
    <2>2. Track(s)'
        <3>1. create'[s].pc = "insert"
            BY <1>0, <1>2 DEF CreatePick, TypeOK
        <3>. QED BY <1>0, <1>2, <3>1 DEF CreatePick, ScratchInv, Track, NoVM
    <2>. QED BY <2>1, <2>2
<1>3. CASE CreateVM(s)
    <2>1. ASSUME NEW t \in Scratches \ {s} PROVE Track(t)'
        BY <1>0, <1>3, <2>1, SameTracks DEF CreateVM, Leave, Same, TypeOK
    <2>2. Track(s)'
        BY <1>0, <1>3 DEF CreateVM, Trying, Leave, ScratchInv, Track, NoVM, TypeOK
    <2>. QED BY <2>1, <2>2
<1>4. CASE CreateStockout(s)
    <2>1. ASSUME NEW t \in Scratches \ {s} PROVE Track(t)'
        BY <1>0, <1>4, <2>1, SameTracks DEF CreateStockout, FallThrough, Same, TypeOK
    <2>2. Track(s)'
        <3>1. create[s].pc = "insert" /\ create'[s].pc \in {"insert", "cleanup_state"}
            BY <1>0, <1>4 DEF CreateStockout, Trying, FallThrough, TypeOK
        <3>. QED BY <1>0, <1>4, <3>1 DEF CreateStockout, ScratchInv, Track, NoVM
    <2>. QED BY <2>1, <2>2
<1>5. CASE CreateVMFails(s)
    <2>1. ASSUME NEW t \in Scratches \ {s} PROVE Track(t)'
        BY <1>0, <1>5, <2>1, SameTracks DEF CreateVMFails, Leave, Same, TypeOK
    <2>2. Track(s)'
        BY <1>0, <1>5 DEF CreateVMFails, Trying, Leave, ScratchInv, Track, NoVM, TypeOK
    <2>. QED BY <2>1, <2>2
<1>6. CASE CreateUpdate(s)
    <2>. USE DEF Written, WriteFails, Provisioned
    <2>1. ASSUME NEW t \in Scratches \ {s} PROVE Track(t)'
        BY <1>0, <1>6, <2>1, SameTracks DEF CreateUpdate, Same, TypeOK
    <2>2. Track(s)'
        BY <1>0, <1>6 DEF CreateUpdate, ScratchInv, Track, NoVM, TypeOK
    <2>. QED BY <2>1, <2>2
<1>7. CASE CreateProbe(s)
    <2>1. ASSUME NEW t \in Scratches \ {s} PROVE Track(t)'
        BY <1>0, <1>7, <2>1, SameTracks DEF CreateProbe, Same, TypeOK
    <2>2. Track(s)'
        BY <1>0, <1>7 DEF CreateProbe, ScratchInv, Track, NoVM, TypeOK
    <2>. QED BY <2>1, <2>2
<1>8. CASE CreateReady(s)
    <2>. USE DEF Written, WriteFails, SetState
    <2>1. ASSUME NEW t \in Scratches \ {s} PROVE Track(t)'
        BY <1>0, <1>8, <2>1, SameTracks DEF CreateReady, Same, TypeOK
    <2>2. Track(s)'
        <3>1. create[s].pc = "ready"
              /\ \/ create'[s].pc = "done" /\ rec'[s].state = "ready"
                 \/ create'[s].pc = "cleanup_vm"
            BY <1>0, <1>8 DEF CreateReady, TypeOK, Records
        <3>2. ~(reap.pc = "deleted" /\ reap.s = s)
            BY <3>1 DEF IndInv, PassInv, Post
        <3>. QED BY <1>0, <1>8, <3>1, <3>2 DEF CreateReady, ScratchInv, Track, NoVM
    <2>. QED BY <2>1, <2>2
<1>9. CASE CleanupVM(s)
    <2>1. ASSUME NEW t \in Scratches \ {s} PROVE Track(t)'
        BY <1>0, <1>9, <2>1, SameTracks DEF CleanupVM, DeleteInstance, Same, TypeOK
    <2>2. Track(s)'
        BY <1>0, <1>9 DEF CleanupVM, DeleteInstance, Fault, ScratchInv, Track, NoVM, TypeOK
    <2>. QED BY <2>1, <2>2
<1>10. CASE CleanupState(s)
    <2>. USE DEF Written, WriteFails, SetState
    <2>1. ASSUME NEW t \in Scratches \ {s} PROVE Track(t)'
        BY <1>0, <1>10, <2>1, SameTracks DEF CleanupState, Same, TypeOK
    <2>2. Track(s)'
        BY <1>0, <1>10 DEF CleanupState, ScratchInv, Track, NoVM, TypeOK
    <2>. QED BY <2>1, <2>2
<1>11. CASE CreateCrash(s)
    BY <1>11 DEF CreateCrash, Fault
<1>12. CASE Use(s)
    <2>1. ASSUME NEW t \in Scratches \ {s} PROVE Track(t)'
        BY <1>0, <1>12, <2>1, SameTracks DEF Use, Same, TypeOK
    <2>2. Track(s)'
        BY <1>0, <1>12 DEF Use, ScratchInv, Track, NoVM, TypeOK
    <2>. QED BY <2>1, <2>2
<1>. QED BY <1>1, <1>2, <1>3, <1>4, <1>5, <1>6, <1>7, <1>8, <1>9, <1>10, <1>11, <1>12
        DEF Create

LEMMA DeleteTracks ==
    ASSUME IndInv, NEW s \in Scratches, \A t \in Scratches : Track(t),
           "vm_delete" \notin FaultKinds,
           DeleteMark(s) \/ Delete(s) \/ DeleteCrash(s)
    PROVE  \A t \in Scratches : Track(t)'
<1>. USE DEF deletes, DeleteTo
<1>0. ScratchInv(s) /\ Track(s) /\ TypeOK
    BY DEF IndInv
<1>1. CASE DeleteMark(s)
    <2>. USE DEF Written, WriteFails, SetState
    <2>1. ASSUME NEW t \in Scratches \ {s} PROVE Track(t)'
        BY <1>0, <1>1, <2>1, SameTracks DEF DeleteMark, Same, TypeOK
    <2>2. Track(s)'
        <3>1. /\ delete'[s] \in {"delete_vm", "over"}
              /\ rec'[s].state \in {rec[s].state, "deleting"}
            BY <1>0, <1>1 DEF DeleteMark, TypeOK, Records
        <3>. QED BY <1>0, <1>1, <3>1 DEF DeleteMark, Track, NoVM
    <2>. QED BY <2>1, <2>2
<1>2. CASE DeleteVM(s)
    <2>1. ASSUME NEW t \in Scratches \ {s} PROVE Track(t)'
        BY <1>0, <1>2, <2>1, SameTracks DEF DeleteVM, DeleteInstance, Same, TypeOK
    <2>2. NoVM(s)'
        BY <1>0, <1>2 DEF DeleteVM, DeleteInstance, Fault, ScratchInv, NoVM
    <2>3. Track(s)'
        BY <1>0, <1>2, <2>2 DEF DeleteVM, Track, NoVM, TypeOK
    <2>. QED BY <2>1, <2>3
<1>3. CASE DeleteDone(s)
    <2>. USE DEF Written, WriteFails, SetState
    <2>1. ASSUME NEW t \in Scratches \ {s} PROVE Track(t)'
        BY <1>0, <1>3, <2>1, SameTracks DEF DeleteDone, Same, TypeOK
    <2>2. Track(s)'
        BY <1>0, <1>3 DEF DeleteDone, Track, NoVM, TypeOK
    <2>. QED BY <2>1, <2>2
<1>4. CASE DeleteCrash(s)
    <2>1. ASSUME NEW t \in Scratches \ {s} PROVE Track(t)'
        BY <1>0, <1>4, <2>1, SameTracks DEF DeleteCrash, Same, TypeOK
    <2>2. Track(s)'
        BY <1>0, <1>4 DEF DeleteCrash, Track, NoVM, TypeOK
    <2>. QED BY <2>1, <2>2
<1>. QED BY <1>1, <1>2, <1>3, <1>4 DEF Delete

LEMMA PassTracks ==
    ASSUME IndInv, \A t \in Scratches : Track(t), "vm_delete" \notin FaultKinds,
           ReapBegin \/ ReapStep \/ ReapCrash
    PROVE  \A t \in Scratches : Track(t)'
<1>. USE DEF reaping
<1>0. TypeOK /\ PassInv
    BY DEF IndInv
<1>1. ASSUME UNCHANGED <<rec, vms, create, delete>>, reap'.pc # "deleted"
      PROVE  \A t \in Scratches : Track(t)'
    BY <1>1 DEF Track, NoVM
<1>2. CASE ReapBegin
    BY <1>0, <1>1, <1>2 DEF ReapBegin, TypeOK
<1>3. CASE ReapList
    BY <1>0, <1>1, <1>3 DEF ReapList, TypeOK
<1>4. ASSUME NEW s \in Scratches, ReapRecheck(s)
      PROVE  \A t \in Scratches : Track(t)'
    BY <1>0, <1>1, <1>4 DEF ReapRecheck, Skip, TypeOK
<1>5. CASE ReapMark
    <2>1. /\ UNCHANGED <<vms, create, delete>> /\ reap'.pc # "deleted"
          /\ \A t \in Scratches : rec'[t].state \in {rec[t].state, "deleting"}
        <3>1. reap'.pc # "deleted"
            BY <1>0, <1>5 DEF ReapMark, ReapTo, Skip, TypeOK
        <3>2. CASE SetState(reap.s, "deleting")
            <4>1. reap.s \in Scratches
                BY <1>0, <1>5 DEF ReapMark, PassInv
            <4>2. rec'[reap.s].state = "deleting"
                BY <1>0, <3>2, <4>1 DEF SetState, TypeOK, Records
            <4>3. \A t \in Scratches \ {reap.s} : rec'[t] = rec[t]
                BY <1>0, <3>2 DEF SetState, TypeOK
            <4>. QED BY <1>5, <3>1, <4>2, <4>3 DEF ReapMark
        <3>. QED BY <1>5, <3>1, <3>2 DEF ReapMark, Written, WriteFails
    <2>. QED BY <2>1 DEF Track, NoVM
<1>6. CASE ReapDeleteVM
    <2>1. /\ UNCHANGED <<rec, create, delete>> /\ reap'.s = reap.s
          /\ vms' = vms \ {<<reap.s, reap.listed[reap.s].zone>>}
        BY <1>0, <1>6, ReapToKeeps DEF ReapDeleteVM, DeleteInstance, Fault
    <2>2. create[reap.s].pc = "done" => NoVM(reap.s)'
        BY <1>0, <1>6, <2>1, ZenonT(60) DEF ReapDeleteVM, PassInv, IndInv, ScratchInv, NoVM
    <2>. QED BY <2>1, <2>2 DEF Track, NoVM
<1>7. CASE ReapDeleted
    <2>1. /\ UNCHANGED <<vms, create, delete>> /\ reap'.pc # "deleted"
          /\ \A t \in Scratches : rec'[t].state = rec[t].state \/ t = reap.s
        <3>1. reap'.pc # "deleted"
            BY <1>0, <1>7, SkipKeeps DEF ReapDeleted
        <3>. QED BY <1>0, <1>7, <3>1 DEF ReapDeleted, Written, WriteFails, SetState, TypeOK
    <2>. QED BY <1>7, <2>1 DEF ReapDeleted, Track, NoVM
<1>8. CASE ReapEnd
    BY <1>0, <1>1, <1>8 DEF ReapEnd, NoPass, TypeOK
<1>9. CASE ReapCrash
    BY <1>0, <1>1, <1>9 DEF ReapCrash, NoPass, TypeOK
<1>. QED BY <1>2, <1>3, <1>4, <1>5, <1>6, <1>7, <1>8, <1>9 DEF ReapStep

LEMMA TrackStep ==
    ASSUME IndInv, \A t \in Scratches : Track(t), [Next]_vars,
           "create_crash" \notin FaultKinds, "vm_delete" \notin FaultKinds
    PROVE  \A t \in Scratches : Track(t)'
<1>1. CASE UNCHANGED <<rec, vms, create, delete, reap>>
    BY <1>1 DEF Track, NoVM
<1>2. ASSUME NEW s \in Scratches,
             CreateInsert(s) \/ Create(s) \/ CreateCrash(s) \/ Use(s)
      PROVE  \A t \in Scratches : Track(t)'
    BY <1>2, CreateTracks
<1>3. ASSUME NEW s \in Scratches, DeleteMark(s) \/ Delete(s) \/ DeleteCrash(s)
      PROVE  \A t \in Scratches : Track(t)'
    BY <1>3, DeleteTracks
<1>4. CASE ReapBegin \/ ReapStep \/ ReapCrash
    BY <1>4, PassTracks
<1>. QED BY <1>1, <1>2, <1>3, <1>4 DEF Next, vars, Tick

\* As long as no broker dies in the middle of a ScratchCreate and Compute Engine
\* deletes the VMs it is told to delete, every VM can be found, by the call that made
\* it or by a record still to be torn down: whatever inserts, database calls, deletes
\* and reaper passes fail.
THEOREM NoVMLost ==
    ASSUME "create_crash" \notin FaultKinds, "vm_delete" \notin FaultKinds
    PROVE  Spec => []EveryVMTracked
<1>. DEFINE Tracked == \A s \in Scratches : Track(s)
<1>1. Init => Tracked
    <2>. SUFFICES ASSUME Init, NEW s \in Scratches PROVE Track(s)
        OBVIOUS
    <2>1. create[s].pc = "idle" /\ delete[s] = "idle" /\ reap.pc = "idle"
        BY DEF Init, NoPass
    <2>. QED BY <2>1 DEF Track
<1>2. IndInv /\ Tracked /\ [Next]_vars => Tracked'
    BY TrackStep
<1>3. ASSUME IndInv, Tracked PROVE EveryVMTracked
    <2>1. SUFFICES ASSUME NEW v \in vms
                   PROVE  \/ /\ create[v[1]].zone = v[2] /\ Creating(v[1])
                             /\ create[v[1]].pc # "cleanup_state"
                          \/ /\ rec[v[1]].zone = v[2]
                             /\ rec[v[1]].state \in {"ready", "deleting"}
        BY DEF EveryVMTracked
    <2>2. PICK s \in Scratches, z \in Zones : v = <<s, z>>
        BY <1>3 DEF IndInv, TypeOK
    <2>3. ScratchInv(s) /\ Track(s) /\ create[s].pc \in CreatePCs /\ ~NoVM(s)
        BY <1>3, <2>2 DEF IndInv, TypeOK, NoVM
    <2>. QED BY <2>2, <2>3 DEF ScratchInv, Track, Creating
<1>. QED BY Invariance, <1>1, <1>2, <1>3, PTL DEF Spec

=============================================================================
