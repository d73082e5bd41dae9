------------------------------- MODULE ScratchVM -------------------------------
(***************************************************************************)
(* The life of scratch VMs: ScratchCreate with insertWithFallthrough and   *)
(* the zone cool-down, ScratchDelete as AgentComplete calls it, and the    *)
(* teardown of ScratchReap (internal/api/agentapiservice), over the        *)
(* scratch records and the VMs of Compute Engine.                          *)
(*                                                                         *)
(* A VM costs money until somebody deletes it, and the only things that    *)
(* know where it is are the record's zone and the call that made it. A     *)
(* scratch and its VM share a name, so vms holds pairs of a scratch and a  *)
(* zone. Every database or Compute Engine call is a step of its own. What  *)
(* execs do to a scratch is reduced to Use; see ScratchExec.               *)
(***************************************************************************)
EXTENDS Integers

CONSTANTS
    Scratches,      \* scratches; each has one create call and one holder
    Zones,          \* ScratchCreateDeps.Zones
    Rank,           \* the place of a zone in that list
    CooldownTTL,    \* ZoneCooldown.ttl
    IdleThreshold,  \* ScratchReapDeps.IdleThreshold
    MaxCreate,      \* bound: the time a create call takes after its last write
    ReapEvery,      \* bound: the scheduler leaves no longer gap between passes,
                    \* and no pass lasts longer
    MaxClock,       \* bound: the clock
    ClientsUntil,   \* bound: clients make no new call from this time on
    NoZone,         \* the empty zone
    FaultKinds,     \* the faults that may happen, out of AllFaults
    MaxFaults       \* bound: how many of them

AllFaults == {"insert", "db", "crash", "create_crash", "vm_delete"}

\* A create is bounded by the timeouts of the zone operations (2m each) and of the
\* health probe (3m), well inside the idle threshold (30m).
ASSUME ScratchVMAssumption ==
    /\ Rank \in [Zones -> Nat]
    /\ CooldownTTL \in Nat \ {0}
    /\ IdleThreshold \in Nat \ {0} /\ MaxCreate \in 0 .. IdleThreshold
    /\ ReapEvery \in Nat \ {0}
    /\ MaxClock \in Nat /\ IdleThreshold < MaxClock
    /\ ClientsUntil \in Nat /\ MaxFaults \in Nat
    /\ NoZone \notin Zones
    /\ FaultKinds \subseteq AllFaults

VARIABLES
    clock,   \* wall clock of the brokers
    rec,     \* the scratch records
    vms,     \* the VMs that exist: <<scratch, zone>>
    until,   \* the broker's ZoneCooldown; 0 is no entry
    create,  \* where each ScratchCreate stands, and its scratch.Zone
    delete,  \* where the holder's delete of each scratch stands
    reap,    \* where the ScratchReap pass stands
    faults   \* faults so far

vars == <<clock, rec, vms, until, create, delete, reap, faults>>

-----------------------------------------------------------------------------
States == {"none", "starting", "ready", "deleting", "deleted"}

\* The zero time is further back than any cutoff.
ZeroTime == 0
Start == IdleThreshold + 1

NoRecord == [state |-> "none", zone |-> NoZone, lastUsed |-> ZeroTime, updated |-> ZeroTime]
NoPass == [pc |-> "idle", at |-> Start, s |-> "none", todo |-> {},
           listed |-> [s \in Scratches |-> NoRecord]]

Init ==
    /\ clock = Start
    /\ rec = [s \in Scratches |-> NoRecord]
    /\ vms = {}
    /\ until = [z \in Zones |-> 0]
    /\ create = [s \in Scratches |-> [pc |-> "idle", zone |-> NoZone, left |-> {}]]
    /\ delete = [s \in Scratches |-> "idle"]
    /\ reap = NoPass
    /\ faults = 0

Fault(kind) ==
    /\ kind \in FaultKinds
    /\ faults < MaxFaults
    /\ faults' = faults + 1

\* The handler has the scratch named in the record, or named nothing at all:
\* deleting a VM that is not there fails, and the error is only logged.
DeleteInstance(s, zone) ==
    \/ vms' = vms \ {<<s, zone>>} /\ UNCHANGED faults
    \/ Fault("vm_delete") /\ UNCHANGED vms

SetState(s, st) == rec' = [rec EXCEPT ![s].state = st, ![s].updated = clock]

\* A write of a record goes through; or it fails, with or without its effect.
Written(write) == write /\ UNCHANGED faults
WriteFails(write) == Fault("db") /\ (write \/ UNCHANGED rec)

CreateOver == {"idle", "done", "failed", "crashed"}
Creating(s) == create[s].pc \notin CreateOver

ClientsMayCall == clock < ClientsUntil

Tick ==
    /\ clock < MaxClock
    /\ clock < reap.at + ReapEvery
    /\ \A s \in Scratches : Creating(s) => clock < rec[s].updated + MaxCreate
    /\ clock' = clock + 1
    /\ UNCHANGED <<rec, vms, until, create, delete, reap, faults>>

-----------------------------------------------------------------------------
(* ScratchCreate. *)

creating == <<clock, delete, reap>>

CreateTo(s, where) == create' = [create EXCEPT ![s].pc = where]

CreateInsert(s) ==
    /\ create[s].pc = "idle" /\ ClientsMayCall
    /\ rec' = [rec EXCEPT ![s] = [NoRecord EXCEPT !.state = "starting", !.updated = clock]]
    /\ CreateTo(s, "pick")
    /\ UNCHANGED <<creating, vms, until, faults>>

\* ZoneCooldown.active: the zones that do not cool down. Expired entries are
\* pruned.
Warm(z) == until[z] <= clock
Active == {z \in Zones : Warm(z)}

\* If every zone cools down, all are tried anyway.
CreatePick(s) ==
    /\ create[s].pc = "pick"
    /\ create' = [create EXCEPT ![s].pc = "insert",
                                ![s].left = IF Active = {} THEN Zones ELSE Active]
    /\ until' = [z \in Zones |-> IF Warm(z) THEN 0 ELSE until[z]]
    /\ UNCHANGED <<creating, rec, vms, faults>>

\* The zone insertWithFallthrough is at.
Trying(s, z) ==
    /\ create[s].pc = "insert"
    /\ z \in create[s].left
    /\ \A y \in create[s].left : Rank[z] <= Rank[y]

Leave(s, where, z) == create' = [create EXCEPT ![s] = [pc |-> where, zone |-> z, left |-> {}]]

\* The next zone; or, when none is left, a failure with no zone to clean up.
FallThrough(s, z) ==
    create' = [create EXCEPT ![s].left = @ \ {z},
                             ![s].pc = IF create[s].left = {z} THEN "cleanup_state"
                                                              ELSE "insert"]

CreateVM(s) ==
    /\ \E z \in Zones :
        /\ Trying(s, z)
        /\ vms' = vms \cup {<<s, z>>}
        /\ Leave(s, "update", z)
    /\ UNCHANGED <<creating, rec, until, faults>>

\* The zone is out of stock: it cools down and the next one is tried.
CreateStockout(s) ==
    /\ \E z \in Zones :
        /\ Trying(s, z)
        /\ until' = [until EXCEPT ![z] = clock + CooldownTTL]
        /\ FallThrough(s, z)
    /\ UNCHANGED <<creating, rec, vms, faults>>

\* Mutant: any error moves on to the next zone.
FallsThroughAlways(s) ==
    /\ \E z \in Zones :
        /\ Trying(s, z)
        /\ vms' \in {vms, vms \cup {<<s, z>>}}
        /\ FallThrough(s, z)
    /\ Fault("insert")
    /\ UNCHANGED <<creating, rec, until>>

\* Mutant: an error names no zone.
FailsWithoutZone(s) ==
    /\ \E z \in Zones :
        /\ Trying(s, z)
        /\ vms' \in {vms, vms \cup {<<s, z>>}}
        /\ Leave(s, "cleanup_vm", NoZone)
    /\ Fault("insert")
    /\ UNCHANGED <<creating, rec, until>>

\* Any other error ends the search, and may leave a VM behind.
CreateVMFails(s) ==
    /\ \E z \in Zones :
        /\ Trying(s, z)
        /\ vms' \in {vms, vms \cup {<<s, z>>}}
        /\ Leave(s, "cleanup_vm", z)
    /\ Fault("insert")
    /\ UNCHANGED <<creating, rec, until>>

\* Mutant: last_used is seeded with the end of the lease.
SeedsAhead(s) ==
    rec' = [rec EXCEPT ![s] = [state |-> "starting", zone |-> create[s].zone,
                               lastUsed |-> clock + IdleThreshold, updated |-> clock]]

\* Update replaces the whole record by the one the call holds.
Provisioned(s) ==
    rec' = [rec EXCEPT ![s] = [state |-> "starting", zone |-> create[s].zone,
                               lastUsed |-> clock, updated |-> clock]]

CreateUpdate(s) ==
    /\ create[s].pc = "update"
    /\ \/ Written(Provisioned(s)) /\ CreateTo(s, "probe")
       \/ WriteFails(Provisioned(s)) /\ CreateTo(s, "cleanup_vm")
    /\ UNCHANGED <<creating, vms, until>>

\* The worker answers the health probe, or the probe times out.
CreateProbe(s) ==
    /\ create[s].pc = "probe"
    /\ \/ <<s, create[s].zone>> \in vms /\ CreateTo(s, "ready")
       \/ CreateTo(s, "cleanup_vm")
    /\ UNCHANGED <<creating, rec, vms, until, faults>>

CreateReady(s) ==
    /\ create[s].pc = "ready"
    /\ \/ Written(SetState(s, "ready")) /\ CreateTo(s, "done")
       \/ WriteFails(SetState(s, "ready")) /\ CreateTo(s, "cleanup_vm")
    /\ UNCHANGED <<creating, vms, until>>

CleanupVM(s) ==
    /\ create[s].pc = "cleanup_vm"
    /\ DeleteInstance(s, create[s].zone)
    /\ CreateTo(s, "cleanup_state")
    /\ UNCHANGED <<creating, rec, until>>

\* A failure is only logged.
CleanupState(s) ==
    /\ create[s].pc = "cleanup_state"
    /\ Written(SetState(s, "deleted")) \/ WriteFails(SetState(s, "deleted"))
    /\ CreateTo(s, "failed")
    /\ UNCHANGED <<creating, vms, until>>

CreateCrash(s) ==
    /\ Creating(s)
    /\ Fault("create_crash")
    /\ CreateTo(s, "crashed")
    /\ UNCHANGED <<creating, rec, vms, until>>

Create(s) ==
    \/ CreatePick(s) \/ CreateVM(s) \/ CreateStockout(s) \/ CreateVMFails(s)
    \/ CreateUpdate(s) \/ CreateProbe(s) \/ CreateReady(s)
    \/ CleanupVM(s) \/ CleanupState(s)

\* The holder runs an exec: UpdateLastUsed.
Use(s) ==
    /\ create[s].pc = "done" /\ rec[s].state = "ready" /\ ClientsMayCall
    /\ rec' = [rec EXCEPT ![s].lastUsed = clock, ![s].updated = clock]
    /\ UNCHANGED <<creating, vms, until, create, faults>>

-----------------------------------------------------------------------------
(* ScratchDelete, by the holder or by AgentComplete for its session. *)

deletes == <<clock, until, create, reap>>

DeleteTo(s, where) == delete' = [delete EXCEPT ![s] = where]

\* Mutant: the VM goes first.
DeletesUnmarked(s) ==
    /\ create[s].pc = "done" /\ delete[s] = "idle"
    /\ DeleteTo(s, "delete_vm")
    /\ UNCHANGED <<deletes, rec, vms, faults>>

\* AgentComplete passes over a scratch that is Deleting or Deleted; the holder's
\* own call does not look.
DeleteMark(s) ==
    /\ create[s].pc = "done" /\ delete[s] = "idle" /\ ClientsMayCall
    /\ \/ Written(SetState(s, "deleting")) /\ DeleteTo(s, "delete_vm")
       \/ WriteFails(SetState(s, "deleting")) /\ DeleteTo(s, "over")
    /\ UNCHANGED <<deletes, vms>>

DeleteVM(s) ==
    /\ delete[s] = "delete_vm"
    /\ DeleteInstance(s, rec[s].zone)
    /\ DeleteTo(s, "deleted")
    /\ UNCHANGED <<deletes, rec>>

DeleteDone(s) ==
    /\ delete[s] = "deleted"
    /\ Written(SetState(s, "deleted")) \/ WriteFails(SetState(s, "deleted"))
    /\ DeleteTo(s, "over")
    /\ UNCHANGED <<deletes, vms>>

DeleteCrash(s) ==
    /\ delete[s] \in {"delete_vm", "deleted"}
    /\ Fault("crash")
    /\ DeleteTo(s, "over")
    /\ UNCHANGED <<deletes, rec, vms>>

Delete(s) == DeleteVM(s) \/ DeleteDone(s)

-----------------------------------------------------------------------------
(* ScratchReap, of which only the teardown is modelled here. *)

reaping == <<clock, until, create, delete>>

\* Mutant: only Ready scratches are listed.
ListsReadyOnly(r, at) == r.state = "ready" /\ r.lastUsed < at - IdleThreshold

IdleAt(r, at) ==
    \/ r.state = "ready" /\ r.lastUsed < at - IdleThreshold
    \/ r.state \in {"starting", "deleting"} /\ r.updated < at - IdleThreshold

\* The pass takes its time, then lists the idle scratches; it works from copies.
ReapBegin ==
    /\ reap.pc = "idle"
    /\ reap' = [reap EXCEPT !.pc = "list", !.at = clock]
    /\ UNCHANGED <<reaping, rec, vms, faults>>

ReapList ==
    /\ reap.pc = "list"
    /\ LET idle == {s \in Scratches : IdleAt(rec[s], reap.at)} IN
        reap' = [reap EXCEPT !.pc = "next", !.todo = idle,
                             !.listed = [s \in Scratches |-> IF s \in idle THEN rec[s]
                                                                          ELSE NoRecord]]
    /\ UNCHANGED <<reaping, rec, vms, faults>>

Skip(s) == reap' = [reap EXCEPT !.pc = "next", !.s = "none", !.todo = @ \ {s}]
ReapTo(where) == reap' = [reap EXCEPT !.pc = where]

ReapRecheck(s) ==
    /\ reap.pc = "next" /\ s \in reap.todo
    /\ \/ /\ IdleAt(rec[s], reap.at)
          /\ reap' = [reap EXCEPT !.s = s, !.pc = IF reap.listed[s].state # "deleting"
                                                  THEN "mark" ELSE "delete_vm"]
          /\ UNCHANGED faults
       \/ ~IdleAt(rec[s], reap.at) /\ Skip(s) /\ UNCHANGED faults
       \/ Fault("db") /\ Skip(s)
    /\ UNCHANGED <<reaping, rec, vms>>

\* teardownScratch, by the copy.
ReapMark ==
    /\ reap.pc = "mark"
    /\ \/ Written(SetState(reap.s, "deleting")) /\ ReapTo("delete_vm")
       \/ WriteFails(SetState(reap.s, "deleting")) /\ Skip(reap.s)
    /\ UNCHANGED <<reaping, vms>>

ReapDeleteVM ==
    /\ reap.pc = "delete_vm"
    /\ DeleteInstance(reap.s, reap.listed[reap.s].zone)
    /\ ReapTo("deleted")
    /\ UNCHANGED <<reaping, rec>>

ReapDeleted ==
    /\ reap.pc = "deleted"
    /\ Written(SetState(reap.s, "deleted")) \/ WriteFails(SetState(reap.s, "deleted"))
    /\ Skip(reap.s)
    /\ UNCHANGED <<reaping, vms>>

ReapEnd ==
    /\ reap.pc = "next" /\ reap.todo = {}
    /\ reap' = [NoPass EXCEPT !.at = reap.at]
    /\ UNCHANGED <<reaping, rec, vms, faults>>

ReapCrash ==
    /\ reap.pc # "idle"
    /\ Fault("crash")
    /\ reap' = [NoPass EXCEPT !.at = reap.at]
    /\ UNCHANGED <<reaping, rec, vms>>

ReapStep ==
    \/ ReapList \/ (\E s \in Scratches : ReapRecheck(s)) \/ ReapMark
    \/ ReapDeleteVM \/ ReapDeleted \/ ReapEnd

-----------------------------------------------------------------------------
Next ==
    \/ Tick
    \/ \E s \in Scratches :
        \/ CreateInsert(s) \/ Create(s) \/ CreateCrash(s)
        \/ Use(s)
        \/ DeleteMark(s) \/ Delete(s) \/ DeleteCrash(s)
    \/ ReapBegin \/ ReapStep \/ ReapCrash

Spec == Init /\ [][Next]_vars

\* Time passes, the scheduler calls the reaper, and calls that have begun go on.
\* Nobody has to begin one, or to delete what he has created.
FairSpec ==
    /\ Spec
    /\ WF_vars(Tick)
    /\ WF_vars(ReapBegin) /\ WF_vars(ReapStep)
    /\ \A s \in Scratches : WF_vars(Create(s)) /\ WF_vars(Delete(s))

-----------------------------------------------------------------------------
(* Properties. *)

CreatePCs == {"pick", "insert", "update", "probe", "ready", "cleanup_vm", "cleanup_state"}
                \cup CreateOver
Records == [state : States, zone : Zones \cup {NoZone},
            lastUsed : {ZeroTime} \cup Start .. MaxClock,
            updated : {ZeroTime} \cup Start .. MaxClock]

TypeOK ==
    /\ clock \in Start .. MaxClock
    /\ rec \in [Scratches -> Records]
    /\ vms \subseteq Scratches \X Zones
    /\ until \in [Zones -> 0 .. MaxClock + CooldownTTL]
    /\ create \in [Scratches -> [pc : CreatePCs, zone : Zones \cup {NoZone},
                                 left : SUBSET Zones]]
    /\ delete \in [Scratches -> {"idle", "delete_vm", "deleted", "over"}]
    /\ reap \in [pc : {"idle", "list", "next", "mark", "delete_vm", "deleted"},
                 at : Start .. MaxClock, s : Scratches \cup {"none"},
                 todo : SUBSET Scratches, listed : [Scratches -> Records]]
    /\ faults \in 0 .. MaxFaults

\* The next zone is only tried once the last one is known to hold no VM of this
\* scratch (isZoneExhausted): a scratch never has two.
OneVM == \A s \in Scratches : \A v, w \in vms : v[1] = s /\ w[1] = s => v = w

\* "insertWithFallthrough sets [scratch.Zone] whenever a VM may exist": every VM is
\* named by the call that made it, or by a record that somebody will still tear
\* down. A call that fails leaves none.
EveryVMTracked ==
    \A v \in vms :
        \/ create[v[1]].zone = v[2] /\ Creating(v[1]) /\ create[v[1]].pc # "cleanup_state"
        \/ rec[v[1]].zone = v[2] /\ rec[v[1]].state \in {"ready", "deleting"}

\* A scratch that was handed out and reads Ready has its VM, in the zone its record
\* says: nothing tears a scratch down that is not marked first.
ReadyHasVM ==
    \A s \in Scratches :
        create[s].pc = "done" /\ rec[s].state = "ready" => <<s, rec[s].zone>> \in vms

\* A scratch handed to nobody, and one half deleted, do not stay so.
HalfDoneEnds ==
    \A s \in Scratches :
        rec[s].state \in {"starting", "deleting"} ~> rec[s].state \in {"ready", "deleted"}

=============================================================================
