--------------------------- MODULE DeviceGroupStore ---------------------------
(***************************************************************************)
(* How LANIP keeps devices.json and groups.json in step: core/database.py  *)
(* and core/group_database.py.  Several processes (CLI, TUI, GUI, plugins) *)
(* work on the two files.  A change to both is bracketed by a journal that *)
(* holds the files as they were, under the locks of both files; whoever    *)
(* finds a journal rolls the files back before it goes on.                 *)
(*                                                                         *)
(* One replacement of one file (temporary file, fsync, os.replace, fsync   *)
(* of the directory) is one step, and so is its loss.  A process is one    *)
(* thread; the locks are those of FileLock seen from outside, released by  *)
(* the operating system when the process dies.  A file that is missing is  *)
(* what load() makes of it: no devices, BASIC alone.                       *)
(***************************************************************************)
EXTENDS Inventory, Integers

CONSTANTS
    Proc,               \* processes
    None,               \* no owner
    NoJournal,          \* there is no journal file
    DevicesFirst,       \* does the devices path sort before the groups path?
    SessionRetention,   \* may a scan set absent devices aside in memory?
    MaxOps,             \* bound: operations started
    MaxFaults           \* bound: crashes and failed writes

ASSUME StoreAssumption ==
    /\ None \notin Proc
    /\ NoJournal \notin Inventories
    /\ DevicesFirst \in BOOLEAN
    /\ SessionRetention \in BOOLEAN
    /\ MaxOps \in Nat
    /\ MaxFaults \in Nat

Lock == {"dev", "grp"}
OneFileKinds == {"group", "device", "save"}
Kinds == OneFileKinds \cup {"none", "load", "pair"}
Outcomes == {"none", "ok", "failed", "stale", "damaged", "crashed"}

Blank == [dev |-> EmptyDevices, grp |-> DefaultGroups]
BlankSnapshot == [revision |-> EmptyDevices, base |-> EmptyDevices]

VARIABLES
    devFile, grpFile,   \* devices.json and groups.json
    journal,            \* devices.json.groups.transaction
    owner,              \* lock -> the process that holds it
    pc, op, out,        \* where each process is, in what operation; its outcome
    plan,               \* what it will write
    snap,               \* the device list a scan was given, and its revision
    cache,              \* _SESSION_DEVICES, in the memory of the process
    ops, faults,        \* counts, for the bounds
    adrift              \* ghost: devices left out of step with the groups (Inventory)

files == <<devFile, grpFile, journal>>
local == <<op, plan, snap, cache>>
counts == <<ops, faults>>
vars == <<devFile, grpFile, journal, owner, pc, op, out, plan, snap, cache,
          ops, faults, adrift>>

OnDisk == [dev |-> devFile, grp |-> grpFile]
\* What a reader that recovers first gets: the pair, rolled back if need be.
Committed == IF journal = NoJournal THEN OnDisk ELSE journal

-----------------------------------------------------------------------------
Holds(p, l) == owner[l] = p
HoldsBoth(p) == \A l \in Lock : Holds(p, l)

Recovering(p) == pc[p] = "lockAll"
\* The locks of the wrapper, or those of a recovery nested in it.
Wanted(p) == IF Recovering(p) \/ op[p] \in {"load", "pair", "group"} THEN Lock ELSE {"dev"}
Waiting(p) == pc[p] \in {"lock", "lockAll"} /\ \E l \in Wanted(p) : ~Holds(p, l)
First == IF DevicesFirst THEN "dev" ELSE "grp"
\* Fault: a method that names the groups file first locks it first.
NextLockAsNamed(p) ==
    LET missing == {l \in Wanted(p) : ~Holds(p, l)}
        first == IF op[p] = "group" THEN "grp" ELSE First
    IN IF first \in missing THEN first ELSE CHOOSE l \in missing : TRUE
\* locked_files takes them by sorted path; a lock already held is counted only.
NextLock(p) == LET missing == {l \in Wanted(p) : ~Holds(p, l)}
               IN IF First \in missing THEN First ELSE CHOOSE l \in missing : TRUE

Goto(p, label) == pc' = [pc EXCEPT ![p] = label]
\* Fault: only the lock of the devices file is released.
ReleaseDevOnly(p) == owner' = [owner EXCEPT !["dev"] = IF @ = p THEN None ELSE @]
Release(p) == owner' = [l \in Lock |-> IF owner[l] = p THEN None ELSE owner[l]]

\* The operation ends: its locks are released and its variables are gone.
Finish(p, outcome) ==
    /\ Release(p)
    /\ Goto(p, "idle")
    /\ out' = [out EXCEPT ![p] = outcome]
    /\ op' = [op EXCEPT ![p] = "none"]
    /\ plan' = [plan EXCEPT ![p] = Blank]
    /\ snap' = [snap EXCEPT ![p] = BlankSnapshot]

\* Every failed system call and every crash is counted.
Fault == faults < MaxFaults /\ faults' = faults + 1 /\ UNCHANGED ops

-----------------------------------------------------------------------------
(* Loading without a lock, as a scan does, and the scan itself. *)

Begin(p, kind) ==
    /\ pc[p] = "idle"
    /\ ops < MaxOps
    /\ ops' = ops + 1
    /\ op' = [op EXCEPT ![p] = kind]
    /\ out' = [out EXCEPT ![p] = "none"]
    /\ UNCHANGED <<files, owner, plan, snap, cache, faults, adrift>>

\* recover_device_group_transaction asks first whether there is a journal...
StartLoad(p) ==
    /\ Begin(p, "load")
    /\ Goto(p, IF journal = NoJournal THEN "read" ELSE "peek")

\* ...then reads it, still without a lock: a journal that its owner has just
\* removed is reported as a damaged one.
Peek(p) ==
    /\ pc[p] = "peek"
    /\ \/ /\ journal = NoJournal
          /\ Finish(p, "damaged")
          /\ UNCHANGED <<files, cache, counts, adrift>>
       \/ /\ journal # NoJournal
          /\ Goto(p, "lockAll")
          /\ UNCHANGED <<files, owner, out, local, counts, adrift>>

\* Devices set aside in memory are shown, and saved, as if they had been read.
WithSession(dev, aside) ==
    LET missing == aside.present \ dev.present
    IN [present |-> dev.present \cup missing,
        reserved |-> dev.reserved \cup (aside.reserved \cap missing),
        mac |-> [d \in Device |-> IF d \in missing THEN aside.mac[d] ELSE dev.mac[d]],
        in |-> dev.in \cup {e \in aside.in : e[1] \in missing}]

Only(dev, kept) == Without(dev, Device \ kept)

ReadDevices(p) ==
    /\ pc[p] = "read"
    /\ snap' = [snap EXCEPT ![p] = [revision |-> devFile,
                                    base |-> WithSession(devFile, cache[p])]]
    /\ Goto(p, "scan")
    /\ UNCHANGED <<files, owner, op, out, plan, cache, counts, adrift>>

\* A command that only lists ends here.
DropSnapshot(p) ==
    /\ pc[p] = "scan"
    /\ Finish(p, "ok")
    /\ UNCHANGED <<files, cache, counts, adrift>>

\* The scan is over: preview merges it and apply_retention sets absent devices
\* aside, in memory ("session") or for good, before any lock is taken.
Preview(p) ==
    /\ pc[p] = "scan"
    /\ \E seen \in PreviewResults(snap[p].base) :
       \E gone \in SUBSET (seen.present \ seen.reserved) :
       \E session \in {FALSE, SessionRetention} :
          /\ plan' = [plan EXCEPT ![p].dev = Without(seen, gone)]
          /\ cache' = [cache EXCEPT ![p] = IF session THEN Only(seen, gone)
                                                      ELSE EmptyDevices]
    /\ op' = [op EXCEPT ![p] = "save"]
    /\ Goto(p, "lock")
    /\ UNCHANGED <<files, owner, out, snap, counts, adrift>>

-----------------------------------------------------------------------------
(* Locks. *)

\* A wrapped method: pair and group operations lock both files, the methods of
\* DeviceDatabase only devices.json.
Start(p) ==
    /\ \E kind \in {"pair", "group", "device"} : Begin(p, kind)
    /\ Goto(p, "lock")

Acquire(p) ==
    /\ Waiting(p)
    /\ owner[NextLock(p)] = None
    /\ owner' = [owner EXCEPT ![NextLock(p)] = p]
    /\ UNCHANGED <<files, pc, out, local, counts, adrift>>

\* After 15 seconds: every lock of the operation is released.
LockTimeout(p) ==
    /\ Waiting(p)
    /\ owner[NextLock(p)] # None
    /\ Finish(p, "failed")
    /\ UNCHANGED <<files, cache, counts, adrift>>

Locked(p) ==
    /\ pc[p] \in {"lock", "lockAll"}
    /\ ~Waiting(p)
    /\ Goto(p, IF op[p] = "save" /\ ~Recovering(p) THEN "check" ELSE "open")
    /\ UNCHANGED <<files, owner, out, local, counts, adrift>>

\* save_devices compares the bytes of devices.json with the revision it loaded,
\* before _write loads the file (and recovers it).
CheckRevision(p) ==
    /\ pc[p] = "check"
    /\ \/ /\ devFile # snap[p].revision
          /\ Finish(p, "stale")
          /\ UNCHANGED <<files, cache, counts, adrift>>
       \/ /\ devFile = snap[p].revision
          /\ Goto(p, "open")
          /\ UNCHANGED <<files, owner, out, local, counts, adrift>>

\* Locks of a nested recovery are released when it returns.
AfterRecovery(p) ==
    owner' = [l \in Lock |-> IF /\ owner[l] = p
                                /\ \/ op[p] = "load"
                                   \/ op[p] \in {"device", "save"} /\ l = "grp"
                             THEN None ELSE owner[l]]

\* load(), under the locks: recover when there is a journal.
Open(p) ==
    /\ pc[p] = "open"
    /\ \/ /\ journal = NoJournal
          /\ AfterRecovery(p)
          /\ Goto(p, CASE op[p] = "load" -> "read"
                       [] op[p] = "save" -> "replace"
                       [] OTHER -> "plan")
       \/ /\ journal # NoJournal
          /\ Goto(p, IF HoldsBoth(p) THEN "restoreDev" ELSE "lockAll")
          /\ UNCHANGED owner
    /\ UNCHANGED <<files, out, local, counts, adrift>>

-----------------------------------------------------------------------------
(* Recovery. *)

\* Fault: the snapshots of the journal are swapped.
RestoreDevSwapped(p) ==
    /\ pc[p] = "restoreDev"
    /\ devFile' = journal.grp
    /\ Goto(p, "restoreGrp")
    /\ UNCHANGED <<grpFile, journal, owner, out, local, counts, adrift>>

RestoreDev(p) ==
    /\ pc[p] = "restoreDev"
    /\ devFile' = journal.dev
    /\ Goto(p, "restoreGrp")
    /\ UNCHANGED <<grpFile, journal, owner, out, local, counts, adrift>>

\* Fault: recovery restores devices.json only.
RestoreGrpSkipped(p) ==
    /\ pc[p] = "restoreGrp"
    /\ Goto(p, "dropJournal")
    /\ UNCHANGED <<files, owner, out, local, counts, adrift>>

RestoreGrp(p) ==
    /\ pc[p] = "restoreGrp"
    /\ grpFile' = journal.grp
    /\ Goto(p, "dropJournal")
    /\ UNCHANGED <<devFile, journal, owner, out, local, counts, adrift>>

DropJournal(p) ==
    /\ pc[p] = "dropJournal"
    /\ journal' = NoJournal
    /\ Goto(p, "open")
    /\ UNCHANGED <<devFile, grpFile, owner, out, local, counts, adrift>>

-----------------------------------------------------------------------------
(* The operations. *)

\* The method computes its result from what it loaded...
PlanResults(p) ==
    CASE op[p] = "pair" -> PairResults(OnDisk)
      [] op[p] = "group" -> GroupResults(OnDisk)
      [] OTHER -> {[plan[p] EXCEPT !.dev = dev] : dev \in DeviceResults(devFile)}

Plan(p) ==
    /\ pc[p] = "plan"
    /\ \E result \in PlanResults(p) : plan' = [plan EXCEPT ![p] = result]
    /\ Goto(p, IF op[p] = "pair" THEN "journal" ELSE "replace")
    /\ UNCHANGED <<files, owner, op, out, snap, cache, counts, adrift>>

\* ...or rejects its arguments.
Reject(p) ==
    /\ pc[p] = "plan"
    /\ Finish(p, "failed")
    /\ UNCHANGED <<files, cache, counts, adrift>>

\* _commit_pair: the files as they are go to the journal first.
WriteJournal(p) ==
    /\ pc[p] = "journal"
    /\ journal' = OnDisk
    /\ Goto(p, "writeDev")
    /\ UNCHANGED <<devFile, grpFile, owner, out, local, counts, adrift>>

WriteDev(p) ==
    /\ pc[p] = "writeDev"
    /\ devFile' = plan[p].dev
    /\ Goto(p, "writeGrp")
    /\ UNCHANGED <<grpFile, journal, owner, out, local, counts, adrift>>

\* Fault: the groups are never written (write_groups=False).
WriteGrpSkipped(p) ==
    /\ pc[p] = "writeGrp"
    /\ Goto(p, "commit")
    /\ UNCHANGED <<files, owner, out, local, counts, adrift>>

\* edit_device_fields may leave groups.json alone: plan and file are then equal.
WriteGrp(p) ==
    /\ pc[p] = "writeGrp"
    /\ grpFile' = plan[p].grp
    /\ Goto(p, "commit")
    /\ UNCHANGED <<devFile, journal, owner, out, local, counts, adrift>>

\* Without the journal the new pair is the one that counts.
DropsJournal == /\ journal' = NoJournal
                /\ adrift' = adrift \cup Rekeyed(journal.dev, devFile)

Commit(p) ==
    /\ pc[p] = "commit"
    /\ DropsJournal
    /\ Goto(p, "audit")
    /\ UNCHANGED <<devFile, grpFile, owner, out, local, counts>>

\* create, set_description; DeviceDatabase._write.
ReplaceGrp(p) ==
    /\ pc[p] = "replace" /\ op[p] = "group"
    /\ grpFile' = plan[p].grp
    /\ Finish(p, "ok")
    /\ UNCHANGED <<devFile, journal, cache, counts, adrift>>

\* The device list is rewritten, groups.json is not.
ReplacedAlone(p) ==
    /\ devFile' = plan[p].dev
    /\ adrift' = adrift \cup Rekeyed(devFile, plan[p].dev) \cup Regrouped(devFile, plan[p].dev)

ReplaceDev(p) ==
    /\ pc[p] = "replace" /\ op[p] # "group"
    /\ ReplacedAlone(p)
    /\ Goto(p, "audit")
    /\ UNCHANGED <<grpFile, journal, owner, out, local, counts>>

\* _audit_changes writes to the program log and the project history.
Audit(p) ==
    /\ pc[p] = "audit"
    /\ Finish(p, "ok")
    /\ UNCHANGED <<files, cache, counts, adrift>>

-----------------------------------------------------------------------------
(* What can go wrong.  A failed replacement may have happened or not: the   *)
(* fsync of the directory comes after os.replace.                           *)

JournalFails(p) ==
    /\ pc[p] = "journal"
    /\ journal' \in {journal, OnDisk}
    /\ Finish(p, "failed")
    /\ Fault
    /\ UNCHANGED <<devFile, grpFile, cache, adrift>>

WriteDevFails(p) ==
    /\ pc[p] = "writeDev"
    /\ devFile' \in {devFile, plan[p].dev}
    /\ Goto(p, "undoDev")
    /\ Fault
    /\ UNCHANGED <<grpFile, journal, owner, out, local, adrift>>

WriteGrpFails(p) ==
    /\ pc[p] = "writeGrp"
    /\ grpFile' \in {grpFile, plan[p].grp}
    /\ Goto(p, "undoDev")
    /\ Fault
    /\ UNCHANGED <<devFile, journal, owner, out, local, adrift>>

\* The except clause of _commit_pair restores what it read itself; it equals the
\* journal, since the locks are held.
UndoDev(p) ==
    /\ pc[p] = "undoDev"
    /\ devFile' = journal.dev
    /\ Goto(p, "undoGrp")
    /\ UNCHANGED <<grpFile, journal, owner, out, local, counts, adrift>>

UndoGrp(p) ==
    /\ pc[p] = "undoGrp"
    /\ grpFile' = journal.grp
    /\ Goto(p, "undoDrop")
    /\ UNCHANGED <<devFile, journal, owner, out, local, counts, adrift>>

UndoDrop(p) ==
    /\ pc[p] = "undoDrop"
    /\ journal' = NoJournal
    /\ Finish(p, "failed")
    /\ UNCHANGED <<devFile, grpFile, cache, counts, adrift>>

\* A step of the undo, of a recovery or of the commit fails: the error leaves
\* through the lock, and the journal stays (or its removal was not synced).
RestoreDevFails(p) ==
    /\ pc[p] \in {"restoreDev", "undoDev"}
    /\ devFile' \in {devFile, journal.dev}
    /\ Finish(p, "failed")
    /\ Fault
    /\ UNCHANGED <<grpFile, journal, cache, adrift>>

RestoreGrpFails(p) ==
    /\ pc[p] \in {"restoreGrp", "undoGrp"}
    /\ grpFile' \in {grpFile, journal.grp}
    /\ Finish(p, "failed")
    /\ Fault
    /\ UNCHANGED <<devFile, journal, cache, adrift>>

DropFails(p) ==
    /\ pc[p] \in {"dropJournal", "undoDrop", "commit"}
    /\ DropsJournal \/ UNCHANGED <<journal, adrift>>
    /\ Finish(p, "failed")
    /\ Fault
    /\ UNCHANGED <<devFile, grpFile, cache>>

ReplaceGrpFails(p) ==
    /\ pc[p] = "replace" /\ op[p] = "group"
    /\ grpFile' \in {grpFile, plan[p].grp}
    /\ Finish(p, "failed")
    /\ Fault
    /\ UNCHANGED <<devFile, journal, cache, adrift>>

ReplaceDevFails(p) ==
    /\ pc[p] = "replace" /\ op[p] # "group"
    /\ ReplacedAlone(p) \/ UNCHANGED <<devFile, adrift>>
    /\ Finish(p, "failed")
    /\ Fault
    /\ UNCHANGED <<grpFile, journal, cache>>

\* The log of a moved project, or a lock timeout in it: the write is in place,
\* the operation reports an error.
AuditFails(p) ==
    /\ pc[p] = "audit"
    /\ Finish(p, "failed")
    /\ Fault
    /\ UNCHANGED <<files, cache, adrift>>

\* The process dies; the operating system drops its file locks.
Crash(p) ==
    /\ pc[p] # "idle"
    /\ Finish(p, "crashed")
    /\ cache' = [cache EXCEPT ![p] = EmptyDevices]
    /\ Fault
    /\ UNCHANGED <<files, adrift>>

-----------------------------------------------------------------------------
Loads(p) == StartLoad(p) \/ Peek(p) \/ ReadDevices(p) \/ DropSnapshot(p) \/ Preview(p)
Locks(p) == Acquire(p) \/ LockTimeout(p) \/ Locked(p) \/ CheckRevision(p) \/ Open(p)
Recovery(p) == RestoreDev(p) \/ RestoreGrp(p) \/ DropJournal(p)
Work(p) == \/ Plan(p) \/ Reject(p) \/ WriteJournal(p) \/ WriteDev(p) \/ WriteGrp(p)
           \/ Commit(p) \/ ReplaceGrp(p) \/ ReplaceDev(p) \/ Audit(p)
Undo(p) == UndoDev(p) \/ UndoGrp(p) \/ UndoDrop(p)
Faults(p) == \/ JournalFails(p) \/ WriteDevFails(p) \/ WriteGrpFails(p)
             \/ RestoreDevFails(p) \/ RestoreGrpFails(p) \/ DropFails(p)
             \/ ReplaceGrpFails(p) \/ ReplaceDevFails(p) \/ AuditFails(p) \/ Crash(p)

Init ==
    /\ devFile \in DeviceFile
    /\ grpFile \in GroupFile
    /\ Kept(OnDisk, {})
    /\ journal = NoJournal
    /\ owner = [l \in Lock |-> None]
    /\ pc = [p \in Proc |-> "idle"]
    /\ op = [p \in Proc |-> "none"]
    /\ out = [p \in Proc |-> "none"]
    /\ plan = [p \in Proc |-> Blank]
    /\ snap = [p \in Proc |-> BlankSnapshot]
    /\ cache = [p \in Proc |-> EmptyDevices]
    /\ ops = 0
    /\ faults = 0
    /\ adrift = {}

ProcNext(p) == Loads(p) \/ Start(p) \/ Locks(p) \/ Recovery(p) \/ Work(p) \/ Undo(p) \/ Faults(p)

Next == \E p \in Proc : ProcNext(p)

Spec == Init /\ [][Next]_vars

\* A running process takes its steps, and a free lock is noticed by the poll;
\* nothing is assumed of timeouts, errors and crashes.
Progress(p) ==
    \/ Peek(p) \/ ReadDevices(p) \/ DropSnapshot(p) \/ Preview(p)
    \/ Acquire(p) \/ Locked(p) \/ CheckRevision(p) \/ Open(p)
    \/ Recovery(p) \/ Work(p) \/ Undo(p)

Fairness == \A p \in Proc : WF_vars(Progress(p))

-----------------------------------------------------------------------------
(* What is checked. *)

\* Steps that run with the lock of devices.json, and with both locks.
Outside == {"idle", "peek", "read", "scan", "lock", "lockAll"}
WithBoth == {"restoreDev", "restoreGrp", "dropJournal", "journal", "writeDev", "writeGrp",
             "commit", "undoDev", "undoGrp", "undoDrop"}
Inside == WithBoth \cup {"check", "open", "plan", "replace", "audit"}

\* The files are always the old or the new contents of a replacement, and each
\* process is at a step of its operation with what that step needs.
TypeOK ==
    /\ devFile \in DeviceFile
    /\ grpFile \in GroupFile
    /\ journal \in Inventories \cup {NoJournal}
    /\ owner \in [Lock -> Proc \cup {None}]
    /\ pc \in [Proc -> Outside \cup Inside]
    /\ op \in [Proc -> Kinds]
    /\ out \in [Proc -> Outcomes]
    /\ plan \in [Proc -> Inventories]
    /\ snap \in [Proc -> [revision : DeviceFile, base : DeviceFile]]
    /\ cache \in [Proc -> DeviceFile]
    /\ ops \in 0..MaxOps /\ faults \in 0..MaxFaults
    /\ adrift \subseteq Device

(* The inductive invariant, process by process: which operations reach a    *)
(* step, which locks it holds there, and what the files and journal are.    *)

OpOK(p) ==
    /\ pc[p] \in {"peek", "read", "scan"} => op[p] = "load"
    /\ pc[p] \in {"lock", "plan", "replace", "audit"} => op[p] # "load"
    /\ pc[p] \in {"journal", "writeDev", "writeGrp", "commit", "undoDev", "undoGrp",
                   "undoDrop"} => op[p] = "pair"
    /\ pc[p] = "replace" => op[p] # "pair"
    /\ pc[p] = "audit" => op[p] # "group"
    /\ pc[p] = "check" => op[p] = "save"
    /\ pc[p] = "plan" => op[p] # "save"
    /\ op[p] = "none" <=> pc[p] = "idle"
    /\ op[p] = "save" => plan[p].dev \in ScanResults(snap[p].base)

LocksOK(p) ==
    /\ pc[p] \in Inside => Holds(p, "dev")
    /\ pc[p] \in Inside /\ op[p] \in {"load", "pair", "group"} => Holds(p, "grp")
    /\ pc[p] \in WithBoth => Holds(p, "grp")

FilesOK(p) ==
    /\ pc[p] \in {"plan", "replace", "journal", "audit"} => journal = NoJournal
    /\ pc[p] \in WithBoth \ {"journal"} => journal \in Inventories
    /\ pc[p] = "journal" => plan[p] \in PairResults(OnDisk)
    /\ pc[p] = "replace" =>
          CASE op[p] = "group" -> plan[p] \in GroupResults(OnDisk)
            [] op[p] = "device" -> plan[p].dev \in DeviceResults(devFile)
            [] OTHER -> TRUE
    /\ pc[p] = "writeDev" => OnDisk = journal
    /\ pc[p] \in {"writeDev", "writeGrp", "commit"} => plan[p] \in PairResults(journal)
    /\ pc[p] = "writeGrp" => devFile = plan[p].dev /\ grpFile = journal.grp
    /\ pc[p] = "commit" => OnDisk = plan[p]
    /\ pc[p] \in {"restoreGrp", "undoGrp"} => devFile = journal.dev
    /\ pc[p] \in {"dropJournal", "undoDrop"} => OnDisk = journal
    /\ pc[p] = "audit" =>
          devFile = plan[p].dev /\ (op[p] = "pair" => grpFile = plan[p].grp)

\* What a process believes of locks, files and journal at each step is so: nobody
\* writes without the locks, and the journal holds the pair last committed.
StoreInv == TypeOK /\ \A p \in Proc : OpOK(p) /\ LocksOK(p) /\ FilesOK(p)

Abs == INSTANCE InventorySpec WITH inv <- Committed, adrift <- adrift

\* Whatever is interleaved, crashes or fails, a reader that recovers first sees
\* the inventory change by whole operations only.
Refines == Abs!AbsSpec

\* In what such a reader sees, BASIC exists, and a device that no change of the
\* list alone has set adrift names groups that exist and list its MAC.
CommittedConsistent == Abs!AbsConsistent

\* Two processes never hold one lock each while waiting for the other's.
NoWaitCycle ==
    \A p, q \in Proc :
        ~ /\ Waiting(p) /\ owner[NextLock(p)] = q
          /\ Waiting(q) /\ owner[NextLock(q)] = p
          /\ p # q

\* When an operation reports success, what it planned is what is committed.
Reported(p) == out[p] # "ok" /\ out'[p] = "ok" /\ op[p] \in {"pair", "group", "device", "save"}

OkMeansCommitted ==
    [][\A p \in Proc : Reported(p) =>
          /\ op[p] # "group" => Committed'.dev = plan[p].dev
          /\ op[p] \in {"pair", "group"} => Committed'.grp = plan[p].grp
          /\ journal' = NoJournal]_vars

\* No operation waits for ever, even were there no timeout.
OperationsEnd == \A p \in Proc : pc[p] # "idle" ~> pc[p] = "idle"

-----------------------------------------------------------------------------
(* What the documents say and the code does not keep: each is refuted by a run. *)

\* save_devices refuses a snapshot when the file has changed since it was read.
SaveNeverStale ==
    [][\A p \in Proc : op[p] = "save" /\ pc[p] = "replace" /\ pc'[p] = "audit" =>
          devFile = snap[p].revision]_vars

\* A reader reports a damaged journal only for a damaged journal.
NoSpuriousDamage == \A p \in Proc : out[p] # "damaged"
=============================================================================
