------------------------------- MODULE Projects -------------------------------
(***************************************************************************)
(* core/projects: a project is a VLF archive, and its inventory is edited  *)
(* in a workspace, a copy of it in JSON files.  workspace.json says which   *)
(* archive the copy was taken from or saved to, and the hash the inventory  *)
(* had then; an inventory with another hash has changes to be saved.        *)
(*                                                                         *)
(* Threads of several sessions edit, save, open and reload.  Opening reads  *)
(* much of what it decides on before it takes the locks, and writes three   *)
(* files one after another; saving replaces the archive, reads it back and  *)
(* restores the copy it made when the two inventories differ.               *)
(*                                                                         *)
(* The pair of inventory files changes as one (module DeviceGroupStore),    *)
(* except where a workspace is written.  workspace.json is only written by  *)
(* who holds the lock of devices.json, so one lock stands for the three.    *)
(***************************************************************************)
EXTENDS Integers

CONSTANTS
    Session, Thread,
    SessionOf,      \* the session whose thread it is
    Project,
    FirstProject,   \* the project selected last, before all this
    Nobody,         \* holds a lock that is free
    Nowhere,        \* the project of a session whose heartbeat is old
    Editors, Savers, Openers,   \* bound: the threads that edit, save, open
    Imported,       \* bound: the projects whose archive may be brought anew
    MaxVersions,    \* bound: inventories written
    MaxLog,         \* bound: audits in an archive
    MaxFaults       \* bound: crashes, suspensions and failed writes

ASSUME ProjectsAssumption ==
    /\ SessionOf \in [Thread -> Session]
    /\ FirstProject \in Project /\ Nowhere \notin Project
    /\ Nobody \notin Thread
    /\ Editors \cup Savers \cup Openers \subseteq Thread /\ Imported \subseteq Project
    /\ {MaxVersions, MaxLog, MaxFaults} \subseteq Nat

VARIABLES
    files,          \* workspace: devices.json, groups.json; is a member gone?
    meta,           \* workspace.json
    archive,        \* the VLF
    workspaceLock, archiveLock,
    saveLock,       \* _SAVE_LOCK of each process
    pin, row, last, \* Session.config; its row; the project of the configuration
    pc, op,         \* where each thread is; its variables
    version,        \* counts the inventories written
    faults,         \* counts the faults
    pending,        \* ghost: the last edit, until it is saved or given up
    returned        \* ghost: the archive may be again what it had been

disk == <<files, meta, archive>>
locks == <<workspaceLock, archiveLock, saveLock>>
sessions == <<pin, row, last>>
ghosts == <<pending, returned>>
vars == <<disk, locks, sessions, pc, op, version, faults, ghosts>>

-----------------------------------------------------------------------------
(* Inventories.  A version numbers each inventory written; "cut" counts how  *)
(* often its groups have lost the members that are no devices.               *)

Absent == [dev |-> -1, grp |-> -1, cut |-> 0]
NoFiles == [inv |-> Absent, stray |-> FALSE]
NoMeta == [archive |-> Absent, log |-> 0, hash |-> Absent]
Nothing == [inv |-> Absent, log |-> 0]

\* _write_elements_database: a member without a device is not written.
Archived(f) == IF f.stray THEN [f.inv EXCEPT !.cut = @ + 1] ELSE f.inv

Exists(p) == files[p].inv.dev # -1
Dirty(p) == Exists(p) /\ meta[p].hash # files[p].inv
Synchronized(p) ==
    /\ Exists(p) /\ files[p].inv.grp # -1
    /\ meta[p].archive = archive[p].inv /\ meta[p].log = archive[p].log

NoOp == [project |-> FirstProject, refresh |-> FALSE, discard |-> FALSE,
         seen |-> Nothing, copy |-> Nothing, inv |-> Absent]

Init ==
    /\ files = [p \in Project |-> IF p = FirstProject
          THEN [inv |-> [dev |-> 0, grp |-> 0, cut |-> 0], stray |-> FALSE] ELSE NoFiles]
    /\ archive = [p \in Project |-> [inv |-> [dev |-> 0, grp |-> 0, cut |-> 0], log |-> 0]]
    /\ meta = [p \in Project |-> IF p = FirstProject
          THEN [archive |-> archive[p].inv, log |-> 0, hash |-> archive[p].inv] ELSE NoMeta]
    /\ workspaceLock = [p \in Project |-> Nobody]
    /\ archiveLock = [p \in Project |-> Nobody]
    /\ saveLock = [s \in Session |-> Nobody]
    /\ pin = [s \in Session |-> FirstProject] /\ row = pin /\ last = FirstProject
    /\ pc = [t \in Thread |-> "idle"] /\ op = [t \in Thread |-> NoOp]
    /\ version = 0 /\ faults = 0
    /\ pending = [p \in Project |-> Absent]
    /\ returned = [p \in Project |-> FALSE]

-----------------------------------------------------------------------------
Own(t) == SessionOf[t]
At(t) == op[t].project
Goto(t, label) == pc' = [pc EXCEPT ![t] = label]
Put(f, p, value) == [f EXCEPT ![p] = value]
Without(lock, t) == [x \in DOMAIN lock |-> IF lock[x] = t THEN Nobody ELSE lock[x]]

\* The operation ends, and with it whatever it holds.
End(t) ==
    /\ Goto(t, "idle")
    /\ op' = [op EXCEPT ![t] = NoOp]
    /\ workspaceLock' = Without(workspaceLock, t)
    /\ archiveLock' = Without(archiveLock, t)
    /\ saveLock' = Without(saveLock, t)

Fault == faults < MaxFaults /\ faults' = faults + 1

-----------------------------------------------------------------------------
(* Editing the workspace of the session's project. *)

NextVersion == version < MaxVersions /\ version' = version + 1

\* An edit of both files, or a scan, which writes the devices alone: what it
\* forgets, or what changes its MAC, groups may still list.
Edit(t) ==
    LET p == pin[Own(t)]
        old == files[p]
    IN /\ pc[t] = "idle" /\ t \in Editors /\ Exists(p)
       /\ workspaceLock[p] = Nobody
       /\ NextVersion
       /\ \/ \E stray \in {FALSE, old.stray} :
                files' = Put(files, p,
                    [inv |-> [dev |-> version', grp |-> version', cut |-> 0], stray |-> stray])
          \/ \E stray \in BOOLEAN :
                files' = Put(files, p, [inv |-> [old.inv EXCEPT !.dev = version'], stray |-> stray])
       /\ pending' = Put(pending, p, files'[p].inv)
       /\ workspaceLock' = Put(workspaceLock, p, t)
       /\ op' = [op EXCEPT ![t].project = p]
       /\ Goto(t, "audit")
       /\ UNCHANGED <<meta, archive, archiveLock, saveLock, sessions, faults, returned>>

\* _audit_changes writes into the archive, under its lock as well, or fails.
Audit(t) ==
    /\ pc[t] = "audit"
    /\ archiveLock[At(t)] = Nobody
    /\ \/ /\ archive[At(t)].log < MaxLog
          /\ archive' = [archive EXCEPT ![At(t)].log = @ + 1]
       \/ UNCHANGED archive
    /\ End(t)
    /\ UNCHANGED <<files, meta, sessions, version, faults, ghosts>>

-----------------------------------------------------------------------------
(* save_active_project, by command, key, change, scan, timer or at the end.  *)

\* A forced save does not look for changes; the others do, without a lock.
Save(t) ==
    LET p == pin[Own(t)]
    IN /\ pc[t] = "idle" /\ t \in Savers /\ Exists(p)
       /\ saveLock[Own(t)] = Nobody
       /\ saveLock' = Put(saveLock, Own(t), t)
       /\ op' = [op EXCEPT ![t].project = p]
       /\ Goto(t, "lockWorkspace")
       /\ UNCHANGED <<disk, workspaceLock, archiveLock, sessions, version, faults, ghosts>>

\* Fault: the archive is locked first, as when its path is the smaller one.
LockArchiveFirst(t) ==
    /\ pc[t] = "lockWorkspace"
    /\ \/ /\ archiveLock[At(t)] = Nobody
          /\ archiveLock' = Put(archiveLock, At(t), t)
          /\ UNCHANGED <<workspaceLock, pc>>
       \/ /\ archiveLock[At(t)] = t /\ workspaceLock[At(t)] = Nobody
          /\ workspaceLock' = Put(workspaceLock, At(t), t)
          /\ Goto(t, "copy") /\ UNCHANGED archiveLock
    /\ UNCHANGED <<disk, saveLock, sessions, op, version, faults, ghosts>>

\* Locks are taken by sorted path, the workspace before the archive.
LockWorkspace(t) ==
    /\ pc[t] = "lockWorkspace"
    /\ workspaceLock[At(t)] = Nobody
    /\ workspaceLock' = Put(workspaceLock, At(t), t)
    /\ Goto(t, "lockArchive")
    /\ UNCHANGED <<disk, archiveLock, saveLock, sessions, op, version, faults, ghosts>>

LockArchive(t) ==
    /\ pc[t] = "lockArchive"
    /\ archiveLock[At(t)] = Nobody
    /\ archiveLock' = Put(archiveLock, At(t), t)
    /\ op' = [op EXCEPT ![t].seen = archive[At(t)]]
    /\ Goto(t, "copy")
    /\ UNCHANGED <<disk, workspaceLock, saveLock, sessions, version, faults, ghosts>>

\* update_project.  The inventory that is to be found again is noted, and the
\* archive is copied into its .bak.
Copy(t) ==
    /\ pc[t] = "copy"
    /\ op' = [op EXCEPT ![t].copy = archive[At(t)], ![t].inv = files[At(t)].inv]
    /\ Goto(t, "replace")
    /\ UNCHANGED <<disk, locks, sessions, version, faults, ghosts>>

\* What is saved is not what the archive holds, and its devices are no newer.
Older(f, a) == f.inv.dev <= a.inv.dev /\ Archived(f) # a.inv

Replace(t) ==
    /\ pc[t] = "replace"
    /\ archive' = [archive EXCEPT ![At(t)].inv = Archived(files[At(t)])]
    /\ returned' = [returned EXCEPT ![At(t)] = @ \/ Older(files[At(t)], archive[At(t)])]
    /\ Goto(t, "verify")
    /\ UNCHANGED <<files, meta, locks, sessions, op, version, faults, pending>>

\* Fault: what was written is not compared.
VerifySkipped(t) ==
    /\ pc[t] = "verify"
    /\ Goto(t, "mark")
    /\ UNCHANGED <<disk, locks, sessions, op, version, faults, ghosts>>

\* _verify_saved_workspace extracts what was written and compares.
Verify(t) ==
    /\ pc[t] = "verify"
    /\ Goto(t, IF archive[At(t)].inv = op[t].inv THEN "mark" ELSE "restore")
    /\ UNCHANGED <<disk, locks, sessions, op, version, faults, ghosts>>

\* The save fails, and the archive is what it was.
Restore(t) ==
    /\ pc[t] = "restore"
    /\ archive' = Put(archive, At(t), op[t].copy)
    /\ returned' = Put(returned, At(t), TRUE)
    /\ End(t)
    /\ UNCHANGED <<files, meta, sessions, version, faults, pending>>

\* mark_workspace_synchronized
Mark(t) ==
    /\ pc[t] = "mark"
    /\ meta' = Put(meta, At(t), [archive |-> archive[At(t)].inv, log |-> archive[At(t)].log,
                                 hash |-> op[t].inv])
    /\ pending' = Put(pending, At(t), IF pending[At(t)] = op[t].inv THEN Absent ELSE pending[At(t)])
    /\ End(t)
    /\ UNCHANGED <<files, archive, sessions, version, faults, returned>>

-----------------------------------------------------------------------------
(* activate_project_workspace, whose body is prepare_project_workspace.      *)
(* Reloading discards what is in the project of the session.                 *)

Open(t) ==
    /\ pc[t] = "idle" /\ t \in Openers
    /\ \E p \in Project, discard \in BOOLEAN, refresh \in BOOLEAN :
          /\ refresh => discard /\ p = pin[Own(t)] /\ Dirty(p)
          /\ p # pin[Own(t)] => discard \/ ~Dirty(pin[Own(t)])
          /\ archiveLock[p] = Nobody
          /\ op' = [op EXCEPT ![t] = [project |-> p, refresh |-> refresh, discard |-> discard,
                                      seen |-> archive[p], copy |-> Nothing, inv |-> Absent]]
    /\ Goto(t, "decide")
    /\ UNCHANGED <<disk, locks, sessions, version, faults, ghosts>>

\* Fault: what is not in the workspace is not brought there.
DecideSelects(t) ==
    /\ pc[t] = "decide"
    /\ Goto(t, IF op[t].refresh THEN "read" ELSE "select")
    /\ UNCHANGED <<disk, locks, sessions, op, version, faults, ghosts>>

\* Changes that are not asked to be discarded are kept, whatever the archive holds.
Decide(t) ==
    LET p == At(t)
        synchronized == /\ Exists(p) /\ files[p].inv.grp # -1
                        /\ meta[p].archive = op[t].seen.inv /\ meta[p].log = op[t].seen.log
        materialize == op[t].refresh \/ (~synchronized /\ ~Dirty(p))
    IN /\ pc[t] = "decide"
       /\ Goto(t, IF materialize THEN "read" ELSE "select")
       /\ UNCHANGED <<disk, locks, sessions, op, version, faults, ghosts>>

\* _inventory_documents, without a lock.
ReadArchive(t) ==
    /\ pc[t] = "read"
    /\ op' = [op EXCEPT ![t].inv = archive[At(t)].inv]
    /\ Goto(t, "lockFiles")
    /\ UNCHANGED <<disk, locks, sessions, version, faults, ghosts>>

LockFiles(t) ==
    /\ pc[t] = "lockFiles"
    /\ workspaceLock[At(t)] = Nobody
    /\ workspaceLock' = Put(workspaceLock, At(t), t)
    /\ Goto(t, "recheck")
    /\ UNCHANGED <<disk, archiveLock, saveLock, sessions, op, version, faults, ghosts>>

\* Another session is known to use the project by its row.
Shared(t) == \E s \in Session \ {Own(t)} : row[s] = At(t)

\* Fault: changes are not looked for again under the lock.
RecheckArchiveOnly(t) ==
    /\ pc[t] = "recheck"
    /\ archiveLock[At(t)] = Nobody
    /\ \/ /\ archive[At(t)] # op[t].seen
          /\ End(t)
       \/ /\ archive[At(t)] = op[t].seen
          /\ Goto(t, "putDevices") /\ UNCHANGED <<locks, op>>
    /\ UNCHANGED <<disk, sessions, version, faults, ghosts>>

\* Under the lock: the archive, then the changes, then who else is there.
Recheck(t) ==
    /\ pc[t] = "recheck"
    /\ archiveLock[At(t)] = Nobody
    /\ \/ /\ \/ archive[At(t)] # op[t].seen
             \/ Dirty(At(t)) /\ (Shared(t) \/ ~op[t].discard)
          /\ End(t)
       \/ /\ archive[At(t)] = op[t].seen
          /\ Dirty(At(t)) => op[t].discard /\ ~Shared(t)
          /\ Goto(t, "putDevices") /\ UNCHANGED <<locks, op>>
    /\ UNCHANGED <<disk, sessions, version, faults, ghosts>>

\* Three files, one after the other.  A write that fails leaves the rest undone.
PutDevices(t) ==
    /\ pc[t] = "putDevices"
    /\ files' = [files EXCEPT ![At(t)].inv.dev = op[t].inv.dev]
    /\ pending' = Put(pending, At(t), IF op[t].discard THEN Absent ELSE pending[At(t)])
    /\ Goto(t, "putGroups")
    /\ UNCHANGED <<meta, archive, locks, sessions, op, version, faults, returned>>

PutGroups(t) ==
    /\ pc[t] = "putGroups"
    /\ files' = Put(files, At(t), [inv |-> op[t].inv, stray |-> FALSE])
    /\ Goto(t, "putMeta")
    /\ UNCHANGED <<meta, archive, locks, sessions, op, version, faults, ghosts>>

PutMeta(t) ==
    /\ pc[t] = "putMeta"
    /\ meta' = Put(meta, At(t), [archive |-> op[t].seen.inv, log |-> op[t].seen.log,
                                 hash |-> files[At(t)].inv])
    /\ workspaceLock' = Without(workspaceLock, t)
    /\ Goto(t, "select")
    /\ UNCHANGED <<files, archive, archiveLock, saveLock, sessions, op, version, faults, ghosts>>

\* update_config: the session is pinned to the project, and so are future ones.
Select(t) ==
    /\ pc[t] = "select"
    /\ pin' = Put(pin, Own(t), At(t))
    /\ last' = IF At(t) = pin[Own(t)] THEN last ELSE At(t)
    /\ End(t)
    /\ UNCHANGED <<disk, row, version, faults, ghosts>>

-----------------------------------------------------------------------------
(* What happens to sessions and archives. *)

\* The row of a session follows at its next heartbeat...
Beat(s) ==
    /\ row[s] # pin[s]
    /\ row' = Put(row, s, pin[s])
    /\ UNCHANGED <<disk, locks, pin, last, pc, op, version, faults, ghosts>>

\* ...and is not looked at when that is 15 s ago.
Suspend(s) ==
    /\ row[s] # Nowhere
    /\ Fault
    /\ row' = Put(row, s, Nowhere)
    /\ UNCHANGED <<disk, locks, pin, last, pc, op, version, ghosts>>

\* A lock is waited for 15 s.  An audit that gives up is an audit that fails.
GiveUp(t) ==
    /\ \/ pc[t] \in {"lockWorkspace", "lockFiles"} /\ workspaceLock[At(t)] # Nobody
       \/ pc[t] \in {"lockArchive", "recheck", "audit"} /\ archiveLock[At(t)] # Nobody
    /\ End(t)
    /\ UNCHANGED <<disk, sessions, version, faults, ghosts>>

\* A file of the workspace, or the archive, cannot be written.
WriteFails(t) ==
    /\ pc[t] \in {"putDevices", "putGroups", "putMeta", "copy", "replace", "restore", "mark"}
    /\ Fault
    /\ End(t)
    /\ UNCHANGED <<disk, sessions, version, ghosts>>

\* The process ends or dies; the next one takes up the project selected last.
Crash(s) ==
    LET mine == {t \in Thread : SessionOf[t] = s}
        freed(lock) == [x \in DOMAIN lock |-> IF lock[x] \in mine THEN Nobody ELSE lock[x]]
    IN /\ Fault
       /\ pc' = [t \in Thread |-> IF t \in mine THEN "idle" ELSE pc[t]]
       /\ op' = [t \in Thread |-> IF t \in mine THEN NoOp ELSE op[t]]
       /\ workspaceLock' = freed(workspaceLock) /\ archiveLock' = freed(archiveLock)
       /\ saveLock' = freed(saveLock)
       /\ pin' = Put(pin, s, last) /\ row' = Put(row, s, last)
       /\ UNCHANGED <<disk, last, version, ghosts>>

\* A newer archive, from another machine, takes the place of the old one.
Import(p) ==
    /\ p \in Imported /\ archiveLock[p] = Nobody
    /\ NextVersion
    /\ archive' = [archive EXCEPT ![p].inv = [dev |-> version', grp |-> version', cut |-> 0]]
    /\ UNCHANGED <<files, meta, locks, sessions, pc, op, faults, ghosts>>

-----------------------------------------------------------------------------
Saving(t) == \/ LockWorkspace(t) \/ LockArchive(t) \/ Copy(t) \/ Replace(t)
             \/ Verify(t) \/ Restore(t) \/ Mark(t)
Opening(t) == \/ Decide(t) \/ ReadArchive(t) \/ LockFiles(t) \/ Recheck(t)
              \/ PutDevices(t) \/ PutGroups(t) \/ PutMeta(t) \/ Select(t)
Step(t) == Audit(t) \/ Saving(t) \/ Opening(t)

Next ==
    \/ \E t \in Thread : Edit(t) \/ Save(t) \/ Open(t) \/ Step(t) \/ GiveUp(t) \/ WriteFails(t)
    \/ \E s \in Session : Beat(s) \/ Suspend(s) \/ Crash(s)
    \/ \E p \in Project : Import(p)

Spec == Init /\ [][Next]_vars

-----------------------------------------------------------------------------
\* What each variable may hold; a session's project has a workspace.
Inventories == [dev : -1 .. MaxVersions, grp : -1 .. MaxVersions, cut : Nat]
Archives == [inv : Inventories, log : 0 .. MaxLog]

TypeOK ==
    /\ files \in [Project -> [inv : Inventories, stray : BOOLEAN]]
    /\ meta \in [Project -> [archive : Inventories, log : 0 .. MaxLog, hash : Inventories]]
    /\ archive \in [Project -> Archives]
    /\ workspaceLock \in [Project -> Thread \cup {Nobody}]
    /\ archiveLock \in [Project -> Thread \cup {Nobody}]
    /\ saveLock \in [Session -> Thread \cup {Nobody}]
    /\ pin \in [Session -> {p \in Project : Exists(p)}] /\ last \in Project
    /\ row \in [Session -> Project \cup {Nowhere}]
    /\ pc \in [Thread -> {"idle", "audit", "lockWorkspace", "lockArchive", "copy", "replace",
          "verify", "restore", "mark", "decide", "read", "lockFiles", "recheck",
          "putDevices", "putGroups", "putMeta", "select"}]
    /\ op \in [Thread -> [project : Project, refresh : BOOLEAN, discard : BOOLEAN,
          seen : Archives, copy : Archives, inv : Inventories]]
    /\ version \in 0 .. MaxVersions /\ faults \in 0 .. MaxFaults
    /\ pending \in [Project -> Inventories] /\ returned \in [Project -> BOOLEAN]

\* An edit stays in the workspace, and is reported as to be saved, until an archive
\* that holds it has been confirmed or somebody asks to discard it.
EditsKept ==
    \A p \in Project : pending[p] # Absent => Dirty(p) /\ files[p].inv = pending[p]

\* A workspace said to be that of the archive beside it holds what the archive holds,
\* as long as no older inventory has been saved over a newer one.
ConfirmedIsSaved ==
    \A p \in Project : Synchronized(p) /\ ~Dirty(p) /\ ~returned[p] =>
        files[p].inv = archive[p].inv

\* Who waits for whom.
WaitsFor(t, u) ==
    \/ pc[t] \in {"lockWorkspace", "lockFiles"} /\ workspaceLock[At(t)] = u
    \/ pc[t] \in {"lockWorkspace", "lockArchive", "recheck", "audit"} /\ archiveLock[At(t)] = u

\* No two threads wait for each other until one gives up: an edit that audits, a
\* save and an opening all take the workspace before the archive.
NoWaitCycle ==
    \A t, u \in Thread : ~(t # u /\ WaitsFor(t, u) /\ WaitsFor(u, t))

\* A save that is refused, because what it wrote is not what it meant to write,
\* leaves the archive as it was when the save took its lock.
RefusedSaveUndone ==
    [][\A t \in Thread : pc[t] = "restore" /\ pc'[t] = "idle" /\ faults' = faults =>
          archive'[At(t)] = op[t].seen]_vars

-----------------------------------------------------------------------------
\* "Una recarga destructiva no descarta cambios pendientes cuando otra sesión
\* mantiene abierto ese proyecto."  Refuted: the other session is looked for by a
\* row that still names the project it had before.
ReloadSparesOthers ==
    [][\A t \in Thread : PutDevices(t) /\ Dirty(At(t)) =>
          \A s \in Session \ {Own(t)} : pin[s] # At(t)]_vars
=============================================================================
