----------------------------- MODULE ProjectsProofs -----------------------------
(***************************************************************************)
(* An edit is neither lost nor hidden until it is saved or given up, what   *)
(* is confirmed is saved, and no two threads wait for each other.           *)
(***************************************************************************)
EXTENDS Projects, WellFoundedInduction, TLAPS

USE ProjectsAssumption

\* The steps that hold the archive of a project, and those that hold its workspace.
Both == {"copy", "replace", "verify", "restore", "mark"}
Holds == Both \cup {"audit", "lockArchive", "recheck", "putDevices", "putGroups", "putMeta"}
Label == Holds \cup {"idle", "lockWorkspace", "decide", "read", "lockFiles", "select"}

Inventory == [dev : Int, grp : Int, cut : Int]
Archive == [inv : Inventory, log : Int]
Op == [project : Project, refresh : BOOLEAN, discard : BOOLEAN,
       seen : Archive, copy : Archive, inv : Inventory]

Types ==
    /\ files \in [Project -> [inv : Inventory, stray : BOOLEAN]]
    /\ meta \in [Project -> [archive : Inventory, log : Int, hash : Inventory]]
    /\ archive \in [Project -> Archive]
    /\ workspaceLock \in [Project -> Thread \cup {Nobody}]
    /\ archiveLock \in [Project -> Thread \cup {Nobody}]
    /\ saveLock \in [Session -> Thread \cup {Nobody}]
    /\ pin \in [Session -> Project] /\ last \in Project
    /\ pc \in [Thread -> Label] /\ op \in [Thread -> Op]
    /\ version \in Nat /\ pending \in [Project -> Inventory]

\* Who holds a lock is at a step that takes it, and is the one that is.
LocksOK ==
    /\ \A t \in Thread, p \in Project : workspaceLock[p] = t <=> At(t) = p /\ pc[t] \in Holds
    /\ \A t \in Thread, p \in Project : archiveLock[p] = t <=> At(t) = p /\ pc[t] \in Both

\* No inventory is of a version that is yet to come.
Known(inv) == inv.dev <= version
VersionsOK ==
    /\ \A p \in Project : Known(archive[p].inv) /\ Known(files[p].inv) /\ Known(meta[p].hash)
    /\ \A t \in Thread : Known(op[t].inv) /\ Known(op[t].copy.inv)

\* What a thread has noted of the project is still so.
ThreadOK(t) ==
    /\ pc[t] \in Both \ {"copy"} => op[t].inv = files[At(t)].inv
    /\ pc[t] = "putDevices" /\ ~op[t].discard => ~Dirty(At(t))
    /\ pc[t] \in {"putGroups", "putMeta"} => pending[At(t)] = Absent

ProjectsInv ==
    /\ Types
    /\ LocksOK
    /\ VersionsOK
    /\ \A t \in Thread : ThreadOK(t)
    /\ EditsKept

\* A field of what a thread, or an archive, has is set.
LEMMA SetOp ==
  ASSUME op \in [Thread -> Op], NEW t \in Thread
  PROVE  /\ \A p \in Project : [op EXCEPT ![t].project = p] \in [Thread -> Op]
         /\ \A a \in Archive : [op EXCEPT ![t].seen = a] \in [Thread -> Op]
         /\ \A i \in Inventory : [op EXCEPT ![t].inv = i] \in [Thread -> Op]
         /\ \A c \in Archive, i \in Inventory :
               [op EXCEPT ![t].copy = c, ![t].inv = i] \in [Thread -> Op]
  <1>1. op[t] \in Op
    OBVIOUS
  <1>2. /\ \A p \in Project : [op[t] EXCEPT !.project = p] \in Op
        /\ \A a \in Archive : [op[t] EXCEPT !.seen = a] \in Op
        /\ \A i \in Inventory : [op[t] EXCEPT !.inv = i] \in Op
        /\ \A c \in Archive, i \in Inventory : [op[t] EXCEPT !.copy = c, !.inv = i] \in Op
    BY <1>1 DEF Op
  <1>3. QED
    BY <1>2

LEMMA SetArchive ==
  ASSUME archive \in [Project -> Archive], NEW p \in Project
  PROVE  /\ \A i \in Inventory : [archive EXCEPT ![p].inv = i] \in [Project -> Archive]
         /\ [archive EXCEPT ![p].log = @ + 1] \in [Project -> Archive]
         /\ \A q \in Project : [archive EXCEPT ![p].log = @ + 1][q].inv = archive[q].inv
  <1>1. archive[p] \in Archive
    OBVIOUS
  <1>2. /\ \A i \in Inventory : [archive[p] EXCEPT !.inv = i] \in Archive
        /\ [archive[p] EXCEPT !.log = @ + 1] \in Archive
        /\ [archive[p] EXCEPT !.log = @ + 1].inv = archive[p].inv
    BY <1>1 DEF Archive
  <1>3. QED
    BY <1>2

LEMMA NoOpIsOp == Absent \in Inventory /\ NoOp \in Op /\ NoOp.inv = Absent /\ NoOp.copy.inv = Absent
  <1>1. Absent \in Inventory
    BY DEF Absent, Inventory
  <1>2. Nothing \in Archive
    BY <1>1 DEF Nothing, Archive
  <1>3. QED
    BY <1>1, <1>2 DEF NoOp, Nothing, Op

\* An edit is newer than what the workspace was said to hold.
LEMMA EditKeepsInv == ASSUME ProjectsInv, NEW t \in Thread, Edit(t) PROVE ProjectsInv'
  <1> USE DEF ProjectsInv, Edit, disk, locks, sessions, ghosts, At, Goto, Put, End, Without
  <1>1. Types'
    <2> DEFINE p == pin[Own(t)]
    <2>1. p \in Project /\ version' \in Nat
      BY DEF Types, Own, NextVersion
    <2>2. files[p].inv \in Inventory
      BY <2>1 DEF Types
    <2>3. \A v \in Nat : [dev |-> v, grp |-> v, cut |-> 0] \in Inventory
      BY DEF Inventory
    <2>4. [files[p].inv EXCEPT !.dev = version'] \in Inventory
      BY <2>1, <2>2 DEF Inventory
    <2>5. PICK f \in [inv : Inventory, stray : BOOLEAN] : files' = [files EXCEPT ![p] = f]
      <3>1. files[p].stray \in BOOLEAN
        BY <2>1 DEF Types
      <3>2. QED
        BY <2>1, <2>3, <2>4, <3>1
    <2>6. files' \in [Project -> [inv : Inventory, stray : BOOLEAN]] /\ files'[p].inv \in Inventory
      BY <2>1, <2>5 DEF Types
    <2>7. op' \in [Thread -> Op]
      BY <2>1, SetOp DEF Types
    <2>8. QED
      BY <2>1, <2>6, <2>7 DEF Types, Both, Holds, Label
  <1>2. LocksOK'
    BY DEF Types, LocksOK, Both, Holds, NoOp, Op
  <1>3. VersionsOK'
    <2> DEFINE p == pin[Own(t)]
    <2>1. p \in Project /\ version' = version + 1 /\ version \in Nat
      BY DEF Types, Own, NextVersion
    <2>2. files'[p].inv.dev = version' /\ \A q \in Project \ {p} : files'[q] = files[q]
      <3>1. files[p].inv \in Inventory
        BY <2>1 DEF Types
      <3>2. \A y : /\ [inv |-> [files[p].inv EXCEPT !.dev = version'], stray |-> y].inv.dev = version'
                   /\ [inv |-> [dev |-> version', grp |-> version', cut |-> 0], stray |-> y].inv.dev
                         = version'
        BY <3>1 DEF Inventory
      <3>3. \E f : files' = [files EXCEPT ![p] = f] /\ f.inv.dev = version'
        BY <3>2
      <3>4. QED
        BY <2>1, <3>3 DEF Types
    <2>3. \A u \in Thread : op'[u].inv = op[u].inv /\ op'[u].copy = op[u].copy
      BY DEF Types, Op
    <2>4. \A p1 \in Project : Known(archive[p1].inv)' /\ Known(meta[p1].hash)'
      BY <2>1 DEF Types, VersionsOK, Known, Archive, Inventory
    <2>5. \A p1 \in Project : Known(files[p1].inv)'
      <3>1. files'[p].inv.dev <= version'
        BY <2>1, <2>2
      <3>2. \A q \in Project \ {p} : files[q].inv.dev <= version'
        BY <2>1 DEF Types, VersionsOK, Known, Inventory
      <3>3. QED
        BY <2>2, <3>1, <3>2 DEF Known
    <2>6. \A u \in Thread : Known(op[u].inv)' /\ Known(op[u].copy.inv)'
      BY <2>1, <2>3 DEF Types, VersionsOK, Known, Op, Archive, Inventory
    <2>7. QED
      BY <2>4, <2>5, <2>6 DEF VersionsOK
  <1>4. (\A u \in Thread : ThreadOK(u))'
    <2> DEFINE p == pin[Own(t)]
    <2>1. p \in Project /\ \A q \in Project \ {p} : files'[q] = files[q] /\ pending'[q] = pending[q]
      BY DEF Types, Own
    <2>2. ASSUME NEW u \in Thread PROVE ThreadOK(u)'
      <3>1. CASE u = t
        BY <3>1 DEF Types, ThreadOK, Both
      <3>2. CASE u # t
        <4>1. pc'[u] = pc[u] /\ op'[u] = op[u] /\ At(u) \in Project /\ ThreadOK(u)
          BY <3>2 DEF Types, Op
        <4>2. pc[u] \in Holds => At(u) # p
          BY <2>1, <4>1 DEF LocksOK
        <4>3. QED
          BY <2>1, <4>1, <4>2 DEF ThreadOK, Both, Holds, Dirty, Exists
      <3>3. QED
        BY <3>1, <3>2
    <2>3. QED
      BY <2>2
  <1>5. EditsKept'
    <2> DEFINE p == pin[Own(t)]
    <2>1. /\ p \in Project /\ version' = version + 1 /\ version \in Nat
          /\ \A q \in Project \ {p} : files'[q] = files[q] /\ pending'[q] = pending[q]
          /\ pending'[p] = files'[p].inv /\ meta' = meta
      BY DEF Types, Own, NextVersion
    <2>2. files'[p].inv.dev = version'
      <3>1. files[p].inv \in Inventory
        BY <2>1 DEF Types
      <3>2. \A y : /\ [inv |-> [files[p].inv EXCEPT !.dev = version'], stray |-> y].inv.dev = version'
                   /\ [inv |-> [dev |-> version', grp |-> version', cut |-> 0], stray |-> y].inv.dev
                         = version'
        BY <3>1 DEF Inventory
      <3>3. \E f : files' = [files EXCEPT ![p] = f] /\ f.inv.dev = version'
        BY <3>2
      <3>4. QED
        BY <2>1, <3>3 DEF Types
    <2>3. meta[p].hash.dev <= version
      BY <2>1 DEF VersionsOK, Known
    <2>4. Dirty(p)'
      BY <2>1, <2>2, <2>3 DEF Dirty, Exists
    <2>5. \A q \in Project \ {p} : Dirty(q)' <=> Dirty(q)
      BY <2>1 DEF Dirty, Exists
    <2>6. QED
      BY <2>1, <2>4, <2>5 DEF EditsKept
  <1>6. QED
    BY <1>1, <1>2, <1>3, <1>4, <1>5

LEMMA AuditKeepsInv == ASSUME ProjectsInv, NEW t \in Thread, Audit(t) PROVE ProjectsInv'
  <1> USE DEF ProjectsInv, Audit, disk, locks, sessions, ghosts, At, Goto, Put, End, Without
  <1>1. Types'
    <2>1. At(t) \in Project
      BY DEF Types, Op
    <2>2. \/ archive' = [archive EXCEPT ![At(t)].log = @ + 1]
          \/ archive' = archive
      OBVIOUS
    <2>3. archive \in [Project -> Archive]
      BY DEF Types
    <2>4. [archive EXCEPT ![At(t)].log = @ + 1] \in [Project -> Archive]
      BY <2>1, <2>3, SetArchive
    <2>5. archive' \in [Project -> Archive]
      BY <2>2, <2>3, <2>4
    <2>6. QED
      BY <2>5, NoOpIsOp DEF Types, Both, Holds, Label
  <1>2. LocksOK'
    BY DEF Types, LocksOK, Both, Holds, NoOp, Op
  <1>3. VersionsOK'
    <2>1. Known(NoOp.inv) /\ Known(NoOp.copy.inv)
      BY NoOpIsOp DEF Absent, Known, Types
    <2>2. At(t) \in Project
      BY DEF Types, Op
    <2>3. \A p \in Project : archive'[p].inv = archive[p].inv
      BY <2>2, SetArchive DEF Types
    <2>4. QED
      BY <2>1, <2>3 DEF Types, VersionsOK, Known
  <1>4. (\A u \in Thread : ThreadOK(u))'
    BY DEF Types, LocksOK, ThreadOK, Both, Holds, Dirty, Exists, EditsKept
  <1>5. EditsKept'
    BY DEF Types, LocksOK, ThreadOK, EditsKept, Both, Holds, Dirty, Exists
  <1>6. QED
    BY <1>1, <1>2, <1>3, <1>4, <1>5

LEMMA SaveKeepsInv == ASSUME ProjectsInv, NEW t \in Thread, Save(t) PROVE ProjectsInv'
  <1> USE DEF ProjectsInv, Save, disk, locks, sessions, ghosts, At, Goto, Put, End, Without
  <1>1. Types'
    <2>1. pin[Own(t)] \in Project
      BY DEF Types, Own
    <2>2. op' \in [Thread -> Op]
      BY <2>1, SetOp DEF Types
    <2>3. QED
      BY <2>1, <2>2 DEF Types, Own, Both, Holds, Label
  <1>2. LocksOK'
    BY DEF Types, LocksOK, Both, Holds, NoOp, Op
  <1>3. VersionsOK'
    BY DEF Types, VersionsOK, Known, Inventory, Archive, Op, NoOp, Nothing, Absent, Archived, ThreadOK, Both
  <1>4. (\A u \in Thread : ThreadOK(u))'
    BY DEF Types, LocksOK, ThreadOK, Both, Holds, Dirty, Exists, EditsKept
  <1>5. EditsKept'
    BY DEF Types, LocksOK, ThreadOK, EditsKept, Both, Holds, Dirty, Exists
  <1>6. QED
    BY <1>1, <1>2, <1>3, <1>4, <1>5

LEMMA LockWorkspaceKeepsInv == ASSUME ProjectsInv, NEW t \in Thread, LockWorkspace(t) PROVE ProjectsInv'
  <1> USE DEF ProjectsInv, LockWorkspace, disk, locks, sessions, ghosts, At, Goto, Put, End, Without
  <1>1. Types'
    BY DEF Types, Inventory, Archive, Op, NoOp, Nothing, Absent, Both, Holds, Label
  <1>2. LocksOK'
    BY DEF Types, LocksOK, Both, Holds, NoOp, Op
  <1>3. VersionsOK'
    BY DEF Types, VersionsOK, Known, Inventory, Archive, Op, NoOp, Nothing, Absent, Archived, ThreadOK, Both
  <1>4. (\A u \in Thread : ThreadOK(u))'
    BY DEF Types, LocksOK, ThreadOK, Both, Holds, Dirty, Exists, EditsKept
  <1>5. EditsKept'
    BY DEF Types, LocksOK, ThreadOK, EditsKept, Both, Holds, Dirty, Exists
  <1>6. QED
    BY <1>1, <1>2, <1>3, <1>4, <1>5

LEMMA LockArchiveKeepsInv == ASSUME ProjectsInv, NEW t \in Thread, LockArchive(t) PROVE ProjectsInv'
  <1> USE DEF ProjectsInv, LockArchive, disk, locks, sessions, ghosts, At, Goto, Put, End, Without
  <1>1. Types'
    <2>1. At(t) \in Project
      BY DEF Types, Op
    <2>2. archive[At(t)] \in Archive
      BY <2>1 DEF Types
    <2>3. op' \in [Thread -> Op]
      BY <2>2, SetOp DEF Types
    <2>4. QED
      BY <2>1, <2>3 DEF Types, Both, Holds, Label
  <1>2. LocksOK'
    BY DEF Types, LocksOK, Both, Holds, NoOp, Op
  <1>3. VersionsOK'
    BY DEF Types, VersionsOK, Known, Inventory, Archive, Op, NoOp, Nothing, Absent, Archived, ThreadOK, Both
  <1>4. (\A u \in Thread : ThreadOK(u))'
    BY DEF Types, LocksOK, ThreadOK, Both, Holds, Dirty, Exists, EditsKept
  <1>5. EditsKept'
    BY DEF Types, LocksOK, ThreadOK, EditsKept, Both, Holds, Dirty, Exists
  <1>6. QED
    BY <1>1, <1>2, <1>3, <1>4, <1>5

LEMMA CopyKeepsInv == ASSUME ProjectsInv, NEW t \in Thread, Copy(t) PROVE ProjectsInv'
  <1> USE DEF ProjectsInv, Copy, disk, locks, sessions, ghosts, At, Goto, Put, End, Without
  <1>1. Types'
    <2>1. At(t) \in Project
      BY DEF Types, Op
    <2>2. archive[At(t)] \in Archive /\ files[At(t)].inv \in Inventory
      BY <2>1 DEF Types
    <2>3. op' \in [Thread -> Op]
      BY <2>2, SetOp DEF Types
    <2>4. QED
      BY <2>3 DEF Types, Both, Holds, Label
  <1>2. LocksOK'
    BY DEF Types, LocksOK, Both, Holds, NoOp, Op
  <1>3. VersionsOK'
    BY DEF Types, VersionsOK, Known, Inventory, Archive, Op, NoOp, Nothing, Absent, Archived, ThreadOK, Both
  <1>4. (\A u \in Thread : ThreadOK(u))'
    BY DEF Types, LocksOK, ThreadOK, Both, Holds, Dirty, Exists, EditsKept
  <1>5. EditsKept'
    BY DEF Types, LocksOK, ThreadOK, EditsKept, Both, Holds, Dirty, Exists
  <1>6. QED
    BY <1>1, <1>2, <1>3, <1>4, <1>5

LEMMA ReplaceKeepsInv == ASSUME ProjectsInv, NEW t \in Thread, Replace(t) PROVE ProjectsInv'
  <1> USE DEF ProjectsInv, Replace, disk, locks, sessions, ghosts, At, Goto, Put, End, Without
  <1>1. Types'
    <2>1. At(t) \in Project
      BY DEF Types, Op
    <2>2. files[At(t)].inv \in Inventory
      BY <2>1 DEF Types
    <2>3. Archived(files[At(t)]) \in Inventory
      BY <2>2 DEF Archived, Inventory
    <2>4. archive' \in [Project -> Archive]
      BY <2>1, <2>3, SetArchive DEF Types
    <2>5. QED
      BY <2>4 DEF Types, Both, Holds, Label
  <1>2. LocksOK'
    BY DEF Types, LocksOK, Both, Holds, NoOp, Op
  <1>3. VersionsOK'
    BY DEF Types, VersionsOK, Known, Inventory, Archive, Op, NoOp, Nothing, Absent, Archived, ThreadOK, Both
  <1>4. (\A u \in Thread : ThreadOK(u))'
    BY DEF Types, LocksOK, ThreadOK, Both, Holds, Dirty, Exists, EditsKept
  <1>5. EditsKept'
    BY DEF Types, LocksOK, ThreadOK, EditsKept, Both, Holds, Dirty, Exists
  <1>6. QED
    BY <1>1, <1>2, <1>3, <1>4, <1>5

LEMMA VerifyKeepsInv == ASSUME ProjectsInv, NEW t \in Thread, Verify(t) PROVE ProjectsInv'
  <1> USE DEF ProjectsInv, Verify, disk, locks, sessions, ghosts, At, Goto, Put, End, Without
  <1>1. Types'
    BY DEF Types, Inventory, Archive, Op, NoOp, Nothing, Absent, Both, Holds, Label
  <1>2. LocksOK'
    BY DEF Types, LocksOK, Both, Holds, NoOp, Op
  <1>3. VersionsOK'
    BY DEF Types, VersionsOK, Known, Inventory, Archive, Op, NoOp, Nothing, Absent, Archived, ThreadOK, Both
  <1>4. (\A u \in Thread : ThreadOK(u))'
    BY DEF Types, LocksOK, ThreadOK, Both, Holds, Dirty, Exists, EditsKept
  <1>5. EditsKept'
    BY DEF Types, LocksOK, ThreadOK, EditsKept, Both, Holds, Dirty, Exists
  <1>6. QED
    BY <1>1, <1>2, <1>3, <1>4, <1>5

LEMMA RestoreKeepsInv == ASSUME ProjectsInv, NEW t \in Thread, Restore(t) PROVE ProjectsInv'
  <1> USE DEF ProjectsInv, Restore, disk, locks, sessions, ghosts, At, Goto, Put, End, Without
  <1>1. Types'
    BY DEF Types, Inventory, Archive, Op, NoOp, Nothing, Absent, Both, Holds, Label
  <1>2. LocksOK'
    BY DEF Types, LocksOK, Both, Holds, NoOp, Op
  <1>3. VersionsOK'
    BY DEF Types, VersionsOK, Known, Inventory, Archive, Op, NoOp, Nothing, Absent, Archived, ThreadOK, Both
  <1>4. (\A u \in Thread : ThreadOK(u))'
    BY DEF Types, LocksOK, ThreadOK, Both, Holds, Dirty, Exists, EditsKept
  <1>5. EditsKept'
    BY DEF Types, LocksOK, ThreadOK, EditsKept, Both, Holds, Dirty, Exists
  <1>6. QED
    BY <1>1, <1>2, <1>3, <1>4, <1>5

LEMMA MarkKeepsInv == ASSUME ProjectsInv, NEW t \in Thread, Mark(t) PROVE ProjectsInv'
  <1> USE DEF ProjectsInv, Mark, disk, locks, sessions, ghosts, At, Goto, Put, End, Without
  <1>1. Types'
    BY DEF Types, Inventory, Archive, Op, NoOp, Nothing, Absent, Both, Holds, Label
  <1>2. LocksOK'
    BY DEF Types, LocksOK, Both, Holds, NoOp, Op
  <1>3. VersionsOK'
    BY DEF Types, VersionsOK, Known, Inventory, Archive, Op, NoOp, Nothing, Absent, Archived, ThreadOK, Both
  <1>4. (\A u \in Thread : ThreadOK(u))'
    BY DEF Types, LocksOK, ThreadOK, Both, Holds, Dirty, Exists, EditsKept
  <1>5. EditsKept'
    BY DEF Types, LocksOK, ThreadOK, EditsKept, Both, Holds, Dirty, Exists
  <1>6. QED
    BY <1>1, <1>2, <1>3, <1>4, <1>5

LEMMA OpenKeepsInv == ASSUME ProjectsInv, NEW t \in Thread, Open(t) PROVE ProjectsInv'
  <1> USE DEF ProjectsInv, Open, disk, locks, sessions, ghosts, At, Goto, Put, End, Without
  <1>1. Types'
    BY DEF Types, Inventory, Archive, Op, NoOp, Nothing, Absent, Both, Holds, Label
  <1>2. LocksOK'
    BY DEF Types, LocksOK, Both, Holds, NoOp, Op
  <1>3. VersionsOK'
    BY DEF Types, VersionsOK, Known, Inventory, Archive, Op, NoOp, Nothing, Absent, Archived, ThreadOK, Both
  <1>4. (\A u \in Thread : ThreadOK(u))'
    BY DEF Types, LocksOK, ThreadOK, Both, Holds, Dirty, Exists, EditsKept
  <1>5. EditsKept'
    BY DEF Types, LocksOK, ThreadOK, EditsKept, Both, Holds, Dirty, Exists
  <1>6. QED
    BY <1>1, <1>2, <1>3, <1>4, <1>5

LEMMA DecideKeepsInv == ASSUME ProjectsInv, NEW t \in Thread, Decide(t) PROVE ProjectsInv'
  <1> USE DEF ProjectsInv, Decide, disk, locks, sessions, ghosts, At, Goto, Put, End, Without
  <1>1. Types'
    BY DEF Types, Inventory, Archive, Op, NoOp, Nothing, Absent, Both, Holds, Label
  <1>2. LocksOK'
    BY DEF Types, LocksOK, Both, Holds, NoOp, Op
  <1>3. VersionsOK'
    BY DEF Types, VersionsOK, Known, Inventory, Archive, Op, NoOp, Nothing, Absent, Archived, ThreadOK, Both
  <1>4. (\A u \in Thread : ThreadOK(u))'
    BY DEF Types, LocksOK, ThreadOK, Both, Holds, Dirty, Exists, EditsKept
  <1>5. EditsKept'
    BY DEF Types, LocksOK, ThreadOK, EditsKept, Both, Holds, Dirty, Exists
  <1>6. QED
    BY <1>1, <1>2, <1>3, <1>4, <1>5

LEMMA ReadArchiveKeepsInv == ASSUME ProjectsInv, NEW t \in Thread, ReadArchive(t) PROVE ProjectsInv'
  <1> USE DEF ProjectsInv, ReadArchive, disk, locks, sessions, ghosts, At, Goto, Put, End, Without
  <1>1. Types'
    <2>1. At(t) \in Project
      BY DEF Types, Op
    <2>2. archive[At(t)].inv \in Inventory
      BY <2>1 DEF Types, Archive
    <2>3. op' \in [Thread -> Op]
      BY <2>2, SetOp DEF Types
    <2>4. QED
      BY <2>3 DEF Types, Both, Holds, Label
  <1>2. LocksOK'
    BY DEF Types, LocksOK, Both, Holds, NoOp, Op
  <1>3. VersionsOK'
    BY DEF Types, VersionsOK, Known, Inventory, Archive, Op, NoOp, Nothing, Absent, Archived, ThreadOK, Both
  <1>4. (\A u \in Thread : ThreadOK(u))'
    BY DEF Types, LocksOK, ThreadOK, Both, Holds, Dirty, Exists, EditsKept
  <1>5. EditsKept'
    BY DEF Types, LocksOK, ThreadOK, EditsKept, Both, Holds, Dirty, Exists
  <1>6. QED
    BY <1>1, <1>2, <1>3, <1>4, <1>5

LEMMA LockFilesKeepsInv == ASSUME ProjectsInv, NEW t \in Thread, LockFiles(t) PROVE ProjectsInv'
  <1> USE DEF ProjectsInv, LockFiles, disk, locks, sessions, ghosts, At, Goto, Put, End, Without
  <1>1. Types'
    BY DEF Types, Inventory, Archive, Op, NoOp, Nothing, Absent, Both, Holds, Label
  <1>2. LocksOK'
    BY DEF Types, LocksOK, Both, Holds, NoOp, Op
  <1>3. VersionsOK'
    BY DEF Types, VersionsOK, Known, Inventory, Archive, Op, NoOp, Nothing, Absent, Archived, ThreadOK, Both
  <1>4. (\A u \in Thread : ThreadOK(u))'
    BY DEF Types, LocksOK, ThreadOK, Both, Holds, Dirty, Exists, EditsKept
  <1>5. EditsKept'
    BY DEF Types, LocksOK, ThreadOK, EditsKept, Both, Holds, Dirty, Exists
  <1>6. QED
    BY <1>1, <1>2, <1>3, <1>4, <1>5

LEMMA RecheckKeepsInv == ASSUME ProjectsInv, NEW t \in Thread, Recheck(t) PROVE ProjectsInv'
  <1> USE DEF ProjectsInv, Recheck, disk, locks, sessions, ghosts, At, Goto, Put, End, Without
  <1>1. Types'
    <2>1. pc' \in [Thread -> Label]
      BY DEF Types, Both, Holds, Label
    <2>2. op' \in [Thread -> Op]
      BY NoOpIsOp DEF Types
    <2>3. QED
      BY <2>1, <2>2 DEF Types
  <1>2. LocksOK'
    BY DEF Types, LocksOK, Both, Holds, NoOp, Op
  <1>3. VersionsOK'
    <2>1. Known(NoOp.inv) /\ Known(NoOp.copy.inv)
      BY NoOpIsOp DEF Absent, Known, Types
    <2>2. QED
      BY <2>1 DEF Types, VersionsOK, Known
  <1>4. (\A u \in Thread : ThreadOK(u))'
    BY DEF Types, LocksOK, ThreadOK, Both, Holds, Dirty, Exists, EditsKept
  <1>5. EditsKept'
    BY DEF Types, LocksOK, ThreadOK, EditsKept, Both, Holds, Dirty, Exists
  <1>6. QED
    BY <1>1, <1>2, <1>3, <1>4, <1>5

\* Whoever opens a project puts its files there if there is no edit or it is discarded.
LEMMA PutDevicesKeepsInv == ASSUME ProjectsInv, NEW t \in Thread, PutDevices(t) PROVE ProjectsInv'
  <1> USE DEF ProjectsInv, PutDevices, disk, locks, sessions, ghosts, At, Goto, Put, End, Without
  <1>1. Types'
    <2>1. At(t) \in Project /\ op[t].inv \in Inventory
      BY DEF Types, Op
    <2>2. files[At(t)] \in [inv : Inventory, stray : BOOLEAN]
      BY <2>1 DEF Types
    <2>3. [files[At(t)] EXCEPT !.inv.dev = op[t].inv.dev] \in [inv : Inventory, stray : BOOLEAN]
      BY <2>1, <2>2 DEF Inventory
    <2>4. files' \in [Project -> [inv : Inventory, stray : BOOLEAN]]
      BY <2>1, <2>3 DEF Types
    <2>5. Absent \in Inventory
      BY DEF Absent, Inventory
    <2>6. pending' \in [Project -> Inventory]
      BY <2>1, <2>5 DEF Types
    <2>7. QED
      BY <2>4, <2>6 DEF Types, Both, Holds, Label
  <1>2. LocksOK'
    BY DEF Types, LocksOK, Both, Holds, NoOp, Op
  <1>3. VersionsOK'
    BY DEF Types, VersionsOK, Known, Inventory, Archive, Op, NoOp, Nothing, Absent, Archived, ThreadOK, Both
  <1>4. (\A u \in Thread : ThreadOK(u))'
    <2>1. /\ At(t) \in Project /\ pc[t] = "putDevices" /\ pc' = [pc EXCEPT ![t] = "putGroups"] /\ op' = op
          /\ \A q \in Project \ {At(t)} : files'[q] = files[q] /\ pending'[q] = pending[q]
          /\ pending'[At(t)] = IF op[t].discard THEN Absent ELSE pending[At(t)]
          /\ op[t].discard \in BOOLEAN
      BY DEF Types, Op
    <2>2. ~op[t].discard => pending[At(t)] = Absent
      BY <2>1 DEF ThreadOK, EditsKept
    <2>3. ASSUME NEW u \in Thread PROVE ThreadOK(u)'
      <3>1. CASE u = t
        BY <2>1, <2>2, <3>1 DEF Types, ThreadOK, Both
      <3>2. CASE u # t
        <4>1. pc'[u] = pc[u] /\ At(u) \in Project /\ ThreadOK(u)
          BY <2>1, <3>2 DEF Types, Op
        <4>2. pc[u] \in Holds => At(u) # At(t)
          BY <2>1, <3>2, <4>1 DEF LocksOK, Holds
        <4>3. QED
          BY <2>1, <4>1, <4>2 DEF ThreadOK, Both, Holds, Dirty, Exists
      <3>3. QED
        BY <3>1, <3>2
    <2>4. QED
      BY <2>3
  <1>5. EditsKept'
    <2>1. /\ At(t) \in Project /\ meta' = meta
          /\ \A q \in Project \ {At(t)} : files'[q] = files[q] /\ pending'[q] = pending[q]
          /\ pending'[At(t)] = IF op[t].discard THEN Absent ELSE pending[At(t)]
      BY DEF Types, Op
    <2>2. pending'[At(t)] = Absent
      BY <2>1 DEF ThreadOK, EditsKept
    <2>3. \A q \in Project \ {At(t)} : Dirty(q)' <=> Dirty(q)
      BY <2>1 DEF Dirty, Exists
    <2>4. QED
      BY <2>1, <2>2, <2>3 DEF EditsKept
  <1>6. QED
    BY <1>1, <1>2, <1>3, <1>4, <1>5

LEMMA PutGroupsKeepsInv == ASSUME ProjectsInv, NEW t \in Thread, PutGroups(t) PROVE ProjectsInv'
  <1> USE DEF ProjectsInv, PutGroups, disk, locks, sessions, ghosts, At, Goto, Put, End, Without
  <1>1. Types'
    BY DEF Types, Inventory, Archive, Op, NoOp, Nothing, Absent, Both, Holds, Label
  <1>2. LocksOK'
    BY DEF Types, LocksOK, Both, Holds, NoOp, Op
  <1>3. VersionsOK'
    BY DEF Types, VersionsOK, Known, Inventory, Archive, Op, NoOp, Nothing, Absent, Archived, ThreadOK, Both
  <1>4. (\A u \in Thread : ThreadOK(u))'
    BY DEF Types, LocksOK, ThreadOK, Both, Holds, Dirty, Exists, EditsKept
  <1>5. EditsKept'
    BY DEF Types, LocksOK, ThreadOK, EditsKept, Both, Holds, Dirty, Exists
  <1>6. QED
    BY <1>1, <1>2, <1>3, <1>4, <1>5

LEMMA PutMetaKeepsInv == ASSUME ProjectsInv, NEW t \in Thread, PutMeta(t) PROVE ProjectsInv'
  <1> USE DEF ProjectsInv, PutMeta, disk, locks, sessions, ghosts, At, Goto, Put, End, Without
  <1>1. Types'
    BY DEF Types, Inventory, Archive, Op, NoOp, Nothing, Absent, Both, Holds, Label
  <1>2. LocksOK'
    BY DEF Types, LocksOK, Both, Holds, NoOp, Op
  <1>3. VersionsOK'
    BY DEF Types, VersionsOK, Known, Inventory, Archive, Op, NoOp, Nothing, Absent, Archived, ThreadOK, Both
  <1>4. (\A u \in Thread : ThreadOK(u))'
    BY DEF Types, LocksOK, ThreadOK, Both, Holds, Dirty, Exists, EditsKept
  <1>5. EditsKept'
    BY DEF Types, LocksOK, ThreadOK, EditsKept, Both, Holds, Dirty, Exists
  <1>6. QED
    BY <1>1, <1>2, <1>3, <1>4, <1>5

LEMMA SelectKeepsInv == ASSUME ProjectsInv, NEW t \in Thread, Select(t) PROVE ProjectsInv'
  <1> USE DEF ProjectsInv, Select, disk, locks, sessions, ghosts, At, Goto, Put, End, Without
  <1>1. Types'
    <2>1. At(t) \in Project
      BY DEF Types, Op
    <2>2. pin' \in [Session -> Project] /\ last' \in Project
      BY <2>1 DEF Types
    <2>3. QED
      BY <2>2, NoOpIsOp DEF Types, Both, Holds, Label
  <1>2. LocksOK'
    BY DEF Types, LocksOK, Both, Holds, NoOp, Op
  <1>3. VersionsOK'
    BY DEF Types, VersionsOK, Known, Inventory, Archive, Op, NoOp, Nothing, Absent, Archived, ThreadOK, Both
  <1>4. (\A u \in Thread : ThreadOK(u))'
    BY DEF Types, LocksOK, ThreadOK, Both, Holds, Dirty, Exists, EditsKept
  <1>5. EditsKept'
    BY DEF Types, LocksOK, ThreadOK, EditsKept, Both, Holds, Dirty, Exists
  <1>6. QED
    BY <1>1, <1>2, <1>3, <1>4, <1>5

LEMMA GiveUpKeepsInv == ASSUME ProjectsInv, NEW t \in Thread, GiveUp(t) PROVE ProjectsInv'
  <1> USE DEF ProjectsInv, GiveUp, disk, locks, sessions, ghosts, At, Goto, Put, End, Without
  <1>1. Types'
    BY DEF Types, Inventory, Archive, Op, NoOp, Nothing, Absent, Both, Holds, Label
  <1>2. LocksOK'
    BY DEF Types, LocksOK, Both, Holds, NoOp, Op
  <1>3. VersionsOK'
    BY DEF Types, VersionsOK, Known, Inventory, Archive, Op, NoOp, Nothing, Absent, Archived, ThreadOK, Both
  <1>4. (\A u \in Thread : ThreadOK(u))'
    BY DEF Types, LocksOK, ThreadOK, Both, Holds, Dirty, Exists, EditsKept
  <1>5. EditsKept'
    BY DEF Types, LocksOK, ThreadOK, EditsKept, Both, Holds, Dirty, Exists
  <1>6. QED
    BY <1>1, <1>2, <1>3, <1>4, <1>5

LEMMA WriteFailsKeepsInv == ASSUME ProjectsInv, NEW t \in Thread, WriteFails(t) PROVE ProjectsInv'
  <1> USE DEF ProjectsInv, WriteFails, disk, locks, sessions, ghosts, At, Goto, Put, End, Without
  <1>1. Types'
    BY DEF Types, Inventory, Archive, Op, NoOp, Nothing, Absent, Both, Holds, Label
  <1>2. LocksOK'
    BY DEF Types, LocksOK, Both, Holds, NoOp, Op
  <1>3. VersionsOK'
    BY DEF Types, VersionsOK, Known, Inventory, Archive, Op, NoOp, Nothing, Absent, Archived, ThreadOK, Both
  <1>4. (\A u \in Thread : ThreadOK(u))'
    BY DEF Types, LocksOK, ThreadOK, Both, Holds, Dirty, Exists, EditsKept
  <1>5. EditsKept'
    BY DEF Types, LocksOK, ThreadOK, EditsKept, Both, Holds, Dirty, Exists
  <1>6. QED
    BY <1>1, <1>2, <1>3, <1>4, <1>5

-----------------------------------------------------------------------------
LEMMA InitProjectsInv == Init => ProjectsInv
  <1> SUFFICES ASSUME Init PROVE ProjectsInv
    OBVIOUS
  <1>1. Absent \in Inventory /\ Known(Absent) /\ [dev |-> 0, grp |-> 0, cut |-> 0] \in Inventory
    BY DEF Init, Absent, Inventory, Known
  <1>2. NoOp \in Op /\ Known(NoOp.inv) /\ Known(NoOp.copy.inv)
    BY <1>1 DEF NoOp, Nothing, Op, Archive
  <1>3. archive \in [Project -> Archive]
    BY <1>1 DEF Init, Archive
  <1>4. files \in [Project -> [inv : Inventory, stray : BOOLEAN]]
    BY <1>1 DEF Init, NoFiles
  <1>5. meta \in [Project -> [archive : Inventory, log : Int, hash : Inventory]]
    BY <1>1, <1>3 DEF Init, NoMeta, Archive
  <1>6. Types
    BY <1>1, <1>2, <1>3, <1>4, <1>5 DEF Init, Types, Label
  <1>7. LocksOK
    BY DEF Init, LocksOK, Both, Holds
  <1>8. VersionsOK
    BY <1>1, <1>2 DEF Init, VersionsOK, Known, NoFiles, NoMeta, Absent
  <1>9. \A t \in Thread : ThreadOK(t)
    BY DEF Init, ThreadOK, Both
  <1>10. EditsKept
    BY DEF Init, EditsKept
  <1>11. QED
    BY <1>6, <1>7, <1>8, <1>9, <1>10 DEF ProjectsInv

\* What happens to a session changes neither the files nor an archive.
LEMMA SessionKeepsInv ==
  ASSUME ProjectsInv, NEW s \in Session, Beat(s) \/ Suspend(s) \/ Crash(s)
  PROVE  ProjectsInv'
  <1> USE DEF ProjectsInv, disk, locks, sessions, ghosts, At, Put
  <1>1. CASE Beat(s) \/ Suspend(s)
    BY <1>1 DEF Beat, Suspend, Types, LocksOK, VersionsOK, Known, ThreadOK, Dirty, Exists, EditsKept
  <1>2. CASE Crash(s)
    <2> USE <1>2 DEF Crash
    <2>1. Absent \in Inventory /\ Known(Absent)
      BY DEF Absent, Inventory, Known, Types
    <2>2. NoOp \in Op /\ Known(NoOp.inv) /\ Known(NoOp.copy.inv)
      BY <2>1 DEF NoOp, Nothing, Op, Archive
    <2>3. Types'
      BY <2>2 DEF Types, Label
    <2>4. LocksOK'
      BY DEF Types, LocksOK, Both, Holds
    <2>5. VersionsOK'
      BY <2>2 DEF Types, VersionsOK, Known
    <2>6. (\A u \in Thread : ThreadOK(u))'
      BY DEF Types, ThreadOK, Both, Dirty, Exists
    <2>7. EditsKept'
      BY DEF EditsKept, Dirty, Exists
    <2>8. QED
      BY <2>3, <2>4, <2>5, <2>6, <2>7
  <1>3. QED
    BY <1>1, <1>2

\* An archive that is brought anew is newer than all.
LEMMA ImportKeepsInv == ASSUME ProjectsInv, NEW p \in Project, Import(p) PROVE ProjectsInv'
  <1> USE DEF ProjectsInv, Import, locks, sessions, ghosts, At
  <1>1. version' = version + 1 /\ version \in Nat
    BY DEF Types, NextVersion
  <1>2. /\ [dev |-> version', grp |-> version', cut |-> 0] \in Inventory
        /\ archive' \in [Project -> Archive]
    <2>1. [dev |-> version', grp |-> version', cut |-> 0] \in Inventory
      BY <1>1 DEF Inventory
    <2>2. QED
      BY <2>1, SetArchive DEF Types
  <1>3. Types' /\ LocksOK'
    BY <1>1, <1>2 DEF Types, LocksOK
  <1>4. VersionsOK'
    <2>1. \A q \in Project : archive'[q].inv.dev <= version'
      BY <1>1 DEF Types, VersionsOK, Known, Archive, Inventory
    <2>2. \A q \in Project : Known(files[q].inv)' /\ Known(meta[q].hash)'
      BY <1>1 DEF Types, VersionsOK, Known, Inventory
    <2>3. \A u \in Thread : Known(op[u].inv)' /\ Known(op[u].copy.inv)'
      BY <1>1 DEF Types, VersionsOK, Known, Op, Archive, Inventory
    <2>4. QED
      BY <2>1, <2>2, <2>3 DEF VersionsOK, Known
  <1>5. (\A u \in Thread : ThreadOK(u))' /\ EditsKept'
    BY DEF ThreadOK, EditsKept, Dirty, Exists
  <1>6. QED
    BY <1>3, <1>4, <1>5

\* The invariant holds in every state.
THEOREM ProjectsInvariant == Spec => []ProjectsInv
  <1>1. ProjectsInv /\ [Next]_vars => ProjectsInv'
    <2> SUFFICES ASSUME ProjectsInv, [Next]_vars PROVE ProjectsInv'
      OBVIOUS
    <2>1. ASSUME NEW t \in Thread, Saving(t) PROVE ProjectsInv'
      BY <2>1, LockWorkspaceKeepsInv, LockArchiveKeepsInv, CopyKeepsInv, ReplaceKeepsInv,
         VerifyKeepsInv, RestoreKeepsInv, MarkKeepsInv DEF Saving
    <2>2. ASSUME NEW t \in Thread, Opening(t) PROVE ProjectsInv'
      BY <2>2, DecideKeepsInv, ReadArchiveKeepsInv, LockFilesKeepsInv, RecheckKeepsInv,
         PutDevicesKeepsInv, PutGroupsKeepsInv, PutMetaKeepsInv, SelectKeepsInv DEF Opening
    <2>3. ASSUME NEW t \in Thread,
                 Edit(t) \/ Save(t) \/ Open(t) \/ Audit(t) \/ GiveUp(t) \/ WriteFails(t)
          PROVE  ProjectsInv'
      BY <2>3, EditKeepsInv, SaveKeepsInv, OpenKeepsInv, AuditKeepsInv, GiveUpKeepsInv,
         WriteFailsKeepsInv
    <2>4. CASE UNCHANGED vars
      BY <2>4 DEF vars, disk, locks, sessions, ghosts, ProjectsInv, Types, LocksOK, VersionsOK,
         Known, ThreadOK, EditsKept, At, Dirty, Exists
    <2>5. QED
      BY <2>1, <2>2, <2>3, <2>4, SessionKeepsInv, ImportKeepsInv DEF Next, Step
  <1>2. QED
    BY <1>1, InitProjectsInv, PTL DEF Spec

\* An edit stays in the workspace, and is reported as to be saved, until an archive that
\* holds it has been confirmed or somebody asks to discard it, whatever the sessions do
\* (workspace.py, prepare_project_workspace; save_policy.py, save_active_project).
THEOREM EditsAreKept == Spec => []EditsKept
  <1>1. ProjectsInv => EditsKept
    BY DEF ProjectsInv
  <1>2. QED
    BY <1>1, ProjectsInvariant, PTL

\* Edits that audit, saves and openings never wait for each other: they all take the
\* workspace before the archive (file_transaction.py, locked_files).
THEOREM NobodyWaitsInACircle == Spec => []NoWaitCycle
  <1>1. ProjectsInv => NoWaitCycle
    <2> SUFFICES ASSUME ProjectsInv, NEW t \in Thread, NEW u \in Thread,
                        t # u, WaitsFor(t, u), WaitsFor(u, t)
                 PROVE  FALSE
      BY DEF NoWaitCycle
    <2>1. At(t) \in Project /\ At(u) \in Project
      BY DEF ProjectsInv, Types, Op, At
    <2>2. \A p \in Project : archiveLock[p] = t => pc[t] \in Both
      BY DEF ProjectsInv, LocksOK
    <2>3. \A p \in Project : archiveLock[p] = u => pc[u] \in Both
      BY DEF ProjectsInv, LocksOK
    <2>4. \A p \in Project : workspaceLock[p] = t => pc[t] \in Holds
      BY DEF ProjectsInv, LocksOK
    <2>5. \A p \in Project : workspaceLock[p] = u => pc[u] \in Holds
      BY DEF ProjectsInv, LocksOK
    <2>6. QED
      BY <2>1, <2>2, <2>3, <2>4, <2>5 DEF WaitsFor, Both, Holds
  <1>2. QED
    BY <1>1, ProjectsInvariant, PTL

-----------------------------------------------------------------------------
\* A save has copied the archive that it found when it took its lock.
CopyOK(t) ==
    /\ pc[t] = "copy" => op[t].seen = archive[At(t)]
    /\ pc[t] \in Both \ {"copy"} => op[t].copy = op[t].seen

\* An archive whose lock is held changes by the holder alone.
LEMMA OthersKeepCopies ==
  ASSUME ProjectsInv, \A v \in Thread : CopyOK(v), NEW u \in Thread,
         pc'[u] = pc[u], op'[u] = op[u],
         \A p \in Project : archiveLock[p] = u => archive'[p] = archive[p]
  PROVE  CopyOK(u)'
  <1>1. At(u) \in Project
    BY DEF ProjectsInv, Types, Op, At
  <1>2. pc[u] = "copy" => archiveLock[At(u)] = u
    BY <1>1 DEF ProjectsInv, LocksOK, Both
  <1>3. QED
    BY <1>1, <1>2 DEF CopyOK, At, Both

LEMMA CopiesKept ==
  ASSUME ProjectsInv, \A v \in Thread : CopyOK(v), [Next]_vars, NEW u \in Thread
  PROVE  CopyOK(u)'
  <1> USE DEF disk, locks, sessions, ghosts, At, Goto, Put, End
  <1>1. Types /\ LocksOK
    BY DEF ProjectsInv
  <1>2. ASSUME NEW t \in Thread, t # u,
               Edit(t) \/ Save(t) \/ Open(t) \/ Audit(t) \/ GiveUp(t) \/ WriteFails(t)
        PROVE  CopyOK(u)'
    BY <1>1, <1>2, OthersKeepCopies DEF Types, Edit, Save, Open, Audit, GiveUp, WriteFails
  <1>3. ASSUME NEW t \in Thread, t # u, Saving(t)
        PROVE  CopyOK(u)'
    <2>1. CASE Replace(t) \/ Restore(t)
      <3>1. At(t) \in Project
        BY <1>1 DEF Types, Op
      <3>2. archiveLock[At(t)] = t
        BY <1>1, <2>1, <3>1 DEF LocksOK, Both, Replace, Restore
      <3>3. QED
        BY <1>1, <1>3, <2>1, <3>1, <3>2, OthersKeepCopies DEF Types, Replace, Restore
    <2>2. CASE LockWorkspace(t) \/ LockArchive(t) \/ Copy(t) \/ Verify(t) \/ Mark(t)
      BY <1>1, <1>3, <2>2, OthersKeepCopies
         DEF Types, LockWorkspace, LockArchive, Copy, Verify, Mark
    <2>3. QED
      BY <1>3, <2>1, <2>2 DEF Saving
  <1>4. ASSUME NEW t \in Thread, t # u, Opening(t)
        PROVE  CopyOK(u)'
    BY <1>1, <1>4, OthersKeepCopies DEF Types, Opening, Decide, ReadArchive, LockFiles, Recheck,
       PutDevices, PutGroups, PutMeta, Select
  <1>5. CASE Saving(u)
    <2>1. CASE LockArchive(u)
      BY <1>1, <2>1 DEF LockArchive, Types, Op, CopyOK, Both
    <2>2. CASE Copy(u)
      BY <1>1, <2>2 DEF Copy, Types, Op, CopyOK, Both
    <2>3. CASE LockWorkspace(u) \/ Replace(u) \/ Verify(u) \/ Restore(u) \/ Mark(u)
      BY <1>1, <2>3 DEF LockWorkspace, Replace, Verify, Restore, Mark, Types, CopyOK, Both
    <2>4. QED
      BY <1>5, <2>1, <2>2, <2>3 DEF Saving
  <1>6. CASE Edit(u) \/ Save(u) \/ Open(u) \/ Audit(u) \/ GiveUp(u) \/ WriteFails(u) \/ Opening(u)
    <2>1. pc \in [Thread -> Label]
      BY <1>1 DEF Types
    <2>2. CASE Edit(u) \/ Save(u) \/ Open(u) \/ Audit(u) \/ GiveUp(u) \/ WriteFails(u)
      BY <2>1, <2>2 DEF Edit, Save, Open, Audit, GiveUp, WriteFails, CopyOK, Both
    <2>3. CASE Decide(u) \/ ReadArchive(u) \/ LockFiles(u) \/ Recheck(u)
      BY <2>1, <2>3 DEF Decide, ReadArchive, LockFiles, Recheck, CopyOK, Both
    <2>4. CASE PutDevices(u) \/ PutGroups(u) \/ PutMeta(u) \/ Select(u)
      BY <2>1, <2>4 DEF PutDevices, PutGroups, PutMeta, Select, CopyOK, Both
    <2>5. QED
      BY <1>6, <2>2, <2>3, <2>4 DEF Opening
  <1>7. ASSUME NEW s \in Session, Beat(s) \/ Suspend(s) \/ Crash(s)
        PROVE  CopyOK(u)'
    BY <1>1, <1>7 DEF Beat, Suspend, Crash, Types, CopyOK, Both
  <1>8. ASSUME NEW p \in Project, Import(p)
        PROVE  CopyOK(u)'
    <2>1. archiveLock[p] # u
      BY <1>8 DEF Import
    <2>2. QED
      BY <1>1, <1>8, <2>1, OthersKeepCopies DEF Import, Types
  <1>9. CASE UNCHANGED vars
    BY <1>9 DEF vars, CopyOK
  <1>10. QED
    BY <1>2, <1>3, <1>4, <1>5, <1>6, <1>7, <1>8, <1>9 DEF Next, Step

LEMMA FaultsAreCounted == [Next]_vars => faults' = faults \/ faults' = faults + 1
  <1> SUFFICES ASSUME [Next]_vars PROVE faults' = faults \/ faults' = faults + 1
    OBVIOUS
  <1>1. ASSUME NEW t \in Thread, Saving(t) \/ Opening(t) PROVE faults' = faults
    BY <1>1 DEF Saving, Opening, LockWorkspace, LockArchive, Copy, Replace, Verify, Restore, Mark,
       Decide, ReadArchive, LockFiles, Recheck, PutDevices, PutGroups, PutMeta, Select
  <1>2. ASSUME NEW t \in Thread,
               Edit(t) \/ Save(t) \/ Open(t) \/ Audit(t) \/ GiveUp(t) \/ WriteFails(t)
        PROVE  faults' = faults \/ faults' = faults + 1
    BY <1>2 DEF Edit, Save, Open, Audit, GiveUp, WriteFails, Fault
  <1>3. ASSUME NEW s \in Session, Beat(s) \/ Suspend(s) \/ Crash(s)
        PROVE  faults' = faults \/ faults' = faults + 1
    BY <1>3 DEF Beat, Suspend, Crash, Fault
  <1>4. ASSUME NEW p \in Project, Import(p) PROVE faults' = faults
    BY <1>4 DEF Import
  <1>5. CASE UNCHANGED vars
    BY <1>5 DEF vars
  <1>6. QED
    BY <1>1, <1>2, <1>3, <1>4, <1>5 DEF Next, Step

\* A save that is refused leaves the archive as it was when it took its lock, whatever
\* happens meanwhile (save_policy.py, save_active_project).
THEOREM RefusedSavesAreUndone == Spec => RefusedSaveUndone
  <1> DEFINE Copies == (\A t \in Thread : CopyOK(t)) /\ faults \in Nat
  <1>1. Init => Copies
    BY DEF Init, CopyOK, Both
  <1>2. ProjectsInv /\ Copies /\ [Next]_vars => Copies'
    BY CopiesKept, FaultsAreCounted
  <1>3. ProjectsInv /\ Copies /\ [Next]_vars =>
           [\A t \in Thread : pc[t] = "restore" /\ pc'[t] = "idle" /\ faults' = faults =>
               archive'[At(t)] = op[t].seen]_vars
    <2> SUFFICES ASSUME ProjectsInv, Copies, Next, NEW t \in Thread,
                        pc[t] = "restore", pc'[t] = "idle", faults' = faults
                 PROVE  archive'[At(t)] = op[t].seen
      BY DEF vars
    <2>1. Types
      BY DEF ProjectsInv
    <2>2. ASSUME NEW u \in Thread, u # t, Step(u) \/ Edit(u) \/ Save(u) \/ Open(u) \/ GiveUp(u)
          PROVE  FALSE
      BY <2>1, <2>2 DEF Types, Step, Edit, Save, Open, GiveUp, Audit, Saving, Opening, LockWorkspace,
         LockArchive, Copy, Replace, Verify, Restore, Mark, Decide, ReadArchive, LockFiles, Recheck,
         PutDevices, PutGroups, PutMeta, Select, Goto, End
    <2>3. ~\E p \in Project : Import(p)
      BY DEF Import
    <2>4. (~\E s \in Session : Beat(s) \/ Suspend(s) \/ Crash(s)) /\ ~\E u \in Thread : WriteFails(u)
      BY DEF Beat, Suspend, Crash, WriteFails, Fault
    <2>5. Restore(t)
      <3>1. Step(t) \/ Edit(t) \/ Save(t) \/ Open(t) \/ GiveUp(t)
        BY <2>2, <2>3, <2>4 DEF Next
      <3>2. ~(Edit(t) \/ Save(t) \/ Open(t) \/ GiveUp(t) \/ Audit(t))
        BY DEF Edit, Save, Open, GiveUp, Audit
      <3>3. ~(LockWorkspace(t) \/ LockArchive(t) \/ Copy(t) \/ Replace(t) \/ Verify(t) \/ Mark(t))
        BY DEF LockWorkspace, LockArchive, Copy, Replace, Verify, Mark
      <3>4. ~Opening(t)
        BY DEF Opening, Decide, ReadArchive, LockFiles, Recheck, PutDevices, PutGroups, PutMeta, Select
      <3>5. QED
        BY <3>1, <3>2, <3>3, <3>4 DEF Step, Saving
    <2>6. At(t) \in Project /\ archive \in [Project -> Archive]
      BY <2>1 DEF Types, Op, At
    <2>7. op[t].copy = op[t].seen
      BY DEF CopyOK, Both
    <2>8. QED
      BY <2>5, <2>6, <2>7 DEF Restore, Put
  <1>4. QED
    BY <1>1, <1>2, <1>3, ProjectsInvariant, PTL DEF Spec, RefusedSaveUndone
-----------------------------------------------------------------------------
\* While no older inventory is saved over a newer one, an archive only goes onward.
Onward(x, y) == x = y \/ x.dev < y.dev
GoesOnward(p) == returned'[p] \/ (~returned[p] /\ Onward(archive[p].inv, archive'[p].inv))

\* What a thread has read is between what the archive was and what it is, until it has looked
\* again; what it marks as saved or as brought is what is there.
SavedOK(t) ==
    /\ pc[t] = "mark" => archive[At(t)].inv = op[t].inv
    /\ pc[t] = "putMeta" => files[At(t)].inv = op[t].inv
    /\ ~returned[At(t)] =>
          /\ pc[t] \in {"decide", "read"} => Onward(op[t].seen.inv, archive[At(t)].inv)
          /\ pc[t] \in {"lockFiles", "recheck"} => /\ Onward(op[t].seen.inv, op[t].inv)
                                                   /\ Onward(op[t].inv, archive[At(t)].inv)
          /\ pc[t] \in {"putDevices", "putGroups", "putMeta"} => op[t].inv = op[t].seen.inv

MarkOK(p) == ~returned[p] => meta[p].hash = meta[p].archive

SavedInv ==
    /\ returned \in [Project -> BOOLEAN]
    /\ \A p \in Project : MarkOK(p)
    /\ \A t \in Thread : SavedOK(t)

LEMMA OnwardIsOrder ==
  /\ \A x \in Inventory : Onward(x, x)
  /\ \A x, y, z \in Inventory : Onward(x, y) /\ Onward(y, z) => Onward(x, z)
  /\ \A x, y \in Inventory : Onward(x, y) /\ Onward(y, x) => x = y
  BY DEF Onward, Inventory

LEMMA TypesOfThreads ==
  ASSUME ProjectsInv
  PROVE  /\ \A t \in Thread : /\ At(t) \in Project /\ op[t].inv \in Inventory /\ op[t].seen \in Archive
                              /\ op[t].seen.inv \in Inventory
         /\ \A p \in Project : /\ archive[p] \in Archive /\ archive[p].inv \in Inventory
                               /\ files[p].inv \in Inventory
  BY DEF ProjectsInv, Types, Op, Archive, At

\* A thread that does nothing keeps what it may rely on.
LEMMA OthersKeepSaved ==
  ASSUME ProjectsInv, NEW u \in Thread, SavedOK(u), pc'[u] = pc[u], op'[u] = op[u],
         archive'[At(u)].inv \in Inventory, GoesOnward(At(u)),
         workspaceLock[At(u)] = u => files'[At(u)] = files[At(u)],
         archiveLock[At(u)] = u => archive'[At(u)].inv = archive[At(u)].inv
  PROVE  SavedOK(u)'
  <1>1. /\ At(u) \in Project /\ At(u)' = At(u) /\ op[u].inv \in Inventory /\ op[u].seen.inv \in Inventory
        /\ archive[At(u)].inv \in Inventory
    BY TypesOfThreads DEF At
  <1>2. /\ pc[u] = "mark" => archiveLock[At(u)] = u
        /\ pc[u] = "putMeta" => workspaceLock[At(u)] = u
    BY <1>1 DEF ProjectsInv, LocksOK, Both, Holds
  <1>3. ~returned'[At(u)] => ~returned[At(u)] /\ Onward(archive[At(u)].inv, archive'[At(u)].inv)
    BY DEF GoesOnward
  <1>4. \A x \in Inventory : Onward(x, archive[At(u)].inv) /\ ~returned'[At(u)] => Onward(x, archive'[At(u)].inv)
    BY <1>1, <1>3, OnwardIsOrder
  <1>5. (pc[u] = "mark" => archive[At(u)].inv = op[u].inv)' /\ (pc[u] = "putMeta" => files[At(u)].inv = op[u].inv)'
    BY <1>1, <1>2 DEF SavedOK
  <1>6. CASE returned'[At(u)]
    BY <1>1, <1>5, <1>6 DEF SavedOK
  <1>7. CASE ~returned'[At(u)]
    <2>1. /\ pc[u] \in {"decide", "read"} => Onward(op[u].seen.inv, archive'[At(u)].inv)
          /\ pc[u] \in {"lockFiles", "recheck"} => /\ Onward(op[u].seen.inv, op[u].inv)
                                                   /\ Onward(op[u].inv, archive'[At(u)].inv)
          /\ pc[u] \in {"putDevices", "putGroups", "putMeta"} => op[u].inv = op[u].seen.inv
      BY <1>1, <1>3, <1>4, <1>7 DEF SavedOK
    <2>2. QED
      BY <1>1, <1>5, <2>1 DEF SavedOK
  <1>8. QED
    BY <1>6, <1>7

\* A step of one thread.
LEMMA OneStepSaved ==
  ASSUME ProjectsInv, SavedInv, ProjectsInv', NEW t \in Thread,
         \A u \in Thread \ {t} : pc'[u] = pc[u] /\ op'[u] = op[u],
         returned' \in [Project -> BOOLEAN],
         \A p \in Project : GoesOnward(p),
         \A p \in Project : workspaceLock[p] \in Thread \ {t} => files'[p] = files[p],
         \A p \in Project : archiveLock[p] \in Thread \ {t} => archive'[p].inv = archive[p].inv,
         \A p \in Project : MarkOK(p)', SavedOK(t)'
  PROVE  SavedInv'
  <1>1. ASSUME NEW u \in Thread, u # t PROVE SavedOK(u)'
    <2>1. At(u) \in Project /\ archive'[At(u)].inv \in Inventory
      BY TypesOfThreads DEF ProjectsInv, Types, Archive
    <2>2. QED
      BY <1>1, <2>1, OthersKeepSaved DEF SavedInv
  <1>2. QED
    BY <1>1 DEF SavedInv
\* Steps that write neither an archive's inventory nor what is said of it, and after which
\* nothing is to be relied on.
Quiet(t) ==
    \/ Edit(t) \/ Save(t) \/ Audit(t) \/ LockWorkspace(t) \/ LockArchive(t) \/ Copy(t)
    \/ Select(t) \/ GiveUp(t) \/ WriteFails(t)

LEMMA QuietSaved == ASSUME ProjectsInv, SavedInv, ProjectsInv', NEW t \in Thread, Quiet(t) PROVE SavedInv'
  <1> USE DEF disk, locks, sessions, ghosts, At, Goto, Put, End
  <1>1. Types /\ At(t) \in Project
    BY TypesOfThreads DEF ProjectsInv
  <1>2. /\ meta' = meta /\ returned' = returned
        /\ \A u \in Thread \ {t} : pc'[u] = pc[u] /\ op'[u] = op[u]
    BY <1>1 DEF Quiet, Edit, Save, Audit, LockWorkspace, LockArchive, Copy, Select, GiveUp, WriteFails, Types
  <1>3. \A p \in Project : archive'[p].inv = archive[p].inv
    <2>1. CASE Audit(t)
      BY <1>1, <2>1, SetArchive DEF Audit, Types
    <2>2. CASE archive' = archive
      BY <2>2
    <2>3. QED
      BY <2>1, <2>2 DEF Quiet, Edit, Save, LockWorkspace, LockArchive, Copy, Select, GiveUp, WriteFails
  <1>4. \A p \in Project : workspaceLock[p] \in Thread \ {t} => files'[p] = files[p]
    <2>1. CASE Edit(t)
      <3>1. PICK p \in Project : p = pin[Own(t)]
        BY <1>1 DEF Types, Own
      <3>2. workspaceLock[p] = Nobody /\ \A q \in Project \ {p} : files'[q] = files[q]
        BY <1>1, <2>1, <3>1 DEF Edit, Types
      <3>3. QED
        BY <3>1, <3>2
    <2>2. CASE files' = files
      BY <2>2
    <2>3. QED
      BY <2>1, <2>2 DEF Quiet, Save, Audit, LockWorkspace, LockArchive, Copy, Select, GiveUp, WriteFails
  <1>5. pc'[t] \in {"idle", "audit", "lockWorkspace", "lockArchive", "copy", "replace"}
    BY <1>1 DEF Quiet, Edit, Save, Audit, LockWorkspace, LockArchive, Copy, Select, GiveUp, WriteFails, Types
  <1>6. /\ returned' \in [Project -> BOOLEAN]
        /\ \A p \in Project : GoesOnward(p) /\ MarkOK(p)'
    BY <1>2, <1>3 DEF SavedInv, GoesOnward, Onward, MarkOK
  <1>7. SavedOK(t)'
    BY <1>5 DEF SavedOK
  <1>8. QED
    BY <1>2, <1>3, <1>4, <1>6, <1>7, OneStepSaved

\* An opening before it writes, and the comparison of a save.
LEMMA ReadingSaved ==
  ASSUME ProjectsInv, SavedInv, ProjectsInv', NEW t \in Thread,
         Open(t) \/ Decide(t) \/ ReadArchive(t) \/ LockFiles(t) \/ Recheck(t) \/ Verify(t)
  PROVE  SavedInv'
  <1> USE DEF disk, locks, sessions, ghosts, At, Goto, Put, End
  <1>1. /\ Types /\ At(t) \in Project /\ op[t].inv \in Inventory /\ op[t].seen.inv \in Inventory
        /\ \A p \in Project : archive[p].inv \in Inventory
    BY TypesOfThreads DEF ProjectsInv
  <1>2. /\ UNCHANGED <<files, meta, archive, returned>>
        /\ \A u \in Thread \ {t} : pc'[u] = pc[u] /\ op'[u] = op[u]
    BY <1>1 DEF Open, Decide, ReadArchive, LockFiles, Recheck, Verify, Types
  <1>3. /\ returned' \in [Project -> BOOLEAN]
        /\ \A p \in Project : GoesOnward(p) /\ MarkOK(p)'
    BY <1>2 DEF SavedInv, GoesOnward, Onward, MarkOK
  <1>4. SavedOK(t)'
    <2>1. CASE Open(t)
      <3>1. PICK p \in Project : op'[t].project = p /\ op'[t].seen = archive[p]
        BY <1>1, <2>1 DEF Open, Types
      <3>2. pc'[t] = "decide" /\ archive' = archive
        BY <1>1, <2>1 DEF Open, Types
      <3>3. Onward(op'[t].seen.inv, archive'[op'[t].project].inv)
        BY <3>1, <3>2 DEF Onward
      <3>4. QED
        BY <3>2, <3>3 DEF SavedOK
    <2>2. CASE Decide(t)
      BY <1>1, <2>2 DEF Decide, Types, SavedInv, SavedOK
    <2>3. CASE ReadArchive(t)
      <3>1. /\ op'[t].project = op[t].project /\ op'[t].seen = op[t].seen /\ op'[t].inv = archive[At(t)].inv
            /\ pc[t] = "read" /\ pc'[t] = "lockFiles"
        BY <1>1, <2>3 DEF ReadArchive, Types, Op
      <3>2. ~returned[At(t)] => Onward(op[t].seen.inv, archive[At(t)].inv)
        BY <3>1 DEF SavedInv, SavedOK
      <3>3. Onward(archive[At(t)].inv, archive[At(t)].inv)
        BY DEF Onward
      <3>4. QED
        BY <1>2, <3>1, <3>2, <3>3 DEF SavedOK
    <2>4. CASE LockFiles(t)
      BY <1>1, <2>4 DEF LockFiles, Types, SavedInv, SavedOK
    <2>5. CASE Recheck(t)
      <3>1. CASE pc'[t] = "idle"
        BY <3>1 DEF SavedOK
      <3>2. CASE pc'[t] # "idle"
        <4>1. pc[t] = "recheck" /\ pc'[t] = "putDevices" /\ op' = op /\ archive[At(t)] = op[t].seen
          BY <1>1, <2>5, <3>2 DEF Recheck, Types
        <4>2. ~returned[At(t)] => op[t].inv = op[t].seen.inv
          BY <1>1, <4>1, OnwardIsOrder DEF SavedInv, SavedOK
        <4>3. QED
          BY <1>2, <4>1, <4>2 DEF SavedOK
      <3>3. QED
        BY <3>1, <3>2
    <2>6. CASE Verify(t)
      BY <1>1, <2>6 DEF Verify, Types, SavedOK
    <2>7. QED
      BY <2>1, <2>2, <2>3, <2>4, <2>5, <2>6
  <1>5. QED
    BY <1>2, <1>3, <1>4, OneStepSaved

\* What is saved over what is newer marks the archive.
LEMMA ReplaceSaved == ASSUME ProjectsInv, SavedInv, ProjectsInv', NEW t \in Thread, Replace(t) PROVE SavedInv'
  <1> USE DEF disk, locks, sessions, ghosts, At, Goto, Put, End
  <1>1. /\ Types /\ At(t) \in Project /\ archiveLock[At(t)] = t
        /\ \A p \in Project : archive[p] \in Archive /\ archive[p].inv \in Inventory /\ files[p].inv \in Inventory
    BY TypesOfThreads DEF ProjectsInv, LocksOK, Replace, Both
  <1>2. /\ files' = files /\ meta' = meta /\ op' = op /\ pc'[t] = "verify"
        /\ \A u \in Thread \ {t} : pc'[u] = pc[u]
    BY <1>1 DEF Replace, Types
  <1>3. /\ archive'[At(t)].inv = Archived(files[At(t)])
        /\ \A p \in Project \ {At(t)} : archive'[p] = archive[p]
    BY <1>1 DEF Replace, Types, Archive
  <1>4. /\ returned' \in [Project -> BOOLEAN]
        /\ returned'[At(t)] <=> returned[At(t)] \/ Older(files[At(t)], archive[At(t)])
        /\ \A p \in Project \ {At(t)} : returned'[p] = returned[p]
    <2>1. Older(files[At(t)], archive[At(t)]) \in BOOLEAN
      BY DEF Older
    <2>2. QED
      BY <1>1, <2>1 DEF Replace, SavedInv
  <1>5. GoesOnward(At(t))
    <2>1. Archived(files[At(t)]).dev = files[At(t)].inv.dev
      BY <1>1 DEF Archived, Inventory
    <2>2. Older(files[At(t)], archive[At(t)]) \/ Onward(archive[At(t)].inv, Archived(files[At(t)]))
      BY <1>1, <2>1 DEF Older, Onward, Inventory
    <2>3. QED
      BY <1>1, <1>3, <1>4, <2>2 DEF GoesOnward, SavedInv
  <1>6. \A p \in Project : GoesOnward(p) /\ MarkOK(p)'
    BY <1>1, <1>2, <1>3, <1>4, <1>5 DEF GoesOnward, Onward, SavedInv, MarkOK
  <1>7. SavedOK(t)'
    BY <1>2 DEF SavedOK
  <1>8. QED
    BY <1>1, <1>2, <1>3, <1>4, <1>6, <1>7, OneStepSaved

LEMMA RestoreSaved == ASSUME ProjectsInv, SavedInv, ProjectsInv', NEW t \in Thread, Restore(t) PROVE SavedInv'
  <1> USE DEF disk, locks, sessions, ghosts, At, Goto, Put, End
  <1>1. Types /\ At(t) \in Project /\ archiveLock[At(t)] = t
    BY TypesOfThreads DEF ProjectsInv, LocksOK, Restore, Both
  <1>2. /\ files' = files /\ meta' = meta /\ pc'[t] = "idle"
        /\ \A u \in Thread \ {t} : pc'[u] = pc[u] /\ op'[u] = op[u]
        /\ returned' \in [Project -> BOOLEAN] /\ returned'[At(t)]
        /\ \A p \in Project \ {At(t)} : archive'[p] = archive[p] /\ returned'[p] = returned[p]
    BY <1>1 DEF Restore, Types, SavedInv
  <1>3. \A p \in Project : GoesOnward(p) /\ MarkOK(p)'
    BY <1>1, <1>2 DEF GoesOnward, Onward, SavedInv, MarkOK
  <1>4. SavedOK(t)'
    BY <1>2 DEF SavedOK
  <1>5. QED
    BY <1>1, <1>2, <1>3, <1>4, OneStepSaved

\* The workspace is said to hold what was compared with the archive.
LEMMA MarkSaved == ASSUME ProjectsInv, SavedInv, ProjectsInv', NEW t \in Thread, Mark(t) PROVE SavedInv'
  <1> USE DEF disk, locks, sessions, ghosts, At, Goto, Put, End
  <1>1. Types /\ At(t) \in Project /\ pc[t] = "mark" /\ archive[At(t)].inv = op[t].inv
    BY TypesOfThreads DEF ProjectsInv, Mark, SavedInv, SavedOK
  <1>2. /\ UNCHANGED <<files, archive, returned>> /\ pc'[t] = "idle"
        /\ \A u \in Thread \ {t} : pc'[u] = pc[u] /\ op'[u] = op[u]
        /\ meta'[At(t)].hash = op[t].inv /\ meta'[At(t)].archive = archive[At(t)].inv
        /\ \A p \in Project \ {At(t)} : meta'[p] = meta[p]
    BY <1>1 DEF Mark, Types
  <1>3. \A p \in Project : GoesOnward(p) /\ MarkOK(p)'
    BY <1>1, <1>2 DEF GoesOnward, Onward, SavedInv, MarkOK
  <1>4. SavedOK(t)'
    BY <1>2 DEF SavedOK
  <1>5. QED
    BY <1>2, <1>3, <1>4, OneStepSaved DEF SavedInv

LEMMA PuttingSaved ==
  ASSUME ProjectsInv, SavedInv, ProjectsInv', NEW t \in Thread, PutDevices(t) \/ PutGroups(t) \/ PutMeta(t)
  PROVE  SavedInv'
  <1> USE DEF disk, locks, sessions, ghosts, At, Goto, Put
  <1>1. Types /\ At(t) \in Project /\ workspaceLock[At(t)] = t
    BY TypesOfThreads DEF ProjectsInv, LocksOK, PutDevices, PutGroups, PutMeta, Holds
  <1>2. /\ UNCHANGED <<archive, returned, op>>
        /\ \A u \in Thread \ {t} : pc'[u] = pc[u] /\ op'[u] = op[u]
        /\ \A p \in Project \ {At(t)} : files'[p] = files[p] /\ meta'[p] = meta[p]
    BY <1>1 DEF PutDevices, PutGroups, PutMeta, Types
  <1>3. MarkOK(At(t))'
    <2>1. CASE PutMeta(t)
      <3>1. /\ pc[t] = "putMeta" /\ returned' = returned
            /\ meta'[At(t)].hash = files[At(t)].inv /\ meta'[At(t)].archive = op[t].seen.inv
        BY <1>1, <2>1 DEF PutMeta, Types
      <3>2. QED
        BY <1>1, <1>2, <3>1 DEF SavedInv, SavedOK, MarkOK
    <2>2. CASE PutDevices(t) \/ PutGroups(t)
      BY <1>1, <1>2, <2>2 DEF PutDevices, PutGroups, SavedInv, MarkOK
    <2>3. QED
      BY <2>1, <2>2
  <1>4. \A p \in Project : GoesOnward(p) /\ MarkOK(p)'
    BY <1>1, <1>2, <1>3 DEF GoesOnward, Onward, SavedInv, MarkOK
  <1>5. SavedOK(t)'
    <2>1. CASE PutDevices(t)
      BY <1>1, <1>2, <2>1 DEF PutDevices, Types, SavedInv, SavedOK
    <2>2. CASE PutGroups(t)
      <3>1. pc[t] = "putGroups" /\ pc'[t] = "putMeta" /\ files'[At(t)].inv = op[t].inv
        BY <1>1, <2>2 DEF PutGroups, Types
      <3>2. QED
        BY <1>2, <3>1 DEF SavedInv, SavedOK
    <2>3. CASE PutMeta(t)
      BY <1>1, <2>3 DEF PutMeta, Types, SavedOK
    <2>4. QED
      BY <2>1, <2>2, <2>3
  <1>6. QED
    BY <1>1, <1>2, <1>4, <1>5, OneStepSaved DEF SavedInv

LEMMA SessionSaved ==
  ASSUME ProjectsInv, SavedInv, NEW s \in Session, Beat(s) \/ Suspend(s) \/ Crash(s)
  PROVE  SavedInv'
  <1> USE DEF disk, locks, sessions, ghosts
  <1>1. UNCHANGED <<files, meta, archive, returned>>
    BY DEF Beat, Suspend, Crash
  <1>2. ASSUME NEW u \in Thread PROVE SavedOK(u)'
    <2>1. CASE pc'[u] = "idle"
      BY <2>1 DEF SavedOK
    <2>2. CASE pc'[u] # "idle"
      <3>1. pc'[u] = pc[u] /\ op'[u] = op[u]
        BY <2>2 DEF Beat, Suspend, Crash
      <3>2. QED
        BY <1>1, <3>1 DEF SavedInv, SavedOK, At
    <2>3. QED
      BY <2>1, <2>2
  <1>3. QED
    BY <1>1, <1>2 DEF SavedInv, MarkOK

LEMMA ImportSaved == ASSUME ProjectsInv, SavedInv, ProjectsInv', NEW p \in Project, Import(p) PROVE SavedInv'
  <1> USE DEF locks, sessions, ghosts
  <1>1. /\ Types /\ archiveLock[p] = Nobody /\ UNCHANGED <<files, meta, returned, pc, op>>
        /\ version' = version + 1
    BY DEF ProjectsInv, Import, NextVersion
  <1>2. /\ archive'[p].inv.dev = version + 1 /\ archive[p].inv.dev <= version
        /\ archive[p].inv \in Inventory /\ version \in Nat
        /\ \A q \in Project \ {p} : archive'[q] = archive[q]
    BY <1>1, TypesOfThreads DEF ProjectsInv, Import, VersionsOK, Known, Types, Archive, Inventory
  <1>3. \A q \in Project : GoesOnward(q) /\ MarkOK(q)'
    <2>1. archive[p].inv.dev < archive'[p].inv.dev
      BY <1>2 DEF Inventory
    <2>2. QED
      BY <1>1, <1>2, <2>1 DEF GoesOnward, Onward, SavedInv, MarkOK
  <1>4. ASSUME NEW u \in Thread PROVE SavedOK(u)'
    <2>1. At(u) \in Project /\ archive'[At(u)].inv \in Inventory
      BY TypesOfThreads DEF ProjectsInv, Types, Archive
    <2>2. QED
      BY <1>1, <1>2, <1>3, <2>1, OthersKeepSaved DEF SavedInv
  <1>5. QED
    BY <1>1, <1>3, <1>4 DEF SavedInv

\* Whatever is edited, saved, opened, brought anew or cut short, a workspace said to be that of
\* the archive beside it holds what the archive holds, unless something older has been saved over
\* it (workspace.py, mark_workspace_synchronized, prepare_project_workspace).
THEOREM ConfirmedWorkspacesAreSaved == Spec => []ConfirmedIsSaved
  <1>1. Init => SavedInv
    BY DEF Init, SavedInv, MarkOK, SavedOK, NoMeta
  <1>2. ProjectsInv /\ ProjectsInv' /\ SavedInv /\ [Next]_vars => SavedInv'
    <2> SUFFICES ASSUME ProjectsInv, ProjectsInv', SavedInv, [Next]_vars PROVE SavedInv'
      OBVIOUS
    <2>1. CASE UNCHANGED vars
      BY <2>1 DEF vars, disk, ghosts, SavedInv, MarkOK, SavedOK, At
    <2>2. ASSUME NEW t \in Thread,
                 Edit(t) \/ Save(t) \/ Open(t) \/ Step(t) \/ GiveUp(t) \/ WriteFails(t)
          PROVE  SavedInv'
      BY <2>2, QuietSaved, ReadingSaved, ReplaceSaved, RestoreSaved, MarkSaved, PuttingSaved
         DEF Quiet, Step, Saving, Opening
    <2>3. QED
      BY <2>1, <2>2, SessionSaved, ImportSaved DEF Next
  <1>3. SavedInv => ConfirmedIsSaved
    BY DEF SavedInv, MarkOK, ConfirmedIsSaved, Synchronized, Dirty
  <1>4. QED
    BY <1>1, <1>2, <1>3, ProjectsInvariant, PTL DEF Spec
-----------------------------------------------------------------------------
\* What is opened, saved or selected has a workspace, and every archive an inventory.
Ops == [project : Project, refresh : BOOLEAN, discard : BOOLEAN,
        seen : Archives, copy : Archives, inv : Inventories]
Files == [inv : Inventories, stray : BOOLEAN]
Metas == [archive : Inventories, log : 0 .. MaxLog, hash : Inventories]

ThereOK(t) ==
    /\ pc[t] \in Both \cup {"audit", "lockWorkspace", "lockArchive", "putGroups", "putMeta", "select"}
          => Exists(At(t))
    /\ pc[t] \in {"lockFiles", "recheck", "putDevices", "putGroups", "putMeta"} => op[t].inv.dev # -1
    /\ pc[t] \in Both \ {"copy"} => op[t].copy.inv.dev # -1

TypesInv ==
    /\ TypeOK
    /\ Exists(last)
    /\ \A p \in Project : archive[p].inv.dev # -1
    /\ \A t \in Thread : ThereOK(t)

LEMMA InventoriesThereAre ==
  /\ Absent \in Inventories /\ Nothing \in Archives /\ NoOp \in Ops /\ NoFiles \in Files /\ NoMeta \in Metas
  /\ \A v \in 0 .. MaxVersions : [dev |-> v, grp |-> v, cut |-> 0] \in Inventories
  /\ \A i \in Inventories, v \in 0 .. MaxVersions : [i EXCEPT !.dev = v] \in Inventories
  /\ \A i, j \in Inventories : [i EXCEPT !.dev = j.dev] \in Inventories
  /\ \A f \in Files : Archived(f) \in Inventories /\ Archived(f).dev = f.inv.dev
  <1>1. Absent \in Inventories
    BY DEF Absent, Inventories
  <1>2. Nothing \in Archives
    BY <1>1 DEF Nothing, Archives
  <1>3. \A i \in Inventories, v \in 0 .. MaxVersions : [i EXCEPT !.dev = v] \in Inventories
    BY DEF Inventories
  <1>4. \A i \in Inventories : [i EXCEPT !.cut = @ + 1] \in Inventories /\ [i EXCEPT !.cut = @ + 1].dev = i.dev
    BY DEF Inventories
  <1>5. \A f \in Files : Archived(f) \in Inventories /\ Archived(f).dev = f.inv.dev
    BY <1>4 DEF Archived, Files
  <1>6. \A v \in 0 .. MaxVersions : [dev |-> v, grp |-> v, cut |-> 0] \in Inventories
    BY DEF Inventories
  <1>7. \A i, j \in Inventories : [i EXCEPT !.dev = j.dev] \in Inventories
    BY DEF Inventories
  <1>8. NoOp \in Ops /\ NoFiles \in Files /\ NoMeta \in Metas
    BY <1>1, <1>2 DEF NoOp, Ops, NoFiles, Files, NoMeta, Metas
  <1>9. QED
    BY <1>1, <1>2, <1>3, <1>5, <1>6, <1>7, <1>8

LEMMA SetOps ==
  ASSUME op \in [Thread -> Ops], NEW t \in Thread
  PROVE  /\ \A p \in Project : [op EXCEPT ![t].project = p] \in [Thread -> Ops]
         /\ \A a \in Archives : [op EXCEPT ![t].seen = a] \in [Thread -> Ops]
         /\ \A i \in Inventories : [op EXCEPT ![t].inv = i] \in [Thread -> Ops]
         /\ \A c \in Archives, i \in Inventories :
               [op EXCEPT ![t].copy = c, ![t].inv = i] \in [Thread -> Ops]
         /\ [op EXCEPT ![t] = NoOp] \in [Thread -> Ops]
  <1>1. op[t] \in Ops
    OBVIOUS
  <1>2. /\ \A p \in Project : [op[t] EXCEPT !.project = p] \in Ops
        /\ \A a \in Archives : [op[t] EXCEPT !.seen = a] \in Ops
        /\ \A i \in Inventories : [op[t] EXCEPT !.inv = i] \in Ops
        /\ \A c \in Archives, i \in Inventories : [op[t] EXCEPT !.copy = c, !.inv = i] \in Ops
    BY <1>1 DEF Ops
  <1>3. QED
    BY <1>2, InventoriesThereAre

LEMMA SetArchives ==
  ASSUME archive \in [Project -> Archives], NEW p \in Project
  PROVE  /\ \A i \in Inventories : [archive EXCEPT ![p].inv = i] \in [Project -> Archives]
         /\ archive[p].log < MaxLog => [archive EXCEPT ![p].log = @ + 1] \in [Project -> Archives]
  <1>1. archive[p] \in Archives
    OBVIOUS
  <1>2. \A i \in Inventories : [archive[p] EXCEPT !.inv = i] \in Archives
    BY <1>1 DEF Archives
  <1>3. archive[p].log < MaxLog => [archive[p] EXCEPT !.log = @ + 1] \in Archives
    BY <1>1 DEF Archives
  <1>4. QED
    BY <1>2, <1>3

\* The types of what a thread works on.
LEMMA ThreadTypes ==
  ASSUME TypesInv
  PROVE  /\ op \in [Thread -> Ops] /\ pc \in [Thread -> Label] /\ archive \in [Project -> Archives]
         /\ files \in [Project -> Files] /\ meta \in [Project -> Metas]
         /\ \A t \in Thread : /\ At(t) \in Project /\ op[t].inv \in Inventories /\ op[t].seen \in Archives
                              /\ op[t].seen.inv \in Inventories /\ op[t].seen.log \in 0 .. MaxLog
                              /\ op[t].copy \in Archives /\ ThereOK(t) /\ Own(t) \in Session
                              /\ pin[Own(t)] \in Project /\ Exists(pin[Own(t)])
         /\ \A p \in Project : /\ archive[p] \in Archives /\ archive[p].inv \in Inventories
                               /\ archive[p].log \in 0 .. MaxLog /\ archive[p].inv.dev # -1
                               /\ files[p] \in Files /\ files[p].inv \in Inventories
  <1>1. /\ op \in [Thread -> Ops] /\ pc \in [Thread -> Label] /\ archive \in [Project -> Archives]
        /\ files \in [Project -> Files] /\ meta \in [Project -> Metas]
    BY DEF TypesInv, TypeOK, Ops, Files, Metas, Label, Holds, Both
  <1>2. \A t \in Thread : /\ At(t) \in Project /\ op[t].inv \in Inventories /\ op[t].seen \in Archives
                          /\ op[t].seen.inv \in Inventories /\ op[t].seen.log \in 0 .. MaxLog
                          /\ op[t].copy \in Archives
    BY <1>1 DEF Ops, At, Archives
  <1>3. \A t \in Thread : ThereOK(t) /\ Own(t) \in Session /\ pin[Own(t)] \in Project /\ Exists(pin[Own(t)])
    BY DEF TypesInv, TypeOK, Own
  <1>4. \A p \in Project : /\ archive[p] \in Archives /\ archive[p].inv \in Inventories
                           /\ archive[p].log \in 0 .. MaxLog /\ archive[p].inv.dev # -1
                           /\ files[p] \in Files /\ files[p].inv \in Inventories
    BY <1>1 DEF Archives, Files, TypesInv
  <1>5. QED
    BY <1>1, <1>2, <1>3, <1>4

\* The locks, wherever they go.
LEMMA LocksTyped ==
  ASSUME TypeOK, NEW t \in Thread
  PROVE  /\ Without(workspaceLock, t) \in [Project -> Thread \cup {Nobody}]
         /\ Without(archiveLock, t) \in [Project -> Thread \cup {Nobody}]
         /\ Without(saveLock, t) \in [Session -> Thread \cup {Nobody}]
         /\ \A p \in Project : /\ Put(workspaceLock, p, t) \in [Project -> Thread \cup {Nobody}]
                               /\ Put(archiveLock, p, t) \in [Project -> Thread \cup {Nobody}]
         /\ \A s \in Session : Put(saveLock, s, t) \in [Session -> Thread \cup {Nobody}]
  BY DEF TypeOK, Without, Put

\* A step of one thread, after which every workspace and archive that was there is.
LEMMA OneStepTyped ==
  ASSUME TypesInv, NEW t \in Thread,
         files' \in [Project -> Files], meta' \in [Project -> Metas], archive' \in [Project -> Archives],
         workspaceLock' \in [Project -> Thread \cup {Nobody}],
         archiveLock' \in [Project -> Thread \cup {Nobody}],
         saveLock' \in [Session -> Thread \cup {Nobody}],
         pc' \in [Thread -> Label], op' \in [Thread -> Ops],
         version' \in 0 .. MaxVersions, faults' \in 0 .. MaxFaults,
         pending' \in [Project -> Inventories], returned' \in [Project -> BOOLEAN],
         row' = row,
         UNCHANGED <<pin, last>>
            \/ \E s \in Session, p \in Project : Exists(p)' /\ pin' = [pin EXCEPT ![s] = p] /\ last' \in {last, p},
         \A p \in Project : Exists(p) => Exists(p)',
         \A p \in Project : archive'[p].inv.dev # -1,
         \A u \in Thread \ {t} : pc'[u] = pc[u] /\ op'[u] = op[u],
         ThereOK(t)'
  PROVE  TypesInv'
  <1>1. pin' \in [Session -> {p \in Project : Exists(p)'}] /\ last' \in Project /\ Exists(last)'
    <2>1. pin \in [Session -> {p \in Project : Exists(p)'}] /\ last \in Project /\ (last' = last => Exists(last)')
      BY DEF TypesInv, TypeOK, Exists
    <2>2. CASE UNCHANGED <<pin, last>>
      BY <2>1, <2>2
    <2>3. ASSUME NEW s \in Session, NEW p \in Project,
                 Exists(p)', pin' = [pin EXCEPT ![s] = p], last' \in {last, p}
          PROVE  pin' \in [Session -> {q \in Project : Exists(q)'}] /\ last' \in Project /\ Exists(last)'
      BY <2>1, <2>3 DEF Exists
    <2>4. QED
      BY <2>2, <2>3
  <1>2. TypeOK'
    BY <1>1 DEF TypesInv, TypeOK, Ops, Files, Metas, Label, Holds, Both
  <1>3. ASSUME NEW u \in Thread, u # t PROVE ThereOK(u)'
    <2>1. At(u) \in Project /\ ThereOK(u) /\ pc'[u] = pc[u] /\ op'[u] = op[u]
      BY <1>3, ThreadTypes
    <2>2. QED
      BY <2>1 DEF ThereOK, At, Exists
  <1>4. QED
    BY <1>1, <1>2, <1>3 DEF TypesInv
\* Steps that leave the files, the archives and the sessions as they are.
LEMMA WaitingTyped ==
  ASSUME TypesInv, NEW t \in Thread,
         Save(t) \/ LockWorkspace(t) \/ LockArchive(t) \/ Copy(t) \/ Verify(t) \/ Open(t) \/ Decide(t)
         \/ ReadArchive(t) \/ LockFiles(t) \/ Recheck(t) \/ GiveUp(t) \/ WriteFails(t)
  PROVE  TypesInv'
  <1> USE DEF disk, locks, sessions, ghosts, Goto
  <1>1. TypeOK /\ op \in [Thread -> Ops] /\ pc \in [Thread -> Label] /\ At(t) \in Project /\ Own(t) \in Session
    BY ThreadTypes DEF TypesInv
  <1>2. UNCHANGED <<files, meta, archive, sessions, version, pending, returned>>
    BY DEF Save, LockWorkspace, LockArchive, Copy, Verify, Open, Decide, ReadArchive, LockFiles, Recheck,
       GiveUp, WriteFails
  <1>3. /\ workspaceLock' \in [Project -> Thread \cup {Nobody}]
        /\ archiveLock' \in [Project -> Thread \cup {Nobody}]
        /\ saveLock' \in [Session -> Thread \cup {Nobody}]
    <2>1. /\ workspaceLock' = workspaceLock \/ workspaceLock' = Without(workspaceLock, t)
             \/ workspaceLock' = Put(workspaceLock, At(t), t)
          /\ archiveLock' = archiveLock \/ archiveLock' = Without(archiveLock, t)
             \/ archiveLock' = Put(archiveLock, At(t), t)
          /\ saveLock' = saveLock \/ saveLock' = Without(saveLock, t) \/ saveLock' = Put(saveLock, Own(t), t)
      BY DEF Save, LockWorkspace, LockArchive, Copy, Verify, Open, Decide, ReadArchive, LockFiles, Recheck,
         GiveUp, WriteFails, End
    <2>2. QED
      BY <1>1, <2>1, LocksTyped DEF TypeOK
  <1>4. \E l \in Label : pc' = [pc EXCEPT ![t] = l]
    BY DEF Save, LockWorkspace, LockArchive, Copy, Verify, Open, Decide, ReadArchive, LockFiles, Recheck,
       GiveUp, WriteFails, End, Label, Holds, Both
  <1>5. op' \in [Thread -> Ops] /\ \A u \in Thread \ {t} : op'[u] = op[u]
    <2> DEFINE Typed(new) == new \in [Thread -> Ops] /\ \A u \in Thread \ {t} : new[u] = op[u]
    <2>a. /\ \A p \in Project : Typed([op EXCEPT ![t].project = p])
          /\ \A a \in Archives : Typed([op EXCEPT ![t].seen = a])
          /\ \A i \in Inventories : Typed([op EXCEPT ![t].inv = i])
          /\ \A c \in Archives, i \in Inventories : Typed([op EXCEPT ![t].copy = c, ![t].inv = i])
          /\ Typed(op) /\ Typed([op EXCEPT ![t] = NoOp])
      BY <1>1, SetOps
    <2> HIDE DEF Typed
    <2>b. SUFFICES Typed(op')
      BY DEF Typed
    <2>1. CASE op' = op \/ End(t)
      BY <2>a, <2>1, Zenon DEF End
    <2>2. CASE Save(t)
      BY <2>2, <2>a, ThreadTypes DEF Save
    <2>3. CASE LockArchive(t) \/ Copy(t) \/ ReadArchive(t)
      <3>1. op[t].inv \in Inventories /\ archive[At(t)] \in Archives /\ archive[At(t)].inv \in Inventories
            /\ files[At(t)].inv \in Inventories
        BY <1>1, ThreadTypes
      <3>2. \/ op' = [op EXCEPT ![t].seen = archive[At(t)]]
            \/ op' = [op EXCEPT ![t].inv = archive[At(t)].inv]
            \/ op' = [op EXCEPT ![t].copy = archive[At(t)], ![t].inv = files[At(t)].inv]
        BY <2>3, Zenon DEF LockArchive, Copy, ReadArchive
      <3>3. Typed([op EXCEPT ![t].seen = archive[At(t)]]) /\ Typed([op EXCEPT ![t].inv = archive[At(t)].inv])
        BY <2>a, <3>1, Zenon
      <3>4. Typed([op EXCEPT ![t].copy = archive[At(t)], ![t].inv = files[At(t)].inv])
        <4>1. PICK c \in Archives, i \in Inventories : c = archive[At(t)] /\ i = files[At(t)].inv
          BY <3>1, Zenon
        <4>2. Typed([op EXCEPT ![t].copy = c, ![t].inv = i])
          BY <2>a, <4>1, Zenon
        <4>3. QED
          BY <4>1, <4>2, Zenon
      <3>5. QED
        BY <3>2, <3>3, <3>4, Zenon
    <2>4. CASE Open(t)
      <3>1. \A p \in Project, d, r \in BOOLEAN :
               [project |-> p, refresh |-> r, discard |-> d,
                seen |-> archive[p], copy |-> Nothing, inv |-> Absent] \in Ops
        BY ThreadTypes, InventoriesThereAre DEF Ops
      <3>2. \A o \in Ops : Typed([op EXCEPT ![t] = o])
        BY <1>1 DEF Typed
      <3>3. QED
        BY <2>4, <3>1, <3>2 DEF Open
    <2>5. QED
      BY <2>1, <2>2, <2>3, <2>4 DEF LockWorkspace, Verify, Decide, LockFiles, Recheck, GiveUp, WriteFails
  <1>6. faults' \in 0 .. MaxFaults
    <2>1. faults' = faults \/ (faults < MaxFaults /\ faults' = faults + 1)
      BY DEF Save, LockWorkspace, LockArchive, Copy, Verify, Open, Decide, ReadArchive, LockFiles, Recheck,
         GiveUp, WriteFails, Fault
    <2>2. QED
      BY <1>1, <2>1 DEF TypeOK
  <1>7. ThereOK(t)'
    <2>1. /\ op[t] \in Ops /\ ThereOK(t) /\ (\A p \in Project : Exists(p)' <=> Exists(p))
          /\ \A p \in Project : archive[p].inv.dev # -1
      BY <1>1, <1>2, ThreadTypes DEF Exists
    <2>2. CASE pc'[t] \in {"idle", "decide", "read"}
      BY <2>2 DEF ThereOK, Both
    <2>3. CASE Save(t)
      <3>1. op'[t].project = pin[Own(t)] /\ Exists(pin[Own(t)]) /\ pc'[t] = "lockWorkspace"
            /\ pin[Own(t)] \in Project
        BY <1>1, <2>1, <2>3, ThreadTypes DEF Save, Ops
      <3>2. QED
        BY <2>1, <3>1 DEF ThereOK, At, Both
    <2>4. CASE LockWorkspace(t) \/ LockFiles(t)
      BY <1>1, <2>1, <2>4 DEF LockWorkspace, LockFiles, ThereOK, At, Both
    <2>5. CASE LockArchive(t)
      <3>1. op'[t].project = op[t].project /\ pc[t] = "lockArchive" /\ pc'[t] = "copy"
        BY <1>1, <2>1, <2>5 DEF LockArchive, Ops
      <3>2. QED
        BY <1>1, <2>1, <3>1 DEF ThereOK, At, Both
    <2>6. CASE Copy(t)
      <3>1. /\ op'[t].project = op[t].project /\ op'[t].copy = archive[At(t)]
            /\ pc[t] = "copy" /\ pc'[t] = "replace"
        BY <1>1, <2>1, <2>6 DEF Copy, Ops
      <3>2. QED
        BY <1>1, <2>1, <3>1 DEF ThereOK, At, Both
    <2>7. CASE Verify(t)
      BY <1>1, <2>1, <2>7 DEF Verify, ThereOK, At, Both
    <2>8. CASE Decide(t)
      <3>1. Dirty(At(t)) => Exists(At(t))
        BY DEF Dirty
      <3>2. pc'[t] = "select" => Exists(At(t)) /\ op'[t] = op[t]
        BY <1>1, <2>8, <3>1 DEF Decide
      <3>3. QED
        BY <1>1, <2>1, <2>8, <3>2 DEF Decide, ThereOK, At, Both
    <2>9. CASE ReadArchive(t)
      <3>1. op'[t].inv = archive[At(t)].inv /\ pc'[t] = "lockFiles"
        BY <1>1, <2>1, <2>9 DEF ReadArchive, Ops
      <3>2. QED
        BY <1>1, <2>1, <3>1 DEF ThereOK, Both
    <2>10. CASE Recheck(t) /\ pc'[t] = "putDevices" /\ op' = op
      BY <1>1, <2>1, <2>10 DEF Recheck, ThereOK, Both
    <2>11. QED
      BY <1>1, <2>2, <2>3, <2>4, <2>5, <2>6, <2>7, <2>8, <2>9, <2>10 DEF Open, Recheck, GiveUp, WriteFails, End
  <1>8. /\ files' \in [Project -> Files] /\ meta' \in [Project -> Metas] /\ archive' \in [Project -> Archives]
        /\ version' \in 0 .. MaxVersions /\ pending' \in [Project -> Inventories]
        /\ returned' \in [Project -> BOOLEAN] /\ row' = row /\ UNCHANGED <<pin, last>>
        /\ \A p \in Project : (Exists(p) => Exists(p)') /\ archive'[p].inv.dev # -1
    BY <1>1, <1>2, ThreadTypes DEF TypeOK, Exists
  <1>9. pc' \in [Thread -> Label] /\ \A u \in Thread \ {t} : pc'[u] = pc[u]
    BY <1>1, <1>4
  <1>10. QED
    BY <1>3, <1>5, <1>6, <1>7, <1>8, <1>9, OneStepTyped

\* An edit, and its audit.
LEMMA EditingTyped == ASSUME TypesInv, NEW t \in Thread, Edit(t) \/ Audit(t) PROVE TypesInv'
  <1> USE DEF disk, locks, sessions, ghosts, Goto
  <1>1. TypeOK /\ op \in [Thread -> Ops] /\ pc \in [Thread -> Label] /\ At(t) \in Project
    BY ThreadTypes DEF TypesInv
  <1>2. CASE Edit(t)
    <2>1. PICK p \in Project : p = pin[Own(t)] /\ Exists(p)
      BY ThreadTypes
    <2>2. version' \in 0 .. MaxVersions /\ version' # -1
      BY <1>1, <1>2 DEF Edit, NextVersion, TypeOK
    <2>3. PICK f \in Files : files' = [files EXCEPT ![p] = f] /\ f.inv.dev # -1
      <3>1. /\ files[p].inv \in Inventories /\ files[p].stray \in BOOLEAN
        BY ThreadTypes DEF Files
      <3>2. \A i, v : i \in Inventories => [i EXCEPT !.dev = v].dev = v
        BY DEF Inventories
      <3>3. \A b \in BOOLEAN :
               /\ [inv |-> [dev |-> version', grp |-> version', cut |-> 0], stray |-> b] \in Files
               /\ [inv |-> [files[p].inv EXCEPT !.dev = version'], stray |-> b] \in Files
        BY <2>2, <3>1, InventoriesThereAre DEF Files
      <3>4. CASE \E b \in BOOLEAN : files' = [files EXCEPT ![p] =
                    [inv |-> [dev |-> version', grp |-> version', cut |-> 0], stray |-> b]]
        BY <2>2, <3>3, <3>4
      <3>5. CASE \E b \in BOOLEAN : files' = [files EXCEPT ![p] =
                    [inv |-> [files[p].inv EXCEPT !.dev = version'], stray |-> b]]
        BY <2>2, <3>1, <3>2, <3>3, <3>5
      <3>6. QED
        BY <1>2, <2>1, <3>1, <3>4, <3>5 DEF Edit, Put
    <2>4. /\ files' \in [Project -> Files] /\ files'[p] = f
          /\ \A q \in Project : Exists(q) => Exists(q)'
      BY <2>3, ThreadTypes DEF Exists
    <2>5. pending' \in [Project -> Inventories] /\ workspaceLock' \in [Project -> Thread \cup {Nobody}]
      <3>1. f.inv \in Inventories
        BY DEF Files
      <3>2. QED
        BY <1>1, <1>2, <2>1, <2>4, <3>1, LocksTyped DEF Edit, Put, TypeOK
    <2>6. /\ op' \in [Thread -> Ops] /\ op'[t].project = p /\ pc'[t] = "audit" /\ pc' \in [Thread -> Label]
          /\ \A u \in Thread \ {t} : pc'[u] = pc[u] /\ op'[u] = op[u]
      <3>1. op' = [op EXCEPT ![t].project = p] /\ op[t] \in Ops
        BY <1>1, <1>2, <2>1 DEF Edit
      <3>2. op' \in [Thread -> Ops]
        BY <1>1, <2>1, <3>1, SetOps
      <3>3. op'[t].project = p /\ \A u \in Thread \ {t} : op'[u] = op[u]
        BY <1>1, <3>1 DEF Ops
      <3>4. QED
        BY <1>1, <1>2, <3>2, <3>3 DEF Edit, Label, Holds
    <2>7. ThereOK(t)'
      BY <2>1, <2>4, <2>6 DEF ThereOK, At, Both
    <2>8. /\ UNCHANGED <<meta, archive, archiveLock, saveLock, pin, row, last, faults, returned>>
      BY <1>2 DEF Edit
    <2>9. /\ meta' \in [Project -> Metas] /\ archive' \in [Project -> Archives]
          /\ \A q \in Project : archive'[q].inv.dev # -1
      BY <2>8, ThreadTypes
    <2>10. QED
      BY <1>1, <2>2, <2>4, <2>5, <2>6, <2>7, <2>8, <2>9, OneStepTyped DEF TypeOK
  <1>3. CASE Audit(t)
    <2>1. archive' \in [Project -> Archives] /\ \A p \in Project : archive'[p].inv = archive[p].inv
      <3>1. archive[At(t)] \in Archives
        BY <1>1, ThreadTypes
      <3>2. \A a \in Archives : [a EXCEPT !.log = @ + 1].inv = a.inv
        BY DEF Archives
      <3>3. [archive EXCEPT ![At(t)].log = @ + 1][At(t)].inv = archive[At(t)].inv
        BY <1>1, <3>1, <3>2, ThreadTypes
      <3>4. CASE archive' = archive
        BY <3>4, ThreadTypes
      <3>5. CASE archive[At(t)].log < MaxLog /\ archive' = [archive EXCEPT ![At(t)].log = @ + 1]
        <4>1. archive' \in [Project -> Archives]
          BY <1>1, <3>5, SetArchives, ThreadTypes
        <4>2. \A p \in Project \ {At(t)} : archive'[p] = archive[p]
          BY <3>5, ThreadTypes
        <4>3. QED
          BY <3>3, <3>5, <4>1, <4>2
      <3>6. QED
        BY <1>3, <3>4, <3>5 DEF Audit
    <2>2. /\ pc'[t] = "idle" /\ pc' \in [Thread -> Label] /\ op' \in [Thread -> Ops]
          /\ \A u \in Thread \ {t} : pc'[u] = pc[u] /\ op'[u] = op[u]
      <3>1. op' = [op EXCEPT ![t] = NoOp] /\ pc' = [pc EXCEPT ![t] = "idle"] /\ "idle" \in Label
        BY <1>3 DEF Audit, End, Label
      <3>2. op' \in [Thread -> Ops]
        BY <1>1, <3>1, SetOps
      <3>3. QED
        BY <1>1, <3>1, <3>2
    <2>3. ThereOK(t)'
      BY <2>2 DEF ThereOK, Both
    <2>4. /\ workspaceLock' \in [Project -> Thread \cup {Nobody}]
          /\ archiveLock' \in [Project -> Thread \cup {Nobody}]
          /\ saveLock' \in [Session -> Thread \cup {Nobody}]
      BY <1>1, <1>3, LocksTyped DEF Audit, End
    <2>5. UNCHANGED <<files, meta, pin, row, last, version, faults, pending, returned>>
      BY <1>3 DEF Audit
    <2>6. /\ files' \in [Project -> Files] /\ meta' \in [Project -> Metas]
          /\ \A p \in Project : (Exists(p) => Exists(p)') /\ archive'[p].inv.dev # -1
      BY <2>1, <2>5, ThreadTypes DEF Exists
    <2>7. QED
      BY <1>1, <2>1, <2>2, <2>3, <2>4, <2>5, <2>6, OneStepTyped DEF TypeOK
  <1>4. QED
    BY <1>2, <1>3
\* The steps of a save, and of an opening, that write.
LEMMA WritingTyped ==
  ASSUME TypesInv, NEW t \in Thread,
         Replace(t) \/ Restore(t) \/ Mark(t) \/ PutDevices(t) \/ PutGroups(t) \/ PutMeta(t) \/ Select(t)
  PROVE  TypesInv'
  <1> USE DEF disk, locks, sessions, ghosts, Goto
  <1>1. /\ TypeOK /\ op \in [Thread -> Ops] /\ pc \in [Thread -> Label] /\ Own(t) \in Session
        /\ At(t) \in Project /\ op[t].inv \in Inventories /\ op[t].seen.inv \in Inventories
        /\ op[t].seen.log \in 0 .. MaxLog /\ op[t].copy \in Archives /\ ThereOK(t)
        /\ archive \in [Project -> Archives] /\ files \in [Project -> Files] /\ meta \in [Project -> Metas]
        /\ \A p \in Project : archive[p].inv \in Inventories /\ archive[p].log \in 0 .. MaxLog
                              /\ files[p].inv \in Inventories
    BY ThreadTypes DEF TypesInv
  <1>2. UNCHANGED <<row, version, faults>>
    BY DEF Replace, Restore, Mark, PutDevices, PutGroups, PutMeta, Select
  <1>3. /\ workspaceLock' \in [Project -> Thread \cup {Nobody}]
        /\ archiveLock' \in [Project -> Thread \cup {Nobody}]
        /\ saveLock' \in [Session -> Thread \cup {Nobody}]
    <2>1. /\ workspaceLock' = workspaceLock \/ workspaceLock' = Without(workspaceLock, t)
          /\ archiveLock' = archiveLock \/ archiveLock' = Without(archiveLock, t)
          /\ saveLock' = saveLock \/ saveLock' = Without(saveLock, t)
      BY DEF Replace, Restore, Mark, PutDevices, PutGroups, PutMeta, Select, End
    <2>2. QED
      BY <1>1, <2>1, LocksTyped DEF TypeOK
  <1>4. /\ pc' \in [Thread -> Label] /\ op' \in [Thread -> Ops]
        /\ \A u \in Thread \ {t} : pc'[u] = pc[u] /\ op'[u] = op[u]
    <2>1. \E l \in Label : pc' = [pc EXCEPT ![t] = l]
      BY DEF Replace, Restore, Mark, PutDevices, PutGroups, PutMeta, Select, End, Label, Holds, Both
    <2>2. op' = op \/ op' = [op EXCEPT ![t] = NoOp]
      BY DEF Replace, Restore, Mark, PutDevices, PutGroups, PutMeta, Select, End
    <2>3. [op EXCEPT ![t] = NoOp] \in [Thread -> Ops]
      BY <1>1, SetOps
    <2>4. QED
      BY <1>1, <2>1, <2>2, <2>3
  <1>5. archive' \in [Project -> Archives] /\ \A p \in Project : archive'[p].inv.dev # -1
    <2>1. CASE Replace(t)
      <3>1. files[At(t)] \in Files /\ Exists(At(t))
        BY <1>1, <2>1 DEF Replace, ThereOK, Both
      <3>2. Archived(files[At(t)]) \in Inventories /\ Archived(files[At(t)]).dev # -1
        BY <3>1, InventoriesThereAre DEF Exists
      <3>3. archive' = [archive EXCEPT ![At(t)].inv = Archived(files[At(t)])]
        BY <2>1 DEF Replace
      <3>4. archive' \in [Project -> Archives]
        BY <1>1, <3>2, <3>3, SetArchives
      <3>5. \A a \in Archives, i \in Inventories : [a EXCEPT !.inv = i].inv = i
        BY DEF Archives
      <3>6. archive'[At(t)].inv = Archived(files[At(t)])
        BY <1>1, <3>2, <3>3, <3>5
      <3>7. \A p \in Project \ {At(t)} : archive'[p] = archive[p]
        BY <1>1, <3>3
      <3>8. QED
        BY <3>2, <3>4, <3>6, <3>7 DEF TypesInv
    <2>2. CASE Restore(t)
      <3>1. op[t].copy.inv.dev # -1 /\ archive' = [archive EXCEPT ![At(t)] = op[t].copy]
        BY <1>1, <2>2 DEF Restore, ThereOK, Both, Put
      <3>2. QED
        BY <1>1, <3>1 DEF TypesInv
    <2>3. CASE archive' = archive
      BY <1>1, <2>3 DEF TypesInv
    <2>4. QED
      BY <2>1, <2>2, <2>3 DEF Mark, PutDevices, PutGroups, PutMeta, Select
  <1>6. files' \in [Project -> Files] /\ \A p \in Project : Exists(p) => Exists(p)'
    <2>1. CASE PutDevices(t)
      <3>1. op[t].inv.dev # -1 /\ files' = [files EXCEPT ![At(t)].inv.dev = op[t].inv.dev]
        BY <1>1, <2>1 DEF PutDevices, ThereOK
      <3>2. \A f \in Files, i \in Inventories :
               [f EXCEPT !.inv.dev = i.dev] \in Files /\ [f EXCEPT !.inv.dev = i.dev].inv.dev = i.dev
        <4>1. \A i, j \in Inventories : [i EXCEPT !.dev = j.dev].dev = j.dev
          BY DEF Inventories
        <4>2. \A f \in Files : \A d :
                 /\ [f EXCEPT !.inv.dev = d] = [inv |-> [f.inv EXCEPT !.dev = d], stray |-> f.stray]
                 /\ f.inv \in Inventories /\ f.stray \in BOOLEAN
          BY DEF Files
        <4>3. \A i \in Inventories, b \in BOOLEAN : [inv |-> i, stray |-> b] \in Files
          BY DEF Files
        <4>4. ASSUME NEW f \in Files, NEW i \in Inventories
              PROVE  [f EXCEPT !.inv.dev = i.dev] \in Files /\ [f EXCEPT !.inv.dev = i.dev].inv.dev = i.dev
          <5>1. PICK j \in Inventories : j = [f.inv EXCEPT !.dev = i.dev]
            BY <4>2, InventoriesThereAre
          <5>2. j.dev = i.dev /\ [f EXCEPT !.inv.dev = i.dev] = [inv |-> j, stray |-> f.stray]
            BY <4>1, <4>2, <5>1
          <5>3. f.stray \in BOOLEAN
            BY <4>2
          <5>4. [inv |-> j, stray |-> f.stray] \in Files /\ [inv |-> j, stray |-> f.stray].inv = j
            BY <4>3, <5>3
          <5>5. QED
            BY <5>2, <5>4, Zenon
        <4>5. QED
          BY <4>4, Zenon
      <3>3. PICK f \in Files : f = [files[At(t)] EXCEPT !.inv.dev = op[t].inv.dev] /\ f.inv.dev # -1
        <4>1. PICK g \in Files, i \in Inventories : g = files[At(t)] /\ i = op[t].inv
          BY <1>1
        <4>2. [g EXCEPT !.inv.dev = i.dev] \in Files /\ [g EXCEPT !.inv.dev = i.dev].inv.dev = i.dev
          BY <3>2, <4>1, Zenon
        <4>3. QED
          BY <3>1, <4>1, <4>2
      <3>4. files' = [files EXCEPT ![At(t)] = f]
        BY <1>1, <3>1, <3>3
      <3>5. QED
        BY <1>1, <3>3, <3>4 DEF Exists
    <2>2. CASE PutGroups(t)
      <3>1. [inv |-> op[t].inv, stray |-> FALSE] \in Files
        BY <1>1 DEF Files
      <3>2. op[t].inv.dev # -1 /\ files' = [files EXCEPT ![At(t)] = [inv |-> op[t].inv, stray |-> FALSE]]
        BY <1>1, <2>2 DEF PutGroups, ThereOK, Put
      <3>3. QED
        BY <1>1, <3>1, <3>2 DEF Exists
    <2>3. CASE files' = files
      BY <1>1, <2>3 DEF Exists
    <2>4. QED
      BY <2>1, <2>2, <2>3 DEF Replace, Restore, Mark, PutMeta, Select
  <1>7. meta' \in [Project -> Metas]
    <2>1. /\ [archive |-> archive[At(t)].inv, log |-> archive[At(t)].log, hash |-> op[t].inv] \in Metas
          /\ [archive |-> op[t].seen.inv, log |-> op[t].seen.log, hash |-> files[At(t)].inv] \in Metas
      BY <1>1 DEF Metas
    <2>2. \/ meta' = meta
          \/ meta' = [meta EXCEPT ![At(t)] =
                        [archive |-> archive[At(t)].inv, log |-> archive[At(t)].log, hash |-> op[t].inv]]
          \/ meta' = [meta EXCEPT ![At(t)] =
                        [archive |-> op[t].seen.inv, log |-> op[t].seen.log, hash |-> files[At(t)].inv]]
      BY Zenon DEF Replace, Restore, Mark, PutDevices, PutGroups, PutMeta, Select, Put
    <2>3. QED
      BY <1>1, <2>1, <2>2
  <1>8. pending' \in [Project -> Inventories] /\ returned' \in [Project -> BOOLEAN]
    <2>1. pending \in [Project -> Inventories] /\ returned \in [Project -> BOOLEAN] /\ Absent \in Inventories
      BY <1>1, InventoriesThereAre DEF TypeOK
    <2>2. pending' = pending \/ \E i \in Inventories : pending' = [pending EXCEPT ![At(t)] = i]
      BY <1>1, <2>1 DEF Replace, Restore, Mark, PutDevices, PutGroups, PutMeta, Select, Put
    <2>3. returned' = returned \/ \E b \in BOOLEAN : returned' = [returned EXCEPT ![At(t)] = b]
      <3>1. (returned[At(t)] \/ Older(files[At(t)], archive[At(t)])) \in BOOLEAN
        OBVIOUS
      <3>2. QED
        BY <1>1, <2>1, <3>1 DEF Replace, Restore, Mark, PutDevices, PutGroups, PutMeta, Select, Put
    <2>4. QED
      BY <2>1, <2>2, <2>3
  <1>9. UNCHANGED <<pin, last>>
        \/ \E s \in Session, p \in Project : Exists(p)' /\ pin' = [pin EXCEPT ![s] = p] /\ last' \in {last, p}
    <2>1. CASE Select(t)
      <3>1. PICK p \in Project : p = At(t)
        BY <1>1
      <3>2. Exists(p) /\ files' = files
        BY <1>1, <2>1, <3>1 DEF Select, ThereOK
      <3>3. Exists(p)' /\ pin' = [pin EXCEPT ![Own(t)] = p] /\ last' \in {last, p}
        BY <2>1, <3>1, <3>2 DEF Select, Put, Exists
      <3>4. QED
        BY <1>1, <3>3
    <2>2. CASE UNCHANGED <<pin, last>>
      BY <2>2
    <2>3. QED
      BY <2>1, <2>2 DEF Replace, Restore, Mark, PutDevices, PutGroups, PutMeta
  <1>10. ThereOK(t)'
    <2>1. pc'[t] \in {"idle", "select"} \/ (pc'[t] \in {"verify", "putGroups", "putMeta"} /\ op' = op)
      BY <1>1 DEF Replace, Restore, Mark, PutDevices, PutGroups, PutMeta, Select, End
    <2>2. CASE pc'[t] = "idle"
      BY <2>2 DEF ThereOK, Both
    <2>3. CASE Replace(t)
      <3>1. /\ op' = op /\ pc'[t] = "verify" /\ Exists(At(t)) /\ op[t].copy.inv.dev # -1
            /\ files' = files
        BY <1>1, <2>3 DEF Replace, ThereOK, Both
      <3>2. QED
        BY <3>1 DEF ThereOK, At, Exists
    <2>4. CASE PutDevices(t) \/ PutGroups(t) \/ PutMeta(t)
      <3>1. /\ op' = op /\ pc'[t] \in {"putGroups", "putMeta", "select"}
            /\ pc'[t] # "select" => op[t].inv.dev # -1
            /\ pc[t] = "putDevices" \/ Exists(At(t))
        BY <1>1, <2>4 DEF PutDevices, PutGroups, PutMeta, ThereOK
      <3>2. files'[At(t)].inv.dev # -1
        <4>1. CASE PutDevices(t)
          <5>1. op[t].inv.dev # -1 /\ files' = [files EXCEPT ![At(t)].inv.dev = op[t].inv.dev]
            BY <1>1, <4>1 DEF PutDevices, ThereOK
          <5>2. files[At(t)] \in Files /\ \A f \in Files : \A d : [f EXCEPT !.inv.dev = d].inv.dev = d
            BY <1>1 DEF Files, Inventories
          <5>3. QED
            BY <1>1, <5>1, <5>2
        <4>2. CASE pc[t] # "putDevices"
          BY <1>1, <1>6, <3>1, <4>2 DEF Exists
        <4>3. QED
          BY <2>4, <4>1, <4>2 DEF PutGroups, PutMeta
      <3>3. QED
        BY <3>1, <3>2 DEF ThereOK, At, Exists, Both
    <2>5. QED
      BY <1>1, <2>2, <2>3, <2>4 DEF Restore, Mark, Select, End
  <1>11. QED
    BY <1>1, <1>2, <1>3, <1>4, <1>5, <1>6, <1>7, <1>8, <1>9, <1>10, OneStepTyped DEF TypeOK
LEMMA SessionTyped ==
  ASSUME TypesInv, NEW s \in Session, Beat(s) \/ Suspend(s) \/ Crash(s)
  PROVE  TypesInv'
  <1> USE DEF disk, locks, sessions, ghosts
  <1>1. /\ TypeOK /\ op \in [Thread -> Ops] /\ pc \in [Thread -> Label]
        /\ UNCHANGED <<files, meta, archive, last, version, pending, returned>>
    BY ThreadTypes DEF TypesInv, Beat, Suspend, Crash
  <1>2. Exists(last)' /\ \A p \in Project : (Exists(p) => Exists(p)') /\ archive'[p].inv.dev # -1
    BY <1>1 DEF TypesInv, Exists
  <1>3. faults' \in 0 .. MaxFaults
    BY <1>1 DEF TypeOK, Beat, Suspend, Crash, Fault
  <1>4. pin' \in [Session -> {p \in Project : Exists(p)'}] /\ row' \in [Session -> Project \cup {Nowhere}]
    <2>1. /\ pin \in [Session -> {p \in Project : Exists(p)'}] /\ last \in Project
          /\ row \in [Session -> Project \cup {Nowhere}]
      BY <1>1, <1>2 DEF TypeOK, Exists
    <2>2. /\ \A s1 \in Session : pin[s1] \in Project
      BY <2>1
    <2>3. CASE Beat(s) \/ Suspend(s)
      BY <2>1, <2>2, <2>3 DEF Beat, Suspend, Put
    <2>4. CASE Crash(s)
      <3>1. pin' = [pin EXCEPT ![s] = last] /\ row' = [row EXCEPT ![s] = last]
        BY <2>4 DEF Crash, Put
      <3>2. QED
        BY <1>1, <1>2, <2>1, <3>1
    <2>5. QED
      BY <2>3, <2>4
  <1>5. /\ pc' \in [Thread -> Label] /\ op' \in [Thread -> Ops]
        /\ \A u \in Thread : pc'[u] = "idle" \/ (pc'[u] = pc[u] /\ op'[u] = op[u])
    BY <1>1, InventoriesThereAre DEF Beat, Suspend, Crash, Label
  <1>6. /\ workspaceLock' \in [Project -> Thread \cup {Nobody}]
        /\ archiveLock' \in [Project -> Thread \cup {Nobody}]
        /\ saveLock' \in [Session -> Thread \cup {Nobody}]
    BY <1>1 DEF TypeOK, Beat, Suspend, Crash
  <1>7. TypeOK'
    BY <1>1, <1>3, <1>4, <1>5, <1>6 DEF TypeOK, Ops, Label, Holds, Both
  <1>8. ASSUME NEW u \in Thread PROVE ThereOK(u)'
    <2>1. CASE pc'[u] = "idle"
      BY <2>1 DEF ThereOK, Both
    <2>2. CASE pc'[u] = pc[u] /\ op'[u] = op[u]
      BY <1>1, <2>2 DEF TypesInv, ThereOK, At, Exists
    <2>3. QED
      BY <1>5, <2>1, <2>2
  <1>9. QED
    BY <1>1, <1>2, <1>7, <1>8 DEF TypesInv

LEMMA ImportTyped == ASSUME TypesInv, NEW p \in Project, Import(p) PROVE TypesInv'
  <1> USE DEF locks, sessions, ghosts
  <1>1. TypeOK /\ archive \in [Project -> Archives] /\ UNCHANGED <<files, meta, locks, sessions, pc, op, faults, ghosts>>
    BY ThreadTypes DEF TypesInv, Import
  <1>2. version' \in 0 .. MaxVersions /\ version' # -1
    BY <1>1 DEF TypeOK, Import, NextVersion
  <1>3. PICK i \in Inventories : i.dev # -1 /\ archive' = [archive EXCEPT ![p].inv = i]
    BY <1>2, InventoriesThereAre DEF Import
  <1>4. archive' \in [Project -> Archives]
    BY <1>1, <1>3, SetArchives
  <1>5. \A q \in Project : archive'[q].inv.dev # -1
    <2>1. [archive[p] EXCEPT !.inv = i].inv = i
      <3>1. archive[p] \in Archives
        BY <1>1
      <3>2. QED
        BY <3>1 DEF Archives
    <2>2. QED
      BY <1>1, <1>3, <2>1 DEF TypesInv
  <1>6. TypeOK' /\ Exists(last)'
    BY <1>1, <1>2, <1>4 DEF TypeOK, TypesInv, Exists
  <1>7. \A u \in Thread : ThereOK(u)'
    BY <1>1 DEF TypesInv, ThereOK, At, Exists
  <1>8. QED
    BY <1>5, <1>6, <1>7 DEF TypesInv

LEMMA InitTypes == Init => TypesInv
  <1> SUFFICES ASSUME Init PROVE TypesInv
    OBVIOUS
  <1>1. PICK i \in Inventories : i = [dev |-> 0, grp |-> 0, cut |-> 0] /\ i.dev = 0
    <2>1. 0 \in 0 .. MaxVersions
      OBVIOUS
    <2>2. QED
      BY <2>1, InventoriesThereAre
  <1>2. /\ [inv |-> i, log |-> 0] \in Archives /\ [inv |-> i, stray |-> FALSE] \in Files
        /\ [archive |-> i, log |-> 0, hash |-> i] \in Metas
    BY DEF Archives, Files, Metas
  <1>3. archive = [p \in Project |-> [inv |-> i, log |-> 0]]
    BY <1>1 DEF Init
  <1>4. files = [p \in Project |-> IF p = FirstProject THEN [inv |-> i, stray |-> FALSE] ELSE NoFiles]
    BY <1>1 DEF Init
  <1>5. meta = [p \in Project |-> IF p = FirstProject
                   THEN [archive |-> i, log |-> 0, hash |-> i] ELSE NoMeta]
    BY <1>3 DEF Init
  <1>6. /\ archive \in [Project -> Archives] /\ files \in [Project -> Files] /\ meta \in [Project -> Metas]
        /\ Exists(FirstProject) /\ \A p \in Project : archive[p].inv.dev # -1
    BY <1>1, <1>2, <1>3, <1>4, <1>5, InventoriesThereAre DEF Exists
  <1>7. TypeOK
    <2>1. /\ pin \in [Session -> {p \in Project : Exists(p)}] /\ last \in Project
          /\ row \in [Session -> Project \cup {Nowhere}]
      BY <1>6 DEF Init
    <2>2. /\ op \in [Thread -> Ops] /\ pending \in [Project -> Inventories]
      BY InventoriesThereAre DEF Init
    <2>3. /\ pc \in [Thread -> Label] /\ returned \in [Project -> BOOLEAN]
          /\ workspaceLock \in [Project -> Thread \cup {Nobody}]
          /\ archiveLock \in [Project -> Thread \cup {Nobody}]
          /\ saveLock \in [Session -> Thread \cup {Nobody}]
      BY DEF Init, Label
    <2>4. version \in 0 .. MaxVersions /\ faults \in 0 .. MaxFaults
      BY DEF Init
    <2>5. QED
      BY <1>6, <2>1, <2>2, <2>3, <2>4 DEF TypeOK, Ops, Files, Metas, Label, Holds, Both
  <1>8. Exists(last) /\ \A t \in Thread : ThereOK(t)
    BY <1>6 DEF Init, ThereOK, Both
  <1>9. QED
    BY <1>6, <1>7, <1>8 DEF TypesInv

\* The workspaces, archives, locks, sessions and operations keep their types, and the project of
\* a session, which every operation works on, has a workspace (workspace.py, session.py).
THEOREM ProjectsTypes == Spec => []TypeOK
  <1>1. TypesInv /\ [Next]_vars => TypesInv'
    <2> SUFFICES ASSUME TypesInv, [Next]_vars PROVE TypesInv'
      OBVIOUS
    <2>1. CASE UNCHANGED vars
      BY <2>1 DEF vars, disk, locks, sessions, ghosts, TypesInv, TypeOK, ThereOK, At, Exists
    <2>2. ASSUME NEW t \in Thread,
                 Edit(t) \/ Save(t) \/ Open(t) \/ Step(t) \/ GiveUp(t) \/ WriteFails(t)
          PROVE  TypesInv'
      BY <2>2, WaitingTyped, EditingTyped, WritingTyped DEF Step, Saving, Opening
    <2>3. QED
      BY <2>1, <2>2, SessionTyped, ImportTyped DEF Next
  <1>2. TypesInv => TypeOK
    BY DEF TypesInv
  <1>3. QED
    BY <1>1, <1>2, InitTypes, PTL DEF Spec

===============================================================================
