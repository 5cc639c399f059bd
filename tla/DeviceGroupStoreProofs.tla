------------------------ MODULE DeviceGroupStoreProofs ------------------------
(***************************************************************************)
(* The two files implement the one inventory, for any number of processes, *)
(* devices, groups, operations, crashes and failed writes.                  *)
(***************************************************************************)
EXTENDS DeviceGroupStore, InventoryLemmas

\* A step of p leaves the other processes alone and takes no lock from them.
OthersSame(p) ==
    \A q \in Proc \ {p} :
        /\ pc'[q] = pc[q] /\ op'[q] = op[q] /\ plan'[q] = plan[q] /\ snap'[q] = snap[q]
        /\ \A l \in Lock : owner[l] = q => owner'[l] = q

SelfOK(p) == OpOK(p) /\ LocksOK(p) /\ FilesOK(p)

LEMMA BlankTyped == Blank \in Inventories /\ EmptyDevices \in DeviceFile
<1>1. EmptyDevices \in DeviceFile
  BY DEF EmptyDevices, DeviceFile
<1>2. DefaultGroups \in GroupFile
  BY InventoryAssumption DEF DefaultGroups, GroupFile
<1>. QED  BY <1>1, <1>2 DEF Blank, Inventories

\* Devices set adrift are devices.
LEMMA AdriftTyped ==
    ASSUME NEW dev, NEW after \in DeviceFile
    PROVE  Rekeyed(dev, after) \subseteq Device /\ Regrouped(dev, after) \subseteq Device
<1>1. after.present \subseteq Device /\ \A e \in after.in : e[1] \in Device
  BY DeviceFields
<1>. QED  BY <1>1 DEF Rekeyed, Regrouped, Twins

LEMMA OnDiskTyped ==
    ASSUME TypeOK
    PROVE  OnDisk \in Inventories /\ OnDisk.dev = devFile /\ OnDisk.grp = grpFile
BY DEF TypeOK, OnDisk, Inventories

\* Files are written by a process that holds the lock of devices.json, and the
\* other processes assume nothing of the files without that lock.
LEMMA FromParts ==
    ASSUME StoreInv, NEW p \in Proc,
           TypeOK', OthersSame(p), SelfOK(p)',
           files' = files \/ Holds(p, "dev")
    PROVE  StoreInv'
<1>1. ASSUME NEW q \in Proc, q # p
      PROVE  OpOK(q)' /\ LocksOK(q)' /\ FilesOK(q)'
  <2>1. /\ pc'[q] = pc[q] /\ op'[q] = op[q] /\ plan'[q] = plan[q] /\ snap'[q] = snap[q]
        /\ \A l \in Lock : owner[l] = q => owner'[l] = q
    BY <1>1 DEF OthersSame
  <2>2. OpOK(q) /\ LocksOK(q) /\ FilesOK(q)
    BY DEF StoreInv
  <2>3. OpOK(q)'
    BY <2>1, <2>2 DEF OpOK
  <2>4. LocksOK(q)'
    BY <2>1, <2>2 DEF LocksOK, Holds, Lock
  <2>5. FilesOK(q)'
    <3>1. CASE files' = files
      <4>1. devFile' = devFile /\ grpFile' = grpFile /\ journal' = journal
        BY <3>1 DEF files
      <4>. QED  BY <4>1, <2>1, <2>2 DEF FilesOK, OnDisk
    <3>2. CASE Holds(p, "dev")
      <4>1. pc[q] \notin Inside
        BY <3>2, <2>2, <1>1 DEF LocksOK, Holds
      <4>. QED  BY <4>1, <2>1 DEF FilesOK, Inside, WithBoth
    <3>. QED  BY <3>1, <3>2
  <2>. QED  BY <2>3, <2>4, <2>5
<1>. QED  BY <1>1 DEF StoreInv, SelfOK

-----------------------------------------------------------------------------
(* The two shapes a step has: it moves p on, or it ends the operation of p. *)

LEMMA Moves ==
    ASSUME TypeOK, NEW p \in Proc, NEW label \in Outside \cup Inside,
           Goto(p, label),
           \A q \in Proc \ {p} :
              op'[q] = op[q] /\ plan'[q] = plan[q] /\ snap'[q] = snap[q],
           \A l \in Lock : owner'[l] # owner[l] => owner[l] \in {p, None}
    PROVE  /\ OthersSame(p)
           /\ pc' \in [Proc -> Outside \cup Inside]
           /\ pc'[p] = label
<1>1. pc \in [Proc -> Outside \cup Inside]
  BY DEF TypeOK
<1>2. None \notin Proc
  BY StoreAssumption
<1>. QED  BY <1>1, <1>2 DEF Goto, OthersSame

LEMMA Ends ==
    ASSUME StoreInv, NEW p \in Proc, NEW outcome \in Outcomes, Finish(p, outcome)
    PROVE  /\ OthersSame(p)
           /\ SelfOK(p)'
           /\ owner' \in [Lock -> Proc \cup {None}]
           /\ pc' \in [Proc -> Outside \cup Inside]
           /\ op' \in [Proc -> Kinds]
           /\ out' \in [Proc -> Outcomes]
           /\ plan' \in [Proc -> Inventories]
           /\ snap' \in [Proc -> [revision : DeviceFile, base : DeviceFile]]
<1>1. TypeOK
  BY DEF StoreInv
<1>2. owner' \in [Lock -> Proc \cup {None}]
  BY <1>1 DEF TypeOK, Finish, Release
<1>3. pc' \in [Proc -> Outside \cup Inside] /\ pc'[p] = "idle"
  BY <1>1 DEF TypeOK, Finish, Goto, Outside
<1>4. /\ op' \in [Proc -> Kinds] /\ op'[p] = "none"
      /\ out' \in [Proc -> Outcomes]
  BY <1>1 DEF TypeOK, Finish, Kinds
<1>5. plan' \in [Proc -> Inventories]
  BY <1>1, BlankTyped DEF TypeOK, Finish
<1>6. snap' \in [Proc -> [revision : DeviceFile, base : DeviceFile]]
  BY <1>1, BlankTyped DEF TypeOK, Finish, BlankSnapshot
<1>7. OthersSame(p)
  BY <1>1, StoreAssumption DEF OthersSame, Finish, Release, Goto, TypeOK
<1>8. SelfOK(p)'
  BY <1>3, <1>4 DEF SelfOK, OpOK, LocksOK, FilesOK, Inside, WithBoth
<1>. QED  BY <1>2, <1>3, <1>4, <1>5, <1>6, <1>7, <1>8

-----------------------------------------------------------------------------
(* Every action keeps the invariant. *)

\* The files as the journal remembers them.
LEMMA BeforeImage ==
    ASSUME journal \in Inventories
    PROVE  /\ journal.dev \in DeviceFile
           /\ journal.grp \in GroupFile
           /\ journal = [dev |-> journal.dev, grp |-> journal.grp]
BY InventoryFields

\* The files as p means to write them.
LEMMA Planned ==
    ASSUME TypeOK, NEW p \in Proc
    PROVE  /\ plan[p] \in Inventories
           /\ plan[p].dev \in DeviceFile
           /\ plan[p].grp \in GroupFile
           /\ plan[p] = [dev |-> plan[p].dev, grp |-> plan[p].grp]
<1>1. plan[p] \in Inventories
  BY DEF TypeOK
<1>. QED  BY <1>1, InventoryFields

LEMMA RecoveryKeeps ==
    ASSUME StoreInv, NEW p \in Proc, Recovery(p)
    PROVE  StoreInv'
<1>a. TypeOK /\ SelfOK(p)
  BY DEF StoreInv, SelfOK
<1>1. CASE RestoreDev(p)
  <2>1. OthersSame(p) /\ pc' \in [Proc -> Outside \cup Inside] /\ pc'[p] = "restoreGrp"
    BY <1>1, <1>a, Moves DEF RestoreDev, local, Outside, Inside, WithBoth
  <2>2. devFile' \in DeviceFile /\ grpFile' \in GroupFile /\ journal' \in Inventories \cup {NoJournal}
    BY <1>1, <1>a, BeforeImage DEF RestoreDev, TypeOK, files, SelfOK, FilesOK, WithBoth
  <2>3. TypeOK'
    BY <1>1, <1>a, <2>1, <2>2 DEF RestoreDev, TypeOK, local, counts
  <2>4. SelfOK(p)'
    BY <1>1, <1>a, <2>1, BeforeImage DEF RestoreDev, SelfOK, OpOK, LocksOK, FilesOK, Holds, OnDisk, local, files, Outside, Inside, WithBoth, Lock
  <2>5. files' = files \/ Holds(p, "dev")
    BY <1>1, <1>a DEF RestoreDev, files, SelfOK, LocksOK, Inside, WithBoth
  <2>. QED  BY <2>1, <2>3, <2>4, <2>5, FromParts
<1>2. CASE RestoreGrp(p)
  <2>1. OthersSame(p) /\ pc' \in [Proc -> Outside \cup Inside] /\ pc'[p] = "dropJournal"
    BY <1>2, <1>a, Moves DEF RestoreGrp, local, Outside, Inside, WithBoth
  <2>2. devFile' \in DeviceFile /\ grpFile' \in GroupFile /\ journal' \in Inventories \cup {NoJournal}
    BY <1>2, <1>a, BeforeImage DEF RestoreGrp, TypeOK, files, SelfOK, FilesOK, WithBoth
  <2>3. TypeOK'
    BY <1>2, <1>a, <2>1, <2>2 DEF RestoreGrp, TypeOK, local, counts
  <2>4. SelfOK(p)'
    BY <1>2, <1>a, <2>1, BeforeImage DEF RestoreGrp, SelfOK, OpOK, LocksOK, FilesOK, Holds, OnDisk, local, files, Outside, Inside, WithBoth, Lock
  <2>5. files' = files \/ Holds(p, "dev")
    BY <1>2, <1>a DEF RestoreGrp, files, SelfOK, LocksOK, Inside, WithBoth
  <2>. QED  BY <2>1, <2>3, <2>4, <2>5, FromParts
<1>3. CASE DropJournal(p)
  <2>1. OthersSame(p) /\ pc' \in [Proc -> Outside \cup Inside] /\ pc'[p] = "open"
    BY <1>3, <1>a, Moves DEF DropJournal, local, Outside, Inside, WithBoth
  <2>2. devFile' \in DeviceFile /\ grpFile' \in GroupFile /\ journal' \in Inventories \cup {NoJournal}
    BY <1>3, <1>a DEF DropJournal, TypeOK, files, SelfOK, FilesOK
  <2>3. TypeOK'
    BY <1>3, <1>a, <2>1, <2>2 DEF DropJournal, TypeOK, local, counts
  <2>4. SelfOK(p)'
    BY <1>3, <1>a, <2>1 DEF DropJournal, SelfOK, OpOK, LocksOK, FilesOK, Holds, OnDisk, local, files, Outside, Inside, WithBoth, Lock
  <2>5. files' = files \/ Holds(p, "dev")
    BY <1>3, <1>a DEF DropJournal, files, SelfOK, LocksOK, Inside, WithBoth
  <2>. QED  BY <2>1, <2>3, <2>4, <2>5, FromParts
<1>. QED  BY <1>1, <1>2, <1>3 DEF Recovery

LEMMA UndoKeeps ==
    ASSUME StoreInv, NEW p \in Proc, Undo(p)
    PROVE  StoreInv'
<1>a. TypeOK /\ SelfOK(p)
  BY DEF StoreInv, SelfOK
<1>1. CASE UndoDev(p)
  <2>1. OthersSame(p) /\ pc' \in [Proc -> Outside \cup Inside] /\ pc'[p] = "undoGrp"
    BY <1>1, <1>a, Moves DEF UndoDev, local, Outside, Inside, WithBoth
  <2>2. devFile' \in DeviceFile /\ grpFile' \in GroupFile /\ journal' \in Inventories \cup {NoJournal}
    BY <1>1, <1>a, BeforeImage DEF UndoDev, TypeOK, files, SelfOK, FilesOK, WithBoth
  <2>3. TypeOK'
    BY <1>1, <1>a, <2>1, <2>2 DEF UndoDev, TypeOK, local, counts
  <2>4. SelfOK(p)'
    BY <1>1, <1>a, <2>1, BeforeImage DEF UndoDev, SelfOK, OpOK, LocksOK, FilesOK, Holds, OnDisk, local, files, Outside, Inside, WithBoth, Lock
  <2>5. files' = files \/ Holds(p, "dev")
    BY <1>1, <1>a DEF UndoDev, files, SelfOK, LocksOK, Inside, WithBoth
  <2>. QED  BY <2>1, <2>3, <2>4, <2>5, FromParts
<1>2. CASE UndoGrp(p)
  <2>1. OthersSame(p) /\ pc' \in [Proc -> Outside \cup Inside] /\ pc'[p] = "undoDrop"
    BY <1>2, <1>a, Moves DEF UndoGrp, local, Outside, Inside, WithBoth
  <2>2. devFile' \in DeviceFile /\ grpFile' \in GroupFile /\ journal' \in Inventories \cup {NoJournal}
    BY <1>2, <1>a, BeforeImage DEF UndoGrp, TypeOK, files, SelfOK, FilesOK, WithBoth
  <2>3. TypeOK'
    BY <1>2, <1>a, <2>1, <2>2 DEF UndoGrp, TypeOK, local, counts
  <2>4. SelfOK(p)'
    BY <1>2, <1>a, <2>1, BeforeImage DEF UndoGrp, SelfOK, OpOK, LocksOK, FilesOK, Holds, OnDisk, local, files, Outside, Inside, WithBoth, Lock
  <2>5. files' = files \/ Holds(p, "dev")
    BY <1>2, <1>a DEF UndoGrp, files, SelfOK, LocksOK, Inside, WithBoth
  <2>. QED  BY <2>1, <2>3, <2>4, <2>5, FromParts
<1>3. CASE UndoDrop(p)
  <2>1. Finish(p, "failed") /\ "failed" \in Outcomes
    BY <1>3 DEF UndoDrop, Outcomes
  <2>2. devFile' \in DeviceFile /\ grpFile' \in GroupFile /\ journal' \in Inventories \cup {NoJournal}
    BY <1>3, <1>a DEF UndoDrop, TypeOK, files, SelfOK, FilesOK
  <2>3. TypeOK'
    BY <1>3, <1>a, <2>1, <2>2, Ends DEF UndoDrop, TypeOK, counts
  <2>4. files' = files \/ Holds(p, "dev")
    BY <1>3, <1>a DEF UndoDrop, files, SelfOK, LocksOK, Inside, WithBoth
  <2>. QED  BY <2>1, <2>3, <2>4, Ends, FromParts
<1>. QED  BY <1>1, <1>2, <1>3 DEF Undo

LEMMA WorkKeeps ==
    ASSUME StoreInv, NEW p \in Proc, Work(p)
    PROVE  StoreInv'
<1>a. TypeOK /\ SelfOK(p)
  BY DEF StoreInv, SelfOK
<1>1. CASE Plan(p)
  <2> DEFINE label == IF op[p] = "pair" THEN "journal" ELSE "replace"
  <2>1. PICK result \in PlanResults(p) : plan' = [plan EXCEPT ![p] = result]
    BY <1>1 DEF Plan
  <2>2. plan'[p] = result /\ \A q \in Proc \ {p} : plan'[q] = plan[q]
    BY <1>a, <2>1 DEF TypeOK
  <2>3. OthersSame(p) /\ pc' \in [Proc -> Outside \cup Inside] /\ pc'[p] = label
    BY <1>1, <1>a, <2>2, Moves DEF Plan, Outside, Inside, WithBoth
  <2>4. result \in Inventories
    <3>1. CASE op[p] = "pair"
      BY <3>1, <1>a, <2>1, OnDiskTyped, PairTyped DEF PlanResults
    <3>2. CASE op[p] = "group"
      BY <3>2, <1>a, <2>1, OnDiskTyped, GroupTyped DEF PlanResults
    <3>3. CASE op[p] \notin {"pair", "group"}
      <4>1. PICK dev \in DeviceResults(devFile) : result = [plan[p] EXCEPT !.dev = dev]
        BY <3>3, <2>1 DEF PlanResults
      <4>2. dev \in DeviceFile
        BY <1>a, DeviceTyped DEF TypeOK
      <4>. QED  BY <1>a, <4>1, <4>2, Planned DEF Inventories
    <3>. QED  BY <3>1, <3>2, <3>3
  <2>5. TypeOK'
    BY <1>1, <1>a, <2>1, <2>3, <2>4 DEF Plan, TypeOK, files, counts
  <2>6. op[p] \in {"pair", "group", "device"} /\ journal = NoJournal
    BY <1>1, <1>a DEF Plan, TypeOK, SelfOK, OpOK, FilesOK, Kinds, OneFileKinds
  <2>7. /\ op[p] = "pair" => result \in PairResults(OnDisk)
        /\ op[p] = "group" => result \in GroupResults(OnDisk)
        /\ op[p] = "device" => result.dev \in DeviceResults(devFile)
    BY <1>a, <2>1, <2>6, Planned DEF PlanResults, Inventories
  <2>8. SelfOK(p)'
    BY <1>1, <1>a, <2>2, <2>3, <2>6, <2>7 DEF Plan, SelfOK, OpOK, LocksOK, FilesOK, Holds, OnDisk, files, Inside, WithBoth
  <2>. QED  BY <1>1, <2>3, <2>5, <2>8, FromParts DEF Plan
<1>2. CASE Reject(p)
  <2>1. Finish(p, "failed") /\ "failed" \in Outcomes
    BY <1>2 DEF Reject, Outcomes
  <2>2. devFile' \in DeviceFile /\ grpFile' \in GroupFile /\ journal' \in Inventories \cup {NoJournal}
    BY <1>2, <1>a DEF Reject, TypeOK, files, SelfOK, FilesOK
  <2>3. TypeOK'
    BY <1>2, <1>a, <2>1, <2>2, Ends DEF Reject, TypeOK, counts
  <2>4. files' = files \/ Holds(p, "dev")
    BY <1>2, <1>a DEF Reject, files, SelfOK, LocksOK, Inside, WithBoth
  <2>. QED  BY <2>1, <2>3, <2>4, Ends, FromParts
<1>3. CASE WriteJournal(p)
  <2>1. OthersSame(p) /\ pc' \in [Proc -> Outside \cup Inside] /\ pc'[p] = "writeDev"
    BY <1>3, <1>a, Moves DEF WriteJournal, local, Outside, Inside, WithBoth
  <2>2. devFile' \in DeviceFile /\ grpFile' \in GroupFile /\ journal' \in Inventories \cup {NoJournal}
    BY <1>3, <1>a, OnDiskTyped DEF WriteJournal, TypeOK, files, SelfOK, FilesOK
  <2>3. TypeOK'
    BY <1>3, <1>a, <2>1, <2>2 DEF WriteJournal, TypeOK, local, counts
  <2>4. SelfOK(p)'
    BY <1>3, <1>a, <2>1, OnDiskTyped DEF WriteJournal, SelfOK, OpOK, LocksOK, FilesOK, Holds, OnDisk, local, files, Outside, Inside, WithBoth, Lock
  <2>5. files' = files \/ Holds(p, "dev")
    BY <1>3, <1>a DEF WriteJournal, files, SelfOK, LocksOK, Inside, WithBoth
  <2>. QED  BY <2>1, <2>3, <2>4, <2>5, FromParts
<1>4. CASE WriteDev(p)
  <2>1. OthersSame(p) /\ pc' \in [Proc -> Outside \cup Inside] /\ pc'[p] = "writeGrp"
    BY <1>4, <1>a, Moves DEF WriteDev, local, Outside, Inside, WithBoth
  <2>2. devFile' \in DeviceFile /\ grpFile' \in GroupFile /\ journal' \in Inventories \cup {NoJournal}
    BY <1>4, <1>a, Planned DEF WriteDev, TypeOK, files, SelfOK, FilesOK
  <2>3. TypeOK'
    BY <1>4, <1>a, <2>1, <2>2 DEF WriteDev, TypeOK, local, counts
  <2>4. SelfOK(p)'
    BY <1>4, <1>a, <2>1, Planned DEF WriteDev, SelfOK, OpOK, LocksOK, FilesOK, Holds, OnDisk, local, files, Outside, Inside, WithBoth, Lock
  <2>5. files' = files \/ Holds(p, "dev")
    BY <1>4, <1>a DEF WriteDev, files, SelfOK, LocksOK, Inside, WithBoth
  <2>. QED  BY <2>1, <2>3, <2>4, <2>5, FromParts
<1>5. CASE WriteGrp(p)
  <2>1. OthersSame(p) /\ pc' \in [Proc -> Outside \cup Inside] /\ pc'[p] = "commit"
    BY <1>5, <1>a, Moves DEF WriteGrp, local, Outside, Inside, WithBoth
  <2>2. devFile' \in DeviceFile /\ grpFile' \in GroupFile /\ journal' \in Inventories \cup {NoJournal}
    BY <1>5, <1>a, Planned DEF WriteGrp, TypeOK, files, SelfOK, FilesOK
  <2>3. TypeOK'
    BY <1>5, <1>a, <2>1, <2>2 DEF WriteGrp, TypeOK, local, counts
  <2>4. SelfOK(p)'
    BY <1>5, <1>a, <2>1, Planned, BeforeImage DEF WriteGrp, SelfOK, OpOK, LocksOK, FilesOK, Holds, OnDisk, local, files, Outside, Inside, WithBoth, Lock
  <2>5. files' = files \/ Holds(p, "dev")
    BY <1>5, <1>a DEF WriteGrp, files, SelfOK, LocksOK, Inside, WithBoth
  <2>. QED  BY <2>1, <2>3, <2>4, <2>5, FromParts
<1>6. CASE Commit(p)
  <2>1. OthersSame(p) /\ pc' \in [Proc -> Outside \cup Inside] /\ pc'[p] = "audit"
    BY <1>6, <1>a, Moves DEF Commit, local, Outside, Inside, WithBoth
  <2>2. devFile' \in DeviceFile /\ grpFile' \in GroupFile /\ journal' \in Inventories \cup {NoJournal}
    BY <1>6, <1>a DEF Commit, DropsJournal, TypeOK, files, SelfOK, FilesOK
  <2>3. TypeOK'
    BY <1>6, <1>a, <2>1, <2>2, AdriftTyped DEF Commit, DropsJournal, TypeOK, local, counts
  <2>4. SelfOK(p)'
    BY <1>6, <1>a, <2>1, Planned DEF Commit, DropsJournal, SelfOK, OpOK, LocksOK, FilesOK, Holds, OnDisk, local, files, Outside, Inside, WithBoth, Lock
  <2>5. files' = files \/ Holds(p, "dev")
    BY <1>6, <1>a DEF Commit, files, SelfOK, LocksOK, Inside, WithBoth
  <2>. QED  BY <2>1, <2>3, <2>4, <2>5, FromParts
<1>7. CASE ReplaceGrp(p)
  <2>1. Finish(p, "ok") /\ "ok" \in Outcomes
    BY <1>7 DEF ReplaceGrp, Outcomes
  <2>2. devFile' \in DeviceFile /\ grpFile' \in GroupFile /\ journal' \in Inventories \cup {NoJournal}
    BY <1>7, <1>a, Planned DEF ReplaceGrp, TypeOK, files, SelfOK, FilesOK
  <2>3. TypeOK'
    BY <1>7, <1>a, <2>1, <2>2, Ends DEF ReplaceGrp, TypeOK, counts
  <2>4. files' = files \/ Holds(p, "dev")
    BY <1>7, <1>a DEF ReplaceGrp, files, SelfOK, LocksOK, Inside, WithBoth
  <2>. QED  BY <2>1, <2>3, <2>4, Ends, FromParts
<1>8. CASE ReplaceDev(p)
  <2>1. OthersSame(p) /\ pc' \in [Proc -> Outside \cup Inside] /\ pc'[p] = "audit"
    BY <1>8, <1>a, Moves DEF ReplaceDev, local, Outside, Inside, WithBoth
  <2>2. devFile' \in DeviceFile /\ grpFile' \in GroupFile /\ journal' \in Inventories \cup {NoJournal}
    BY <1>8, <1>a, Planned DEF ReplaceDev, ReplacedAlone, TypeOK, files, SelfOK, FilesOK
  <2>3. TypeOK'
    BY <1>8, <1>a, <2>1, <2>2, Planned, AdriftTyped DEF ReplaceDev, ReplacedAlone, TypeOK, local, counts
  <2>4. SelfOK(p)'
    BY <1>8, <1>a, <2>1, Planned DEF ReplaceDev, ReplacedAlone, SelfOK, OpOK, LocksOK, FilesOK, Holds, OnDisk, local, files, Outside, Inside, WithBoth, Lock
  <2>5. files' = files \/ Holds(p, "dev")
    BY <1>8, <1>a DEF ReplaceDev, files, SelfOK, LocksOK, Inside, WithBoth
  <2>. QED  BY <2>1, <2>3, <2>4, <2>5, FromParts
<1>9. CASE Audit(p)
  <2>1. Finish(p, "ok") /\ "ok" \in Outcomes
    BY <1>9 DEF Audit, Outcomes
  <2>2. devFile' \in DeviceFile /\ grpFile' \in GroupFile /\ journal' \in Inventories \cup {NoJournal}
    BY <1>9, <1>a DEF Audit, TypeOK, files, SelfOK, FilesOK
  <2>3. TypeOK'
    BY <1>9, <1>a, <2>1, <2>2, Ends DEF Audit, TypeOK, counts
  <2>4. files' = files \/ Holds(p, "dev")
    BY <1>9, <1>a DEF Audit, files, SelfOK, LocksOK, Inside, WithBoth
  <2>. QED  BY <2>1, <2>3, <2>4, Ends, FromParts
<1>. QED  BY <1>1, <1>2, <1>3, <1>4, <1>5, <1>6, <1>7, <1>8, <1>9 DEF Work

\* The bound on faults is kept.
LEMMA FaultCounted ==
    ASSUME TypeOK, Fault
    PROVE  faults' \in 0..MaxFaults /\ ops' \in 0..MaxOps
BY StoreAssumption DEF TypeOK, Fault

LEMMA FaultsKeep ==
    ASSUME StoreInv, NEW p \in Proc, Faults(p)
    PROVE  StoreInv'
<1>a. TypeOK /\ SelfOK(p)
  BY DEF StoreInv, SelfOK
<1>1. CASE JournalFails(p)
  <2>1. Finish(p, "failed") /\ "failed" \in Outcomes
    BY <1>1 DEF JournalFails, Outcomes
  <2>2. devFile' \in DeviceFile /\ grpFile' \in GroupFile /\ journal' \in Inventories \cup {NoJournal}
    BY <1>1, <1>a, OnDiskTyped DEF JournalFails, TypeOK, files, SelfOK, FilesOK
  <2>3. TypeOK'
    BY <1>1, <1>a, <2>1, <2>2, Ends, FaultCounted DEF JournalFails, TypeOK, counts
  <2>4. files' = files \/ Holds(p, "dev")
    BY <1>1, <1>a DEF JournalFails, files, SelfOK, LocksOK, Inside, WithBoth
  <2>. QED  BY <2>1, <2>3, <2>4, Ends, FromParts
<1>2. CASE WriteDevFails(p)
  <2>1. OthersSame(p) /\ pc' \in [Proc -> Outside \cup Inside] /\ pc'[p] = "undoDev"
    BY <1>2, <1>a, Moves DEF WriteDevFails, local, Outside, Inside, WithBoth
  <2>2. devFile' \in DeviceFile /\ grpFile' \in GroupFile /\ journal' \in Inventories \cup {NoJournal}
    BY <1>2, <1>a, Planned DEF WriteDevFails, TypeOK, files, SelfOK, FilesOK
  <2>3. TypeOK'
    BY <1>2, <1>a, <2>1, <2>2, FaultCounted DEF WriteDevFails, TypeOK, local, counts
  <2>4. SelfOK(p)'
    BY <1>2, <1>a, <2>1 DEF WriteDevFails, SelfOK, OpOK, LocksOK, FilesOK, Holds, OnDisk, local, files, Outside, Inside, WithBoth, Lock
  <2>5. files' = files \/ Holds(p, "dev")
    BY <1>2, <1>a DEF WriteDevFails, files, SelfOK, LocksOK, Inside, WithBoth
  <2>. QED  BY <2>1, <2>3, <2>4, <2>5, FromParts
<1>3. CASE WriteGrpFails(p)
  <2>1. OthersSame(p) /\ pc' \in [Proc -> Outside \cup Inside] /\ pc'[p] = "undoDev"
    BY <1>3, <1>a, Moves DEF WriteGrpFails, local, Outside, Inside, WithBoth
  <2>2. devFile' \in DeviceFile /\ grpFile' \in GroupFile /\ journal' \in Inventories \cup {NoJournal}
    BY <1>3, <1>a, Planned DEF WriteGrpFails, TypeOK, files, SelfOK, FilesOK
  <2>3. TypeOK'
    BY <1>3, <1>a, <2>1, <2>2, FaultCounted DEF WriteGrpFails, TypeOK, local, counts
  <2>4. SelfOK(p)'
    BY <1>3, <1>a, <2>1 DEF WriteGrpFails, SelfOK, OpOK, LocksOK, FilesOK, Holds, OnDisk, local, files, Outside, Inside, WithBoth, Lock
  <2>5. files' = files \/ Holds(p, "dev")
    BY <1>3, <1>a DEF WriteGrpFails, files, SelfOK, LocksOK, Inside, WithBoth
  <2>. QED  BY <2>1, <2>3, <2>4, <2>5, FromParts
<1>4. CASE RestoreDevFails(p)
  <2>1. Finish(p, "failed") /\ "failed" \in Outcomes
    BY <1>4 DEF RestoreDevFails, Outcomes
  <2>2. devFile' \in DeviceFile /\ grpFile' \in GroupFile /\ journal' \in Inventories \cup {NoJournal}
    BY <1>4, <1>a, BeforeImage DEF RestoreDevFails, TypeOK, files, SelfOK, FilesOK, WithBoth
  <2>3. TypeOK'
    BY <1>4, <1>a, <2>1, <2>2, Ends, FaultCounted DEF RestoreDevFails, TypeOK, counts
  <2>4. files' = files \/ Holds(p, "dev")
    BY <1>4, <1>a DEF RestoreDevFails, files, SelfOK, LocksOK, Inside, WithBoth
  <2>. QED  BY <2>1, <2>3, <2>4, Ends, FromParts
<1>5. CASE RestoreGrpFails(p)
  <2>1. Finish(p, "failed") /\ "failed" \in Outcomes
    BY <1>5 DEF RestoreGrpFails, Outcomes
  <2>2. devFile' \in DeviceFile /\ grpFile' \in GroupFile /\ journal' \in Inventories \cup {NoJournal}
    BY <1>5, <1>a, BeforeImage DEF RestoreGrpFails, TypeOK, files, SelfOK, FilesOK, WithBoth
  <2>3. TypeOK'
    BY <1>5, <1>a, <2>1, <2>2, Ends, FaultCounted DEF RestoreGrpFails, TypeOK, counts
  <2>4. files' = files \/ Holds(p, "dev")
    BY <1>5, <1>a DEF RestoreGrpFails, files, SelfOK, LocksOK, Inside, WithBoth
  <2>. QED  BY <2>1, <2>3, <2>4, Ends, FromParts
<1>6. CASE DropFails(p)
  <2>1. Finish(p, "failed") /\ "failed" \in Outcomes
    BY <1>6 DEF DropFails, Outcomes
  <2>2. devFile' \in DeviceFile /\ grpFile' \in GroupFile /\ journal' \in Inventories \cup {NoJournal}
    BY <1>6, <1>a DEF DropFails, DropsJournal, TypeOK, files, SelfOK, FilesOK
  <2>3. TypeOK'
    BY <1>6, <1>a, <2>1, <2>2, Ends, FaultCounted, AdriftTyped DEF DropFails, DropsJournal, TypeOK, counts
  <2>4. files' = files \/ Holds(p, "dev")
    BY <1>6, <1>a DEF DropFails, files, SelfOK, LocksOK, Inside, WithBoth
  <2>. QED  BY <2>1, <2>3, <2>4, Ends, FromParts
<1>7. CASE ReplaceGrpFails(p)
  <2>1. Finish(p, "failed") /\ "failed" \in Outcomes
    BY <1>7 DEF ReplaceGrpFails, Outcomes
  <2>2. devFile' \in DeviceFile /\ grpFile' \in GroupFile /\ journal' \in Inventories \cup {NoJournal}
    BY <1>7, <1>a, Planned DEF ReplaceGrpFails, TypeOK, files, SelfOK, FilesOK
  <2>3. TypeOK'
    BY <1>7, <1>a, <2>1, <2>2, Ends, FaultCounted DEF ReplaceGrpFails, TypeOK, counts
  <2>4. files' = files \/ Holds(p, "dev")
    BY <1>7, <1>a DEF ReplaceGrpFails, files, SelfOK, LocksOK, Inside, WithBoth
  <2>. QED  BY <2>1, <2>3, <2>4, Ends, FromParts
<1>8. CASE ReplaceDevFails(p)
  <2>1. Finish(p, "failed") /\ "failed" \in Outcomes
    BY <1>8 DEF ReplaceDevFails, Outcomes
  <2>2. devFile' \in DeviceFile /\ grpFile' \in GroupFile /\ journal' \in Inventories \cup {NoJournal}
    BY <1>8, <1>a, Planned DEF ReplaceDevFails, ReplacedAlone, TypeOK, files, SelfOK, FilesOK
  <2>3. TypeOK'
    BY <1>8, <1>a, <2>1, <2>2, Ends, FaultCounted, Planned, AdriftTyped
    DEF ReplaceDevFails, ReplacedAlone, TypeOK, counts
  <2>4. files' = files \/ Holds(p, "dev")
    BY <1>8, <1>a DEF ReplaceDevFails, files, SelfOK, LocksOK, Inside, WithBoth
  <2>. QED  BY <2>1, <2>3, <2>4, Ends, FromParts
<1>9. CASE AuditFails(p)
  <2>1. Finish(p, "failed") /\ "failed" \in Outcomes
    BY <1>9 DEF AuditFails, Outcomes
  <2>2. devFile' \in DeviceFile /\ grpFile' \in GroupFile /\ journal' \in Inventories \cup {NoJournal}
    BY <1>9, <1>a DEF AuditFails, TypeOK, files, SelfOK, FilesOK
  <2>3. TypeOK'
    BY <1>9, <1>a, <2>1, <2>2, Ends, FaultCounted DEF AuditFails, TypeOK, counts
  <2>4. files' = files \/ Holds(p, "dev")
    BY <1>9, <1>a DEF AuditFails, files, SelfOK, LocksOK, Inside, WithBoth
  <2>. QED  BY <2>1, <2>3, <2>4, Ends, FromParts
<1>10. CASE Crash(p)
  <2>1. Finish(p, "crashed") /\ "crashed" \in Outcomes
    BY <1>10 DEF Crash, Outcomes
  <2>2. devFile' \in DeviceFile /\ grpFile' \in GroupFile /\ journal' \in Inventories \cup {NoJournal}
    BY <1>10, <1>a DEF Crash, TypeOK, files, SelfOK, FilesOK
  <2>3. TypeOK'
    BY <1>10, <1>a, <2>1, <2>2, Ends, FaultCounted, BlankTyped DEF Crash, TypeOK, counts
  <2>4. files' = files \/ Holds(p, "dev")
    BY <1>10, <1>a DEF Crash, files, SelfOK, LocksOK, Inside, WithBoth
  <2>. QED  BY <2>1, <2>3, <2>4, Ends, FromParts
<1>. QED  BY <1>1, <1>2, <1>3, <1>4, <1>5, <1>6, <1>7, <1>8, <1>9, <1>10 DEF Faults

\* An operation begins: Start and StartLoad.
LEMMA Begins ==
    ASSUME StoreInv, NEW p \in Proc, NEW kind \in Kinds, NEW label \in {"lock", "read", "peek"},
           Begin(p, kind), Goto(p, label),
           kind \in (IF label = "lock" THEN {"pair", "group", "device"} ELSE {"load"})
    PROVE  StoreInv'
<1>1. TypeOK /\ SelfOK(p)
  BY DEF StoreInv, SelfOK
<1>2. op' = [op EXCEPT ![p] = kind] /\ out' = [out EXCEPT ![p] = "none"]
  BY DEF Begin
<1>3. OthersSame(p) /\ pc' \in [Proc -> Outside \cup Inside] /\ pc'[p] = label
  BY <1>1, <1>2, Moves DEF Begin, TypeOK, Outside
<1>4. ops' \in 0..MaxOps
  BY <1>1, StoreAssumption DEF Begin, TypeOK
<1>5. TypeOK'
  BY <1>1, <1>2, <1>3, <1>4 DEF Begin, TypeOK, files, Outcomes
<1>6. SelfOK(p)'
  BY <1>1, <1>2, <1>3 DEF SelfOK, OpOK, LocksOK, FilesOK, Inside, WithBoth, TypeOK
<1>. QED  BY <1>3, <1>5, <1>6, FromParts DEF Begin

LEMMA StartKeeps ==
    ASSUME StoreInv, NEW p \in Proc, Start(p)
    PROVE  StoreInv'
BY Begins DEF Start, Kinds, OneFileKinds

LEMMA SessionTyped ==
    ASSUME NEW dev \in DeviceFile, NEW aside \in DeviceFile
    PROVE  WithSession(dev, aside) \in DeviceFile
<1> DEFINE missing == aside.present \ dev.present
           R == dev.reserved \cup (aside.reserved \cap missing)
           M == [d \in Device |-> IF d \in missing THEN aside.mac[d] ELSE dev.mac[d]]
           N == dev.in \cup {e \in aside.in : e[1] \in missing}
<1>1. dev.present \cup missing \in SUBSET Device /\ R \in SUBSET (dev.present \cup missing)
  BY DeviceFields
<1>2. M \in [Device -> Mac \cup {NoMac}]
  BY DeviceFields
<1>3. \A d \in Device \ (dev.present \cup missing) : M[d] = NoMac
  BY DeviceFields
<1>4. N \in SUBSET (Device \X Group) /\ \A e \in N : e[1] \in dev.present \cup missing
  BY DeviceFields
<1>5. \A d \in R : <<d, Basic>> \in N
  BY DeviceFields
<1>6. WithSession(dev, aside) =
          [present |-> dev.present \cup missing, reserved |-> R, mac |-> M, in |-> N]
  BY DEF WithSession
<1> HIDE DEF R, M, N
<1>. QED  BY <1>1, <1>2, <1>3, <1>4, <1>5, <1>6, DeviceMade

LEMMA LoadsKeep ==
    ASSUME StoreInv, NEW p \in Proc, Loads(p)
    PROVE  StoreInv'
<1>a. TypeOK /\ SelfOK(p)
  BY DEF StoreInv, SelfOK
<1>1. CASE StartLoad(p)
  BY <1>1, Begins DEF StartLoad, Kinds
<1>2. CASE Peek(p)
  <2>1. CASE Finish(p, "damaged") /\ UNCHANGED <<files, cache, counts, adrift>>
    <3>1. TypeOK'
      BY <1>a, <2>1, Ends DEF TypeOK, Outcomes, files, counts
    <3>. QED  BY <2>1, <3>1, Ends, FromParts DEF Outcomes
  <2>2. CASE Goto(p, "lockAll") /\ UNCHANGED <<files, owner, out, local, counts, adrift>>
    <3>1. OthersSame(p) /\ pc' \in [Proc -> Outside \cup Inside] /\ pc'[p] = "lockAll"
      BY <1>a, <2>2, Moves DEF local, Outside
    <3>2. TypeOK'
      BY <1>a, <2>2, <3>1 DEF TypeOK, files, local, counts
    <3>3. SelfOK(p)'
      BY <1>2, <1>a, <2>2, <3>1 DEF Peek, SelfOK, OpOK, LocksOK, FilesOK, Inside, WithBoth, local
    <3>. QED  BY <2>2, <3>1, <3>2, <3>3, FromParts
  <2>. QED  BY <1>2, <2>1, <2>2 DEF Peek
<1>3. CASE ReadDevices(p)
  <2>1. OthersSame(p) /\ pc' \in [Proc -> Outside \cup Inside] /\ pc'[p] = "scan"
    BY <1>3, <1>a, Moves DEF ReadDevices, TypeOK, Outside
  <2>2. WithSession(devFile, cache[p]) \in DeviceFile
    BY <1>a, SessionTyped DEF TypeOK
  <2>3. TypeOK'
    BY <1>3, <1>a, <2>1, <2>2 DEF ReadDevices, TypeOK, files, counts
  <2>4. SelfOK(p)'
    BY <1>3, <1>a, <2>1 DEF ReadDevices, SelfOK, OpOK, LocksOK, FilesOK, Inside, WithBoth
  <2>. QED  BY <1>3, <2>1, <2>3, <2>4, FromParts DEF ReadDevices
<1>4. CASE DropSnapshot(p)
  <2>1. Finish(p, "ok") /\ "ok" \in Outcomes
    BY <1>4 DEF DropSnapshot, Outcomes
  <2>2. devFile' \in DeviceFile /\ grpFile' \in GroupFile /\ journal' \in Inventories \cup {NoJournal}
    BY <1>4, <1>a DEF DropSnapshot, TypeOK, files, SelfOK, FilesOK
  <2>3. TypeOK'
    BY <1>4, <1>a, <2>1, <2>2, Ends DEF DropSnapshot, TypeOK, counts
  <2>4. files' = files \/ Holds(p, "dev")
    BY <1>4, <1>a DEF DropSnapshot, files, SelfOK, LocksOK, Inside, WithBoth
  <2>. QED  BY <2>1, <2>3, <2>4, Ends, FromParts
<1>5. CASE Preview(p)
  <2>1. PICK seen, gone, session :
          /\ seen \in PreviewResults(snap[p].base)
          /\ gone \in SUBSET (seen.present \ seen.reserved)
          /\ session \in {FALSE, SessionRetention}
          /\ plan' = [plan EXCEPT ![p].dev = Without(seen, gone)]
          /\ cache' = [cache EXCEPT ![p] = IF session THEN Only(seen, gone)
                                                      ELSE EmptyDevices]
    BY <1>5 DEF Preview
  <2>2. snap[p].base \in DeviceFile
    BY <1>a DEF TypeOK
  <2>3. seen \in DeviceFile
    BY <2>1 DEF PreviewResults
  <2>4. Without(seen, gone) \in DeviceFile /\ Only(seen, gone) \in DeviceFile
    BY <2>3, WithoutTyped DEF Only
  <2>5. Without(seen, gone) \in ScanResults(snap[p].base)
    BY <2>1 DEF ScanResults
  <2>6. /\ plan' \in [Proc -> Inventories]
        /\ plan'[p].dev = Without(seen, gone)
        /\ \A q \in Proc \ {p} : plan'[q] = plan[q]
    BY <1>a, <2>1, <2>4, Planned DEF TypeOK, Inventories
  <2>7. cache' \in [Proc -> DeviceFile]
    BY <1>a, <2>1, <2>4, BlankTyped DEF TypeOK
  <2>8. OthersSame(p) /\ pc' \in [Proc -> Outside \cup Inside] /\ pc'[p] = "lock"
    BY <1>5, <1>a, <2>6, Moves DEF Preview, TypeOK, Outside
  <2>9. op' \in [Proc -> Kinds] /\ op'[p] = "save"
    BY <1>5, <1>a DEF Preview, TypeOK, Kinds, OneFileKinds
  <2>10. TypeOK'
    BY <1>5, <1>a, <2>6, <2>7, <2>8, <2>9 DEF Preview, TypeOK, files, counts
  <2>11. SelfOK(p)'
    BY <1>5, <2>5, <2>6, <2>8, <2>9 DEF Preview, SelfOK, OpOK, LocksOK, FilesOK, Inside, WithBoth
  <2>. QED  BY <1>5, <2>8, <2>10, <2>11, FromParts DEF Preview
<1>. QED  BY <1>1, <1>2, <1>3, <1>4, <1>5 DEF Loads

LEMMA LocksKeep ==
    ASSUME StoreInv, NEW p \in Proc, Locks(p)
    PROVE  StoreInv'
<1>a. TypeOK /\ SelfOK(p)
  BY DEF StoreInv, SelfOK
<1>1. CASE Acquire(p)
  <2>1. owner' = [owner EXCEPT ![NextLock(p)] = p] /\ owner[NextLock(p)] = None
    BY <1>1 DEF Acquire
  <2>2. owner' \in [Lock -> Proc \cup {None}]
    BY <1>a, <2>1 DEF TypeOK
  <2>3. OthersSame(p)
    BY <1>1, <1>a, <2>1, StoreAssumption DEF Acquire, OthersSame, TypeOK, local
  <2>4. TypeOK'
    BY <1>1, <1>a, <2>2 DEF Acquire, TypeOK, files, local, counts
  <2>5. pc'[p] \in {"lock", "lockAll"}
    BY <1>1 DEF Acquire, Waiting
  <2>6. SelfOK(p)'
    BY <1>1, <1>a, <2>5 DEF Acquire, SelfOK, OpOK, LocksOK, FilesOK, Inside, WithBoth, local
  <2>. QED  BY <1>1, <2>3, <2>4, <2>6, FromParts DEF Acquire
<1>2. CASE LockTimeout(p)
  <2>1. Finish(p, "failed") /\ "failed" \in Outcomes
    BY <1>2 DEF LockTimeout, Outcomes
  <2>2. devFile' \in DeviceFile /\ grpFile' \in GroupFile /\ journal' \in Inventories \cup {NoJournal}
    BY <1>2, <1>a DEF LockTimeout, TypeOK, files, SelfOK, FilesOK
  <2>3. TypeOK'
    BY <1>2, <1>a, <2>1, <2>2, Ends DEF LockTimeout, TypeOK, counts
  <2>4. files' = files \/ Holds(p, "dev")
    BY <1>2, <1>a DEF LockTimeout, files, SelfOK, LocksOK, Inside, WithBoth
  <2>. QED  BY <2>1, <2>3, <2>4, Ends, FromParts
<1>3. CASE Locked(p)
  <2> DEFINE label == IF op[p] = "save" /\ ~Recovering(p) THEN "check" ELSE "open"
  <2>1. OthersSame(p) /\ pc' \in [Proc -> Outside \cup Inside] /\ pc'[p] = label
    BY <1>3, <1>a, Moves DEF Locked, local, Outside, Inside
  <2>2. TypeOK'
    BY <1>3, <1>a, <2>1 DEF Locked, TypeOK, files, local, counts
  <2>3. Holds(p, "dev") /\ (op[p] \in {"load", "pair", "group"} => Holds(p, "grp"))
    BY <1>3 DEF Locked, Waiting, Wanted, Lock
  <2>4. op'[p] = op[p] /\ op[p] # "none" /\ Holds(p, "dev")' /\ (Holds(p, "grp") => Holds(p, "grp")')
    BY <1>3, <1>a, <2>3 DEF Locked, SelfOK, OpOK, local, Holds
  <2>5. SelfOK(p)'
    BY <1>3, <1>a, <2>1, <2>3, <2>4 DEF Locked, SelfOK, OpOK, LocksOK, FilesOK, Inside, WithBoth, local
  <2>. QED  BY <1>3, <2>1, <2>2, <2>5, FromParts DEF Locked
<1>4. CASE CheckRevision(p)
  <2>1. CASE Finish(p, "stale") /\ UNCHANGED <<files, cache, counts, adrift>>
    <3>1. TypeOK'
      BY <1>a, <2>1, Ends DEF TypeOK, Outcomes, files, counts
    <3>. QED  BY <2>1, <3>1, Ends, FromParts DEF Outcomes
  <2>2. CASE Goto(p, "open") /\ UNCHANGED <<files, owner, out, local, counts, adrift>> /\ pc[p] = "check"
    <3>1. OthersSame(p) /\ pc' \in [Proc -> Outside \cup Inside] /\ pc'[p] = "open"
      BY <1>a, <2>2, Moves DEF local, Outside, Inside, WithBoth
    <3>2. TypeOK'
      BY <1>a, <2>2, <3>1 DEF TypeOK, files, local, counts
    <3>3. SelfOK(p)'
      BY <1>a, <2>2, <3>1 DEF SelfOK, OpOK, LocksOK, FilesOK, Holds, HoldsBoth, Lock,
                             Inside, WithBoth, local
    <3>. QED  BY <2>2, <3>1, <3>2, <3>3, FromParts
  <2>. QED  BY <1>4, <2>1, <2>2 DEF CheckRevision
<1>5. CASE Open(p)
  <2>1. CASE journal = NoJournal /\ AfterRecovery(p)
    <3> DEFINE label == CASE op[p] = "load" -> "read"
                          [] op[p] = "save" -> "replace"
                          [] OTHER -> "plan"
    <3>1. \A l \in Lock : owner'[l] # owner[l] => owner[l] = p
      BY <2>1 DEF AfterRecovery
    <3>2. OthersSame(p) /\ pc' \in [Proc -> Outside \cup Inside] /\ pc'[p] = label
      BY <1>5, <1>a, <2>1, <3>1, Moves DEF Open, local, Outside, Inside
    <3>3. owner' \in [Lock -> Proc \cup {None}]
      BY <1>a, <2>1 DEF AfterRecovery, TypeOK
    <3>4. TypeOK'
      BY <1>5, <1>a, <3>2, <3>3 DEF Open, TypeOK, files, local, counts
    <3>5. pc[p] = "open" /\ op'[p] = op[p] /\ plan'[p] = plan[p] /\ snap'[p] = snap[p] /\ journal' = journal
      BY <1>5 DEF Open, local, files
    <3>6. OpOK(p)'
      BY <1>a, <3>2, <3>5 DEF SelfOK, OpOK
    <3>7. LocksOK(p)'
      BY <1>a, <2>1, <3>2, <3>5 DEF SelfOK, LocksOK, AfterRecovery, Holds, Lock, Inside, WithBoth
    <3>8. FilesOK(p)'
      BY <1>a, <2>1, <3>2, <3>5 DEF SelfOK, OpOK, FilesOK, WithBoth
    <3>. QED  BY <1>5, <3>2, <3>4, <3>6, <3>7, <3>8, FromParts DEF Open, SelfOK
  <2>2. CASE Goto(p, "restoreDev") /\ UNCHANGED <<files, owner, out, local, counts, adrift>> /\ pc[p] = "open" /\ HoldsBoth(p) /\ journal # NoJournal
    <3>1. OthersSame(p) /\ pc' \in [Proc -> Outside \cup Inside] /\ pc'[p] = "restoreDev"
      BY <1>a, <2>2, Moves DEF local, Outside, Inside, WithBoth
    <3>2. TypeOK'
      BY <1>a, <2>2, <3>1 DEF TypeOK, files, local, counts
    <3>3. journal \in Inventories /\ journal' = journal
      BY <1>a, <2>2 DEF TypeOK, files
    <3>4. OpOK(p)' /\ LocksOK(p)'
      BY <1>a, <2>2, <3>1 DEF SelfOK, OpOK, LocksOK, Holds, HoldsBoth, Lock, local
    <3>5. FilesOK(p)'
      BY <3>1, <3>3 DEF FilesOK, WithBoth
    <3>. QED  BY <2>2, <3>1, <3>2, <3>4, <3>5, FromParts DEF SelfOK
  <2>3. CASE Goto(p, "lockAll") /\ UNCHANGED <<files, owner, out, local, counts, adrift>> /\ pc[p] = "open"
    <3>1. OthersSame(p) /\ pc' \in [Proc -> Outside \cup Inside] /\ pc'[p] = "lockAll"
      BY <1>a, <2>3, Moves DEF local, Outside, Inside, WithBoth
    <3>2. TypeOK'
      BY <1>a, <2>3, <3>1 DEF TypeOK, files, local, counts
    <3>3. SelfOK(p)'
      BY <1>a, <2>3, <3>1 DEF SelfOK, OpOK, LocksOK, FilesOK, Holds, HoldsBoth, Lock,
                             Inside, WithBoth, local
    <3>. QED  BY <2>3, <3>1, <3>2, <3>3, FromParts
  <2>. QED  BY <1>5, <2>1, <2>2, <2>3 DEF Open
<1>. QED  BY <1>1, <1>2, <1>3, <1>4, <1>5 DEF Locks

-----------------------------------------------------------------------------
LEMMA InitInv == Init => StoreInv
<1> SUFFICES ASSUME Init
             PROVE  StoreInv
  OBVIOUS
<1>1. 0 \in 0..MaxOps /\ 0 \in 0..MaxFaults
  BY StoreAssumption
<1>2. BlankSnapshot \in [revision : DeviceFile, base : DeviceFile]
  BY BlankTyped DEF BlankSnapshot
<1>3. TypeOK
  BY <1>1, <1>2, BlankTyped DEF Init, TypeOK, Kinds, Outcomes, Outside
<1>4. ASSUME NEW p \in Proc
      PROVE  OpOK(p) /\ LocksOK(p) /\ FilesOK(p)
  BY DEF Init, OpOK, LocksOK, FilesOK, Inside, WithBoth
<1>. QED  BY <1>3, <1>4 DEF StoreInv

LEMMA StutterInv == StoreInv /\ UNCHANGED vars => StoreInv'
<1> SUFFICES ASSUME StoreInv, UNCHANGED vars
             PROVE  StoreInv'
  OBVIOUS
<1>1. TypeOK'
  BY DEF StoreInv, TypeOK, vars
<1>2. ASSUME NEW p \in Proc
      PROVE  OpOK(p)' /\ LocksOK(p)' /\ FilesOK(p)'
  <2>1. OpOK(p) /\ LocksOK(p) /\ FilesOK(p)
    BY DEF StoreInv
  <2>. QED  BY <2>1 DEF OpOK, LocksOK, FilesOK, Holds, OnDisk, vars
<1>. QED  BY <1>1, <1>2 DEF StoreInv

\* Whoever is at a step holds the locks it needs there, and the files and the
\* journal are what the step takes them to be.
THEOREM StoreInvariant == Spec => []StoreInv
<1>1. StoreInv /\ [Next]_vars => StoreInv'
  BY LoadsKeep, StartKeeps, LocksKeep, RecoveryKeeps, WorkKeeps, UndoKeeps, FaultsKeep,
     StutterInv DEF Next, ProcNext
<1>. QED  BY InitInv, <1>1, PTL DEF Spec

\* Every variable keeps its type.
THEOREM StoreTypes == Spec => []TypeOK
<1>1. StoreInv => TypeOK
  BY DEF StoreInv
<1>. QED  BY StoreInvariant, <1>1, PTL

-----------------------------------------------------------------------------
(* A step of the store is nothing, or one whole operation, to those who      *)
(* recover before they read.                                                *)

Nothing == Committed' = Committed /\ adrift' = adrift
WholePair == /\ Committed' \in PairResults(Committed)
             /\ adrift' = adrift \cup Rekeyed(Committed.dev, Committed'.dev)
WholeGroup == Committed' \in GroupResults(Committed) /\ adrift' = adrift
Relisted(dev) ==
    /\ dev \in DeviceFile
    /\ Committed' = [Committed EXCEPT !.dev = dev]
    /\ adrift' = adrift \cup Rekeyed(Committed.dev, dev) \cup Regrouped(Committed.dev, dev)
WholeDevice == \E dev \in DeviceResults(Committed.dev) : Relisted(dev)
WholeScan == \E dev \in ScanResults(Committed.dev) : Relisted(dev)
StaleScan == \E dev : Relisted(dev)

Whole == Nothing \/ WholePair \/ WholeGroup \/ WholeDevice \/ WholeScan \/ StaleScan

LEMMA SameFiles ==
    ASSUME files' = files, adrift' = adrift
    PROVE  Whole
BY DEF files, Whole, Nothing, Committed, OnDisk

LEMMA SameJournal ==
    ASSUME journal \in Inventories, journal' = journal, adrift' = adrift
    PROVE  Whole
BY StoreAssumption DEF Whole, Nothing, Committed

\* devices.json is replaced while there is no journal.
LEMMA ReplaceWhole ==
    ASSUME StoreInv, NEW p \in Proc, pc[p] = "replace", op[p] # "group",
           ReplacedAlone(p), grpFile' = grpFile, journal' = journal
    PROVE  Whole
<1>1. TypeOK /\ SelfOK(p)
  BY DEF StoreInv, SelfOK
<1>2. journal = NoJournal /\ op[p] \in {"device", "save"}
  BY <1>1 DEF SelfOK, FilesOK, OpOK, TypeOK, Kinds, OneFileKinds
<1>3. Committed = OnDisk /\ Committed' = [dev |-> plan[p].dev, grp |-> grpFile]
  BY <1>2 DEF Committed, OnDisk, ReplacedAlone
<1>4. Committed' = [Committed EXCEPT !.dev = plan[p].dev] /\ Committed.dev = devFile
  BY <1>3 DEF OnDisk
<1>5. Relisted(plan[p].dev)
  BY <1>1, <1>4, Planned DEF Relisted, ReplacedAlone
<1>6. CASE op[p] = "device"
  BY <1>1, <1>4, <1>5, <1>6 DEF SelfOK, FilesOK, Whole, WholeDevice
<1>7. CASE op[p] = "save" /\ snap[p].base = devFile
  BY <1>1, <1>4, <1>5, <1>7 DEF SelfOK, OpOK, Whole, WholeScan
<1>8. CASE op[p] = "save" /\ snap[p].base # devFile
  BY <1>5, <1>8 DEF Whole, StaleScan
<1>. QED  BY <1>2, <1>6, <1>7, <1>8

LEMMA ReplaceGrpWhole ==
    ASSUME StoreInv, NEW p \in Proc, pc[p] = "replace", op[p] = "group",
           grpFile' = plan[p].grp, devFile' = devFile, journal' = journal, adrift' = adrift
    PROVE  Whole
<1>1. TypeOK /\ SelfOK(p)
  BY DEF StoreInv, SelfOK
<1>2. journal = NoJournal /\ plan[p] \in GroupResults(OnDisk)
  BY <1>1 DEF SelfOK, FilesOK
<1>3. plan[p].dev = devFile
  BY <1>1, <1>2, OnDiskTyped, GroupTyped
<1>4. Committed = OnDisk /\ Committed' = plan[p]
  BY <1>1, <1>2, <1>3, Planned DEF Committed, OnDisk
<1>. QED  BY <1>2, <1>4 DEF Whole, WholeGroup

\* The journal is removed: at the end of a commit it makes the plan the
\* inventory, at the end of an undo or of a recovery it changes nothing.
LEMMA RemovalWhole ==
    ASSUME StoreInv, NEW p \in Proc, pc[p] \in {"dropJournal", "undoDrop", "commit"},
           journal' = NoJournal, devFile' = devFile, grpFile' = grpFile,
           \/ adrift' = adrift \cup Rekeyed(journal.dev, devFile)
           \/ adrift' = adrift /\ pc[p] # "commit"
    PROVE  Whole
<1>1. FilesOK(p) /\ journal \in Inventories
  BY DEF StoreInv, FilesOK, WithBoth
<1>2. Committed = journal /\ Committed' = OnDisk
  BY <1>1, StoreAssumption DEF Committed, OnDisk
<1>3. CASE pc[p] = "commit"
  <2>1. Committed' \in PairResults(Committed) /\ Committed'.dev = devFile
    BY <1>1, <1>2, <1>3 DEF FilesOK, OnDisk
  <2>. QED  BY <1>2, <1>3, <2>1 DEF Whole, WholePair
<1>4. CASE pc[p] # "commit"
  <2>1. Committed' = Committed /\ devFile = journal.dev
    BY <1>1, <1>2, <1>4 DEF FilesOK, OnDisk
  <2>2. Rekeyed(devFile, devFile) = {}
    BY DEF Rekeyed
  <2>. QED  BY <2>1, <2>2 DEF Whole, Nothing
<1>. QED  BY <1>3, <1>4

\* The journal is written: the inventory is what it was.
LEMMA JournalWhole ==
    ASSUME StoreInv, NEW p \in Proc, pc[p] = "journal",
           journal' = OnDisk, devFile' = devFile, grpFile' = grpFile, adrift' = adrift
    PROVE  Whole
<1>1. TypeOK /\ journal = NoJournal
  BY DEF StoreInv, FilesOK
<1>2. OnDisk # NoJournal
  BY <1>1, OnDiskTyped, StoreAssumption
<1>. QED  BY <1>1, <1>2 DEF Committed, Whole, Nothing

LEMMA StepWhole ==
    ASSUME StoreInv, NEW p \in Proc, ProcNext(p)
    PROVE  Whole
<1>1. pc[p] \in WithBoth \ {"journal"} => journal \in Inventories
  BY DEF StoreInv, FilesOK
<1>2. CASE Loads(p)
  BY <1>2, SameFiles DEF Loads, StartLoad, Begin, Peek, ReadDevices, DropSnapshot, Preview, files
<1>3. CASE Start(p)
  BY <1>3, SameFiles DEF Start, Begin, files
<1>4. CASE Locks(p)
  BY <1>4, SameFiles DEF Locks, Acquire, LockTimeout, Locked, CheckRevision, Open, files
<1>5. CASE Recovery(p)
  <2>1. CASE DropJournal(p)
    BY <2>1, RemovalWhole DEF DropJournal
  <2>2. CASE RestoreDev(p) \/ RestoreGrp(p)
    BY <1>1, <2>2, SameJournal DEF RestoreDev, RestoreGrp, WithBoth
  <2>. QED  BY <1>5, <2>1, <2>2 DEF Recovery
<1>6. CASE Work(p)
  <2>1. CASE Plan(p) \/ Reject(p) \/ Audit(p)
    BY <2>1, SameFiles DEF Plan, Reject, Audit, files
  <2>2. CASE WriteJournal(p)
    BY <2>2, JournalWhole DEF WriteJournal
  <2>3. CASE WriteDev(p) \/ WriteGrp(p)
    BY <1>1, <2>3, SameJournal DEF WriteDev, WriteGrp, WithBoth
  <2>4. CASE Commit(p)
    BY <2>4, RemovalWhole DEF Commit, DropsJournal
  <2>5. CASE ReplaceGrp(p)
    BY <2>5, ReplaceGrpWhole DEF ReplaceGrp
  <2>6. CASE ReplaceDev(p)
    BY <2>6, ReplaceWhole DEF ReplaceDev
  <2>. QED  BY <1>6, <2>1, <2>2, <2>3, <2>4, <2>5, <2>6 DEF Work
<1>7. CASE Undo(p)
  <2>1. CASE UndoDrop(p)
    BY <2>1, RemovalWhole DEF UndoDrop
  <2>2. CASE UndoDev(p) \/ UndoGrp(p)
    BY <1>1, <2>2, SameJournal DEF UndoDev, UndoGrp, WithBoth
  <2>. QED  BY <1>7, <2>1, <2>2 DEF Undo
<1>8. CASE Faults(p)
  <2>1. CASE AuditFails(p) \/ Crash(p)
    BY <2>1, SameFiles DEF AuditFails, Crash, files
  <2>2. CASE JournalFails(p)
    BY <2>2, JournalWhole, SameFiles DEF JournalFails, files
  <2>3. CASE \/ WriteDevFails(p) \/ WriteGrpFails(p)
             \/ RestoreDevFails(p) \/ RestoreGrpFails(p)
    BY <1>1, <2>3, SameJournal
    DEF WriteDevFails, WriteGrpFails, RestoreDevFails, RestoreGrpFails, WithBoth
  <2>4. CASE DropFails(p)
    BY <2>4, RemovalWhole, SameFiles DEF DropFails, DropsJournal, files
  <2>5. CASE ReplaceGrpFails(p)
    BY <2>5, ReplaceGrpWhole, SameFiles DEF ReplaceGrpFails, files
  <2>6. CASE ReplaceDevFails(p)
    <3>1. CASE ReplacedAlone(p)
      BY <2>6, <3>1, ReplaceWhole DEF ReplaceDevFails
    <3>2. CASE UNCHANGED <<devFile, adrift>>
      BY <2>6, <3>2, SameFiles DEF ReplaceDevFails, files
    <3>. QED  BY <2>6, <3>1, <3>2 DEF ReplaceDevFails
  <2>. QED  BY <1>8, <2>1, <2>2, <2>3, <2>4, <2>5, <2>6 DEF Faults
<1>. QED  BY <1>2, <1>3, <1>4, <1>5, <1>6, <1>7, <1>8 DEF ProcNext

LEMMA NextWhole == StoreInv /\ [Next]_vars => Whole
<1>1. ASSUME UNCHANGED vars
      PROVE  Whole
  BY <1>1, SameFiles DEF vars, files
<1>. QED  BY <1>1, StepWhole DEF Next

-----------------------------------------------------------------------------
(* The store implements InventorySpec.  The operators of the instance are    *)
(* those of this module.                                                     *)

LEMMA SameOperators ==
    /\ \A i : Abs!PairResults(i) = PairResults(i)
    /\ \A i : Abs!GroupResults(i) = GroupResults(i)
    /\ \A dev : Abs!DeviceResults(dev) = DeviceResults(dev)
    /\ \A dev : Abs!ScanResults(dev) = ScanResults(dev)
    /\ \A dev, after : Abs!Rekeyed(dev, after) = Rekeyed(dev, after)
    /\ \A dev, after : Abs!Regrouped(dev, after) = Regrouped(dev, after)
    /\ \A i, ghosts : Abs!Kept(i, ghosts) = Kept(i, ghosts)
    /\ Abs!Inventories = Inventories /\ Abs!DeviceFile = DeviceFile
<1>1. \A dev, gone : Abs!Without(dev, gone) = Without(dev, gone)
  BY DEF Abs!Without, Without
<1>2. \A dev : Abs!Twins(dev) = Twins(dev) /\ Abs!Known(dev) = Known(dev)
  BY DEF Abs!Twins, Twins, Abs!Known, Known
<1>3. \A dev, d : Abs!EditedDevice(dev, d) = EditedDevice(dev, d)
  <2>1. \A dev, d, mac : Abs!Promoted(dev, d, mac) = Promoted(dev, d, mac)
    BY DEF Abs!Promoted, Promoted
  <2>2. \A S : Abs!Cardinality(S) = Cardinality(S)
    BY DEF Abs!Cardinality, Cardinality
  <2>. QED  BY <2>1, <2>2 DEF Abs!EditedDevice, EditedDevice
<1>4. Abs!Inventories = Inventories /\ Abs!DeviceFile = DeviceFile
  BY DEF Abs!Inventories, Inventories, Abs!DeviceFile, DeviceFile, Abs!GroupFile, GroupFile
<1>5. \A dev : Abs!PreviewResults(dev) = PreviewResults(dev)
  <2>1. \A dev, seen, d, mac : Abs!MayTake(dev, seen, d, mac) = MayTake(dev, seen, d, mac)
    BY DEF Abs!MayTake, MayTake
  <2>2. \A dev, seen : Abs!Apart(dev, seen) = Apart(dev, seen)
    BY <1>2 DEF Abs!Apart, Apart
  <2>. QED  BY <1>4, <2>1, <2>2 DEF Abs!PreviewResults, PreviewResults
<1>6. \A dev : Abs!DeviceResults(dev) = DeviceResults(dev)
  BY <1>3, <1>5 DEF Abs!DeviceResults, DeviceResults, Abs!EditedDevices, EditedDevices
<1>7. \A dev : Abs!ScanResults(dev) = ScanResults(dev)
  BY <1>1, <1>5 DEF Abs!ScanResults, ScanResults
<1>8. \A i : Abs!PairResults(i) = PairResults(i)
  <2>0. \A grp : Abs!Editable(grp) = Editable(grp)
    BY DEF Abs!Editable, Editable
  <2>1. \A i, d, gs : Abs!AddMembers(i, d, gs) = AddMembers(i, d, gs)
    BY DEF Abs!AddMembers, AddMembers
  <2>2. \A i : Abs!AddMemberResults(i) = AddMemberResults(i)
    <3>1. \A i, d, g : Abs!AddMember(i, d, g) = AddMember(i, d, g)
      BY <2>1 DEF Abs!AddMember, AddMember
    <3>. QED  BY <1>2, <2>0, <3>1 DEF Abs!AddMemberResults, AddMemberResults
  <2>3. \A i : Abs!RemoveMemberResults(i) = RemoveMemberResults(i)
    BY <1>2, <2>0 DEF Abs!RemoveMemberResults, RemoveMemberResults, Abs!RemoveMember, RemoveMember
  <2>4. \A i : Abs!DeleteGroupResults(i) = DeleteGroupResults(i)
    BY <2>0 DEF Abs!DeleteGroupResults, DeleteGroupResults, Abs!DeleteGroup, DeleteGroup
  <2>5. \A i : Abs!RenameGroupResults(i) = RenameGroupResults(i)
    BY <2>0 DEF Abs!RenameGroupResults, RenameGroupResults, Abs!RenameGroup, RenameGroup,
                Abs!Renamed, Renamed
  <2>6. \A i : Abs!DeleteDeviceResults(i) = DeleteDeviceResults(i)
    BY <1>1 DEF Abs!DeleteDeviceResults, DeleteDeviceResults, Abs!DeleteDevice, DeleteDevice
  <2>7. \A i : Abs!EnsureBasic(i) = EnsureBasic(i)
    BY <1>2 DEF Abs!EnsureBasic, EnsureBasic
  <2>8. \A i : Abs!EditFieldsResults(i) = EditFieldsResults(i)
    <3>1. \A i, d, gs : Abs!EditFields(i, d, gs) = EditFields(i, d, gs)
      BY <1>3, <2>1 DEF Abs!EditFields, EditFields
    <3>. QED  BY <1>2, <2>0, <3>1 DEF Abs!EditFieldsResults, EditFieldsResults
  <2>. QED
    BY <2>2, <2>3, <2>4, <2>5, <2>6, <2>7, <2>8 DEF Abs!PairResults, PairResults
<1>9. \A i : Abs!GroupResults(i) = GroupResults(i)
  BY DEF Abs!GroupResults, GroupResults
<1>10. \A dev, after : /\ Abs!Rekeyed(dev, after) = Rekeyed(dev, after)
                      /\ Abs!Regrouped(dev, after) = Regrouped(dev, after)
  BY <1>2 DEF Abs!Rekeyed, Rekeyed, Abs!Regrouped, Regrouped
<1>11. \A i, ghosts : Abs!Kept(i, ghosts) = Kept(i, ghosts)
  BY <1>2 DEF Abs!Kept, Kept, Abs!GroupsExist, GroupsExist, Abs!Agrees, Agrees
<1>. QED  BY <1>4, <1>6, <1>7, <1>8, <1>9, <1>10, <1>11

LEMMA CommittedTyped ==
    ASSUME TypeOK
    PROVE  Committed \in Inventories
BY OnDiskTyped DEF TypeOK, Committed

\* Two files, their locks and a journal behave as one inventory that changes by
\* whole operations, through any interleaving, crash and failed write: what a
\* reader that recovers first sees is a behaviour of InventorySpec.
THEOREM StoreRefines == Spec => Refines
<1>1. Init => Abs!AbsInit
  <2> SUFFICES ASSUME Init
               PROVE  Abs!AbsInit
    OBVIOUS
  <2>1. TypeOK
    BY InitInv DEF StoreInv
  <2>2. Committed = OnDisk
    BY DEF Init, Committed
  <2>. QED  BY <2>1, <2>2, OnDiskTyped, SameOperators DEF Init, Abs!AbsInit
<1>2. StoreInv /\ [Next]_vars => [Abs!AbsNext]_(Abs!absVars)
  <2> SUFFICES ASSUME Whole, Committed \in Inventories
               PROVE  [Abs!AbsNext]_(Abs!absVars)
    BY NextWhole, CommittedTyped DEF StoreInv
  <2>1. CASE Nothing
    BY <2>1 DEF Nothing, Abs!absVars
  <2>2. CASE WholePair
    BY <2>2, SameOperators DEF WholePair, Abs!AbsNext, Abs!PairOp
  <2>3. CASE WholeGroup
    BY <2>3, SameOperators DEF WholeGroup, Abs!AbsNext, Abs!GroupOp
  <2>4. CASE WholeDevice
    BY <2>4, SameOperators DEF WholeDevice, Relisted, Abs!AbsNext, Abs!DeviceOp, Abs!Replace
  <2>5. CASE WholeScan
    BY <2>5, SameOperators DEF WholeScan, Relisted, Abs!AbsNext, Abs!SaveScan, Abs!Replace
  <2>6. CASE StaleScan
    <3>1. PICK dev : Relisted(dev)
      BY <2>6 DEF StaleScan
    <3>2. Committed'.dev = dev
      BY <3>1 DEF Relisted, Inventories
    <3>. QED  BY <2>6, <3>1, <3>2, SameOperators
              DEF StaleScan, Relisted, Abs!AbsNext, Abs!SaveStaleScan, Abs!Replace
  <2>. QED  BY <2>1, <2>2, <2>3, <2>4, <2>5, <2>6 DEF Whole
<1>. QED  BY <1>1, <1>2, StoreInvariant, PTL DEF Spec, Refines, Abs!AbsSpec

\* In what a reader that recovers first sees, a device whose MAC and groups no scan,
\* no alias and no old list has changed behind the back of groups.json names groups
\* that exist and list its MAC, and shares this MAC with no other device.
THEOREM StoreConsistent == Spec => []CommittedConsistent
<1> DEFINE KeptInv == Kept(Committed, adrift)
<1>1. Init => KeptInv
  BY DEF Init, Committed
<1>2. StoreInv /\ KeptInv /\ [Next]_vars => KeptInv'
  <2> SUFFICES ASSUME Whole, Committed \in Inventories, KeptInv
               PROVE  Kept(Committed', adrift')
    BY NextWhole, CommittedTyped DEF StoreInv
  <2>1. CASE Nothing
    BY <2>1 DEF Nothing
  <2>2. CASE WholePair
    BY <2>2, PairKeeps DEF WholePair
  <2>3. CASE WholeGroup
    BY <2>3, GroupKeeps DEF WholeGroup
  <2>4. CASE WholeDevice \/ WholeScan \/ StaleScan
    <3>1. PICK dev : Relisted(dev)
      BY <2>4 DEF WholeDevice, WholeScan, StaleScan
    <3>. QED  BY <3>1, AloneKeeps DEF Relisted
  <2>. QED  BY <2>1, <2>2, <2>3, <2>4 DEF Whole
<1>3. KeptInv => CommittedConsistent
  BY SameOperators DEF CommittedConsistent, Abs!AbsConsistent
<1>. QED  BY <1>1, <1>2, <1>3, StoreInvariant, PTL DEF Spec

\* A reported success is a committed one, with no journal left that could undo it.
THEOREM StoreReports == Spec => OkMeansCommitted
<1> DEFINE Honest(p) ==
       Reported(p) => /\ op[p] # "group" => Committed'.dev = plan[p].dev
                      /\ op[p] \in {"pair", "group"} => Committed'.grp = plan[p].grp
                      /\ journal' = NoJournal
<1>1. StoreInv /\ [Next]_vars => [\A p \in Proc : Honest(p)]_vars
  <2> SUFFICES ASSUME StoreInv, NEW p \in Proc, ProcNext(p), NEW q \in Proc, Reported(q)
               PROVE  Honest(q)
    BY DEF Next
  <2>1. TypeOK /\ SelfOK(p)
    BY DEF StoreInv, SelfOK
  <2>2. q = p /\ (ReplaceGrp(p) \/ Audit(p))
    <3> DEFINE Says(o) == out' = [out EXCEPT ![p] = o]
               Quiet == out' = out \/ \E o \in Outcomes \ {"ok"} : Says(o)
    <3>1. CASE Loads(p)
      <4>1. CASE DropSnapshot(p)
        BY <2>1, <4>1 DEF DropSnapshot, Finish, SelfOK, OpOK, Reported, TypeOK
      <4>2. CASE StartLoad(p) \/ Peek(p) \/ ReadDevices(p) \/ Preview(p)
        <5>1. Quiet
          BY <4>2 DEF StartLoad, Begin, Peek, Finish, ReadDevices, Preview, Outcomes
        <5>. QED  BY <2>1, <5>1 DEF Reported, TypeOK
      <4>. QED  BY <3>1, <4>1, <4>2 DEF Loads
    <3>2. CASE Start(p) \/ Locks(p)
      <4>1. Quiet
        BY <3>2 DEF Start, Begin, Locks, Acquire, LockTimeout, Locked, CheckRevision, Open,
                    Finish, Outcomes
      <4>. QED  BY <2>1, <4>1 DEF Reported, TypeOK
    <3>3. CASE Recovery(p) \/ Undo(p)
      <4>1. Quiet
        BY <3>3 DEF Recovery, RestoreDev, RestoreGrp, DropJournal,
                    Undo, UndoDev, UndoGrp, UndoDrop, Finish, Outcomes
      <4>. QED  BY <2>1, <4>1 DEF Reported, TypeOK
    <3>4. CASE Work(p)
      <4>1. CASE ReplaceGrp(p) \/ Audit(p)
        BY <2>1, <4>1 DEF ReplaceGrp, Audit, Finish, Reported, TypeOK
      <4>2. CASE ~(ReplaceGrp(p) \/ Audit(p))
        <5>1. Quiet
          BY <3>4, <4>2 DEF Work, Plan, Reject, WriteJournal, WriteDev, WriteGrp, Commit,
                            ReplaceDev, Finish, Outcomes
        <5>. QED  BY <2>1, <5>1 DEF Reported, TypeOK
      <4>. QED  BY <4>1, <4>2
    <3>5. CASE Faults(p)
      <4>1. Quiet
        BY <3>5 DEF Faults, JournalFails, WriteDevFails, WriteGrpFails, RestoreDevFails,
                    RestoreGrpFails, DropFails, ReplaceGrpFails, ReplaceDevFails, AuditFails,
                    Crash, Finish, Outcomes
      <4>. QED  BY <2>1, <4>1 DEF Reported, TypeOK
    <3>. QED  BY <3>1, <3>2, <3>3, <3>4, <3>5 DEF ProcNext
  <2>3. journal' = NoJournal /\ Committed' = [dev |-> devFile', grp |-> grpFile']
    BY <2>1, <2>2 DEF ReplaceGrp, Audit, SelfOK, FilesOK, Committed, OnDisk, files
  <2>4. CASE ReplaceGrp(p)
    BY <2>2, <2>3, <2>4 DEF ReplaceGrp
  <2>5. CASE Audit(p)
    BY <2>1, <2>2, <2>3, <2>5 DEF Audit, SelfOK, OpOK, FilesOK, files
  <2>. QED  BY <2>2, <2>4, <2>5
<1>. QED  BY <1>1, StoreInvariant, PTL DEF Spec, OkMeansCommitted

-----------------------------------------------------------------------------
(* Lock order. *)

\* A process takes the lock that sorts first before the other.
InOrder == \A p \in Proc : Holds(p, "grp") => Holds(p, "dev")

LEMMA LockMoves ==
    ASSUME NEW p \in Proc, ProcNext(p)
    PROVE  owner' = owner \/ Release(p) \/ AfterRecovery(p) \/ Acquire(p)
<1>1. CASE Loads(p) \/ Start(p)
  BY <1>1 DEF Loads, Start, StartLoad, Begin, Peek, ReadDevices, DropSnapshot, Preview, Finish
<1>2. CASE Locks(p)
  BY <1>2 DEF Locks, LockTimeout, Locked, CheckRevision, Open, Finish
<1>3. CASE Recovery(p) \/ Undo(p)
  BY <1>3 DEF Recovery, RestoreDev, RestoreGrp, DropJournal, Undo, UndoDev, UndoGrp, UndoDrop, Finish
<1>4. CASE Work(p)
  BY <1>4 DEF Work, Plan, Reject, WriteJournal, WriteDev, WriteGrp, Commit, ReplaceGrp,
              ReplaceDev, Audit, Finish
<1>5. CASE Faults(p)
  BY <1>5 DEF Faults, JournalFails, WriteDevFails, WriteGrpFails, RestoreDevFails,
              RestoreGrpFails, DropFails, ReplaceGrpFails, ReplaceDevFails, AuditFails,
              Crash, Finish
<1>. QED  BY <1>1, <1>2, <1>3, <1>4, <1>5 DEF ProcNext

\* When devices.json sorts first, as by default, no two processes wait for each
\* other's lock, nested recoveries included.
THEOREM StoreNoWaitCycle == ASSUME DevicesFirst PROVE Spec => []NoWaitCycle
<1>1. Init => InOrder
  BY StoreAssumption DEF Init, InOrder, Holds, Lock
<1>2. StoreInv /\ InOrder /\ [Next]_vars => InOrder'
  <2>1. ASSUME StoreInv, InOrder, NEW p \in Proc, ProcNext(p), NEW q \in Proc, Holds(q, "grp")'
        PROVE  Holds(q, "dev")'
    <3>1. owner \in [Lock -> Proc \cup {None}] /\ None \notin Proc
      BY <2>1, StoreAssumption DEF StoreInv, TypeOK
    <3>2. Holds(q, "grp") => Holds(q, "dev")
      BY <2>1 DEF InOrder
    <3>3. CASE owner' = owner
      BY <2>1, <3>2, <3>3 DEF Holds
    <3>4. CASE Release(p)
      BY <2>1, <3>1, <3>2, <3>4 DEF Holds, Release, Lock
    <3>5. CASE AfterRecovery(p)
      BY <2>1, <3>1, <3>2, <3>5 DEF Holds, AfterRecovery, Lock
    <3>6. CASE Acquire(p)
      <4>1. owner' = [owner EXCEPT ![NextLock(p)] = p] /\ owner[NextLock(p)] = None
        BY <3>6 DEF Acquire
      <4>2. NextLock(p) = "dev" \/ Holds(p, "dev")
        BY DevicesFirst DEF NextLock, First, Wanted, Lock
      <4>. QED  BY <2>1, <3>1, <3>2, <4>1, <4>2 DEF Holds, Lock
    <3>. QED  BY <2>1, <3>3, <3>4, <3>5, <3>6, LockMoves
  <2>2. ASSUME InOrder, UNCHANGED vars
        PROVE  InOrder'
    BY <2>2 DEF InOrder, Holds, vars
  <2>. QED  BY <2>1, <2>2 DEF InOrder, Next
<1>3. StoreInv /\ InOrder => NoWaitCycle
  <2> SUFFICES ASSUME StoreInv, InOrder, NEW p \in Proc, NEW q \in Proc, p # q,
                      Waiting(p), owner[NextLock(p)] = q,
                      Waiting(q), owner[NextLock(q)] = p
               PROVE  FALSE
    BY DEF NoWaitCycle
  <2>1. ASSUME NEW r \in Proc, Waiting(r)
        PROVE  /\ NextLock(r) \in Lock
               /\ NextLock(r) = "grp" => Holds(r, "dev")
    <3>1. PICK l \in Wanted(r) : ~Holds(r, l)
      BY <2>1 DEF Waiting
    <3> DEFINE missing == {k \in Wanted(r) : ~Holds(r, k)}
    <3>2. (CHOOSE k \in missing : TRUE) \in missing
      BY <3>1
    <3>3. Wanted(r) \subseteq Lock /\ "dev" \in Wanted(r)
      BY DEF Wanted, Lock
    <3>. QED  BY DevicesFirst, <3>2, <3>3 DEF NextLock, First, Lock
  <2>2. Holds(q, "dev") /\ Holds(p, "dev")
    BY <2>1 DEF InOrder, Holds, Lock
  <2>. QED  BY <2>2 DEF Holds
<1>. QED  BY <1>1, <1>2, <1>3, StoreInvariant, PTL DEF Spec
=============================================================================
