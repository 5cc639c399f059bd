----------------------------- MODULE DataMigration -----------------------------
(***************************************************************************)
(* core/data_migration.py: every process, as it starts, creates the files   *)
(* it needs and, until a marker says that this was done, copies those of    *)
(* older versions that are beside the program.  It does so with the marker  *)
(* locked, one process at a time, and what it finds of an older copy it     *)
(* leaves: a copy that differs stops the start.                             *)
(*                                                                         *)
(* A process that was stopped, by an error or its death, has done all up to *)
(* a step.  Folders, the lock of each file and the schema file are left out.*)
(***************************************************************************)
EXTENDS Integers

CONSTANTS
    File,
    Structured,         \* the files that are written anew in the current format
    Recurrent,          \* the one that some versions left in the wrong folder
    Content,            \* of a file of an older version
    Missing, Initial, Edited,
    Old,                \* the folders of older versions, in order: 1 .. n
    MaxLayouts          \* bound: starts of the application

Upgraded == {<<c, "upgraded">> : c \in Content}

ASSUME DataMigrationAssumption ==
    /\ Structured \subseteq File /\ Recurrent \in Structured
    /\ Missing # Initial /\ Missing # Edited /\ Initial # Edited
    /\ {Missing, Initial, Edited} \cap (Content \cup Upgraded) = {} /\ Content \cap Upgraded = {}
    /\ Old \subseteq Nat \ {0} /\ MaxLayouts \in Nat

VARIABLES
    old,            \* what is in the folders of older versions
    misplaced,      \* what is in the wrong folder
    here,           \* the data of this version
    complete,       \* the marker exists
    step,           \* of the process that has the marker's lock
    left, conflict, \* ... what it has to copy yet; did a copy differ?
    running,        \* a process has started, and the user works with it
    edited,         \* history: files that the user has changed
    started

migrationVars == <<old, misplaced, here, complete, step, left, conflict, running, edited, started>>

MigrationInit ==
    /\ old \in [Old \X File -> Content \cup {Missing}]
    /\ misplaced \in Content \cup {Missing}
    /\ here = [f \in File |-> Missing]
    /\ complete = FALSE
    /\ step = "none" /\ left = {} /\ conflict = FALSE
    /\ running = FALSE /\ edited = {} /\ started = 0

-----------------------------------------------------------------------------
\* The lock is taken.  _migrate_misplaced_root_state; _legacy_sources, if there is no marker.
StartLayout ==
    /\ step = "none" /\ started < MaxLayouts /\ started' = started + 1
    /\ here' = [here EXCEPT ![Recurrent] = IF @ = Missing THEN misplaced ELSE @]
    /\ left' = IF complete THEN {} ELSE {x \in Old \X File : old[x] # Missing}
    /\ step' = "copying" /\ conflict' = FALSE
    /\ UNCHANGED <<old, misplaced, complete, running, edited>>

\* Fault: what is there is taken to be the copy.
CopyUnseen(x) ==
    /\ step = "copying" /\ x \in left /\ \A y \in left : x[1] <= y[1]
    /\ left' = left \ {x}
    /\ here' = [here EXCEPT ![x[2]] = IF @ = Missing THEN old[x] ELSE @]
    /\ UNCHANGED <<old, misplaced, complete, step, conflict, running, edited, started>>

\* _copy_legacy_tree: one file.
CopyOld(x) ==
    /\ step = "copying" /\ x \in left /\ \A y \in left : x[1] <= y[1]
    /\ left' = left \ {x}
    /\ here' = [here EXCEPT ![x[2]] = IF @ = Missing THEN old[x] ELSE @]
    /\ conflict' = (conflict \/ here[x[2]] \notin {Missing, old[x]})
    /\ UNCHANGED <<old, misplaced, complete, step, running, edited, started>>

\* All copies have been looked at: a conflict stops the start.
Copied ==
    /\ step = "copying" /\ left = {}
    /\ step' = IF conflict THEN "none" ELSE "creating"
    /\ UNCHANGED <<old, misplaced, here, complete, left, conflict, running, edited, started>>

\* _create_initial_files
CreateMissing ==
    /\ step = "creating"
    /\ \/ \E f \in File : here[f] = Missing /\ here' = [here EXCEPT ![f] = Initial] /\ UNCHANGED step
       \/ (\A f \in File : here[f] # Missing) /\ step' = "upgrading" /\ UNCHANGED here
    /\ UNCHANGED <<old, misplaced, complete, left, conflict, running, edited, started>>

\* _upgrade_structured_documents; and the marker.
UpgradeOne(f) ==
    /\ step = "upgrading" /\ f \in Structured /\ here[f] \in Content
    /\ here' = [here EXCEPT ![f] = <<@, "upgraded">>]
    /\ UNCHANGED <<old, misplaced, complete, step, left, conflict, running, edited, started>>

MarkComplete ==
    /\ step = "upgrading" /\ \A f \in Structured : here[f] \notin Content
    /\ complete' = TRUE /\ step' = "none" /\ running' = TRUE
    /\ UNCHANGED <<old, misplaced, here, left, conflict, edited, started>>

\* An error, or the death of the process.
StopLayout ==
    /\ step # "none" /\ step' = "none"
    /\ UNCHANGED <<old, misplaced, here, complete, left, conflict, running, edited, started>>

\* A process that has started changes a file, while another starts.
EditData(f) ==
    /\ running
    /\ here' = [here EXCEPT ![f] = Edited] /\ edited' = edited \cup {f}
    /\ UNCHANGED <<old, misplaced, complete, step, left, conflict, running, started>>

MigrationNext ==
    \/ StartLayout \/ Copied \/ CreateMissing \/ MarkComplete \/ StopLayout
    \/ \E x \in Old \X File : CopyOld(x)
    \/ \E f \in File : UpgradeOne(f) \/ EditData(f)

MigrationSpec == MigrationInit /\ [][MigrationNext]_migrationVars

-----------------------------------------------------------------------------
\* The variables have their types.
MigrationTypeOK ==
    /\ here \in [File -> Content \cup Upgraded \cup {Missing, Initial, Edited}]
    /\ complete \in BOOLEAN /\ conflict \in BOOLEAN /\ running \in BOOLEAN
    /\ step \in {"none", "copying", "creating", "upgrading"}
    /\ left \subseteq Old \X File /\ edited \subseteq File

\* "los copia al nuevo destino sin borrar el original y detiene la migración si encuentra un
\* conflicto diferente": once the marker is there, all that older versions had is in the data,
\* as it was or in its new format, unless the user has changed it since; however often the
\* application was stopped before.
MigratedIsComplete ==
    complete => \A x \in Old \X File :
        old[x] # Missing /\ x[2] \notin edited => here[x[2]] \in {old[x], <<old[x], "upgraded">>}
================================================================================
