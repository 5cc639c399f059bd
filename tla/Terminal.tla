-------------------------------- MODULE Terminal --------------------------------
(***************************************************************************)
(* apps/ip/interfaces/tui: the full-screen interface of one session.  One   *)
(* thread takes, in each turn of its loop, a change of data that was put    *)
(* off, what the scan tells, an action asked for by another session, and a  *)
(* key.  A window takes all keys; it is built from the device or the        *)
(* project of the moment it opens, and acts on those of the moment of a key.*)
(*                                                                         *)
(* Which devices a list has is free: those of the inventory that a filter,  *)
(* or a scan under way, shows (module LanScan).  The records that were read *)
(* are those of the file while they are "fresh".  What opening a project    *)
(* does to its workspace is left to module Projects.  The text of the       *)
(* prompt, its suggestions, scrolling, messages and the pages of history    *)
(* are left out: a command is chosen when it is executed.                   *)
(***************************************************************************)
EXTENDS Integers, Sequences, SequencesExt

CONSTANTS
    TuiProject, FirstTuiProject,
    RowOrder,           \* all devices, in the order of an inventory
    NoWindow, NoProject, NoRow

TuiDevice == ToSet(RowOrder)

ASSUME TerminalAssumption ==
    /\ FirstTuiProject \in TuiProject /\ NoProject \notin TuiProject
    /\ IsInjective(RowOrder) /\ RowOrder \in Seq(TuiDevice) /\ NoRow \notin TuiDevice

VARIABLES
    current,        \* the project that is active for the session
    unsaved,        \* projects whose workspace has changes
    archives,       \* projects whose archive is there
    records,        \* self.all_devices: the project they are of
    rows, place,    \* self.devices, self.index (from 1)
    scanOf,         \* the project that is being scanned
    window,         \* self.modal
    target,         \* pending_project_path
    pendingData,    \* _external_data_pending
    coming,         \* a change of data by another session is in remote_actions, or on its way
    running,
    fresh,          \* ghost: they are those of the file
    watching,       \* ghost: it has read the inventory since it listens
    astray          \* ghost: an edit went to a device that was not shown

projectVars == <<unsaved, archives, current>>
listVars == <<records, rows, place, fresh, watching>>
dialogVars == <<window, target>>
queueVars == <<pendingData, coming>>
tuiVars == <<projectVars, listVars, scanOf, dialogVars, queueVars, running, astray>>

-----------------------------------------------------------------------------
(* The list *)

Scanning == scanOf # NoProject

Selected == IF rows = << >> THEN NoRow ELSE rows[place]

\* What _filtered_devices may give: some devices, in their order.
Precedes(d, e) == \E i, j \in DOMAIN RowOrder : i < j /\ RowOrder[i] = d /\ RowOrder[j] = e
Lists == {list \in SeqOf(TuiDevice, Len(RowOrder)) :
             \A i, j \in DOMAIN list : i < j => Precedes(list[i], list[j])}

Clamp(k, list) == IF list = << >> THEN 1 ELSE IF k > Len(list) THEN Len(list) ELSE k

\* Where the selected device is in another list, or else where it was.
Follow(list) == IF Contains(list, Selected) THEN SelectInSeq(list, LAMBDA d : d = Selected)
                                            ELSE Clamp(place, list)

Rereads(p) == records' = p /\ fresh' = TRUE /\ watching' = TRUE /\ rows' \in Lists

\* reload, once the session's project is p.
Reload(p) == Rereads(p) /\ place' = Follow(rows')

\* configure_list, list: another filter, from the first row.
ConfigureList == Rereads(current) /\ place' = 1

\* move, and the keys of a page.
MoveRow == place' \in 1..Len(rows) /\ UNCHANGED <<records, rows, fresh, watching>>

\* Somebody edits a device of a project, or deletes it.
Edits(p) == unsaved' = unsaved \cup {p} /\ UNCHANGED <<archives, current>>

\* ... and the list does not show it.
Outdates(p) == fresh' = (fresh /\ records # p) /\ UNCHANGED <<records, rows, place, watching>>

-----------------------------------------------------------------------------
(* Windows *)

\* Of the window of a device: the one it shows, whether a field is being edited, and (ghost)
\* whether the scan, or saving by hand, has moved the rows under it.
Plain(kind) == [kind |-> kind, about |-> NoRow, editing |-> FALSE, stirred |-> FALSE]

Opens(w) == window' = w
ClosesWindow == window' = NoWindow

Stirs ==
    window' = IF window # NoWindow /\ window.kind = "info" /\ rows' # rows
              THEN [window EXCEPT !.stirred = TRUE] ELSE window

\* __init__, run: the interface listens only after it has read the inventory; it begins with
\* a scan, which reads it again, or with the window it was asked for.
TerminalInit ==
    /\ current = FirstTuiProject /\ unsaved \in {{}, {FirstTuiProject}}
    /\ archives = {FirstTuiProject}
    /\ \/ window = NoWindow /\ scanOf = current /\ watching = TRUE /\ fresh = TRUE /\ rows = << >>
       \/ /\ window \in {Plain("pages"), Plain("projects"), Plain("settings")}
          /\ scanOf = NoProject /\ watching = FALSE /\ fresh \in BOOLEAN /\ rows \in Lists
    /\ records = current /\ place = 1 /\ target = NoProject /\ pendingData = FALSE /\ coming = FALSE
    /\ running = TRUE /\ astray = FALSE

-----------------------------------------------------------------------------
(* Other sessions *)

\* Who changes the project of this session has the session told of it.
OtherEdits ==
    /\ Edits(current) /\ Outdates(current) /\ coming' = TRUE
    /\ UNCHANGED <<scanOf, dialogVars, pendingData, running, astray>>

OtherSaves(p) ==
    /\ p \in unsaved /\ unsaved' = unsaved \ {p}
    /\ UNCHANGED <<archives, current, listVars, scanOf, dialogVars, queueVars, running, astray>>

\* Fault: what comes under an open window is forgotten.
TakeChangeOrForget ==
    /\ running /\ coming /\ coming' = FALSE
    /\ IF window # NoWindow \/ Scanning THEN UNCHANGED listVars ELSE Reload(current)
    /\ UNCHANGED <<projectVars, scanOf, dialogVars, pendingData, running, astray>>

\* Fault: the list is read anew under an open window.
TakeChangeAtOnce ==
    /\ running /\ coming /\ coming' = FALSE
    /\ IF Scanning THEN pendingData' = TRUE /\ UNCHANGED listVars
                   ELSE Reload(current) /\ UNCHANGED pendingData
    /\ UNCHANGED <<projectVars, scanOf, dialogVars, running, astray>>

\* _apply_remote_action: data waits until there is neither a window nor a scan.  The change
\* came by the agent's thread and a queue; "refresh" is taken as one.
TakeChange ==
    /\ running /\ coming /\ coming' = FALSE
    /\ IF window # NoWindow \/ Scanning THEN pendingData' = TRUE /\ UNCHANGED listVars
                                         ELSE Reload(current) /\ UNCHANGED pendingData
    /\ UNCHANGED <<projectVars, scanOf, dialogVars, running, astray>>

\* A view, which another session may ask for at any time, replaces the window there is.
TakeView ==
    /\ running /\ window' \in {NoWindow, Plain("pages"), Plain("projects"), Plain("settings")}
    /\ UNCHANGED <<projectVars, listVars, scanOf, target, queueVars, running, astray>>

PutOff == pendingData /\ window = NoWindow /\ ~Scanning

ApplyPutOff ==
    /\ running /\ PutOff /\ pendingData' = FALSE /\ Reload(current)
    /\ UNCHANGED <<projectVars, scanOf, dialogVars, coming, running, astray>>

-----------------------------------------------------------------------------
(* The scan, as its thread tells of it *)

\* discovery_found: the rows are chosen again; the place stays.
ScanTellsFound ==
    /\ running /\ Scanning
    /\ rows' \in Lists /\ place' = Clamp(place, rows') /\ Stirs
    /\ UNCHANGED <<projectVars, records, fresh, watching, scanOf, target, queueVars, running, astray>>

\* It merges what it found into the inventory it has read.
ScanSaves ==
    /\ Scanning /\ Edits(scanOf) /\ Outdates(scanOf)
    /\ UNCHANGED <<scanOf, dialogVars, queueVars, running, astray>>

\* "complete", of a scan that has succeeded or not.
ScanCompletes ==
    /\ running /\ Scanning /\ scanOf' = NoProject /\ Reload(current) /\ Stirs
    /\ UNCHANGED <<projectVars, target, queueVars, running, astray>>

\* refresh.
StartScan ==
    /\ ~Scanning /\ scanOf' = current /\ rows' = << >> /\ fresh' = TRUE
    /\ UNCHANGED <<records, place, watching>>

-----------------------------------------------------------------------------
(* Keys without a window *)

\* A key is read once there is nothing else to do.
Ready == running /\ ~PutOff
OnList == Ready /\ window = NoWindow

\* _begin_close; ESC during a scan only asks it to end.  Whether the mode of saving has it
\* ask is free.
CloseKey ==
    /\ OnList
    /\ \/ current \in unsaved /\ Opens(Plain("close")) /\ UNCHANGED running
       \/ running' = FALSE /\ UNCHANGED window
    /\ UNCHANGED <<projectVars, listVars, scanOf, target, queueVars, astray>>

\* Movement, the keys of filters, "reload", and ping_selected.
ListKey ==
    /\ OnList
    /\ MoveRow \/ Reload(current) \/ ConfigureList
    /\ UNCHANGED <<projectVars, scanOf, dialogVars, queueVars, running, astray>>

RefreshKey ==
    /\ OnList /\ StartScan
    /\ UNCHANGED <<projectVars, dialogVars, queueVars, running, astray>>

\* Help, plugins and the history of commands are pages; show_info is of the device that is
\* selected now, with its ports a page of it.
WindowKey ==
    /\ OnList
    /\ \/ \E kind \in {"pages", "projects", "settings"} : Opens(Plain(kind))
       \/ rows # << >> /\ Opens([Plain("info") EXCEPT !.about = Selected])
    /\ UNCHANGED <<projectVars, listVars, scanOf, target, queueVars, running, astray>>

\* _manual_save: from the list, or a window other than those that have their own saving.
ManualSave ==
    /\ Ready /\ window # NoWindow => window.kind \notin {"settings", "exit", "users", "close"}
    /\ unsaved' = unsaved \ {current} /\ Reload(current) /\ Stirs
    /\ UNCHANGED <<archives, current, scanOf, target, queueVars, running, astray>>

-----------------------------------------------------------------------------
(* execute: commands, with the selected device where they name none *)

\* A device is deleted once the question of an earlier command is answered, whatever has
\* happened since: here, at any time.
EditByCommand ==
    /\ OnList /\ Edits(current) /\ Reload(current)
    /\ UNCHANGED <<scanOf, dialogVars, queueVars, running, astray>>

\* "project use" is refused while there are changes.
UseByCommand(p) ==
    /\ OnList /\ p \in archives /\ (p = current \/ current \notin unsaved) /\ current' = p
    /\ Reload(p)
    /\ UNCHANGED <<unsaved, archives, scanOf, dialogVars, queueVars, running, astray>>

\* "list" also scans.
ListByCommand ==
    /\ OnList /\ ConfigureList /\ scanOf' = IF Scanning THEN scanOf ELSE current
    /\ UNCHANGED <<projectVars, dialogVars, queueVars, running, astray>>

\* "select": all devices are shown again when it is not among the rows.
SelectByCommand(d) ==
    /\ OnList
    /\ IF Contains(rows, d) THEN UNCHANGED <<records, rows, fresh, watching>> ELSE Rereads(current)
    /\ place' = IF Contains(rows', d) THEN SelectInSeq(rows', LAMBDA e : e = d) ELSE 1
    /\ UNCHANGED <<projectVars, scanOf, dialogVars, queueVars, running, astray>>

Execute ==
    \/ EditByCommand \/ ListByCommand
    \/ \E d \in TuiDevice : SelectByCommand(d)
    \/ \E p \in TuiProject : UseByCommand(p)

-----------------------------------------------------------------------------
(* Keys in a window *)

KeyIn(kinds) == Ready /\ window # NoWindow /\ window.kind \in kinds

\* ESC or the key of the window; a command is taken over from help or its history.
LeaveWindow ==
    /\ KeyIn({"pages", "projects", "info", "close"}) /\ ~window.editing /\ ClosesWindow
    /\ UNCHANGED <<projectVars, listVars, scanOf, target, queueVars, running, astray>>

\* TAB begins to edit, ESC gives up.
EditKey ==
    /\ KeyIn({"info", "settings"}) /\ Opens([window EXCEPT !.editing = ~@])
    /\ UNCHANGED <<projectVars, listVars, scanOf, target, queueVars, running, astray>>

\* TAB saves the value of the field for the device that is selected now, if it is still stored;
\* without one the interface ends with an error.
AcceptInfo ==
    /\ KeyIn({"info"}) /\ window.editing
    /\ IF Selected = NoRow THEN running' = FALSE /\ UNCHANGED <<projectVars, window, astray>>
       ELSE /\ Opens([window EXCEPT !.editing = FALSE]) /\ UNCHANGED running
            /\ \/ UNCHANGED <<projectVars, astray>>
               \/ /\ Edits(records)
                  /\ astray' = (astray \/ (~window.stirred /\ Selected # window.about))
    /\ UNCHANGED <<listVars, scanOf, target, queueVars>>

\* A value is accepted, or a key shown or hidden; ESC asks what becomes of the values; the
\* users of remote access have a window of their own, from which the settings are read anew.
SettingsKey ==
    /\ \/ /\ KeyIn({"settings"}) /\ ~window.editing
          /\ window' \in {Plain("exit"), Plain("users")}
       \/ KeyIn({"users"}) /\ Opens(Plain("settings"))
       \/ KeyIn({"exit"}) /\ (Opens(Plain("settings")) \/ ClosesWindow)
    /\ UNCHANGED <<projectVars, listVars, scanOf, target, queueVars, running, astray>>

\* _save_settings; when nothing is changed, or a value refused, see SettingsKey.
SaveSettings ==
    /\ KeyIn({"exit"}) /\ ClosesWindow /\ Reload(current)
    /\ UNCHANGED <<projectVars, scanOf, target, queueVars, running, astray>>

\* _handle_project_close_key.
AnswerClose ==
    /\ KeyIn({"close"}) /\ running' = FALSE /\ ClosesWindow
    /\ UNCHANGED <<projectVars, listVars, scanOf, target, queueVars, astray>>

-----------------------------------------------------------------------------
(* Projects *)

\* activate_project_workspace: the changes of a project are not left without consent.
MayLeave(p, discard) == discard \/ p = current \/ current \notin unsaved

\* _activate_project_path; it may fail for reasons of its own.
Activates(p, discard) ==
    /\ target' = NoProject
    /\ \/ p \in archives /\ MayLeave(p, discard) /\ current' = p /\ ClosesWindow /\ Reload(p)
       \/ Opens(Plain("projects")) /\ UNCHANGED <<current, listVars>>

\* ENTER on a project; another one while this one has changes is asked about.
OpenProject(p) ==
    /\ KeyIn({"projects"}) /\ ~Scanning /\ p \in archives
    /\ IF p # current /\ current \in unsaved
       THEN Opens(Plain("switch")) /\ target' = p /\ UNCHANGED <<current, listVars>>
       ELSE Activates(p, FALSE)
    /\ UNCHANGED <<unsaved, archives, scanOf, queueVars, running, astray>>

\* _handle_project_switch_key: not to, to save first (which may fail, and the question stays),
\* or to leave the changes.
AnswerSwitch ==
    /\ KeyIn({"switch"})
    /\ \/ /\ Opens(Plain("projects")) /\ target' = NoProject
          /\ UNCHANGED <<unsaved, current, listVars>>
       \/ unsaved' = unsaved \ {current} /\ Activates(target, FALSE)
       \/ Activates(target, TRUE) /\ UNCHANGED unsaved
    /\ UNCHANGED <<archives, scanOf, queueVars, running, astray>>

\* Ctrl+N; ESC goes back.
ProjectForm ==
    /\ \/ KeyIn({"projects"}) /\ ~Scanning /\ current \notin unsaved /\ Opens(Plain("create"))
       \/ KeyIn({"create"}) /\ Opens(Plain("projects"))
    /\ UNCHANGED <<projectVars, listVars, scanOf, target, queueVars, running, astray>>

\* _submit_project_creation: the archive, then its activation, which is refused when another
\* session has edited the project; what comes after may fail before the list is read.  (Not
\* with the name of the active one, whose archive may be gone.)
CreateProject(p) ==
    /\ KeyIn({"create"}) /\ p \notin archives \cup {current} /\ archives' = archives \cup {p}
    /\ unsaved' = unsaved \ {p}
    /\ \/ UNCHANGED <<current, window, listVars>>
       \/ /\ MayLeave(p, FALSE) /\ current' = p
          /\ \/ Reload(p) /\ Opens(Plain("projects"))
             \/ watching' = FALSE /\ UNCHANGED <<window, records, rows, place, fresh>>
    /\ UNCHANGED <<scanOf, target, queueVars, running, astray>>

\* The one that is shown is not deleted.
DeleteProject(p) ==
    /\ KeyIn({"projects"}) /\ p \in archives /\ p # records /\ archives' = archives \ {p}
    /\ UNCHANGED <<unsaved, current, listVars, scanOf, dialogVars, queueVars, running, astray>>

-----------------------------------------------------------------------------
Others ==
    \/ OtherEdits \/ \E p \in TuiProject : OtherSaves(p)

TerminalNext ==
    \/ Others \/ TakeChange \/ TakeView \/ ApplyPutOff
    \/ ScanTellsFound \/ ScanCompletes \/ ScanSaves
    \/ CloseKey \/ ListKey \/ RefreshKey \/ WindowKey \/ ManualSave \/ Execute
    \/ LeaveWindow \/ EditKey \/ AcceptInfo \/ SettingsKey \/ SaveSettings \/ AnswerClose
    \/ AnswerSwitch \/ ProjectForm
    \/ \E p \in TuiProject : OpenProject(p) \/ CreateProject(p) \/ DeleteProject(p)

TerminalSpec == TerminalInit /\ [][TerminalNext]_tuiVars

-----------------------------------------------------------------------------
(* Properties *)

TuiWindow == [kind : {"pages", "projects", "settings", "info", "exit", "users", "close", "switch",
                      "create"},
              about : TuiDevice \cup {NoRow}, editing : BOOLEAN, stirred : BOOLEAN]

\* The types; there is a selected row when there are rows, and a question about a project
\* only while there is one to be opened.
TerminalTypeOK ==
    /\ current \in TuiProject /\ unsaved \subseteq TuiProject /\ archives \subseteq TuiProject
    /\ records \in TuiProject /\ rows \in Lists /\ place \in Nat \ {0}
    /\ rows # << >> => place <= Len(rows)
    /\ scanOf \in TuiProject \cup {NoProject} /\ window \in TuiWindow \cup {NoWindow}
    /\ target \in TuiProject \cup {NoProject}
    /\ window # NoWindow /\ window.kind = "switch" => target # NoProject
    /\ {pendingData, coming, running, fresh, watching, astray} \subseteq BOOLEAN

\* Once it has read the inventory with its agent listening, the list has what is stored for
\* the active project, or the interface is about to read it: a change waits in its queue or
\* for the open window, or the scan under way ends with it.  (reload, _apply_remote_action,
\* run, _drain_scan_events.)
NoStaleDisplay ==
    watching /\ running =>
        \/ fresh /\ records = current
        \/ pendingData \/ coming \/ Scanning

\* What is edited in the window of a device goes to that device, whatever other sessions do
\* meanwhile; only a scan and saving by hand move the rows under it.  (_handle_info_key takes
\* the device that is selected; _apply_remote_action.)
EditsWhatIsShown == ~astray
================================================================================
