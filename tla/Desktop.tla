---------------------------------- MODULE Desktop ----------------------------------
(***************************************************************************)
(* apps/ip/interfaces/gui, gui/desktop.js: the desktop interface.  The page *)
(* asks before it leaves a project or closes, and calls Python, where one   *)
(* call at a time works on the inventory of the project in use and a second *)
(* one is refused.  Python keeps, for each project, the edits that can be   *)
(* undone and redone.  Command lines write the same files.                  *)
(*                                                                         *)
(* Of an element there are the alias, which is its own and confirms it, and *)
(* the CNF mark; "touched" stands for the rest of the inventory: groups,    *)
(* protocols, what a scan finds.  Files and archives are in module Projects *)
(* and DeviceGroupStore: here each is written in one step, or fails.        *)
(***************************************************************************)
EXTENDS Integers, Sequences, FiniteSets, SequencesExt, Places

CONSTANTS
    GuiProject, FirstGuiProject,
    GuiElement,
    GuiAlias,               \* besides none
    Removed, NoProject,
    MaxHistory,             \* edits that can be undone
    MaxGuiEdits, MaxForeign \* bounds

ASSUME DesktopAssumption ==
    /\ FirstGuiProject \in GuiProject /\ NoProject \notin GuiProject
    /\ "" \notin GuiAlias /\ MaxHistory \in Nat \ {0} /\ {MaxGuiEdits, MaxForeign} \subseteq Nat

VARIABLES
    workspace, vlf,     \* of each project, the inventory in the workspace and in the archive
    known, inUse,       \* the projects there are, and the one this session uses
    history,            \* _edit_histories: what can be undone, what can be redone
    call,               \* the call that holds the lock
    page,               \* what is typed, the elements shown as they no longer are, the question
    closed,
    edits, foreign,     \* for the bounds
    dropped             \* ghost: changes were dropped that nobody wanted to

desktopVars == <<workspace, vlf, known, inUse, history, call, page, closed, edits, foreign, dropped>>
deskVars == <<known, inUse, closed>>
countersVars == <<edits, foreign>>

Mark == {"X", "O"}         \* not confirmed, confirmed: "S" is set as they are
Content == [alias : GuiAlias \cup {""}, cnf : Mark]
GuiInventory == [element : [GuiElement -> Content \cup {Removed}], touched : BOOLEAN]
NothingIn == [element |-> [e \in GuiElement |-> Removed], touched |-> FALSE]

Changes == UNION {[fields -> GuiAlias \cup {""} \cup Mark] : fields \in {{"alias"}, {"cnf"}, {"alias", "cnf"}}}
EditsFields(v, w) == {k \in {"alias", "cnf"} : v[k] # w[k]}
Only(v, fields) == [k \in fields |-> v[k]]

NoHistory == [undo |-> << >>, redo |-> << >>]
IsDirty == workspace[inUse] # vlf[inUse]

NoCall == [kind |-> "none", by |-> "user", step |-> "none", of |-> NoProject]
NoQuestion == [goal |-> "none", at |-> "none", answer |-> "none", late |-> FALSE]

DesktopInit ==
    /\ vlf \in [GuiProject -> {[element |-> [e \in GuiElement |-> [alias |-> "", cnf |-> "X"]], touched |-> FALSE],
                               NothingIn}]
    /\ workspace = vlf
    /\ inUse = FirstGuiProject /\ known \in {{FirstGuiProject}, GuiProject}
    /\ \A p \in GuiProject : vlf[p] # NothingIn <=> p \in known
    /\ history = [p \in GuiProject |-> NoHistory]
    /\ call = NoCall
    /\ page = [typed |-> FALSE, stale |-> {}, question |-> NoQuestion]
    /\ closed = FALSE /\ edits = 0 /\ foreign = 0 /\ dropped = FALSE

-----------------------------------------------------------------------------
(* The question the page is asking *)

Asking(step) == page.question.at = step
Asked == page.question.goal # "none"
Goal == page.question.goal

\* A dialog is over the page.
Modal == page.question.at \in {"asking", "form"}

\* When something changes after the page has read whether there are changes.
MarksLate(pg) == IF Asked /\ ~Asking("state") THEN [pg EXCEPT !.question.late = TRUE] ELSE pg

AsksOn(pg, step) == [pg EXCEPT !.question.at = step]
StopsAsking(pg) == [pg EXCEPT !.question = NoQuestion]

\* A call is refused, or fails: the error is shown, and a form stays for another try.
AfterFailure(pg, by) ==
    IF by = "user" THEN pg
    ELSE IF Goal = "create" /\ page.question.at = "leaving" THEN AsksOn(pg, "form") ELSE StopsAsking(pg)

\* activate, #project-new, desktopClose; the window's closing event asks the last.
AskState ==
    /\ ~Asked /\ ~Modal /\ call = NoCall
    /\ \E goal \in {"use", "create", "close"} :
          /\ page' = [page EXCEPT !.question = [NoQuestion EXCEPT !.goal = goal, !.at = "state"]]
    /\ UNCHANGED <<workspace, vlf, history, call, deskVars, countersVars, dropped>>

\* project_state; without changes nobody is asked.
ReadState ==
    /\ Asking("state") /\ call = NoCall
    /\ page' = AsksOn(page, IF IsDirty \/ page.typed THEN "asking" ELSE "decided")
    /\ UNCHANGED <<workspace, vlf, history, call, deskVars, countersVars, dropped>>

\* Another call holds the lock.
Refused ==
    /\ page.question.at \in {"state", "commit", "save", "decided"} /\ call # NoCall /\ call.by = "user"
    /\ page' = StopsAsking(page)
    /\ UNCHANGED <<workspace, vlf, history, call, deskVars, countersVars, dropped>>

\* chooseSave
AnswerSave(answer) ==
    /\ Asking("asking")
    /\ page' = CASE answer = "cancel" -> StopsAsking(page)
                 [] answer = "discard" -> [AsksOn(page, "decided") EXCEPT !.question.answer = "discard"]
                 [] answer = "save" -> [AsksOn(page, "commit") EXCEPT !.question.answer = "save"]
    /\ UNCHANGED <<workspace, vlf, history, call, deskVars, countersVars, dropped>>

\* protectProject has its answer: a form is shown for a new project.
Decided ==
    /\ Asking("decided") /\ Goal = "create" /\ page' = AsksOn(page, "form")
    /\ UNCHANGED <<workspace, vlf, history, call, deskVars, countersVars, dropped>>

Dismiss ==
    /\ Asking("form") /\ page' = StopsAsking(page)
    /\ UNCHANGED <<workspace, vlf, history, call, deskVars, countersVars, dropped>>

-----------------------------------------------------------------------------
(* Calls: DesktopApi._respond, _mutation *)

Calls(kind, by, step, of) == call' = [kind |-> kind, by |-> by, step |-> step, of |-> of]

\* A button, while no other call runs and nothing is over the page.
ByUser == call = NoCall /\ ~Modal
ByQuestion(step) == call = NoCall /\ Asking(step)

Fresh(pg) == [pg EXCEPT !.stale = {}, !.typed = FALSE]

\* What is shown afterwards.
Returns(pg) == call' = NoCall /\ page' = pg

Fail(pg) == Returns(AfterFailure(pg, call.by))

\* save_active_project(CHANGE), as the policy says, or it fails, which the caller is told.
SaveChange ==
    /\ call.step = "save"
    /\ \/ vlf' \in {vlf, [vlf EXCEPT ![inUse] = workspace[inUse]]}
          /\ Returns(IF call.by = "user" THEN Fresh(page)
                     ELSE AsksOn(Fresh(page), IF Goal = "close" THEN "decided" ELSE "save"))
       \/ UNCHANGED vlf /\ Fail(page)
    /\ UNCHANGED <<workspace, history, deskVars, countersVars, dropped>>

\* What the question itself has asked for is not late.
Changed(by, inv) ==
    /\ workspace' = [workspace EXCEPT ![inUse] = inv]
    /\ page' = IF by = "user" THEN MarksLate(page) ELSE page

\* GroupDatabase.edit_device_fields, field by field: an alias is nobody else's, and confirms.
MayApply(inv, e, ch) ==
    /\ inv.element[e] # Removed
    /\ "alias" \in DOMAIN ch /\ ch["alias"] # "" =>
          \A o \in GuiElement \ {e} : inv.element[o] \notin [alias : {ch["alias"]}, cnf : Mark]

Applied(v, ch) ==
    LET named == IF "alias" \in DOMAIN ch THEN [alias |-> ch["alias"], cnf |-> "O"] ELSE v
    IN  IF "cnf" \in DOMAIN ch THEN [named EXCEPT !.cnf = ch["cnf"]] ELSE named

WithElement(inv, e, v) == [inv EXCEPT !.element[e] = v]

Recent(s) == IF Len(s) > MaxHistory THEN Tail(s) ELSE s
Remembers(undo, redo) == history' = [history EXCEPT ![inUse] = [undo |-> Recent(undo), redo |-> redo]]

\* An error after the files were written: what was done is not noted.
Unnoted == UNCHANGED history

\* update_device: the revision is that of the element as it is shown; of the history are the
\* fields that were typed.
Update(by, e) ==
    LET inv == workspace[inUse]
        v == inv.element[e]
    IN  /\ edits < MaxGuiEdits /\ edits' = edits + 1
        /\ \/ /\ e \notin page.stale /\ v # Removed
              /\ \E typed \in Content :
                    LET fields == EditsFields(v, typed)
                        new == Applied(v, Only(typed, fields))
                        entry == [of |-> e, before |-> Only(v, fields), after |-> Only(new, fields)]
                    IN  /\ fields # {} /\ MayApply(inv, e, Only(typed, fields))
                        /\ Changed(by, WithElement(inv, e, new))
                        /\ \/ /\ Remembers(Append(history[inUse].undo, entry), << >>)
                              /\ Calls("update", by, "save", inUse)
                           \/ Unnoted /\ Calls("update", by, "fail", inUse)
           \/ Calls("update", by, "fail", inUse) /\ UNCHANGED <<workspace, page, history>>
        /\ UNCHANGED <<vlf, deskVars, foreign, dropped>>

UpdateByUser(e) == ByUser /\ ~Asking("commit") /\ Update("user", e)

\* commitEditor
UpdateByQuestion(e) == ByQuestion("commit") /\ page.typed /\ Update("question", e)

NothingTyped ==
    /\ ByQuestion("commit") /\ ~page.typed /\ page' = AsksOn(page, IF Goal = "close" THEN "decided" ELSE "save")
    /\ UNCHANGED <<workspace, vlf, history, call, deskVars, countersVars, dropped>>

CallFails ==
    /\ call.step = "fail" /\ Fail(page)
    /\ UNCHANGED <<workspace, vlf, history, deskVars, countersVars, dropped>>

Source(undo) == IF undo THEN history[inUse].undo ELSE history[inUse].redo
Agrees(v, ch) == v # Removed /\ \A k \in DOMAIN ch : v[k] = ch[k]

\* _apply_edit_history: the last edit, if the element is as it left it.
CheckHistory(undo) ==
    /\ ByUser /\ Source(undo) # << >>
    /\ LET entry == Last(Source(undo))
           expected == IF undo THEN entry.after ELSE entry.before
       IN  IF Agrees(workspace[inUse].element[entry.of], expected)
           THEN Calls(IF undo THEN "undo" ELSE "redo", "user", "apply", inUse)
           ELSE UNCHANGED call
    /\ UNCHANGED <<workspace, vlf, history, page, deskVars, countersVars, dropped>>

\* The files are locked only now.
ApplyHistory ==
    /\ call.step = "apply"
    /\ LET undo == call.kind = "undo"
           entry == Last(Source(undo))
           target == IF undo THEN entry.before ELSE entry.after
           inv == workspace[inUse]
           from == Front(Source(undo))
       IN  \/ /\ MayApply(inv, entry.of, target)
              /\ Changed("user", WithElement(inv, entry.of, Applied(inv.element[entry.of], target)))
              /\ \/ /\ IF undo THEN Remembers(from, Append(history[inUse].redo, entry))
                               ELSE Remembers(Append(history[inUse].undo, entry), from)
                    /\ Calls(call.kind, "user", "save", inUse)
                 \/ Unnoted /\ Calls(call.kind, "user", "fail", inUse)
           \/ Calls(call.kind, "user", "fail", inUse) /\ UNCHANGED <<workspace, page, history>>
    /\ UNCHANGED <<vlf, deskVars, countersVars, dropped>>

\* delete_device: its edits are forgotten.
ForgetElement(s, e) == AtPlaces(s, {i \in DOMAIN s : s[i].of # e})

DeleteElement(e) ==
    /\ ByUser /\ workspace[inUse].element[e] # Removed
    /\ Changed("user", WithElement(workspace[inUse], e, Removed))
    /\ \/ /\ Remembers(ForgetElement(history[inUse].undo, e), ForgetElement(history[inUse].redo, e))
          /\ Calls("delete", "user", "save", inUse)
       \/ Unnoted /\ Calls("delete", "user", "fail", inUse)
    /\ UNCHANGED <<vlf, deskVars, countersVars, dropped>>

\* group_action; diagnose_device, which notes protocols and saves nothing.
ChangeRest(saves) ==
    /\ ByUser /\ Changed("user", [workspace[inUse] EXCEPT !.touched = TRUE])
    /\ Calls("rest", "user", IF saves THEN "save" ELSE "return", inUse)
    /\ UNCHANGED <<vlf, history, deskVars, countersVars, dropped>>

\* What only reads, or acts on a device: list, details, history, panels, settings, wake, open.
Ask == ByUser /\ Calls("read", "user", "return", inUse)
       /\ UNCHANGED <<workspace, vlf, history, page, deskVars, countersVars, dropped>>

CallReturns ==
    /\ call.step = "return" /\ Returns(Fresh(page))
    /\ UNCHANGED <<workspace, vlf, history, deskVars, countersVars, dropped>>

\* scan_network, with a progress of its own; cancel_scan and scan_status take no lock.
StartGuiScan ==
    /\ ByUser /\ Calls("scan", "user", "probes", inUse)
    /\ UNCHANGED <<workspace, vlf, history, page, deskVars, countersVars, dropped>>

CancelGuiScan ==
    /\ call.step = "probes" /\ call' = [call EXCEPT !.step = "cancelled"]
    /\ UNCHANGED <<workspace, vlf, history, page, deskVars, countersVars, dropped>>

GuiScanEnds ==
    /\ \/ /\ call.step = "probes" /\ Changed("user", [workspace[inUse] EXCEPT !.touched = TRUE])
          /\ call' = [call EXCEPT !.step = "save"]
       \/ /\ call.step \in {"probes", "cancelled"} /\ call' = [call EXCEPT !.step = "fail"]
          /\ UNCHANGED <<workspace, page>>
    /\ UNCHANGED <<vlf, history, deskVars, countersVars, dropped>>

-----------------------------------------------------------------------------
(* Saving and leaving *)

Unwanted == page.question.answer # "discard" /\ ~page.question.late

\* Fault: what save_project answers is not looked at.
SaveAnyway ==
    /\ Asking("save") /\ call = NoCall /\ vlf' \in {vlf, [vlf EXCEPT ![inUse] = workspace[inUse]]}
    /\ page' = AsksOn(page, "decided")
    /\ UNCHANGED <<workspace, history, call, deskVars, countersVars, dropped>>

\* save_project, before leaving.
SaveProject ==
    /\ Asking("save") /\ call = NoCall
    /\ \/ vlf' = [vlf EXCEPT ![inUse] = workspace[inUse]] /\ page' = AsksOn(page, "decided")
       \/ UNCHANGED vlf /\ page' = StopsAsking(page)
    /\ UNCHANGED <<workspace, history, call, deskVars, countersVars, dropped>>

\* ... or by its button, which applies the editor first: UpdateByUser.
SaveByUser ==
    /\ ByUser /\ ~page.typed /\ vlf' = [vlf EXCEPT ![inUse] = workspace[inUse]] /\ page' = Fresh(page)
    /\ UNCHANGED <<workspace, history, call, deskVars, countersVars, dropped>>

\* Changes are given up: the workspace is made of the archive again.
Discards ==
    /\ workspace' = [workspace EXCEPT ![inUse] = vlf[inUse]]
    /\ dropped' = (dropped \/ (IsDirty /\ Unwanted))

\* use_project with discard = true, create_project likewise: _discard_current ...
LeaveProject ==
    /\ call = NoCall
    /\ \/ Asking("decided") /\ Goal = "use"
          /\ \E p \in known : Calls("leave", "question", "activate", p)
       \/ Asking("form") /\ \E p \in GuiProject \ known : Calls("leave", "question", "activate", p)
    /\ page' = AsksOn(page, "leaving")
    /\ Discards
    /\ UNCHANGED <<vlf, history, deskVars, countersVars>>

\* ... which another session may forbid, as it may fail for another reason.
LeaveFails ==
    /\ call = NoCall /\ \/ Asking("decided") /\ Goal = "use" /\ page' = StopsAsking(page)
                        \/ Asking("form") /\ page' = page
    /\ UNCHANGED <<workspace, vlf, history, call, deskVars, countersVars, dropped>>

\* activate_project_workspace: the page begins anew.
ActivateProject ==
    /\ call.step = "activate"
    /\ \/ /\ inUse' = call.of /\ known' = known \cup {call.of}
          /\ Returns([StopsAsking(page) EXCEPT !.typed = FALSE, !.stale = {}])
          /\ dropped' = (dropped \/ (page.typed /\ Unwanted))
       \/ /\ UNCHANGED <<inUse, dropped>> /\ known' \in {known, known \cup {call.of}}
          /\ Fail(page)
    /\ UNCHANGED <<workspace, vlf, history, closed, countersVars>>

\* request_close: what is not dirty by now is neither saved nor discarded.  The process ends.
Closes ==
    /\ closed' = TRUE /\ page' = [typed |-> FALSE, stale |-> {}, question |-> NoQuestion]
    /\ history' = [p \in GuiProject |-> NoHistory]
    /\ UNCHANGED <<call, known, inUse, countersVars>>

RequestClose ==
    /\ Asking("decided") /\ Goal = "close" /\ call = NoCall
    /\ \/ /\ page.question.answer = "save" /\ vlf' = [vlf EXCEPT ![inUse] = workspace[inUse]]
          /\ dropped' = (dropped \/ (page.typed /\ Unwanted)) /\ Closes /\ UNCHANGED <<workspace>>
       \/ /\ page.question.answer # "save"
          /\ workspace' = [workspace EXCEPT ![inUse] = vlf[inUse]]
          /\ dropped' = (dropped \/ ((IsDirty \/ page.typed) /\ Unwanted)) /\ Closes /\ UNCHANGED <<vlf>>
       \/ /\ IsDirty /\ page' = StopsAsking(page)
          /\ UNCHANGED <<workspace, vlf, history, call, deskVars, countersVars, dropped>>

-----------------------------------------------------------------------------
(* Typing, and other sessions *)

Type ==
    /\ ~Modal /\ ~page.typed /\ page' = [MarksLate(page) EXCEPT !.typed = TRUE]
    /\ UNCHANGED <<workspace, vlf, history, call, deskVars, countersVars, dropped>>

\* The timer of the page, after data-changed: never over an editor or an operation.
ReloadPage ==
    /\ ~Modal /\ ~page.typed /\ call = NoCall /\ page.stale # {}
    /\ page' = [page EXCEPT !.stale = {}]
    /\ UNCHANGED <<workspace, vlf, history, call, deskVars, countersVars, dropped>>

OtherSessionWrites ==
    /\ foreign < MaxForeign /\ foreign' = foreign + 1
    /\ \E e \in GuiElement, v \in Content \cup {Removed} :
          /\ workspace[inUse].element[e] \notin {v, Removed}
          /\ v # Removed => MayApply(workspace[inUse], e, Only(v, {"alias"}))
          /\ workspace' = [workspace EXCEPT ![inUse] = WithElement(@, e, v)]
          /\ page' = [MarksLate(page) EXCEPT !.stale = @ \cup {e}]
    /\ UNCHANGED <<vlf, history, call, deskVars, edits, dropped>>

Question ==
    \/ AskState \/ ReadState \/ Refused \/ Decided \/ Dismiss \/ NothingTyped
    \/ \E answer \in {"cancel", "discard", "save"} : AnswerSave(answer)

Call ==
    \/ SaveChange \/ CallFails \/ ApplyHistory \/ CallReturns \/ CancelGuiScan \/ GuiScanEnds \/ ActivateProject
    \/ Ask \/ StartGuiScan \/ SaveByUser \/ SaveProject \/ LeaveProject \/ LeaveFails \/ RequestClose
    \/ \E e \in GuiElement : UpdateByUser(e) \/ UpdateByQuestion(e) \/ DeleteElement(e)
    \/ \E b \in BOOLEAN : CheckHistory(b) \/ ChangeRest(b)

DesktopNext == ~closed /\ (Question \/ Call \/ Type \/ ReloadPage \/ OtherSessionWrites)

DesktopSpec == DesktopInit /\ [][DesktopNext]_desktopVars

-----------------------------------------------------------------------------
(* Properties *)

Entry == [of : GuiElement, before : Changes, after : Changes]

DesktopTypeOK ==
    /\ workspace \in [GuiProject -> GuiInventory] /\ vlf \in [GuiProject -> GuiInventory]
    /\ inUse \in known /\ known \subseteq GuiProject
    /\ \A p \in GuiProject : \A s \in {history[p].undo, history[p].redo} :
          Len(s) <= MaxHistory /\ \A i \in DOMAIN s : s[i] \in Entry
    /\ call.by = "question" => Asked
    /\ call.step = "apply" => Source(call.kind = "undo") # << >>
    /\ page.stale \subseteq GuiElement /\ (page.question.goal = "none" <=> page.question.at = "none")
    /\ edits \in 0..MaxGuiEdits /\ foreign \in 0..MaxForeign

\* Leaving a project or closing drops changes, saved or typed, only when the user has chosen
\* so, unless they were made after the page had read whether there are any.
\* (protectProject, desktopClose; docs/LANIP-GUI.md:32.)
NothingDroppedUnasked == ~dropped
================================================================================
