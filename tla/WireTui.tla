---------------------------------- MODULE WireTui ----------------------------------
(***************************************************************************)
(* apps/wire/tui: the full-screen interface of LANWIRE.  It keeps a copy of *)
(* the records, which it reads again after each operation of its own, and   *)
(* on hearing of a change while no element is open; a list; the window of   *)
(* an element, with the view, the options, the editor and the actions on a  *)
(* connector; and windows over everything.  An exception that no handler    *)
(* catches ends it.                                                        *)
(*                                                                         *)
(* One device, whose ports are in an order, and cables with the ports they  *)
(* are at; what is typed is one of the names that matter, and a field is    *)
(* one of the kinds that are handled differently.  Racks, the source of a   *)
(* cable, the change of a type, what is drawn, and failures of the disk are *)
(* left out, as is whether a cable fits a port: it may or not.              *)
(***************************************************************************)
EXTENDS Integers, Sequences, SequencesExt, FiniteSetsExt, Places

CONSTANTS
    WireTuiDevice,
    CableOrder,             \* cables, as their identifiers sort
    PortName,
    NoElementOpen, NoRecord, NoText,
    MaxDepth, MaxOthers,    \* bounds
    LanipDevices            \* bound: devices of LANIP that a field can be set to

TuiCable == ToSet(CableOrder)

ASSUME WireTuiAssumption ==
    /\ IsInjective(CableOrder) /\ WireTuiDevice \notin ToSet(CableOrder)
    /\ NoElementOpen \notin ToSet(CableOrder) \cup {WireTuiDevice}
    /\ NoRecord \notin Seq(PortName) /\ CableOrder \in Seq(TuiCable) /\ IsFiniteSet(PortName)
    /\ {MaxDepth, MaxOthers, LanipDevices} \subseteq Nat

VARIABLES
    idf,            \* the file: ports of the device, ends of each cable
    records,        \* all_records
    list,           \* the elements that kind, prefix and group let it show, and the row selected
    open,           \* the element that is open: where its window is
    stack,          \* navigation_stack
    utility,        \* the window over everything, and the element to be deleted
    typed,          \* whether there is text on the command line
    outdated,       \* the event that the session's handler sets
    running,        \* ... or how it has ended
    lanip,          \* how many devices of devices.json a field can be set to
    others, altered,\* for the bound; ghost: another session has deleted or added an element
    fewer           \* ghost: another session has deleted the last device while it was selected

wireTuiVars == <<idf, records, list, open, stack, utility, typed, outdated, running, lanip, others, altered, fewer>>
windowVars == <<list, stack, utility, typed>>
elsewhereVars == <<outdated, lanip, others, altered, fewer>>

Identifier == TuiCable \cup {WireTuiDevice}
PortLists == {ps \in SeqOf(PortName, Cardinality(PortName)) : IsInjective(ps)}
CableEnds == SeqOf(PortName, 2)

Exists(f, id) == IF id = WireTuiDevice THEN f.ports # NoRecord ELSE id \in TuiCable /\ f.ends[id] # NoRecord

\* wire_for_port: of several cables, the last.
CableAt(f, p) ==
    LET there == {i \in DOMAIN CableOrder :
                     Exists(f, CableOrder[i]) /\ p \in ToSet(f.ends[CableOrder[i]])}
    IN  IF there = {} THEN NoElementOpen ELSE CableOrder[Max(there)]

-----------------------------------------------------------------------------
(* IDFDatabaseManager, without what it refuses *)

\* update: a port that has a cable stays.
MayUpdateDevice(f, ps) ==
    Exists(f, WireTuiDevice) /\ \A p \in ToSet(f.ports) \ ToSet(ps) : CableAt(f, p) = NoElementOpen

WithPorts(f, ps) == [f EXCEPT !.ports = ps]
WithEnds(f, w, es) == [f EXCEPT !.ends[w] = es]
Except(s, p) == AtPlaces(s, {i \in DOMAIN s : s[i] # p})

\* edit_port
MayRename(f, p, q) == Exists(f, WireTuiDevice) /\ p \in ToSet(f.ports) /\ q \notin ToSet(f.ports) \ {p}
NewName(s, p, q) == [i \in 1..Len(s) |-> IF s[i] = p THEN q ELSE s[i]]
RenamedPort(f, p, q) ==
    [ports |-> NewName(f.ports, p, q),
     ends |-> [w \in TuiCable |-> IF Exists(f, w) THEN NewName(f.ends[w], p, q) ELSE NoRecord]]

Erased(f, id) ==
    IF id = WireTuiDevice
    THEN [ports |-> NoRecord, ends |-> [w \in TuiCable |-> IF Exists(f, w) THEN << >> ELSE NoRecord]]
    ELSE WithEnds(f, id, NoRecord)

Added(f, id) == IF id = WireTuiDevice THEN WithPorts(f, << >>) ELSE WithEnds(f, id, << >>)

-----------------------------------------------------------------------------
(* The list *)

AllDevices == [only |-> {WireTuiDevice}, row |-> 0]
Filters == {Identifier, {WireTuiDevice}, TuiCable}

\* reload: the elements of the kind, prefix and group that are chosen.
Elements == <<WireTuiDevice>> \o CableOrder
Listed(rs, only) == AtPlaces(Elements, {i \in DOMAIN Elements : Exists(rs, Elements[i]) /\ Elements[i] \in only})

IdAt(row) ==
    LET here == Listed(records, list.only) IN IF row < Len(here) THEN here[row + 1] ELSE NoElementOpen
SelectedId == IdAt(list.row)

\* Fault: the row stays, whatever the list has become.
FollowsRow(new, only, row) == [only |-> only, row |-> row]

\* The row follows the element that was selected.
Follows(new, only, row) ==
    LET after == Listed(new, only)
        found == {i \in DOMAIN after : after[i] = IdAt(row)}
    IN  [only |-> only, row |-> IF found # {} THEN Min(found) - 1 ELSE Min({row, Max({0, Len(after) - 1})})]

TakesAll(row) == records' = idf' /\ list' = Follows(idf', list.only, row)

-----------------------------------------------------------------------------
(* The window of an element *)

\* editor_option_index is None
NoOption == -1

Closed == [id |-> NoElementOpen, focus |-> "view", port |-> 0, side |-> 0, menu |-> 0, scope |-> "general",
           field |-> 0, buffer |-> FALSE, option |-> NoOption, action |-> 0, target |-> NoText, browse |-> FALSE]
NoUtility == [window |-> "none", id |-> NoElementOpen]

IsOpen == open.id # NoElementOpen
Shown == Exists(records, open.id)
IsDeviceDetail == open.id = WireTuiDevice /\ Shown
IsCableDetail == open.id \in TuiCable /\ Shown
Ports == IF IsDeviceDetail THEN records.ports ELSE << >>

\* _selected_connector
HasPort == Ports # << >> /\ open.port >= 0
SelectedPort == Ports[Min({open.port, Len(Ports) - 1}) + 1]
SelectedCable == IF HasPort THEN CableAt(records, SelectedPort) ELSE NoElementOpen
MenuCount == IF SelectedCable # NoElementOpen THEN 7 ELSE 4

\* cable_sides
SideIsUsed == open.side < Len(records.ends[open.id])

\* _editing_fields
Fields ==
    IF IsDeviceDetail
    THEN IF open.scope = "general" THEN <<"data", "lanip", "ports">>
         ELSE IF HasPort THEN <<"name", "position", "data", "remove">> ELSE << >>
    ELSE IF IsCableDetail /\ SideIsUsed THEN <<"data", "lanip", "end">> ELSE <<"data", "lanip">>

\* _editor_field: an error when there is none.
NoField == ~Shown \/ Fields = << >>
Field == Fields[Min({open.field, Len(Fields) - 1}) + 1]

\* _editor_options: those of lanipDevice are read from devices.json at every key,
\* the others are always the same.
Options == IF Field = "lanip" THEN lanip ELSE 1

\* What is set again before it is read is not kept; an option is selected in the editor only.
Settled(to) ==
    [to EXCEPT !.scope = IF to.focus = "editor" THEN @ ELSE "general", !.field = IF to.focus = "editor" THEN @ ELSE 0,
               !.option = IF to.focus = "editor" THEN @ ELSE NoOption,
               !.action = IF to.focus = "actions" THEN @ ELSE 0, !.menu = IF to.focus = "view" THEN 0 ELSE @]

\* Every key is followed by a drawing, which keeps the option that is selected in the menu.
Draws(to) ==
    LET count == IF to.id = WireTuiDevice /\ Exists(records', WireTuiDevice)
                    /\ (to.port < 0 \/ records'.ports = << >>
                        \/ CableAt(records', records'.ports[Min({to.port, Len(records'.ports) - 1}) + 1])
                             = NoElementOpen)
                 THEN 4 ELSE 7
    IN  open' = [Settled(to) EXCEPT !.menu = Min({@, count - 1})]

Stays == records' = records /\ UNCHANGED <<idf, list, elsewhereVars, running>>
Turns(to) == Stays /\ UNCHANGED <<stack, utility, typed>> /\ Draws(to)

\* An operation of its own, and reload.
Writes(f, to) ==
    /\ idf' = f /\ TakesAll(list.row) /\ Draws(to)
    /\ UNCHANGED <<stack, utility, typed, running, elsewhereVars>>

\* The interface ends, and its memory with it.
Stops(how) ==
    /\ running' = how /\ records' = idf /\ list' = AllDevices /\ open' = Closed /\ stack' = << >>
    /\ utility' = NoUtility /\ typed' = FALSE /\ outdated' = FALSE /\ UNCHANGED <<idf, lanip, others, altered, fewer>>

Fails == Stops("error")

\* _open_detail, ENTER, show
Opened(id) == [Closed EXCEPT !.id = id, !.target = open.target, !.browse = open.browse]

\* Its focus and its selections are set when an element is opened.
Left == [Opened(NoElementOpen) EXCEPT !.buffer = open.buffer]

MoveRange(n, from) == {Max({0, Min({n - 1, from - 1})}), Max({0, Min({n - 1, from + 1})})}

-----------------------------------------------------------------------------
(* _follow_connection, _navigate_back *)

GoesTo(id, port, side) ==
    /\ Len(stack) < MaxDepth
    /\ stack' = Append(stack, [id |-> open.id, port |-> open.port, side |-> open.side])
    /\ Stays /\ UNCHANGED <<utility, typed>>
    /\ Draws([open EXCEPT !.id = id, !.focus = "view", !.port = port, !.side = side])

OtherSide(w) ==
    LET ends == records.ends[w]
        here == IF ends[1] = SelectedPort THEN 0 ELSE 1
    IN  IF Len(ends) = 2 THEN 1 - here ELSE here

FollowConnection(to) ==
    \/ /\ HasPort /\ SelectedCable # NoElementOpen
       /\ GoesTo(SelectedCable, 0, OtherSide(SelectedCable))
    \/ /\ IsCableDetail /\ SideIsUsed /\ Exists(records, WireTuiDevice)
       /\ LET at == records.ends[open.id][open.side + 1]
              found == {i \in DOMAIN records.ports : records.ports[i] = at}
          IN  GoesTo(WireTuiDevice, IF found = {} THEN 0 ELSE Min(found) - 1, 0)
    \/ /\ ~(HasPort /\ SelectedCable # NoElementOpen)
       /\ ~(IsCableDetail /\ SideIsUsed /\ Exists(records, WireTuiDevice))
       /\ Turns(to)

NavigateBack ==
    /\ stack # << >> /\ stack' = Front(stack) /\ Stays /\ UNCHANGED <<utility, typed>>
    /\ Draws([open EXCEPT !.id = Last(stack).id, !.port = Last(stack).port, !.side = Last(stack).side,
                          !.focus = "view", !.buffer = FALSE])

-----------------------------------------------------------------------------
(* The editor *)

\* database.update of the data of the element as it is in memory, with another value.
SavesData(to) ==
    IF open.id = WireTuiDevice
    THEN \/ MayUpdateDevice(idf, records.ports) /\ Writes(WithPorts(idf, records.ports), to)
         \/ Turns(to)
    ELSE \/ Exists(idf, open.id) /\ Writes(WithEnds(idf, open.id, records.ends[open.id]), to)
         \/ Turns(to)

\* portCount, portNaming: a port that has a cable in memory, or in the file, stays.
SavesPorts(to) ==
    \/ \E ps \in PortLists :
          /\ \A p \in ToSet(records.ports) \ ToSet(ps) : CableAt(records, p) = NoElementOpen
          /\ MayUpdateDevice(idf, ps) /\ Writes(WithPorts(idf, ps), to)
    \/ Turns(to)

SavesName(to) ==
    \/ \E q \in PortName :
          /\ MayRename(idf, SelectedPort, q)
          /\ LET new == RenamedPort(idf, SelectedPort, q)
             IN  Writes(new, [to EXCEPT !.port = (CHOOSE i \in DOMAIN new.ports : new.ports[i] = q) - 1])
    \/ Turns(to)

SavesPosition(to) ==
    \/ \E ps \in PortLists :
          /\ Exists(idf, WireTuiDevice) /\ SelectedPort \in ToSet(idf.ports)
          /\ Except(ps, SelectedPort) = Except(idf.ports, SelectedPort) /\ SelectedPort \in ToSet(ps)
          /\ Writes(WithPorts(idf, ps),
                    [to EXCEPT !.port = (CHOOSE i \in DOMAIN ps : ps[i] = SelectedPort) - 1])
    \/ Turns(to)

SavesEnd(to) ==
    \/ /\ Exists(idf, open.id)
       /\ \E q \in PortName :
             Writes(WithEnds(idf, open.id, [records.ends[open.id] EXCEPT ![open.side + 1] = q]), to)
    \/ Turns(to)

\* _delete_selected_port
DeletePort(to) ==
    IF ~HasPort \/ SelectedCable # NoElementOpen THEN Turns(to)
    ELSE LET ps == Except(records.ports, SelectedPort)
         IN  IF MayUpdateDevice(idf, ps)
             THEN Writes(WithPorts(idf, ps),
                         [to EXCEPT !.port = Min({@, Len(ps) - 1}), !.focus = "menu", !.menu = 0])
             ELSE Turns(to)

\* _edit_or_save_field
SaveField ==
    LET to == [open EXCEPT !.buffer = FALSE, !.option = NoOption] IN
    CASE Field \in {"data", "lanip"} -> SavesData(to)
      [] Field = "ports" -> SavesPorts(to) [] Field = "end" -> SavesEnd(to)
      [] Field = "name" -> SavesName(to) [] Field = "position" -> SavesPosition(to)
      [] Field = "remove" -> DeletePort(to)

\* _apply_editor_option: the options are as they are now, the index is not.
ApplyOption ==
    CASE Options = 0 -> Turns(open)
      [] open.option < Options -> SaveField
      [] 0 < Options /\ Options <= open.option -> Stops("index")

\* RIGHT, ENTER, UP and DOWN among the options.
OptionKey ==
    \/ /\ ~open.buffer /\ Field \in {"data", "lanip", "ports"} /\ Options > 0
       /\ Turns([open EXCEPT !.option = 0])
    \/ /\ open.option # NoOption
       /\ \/ \E i \in MoveRange(Options, open.option) : Turns([open EXCEPT !.option = i])
          \/ ApplyOption

\* Some fields have options, and some begin with them.
EditorKey ==
    /\ open.focus = "editor"
    /\ \/ Turns([open EXCEPT !.focus = IF IsDeviceDetail THEN "menu" ELSE "actions",
                             !.buffer = FALSE, !.option = NoOption])
       \/ (open.buffer \/ open.option # NoOption)
          /\ Turns([open EXCEPT !.buffer = FALSE, !.option = IF open.buffer THEN @ ELSE NoOption])
       \/ ~open.buffer /\ open.option = NoOption
          /\ Turns([open EXCEPT !.focus = IF IsDeviceDetail THEN "menu" ELSE "view"])
       \/ /\ ~open.buffer /\ open.option = NoOption /\ Shown
          /\ \E i \in MoveRange(Len(Fields), open.field) : Turns([open EXCEPT !.field = i])
       \/ NoField /\ Fails
       \/ ~NoField /\ OptionKey
       \/ /\ ~NoField /\ ~open.buffer /\ open.option = NoOption /\ (Field = "lanip" => Options = 0)
          /\ Turns([open EXCEPT !.buffer = TRUE])
       \/ ~NoField /\ open.buffer /\ open.option = NoOption /\ SaveField

-----------------------------------------------------------------------------
(* The actions on a connector, or on a side of a cable *)

\* _disconnect_selected_port: what database.update raises is not caught.
DisconnectPort(to) ==
    IF Exists(idf, SelectedCable)
    THEN Writes(WithEnds(idf, SelectedCable, Except(records.ends[SelectedCable], SelectedPort)), to)
    ELSE Fails

\* _connect_selected_port
ConnectPort(w, from, to) ==
    \/ /\ w \in TuiCable /\ Exists(records, w) /\ SelectedCable = NoElementOpen
       /\ Len(records.ends[w]) < 2 /\ Exists(idf, w)
       /\ Writes(WithEnds(idf, w, Append(records.ends[w], SelectedPort)), to)
    \/ Turns(from)

\* _move_selected_connection
MovePort(p, from, to) ==
    \/ /\ SelectedCable # NoElementOpen /\ p \in ToSet(Ports) /\ CableAt(records, p) = NoElementOpen
       /\ Exists(idf, SelectedCable)
       /\ Writes(WithEnds(idf, SelectedCable, NewName(records.ends[SelectedCable], SelectedPort, p)),
                 [to EXCEPT !.port = (CHOOSE i \in DOMAIN Ports : Ports[i] = p) - 1])
    \/ Turns(from)

\* _execute_connector_action
ConnectorAction(from) ==
    LET to == [from EXCEPT !.target = NoText, !.action = 0, !.focus = "menu"]
        chosen == Min({from.action, 2})
    IN  CASE ~HasPort -> Turns(from)
          [] HasPort /\ SelectedCable = NoElementOpen /\ from.target = NoText ->
                Turns([from EXCEPT !.browse = TRUE, !.action = 0])
          [] HasPort /\ SelectedCable = NoElementOpen /\ from.target # NoText -> ConnectPort(from.target, from, to)
          [] SelectedCable # NoElementOpen /\ chosen = 0 -> DisconnectPort([from EXCEPT !.action = 0])
          [] SelectedCable # NoElementOpen /\ chosen = 1 /\ from.target = NoText ->
                Turns([from EXCEPT !.target = ""])
          [] SelectedCable # NoElementOpen /\ chosen = 1 /\ from.target # NoText -> MovePort(from.target, from, to)
          [] SelectedCable # NoElementOpen /\ chosen = 2 -> FollowConnection([from EXCEPT !.focus = "view"])

\* _execute_wire_side_action: a cable that is gone is not caught.
CableSideAction(from) ==
    LET ends == records.ends[open.id]
        to == [from EXCEPT !.target = NoText]
    IN  CASE SideIsUsed ->
                IF Exists(idf, open.id)
                THEN Writes(WithEnds(idf, open.id, Except(ends, ends[open.side + 1])), to) ELSE Fails
          [] ~SideIsUsed /\ from.target = NoText -> Turns(from) \/ Turns([from EXCEPT !.browse = TRUE])
          [] ~SideIsUsed /\ from.target # NoText ->
                \/ /\ Exists(records, WireTuiDevice) /\ from.target \in ToSet(records.ports)
                   /\ CableAt(records, from.target) = NoElementOpen /\ Len(ends) < 2
                   /\ IF Exists(idf, open.id) THEN Writes(WithEnds(idf, open.id, Append(ends, from.target)), to)
                      ELSE Fails
                \/ Turns(from)

Execute(from) == IF IsCableDetail THEN CableSideAction(from) ELSE ConnectorAction(from)

\* _action_options
Offered ==
    IF IsCableDetail
    THEN {p \in PortName : /\ Exists(records, WireTuiDevice) /\ p \in ToSet(records.ports)
                           /\ CableAt(records, p) = NoElementOpen}
    ELSE IF HasPort THEN {w \in TuiCable : Exists(records, w) /\ Len(records.ends[w]) < 2} ELSE {}

ActionsKey ==
    /\ open.focus = "actions"
    /\ \/ Turns([open EXCEPT !.focus = IF IsCableDetail THEN "view" ELSE "menu", !.target = NoText,
                             !.browse = FALSE])
       \/ open.browse /\ Turns([open EXCEPT !.browse = FALSE])
       \/ open.browse /\ open.target \notin {NoText, ""} /\ Execute([open EXCEPT !.browse = FALSE])
       \/ /\ open.browse /\ open.target \in {NoText, ""}
          /\ \E o \in Offered : Execute([open EXCEPT !.browse = FALSE, !.target = o])
       \/ ~open.browse /\ open.target # NoText /\ Turns([open EXCEPT !.target = NoText])
       \/ ~open.browse /\ open.target = NoText
          /\ Turns([open EXCEPT !.focus = IF IsCableDetail THEN "view" ELSE "menu"])
       \/ /\ ~open.browse /\ open.target = NoText
          /\ \E i \in MoveRange(IF SelectedCable # NoElementOpen THEN 3 ELSE 1, open.action) :
                Turns([open EXCEPT !.action = i])
       \/ ~open.browse /\ Execute(open)
       \/ /\ ~open.browse /\ open.target # NoText
          /\ \E text \in PortName \cup {""} : Turns([open EXCEPT !.target = text])

-----------------------------------------------------------------------------
(* The options of a device *)

OpensUtility(window, id) ==
    /\ utility' = [window |-> window, id |-> id] /\ Stays /\ UNCHANGED <<open, stack, typed>>

\* Fault: the data of a port are opened without one.
ChooseUnchecked ==
    /\ open.menu \in {0, 1}
    /\ Turns([open EXCEPT !.scope = IF open.menu = 0 THEN "general" ELSE "port",
                          !.focus = "editor", !.field = 0, !.buffer = FALSE, !.option = NoOption])

ChooseData ==
    /\ open.menu \in {0, 1}
    /\ IF open.menu = 1 /\ ~HasPort THEN Turns(open)
       ELSE Turns([open EXCEPT !.scope = IF open.menu = 0 THEN "general" ELSE "port",
                               !.focus = "editor", !.field = 0, !.buffer = FALSE, !.option = NoOption])

\* _choose_element_option
ChooseOption ==
    LET acts == [open EXCEPT !.focus = "actions", !.target = NoText]
        cable == SelectedCable # NoElementOpen
    IN  \/ ChooseData
        \/ open.menu = 3 /\ OpensUtility("delete", open.id)
        \/ open.menu = 2 /\ (IF HasPort /\ ~cable THEN ConnectorAction([acts EXCEPT !.action = 0]) ELSE Turns(open))
        \/ open.menu = 4 /\ cable /\ FollowConnection([open EXCEPT !.focus = "view"])
        \/ open.menu = 5 /\ cable /\ DisconnectPort([open EXCEPT !.menu = 2])
        \/ open.menu = 6 /\ cable /\ ConnectorAction([acts EXCEPT !.action = 1])
        \/ open.menu \in 4..6 /\ ~cable /\ Turns(open)

MenuKey ==
    /\ open.focus = "menu"
    /\ \/ Turns([open EXCEPT !.focus = "view"])
       \/ \E i \in MoveRange(MenuCount, open.menu) : Turns([open EXCEPT !.menu = i])
       \/ ChooseOption

-----------------------------------------------------------------------------
(* Other keys *)

\* Plugins, project, history, the graph and settings are closed by their keys, and do no more.
OpensPlain == \E window \in {"help", "plain"} : OpensUtility(window, NoElementOpen)

\* UP, DOWN, LEFT and RIGHT: a port, or a side.
MoveSelection ==
    \/ /\ Ports # << >>
       /\ \E i \in {open.port - 1, open.port + 1} :
             Turns([open EXCEPT !.port = Max({-1, Min({Len(Ports) - 1, i})})])
    \/ IsCableDetail /\ \E i \in {0, 1} : Turns([open EXCEPT !.side = i])

Ends == Stops("ended")

ViewKey ==
    /\ open.focus = "view"
    /\ \/ OpensPlain \/ Ends
       \/ open' = Left /\ stack' = << >> /\ Stays /\ UNCHANGED <<utility, typed>>
       \/ IF IsDeviceDetail THEN Turns([open EXCEPT !.focus = "menu", !.menu = 0])
          ELSE Turns([open EXCEPT !.focus = "editor", !.scope = "general", !.field = 0,
                                  !.buffer = FALSE, !.option = NoOption])
       \/ MoveSelection
       \/ ~IsDeviceDetail /\ FollowConnection(open)
       \/ NavigateBack

\* F3, unless something is being edited.
FollowKey ==
    /\ ~open.buffer /\ open.option = NoOption /\ ~open.browse /\ open.target = NoText /\ FollowConnection(open)

\* _handle_utility_key
UtilityKey ==
    /\ utility.window # "none"
    /\ \/ /\ utility' = NoUtility /\ Stays /\ UNCHANGED <<open, stack>>
          /\ typed' \in {typed, utility.window = "help" \/ typed}
       \/ /\ utility.window = "delete" /\ utility' = NoUtility
          /\ IF Exists(idf, utility.id)
             THEN /\ idf' = Erased(idf, utility.id) /\ TakesAll(0)
                  /\ open' = Left /\ stack' = << >>
                  /\ UNCHANGED <<typed, running, elsewhereVars>>
             ELSE Stays /\ UNCHANGED <<open, stack, typed>>

ListKey ==
    \/ OpensPlain \/ Ends
    \/ ~typed /\ SelectedId # NoElementOpen /\ OpensUtility("delete", SelectedId)
    \/ /\ ~typed /\ SelectedId # NoElementOpen /\ stack' = << >> /\ Stays /\ UNCHANGED <<utility, typed>>
       /\ Draws(Opened(SelectedId))
    \/ /\ ~typed /\ \E only \in Filters : list' = Follows(idf, only, 0)
       /\ records' = idf /\ UNCHANGED <<idf, open, stack, utility, typed, running, elsewhereVars>>
    \/ /\ ~typed /\ \E i \in MoveRange(Len(Listed(records, list.only)), list.row) : list' = [list EXCEPT !.row = i]
       /\ UNCHANGED <<idf, records, open, stack, utility, typed, running, elsewhereVars>>
    \/ typed' = ~typed /\ UNCHANGED <<idf, records, list, open, stack, utility, running, elsewhereVars>>

\* CommandProcessor: add and seed, delete, element.
Commanded ==
    {Erased(idf, id) : id \in {i \in Identifier : Exists(idf, i)}}
    \cup {Added(idf, id) : id \in {i \in Identifier : ~Exists(idf, i)}}
    \cup {WithPorts(idf, ps) : ps \in {qs \in PortLists : MayUpdateDevice(idf, qs)}}
    \cup UNION {{WithEnds(idf, w, [idf.ends[w] EXCEPT ![1] = q]) : q \in PortName} :
                    w \in {v \in TuiCable : Exists(idf, v) /\ idf.ends[v] # << >>}}

\* execute
ExecuteCommand ==
    /\ typed
    /\ \/ Ends
       \/ /\ typed' = FALSE /\ UNCHANGED <<running, elsewhereVars>>
          /\ \/ /\ \E only \in Filters : list' = Follows(idf, only, 0)
                /\ records' = idf /\ UNCHANGED <<idf, open, stack, utility>>
             \/ \E id \in Identifier : /\ Exists(idf, id) /\ open' = Opened(id) /\ stack' = << >>
                                       /\ UNCHANGED <<idf, records, list, utility>>
             \/ /\ utility' = [window |-> "plain", id |-> NoElementOpen]
                /\ UNCHANGED <<idf, records, list, open, stack>>
             \/ idf' \in Commanded \cup {idf} /\ TakesAll(list.row) /\ UNCHANGED <<open, stack, utility>>

\* handle_key
WireTuiKey ==
    \/ UtilityKey
    \/ utility.window = "none" /\ IsOpen /\ (FollowKey \/ EditorKey \/ MenuKey \/ ActionsKey \/ ViewKey)
    \/ utility.window = "none" /\ ~IsOpen /\ (ListKey \/ ExecuteCommand)

\* run: the event is taken while no element is open.
TakeEvent ==
    /\ outdated /\ ~IsOpen /\ ~open.buffer /\ outdated' = FALSE
    /\ records' = idf /\ list' = Follows(idf, list.only, list.row)
    /\ UNCHANGED <<idf, open, stack, utility, typed, running, lanip, others, altered, fewer>>

\* Another session, and its event.
OtherWrites ==
    /\ others < MaxOthers /\ others' = others + 1 /\ outdated' = TRUE
    /\ \/ \E id \in Identifier : Exists(idf, id) /\ idf' = Erased(idf, id) /\ altered' = TRUE
       \/ \E id \in Identifier : ~Exists(idf, id) /\ idf' = Added(idf, id) /\ altered' = TRUE
       \/ /\ UNCHANGED altered
          /\ \/ \E p, q \in PortName : MayRename(idf, p, q) /\ p # q /\ idf' = RenamedPort(idf, p, q)
             \/ \E w \in TuiCable, p \in PortName :
                   /\ Exists(idf, w)
                   /\ \/ p \in ToSet(idf.ends[w]) /\ idf' = WithEnds(idf, w, Except(idf.ends[w], p))
                      \/ Len(idf.ends[w]) < 2 /\ idf' = WithEnds(idf, w, Append(idf.ends[w], p))
    /\ UNCHANGED <<records, open, windowVars, running, lanip, fewer>>

\* Another session changes devices.json; its event, if it sends one, is the same.
OtherDevices ==
    /\ others < MaxOthers /\ others' = others + 1 /\ outdated' \in {outdated, TRUE}
    /\ lanip' \in 0..LanipDevices
    /\ fewer' = (fewer \/ (0 < lanip' /\ lanip' <= open.option))
    /\ UNCHANGED <<idf, records, open, windowVars, running, altered>>

WireTuiInit ==
    /\ idf \in [ports : PortLists, ends : [TuiCable -> {<< >>}]]
    /\ records = idf
    /\ list = AllDevices
    /\ open = Closed /\ stack = << >> /\ utility = NoUtility
    /\ typed = FALSE /\ outdated = FALSE /\ running = "yes" /\ others = 0 /\ altered = FALSE
    /\ lanip \in 0..LanipDevices /\ fewer = FALSE

WireTuiNext ==
    \/ running = "yes" /\ (WireTuiKey \/ TakeEvent)
    \/ running = "yes" /\ (OtherWrites \/ OtherDevices)

WireTuiSpec == WireTuiInit /\ [][WireTuiNext]_wireTuiVars

-----------------------------------------------------------------------------
(* Properties *)

Records == [ports : PortLists \cup {NoRecord}, ends : [TuiCable -> CableEnds \cup {NoRecord}]]

WireTuiTypeOK ==
    /\ idf \in Records /\ records \in Records
    /\ list.row = 0 \/ list.row < Len(Listed(records, list.only))
    /\ open.id \in Identifier \cup {NoElementOpen} /\ open.focus \in {"view", "menu", "editor", "actions"}
    /\ open.port \in -1..Cardinality(PortName) /\ open.menu \in 0..6
    /\ open.target \in {NoText, ""} \cup PortName \cup TuiCable
    /\ Len(stack) <= MaxDepth /\ running \in {"yes", "ended", "error", "index"}
    /\ open.option \in Nat \cup {NoOption} /\ lanip \in 0..LanipDevices
    /\ utility.id # NoElementOpen <=> utility.window = "delete"

\* No sequence of keys ends the interface with an error: an editor always has a field, and an
\* operation an element, unless another session has deleted or added one; and with no element open
\* nothing is left being edited, which would keep changes from being taken.  A key finds no option
\* at the place of the selected one only when another session has deleted that device meanwhile.
\* (LanwireTui._editor_field, _apply_editor_option, _disconnect_selected_port, run.)
NoKeyFails ==
    /\ running = "error" => altered
    /\ running = "index" => fewer
    /\ ~IsOpen => ~open.buffer
================================================================================
