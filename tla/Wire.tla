---------------------------------- MODULE Wire ----------------------------------
(***************************************************************************)
(* apps/wire: one file holds devices with their ports and cables with their *)
(* ends.  An operation on it is one locked read and write.  An editor works *)
(* on a copy of all records, which it takes again after each operation and  *)
(* when it hears of a change while nothing is being edited: it checks what  *)
(* it is about to do on its copy, and writes the data of an element whole.  *)
(*                                                                         *)
(* The kind of a connection, racks, prefixes and names are left out, and an *)
(* element keeps its type.                                                  *)
(***************************************************************************)
EXTENDS Integers, FiniteSets

CONSTANTS WireDevice, Cable, Port, Editor, NoElement

ASSUME WireAssumption ==
    /\ \A names \in SUBSET Port : names # NoElement
    /\ \A data \in SUBSET (WireDevice \X Port) : data # NoElement

VARIABLES
    ports,          \* of each device
    ends,           \* of each cable: device and port
    copy,           \* LanwireTui.all_records, or the record that a command has read
    checked         \* history: no old copy was written, and no end typed by hand

wireVars == <<ports, ends, copy, checked>>

End == WireDevice \X Port
Devices(ps) == {d \in WireDevice : ps[d] # NoElement}
Cables(es) == {w \in Cable : es[w] # NoElement}
Current == [ports |-> ports, ends |-> ends]

\* wire_for_port # None
Used(c, end) == \E w \in Cables(c.ends) : end \in c.ends[w]

WireInit ==
    /\ ports = [d \in WireDevice |-> NoElement] /\ ends = [w \in Cable |-> NoElement]
    /\ copy = [e \in Editor |-> Current]
    /\ checked = TRUE

Reload(e) == copy' = [copy EXCEPT ![e] = [ports |-> ports', ends |-> ends']]

\* The file has changed, or a command reads it.
Refresh(e) ==
    /\ UNCHANGED <<ports, ends, checked>>
    /\ Reload(e)

-----------------------------------------------------------------------------
(* IDFDatabaseManager *)

\* create, add
AddDevice(e, d, names) ==
    /\ ports[d] = NoElement /\ ports' = [ports EXCEPT ![d] = names]
    /\ UNCHANGED <<ends, checked>>
    /\ Reload(e)

AddCable(e, w) ==
    /\ ends[w] = NoElement /\ ends' = [ends EXCEPT ![w] = {}]
    /\ UNCHANGED <<ports, checked>>
    /\ Reload(e)

\* update of a cable, which must exist: what its ends are is not looked at.
UpdateCable(e, w, data) ==
    /\ w \in Cables(ends)
    /\ ends' = [ends EXCEPT ![w] = data]
    /\ UNCHANGED ports
    /\ Reload(e)

\* update of a device: a port that has a cable is not removed.
UpdateDevice(e, d, names) ==
    /\ d \in Devices(ports)
    /\ \A p \in ports[d] \ names : ~Used(Current, <<d, p>>)
    /\ ports' = [ports EXCEPT ![d] = names]
    /\ UNCHANGED ends
    /\ Reload(e)

\* Fault: the cables keep the old name.
RenameOnly(e, d, p, q) ==
    /\ d \in Devices(ports) /\ p \in ports[d] /\ q \notin ports[d]
    /\ ports' = [ports EXCEPT ![d] = (@ \ {p}) \cup {q}]
    /\ UNCHANGED <<ends, checked>>
    /\ Reload(e)

\* edit_port: the ends at the port follow its name.
EditPort(e, d, p, q) ==
    /\ d \in Devices(ports) /\ p \in ports[d] /\ q \notin ports[d]
    /\ ports' = [ports EXCEPT ![d] = (@ \ {p}) \cup {q}]
    /\ ends' = [w \in Cable |->
          IF w \in Cables(ends) /\ <<d, p>> \in ends[w]
          THEN (ends[w] \ {<<d, p>>}) \cup {<<d, q>>} ELSE ends[w]]
    /\ UNCHANGED checked
    /\ Reload(e)

\* Fault: the cables of the device are left as they are.
DeleteOnly(e, d) ==
    /\ d \in Devices(ports) /\ ports' = [ports EXCEPT ![d] = NoElement]
    /\ UNCHANGED <<ends, checked>>
    /\ Reload(e)

\* delete: and the ends that are at the device.
DeleteDevice(e, d) ==
    /\ d \in Devices(ports) /\ ports' = [ports EXCEPT ![d] = NoElement]
    /\ ends' = [w \in Cable |-> IF w \in Cables(ends) THEN {x \in ends[w] : x[1] # d} ELSE ends[w]]
    /\ UNCHANGED checked
    /\ Reload(e)

DeleteCable(e, w) ==
    /\ w \in Cables(ends) /\ ends' = [ends EXCEPT ![w] = NoElement]
    /\ UNCHANGED <<ports, checked>>
    /\ Reload(e)

-----------------------------------------------------------------------------
(* Editors: what they write is made of their copy *)

Checked(e) == checked' = (checked /\ copy[e] = Current)
Uncabled(c, end) ==
    end[1] \in Devices(c.ports) /\ end[2] \in c.ports[end[1]] /\ ~Used(c, end)

\* _connect_selected_port; and _execute_wire_side_action on a free side
Connect(e, w, end) ==
    /\ w \in Cables(copy[e].ends) /\ Cardinality(copy[e].ends[w]) < 2
    /\ Uncabled(copy[e], end)
    /\ UpdateCable(e, w, copy[e].ends[w] \cup {end})
    /\ Checked(e)

\* _disconnect_selected_port; and _execute_wire_side_action on a side that is used
Disconnect(e, w, end) ==
    /\ w \in Cables(copy[e].ends) /\ end \in copy[e].ends[w]
    /\ UpdateCable(e, w, copy[e].ends[w] \ {end})
    /\ Checked(e)

\* _move_selected_connection: to another port of the device
Move(e, w, end, p) ==
    /\ w \in Cables(copy[e].ends) /\ end \in copy[e].ends[w]
    /\ Uncabled(copy[e], <<end[1], p>>)
    /\ UpdateCable(e, w, (copy[e].ends[w] \ {end}) \cup {<<end[1], p>>})
    /\ Checked(e)

\* _edit_or_save_field, or the element command, on another field of a cable
EditCable(e, w) ==
    /\ w \in Cables(copy[e].ends)
    /\ UpdateCable(e, w, copy[e].ends[w])
    /\ Checked(e)

\* ... on one of its ends, which are typed
TypeEnd(e, w, end, typed) ==
    /\ w \in Cables(copy[e].ends) /\ end \in copy[e].ends[w]
    /\ UpdateCable(e, w, (copy[e].ends[w] \ {end}) \cup {typed})
    /\ checked' = FALSE

\* ... on a device: its port count and names, or another field; _delete_selected_port
EditDevice(e, d, names) ==
    /\ d \in Devices(copy[e].ports)
    /\ \A p \in copy[e].ports[d] \ names : ~Used(copy[e], <<d, p>>)
    /\ UpdateDevice(e, d, names)
    /\ Checked(e)

WireNext == \E e \in Editor :
    \/ Refresh(e)
    \/ \E d \in WireDevice : \/ DeleteDevice(e, d)
                         \/ \E names \in SUBSET Port : AddDevice(e, d, names) \/ EditDevice(e, d, names)
                         \/ \E p, q \in Port : EditPort(e, d, p, q)
    \/ \E w \in Cable : \/ AddCable(e, w) \/ DeleteCable(e, w) \/ EditCable(e, w)
                        \/ \E x \in End : \/ Connect(e, w, x) \/ Disconnect(e, w, x)
                                          \/ \E p \in Port : Move(e, w, x, p)
                                          \/ \E y \in End : TypeEnd(e, w, x, y)

WireSpec == WireInit /\ [][WireNext]_wireVars

-----------------------------------------------------------------------------
\* The variables have their types, and a cable has two ends at most.
WireTypeOK ==
    /\ ports \in [WireDevice -> (SUBSET Port) \cup {NoElement}]
    /\ DOMAIN ends = Cable
    /\ \A w \in Cables(ends) : ends[w] \subseteq End /\ Cardinality(ends[w]) <= 2
    /\ checked \in BOOLEAN

IsPort(ps, end) == end[1] \in Devices(ps) /\ end[2] \in ps[end[1]]

\* A link that is kept keeps its port: no step takes away the port, or the device, that a
\* cable is connected to before and after it, however old the copy that it comes from.
UsedPortsStay ==
    [][\A w \in Cables(ends) \cap Cables(ends') : \A x \in ends[w] \cap ends'[w] :
          IsPort(ports, x) => IsPort(ports', x)]_wireVars

\* "para que la topología no conserve enlaces colgantes": every end is a port, and a port has
\* one cable, for as long as no editor has written an old copy or an end typed by hand.
LinksAreSound ==
    checked => \A w \in Cables(ends) : \A x \in ends[w] :
        IsPort(ports, x) /\ \A v \in Cables(ends) : x \in ends[v] => v = w
================================================================================
