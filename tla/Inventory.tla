------------------------------ MODULE Inventory ------------------------------
(***************************************************************************)
(* The LANIP inventory as its users see it: the device list (devices.json) *)
(* and the group list (groups.json) as ONE value that changes by whole     *)
(* operations.  This is what core/group_database.py and core/database.py   *)
(* promise; DeviceGroupStore is how they do it with two files, file locks  *)
(* and a journal, and is shown to implement this module.                   *)
(*                                                                         *)
(* A device is reduced to what the operations on the pair read and write:  *)
(* whether it is listed, its role (GATEWAY and BRODCAST are reserved), its *)
(* MAC, and the groups it names (Device.groups).  A group is its name and  *)
(* its members, which are MACs.  The list is what load() makes of the      *)
(* file: a device with a role always names BASIC.                          *)
(***************************************************************************)
EXTENDS FiniteSets, Naturals

CONSTANTS
    Device,     \* devices that may be in the inventory
    Mac,
    NoMac,      \* the MAC of a device that is only known by its IP
    Private,    \* random MACs
    Broadcast,  \* the MAC that BRODCAST always has
    Group,      \* group names
    Basic,      \* the BASIC group, never editable
    Catalogue   \* groups a record of a scan may bring (recurrent elements, demo)

ASSUME InventoryAssumption ==
    /\ NoMac \notin Mac
    /\ Private \subseteq Mac
    /\ Broadcast \in Mac
    /\ Basic \in Group
    /\ Catalogue \subseteq Group

\* The contents of devices.json...
DeviceFile ==
    {dev \in [present : SUBSET Device,
              reserved : SUBSET Device,
              mac : [Device -> Mac \cup {NoMac}],
              in : SUBSET (Device \X Group)] :
        /\ dev.reserved \subseteq dev.present
        /\ \A d \in Device \ dev.present : dev.mac[d] = NoMac
        /\ \A e \in dev.in : e[1] \in dev.present
        /\ \A d \in dev.reserved : <<d, Basic>> \in dev.in}
\* ...and of groups.json.
GroupFile == [names : SUBSET Group, members : SUBSET (Group \X Mac)]

Inventories == [dev : DeviceFile, grp : GroupFile]

EmptyDevices == [present |-> {}, reserved |-> {}, mac |-> [d \in Device |-> NoMac], in |-> {}]
\* GroupDatabase.load of a missing file answers with BASIC alone.
DefaultGroups == [names |-> {Basic}, members |-> {}]

\* Listed devices that share their MAC with another one.
Twins(dev) ==
    {d \in dev.present : /\ dev.mac[d] # NoMac
                         /\ \E e \in dev.present \ {d} : dev.mac[e] = dev.mac[d]}

-----------------------------------------------------------------------------
(* Operations that write both files through _commit_pair. *)

Editable(grp) == grp.names \ {Basic}

\* The listed devices that may be put into groups.
Known(dev) == {d \in dev.present : dev.mac[d] # NoMac}

\* The groups a device is put into list the MAC it has then.
AddMembers(i, d, gs) ==
    [dev |-> [i.dev EXCEPT !.in = @ \cup ({d} \X gs)],
     grp |-> [i.grp EXCEPT !.members = @ \cup (gs \X {i.dev.mac[d]})]]

AddMember(i, d, g) == AddMembers(i, d, {g})

AddMemberResults(i) == {AddMember(i, d, g) : d \in Known(i.dev), g \in Editable(i.grp)}

RemoveMember(i, d, g) ==
    [dev |-> [i.dev EXCEPT !.in = @ \ {<<d, g>>}],
     grp |-> [i.grp EXCEPT !.members = @ \ {<<g, i.dev.mac[d]>>}]]

RemoveMemberResults(i) == {RemoveMember(i, d, g) : d \in Known(i.dev), g \in Editable(i.grp)}

\* Fault: the devices keep naming the deleted group.
DeleteGroupKeptByDevices(i, g) ==
    [dev |-> i.dev,
     grp |-> [names |-> i.grp.names \ {g},
              members |-> {m \in i.grp.members : m[1] # g}]]

DeleteGroup(i, g) ==
    [dev |-> [i.dev EXCEPT !.in = {e \in @ : e[2] # g}],
     grp |-> [names |-> i.grp.names \ {g},
              members |-> {m \in i.grp.members : m[1] # g}]]

DeleteGroupResults(i) == {DeleteGroup(i, g) : g \in Editable(i.grp)}

Renamed(g, h, x) == IF x = g THEN h ELSE x

RenameGroup(i, g, h) ==
    [dev |-> [i.dev EXCEPT !.in = {<<e[1], Renamed(g, h, e[2])>> : e \in @}],
     grp |-> [names |-> (i.grp.names \ {g}) \cup {h},
              members |-> {<<Renamed(g, h, m[1]), m[2]>> : m \in i.grp.members}]]

RenameGroupResults(i) ==
    {RenameGroup(i, g, h) : g \in Editable(i.grp), h \in Group \ i.grp.names}

Without(dev, gone) ==
    [present |-> dev.present \ gone,
     reserved |-> dev.reserved \ gone,
     mac |-> [d \in Device |-> IF d \in gone THEN NoMac ELSE dev.mac[d]],
     in |-> {e \in dev.in : e[1] \notin gone}]

DeleteDevice(i, d) ==
    [dev |-> Without(i.dev, {d}),
     grp |-> [i.grp EXCEPT !.members = {m \in @ : m[2] # i.dev.mac[d]}]]

DeleteDeviceResults(i) == {DeleteDevice(i, d) : d \in i.dev.present \ i.dev.reserved}

\* ensure_basic: BASIC exists and lists the MAC of every reserved device.
EnsureBasic(i) ==
    [dev |-> i.dev,
     grp |-> [names |-> i.grp.names \cup {Basic},
              members |-> i.grp.members
                  \cup {<<Basic, i.dev.mac[d]>> : d \in i.dev.reserved \cap Known(i.dev)}]]

\* A device of no role whose alias is edited to a reserved one gets the role
\* when it is next loaded, and BRODCAST its MAC.
Promoted(dev, d, mac) ==
    [present |-> dev.present,
     reserved |-> dev.reserved \cup {d},
     mac |-> [dev.mac EXCEPT ![d] = mac],
     in |-> dev.in \cup {<<d, Basic>>}]

\* Edits of one device.  A name, a description, a protocol are not told apart;
\* no two devices get the same alias.
EditedDevice(dev, d) ==
    {dev} \cup {Promoted(dev, d, mac) :
                    mac \in IF d \in dev.reserved \/ Cardinality(dev.reserved) >= 2
                            THEN {} ELSE {dev.mac[d], Broadcast}}

EditedDevices(dev) == UNION {EditedDevice(dev, d) : d \in dev.present}

\* edit_device_fields: groups and other fields in one commit.
EditFields(i, d, gs) ==
    LET added == AddMembers(i, d, gs)
    IN {[added EXCEPT !.dev = dev] : dev \in EditedDevice(added.dev, d)}

EditFieldsResults(i) ==
    UNION ({EditFields(i, d, {}) : d \in i.dev.present}
             \cup {EditFields(i, d, gs) : d \in Known(i.dev), gs \in SUBSET Editable(i.grp)})

PairResults(i) ==
    AddMemberResults(i) \cup RemoveMemberResults(i) \cup DeleteGroupResults(i)
      \cup RenameGroupResults(i) \cup DeleteDeviceResults(i) \cup {EnsureBasic(i)}
      \cup EditFieldsResults(i)

-----------------------------------------------------------------------------
(* Operations that rewrite one file. *)

\* GroupDatabase.create (set_description leaves this content as it is).
GroupResults(i) ==
    {i} \cup {[i EXCEPT !.grp.names = @ \cup {g}] : g \in Group \ i.grp.names}

\* preview: the MAC of a record merged into a listed device.  A device found by
\* its role takes any, one without a MAC any, the others a random one only.
MayTake(dev, seen, d, mac) ==
    \/ mac = dev.mac[d]
    \/ mac # NoMac /\ (d \in dev.reserved \cup seen.reserved \/ dev.mac[d] = NoMac)
    \/ mac \in Private

\* preview: the MACs of the list tell its devices apart, so that two come to share
\* one only when it was taken by role, or was shared before.
Apart(dev, seen) ==
    \A d, e \in Twins(seen) :
        d # e /\ seen.mac[d] = seen.mac[e] =>
            {d, e} \cap (dev.reserved \cup seen.reserved \cup Twins(dev)) # {}

\* What the records of a scan can make of the list: devices are added, and those
\* they match get their MAC and their role (or lose it to an alias of the
\* catalogue), and name their groups besides their own.  BASIC comes with a role.
PreviewResults(dev) ==
    {seen \in DeviceFile :
        /\ dev.present \subseteq seen.present
        /\ \A d \in dev.present : MayTake(dev, seen, d, seen.mac[d])
        /\ Apart(dev, seen)
        /\ dev.in \subseteq seen.in
        /\ \A e \in seen.in \ dev.in : e[2] \in Catalogue \cup {Basic}}

\* DeviceDatabase: upsert, add_device and the field edits.
DeviceResults(dev) == EditedDevices(dev) \cup PreviewResults(dev)

\* A scan: preview, then the retention policy sets absent devices aside, but
\* never the reserved ones.
ScanResults(dev) ==
    UNION {{Without(seen, gone) : gone \in SUBSET (seen.present \ seen.reserved)} :
           seen \in PreviewResults(dev)}

-----------------------------------------------------------------------------
(* What the operations keep, and what they do not: groups.json is not written *)
(* with the device list alone, so a device whose MAC or groups come from a     *)
(* record, or from an old list that is saved again, may name groups that do   *)
(* not list it.                                                               *)

\* Devices in groups that get another MAC, and those that come to share theirs.
Rekeyed(dev, after) ==
    (Twins(after) \ Twins(dev))
      \cup {d \in after.present : /\ after.mac[d] # dev.mac[d]
                                  /\ \E g \in Group \ {Basic} : <<d, g>> \in after.in}

\* Devices that name a group they did not name, or BASIC without a role.
Regrouped(dev, after) ==
    {e[1] : e \in {x \in after.in : IF x[2] = Basic THEN x[1] \notin after.reserved
                                                    ELSE x \notin dev.in}}

GroupsExist(grp) == Basic \in grp.names /\ \A m \in grp.members : m[1] \in grp.names

\* What a device says of its groups is so in groups.json.
Agrees(i, e) ==
    /\ e[2] \in i.grp.names
    /\ e[2] = Basic => e[1] \in i.dev.reserved
    /\ e[2] # Basic /\ i.dev.mac[e[1]] # NoMac => <<e[2], i.dev.mac[e[1]]>> \in i.grp.members

\* Only devices set adrift by the above share a MAC or disagree with groups.json.
Kept(i, adrift) ==
    /\ GroupsExist(i.grp)
    /\ Twins(i.dev) \subseteq adrift
    /\ \A e \in i.dev.in : e[1] \in adrift \/ Agrees(i, e)
=============================================================================
