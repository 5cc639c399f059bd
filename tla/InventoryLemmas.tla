--------------------------- MODULE InventoryLemmas ---------------------------
(***************************************************************************)
(* The operations on the inventory stay in its type and keep it consistent, *)
(* for every set of devices, MACs and groups.                               *)
(***************************************************************************)
EXTENDS Inventory, TLAPS

-----------------------------------------------------------------------------
(* Types. *)

LEMMA InventoryFields ==
    ASSUME NEW i \in Inventories
    PROVE  /\ i.dev \in DeviceFile
           /\ i.grp \in GroupFile
           /\ i = [dev |-> i.dev, grp |-> i.grp]
BY DEF Inventories

\* What the fields of a device list are...
LEMMA DeviceFields ==
    ASSUME NEW dev \in DeviceFile
    PROVE  /\ dev.present \subseteq Device
           /\ dev.reserved \subseteq dev.present
           /\ dev.mac \in [Device -> Mac \cup {NoMac}]
           /\ dev.in \subseteq Device \X Group
           /\ \A d \in Device \ dev.present : dev.mac[d] = NoMac
           /\ \A e \in dev.in : e[1] \in dev.present
           /\ \A d \in dev.reserved : <<d, Basic>> \in dev.in
           /\ dev = [present |-> dev.present, reserved |-> dev.reserved,
                     mac |-> dev.mac, in |-> dev.in]
BY DEF DeviceFile

\* ...and what makes a record one.
LEMMA DeviceMade ==
    ASSUME NEW P \in SUBSET Device, NEW R \in SUBSET P,
           NEW M \in [Device -> Mac \cup {NoMac}], NEW N \in SUBSET (Device \X Group),
           \A d \in Device \ P : M[d] = NoMac,
           \A e \in N : e[1] \in P,
           \A d \in R : <<d, Basic>> \in N
    PROVE  [present |-> P, reserved |-> R, mac |-> M, in |-> N] \in DeviceFile
BY DEF DeviceFile

LEMMA PromotedTyped ==
    ASSUME NEW dev \in DeviceFile, NEW d \in dev.present, NEW mac \in Mac \cup {NoMac}
    PROVE  Promoted(dev, d, mac) \in DeviceFile
<1> DEFINE R == dev.reserved \cup {d}
           M == [dev.mac EXCEPT ![d] = mac]
           N == dev.in \cup {<<d, Basic>>}
<1>1. Promoted(dev, d, mac) = [present |-> dev.present, reserved |-> R, mac |-> M, in |-> N]
  BY DEF Promoted
<1>2. R \in SUBSET dev.present /\ N \in SUBSET (Device \X Group)
  BY DeviceFields, InventoryAssumption
<1>3. M \in [Device -> Mac \cup {NoMac}] /\ \A x \in Device \ dev.present : M[x] = NoMac
  BY DeviceFields
<1>4. /\ \A e \in N : e[1] \in dev.present
      /\ \A x \in R : <<x, Basic>> \in N
  BY DeviceFields
<1> HIDE DEF R, M, N
<1>. QED  BY <1>1, <1>2, <1>3, <1>4, DeviceMade, DeviceFields

LEMMA EditTyped ==
    ASSUME NEW dev \in DeviceFile, NEW d \in dev.present, NEW edited \in EditedDevice(dev, d)
    PROVE  edited \in DeviceFile
<1>1. dev.mac[d] \in Mac \cup {NoMac} /\ Broadcast \in Mac
  BY DeviceFields, InventoryAssumption
<1>. QED  BY <1>1, PromotedTyped DEF EditedDevice

LEMMA WithoutTyped ==
    ASSUME NEW dev \in DeviceFile, NEW gone
    PROVE  Without(dev, gone) \in DeviceFile
<1> DEFINE M == [d \in Device |-> IF d \in gone THEN NoMac ELSE dev.mac[d]]
           N == {e \in dev.in : e[1] \notin gone}
<1>1. dev.present \ gone \in SUBSET Device /\ dev.reserved \ gone \in SUBSET (dev.present \ gone)
  BY DeviceFields
<1>2. M \in [Device -> Mac \cup {NoMac}] /\ \A x \in Device \ (dev.present \ gone) : M[x] = NoMac
  BY DeviceFields
<1>3. /\ N \in SUBSET (Device \X Group)
      /\ \A e \in N : e[1] \in dev.present \ gone
      /\ \A x \in dev.reserved \ gone : <<x, Basic>> \in N
  BY DeviceFields
<1>4. Without(dev, gone) = [present |-> dev.present \ gone, reserved |-> dev.reserved \ gone,
                            mac |-> M, in |-> N]
  BY DEF Without
<1> HIDE DEF M, N
<1>. QED  BY <1>1, <1>2, <1>3, <1>4, DeviceMade

LEMMA DeviceTyped ==
    ASSUME NEW dev \in DeviceFile, NEW after \in DeviceResults(dev)
    PROVE  after \in DeviceFile
BY EditTyped DEF DeviceResults, EditedDevices, PreviewResults

LEMMA ScanTyped ==
    ASSUME NEW dev \in DeviceFile, NEW after \in ScanResults(dev)
    PROVE  after \in DeviceFile
BY WithoutTyped DEF ScanResults, PreviewResults

LEMMA GroupTyped ==
    ASSUME NEW i \in Inventories, NEW after \in GroupResults(i)
    PROVE  after \in Inventories /\ after.dev = i.dev
BY DEF GroupResults, Inventories, GroupFile

\* A change of the groups that listed devices name, BASIC aside.
LEMMA RegroupTyped ==
    ASSUME NEW dev \in DeviceFile, NEW N \in SUBSET (Device \X Group),
           \A e \in N : e[1] \in dev.present,
           \A d \in dev.reserved : <<d, Basic>> \in N
    PROVE  /\ [dev EXCEPT !.in = N] \in DeviceFile
           /\ [dev EXCEPT !.in = N].present = dev.present
           /\ [dev EXCEPT !.in = N].reserved = dev.reserved
           /\ [dev EXCEPT !.in = N].mac = dev.mac
           /\ [dev EXCEPT !.in = N].in = N
<1>1. [dev EXCEPT !.in = N] =
          [present |-> dev.present, reserved |-> dev.reserved, mac |-> dev.mac, in |-> N]
  BY DeviceFields
<1>. QED  BY <1>1, DeviceMade, DeviceFields

LEMMA RenameTyped ==
    ASSUME NEW i \in Inventories, NEW g \in Group \ {Basic}, NEW h \in Group
    PROVE  /\ RenameGroup(i, g, h) \in Inventories
           /\ RenameGroup(i, g, h).dev.reserved = i.dev.reserved
           /\ RenameGroup(i, g, h).dev.mac = i.dev.mac
           /\ RenameGroup(i, g, h).dev.present = i.dev.present
           /\ RenameGroup(i, g, h).dev.in = {<<e[1], Renamed(g, h, e[2])>> : e \in i.dev.in}
<1>1. i.dev \in DeviceFile /\ i.grp \in GroupFile
  BY InventoryFields
<1> DEFINE ins == {<<e[1], Renamed(g, h, e[2])>> : e \in i.dev.in}
           mem == {<<Renamed(g, h, m[1]), m[2]>> : m \in i.grp.members}
<1>2. ins \in SUBSET (Device \X Group) /\ \A e \in ins : e[1] \in i.dev.present
  BY <1>1, DeviceFields DEF Renamed
<1>3. \A d \in i.dev.reserved : <<d, Basic>> \in ins
  <2>1. SUFFICES ASSUME NEW d \in i.dev.reserved
                 PROVE  <<d, Basic>> \in ins
    OBVIOUS
  <2>2. <<d, Basic>> \in i.dev.in
    BY <1>1, DeviceFields
  <2>3. <<<<d, Basic>>[1], Renamed(g, h, <<d, Basic>>[2])>> \in ins
    BY <2>2
  <2>4. Renamed(g, h, Basic) = Basic
    BY DEF Renamed
  <2>. QED  BY <2>3, <2>4
<1>4. mem \subseteq Group \X Mac
  BY <1>1 DEF Renamed, GroupFile
<1>5. [names |-> (i.grp.names \ {g}) \cup {h}, members |-> mem] \in GroupFile
  BY <1>1, <1>4 DEF GroupFile
<1> DEFINE D == [i.dev EXCEPT !.in = ins]
           F == [names |-> (i.grp.names \ {g}) \cup {h}, members |-> mem]
<1>6. RenameGroup(i, g, h) = [dev |-> D, grp |-> F]
  BY DEF RenameGroup
<1> HIDE DEF ins, mem
<1>7. /\ [i.dev EXCEPT !.in = ins] \in DeviceFile
      /\ [i.dev EXCEPT !.in = ins].present = i.dev.present
      /\ [i.dev EXCEPT !.in = ins].reserved = i.dev.reserved
      /\ [i.dev EXCEPT !.in = ins].mac = i.dev.mac
      /\ [i.dev EXCEPT !.in = ins].in = ins
  BY <1>1, <1>2, <1>3, RegroupTyped
<1> HIDE DEF D, F
<1>8. RenameGroup(i, g, h).dev = D
  BY <1>6
<1>9. RenameGroup(i, g, h) \in Inventories
  BY <1>5, <1>6, <1>7 DEF Inventories, D, F
<1>. QED  BY <1>7, <1>8, <1>9 DEF ins, D

\* The groups and the device after some groups were added to it.
LEMMA AddTyped ==
    ASSUME NEW i \in Inventories, NEW d \in i.dev.present, NEW gs \in SUBSET Editable(i.grp),
           gs # {} => d \in Known(i.dev)
    PROVE  LET j == AddMembers(i, d, gs) IN
           /\ j \in Inventories
           /\ j.dev.present = i.dev.present
           /\ j.dev.reserved = i.dev.reserved
           /\ j.dev.mac = i.dev.mac
           /\ j.dev.in = i.dev.in \cup ({d} \X gs)
           /\ j.grp.names = i.grp.names
           /\ j.grp.members = i.grp.members \cup (gs \X {i.dev.mac[d]})
<1>1. i.dev \in DeviceFile /\ i.grp \in GroupFile
  BY InventoryFields
<1> DEFINE N == i.dev.in \cup ({d} \X gs)
           S == i.grp.members \cup (gs \X {i.dev.mac[d]})
<1>2. gs \subseteq Group /\ d \in Device
  BY <1>1, DeviceFields DEF Editable, GroupFile
<1>3. /\ N \in SUBSET (Device \X Group)
      /\ \A e \in N : e[1] \in i.dev.present
      /\ \A x \in i.dev.reserved : <<x, Basic>> \in N
  BY <1>1, <1>2, DeviceFields
<1>4. gs # {} => i.dev.mac[d] \in Mac
  BY <1>1, <1>2, DeviceFields DEF Known
<1>5. S \in SUBSET (Group \X Mac)
  BY <1>1, <1>2, <1>4 DEF GroupFile
<1>6. AddMembers(i, d, gs) = [dev |-> [i.dev EXCEPT !.in = N],
                              grp |-> [i.grp EXCEPT !.members = S]]
  BY DEF AddMembers
<1>7. /\ [i.grp EXCEPT !.members = S] \in GroupFile
      /\ [i.grp EXCEPT !.members = S].names = i.grp.names
      /\ [i.grp EXCEPT !.members = S].members = S
  BY <1>1, <1>5 DEF GroupFile
<1> HIDE DEF N, S
<1>8. /\ [i.dev EXCEPT !.in = N] \in DeviceFile
      /\ [i.dev EXCEPT !.in = N].present = i.dev.present
      /\ [i.dev EXCEPT !.in = N].reserved = i.dev.reserved
      /\ [i.dev EXCEPT !.in = N].mac = i.dev.mac
      /\ [i.dev EXCEPT !.in = N].in = N
  BY <1>1, <1>3, RegroupTyped
<1> DEFINE D == [i.dev EXCEPT !.in = N]
           G == [i.grp EXCEPT !.members = S]
<1> HIDE DEF D, G
<1>d. AddMembers(i, d, gs).dev = D /\ AddMembers(i, d, gs).grp = G
  BY <1>6 DEF D, G
<1>i. AddMembers(i, d, gs) \in Inventories
  BY <1>6, <1>7, <1>8 DEF Inventories, D, G
<1>. QED  BY <1>d, <1>i, <1>7, <1>8 DEF D, G, N, S

LEMMA EditFieldsMade ==
    ASSUME NEW i \in Inventories, NEW after \in EditFieldsResults(i)
    PROVE  \E d \in i.dev.present : \E gs \in SUBSET Editable(i.grp) :
              /\ gs # {} => d \in Known(i.dev)
              /\ \E dev \in EditedDevice(AddMembers(i, d, gs).dev, d) :
                    after = [AddMembers(i, d, gs) EXCEPT !.dev = dev]
<1>1. Known(i.dev) \subseteq i.dev.present
  BY DEF Known
<1>2. PICK d \in i.dev.present : \E gs \in SUBSET Editable(i.grp) :
              (gs # {} => d \in Known(i.dev)) /\ after \in EditFields(i, d, gs)
  BY <1>1 DEF EditFieldsResults
<1>. QED  BY <1>2 DEF EditFields

LEMMA RemoveTyped ==
    ASSUME NEW i \in Inventories, NEW d \in Known(i.dev), NEW g \in Editable(i.grp)
    PROVE  LET j == RemoveMember(i, d, g) IN
           /\ j \in Inventories
           /\ j.dev.present = i.dev.present
           /\ j.dev.reserved = i.dev.reserved
           /\ j.dev.mac = i.dev.mac
           /\ j.dev.in = i.dev.in \ {<<d, g>>}
           /\ j.grp.names = i.grp.names
           /\ j.grp.members = i.grp.members \ {<<g, i.dev.mac[d]>>}
<1>1. i.dev \in DeviceFile /\ i.grp \in GroupFile
  BY InventoryFields
<1> DEFINE N == i.dev.in \ {<<d, g>>}
           S == i.grp.members \ {<<g, i.dev.mac[d]>>}
<1>2. /\ N \in SUBSET (Device \X Group)
      /\ \A e \in N : e[1] \in i.dev.present
      /\ \A x \in i.dev.reserved : <<x, Basic>> \in N
  BY <1>1, DeviceFields DEF Editable
<1>3. RemoveMember(i, d, g) = [dev |-> [i.dev EXCEPT !.in = N],
                               grp |-> [i.grp EXCEPT !.members = S]]
  BY DEF RemoveMember
<1>4. /\ [i.grp EXCEPT !.members = S] \in GroupFile
      /\ [i.grp EXCEPT !.members = S].names = i.grp.names
      /\ [i.grp EXCEPT !.members = S].members = S
  BY <1>1 DEF GroupFile
<1> HIDE DEF N, S
<1>5. /\ [i.dev EXCEPT !.in = N] \in DeviceFile
      /\ [i.dev EXCEPT !.in = N].present = i.dev.present
      /\ [i.dev EXCEPT !.in = N].reserved = i.dev.reserved
      /\ [i.dev EXCEPT !.in = N].mac = i.dev.mac
      /\ [i.dev EXCEPT !.in = N].in = N
  BY <1>1, <1>2, RegroupTyped
<1> DEFINE D == [i.dev EXCEPT !.in = N]
           G == [i.grp EXCEPT !.members = S]
<1> HIDE DEF D, G
<1>d. RemoveMember(i, d, g).dev = D /\ RemoveMember(i, d, g).grp = G
  BY <1>3 DEF D, G
<1>i. RemoveMember(i, d, g) \in Inventories
  BY <1>3, <1>4, <1>5 DEF Inventories, D, G
<1>. QED  BY <1>d, <1>i, <1>4, <1>5 DEF D, G, N, S

LEMMA DeleteGroupTyped ==
    ASSUME NEW i \in Inventories, NEW g \in Editable(i.grp)
    PROVE  LET j == DeleteGroup(i, g) IN
           /\ j \in Inventories
           /\ j.dev.present = i.dev.present
           /\ j.dev.reserved = i.dev.reserved
           /\ j.dev.mac = i.dev.mac
           /\ j.dev.in = {e \in i.dev.in : e[2] # g}
           /\ j.grp.names = i.grp.names \ {g}
           /\ j.grp.members = {m \in i.grp.members : m[1] # g}
<1>1. i.dev \in DeviceFile /\ i.grp \in GroupFile
  BY InventoryFields
<1> DEFINE N == {e \in i.dev.in : e[2] # g}
           F == [names |-> i.grp.names \ {g}, members |-> {m \in i.grp.members : m[1] # g}]
<1>2. /\ N \in SUBSET (Device \X Group)
      /\ \A e \in N : e[1] \in i.dev.present
      /\ \A x \in i.dev.reserved : <<x, Basic>> \in N
  BY <1>1, DeviceFields DEF Editable
<1>3. DeleteGroup(i, g) = [dev |-> [i.dev EXCEPT !.in = N], grp |-> F]
  BY DEF DeleteGroup
<1>4. F \in GroupFile
  BY <1>1 DEF GroupFile
<1> HIDE DEF N
<1>5. /\ [i.dev EXCEPT !.in = N] \in DeviceFile
      /\ [i.dev EXCEPT !.in = N].present = i.dev.present
      /\ [i.dev EXCEPT !.in = N].reserved = i.dev.reserved
      /\ [i.dev EXCEPT !.in = N].mac = i.dev.mac
      /\ [i.dev EXCEPT !.in = N].in = N
  BY <1>1, <1>2, RegroupTyped
<1> DEFINE D == [i.dev EXCEPT !.in = N]
<1> HIDE DEF D, F
<1>d. DeleteGroup(i, g).dev = D /\ DeleteGroup(i, g).grp = F
  BY <1>3 DEF D, F
<1>i. DeleteGroup(i, g) \in Inventories
  BY <1>3, <1>4, <1>5 DEF Inventories, D, F
<1>. QED  BY <1>d, <1>i, <1>4, <1>5 DEF D, F, N

LEMMA PairTyped ==
    ASSUME NEW i \in Inventories, NEW after \in PairResults(i)
    PROVE  after \in Inventories
<1>1. i.dev \in DeviceFile /\ i.grp \in GroupFile
  BY InventoryFields
<1>2. CASE after \in AddMemberResults(i)
  <2>1. PICK d \in Known(i.dev), g \in Editable(i.grp) : after = AddMember(i, d, g)
    BY <1>2 DEF AddMemberResults
  <2>2. d \in i.dev.present /\ {g} \in SUBSET Editable(i.grp)
    BY DEF Known
  <2>. QED  BY <2>1, <2>2, AddTyped DEF AddMember
<1>3. CASE after \in RemoveMemberResults(i)
  BY <1>3, RemoveTyped DEF RemoveMemberResults
<1>4. CASE after \in DeleteGroupResults(i)
  BY <1>4, DeleteGroupTyped DEF DeleteGroupResults
<1>5. CASE after \in RenameGroupResults(i)
  BY <1>1, <1>5, RenameTyped DEF RenameGroupResults, Editable, GroupFile
<1>6. CASE after \in DeleteDeviceResults(i)
  <2>1. PICK d \in i.dev.present : after = DeleteDevice(i, d)
    BY <1>6 DEF DeleteDeviceResults
  <2>2. Without(i.dev, {d}) \in DeviceFile
    BY <1>1, WithoutTyped
  <2>. QED  BY <1>1, <2>1, <2>2 DEF DeleteDevice, Inventories, GroupFile
<1>7. CASE after = EnsureBasic(i)
  <2>1. \A d \in Known(i.dev) : i.dev.mac[d] \in Mac
    BY <1>1, DeviceFields DEF Known
  <2>2. [names |-> i.grp.names \cup {Basic},
         members |-> i.grp.members
            \cup {<<Basic, i.dev.mac[d]>> : d \in i.dev.reserved \cap Known(i.dev)}] \in GroupFile
    BY <1>1, <2>1, InventoryAssumption DEF GroupFile
  <2>. QED  BY <1>1, <1>7, <2>2 DEF EnsureBasic, Inventories
<1>8. CASE after \in EditFieldsResults(i)
  <2>1. PICK d \in i.dev.present, gs \in SUBSET Editable(i.grp) :
              /\ gs # {} => d \in Known(i.dev)
              /\ \E dev \in EditedDevice(AddMembers(i, d, gs).dev, d) :
                    after = [AddMembers(i, d, gs) EXCEPT !.dev = dev]
    BY <1>8, EditFieldsMade
  <2> DEFINE j == AddMembers(i, d, gs)
  <2>2. j \in Inventories /\ d \in j.dev.present
    BY <2>1, AddTyped
  <2>3. PICK dev \in EditedDevice(j.dev, d) : after = [j EXCEPT !.dev = dev]
    BY <2>1
  <2> HIDE DEF j
  <2>4. dev \in DeviceFile
    BY <2>2, <2>3, EditTyped, InventoryFields
  <2>. QED  BY <2>2, <2>3, <2>4 DEF Inventories
<1>. QED  BY <1>2, <1>3, <1>4, <1>5, <1>6, <1>7, <1>8 DEF PairResults

-----------------------------------------------------------------------------
(* Consistency. *)

\* When devices.json is rewritten alone, whatever the new list is, only devices
\* set adrift by the change disagree with the groups.
LEMMA AloneKeeps ==
    ASSUME NEW i \in Inventories, NEW adrift, Kept(i, adrift), NEW dev \in DeviceFile
    PROVE  Kept([i EXCEPT !.dev = dev],
                adrift \cup Rekeyed(i.dev, dev) \cup Regrouped(i.dev, dev))
<1> DEFINE j == [i EXCEPT !.dev = dev]
           now == adrift \cup Rekeyed(i.dev, dev) \cup Regrouped(i.dev, dev)
<1>1. i.dev \in DeviceFile /\ j.dev = dev /\ j.grp = i.grp
  BY InventoryFields DEF Inventories
<1> HIDE DEF j
<1>2. GroupsExist(j.grp)
  BY <1>1 DEF Kept
<1>3. Twins(j.dev) \subseteq now
  BY <1>1 DEF Kept, Rekeyed
<1>4. ASSUME NEW e \in dev.in, e[1] \notin now
      PROVE  Agrees(j, e)
  <2>1. e[1] \in dev.present /\ e = <<e[1], e[2]>> /\ e[2] \in Group
    BY DeviceFields
  <2>2. IF e[2] = Basic THEN e[1] \in dev.reserved ELSE e \in i.dev.in
    BY <1>4 DEF Regrouped
  <2>3. CASE e[2] = Basic
    BY <1>1, <2>2, <2>3 DEF Agrees, Kept, GroupsExist
  <2>4. CASE e[2] # Basic
    <3>1. e \in i.dev.in /\ e[1] \notin adrift
      BY <1>4, <2>2, <2>4
    <3>2. Agrees(i, e)
      BY <3>1 DEF Kept
    <3>3. dev.mac[e[1]] = i.dev.mac[e[1]]
      BY <1>4, <2>1, <2>4 DEF Rekeyed
    <3>. QED  BY <1>1, <2>4, <3>2, <3>3 DEF Agrees
  <2>. QED  BY <2>3, <2>4
<1>. QED  BY <1>1, <1>2, <1>3, <1>4 DEF Kept, j

LEMMA GroupKeeps ==
    ASSUME NEW i \in Inventories, NEW adrift, Kept(i, adrift), NEW after \in GroupResults(i)
    PROVE  Kept(after, adrift)
<1>1. after.dev = i.dev /\ i.grp.names \subseteq after.grp.names
                        /\ after.grp.members = i.grp.members
  BY DEF GroupResults, Inventories, GroupFile
<1>. QED  BY <1>1 DEF Kept, GroupsExist, Agrees

\* A change of both files that leaves MACs and roles as they are.
LEMMA SameMacs ==
    ASSUME NEW before, NEW after,
           after.present \subseteq before.present,
           \A d \in after.present : after.mac[d] = before.mac[d]
    PROVE  Twins(after) \subseteq Twins(before) /\ Rekeyed(before, after) = {}
BY DEF Twins, Rekeyed

LEMMA AddKeeps ==
    ASSUME NEW i \in Inventories, NEW adrift, Kept(i, adrift),
           NEW d \in i.dev.present, NEW gs \in SUBSET Editable(i.grp),
           gs # {} => d \in Known(i.dev)
    PROVE  Kept(AddMembers(i, d, gs), adrift)
<1> DEFINE j == AddMembers(i, d, gs)
<1>1. /\ j.dev.present = i.dev.present
      /\ j.dev.reserved = i.dev.reserved
      /\ j.dev.mac = i.dev.mac
      /\ j.dev.in = i.dev.in \cup ({d} \X gs)
      /\ j.grp.names = i.grp.names
      /\ j.grp.members = i.grp.members \cup (gs \X {i.dev.mac[d]})
  BY AddTyped
<1> HIDE DEF j
<1>2. GroupsExist(j.grp)
  BY <1>1 DEF Kept, GroupsExist, Editable
<1>3. Twins(j.dev) \subseteq adrift
  BY <1>1, SameMacs DEF Kept
<1>4. ASSUME NEW e \in j.dev.in, e[1] \notin adrift
      PROVE  Agrees(j, e)
  <2>1. CASE e \in i.dev.in
    BY <1>1, <1>4, <2>1 DEF Kept, Agrees
  <2>2. CASE e \in {d} \X gs
    BY <1>1, <2>2 DEF Agrees, Editable
  <2>. QED  BY <1>1, <2>1, <2>2
<1>. QED  BY <1>2, <1>3, <1>4 DEF Kept, j

\* A device that gets a role keeps the groups it had.
LEMMA EditKeeps ==
    ASSUME NEW i \in Inventories, NEW adrift, Kept(i, adrift),
           NEW d \in i.dev.present, NEW dev \in EditedDevice(i.dev, d)
    PROVE  Kept([i EXCEPT !.dev = dev], adrift \cup Rekeyed(i.dev, dev))
<1>1. i.dev \in DeviceFile
  BY InventoryFields
<1>2. dev \in DeviceFile
  BY <1>1, EditTyped
<1>3. /\ \A e \in dev.in : e[2] = Basic \/ e \in i.dev.in
      /\ \A x \in i.dev.reserved : x \in dev.reserved
      /\ \A e \in dev.in : e[2] = Basic => e \in i.dev.in \/ e[1] \in dev.reserved
  BY DEF EditedDevice, Promoted
<1>4. Kept([i EXCEPT !.dev = dev],
           adrift \cup Rekeyed(i.dev, dev) \cup Regrouped(i.dev, dev))
  BY <1>2, AloneKeeps
<1>5. Regrouped(i.dev, dev) \subseteq adrift
  <2>1. SUFFICES ASSUME NEW e \in dev.in,
                        IF e[2] = Basic THEN e[1] \notin dev.reserved ELSE e \notin i.dev.in
                 PROVE  e[1] \in adrift
    BY DEF Regrouped
  <2>2. e[2] = Basic /\ e \in i.dev.in /\ e[1] \notin i.dev.reserved
    BY <1>3, <2>1
  <2>. QED  BY <2>2 DEF Kept, Agrees
<1>6. adrift \cup Rekeyed(i.dev, dev) \cup Regrouped(i.dev, dev) = adrift \cup Rekeyed(i.dev, dev)
  BY <1>5
<1>. QED  BY <1>4, <1>6

LEMMA RemoveKeeps ==
    ASSUME NEW i \in Inventories, NEW adrift, Kept(i, adrift),
           NEW d \in Known(i.dev), NEW g \in Editable(i.grp)
    PROVE  Kept(RemoveMember(i, d, g), adrift)
<1> DEFINE j == RemoveMember(i, d, g)
<1>1. /\ j.dev.present = i.dev.present
      /\ j.dev.reserved = i.dev.reserved
      /\ j.dev.mac = i.dev.mac
      /\ j.dev.in = i.dev.in \ {<<d, g>>}
      /\ j.grp.names = i.grp.names
      /\ j.grp.members = i.grp.members \ {<<g, i.dev.mac[d]>>}
  BY RemoveTyped
<1>2. i.dev \in DeviceFile
  BY InventoryFields
<1> HIDE DEF j
<1>3. GroupsExist(j.grp)
  BY <1>1 DEF Kept, GroupsExist
<1>4. Twins(j.dev) \subseteq adrift
  BY <1>1, SameMacs DEF Kept
<1>5. ASSUME NEW e \in j.dev.in, e[1] \notin adrift
      PROVE  Agrees(j, e)
  <2>1. e \in i.dev.in /\ Agrees(i, e) /\ e[1] \in i.dev.present /\ e = <<e[1], e[2]>>
    BY <1>1, <1>2, <1>5, DeviceFields DEF Kept
  <2>2. ASSUME i.dev.mac[e[1]] # NoMac
        PROVE  <<e[2], i.dev.mac[e[1]]>> # <<g, i.dev.mac[d]>>
    <3>1. SUFFICES ASSUME e[2] = g, i.dev.mac[e[1]] = i.dev.mac[d]
                   PROVE  FALSE
      OBVIOUS
    <3>2. e[1] # d
      BY <1>1, <2>1, <3>1
    <3>3. e[1] \in Twins(i.dev)
      BY <2>1, <2>2, <3>1, <3>2 DEF Twins, Known
    <3>. QED  BY <1>5, <3>3 DEF Kept
  <2>. QED  BY <1>1, <2>1, <2>2 DEF Agrees
<1>. QED  BY <1>3, <1>4, <1>5 DEF Kept, j

LEMMA DeleteGroupKeeps ==
    ASSUME NEW i \in Inventories, NEW adrift, Kept(i, adrift), NEW g \in Editable(i.grp)
    PROVE  Kept(DeleteGroup(i, g), adrift)
<1> DEFINE j == DeleteGroup(i, g)
<1>1. /\ j.dev.present = i.dev.present
      /\ j.dev.reserved = i.dev.reserved
      /\ j.dev.mac = i.dev.mac
      /\ j.dev.in = {e \in i.dev.in : e[2] # g}
      /\ j.grp.names = i.grp.names \ {g}
      /\ j.grp.members = {m \in i.grp.members : m[1] # g}
  BY DeleteGroupTyped
<1> HIDE DEF j
<1>2. GroupsExist(j.grp)
  BY <1>1 DEF Kept, GroupsExist, Editable
<1>3. Twins(j.dev) \subseteq adrift
  BY <1>1, SameMacs DEF Kept
<1>4. \A e \in j.dev.in : e[1] \in adrift \/ Agrees(j, e)
  BY <1>1 DEF Kept, Agrees
<1>. QED  BY <1>2, <1>3, <1>4 DEF Kept, j

LEMMA RenameKeeps ==
    ASSUME NEW i \in Inventories, NEW adrift, Kept(i, adrift),
           NEW g \in Editable(i.grp), NEW h \in Group \ i.grp.names
    PROVE  Kept(RenameGroup(i, g, h), adrift)
<1> DEFINE j == RenameGroup(i, g, h)
<1>1. i.grp \in GroupFile /\ g \in Group \ {Basic} /\ h # Basic
  BY InventoryFields DEF Editable, GroupFile, Kept, GroupsExist
<1>2. /\ j.dev.reserved = i.dev.reserved
      /\ j.dev.mac = i.dev.mac
      /\ j.dev.present = i.dev.present
      /\ j.dev.in = {<<e[1], Renamed(g, h, e[2])>> : e \in i.dev.in}
  BY <1>1, RenameTyped
<1>3. /\ j.grp.names = (i.grp.names \ {g}) \cup {h}
      /\ j.grp.members = {<<Renamed(g, h, m[1]), m[2]>> : m \in i.grp.members}
  BY DEF RenameGroup
<1> HIDE DEF j
<1>4. \A x \in i.grp.names : Renamed(g, h, x) \in j.grp.names
  BY <1>3 DEF Renamed
<1>5. ASSUME NEW m \in j.grp.members
      PROVE  \E x \in i.grp.members : m[1] = Renamed(g, h, x[1])
  BY <1>3
<1>6. GroupsExist(j.grp)
  BY <1>1, <1>3, <1>4, <1>5 DEF Kept, GroupsExist
<1>7. Twins(j.dev) \subseteq adrift
  BY <1>2, SameMacs DEF Kept
<1>8. ASSUME NEW e \in j.dev.in, e[1] \notin adrift
      PROVE  Agrees(j, e)
  <2>1. PICK x \in i.dev.in : e = <<x[1], Renamed(g, h, x[2])>>
    BY <1>2
  <2>2. Agrees(i, x) /\ e[1] = x[1] /\ e[2] = Renamed(g, h, x[2])
    BY <1>8, <2>1 DEF Kept
  <2>3. e[2] \in j.grp.names
    BY <1>4, <2>2 DEF Agrees
  <2>4. e[2] = Basic => x[2] = Basic
    BY <1>1, <2>2 DEF Renamed
  <2>5. x[2] = Basic => e[2] = Basic
    BY <1>1, <2>2 DEF Renamed
  <2>6. ASSUME <<x[2], i.dev.mac[x[1]]>> \in i.grp.members
        PROVE  <<e[2], i.dev.mac[x[1]]>> \in j.grp.members
    <3>1. <<Renamed(g, h, <<x[2], i.dev.mac[x[1]]>>[1]), <<x[2], i.dev.mac[x[1]]>>[2]>>
             \in j.grp.members
      BY <1>3, <2>6
    <3>. QED  BY <2>2, <3>1
  <2>. QED  BY <1>2, <2>2, <2>3, <2>4, <2>5, <2>6 DEF Agrees
<1>. QED  BY <1>6, <1>7, <1>8 DEF Kept, j

LEMMA DeleteDeviceKeeps ==
    ASSUME NEW i \in Inventories, NEW adrift, Kept(i, adrift), NEW d \in i.dev.present
    PROVE  Kept(DeleteDevice(i, d), adrift)
<1> DEFINE j == DeleteDevice(i, d)
<1>1. i.dev \in DeviceFile /\ i.grp \in GroupFile
  BY InventoryFields
<1>2. /\ j.dev.present = i.dev.present \ {d}
      /\ j.dev.reserved = i.dev.reserved \ {d}
      /\ j.dev.in = {e \in i.dev.in : e[1] \notin {d}}
      /\ j.grp.names = i.grp.names
      /\ j.grp.members = {m \in i.grp.members : m[2] # i.dev.mac[d]}
  BY <1>1 DEF DeleteDevice, Without, GroupFile
<1>3. \A x \in Device \ {d} : j.dev.mac[x] = i.dev.mac[x]
  BY DEF DeleteDevice, Without
<1> HIDE DEF j
<1>4. GroupsExist(j.grp)
  BY <1>2 DEF Kept, GroupsExist
<1>5. Twins(j.dev) \subseteq adrift
  BY <1>1, <1>2, <1>3, DeviceFields, SameMacs DEF Kept
<1>6. ASSUME NEW e \in j.dev.in, e[1] \notin adrift
      PROVE  Agrees(j, e)
  <2>1. e \in i.dev.in /\ Agrees(i, e) /\ e[1] \in i.dev.present /\ e[1] # d /\ e[1] \in Device
    BY <1>1, <1>2, <1>6, DeviceFields DEF Kept
  <2>2. j.dev.mac[e[1]] = i.dev.mac[e[1]]
    BY <1>3, <2>1
  <2>3. ASSUME i.dev.mac[e[1]] # NoMac
        PROVE  i.dev.mac[e[1]] # i.dev.mac[d]
    <3>1. SUFFICES ASSUME i.dev.mac[e[1]] = i.dev.mac[d]
                   PROVE  FALSE
      OBVIOUS
    <3>2. e[1] \in Twins(i.dev)
      BY <2>1, <2>3, <3>1 DEF Twins
    <3>. QED  BY <1>6, <3>2 DEF Kept
  <2>. QED  BY <1>2, <2>1, <2>2, <2>3 DEF Agrees
<1>. QED  BY <1>4, <1>5, <1>6 DEF Kept, j

LEMMA BasicKeeps ==
    ASSUME NEW i \in Inventories, NEW adrift, Kept(i, adrift)
    PROVE  Kept(EnsureBasic(i), adrift)
<1>1. /\ EnsureBasic(i).dev = i.dev
      /\ EnsureBasic(i).grp.names = i.grp.names \cup {Basic}
      /\ i.grp.members \subseteq EnsureBasic(i).grp.members
      /\ \A m \in EnsureBasic(i).grp.members : m \in i.grp.members \/ m[1] = Basic
  BY DEF EnsureBasic
<1>. QED  BY <1>1 DEF Kept, GroupsExist, Agrees

\* Operations on both files keep in step what is in step, but for a device whose
\* alias makes it BRODCAST.
LEMMA PairKeeps ==
    ASSUME NEW i \in Inventories, NEW adrift, Kept(i, adrift), NEW after \in PairResults(i)
    PROVE  Kept(after, adrift \cup Rekeyed(i.dev, after.dev))
<1> SUFFICES \E now \in SUBSET (adrift \cup Rekeyed(i.dev, after.dev)) : Kept(after, now)
  BY DEF Kept
<1>1. i.dev \in DeviceFile /\ i.grp \in GroupFile
  BY InventoryFields
<1>2. CASE after \in AddMemberResults(i)
  <2>1. PICK d \in Known(i.dev), g \in Editable(i.grp) : after = AddMember(i, d, g)
    BY <1>2 DEF AddMemberResults
  <2>2. d \in i.dev.present /\ {g} \in SUBSET Editable(i.grp)
    BY DEF Known
  <2>3. Kept(after, adrift)
    BY <2>1, <2>2, AddKeeps DEF AddMember
  <2>. QED  BY <2>3
<1>3. CASE after \in RemoveMemberResults(i)
  <2>1. Kept(after, adrift)
    BY <1>3, RemoveKeeps DEF RemoveMemberResults
  <2>. QED  BY <2>1
<1>4. CASE after \in DeleteGroupResults(i)
  <2>1. Kept(after, adrift)
    BY <1>4, DeleteGroupKeeps DEF DeleteGroupResults
  <2>. QED  BY <2>1
<1>5. CASE after \in RenameGroupResults(i)
  <2>1. Kept(after, adrift)
    BY <1>5, RenameKeeps DEF RenameGroupResults
  <2>. QED  BY <2>1
<1>6. CASE after \in DeleteDeviceResults(i)
  <2>1. Kept(after, adrift)
    BY <1>6, DeleteDeviceKeeps DEF DeleteDeviceResults
  <2>. QED  BY <2>1
<1>7. CASE after = EnsureBasic(i)
  <2>1. Kept(after, adrift)
    BY <1>7, BasicKeeps
  <2>. QED  BY <2>1
<1>8. CASE after \in EditFieldsResults(i)
  <2>1. PICK d \in i.dev.present, gs \in SUBSET Editable(i.grp) :
              /\ gs # {} => d \in Known(i.dev)
              /\ \E dev \in EditedDevice(AddMembers(i, d, gs).dev, d) :
                    after = [AddMembers(i, d, gs) EXCEPT !.dev = dev]
    BY <1>8, EditFieldsMade
  <2> DEFINE j == AddMembers(i, d, gs)
  <2>2. /\ j \in Inventories /\ d \in j.dev.present
        /\ j.dev.present = i.dev.present /\ j.dev.mac = i.dev.mac
    BY <2>1, AddTyped
  <2>3. Kept(j, adrift)
    BY <2>1, AddKeeps
  <2>4. PICK dev \in EditedDevice(j.dev, d) : after = [j EXCEPT !.dev = dev]
    BY <2>1
  <2> HIDE DEF j
  <2>5. Kept(after, adrift \cup Rekeyed(j.dev, dev))
    BY <2>2, <2>3, <2>4, EditKeeps
  <2>6. after.dev = dev
    BY <2>2, <2>4 DEF Inventories
  <2>7. Rekeyed(j.dev, dev) = Rekeyed(i.dev, dev)
    BY <2>2 DEF Rekeyed, Twins
  <2>. QED  BY <2>5, <2>6, <2>7
<1>. QED  BY <1>2, <1>3, <1>4, <1>5, <1>6, <1>7, <1>8 DEF PairResults
=============================================================================
