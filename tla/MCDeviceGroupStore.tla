-------------------------- MODULE MCDeviceGroupStore --------------------------
EXTENDS DeviceGroupStore, TLC

Symmetry == Permutations(Proc)

\* An inventory of one project: every device has the MAC m and is in every group.
OneMac(m) ==
    [dev |-> [present |-> Device,
              reserved |-> {},
              mac |-> [d \in Device |-> m],
              in |-> Device \X (Group \ {Basic})],
     grp |-> [names |-> Group, members |-> (Group \ {Basic}) \X {m}]]

\* The passing runs start from an empty inventory or from a device in a group, those
\* that refute from any inventory.
Started == OnDisk \in {Blank} \cup {OneMac(m) : m \in Mac \ Private}

StartedInit == Init /\ Started

StartedSpec == StartedInit /\ [][Next]_vars
StartedFairSpec == StartedSpec /\ Fairness
=============================================================================
