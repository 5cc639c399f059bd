---------------------------- MODULE InventorySpec ----------------------------
(***************************************************************************)
(* The inventory as a state machine: one value, changed by one whole        *)
(* operation at a time.  What DeviceGroupStore implements.                  *)
(***************************************************************************)
EXTENDS Inventory

VARIABLES
    inv,    \* the committed inventory
    adrift  \* devices that a change of the list has left out of step with the groups

absVars == <<inv, adrift>>

\* Any inventory that earlier sessions may have left on disk in step.
AbsInit == inv \in Inventories /\ adrift = {} /\ Kept(inv, adrift)

PairOp == /\ inv' \in PairResults(inv)
          /\ adrift' = adrift \cup Rekeyed(inv.dev, inv'.dev)

GroupOp == inv' \in GroupResults(inv) /\ UNCHANGED adrift

\* devices.json is rewritten alone.
Replace(dev) ==
    /\ inv' = [inv EXCEPT !.dev = dev]
    /\ adrift' = adrift \cup Rekeyed(inv.dev, dev) \cup Regrouped(inv.dev, dev)

DeviceOp == \E dev \in DeviceResults(inv.dev) : Replace(dev)

SaveScan == \E dev \in ScanResults(inv.dev) : Replace(dev)

\* The device list is replaced by one that was not derived from it.
SaveStaleScan == inv'.dev \in DeviceFile /\ Replace(inv'.dev)

AbsNext == PairOp \/ GroupOp \/ DeviceOp \/ SaveScan \/ SaveStaleScan

AbsSpec == AbsInit /\ [][AbsNext]_absVars

-----------------------------------------------------------------------------
\* A device whose MAC and groups were not changed behind the back of groups.json
\* names groups that exist and that list its MAC, shares this MAC with no other,
\* and is in BASIC only with a role; and BASIC is never lost.
AbsConsistent == Kept(inv, adrift)
=============================================================================
