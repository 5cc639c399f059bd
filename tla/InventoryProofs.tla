--------------------------- MODULE InventoryProofs ---------------------------
(***************************************************************************)
(* The inventory, as its users see it, stays consistent.                    *)
(***************************************************************************)
EXTENDS InventorySpec, InventoryLemmas

AbsInv == inv \in Inventories /\ Kept(inv, adrift)

LEMMA ReplaceKeeps ==
    ASSUME AbsInv, NEW dev \in DeviceFile, Replace(dev)
    PROVE  AbsInv'
<1>1. inv' \in Inventories
  BY DEF AbsInv, Replace, Inventories
<1>. QED  BY <1>1, AloneKeeps DEF AbsInv, Replace

\* The inventory stays what its operations make of it: devices that no scan and no
\* old list has given another MAC or another group name existing groups that list
\* their MAC, whatever devices, MACs and groups there are.
THEOREM InventoryConsistent == AbsSpec => []AbsConsistent
<1>1. AbsInit => AbsInv
  BY DEF AbsInit, AbsInv
<1>2. AbsInv /\ [AbsNext]_absVars => AbsInv'
  <2> SUFFICES ASSUME AbsInv, [AbsNext]_absVars
               PROVE  AbsInv'
    OBVIOUS
  <2>1. CASE PairOp
    BY <2>1, PairTyped, PairKeeps DEF AbsInv, PairOp
  <2>2. CASE GroupOp
    BY <2>2, GroupTyped, GroupKeeps DEF AbsInv, GroupOp
  <2>3. CASE DeviceOp
    BY <2>3, DeviceTyped, InventoryFields, ReplaceKeeps DEF AbsInv, DeviceOp
  <2>4. CASE SaveScan
    BY <2>4, ScanTyped, InventoryFields, ReplaceKeeps DEF AbsInv, SaveScan
  <2>5. CASE SaveStaleScan
    BY <2>5, ReplaceKeeps DEF SaveStaleScan
  <2>6. CASE UNCHANGED absVars
    BY <2>6 DEF AbsInv, absVars
  <2>. QED  BY <2>1, <2>2, <2>3, <2>4, <2>5, <2>6 DEF AbsNext
<1>3. AbsInv => AbsConsistent
  BY DEF AbsInv, AbsConsistent
<1>. QED  BY <1>1, <1>2, <1>3, PTL DEF AbsSpec
=============================================================================
