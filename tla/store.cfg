SPECIFICATION StartedSpec
CONSTANTS
  Device = {d1}
  Mac = {m1, m2}
  NoMac = NoMac
  Broadcast = m2
  Private = {m1}
  Group = {basic, g1}
  Basic = basic
  Catalogue = {g1}
  Proc = {p1, p2}
  None = None
  NoJournal = NoJournal
  DevicesFirst = TRUE
  SessionRetention = FALSE
  MaxOps = 3
  MaxFaults = 2
SYMMETRY Symmetry
INVARIANTS
  TypeOK
  CommittedConsistent
  NoWaitCycle
PROPERTIES
  Refines
  OkMeansCommitted
CHECK_DEADLOCK FALSE
