SPECIFICATION StartedFairSpec
CONSTANTS
  Device = {d1}
  Mac = {m1}
  NoMac = NoMac
  Broadcast = m1
  Private = {}
  Group = {basic, g1}
  Basic = basic
  Catalogue = {}
  Proc = {p1, p2}
  None = None
  NoJournal = NoJournal
  DevicesFirst = TRUE
  SessionRetention = TRUE
  MaxOps = 2
  MaxFaults = 1
PROPERTIES
  OperationsEnd
CHECK_DEADLOCK FALSE
