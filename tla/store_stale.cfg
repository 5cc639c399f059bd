SPECIFICATION Spec
CONSTANTS
  Device = {d1}
  Mac = {m1}
  NoMac = NoMac
  Broadcast = m1
  Private = {}
  Group = {basic, g1}
  Basic = basic
  Catalogue = {}
  Proc = {p1, p2}
  None = None
  NoJournal = NoJournal
  DevicesFirst = TRUE
  SessionRetention = FALSE
  MaxOps = 2
  MaxFaults = 1
PROPERTIES
  SaveNeverStale
CHECK_DEADLOCK FALSE
