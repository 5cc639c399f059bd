SPECIFICATION Spec
CONSTANTS
  m1 = m1
  m2 = m2
  MonitorProcess = {m1, m2}
  Admin = {c1}
  NoLock = NoLock
  Gone = Gone
  MaxSessions = 2
  MaxLaunches = 2
  MaxCommands = 2
  k1 = k1
  k2 = k2
  MonitorRun = {k1, k2}
  RunOrder <- Runs
  Resolution = {2}
  Kept <- KeptFor
  Raw = 2
  MaxTime = 3
  MaxSamples = 3
  w1 = w1
  p1 = p1
  p2 = p2
  WireTuiDevice = dv
  CableOrder <- Cables
  PortName = {p1, p2}
  NoElementOpen = NoElementOpen
  NoRecord = NoRecord
  NoText = NoText
  MaxDepth = 1
  MaxOthers = 1
  LanipDevices = 2
  g1 = g1
  g2 = g2
  GuiProject = {g1, g2}
  FirstGuiProject = g1
  GuiElement = {e1}
  GuiAlias = {}
  Removed = Removed
  NoProject = NoProject
  MaxHistory = 1
  MaxGuiEdits = 1
  MaxForeign = 1
SYMMETRY Alike
INVARIANTS
  TypesOK
  OneMonitor
  OutagesAddUp
  NoKeyFails
  NothingDroppedUnasked
CHECK_DEADLOCK FALSE
