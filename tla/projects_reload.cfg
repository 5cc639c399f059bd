SPECIFICATION Spec
CONSTANTS
  s1 = s1
  s2 = s2
  ui = ui
  timer = timer
  cli = cli
  p1 = p1
  p2 = p2
  Session = {s1, s2}
  Thread = {ui, timer, cli}
  SessionOf <- Sessions
  Project = {p1, p2}
  FirstProject = p1
  Nobody = Nobody
  Nowhere = Nowhere
  Openers = {ui, cli}
  Editors = {ui}
  Savers = {}
  Imported = {}
  MaxVersions = 1
  MaxLog = 0
  MaxFaults = 0
CHECK_DEADLOCK FALSE
PROPERTIES
  ReloadSparesOthers
