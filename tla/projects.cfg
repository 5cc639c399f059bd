SPECIFICATION Spec
CONSTANTS
  s1 = s1
  s2 = s2
  ui = ui
  timer = timer
  cli = cli
  p1 = p1
  p2 = p2
  Session = {s1, s2}
  Thread = {ui, timer, cli}
  SessionOf <- Sessions
  Project = {p1, p2}
  FirstProject = p1
  Nobody = Nobody
  Nowhere = Nowhere
  Openers = {cli}
  Editors = {ui}
  Savers = {timer}
  Imported = {p1}
  MaxVersions = 2
  MaxLog = 1
  MaxFaults = 1
CHECK_DEADLOCK FALSE
INVARIANTS
  TypeOK
  EditsKept
  ConfirmedIsSaved
  NoWaitCycle
