SPECIFICATION FairSpec
CONSTANTS
  p1 = p1
  ui = ui
  cli = cli
  Session = {ui, cli}
  Task = {t1}
  Command = {c1}
  Project = {p1}
  ProjectOf <- Projects
  Interface = {ui}
  Everything = Everything
  NoNews = NoNews
  Stranger = Stranger
  EventLimit = 1
  BatchLimit = 1
  Changes = {}
  Talkers = {}
  Mortal = {ui}
  Late = {ui}
  MaxEvents = 0
INVARIANTS
  ExecutedOnce
  ClosedIsSettled
PROPERTIES
  CommandsEnd
  OrphansInterrupted
CHECK_DEADLOCK FALSE
