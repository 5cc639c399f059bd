SPECIFICATION Spec
CONSTANTS
  p1 = p1
  ui = ui
  cli = cli
  Session = {ui, cli}
  Task = {}
  Command = {}
  Project = {p1}
  ProjectOf <- Projects
  Interface = {ui}
  Everything = Everything
  NoNews = NoNews
  Stranger = Stranger
  EventLimit = 1
  BatchLimit = 1
  Changes = {p1}
  Talkers = {Stranger}
  Mortal = {cli}
  Late = {}
  MaxEvents = 2
INVARIANTS
  TypeOK
  NoLostRefresh
CHECK_DEADLOCK FALSE
