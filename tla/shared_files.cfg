SPECIFICATION SharedSpec
CONSTANTS
  a1 = a1
  a2 = a2
  b1 = b1
  b2 = b2
  A = A
  B = B
  Process = {A, B}
  Thread <- Threads
  ProcessOf <- Owners
  Main <- Mains
  Nobody = Nobody
  MaxDepth = 3
  MaxInterrupts = 2
  WireDevice = {d1}
  Cable = {w1, w2}
  Port = {left, right}
  Editor = {e1, e2}
  NoElement = NoElement
  User = {u1}
  Ticket = {t1}
  Request = {r1, r2}
  Absent = Absent
  Limit = 2
  MaxUnlocks = 1
  File = {recurrent, other}
  Structured = {recurrent}
  Recurrent = recurrent
  Content = {one, two}
  Missing = Missing
  Initial = Initial
  Edited = Edited
  Old = {1, 2}
  MaxLayouts = 3
  ssh = ssh
  https = https
  Protocol = {ssh, https}
  Endpoint = {2222, 8443}
  DefaultEndpoint <- Endpoints
  Command = {c1, c2}
  ServeProcess = {x1}
  Nothing = Nothing
  MaxCommands = 2
  MaxServerDeaths = 1
  Step = {s1, s2, s3}
  Runner = {n1, n2}
  NoRunner = NoRunner
  MaxRuns = 2
INVARIANTS
  TypesOK
  LinksAreSound
  GuessesAreCounted
  EndedStaysEnded
  MigratedIsComplete
  RunsFollowTheGraph
PROPERTIES
  IsMutex
  UsedPortsStay
  ConfigurationServed
