SPECIFICATION Spec
CONSTANTS
  d1 = d1
  av = av
  p22 = p22
  disc = disc
  Device = {d1}
  Task = {av, p22, disc}
  Discovery = disc
  DeviceOf <- DevicesOf
  KeyOf <- Keys
  FailedCause <- Failures
  ErrorCause <- Errors
  OfflineCause <- Offline
  Cause <- AllCauses
  Presence = {av}
  Workers = {1, 2}
  MaxPending = 2
  FailureThreshold = 1
  RecoveryThreshold = 1
  MaxEvents <- Events
  MaxCalls = 1
  MaxSaid = 2
  MaxStarts = 2
  builtin = builtin
  extra = extra
  pa = pa
  h1 = h1
  h2 = h2
  Host = {h1, h2}
  Plugin = {extra, builtin}
  Bundled = {builtin}
  Version = {1, 2}
  Permission = {pa}
  Demands <- VersionDemands
  Needs <- Dependencies
  Manages <- Managers
  MaxInstalls = 2
  LanDevice = {l1, l2}
  MaxScans = 2
  MaxPings = 2
  r1 = r1
  r2 = r2
  TuiProject = {main, side}
  FirstTuiProject = main
  RowOrder <- Rows
  NoWindow = NoWindow
  NoProject = NoProject
  NoRow = NoRow
INVARIANTS
  TypesOK
  TasksKept
  IncidentsTold
  NoProcessLeft
  ActivationWasClean
  EnabledWasChosen
  LastStateKept
  NoStaleDisplay
  EditsWhatIsShown

  
CHECK_DEADLOCK FALSE
