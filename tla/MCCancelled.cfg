SPECIFICATION Spec
CONSTANTS
  NRuns = 1
  NCases = 1
  Workers = {w1}
  Clients = {a1}
  NoActor = none
  BenchmarkRuns = {}
  ScenarioRuns = {}
  JobRuns = {}
  TrialRuns = {}
  SafeRuns = {}
  SecondChanceRuns = {}
  LockCanBeLost = FALSE
  CanRestore = FALSE
  MaxRuns = 1
  MaxRequests = 1
  MaxCrashes = 0
PROPERTIES
  CancelledIsFinal
