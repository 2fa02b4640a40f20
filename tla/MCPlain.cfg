SPECIFICATION Spec
CONSTANTS
  NRuns = 1
  NCases = 2
  Workers = {w1}
  Clients = {a1, a2}
  NoActor = none
  BenchmarkRuns = {}
  ScenarioRuns = {}
  JobRuns = {}
  TrialRuns = {}
  SafeRuns = {}
  SecondChanceRuns = {}
  LockCanBeLost = FALSE
  CanRestore = FALSE
  MaxRuns = 1
  MaxRequests = 2
  MaxCrashes = 1
SYMMETRY ActorSymmetry
INVARIANTS
  WorkerTypeOK
  OneLateCall
  CompletedIsComplete
  RecoveredIsRetryable
PROPERTIES
  SettledIsFinal
