SPECIFICATION FairSpec
CONSTANTS
  NRuns = 1
  NCases = 1
  Workers = {w1}
  Clients = {a1}
  NoActor = none
  BenchmarkRuns = {1}
  ScenarioRuns = {}
  JobRuns = {}
  TrialRuns = {}
  SafeRuns = {}
  SecondChanceRuns = {}
  LockCanBeLost = FALSE
  CanRestore = FALSE
  MaxRuns = 1
  MaxRequests = 2
  MaxCrashes = 0
PROPERTIES
  CancellationSettles
