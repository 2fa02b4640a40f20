SPECIFICATION FairSpec
CONSTANTS
  NRuns = 1
  NCases = 1
  NJobs = 1
  NPlans = 1
  Workers = {w1}
  Clients = {a1}
  NoActor = none
  BenchmarkRuns = {}
  ScenarioRuns = {}
  JobRuns = {}
  TrialRuns = {}
  SafeRuns = {}
  SecondChanceRuns = {}
  LockCanBeLost = FALSE
  MaxRequests = 1
  MaxCrashes = 0
INVARIANT
  PassChain
CHECK_DEADLOCK FALSE
