SPECIFICATION FairSpec
CONSTANTS
  NRuns = 5
  NCases = 1
  Workers = {w1}
  Clients = {a1}
  NoActor = none
  BenchmarkRuns = {3, 4, 5}
  ScenarioRuns = {1, 2}
  JobRuns = {}
  TrialRuns = {}
  SafeRuns = {1, 2}
  SecondChanceRuns = {5}
  LockCanBeLost = FALSE
  CanRestore = TRUE
  MaxRuns = 1
  MaxRequests = 1
  MaxCrashes = 1
INVARIANTS
  NoRepeatedCall
PROPERTIES
  AppendOnly
  EventuallySettled
