SPECIFICATION Spec
CONSTANTS
  NRuns = 1
  NCases = 2
  Workers = {w1, w2}
  Clients = {a1}
  NoActor = none
  BenchmarkRuns = {1}
  ScenarioRuns = {}
  JobRuns = {}
  TrialRuns = {}
  SafeRuns = {}
  SecondChanceRuns = {}
  LockCanBeLost = TRUE
  CanRestore = FALSE
  MaxRuns = 1
  MaxRequests = 0
  MaxCrashes = 1
INVARIANTS
  OnlyLastAttemptCounts
  PassChain
  NoRepeatedCall
  IndeterminateIsReviewed
PROPERTIES
  NeverResurrected
  StoreSpec
