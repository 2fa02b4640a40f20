SPECIFICATION FairSpec
CONSTANTS
  NRuns = 1
  NCases = 1
  NJobs = 2
  NPlans = 2
  Workers = {w1, w2}
  Clients = {a1}
  NoActor = none
  BenchmarkRuns = {}
  ScenarioRuns = {}
  JobRuns = {}
  TrialRuns = {}
  SafeRuns = {}
  SecondChanceRuns = {}
  LockCanBeLost = TRUE
  MaxRequests = 1
  MaxCrashes = 1
INVARIANTS
  NoResentCall
  PublishedOnce
  CompletedIsJudged
  OpenCallIsDispatching
PROPERTIES
  JobIsFinal
  JudgeStoreSpec
  JobsSettle
CHECK_DEADLOCK FALSE
