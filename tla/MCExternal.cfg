SPECIFICATION FairSpec
CONSTANTS
  NRuns = 2
  NCases = 2
  Workers = {w1}
  Clients = {}
  NoActor = none
  BenchmarkRuns = {1, 2}
  ScenarioRuns = {}
  JobRuns = {1, 2}
  TrialRuns = {1}
  SafeRuns = {}
  SecondChanceRuns = {}
  LocalClients = {}
  Host = w1
  MaxRuns = 1
  MaxRequests = 1
  MaxCrashes = 1
INVARIANTS
  StartedOnce
  CompletedIsImported
  ReplayAgrees
  TrialsDisposed
PROPERTIES
  EvidenceIsFinal
  JobRunsSettle
