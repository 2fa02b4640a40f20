SPECIFICATION Spec
CONSTANTS
  NRuns = 1
  NCases = 1
  Workers = {w1}
  Clients = {a1, a2}
  NoActor = none
  BenchmarkRuns = {1}
  ScenarioRuns = {}
  JobRuns = {1}
  TrialRuns = {1}
  SafeRuns = {}
  SecondChanceRuns = {}
  LocalClients = {a1}
  Host = w1
  MaxRuns = 1
  MaxRequests = 1
  MaxCrashes = 0
INVARIANTS
  SettledIsStopped
  TrialsDisposed
