SPECIFICATION FairSpec
CONSTANTS
  c1 = c1
  c2 = c2
  a1 = a1
  a2 = a2
  Commands <- MCCommands
  Approvals <- MCApproval
  NoApproval = NoApproval
  NoOne = NoOne
  Kinds <- MCKinds
  MaxEvents = 1
  MaxCrashes = 1
INVARIANTS
  WrittenOnce
  StatusIsTrue
  NoneLeftOpen
  OutcomeKnown
PROPERTIES
  CommandsSettle
CHECK_DEADLOCK FALSE
