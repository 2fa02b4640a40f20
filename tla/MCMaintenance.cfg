SPECIFICATION Spec
CONSTANTS
  Workers = {w1}
  Importers = {i1}
  Operators = {o1, o2}
  Files = {f1, g1}
  Imports = {g1}
  NoOne = NoOne
  NoFile = NoFile
  MaxEvents = 3
  MaxOps = 2
  MaxCrashes = 1
SYMMETRY Symmetry
INVARIANTS
  NoDanglingReference
  NoEventLost
  DeletionsAreAudited
  BackupIsClosed
