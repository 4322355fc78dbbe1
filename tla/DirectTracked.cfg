\* The same instance: has every PEM on a device a record?
CONSTANTS
  Runs = {r1}
  Targets = {t1, t2}
  Callers = {h1}
  Cleaners = {k1}
  Names = {n1, n2}
  MaxDisturbances = 0
SPECIFICATION Spec
SYMMETRY Symmetry
CHECK_DEADLOCK FALSE
INVARIANTS
  StagedVisible
