\* One batch with two targets beside one individual upload or removal and one
\* clean-up request; two staged names are the least in which one record's stale
\* write-back meets the other's.
CONSTANTS
  Runs = {r1}
  Targets = {t1, t2}
  Callers = {h1}
  Cleaners = {k1}
  Names = {n1, n2}
  MaxDisturbances = 1
SPECIFICATION Spec
SYMMETRY Symmetry
CHECK_DEADLOCK FALSE
INVARIANTS
  TypeOK
  UploadNotForgotten
  CompleteMeansAll
  StagedIsListed
  NoSecondPem
  HolderNotStuck
PROPERTIES
  PreflightFirst
  
  HiddenAfterAudit
