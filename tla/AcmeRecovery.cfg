\* The smallest instance with a crash.
CONSTANTS
  Jobs = {j1}
  Orders = {o1}
  Workers = {w1}
  NoOrder = NoOrder
  CloudflareJobs = {j1}
  StagingJobs = {j1}
  Faults = {"crash"}
SPECIFICATION Spec
CHECK_DEADLOCK FALSE
INVARIANTS
  RecoveryServes
