\* The smallest instance in which a cleanup fails and is retried.
CONSTANTS
  Jobs = {j1}
  Orders = {o1}
  Workers = {w1}
  NoOrder = NoOrder
  CloudflareJobs = {j1}
  StagingJobs = {j1}
  Faults = {"cleanup_error"}
SPECIFICATION Spec
CHECK_DEADLOCK FALSE
INVARIANTS
  IssuedHasCertificate
