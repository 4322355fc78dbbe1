\* One thread: requests do not overlap. Three orders, so that a manual challenge can
\* be replaced and the other job still be started.
CONSTANTS
  Jobs = {j1, j2}
  Orders = {o1, o2, o3}
  Workers = {w1}
  NoOrder = NoOrder
  CloudflareJobs = {j1}
  StagingJobs = {j2}
  Faults = {"cleanup_error", "cleanup_raises", "lost_reply", "request_error"}
SPECIFICATION Spec
CHECK_DEADLOCK FALSE
INVARIANTS
  SettledLeavesNoRecord
