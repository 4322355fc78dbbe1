\* A production job with Cloudflare and a manual staging job; two threads, and one
\* order for each of them. No symmetry: a liveness property is checked.
CONSTANTS
  Jobs = {j1, j2}
  Orders = {o1, o2}
  Workers = {w1, w2}
  NoOrder = NoOrder
  CloudflareJobs = {j1}
  StagingJobs = {j2}
  Faults = {"lost_reply", "unrecorded"}
SPECIFICATION FairSpec
CHECK_DEADLOCK FALSE
INVARIANTS
  ProductionAfterStaging
PROPERTIES
  InFlightSettles
