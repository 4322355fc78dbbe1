\* One job with every kind of fault. Two threads and two orders are the least in
\* which one request overtakes another and overwrites its order.
CONSTANTS
  Jobs = {j1}
  Orders = {o1, o2}
  Workers = {w1, w2}
  NoOrder = NoOrder
  CloudflareJobs = {j1}
  StagingJobs = {j1}
  Faults = {"crash", "cleanup_error", "cleanup_raises", "present_leaks", "lost_reply",
            "ca_down", "unrecorded", "request_error"}
SPECIFICATION Spec
SYMMETRY Symmetry
CHECK_DEADLOCK FALSE
INVARIANTS
  TypeOK
  OneCertificatePerJob
  IssuedKeyNotLost
  RowCertificateStored
PROPERTIES
  ImplementsTable
