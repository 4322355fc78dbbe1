\* An external CA job and a local CA job; two threads and two certificates are the
\* least in which a deletion or a second request overtakes an import or a deployment.
CONSTANTS
  Jobs = {j1, j2}
  LocalJobs = {j2}
  ExistingJobs = {j1}
  Certificates = {c1, c2}
  Devices = {d1}
  Workers = {w1, w2}
  NoCertificate = NoCertificate
  MaxVersion = 2
  Faults = {"crash", "io_error", "unread", "locked_files", "device_fails"}
SPECIFICATION Spec
SYMMETRY Symmetry
CHECK_DEADLOCK FALSE
INVARIANTS
  TypeOK
  AwaitingHasKey
  IssuedRecorded
  DeployedWasServed
  NoOrphanFiles
PROPERTIES
  ImplementsTable
