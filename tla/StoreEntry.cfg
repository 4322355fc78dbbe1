\* The smallest instance in which a job has a certificate and it is deleted.
CONSTANTS
  Jobs = {j1}
  LocalJobs = {}
  ExistingJobs = {}
  Certificates = {c1}
  Devices = {d1}
  Workers = {w1, w2}
  NoCertificate = NoCertificate
  MaxVersion = 0
  Faults = {}
SPECIFICATION Spec
CHECK_DEADLOCK FALSE
INVARIANTS
  EntryHasFiles
