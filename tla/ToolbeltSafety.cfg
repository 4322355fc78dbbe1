\* A dry run and an upload over two devices, in any order; a certificate that failed
\* a dry run before and another, for the same device or for the other one.
CONSTANTS
  Runs = {r1, r2}
  UploadRuns = {r2}
  Devices = {d1, d2}
  Certificates = {1, 2}
  Earlier = {1}
  Faults = {"crash", "not_ready", "io_error", "no_files", "child_dies", "locked_files"}
SPECIFICATION Spec
SYMMETRY Symmetry
CHECK_DEADLOCK FALSE
INVARIANTS
  TypeOK
  AppliedWasProven
  ResultsTrue
  CompleteMeansTried
  PemsRemoved
PROPERTIES
  HiddenAfterAudit
  StopObeyed
