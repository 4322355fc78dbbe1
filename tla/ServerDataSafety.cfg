CONSTANTS
  Hosts = {h1}
  Ranges = {g1}
  Devices = {d1}
  Passwords = {p1, p2}
  Certs = {c1}
  Keys = {k1, k2}
  Workers = {w1, w2}
  Protectors = {TRUE, FALSE}
  None = None
  Faults = {"crash", "db_fails", "disk_full"}
SPECIFICATION Spec
SYMMETRY Symmetry
CONSTRAINT Focus
INVARIANTS
  TypeOK
  PasswordKept
  SecretsReadable
  BackupRestorable
PROPERTY
  OnlyOverlapLoses
