\* Two users, two requests and one session: a request keeps the user of a session
\* it has found when the session is gone, so three users can act in turn.
CONSTANTS
  Users = {u1, u2}
  Names = {n1, n2}
  Passwords = {p1, p2}
  Roles = {"admin", "viewer"}
  RoleSets = {{"admin", "viewer"}, {"viewer"}}
  Admin = "admin"
  Tokens = {t1}
  Requests = {r1, r2}
  Modes = {TRUE, FALSE}
  NoUser = NoUser
  NoSession = NoSession
  Keep = Keep
SPECIFICATION Spec
SYMMETRY Symmetry
INVARIANTS
  TypeOK
  NamesDistinct
  SessionsCurrent
  HalfPatchNeedsRace
PROPERTIES
  AdminRemains
