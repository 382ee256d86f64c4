SPECIFICATION MCSpec
CONSTANTS
  Users = {a1, a2, u1, u2}
  Admins = {a1, a2}
  Emails = {e1, e2, e3}
  Phones = {p1, p2, p3}
  Handlers = {h1, h2, h3}
  Statuses = {"ACTIVE", "BLOCKED"}
  None = None
SYMMETRY Symmetric
INVARIANTS IdentityIsUnique AdminRemains StatusIsAudited LogoutIsFinal
CHECK_DEADLOCK FALSE
