SPECIFICATION Spec
CONSTANTS
  Articles = {a1}
  Users = {u1, u2}
  Procs = {p1, p2}
  Null = null
  MaxFaults = 1
  MaxRequests = 4
SYMMETRY SiteSymmetry
CHECK_DEADLOCK FALSE
INVARIANT FieldsKept
PROPERTIES CountsLikes LikedThroughGate
