SPECIFICATION FileSpec
CONSTANTS
  Users = {u1, u2}
  Ids = {f1, f2}
  Keys = {k1, k2}
  Bgs = {b1, b2}
  Contents <- MCContents
  MaxFile = 1
  MaxAttach = 2
  Procs = {p1, p2}
  Null = null
  MaxFaults = 1
  MaxRequests = 5
SYMMETRY FileSymmetry
CHECK_DEADLOCK FALSE
INVARIANTS ObjectsMatchRows FilesAsRecorded ListStaleExcused
