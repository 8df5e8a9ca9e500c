---------------------------- MODULE MCSiteLikes ----------------------------
\* Handlers, users and articles are interchangeable, and nothing here is about liveness.
EXTENDS SiteLikes, TLC
SiteSymmetry == Permutations(Procs) \cup Permutations(Users)
=============================================================================
