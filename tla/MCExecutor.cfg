SPECIFICATION Spec
CONSTANTS
  r1 = r1  r2 = r2  r3 = r3  s1 = s1  s2 = s2  k1 = k1  x1 = x1  b1 = b1  w1 = w1  c1 = c1  f1 = f1
  Targets = {r1, r2, r3, s2, b1, w1, c1, x1, k1, f1}
  Kind <- MCKind
  Key <- MCKey
  Inside <- MCInside
  Origins <- MCOrigins
  Protected = {r2, s2}
  ActionIds <- MCActionIds
  Goals <- MCGoals
  ManualOnly = {"note"}
  ReadMayFail = TRUE
  RestoreMayFail = TRUE
  DbMayFail = TRUE
  MaxSnapshots = 2
  MaxRestores = 1
  MaxCrashes = 1
INVARIANTS TypeOK OldestSnapshotUndoes ProtectedStaysPut StatusIsTrue
