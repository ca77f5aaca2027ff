SPECIFICATION Spec
CONSTANTS
  r1 = r1  r2 = r2  r3 = r3  s1 = s1  s2 = s2  k1 = k1  x1 = x1  b1 = b1  w1 = w1  c1 = c1  f1 = f1
  Targets = {r1, r3}
  Kind <- MCKind
  Key <- MCOneKey
  Inside <- MCFlat
  Origins <- MCFaithfulOrigins
  Protected = {}
  ActionIds = {"on"}
  Goals <- MCOneValueGoals
  ManualOnly = {}
  ReadMayFail = FALSE
  RestoreMayFail = FALSE
  DbMayFail = FALSE
  MaxSnapshots = 1
  MaxRestores = 1
  MaxCrashes = 0
INVARIANT EveryChangeSnapshotted
