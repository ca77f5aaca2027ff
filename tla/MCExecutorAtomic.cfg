SPECIFICATION Spec
CONSTANTS
  r1 = r1  r2 = r2  r3 = r3  s1 = s1  s2 = s2  k1 = k1  x1 = x1  b1 = b1  w1 = w1  c1 = c1  f1 = f1
  Targets = {r1, r2, r3, s1, b1, f1}
  Kind <- MCKind
  Key <- MCOneKey
  Inside <- MCFlat
  Origins <- MCFaithfulOrigins
  Protected = {r2}
  ActionIds = {"on", "off", "end"}
  Goals <- MCFaithfulGoals
  ManualOnly = {}
  ReadMayFail = FALSE
  RestoreMayFail = FALSE
  DbMayFail = FALSE
  MaxSnapshots = 2
  MaxRestores = 2
  MaxCrashes = 0
PROPERTY AllOrNothing
