SPECIFICATION Spec
CONSTANTS
  u1 = u1
  u2 = u2
  s1 = s1
  s2 = s2
  d1 = d1
  Users = {u1, u2}
  Customers = {c1, c2}
  None = None
  Sales = {s1, s2}
  Gifts = {d1}
  Rows = {1, 2}
  Workers = {w1, w2}
  Tabs = {t1}
  MaxInvoices = 2
  Settings <- MCSettings
SYMMETRY Symmetry
INVARIANTS TypeOK RowsFollowOwners PaymentsAreReal CalmAgreement
CHECK_DEADLOCK FALSE
