SPECIFICATION Spec
CONSTANTS
  u1 = u1
  u2 = u2
  u3 = u3
  e1 = e1
  e2 = e2
  g = g
  h = h
  a = a
  None = None
  Users = {u1, u2, u3}
  Emails = {e1, e2}
  Identities = {g, h, a}
  Provider <- MCProvider
  Mail <- MCMail
  MaxTokens = 3
  MaxMachines = 4
  Devices = {d1, d2, d3, d4}
  Requests = {r1, r2}
  Settings <- MCSettings
SYMMETRY Symmetry
INVARIANTS TypeOK OneSuccessor CanSignIn DeviceLimit
CHECK_DEADLOCK FALSE
