SPECIFICATION FairSpec
CONSTANTS
  Users = {u1, u2}
  Calls = {c1, c2}
  MaxTokens = 4
  None = None
  Settings <- MCSettings
INVARIANTS TypeOK SessionUsable LogoutEndsSession
PROPERTIES StaysSignedIn CallsEnd
CHECK_DEADLOCK FALSE
