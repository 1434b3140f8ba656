SPECIFICATION FairSpec
CONSTANTS
  Users = {sita, hari}
  Role <- MCRole
  Tabs = {i1, i2}
  MaxTokens = 2
  Opened = {"/login", "/dashboard"}
  None = None
INVARIANTS CookieIsStored LoggedOutStaysOut OneUserCache
PROPERTIES ExpiredSessionEnds
