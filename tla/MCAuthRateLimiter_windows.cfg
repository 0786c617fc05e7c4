SPECIFICATION Spec
CONSTANTS
  home = home
  away = away
  account = account
  None = None
  Keys = {home, away, account}
  Requests <- MCRequests
  Limit <- MCLimit
  Window <- MCWindow
  Second = 2
  Coarse = 2
  StaleAge = 3
  Period = 2
  MaxClock = 8
INVARIANT TypeOK
INVARIANT WindowBound
INVARIANT RetryAfterSuffices
PROPERTY RefusalIsDue
