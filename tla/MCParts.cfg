SPECIFICATION Spec
CONSTANTS
  Client = {c1, c2}
  Password = {pw1, pw2}
  NoPassword = NoPassword
  MAX_FAILS = 3
  LOCK_SECONDS = 2
  MaxRestarts = 2
  Surface = {s1, s2}
  MaxPairs = 3
  MaxFaults = 2
  MaxUpdates = 4
  LIMIT = 2
  MaxPollFaults = 3
  MAX_ATTEMPTS = 4
  NETWORK_RETRIES = 2
  RATE_LIMIT_RETRIES = 3
  MaxNetFaults = 4
  MaxItems = 3
  Caller = {k1, k2}
  Msg = {m1}
  MaxLookupFaults = 1
  MaxSelfRestarts = 1
  MaxText = 6
  MaxMarked = 4
  MaxMarks = 3
  MaxLimit = 3
  LIMIT_TEXT = {3, 6, 16}
INVARIANTS PanelTypeOK PauseKept BoundedGuesses ShownPasswordWorks
           TestPostsAccounted IdsStayRetired
           ClientTypeOK RowsMatch EachAccounted StrayCopies DeletionsDated TypeTrusted
           SplitSound BoldKept
PROPERTIES LockEnds PollImplementsFeed RightTypeStays
CHECK_DEADLOCK FALSE
