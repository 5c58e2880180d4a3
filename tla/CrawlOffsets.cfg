SPECIFICATION FairSpec
CONSTANTS
  Processes = {p1}
  Runs = {1, 2, 3, 4}
  CrawlJobs = {}
  SyncJobs = {s1, s2}
  Urls = {}
  m1 = m1
  UrlsOf <- MCUrlsOf
  Contents = {a}
  MaxRetries = 2
  MaxUpsets = 1
  None = None
CHECK_DEADLOCK FALSE
INVARIANTS
  NothingSkipped
PROPERTIES
  BackOnlyAfterTimeout
  EveryJobIsHandled
