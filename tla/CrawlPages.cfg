SPECIFICATION Spec
CONSTANTS
  Processes = {p1}
  Runs = {1, 2, 3}
  CrawlJobs = {m1}
  SyncJobs = {}
  Urls = {u1, u2}
  m1 = m1
  UrlsOf <- MCUrlsOf
  Contents = {a, b}
  MaxRetries = 2
  MaxUpsets = 1
  None = None
CHECK_DEADLOCK FALSE
SYMMETRY Symmetry
INVARIANTS
  LossIsLogged
  PreviewsAreWhole
  ShownIsStored
