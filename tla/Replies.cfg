SPECIFICATION Spec
CONSTANTS
  Requests = {r1}
  Messages = {"m1", "m2"}
  Conversations = {"c1", "c2"}
  Users = {"ann", "bob"}
  Accounts = {"ann"}
  Urls = {"u", "v"}
  MaxCrawls = 2
  Lists <- MCLists
  HttpResults <- MCHttpResults
  Depth = 6
  None = None
CONSTRAINT Bounds
CHECK_DEADLOCK FALSE
INVARIANTS
  Inv
  AddedIsWanted
  AggregatesMatch
  AnswersHaveTheirType
  ViewsAgree
  SerializedIsClean
