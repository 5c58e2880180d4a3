SPECIFICATION FairSpec
CONSTANTS
  Calls = {1, 2, 3}
  Users = {ann, bob}
  Messages = {m1}
  None = None
CONSTRAINT InOrder
INVARIANTS
  RefsMatchDocuments
  TwoReactionsOnlyByRace
  SettledViewIsStored
PROPERTIES
  ReactionSpec
  LocksAreReleased
