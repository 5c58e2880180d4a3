SPECIFICATION FairSpec
CONSTANTS
  Calls = {1, 2, 3}
  ann = ann
  Users = {ann, bob}
  Accounts = {ann, bob}
  None = None
CONSTRAINT InOrder
INVARIANTS
  Inv
  DuplicateOnlyByRace
  PublishedAfterWrite
  CollectionsAgree
  ConfirmedDeleteIsFinal
  ReadIsComplete
PROPERTIES
  OnlySenderRemoves
  LogSpec
  ListedIsAnnounced
