CONSTANTS
  Undated = Undated
  NoLink = NoLink
  SourceLists <- MCSources
  Feeds <- MCFeeds
  per_source = 2
  MinSecond = 4
  cutoff <- MCCutoff
SPECIFICATION Spec
INVARIANTS
  HarvestIsFirstOfEach
  NewestFirst
CHECK_DEADLOCK FALSE
