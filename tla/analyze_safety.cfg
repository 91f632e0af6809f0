CONSTANTS
  Captures <- MCCaptures
  FeedBodies <- MCFeedBodies
  Floors <- MCFloors
  ReconAddresses = 2
SPECIFICATION Spec
INVARIANTS
  TypeOK
  EventsFollowCapture
  EnrichAllOrNothing
  StatusIgnoresFilter
  SummaryMatchesEvents
  SarifWellFormed
CHECK_DEADLOCK FALSE
