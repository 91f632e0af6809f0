CONSTANTS
  Captures <- MCCaptures
  FeedBodies <- MCFeedBodies
  Floors <- MCFloors
  ReconAddresses = 2
SPECIFICATION Spec
INVARIANTS
  ControlMeansStatus1
CHECK_DEADLOCK FALSE
