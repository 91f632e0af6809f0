CONSTANTS
  Procs <- Shared
  SiteOf <- SharedSiteOf
  Ops <- SharedOps
  Sites <- OneSite
  Overlap = "readers"
  max_age = 1
  retries = 1
  MaxTime = 2
  MaxFaults = 1
SPECIFICATION FairSpec
INVARIANTS
  NeverOverstated
  GetReturnsFresh
PROPERTY
  CallEnds
CHECK_DEADLOCK FALSE
