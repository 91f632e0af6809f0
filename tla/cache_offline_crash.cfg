CONSTANTS
  Procs <- Carrier
  SiteOf <- CarrierSiteOf
  Ops <- CarrierOps
  Sites <- TwoSites
  Overlap = "nothing"
  max_age = 1
  retries = 0
  MaxTime = 2
  MaxFaults = 1
SPECIFICATION Spec
INVARIANTS
  OfflineKeepsWorking
CHECK_DEADLOCK FALSE
