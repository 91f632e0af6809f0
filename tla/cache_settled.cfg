CONSTANTS
  Procs <- Carrier
  SiteOf <- CarrierSiteOf
  Ops <- CarrierOps
  Sites <- TwoSites
  Overlap = "nothing"
  max_age = 1
  retries = 1
  MaxTime = 3
  MaxFaults = 0
SPECIFICATION Spec
INVARIANTS
  TypeOK
  SettledCache
  OfflineKeepsWorking
PROPERTY ImplementsFeedRegister
CHECK_DEADLOCK FALSE
