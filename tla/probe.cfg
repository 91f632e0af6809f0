CONSTANTS
  plc = plc
  rtu = rtu
  stranger = stranger
  NoTarget = NoTarget
  Targets <- MCTargets
  Scope <- MCScope
  Batches <- MCBatches
  Quantities <- MCQuantities
  Rates <- MCRates
  Timeout = 1
  TidMod = 4
  Boots <- MCBoots
  Horizon = 3
  MaxOdd = 2
SPECIFICATION FairSpec
INVARIANTS
  TypeOK
  OnlyAuthorizedScope
  RateLimit
  TidsDistinct
  ResultsFollowBatch
  EverySentReported
  AnswersLagByRepeats
PROPERTY RunEnds
CHECK_DEADLOCK FALSE
