CONSTANTS
  plc = plc
  rtu = rtu
  stranger = stranger
  NoTarget = NoTarget
  Targets <- MCTargets
  Scope <- MCScope
  Batches <- MCBatches
  Quantities <- MCQuantities
  Rates <- MCRates
  Timeout = 1
  TidMod = 4
  Boots <- MCBoots
  Horizon = 3
  MaxOdd = 0
SPECIFICATION Spec
INVARIANT AnyUnreachableIsNonZero
CHECK_DEADLOCK FALSE
