CONSTANTS
  Words <- MCWords
  Numerals <- MCNumerals
  ValueOf <- MCValueOf
  DecimalOf <- MCDecimalOf
  NoPort = NoPort
  Invocations <- SampleFiles
  FEED_IDS <- MCFeedIds
  Catalog <- MCCatalog
SPECIFICATION Spec
INVARIANT EveryProbedIsListed
CHECK_DEADLOCK FALSE
