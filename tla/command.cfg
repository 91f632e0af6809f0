CONSTANTS
  Words <- MCWords
  Numerals <- MCNumerals
  ValueOf <- MCValueOf
  DecimalOf <- MCDecimalOf
  NoPort = NoPort
  Invocations <- MCInvocations
  FEED_IDS <- MCFeedIds
  Catalog <- MCCatalog
SPECIFICATION Spec
INVARIANTS
  TypeOK
  AllOrNothing
  ProbesExactlyTheList
  FeedsStatusTellsAll
CHECK_DEADLOCK FALSE
