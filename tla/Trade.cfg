SPECIFICATION FairSpec
CONSTANTS
  None = None
  MaxPrice = 1000
  Fees <- MCFees
  Slack = 1
  ShipOut = 10
  Items <- MCItems
  Sales <- MCSales
  Lexicon = {"stains"}
  Negators = {"no"}
  Similar <- MCSimilar
  MaxFavourites = 25
  MinFavourites = 5
  MaxSaveRate = 20
  MinComps = 3
  ShipIn = 0
  MinNet = 1
  AssumeDays = FALSE
  DecayDays = 3
  MinChange = 2
  Concession = 5
  SearchFrom = 100
  MaxTries = 1
  MaxDays = 4
  Extra = {0, 30, 70}
  MaxListed = 1
INVARIANTS FenceNeverRefuses OneOddSaleMovesNothing BreakEvenIsTight
  RankedStockIsNeverFlagged UnattendedSaleCovers
PROPERTIES AskOnlyDecays SearchEnds
CHECK_DEADLOCK FALSE
