CONSTANTS
  None = None
  ebay = ebay
  vinted = vinted
  value = value
  fixed = fixed
  seller = seller
  t1 = t1
  t2 = t2
  t3 = t3
  refund = refund
  torn = torn
  Table = {ebay, vinted}
  Component = {value, fixed, seller}
  Parts <- MCParts
  Assumed <- MCAssumed
  Mapped <- MCMapped
  Txn = {t1, t2, t3, refund, torn}
  Reading <- MCReading
  IsSale <- MCIsSale
  Charged <- MCCharged
  MinSettlements = 3
  Row = {r1, r2}
  Spend = {2}
  Gross = {5}
  Fee = {1}
  Ship = {1}
  Percent = {value}
  RateUnit = 10
  BooksTable = ebay
  YearLength = 2
  YearStart = 1
  Allowance = 6
  Thresholds <- MCThresholds
  AgeingDays = 0
  MaxDecisions = 2
  MaxNow = 1
SPECIFICATION Spec
SYMMETRY Symmetry
INVARIANTS
  MajorityDecides
  RailRestsOnSales
  EveryPennyInOneYear
PROPERTIES
  SeedingClosesNothing
  MovingFiguresAreMarked
