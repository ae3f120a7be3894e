CONSTANTS
  i1 = i1
  v1 = v1
  v2 = v2
  l1 = l1
  l2 = l2
  None = None
  Item = {i1}
  Venue = {v1, v2}
  Listing = {l1, l2}
  Session = {s1, s2}
  Worker = {w1, w2}
  MaxNow = 1
  ItemOf <- MCItemOf
  VenueOf <- MCVenueOf
SPECIFICATION Spec
SYMMETRY Symmetry
INVARIANTS
  DelistedIsNotBuyable
  BuyableAfterSaleIsReported
  OwnedHazardIsQueued
  RequestClockNotReset
  SoldTwiceIsReal
PROPERTY ImplementsLedger
