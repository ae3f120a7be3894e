SPECIFICATION FairSpec
CONSTANTS
  MaxPolls = 3
  Prices = {30, 50, 51}
  MaxSpend = 50
  Proxies = {p1, p2}
INVARIANTS PaidOnceWithinCap EachProviderAskedOnce
PROPERTY CallsEnd
CHECK_DEADLOCK FALSE
