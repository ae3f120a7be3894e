CONSTANTS
  k1 = k1
  k2 = k2
  k3 = k3
  a = a
  a2 = a2
  b = b
  c = c
  low = low
  None = None
  Candidate = {a, a2, b, c, low}
  Key = {k1, k2, k3}
  KeyOf <- MCKeyOf
  Price <- MCPrice
  Total <- MCTotal
  Confidence <- MCConfidence
  Velocity <- MCVelocity
  MinConfidence = 6
  RunCap = 5
  DayCap = 6
  OutstandingCap = 7
  Batches <- MCBatches
SPECIFICATION Spec
INVARIANTS
  SpendWithinCaps
  NeverBoughtTwice
  NothingAffordableIsLeft
