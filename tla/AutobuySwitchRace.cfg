CONSTANTS
  None = None
  Session = {a, b}
  MinArm = 1
  MaxArm = 2
  MaxNow = 3
SPECIFICATION Spec
INVARIANTS
  KilledIsDisarmed
