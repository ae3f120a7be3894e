CONSTANTS
  None = None
  Session = {a, b, c}
  MinArm = 1
  MaxArm = 2
  MaxNow = 3
SPECIFICATION Spec
SYMMETRY Symmetry
INVARIANTS
  TypeOK
  WalkAwayDisarms
  StoppedStaysStopped
