SPECIFICATION GateSpec
CONSTANTS
  Absent = Absent
  Editions <- MCEditions
  Drafts <- MCDrafts
  Length <- MCLength
INVARIANTS HeldOnlyWhenStale RefusedOnlyForCause
