CONSTANTS
  Spellings <- Typed
  Lower <- TypedLower
  WellFormed = {"bob", "dm1x", "admin"}
  Reserved = {"admin"}
  Dm1Names = {"dm1x"}
  Identities <- Users
  Requests = {q1, q2}
  None = None
SPECIFICATION Spec
INVARIANTS ReverseBacked MeAgrees
PROPERTIES SettledKept
CHECK_DEADLOCK FALSE
