CONSTANTS
  Addresses = {a, b}
  Names = {n}
  None = None
  Messages = {m1}
  Requests = {q1, q2, q3}
SPECIFICATION Spec
SYMMETRY Interchangeable
INVARIANTS RecipientCanRead
CHECK_DEADLOCK FALSE
