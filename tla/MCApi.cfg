CONSTANTS
  Addresses = {a, b}
  Names = {n}
  None = None
  Messages = {m1}
  Requests = {q1, q2, q3}
SPECIFICATION Spec
SYMMETRY Interchangeable
INVARIANTS SentBacked MailboxOwned ReadBacked IdentityKept
CHECK_DEADLOCK FALSE
