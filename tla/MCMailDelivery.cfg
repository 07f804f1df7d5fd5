CONSTANTS
  a = a
  b = b
  s = s
  p = p
  Clients = {a, b}
  Relays = {r1}
  Envelopes = {s, p}
  Sender <- MCSender
  Recipient <- MCRecipient
  Sealed = {s}
  TTL = 0
  MaxTime = 2
  MaxRecords = 2
  ReplicationFactor = 1
  Fetchers = {b}
  Loops = {"start", "inbox"}
  Editors = {b}
  MaxSent = 1
SPECIFICATION Spec
INVARIANTS InboxAddressed
PROPERTIES SealedKept
