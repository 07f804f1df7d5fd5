CONSTANTS
  b = b
  s = s
  Clients = {b}
  Relays = {r1, r2}
  Envelopes = {s}
  Sender <- MCSender
  Recipient <- MCRecipient
  Sealed = {s}
  TTL = 0
  MaxTime = 2
  MaxRecords = 2
  ReplicationFactor = 1
  Fetchers = {b}
  Loops = {"inbox"}
  Editors = {}
  MaxSent = 1
SPECIFICATION FairSpec
INVARIANTS ReplicasAgree
PROPERTIES Delivered ExpiredRemoved
