CONSTANTS
  Relays = {r1, r2, r3}
  Sender = sender
  Destination = dest
  hopCount = 3
  Circuits = {c1}
  MaxRestarts = 1
SPECIFICATION ServiceSpec
INVARIANTS Unlinkable ReplyPath
CHECK_DEADLOCK FALSE
