CONSTANTS
  w1 = w1
  w2 = w2
  alice = alice
  bob = bob
  a1 = a1
  a2 = a2
  h1 = h1
  Wallets = {w1, w2}
  NoWallet = none
  Names = {alice, bob, toolong}
  ValidNames = {alice, bob}
  NoName = empty
  DmailAddresses = {a1, a2, other}
  Dm1Addresses = {a1, a2}
  Keys = {k1}
  NoKey = nokey
  Hashes = {h1}
  Cids = {c1}
  Envelopes <- OneHash
  MaxTime = 2
  MaxCalls = 3
SPECIFICATION Spec
SYMMETRY Interchangeable
INVARIANTS ReverseAgrees LookupAgrees ReportsTrue
PROPERTIES BooksWrittenOnce
CHECK_DEADLOCK FALSE
