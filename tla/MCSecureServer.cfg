CONSTANTS
  Wallets = {v, w}
  Sockets = {s1, s2}
  NONCE_EXPIRY = 0
  SESSION_DURATION = 0
  MaxNonces = 2
  MaxNodes = 2
  MaxTime = 1
SPECIFICATION FairSpec
INVARIANTS TypeOK NonceOnce SessionOwner NotifiedOwner
PROPERTIES EndedStaysEnded Swept
CHECK_DEADLOCK FALSE
