----------------------------- MODULE MCDMailToken -----------------------------
(* Instance of TokenClient for TLC: two wallets, of which the owner is one  *)
(* and the other that of a relay.                                           *)
EXTENDS TokenClient
=============================================================================
