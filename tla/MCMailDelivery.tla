---------------------------- MODULE MCMailDelivery ----------------------------
(* Two clients and one relay: a sealed envelope s from a to b, a plain one  *)
(* p from b to itself.                                                      *)
EXTENDS MailDelivery, TLC
CONSTANTS a, b, s, p
MCSender == s :> a @@ p :> b
MCRecipient == s :> b @@ p :> b
=============================================================================
