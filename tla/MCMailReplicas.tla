---------------------------- MODULE MCMailReplicas ----------------------------
(* One client that sends a sealed envelope to itself, through two relays.   *)
EXTENDS MailDelivery, TLC
CONSTANTS b, s
MCSender == s :> b
MCRecipient == s :> b
=============================================================================
