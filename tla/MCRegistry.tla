----------------------------- MODULE MCRegistry -----------------------------
(* Instance of RegistryClient: two wallets compete for two names and one   *)
(* message hash; one name is too long and one address is not a dMail one.  *)
EXTENDS RegistryClient, TLC

CONSTANTS w1, w2, alice, bob, h1, a1, a2

(* The hash is of the ciphertext only: the same one may name two readers.   *)
OneHash == [hash : {h1}, from : {a1}, to : {a1, a2}]

Interchangeable == Permutations({w1, w2}) \cup Permutations({alice, bob})
=============================================================================
