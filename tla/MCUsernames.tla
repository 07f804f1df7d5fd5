----------------------------- MODULE MCUsernames -----------------------------
(* Instance of UsernameRegistry: two users and three dMail addresses, one   *)
(* name typed in two ways, one that reads as an address, one reserved.      *)
EXTENDS UsernameRegistry

Typed == {"Bob", "bob", "dm1x", "admin"}

TypedLower == [s \in Typed |-> IF s = "Bob" THEN "bob" ELSE s]

Users == {[dmail |-> "dm1a", wallet |-> "wa"], [dmail |-> "dm1b", wallet |-> "wb"],
          [dmail |-> "dm1c", wallet |-> "wb"]}
=============================================================================
