-------------------------------- MODULE MCApi --------------------------------
(* Instance of ApiMail: two identities, which may be given the same name,   *)
(* one message, three requests at once or one after another.               *)
EXTENDS ApiMail, TLC

Interchangeable == Permutations(Requests) \cup Permutations(Addresses)
=============================================================================
