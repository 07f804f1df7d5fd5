------------------------------- MODULE MCPool -------------------------------
(* Instance of ConnectionPoolService: one relay that answers at once or    *)
(* after 700 of the 1000 ms at which nothing is left of the score of a     *)
(* latency, three messages of two priorities in batches of two.            *)
EXTENDS ConnectionPoolService
=============================================================================
