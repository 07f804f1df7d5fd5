---------------------------- MODULE MCRateLimiter ----------------------------
(* Instance of RateLimiterService: two senders, the global limit below what *)
(* both of them may send.                                                  *)
EXTENDS RateLimiterService, TLC

Interchangeable == Permutations(Senders)
=============================================================================
