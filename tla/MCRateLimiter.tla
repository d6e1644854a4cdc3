--------------------------- MODULE MCRateLimiter ---------------------------
(* RateLimiter with a few requests per window of a few units of time. *)
EXTENDS RateLimiter
=============================================================================
