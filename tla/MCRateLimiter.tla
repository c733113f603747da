--------------------------- MODULE MCRateLimiter ----------------------------
(***************************************************************************)
(* Two clients, two requests per window of two ticks, two windows.        *)
(***************************************************************************)
EXTENDS RateLimiter

CONSTANTS c1, c2

=============================================================================
