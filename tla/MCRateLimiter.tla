---------------------------- MODULE MCRateLimiter ----------------------------
(* Bounds for RateLimiter. *)
EXTENDS RateLimiter

CONSTANTS
    MaxNow,    \* last tick
    MaxPassed  \* accepted requests of an identity

WithinBounds ==
    /\ now <= MaxNow
    /\ \A i \in Identity : Len(passed[i]) <= MaxPassed
=============================================================================
