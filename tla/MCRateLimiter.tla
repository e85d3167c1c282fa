---------------------------- MODULE MCRateLimiter ----------------------------
(* An instance of RateLimiter for TLC. *)
EXTENDS RateLimiter, TLC

CONSTANTS c1, c2, r1, r2, r3

\* Two clients compete for the global window, which can be filled late and then
\* reopened; r1 and r2 share a client.
MCClientOf == (r1 :> c1) @@ (r2 :> c1) @@ (r3 :> c2)
MCKindOf == (r1 :> "adaptive") @@ (r2 :> "explicit") @@ (r3 :> "explicit")
=============================================================================
