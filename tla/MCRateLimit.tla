---- MODULE MCRateLimit ----
(* Two clients, a RateLimit middleware and a throttle() limiter.             *)
EXTENDS RateLimit, TLC

CONSTANTS global, login

MCKind == (global :> "RateLimit") @@ (login :> "throttle")
\* Both limiters on the defaultStore, as in the example above class RateLimit.
MCKindShared == (global :> "RateLimit") @@ (login :> "RateLimit")
MCWindowMs == (global :> 2) @@ (login :> 3)
MCMax == (global :> 2) @@ (login :> 1)
MCMaxShared == (global :> 3) @@ (login :> 2)
Symmetry == Permutations(Request) \cup Permutations(Client)
====
