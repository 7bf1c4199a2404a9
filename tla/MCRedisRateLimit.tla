---- MODULE MCRedisRateLimit ----
(* One client of a limiter. Seconds of two ticks, so that the window is       *)
(* longer than the whole second below it.                                    *)
EXTENDS RedisRateLimit, TLC

CONSTANTS login

MCMax == login :> 2
MCWindowMs == login :> 3
Symmetry == Permutations(Request)
====
