-------------------------- MODULE MCSessionLifecycle --------------------------
(* The calls of an instance are interchangeable; the names of locks are not, *)
(* because their order decides which lock a call takes first.               *)
EXTENDS SessionLifecycle

CONSTANTS k1, k2, s1, s2

MCSorted == <<k1, s1, k2, s2>>
MCSymmetry == Permutations(Calls)
===============================================================================
