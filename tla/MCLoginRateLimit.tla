-------------------------- MODULE MCLoginRateLimit --------------------------
(* Model checking of LoginRateLimit; no symmetry: the run checks liveness.  *)
EXTENDS LoginRateLimit, TLC

CONSTANTS e1, e2, i1, r1, r2

=============================================================================
