---------------------------- MODULE MCPostLikes ----------------------------
(* Model checking of PostLikes; no symmetry, for the run checks liveness.   *)
EXTENDS PostLikes, TLC

CONSTANTS u1, u2, r1, r2, w1, w2

=============================================================================
