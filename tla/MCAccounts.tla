----------------------------- MODULE MCAccounts -----------------------------
(* Model checking of Accounts; no symmetry: the run checks liveness.        *)
EXTENDS Accounts, TLC

CONSTANTS e1, e2, r1, r2, r3, n1

=============================================================================
