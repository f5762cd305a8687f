--------------------------- MODULE MCAuthSessions ---------------------------
(* Model checking of AuthSessions: the identities are interchangeable.      *)
EXTENDS AuthSessions, TLC

Symmetry ==
    Permutations(User) \union Permutations(Token) \union Permutations(Request)

=============================================================================
