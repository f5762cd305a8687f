---------------------------- MODULE MCModeration ----------------------------
(* Model checking of Moderation.                                            *)
EXTENDS Moderation, TLC

Symmetry == Permutations(Post) \union Permutations(Report) \union Permutations(Request)

=============================================================================
