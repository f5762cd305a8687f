----------------------------- MODULE MCMenuTree -----------------------------
(* Model checking of MenuTree.                                              *)
EXTENDS MenuTree, TLC

Symmetry == Permutations(Menu) \union Permutations(Request)

=============================================================================
