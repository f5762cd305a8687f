----------------------------- MODULE MCComments -----------------------------
(* Model checking of Comments.                                              *)
EXTENDS Comments, TLC

CONSTANTS ann, anna, esc

(* "ann" is part of "anna"; esc stands for "a\nn", which as a pattern is    *)
(* "ann" and so matches these two, but not itself.                          *)
MCMatched == [n \in Nick |-> IF n = anna THEN {anna} ELSE {ann, anna}]

Symmetry ==
    Permutations(Comment) \union Permutations(Request) \union Permutations(Post)
        \union Permutations(User)

=============================================================================
