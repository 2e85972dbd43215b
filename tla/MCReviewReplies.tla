-------------------------- MODULE MCReviewReplies --------------------------
(* A small instance of ReviewReplies. *)
EXTENDS ReviewReplies, TLC

CONSTANTS d1, d2

\* Discussions differ in nothing but their names.
Symmetry == Permutations(Discussions)
============================================================================
