------------------------ MODULE MCRequirementReview ------------------------
(* Small instances of RequirementReview. *)
EXTENDS RequirementReview, TLC

CONSTANTS a, b

MCComment == {a, b}
Symmetry == Permutations(MCComment)
=============================================================================
