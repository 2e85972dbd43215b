---------------------------- MODULE MCBuildFix ----------------------------
(* Small instances of BuildFix: commits are numbered in the order they are *)
(* made, and the workspace fingerprint of a commit is the commit itself.   *)
EXTENDS BuildFix, TLC

CONSTANTS c1, c2, o

MCShas == 1..MaxSha

\* The calls differ in nothing but their names.
Symmetry == Permutations(Chains)
==========================================================================
