------------------------- MODULE MCPrePushMachine -------------------------
(* Small instances of PrePushMachine: two commits of one tree and a third  *)
(* of another, one fingerprint per workspace.                              *)
EXTENDS PrePushMachine

CONSTANTS h1, h2, h3, f, tree1, tree2

MCContent == [rev \in Revision |-> IF rev.sha = h3 THEN tree2 ELSE tree1]
==========================================================================
