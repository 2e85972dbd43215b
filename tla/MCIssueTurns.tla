---------------------------- MODULE MCIssueTurns ----------------------------
(* Two issue sessions, one of which has to wait for its turn. *)
EXTENDS IssueTurns

MCIssue == {1, 2}
=============================================================================
