--------------------------- MODULE Endorsement ---------------------------
(***************************************************************************)
(* What Build-Fix promises, whatever runs it: at any time at most one      *)
(* content is endorsed, and only one for which both checks have been       *)
(* reported as passed.  Endorsements may be withdrawn at any time and      *)
(* reports are never forgotten.                                            *)
(***************************************************************************)
CONSTANTS
    Contents,   \* what a verification is about
    Checks,     \* the checks an endorsement needs
    None        \* nothing endorsed

VARIABLES
    claims,     \* <<content, check>> pairs reported as passed so far
    endorsed    \* the content a push may rely on, or None

vars == <<claims, endorsed>>

Init == claims = {} /\ endorsed = None

Earned(content, reported) == \A check \in Checks : <<content, check>> \in reported

Withdraw == endorsed' = None

Keep == endorsed' = endorsed

Endorse == endorsed' \in {content \in Contents : Earned(content, claims')}

Next ==
    /\ \E new \in SUBSET (Contents \X Checks) : claims' = claims \cup new
    /\ Withdraw \/ Keep \/ Endorse

Spec == Init /\ [][Next]_vars
==========================================================================
