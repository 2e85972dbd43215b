---------------------------- MODULE ReplyLedger ----------------------------
(***************************************************************************)
(* What the outbox promises.  A reply on record stays on record.  It       *)
(* reaches the platform only when it is on record and the commit it speaks *)
(* of has been published, and it is recorded as delivered only once the    *)
(* platform has it -- for good.                                            *)
(***************************************************************************)
CONSTANTS Discussions, Commits

\* A reply answers a discussion and speaks of a commit.
Replies == Discussions \X Commits

VARIABLES published, recorded, received, delivered

vars == <<published, recorded, received, delivered>>

Init == published = {} /\ recorded = {} /\ received = {} /\ delivered = {}

Publish(commit) ==
    /\ published' = published \cup {commit}
    /\ UNCHANGED <<recorded, received, delivered>>

Record(reply) ==
    /\ recorded' = recorded \cup {reply}
    /\ UNCHANGED <<published, received, delivered>>

Receive(reply) ==
    /\ reply \in recorded /\ reply[2] \in published
    /\ received' = received \cup {reply}
    /\ UNCHANGED <<published, recorded, delivered>>

Deliver(reply) ==
    /\ reply \in received
    /\ delivered' = delivered \cup {reply}
    /\ UNCHANGED <<published, recorded, received>>

Next ==
    \/ \E commit \in Commits : Publish(commit)
    \/ \E reply \in Replies : Record(reply) \/ Receive(reply) \/ Deliver(reply)

Spec == Init /\ [][Next]_vars
============================================================================
