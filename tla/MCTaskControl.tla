--------------------------- MODULE MCTaskControl ---------------------------
(* Small instances of TaskControl: tasks are numbered as they are created. *)
EXTENDS TaskControl

CONSTANTS yes, r1, r2, N

MCTask == 1..N

Unit(blocked_by, ticket) == [blocked_by |-> blocked_by, ticket |-> ticket]

\* Two tasks that have nothing to do with each other but the slots.
PairPlans == {<<Unit({}, r1), Unit({}, r2)>>}

\* A task, and one that waits for it.
ChainPlans == {<<Unit({}, r1), Unit({1}, r1)>>}

\* Three tasks: a chain whose ends share a ticket, and two of one ticket
\* that wait for nobody with a third that waits for the second.
TriplePlans ==
    {<<Unit({}, r1), Unit({1}, r2), Unit({2}, r1)>>,
     <<Unit({}, r1), Unit({}, r1), Unit({2}, r2)>>}
===========================================================================
