------------------------ MODULE DependencyScheduling ------------------------
(***************************************************************************)
(* Which queued task may start, and what an early start would change       *)
(* (src/src/dependencyScheduling.ts).  The tasks of this module are the    *)
(* delivery tasks of one repository: the source compares tickets only      *)
(* between tasks of one repository.  Everything here is computed from the  *)
(* task records and the queue; the actions are those of TaskControl.       *)
(***************************************************************************)
EXTENDS Naturals, FiniteSets, SequencesExt

CONSTANTS
    Task,       \* the tasks
    Ticket      \* the ticket (AR) numbers

VARIABLES
    task,       \* the task records: TaskState with its TaskSummary
    queue       \* ids waiting for a slot, oldest first

Completed(t) == task[t].status = "completed"

\* A task that may own a branch named after its ticket.  A failed one that
\* never pushed owns nothing any more.
Worker(t) ==
    /\ task[t].status # "canceled"
    /\ task[t].status = "failed" => task[t].pushed

Blocking == [t \in Task |-> task[t].blocked_by]

\* Everything t waits for, over every path: the least set that holds the
\* direct dependencies and, with a task, its dependencies.
Ancestors(deps, t) ==
    {a \in Task : \A S \in SUBSET Task :
        (deps[t] \subseteq S /\ \A x \in S : deps[x] \subseteq S) => a \in S}

DependenciesDone(t) == \A d \in task[t].blocked_by : Completed(d)

Position(t) == SelectInSeq(queue, LAMBDA id : id = t)

\* MUTANT: those at work are overlooked.
TicketConflicts_QueuedOnly(t) ==
    IF ~Worker(t) THEN {} ELSE
    {o \in Task \ {t} :
        /\ Worker(o) /\ task[o].ticket = task[t].ticket
        /\ task[o].status = "queued" /\ DependenciesDone(o)
        /\ Position(o) # 0 /\ Position(o) < Position(t)}

\* MUTANT: each of two that are ready waits for the other.
TicketConflicts_Mutual(t) ==
    IF ~Worker(t) THEN {} ELSE
    {o \in Task \ {t} :
        /\ Worker(o) /\ ~Completed(o)
        /\ task[o].ticket = task[t].ticket
        /\ o \notin Ancestors(Blocking, t) /\ t \notin Ancestors(Blocking, o)
        /\ task[o].status # "queued" \/ DependenciesDone(o)}

\* The tasks t must not run beside: same ticket, neither waits for the
\* other, and either already started or ahead in the queue and ready.
TicketConflicts(t) ==
    IF ~Worker(t) THEN {} ELSE
    {o \in Task \ {t} :
        /\ Worker(o) /\ ~Completed(o)
        /\ task[o].ticket = task[t].ticket
        /\ o \notin Ancestors(Blocking, t)
        /\ t \notin Ancestors(Blocking, o)
        /\ \/ task[o].status # "queued"
           \/ /\ DependenciesDone(o)
              /\ Position(o) # 0
              /\ Position(o) < Position(t)}

Ready(t) == DependenciesDone(t) /\ TicketConflicts(t) = {}

\* Queued tasks that wait for a canceled one: they will never start.
Hopeless ==
    {t \in Task : /\ task[t].status = "queued"
                  /\ Contains(queue, t)
                  /\ \E d \in task[t].blocked_by : task[d].status = "canceled"}

---------------------------------------------------------------------------
(* The preview of an early start: what its owner is shown, and so what the *)
(* revision digest binds.                                                  *)

Pending(S) == {a \in S : ~Completed(a)}

Cut(t, released) == [Blocking EXCEPT ![t] = @ \ released]

\* MUTANT: only the direct ones.
Lost_Direct(o, deps) == Pending(Blocking[o] \ deps[o])

\* The waits o loses when `released` is cut from the dependencies of t.
Lost(o, deps) == Pending(Ancestors(Blocking, o) \ Ancestors(deps, o))

\* Workers that may come to run beside t.
Parallel(t, deps) ==
    {o \in Task \ {t} :
        /\ Worker(o) /\ ~Completed(o)
        /\ o \notin Ancestors(deps, t)
        /\ t \notin Ancestors(deps, o)}

\* MUTANT: nobody looks at what the followers lose with it.
Downstream_Unchecked(t, deps) ==
    {[follower |-> o, lost |-> Lost(o, deps), conflicts |-> {}] :
     o \in {x \in Task \ {t} : /\ Worker(x) /\ ~Completed(x)
                               /\ t \in Ancestors(Blocking, x)
                               /\ Lost(x, deps) # {}}}

\* Followers of t that lose a wait as well, each with the lost predecessors
\* of its own ticket it could then run beside.
Downstream(t, deps) ==
    {[follower |-> o, lost |-> Lost(o, deps),
      conflicts |-> {p \in Lost(o, deps) :
          /\ Worker(p) /\ task[p].ticket = task[o].ticket
          /\ o \notin Ancestors(deps, p)}] :
     o \in {x \in Task \ {t} : /\ Worker(x) /\ ~Completed(x)
                               /\ t \in Ancestors(Blocking, x)
                               /\ Lost(x, deps) # {}}}

\* No working tree, session or delivery of its own yet.
Pristine(t) == ~task[t].started

Preview(t, released, ticket) ==
    LET deps == Cut(t, released)
        parallel == Parallel(t, deps)
        downstream == Downstream(t, deps)
    IN  [task |-> t, release_ids |-> released, ticket |-> ticket,
         available |-> /\ task[t].status = "queued" /\ Pristine(t)
                       /\ Pending(task[t].blocked_by) # {},
         direct |-> task[t].blocked_by,
         prerequisites |-> Pending(task[t].blocked_by),
         after |-> Ancestors(deps, t),
         no_longer_waiting |-> Lost(t, deps),
         parallel |-> {<<o, task[o].ticket>> : o \in parallel},
         downstream |-> downstream,
         errors |-> \/ released = {}
                    \/ \E o \in parallel : task[o].ticket = ticket
                    \/ \E d \in downstream : d.conflicts # {}]
=============================================================================
