------------------------- MODULE RequirementReview -------------------------
(***************************************************************************)
(* Review of the requirement document before its analysis starts           *)
(* (src/src/requirementReviewQueue.ts with its callers in taskService.ts,  *)
(* annotations.ts and auxiliarySessions.ts).  People write comments, an    *)
(* agent changes the document batch by batch and leaves one receipt per    *)
(* comment, and the owner closes the comments and confirms the document.   *)
(*                                                                         *)
(* A batch is handled by a drain: an asynchronous loop with a lock         *)
(* (`writer`) per task and an epoch that every stop of the task's          *)
(* auxiliary sessions ends.  Drains go on after they lost their lock, and  *)
(* the document an agent works on is a copy made when its run began.       *)
(***************************************************************************)
EXTENDS Naturals, FiniteSets

CONSTANTS
    Comment,        \* the comments on the requirement document
    MaxVersion,     \* bound: versions of a comment
    MaxEpoch,       \* bound: pauses and cancellations between two restarts
    MaxCrashes,     \* bound: restarts
    None

ASSUME CommentAssumption == IsFiniteSet(Comment)
ASSUME BoundAssumption ==
    MaxVersion \in Nat /\ MaxEpoch \in Nat /\ MaxCrashes \in Nat
ASSUME NoneAssumption == None \notin {"fixed", "declined"}

VARIABLES
    comment,        \* the ledger, replayed: AnnotationStore.list()
    drains,         \* the loops that await a run
    writer,         \* the loop that holds the lock of the task, or None
    auxEpoch,       \* epoch of the auxiliary sessions
    controlEpoch,   \* epoch of the task
    pauses,         \* the cleanups finishPause awaits, by their epoch
    status,         \* where the task is
    confirmed,      \* requirement_analysis_confirmed_at
    revision,       \* requirement_revision of the task record, or None
    document,       \* the comment versions the document carries out
    handed,         \* the comment versions given to an agent so far
    crashes

vars == <<comment, drains, writer, auxEpoch, controlEpoch, pauses, status,
          confirmed, revision, document, handed, crashes>>

Sent == {"requirement_queue", "requirement_review", "interrupt"}
InHand == {"requirement_queue", "requirement_review"}

\* versionKey: what a batch, a receipt and the document refer to.
Version(c) == <<c, comment[c].version>>

Batch(via) == {Version(c) : c \in {x \in Comment : comment[x].status = via}}

\* Changes of the ledger.  `status` of a sent comment is its sent_via.
Put(S, rec(_)) ==
    [c \in Comment |-> IF c \in S THEN rec(comment[c]) ELSE comment[c]]

MarkSent(S, via) == Put(S, LAMBDA r : [r EXCEPT !.status = via])

\* MUTANT: nothing tells it from what was given away before.
Redraft_SameVersion(r) == [r EXCEPT !.status = "draft", !.response = None]

\* Back to its author, as the next version of the comment.
Redraft(r) == [status |-> "draft", version |-> r.version + 1, response |-> None]

\* MUTANT: what lines up is forgotten.
ResetQueued_InHandOnly ==
    Put({c \in Comment : comment[c].status = "requirement_review"}, Redraft)

\* resetQueuedRequirementReviews
ResetQueued == Put({c \in Comment : comment[c].status \in InHand}, Redraft)

Halted == IF revision # None /\ revision.state = "running"
          THEN [revision EXCEPT !.state = "failed"] ELSE revision
---------------------------------------------------------------------------
(* The loop.                                                               *)

\* Runs are numbered in the order they start; a loop is known by its first.
Fresh == Cardinality(handed)

Run(loop, batch) ==
    [loop |-> loop, run |-> Fresh, epoch |-> auxEpoch, batch |-> batch,
     copy |-> document]

\* A batch is registered and its run begins, on a copy of the document.
Begin(loop, batch, others) ==
    /\ drains' = others \cup {Run(loop, batch)}
    /\ handed' = handed \cup batch
    /\ revision' = [id |-> Fresh, state |-> "running",
                    batch |-> {v[1] : v \in batch}]

\* submitRequirementReview: take the lock and begin, or line up.
Submit(S) ==
    /\ S # {} /\ \A c \in S : /\ comment[c].status = "draft"
                              /\ comment[c].version < MaxVersion
    /\ status = "waiting_for_human"
    /\ IF writer = None
       THEN /\ writer' = Fresh
            /\ comment' = MarkSent(S, "requirement_review")
            /\ Begin(Fresh, {Version(c) : c \in S}, drains)
       ELSE /\ comment' = MarkSent(S, "requirement_queue")
            /\ UNCHANGED <<writer, drains, handed, revision>>
    /\ UNCHANGED <<auxEpoch, controlEpoch, pauses, status, confirmed, document,
                   crashes>>

\* MUTANT: the lock is kept.
Leave_KeepsLock(d) == drains' = drains \ {d} /\ UNCHANGED writer

\* The finally of drainRequirementReviews.
Leave(d) ==
    /\ drains' = drains \ {d}
    /\ writer' = IF writer = d.loop THEN None ELSE writer

\* The loop reads the ledger `after` again: what was queued meanwhile is the
\* next batch.  Once the task has moved on a run is refused, and its batch
\* given back.
Proceed(d, after, rev, doc) ==
    LET queued == {c \in Comment : after[c].status = "requirement_queue"} IN
    IF queued = {} THEN
        /\ comment' = after /\ revision' = rev /\ Leave(d)
        /\ UNCHANGED handed
    ELSE IF status # "waiting_for_human" THEN
        /\ comment' = [c \in Comment |-> IF c \in queued THEN Redraft(after[c])
                                         ELSE after[c]]
        /\ revision' = rev /\ Leave(d)
        /\ UNCHANGED handed
    ELSE
        /\ comment' = [c \in Comment |->
               IF c \in queued
               THEN [after[c] EXCEPT !.status = "requirement_review"]
               ELSE after[c]]
        /\ drains' = (drains \ {d}) \cup
               {[Run(d.loop, {<<c, after[c].version>> : c \in queued})
                     EXCEPT !.copy = doc]}
        /\ handed' = handed \cup {<<c, after[c].version>> : c \in queued}
        /\ revision' = [id |-> Fresh, state |-> "running", batch |-> queued]
        /\ UNCHANGED writer

\* MUTANT: any run of this epoch may.
Entitled_AnyRun(d) ==
    d.epoch = auxEpoch /\ revision # None /\ status = "waiting_for_human"

\* MUTANT: whatever the task is doing.
Entitled_AnyStatus(d) == d.epoch = auxEpoch

\* reviseRequirementFromAnnotations: the run may still write.
Entitled(d) ==
    /\ d.epoch = auxEpoch
    /\ revision # None /\ revision.id = d.run
    /\ status = "waiting_for_human"

\* markSentFor: the comments of the batch that still are that version.
Applied(d) ==
    {c \in Comment : /\ Version(c) \in d.batch
                     /\ comment[c].status \in Sent \cup {"draft"}}

\* The agent is done: the new document, then a receipt for every comment.
RunSucceeds(d) ==
    /\ Entitled(d)
    /\ \E fixed \in SUBSET {v[1] : v \in d.batch} :
         LET new == d.copy \cup {v \in d.batch : v[1] \in fixed} IN
         /\ document' = new
         /\ Proceed(d,
                [c \in Comment |->
                   IF c \in Applied(d)
                   THEN [comment[c] EXCEPT !.status = "interrupt",
                            !.response = IF c \in fixed THEN "fixed"
                                         ELSE "declined"]
                   ELSE comment[c]],
                None, new)
    /\ UNCHANGED <<auxEpoch, controlEpoch, pauses, status, confirmed, crashes>>

\* It failed, was stopped, or has no right to write any more.  A loop of an
\* earlier epoch leaves the ledger to whoever stopped it; otherwise the
\* batch goes back to its authors.
RunFails(d) ==
    /\ IF d.epoch # auxEpoch
       THEN Leave(d) /\ UNCHANGED <<comment, revision, handed>>
       ELSE Proceed(d,
                Put({c \in Comment :
                       /\ Version(c) \in d.batch
                       /\ comment[c].status = "requirement_review"}, Redraft),
                IF Entitled(d) THEN Halted ELSE revision,
                document)
    /\ UNCHANGED <<auxEpoch, controlEpoch, pauses, status, confirmed, document,
                   crashes>>
---------------------------------------------------------------------------
(* What people do with their comments.                                     *)

Others == <<drains, writer, auxEpoch, controlEpoch, pauses, status, confirmed,
            revision, document, handed, crashes>>

Open == ~confirmed /\ status # "canceled"

EditAnnotation(c) ==
    /\ Open /\ comment[c].status = "draft" /\ comment[c].version < MaxVersion
    /\ comment' = Put({c}, Redraft)
    /\ UNCHANGED Others

DropAnnotation(c) ==
    /\ Open /\ comment[c].status = "draft"
    /\ comment' = Put({c}, LAMBDA r : [r EXCEPT !.status = "dropped"])
    /\ UNCHANGED Others

VerifyAnnotation(c) ==
    /\ Open /\ comment[c].status \in Sent /\ comment[c].response # None
    /\ comment' = Put({c}, LAMBDA r : [r EXCEPT !.status = "verified"])
    /\ UNCHANGED Others

\* Not while the agent works on it.
ReopenAnnotation(c) ==
    /\ Open /\ comment[c].version < MaxVersion
    /\ \/ comment[c].status = "verified"
       \/ comment[c].status \in Sent /\ comment[c].response # None
    /\ comment' = Put({c}, Redraft)
    /\ UNCHANGED Others
---------------------------------------------------------------------------
(* The controls of the task.                                               *)

\* interruptRequirementReviews
Interrupt == writer' = None /\ comment' = ResetQueued /\ revision' = Halted

\* pause: the sessions are asked to stop; the task goes on waiting at its
\* card until they have.
Pause ==
    /\ status = "waiting_for_human" /\ controlEpoch < MaxEpoch
    /\ controlEpoch' = controlEpoch + 1
    /\ auxEpoch' = auxEpoch + 1
    /\ pauses' = pauses \cup {controlEpoch + 1}
    /\ UNCHANGED <<comment, drains, writer, status, confirmed, revision,
                   document, handed, crashes>>

\* finishPause after its awaits; a later control has the last word.
PauseEnds(e) ==
    /\ pauses' = pauses \ {e}
    /\ IF controlEpoch = e /\ status # "canceled"
       THEN status' = "paused" /\ Interrupt
       ELSE UNCHANGED <<status, writer, comment, revision>>
    /\ UNCHANGED <<drains, auxEpoch, controlEpoch, confirmed, document, handed,
                   crashes>>

Resume ==
    /\ status = "paused" /\ controlEpoch < MaxEpoch
    /\ controlEpoch' = controlEpoch + 1
    /\ status' = IF confirmed THEN "queued" ELSE "waiting_for_human"
    /\ UNCHANGED <<comment, drains, writer, auxEpoch, pauses, confirmed,
                   revision, document, handed, crashes>>

Cancel ==
    /\ status # "canceled" /\ controlEpoch < MaxEpoch
    /\ controlEpoch' = controlEpoch + 1
    /\ auxEpoch' = auxEpoch + 1
    /\ status' = "canceled"
    /\ Interrupt
    /\ UNCHANGED <<drains, pauses, confirmed, document, handed, crashes>>

\* The owner confirms the document and its analysis is queued.
Confirm ==
    /\ status = "waiting_for_human"
    /\ revision # None => revision.state # "running"
    /\ \A c \in Comment : comment[c].status \in {"verified", "dropped"}
    /\ status' = "queued" /\ confirmed' = TRUE /\ revision' = None
    /\ UNCHANGED <<comment, drains, writer, auxEpoch, controlEpoch, pauses,
                   document, handed, crashes>>

\* recover(): what was queued or in hand is given back, and so is whatever
\* an interrupted run had begun to receipt.
Recovered(c) ==
    IF \/ comment[c].status \in InHand
       \/ /\ comment[c].status \in Sent
          /\ revision # None /\ revision.state = "running"
          /\ c \in revision.batch
    THEN Redraft(comment[c]) ELSE comment[c]

Restart ==
    /\ crashes < MaxCrashes
    /\ comment' = [c \in Comment |-> Recovered(c)]
    /\ revision' = Halted
    /\ drains' = {} /\ writer' = None /\ pauses' = {}
    /\ auxEpoch' = 0 /\ controlEpoch' = 0
    /\ crashes' = crashes + 1
    /\ UNCHANGED <<status, confirmed, handed>>

Crash == Restart /\ UNCHANGED document

\* The process dies while a run writes: the document is saved, some of the
\* receipts are, the end of the run is not.
CrashInWrite(d) ==
    /\ Entitled(d) /\ Restart
    /\ \E fixed \in SUBSET d.batch : document' = d.copy \cup fixed
---------------------------------------------------------------------------
Init ==
    /\ comment = [c \in Comment |-> [status |-> "draft", version |-> 0,
                                     response |-> None]]
    /\ drains = {} /\ writer = None
    /\ auxEpoch = 0 /\ controlEpoch = 0 /\ pauses = {}
    /\ status = "waiting_for_human" /\ confirmed = FALSE
    /\ revision = None /\ document = {} /\ handed = {}
    /\ crashes = 0

Processing ==
    \/ \E d \in drains : RunSucceeds(d) \/ RunFails(d)
    \/ \E e \in pauses : PauseEnds(e)

Next ==
    \/ Processing
    \/ \E S \in SUBSET Comment : Submit(S)
    \/ \E c \in Comment : \/ EditAnnotation(c) \/ DropAnnotation(c)
                          \/ VerifyAnnotation(c) \/ ReopenAnnotation(c)
    \/ Pause \/ Resume \/ Cancel \/ Confirm
    \/ Crash
    \/ \E d \in drains : CrashInWrite(d)

\* Runs end and stopped sessions come to rest; people need do nothing.
Spec == Init /\ [][Next]_vars /\ WF_vars(Processing)
---------------------------------------------------------------------------
(* The type invariant.                                                     *)
VersionKey == Comment \X (0..MaxVersion)

\* A line of the replayed ledger, and a loop with the run it awaits.
Entry == [status : Sent \cup {"draft", "verified", "dropped"},
          version : 0..MaxVersion,
          response : {None, "fixed", "declined"}]

Drain == [loop : Nat, run : Nat, epoch : 0..MaxEpoch,
          batch : (SUBSET VersionKey) \ {{}},
          copy : SUBSET VersionKey]

TypeOK ==
    /\ comment \in [Comment -> Entry]
    /\ drains \subseteq Drain
    /\ writer \in Nat \cup {None}
    /\ auxEpoch \in 0..MaxEpoch /\ controlEpoch \in 0..MaxEpoch
    /\ pauses \subseteq 1..MaxEpoch
    /\ status \in {"waiting_for_human", "paused", "queued", "canceled"}
    /\ confirmed \in BOOLEAN
    /\ revision \in {None} \cup [id : Nat, state : {"running", "failed"},
                                 batch : SUBSET Comment]
    /\ document \subseteq VersionKey /\ handed \subseteq VersionKey
    /\ crashes \in 0..MaxCrashes

\* A comment that people can no longer touch is in somebody's hands: a loop
\* that will still read the ledger, or a pause that will give it back.  One
\* that was processed can be closed or reopened.
NotForgotten ==
    \A c \in Comment :
        /\ comment[c].status \in InHand =>
             \/ pauses # {}
             \/ \E d \in drains : d.epoch = auxEpoch
        /\ comment[c].status = "interrupt" => comment[c].response # None

\* A receipt that says "fixed" is true of the document as it is: no run
\* overwrites what another one has done.
ReceiptsTrue ==
    \A c \in Comment :
        comment[c].response = "fixed" => Version(c) \in document

\* No version of a comment is given to an agent twice, repeated requests,
\* stops and restarts included.
HandedOnce ==
    [][\A d \in drains' \ drains : d.batch \cap handed = {}]_vars

\* What was confirmed and locked for analysis is not changed any more.
ConfirmedFrozen == [][confirmed => UNCHANGED document]_vars

\* Every comment given away comes back, with a receipt or as a draft.
ComesBack ==
    \A c \in Comment :
        comment[c].status \in InHand ~> comment[c].status \notin InHand
=============================================================================
