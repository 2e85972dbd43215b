--------------------------- MODULE ReviewReplies ---------------------------
(***************************************************************************)
(* How the task service answers the discussions of a merge request         *)
(* (src/taskService.ts, stageReviewReplies and flushReviewReplyOutbox):    *)
(* the agent's draft is staged into the outbox under the commit it speaks  *)
(* of, and a flush sends what is pending once that commit is pushed.  A    *)
(* flush awaits the platform's answer to each reply; the code between two  *)
(* awaits is not interrupted except by the death of the process.           *)
(*                                                                         *)
(* A reply is a discussion (with its revision) and a commit: the key of a  *)
(* reply is a hash of these and of its text.  The platform recognises a    *)
(* key it has seen, so that a request repeated or late is accepted once.   *)
(* One review cycle is modelled: its discussions stay the same.            *)
(***************************************************************************)
EXTENDS DeliveryOutbox

CONSTANTS
    Discussions,    \* what is to be answered (review_ids, discussions.json)
    MaxSha, MaxLines, MaxFaults     \* bounds

ASSUME ReviewRepliesConstants == MaxSha \in Nat \ {0} /\ {MaxLines, MaxFaults} \subseteq Nat

Shas == 1..MaxSha
Replies == Discussions \X Shas

VARIABLES
    head,       \* the commit HEAD names
    pushed,     \* delivery.git_push.sha
    draft,      \* discussions review_replies.md answers
    log,        \* delivery-outbox.jsonl
    replied,    \* loop.replied_ids
    open,       \* neither completed nor canceled nor being settled
    stalled,    \* delivery.stalled says that the outbox cannot be used
    stage,      \* the call of stageReviewReplies, if any
    flush,      \* reviewOutboxFlush
    wire,       \* requests on their way, whoever sent them
    accepted,   \* replies the platform has
    published,  \* history: commits pushed so far
    faults      \* appends that failed (bounded)

task == <<head, pushed, draft, open>>
ledger == <<log, faults>>
platform == <<wire, accepted>>
vars == <<task, ledger, replied, stalled, stage, flush, platform, published>>

NoStage == [pc |-> "idle", sha |-> None, left |-> {}]
NoFlush == [pc |-> "idle", pushed |-> None, left |-> {}, reply |-> None]

\* Nobody is between two awaits.
Quiet == stage.pc # "append" /\ flush.pc \in {"idle", "posting"}

Writes(how) ==
    /\ how \in Appends
    /\ Len(log.lines) < MaxLines
    /\ how # "whole" => faults < MaxFaults
    /\ faults' = IF how = "whole" THEN faults ELSE faults + 1

Staged(sha) == {d \in Discussions : <<d, sha>> \in Listed(log)}

\* What is still to be answered under commit `sha`.
Uncovered(sha) == (Discussions \ replied) \ Staged(sha)

--------------------------------------------------------------------------
\* The rest of the task, while it lives.

Commit ==
    /\ Quiet /\ open /\ head < MaxSha
    /\ head' = head + 1
    /\ UNCHANGED <<pushed, draft, open, ledger, replied, stalled, stage, flush, platform,
                   published>>

\* The agent is asked for what has no answer yet.
AgentWrites ==
    /\ Quiet /\ open /\ Uncovered(head) # {}
    /\ draft' \in (SUBSET Discussions) \ {{}}
    /\ UNCHANGED <<head, pushed, open, ledger, replied, stalled, stage, flush, platform,
                   published>>

Push ==
    /\ Quiet /\ open /\ pushed # head
    /\ pushed' = head /\ published' = published \cup {head}
    /\ UNCHANGED <<head, draft, open, ledger, replied, stalled, stage, flush, platform>>

\* Completed, canceled, or the merge is being settled; a settlement that
\* fails, or a closed request, leaves the task where it was.
Settle ==
    /\ Quiet
    /\ open' = ~open
    /\ UNCHANGED <<head, pushed, draft, ledger, replied, stalled, stage, flush, platform,
                   published>>

--------------------------------------------------------------------------
\* stageReviewReplies.

\* Nothing is staged unless every discussion left has an answer.  No session
\* runs beside a delivery, so HEAD is what it was when the call began.
StageBegin ==
    /\ Quiet /\ open
    /\ Uncovered(head) # {} /\ Uncovered(head) \subseteq draft
    /\ stage' = [pc |-> "append", sha |-> head, left |-> Uncovered(head)]
    /\ UNCHANGED <<task, ledger, replied, stalled, flush, platform, published>>

\* Mutant of Cleared: the draft goes before its last answer is in the log.
Cleared_Early(left) == TRUE

\* The draft may go once nothing is left to enqueue.
Cleared(left) == left = {}

\* enqueueReviewReply; an exception ends the call with the draft in place.
StageOne(d, how) ==
    /\ stage.pc = "append" /\ d \in stage.left
    /\ Writes(how)
    /\ log' = append(log, Entry("enqueue", <<d, stage.sha>>, None), how)
    /\ LET left == IF how = "whole" THEN stage.left \ {d} ELSE stage.left
       IN  /\ stage' = IF how # "whole" \/ left = {} THEN NoStage
                       ELSE [stage EXCEPT !.left = left]
           /\ draft' \in IF Cleared(left) THEN {{}, draft} ELSE {draft}
    /\ UNCHANGED <<head, pushed, open, replied, stalled, flush, platform, published>>

--------------------------------------------------------------------------
\* flushReviewReplyOutbox, one at a time.

\* A service that is shutting down goes straight to the end.
FlushStart ==
    /\ Quiet /\ flush.pc = "idle" /\ pushed # None
    /\ \E pc \in {"next", "end"} :
          flush' = [pc |-> pc, pushed |-> pushed, left |-> Pending(log), reply |-> None]
    /\ UNCHANGED <<task, ledger, replied, stalled, stage, platform, published>>

MayGoOn == flush.left # {} /\ open /\ pushed = flush.pushed

\* After an answer, unless the ten seconds of a flush are over or the service is
\* shutting down.
GoOn == flush' \in {[flush EXCEPT !.pc = pc, !.reply = None] : pc \in {"next", "end"}}

\* The replies that were tried least often go first.
Turns(left) == {i \in left : \A j \in left : attempts(log, i) <= attempts(log, j)}

Sendable(reply, sha) == reply[2] = sha

\* The outbox cannot be written: the flush ends and the task shows why.
GiveUp ==
    /\ flush' = NoFlush
    /\ stalled' = (open \/ stalled)

\* A reply about another commit stays pending, with a note (once).
Refuse(i, how) ==
    LET note == Entry("failed", i, <<"refused", flush.pushed>>)
    IN  /\ flush.pc = "next" /\ MayGoOn /\ i \in Turns(flush.left)
        /\ ~Sendable(i, flush.pushed)
        /\ IF last_error(log, i) = note.error
           THEN /\ flush' = [flush EXCEPT !.left = @ \ {i}]
                /\ UNCHANGED <<ledger, stalled>>
           ELSE /\ Writes(how)
                /\ log' = mark(log, note, how)
                /\ IF Marked(log, note, how)
                   THEN flush' = [flush EXCEPT !.left = @ \ {i}] /\ UNCHANGED stalled
                   ELSE GiveUp
        /\ UNCHANGED <<task, replied, stage, platform, published>>

Send(i, how) ==
    LET attempt == Entry("attempt", i, None)
        marked == Marked(log, attempt, how)
    IN  /\ flush.pc = "next" /\ MayGoOn /\ i \in Turns(flush.left)
        /\ Sendable(i, flush.pushed)
        /\ Writes(how)
        /\ log' = mark(log, attempt, how)
        /\ wire' = IF marked THEN wire \cup {i} ELSE wire
        /\ flush' = [flush EXCEPT !.left = @ \ {i}, !.reply = i,
                                  !.pc = IF marked THEN "posting" ELSE "catch"]
        /\ UNCHANGED <<task, replied, stalled, stage, accepted, published>>

\* The platform gets a request, perhaps long after its sender gave up.
Accept(i) ==
    /\ Quiet /\ i \in wire
    /\ wire' = wire \ {i} /\ accepted' = accepted \cup {i}
    /\ UNCHANGED <<task, ledger, replied, stalled, stage, flush, published>>

\* Mutant of Confirms: any answer will do, whatever its status.
Confirms_AnyStatus(i) == TRUE

\* A 2xx answer.
Confirms(i) == i \in accepted

Answered(how) ==
    LET done == Entry("delivered", flush.reply, None)
    IN  /\ Quiet /\ flush.pc = "posting" /\ Confirms(flush.reply)
        /\ Writes(how)
        /\ log' = mark(log, done, how)
        /\ IF Marked(log, done, how) THEN GoOn ELSE flush' = [flush EXCEPT !.pc = "catch"]
        /\ UNCHANGED <<task, replied, stalled, stage, platform, published>>

\* An error answer, no answer in time, or an answer that got lost.
Failed ==
    /\ Quiet /\ flush.pc = "posting"
    /\ flush' = [flush EXCEPT !.pc = "catch"]
    /\ UNCHANGED <<task, ledger, replied, stalled, stage, platform, published>>

\* The failure is noted, unless the reply turns out to be delivered.
Catch(how) ==
    LET failure == Entry("failed", flush.reply, <<"error">>)
    IN  /\ flush.pc = "catch"
        /\ Writes(how)
        /\ log' = mark(log, failure, how)
        /\ IF Marked(log, failure, how) \/ flush.reply \in Delivered(log')
           THEN GoOn /\ UNCHANGED stalled
           ELSE GiveUp
        /\ UNCHANGED <<task, replied, stage, platform, published>>

Answers(f) == {i[1] : i \in Delivered(f)}

FlushEnd ==
    /\ flush.pc = "end" \/ (flush.pc = "next" /\ ~MayGoOn)
    /\ flush' = NoFlush
    /\ IF open THEN replied' = replied \cup Answers(log) /\ stalled' = FALSE
               ELSE UNCHANGED <<replied, stalled>>
    /\ UNCHANGED <<task, ledger, stage, platform, published>>

--------------------------------------------------------------------------
\* The process dies and starts again; it may die before any of the lines.
Restart ==
    /\ stage # NoStage \/ flush # NoFlush
    /\ stage' = NoStage /\ flush' = NoFlush
    /\ UNCHANGED <<task, ledger, replied, stalled, platform, published>>

Init ==
    /\ head = 1 /\ pushed = None /\ draft = {} /\ open = TRUE
    /\ log = Empty /\ faults = 0
    /\ replied = {} /\ stalled = FALSE
    /\ stage = NoStage /\ flush = NoFlush
    /\ wire = {} /\ accepted = {}
    /\ published = {}

Next ==
    \/ Commit \/ AgentWrites \/ Push \/ Settle
    \/ StageBegin \/ \E d \in Discussions, how \in Appends : StageOne(d, how)
    \/ FlushStart \/ Failed \/ FlushEnd \/ Restart
    \/ \E how \in Appends : Answered(how) \/ Catch(how)
    \/ \E i \in Replies : Accept(i) \/ \E how \in Appends : Refuse(i, how) \/ Send(i, how)

Spec == Init /\ [][Next]_vars

--------------------------------------------------------------------------
Errors == {None, <<"error">>} \cup {<<"refused", sha>> : sha \in Shas}

Line ==
    [op : {"enqueue", "attempt", "failed", "delivered"}, id : Replies, error : Errors]

File == [lines : Seq(Line), tail : Tails]

TypeOK ==
    /\ head \in Shas /\ pushed \in Shas \cup {None}
    /\ draft \subseteq Discussions /\ replied \subseteq Discussions
    /\ open \in BOOLEAN /\ stalled \in BOOLEAN
    /\ log \in File
    /\ stage \in [pc : {"idle", "append"}, sha : Shas \cup {None},
                  left : SUBSET Discussions]
    /\ flush \in [pc : {"idle", "next", "posting", "catch", "end"}, pushed : Shas \cup {None},
                  left : SUBSET Replies, reply : Replies \cup {None}]
    /\ wire \subseteq Replies /\ accepted \subseteq Replies /\ published \subseteq Shas
    /\ faults \in Nat

\* Whatever appends failed half-way and wherever the process died, the service
\* can read the file it wrote: `list` never throws on it.
LogReadable == Readable(log)

\* A reply on record stays there, reaches the platform only after its commit
\* was pushed, and is recorded as delivered only once the platform has it.
Promise == INSTANCE ReplyLedger WITH
    Commits <- Shas,
    recorded <- Listed(log), received <- accepted, delivered <- Delivered(log)

KeepsPromise == Promise!Spec

\* A request leaves only for a reply that the log has as pending, and only
\* after its attempt is in the log: what was delivered is never sent again.
SentFromLog ==
    [][\A i \in Replies :
          flush'.pc = "posting" /\ flush'.reply = i /\ flush # flush' =>
              /\ i \in Pending(log)
              /\ attempts(log', i) = attempts(log, i) + 1]_vars

\* The draft is emptied only when each of its answers is in the log or has
\* been given before.
DraftKept ==
    [][draft # {} /\ draft' = {} =>
          \A d \in draft : d \in replied \/ <<d, stage.sha>> \in Listed(log')]_vars

\* A discussion counts as answered only if the platform has an answer to it.
RepliedTruly == \A d \in replied : \E i \in accepted : i[1] = d
============================================================================
