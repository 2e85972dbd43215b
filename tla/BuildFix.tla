----------------------------- MODULE BuildFix -----------------------------
(***************************************************************************)
(* Build-Fix rounds of one delivery task, as the task service runs them    *)
(* (src/taskService.ts, src/prepushRecovery.ts).  One Node process: an     *)
(* action is the code between two awaits, and everything else may happen   *)
(* at an await.  A "chain" is one asynchronous call that came to           *)
(* preparePush; several may be alive at once, and besides them act the     *)
(* main coding session, the user's controls, the other tasks that compete  *)
(* for the build slot, and a restart of the service.                       *)
(*                                                                         *)
(* One build slot (prepush.buildSlots defaults to 1).  The workspace       *)
(* fingerprint is a hash of HEAD (prePushRevision), so a commit determines *)
(* the revision.  Every segment that changes the record or the status also *)
(* persists it, so a restart reads back what memory held.                  *)
(***************************************************************************)
EXTENDS PrePushVerification, Sequences, FiniteSets

CONSTANTS
    Chains,             \* identities of the asynchronous calls
    Others,             \* the other tasks that build
    CloudRunner,        \* the default runner, which names its container
    Requests,           \* what the user may ask for in this instance
    ContinuousReview,   \* a code failure becomes a feedback batch
    MaxSha, MaxStarts, MaxEpoch, MaxRestarts    \* bounds

ASSUME BuildFixConstants ==
    /\ Shas = 1..MaxSha /\ MaxSha \in Nat \ {0}
    /\ Fingerprints = Shas
    /\ CloudRunner \in BOOLEAN /\ ContinuousReview \in BOOLEAN
    /\ Requests \subseteq {"retry", "skip", "stop", "interrupt", "pause", "cancel"}
    /\ {MaxStarts, MaxEpoch, MaxRestarts} \subseteq Nat
    /\ Others \cap Chains = {} /\ None \notin Chains \cup Shas \cup Others

VARIABLES
    head,       \* the commit HEAD names
    pp,         \* delivery.prepush, None before the first round
    status,     \* summary.status
    epoch,      \* controlEpoch: bumped by every control action
    pauseReq,   \* pauseRequested
    active,     \* prepushActive: the chain whose round every entry shares
    coding,     \* epoch of the main session's turn, None when it has none
    chain,      \* the calls in flight
    slot,       \* holder of the build slot
    queue,      \* waiters for it
    pausers,    \* finishPause calls awaiting cleanup: the epochs they hold
    skipping,   \* skipPrePushVerification calls awaiting HEAD: the records they read
    stopping,   \* stopPrePush awaiting the end of a round
    starts,     \* chains started so far (bounded)
    restarts,   \* restarts so far (bounded)
    reported,   \* history: <<sha, check>> reported as passed by a runner
    skippedAt   \* history: commits a user decided to skip

task == <<head, pp, status>>
control == <<epoch, pauseReq, pausers>>
builds == <<slot, queue>>
requests == <<skipping, stopping>>
counters == <<starts, restarts>>
history == <<reported, skippedAt>>
vars == <<task, control, active, coding, chain, builds, requests, counters, history>>

Rev(sha) == [sha |-> sha, fp |-> sha]

\* "withdrawn" is a queued task that a pause under way has taken out of the
\* queue of tasks.
Statuses == {"queued", "withdrawn", "running", "verifying", "failed", "pausing",
             "paused", "canceled"}
Halted == {"pausing", "paused"}
Stopped == {"blocked", "environment_error"}

--------------------------------------------------------------------------
\* What a runner brings back (PrePushRunResult): its verdict, the HEAD it
\* speaks of and the domain report of the two checks (prePushDomainReport).
\* What a report says of the unit tests without a compile pass is not kept:
\* the reducer stops at the compile check.

Reports(verdict) ==
    LET compilePass(unit_tests) == [compile : {"passed"}, unit_test : unit_tests]
        noCompilePass(compiles) == [compile : compiles, unit_test : {"not_run"}]
    IN  CASE verdict = "passed" -> compilePass({"passed"})
          [] verdict = "code_failure" ->
               compilePass({verdict, "not_run"}) \cup noCompilePass({verdict, "not_run"})
          [] verdict = "infrastructure_failure" ->
               compilePass({"passed", verdict}) \cup noCompilePass({verdict})

Result == [verdict : Outcomes, sha : Shas, report : [CheckNames -> ReportedOutcomes]]

Infrastructure(sha) ==
    [verdict |-> "infrastructure_failure", sha |-> sha,
     report |-> [compile |-> "infrastructure_failure", unit_test |-> "not_run"]]

\* A result is bound to the HEAD read when the session ends; a session whose
\* tools never finished reports the commit it was asked to verify.
RunnerResults(asked) ==
    {Infrastructure(asked)}
    \cup UNION {[verdict : {v}, sha : {head}, report : Reports(v)] : v \in Outcomes}

--------------------------------------------------------------------------
\* Chains.

Idle == [pc |-> "idle", kind |-> "resume", epoch |-> 0, on |-> None, rev |-> None,
         id |-> None, local |-> None, prev |-> None, result |-> None, ok |-> FALSE]

Pcs == {"idle", "wait", "woken", "join", "revision", "round_revision", "snapshot",
        "queued", "granted", "refused", "boot", "turn", "final_revision",
        "pausing", "settled"}

\* Between the start of a round and the return of performPrePush.
InRound == {"snapshot", "queued", "granted", "refused", "boot", "turn",
            "final_revision", "pausing"}

Agents == {c \in Chains : chain[c].pc \in {"boot", "turn"}}

current(e) == e = epoch /\ status # "canceled"

Mine(c) == current(chain[c].epoch)

\* performPrePush returns `ok`: its promise settles for its own caller and for
\* everyone who awaits it.
Settled(chains, c, ok) ==
    [d \in Chains |->
        IF d = c THEN [chains[c] EXCEPT !.pc = "settled", !.ok = ok, !.id = None,
                                        !.local = None, !.prev = None, !.result = None]
        ELSE IF chains[d].on # c THEN chains[d]
        ELSE IF chains[d].pc = "wait" THEN [chains[d] EXCEPT !.pc = "woken", !.on = None]
        ELSE [chains[d] EXCEPT !.pc = "settled", !.on = None, !.ok = ok,
                               !.rev = chains[c].rev]]

\* Mutant of Settle: a stop that waits for the round is not told.
Settle_StopNotTold(chains, c, ok) ==
    /\ chain' = Settled(chains, c, ok)
    /\ active' = IF active = c THEN None ELSE active
    /\ UNCHANGED stopping

Settle(chains, c, ok) ==
    /\ chain' = Settled(chains, c, ok)
    /\ active' = IF active = c THEN None ELSE active
    /\ stopping' = IF stopping # None /\ stopping.target = c
                   THEN [stopping EXCEPT !.target = None] ELSE stopping

\* The shared `finally` of performPrePush: an attempt still in flight under
\* this round's identifier is closed as an infrastructure failure.
Closed(p, id) ==
    IF p # None /\ id # None /\ p.active = id
    THEN recordReport(p, id, [compile |-> "infrastructure_failure",
                              unit_test |-> "not_run"])
    ELSE p

Abandon(chains, c) ==
    /\ pp' = Closed(pp, chain[c].id)
    /\ Settle(chains, c, FALSE)

--------------------------------------------------------------------------
\* The build slot.

Admitted(w) == w \in Others \/ (Mine(w) /\ status \notin Halted)

\* drainPrePushBuildQueue on a free slot: waiters that may no longer run are
\* refused, the first that may gets the slot.
Ready == {i \in DOMAIN queue : Admitted(queue[i])}
FirstReady == CHOOSE i \in Ready : \A j \in Ready : i <= j
PassedOver == {queue[i] : i \in IF Ready = {} THEN DOMAIN queue ELSE 1..(FirstReady - 1)}

\* Mutant of ReleaseSlot: the waiter served stays in the queue.
ReleaseSlot_ServedStays ==
    /\ slot' = IF Ready = {} THEN None ELSE queue[FirstReady]
    /\ queue' = IF Ready = {} THEN <<>> ELSE SubSeq(queue, FirstReady, Len(queue))

ReleaseSlot ==
    /\ slot' = IF Ready = {} THEN None ELSE queue[FirstReady]
    /\ queue' = IF Ready = {} THEN <<>> ELSE SubSeq(queue, FirstReady + 1, Len(queue))

\* Mutant of Drained: nobody is told that the slot has moved on.
Drained_Silent(chains) == chains

Drained(chains) ==
    [c \in Chains |->
        IF c \in PassedOver THEN [chains[c] EXCEPT !.pc = "refused"]
        ELSE IF Ready # {} /\ queue[FirstReady] = c THEN [chains[c] EXCEPT !.pc = "granted"]
        ELSE chains[c]]

\* removePrePushBuildWaiter: every waiter of this task is sent away, those of
\* other tasks are kept one by one.
Kept(waiters) ==
    LET kept[n \in 0..Len(waiters)] ==
            IF n = 0 THEN <<>>
            ELSE IF waiters[n] \in Others THEN Append(kept[n - 1], waiters[n])
            ELSE kept[n - 1]
    IN  kept[Len(waiters)]

DismissWaiters ==
    /\ queue' = Kept(queue)
    /\ chain' = [c \in Chains |->
          IF chain[c].pc = "queued" THEN [chain[c] EXCEPT !.pc = "refused"] ELSE chain[c]]

OtherBuilds(o) ==
    /\ slot # o /\ \A i \in DOMAIN queue : queue[i] # o
    /\ IF slot = None THEN slot' = o /\ UNCHANGED queue
                      ELSE queue' = Append(queue, o) /\ UNCHANGED slot
    /\ UNCHANGED <<task, control, active, coding, chain, requests, counters, history>>

OtherFinishes ==
    /\ slot \in Others
    /\ ReleaseSlot
    /\ chain' = Drained(chain)
    /\ UNCHANGED <<task, control, active, coding, requests, counters, history>>

--------------------------------------------------------------------------
\* Entering and leaving a chain.

Started(kind, e, pc) == [Idle EXCEPT !.pc = pc, !.kind = kind, !.epoch = e]

CanStart(c) == chain[c].pc = "idle" /\ starts < MaxStarts

Unfinished(p) == p # None /\ p.state \in {"preparing", "repairing"}

\* failPendingPrePush: the branch could not be read from the workspace.
FailPending(p, st) ==
    /\ pp' = IF Unfinished(p) THEN environmentFailed(p) ELSE p
    /\ status' = IF Unfinished(p) THEN "failed" ELSE st

\* The synchronous start of resumePrePushVerification in epoch `e`, the status
\* having become `st`: await the round of `busy`, if any, else go on to
\* preparePush.
StartResume(c, busy, e, st) ==
    /\ CanStart(c)
    /\ starts' = starts + 1
    /\ \/ /\ chain' = [chain EXCEPT ![c] =
                IF busy = None THEN Started("resume", e, "revision")
                ELSE [Started("resume", e, "wait") EXCEPT !.on = busy]]
          /\ status' = st
          /\ UNCHANGED pp
       \/ /\ busy = None
          /\ UNCHANGED chain
          /\ FailPending(pp, st)

\* The awaited round has ended: go on only if nobody took over meanwhile.
Woken(c) ==
    /\ chain[c].pc = "woken"
    /\ IF ~Mine(c) \/ status \in Halted
       THEN chain' = [chain EXCEPT ![c] = Idle] /\ UNCHANGED task
       ELSE \/ /\ active # None
               /\ chain' = [chain EXCEPT ![c].pc = "join", ![c].on = active]
               /\ UNCHANGED task
            \/ /\ active = None
               /\ chain' = [chain EXCEPT ![c].pc = "revision"]
               /\ UNCHANGED task
            \/ /\ chain' = [chain EXCEPT ![c] = Idle]
               /\ FailPending(pp, status)
               /\ UNCHANGED head
    /\ UNCHANGED <<control, active, coding, builds, requests, counters, history>>

\* preparePush after it has read HEAD: reuse a pass or a skip of this very
\* revision, else run a round.  prepushActive is not looked at again.
Prepare(c) ==
    /\ chain[c].pc = "revision"
    /\ IF pp # None /\ pp.state \in {"passed", "user_skipped"} /\ sameRevision(pp, Rev(head))
       THEN /\ chain' = [chain EXCEPT ![c].pc = "settled", ![c].ok = TRUE, ![c].rev = head]
            /\ UNCHANGED active
       ELSE /\ chain' = [chain EXCEPT ![c].pc = "round_revision"]
            /\ active' = c
    /\ UNCHANGED <<task, control, coding, builds, requests, counters, history>>

\* performPrePush up to its next await: restore, reuse or begin an attempt,
\* and show the task as running.  It does not ask whether it is current.
BeginRound(c) ==
    LET restored == restore(pp, Rev(head))
        retried == IF restored.state \in Stopped THEN retryRequested(restored) ELSE restored
        begun == begin(retried)
    IN  /\ chain[c].pc = "round_revision"
        /\ IF hasReusableReceipt(restored, Rev(head))
           THEN /\ pp' = restored
                /\ Settle([chain EXCEPT ![c].rev = head], c, TRUE)
                /\ UNCHANGED status
           ELSE /\ pp' = begun
                /\ chain' = [chain EXCEPT ![c].pc = "snapshot", ![c].rev = head,
                                          ![c].id = begun.active, ![c].local = begun,
                                          ![c].prev = status]
                /\ status' = "running"
                /\ UNCHANGED <<active, stopping>>
        /\ UNCHANGED <<head, control, coding, builds, skipping, counters, history>>

\* git could not be read, or the change snapshot failed.  Inside the round the
\* catch block fails the task if the chain is still current.
Throws(c) ==
    /\ chain[c].pc \in {"revision", "round_revision", "snapshot", "final_revision"}
    /\ status' = IF chain[c].pc \in {"snapshot", "final_revision"} /\ Mine(c)
                 THEN "failed" ELSE status
    /\ Abandon(chain, c)
    /\ UNCHANGED <<head, control, coding, builds, skipping, counters, history>>

--------------------------------------------------------------------------
\* Inside a round.

AskSlot(c) ==
    /\ chain[c].pc = "snapshot"
    /\ \/ /\ ~Mine(c)
          /\ Abandon(chain, c)
          /\ UNCHANGED builds
       \/ /\ Mine(c)
          /\ IF slot = None
             THEN /\ slot' = c /\ UNCHANGED queue
                  /\ chain' = [chain EXCEPT ![c].pc = "granted"]
             ELSE /\ queue' = Append(queue, c) /\ UNCHANGED slot
                  /\ chain' = [chain EXCEPT ![c].pc = "queued"]
          /\ UNCHANGED <<pp, active, stopping>>
    /\ UNCHANGED <<head, status, control, coding, skipping, counters, history>>

Refused(c) ==
    /\ chain[c].pc = "refused"
    /\ Abandon(chain, c)
    /\ UNCHANGED <<head, status, control, coding, builds, skipping, counters, history>>

\* The slot has been granted; a revoked chain gives it back unused.
Granted(c) ==
    /\ chain[c].pc = "granted"
    /\ IF Mine(c)
       THEN /\ chain' = [chain EXCEPT ![c].pc = "boot"]
            /\ UNCHANGED <<pp, active, builds, stopping>>
       ELSE /\ ReleaseSlot
            /\ Abandon(Drained(chain), c)
    /\ UNCHANGED <<head, status, control, coding, skipping, counters, history>>

\* runCloudPrePushAgent: no second driver, stop the previous container, start
\* one's own, check again that the task still wants this, start the session.
Boot(c) ==
    /\ chain[c].pc = "boot"
    /\ Mine(c)
    /\ coding = None
    /\ chain' = [chain EXCEPT ![c].pc = "turn"]
    /\ UNCHANGED <<task, control, active, coding, builds, requests, counters, history>>

\* Build-Fix repairs the code itself and commits.
Commit(c) ==
    /\ chain[c].pc = "turn"
    /\ head < MaxSha
    /\ head' = head + 1
    /\ UNCHANGED <<pp, status, control, active, coding, chain, builds, requests,
                   counters, history>>

\* The runner returns (or throws) and the slot goes back; a chain that lost
\* the task in the meantime drops the result.
Returns(c, result) ==
    /\ ReleaseSlot
    /\ IF Mine(c)
       THEN /\ chain' = [Drained(chain) EXCEPT ![c].pc = "final_revision",
                                               ![c].result = result]
            /\ UNCHANGED <<pp, active, stopping>>
       ELSE Abandon(Drained(chain), c)
    /\ reported' = reported \cup
          ({result.sha} \X {check \in CheckNames : result.report[check] = "passed"})
    /\ UNCHANGED <<head, status, control, coding, skipping, counters, skippedAt>>

NeverRan(c) ==
    /\ chain[c].pc = "boot"
    /\ Returns(c, Infrastructure(head))

AgentEnds(c) ==
    /\ chain[c].pc = "turn"
    /\ \E result \in RunnerResults(chain[c].rev) : Returns(c, result)

\* Mutant of Observed: the record stays on the revision the round began with.
Observed_Stale(c) == chain[c].local

\* Mutant of BoundResult: a result is taken whatever commit it speaks of.
BoundResult_AnyHead(c) == chain[c].result

\* What performPrePush makes of a result once HEAD has been read again: a new
\* commit restarts the same attempt on the new revision, a result about any
\* other commit than HEAD counts as an infrastructure failure.
Observed(c) ==
    IF sameRevision(chain[c].local, Rev(head)) THEN chain[c].local
    ELSE startAttempt(observe(chain[c].local, Rev(head)), chain[c].id)

BoundResult(c) ==
    IF chain[c].result.sha = head THEN chain[c].result ELSE Infrastructure(head)

Recorded(c) == recordReport(Observed(c), chain[c].id, BoundResult(c).report)

Attests(c) == Recorded(c).state = "passed" /\ CloudRunner

\* attestPrePushExecution refuses the facts of the container.
AttestThrows(c) == Attests(c) /\ ~canAttest(Recorded(c), chain[c].id)

Final(c) == IF Attests(c) THEN attest(Recorded(c), chain[c].id) ELSE Recorded(c)

\* The round ends with the status `st`; a pending pause is honoured first.
Conclude(c, st, ok) ==
    LET seen == [chain EXCEPT ![c].rev = head]
    IN  IF pauseReq /\ Mine(c)
        THEN /\ pp' = Final(c)
             /\ status' = st
             /\ pauseReq' = FALSE
             /\ chain' = [seen EXCEPT ![c].pc = "pausing"]
             /\ UNCHANGED <<active, stopping>>
        ELSE /\ pp' = Closed(Final(c), chain[c].id)
             /\ status' = st
             /\ Settle(seen, c, ok)
             /\ UNCHANGED pauseReq

\* A code failure under continuous review: with a repair dispatched the task
\* is queued for its agent, else (host verification) the caller goes on.
FeedBack(c) ==
    /\ pp' = Closed(Final(c), chain[c].id)
    /\ status' = IF chain[c].kind = "host" THEN chain[c].prev ELSE "queued"
    /\ Settle(chain, c, FALSE)
    /\ UNCHANGED pauseReq

FinishRound(c) ==
    /\ chain[c].pc = "final_revision"
    /\ \/ /\ AttestThrows(c)
          /\ status' = IF Mine(c) THEN "failed" ELSE status
          /\ Abandon(chain, c)
          /\ UNCHANGED pauseReq
       \/ /\ ~AttestThrows(c)
          /\ hasReusableReceipt(Final(c), Rev(head))
          /\ Conclude(c, chain[c].prev, TRUE)
       \/ /\ ~AttestThrows(c)
          /\ ~hasReusableReceipt(Final(c), Rev(head))
          /\ BoundResult(c).verdict = "code_failure" /\ ContinuousReview
          /\ FeedBack(c)
       \/ /\ ~AttestThrows(c)
          /\ ~hasReusableReceipt(Final(c), Rev(head))
          /\ Conclude(c, "failed", FALSE)    \* also: the batch could not be filed
    /\ UNCHANGED <<head, epoch, pausers, coding, builds, skipping, counters, history>>

\* finishPause called by the round itself has cleaned up.
PauseFromRound(c) ==
    /\ chain[c].pc = "pausing"
    /\ status' \in IF Mine(c) THEN {"paused", "failed"} ELSE {status}
    /\ Abandon(chain, c)
    /\ UNCHANGED <<head, control, coding, builds, skipping, counters, history>>

--------------------------------------------------------------------------
\* After a round.  A resumed verification goes on to tryDeliver, which reads
\* the same record; a host verification gives its answer to the agent.

DropPause == pauseReq' = FALSE /\ pausers' = pausers \cup {epoch}

HandOver(c) ==
    /\ chain[c].pc = "settled" /\ chain[c].kind = "resume"
    /\ chain' = [chain EXCEPT ![c] = Idle]
    /\ UNCHANGED <<task, control, active, coding, builds, requests, counters, history>>

HostAnswers(c) ==
    /\ chain[c].pc = "settled" /\ chain[c].kind = "host"
    /\ chain' = [chain EXCEPT ![c] = Idle]
    /\ status' = IF Mine(c) /\ ~pauseReq /\ status \notin Halted THEN "queued" ELSE status
    /\ IF pauseReq /\ Mine(c) THEN DropPause ELSE UNCHANGED <<pauseReq, pausers>>
    /\ UNCHANGED <<head, pp, epoch, active, coding, builds, requests, counters, history>>

--------------------------------------------------------------------------
\* The main coding session.

HostAction == \E c \in Chains : chain[c].kind = "host" /\ chain[c].pc # "idle"

\* The pump launches a queued task, unless a host operation is still running.
StartCoding ==
    /\ status = "queued" /\ coding = None /\ ~HostAction
    /\ status' = "running" /\ coding' = epoch
    /\ UNCHANGED <<head, pp, control, active, chain, builds, requests, counters, history>>

CodingCommits ==
    /\ coding # None /\ head < MaxSha
    /\ head' = head + 1
    /\ UNCHANGED <<pp, status, control, active, coding, chain, builds, requests,
                   counters, history>>

\* settleTurn: a revoked turn is dropped, a pending pause honoured, else the
\* task goes on to delivery or fails.
CodingEnds ==
    /\ coding # None
    /\ coding' = None
    /\ IF ~current(coding) THEN UNCHANGED <<status, pauseReq, pausers>>
       ELSE IF pauseReq THEN DropPause /\ UNCHANGED status
       ELSE status' \in {"verifying", "failed"} /\ UNCHANGED <<pauseReq, pausers>>
    /\ UNCHANGED <<head, pp, epoch, active, chain, builds, requests, counters, history>>

\* The turn ends on a request to verify: finishHostAction releases the session
\* and calls preparePush.
HostVerify(c) ==
    /\ CanStart(c)
    /\ coding # None /\ current(coding) /\ ~pauseReq /\ status \notin Halted
    /\ active = None
    /\ coding' = None
    /\ starts' = starts + 1
    /\ chain' = [chain EXCEPT ![c] = Started("host", coding, "revision")]
    /\ UNCHANGED <<task, control, active, builds, requests, restarts, history>>

--------------------------------------------------------------------------
\* The user's controls.

Released == coding = None /\ Agents = {}

Revoke == epoch < MaxEpoch /\ epoch' = epoch + 1

RetryPrePush(c) ==
    /\ "retry" \in Requests
    /\ active = None /\ Released
    /\ pp # None /\ pp.state # "passed"
    /\ status \in {"verifying", "failed"}
    /\ StartResume(c, None, epoch, "verifying")
    /\ UNCHANGED <<head, control, active, coding, builds, requests, restarts, history>>

\* Where retry() sends a task of status `st` whose record is `p`.  A task that
\* is verifying is retried only when its delivery has stopped, which is not
\* modelled but never so while a verification is under way.
Retried(st, p) ==
    IF st = "failed" /\ p # None /\ p.state \in Stopped THEN {"verifying"}
    ELSE {"verifying", "queued"}

Retriable == Released /\
    (status = "failed" \/ (status = "verifying" /\ \A c \in Chains : chain[c].pc = "idle"))

Retry ==
    /\ "retry" \in Requests
    /\ Retriable
    /\ status' \in Retried(status, pp)
    /\ UNCHANGED <<head, pp, control, active, coding, chain, builds, requests,
                   counters, history>>

Skippable(p) == active = None /\ p # None /\ p.state \in Stopped

\* skipPrePushVerification checks, then awaits HEAD ...
SkipCall ==
    /\ "skip" \in Requests
    /\ Skippable(pp) /\ skipping = {}
    /\ skipping' = {pp}
    /\ UNCHANGED <<task, control, active, coding, chain, builds, stopping, counters, history>>

\* ... writes over whatever the record is by now, and retries the task.
SkipWrite ==
    \E read \in skipping :
        /\ skipping' = skipping \ {read}
        /\ pp' = [read EXCEPT !.state = "user_skipped", !.rev = Rev(head)]
        /\ status' \in IF Retriable THEN Retried(status, pp') ELSE {status}
        /\ skippedAt' = skippedAt \cup {head}
        /\ UNCHANGED <<head, control, active, coding, chain, builds, stopping, counters,
                       reported>>

SkipFails ==
    /\ \E read \in skipping : skipping' = skipping \ {read}
    /\ UNCHANGED <<task, control, active, coding, chain, builds, stopping, counters, history>>

\* stopPrePush: wait for the round in flight to close, aborting it again and
\* again; one such call at a time.
Stop ==
    /\ "stop" \in Requests
    /\ stopping = None /\ active # None
    /\ stopping' = [target |-> active, push |-> TRUE, epoch |-> epoch]
    /\ UNCHANGED <<task, control, active, coding, chain, builds, skipping, counters, history>>

\* A message from the owner revokes what runs; a round in flight is stopped
\* without a push, else the task goes straight back to its agent.
Interrupt ==
    /\ "interrupt" \in Requests
    /\ active # None \/ (Released /\ status \in {"verifying", "failed"})
    /\ Revoke
    /\ \/ /\ active # None /\ stopping = None
          /\ stopping' = [target |-> active, push |-> FALSE, epoch |-> epoch']
          /\ UNCHANGED status
       \/ /\ active = None
          /\ status' = "queued"
          /\ UNCHANGED stopping
    /\ UNCHANGED <<head, pp, pauseReq, pausers, active, coding, chain, builds, skipping,
                   counters, history>>

StopAborts ==
    /\ stopping # None /\ stopping.target # None
    /\ \E c \in Chains : chain[c].pc = "queued"
    /\ DismissWaiters
    /\ UNCHANGED <<task, control, active, coding, slot, requests, counters, history>>

StopRecord ==
    IF pp # None /\ pp.state \notin Stopped \cup {"passed", "user_skipped"}
    THEN [pp EXCEPT !.state = "environment_error", !.active = None]
    ELSE pp

\* The round has closed.  A stop that pushes skips the verification, unless it
\* passed at the last moment or the task is no longer running.
StopDone ==
    /\ stopping # None /\ stopping.target = None
    /\ stopping' = None
    /\ pp' = StopRecord
    /\ IF stopping.push
       THEN /\ UNCHANGED epoch
            /\ IF status \in Halted \cup {"canceled"} \/ (pp # None /\ pp.state = "passed")
               THEN UNCHANGED <<status, skipping>>
               ELSE /\ status' = "failed"
                    /\ skipping' = skipping \cup (IF Skippable(pp') THEN {pp'} ELSE {})
       ELSE /\ UNCHANGED skipping
            /\ IF ~current(stopping.epoch) THEN UNCHANGED <<status, epoch>>
               ELSE IF Released THEN status' = "queued" /\ UNCHANGED epoch
               ELSE status' = "failed" /\ epoch' = epoch + 1
    /\ UNCHANGED <<head, pauseReq, pausers, active, coding, chain, builds, counters, history>>

\* The round did not close within 60 seconds.
StopGivesUp ==
    /\ stopping # None /\ stopping.target # None
    /\ stopping' = None
    /\ IF ~stopping.push /\ current(stopping.epoch)
       THEN status' = "failed" /\ epoch' = epoch + 1
       ELSE UNCHANGED <<status, epoch>>
    /\ UNCHANGED <<head, pp, pauseReq, pausers, active, coding, chain, builds, skipping,
                   counters, history>>

\* A running task is paused at its next boundary, at once if an attempt is in
\* flight; any other live task at once.
Pause ==
    LET attempt == status = "running" /\ pp # None /\ pp.active # None
        now == status # "running" \/ attempt
    IN  /\ "pause" \in Requests
        /\ status \in {"queued", "withdrawn", "running", "verifying"}
        /\ status' = CASE status = "running" -> "pausing"
                      [] status = "queued"  -> "withdrawn"
                      [] OTHER              -> status
        /\ IF now
           THEN /\ Revoke
                /\ pauseReq' = FALSE /\ pausers' = pausers \cup {epoch + 1}
           ELSE pauseReq' = TRUE /\ UNCHANGED <<epoch, pausers>>
        /\ IF attempt THEN DismissWaiters ELSE UNCHANGED <<chain, queue>>
        /\ UNCHANGED <<head, pp, active, coding, slot, requests, counters, history>>

\* finishPause after its cleanup: only the epoch it began in may settle it.
PauseDone(e) ==
    /\ e \in pausers
    /\ pausers' = pausers \ {e}
    /\ \/ /\ status' = IF current(e) THEN "paused" ELSE status
          /\ coding' = IF coding # None /\ coding < e THEN None ELSE coding
       \/ /\ status' = IF current(e) THEN "failed" ELSE status
          /\ UNCHANGED coding
    /\ UNCHANGED <<head, pp, epoch, pauseReq, active, chain, builds, requests, counters,
                   history>>

\* Back to polling a pushed commit, to a round whose attempt the pause cut, or
\* to the agent.
Resume(c) ==
    /\ status = "paused" /\ Released
    /\ Revoke
    /\ pauseReq' = FALSE
    /\ \/ /\ status' \in IF pp # None /\ pp.active # None THEN {"verifying"}
                         ELSE {"verifying", "queued"}
          /\ UNCHANGED <<pp, chain, starts>>
       \/ /\ pp # None /\ pp.active # None
          /\ StartResume(c, active, epoch + 1, "verifying")
    /\ UNCHANGED <<head, pausers, active, coding, builds, requests, restarts, history>>

Cancel ==
    /\ "cancel" \in Requests
    /\ status # "canceled"
    /\ Revoke
    /\ pauseReq' = FALSE
    /\ status' = "canceled"
    /\ DismissWaiters
    /\ UNCHANGED <<head, pp, pausers, active, coding, slot, requests, counters, history>>

--------------------------------------------------------------------------
\* A restart: every call in flight is gone.  An orderly shutdown lets rounds
\* close their attempts first, a crash does not.  recover() then reconciles.

Interrupted(p, st) ==
    /\ Unfinished(p) /\ st \notin {"paused", "canceled"}
    /\ \/ p.active # None
       \/ p.state = "preparing" /\ st \in {"running", "queued", "verifying", "failed"}
       \/ p.state = "repairing" /\ st \in {"running", "queued", "verifying"}

Restart(c) ==
    LET st == CASE status = "pausing" -> "paused" [] status = "withdrawn" -> "queued"
                [] OTHER -> status
        idle == [d \in Chains |-> Idle]
    IN  /\ restarts < MaxRestarts
        /\ restarts' = restarts + 1
        /\ \E p \in {pp} \cup {Closed(pp, chain[d].id) : d \in Chains} :
              IF Interrupted(p, st)
              THEN /\ starts < MaxStarts /\ starts' = starts + 1
                   /\ \/ /\ chain' = [idle EXCEPT ![c] = Started("resume", epoch, "revision")]
                         /\ pp' = p /\ status' = "verifying"
                      \/ chain' = idle /\ FailPending(p, st)
              ELSE /\ chain' = idle /\ pp' = p /\ UNCHANGED starts
                   /\ status' \in IF st \in {"running", "queued"}
                                  THEN {"queued", "verifying"} ELSE {st}
        /\ active' = None /\ coding' = None
        /\ slot' = None /\ queue' = <<>>
        /\ pauseReq' = FALSE /\ pausers' = {}
        /\ skipping' = {} /\ stopping' = None
        /\ UNCHANGED <<head, epoch, history>>

--------------------------------------------------------------------------
\* A coding session is running and Build-Fix has not been asked for yet.
Init ==
    /\ head = 1 /\ pp = None /\ status = "running"
    /\ epoch = 0 /\ pauseReq = FALSE /\ pausers = {}
    /\ active = None /\ coding = 0
    /\ chain = [c \in Chains |-> Idle]
    /\ slot = None /\ queue = <<>>
    /\ skipping = {} /\ stopping = None
    /\ starts = 0 /\ restarts = 0
    /\ reported = {} /\ skippedAt = {}

\* Promise reactions run before anything that waits for I/O, a timer or a
\* request: the calls that awaited a round go on as soon as it settles.
Reactions ==
    \/ \E c \in Chains : Woken(c) \/ HandOver(c) \/ HostAnswers(c)
    \/ StopDone

Quiet ==
    /\ \A c \in Chains : chain[c].pc \notin {"woken", "settled"}
    /\ stopping # None => stopping.target # None

Step(c) ==
    \/ Prepare(c) \/ BeginRound(c) \/ AskSlot(c) \/ Refused(c) \/ Granted(c)
    \/ Boot(c) \/ NeverRan(c) \/ AgentEnds(c) \/ FinishRound(c) \/ PauseFromRound(c)

Session == StartCoding \/ CodingCommits \/ CodingEnds \/ \E c \in Chains : HostVerify(c)

Controls ==
    \/ \E c \in Chains : RetryPrePush(c) \/ Resume(c)
    \/ Retry \/ SkipCall \/ Stop \/ Interrupt \/ Pause \/ Cancel

Answers ==
    \/ SkipWrite \/ SkipFails \/ StopAborts \/ StopGivesUp
    \/ \E e \in 0..(MaxEpoch + 1) : PauseDone(e)

Environment ==
    \/ \E c \in Chains : Throws(c) \/ Commit(c) \/ Restart(c)
    \/ \E o \in Others : OtherBuilds(o)

Next ==
    \/ Reactions
    \/ Quiet /\ (Session \/ Controls \/ Answers \/ Environment \/ OtherFinishes
                 \/ \E c \in Chains : Step(c))

\* An await of the process itself comes back; an agent's turn is cut by the
\* timer of its attempt; the builds of other tasks end the same way.  Nothing
\* obliges the user, the coding session or a commit.
Fairness ==
    /\ WF_vars(Reactions)
    /\ \A c \in Chains : WF_vars(Quiet /\ Step(c))
    /\ WF_vars(Quiet /\ OtherFinishes)

Spec == Init /\ [][Next]_vars /\ Fairness

--------------------------------------------------------------------------
ChainRecord ==
    [pc : Pcs, kind : {"resume", "host"}, epoch : Nat, on : Chains \cup {None},
     rev : Shas \cup {None}, id : AttemptId \cup {None},
     local : PrePushState \cup {None}, prev : Statuses \cup {None},
     result : Result \cup {None}, ok : BOOLEAN]

TypeOK ==
    /\ head \in Shas
    /\ pp \in PrePushState \cup {None}
    /\ status \in Statuses
    /\ epoch \in 0..(MaxEpoch + 1) /\ pauseReq \in BOOLEAN /\ pausers \subseteq 0..epoch
    /\ active \in Chains \cup {None} /\ coding \in (0..epoch) \cup {None}
    /\ chain \in [Chains -> ChainRecord]
    /\ slot \in Chains \cup Others \cup {None} /\ queue \in Seq(Chains \cup Others)
    /\ skipping \subseteq PrePushState
    /\ stopping = None \/ stopping \in [target : Chains \cup {None}, push : BOOLEAN, epoch : 0..epoch]
    /\ starts \in 0..MaxStarts /\ restarts \in 0..MaxRestarts
    /\ reported \subseteq Shas \X CheckNames /\ skippedAt \subseteq Shas

\* The build slot is held by exactly the round that is between its grant and
\* its runner's return, is never idle while somebody queues for it, and no
\* round queues twice: a cancelled or passed-over waiter leaks nothing.
SlotSound ==
    /\ \A c \in Chains : slot = c <=> chain[c].pc \in {"granted", "boot", "turn"}
    /\ \A c \in Chains : chain[c].pc = "queued" <=> \E i \in DOMAIN queue : queue[i] = c
    /\ \A i, j \in DOMAIN queue : queue[i] = queue[j] => i = j
    /\ slot = None => queue = <<>>

\* Whoever is told that verification is done holds a commit on which both
\* checks were reported as passed, or one the user decided to skip -- whatever
\* joined rounds, stale results, commits, pauses and restarts came between.
HandoverJustified ==
    \A c \in Chains : chain[c].pc = "settled" /\ chain[c].ok =>
        \/ \A check \in CheckNames : <<chain[c].rev, check>> \in reported
        \/ chain[c].rev \in skippedAt

\* The record endorses at most the commits the runners reported as passed.
Promise == INSTANCE Endorsement WITH
    Contents <- Shas, Checks <- CheckNames, claims <- reported,
    endorsed <- IF pp = None THEN None
                ELSE IF pp.receipt = None THEN None ELSE pp.receipt.rev.sha

Endorses == Promise!Spec

\* Every round that was begun closes, whoever cancels, pauses or queues for
\* the slot meanwhile.
RoundsClose == \A c \in Chains : chain[c].pc \in InRound ~> chain[c].pc \notin InRound

\* A stop request comes back.
StopsReturn == stopping # None ~> stopping = None

--------------------------------------------------------------------------
\* What the comments and tests of the code say of it, and it does not do.

\* A canceled task stays canceled: no callback of an earlier generation turns
\* it into anything else (src/taskService.ts, controlEpoch).
CanceledIsFinal == [][status = "canceled" => status' = "canceled"]_vars

\* Every entry to Build-Fix shares one round per task: no two current calls
\* are ever inside rounds of their own (src/taskService.ts, prepushActive).
OneRoundPerTask ==
    \A c, d \in Chains :
        {chain[c].pc, chain[d].pc} \subseteq InRound /\ Mine(c) /\ Mine(d) => c = d

\* However a round ends, its attempt is closed: an attempt in flight always
\* has a round in this process that owns it (the finally of performPrePush).
RoundLeavesNoAttempt ==
    restarts = 0 /\ pp # None /\ pp.active # None =>
        \E c \in Chains : chain[c].pc \in InRound /\ chain[c].id = pp.active

\* Once the user has skipped the verification of HEAD, the skip is replaced
\* only after a new commit (src/taskService.ts, skipPrePushVerification).
SkipDecisionKept ==
    [][pp # None /\ pp.state = "user_skipped" /\ pp.rev = Rev(head)
          => pp'.state = "user_skipped"]_vars

\* A receipt is issued only for a run whose claims were checked against the
\* commands of its session, which is what the verdict "passed" stands for.
PassNeedsVerifiedRun ==
    [][\A c \in Chains :
          chain[c].pc = "final_revision" /\ pp' # None /\ pp'.receipt # None /\ pp' # pp
             /\ chain'[c].pc # "final_revision"
          => chain[c].result.verdict = "passed"]_vars
==========================================================================
