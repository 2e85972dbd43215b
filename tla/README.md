# mae-flow-cloud in TLA+

mae-flow-cloud hosts a coding agent (the Pi SDK, inside one Node process) and carries
"requirement delivery" tasks from a prompt to a merged request, and "issue flow" sessions
through free-form diagnosis.  This directory specifies the parts of it whose correctness
depends on the order of asynchronous events, checks them with TLC on small instances, and
proves with TLAPS what should hold for every size.

Seven parts are modelled.  **Build-Fix** is the verification of a commit before it is pushed
(compilation and unit tests, with an agent that repairs what fails): the record of what
was verified (`src/prePushVerification.ts`) and the task service that runs the rounds
(`src/taskService.ts`).  It decides whether a commit may be handed on as verified, and
it is where most of the service's concurrency meets: user controls, repair commits, the
shared build slot, the main session and restarts.  The **delivery outbox**
(`src/deliveryOutbox.ts` and its flush in `src/taskService.ts`) is the only place where the
service promises something to people on another platform and may die half-way.  **Task
control** is the pump, the sessions it launches, decision cards and every user control;
**dependency scheduling** says which task the pump may take.  **Requirement review** carries
comments on a document to an agent and back.  **Delivery** takes a task from its last commit
to its merged request.  **Issue turns** is the other half of the service: who may start a
turn of an issue session, and what must not get lost around it.

Paths in this file and in the comments of the modules are relative to the repository; in
`PROJECT.json` they carry the prefix `src/`.

## 1. Inventory

| component | state it keeps | operations | what makes it correct |
|---|---|---|---|
| Build-Fix reducer (`prePushVerification.ts`) | the record `delivery.prepush`: revision, two checks, attempt in flight, receipt | create, observe, start, check finished, report, no progress, environment failed, retry, recover, attest, rebind, restore | a receipt is backed by reports about the very content it names; late or repeated reports change nothing; a receipt survives a restart |
| Build-Fix rounds (`taskService.ts` 2479-2565, 9104-9247, 15055-16204; `prepushRecovery.ts`; `prepushAgent.ts`) | `prepushActive`, `prepushAbort`, build slot count and queue | `preparePush`, `performPrePush`, `runCloudPrePushAgent`, acquire/release/drain, retry, skip, stop, reconcile | one round per task, every round closes, nobody waits for the slot for ever, a cancelled task stays cancelled |
| task controls and pump (`taskService.ts` 11636-13710, 20831-21196; `hostSessionContinuity.ts`) | `status`, `controlEpoch`, `pauseRequested`, `driver`, `container`, `queue`, `runningCount` | pause, resume, cancel, interrupt, retry, pump, launch, settle, recover, shutdown | a call-back of an old epoch changes nothing; the concurrency limit holds; every queued task is launched or accounted for |
| delivery and pipeline watching (`taskService.ts` 16850-19552, `deliveryRecovery.ts`, `deliveryFailure.ts`, `remoteDeliveryReconcile.ts`) | `delivery` (push receipt, pipeline, repair loop, deadlines) | `performDelivery`, `pollPipeline`, `dispatchCiRepair`, recovery timers | results bind to a SHA; one self-healing chain at a time; budgets end in a human, not in a loop |
| delivery outbox (`deliveryOutbox.ts`, `taskService.ts` 19122-19391, `mrDiscussionReply.ts`) | an append-only JSONL log of replies; the agent's draft; `replied_ids`; the flush in progress | stage, flush; enqueue, attempt, failed, delivered, replay | nothing enqueued is lost; nothing is sent before its commit is pushed; what is recorded as delivered was, and is not sent again; a torn tail never corrupts the log |
| merge watch (`mergeWatch.ts`) | none; a decision per beat | `nextWatchStep`, `stopFailures` | merged and closed win over whatever runs |
| human gate (`humanGate.ts`) | decision cards with a version | ask, resolve, supersede | one decision per card; a repeat of the same request is idempotent |
| requirement reviews (`requirementReviewQueue.ts`, `annotations.ts`, `feedbackStore.ts`) | comment ledger, batch in progress, auxiliary epoch | submit, queue, drain, withdraw, answer | every comment is processed by one batch or given back |
| dependency scheduling (`dependencyScheduling.ts`) | `blocked_by`, `dependency_adjustments` | preview, early start, queue refresh, ticket conflict | a stale preview is refused; tasks with one ticket never run together nor block each other for ever |
| issue flow (`issueFlow/`) | `status`, `gate`, `controlEpoch`, `turnToken`, the set `turning`, parked notices, takeover; stage machine, branch-transfer flag, pipeline watch | create, pump, turn, settle, answer, reply, steer, review, takeover, merge, cancel, revive, recover; stages, push/sync/absorb, pipeline repair, auto claim | one turn per session and no more turns than the budget leaves room for; no message to the model is lost; who waits gets a turn; stages move only along the registry |
| persistence helpers (`durableWrite.ts`, `jsonlTailRepair.ts`) | files | write-fsync-rename, tail repair | a crash leaves the old or the new content |
| containers (`containerOwnership.ts`, `containerRuntime.ts`, `executionRuntime.ts`) | owned container names and labels | start, exec, stop, sweep | no two attempts share a workspace; leftovers are swept |
| sessions (`sessionDriver.ts`, `semanticEvents.ts`, `conversation.ts`) | agent session, event log | start, continue, steer, abort | undelivered messages are returned |
| server, auth, kernel host, platform adapters, knowledge production, metrics, front end | - | requests, calls to other programs, rendering | not coordination; see section 7 |

How they interact.  HTTP handlers and watchers call methods of the one `TaskService`
object and of the `IssueFlowService` beside it; the asynchronous ones interleave at every
`await`.  There are no locks: exclusion
is by flags (`prepushActive`, `hostActionActive`, `driver`), ownership by a per-task
`controlEpoch` that each control action bumps and that `current(task, epoch)` compares, and
capacity by a counter with a FIFO queue.  `persist` writes `task.json` by fsync and rename;
everything else of a task is lost when the process dies and rebuilt by `recover()`.

## 2. Modules

| module | models |
|---|---|
| `PrePushVerification` | the reducer's transitions as pure operators on a record, one per exported function |
| `PrePushMachine` | that reducer under any order of calls its exports allow |
| `Endorsement` | the abstract promise: at most one content is endorsed, and only one both checks of which have been reported as passed; an endorsement may be withdrawn at any time |
| `BuildFix` | the rounds of one task in the task service, with everything that interleaves with them |
| `PrePushVerificationProofs` | what each transition of the reducer keeps true of a record, whoever drives it |
| `PrePushMachineProofs`, `BuildFixProofs` | theorems about `PrePushMachine` and `BuildFix` for all constants, both on top of these lemmas |
| `DeliveryOutbox` | the log as a sequence of lines with a way of ending, its readers and its append |
| `ReviewReplies` | the staging of a draft into the log and the flush that sends it, with the platform, pushes and restarts around them |
| `ReplyLedger` | the abstract promise: what is on record stays; the platform gets it only after its commit was published; it is recorded as delivered only once the platform has it |
| `ReviewRepliesProofs` | theorems about `ReviewReplies` for all constants |
| `DependencyScheduling` | readiness of a queued task, the conflict rule of one ticket, the preview of an early start, as operators on the task records |
| `TaskControl` | the scheduler and controls over it: pump, launch, settle, cards, pause, resume, cancel, retry, interrupt, early start, merge, crash and start-up |
| `AnswerOnce` | the abstract promise about decision cards: answered at most once, heard at most once, and only what was answered |
| `RequirementReview` | comments on the requirement document: submission, drains, the agent's runs, receipts, pause, cancel, confirmation, restart |
| `Delivery` | one task from its last commit to its merged request, with poll, repairs, timers, the merge watch, the platform and crashes |
| `IssueTurns` | the turns of issue sessions under one budget |
| `TaskControlProofs`, `RequirementReviewProofs`, `IssueTurnsProofs`, `DeliveryProofs` | theorems about these modules for all constants |
| `MC...` | constants of the instances |

Which composes which: `BuildFix` uses `PrePushVerification` and implements `Endorsement`;
`ReviewReplies` uses `DeliveryOutbox` and implements `ReplyLedger`; `TaskControl` extends
`DependencyScheduling` and implements `AnswerOnce` for its cards.  Between the large modules
the interface is a status and an epoch: what `BuildFix` and `Delivery` do in detail is a
`deliver` call in `TaskControl`; what `TaskControl` does to a task is an epoch that moves on
in the others.

### PrePushMachine

`s` is the record.  Two history variables say what the code cannot: `startedFor` is the
content each attempt was last started on, `claims` what runners reported as passed.  A
runner's results can arrive at any time, more than once, and for attempts given up long
ago.  `Contents` and `Content` separate a commit from what it contains, so that the
rewriting of commit messages (`rebindEquivalentPrePushRevision`, called from
`ensureCommitMessagePolicy` once it has compared the trees) is an action with a precise
guard.  One discipline of the caller is kept: `performPrePush` always restores a record
before it drives it, and restoring does not accept a skipped one, so a skipped record is
not driven (`Driven`).

### BuildFix

An action is the code between two awaits.  A *chain* is one asynchronous call on its way
through `preparePush`; its `pc` names the await it stands at:

| pc | code |
|---|---|
| `wait`, `woken`, `join` | `resumePrePushVerification` awaits the round of another chain, goes on, or joins it through `prepushActive` |
| `revision` | `preparePush` awaits HEAD (`prePushRevision`) |
| `round_revision` | `performPrePush` awaits HEAD; `prepushActive` is set |
| `snapshot`, `queued`, `granted`, `refused` | change snapshot, then the build slot |
| `boot`, `turn` | `runCloudPrePushAgent`: container and session start, the agent's turn |
| `final_revision` | HEAD is read again after the result |
| `pausing` | `finishPause` called by the round itself |
| `settled` | the promise has settled; its caller goes on |

| variable | code |
|---|---|
| `head`, `pp`, `status` | HEAD of the workspace, `delivery.prepush`, `summary.status` |
| `epoch`, `pauseReq`, `pausers` | `controlEpoch`, `pauseRequested`, the `finishPause` calls in flight with the epoch each holds |
| `active` | the round behind `prepushActive` |
| `coding` | the main session's turn, by the epoch it was started in |
| `slot`, `queue` | `activePrePushBuilds` (one slot, the default of `prepush.buildSlots`) and `prePushBuildQueue` |
| `skipping`, `stopping` | `skipPrePushVerification` waiting for HEAD with the record it read; `stopPrePush` waiting for the round to close |
| `reported`, `skippedAt` | history: what runners said, what the user decided |

The workspace fingerprint is a hash of HEAD (`prePushRevision`), hence a commit determines
the revision.  `local`, the copy of the record a round carries across its awaits and writes
back at the end, is part of the chain, for that is how the code loses updates.  Every
segment that changes the record or the status persists it before it yields, so a restart
reads back what memory held; an orderly shutdown first lets a round close its attempt, a
crash does not, and `Restart` allows both.  Promise reactions run before I/O, timers and
requests (`Reactions`, `Quiet`), as the microtask queue does.

### DeliveryOutbox and ReviewReplies

A file is its complete lines and its tail: after a newline, after a last line whose newline
is missing (`bare`), or after a fragment (`torn`).  `append` repairs the tail first, as the
code does, and may then end in four ways (`Appends`); all but `whole` are an exception in
the caller, and stand as well for a process that dies while it writes, when followed by
`Restart`.  What `list` computes by replaying the lines is said directly of the lines:
`Listed`, `Delivered`, `Pending`, `attempts`, `last_error`; `Readable` says that `list` does
not throw.

| variable | code |
|---|---|
| `log` | `delivery-outbox.jsonl` |
| `draft` | the discussions `review_replies.md` answers |
| `head`, `pushed` | HEAD of the workspace, `delivery.git_push.sha` |
| `replied` | `loop.replied_ids` |
| `open` | neither completed, canceled nor `mergeSettlement` |
| `stalled` | `delivery.stalled` names the outbox |
| `stage` | a call of `stageReviewReplies`, which appends one answer after the other |
| `flush` | `reviewOutboxFlush`: the push it started with, the replies left, the one in hand |
| `wire`, `accepted` | requests on their way, from this process or an earlier one; what the platform has |
| `published`, `faults` | history of pushes; bound on failed appends |

The code between two awaits is not interrupted (`Quiet`) except by `Restart`, which may come
between any two lines.  A reply is a discussion and a commit, for its key is a hash of these
and of its text.  That the platform takes a key once is an assumption about another program,
made by the code as well (`Idempotency-Key`); `accepted` is a set because of it.  The
flush orders replies by their attempts once, at its start; each is handled at most once in a
flush, so choosing the least tried of those left is the same order.  Replies that
were tried equally often are sent in any order.

In the code as it stands `review_source` is only ever set to `workspace`; `stageReviewReplies`
works for tasks whose saved loop says `platform`.

### DependencyScheduling and TaskControl

What a handler does between two awaits is one step; the rest of it waits in `frames`, one
record per suspended call with the `controlEpoch` it began under (`Current` is the code's
`current(task, epoch)`).  `pump()` is synchronous, so while `pump` is not `"idle"` nothing
else runs; it has steps of its own only because it takes one task after the other.

| variable | code |
|---|---|
| `task` | the `TaskState`: status, epoch, driver, what it waits for, the recorded answer (`pendingResume`), dependencies, ticket |
| `queue`, `runningCount` | the fields of that name |
| `frames` | `launch` and `turn` (`launch`, `settleTurn`), `failing`, `deliver` and `poll` (delivery), `pause` (`finishPause`), `cancel`, `merge` |
| `gate`, `told` | the cards of `waiting.json`; history: how often a session heard each answer |
| `view`, `accepted` | the early-start preview in front of an owner; `dependency_adjustments` |

The two files of a decision, `waiting.json` and `task.json`, are written one after the other
and the process may die in between (`CrashInDecide`); `Restart` is what `recover()` makes of
either outcome.  Stopping a container is shared by those who await it.  A ticket is compared
inside one repository only; the module has one repository.

### RequirementReview

| variable | code |
|---|---|
| `comment` | the ledger of `annotations.ts`, replayed |
| `drains`, `writer`, `auxEpoch` | the loops of `drainRequirementReviews` in flight, the lock of the task, the epoch that a stop of the auxiliary sessions ends |
| `pauses`, `controlEpoch`, `status` | `finishPause` calls in flight, task epoch and status |
| `revision`, `document` | `requirement_revision` in the task record; which comment versions the document carries out |
| `confirmed`, `handed` | `requirement_analysis_confirmed_at`; history: what was given to an agent |

An agent edits a copy made when its run began; only a loop that still holds its epoch writes
it back, then leaves one receipt per comment, and a crash may fall between two receipts.  In
the window of a pause a new loop can begin under the next epoch while an old one is still
suspended: both are in `drains`, and what the old one may still write is decided by the
revision's id.

### Delivery

`host` is the task as the service sees it: its record, the suspended calls (`host.calls`, each
with its epoch and with the one that awaits it), the poll and the timers (`recovery`, `limit`,
`evidence`, `repair`).  `site` is the platform: branch, merge request, pipeline runs, who
triggered how many.  A query and its answer are one step; a request that changes the platform
arrives first and is answered, or not, later.  A commit is the set of changes it contains,
so that "contains HEAD" is set inclusion, which is what the code asks git.  Outside events
(pause, interrupt, retry, crash, close, foreign push, rerun) have a bound each (`Bounds`)
and one on how many kinds of them meet in a behaviour (`MaxEvents`).

### IssueTurns

A call of `runTurn` is a member of `calls`; its `pc` names the await it stands at: `boot` (the
container, the knowledge repository, outside commits), `open` (the model session, with the
parked notices it took in `hand`), `model` (the answer).

| variable | code |
|---|---|
| `issue[i].status`, `epoch`, `turn` | `state.status`, `controlEpoch`, `turnToken` while the session is in `turning` |
| `gate`, `card`, `asks` | the platform's gate in `issue.json`; the agent's card in `waiting.json`; whether the live session waits at it |
| `driver`, `steers` | `live.driver`, the additions it has taken and not yet shown to the model |
| `parked`, `resumeMessage`, `nudges`, `takeover` | the fields of that name |
| `cancels` | `control("cancel")` while it awaits session and container |
| `owed` | history: notices parked and not yet given to the model |

`EndTurnSlot` and `Continuation` are one step when the call that settles begins a continuation:
the code runs `settle` and the `finally` of the old call without yielding to another request.
The gates are four: `confirm` stands for those whose answer sends the agent on or archives
(analysis, conclusion, skill choice, evidence), `verify` and `unfixable` are the ones a new
commit or a red pipeline withdraws, `env` is answered by its own form.

## 3. What is checked

Passing runs:

| run | bounds | states | properties |
|---|---|---|---|
| `PrePushRounds` | 3 commits, two of them of one tree, 1 round per commit | 24 500 | `ReceiptEarned`, `ReceiptSurvivesRestart`, `Endorses` |
| `BuildFixControls` | 2 chains, 2 starts, 2 commits, 2 control epochs, 1 restart; pause, cancel, retry | 493 000 | `HandoverJustified`, `Endorses` |
| `BuildFixQueue` | 2 chains, another task building, 1 commit, 1 epoch; cancel, stop, interrupt, skip | 31 000 | `SlotSound`, `RoundsClose`, `StopsReturn` |
| `ReviewReplies` | 2 discussions (symmetric), 2 commits, 5 lines, 1 failed append | 455 000 | `LogReadable`, `RepliedTruly`, `KeepsPromise`, `SentFromLog`, `DraftKept` |
| `TaskControls` | a task and its dependent, 1 slot, 2 epochs, 2 cards, 1 crash; six controls | 508 000 | `OneExecutor`, `NoStraySession`, `CanceledIsFinal`, `AnsweredOnce` |
| `TaskLive` | two unrelated tasks, 1 slot, 1 card, 1 crash; pause, decide | 36 000 | `QueuedStarts`, `PauseReturns`, `AnswerHeard` |
| `EarlyStart` | three tasks in two plans, 2 tickets, 1 slot; early start, cancel, merge | 799 000 | `SameTicketApart`, `SomeoneGoesFirst`, `TicketOrderKept`, `ReleasedAsShown` |
| `RequirementComments` | 2 comments of up to 2 later versions, 2 epochs, 1 crash | 220 000 | `NotForgotten`, `ReceiptsTrue`, `HandedOnce`, `ConfirmedFrozen`, `ComesBack` |
| `Delivery` | 2 changes (symmetric), 1 repair round, each outside event once, one kind per behaviour | 1 484 000 | `VerifiedBeforeMergeWait`, `CompletedTruly`, `RepairsAreEarned`, `PausedStaysPut` |
| `DeliveryLive` | 2 changes, 1 repair round, every fault, 1 crash or 1 rerun | 179 000 | `OneTriggerPerCommit`, `Settles`, `MergeEndsIt` |
| `IssueTurns` | 2 sessions, 1 turn at a time, 1 notice, 1 nudge, 1 cancel or crash; every operation, on one of them | 100 000 | `TurnsAccounted`, `NoticesKept`, `TurnsEnd`, `QueuedStarts` |

- `ReceiptEarned`: a receipt names content for which both checks were reported as passed by
  attempts started on that content.
- `ReceiptSurvivesRestart`: a record that answers "reusable" has nothing in flight and is
  read back unchanged.
- `Endorses`: both the reducer alone and the task service implement `Endorsement`.
- `HandoverJustified`: whoever is told that verification is done holds a commit both checks
  passed on, or one the user skipped, whatever joins, stale results, repair commits, pauses
  and restarts came between.
- `SlotSound`: the slot is held by exactly the round between its grant and its runner's
  return, is never idle while somebody queues, and nobody queues twice.
- `RoundsClose`, `StopsReturn`: every round that began closes, every stop request returns.
- `LogReadable`: `list` never throws on the file the service wrote itself.
- `KeepsPromise`: staging and flushing implement `ReplyLedger`.
- `RepliedTruly`: a discussion counted in `replied_ids` has an answer on the platform.
- `SentFromLog`: a request leaves only for a pending reply and after its attempt is in the
  log; a delivered reply is never sent again, also after a restart.
- `DraftKept`: the draft is emptied only when each of its answers is in the log or given.

- `OneExecutor`: of all suspended calls of a task at most one may still write its outcome.
- `NoStraySession`: a session at work has a call that will settle it, unless it waits at a card.
- `CanceledIsFinal`: whatever was suspended when a task was cancelled, it stays so.
- `AnsweredOnce`: the cards of `TaskControl` implement `AnswerOnce`, crashes between the two
  files and decisions without a live session included.
- `QueuedStarts`, `PauseReturns`, `AnswerHeard`: what is queued and waits for nobody starts; a
  pause ends; an answer recorded while no session was there reaches one.
- `SameTicketApart`, `SomeoneGoesFirst`: two tasks of one ticket never work together, and
  queued tasks never wait only for one another.
- `TicketOrderKept`, `ReleasedAsShown`: an early start never makes two unfinished tasks of one
  ticket neighbours, and takes away exactly the waits its owner was shown, along every path,
  whatever happened between the preview and its confirmation.
- `NotForgotten`, `ComesBack`: a comment people can no longer touch is in somebody's hands, and
  comes back.  `ReceiptsTrue`: a receipt "fixed" is true of the document as it is.
  `HandedOnce`: no version is given to an agent twice.  `ConfirmedFrozen`: a confirmed
  document is not changed.
- `VerifiedBeforeMergeWait`: a task comes to wait for its merge only with a commit the kernel
  passed, unless a delivery that would have verified it is cut off.  A delivery may run beside a
  poll: a retry starts one, and so does the recovery timer when the poll has found no run or no
  platform (`recoveryStillNeeded`, 14937, looks at the last result and not at the poll, though
  its comment and `deliveryRecovery.ts` 155 say that the two chains keep out of each other's
  way).  The poll then brings its verdict, the task waits for its merge, and the delivery pushes
  what it has merged from the branch.  If the process dies at that point, or the request is
  closed, nobody verifies that commit: with one foreign push, one interrupt and one crash TLC
  finds it.  Within the run's bound of one kind of event neither happens; the theorem
  of section 5 covers them.
  `CompletedTruly`: it is completed only when the merge contains all it committed.
  `RepairsAreEarned`: a repair round is spent on a red commit, one at a time.
  `PausedStaysPut`: no late answer, timer or watcher moves a paused task.
- `OneTriggerPerCommit`: a commit gets one pipeline whatever is lost, repeated or restarted.
  `Settles`: a task does not verify for ever.  `MergeEndsIt`: a merge is noticed.
- `TurnsAccounted`: an issue session has at most one turn, which holds its place until it ends,
  across continuations, and one that says it is running has one.  `NoticesKept`: no failed
  start, takeover, cancel or continuation drops a parked notice.  `TurnsEnd`, `QueuedStarts`:
  late additions and nudges prolong a turn only finitely often, and whoever ends one lets the
  next session in.

Why the bounds are enough.  Two commits make a result stale; a third of another tree puts one
equivalent and one different commit beside the verified one.  More than one round per
commit is covered by the proofs of section 5 only.  Two chains join, overlap and compete.
Two epochs let a control follow the call-back of an earlier one.  One other builder fills the
only slot, and the queue in front of the task is then of any length TLC needs for a hand-over.
Two discussions let one reply overtake another and a draft be staged half-way; two commits
bind a reply to another push than the current one; five lines hold a reply sent twice
beside another one, one failed append each of the four ways a write can end.  In
`TaskControls` the dependent is not steered: it is there to compete for the slot and to be
released.  `EarlyStart` has the two shapes in which a release can go wrong with three tasks: a
chain whose ends share a ticket, and two of one ticket with a follower.  A comment of
`RequirementComments` may be rewritten while its first version is under way and again
after.  In `Delivery` the second change is a repair or a foreign push; one round reaches the
end of the budget.  Kinds of outside events are combined with everything inside, not with one
another.  `IssueTurns` needs the second session only to wait and then to take the place the
first one leaves; the safety properties hold as well with two cancels or crashes (707 000
states, not a run of its own).

The type of the queue of `TaskControl` was checked at the bounds of its runs; every other type
invariant is proved.

One run must fail (`PROJECT.json` quotes the comment it contradicts under "findings"):

| run | property | what happens |
|---|---|---|
| `DeliveryUnwatched` | `SomebodyWatches` | a pause and a resume pass while a delivery awaits the creation of its merge request; the resumed delivery finds `deliveryActive` set and leaves, the old one is no longer current; the task verifies with nobody who verifies it |

Other statements of the code, its comments and tests that do not hold.  Those with a name are
definitions in the module, which any run can check:

- `BuildFix!CanceledIsFinal`: `performPrePush` (16025) writes `running` after awaiting HEAD
  without asking whether the task is still its own.  `OneRoundPerTask` (16176): two calls of
  `preparePush` both read HEAD before either sets `prepushActive`; both start a round and the
  later one overwrites the record, so that a pass may be lost, never invented.
  `RoundLeavesNoAttempt` (16158): a retry keeps the compile pass, and the report that should
  close its attempt is ignored as a repeat.  `SkipDecisionKept` (`prePushVerification.ts:195`):
  a skip recorded while a round starts is restored as a corrupt record, that is, forgotten.
  `PassNeedsVerifiedRun` (15921): a report that says `infrastructure_failure` and two passed
  checks gets a receipt without `verifyPrePushEvidence`.
- `TaskControl!ConcurrencyLimit`: a decision with a live session continues by `settle`
  without a slot (11439).  `PausedKeepsCard`: a decision in the window of `finishPause` is
  lost.  `MergeIsFinal`: a cancel that awaits `fetchGates` (13163) overwrites `completed`.
  `FreeSlotServes`: a task that fails without a push outside the pump's count frees its ticket
  and nobody pumps.  `SameTicketApart` does not hold when a failed delivery is retried: that goes
  round the pump (9342), and nobody asks who has taken the ticket meanwhile.
  `SomeoneGoesFirst` does not hold when a task that never started is paused: with 3 waiting
  for 2, all of one ticket, 2 waits for 1, which is ahead of it in the queue, 1 waits for 3, which
  is paused and so counts as a neighbour, and nobody of them goes before 3 is resumed.  An interrupt or retry during a merge settlement relaunches the task
  (18213), and the retry of a completed predecessor runs beside its follower of the same
  ticket.  `NoStraySession` does not hold with merges: `applyMergeState` asks for no epoch after
  `stopMrExecution`, so a settlement that an interrupt has overtaken completes the task while
  its new session is at work or waits at a card.
- `Delivery!RoundsBudgeted`: `applyMergeState` (18320) makes a repair loop without its
  maximum.  `OneRepairPerRed`: the recovery delivery and the poll after an outage both take one
  red result.  `RetriesOnce`: the marker of a manual rerun survives a failed delivery, and each
  recovery triggers a pipeline again.  The evidence timer (17604) survives a pause.
  `PassHasRun`: after its fetch `retryPipelineEvidence` (15014) asks for the epoch and the status,
  not whether `delivery.sha` is still the commit it asked about, and writes the result to the
  record (the comment beside it, 15016, wants no other commit's light).  A refresh begun before a
  repair and answered after its push makes the recovery delivery reuse that light, and the kernel
  passes a commit no pipeline has run on (2 changes, 1 retry, `"kernel"` and `"push"` among the
  faults: 45 steps).  In the same way a round may be spent on a commit that was not red: of
  `RepairsAreEarned` the run `Delivery`, without kernel failures, shows as much as is true.
- Issue sessions (`issueFlow/service.ts`).  `reply` (5115) does not ask about a takeover; its
  turn is then ignored by `settle`, which leaves `running` with no turn, and the session can
  neither be resumed nor taken over; hence the middle clause of `TurnsAccounted`.  A takeover
  while a turn awaits its container lets the model begin.  The catch of `runTurn` looks at the
  gate before the takeover (3145).  A cancel awaits before it writes `canceled`: a reply or a
  platform turn begun meanwhile carries the new epoch and may overwrite it later; a cancel
  that fails has already taken the gate away, and leaves a session that waits with no card;
  of two cancels the failing one may write `idle` over `canceled`.  A crash after
  `takeParkedNotices` loses what was taken (`NoticesKept` lets go of it).  `resumeFromTakeover`
  does not ask whether the session has ended meanwhile.

Deadlock is checked for the reducer.  The other systems may really stop (a cancelled task with
nothing in flight, a bound reached), hence `CHECK_DEADLOCK FALSE`; that nobody waits for ever
is what their liveness properties say.

Every property of a passing run has a mutant in `PROJECT.json`, a plausible slip in a
mapped definition (kept in the modules next to it) that TLC finds out under that run.

## 4. Fairness

`BuildFix` assumes weak fairness of promise reactions and of the steps by which an await of
this process returns: reading HEAD, starting a container, an agent's turn (a timer
of `attemptTimeoutMs` aborts it), the cleanup of a pause called by a round, and the end of
another task's build, bounded by the same timer.  Nothing obliges the user, the coding
session, a repair commit, a failing git command or a crash.  The steps of a chain are fair
one chain at a time, as timers and sockets are; no strong fairness is used.

`TaskControl` assumes that the loop runs the pump when it is due, and that a suspended call
whose await can end goes on: sessions, containers and the platform answer or fail.  This is
strong fairness per task, because the loop is kept busy again and again by others and a step
is enabled only when the pump is idle.  `RequirementReview` assumes that loops, agent runs and
pauses go on (`Processing`), nothing of people or crashes.  `Delivery` assumes that requests
are answered or fail, one kind at a time, that timers fire, that the agent commits something
and ends its turn and that the platform ends its runs; nobody need merge, reopen, retry or
resume.  `IssueTurns` assumes weak fairness of the turn of each session: a container starts or
fails, a model answers or breaks; the agent is never obliged to finish its stage, nor the
owner to do anything.

## 5. What is proved

`PrePushMachineProofs` proves, for every set of commits, fingerprints and contents, every
assignment of content to revisions and every round bound, from the assumptions
`NoneIsNoData`, `ContentType`, `MaxRoundType` and `NoneIsNoContent` alone:

| theorem | statement |
|---|---|
| `Invariance` | `Spec => []Inv` |
| `TypeCorrect` | `Spec => []TypeOK` |
| `ReceiptsAreEarned` | `Spec => []ReceiptEarned` |
| `ReceiptsSurvive` | `Spec => []ReceiptSurvivesRestart` |
| `ReducerEndorses` | `Spec => Endorses` |

None of the properties is inductive by itself.  `Inv` adds three facts about the record:
`Shape` (an attempt is in flight only in an unfinished state; a receipt belongs to a
`passed` record, names its revision and its two passing attempts), `Backed` (every check that
has passed was reported for the content of the record's revision, unless the record is a
user's skip: a skip moves the record to another commit and keeps the checks, so the invariant
must let go of them, and restoring must drop such a record before it is driven again) and
`Owned` (the attempt in flight was started on that content).  This is why dropping
`user_skipped` from what a restart accepts is, in one respect, what keeps receipts honest,
although it loses the user's decision.

`PrePushVerificationProofs` has the first two (`Sound`) as one lemma per transition of the
reducer, which say what it needs and gives: a result must have been heard if the attempt it
names is in flight, a record that has been restored has nothing in flight and, if it has passed, can
be used again.  The machine then takes one step per action, and the refinement follows from `Inv`:
whatever a step leaves as receipt is earned.

`BuildFixProofs` proves, for every set of calls and of other builds, any of the requests, both
runners, with and without continuous review, and every bound on commits, starts, epochs and
restarts, from `NoneIsNoData` and `BuildFixConstants`:

| theorem | statement |
|---|---|
| `Invariance` | `Spec => []Inv` |
| `TypeCorrect` | `Spec => []TypeOK` |
| `HandoversAreJustified` | `Spec => []HandoverJustified` |
| `SlotIsSound` | `Spec => []SlotSound` |
| `RoundsEndorse` | `Spec => Endorses` |

The task service writes over a record that others have changed meanwhile, and keeps what it has
across awaits: no single writer could be the argument.  `Verified` therefore says the same of
every copy there is: the record of the task, the copy of each round (`local`), what a skip has
read, and what a call that is done may hand over (`Sure`).  Each of them is `Sound` with respect
to what runners have said, and that only grows, so it does not matter which of them is written last.
A result counts for the commit it was heard about (`Heard`), and `BoundResult` with `Observed` sees to
it that this is the commit it is recorded on (`FinalSound`).  A record that says skipped names a commit
its user skipped (`Recording`): a skip writes HEAD as it is by then, and no round ever carries a
skipped record.  The slot needs no history: its holder and its waiters are a matter of where
the calls stand, so an action either leaves these places alone (`AlikeKeepsSlots`) or is one of
the five that move them.  `Roomy` keeps the epoch in its bound.  `Kept` is a loop over the queue,
and what it keeps is proved by looking for the least counterexample (`Least`), since the theorems about
induction take an operator, which no prover here can instantiate.

`ReviewRepliesProofs` proves, for every set of discussions and every bound on commits, lines
and failed appends, from `ReviewRepliesConstants` alone:

| theorem | statement |
|---|---|
| `Invariance` | `Spec => []IInv` |
| `TypeCorrect` | `Spec => []TypeOK` |
| `AlwaysReadable` | `Spec => []LogReadable` |
| `AnswersAreTrue` | `Spec => []RepliedTruly` |
| `DraftsAreKept` | `Spec => DraftKept` |
| `SendsAreLogged` | `Spec => SentFromLog` |
| `Implements` | `Spec => KeepsPromise` |

The invariant ties the file to the world: what is delivered in the log is on the platform,
and what is there or on its way is listed and speaks of a published commit (`OnRecord`),
for which the flush must hold a published commit across its awaits (`Pushes`).  `Covered`
says that a call which stages answers has every discussion answered, logged or still in
hand; it is what allows the draft to go.  The lemmas about the file come first: an append
adds its line or nothing (`AppendLines`), what a line adds to the replies logged
(`LoggedAppend`), and that a line which enqueues or speaks of a pending reply leaves the
file readable (`ReadableAppend`); `requirePending` is the reason the others never break it.
`SentFromLog` counts attempts, so `SendsAreLogged` needs that an appended attempt is counted
once (`AttemptsAppend`), and that nothing but a flush whose attempt is whole adds a request
(`PostingBySend`).

`RequirementReviewProofs` proves, for every set of comments and every bound on versions,
epochs and crashes, from `CommentAssumption`, `BoundAssumption` and `NoneAssumption`:

| theorem | statement |
|---|---|
| `Invariance` | `Spec => []Inv` |
| `TypeCorrect` | `Spec => []TypeOK` |
| `NothingForgotten` | `Spec => []NotForgotten` |
| `ReceiptsAreTrue` | `Spec => []ReceiptsTrue` |
| `NeverHandedTwice` | `Spec => HandedOnce` |
| `ConfirmedStaysFrozen` | `Spec => ConfirmedFrozen` |

Loops of several epochs may be suspended at once, and any of them may still come back.
`Guarded` says who answers for a comment in hand: a loop of the auxiliary epoch with that
version in its batch, or a pause that still has to give everything back.  `CopyCurrent` is what
makes a receipt true: the copy of the run that the task record names is that of the document
as it is.  `Numbered` keeps runs apart (their number is how much was ever given away), and
`GivenAway` bounds what was given by the versions of the ledger, which is why a comment that is
withdrawn and rewritten has to be a new version.  `Phases` ties the queue to the status.

`IssueTurnsProofs` proves, for every set of sessions, notices and nudges and every budget, from
the assumptions of `IssueTurns`:

| theorem | statement |
|---|---|
| `Invariance` | `Spec => []Inv` |
| `TypeCorrect` | `Spec => []TypeOK` |
| `TurnsAreAccounted` | `Spec => []TurnsAccounted` |
| `NoticesAreKept` | `Spec => []NoticesKept` |

The invariant is a predicate of the records, the calls and the cancels (`State`).  The place of
a session is held by its only call, under that call's token (`Places`): this is what a
continuation hands over.  A session that says it is running has a call of its epoch unless
it is excused (`Runs`), and a parked notice is where it was put or in the hand of a call that
is opening a session (`Hands`).

`TaskControlProofs` proves, for every set of tasks, plans, controls, slots and bounds, from
`TaskAssumption`, `PlanAssumption`, `MaxConcurrentAssumption` and `BoundAssumption`:

| theorem | statement |
|---|---|
| `Invariance` | `Spec => []Inv` |
| `TypeCorrect` | `Spec => []Typed` |
| `OneWriter` | `Spec => []OneExecutor` |
| `SessionsAreKept` | `Spec => []NoStraySession`, if `"merge"` is not among the operations |
| `CanceledStaysCanceled` | `Spec => CanceledIsFinal` |
| `AnswersOnce` | `Spec => AnsweredOnce` |
| `ReleasesAreShown` | `Spec => ReleasedAsShown` |
| `OrderKept` | `Spec => TicketOrderKept`, if `Stable` |
| `SomeoneMayGo` | `Spec => []SomeoneGoesFirst`, if `Stable` and `Calm` |
| `TicketsApart` | `Spec => []SameTicketApart`, if `Straight` |

`OneExecutor` is not inductive: that no second call of the current epoch begins depends on
the guards of the controls, which look at the status and the driver of the task and not at
its calls.  `Fits` says what the calls of a task imply about its record (`Suits`), that none is
of a later epoch, and that two of one epoch are never both executors, but for a pause
beside the failure it caused (`Apart`).  `Cards` relates the record to the two files of a
decision: the card it waits at is open, the answer it keeps for its next session is on file and
unheard.  A restart re-establishes all of it from the records and cards alone
(`RestartKeeps`), also when the process dies between the two files.  `Slots` counts the calls
that hold one.  A step changes one task, so there is one lemma per action about one record and
its calls (`Steps`), and one for what they have in common (`StepKeeps`).  `Kept` is
conditional because `NoStraySession` fails with merges (section 3).  `Typed` is the type
invariant without the queue: the queue is built with `SelectSeq` and
`SetToSortSeq`, of which no prover knows a fact.

The last four theorems are about all tasks at once.  `Ancestors` is defined as the least closed
set, so what they need of paths comes from that alone: it is closed (`AncestorsClosed`), is in every
closed set (`AncestorsLeast`), shrinks with the dependencies (`AncestorsFewer`), and a task that
does not wait for another does not notice what is cut from that one (`AncestorsElsewhere`).  This
is why the preview may look only at the followers of the task it is about, and with it
`ReleasesAreShown` needs no invariant but `Inv`.

The other three rest on a second invariant, `Ranked`.  `IAnc`: whoever was ever started waits for
nobody any more, so that it does not matter that the code asks for conflicts only when a task
starts.  `ILone`: of one ticket at most one task is `Engaged`, that is, goes on without being
started by the pump again.  `Ordered` says of one record and its calls what the two need: a task
that was never started has nothing (`Fresh`), nobody works on one that is merged (`Settled`), one that has
failed has no call that still settles its failure (`Sober`).  Only two steps can disturb what is said
of all tasks, the start by the pump and the early start; all others start nobody and leave
dependencies and tickets alone (`Going`, one lemma per action, `NextGoes`).  The pump starts a
task that may go, hence one without ancestors (`DoneAncestors`) and without anybody of its ticket
(`ReadyAlone`).  `SomeoneMayGo` looks at the first of those a task waits for (`LeastOne`): whoever that one
waits for, the task would wait for too (`FirstConflict`).  `OrderKept` needs that a preview
without errors has looked at every pair the cut can bring together (`EarlyApart`).

Their hypotheses are about the controls the users exercise, and the cases they leave out are not
true of the code (section 3), with one exception.  `Stable`: nobody pauses or interrupts a
task that is merged, which the settlement does not survive.  `Calm`: nobody pauses.
`Straight`: both, and nobody retries.  Crashes, cancels, merges, decisions, early starts
and, without merges, interrupts are all in.  The exception is that `SameTicketApart` was not seen to
fail with pauses alone (two tasks of one ticket; pause, resume, decide: 1.7 million states).

`DeliveryProofs` proves, for every finite set of changes, every budget of repairs, every bound
and number of outside events and every set of faults and outcomes, from the assumptions of
`Delivery`:

| theorem | statement |
|---|---|
| `Invariance` | `Spec => []Inv` |
| `TypeCorrect` | `Spec => []TypeOK` |
| `CompletedByItsMerge` | `Spec => CompletedTruly` |
| `PausedIsLeftAlone` | `Spec => PausedStaysPut` |
| `Knowledge` | `Spec => []Knowing` |
| `OnePipeline` | `Spec => []OneTriggerPerCommit` |
| `RepairsEarned` | `Spec => RepairsAreEarned`, if `"kernel"` is not among the faults |
| `WaitsVouched` | `Spec => []Rested` |
| `WaitsVerified` | `Spec => VerifiedBeforeMergeWait` |

That a paused task stays put is a matter of every function behind every call: each asks for its
epoch, but not each of them asks at every write.  `Epochs` says that no call is of an epoch to come
and that, while a task is paused, the only calls of its own epoch settle its merge request: they
alone may move it, and only to its end.  That a settlement ends it truly needs `Watches` (there is a
watcher only where there is a request, and a settlement that says merged was begun by a merge,
which the platform does not take back) and `Pushes` (a request, a verdict and a gap all speak of
a commit that was pushed; every call past the push knows which).  `OneDelivery` is
`deliveryActive` as the code means it: set exactly while one of the calls is a delivery.

The code hands the task from function to function within one step, so `Keeps` is a predicate of
a record, and the lemmas say of each function that it `Moves` the record: the invariant is kept,
the epoch is the same, the task completes or pauses in none of them.  What is left for an action
is to say what it does before and after (`Steps`), and there is one lemma per action.  A call
that ends is the delicate case: its owner takes over in the same step (`Return`,
`AfterDelivery`).

`Knowing` is the invariant about commits.  Whatever ever had a run is part of the commit of the
record, and that is part of the working tree (`Sound`): a commit that grows is a new one, without
a run.  A call on its way to the branch carries a commit that holds the one of the record and has no run yet;
one that asks or triggers carries that of the record, and a commit about to be triggered has no run
(`Knows`).  The platform has triggered nothing for a commit without a run, and at most one run for any
(`Paid`), as long as nobody asks for more, which `OneTriggerPerCommit` excludes in its
statement.  `Blamed` says of every result that may cost a round, in the record, in a timer or in
a view of the watcher, that the commit it carries was red, and `Knows` says it of the calls.  Where the
kernel may give no answer `RepairsAreEarned` is false (section 3, `PassHasRun`), hence its hypothesis.

`Rested` is the invariant about the wait for the merge, and it is about the one delivery that may be
under way meanwhile (`Waits`).  Either the kernel passed the commit of the record, or that delivery
is of the present epoch and at a stage from which it goes on to verify or to settle (`Carries`).
An overtaken one only ever records a push, and the commit it pushes is that of the record: it held that commit
and was part of the working tree (`Knows`), and a pass is only given while the two are equal
(`GreenBears`).  Functions either leave such a record alone (`Quiet`) or leave the wait
(`~Waiting`), so that a step `Bears` on it in few places: the pass, the stages of the delivery and
what cuts it off.  `"kernel"` and every other fault may be among the faults.

Every safety property of a passing run is a theorem, some under the hypotheses named above.  Only model-checked is
liveness (`RoundsClose`, `StopsReturn`, `QueuedStarts`, `PauseReturns`, `AnswerHeard`, `ComesBack`, `Settles`,
`MergeEndsIt`, `TurnsEnd`), which the prover does not cover.

## 6. Plan

Done: every module of section 2, and the proofs above.  Next, in this order:

1. Proofs: `SameTicketApart` with pauses.
2. The pipeline watch of issue sessions (deadlines, red budget, stale commits) and their
   branch transfer, beside `IssueTurns`.
3. The repairs `Delivery` leaves out: merge conflicts, tools nobody can fix, human evidence.
4. `jsonlTailRepair` as the file operation of the other ledgers, beside `DeliveryOutbox`.

## 7. Not modelled, and why

- Damage done to `delivery-outbox.jsonl` from outside: `list` then throws, the task stalls
  and an administrator repairs the file.  `LogReadable` says the service does not cause it.
- How a draft is parsed (an answer per `[id]`, duplicates refused), and what a new review
  cycle does to the draft and to `replied_ids` of the old one.
- The shortcut of `preparePush` for a commit that is already pushed (`delivery.git_push`):
  it makes a claim about the remote branch.
- `stopMrExecution` and `stop_verification` called from a host operation: both are
  controls of delivery; the first is in `TaskControl` (`SettleMerge`), the second is a stop
  without push, which `Interrupt` already exercises.
- Waiting for a human decision, requirement analysis, completion and merge as statuses in
  `BuildFix`: no round runs in them.
- In `TaskControl`: the developer assistant, retry of a completed task, temporary workspaces,
  archiving and deletion; delivery is one call there.
- In `Delivery`: background polling before the task waits, the route without kernel receipts,
  merge conflicts and their repair budget, tools nobody can fix, partial and human evidence, the
  links of several merge requests, the push ledger, requests that arrive after a crash of
  their sender.  Replies to reviewers are a module of their own; the awaits of a pause are in
  `TaskControl`.
- In `RequirementReview`: feedback and change reviews (`feedbackStore.ts`, `reviews.ts`).
- In `IssueTurns`: what the stages ask for (a stage decides only whether a stop is early and
  which gate a tool raises), push, sync and absorb with the flag they share, pipeline watch and
  its budgets (their messages are notices), automatic claims and automatic answers (they call
  the same handlers as the owner), the closing round of a repair session, warm-up sessions,
  the watchdog and an orderly shutdown.  A crash while a cancel is awaited is left out: nothing
  of that cancel is on disk yet.
- What happens inside a session (commands, output, repeated builds, timeouts): it ends in
  one of the reports of `RunnerResults`.
- More than one build slot: the drain loop is the same for any number, and one slot is the
  default and the tightest case.
- HTTP, authentication, rendering, notification, metrics, knowledge production and the
  front end: they format or transport state of the components above.
- The workflow kernel, the Git platform and the pipeline are other programs and appear
  as what this code assumes of them.
