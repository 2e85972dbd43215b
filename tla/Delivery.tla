------------------------------ MODULE Delivery ------------------------------
(***************************************************************************)
(* One task from its last commit to its merged merge request               *)
(* (src/src/taskService.ts): the delivery that pushes, opens the request   *)
(* and triggers the pipeline, the poll that waits for it, the verdict and  *)
(* the repairs it leads to, the timers that heal what failed, the watcher  *)
(* of the merge request, and the platform and users around them.           *)
(*                                                                         *)
(* The service is one event loop: what runs between two awaits is one      *)
(* step.  `host` holds what it knows, the persisted record and its memory  *)
(* alike; host.calls are the suspended calls, each with the controlEpoch   *)
(* it was started under and with the one that awaits it (owner).  A query  *)
(* and its answer are one step; requests that change the platform take     *)
(* effect (Arrives) before they are answered.                              *)
(*                                                                         *)
(* A commit is the set of changes it contains.  The source compares SHAs   *)
(* and asks git whether one commit contains another.                       *)
(***************************************************************************)
EXTENDS Naturals, FiniteSets

CONSTANTS
    Change,         \* what may be committed, by the agent or by others
    MaxRound,       \* repair_rounds, the budget of the repair loop
    Bounds,         \* bound: how often each outside event happens
    MaxEvents,      \* bound: how many kinds of them happen in one behaviour
    Faults,         \* which requests may go wrong
    Outcomes,       \* how pipeline runs may end
    None

Event == {"pause", "interrupt", "retry", "crash", "close", "foreign", "rerun"}

ASSUME BoundsAssumption == Bounds \in [Event -> Nat] /\ MaxEvents \in Nat
ASSUME ChangeAssumption == IsFiniteSet(Change)
ASSUME NoneAssumption ==
    /\ None \notin {"turn", "recovery", "call", "poll", "watch", "merged"}
    /\ None \notin {"none", "running", "success", "failed", "not_found", "unavailable",
                    "retry"}
    /\ None \notin {"retrying", "waiting_human"}
    /\ \A commit \in SUBSET Change : None # commit
ASSUME MaxRoundAssumption == MaxRound \in Nat \ {0}
ASSUME FaultsAssumption ==
    Faults \subseteq {"query", "push", "contract", "kernel", "artifacts", "stop"}
\* A "mixed" run is reported as a success; the kernel finds a red check in it.
ASSUME OutcomesAssumption == Outcomes \subseteq {"success", "failed", "mixed"}

VARIABLES
    host,           \* the task as the service sees it
    head,           \* HEAD of its working tree
    site,           \* the platform: branch, merge request, pipeline runs
    attested,       \* commits the kernel recorded as PASS
    left            \* how often each outside event may still happen

vars == <<host, head, site, attested, left>>

Commit == SUBSET Change

Call(kind, epoch, owner, sha, how) ==
    [kind |-> kind, epoch |-> epoch, owner |-> owner, sha |-> sha,
     how |-> how, mark |-> FALSE]

\* MUTANT: late answers are taken as well.
Current_AnyEpoch(h, epoch) == TRUE

Current(h, epoch) == h.controlEpoch = epoch     \* cancel: see TaskControl

Stopped(h) == h.stalled \/ h.loop \in {"halted", "closed", "exhausted"}

---------------------------------------------------------------------------
(* What calls and timers do to the record.  Each operator is the           *)
(* synchronous part of the function it is named after.                     *)

Add(h, c) == [h EXCEPT !.calls = @ \cup {c}]
Drop(h, c) == [h EXCEPT !.calls = @ \ {c}]

\* The record `delivery` is replaced by a copy: a repair that is being
\* prepared for the old one will notice.
Replaced(h) ==
    [h EXCEPT !.calls = {[c EXCEPT !.mark = @ /\ c.kind # "artifacts"] : c \in @}]

\* verificationDeadline: opened once, whoever asks.
OpenDeadline(h) ==
    IF h.verify_deadline # "none" THEN h
    ELSE [Replaced(h) EXCEPT !.verify_deadline = "open"]

\* The timer at a deadline is bound to that deadline.
NoDeadline(h) == [h EXCEPT !.verify_deadline = "none", !.limit = None]

markVerificationStalled(h) ==
    [NoDeadline(Replaced(h)) EXCEPT !.status = "verifying", !.stalled = TRUE]

scheduleDeliveryRecovery(h, epoch) ==
    [OpenDeadline(h) EXCEPT !.limit = epoch,
                            !.recovery = IF @ = None THEN epoch ELSE @]

holdWithRecovery(h, epoch) ==
    LET held == [Replaced(h) EXCEPT !.status = "verifying"] IN
    IF h.stalled THEN held
    ELSE IF h.verify_deadline = "past" THEN markVerificationStalled(held)
    ELSE scheduleDeliveryRecovery(held, epoch)

schedulePipelineEvidenceRetry(h, sha, epoch, stale) ==
    IF h.evidence # None \/ h.stalled THEN h
    ELSE IF h.verify_deadline = "past" THEN markVerificationStalled(h)
    ELSE [OpenDeadline(h) EXCEPT
             !.evidence = [epoch |-> epoch, sha |-> sha, stale |-> stale]]

scheduleRepairEvidenceRetry(h, sha, epoch) ==
    IF h.repair # None THEN h
    ELSE [h EXCEPT !.repair = [epoch |-> epoch, sha |-> sha]]

enqueueRepair(h) == [h EXCEPT !.status = "queued"]

ensureMergeWatch(h) ==
    IF h.mr /\ h.watch = "off" /\ h.status # "completed"
    THEN [h EXCEPT !.watch = "wait"] ELSE h

recoveryStillNeeded(h, epoch) ==
    /\ Current(h, epoch) /\ h.status = "verifying" /\ ~h.stalled
    /\ h.pipeline # "running" /\ h.evidence = None /\ h.repair = None

\* What the caller of tryDeliver does when it returns.
AfterDelivery(h, epoch, owner) ==
    CASE owner = "turn" /\ Current(h, epoch) /\ h.status = "running" ->
           holdWithRecovery(h, epoch)
      [] owner = "recovery" /\ recoveryStillNeeded(h, epoch) ->
           IF h.verify_deadline = "past" THEN markVerificationStalled(h)
           ELSE scheduleDeliveryRecovery(h, epoch)
      [] OTHER -> h

performDelivery(h, epoch, owner) ==
    Add([h EXCEPT !.deliveryActive = TRUE,
             !.status = IF @ \in {"running", "queued"} THEN "verifying" ELSE @,
             !.loop = IF @ = "repairing" /\ ~h.mr THEN "verifying" ELSE @],
        Call(IF h.mr THEN "check" ELSE "sync", epoch, owner, {}, h.stalled))

\* tryDeliver: one delivery at a time; a second one returns at once.
tryDeliver(h, epoch, owner) ==
    IF h.deliveryActive \/ ~Current(h, epoch)
    THEN AfterDelivery(h, epoch, owner)
    ELSE performDelivery(h, epoch, owner)

\* pollPipeline: one listener, for one commit and one epoch.
pollPipeline(h, epoch) ==
    IF ~h.mr THEN IF h.status = "verifying" THEN tryDeliver(h, epoch, "call")
                                            ELSE h
    ELSE [h EXCEPT !.poll = [sha |-> h.sha, epoch |-> epoch]]

\* Call c returns to the one that awaits it.
Return(h, c) ==
    LET g == Drop(h, c) IN
    CASE c.owner \in {"turn", "recovery", "call"} ->
           AfterDelivery([g EXCEPT !.deliveryActive = FALSE], c.epoch, c.owner)
      [] c.owner = "poll" ->
           [g EXCEPT !.poll = IF @ = [sha |-> c.sha, epoch |-> c.epoch]
                              THEN None ELSE @]
      [] c.owner = "watch" -> [g EXCEPT !.watch = "wait"]
      [] c.owner = "merged" -> [g EXCEPT !.watch = "off"]
      [] OTHER -> g

\* Call c goes on to its next await.
Go(h, c, kind, sha, how) ==
    Add(Drop(h, c), [c EXCEPT !.kind = kind, !.sha = sha, !.how = how,
                              !.mark = kind = "artifacts"])

pipelineVerdict(h, c, status) ==
    IF Current(h, c.epoch) /\ h.sha = c.sha
    THEN Go(h, c, "verdict", c.sha, status) ELSE Return(h, c)

\* Verdicts come from a poll, a delivery or a refresh.
handlePipelineRed(h, c) ==
    Go([h EXCEPT !.status = "verifying", !.closed = FALSE], c, "red", c.sha, None)

\* The budget is the one the repair loop was opened with.
Exhausted(h) == h.loop # None /\ h.max # None /\ h.round >= h.max

dispatchCiRepair(h, c) ==
    IF ~Current(h, c.epoch) \/ h.sha # c.sha THEN Return(h, c)
    ELSE IF Exhausted(h)
    THEN Return([h EXCEPT !.loop = "exhausted", !.pipeline = "failed"], c)
    ELSE Go(h, c, "artifacts", c.sha, None)

\* applyMergeState up to its first await.  It takes the task from everyone.
applyMergeState(h, c, state) ==
    LET taken(g) == Add(Drop([g EXCEPT !.controlEpoch = @ + 1,
                                       !.stopping = g.driver], c),
                        [c EXCEPT !.kind = "settle", !.how = state,
                                  !.mark = TRUE])
    IN  CASE state = "merged" ->
               taken([h EXCEPT !.status = "verifying", !.stalled = FALSE])
          [] state = "closed" /\ h.status \in {"running", "queued", "verifying"} ->
               taken([h EXCEPT !.status = "await_merge", !.loop = "closed",
                               !.closed = TRUE])
          [] OTHER -> Return([h EXCEPT !.closed = TRUE], c)

Settling(h) == \E c \in h.calls : c.kind = "settle" /\ c.mark

settleMergeState(h, c, state) ==
    IF Settling(h) THEN Go(h, c, "settle", c.sha, state)
    ELSE IF h.status = "completed" THEN Return(h, c)
    ELSE applyMergeState(h, c, state)

Idle == UNCHANGED <<head, site, attested, left>>

Happened == {e \in Event : left[e] < Bounds[e]}

Happens(event) ==
    /\ left[event] > 0 /\ Cardinality(Happened \cup {event}) <= MaxEvents
    /\ left' = [left EXCEPT ![event] = @ - 1]
---------------------------------------------------------------------------
(* The agent.                                                              *)

\* The pump launches a session.
Launch ==
    /\ host.status = "queued" /\ host.driver = None
    /\ host' = Add([host EXCEPT !.status = "running", !.driver = host.controlEpoch],
                   Call("turn", host.controlEpoch, None, {}, None))
    /\ Idle

\* Until it is stopped the session may commit.
Commits ==
    /\ host.driver # None
    /\ \E x \in Change \ (head \cup site.branch) : head' = head \cup {x}
    /\ UNCHANGED <<host, site, attested, left>>

\* The turn is over and the host takes the delivery, unless the session was
\* overtaken.
TurnEnds(c) ==
    /\ c.kind = "turn"
    /\ \/ ~Current(host, c.epoch) /\ host' = Drop(host, c)
       \/ /\ Current(host, c.epoch) /\ head # {}
          /\ host' = tryDeliver([Drop(host, c) EXCEPT !.driver = None],
                                c.epoch, "turn")
    /\ Idle

---------------------------------------------------------------------------
(* performDelivery.                                                        *)

\* catch: try again within the budget, or call somebody at once.
Failed(h, c) ==
    IF ~Current(h, c.epoch) THEN {Return(h, c)}
    ELSE {Return(holdWithRecovery(h, c.epoch), c)}
         \cup IF "contract" \in Faults
              THEN {Return(markVerificationStalled(h), c)} ELSE {}

\* MUTANT: the result of the commit before is kept.
projectPushReceipt_KeepsResult(h, sha) ==
    IF h.sha = sha THEN Replaced(h)
    ELSE [NoDeadline(Replaced(h)) EXCEPT !.sha = sha, !.gap = None]

\* MUTANT: each push gets a new budget.
projectPushReceipt_NewBudget(h, sha) ==
    IF h.sha = sha THEN NoDeadline(Replaced(h))
    ELSE [NoDeadline(Replaced(h)) EXCEPT
             !.sha = sha, !.pipeline = None, !.gap = None]

\* The commit is on the remote branch, and known to be.  A stale call still
\* records that, and nothing else.
projectPushReceipt(h, sha) ==
    IF h.sha = sha THEN Replaced(h)
    ELSE [NoDeadline(Replaced(h)) EXCEPT
             !.sha = sha, !.pipeline = None, !.gap = None]

\* How a run looks from outside.
Reported(run) == IF run = "mixed" THEN "success" ELSE run

\* After the push, or without one where the commit is already there: a known
\* result of the same commit is used again; only then a run is triggered.
Pushed(h, c, existing) ==
    LET g == projectPushReceipt(h, c.sha)
        was == IF existing /\ h.mr THEN h.pipeline ELSE None
    IN  CASE ~Current(g, c.epoch) -> Return(g, c)
          [] Current(g, c.epoch) /\ was \in {"success", "failed"} ->
               pipelineVerdict([g EXCEPT !.status = "verifying"], c, was)
          [] Current(g, c.epoch) /\ was \in {"running", "not_found", "unavailable"} ->
               Return(pollPipeline([g EXCEPT !.status = "verifying"], c.epoch), c)
          [] OTHER ->
               Go(g, c, "create", c.sha,
                  IF existing /\ h.pipeline # "retry" THEN "ask" ELSE "trigger")

\* existingMergeRequestAllowsDelivery: the request is found or looked at, and
\* what is on the branch is recorded.
Reconciled ==
    LET seen == IF host.mr \/ site.mr = "opened"
                THEN ensureMergeWatch([Replaced(host) EXCEPT !.mr = TRUE])
                ELSE host
    IN  IF site.branch = head THEN projectPushReceipt(seen, head) ELSE seen

\* Nothing of it counts when the call was overtaken, or the task stalled in a
\* new way meanwhile; a request that is merged or closed is settled instead.
Overtaken(c) == ~Current(host, c.epoch) \/ host.stalled # c.how

Ended == host.mr /\ site.mr \in {"merged", "closed"}

Proceeds(c) == ~Overtaken(c) /\ ~Ended

CheckEnds(c) ==
    \/ Overtaken(c) /\ host' = Return(host, c)
    \/ ~Overtaken(c) /\ Ended /\ host' = settleMergeState(host, c, site.mr)
    \/ /\ "query" \in Faults
       /\ IF host.stalled # c.how THEN host' = Return(host, c)
          ELSE host' \in Failed(host, c)

\* A repair that has ended is a result being verified.
enterRepairVerification(h) ==
    [h EXCEPT !.loop = IF @ = "repairing" THEN "verifying" ELSE @]

DeliverChecks(c) ==
    /\ c.kind = "check"
    /\ \/ CheckEnds(c)
       \/ /\ Proceeds(c)
          /\ LET h == Reconciled IN
             host' = Go(enterRepairVerification(h), c, "sync", {}, h.stalled)
    /\ Idle

\* The branch takes over what others pushed, or conflicts with it.
DeliverSyncs(c) ==
    /\ c.kind = "sync"
    /\ \/ /\ ~Current(host, c.epoch) /\ host' = Return(host, c)
          /\ head' \in {head, head \cup site.branch}
       \/ /\ Current(host, c.epoch)
          /\ head' = head \cup site.branch
          /\ host' = IF host.mr /\ host.sha = head'
                     THEN Pushed(Add(Drop(host, c), [c EXCEPT !.sha = head']),
                                 [c EXCEPT !.sha = head'], TRUE)
                     ELSE Go(host, c, "confirm", head', host.stalled)
       \/ /\ Current(host, c.epoch) /\ ~(site.branch \subseteq head)
          /\ host' = Return(enqueueRepair(host), c)
          /\ UNCHANGED head
       \/ /\ "push" \in Faults /\ host' \in Failed(host, c)
          /\ UNCHANGED head
    /\ UNCHANGED <<site, attested, left>>

\* Once more before the push; without a request, for the first time.
DeliverConfirms(c) ==
    /\ c.kind = "confirm"
    /\ \/ CheckEnds(c)
       \/ /\ Proceeds(c)
          /\ LET h == Reconciled IN
             host' = IF ~host.mr /\ h.sha = c.sha THEN Pushed(h, c, TRUE)
                     ELSE Go(h, c, "push", c.sha, None)
    /\ Idle

\* bound: it is not counted beyond what a violation needs
Counted(n) == IF n <= Bounds["retry"] + 1 THEN n + 1 ELSE n

\* A request takes effect on the platform.
Arrives(c) ==
    /\ c.kind \in {"push", "create", "trigger"} /\ ~c.mark
    /\ CASE c.kind = "push" ->
              site.branch \subseteq c.sha /\ site' = [site EXCEPT !.branch = c.sha]
         [] c.kind = "create" ->
              site' = [site EXCEPT !.mr = IF @ = "none" THEN "opened" ELSE @]
         [] OTHER ->
              site' = [site EXCEPT !.run[c.sha] = "running",
                                   !.triggers[c.sha] = Counted(@)]
    /\ host' = Add(Drop(host, c), [c EXCEPT !.mark = TRUE])
    /\ UNCHANGED <<head, attested, left>>

\* The push is accepted, or is no fast-forward and starts again, or fails.
DeliverPushes(c) ==
    /\ c.kind = "push"
    /\ \/ c.mark /\ host' = Pushed(host, c, FALSE)
       \/ /\ ~c.mark /\ ~(site.branch \subseteq c.sha)
          /\ host' = IF Current(host, c.epoch)
                     THEN Go(host, c, "sync", {}, host.stalled)
                     ELSE Return(host, c)
       \/ "push" \in Faults /\ host' \in Failed(host, c)
    /\ Idle

DeliverCreates(c) ==
    /\ c.kind = "create"
    /\ \/ /\ c.mark
          /\ host' = IF ~Current(host, c.epoch) THEN Return(host, c)
                     ELSE Go(ensureMergeWatch([Replaced(host) EXCEPT !.mr = TRUE]),
                             c, c.how, c.sha, None)
       \/ "push" \in Faults /\ host' \in Failed(host, c)
    /\ Idle

\* acceptPipelineRun, with projectPipelineRun
acceptPipelineRun(h, c, run) ==
    LET g == ensureMergeWatch([Replaced(h) EXCEPT
                 !.pipeline = run, !.status = "verifying", !.stalled = FALSE,
                 !.gap = None,
                 !.loop = IF h.round = 0 THEN @ ELSE "verifying"])
    IN  IF run \in {"success", "failed"} THEN pipelineVerdict(g, c, run)
        ELSE Return(pollPipeline(g, c.epoch), c)

\* MUTANT: the answer is not looked at.
DeliverAsks_Unread(c) ==
    /\ c.kind = "ask"
    /\ host' = IF Current(host, c.epoch) THEN Go(host, c, "trigger", c.sha, None)
               ELSE Return(host, c)
    /\ Idle

\* Is there a run already?  Each one costs.
DeliverAsks(c) ==
    /\ c.kind = "ask"
    /\ \/ host' = IF ~Current(host, c.epoch) THEN Return(host, c)
                  ELSE IF site.run[c.sha] = "none"
                  THEN Go(host, c, "trigger", c.sha, None)
                  ELSE acceptPipelineRun(host, c, Reported(site.run[c.sha]))
       \/ "query" \in Faults /\ host' \in Failed(host, c)
    /\ Idle

DeliverTriggers(c) ==
    /\ c.kind = "trigger"
    /\ \/ /\ c.mark
          /\ host' = IF ~Current(host, c.epoch) THEN Return(host, c)
                     ELSE acceptPipelineRun(
                         [NoDeadline(host) EXCEPT !.closed = FALSE],
                         c, Reported(site.run[c.sha]))
       \/ "push" \in Faults /\ host' \in Failed(host, c)
    /\ Idle

Deliver(c) ==
    \/ DeliverChecks(c) \/ DeliverSyncs(c) \/ DeliverConfirms(c)
    \/ DeliverPushes(c) \/ DeliverCreates(c) \/ DeliverAsks(c)
    \/ DeliverTriggers(c)

---------------------------------------------------------------------------
(* pipelineVerdict and what a red one leads to.                            *)

\* The kernel records a result for the HEAD it belongs to, or says why not.
Verdicts(c) ==
    (IF head # c.sha THEN {"STALE"}
     ELSE IF c.how = "failed" \/ site.run[c.sha] = "mixed" THEN {"RED"} ELSE {"PASS"})
    \cup IF "kernel" \in Faults THEN {"INCOMPLETE"} ELSE {}

Green(h, c) ==
    Return(ensureMergeWatch([h EXCEPT !.status = "await_merge", !.closed = FALSE,
                                      !.loop = IF @ = None THEN @ ELSE "green"]), c)

\* MUTANT: a pass counts for whatever is the commit by now.
Concluded_AnyHead(h, c, verdict) ==
    CASE verdict = "RED" -> handlePipelineRed([h EXCEPT !.pipeline = "failed"], c)
      [] OTHER -> Green(h, c)

Concluded(h, c, verdict) ==
    CASE verdict = "RED" \/ (c.how = "failed" /\ verdict # "STALE") ->
           handlePipelineRed([h EXCEPT !.pipeline = "failed"], c)
      [] verdict = "PASS" /\ c.how # "failed" -> Green(h, c)
      [] OTHER ->
           Return(schedulePipelineEvidenceRetry(
               [h EXCEPT !.status = "verifying", !.closed = FALSE],
               c.sha, c.epoch, verdict = "STALE"), c)

VerdictAnswers(c) ==
    /\ c.kind = "verdict"
    /\ \E verdict \in Verdicts(c) :
         /\ attested' = IF verdict = "PASS" THEN attested \cup {c.sha} ELSE attested
         /\ host' = IF ~Current(host, c.epoch) \/ host.sha # c.sha THEN Return(host, c)
                    ELSE Concluded(host, c, verdict)
    /\ UNCHANGED <<head, site, left>>

\* fetchGates: merged or closed meanwhile, or to be repaired.
RedLooks(c) ==
    /\ c.kind = "red"
    /\ \/ host' = IF ~Current(host, c.epoch) THEN Return(host, c)
                  ELSE IF site.mr \in {"merged", "closed"}
                  THEN settleMergeState(host, c, site.mr)
                  ELSE dispatchCiRepair(host, c)
       \/ "query" \in Faults /\ host' = dispatchCiRepair(host, c)
    /\ Idle

\* The failure reports are there, or none of them is.
ArtifactsArrive(c) ==
    /\ c.kind = "artifacts" /\ host.round <= MaxRound    \* bound
    /\ \/ host' = IF ~Current(host, c.epoch) \/ ~c.mark \/ host.sha # c.sha
                  THEN Return(host, c)
                  ELSE Return([host EXCEPT
                          !.round = @ + 1, !.loop = "repairing",
                          !.max = IF host.loop = None THEN MaxRound ELSE @,
                          !.gap = None, !.pipeline = "failed",
                          !.status = "queued"], c)
       \/ /\ "artifacts" \in Faults
          /\ Current(host, c.epoch) /\ c.mark /\ host.sha = c.sha
          /\ host' = Return(scheduleRepairEvidenceRetry(
                        [host EXCEPT !.pipeline = "failed",
                             !.gap = IF @ \in {"late", "waiting_human"}
                                     THEN "waiting_human" ELSE "retrying"],
                        c.sha, c.epoch), c)
    /\ Idle

---------------------------------------------------------------------------
(* The poll and the timers.                                                *)

PollCurrent ==
    /\ host.sha = host.poll.sha /\ Current(host, host.poll.epoch) /\ host.mr
    /\ host.status = "verifying" /\ ~host.stalled

PollBusy == \E c \in host.calls : c.owner = "poll"

PollEnds ==
    /\ host.poll # None /\ ~PollBusy /\ ~PollCurrent
    /\ host' = [host EXCEPT !.poll = None]
    /\ Idle

\* waitingForRun: no run yet is waited for within the budget.
waitingForRun(h) ==
    IF h.verify_deadline = "past"
    THEN [markVerificationStalled(h) EXCEPT !.poll = None]
    ELSE OpenDeadline(h)

PollAnswers ==
    /\ host.poll # None /\ ~PollBusy /\ PollCurrent
    /\ LET run == Reported(site.run[host.poll.sha])
           seen(status) == [Replaced(host) EXCEPT !.pipeline = status]
           c == Call("verdict", host.poll.epoch, "poll", host.poll.sha, run)
       IN
       \/ run = "none" /\ host' = waitingForRun(seen("not_found"))
       \/ run = "running" /\ host' = NoDeadline(seen(run))
       \/ run \in {"success", "failed"} /\ host' = Add(NoDeadline(seen(run)), c)
       \/ "query" \in Faults /\ host' = waitingForRun(seen("unavailable"))
    /\ Idle

RecoveryFires ==
    /\ host.recovery # None
    /\ LET epoch == host.recovery
           h == [host EXCEPT !.recovery = None]
       IN  host' = IF ~recoveryStillNeeded(h, epoch) THEN h
                   ELSE IF h.verify_deadline = "past" THEN markVerificationStalled(h)
                   ELSE tryDeliver(OpenDeadline(h), epoch, "recovery")
    /\ Idle

LimitFires ==
    /\ host.limit # None /\ host.verify_deadline = "past"
    /\ LET h == [host EXCEPT !.limit = None] IN
       host' = IF /\ Current(h, host.limit) /\ h.status = "verifying"
                  /\ ~h.stalled /\ h.pipeline # "running"
               THEN markVerificationStalled(h) ELSE h
    /\ Idle

evidenceRetryStillValid(e) ==
    /\ Current(host, e.epoch) /\ host.status = "verifying" /\ host.sha = e.sha
    /\ host.pipeline = "success" \/ (e.stale /\ host.pipeline = "failed")

EvidenceFires ==
    /\ host.evidence # None
    /\ LET e == host.evidence
           h == [host EXCEPT !.evidence = None]
       IN  host' = CASE ~evidenceRetryStillValid(e) -> h
                     [] evidenceRetryStillValid(e) /\ e.stale ->
                          tryDeliver(h, e.epoch, "call")
                     [] OTHER -> Add(h, Call("refresh", e.epoch, None, e.sha, None))
    /\ Idle

\* retryPipelineEvidence: only an existing run is looked at.
RefreshAnswers(c) ==
    /\ c.kind = "refresh"
    /\ LET run == Reported(site.run[c.sha]) IN
       \/ host' = CASE ~Current(host, c.epoch) \/ host.status # "verifying" -> Drop(host, c)
                    [] OTHER ->
                         IF run = "running"
                         THEN pollPipeline(Drop([Replaced(host) EXCEPT !.pipeline = run], c),
                                           c.epoch)
                         ELSE IF run = "none" THEN pipelineVerdict(host, c, "success")
                         ELSE pipelineVerdict([Replaced(host) EXCEPT !.pipeline = run], c, run)
       \/ "query" \in Faults /\ host' = pipelineVerdict(host, c, "success")
    /\ Idle

RepairFires ==
    /\ host.repair # None
    /\ LET e == host.repair
           h == [host EXCEPT !.repair = None]
       IN  host' = IF /\ Current(h, e.epoch) /\ h.status = "verifying" /\ h.sha = e.sha
                      /\ h.pipeline = "failed" /\ h.loop # "repairing"
                   THEN dispatchCiRepair(h, Call("red", e.epoch, None, e.sha, None))
                   ELSE h
    /\ Idle

\* Time passes: a budget of half an hour is used up.
Expire ==
    /\ \/ /\ host.verify_deadline = "open"
          /\ host' = [host EXCEPT !.verify_deadline = "past"]
       \/ /\ host.gap = "retrying"
          /\ host' = [host EXCEPT !.gap = "late"]
    /\ Idle

---------------------------------------------------------------------------
(* The merge request is merged or closed, and the watcher sees it.         *)

\* MUTANT: any merge will do.
Included_Unchecked == TRUE

\* All that was committed here is in what was merged.
Included == head \subseteq site.merged

\* stopMrExecution has returned: the session it found is stopped.  Merged,
\* the task is complete if the merge holds all that was committed here.
SettleEnds(c) ==
    /\ c.kind = "settle" /\ c.mark
    /\ LET idle == [host EXCEPT !.stopping = None]
           stopped == [idle EXCEPT !.driver = IF @ = host.stopping THEN None ELSE @]
       IN
       \/ /\ c.how = "merged"
          /\ host' = IF Included
                     THEN Return([NoDeadline(stopped) EXCEPT
                              !.status = "completed", !.stalled = FALSE,
                              !.loop = IF @ = None THEN @ ELSE "merged"], c)
                     ELSE Return(markVerificationStalled(stopped), c)
       \/ /\ c.how = "merged" /\ "query" \in Faults
          /\ host' = Return(markVerificationStalled(stopped), c)
       \/ /\ c.how = "merged" /\ "stop" \in Faults
          /\ host' = Return(markVerificationStalled(idle), c)
       \/ /\ c.how = "closed"
          /\ host' = Return(stopped, c)
       \/ /\ c.how = "closed" /\ "stop" \in Faults
          /\ host' = Return(IF host.status # "await_merge" THEN idle
                            ELSE [idle EXCEPT !.status = "failed", !.loop = "halted"], c)
    /\ Idle

\* Another settlement was under way.
SettleBegins(c) ==
    /\ c.kind = "settle" /\ ~c.mark /\ ~Settling(host)
    /\ host' = IF host.status = "completed" THEN Return(host, c)
               ELSE applyMergeState(host, c, c.how)
    /\ Idle

\* watchMerge, for the life of the task and in every epoch of it.
WatchLooks ==
    /\ host.watch = "wait"
    /\ LET call(owner) == Call("settle", host.controlEpoch, owner, {}, None)
           busy == [host EXCEPT !.watch = "busy"]
           resume == host.closed /\ host.status = "await_merge" /\ host.loop = "closed"
       IN  host' =
             CASE host.status = "completed" -> [host EXCEPT !.watch = "off"]
               [] host.status # "completed" /\ site.mr = "merged" ->
                    settleMergeState(busy, call("merged"), "merged")
               [] host.status # "completed" /\ site.mr = "closed" ->
                    settleMergeState(busy, call("watch"), "closed")
               [] OTHER ->
                    IF resume
                    THEN enqueueRepair([host EXCEPT !.closed = FALSE, !.loop = "halted"])
                    ELSE [host EXCEPT !.closed = FALSE, !.watch = "act",
                              !.view = [sha |-> site.branch,
                                        red |-> site.run[site.branch] = "failed"]]
    /\ Idle

\* After the query for the discussions it looks at the status again.
WatchActs ==
    /\ host.watch = "act"
    /\ LET view == host.view
           wait == [host EXCEPT !.watch = "wait", !.view = None]
       IN  host' = CASE host.status # "await_merge" -> wait
                     [] host.status = "await_merge" /\ view.sha # host.sha ->
                          markVerificationStalled(wait)
                     [] OTHER ->
                          IF view.red
                          THEN dispatchCiRepair([wait EXCEPT !.watch = "busy"],
                                   Call("red", host.controlEpoch, "watch", host.sha, None))
                          ELSE wait
    /\ Idle

---------------------------------------------------------------------------
(* What users ask for.                                                     *)

Taken == [host EXCEPT !.controlEpoch = @ + 1]

Pause ==
    /\ host.status \in {"verifying", "queued"} /\ host.driver = None
    /\ Happens("pause")
    /\ host' = [Taken EXCEPT !.status = "paused", !.from = host.status]
    /\ UNCHANGED <<head, site, attested>>

Resume ==
    /\ host.status = "paused"
    /\ host' = IF host.from = "verifying" /\ host.sha # None
               THEN pollPipeline([Taken EXCEPT !.status = "verifying", !.from = None],
                                 host.controlEpoch + 1)
               ELSE [Taken EXCEPT !.status = "queued", !.from = None]
    /\ Idle

\* A new request of the owner goes to a session.
Interrupt ==
    /\ host.status \in {"verifying", "await_merge", "failed"} /\ host.driver = None
    /\ Happens("interrupt")
    /\ host' = enqueueRepair(Taken)
    /\ UNCHANGED <<head, site, attested>>

\* retry of a verification that has stopped.
Retry ==
    /\ host.status = "verifying" /\ host.driver = None
    /\ Stopped(host) \/ host.gap = "waiting_human"
    /\ Happens("retry")
    /\ LET lifted == [NoDeadline(Replaced(host)) EXCEPT !.pipeline = "retry", !.stalled = FALSE]
           again == Call("red", host.controlEpoch, None, host.sha, None)
       IN  host' =
             IF host.gap = "waiting_human"
             THEN dispatchCiRepair([host EXCEPT !.gap = "retrying", !.pipeline = "failed"], again)
             ELSE IF host.stalled /\ host.gap = None
             THEN tryDeliver(lifted, host.controlEpoch, "call")
             ELSE [lifted EXCEPT !.loop = None, !.round = 0, !.max = None,
                                 !.gap = None, !.status = "queued"]
    /\ UNCHANGED <<head, site, attested>>

---------------------------------------------------------------------------
(* The platform and the people on it.                                      *)

PipelineEnds ==
    /\ \E s \in Commit, outcome \in Outcomes :
         /\ site.run[s] = "running"
         /\ site' = [site EXCEPT !.run[s] = outcome,
                                 !.red = IF outcome = "success" THEN @ ELSE @ \cup {s}]
    /\ UNCHANGED <<host, head, attested, left>>

Rerun ==
    /\ site.mr = "opened" /\ site.run[site.branch] \in {"success", "failed", "mixed"}
    /\ Happens("rerun")
    /\ site' = [site EXCEPT !.run[site.branch] = "running"]
    /\ UNCHANGED <<host, head, attested>>

Merge ==
    /\ site.mr = "opened"
    /\ site' = [site EXCEPT !.mr = "merged", !.merged = site.branch]
    /\ UNCHANGED <<host, head, attested, left>>

Close ==
    /\ site.mr = "opened" /\ Happens("close")
    /\ site' = [site EXCEPT !.mr = "closed"]
    /\ UNCHANGED <<host, head, attested>>

Reopen ==
    /\ site.mr = "closed"
    /\ site' = [site EXCEPT !.mr = "opened"]
    /\ UNCHANGED <<host, head, attested, left>>

ForeignPush ==
    /\ site.branch # {} /\ site.mr # "merged" /\ Happens("foreign")
    /\ \E x \in Change \ (head \cup site.branch) :
         site' = [site EXCEPT !.branch = @ \cup {x}]
    /\ UNCHANGED <<host, head, attested>>

---------------------------------------------------------------------------
(* The process dies and starts again: calls, timers and sessions are gone. *)

recover(h) ==
    LET call(kind, how) == Add(h, Call(kind, 0, None, h.sha, how)) IN
    CASE h.status \in {"running", "queued"} -> [h EXCEPT !.status = "queued"]
      [] h.status = "verifying" /\ ~h.mr /\ ~h.stalled -> tryDeliver(h, 0, "call")
      [] h.status = "verifying" /\ (h.mr \/ h.stalled) ->
           IF h.gap # None
           THEN dispatchCiRepair(h, Call("red", 0, None, h.sha, None))
           ELSE IF ~h.stalled /\ h.pipeline \in {"running", "not_found", "unavailable"}
           THEN pollPipeline(h, 0)
           ELSE IF h.pipeline = "success" THEN call("verdict", "success")
           ELSE IF ~h.stalled THEN tryDeliver(h, 0, "call") ELSE h
      [] OTHER -> h

Restarted ==
    recover([host EXCEPT
        !.controlEpoch = 0, !.driver = None, !.stopping = None,
        !.deliveryActive = FALSE, !.calls = {}, !.poll = None, !.recovery = None,
        !.limit = None, !.evidence = None, !.repair = None,
        !.watch = "off", !.view = None])

\* MUTANT: the requests known before are not watched any more.
Crash_Unwatched ==
    /\ host.status # "completed" /\ Happens("crash")
    /\ host' = Restarted
    /\ UNCHANGED <<head, site, attested>>

Crash ==
    /\ host.status # "completed" /\ Happens("crash")
    /\ host' = ensureMergeWatch(Restarted)
    /\ UNCHANGED <<head, site, attested>>

---------------------------------------------------------------------------
Init ==
    /\ host = [status |-> "queued", controlEpoch |-> 0, driver |-> None, stopping |-> None,
               from |-> None, sha |-> None, mr |-> FALSE, pipeline |-> None,
               stalled |-> FALSE, verify_deadline |-> "none", loop |-> None,
               round |-> 0, max |-> None, gap |-> None, closed |-> FALSE,
               deliveryActive |-> FALSE, poll |-> None, recovery |-> None,
               limit |-> None, evidence |-> None, repair |-> None,
               watch |-> "off", view |-> None, calls |-> {}]
    /\ head = {}
    /\ site = [branch |-> {}, mr |-> "none", merged |-> {},
               run |-> [s \in Commit |-> "none"], triggers |-> [s \in Commit |-> 0],
               red |-> {}]
    /\ attested = {}
    /\ left = Bounds

Answers(c) ==
    \/ TurnEnds(c) \/ Deliver(c) \/ VerdictAnswers(c) \/ RedLooks(c)
    \/ ArtifactsArrive(c) \/ RefreshAnswers(c) \/ SettleEnds(c) \/ SettleBegins(c)

Timers ==
    PollEnds \/ PollAnswers \/ RecoveryFires \/ LimitFires \/ EvidenceFires \/ RepairFires

Users == Pause \/ Resume \/ Interrupt \/ Retry

Platform == PipelineEnds \/ Rerun \/ Merge \/ Close \/ Reopen \/ ForeignPush

Next ==
    \/ Launch \/ Commits
    \/ \E c \in host.calls : Arrives(c) \/ Answers(c)
    \/ Timers \/ Expire \/ WatchLooks \/ WatchActs
    \/ Users \/ Platform \/ Crash

Spec == Init /\ [][Next]_vars

Kinds == {"turn", "check", "sync", "confirm", "push", "create", "ask", "trigger",
          "verdict", "red", "artifacts", "refresh", "settle"}

\* The event loop gets to every answer and every timer, requests are answered
\* or fail, the agent commits something and ends its turn, and the platform
\* ends its runs.  Nobody need merge, reopen, retry or resume.
Fairness ==
    /\ \A kind \in Kinds :
         WF_vars(\E c \in host.calls : c.kind = kind /\ (Arrives(c) \/ Answers(c)))
    /\ WF_vars(Launch) /\ WF_vars(head = {} /\ Commits)
    /\ WF_vars(PollEnds) /\ WF_vars(PollAnswers)
    /\ WF_vars(RecoveryFires) /\ WF_vars(LimitFires)
    /\ WF_vars(EvidenceFires) /\ WF_vars(RepairFires) /\ WF_vars(Expire)
    /\ WF_vars(WatchLooks) /\ WF_vars(WatchActs) /\ WF_vars(PipelineEnds)

FairSpec == Spec /\ Fairness

---------------------------------------------------------------------------
TypeOK ==
    /\ host.status \in {"queued", "running", "verifying", "await_merge", "paused",
                        "failed", "completed"}
    /\ host.controlEpoch \in Nat
    /\ host.sha \in Commit \cup {None}
    /\ host.round \in 0 .. MaxRound + 1
    /\ host.watch # "off" => host.mr
    /\ host.deliveryActive <=>
         \E c \in host.calls : c.owner \in {"turn", "recovery", "call"}
    /\ head \in Commit /\ site.branch \in Commit /\ attested \subseteq Commit

\* Each run costs: whatever is lost, repeated or restarted, a commit gets one
\* pipeline as long as nobody asks for another.
OneTriggerPerCommit ==
    "retry" \notin Happened => \A s \in Commit : site.triggers[s] <= 1

\* And one more for each time that somebody asks.
RetriesOnce ==
    \A s \in Commit : site.triggers[s] <= 1 + Bounds["retry"] - left["retry"]

\* The task waits for the merge of a commit the kernel has not passed, and
\* no delivery is under way that would still verify it.
Unverified(h, passed) ==
    /\ h.status = "await_merge" /\ ~Stopped(h)
    /\ h.sha \notin passed /\ ~h.deliveryActive

\* A task comes to wait for the merge only of a commit the kernel passed,
\* unless a delivery of it is cut off.  The recovery timer and a retry may
\* start a delivery beside a poll, and it goes on to push after the verdict:
\* when the process dies then, or the request is closed, nobody verifies
\* what it pushed.
VerifiedBeforeMergeWait ==
    [][Unverified(host', attested') /\ ~Unverified(host, attested) =>
         host.deliveryActive /\ (host'.closed \/ left'["crash"] # left["crash"])]_vars

\* A task is completed when its request is merged with all it committed.
CompletedTruly ==
    [][host'.status = "completed" /\ host.status # "completed" =>
         site.mr = "merged" /\ head \subseteq site.merged]_vars

\* A round of the repair budget is spent on a commit that was red.
RepairsAreEarned ==
    [][host'.round > host.round =>
         host'.round = host.round + 1 /\ host.sha \in site.red]_vars

\* One red result leads to one repair: nobody starts a second one for a task
\* that is already queued for it, or at work.
OneRepairPerRed ==
    [][host'.round > host.round => host.status \in {"verifying", "await_merge"}]_vars

\* The kernel passes a commit only after a pipeline ran on it.  Does not hold:
\* a refresh of the evidence (retryPipelineEvidence) begun before a repair
\* writes its result to the record of the commit that repair pushed.
PassHasRun == \A s \in attested : site.run[s] # "none"

\* The budget of repairs is kept, however the loop came to be.
RoundsBudgeted == host.round <= MaxRound

\* While a task is paused no late answer, timer or watcher moves it: it only
\* goes on under a new epoch, or ends with its merge.
PausedStaysPut ==
    [][host.status = "paused" /\ host'.status # "paused" =>
         host'.controlEpoch # host.controlEpoch \/ site.mr = "merged"]_vars

\* Every wait has a budget: while the task says it is verifying there is a
\* call under way, or a poll or a timer of this epoch that will look again.
SomebodyWatches ==
    host.status = "verifying" /\ ~Stopped(host) /\ host.gap # "waiting_human" =>
        \/ host.calls # {}
        \/ host.poll # None /\ Current(host, host.poll.epoch)
        \/ host.recovery # None /\ Current(host, host.recovery)
        \/ host.limit # None /\ Current(host, host.limit)
        \/ host.evidence # None /\ Current(host, host.evidence.epoch)
        \/ host.repair # None /\ Current(host, host.repair.epoch)

\* Whatever fails and however often, a task does not verify for ever: it gets
\* to its merge, to its end, or to somebody who is called.
Settles ==
    []<>(\/ host.status \in {"await_merge", "completed", "paused"}
         \/ Stopped(host) \/ host.gap = "waiting_human")

\* A merge is noticed, whatever the task is doing, and ends it or is handed to
\* somebody.
MergeEndsIt == site.mr = "merged" ~> host.status = "completed" \/ Stopped(host)
=============================================================================
