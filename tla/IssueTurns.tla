----------------------------- MODULE IssueTurns -----------------------------
(***************************************************************************)
(* The turns of issue sessions (src/src/issueFlow/service.ts): who may     *)
(* start one, what it carries to the model, how it is settled, and what    *)
(* answers, messages, reviews, takeovers, merges, cancels, revivals and    *)
(* crashes do around it.                                                   *)
(*                                                                         *)
(* A call of runTurn is a member of `calls`; the code between two of its   *)
(* awaits is one step.  Its `pc` names the await it stands at:             *)
(*   "boot"    the container, the knowledge repository, outside commits    *)
(*   "open"    the creation of a model session, notices in hand            *)
(*   "model"   the model's answer                                          *)
(* `turn` is the token of the call that holds the session's place in       *)
(* `turning`, None if nobody does; it is also what counts against the      *)
(* budget of concurrent turns.  A token is a number no call is using.      *)
(***************************************************************************)
EXTENDS Naturals, FiniteSets, FiniteSetsExt

CONSTANTS
    Issue,              \* issue sessions, in the order they were created
    Notice,             \* messages of the platform and of reviewers
    MaxTurns,           \* issue_max_turns
    NudgeBudget,        \* NUDGE_BUDGET
    Operations,         \* what the users and agents of an instance do
    Steered,            \* the sessions they do it in
    MaxNotices,         \* bound: notices that arrive at one session
    MaxFaults,          \* bound: cancels and crashes of the service
    None

ASSUME IssueAssumption == Issue \subseteq Nat /\ IsFiniteSet(Issue)
ASSUME BoundAssumption == {MaxTurns, NudgeBudget, MaxNotices, MaxFaults} \subseteq Nat
ASSUME NoneAssumption == None \notin Nat

VARIABLES
    issue,      \* the sessions: issue.json, waiting.json and LiveIssue
    calls,      \* the calls of runTurn in flight
    cancels,    \* the cancels that wait for the session and the container
    owed,       \* history: notices parked and not yet given to the model
    faults      \* how many cancels and crashes there were

vars == <<issue, calls, cancels, owed, faults>>

Gate == {"confirm", "verify", "unfixable", "env"}
Terminal == {"archived", "canceled", "failed"}
Status == Terminal \cup {"queued", "running", "waiting_user", "idle"}
Body == {"first", "resume", "answer", "nudge", "late"}
Token == 1..(Cardinality(Issue) + 2)

CallsOf(i) == {f \in calls : f.issue = i}
CancelsOf(i) == {c \in cancels : c.issue = i}
Allowed(op, i) == op \in Operations /\ i \in Steered
May(op, i) == Allowed(op, i) /\ issue[i].status \notin Terminal
---------------------------------------------------------------------------
(* Beginning and ending a turn.                                            *)

Fresh(i, others) == Min(Token \ {f.token : f \in {g \in others : g.issue = i}})

Call(i, token, epoch, body) ==
    [issue |-> i, token |-> token, epoch |-> epoch, body |-> body,
     pc |-> "boot", hand |-> {}, opened |-> None]

Begun(rec, token) ==
    [rec EXCEPT !.status = "running", !.turn = token, !.nudges = 0]

\* The session record of i having become `rec`, a turn begins.
BeginTurn(i, rec, body) ==
    LET token == Fresh(i, calls) IN
    /\ issue' = [issue EXCEPT ![i] = Begun(rec, token)]
    /\ calls' = calls \cup {Call(i, token, rec.epoch, body)}

\* pump: the first queued sessions for which the budget leaves room.
Chosen(recs) ==
    LET waiting == {i \in Issue : recs[i].status = "queued" /\ recs[i].turn = None}
        busy == Cardinality({i \in Issue : recs[i].turn # None})
        room == IF busy < MaxTurns THEN MaxTurns - busy ELSE 0
    IN  {i \in waiting : Cardinality({j \in waiting : j < i}) < room}

Pumped(recs, others) ==
    LET start == Chosen(recs)  token == [i \in Issue |-> Fresh(i, others)] IN
    /\ issue' = [i \in Issue |->
                    IF i \in start
                    THEN Begun([recs[i] EXCEPT !.resumeMessage = FALSE], token[i])
                    ELSE recs[i]]
    /\ calls' = others \cup
            {Call(i, token[i], recs[i].epoch,
                  IF recs[i].resumeMessage THEN "resume" ELSE "first") : i \in start}

Unpumped(recs, others) == issue' = recs /\ calls' = others

\* MUTANT: the outer call gives the place away although its continuation
\* holds it.
EndTurnSlot_AnyToken(f, rec, others) ==
    Pumped([issue EXCEPT ![f.issue] = [rec EXCEPT !.turn = None]], others)

\* MUTANT: the place is free, and nobody looks who waits for it.
EndTurnSlot_NoPump(f, rec, others) ==
    IF rec.turn # f.token
    THEN Unpumped([issue EXCEPT ![f.issue] = rec], others)
    ELSE Unpumped([issue EXCEPT ![f.issue] = [rec EXCEPT !.turn = None]], others)

\* endTurnSlot: only the call that still holds the place releases it.
EndTurnSlot(f, rec, others) ==
    IF rec.turn # f.token
    THEN Unpumped([issue EXCEPT ![f.issue] = rec], others)
    ELSE Pumped([issue EXCEPT ![f.issue] = [rec EXCEPT !.turn = None]], others)

Return(f, rec) == EndTurnSlot(f, rec, calls \ {f})

Unowed == UNCHANGED owed
Undisturbed == UNCHANGED <<cancels, faults>>
---------------------------------------------------------------------------
(* The body of a turn.                                                     *)

ReleaseDriver(rec) ==
    [rec EXCEPT !.driver = FALSE, !.asks = FALSE, !.steers = {}]

\* MUTANT: what the call had taken is gone with it.
Restored_Dropped(rec, f) == rec

\* withParkedNotices gives back what it took.
Restored(rec, f) == [rec EXCEPT !.parked = @ \cup f.hand]

\* The catch of runTurn.
Thrown(f, rec, infra) ==
    CASE rec.epoch # f.epoch -> rec
      [] rec.epoch = f.epoch /\ rec.gate # None ->
            [rec EXCEPT !.status = "waiting_user"]
      [] rec.epoch = f.epoch /\ rec.gate = None /\ rec.takeover -> rec
      [] OTHER -> IF infra THEN [rec EXCEPT !.status = "idle"]
                  ELSE ReleaseDriver([rec EXCEPT !.status = "failed"])

\* The container, the session or the repository is not to be had, or the
\* call finds that it was revoked.
Throws(f) ==
    /\ f.pc \in {"boot", "open"}
    /\ \E infra \in BOOLEAN :
         Return(f, Thrown(f, Restored(issue[f.issue], f), infra))
    /\ Unowed /\ Undisturbed

Goes(f, rec, pc, hand, opened) ==
    /\ issue' = [issue EXCEPT ![f.issue] = rec]
    /\ calls' = (calls \ {f})
                  \cup {[f EXCEPT !.pc = pc, !.hand = hand, !.opened = opened]}

\* The message and the notices reach the model.
Tells(f, rec, notices) ==
    /\ Goes(f, rec, "model", {}, None)
    /\ owed' = [owed EXCEPT ![f.issue] = @ \ notices]

\* The container is there.  A later turn takes the notices now, a first one
\* when it has opened its session.
Boots(f) ==
    LET rec == issue[f.issue]
        hand == IF f.body = "first" THEN {} ELSE rec.parked
        taken == [rec EXCEPT !.parked = @ \ hand]
    IN  /\ f.pc = "boot" /\ f.body \in {"first", "resume", "answer"}
        /\ CASE ~rec.driver ->
                  /\ rec.status \notin Terminal
                  /\ Goes(f, taken, "open", hand, rec.epoch) /\ Unowed
             [] rec.driver /\ f.body = "answer" /\ ~rec.asks ->
                  \* resumeWithDecision knows of no card.
                  Return(f, Thrown(f, rec, FALSE)) /\ Unowed
             [] OTHER ->
                  Tells(f, IF f.body = "answer" THEN [taken EXCEPT !.asks = FALSE]
                           ELSE taken, hand)
        /\ Undisturbed

\* openDriver compares with the epoch it began in, not with the turn's.
Opens(f) ==
    LET rec == issue[f.issue]
        last == IF f.body = "first" THEN rec.parked ELSE {}
    IN  /\ f.pc = "open" /\ rec.epoch = f.opened
        /\ Tells(f, [rec EXCEPT !.driver = TRUE, !.parked = @ \ last], f.hand \cup last)
        /\ Undisturbed
---------------------------------------------------------------------------
(* Settling.                                                               *)

\* MUTANT: each continuation is a turn of its own.
Continuation_NewTurn(f, rec, body, pc, given) ==
    LET token == Fresh(f.issue, calls)
        next == [Call(f.issue, token, f.epoch, body) EXCEPT !.pc = pc]
    IN  /\ EndTurnSlot(f, [Begun(rec, token) EXCEPT !.parked = @ \ given,
                                                    !.steers = @ \ given],
                       (calls \ {f}) \cup {next})
        /\ owed' = [owed EXCEPT ![f.issue] = @ \ given]

\* beginContinuationTurn, and the end of the call that begins it: the
\* place changes hands.
Continuation(f, rec, body, pc, given) ==
    LET token == Fresh(f.issue, calls)
        next == [Call(f.issue, token, f.epoch, body) EXCEPT !.pc = pc]
    IN  /\ EndTurnSlot(f, [rec EXCEPT !.status = "running", !.turn = token,
                                      !.parked = @ \ given, !.steers = @ \ given],
                       (calls \ {f}) \cup {next})
        /\ owed' = [owed EXCEPT ![f.issue] = @ \ given]

\* settle() of a turn the model has finished; `early` if its stage is not.
Finished(f, rec, early) ==
    LET late == rec.steers \cup rec.parked
        Settled(status) == Return(f, [rec EXCEPT !.status = status]) /\ Unowed
    IN  CASE rec.gate # None -> Settled("waiting_user")
          [] rec.gate = None /\ rec.driver /\ late # {} ->
                Continuation(f, rec, "late", "model", late)
          [] rec.gate = None /\ rec.driver /\ late = {} /\ early
                /\ rec.nudges < NudgeBudget ->
                Continuation(f, [rec EXCEPT !.nudges = @ + 1], "nudge", "boot", {})
          [] OTHER -> Settled("idle")

\* A call that was revoked, or whose session a person drives, writes
\* nothing.
Ignored(f) ==
    issue[f.issue].epoch # f.epoch \/ issue[f.issue].takeover

\* shouldNudgeFixed: the agent stops where its stage does not.
Early(f) == IF Allowed("nudge", f.issue) THEN BOOLEAN ELSE {FALSE}

EndsIgnored(f) ==
    /\ f.pc = "model" /\ Ignored(f)
    /\ Return(f, issue[f.issue]) /\ Unowed /\ Undisturbed

EndsFinished(f) ==
    /\ f.pc = "model" /\ ~Ignored(f)
    /\ \E early \in Early(f) : Finished(f, issue[f.issue], early)
    /\ Undisturbed

\* A nudge finds its session still there, or gone.
Nudges(f) ==
    LET rec == issue[f.issue] IN
    /\ f.pc = "boot" /\ f.body = "nudge"
    /\ IF rec.driver THEN Goes(f, rec, "model", {}, None) /\ Unowed
       ELSE IF Ignored(f) THEN Return(f, rec) /\ Unowed
       ELSE \E early \in Early(f) : Finished(f, rec, early)
    /\ Undisturbed

\* The model raises a card and waits at it; one card at a time.
EndsAsking(f) ==
    LET rec == [issue[f.issue] EXCEPT !.card = TRUE, !.asks = TRUE] IN
    /\ f.pc = "model" /\ Allowed("decide", f.issue)
    /\ issue[f.issue].driver /\ ~issue[f.issue].card
    /\ Return(f, IF Ignored(f) THEN rec ELSE [rec EXCEPT !.status = "waiting_user"])
    /\ Unowed /\ Undisturbed

\* The session broke, in a way a message may mend or for good.
EndsBroken(f) ==
    LET rec == issue[f.issue] IN
    /\ f.pc = "model" /\ ~Ignored(f)
    /\ \/ Return(f, [rec EXCEPT !.status = "idle"])
       \/ Return(f, ReleaseDriver([rec EXCEPT !.status = "failed"]))
    /\ Unowed /\ Undisturbed

\* A tool of the agent raises a platform gate, or takes it away.
ToolGates(f) ==
    /\ f.pc = "model" /\ Allowed("gate", f.issue)
    /\ \E gate \in Gate \cup {None} :
         /\ gate # issue[f.issue].gate
         /\ issue' = [issue EXCEPT ![f.issue].gate = gate]
    /\ UNCHANGED calls /\ Unowed /\ Undisturbed
---------------------------------------------------------------------------
(* Messages of the platform.                                               *)

Idle(i) == issue[i].turn = None

Arrives(i, n) ==
    issue[i].notices < MaxNotices /\ n \notin issue[i].steers \cup issue[i].parked

Parks(i, rec, n) ==
    /\ issue' = [issue EXCEPT ![i] = [rec EXCEPT !.parked = @ \cup {n}]]
    /\ owed' = [owed EXCEPT ![i] = @ \cup {n}]
    /\ UNCHANGED calls

\* The running session takes the message, or it is parked after all.
Steers(i, rec, n) ==
    \/ /\ issue' = [issue EXCEPT ![i] = [rec EXCEPT !.steers = @ \cup {n}]]
       /\ UNCHANGED calls /\ Unowed
    \/ Parks(i, rec, n)

Counted(rec) == [rec EXCEPT !.notices = @ + 1]

\* startPlatformTurn, the session record having become `rec`: into the turn
\* that runs, to the parked notices, or as a turn of its own.
StartPlatformTurn(i, rec, n) ==
    CASE /\ rec.turn # None /\ rec.driver /\ ~rec.takeover
         /\ rec.status \notin Terminal \cup {"waiting_user"} ->
           Steers(i, Counted(rec), n)
      [] /\ rec.turn = None /\ ~rec.takeover
         /\ rec.status \notin Terminal \cup {"waiting_user", "queued"} ->
           BeginTurn(i, Counted(rec), "resume") /\ Unowed
      [] OTHER -> Parks(i, Counted(rec), n)

\* A pipeline result, an upgrade, a request for logs.
PlatformNotice(i, n) ==
    /\ Allowed("notice", i) /\ Arrives(i, n)
    /\ StartPlatformTurn(i, issue[i], n) /\ Undisturbed

\* The owner's addition to a running turn.
Steer(i, n) ==
    /\ Allowed("notice", i) /\ Arrives(i, n)
    /\ issue[i].status = "running" /\ issue[i].driver
    /\ Steers(i, Counted(issue[i]), n) /\ Undisturbed

\* attachEnvironment and declineEnvironment.
Environment(i, n) ==
    LET rec == issue[i] IN
    /\ Allowed("gate", i) /\ rec.gate = "env" /\ Arrives(i, n)
    /\ StartPlatformTurn(i, [rec EXCEPT !.gate = None,
                                        !.status = IF @ = "waiting_user"
                                                   THEN "idle" ELSE @], n)
    /\ Undisturbed

\* submitReviews withdraws the agent's card, replyToReview leaves it; a
\* platform gate stays, and does not keep the review waiting.
Review(i, n) ==
    LET rec == issue[i] IN
    /\ May("review", i) /\ ~rec.takeover /\ Arrives(i, n)
    /\ \E withdraws \in BOOLEAN :
         LET next == IF withdraws THEN [rec EXCEPT !.card = FALSE] ELSE rec IN
         IF Idle(i) /\ \/ rec.status = "waiting_user" /\ rec.gate # None
                       \/ withdraws /\ rec.card
         THEN BeginTurn(i, Counted(next), "resume") /\ Unowed
         ELSE StartPlatformTurn(i, next, n)
    /\ Undisturbed

\* dismissStaleGate: a new commit or a red pipeline contradicts the card.
DismissStaleGate(i) ==
    LET rec == issue[i] IN
    /\ May("gate", i) /\ rec.gate \in {"verify", "unfixable"}
    /\ issue' = [issue EXCEPT ![i] =
            [rec EXCEPT !.gate = None, !.card = FALSE,
                        !.status = IF @ = "waiting_user" THEN "idle" ELSE @]]
    /\ UNCHANGED calls /\ Unowed /\ Undisturbed
---------------------------------------------------------------------------
(* The owner.                                                              *)

Archived(rec) ==
    ReleaseDriver([rec EXCEPT !.status = "archived", !.gate = None, !.card = FALSE])

\* resolveGate: the answer sends the agent on, or is a remark that leaves
\* the card, or has the platform watch again (unless all is merged by now),
\* or closes the session.
AnswerGate(i) ==
    LET rec == issue[i]  cleared == [rec EXCEPT !.gate = None] IN
    /\ May("gate", i) /\ rec.status = "waiting_user" /\ Idle(i)
    /\ rec.gate \in {"confirm", "verify", "unfixable"}
    /\ \/ BeginTurn(i, cleared, "resume")
       \/ rec.gate = "verify" /\ BeginTurn(i, rec, "resume")
       \/ /\ rec.gate = "unfixable"
          /\ issue' = [issue EXCEPT ![i] = [cleared EXCEPT !.status = "idle"]]
          /\ UNCHANGED calls
       \/ /\ rec.gate = "unfixable" /\ Allowed("merge", i)
          /\ issue' = [issue EXCEPT ![i] = Archived(rec)]
          /\ UNCHANGED calls
       \/ /\ rec.gate = "confirm"
          /\ issue' = [issue EXCEPT ![i] =
                  ReleaseDriver([cleared EXCEPT !.status = "archived"])]
          /\ UNCHANGED calls
    /\ Unowed /\ Undisturbed

\* answer, to a card of the agent: platform gates come first.
AnswerCard(i) ==
    LET rec == issue[i] IN
    /\ May("decide", i) /\ rec.status = "waiting_user" /\ Idle(i)
    /\ rec.gate = None /\ rec.card
    /\ BeginTurn(i, [rec EXCEPT !.card = FALSE], "answer")
    /\ Unowed /\ Undisturbed

\* reply.  It does not ask whether a person has taken the session over.
Reply(i) ==
    /\ May("reply", i) /\ issue[i].status = "idle" /\ Idle(i)
    /\ BeginTurn(i, issue[i], "resume") /\ Unowed /\ Undisturbed

\* takeover: the turn is aborted and ends on its own.
Takeover(i) ==
    LET rec == issue[i] IN
    /\ May("takeover", i) /\ ~rec.takeover /\ rec.status # "waiting_user"
    /\ issue' = [issue EXCEPT ![i] =
            [rec EXCEPT !.takeover = TRUE, !.status = "idle",
                        !.asks = IF rec.status = "running" THEN FALSE ELSE @]]
    /\ UNCHANGED calls /\ Unowed /\ Undisturbed

ResumeFromTakeover(i) ==
    /\ issue[i].takeover /\ issue[i].status # "running" /\ Idle(i)
    /\ BeginTurn(i, [issue[i] EXCEPT !.takeover = FALSE], "resume")
    /\ Unowed /\ Undisturbed

\* autoArchiveDelivered: the platform reports every merge request merged.
Merged(i) ==
    /\ May("merge", i) /\ Idle(i)
    /\ issue' = [issue EXCEPT ![i] = Archived(issue[i])]
    /\ UNCHANGED calls /\ Unowed /\ Undisturbed

\* reviveIssue
Revive(i) ==
    LET rec == issue[i] IN
    /\ Allowed("revive", i) /\ rec.status = "failed" /\ Idle(i)
    /\ BeginTurn(i, [rec EXCEPT !.card = FALSE], "resume")
    /\ Unowed /\ Undisturbed

\* control: revoke the turn and wait for the session and the container ...
Cancel(i) ==
    LET rec == issue[i] IN
    /\ Allowed("cancel", i) /\ faults < MaxFaults
    /\ rec.status \notin {"archived", "canceled"}
    /\ issue' = [issue EXCEPT ![i] =
            [rec EXCEPT !.epoch = @ + 1, !.takeover = FALSE, !.gate = None,
                        !.asks = FALSE]]
    /\ cancels' = cancels \cup
            {[issue |-> i, previous |-> rec.status, epoch |-> rec.epoch + 1]}
    /\ faults' = faults + 1
    /\ UNCHANGED calls /\ Unowed

\* ... which end,
CancelEnds(c) ==
    LET rec == issue[c.issue] IN
    /\ cancels' = cancels \ {c}
    /\ issue' = [issue EXCEPT ![c.issue] =
            ReleaseDriver([rec EXCEPT !.status = "canceled", !.gate = None,
                                      !.card = FALSE])]
    /\ UNCHANGED <<calls, faults>> /\ Unowed

\* ... or do not.
CancelFails(c) ==
    /\ cancels' = cancels \ {c}
    /\ issue' = [issue EXCEPT ![c.issue].status =
                    IF c.previous = "running" THEN "idle" ELSE @]
    /\ UNCHANGED <<calls, faults>> /\ Unowed
---------------------------------------------------------------------------
(* Crash and recovery.                                                     *)

\* What recover() makes of a session that was saved.
Recovered(rec) ==
    LET resuming == rec.status = "running"
        status == IF resuming THEN "queued" ELSE rec.status
    IN  [ReleaseDriver(rec) EXCEPT
            !.status = status, !.epoch = 0, !.turn = None,
            !.resumeMessage = resuming,
            !.card = IF status = "waiting_user" THEN @ ELSE FALSE]

\* Bound: not while a cancel is under way, which has written nothing yet.
Crash ==
    /\ faults < MaxFaults /\ cancels = {}
    /\ faults' = faults + 1
    /\ Pumped([i \in Issue |-> Recovered(issue[i])], {})
    /\ owed' = [i \in Issue |-> owed[i] \ UNION {f.hand : f \in CallsOf(i)}]
    /\ UNCHANGED cancels
---------------------------------------------------------------------------
NewIssue ==
    [status |-> "queued", epoch |-> 0, turn |-> None, takeover |-> FALSE,
     gate |-> None, card |-> FALSE, asks |-> FALSE, driver |-> FALSE,
     steers |-> {}, parked |-> {}, resumeMessage |-> FALSE, nudges |-> 0,
     notices |-> 0]

\* The sessions have just been registered; create() has pumped.
Init ==
    /\ LET recs == [i \in Issue |-> NewIssue]
           start == Chosen(recs)
       IN  /\ issue = [i \in Issue |->
                        IF i \in start THEN Begun(recs[i], 1) ELSE recs[i]]
           /\ calls = {Call(i, 1, 0, "first") : i \in start}
    /\ cancels = {} /\ owed = [i \in Issue |-> {}] /\ faults = 0

Advance(f) ==
    \/ Throws(f) \/ Boots(f) \/ Opens(f) \/ Nudges(f)
    \/ EndsIgnored(f) \/ EndsFinished(f) \/ EndsAsking(f) \/ EndsBroken(f)

Owner(i) ==
    \/ AnswerGate(i) \/ AnswerCard(i) \/ Reply(i) \/ Takeover(i)
    \/ ResumeFromTakeover(i) \/ Revive(i) \/ Cancel(i)

Platform(i, n) ==
    \/ PlatformNotice(i, n) \/ Steer(i, n) \/ Environment(i, n) \/ Review(i, n)

Next ==
    \/ \E f \in calls : Advance(f) \/ ToolGates(f)
    \/ \E i \in Issue : Owner(i) \/ DismissStaleGate(i) \/ Merged(i)
    \/ \E i \in Issue, n \in Notice : Platform(i, n)
    \/ \E c \in cancels : CancelEnds(c) \/ CancelFails(c)
    \/ Crash

Spec == Init /\ [][Next]_vars

\* Whatever a turn awaits comes back or fails.
Fairness ==
    \A i \in Issue : WF_vars(\E f \in calls : f.issue = i /\ Advance(f))

FairSpec == Spec /\ Fairness
---------------------------------------------------------------------------
IssueRecord ==
    [status : Status, epoch : 0..MaxFaults, turn : Token \cup {None},
     takeover : BOOLEAN, gate : Gate \cup {None}, card : BOOLEAN,
     asks : BOOLEAN, driver : BOOLEAN, steers : SUBSET Notice,
     parked : SUBSET Notice, resumeMessage : BOOLEAN, nudges : 0..NudgeBudget,
     notices : 0..MaxNotices]

CallRecord ==
    [issue : Issue, token : Token, epoch : 0..MaxFaults, body : Body,
     pc : {"boot", "open", "model"}, hand : SUBSET Notice,
     opened : (0..MaxFaults) \cup {None}]

CancelRecord == [issue : Issue, previous : Status, epoch : 1..MaxFaults]

\* The type invariant.
TypeOK ==
    /\ issue \in [Issue -> IssueRecord]
    /\ calls \subseteq CallRecord
    /\ cancels \subseteq CancelRecord
    /\ owed \in [Issue -> SUBSET Notice]
    /\ faults \in 0..MaxFaults

\* A session has at most one turn under way, which holds the place until it
\* ends, across continuations (endTurnSlot); and a session that says it is
\* running has one, unless a person drives it or a cancel is under way.
TurnsAccounted ==
    \A i \in Issue :
        /\ Cardinality(CallsOf(i)) <= 1
        /\ {f.token : f \in CallsOf(i)} = {issue[i].turn} \ {None}
        /\ issue[i].status = "running" =>
               issue[i].turn # None \/ issue[i].takeover \/ CancelsOf(i) # {}

\* A notice that was parked is still parked, in the hands of a turn that is
\* opening its session, or has reached the model: no failed start, takeover,
\* cancel or continuation drops it ("delivery is guaranteed",
\* withParkedNotices).  What a crash finds in the hands of a turn is lost.
NoticesKept ==
    \A i \in Issue :
        owed[i] \subseteq issue[i].parked \cup UNION {f.hand : f \in CallsOf(i)}

\* Every turn ends: late notices and nudges prolong it only finitely often.
TurnsEnd == \A i \in Issue : issue[i].turn # None ~> issue[i].turn = None

\* A session in the queue does not stay there: whoever ends a turn lets the
\* next one in.
QueuedStarts ==
    \A i \in Issue : issue[i].status = "queued" ~> issue[i].status # "queued"
=============================================================================
