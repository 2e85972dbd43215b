----------------------- MODULE PrePushVerification -----------------------
(***************************************************************************)
(* The Build-Fix record of one task and the reducer over it                *)
(* (src/prePushVerification.ts): which workspace snapshot is being         *)
(* verified, what the two checks said, which attempt is in flight, and     *)
(* the receipt a push may reuse.  Pure operators, no variables: the same   *)
(* ones are driven by an arbitrary caller in PrePushMachine and by the     *)
(* task service in BuildFix.                                               *)
(*                                                                         *)
(* Abstracted: times, messages, issue and last_invalidation, which no      *)
(* transition reads, and the container facts of an execution attestation   *)
(* beyond the attempt it names.                                            *)
(***************************************************************************)
EXTENDS Naturals

CONSTANTS
    Shas,           \* commit objects a task's HEAD can name
    Fingerprints,   \* workspace content fingerprints
    None            \* an absent optional field

StateNames == {"preparing", "repairing", "passed", "blocked",
               "environment_error", "user_skipped"}

CheckNames == {"compile", "unit_test"}

\* What a runner may say of one check; "not_run" is never stored.
Outcomes == {"passed", "code_failure", "infrastructure_failure"}
ReportedOutcomes == Outcomes \cup {"not_run"}

Revision == [sha : Shas, fp : Fingerprints]

\* `${sha}:${fingerprint}:${round + 1}`
AttemptId == [rev : Revision, n : Nat]

CheckRecord == [st : {"pending", "passed", "failed"}, by : AttemptId \cup {None}]

Receipt == [rev : Revision, compile : AttemptId, unit_test : AttemptId,
            execution : AttemptId \cup {None}]

PrePushState ==
    [state : StateNames, round : Nat, rev : Revision,
     compile : CheckRecord, unit_test : CheckRecord,
     active : AttemptId \cup {None}, receipt : Receipt \cup {None}]

ASSUME NoneIsNoData ==
    /\ None \notin AttemptId
    /\ None \notin Receipt
    /\ None \notin PrePushState

Pending == [st |-> "pending", by |-> None]
Passed(id) == [st |-> "passed", by |-> id]
Failed(id) == [st |-> "failed", by |-> id]

PendingIfFailed(check) == IF check.st = "failed" THEN Pending ELSE check

sameRevision(s, rev) == s.rev = rev

create(rev) ==
    [state |-> "preparing", round |-> 0, rev |-> rev,
     compile |-> Pending, unit_test |-> Pending,
     active |-> None, receipt |-> None]

\* A new SHA restarts the round count, a change of the working tree keeps it.
observe(s, rev) ==
    IF sameRevision(s, rev) THEN s
    ELSE [create(rev) EXCEPT !.round = IF s.rev.sha = rev.sha THEN s.round ELSE 0]

generatedAttemptId(s) == [rev |-> s.rev, n |-> s.round + 1]

\* Starts one more attempt under the identifier `id`; refused while one is in
\* flight and in the states only an explicit retry or a new revision leaves.
startAttempt(s, id) ==
    IF s.state \in {"passed", "blocked", "environment_error"} \/ s.active # None
    THEN s
    ELSE [s EXCEPT !.state = IF s.state = "repairing" THEN "repairing" ELSE "preparing",
                   !.round = s.round + 1,
                   !.compile = PendingIfFailed(s.compile),
                   !.unit_test = PendingIfFailed(s.unit_test),
                   !.active = id,
                   !.receipt = None]

begin(s) == startAttempt(s, generatedAttemptId(s))

FailureState(outcome) ==
    IF outcome = "code_failure" THEN "repairing" ELSE "environment_error"

compilePassed(s, id) == [s EXCEPT !.state = "preparing", !.compile = Passed(id)]

\* Mutant of unitTestPassed: the attempt stays in flight.
unitTestPassed_StillActive(s, id) ==
    [s EXCEPT !.state = "passed",
              !.unit_test = Passed(id),
              !.receipt = [rev |-> s.rev, compile |-> s.compile.by,
                           unit_test |-> id, execution |-> None]]

unitTestPassed(s, id) ==
    [s EXCEPT !.state = "passed",
              !.unit_test = Passed(id),
              !.active = None,
              !.receipt = [rev |-> s.rev, compile |-> s.compile.by,
                           unit_test |-> id, execution |-> None]]

checkFailed(s, id, check, outcome) ==
    [s EXCEPT !.state = FailureState(outcome),
              !.compile = IF check = "compile" THEN Failed(id) ELSE s.compile,
              !.unit_test = IF check = "compile" THEN Pending ELSE Failed(id),
              !.active = None,
              !.receipt = None]

\* Only the attempt in flight is heard; a unit-test result counts only on top
\* of a compile pass; a check that has passed keeps its pass.
recordCheck(s, id, check, outcome) ==
    IF \/ s.active # id
       \/ check = "unit_test" /\ s.compile.st # "passed"
       \/ s[check].st = "passed"
    THEN s
    ELSE IF outcome # "passed" THEN checkFailed(s, id, check, outcome)
    ELSE IF check = "compile" THEN compilePassed(s, id)
    ELSE unitTestPassed(s, id)

\* `id` is None when the caller names no attempt.
markNoProgress(s, id) ==
    IF s.state = "passed" \/ (id # None /\ s.active # id) THEN s
    ELSE [s EXCEPT !.state = "blocked", !.active = None, !.receipt = None]

environmentFailed(s) ==
    IF s.state = "passed" THEN s
    ELSE [s EXCEPT !.state = "environment_error", !.active = None, !.receipt = None]

retryRequested(s) ==
    IF s.state = "passed" \/ s.active # None THEN s
    ELSE [s EXCEPT !.state = "preparing",
                   !.compile = PendingIfFailed(s.compile),
                   !.unit_test = PendingIfFailed(s.unit_test),
                   !.receipt = None]

recovered(s) ==
    IF s.active = None THEN s
    ELSE [s EXCEPT !.state = "preparing",
                   !.compile = PendingIfFailed(s.compile),
                   !.unit_test = PendingIfFailed(s.unit_test),
                   !.active = None,
                   !.receipt = None]

\* A runner's report: [compile |-> outcome, unit_test |-> outcome].
recordReport(s, id, report) ==
    LET compiled == recordCheck(s, id, "compile", report.compile)
    IN  IF s.active # id THEN s
        ELSE IF report.compile = "not_run" THEN markNoProgress(s, id)
        ELSE IF report.compile # "passed" THEN compiled
        ELSE IF report.unit_test = "not_run" THEN markNoProgress(compiled, id)
        ELSE recordCheck(compiled, id, "unit_test", report.unit_test)

\* attestPrePushExecution throws unless the container ran the attempt both
\* checks of the receipt name.
canAttest(s, id) ==
    /\ s.state = "passed"
    /\ s.receipt # None
    /\ s.receipt.compile = id
    /\ s.receipt.unit_test = id

attest(s, id) == [s EXCEPT !.receipt.execution = id]

hasReusableReceipt(s, rev) ==
    /\ s.state = "passed"
    /\ s.receipt # None
    /\ sameRevision(s, rev)
    /\ s.receipt.rev = rev
    /\ s.compile = Passed(s.receipt.compile)
    /\ s.unit_test = Passed(s.receipt.unit_test)

\* rebindEquivalentPrePushRevision throws outside canRebind; that the two
\* commits have the same tree is for the caller to establish.
canRebind(s, prev) ==
    /\ sameRevision(s, prev)
    /\ s.state = "user_skipped" \/ hasReusableReceipt(s, prev)

rebind(s, next) ==
    IF s.state = "user_skipped" THEN [s EXCEPT !.rev = next]
    ELSE [s EXCEPT !.rev = next, !.receipt.rev = next]

\* The guard of a restart on what it reads back: STATE_NAMES does not list
\* "user_skipped", and a receipt belongs to "passed" alone.
restorable(s) ==
    /\ s.state # "user_skipped"
    /\ IF s.state = "passed"
       THEN /\ hasReusableReceipt(s, s.rev)
            /\ s.receipt.execution \in {None, s.compile.by}
       ELSE s.receipt = None

restore(saved, rev) ==
    IF saved = None THEN create(rev)
    ELSE IF restorable(saved) THEN observe(recovered(saved), rev)
    ELSE create(rev)
==========================================================================
