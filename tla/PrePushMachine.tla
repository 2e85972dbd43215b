-------------------------- MODULE PrePushMachine --------------------------
(***************************************************************************)
(* The Build-Fix reducer of src/prePushVerification.ts under any order of  *)
(* calls its exports allow: late and repeated results, results of attempts *)
(* long given up, revisions that come and go, restarts, retries and        *)
(* rebinds.  The one discipline kept from its caller, performPrePush, is   *)
(* that a skipped record is restored before it is driven again.            *)
(***************************************************************************)
EXTENDS PrePushVerification

CONSTANTS
    Contents,   \* what the two checks are really about
    Content,    \* the content of each revision; equal for rewritten messages
    MaxRound    \* bound on the rounds of one SHA

ASSUME ContentType == Content \in [Revision -> Contents]
ASSUME MaxRoundType == MaxRound \in Nat
ASSUME NoneIsNoContent == None \notin Contents

VARIABLES
    s,          \* the record
    startedFor, \* history: content each attempt was last started on
    claims      \* history: <<content, check>> pairs runners reported as passed

vars == <<s, startedFor, claims>>

Ids == DOMAIN startedFor

TypeOK ==
    /\ s \in PrePushState
    /\ Ids \subseteq AttemptId
    /\ startedFor \in [Ids -> Contents]
    /\ claims \subseteq Contents \X CheckNames

Init ==
    /\ \E rev \in Revision : s = create(rev)
    /\ startedFor = [id \in {} |-> None]
    /\ claims = {}

Driven == s.state # "user_skipped"

Observe(rev) ==
    /\ s' = observe(s, rev)
    /\ UNCHANGED <<startedFor, claims>>

\* attempt_started, with the identifier of this round or with one already
\* handed out (performPrePush restarts the attempt its agent committed under).
Start(id) ==
    /\ Driven
    /\ s.round < MaxRound
    /\ s' = startAttempt(s, id)
    /\ startedFor' = IF s'.active = id /\ s.active # id
                     THEN [i \in Ids \cup {id} |->
                              IF i = id THEN Content[s.rev] ELSE startedFor[i]]
                     ELSE startedFor
    /\ UNCHANGED claims

Begin == Start(generatedAttemptId(s))

Rebegin == \E id \in Ids : Start(id)

\* A runner speaks of the content its attempt was last started on, whether or
\* not anybody still waits for it.
Says(id, checks) == claims' = claims \cup ({startedFor[id]} \X checks)

CheckFinished(id, check, outcome) ==
    /\ Driven
    /\ s' = recordCheck(s, id, check, outcome)
    /\ Says(id, IF outcome = "passed" THEN {check} ELSE {})
    /\ UNCHANGED startedFor

Report(id, report) ==
    /\ Driven
    /\ s' = recordReport(s, id, report)
    /\ Says(id, {check \in CheckNames : report[check] = "passed"})
    /\ UNCHANGED startedFor

NoProgress ==
    /\ Driven
    /\ \E id \in Ids \cup {None} : s' = markNoProgress(s, id)
    /\ UNCHANGED <<startedFor, claims>>

EnvironmentFailed ==
    /\ Driven
    /\ s' = environmentFailed(s)
    /\ UNCHANGED <<startedFor, claims>>

RetryRequested ==
    /\ Driven
    /\ s' = retryRequested(s)
    /\ UNCHANGED <<startedFor, claims>>

\* A restart reads the record back and reconciles it with the workspace.
Restore(rev) ==
    /\ s' = restore(s, rev)
    /\ UNCHANGED <<startedFor, claims>>

Attest(id) ==
    /\ canAttest(s, id)
    /\ s' = attest(s, id)
    /\ UNCHANGED <<startedFor, claims>>

\* The service writes a user's skip over a stopped record, bound to the HEAD
\* of that moment and keeping the checks of the record it replaces.
Skip(rev) ==
    /\ s.state \in {"blocked", "environment_error"}
    /\ s' = [s EXCEPT !.state = "user_skipped", !.rev = rev]
    /\ UNCHANGED <<startedFor, claims>>

\* Mutant of Rebind: the trees of the two commits are not compared.
Rebind_AnyTree(next) ==
    /\ canRebind(s, s.rev)
    /\ s' = rebind(s, next)
    /\ UNCHANGED <<startedFor, claims>>

Rebind(next) ==
    /\ canRebind(s, s.rev)
    /\ Content[next] = Content[s.rev]
    /\ s' = rebind(s, next)
    /\ UNCHANGED <<startedFor, claims>>

Next ==
    \/ Begin
    \/ Rebegin
    \/ \E id \in Ids, check \in CheckNames, outcome \in Outcomes :
          CheckFinished(id, check, outcome)
    \/ \E id \in Ids, report \in [CheckNames -> ReportedOutcomes] : Report(id, report)
    \/ NoProgress
    \/ EnvironmentFailed
    \/ RetryRequested
    \/ \E rev \in Revision : Observe(rev) \/ Restore(rev) \/ Skip(rev) \/ Rebind(rev)
    \/ \E id \in Ids : Attest(id)

Spec == Init /\ [][Next]_vars

--------------------------------------------------------------------------
\* A receipt is backed: for the very content of the revision it names, both
\* checks were reported as passed by attempts started on that content.  No
\* late result, retained pass, restart or rebind can lend a pass to another.
ReceiptEarned ==
    s.receipt # None =>
        \A check \in CheckNames : <<Content[s.receipt.rev], check>> \in claims

\* A record that answers "reusable" has nothing in flight and is what a
\* restart would read back unchanged: a crash never loses an issued receipt.
ReceiptSurvivesRestart ==
    hasReusableReceipt(s, s.rev) => s.active = None /\ restore(s, s.rev) = s

\* The endorsement a push relies on appears only when earned and otherwise
\* only disappears; a rebind moves it between revisions of one content.
Promise == INSTANCE Endorsement WITH
    Checks <- CheckNames,
    endorsed <- IF s.receipt = None THEN None ELSE Content[s.receipt.rev]

Endorses == Promise!Spec
==========================================================================
