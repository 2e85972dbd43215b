----------------------- MODULE PrePushMachineProofs -----------------------
(***************************************************************************)
(* What PrePushMachine guarantees for any number of commits, contents,     *)
(* rounds and restarts: its types, that a receipt is earned and survives a *)
(* restart, and that the reducer implements Endorsement.                   *)
(***************************************************************************)
EXTENDS PrePushMachine, PrePushVerificationProofs

--------------------------------------------------------------------------
\* The inductive invariant, as properties of a record r, the contents
\* `started` by attempt, and the claims `said`.

\* The attempt in flight was started on the content of the record's revision.
Owned(r, started) ==
    r.active # None =>
        /\ r.active \in DOMAIN started
        /\ started[r.active] = Content[r.rev]

Good(r, started, said) == Sound(r, Content, said) /\ Owned(r, started)

Inv ==
    /\ Ids \subseteq AttemptId
    /\ startedFor \in [Ids -> Contents]
    /\ claims \subseteq Contents \X CheckNames
    /\ Good(s, startedFor, claims)

\* What is in flight stays owned: only StartInv has more to say.
LEMMA LetsOwned ==
    ASSUME NEW r, NEW next, NEW started, Owned(r, started), Lets(next, r)
    PROVE  Owned(next, started)
BY DEF Owned, Lets

--------------------------------------------------------------------------
\* The reducer under its callers.

\* The invariant holds of a fresh record without reports.
LEMMA InitInv == Init => Inv
<1> SUFFICES ASSUME Init PROVE Inv
  OBVIOUS
<1>1. PICK rev \in Revision : s = create(rev)
  BY DEF Init
<1>2. Good(s, startedFor, claims)
  BY <1>1, CreateSound DEF Good, Owned
<1>3. QED BY <1>2 DEF Inv, Init, Ids

\* The invariant contains the types.
LEMMA TypeFromInv == Inv => TypeOK
BY DEF Inv, TypeOK, Good, Sound

\* One more report: what it claims is claimed of the content its attempt was
\* last started on.
LEMMA SaysKeepsTypes ==
    ASSUME Inv, NEW id \in Ids, NEW checks \in SUBSET CheckNames, Says(id, checks)
    PROVE  /\ claims \subseteq claims'
           /\ claims' \subseteq Contents \X CheckNames
           /\ \A check \in checks : <<startedFor[id], check>> \in claims'
<1>1. startedFor[id] \in Contents
  BY DEF Inv
<1>2. claims' = claims \cup ({startedFor[id]} \X checks)
  BY DEF Says
<1>3. QED BY <1>1, <1>2 DEF Inv

\* Start under a fresh or an already used identifier keeps the invariant.
LEMMA StartInv ==
    ASSUME Inv, NEW id \in AttemptId, Start(id)
    PROVE  Inv'
<1>1. CASE startAttempt(s, id) = s
  <2>1. s' = s /\ startedFor' = startedFor /\ claims' = claims
    BY <1>1 DEF Start
  <2>2. QED BY <2>1 DEF Inv, Ids
<1>2. CASE startAttempt(s, id) # s
  <2>1. s.active = None /\ s'.active = id
    BY <1>2 DEF Start, startAttempt, Inv, Good, Sound, PrePushState
  <2>2. s.active # id
    BY <2>1, NoneIsNoData
  <2>3. startedFor' = [i \in Ids \cup {id} |->
                         IF i = id THEN Content[s.rev] ELSE startedFor[i]]
    BY <2>1, <2>2 DEF Start
  <2>4. Content[s.rev] \in Contents
    BY ContentType DEF Inv, Good, Sound, PrePushState
  <2>5. Ids' = Ids \cup {id} /\ startedFor' \in [Ids' -> Contents]
    BY <2>3, <2>4 DEF Inv, Ids
  <2>6. id \in DOMAIN startedFor' /\ startedFor'[id] = Content[s.rev]
    BY <2>3
  <2>7. Good(s', startedFor', claims)
    <3>1. Sound(s', Content, claims) /\ s'.rev = s.rev
      BY StartSound DEF Start, Driven, Inv, Good
    <3>2. QED BY <2>1, <2>6, <3>1, <2>3 DEF Good, Owned
  <2>8. QED BY <2>5, <2>7 DEF Start, Inv
<1>3. QED BY <1>1, <1>2

\* Every action keeps the invariant.
LEMMA NextInv == Inv /\ [Next]_vars => Inv'
<1> SUFFICES ASSUME Inv, [Next]_vars PROVE Inv'
  OBVIOUS
<1> USE DEF Inv
<1>1. CASE Begin
  <2>1. generatedAttemptId(s) \in AttemptId
    BY DEF generatedAttemptId, AttemptId, Good, Sound, PrePushState
  <2>2. QED BY <1>1, <2>1, StartInv DEF Begin
<1>2. CASE Rebegin
  BY <1>2, StartInv DEF Rebegin
<1>3. ASSUME NEW id \in Ids, NEW check \in CheckNames, NEW outcome \in Outcomes,
             CheckFinished(id, check, outcome)
      PROVE  Inv'
  <2> DEFINE checks == IF outcome = "passed" THEN {check} ELSE {}
  <2>1. checks \in SUBSET CheckNames /\ Says(id, checks)
    BY <1>3 DEF CheckFinished
  <2>2. /\ claims \subseteq claims' /\ claims' \subseteq Contents \X CheckNames
        /\ outcome = "passed" => <<startedFor[id], check>> \in claims'
    BY <2>1, SaysKeepsTypes
  <2>3. Sound(s, Content, claims')
    BY <2>2, SoundMonotone DEF Good
  <2>4. s.active = id => startedFor[id] = Content[s.rev]
    BY NoneIsNoData DEF Good, Owned
  <2>5. Sound(s', Content, claims') /\ Lets(s', s)
    BY <1>3, <2>2, <2>3, <2>4, RecordCheckSound DEF CheckFinished, Driven
  <2>6. Good(s', startedFor, claims')
    BY <2>5, LetsOwned DEF Good
  <2>7. QED BY <1>3, <2>2, <2>6 DEF CheckFinished, Ids
<1>4. ASSUME NEW id \in Ids, NEW report \in [CheckNames -> ReportedOutcomes],
             Report(id, report)
      PROVE  Inv'
  <2> DEFINE checks == {check \in CheckNames : report[check] = "passed"}
  <2>1. checks \in SUBSET CheckNames /\ Says(id, checks)
    BY <1>4 DEF Report
  <2>2. /\ claims \subseteq claims' /\ claims' \subseteq Contents \X CheckNames
        /\ \A check \in CheckNames :
              report[check] = "passed" => <<startedFor[id], check>> \in claims'
    BY <2>1, SaysKeepsTypes
  <2>3. Sound(s, Content, claims')
    BY <2>2, SoundMonotone DEF Good
  <2>4. s.active = id => startedFor[id] = Content[s.rev]
    BY NoneIsNoData DEF Good, Owned
  <2>5. Sound(s', Content, claims') /\ Lets(s', s)
    BY <1>4, <2>2, <2>3, <2>4, RecordReportSound DEF Report, Driven
  <2>6. Good(s', startedFor, claims')
    BY <2>5, LetsOwned DEF Good
  <2>7. QED BY <1>4, <2>2, <2>6 DEF Report, Ids
<1>5. CASE NoProgress
  <2>1. Sound(s', Content, claims) /\ Lets(s', s)
    BY <1>5, NoProgressSound DEF NoProgress, Driven, Good
  <2>2. QED BY <1>5, <2>1, LetsOwned DEF NoProgress, Good, Ids
<1>6. CASE EnvironmentFailed
  <2>1. Sound(s', Content, claims) /\ Lets(s', s)
    BY <1>6, EnvironmentSound DEF EnvironmentFailed, Driven, Good
  <2>2. QED BY <1>6, <2>1, LetsOwned DEF EnvironmentFailed, Good, Ids
<1>7. CASE RetryRequested
  <2>1. Sound(s', Content, claims) /\ Lets(s', s)
    BY <1>7, RetrySound DEF RetryRequested, Driven, Good, Lets
  <2>2. QED BY <1>7, <2>1, LetsOwned DEF RetryRequested, Good, Ids
<1>8. ASSUME NEW rev \in Revision, Observe(rev)
      PROVE  Inv'
  <2>1. Sound(s', Content, claims) /\ Lets(s', s)
    BY <1>8, ObserveSound DEF Observe, Good
  <2>2. QED BY <1>8, <2>1, LetsOwned DEF Observe, Good, Ids
<1>9. ASSUME NEW rev \in Revision, Restore(rev)
      PROVE  Inv'
  <2>1. Sound(s', Content, claims) /\ s'.active = None
    BY <1>9, RestoreSound DEF Restore, Good
  <2>2. QED BY <1>9, <2>1 DEF Restore, Good, Owned, Ids
<1>10. ASSUME NEW rev \in Revision, Skip(rev)
       PROVE  Inv'
  <2>1. Sound(s', Content, claims) /\ s'.active = None
    BY <1>10, SkipSound DEF Skip, Good
  <2>2. QED BY <1>10, <2>1 DEF Skip, Good, Owned, Ids
<1>11. ASSUME NEW rev \in Revision, Rebind(rev)
       PROVE  Inv'
  <2>1. Sound(s', Content, claims) /\ s'.active = None
    BY <1>11, RebindSound DEF Rebind, Good
  <2>2. QED BY <1>11, <2>1 DEF Rebind, Good, Owned, Ids
<1>12. ASSUME NEW id \in Ids, Attest(id)
       PROVE  Inv'
  <2>1. id \in AttemptId
    OBVIOUS
  <2>2. Sound(s', Content, claims) /\ Lets(s', s)
    BY <1>12, <2>1, AttestSound DEF Attest, Good
  <2>3. QED BY <1>12, <2>2, LetsOwned DEF Attest, Good, Ids
<1>13. CASE UNCHANGED vars
  BY <1>13 DEF vars, Ids
<1>14. QED
  BY <1>1, <1>2, <1>3, <1>4, <1>5, <1>6, <1>7, <1>8, <1>9, <1>10, <1>11, <1>12, <1>13
     DEF Next

\* Whatever the callers do, the record stays good: the receipt belongs to the
\* revision of the record, and every kept pass was reported for its content.
THEOREM Invariance == Spec => []Inv
BY InitInv, NextInv, PTL DEF Spec

\* Every variable keeps its type, whatever the callers do.
THEOREM TypeCorrect == Spec => []TypeOK
BY Invariance, TypeFromInv, PTL

\* Here Backed is needed: the checks of a receipt are those of the record.
LEMMA EarnedFromInv == Inv => ReceiptEarned
BY DEF Inv, Good, Sound, Shape, Backed, Passed, ReceiptEarned, CheckNames

\* No receipt without both checks reported as passed for its very content.
THEOREM ReceiptsAreEarned == Spec => []ReceiptEarned
BY Invariance, EarnedFromInv, PTL

\* Here Shape is needed: a passed record has no attempt in flight, and only
\* the attempt of its checks can have been attested.
LEMMA SurvivesFromInv == Inv => ReceiptSurvivesRestart
<1> SUFFICES ASSUME Inv, hasReusableReceipt(s, s.rev)
             PROVE  s.active = None /\ restore(s, s.rev) = s
  BY DEF ReceiptSurvivesRestart
<1>1. s.state = "passed" /\ s.receipt # None /\ s.compile = Passed(s.receipt.compile)
  BY DEF hasReusableReceipt
<1>2. s.active = None
  BY <1>1 DEF Inv, Good, Sound, Shape
<1>3. s.receipt.execution \in {None, s.compile.by}
  BY <1>1 DEF Inv, Good, Sound, Shape, Passed
<1>4. restorable(s)
  BY <1>1, <1>3 DEF restorable
<1>5. s # None
  BY NoneIsNoData DEF Inv, Good, Sound
<1>6. observe(recovered(s), s.rev) = s
  BY <1>2 DEF recovered, observe, sameRevision
<1>7. QED BY <1>2, <1>4, <1>5, <1>6 DEF restore

\* An issued receipt is never lost to a restart on the same workspace.
THEOREM ReceiptsSurvive == Spec => []ReceiptSurvivesRestart
BY Invariance, SurvivesFromInv, PTL

--------------------------------------------------------------------------
\* Refinement.

\* Reports are never forgotten.
LEMMA ClaimsGrow ==
    ASSUME Inv, [Next]_vars
    PROVE  claims \subseteq claims'
BY DEF Next, Begin, Rebegin, Start, CheckFinished, Report, Says, NoProgress,
       EnvironmentFailed, RetryRequested, Observe, Restore, Skip, Rebind, Attest, vars

\* Every step of the reducer is a step of Endorsement: the receipt names a
\* content that is earned after the step, or there is none.
LEMMA StepEndorses ==
    ASSUME Inv, Inv', [Next]_vars
    PROVE  [Promise!Next]_(Promise!vars)
<1> DEFINE endorsed == IF s.receipt = None THEN None ELSE Content[s.receipt.rev]
<1>1. \E new \in SUBSET (Contents \X CheckNames) : claims' = claims \cup new
  <2>1. claims \subseteq claims' /\ claims' \in SUBSET (Contents \X CheckNames)
    BY ClaimsGrow DEF Inv
  <2>2. claims' = claims \cup claims'
    BY <2>1
  <2>3. QED BY <2>1, <2>2
<1>2. CASE s'.receipt = None
  BY <1>1, <1>2 DEF Promise!Next, Promise!Withdraw
<1>3. CASE s'.receipt # None
  <2>1. s'.receipt.rev \in Revision
    BY <1>3 DEF Inv, Good, Sound, PrePushState, Receipt
  <2>2. Content[s'.receipt.rev] \in Contents
    BY <2>1, ContentType
  <2>3. ReceiptEarned'
    BY EarnedFromInv, <1>3 DEF Inv, Good, Sound, Shape, Backed, Passed, ReceiptEarned, CheckNames
  <2>4. \A check \in CheckNames : <<Content[s'.receipt.rev], check>> \in claims'
    BY <1>3, <2>3 DEF ReceiptEarned
  <2>5. QED
    BY <1>1, <1>3, <2>2, <2>4 DEF Promise!Next, Promise!Endorse, Promise!Earned
<1>4. QED BY <1>2, <1>3

\* A fresh record endorses nothing.
LEMMA InitEndorses == Init => Promise!Init
BY DEF Init, create, Promise!Init

\* The reducer implements the abstract specification.
THEOREM ReducerEndorses == Spec => Endorses
<1>1. Inv /\ Inv' /\ [Next]_vars => [Promise!Next]_(Promise!vars)
  BY StepEndorses
<1>2. QED
  BY <1>1, InitEndorses, Invariance, PTL DEF Spec, Endorses, Promise!Spec
==========================================================================
