--------------------- MODULE PrePushVerificationProofs ---------------------
(***************************************************************************)
(* What the transitions of the reducer keep true of a record, one lemma    *)
(* each, whoever drives it.  `content` maps a revision to what its checks  *)
(* are about and `said` holds what runners have reported as passed.        *)
(***************************************************************************)
EXTENDS PrePushVerification, TLAPS

\* Only an unfinished round has an attempt in flight; a record that has passed
\* has two checks that have, and its receipt names them.
Shape(r) ==
    /\ r.active # None => r.state \in {"preparing", "repairing"}
    /\ r.compile.st = "passed" => r.compile.by \in AttemptId
    /\ r.state = "passed" => r.compile.st = "passed" /\ r.unit_test.st = "passed"
    /\ r.receipt # None =>
          /\ r.state = "passed"
          /\ r.receipt.rev = r.rev
          /\ r.compile = Passed(r.receipt.compile)
          /\ r.unit_test = Passed(r.receipt.unit_test)
          /\ r.receipt.execution \in {None, r.receipt.compile}

\* Unless it is a user's skip, a check that has passed was reported as passed
\* for the content of the record's revision.
Backed(r, content, said) ==
    r.state # "user_skipped" =>
        /\ r.compile.st = "passed" => <<content[r.rev], "compile">> \in said
        /\ r.unit_test.st = "passed" => <<content[r.rev], "unit_test">> \in said

Sound(r, content, said) ==
    /\ r \in PrePushState
    /\ Shape(r)
    /\ Backed(r, content, said)

\* No attempt is in flight in `next` but the one of `r`, on its revision.
Lets(next, r) == next.active # None => next.active = r.active /\ next.rev = r.rev

--------------------------------------------------------------------------
\* A fresh record (createPrePushVerification).
LEMMA CreateSound ==
    ASSUME NEW rev \in Revision, NEW content, NEW said
    PROVE  Sound(create(rev), content, said) /\ create(rev).active = None
BY NoneIsNoData
   DEF Sound, Shape, Backed, create, Pending, PrePushState, StateNames, CheckRecord

\* More claims never make a record worse.
LEMMA SoundMonotone ==
    ASSUME NEW r, NEW content, NEW said, NEW more, said \subseteq more,
           Sound(r, content, said)
    PROVE  Sound(r, content, more)
BY DEF Sound, Backed

\* Another revision starts over; the same one changes nothing
\* (observePrePushRevision).
LEMMA ObserveSound ==
    ASSUME NEW r, NEW content, NEW said, NEW rev \in Revision, Sound(r, content, said)
    PROVE  /\ Sound(observe(r, rev), content, said)
           /\ Lets(observe(r, rev), r) /\ observe(r, rev).rev = rev
<1>1. CASE sameRevision(r, rev)
  BY <1>1 DEF observe, sameRevision, Lets
<1>2. CASE ~sameRevision(r, rev)
  <2>1. PICK n \in Nat : observe(r, rev) = [create(rev) EXCEPT !.round = n]
    BY <1>2 DEF observe, Sound, PrePushState
  <2>2. QED
    BY <2>1, NoneIsNoData
       DEF Sound, Shape, Backed, create, Pending, PrePushState, StateNames,
           CheckRecord, Lets
<1>3. QED BY <1>1, <1>2

\* A failed check is run again, a pass is kept.
LEMMA PendingIfFailedKeepsPass ==
    ASSUME NEW c \in CheckRecord
    PROVE  /\ PendingIfFailed(c) \in CheckRecord
           /\ PendingIfFailed(c).st = "passed" => PendingIfFailed(c) = c
BY DEF PendingIfFailed, Pending, CheckRecord

\* What startAttempt, retryRequested and recovered have in common: an
\* unfinished record with its failed checks reset and no receipt.
LEMMA ResetSound ==
    ASSUME NEW r, NEW q, NEW content, NEW said,
           Sound(r, content, said), r.state # "user_skipped",
           q \in PrePushState, q.state \in {"preparing", "repairing"}, q.rev = r.rev,
           q.compile = PendingIfFailed(r.compile),
           q.unit_test = PendingIfFailed(r.unit_test),
           q.receipt = None
    PROVE  Sound(q, content, said)
<1>1. r.compile \in CheckRecord /\ r.unit_test \in CheckRecord
  BY DEF Sound, PrePushState
<1>2. /\ q.compile.st = "passed" => q.compile = r.compile
      /\ q.unit_test.st = "passed" => q.unit_test = r.unit_test
  BY <1>1, PendingIfFailedKeepsPass
<1>3. Shape(q)
  BY <1>2 DEF Shape, Sound
<1>4. Backed(q, content, said)
  BY <1>2 DEF Backed, Sound
<1>5. QED BY <1>3, <1>4 DEF Sound

\* A restart gives up the attempt in flight (the "recovered" event).
LEMMA RecoveredSound ==
    ASSUME NEW r, NEW content, NEW said, Sound(r, content, said)
    PROVE  /\ Sound(recovered(r), content, said)
           /\ recovered(r).active = None /\ recovered(r).rev = r.rev
           /\ r.active = None => recovered(r) = r
           /\ r.active # None => recovered(r).state = "preparing"
<1>1. CASE r.active = None
  BY <1>1 DEF recovered
<1>2. CASE r.active # None
  <2>1. r.state # "user_skipped"
    BY <1>2 DEF Sound, Shape
  <2>2. PendingIfFailed(r.compile) \in CheckRecord /\ PendingIfFailed(r.unit_test) \in CheckRecord
    BY PendingIfFailedKeepsPass DEF Sound, PrePushState
  <2>3. recovered(r) \in PrePushState
    BY <1>2, <2>2 DEF recovered, Sound, PrePushState, StateNames
  <2>4. /\ recovered(r).state = "preparing" /\ recovered(r).rev = r.rev
        /\ recovered(r).compile = PendingIfFailed(r.compile)
        /\ recovered(r).unit_test = PendingIfFailed(r.unit_test)
        /\ recovered(r).active = None /\ recovered(r).receipt = None
    BY <1>2 DEF recovered, Sound, PrePushState
  <2>5. QED
    BY <1>2, <2>1, <2>3, <2>4, ResetSound
<1>3. QED BY <1>1, <1>2

\* Reading a record back (restorePrePushVerification): nothing is in flight,
\* a skip is dropped, and what has passed can be used again.
LEMMA RestoreSound ==
    ASSUME NEW r, NEW content, NEW said, NEW rev \in Revision,
           r # None => Sound(r, content, said)
    PROVE  /\ Sound(restore(r, rev), content, said)
           /\ restore(r, rev).active = None /\ restore(r, rev).rev = rev
           /\ restore(r, rev).state # "user_skipped"
           /\ restore(r, rev).state = "passed" => hasReusableReceipt(restore(r, rev), rev)
<1>1. /\ Sound(create(rev), content, said) /\ create(rev).active = None
      /\ create(rev).rev = rev /\ create(rev).state = "preparing"
  BY CreateSound DEF create
<1>2. CASE r = None \/ ~restorable(r)
  BY <1>1, <1>2 DEF restore
<1>3. CASE r # None /\ restorable(r)
  <2> DEFINE q == recovered(r)
  <2>1. /\ Sound(q, content, said) /\ q.active = None /\ q.rev = r.rev
        /\ r.active = None => q = r
        /\ r.active # None => q.state = "preparing"
    BY <1>3, RecoveredSound
  <2>2. /\ q.state # "user_skipped"
        /\ q.state = "passed" => hasReusableReceipt(q, q.rev)
    BY <1>3, <2>1 DEF restorable
  <2>3. restore(r, rev) = observe(q, rev)
    BY <1>3 DEF restore
  <2> HIDE DEF q
  <2>4. CASE q.rev = rev
    BY <2>1, <2>2, <2>3, <2>4 DEF observe, sameRevision
  <2>5. CASE q.rev # rev
    <3>1. PICK n \in Nat : observe(q, rev) = [create(rev) EXCEPT !.round = n]
      BY <2>1, <2>5 DEF observe, Sound, PrePushState, sameRevision
    <3>2. observe(q, rev).active = None /\ observe(q, rev).state = "preparing"
      BY <3>1 DEF create
    <3>3. Sound(observe(q, rev), content, said) /\ observe(q, rev).rev = rev
      BY <2>1, ObserveSound
    <3>4. QED BY <2>3, <3>2, <3>3
  <2>6. QED BY <2>4, <2>5
<1>4. QED BY <1>2, <1>3

\* An explicit retry (the "retry_requested" event).
LEMMA RetrySound ==
    ASSUME NEW r, NEW content, NEW said, Sound(r, content, said),
           r.state # "user_skipped"
    PROVE  /\ Sound(retryRequested(r), content, said)
           /\ retryRequested(r).active = r.active /\ retryRequested(r).rev = r.rev
           /\ r.state # "passed" /\ r.active = None => retryRequested(r).state = "preparing"
<1>1. CASE r.state = "passed" \/ r.active # None
  BY <1>1 DEF retryRequested
<1>2. CASE ~(r.state = "passed" \/ r.active # None)
  <2>1. PendingIfFailed(r.compile) \in CheckRecord /\ PendingIfFailed(r.unit_test) \in CheckRecord
    BY PendingIfFailedKeepsPass DEF Sound, PrePushState
  <2>2. retryRequested(r) \in PrePushState
    BY <1>2, <2>1 DEF retryRequested, Sound, PrePushState, StateNames
  <2>3. QED
    BY <1>2, <2>2, ResetSound DEF retryRequested, Sound, PrePushState
<1>3. QED BY <1>1, <1>2

\* A round without progress blocks the record (markNoProgress).
LEMMA NoProgressSound ==
    ASSUME NEW r, NEW content, NEW said, NEW id, Sound(r, content, said),
           r.state # "user_skipped"
    PROVE  /\ Sound(markNoProgress(r, id), content, said)
           /\ Lets(markNoProgress(r, id), r) /\ markNoProgress(r, id).rev = r.rev
           /\ markNoProgress(r, id).state # "user_skipped"
BY DEF Sound, Shape, Backed, Lets, markNoProgress, PrePushState, StateNames

\* A broken environment (the "environment_failed" event).
LEMMA EnvironmentSound ==
    ASSUME NEW r, NEW content, NEW said, Sound(r, content, said),
           r.state # "user_skipped"
    PROVE  /\ Sound(environmentFailed(r), content, said)
           /\ Lets(environmentFailed(r), r)
           /\ environmentFailed(r).state # "user_skipped"
BY DEF Sound, Shape, Backed, Lets, environmentFailed, PrePushState, StateNames

\* A result counts only for the attempt in flight, whose claim has been heard.
LEMMA RecordCheckSound ==
    ASSUME NEW r, NEW content, NEW said, NEW id \in AttemptId,
           NEW check \in CheckNames, NEW outcome,
           Sound(r, content, said), r.state # "user_skipped",
           r.active = id /\ outcome = "passed" => <<content[r.rev], check>> \in said
    PROVE  /\ Sound(recordCheck(r, id, check, outcome), content, said)
           /\ Lets(recordCheck(r, id, check, outcome), r)
           /\ recordCheck(r, id, check, outcome).rev = r.rev
           /\ recordCheck(r, id, check, outcome).state # "user_skipped"
<1> DEFINE next == recordCheck(r, id, check, outcome)
<1>1. CASE next = r
  BY <1>1 DEF Lets
<1>2. CASE next # r
  <2>1. /\ r.active = id
        /\ check = "unit_test" => r.compile.st = "passed"
        /\ r[check].st # "passed"
    BY <1>2 DEF recordCheck
  <2>2. r.active # None /\ r.receipt = None
    BY <2>1, NoneIsNoData DEF Sound, Shape
  <2>3. CASE outcome # "passed"
    <3>1. next = checkFailed(r, id, check, outcome)
      BY <1>2, <2>3 DEF recordCheck
    <3>2. /\ Failed(id) \in CheckRecord /\ Pending \in CheckRecord
          /\ Failed(id).st # "passed" /\ Pending.st # "passed"
      BY DEF Failed, Pending, CheckRecord
    <3>3. /\ next.compile \in {Pending, Failed(id), r.compile}
          /\ next.unit_test \in {Pending, Failed(id)}
          /\ next.state \in {"repairing", "environment_error"}
          /\ next.active = None /\ next.receipt = None /\ next.rev = r.rev
      BY <3>1 DEF checkFailed, FailureState, Sound, PrePushState
    <3>4. next \in PrePushState
      BY <3>1, <3>2, <3>3
         DEF checkFailed, FailureState, Sound, PrePushState, StateNames
    <3>5. QED
      BY <3>2, <3>3, <3>4 DEF Sound, Shape, Backed, Lets
  <2>4. CASE outcome = "passed" /\ check = "compile"
    <3>1. next = compilePassed(r, id)
      BY <1>2, <2>4 DEF recordCheck
    <3>2. next \in PrePushState
      <4>1. Passed(id) \in CheckRecord
        BY DEF Passed, CheckRecord
      <4>2. QED
        BY <3>1, <4>1 DEF compilePassed, Sound, PrePushState, StateNames
    <3>3. /\ next.state = "preparing" /\ next.receipt = None /\ next.rev = r.rev
          /\ next.active = id /\ next.compile = Passed(id) /\ next.unit_test = r.unit_test
      BY <2>1, <2>2, <3>1 DEF compilePassed, Sound, PrePushState
    <3>4. Shape(next) /\ Lets(next, r)
      BY <2>1, <3>3 DEF Shape, Passed, Sound, Lets
    <3>5. Backed(next, content, said)
      BY <2>1, <2>4, <3>3 DEF Backed, Passed, Sound
    <3>6. QED
      BY <3>2, <3>3, <3>4, <3>5 DEF Sound
  <2>5. CASE outcome = "passed" /\ check = "unit_test"
    <3>1. next = unitTestPassed(r, id)
      BY <1>2, <2>5 DEF recordCheck
    <3>2. /\ r.compile = Passed(r.compile.by)
          /\ r.compile.by \in AttemptId
      BY <2>1, <2>5 DEF Sound, Shape, PrePushState, CheckRecord, Passed
    <3>3. next.receipt \in Receipt
      BY <3>1, <3>2 DEF unitTestPassed, Receipt, Sound, PrePushState
    <3>4. next \in PrePushState
      <4>1. Passed(id) \in CheckRecord
        BY DEF Passed, CheckRecord
      <4>2. QED
        BY <3>1, <3>3, <4>1 DEF unitTestPassed, Sound, PrePushState, StateNames
    <3>5. Shape(next) /\ Lets(next, r) /\ next.rev = r.rev /\ next.state = "passed"
      BY <3>1, <3>2, NoneIsNoData
         DEF unitTestPassed, Shape, Lets, Passed, Sound, PrePushState
    <3>6. Backed(next, content, said)
      BY <2>1, <2>5, <3>1
         DEF unitTestPassed, Backed, Passed, Sound, PrePushState
    <3>7. QED
      BY <3>4, <3>5, <3>6 DEF Sound
  <2>6. QED BY <2>3, <2>4, <2>5 DEF CheckNames
<1>3. QED BY <1>1, <1>2

\* A whole report is a sequence of results and no-progress marks
\* (recordPrePushReport).
LEMMA RecordReportSound ==
    ASSUME NEW r, NEW content, NEW said, NEW id \in AttemptId,
           NEW report \in [CheckNames -> ReportedOutcomes],
           Sound(r, content, said), r.state # "user_skipped",
           r.active = id =>
              \A check \in CheckNames :
                 report[check] = "passed" => <<content[r.rev], check>> \in said
    PROVE  /\ Sound(recordReport(r, id, report), content, said)
           /\ Lets(recordReport(r, id, report), r)
           /\ recordReport(r, id, report).rev = r.rev
           /\ recordReport(r, id, report).state # "user_skipped"
<1> DEFINE compiled == recordCheck(r, id, "compile", report.compile)
           tested == recordCheck(compiled, id, "unit_test", report.unit_test)
<1>1. CASE r.active # id
  BY <1>1 DEF recordReport, Lets
<1>2. CASE r.active = id
  <2>1. /\ report.compile = "passed" => <<content[r.rev], "compile">> \in said
        /\ report.unit_test = "passed" => <<content[r.rev], "unit_test">> \in said
    BY <1>2 DEF CheckNames
  <2>2. /\ Sound(compiled, content, said) /\ compiled.state # "user_skipped"
        /\ Lets(compiled, r) /\ compiled.rev = r.rev
    <3>1. "compile" \in CheckNames
      BY DEF CheckNames
    <3>2. QED BY <2>1, <3>1, RecordCheckSound
  <2>3. /\ Sound(tested, content, said) /\ tested.state # "user_skipped"
        /\ Lets(tested, compiled) /\ tested.rev = compiled.rev
    <3>1. "unit_test" \in CheckNames
      BY DEF CheckNames
    <3>2. QED BY <2>1, <2>2, <3>1, RecordCheckSound
  <2>4. recordReport(r, id, report) \in
           {markNoProgress(r, id), compiled, markNoProgress(compiled, id), tested}
    BY <1>2 DEF recordReport
  <2>5. /\ Sound(markNoProgress(r, id), content, said)
        /\ Lets(markNoProgress(r, id), r) /\ markNoProgress(r, id).rev = r.rev
        /\ markNoProgress(r, id).state # "user_skipped"
    BY NoProgressSound
  <2>6. /\ Sound(markNoProgress(compiled, id), content, said)
        /\ Lets(markNoProgress(compiled, id), compiled)
        /\ markNoProgress(compiled, id).rev = compiled.rev
        /\ markNoProgress(compiled, id).state # "user_skipped"
    BY <2>2, NoProgressSound
  <2> HIDE DEF compiled, tested
  <2>7. QED
    BY <2>2, <2>3, <2>4, <2>5, <2>6 DEF Lets
<1>3. QED BY <1>1, <1>2

\* One more attempt (startAttempt).
LEMMA StartSound ==
    ASSUME NEW r, NEW content, NEW said, NEW id \in AttemptId,
           Sound(r, content, said), r.state # "user_skipped"
    PROVE  /\ Sound(startAttempt(r, id), content, said)
           /\ startAttempt(r, id).rev = r.rev
           /\ startAttempt(r, id).state # "user_skipped"
           /\ startAttempt(r, id) # r => startAttempt(r, id).active = id
           /\ r.state \in {"preparing", "repairing"} /\ r.active = None =>
                startAttempt(r, id).active = id
<1> DEFINE next == startAttempt(r, id)
<1>1. CASE r.state \in {"passed", "blocked", "environment_error"} \/ r.active # None
  BY <1>1 DEF startAttempt
<1>2. CASE ~(r.state \in {"passed", "blocked", "environment_error"} \/ r.active # None)
  <2>1. PendingIfFailed(r.compile) \in CheckRecord /\ PendingIfFailed(r.unit_test) \in CheckRecord
    BY PendingIfFailedKeepsPass DEF Sound, PrePushState
  <2>2. /\ next.state \in {"preparing", "repairing"} /\ next.rev = r.rev
        /\ next.compile = PendingIfFailed(r.compile)
        /\ next.unit_test = PendingIfFailed(r.unit_test)
        /\ next.active = id /\ next.receipt = None
    BY <1>2 DEF startAttempt, Sound, PrePushState
  <2>3. next \in PrePushState
    <3> DEFINE st == IF r.state = "repairing" THEN "repairing" ELSE "preparing"
               n == r.round + 1
    <3>1. st \in StateNames /\ n \in Nat
      BY DEF StateNames, Sound, PrePushState
    <3>2. next = [r EXCEPT !.state = st, !.round = n,
                           !.compile = PendingIfFailed(r.compile),
                           !.unit_test = PendingIfFailed(r.unit_test),
                           !.active = id, !.receipt = None]
      BY <1>2 DEF startAttempt
    <3>3. QED
      BY <2>1, <3>1, <3>2 DEF Sound, PrePushState
  <2>4. QED
    BY <2>2, <2>3, ResetSound
<1>3. QED BY <1>1, <1>2

\* An attestation names the attempt of both checks (attestPrePushExecution).
LEMMA AttestSound ==
    ASSUME NEW r, NEW content, NEW said, NEW id \in AttemptId,
           Sound(r, content, said), canAttest(r, id)
    PROVE  /\ Sound(attest(r, id), content, said)
           /\ Lets(attest(r, id), r) /\ attest(r, id).state = "passed"
<1> DEFINE issued == [r.receipt EXCEPT !.execution = id]
           next == [r EXCEPT !.receipt = issued]
<1>1. r.receipt \in Receipt /\ r.receipt.compile = id
  BY DEF canAttest, Sound, PrePushState
<1>2. issued \in Receipt
  BY <1>1 DEF Receipt
<1>3. attest(r, id) = next
  BY DEF attest, Sound, PrePushState
<1>4. next \in PrePushState
  BY <1>2 DEF Sound, PrePushState
<1>5. /\ next.receipt.rev = r.receipt.rev
      /\ next.receipt.compile = r.receipt.compile
      /\ next.receipt.unit_test = r.receipt.unit_test
      /\ next.receipt.execution = r.receipt.compile
      /\ next.state = r.state /\ next.rev = r.rev /\ next.active = r.active
      /\ next.compile = r.compile /\ next.unit_test = r.unit_test
  BY <1>1 DEF Sound, PrePushState, Receipt
<1>6. r.receipt # None /\ r.state = "passed"
  BY DEF canAttest
<1> HIDE DEF next
<1>7. Shape(next)
  BY <1>5, <1>6 DEF Sound, Shape
<1>8. Backed(next, content, said) /\ Lets(next, r)
  BY <1>5 DEF Sound, Backed, Lets
<1>9. QED BY <1>3, <1>4, <1>5, <1>6, <1>7, <1>8 DEF Sound

\* A rebind keeps what was earned because the content is the same.
LEMMA RebindSound ==
    ASSUME NEW r, NEW content, NEW said, NEW rev \in Revision,
           Sound(r, content, said), canRebind(r, r.rev), content[rev] = content[r.rev]
    PROVE  Sound(rebind(r, rev), content, said) /\ rebind(r, rev).active = None
<1>1. CASE r.state = "user_skipped"
  BY <1>1 DEF rebind, Sound, Shape, Backed, PrePushState
<1>2. CASE r.state # "user_skipped"
  <2> DEFINE issued == [r.receipt EXCEPT !.rev = rev]
             next == [r EXCEPT !.rev = rev, !.receipt = issued]
  <2>1. r.state = "passed" /\ r.receipt # None /\ r.receipt \in Receipt
    BY <1>2 DEF canRebind, hasReusableReceipt, Sound, PrePushState
  <2>2. issued \in Receipt
    BY <2>1 DEF Receipt
  <2>3. rebind(r, rev) = next
    BY <1>2 DEF rebind, Sound, PrePushState
  <2>4. next \in PrePushState
    BY <2>2 DEF Sound, PrePushState
  <2>5. /\ next.receipt.rev = rev
        /\ next.receipt.compile = r.receipt.compile
        /\ next.receipt.unit_test = r.receipt.unit_test
        /\ next.receipt.execution = r.receipt.execution
        /\ next.state = r.state /\ next.rev = rev /\ next.active = r.active
        /\ next.compile = r.compile /\ next.unit_test = r.unit_test
    BY <2>1 DEF Sound, PrePushState, Receipt
  <2> HIDE DEF next
  <2>6. Shape(next) /\ next.active = None
    BY <2>1, <2>5 DEF Sound, Shape
  <2>7. Backed(next, content, said)
    BY <2>5 DEF Sound, Backed
  <2>8. QED BY <2>3, <2>4, <2>6, <2>7 DEF Sound
<1>3. QED BY <1>1, <1>2

\* The service writes a user's skip over a record that has stopped, whatever
\* HEAD has become (skipPrePushVerification).
LEMMA SkipSound ==
    ASSUME NEW r, NEW content, NEW said, NEW rev \in Revision,
           Sound(r, content, said), r.state \in {"blocked", "environment_error"}
    PROVE  LET next == [r EXCEPT !.state = "user_skipped", !.rev = rev] IN
           Sound(next, content, said) /\ next.active = None /\ next.rev = rev
<1> DEFINE next == [r EXCEPT !.state = "user_skipped", !.rev = rev]
<1>1. /\ next.state = "user_skipped" /\ next.rev = rev
      /\ next.active = r.active /\ next.receipt = r.receipt
      /\ next.compile = r.compile /\ next.unit_test = r.unit_test
  BY DEF Sound, PrePushState
<1>2. next \in PrePushState
  BY DEF Sound, PrePushState, StateNames
<1>3. r.active = None /\ r.receipt = None
  BY DEF Sound, Shape
<1> HIDE DEF next
<1>4. Sound(next, content, said)
  BY <1>1, <1>2, <1>3 DEF Sound, Shape, Backed
<1> QED BY <1>1, <1>3, <1>4 DEF next
=============================================================================
