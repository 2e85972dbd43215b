-------------------------- MODULE IssueTurnsProofs --------------------------
(***************************************************************************)
(* What the turns of issue sessions guarantee for any number of sessions,  *)
(* notices, cancels and crashes: a session has one call at a time, which   *)
(* holds its place until it ends, and no parked notice is dropped.         *)
(*                                                                         *)
(* A step of the service goes through records and calls that are not a     *)
(* state yet (a turn is settled, its place released, then the queue is     *)
(* pumped), so the invariant is stated of any records `recs`, calls `cs`,  *)
(* cancels `canc`, parked notices `ow` and number of faults `n`.           *)
(***************************************************************************)
EXTENDS IssueTurns, FiniteSetTheorems, TLAPS

Types(recs, cs, canc, ow, n) ==
    /\ recs \in [Issue -> IssueRecord] /\ cs \subseteq CallRecord
    /\ canc \subseteq CancelRecord /\ ow \in [Issue -> SUBSET Notice]
    /\ n \in 0..MaxFaults
    /\ \A i \in Issue : recs[i].epoch <= n

\* The place of a session is held by its only call.
Places(recs, cs) ==
    /\ \A f \in cs : recs[f.issue].turn = f.token
    /\ \A f, g \in cs : f.issue = g.issue => f = g
    /\ \A i \in Issue : recs[i].turn # None => \E f \in cs : f.issue = i

\* A person drives the session, or a cancel will put an end to its running.
Excused(recs, canc, i) ==
    recs[i].takeover \/ \E c \in canc : c.issue = i /\ c.previous = "running"

\* A running session has a call, and one of its epoch, unless it is excused.
Runs(recs, cs, canc) ==
    /\ \A i \in Issue :
         recs[i].status = "running" /\ recs[i].turn = None => Excused(recs, canc, i)
    /\ \A f \in cs :
         recs[f.issue].status = "running" /\ recs[f.issue].epoch # f.epoch =>
             Excused(recs, canc, f.issue)

\* Notices are in hand only while a session is opened, and a parked notice
\* is where it was put or in hand.
Hands(recs, cs, ow) ==
    /\ \A f \in cs : f.pc # "open" => f.hand = {}
    /\ \A i \in Issue : \A x \in ow[i] :
         x \in recs[i].parked \/ \E f \in cs : f.issue = i /\ x \in f.hand

State(recs, cs, canc, ow, n) ==
    /\ Types(recs, cs, canc, ow, n) /\ Places(recs, cs)
    /\ Runs(recs, cs, canc) /\ Hands(recs, cs, ow)

Inv == State(issue, calls, cancels, owed, faults)

-----------------------------------------------------------------------------
\* Tokens.

\* A call of a session that has one call at most finds a token nobody uses.
LEMMA FreshToken ==
    ASSUME NEW i \in Issue, NEW cs,
           \A f, g \in cs : f.issue = g.issue => f = g
    PROVE  /\ Fresh(i, cs) \in Token /\ Fresh(i, cs) # None
           /\ \A f \in cs : f.issue = i => f.token # Fresh(i, cs)
<1> DEFINE used == {f.token : f \in {g \in cs : g.issue = i}}
           free == Token \ used
<1>1. Token \subseteq Nat /\ 1 \in Token /\ 2 \in Token
  <2>1. Cardinality(Issue) \in Nat
    BY IssueAssumption, FS_CardinalityType
  <2> QED BY <2>1 DEF Token
<1>2. 1 \in free \/ 2 \in free
  <2> SUFFICES ASSUME 1 \in used, 2 \in used PROVE FALSE
    BY <1>1
  <2>1. PICK f \in cs : f.issue = i /\ f.token = 1
    OBVIOUS
  <2>2. PICK g \in cs : g.issue = i /\ g.token = 2
    OBVIOUS
  <2> QED BY <2>1, <2>2
<1>3. \A f \in cs : f.issue = i => f.token \in used
  OBVIOUS
<1> HIDE DEF used
<1>4. \E x \in free : \A y \in free : x <= y
  <2>1. \A y \in free : y \in Nat /\ 1 <= y
    BY <1>1 DEF Token
  <2>2. CASE 1 \in free
    BY <2>1, <2>2
  <2>3. CASE 1 \notin free
    <3>1. \A y \in free : 2 <= y
      BY <2>1, <2>3
    <3> QED BY <1>2, <2>3, <3>1
  <2> QED BY <2>2, <2>3
<1>5. Min(free) \in free
  BY <1>4 DEF Min
<1>6. Fresh(i, cs) = Min(free)
  BY DEF Fresh, used
<1> HIDE DEF free
<1>7. Fresh(i, cs) \in Token /\ Fresh(i, cs) \notin used
  BY <1>5, <1>6 DEF free
<1> QED BY <1>1, <1>3, <1>7, NoneAssumption

-----------------------------------------------------------------------------
\* Steps of a state.

\* A turn that begins is running, at an unused token.
LEMMA BegunRecord ==
    ASSUME NEW rec \in IssueRecord, NEW token \in Token
    PROVE  /\ Begun(rec, token) \in IssueRecord
           /\ Begun(rec, token).turn = token
           /\ Begun(rec, token).status = "running"
           /\ Begun(rec, token).epoch = rec.epoch
           /\ Begun(rec, token).parked = rec.parked
           /\ Begun(rec, token).takeover = rec.takeover
<1>1. 0 \in 0..NudgeBudget
  BY BoundAssumption
<1> QED BY <1>1 DEF Begun, IssueRecord, Status

\* What a call is when it begins.
LEMMA NewCall ==
    ASSUME NEW i \in Issue, NEW token \in Token, NEW epoch \in 0..MaxFaults, NEW body \in Body
    PROVE  LET f == Call(i, token, epoch, body) IN
           /\ f \in CallRecord /\ f.issue = i /\ f.token = token
           /\ f.epoch = epoch /\ f.hand = {}
BY DEF Call, CallRecord

\* The sessions of S, none of which has a call, begin their turns.
Begins(recs, cs, recs2, cs2, S, call) ==
    /\ S \subseteq Issue /\ \A i \in S : recs[i].turn = None
    /\ recs2 \in [Issue -> IssueRecord]
    /\ \A i \in Issue \ S : recs2[i] = recs[i]
    /\ \A i \in S : /\ recs2[i].turn \in Token /\ recs2[i].epoch = recs[i].epoch
                    /\ recs2[i].parked = recs[i].parked
                    /\ call[i] \in CallRecord /\ call[i].issue = i
                    /\ call[i].token = recs2[i].turn /\ call[i].epoch = recs2[i].epoch
                    /\ call[i].hand = {}
    /\ cs2 = cs \cup {call[i] : i \in S}

\* Turns that begin in sessions without a call keep the invariant.
LEMMA Beginning ==
    ASSUME NEW recs, NEW cs, NEW recs2, NEW cs2, NEW S, NEW call,
           NEW canc, NEW ow, NEW n,
           State(recs, cs, canc, ow, n), Begins(recs, cs, recs2, cs2, S, call)
    PROVE  State(recs2, cs2, canc, ow, n)
<1> DEFINE new == {call[i] : i \in S}
<1>1. /\ cs \subseteq CallRecord /\ cs2 = cs \cup new /\ S \subseteq Issue
      /\ \A i \in Issue \ S : recs2[i] = recs[i]
      /\ \A f \in cs : f.issue \in Issue /\ recs[f.issue].turn = f.token /\ f.token \in Token
  BY DEF State, Types, Places, Begins, CallRecord
<1>2. \A f \in cs : f.issue \notin S
  <2>1. None \notin Token
    BY NoneAssumption DEF Token
  <2> QED BY <1>1, <2>1 DEF Begins
<1>3. \A f \in new : /\ f \in CallRecord /\ f.issue \in S /\ f = call[f.issue]
                     /\ f.token = recs2[f.issue].turn /\ f.epoch = recs2[f.issue].epoch
                     /\ f.hand = {}
  <2> SUFFICES ASSUME NEW i \in S
               PROVE  /\ call[i] \in CallRecord /\ call[i].issue = i
                      /\ call[i].token = recs2[i].turn /\ call[i].epoch = recs2[i].epoch
                      /\ call[i].hand = {}
    OBVIOUS
  <2> QED BY DEF Begins
<1>4. \A i \in S : call[i] \in cs2 /\ call[i].issue = i
  BY <1>1 DEF Begins
<1>5. \A i \in S : recs2[i].turn \in Token /\ recs2[i].epoch = recs[i].epoch /\ recs2[i].parked = recs[i].parked
  BY DEF Begins
<1> HIDE DEF new
<1>6. Types(recs2, cs2, canc, ow, n)
  BY <1>1, <1>3, <1>5 DEF State, Types, Begins
<1>7. Places(recs2, cs2)
  <2>1. \A f \in cs2 : recs2[f.issue].turn = f.token
    BY <1>1, <1>2, <1>3
  <2>2. ASSUME NEW f \in cs2, NEW g \in cs2, f.issue = g.issue
        PROVE  f = g
    BY <1>1, <1>2, <1>3, <2>2 DEF State, Places
  <2>3. ASSUME NEW i \in Issue, recs2[i].turn # None
        PROVE  \E f \in cs2 : f.issue = i
    <3>1. CASE i \in S
      BY <1>4, <3>1
    <3>2. CASE i \notin S
      BY <1>1, <2>3, <3>2 DEF State, Places
    <3> QED BY <3>1, <3>2
  <2> QED BY <2>1, <2>2, <2>3 DEF Places
<1>8. Runs(recs2, cs2, canc)
  <2>1. ASSUME NEW i \in Issue, recs2[i].status = "running", recs2[i].turn = None
        PROVE  Excused(recs2, canc, i)
    <3>1. i \notin S
      BY <1>5, <2>1, NoneAssumption DEF Token
    <3> QED BY <1>1, <2>1, <3>1 DEF State, Runs, Excused
  <2>2. ASSUME NEW f \in cs2, recs2[f.issue].status = "running", recs2[f.issue].epoch # f.epoch
        PROVE  Excused(recs2, canc, f.issue)
    <3>1. f \in cs /\ recs2[f.issue] = recs[f.issue]
      BY <1>1, <1>2, <1>3, <2>2
    <3> QED BY <2>2, <3>1 DEF State, Runs, Excused
  <2> QED BY <2>1, <2>2 DEF Runs
<1>9. Hands(recs2, cs2, ow)
  <2>1. \A f \in cs2 : f.pc # "open" => f.hand = {}
    BY <1>1, <1>3 DEF State, Hands
  <2>2. ASSUME NEW i \in Issue, NEW x \in ow[i]
        PROVE  x \in recs2[i].parked \/ \E f \in cs2 : f.issue = i /\ x \in f.hand
    <3>1. recs2[i].parked = recs[i].parked
      BY <1>1, <1>5
    <3>2. x \in recs[i].parked \/ \E f \in cs : f.issue = i /\ x \in f.hand
      BY DEF State, Hands
    <3> QED BY <1>1, <3>1, <3>2
  <2> QED BY <2>1, <2>2 DEF Hands
<1> QED BY <1>6, <1>7, <1>8, <1>9 DEF State

\* pump keeps the invariant, whatever it finds.
LEMMA PumpedState ==
    ASSUME NEW recs, NEW others, NEW canc, NEW ow, NEW n,
           State(recs, others, canc, ow, n), Pumped(recs, others)
    PROVE  State(issue', calls', canc, ow, n)
<1> DEFINE start == Chosen(recs)
           token == [i \in Issue |-> Fresh(i, others)]
           rec == [i \in Issue |-> [recs[i] EXCEPT !.resumeMessage = FALSE]]
           body == [i \in Issue |-> IF recs[i].resumeMessage THEN "resume" ELSE "first"]
           call == [i \in Issue |-> Call(i, token[i], recs[i].epoch, body[i])]
<1>1. \A i \in start : i \in Issue /\ recs[i].turn = None
  BY DEF Chosen
<1>2. /\ issue' = [i \in Issue |-> IF i \in start THEN Begun(rec[i], token[i]) ELSE recs[i]]
      /\ calls' = others \cup {call[i] : i \in start}
  <2>1. /\ issue' = [i \in Issue |->
                        IF i \in start
                        THEN Begun([recs[i] EXCEPT !.resumeMessage = FALSE], token[i])
                        ELSE recs[i]]
        /\ calls' = others \cup
                {Call(i, token[i], recs[i].epoch,
                      IF recs[i].resumeMessage THEN "resume" ELSE "first") : i \in start}
    BY DEF Pumped
  <2>2. \A i \in start : /\ rec[i] = [recs[i] EXCEPT !.resumeMessage = FALSE]
                         /\ call[i] = Call(i, token[i], recs[i].epoch,
                                IF recs[i].resumeMessage THEN "resume" ELSE "first")
    BY <1>1
  <2> HIDE DEF start, token, rec, call
  <2> QED BY <2>1, <2>2
<1>3. \A i \in Issue : token[i] \in Token
  <2>1. \A f, g \in others : f.issue = g.issue => f = g
    BY DEF State, Places
  <2> QED BY <2>1, FreshToken
<1>4. \A i \in Issue : /\ recs[i] \in IssueRecord /\ recs[i].epoch \in 0..MaxFaults
                       /\ rec[i] \in IssueRecord /\ rec[i].epoch = recs[i].epoch
                       /\ rec[i].parked = recs[i].parked
                       /\ body[i] \in Body
  <2> SUFFICES ASSUME NEW i \in Issue
               PROVE  /\ recs[i] \in IssueRecord /\ recs[i].epoch \in 0..MaxFaults
                      /\ rec[i] \in IssueRecord /\ rec[i].epoch = recs[i].epoch
                      /\ rec[i].parked = recs[i].parked
                      /\ body[i] \in Body
    OBVIOUS
  <2>1. recs[i] \in IssueRecord
    BY DEF State, Types
  <2>2. rec[i] = [recs[i] EXCEPT !.resumeMessage = FALSE]
    OBVIOUS
  <2>3. body[i] \in Body
    BY DEF Body
  <2> HIDE DEF rec, body
  <2> QED BY <2>1, <2>2, <2>3 DEF IssueRecord
<1>5. \A i \in Issue : call[i] = Call(i, token[i], recs[i].epoch, body[i])
  OBVIOUS
<1> HIDE DEF start, token, rec, body, call
<1>6. \A i \in start : /\ issue'[i] = Begun(rec[i], token[i])
                       /\ issue'[i] \in IssueRecord
                       /\ issue'[i].turn = token[i] /\ issue'[i].epoch = recs[i].epoch
                       /\ issue'[i].parked = recs[i].parked
  BY <1>1, <1>2, <1>3, <1>4, BegunRecord
<1>7. \A i \in Issue \ start : issue'[i] = recs[i]
  BY <1>2
<1>8. issue' \in [Issue -> IssueRecord]
  BY <1>2, <1>4, <1>6, <1>7
<1>9. \A i \in start : /\ call[i] \in CallRecord /\ call[i].issue = i
                       /\ call[i].token = token[i] /\ call[i].epoch = recs[i].epoch
                       /\ call[i].hand = {}
  BY <1>1, <1>3, <1>4, <1>5, NewCall
<1>10. Begins(recs, others, issue', calls', start, call)
  BY <1>1, <1>2, <1>3, <1>6, <1>7, <1>8, <1>9 DEF Begins
<1> QED BY <1>10, Beginning

\* The session record of i having become `rec`, a turn begins.
LEMMA BeginTurnState ==
    ASSUME NEW i \in Issue, NEW rec, NEW body \in Body, NEW recs, NEW canc, NEW ow, NEW n,
           recs = [issue EXCEPT ![i] = rec], State(recs, calls, canc, ow, n),
           rec.turn = None, issue \in [Issue -> IssueRecord], BeginTurn(i, rec, body)
    PROVE  State(issue', calls', canc, ow, n)
<1> DEFINE token == Fresh(i, calls)
           call == [j \in {i} |-> Call(i, token, rec.epoch, body)]
<1>1. token \in Token
  <2>1. \A f, g \in calls : f.issue = g.issue => f = g
    BY DEF State, Places
  <2> QED BY <2>1, FreshToken
<1>2. /\ issue' = [issue EXCEPT ![i] = Begun(rec, token)]
      /\ calls' = calls \cup {Call(i, token, rec.epoch, body)}
  BY DEF BeginTurn
<1> HIDE DEF token
<1>3. recs[i] = rec /\ \A j \in Issue \ {i} : recs[j] = issue[j]
  OBVIOUS
<1>4. rec \in IssueRecord /\ rec.epoch \in 0..MaxFaults
  BY <1>3 DEF State, Types, IssueRecord
<1>5. /\ Begun(rec, token) \in IssueRecord /\ Begun(rec, token).turn = token
      /\ Begun(rec, token).epoch = rec.epoch /\ Begun(rec, token).parked = rec.parked
  BY <1>1, <1>4, BegunRecord
<1>6. call[i] = Call(i, token, rec.epoch, body) /\ {call[j] : j \in {i}} = {Call(i, token, rec.epoch, body)}
  OBVIOUS
<1>7. /\ call[i] \in CallRecord /\ call[i].issue = i /\ call[i].token = token
      /\ call[i].epoch = rec.epoch /\ call[i].hand = {}
  BY <1>1, <1>4, <1>6, NewCall
<1> HIDE DEF call
<1>8. Begins(recs, calls, issue', calls', {i}, call)
  BY <1>1, <1>2, <1>3, <1>4, <1>5, <1>6, <1>7 DEF Begins
<1> QED BY <1>8, Beginning

\* A session that keeps its turn and its epoch, drops no notice and does
\* not start running may change otherwise.
Edits(old, rec) ==
    /\ rec \in IssueRecord
    /\ rec.turn = old.turn /\ rec.epoch = old.epoch /\ old.parked \subseteq rec.parked
    /\ rec.status = "running" => old.status = "running" /\ rec.takeover = old.takeover

OwedAfter(ow, ow2, i, rec) ==
    /\ ow2 \in [Issue -> SUBSET Notice]
    /\ \A j \in Issue : \A x \in ow2[j] : x \in ow[j] \/ (j = i /\ x \in rec.parked)

\* An edit of one session keeps the invariant.
LEMMA EditedState ==
    ASSUME NEW recs, NEW recs2, NEW cs, NEW canc, NEW ow, NEW ow2, NEW n,
           NEW i \in Issue, NEW rec,
           State(recs, cs, canc, ow, n), Edits(recs[i], rec),
           recs2 = [recs EXCEPT ![i] = rec], OwedAfter(ow, ow2, i, rec)
    PROVE  State(recs2, cs, canc, ow2, n)
<1> USE DEF OwedAfter
<1>1. /\ recs \in [Issue -> IssueRecord] /\ rec \in IssueRecord
      /\ rec.turn = recs[i].turn /\ rec.epoch = recs[i].epoch
      /\ recs[i].parked \subseteq rec.parked
      /\ rec.status = "running" => recs[i].status = "running" /\ rec.takeover = recs[i].takeover
  BY DEF State, Types, Edits
<1>2. recs2[i] = rec /\ \A j \in Issue \ {i} : recs2[j] = recs[j]
  BY <1>1
<1>3. /\ recs2 \in [Issue -> IssueRecord]
      /\ \A j \in Issue : /\ recs2[j].turn = recs[j].turn /\ recs2[j].epoch = recs[j].epoch
                          /\ recs[j].parked \subseteq recs2[j].parked
                          /\ recs2[j].status = "running" =>
                               recs[j].status = "running" /\ recs2[j].takeover = recs[j].takeover
  <2>1. recs2 \in [Issue -> IssueRecord]
    BY <1>1
  <2> QED BY <1>1, <1>2, <2>1
<1>4. \A f \in cs : f.issue \in Issue
  BY DEF State, Types, CallRecord
<1>5. Types(recs2, cs, canc, ow2, n)
  BY <1>3 DEF State, Types
<1>6. Places(recs2, cs)
  BY <1>3, <1>4 DEF State, Places
<1>7. Runs(recs2, cs, canc)
  BY <1>3, <1>4 DEF State, Runs, Excused
<1>8. Hands(recs2, cs, ow2)
  <2>1. ASSUME NEW j \in Issue, NEW x \in ow2[j]
        PROVE  x \in recs2[j].parked \/ \E f \in cs : f.issue = j /\ x \in f.hand
    <3>1. CASE x \in ow[j]
      BY <1>3, <3>1 DEF State, Hands
    <3>2. CASE j = i /\ x \in rec.parked
      BY <1>2, <3>2
    <3> QED BY <2>1, <3>1, <3>2
  <2> QED BY <2>1 DEF State, Hands
<1> QED BY <1>5, <1>6, <1>7, <1>8 DEF State

\* A call that returns gives its notices back, and leaves a session running
\* only if a person drives it or the call was revoked.
Leaves(f, rec) ==
    /\ f \in calls /\ Edits(issue[f.issue], rec) /\ f.hand \subseteq rec.parked
    /\ rec.status = "running" => rec.takeover \/ rec.epoch # f.epoch

\* A call that returns keeps the invariant, and so does the pump after it.
LEMMA ReturnedState ==
    ASSUME NEW f, NEW rec, Inv, Leaves(f, rec), Return(f, rec), UNCHANGED <<cancels, owed, faults>>
    PROVE  Inv'
<1> DEFINE i == f.issue
           free == [rec EXCEPT !.turn = None]
           recs == [issue EXCEPT ![i] = free]
           cs == calls \ {f}
<1>1. /\ f \in CallRecord /\ i \in Issue /\ issue \in [Issue -> IssueRecord]
      /\ calls \subseteq CallRecord
  BY DEF Inv, State, Types, Leaves, CallRecord
<1>2. /\ rec \in IssueRecord /\ rec.turn = f.token /\ rec.epoch = issue[i].epoch
      /\ issue[i].parked \subseteq rec.parked
      /\ f.hand \subseteq rec.parked
      /\ rec.status = "running" => /\ issue[i].status = "running" /\ rec.takeover = issue[i].takeover
                                   /\ rec.takeover \/ rec.epoch # f.epoch
  BY DEF Leaves, Edits, Inv, State, Places
<1>3. Pumped(recs, cs)
  BY <1>2 DEF Return, EndTurnSlot
<1>4. /\ free \in IssueRecord /\ free.turn = None /\ free.epoch = rec.epoch
      /\ free.parked = rec.parked /\ free.status = rec.status /\ free.takeover = rec.takeover
  BY <1>2 DEF IssueRecord
<1> HIDE DEF free
<1>5. recs \in [Issue -> IssueRecord] /\ recs[i] = free /\ \A j \in Issue \ {i} : recs[j] = issue[j]
  BY <1>1, <1>4
<1>6. \A g \in cs : g \in calls /\ g.issue \in Issue \ {i}
  BY <1>1 DEF Inv, State, Places, CallRecord, Leaves
<1>7. \A g \in calls : g.issue # i => g \in cs
  OBVIOUS
<1> HIDE DEF recs, cs
<1>8. Types(recs, cs, cancels, owed, faults)
  BY <1>1, <1>2, <1>4, <1>5, <1>6 DEF Inv, State, Types
<1>9. Places(recs, cs)
  BY <1>4, <1>5, <1>6, <1>7 DEF Inv, State, Places
<1>10. Runs(recs, cs, cancels)
  <2>1. ASSUME NEW j \in Issue, recs[j].status = "running", recs[j].turn = None
        PROVE  Excused(recs, cancels, j)
    <3>1. CASE j = i
      <4>1. f \in calls /\ issue[i].status = "running" /\ recs[i].takeover = issue[i].takeover
        BY <1>2, <1>4, <1>5, <2>1, <3>1 DEF Leaves
      <4>2. CASE rec.takeover
        BY <1>4, <1>5, <3>1, <4>2 DEF Excused
      <4>3. CASE issue[i].epoch # f.epoch
        BY <3>1, <4>1, <4>3 DEF Inv, State, Runs, Excused
      <4> QED BY <1>2, <1>4, <1>5, <2>1, <3>1, <4>2, <4>3
    <3>2. CASE j # i
      BY <1>5, <2>1, <3>2 DEF Inv, State, Runs, Excused
    <3> QED BY <3>1, <3>2
  <2>2. ASSUME NEW g \in cs, recs[g.issue].status = "running", recs[g.issue].epoch # g.epoch
        PROVE  Excused(recs, cancels, g.issue)
    BY <1>5, <1>6, <2>2 DEF Inv, State, Runs, Excused
  <2> QED BY <2>1, <2>2 DEF Runs
<1>11. Hands(recs, cs, owed)
  <2>1. ASSUME NEW j \in Issue, NEW x \in owed[j]
        PROVE  x \in recs[j].parked \/ \E g \in cs : g.issue = j /\ x \in g.hand
    <3>1. x \in issue[j].parked \/ \E g \in calls : g.issue = j /\ x \in g.hand
      BY DEF Inv, State, Hands
    <3>2. CASE j = i
      <4>1. \A g \in calls : g.issue = i => g = f
        BY DEF Inv, State, Places, Leaves
      <4> QED BY <1>2, <1>4, <1>5, <3>1, <3>2, <4>1
    <3>3. CASE j # i
      BY <1>5, <1>7, <3>1, <3>3
    <3> QED BY <3>2, <3>3
  <2> QED BY <1>6, <2>1 DEF Inv, State, Hands
<1>12. State(recs, cs, cancels, owed, faults)
  BY <1>8, <1>9, <1>10, <1>11 DEF State
<1>13. State(issue', calls', cancels, owed, faults)
  BY <1>3, <1>12, PumpedState
<1> QED BY <1>13 DEF Inv

\* A call `g` that takes the place of call `f`, in the same turn or in a
\* turn that continues it.  What the session and the call had of notices is
\* still there, or was `given` to the model.
Replaces(f, g, rec, given) ==
    /\ f \in calls /\ g \in CallRecord /\ rec \in IssueRecord
    /\ g.issue = f.issue /\ g.epoch = f.epoch /\ g.token = rec.turn
    /\ rec.epoch = issue[f.issue].epoch
    /\ rec.status = "running" =>
         \/ rec.epoch = f.epoch
         \/ issue[f.issue].status = "running" /\ rec.takeover = issue[f.issue].takeover
    /\ g.pc # "open" => g.hand = {}
    /\ issue[f.issue].parked \cup f.hand \subseteq rec.parked \cup g.hand \cup given

\* A call that is replaced by another of the same session keeps the invariant.
LEMMA ReplacedState ==
    ASSUME NEW f, NEW g, NEW rec, NEW given, Inv, Replaces(f, g, rec, given),
           issue' = [issue EXCEPT ![f.issue] = rec],
           calls' = (calls \ {f}) \cup {g},
           owed' = [owed EXCEPT ![f.issue] = @ \ given],
           UNCHANGED <<cancels, faults>>
    PROVE  Inv'
<1> DEFINE i == f.issue
<1>1. /\ f \in CallRecord /\ i \in Issue /\ issue \in [Issue -> IssueRecord]
      /\ calls \subseteq CallRecord /\ owed \in [Issue -> SUBSET Notice]
  BY DEF Inv, State, Types, Replaces, CallRecord
<1>2. issue'[i] = rec /\ \A j \in Issue \ {i} : issue'[j] = issue[j]
  BY <1>1
<1>3. owed' \in [Issue -> SUBSET Notice] /\ owed'[i] = owed[i] \ given
      /\ \A j \in Issue \ {i} : owed'[j] = owed[j]
  BY <1>1
<1>4. /\ g \in CallRecord /\ rec \in IssueRecord /\ g.issue = i /\ g.epoch = f.epoch
      /\ g.token = rec.turn /\ rec.epoch = issue[i].epoch /\ g \in calls'
  BY DEF Replaces
<1>5. \A h \in calls' : \/ h = g
                        \/ h \in calls /\ h.issue \in Issue \ {i}
  BY <1>1 DEF Inv, State, Places, CallRecord, Replaces
<1>6. \A h \in calls : h.issue # i => h \in calls'
  OBVIOUS
<1>7. g.token # None
  BY <1>4, NoneAssumption DEF CallRecord, Token
<1>8. Types(issue', calls', cancels', owed', faults')
  <2>1. issue' \in [Issue -> IssueRecord] /\ calls' \subseteq CallRecord
    BY <1>1, <1>4
  <2> QED BY <1>2, <1>3, <1>4, <2>1 DEF Inv, State, Types
<1>9. Places(issue', calls')
  <2>1. \A h \in calls' : issue'[h.issue].turn = h.token
    BY <1>2, <1>4, <1>5 DEF Inv, State, Places
  <2>2. \A h, k \in calls' : h.issue = k.issue => h = k
    BY <1>4, <1>5 DEF Inv, State, Places
  <2>3. \A j \in Issue : issue'[j].turn # None => \E h \in calls' : h.issue = j
    BY <1>2, <1>4, <1>6 DEF Inv, State, Places
  <2> QED BY <2>1, <2>2, <2>3 DEF Places
<1>10. Runs(issue', calls', cancels')
  <2>1. ASSUME NEW j \in Issue, issue'[j].status = "running", issue'[j].turn = None
        PROVE  Excused(issue', cancels', j)
    <3>1. j # i
      BY <1>2, <1>4, <1>7, <2>1
    <3> QED BY <1>2, <2>1, <3>1 DEF Inv, State, Runs, Excused
  <2>2. ASSUME NEW h \in calls', issue'[h.issue].status = "running", issue'[h.issue].epoch # h.epoch
        PROVE  Excused(issue', cancels', h.issue)
    <3>1. CASE h = g
      BY <1>2, <1>4, <2>2, <3>1 DEF Inv, State, Runs, Excused, Replaces
    <3>2. CASE h # g
      BY <1>2, <1>5, <2>2, <3>2 DEF Inv, State, Runs, Excused
    <3> QED BY <3>1, <3>2
  <2> QED BY <2>1, <2>2 DEF Runs
<1>11. Hands(issue', calls', owed')
  <2>1. ASSUME NEW j \in Issue, NEW x \in owed'[j]
        PROVE  x \in issue'[j].parked \/ \E h \in calls' : h.issue = j /\ x \in h.hand
    <3>1. x \in owed[j]
      BY <1>3, <2>1
    <3>2. x \in issue[j].parked \/ \E h \in calls : h.issue = j /\ x \in h.hand
      BY <3>1 DEF Inv, State, Hands
    <3>3. CASE j = i
      <4>1. \A h \in calls : h.issue = i => h = f
        BY DEF Inv, State, Places, Replaces
      <4>2. x \in rec.parked \/ x \in g.hand
        BY <1>3, <2>1, <3>2, <3>3, <4>1 DEF Replaces
      <4> QED BY <1>2, <1>4, <3>3, <4>2
    <3>4. CASE j # i
      BY <1>2, <1>6, <3>2, <3>4
    <3> QED BY <3>3, <3>4
  <2>2. \A h \in calls' : h.pc # "open" => h.hand = {}
    BY <1>5 DEF Inv, State, Hands, Replaces
  <2> QED BY <2>1, <2>2 DEF Hands
<1> QED BY <1>8, <1>9, <1>10, <1>11 DEF Inv, State

-----------------------------------------------------------------------------
\* The calls.

\* A call under way and the session it serves.
LEMMA CallFacts ==
    ASSUME Inv, NEW f \in calls
    PROVE  /\ f \in CallRecord /\ f.issue \in Issue
           /\ issue[f.issue] \in IssueRecord /\ issue[f.issue].turn = f.token
           /\ f.pc # "open" => f.hand = {}
           /\ issue[f.issue].epoch \in 0..MaxFaults
BY DEF Inv, State, Types, Places, Hands, CallRecord, IssueRecord

\* A call that throws leaves a revoked session as it is.
LEMMA ThrownLeaves ==
    ASSUME Inv, NEW f \in calls, NEW rec \in IssueRecord, NEW infra \in BOOLEAN,
           Edits(issue[f.issue], rec), f.hand \subseteq rec.parked
    PROVE  Leaves(f, Thrown(f, rec, infra))
<1> DEFINE new == Thrown(f, rec, infra)
<1>1. \/ new = rec /\ (rec.epoch # f.epoch \/ rec.takeover)
      \/ new = [rec EXCEPT !.status = "waiting_user"]
      \/ new = [rec EXCEPT !.status = "idle"]
      \/ new = [rec EXCEPT !.status = "failed", !.driver = FALSE, !.asks = FALSE, !.steers = {}]
  BY DEF Thrown, ReleaseDriver, IssueRecord
<1> HIDE DEF new
<1>2. /\ new \in IssueRecord /\ new.turn = rec.turn /\ new.epoch = rec.epoch
      /\ new.parked = rec.parked
      /\ new.status = "running" => new = rec /\ (rec.epoch # f.epoch \/ rec.takeover)
  BY <1>1 DEF IssueRecord, Status, Terminal
<1>3. Leaves(f, new)
  BY <1>2 DEF Leaves, Edits
<1> QED BY <1>3 DEF new

\* The catch of runTurn keeps the invariant.
LEMMA ThrowsStep ==
    ASSUME Inv, NEW f \in calls, Throws(f)
    PROVE  Inv'
<1> DEFINE rec == Restored(issue[f.issue], f)
<1>1. PICK infra \in BOOLEAN : Return(f, Thrown(f, rec, infra))
  BY DEF Throws
<1>2. /\ rec \in IssueRecord /\ Edits(issue[f.issue], rec) /\ f.hand \subseteq rec.parked
  BY CallFacts DEF Restored, IssueRecord, CallRecord, Edits
<1> HIDE DEF rec
<1>3. Leaves(f, Thrown(f, rec, infra))
  BY <1>2, ThrownLeaves
<1> QED BY <1>1, <1>3, ReturnedState DEF Throws, Unowed, Undisturbed

\* A call that goes on is the same call, of the same turn.
LEMMA GoesState ==
    ASSUME NEW f \in calls, NEW rec \in IssueRecord, NEW pc \in {"boot", "open", "model"},
           NEW hand \in SUBSET Notice, NEW opened \in (0..MaxFaults) \cup {None}, NEW given,
           Inv, Edits([issue[f.issue] EXCEPT !.parked = {}], rec),
           pc # "open" => hand = {},
           issue[f.issue].parked \cup f.hand \subseteq rec.parked \cup hand \cup given,
           Goes(f, rec, pc, hand, opened),
           owed' = [owed EXCEPT ![f.issue] = @ \ given],
           UNCHANGED <<cancels, faults>>
    PROVE  Inv'
<1> DEFINE g == [f EXCEPT !.pc = pc, !.hand = hand, !.opened = opened]
<1>1. /\ g \in CallRecord /\ g.issue = f.issue /\ g.token = f.token /\ g.epoch = f.epoch
      /\ g.pc = pc /\ g.hand = hand
  BY CallFacts DEF CallRecord
<1>2. /\ issue' = [issue EXCEPT ![f.issue] = rec]
      /\ calls' = (calls \ {f}) \cup {g}
  BY DEF Goes
<1> HIDE DEF g
<1>3. /\ rec.turn = f.token /\ rec.epoch = issue[f.issue].epoch
      /\ rec.status = "running" =>
           issue[f.issue].status = "running" /\ rec.takeover = issue[f.issue].takeover
  BY CallFacts DEF Edits, IssueRecord
<1>4. Replaces(f, g, rec, given)
  BY <1>1, <1>3 DEF Replaces
<1> QED BY <1>2, <1>4, ReplacedState

\* A call with no notices in hand, in a step that gives away none.
LEMMA NothingOwed ==
    ASSUME Inv, UNCHANGED owed, NEW i
    PROVE  owed' = [owed EXCEPT ![i] = @ \ {}]
BY DEF Inv, State, Types

\* The end of a container's start keeps the invariant: what was parked goes
\* to the model or into the hands of the call.
LEMMA BootsStep ==
    ASSUME Inv, NEW f \in calls, Boots(f)
    PROVE  Inv'
<1> DEFINE rec == issue[f.issue]
           hand == IF f.body = "first" THEN {} ELSE rec.parked
           taken == [rec EXCEPT !.parked = @ \ hand]
           told == IF f.body = "answer" THEN [taken EXCEPT !.asks = FALSE] ELSE taken
<1>1. /\ f.hand = {} /\ rec \in IssueRecord /\ UNCHANGED <<cancels, faults>>
      /\ rec.epoch \in 0..MaxFaults /\ hand \in SUBSET Notice /\ hand \subseteq rec.parked
  <2>1. f.hand = {} /\ rec \in IssueRecord /\ rec.epoch \in 0..MaxFaults
    BY CallFacts DEF Boots
  <2>2. hand \in SUBSET Notice /\ hand \subseteq rec.parked
    BY <2>1 DEF IssueRecord
  <2> QED BY <2>1, <2>2 DEF Boots, Undisturbed
<1>2. \/ Goes(f, taken, "open", hand, rec.epoch) /\ UNCHANGED owed
      \/ Return(f, Thrown(f, rec, FALSE)) /\ UNCHANGED owed
      \/ Tells(f, told, hand)
  BY DEF Boots, Unowed
<1>3. /\ taken \in IssueRecord /\ Edits([rec EXCEPT !.parked = {}], taken)
      /\ rec.parked \subseteq taken.parked \cup hand
      /\ told \in IssueRecord /\ Edits([rec EXCEPT !.parked = {}], told)
      /\ told.parked = taken.parked
  <2> HIDE DEF rec, hand
  <2>1. /\ taken \in IssueRecord /\ Edits([rec EXCEPT !.parked = {}], taken)
        /\ taken.parked = rec.parked \ hand
    BY <1>1 DEF IssueRecord, Edits
  <2>2. told \in IssueRecord /\ told.parked = taken.parked
    BY <2>1 DEF IssueRecord
  <2>3. Edits([rec EXCEPT !.parked = {}], told)
    BY <1>1, <2>1, <2>2 DEF IssueRecord, Edits
  <2> QED BY <2>1, <2>2, <2>3
<1> HIDE DEF taken, hand, told
<1>4. CASE Goes(f, taken, "open", hand, rec.epoch) /\ UNCHANGED owed
  <2>1. owed' = [owed EXCEPT ![f.issue] = @ \ {}]
    BY <1>4, NothingOwed
  <2> QED BY <1>1, <1>3, <1>4, <2>1, GoesState
<1>5. CASE Return(f, Thrown(f, rec, FALSE)) /\ UNCHANGED owed
  <2>1. Edits(issue[f.issue], rec) /\ f.hand \subseteq rec.parked
    BY <1>1 DEF Edits
  <2>2. Leaves(f, Thrown(f, rec, FALSE))
    BY <1>1, <2>1, ThrownLeaves
  <2> QED BY <1>1, <1>5, <2>2, ReturnedState
<1>6. CASE Tells(f, told, hand)
  <2>1. /\ Goes(f, told, "model", {}, None)
        /\ owed' = [owed EXCEPT ![f.issue] = @ \ hand]
    BY <1>6 DEF Tells
  <2> QED BY <1>1, <1>3, <2>1, GoesState
<1> QED BY <1>2, <1>4, <1>5, <1>6

\* The opening of a session gives the model what the call had in hand.
LEMMA OpensStep ==
    ASSUME Inv, NEW f \in calls, Opens(f)
    PROVE  Inv'
<1> DEFINE rec == issue[f.issue]
           last == IF f.body = "first" THEN rec.parked ELSE {}
           next == [rec EXCEPT !.driver = TRUE, !.parked = @ \ last]
<1>1. rec \in IssueRecord /\ last \subseteq rec.parked /\ UNCHANGED <<cancels, faults>>
  BY CallFacts DEF Opens, Undisturbed
<1>2. /\ Goes(f, next, "model", {}, None)
      /\ owed' = [owed EXCEPT ![f.issue] = @ \ (f.hand \cup last)]
  BY DEF Opens, Tells
<1>3. /\ next \in IssueRecord /\ Edits([rec EXCEPT !.parked = {}], next)
      /\ next.parked = rec.parked \ last
  <2> HIDE DEF rec, last
  <2> QED BY <1>1 DEF IssueRecord, Edits
<1>4. rec.parked \cup f.hand \subseteq next.parked \cup {} \cup (f.hand \cup last)
  BY <1>1, <1>3
<1> HIDE DEF next
<1> QED BY <1>1, <1>2, <1>3, <1>4, GoesState

\* A continuation takes the place over, so the call that ends releases
\* nothing.
LEMMA ContinuationState ==
    ASSUME NEW f \in calls, NEW rec \in IssueRecord, NEW body \in Body,
           NEW pc \in {"boot", "model"}, NEW given,
           Inv, f.hand = {}, rec.parked = issue[f.issue].parked,
           rec.epoch = issue[f.issue].epoch, rec.epoch = f.epoch,
           Continuation(f, rec, body, pc, given), UNCHANGED <<cancels, faults>>
    PROVE  Inv'
<1> DEFINE token == Fresh(f.issue, calls)
           next == [Call(f.issue, token, f.epoch, body) EXCEPT !.pc = pc]
           now == [rec EXCEPT !.status = "running", !.turn = token,
                              !.parked = @ \ given, !.steers = @ \ given]
<1>1. f \in CallRecord /\ f.issue \in Issue
  BY CallFacts
<1>2. token \in Token /\ token # f.token
  <2>1. \A g, h \in calls : g.issue = h.issue => g = h
    BY DEF Inv, State, Places
  <2> QED BY <1>1, <2>1, FreshToken
<1>3. /\ EndTurnSlot(f, now, (calls \ {f}) \cup {next})
      /\ owed' = [owed EXCEPT ![f.issue] = @ \ given]
  BY DEF Continuation
<1> HIDE DEF token
<1>4. /\ next \in CallRecord /\ next.issue = f.issue /\ next.token = token
      /\ next.epoch = f.epoch /\ next.hand = {} /\ next.pc = pc
  BY <1>1, <1>2 DEF Call, CallRecord
<1>5. /\ now \in IssueRecord /\ now.turn = token /\ now.epoch = rec.epoch
      /\ now.parked = rec.parked \ given
  BY <1>2 DEF IssueRecord, Status
<1> HIDE DEF now, next
<1>6. issue' = [issue EXCEPT ![f.issue] = now] /\ calls' = (calls \ {f}) \cup {next}
  BY <1>2, <1>3, <1>5 DEF EndTurnSlot, Unpumped
<1>7. Replaces(f, next, now, given)
  BY <1>4, <1>5 DEF Replaces
<1> QED BY <1>3, <1>6, <1>7, ReplacedState

\* What settle() makes of a turn that was not revoked.
LEMMA FinishedState ==
    ASSUME NEW f \in calls, NEW early \in BOOLEAN, Inv, f.hand = {}, ~Ignored(f),
           Finished(f, issue[f.issue], early), UNCHANGED <<cancels, faults>>
    PROVE  Inv'
<1> DEFINE rec == issue[f.issue]
           late == rec.steers \cup rec.parked
           nudged == [rec EXCEPT !.nudges = @ + 1]
           Settled(status) == [rec EXCEPT !.status = status]
<1>1. f.issue \in Issue /\ rec \in IssueRecord /\ rec.epoch = f.epoch
  BY CallFacts DEF Ignored
<1>2. \/ Return(f, Settled("waiting_user")) /\ UNCHANGED owed
      \/ Return(f, Settled("idle")) /\ UNCHANGED owed
      \/ Continuation(f, rec, "late", "model", late)
      \/ rec.nudges < NudgeBudget /\ Continuation(f, nudged, "nudge", "boot", {})
  BY DEF Finished, Unowed
<1> HIDE DEF rec
<1>3. ASSUME NEW status \in {"waiting_user", "idle"}, Return(f, Settled(status)), UNCHANGED owed
      PROVE  Inv'
  <2>1. /\ Settled(status) \in IssueRecord /\ Settled(status).turn = rec.turn
        /\ Settled(status).epoch = rec.epoch /\ Settled(status).parked = rec.parked
        /\ Settled(status).status # "running"
    BY <1>1, <1>3 DEF IssueRecord, Status
  <2>2. Leaves(f, Settled(status))
    BY <2>1 DEF Leaves, Edits, rec
  <2> HIDE DEF Settled
  <2> QED BY <1>3, <2>2, ReturnedState
<1>4. CASE Continuation(f, rec, "late", "model", late)
  BY <1>1, <1>4, ContinuationState DEF rec, Body
<1>5. CASE rec.nudges < NudgeBudget /\ Continuation(f, nudged, "nudge", "boot", {})
  <2>1. /\ nudged \in IssueRecord /\ nudged.epoch = rec.epoch /\ nudged.parked = rec.parked
    BY <1>1, <1>5, BoundAssumption DEF IssueRecord
  <2> HIDE DEF nudged
  <2> QED BY <1>1, <1>5, <2>1, ContinuationState DEF rec, Body
<1> QED BY <1>2, <1>3, <1>4, <1>5

\* A nudge goes to the model, or its turn is settled.
LEMMA NudgesStep ==
    ASSUME Inv, NEW f \in calls, Nudges(f)
    PROVE  Inv'
<1> DEFINE rec == issue[f.issue]
<1>1. f.hand = {} /\ rec \in IssueRecord /\ UNCHANGED <<cancels, faults>>
  BY CallFacts DEF Nudges, Undisturbed
<1>2. CASE rec.driver
  <2>1. Goes(f, rec, "model", {}, None) /\ UNCHANGED owed
    BY <1>2 DEF Nudges, Unowed
  <2>2. owed' = [owed EXCEPT ![f.issue] = @ \ {}]
    BY <2>1, NothingOwed
  <2>3. Edits([rec EXCEPT !.parked = {}], rec)
    <3> HIDE DEF rec
    <3> QED BY <1>1 DEF Edits, IssueRecord
  <2>4. issue[f.issue].parked \cup f.hand \subseteq rec.parked \cup {} \cup {}
    BY <1>1
  <2> QED BY <1>1, <2>1, <2>2, <2>3, <2>4, GoesState
<1>3. CASE ~rec.driver /\ Ignored(f)
  <2>1. Return(f, rec) /\ UNCHANGED owed
    BY <1>3 DEF Nudges, Unowed
  <2>2. Leaves(f, rec)
    BY <1>1, <1>3 DEF Leaves, Edits, Ignored
  <2> QED BY <1>1, <2>1, <2>2, ReturnedState
<1>4. CASE ~rec.driver /\ ~Ignored(f)
  <2>1. PICK early \in BOOLEAN : Finished(f, rec, early)
    BY <1>4 DEF Nudges, Early
  <2> QED BY <1>1, <1>4, <2>1, FinishedState
<1> QED BY <1>2, <1>3, <1>4

\* The end of a turn of the model keeps the invariant, however it ended.
LEMMA EndsStep ==
    ASSUME Inv, NEW f \in calls,
           EndsIgnored(f) \/ EndsFinished(f) \/ EndsAsking(f) \/ EndsBroken(f)
    PROVE  Inv'
<1> DEFINE rec == issue[f.issue]
<1>1. f.hand = {} /\ rec \in IssueRecord /\ UNCHANGED <<cancels, faults>>
  BY CallFacts DEF EndsIgnored, EndsFinished, EndsAsking, EndsBroken, Undisturbed
<1>2. CASE EndsFinished(f)
  <2>1. PICK early \in BOOLEAN : Finished(f, rec, early)
    BY <1>2 DEF EndsFinished, Early
  <2> QED BY <1>1, <1>2, <2>1, FinishedState DEF EndsFinished
<1>3. ASSUME NEW new \in IssueRecord, Return(f, new), UNCHANGED owed,
             new.turn = rec.turn, new.epoch = rec.epoch, new.parked = rec.parked,
             \/ new.status # "running"
             \/ Ignored(f) /\ new.status = rec.status /\ new.takeover = rec.takeover
      PROVE  Inv'
  <2>1. Leaves(f, new)
    BY <1>1, <1>3 DEF Leaves, Edits, Ignored
  <2> QED BY <1>1, <1>3, <2>1, ReturnedState
<1>4. CASE EndsIgnored(f)
  BY <1>1, <1>3, <1>4 DEF EndsIgnored, Unowed
<1>5. CASE EndsAsking(f)
  <2> DEFINE asking == [rec EXCEPT !.card = TRUE, !.asks = TRUE]
             new == IF Ignored(f) THEN asking ELSE [asking EXCEPT !.status = "waiting_user"]
  <2>1. Return(f, new) /\ UNCHANGED owed
    BY <1>5 DEF EndsAsking, Unowed
  <2>2. /\ new \in IssueRecord /\ new.turn = rec.turn /\ new.epoch = rec.epoch /\ new.parked = rec.parked
        /\ \/ new.status # "running"
           \/ Ignored(f) /\ new.status = rec.status /\ new.takeover = rec.takeover
    <3> HIDE DEF rec
    <3> QED BY <1>1 DEF IssueRecord, Status
  <2> HIDE DEF new
  <2> QED BY <1>3, <2>1, <2>2
<1>6. CASE EndsBroken(f)
  <2> DEFINE idle == [rec EXCEPT !.status = "idle"]
             failed == ReleaseDriver([rec EXCEPT !.status = "failed"])
  <2>1. (Return(f, idle) \/ Return(f, failed)) /\ UNCHANGED owed
    BY <1>6 DEF EndsBroken, Unowed
  <2>2. /\ idle \in IssueRecord /\ idle.turn = rec.turn /\ idle.epoch = rec.epoch
        /\ idle.parked = rec.parked /\ idle.status # "running"
    <3> HIDE DEF rec
    <3> QED BY <1>1 DEF IssueRecord, Status
  <2>3. /\ failed \in IssueRecord /\ failed.turn = rec.turn /\ failed.epoch = rec.epoch
        /\ failed.parked = rec.parked /\ failed.status # "running"
    <3> HIDE DEF rec
    <3> QED BY <1>1 DEF IssueRecord, Status, Terminal, ReleaseDriver
  <2> HIDE DEF idle, failed
  <2> QED BY <1>3, <2>1, <2>2, <2>3
<1> QED BY <1>2, <1>4, <1>5, <1>6

-----------------------------------------------------------------------------
\* People and the platform.

\* A step that only edits one session, and may owe it one more notice it has
\* parked.
LEMMA EditStep ==
    ASSUME NEW i \in Issue, NEW rec, Inv, Edits(issue[i], rec),
           issue' = [issue EXCEPT ![i] = rec],
           \/ owed' = owed
           \/ \E x \in rec.parked : owed' = [owed EXCEPT ![i] = @ \cup {x}],
           UNCHANGED <<calls, cancels, faults>>
    PROVE  Inv'
<1>1. owed \in [Issue -> SUBSET Notice] /\ rec \in IssueRecord
  BY DEF Inv, State, Types, Edits
<1>2. OwedAfter(owed, owed', i, rec)
  BY <1>1 DEF IssueRecord, OwedAfter
<1>3. State(issue', calls, cancels, owed', faults)
  BY <1>2, EditedState DEF Inv
<1> QED BY <1>3 DEF Inv

\* A step that edits a session without a turn and begins one.
LEMMA BeginStep ==
    ASSUME NEW i \in Issue, NEW rec, NEW body \in Body, Inv, Edits(issue[i], rec),
           issue[i].turn = None, BeginTurn(i, rec, body), UNCHANGED <<owed, cancels, faults>>
    PROVE  Inv'
<1> DEFINE recs == [issue EXCEPT ![i] = rec]
<1>1. owed \in [Issue -> SUBSET Notice] /\ rec.turn = None /\ issue \in [Issue -> IssueRecord]
  BY DEF Inv, State, Types, Edits
<1>2. State(recs, calls, cancels, owed, faults)
  <2>1. OwedAfter(owed, owed, i, rec)
    BY <1>1 DEF OwedAfter
  <2> QED BY <2>1, EditedState DEF Inv
<1> HIDE DEF recs
<1>3. State(issue', calls', cancels, owed, faults)
  BY <1>1, <1>2, BeginTurnState DEF recs
<1> QED BY <1>3 DEF Inv

\* The record of a session, and that it may stay as it is.
LEMMA SessionFacts ==
    ASSUME Inv, NEW i \in Issue
    PROVE  issue[i] \in IssueRecord /\ Edits(issue[i], issue[i])
BY DEF Inv, State, Types, Edits

\* A notice that is steered into a turn or parked is not lost.
LEMMA SteersState ==
    ASSUME NEW i \in Issue, NEW n \in Notice, NEW rec, Inv, Edits(issue[i], rec),
           Steers(i, rec, n) \/ Parks(i, rec, n), UNCHANGED <<cancels, faults>>
    PROVE  Inv'
<1>1. rec \in IssueRecord
  BY DEF Edits
<1>2. CASE Parks(i, rec, n)
  <2> DEFINE new == [rec EXCEPT !.parked = @ \cup {n}]
  <2>1. Edits(issue[i], new) /\ n \in new.parked
    BY <1>1 DEF Edits, IssueRecord
  <2>2. /\ issue' = [issue EXCEPT ![i] = new] /\ owed' = [owed EXCEPT ![i] = @ \cup {n}]
        /\ UNCHANGED calls
    BY <1>2 DEF Parks
  <2> HIDE DEF new
  <2> QED BY <2>1, <2>2, EditStep
<1>3. CASE Steers(i, rec, n) /\ ~Parks(i, rec, n)
  <2> DEFINE new == [rec EXCEPT !.steers = @ \cup {n}]
  <2>1. Edits(issue[i], new)
    BY <1>1 DEF Edits, IssueRecord
  <2>2. issue' = [issue EXCEPT ![i] = new] /\ UNCHANGED <<calls, owed>>
    BY <1>3 DEF Steers, Unowed
  <2> HIDE DEF new
  <2> QED BY <2>1, <2>2, EditStep
<1> QED BY <1>2, <1>3

\* A notice that is counted.
LEMMA CountedEdits ==
    ASSUME NEW old, NEW rec, Edits(old, rec), rec.notices < MaxNotices
    PROVE  Edits(old, Counted(rec))
<1>1. rec \in IssueRecord /\ rec.notices + 1 \in 0..MaxNotices
  BY BoundAssumption DEF Edits, IssueRecord
<1> QED BY <1>1 DEF Edits, Counted, IssueRecord

\* startPlatformTurn keeps the invariant in each of its three outcomes.
LEMMA StartPlatformTurnState ==
    ASSUME NEW i \in Issue, NEW n \in Notice, NEW rec, Inv, Edits(issue[i], rec),
           rec.notices < MaxNotices, StartPlatformTurn(i, rec, n), UNCHANGED <<cancels, faults>>
    PROVE  Inv'
<1>1. Edits(issue[i], Counted(rec))
  BY CountedEdits
<1>2. rec.turn = issue[i].turn
  BY DEF Edits
<1>3. \/ Steers(i, Counted(rec), n)
      \/ rec.turn = None /\ BeginTurn(i, Counted(rec), "resume") /\ UNCHANGED owed
      \/ Parks(i, Counted(rec), n)
  BY DEF StartPlatformTurn, Unowed
<1>4. "resume" \in Body
  BY DEF Body
<1>5. CASE rec.turn = None /\ BeginTurn(i, Counted(rec), "resume") /\ UNCHANGED owed
  BY <1>1, <1>2, <1>4, <1>5, BeginStep
<1> QED BY <1>1, <1>3, <1>5, SteersState

\* What the platform reports keeps the invariant.
LEMMA PlatformStep ==
    ASSUME Inv, NEW i \in Issue, NEW n \in Notice, Platform(i, n)
    PROVE  Inv'
<1>1. UNCHANGED <<cancels, faults>> /\ issue[i].notices < MaxNotices
  BY DEF Platform, PlatformNotice, Steer, Environment, Review, Arrives, Undisturbed
<1>2. issue[i] \in IssueRecord /\ Edits(issue[i], issue[i])
  BY SessionFacts
<1>3. CASE PlatformNotice(i, n)
  BY <1>1, <1>2, <1>3, StartPlatformTurnState DEF PlatformNotice
<1>4. CASE Steer(i, n)
  BY <1>1, <1>2, <1>4, SteersState, CountedEdits DEF Steer
<1>5. CASE Environment(i, n)
  <2> DEFINE rec == [issue[i] EXCEPT !.gate = None,
                                     !.status = IF @ = "waiting_user" THEN "idle" ELSE @]
  <2>1. StartPlatformTurn(i, rec, n)
    BY <1>5 DEF Environment
  <2>2. Edits(issue[i], rec) /\ rec.notices = issue[i].notices
    BY <1>2 DEF Edits, IssueRecord, Status
  <2> HIDE DEF rec
  <2> QED BY <1>1, <2>1, <2>2, StartPlatformTurnState
<1>6. CASE Review(i, n)
  <2>1. PICK withdraws \in BOOLEAN :
          LET next == IF withdraws THEN [issue[i] EXCEPT !.card = FALSE] ELSE issue[i] IN
          \/ Idle(i) /\ BeginTurn(i, Counted(next), "resume") /\ UNCHANGED owed
          \/ StartPlatformTurn(i, next, n)
    BY <1>6 DEF Review, Unowed
  <2> DEFINE next == IF withdraws THEN [issue[i] EXCEPT !.card = FALSE] ELSE issue[i]
  <2>2. Edits(issue[i], next) /\ next.notices = issue[i].notices
    BY <1>2 DEF Edits, IssueRecord
  <2>3. \/ Idle(i) /\ BeginTurn(i, Counted(next), "resume") /\ UNCHANGED owed
        \/ StartPlatformTurn(i, next, n)
    BY <2>1
  <2> HIDE DEF next
  <2>4. CASE Idle(i) /\ BeginTurn(i, Counted(next), "resume") /\ UNCHANGED owed
    <3>1. Edits(issue[i], Counted(next)) /\ issue[i].turn = None /\ "resume" \in Body
      BY <1>1, <2>2, <2>4, CountedEdits DEF Idle, Body
    <3> QED BY <1>1, <2>4, <3>1, BeginStep
  <2> QED BY <1>1, <2>2, <2>3, <2>4, StartPlatformTurnState
<1> QED BY <1>3, <1>4, <1>5, <1>6 DEF Platform

\* What the owner and the merge do to a session keeps the invariant.
LEMMA OwnerStep ==
    ASSUME Inv, NEW i \in Issue,
           \/ AnswerGate(i) \/ AnswerCard(i) \/ Reply(i) \/ Takeover(i)
           \/ ResumeFromTakeover(i) \/ Revive(i)
           \/ DismissStaleGate(i) \/ Merged(i)
    PROVE  Inv'
<1> DEFINE old == issue[i]
           noGate == [old EXCEPT !.gate = None]
           noCard == [old EXCEPT !.card = FALSE]
           mine == [old EXCEPT !.takeover = FALSE]
           idle == [noGate EXCEPT !.status = "idle"]
           done == ReleaseDriver([noGate EXCEPT !.status = "archived"])
           closed == Archived(old)
           taken == [old EXCEPT !.takeover = TRUE, !.status = "idle",
                                !.asks = IF old.status = "running" THEN FALSE ELSE @]
           stale == [old EXCEPT !.gate = None, !.card = FALSE,
                                !.status = IF @ = "waiting_user" THEN "idle" ELSE @]
<1>1. old \in IssueRecord /\ Edits(old, old)
  BY SessionFacts
<1>2. UNCHANGED <<owed, cancels, faults>>
  BY DEF AnswerGate, AnswerCard, Reply, Takeover, ResumeFromTakeover, Revive,
         DismissStaleGate, Merged, Unowed, Undisturbed
<1>3. \/ /\ old.turn = None
         /\ \/ BeginTurn(i, old, "resume") \/ BeginTurn(i, noGate, "resume")
            \/ BeginTurn(i, noCard, "resume") \/ BeginTurn(i, noCard, "answer")
            \/ old.status # "running" /\ BeginTurn(i, mine, "resume")
      \/ /\ UNCHANGED calls
         /\ \/ issue' = [issue EXCEPT ![i] = idle] \/ issue' = [issue EXCEPT ![i] = done]
            \/ issue' = [issue EXCEPT ![i] = closed] \/ issue' = [issue EXCEPT ![i] = taken]
            \/ issue' = [issue EXCEPT ![i] = stale]
  <2>1. CASE AnswerGate(i)
    BY <2>1 DEF AnswerGate, Idle
  <2>2. CASE AnswerCard(i) \/ Reply(i) \/ Revive(i)
    BY <2>2 DEF AnswerCard, Reply, Revive, Idle
  <2>3. CASE ResumeFromTakeover(i)
    BY <2>3 DEF ResumeFromTakeover, Idle
  <2>4. CASE Takeover(i)
    BY <2>4 DEF Takeover
  <2>5. CASE DismissStaleGate(i) \/ Merged(i)
    BY <2>5 DEF DismissStaleGate, Merged
  <2> QED BY <2>1, <2>2, <2>3, <2>4, <2>5
<1> HIDE DEF old
<1>4. /\ Edits(old, noGate) /\ Edits(old, noCard)
      /\ old.status # "running" => Edits(old, mine)
  BY <1>1 DEF Edits, IssueRecord
<1>5. Edits(old, idle) /\ Edits(old, done) /\ Edits(old, closed)
  BY <1>1 DEF Edits, IssueRecord, Status, Terminal, ReleaseDriver, Archived
<1>6. Edits(old, taken) /\ Edits(old, stale)
  BY <1>1 DEF Edits, IssueRecord, Status
<1>7. "resume" \in Body /\ "answer" \in Body
  BY DEF Body
<1> HIDE DEF noGate, noCard, mine, idle, done, closed, taken, stale
<1>8. ASSUME NEW rec, NEW body \in Body, Edits(old, rec), old.turn = None, BeginTurn(i, rec, body)
      PROVE  Inv'
  BY <1>2, <1>8, BeginStep DEF old
<1>9. ASSUME NEW rec, Edits(old, rec), UNCHANGED calls, issue' = [issue EXCEPT ![i] = rec]
      PROVE  Inv'
  BY <1>2, <1>9, EditStep DEF old
<1> QED BY <1>1, <1>3, <1>4, <1>5, <1>6, <1>7, <1>8, <1>9

\* A tool of the agent changes the gate of its session.
LEMMA ToolGatesStep ==
    ASSUME Inv, NEW f \in calls, ToolGates(f)
    PROVE  Inv'
<1>1. PICK gate \in Gate \cup {None} : issue' = [issue EXCEPT ![f.issue].gate = gate]
  BY DEF ToolGates
<1> DEFINE rec == [issue[f.issue] EXCEPT !.gate = gate]
<1>2. f.issue \in Issue /\ issue[f.issue] \in IssueRecord /\ issue \in [Issue -> IssueRecord]
  BY CallFacts DEF Inv, State, Types
<1>3. Edits(issue[f.issue], rec)
  BY <1>2 DEF Edits, IssueRecord
<1>4. issue' = [issue EXCEPT ![f.issue] = rec]
  BY <1>1, <1>2
<1> HIDE DEF rec
<1> QED BY <1>2, <1>3, <1>4, EditStep DEF ToolGates, Unowed, Undisturbed

-----------------------------------------------------------------------------
\* Cancels and crashes.

\* A session whose record changed otherwise than by an edit: what the
\* invariant asks of it.
LEMMA CanceledState ==
    ASSUME NEW i \in Issue, NEW rec \in IssueRecord, Inv,
           issue' = [issue EXCEPT ![i] = rec], UNCHANGED <<calls, owed>>,
           rec.turn = issue[i].turn, rec.epoch <= faults', rec.parked = issue[i].parked,
           cancels' \subseteq CancelRecord, faults' \in 0..MaxFaults, faults <= faults',
           \A c \in cancels : c.issue # i => c \in cancels',
           rec.status = "running" =>
             \/ \E c \in cancels' : c.issue = i /\ c.previous = "running"
             \/ /\ issue[i].status = "running" /\ rec.epoch = issue[i].epoch
                /\ rec.takeover = issue[i].takeover
                /\ \A c \in cancels : c.previous = "running" => c \in cancels'
    PROVE  Inv'
<1>1. /\ issue \in [Issue -> IssueRecord] /\ faults \in Nat /\ faults' \in Nat
      /\ \A f \in calls : f.issue \in Issue
      /\ \A j \in Issue : issue[j].epoch \in Nat
  BY BoundAssumption DEF Inv, State, Types, CallRecord, IssueRecord
<1>2. /\ issue' \in [Issue -> IssueRecord] /\ issue'[i] = rec
      /\ \A j \in Issue \ {i} : issue'[j] = issue[j]
  BY <1>1
<1>3. Types(issue', calls', cancels', owed', faults')
  <2>1. \A j \in Issue : issue'[j].epoch <= faults'
    BY <1>1, <1>2 DEF Inv, State, Types
  <2> QED BY <1>2, <2>1 DEF Inv, State, Types
<1>4. Places(issue', calls')
  BY <1>1, <1>2 DEF Inv, State, Places
<1>5. ASSUME NEW j \in Issue, issue'[j].status = "running"
      PROVE  \/ Excused(issue', cancels', j)
             \/ /\ issue[j].status = "running" /\ issue'[j].epoch = issue[j].epoch
                /\ ~Excused(issue, cancels, j)
  BY <1>2, <1>5 DEF Excused
<1>6. Runs(issue', calls', cancels')
  <2>1. \A j \in Issue : issue'[j].turn = issue[j].turn
    BY <1>2
  <2> QED BY <1>1, <1>5, <2>1 DEF Inv, State, Runs
<1>7. Hands(issue', calls', owed')
  <2>1. \A j \in Issue : issue'[j].parked = issue[j].parked
    BY <1>2
  <2> QED BY <2>1 DEF Inv, State, Hands
<1> QED BY <1>3, <1>4, <1>6, <1>7 DEF Inv, State

\* A cancel that begins keeps the invariant: its epoch is new.
LEMMA CancelStep ==
    ASSUME Inv, NEW i \in Issue, Cancel(i)
    PROVE  Inv'
<1> DEFINE old == issue[i]
           rec == [old EXCEPT !.epoch = @ + 1, !.takeover = FALSE, !.gate = None, !.asks = FALSE]
           new == [issue |-> i, previous |-> old.status, epoch |-> old.epoch + 1]
<1>1. /\ old \in IssueRecord /\ old.epoch \in Nat /\ old.epoch <= faults
      /\ faults \in Nat /\ faults < MaxFaults /\ cancels \subseteq CancelRecord
  BY BoundAssumption DEF Cancel, Inv, State, Types, IssueRecord
<1>2. /\ issue' = [issue EXCEPT ![i] = rec] /\ cancels' = cancels \cup {new}
      /\ faults' = faults + 1 /\ UNCHANGED <<calls, owed>>
  BY DEF Cancel, Unowed
<1>3. old.epoch + 1 \in 1..MaxFaults /\ old.epoch + 1 <= faults' /\ faults' \in 0..MaxFaults
  BY <1>1, <1>2, BoundAssumption
<1> HIDE DEF old
<1>4. /\ rec \in IssueRecord /\ rec.turn = old.turn /\ rec.epoch = old.epoch + 1
      /\ rec.parked = old.parked /\ rec.status = old.status
  <2>1. old.epoch + 1 \in 0..MaxFaults
    BY <1>1, <1>3, BoundAssumption
  <2> QED BY <1>1, <2>1 DEF IssueRecord
<1>5. new \in CancelRecord /\ new.issue = i /\ new.previous = old.status
  BY <1>1, <1>3 DEF CancelRecord, IssueRecord
<1> HIDE DEF rec, new
<1>6. rec.status = "running" => \E c \in cancels' : c.issue = i /\ c.previous = "running"
  BY <1>2, <1>4, <1>5
<1>7. faults <= faults' /\ rec.epoch <= faults'
  BY <1>1, <1>2, <1>3, <1>4
<1>8. cancels' \subseteq CancelRecord /\ \A c \in cancels : c \in cancels'
  BY <1>1, <1>2, <1>5
<1> QED BY <1>2, <1>3, <1>4, <1>6, <1>7, <1>8, CanceledState DEF old

\* A cancel that ends or fails keeps the invariant.
LEMMA CancelOutcome ==
    ASSUME Inv, NEW c \in cancels, CancelEnds(c) \/ CancelFails(c)
    PROVE  Inv'
<1> DEFINE i == c.issue
           old == issue[i]
           ended == ReleaseDriver([old EXCEPT !.status = "canceled", !.gate = None, !.card = FALSE])
           failed == [old EXCEPT !.status = IF c.previous = "running" THEN "idle" ELSE @]
<1>1. /\ i \in Issue /\ old \in IssueRecord /\ old.epoch <= faults
      /\ cancels \subseteq CancelRecord /\ faults \in 0..MaxFaults /\ faults <= faults
      /\ issue \in [Issue -> IssueRecord]
  BY BoundAssumption DEF Inv, State, Types, CancelRecord
<1>2. /\ UNCHANGED <<calls, owed, faults>> /\ cancels' = cancels \ {c}
      /\ issue' = [issue EXCEPT ![i] = ended] \/ issue' = [issue EXCEPT ![i] = failed]
  BY <1>1 DEF CancelEnds, CancelFails, Unowed
<1>3. cancels' \subseteq CancelRecord /\ \A k \in cancels : k.issue # i => k \in cancels'
  BY <1>1, <1>2
<1> HIDE DEF old
<1>4. /\ ended \in IssueRecord /\ ended.turn = old.turn /\ ended.epoch = old.epoch
      /\ ended.parked = old.parked /\ ended.status # "running"
  BY <1>1 DEF ReleaseDriver, IssueRecord, Status, Terminal
<1>5. /\ failed \in IssueRecord /\ failed.turn = old.turn /\ failed.epoch = old.epoch
      /\ failed.parked = old.parked /\ failed.takeover = old.takeover
      /\ failed.status = "running" => old.status = "running" /\ c.previous # "running"
  BY <1>1 DEF IssueRecord, Status
<1>6. failed.status = "running" => \A k \in cancels : k.previous = "running" => k \in cancels'
  BY <1>2, <1>5
<1> HIDE DEF ended, failed, i
<1>7. CASE issue' = [issue EXCEPT ![i] = ended]
  BY <1>1, <1>2, <1>3, <1>4, <1>7, CanceledState DEF old
<1>8. CASE issue' = [issue EXCEPT ![i] = failed]
  BY <1>1, <1>2, <1>3, <1>5, <1>6, <1>8, CanceledState DEF old
<1> QED BY <1>2, <1>7, <1>8

\* Crash and recovery keep the invariant.
LEMMA CrashStep ==
    ASSUME Inv, Crash
    PROVE  Inv'
<1> DEFINE recs == [i \in Issue |-> Recovered(issue[i])]
<1>1. \A i \in Issue : issue[i] \in IssueRecord
  BY DEF Inv, State, Types
<1>2. /\ faults < MaxFaults /\ cancels = {} /\ faults' = faults + 1 /\ cancels' = cancels
      /\ Pumped(recs, {})
      /\ owed' = [i \in Issue |-> owed[i] \ UNION {f.hand : f \in CallsOf(i)}]
  BY DEF Crash
<1>3. faults' \in 0..MaxFaults /\ 0 <= faults' /\ 0 \in 0..MaxFaults
  BY <1>2, BoundAssumption DEF Inv, State, Types
<1>4. ASSUME NEW i \in Issue
      PROVE  /\ Recovered(issue[i]) \in IssueRecord /\ Recovered(issue[i]).turn = None
             /\ Recovered(issue[i]).epoch = 0 /\ Recovered(issue[i]).status # "running"
             /\ Recovered(issue[i]).parked = issue[i].parked
  <2> DEFINE old == issue[i]
             released == ReleaseDriver(old)
             status == IF old.status = "running" THEN "queued" ELSE old.status
             card == IF status = "waiting_user" THEN old.card ELSE FALSE
             resuming == old.status = "running"
  <2>1. Recovered(old) = [released EXCEPT !.status = status, !.epoch = 0, !.turn = None,
                                          !.resumeMessage = resuming, !.card = card]
    BY <1>1 DEF Recovered, ReleaseDriver, IssueRecord
  <2>2. /\ status \in Status /\ status # "running" /\ card \in BOOLEAN /\ resuming \in BOOLEAN
    <3>1. old.status \in Status /\ old.card \in BOOLEAN
      BY <1>1 DEF IssueRecord
    <3> QED BY <3>1 DEF Status
  <2> HIDE DEF status, card, resuming, old
  <2>3. released \in IssueRecord /\ released.parked = old.parked
    BY <1>1 DEF old, ReleaseDriver, IssueRecord
  <2> HIDE DEF released
  <2>4. Recovered(old) \in IssueRecord
    BY <1>3, <2>1, <2>2, <2>3 DEF IssueRecord
  <2>5. /\ Recovered(old).turn = None /\ Recovered(old).epoch = 0
        /\ Recovered(old).status = status /\ Recovered(old).parked = released.parked
    BY <2>1, <2>3 DEF IssueRecord
  <2> QED BY <2>2, <2>3, <2>4, <2>5 DEF old
<1>5. /\ recs \in [Issue -> IssueRecord]
      /\ \A i \in Issue : /\ recs[i].turn = None /\ recs[i].epoch = 0 /\ recs[i].status # "running"
                          /\ recs[i].parked = issue[i].parked
  BY <1>4
<1> HIDE DEF recs
<1>6. Types(recs, {}, cancels', owed', faults')
  <2>1. owed' \in [Issue -> SUBSET Notice]
    BY <1>2 DEF Inv, State, Types
  <2> QED BY <1>2, <1>3, <1>5, <2>1 DEF Inv, State, Types
<1>7. Places(recs, {}) /\ Runs(recs, {}, cancels')
  BY <1>5 DEF Places, Runs
<1>8. Hands(recs, {}, owed')
  <2>1. ASSUME NEW i \in Issue, NEW x \in owed'[i]
        PROVE  x \in recs[i].parked
    <3>1. x \in owed[i] /\ \A f \in calls : f.issue = i => x \notin f.hand
      BY <1>2, <2>1 DEF CallsOf
    <3> QED BY <1>5, <3>1 DEF Inv, State, Hands
  <2> QED BY <2>1 DEF Hands
<1>9. State(recs, {}, cancels', owed', faults')
  BY <1>6, <1>7, <1>8 DEF State
<1> QED BY <1>2, <1>9, PumpedState DEF Inv

-----------------------------------------------------------------------------
\* The theorems.

\* The invariant holds at the start.
LEMMA InitInv == Init => Inv
<1> SUFFICES ASSUME Init PROVE Inv
  OBVIOUS
<1> DEFINE recs == [i \in Issue |-> NewIssue]
           start == Chosen(recs)
           call == [i \in Issue |-> Call(i, 1, 0, "first")]
<1>1. /\ issue = [i \in Issue |-> IF i \in start THEN Begun(recs[i], 1) ELSE recs[i]]
      /\ calls = {Call(i, 1, 0, "first") : i \in start}
      /\ cancels = {} /\ owed = [i \in Issue |-> {}] /\ faults = 0
  BY DEF Init
<1>2. start \subseteq Issue
  BY DEF Chosen
<1>3. {Call(i, 1, 0, "first") : i \in start} = {call[i] : i \in start}
  <2>1. \A i \in start : call[i] = Call(i, 1, 0, "first")
    BY <1>2
  <2> HIDE DEF start, call
  <2> QED BY <2>1
<1>4. 1 \in Token /\ 0 \in 0..MaxFaults /\ 0 \in 0..NudgeBudget /\ 0 \in 0..MaxNotices
      /\ "first" \in Body /\ 0 <= 0
  <2>1. Cardinality(Issue) \in Nat
    BY IssueAssumption, FS_CardinalityType
  <2> QED BY <2>1, BoundAssumption DEF Token, Body
<1>5. /\ NewIssue \in IssueRecord /\ NewIssue.turn = None /\ NewIssue.epoch = 0
      /\ NewIssue.status # "running" /\ NewIssue.parked = {}
  BY <1>4 DEF NewIssue, IssueRecord, Status
<1>6. State(recs, {}, {}, owed, 0)
  BY <1>1, <1>4, <1>5 DEF State, Types, Places, Runs, Hands
<1>7. /\ Begun(NewIssue, 1) \in IssueRecord /\ Begun(NewIssue, 1).turn = 1
      /\ Begun(NewIssue, 1).epoch = 0 /\ Begun(NewIssue, 1).parked = NewIssue.parked
  BY <1>4, <1>5, BegunRecord
<1>8. \A i \in Issue : /\ call[i] \in CallRecord /\ call[i].issue = i /\ call[i].token = 1
                       /\ call[i].epoch = 0 /\ call[i].hand = {}
  BY <1>4, NewCall
<1>9. \A i \in Issue : recs[i] = NewIssue
  OBVIOUS
<1> HIDE DEF recs, start, call
<1>10. /\ issue \in [Issue -> IssueRecord]
       /\ \A i \in start : issue[i] = Begun(NewIssue, 1)
       /\ \A i \in Issue \ start : issue[i] = recs[i]
  BY <1>1, <1>2, <1>5, <1>7, <1>9
<1>11. Begins(recs, {}, issue, calls, start, call)
  BY <1>1, <1>2, <1>3, <1>4, <1>5, <1>7, <1>8, <1>9, <1>10 DEF Begins
<1>12. State(issue, calls, {}, owed, 0)
  BY <1>6, <1>11, Beginning
<1> QED BY <1>1, <1>12 DEF Inv

\* Every step of the service keeps the invariant.
LEMMA NextInv == Inv /\ [Next]_vars => Inv'
<1> SUFFICES ASSUME Inv, [Next]_vars PROVE Inv'
  OBVIOUS
<1>1. CASE UNCHANGED vars
  BY <1>1 DEF vars, Inv
<1>2. ASSUME NEW f \in calls, Advance(f) \/ ToolGates(f) PROVE Inv'
  BY <1>2, ThrowsStep, BootsStep, OpensStep, NudgesStep, EndsStep, ToolGatesStep DEF Advance
<1>3. ASSUME NEW i \in Issue, Owner(i) \/ DismissStaleGate(i) \/ Merged(i) PROVE Inv'
  BY <1>3, OwnerStep, CancelStep DEF Owner
<1>4. ASSUME NEW i \in Issue, NEW n \in Notice, Platform(i, n) PROVE Inv'
  BY <1>4, PlatformStep
<1>5. ASSUME NEW c \in cancels, CancelEnds(c) \/ CancelFails(c) PROVE Inv'
  BY <1>5, CancelOutcome
<1> QED BY <1>1, <1>2, <1>3, <1>4, <1>5, CrashStep DEF Next

\* The invariant holds of every reachable state.
THEOREM Invariance == Spec => []Inv
BY InitInv, NextInv, PTL DEF Spec

\* The variables keep their types.
THEOREM TypeCorrect == Spec => []TypeOK
<1>1. Inv => TypeOK
  BY DEF Inv, State, Types, TypeOK
<1> QED BY Invariance, <1>1, PTL

\* A session has one turn under way at most, which holds its place until it
\* ends, and a session that says it is running has one unless it is excused.
THEOREM TurnsAreAccounted == Spec => []TurnsAccounted
<1>1. Inv => TurnsAccounted
  <2> SUFFICES ASSUME Inv, NEW i \in Issue
               PROVE  /\ Cardinality(CallsOf(i)) <= 1
                      /\ {f.token : f \in CallsOf(i)} = {issue[i].turn} \ {None}
                      /\ issue[i].status = "running" =>
                             issue[i].turn # None \/ issue[i].takeover \/ CancelsOf(i) # {}
    BY DEF TurnsAccounted
  <2>1. \A f \in CallsOf(i) : f \in calls /\ f.issue = i /\ issue[i].turn = f.token
    BY DEF CallsOf, Inv, State, Places
  <2>2. Cardinality(CallsOf(i)) <= 1
    <3>1. CASE CallsOf(i) = {}
      <4>1. Cardinality({}) = 0
        BY FS_EmptySet
      <4> QED BY <3>1, <4>1
    <3>2. CASE CallsOf(i) # {}
      <4>1. PICK f \in CallsOf(i) : TRUE
        BY <3>2
      <4>2. CallsOf(i) = {f}
        BY <2>1, <4>1 DEF Inv, State, Places
      <4>3. Cardinality({f}) = 1
        BY FS_Singleton
      <4> QED BY <4>2, <4>3
    <3> QED BY <3>1, <3>2
  <2>3. {f.token : f \in CallsOf(i)} = {issue[i].turn} \ {None}
    <3>1. \A f \in CallsOf(i) : f.token # None
      BY <2>1, NoneAssumption DEF Inv, State, Types, CallRecord, Token
    <3>2. issue[i].turn # None => \E f \in CallsOf(i) : f.token = issue[i].turn
      BY DEF CallsOf, Inv, State, Places
    <3> QED BY <2>1, <3>1, <3>2
  <2>4. /\ issue[i].status = "running"
        => issue[i].turn # None \/ issue[i].takeover \/ CancelsOf(i) # {}
    BY DEF CancelsOf, Inv, State, Runs, Excused
  <2> QED BY <2>2, <2>3, <2>4
<1> QED BY Invariance, <1>1, PTL

\* A notice that was parked is still parked, in the hands of a turn that is
\* opening its session, or has reached the model.
THEOREM NoticesAreKept == Spec => []NoticesKept
<1>1. Inv => NoticesKept
  BY DEF NoticesKept, CallsOf, Inv, State, Hands
<1> QED BY Invariance, <1>1, PTL
=============================================================================
