--------------------------- MODULE DeliveryProofs ---------------------------
(***************************************************************************)
(* What the delivery of a task guarantees for any changes, budget of       *)
(* repairs, faults and number of outside events: a paused task stays where *)
(* it is, and a task is completed only by a merge that holds its work.     *)
(*                                                                         *)
(* A step of the service passes its record through functions, so the       *)
(* invariant is stated of any record `h` and any state `mr` of the merge   *)
(* request on the platform, and each function is shown to keep it.         *)
(*                                                                         *)
(* The second part is about commits: a pipeline is triggered once for each *)
(* of them, and a repair is paid for one that was red.  Sound says what a  *)
(* record and its calls may know of the commits, Paid what the platform    *)
(* does.                                                                   *)
(*                                                                         *)
(* The third part is about the wait for the merge: what the task waits     *)
(* with was passed by the kernel.  Waits says it of a record, with the     *)
(* deliveries that are still under way; Rests and Quiet say what functions *)
(* may do to such a record, Bears what a step may make of it.              *)
(***************************************************************************)
EXTENDS Delivery, TLAPS

Status == {"queued", "running", "verifying", "await_merge", "paused", "failed", "completed"}
Delivering == {"turn", "recovery", "call"}
Owner == Delivering \cup {"poll", "watch", "merged", None}
Known == {"none", "running", "success", "failed", "not_found", "unavailable"}
Run == {"none", "running", "success", "failed", "mixed"}
MergeState == {"none", "opened", "closed", "merged"}

MaybeSha == Commit \cup {None}
MaybeEpoch == Nat \cup {None}
How == BOOLEAN \cup {"ask", "trigger", "success", "failed", "merged", "closed", None}

CallRecord ==
    [kind : Kinds, epoch : Nat, owner : Owner, sha : MaybeSha, how : How, mark : BOOLEAN]

\* The values of the fields of a task.
From == {"verifying", "queued", None}
Pipeline == Known \cup {"retry", None}
Deadline == {"none", "open", "past"}
Loop == {"verifying", "repairing", "halted", "closed", "exhausted", "merged", "green", None}
Round == 0 .. MaxRound + 1
Max == {MaxRound, None}
Gap == {"retrying", "late", "waiting_human", None}
Poll == [sha : Commit, epoch : Nat] \cup {None}
Evidence == [epoch : Nat, sha : Commit, stale : BOOLEAN] \cup {None}
Repair == [epoch : Nat, sha : Commit] \cup {None}
Watch == {"off", "wait", "busy", "act"}
View == [sha : Commit, red : BOOLEAN] \cup {None}

Host ==
    [status : Status, controlEpoch : Nat, driver : MaybeEpoch, stopping : MaybeEpoch,
     from : From, sha : MaybeSha, mr : BOOLEAN, pipeline : Pipeline, stalled : BOOLEAN,
     verify_deadline : Deadline, loop : Loop, round : Round, max : Max, gap : Gap,
     closed : BOOLEAN, deliveryActive : BOOLEAN, poll : Poll, recovery : MaybeEpoch,
     limit : MaybeEpoch, evidence : Evidence, repair : Repair, watch : Watch,
     view : View, calls : SUBSET CallRecord]

Site ==
    [branch : Commit, mr : MergeState, merged : Commit, run : [Commit -> Run],
     triggers : [Commit -> Nat], red : SUBSET Commit]

\* One delivery at a time, and deliveryActive says whether there is one.
OneDelivery(h) ==
    /\ \A c, d \in h.calls : c.owner \in Delivering /\ d.owner \in Delivering => c = d
    /\ h.deliveryActive <=> \E c \in h.calls : c.owner \in Delivering

\* No call is of an epoch to come; while the task is paused those of its own
\* epoch only settle a merge request.
Epochs(h) ==
    /\ \A c \in h.calls : c.epoch <= h.controlEpoch
    /\ h.status = "paused" =>
         \A c \in h.calls : c.epoch = h.controlEpoch => c.kind = "settle"

\* What a call was made for.
Meant(c) ==
    /\ c.kind = "create" => c.how \in {"ask", "trigger"}
    /\ c.kind = "settle" => c.how \in {"merged", "closed"}
    /\ c.kind \in {"turn", "refresh"} => c.owner = None

Early == {"turn", "check", "sync", "confirm", "push", "settle"}

\* What is verified has been pushed.
Pushes(h, mr) ==
    /\ h.sha = None => ~h.mr /\ mr = "none" /\ h.pipeline \notin Known /\ h.gap = None
    /\ \A c \in h.calls : c.kind \notin Early => c.sha # None /\ h.sha # None
    /\ \A c \in h.calls : Meant(c) /\ (c.kind \in {"confirm", "push"} => c.sha # None)

\* A merge request is watched, and settled as merged, when there is one.
Watches(h, mr) ==
    /\ h.watch # "off" => h.mr
    /\ \A c \in h.calls : c.owner = "watch" => h.mr
    /\ \A c \in h.calls : c.kind = "settle" /\ c.how = "merged" => mr = "merged"

Keeps(h, mr) ==
    h \in Host /\ OneDelivery(h) /\ Epochs(h) /\ Pushes(h, mr) /\ Watches(h, mr)

Inv ==
    /\ Keeps(host, site.mr)
    /\ head \in Commit /\ site \in Site /\ attested \subseteq Commit
    /\ left \in [Event -> Nat]

-----------------------------------------------------------------------------
\* The values that functions assign.
LEMMA Values ==
    /\ {"queued", "verifying", "await_merge", "paused", "failed", "completed", "running"}
          \subseteq Status
    /\ None \in MaybeEpoch /\ Nat \subseteq MaybeEpoch
    /\ None \in MaybeSha /\ Commit \subseteq MaybeSha
    /\ {"verifying", "queued", None} \subseteq From
    /\ {"none", "running", "success", "failed", "not_found", "unavailable", "retry", None}
          \subseteq Pipeline
    /\ {"none", "open", "past"} \subseteq Deadline
    /\ {"verifying", "repairing", "halted", "closed", "exhausted", "merged", "green", None}
          \subseteq Loop
    /\ 0 \in Round
    /\ MaxRound \in Max /\ None \in Max
    /\ {"retrying", "late", "waiting_human", None} \subseteq Gap
    /\ None \in Poll /\ None \in Evidence /\ None \in Repair /\ None \in View
    /\ {"off", "wait", "busy", "act"} \subseteq Watch
    /\ FALSE \in BOOLEAN /\ TRUE \in BOOLEAN
BY MaxRoundAssumption
   DEF Status, MaybeEpoch, MaybeSha, From, Pipeline, Known, Deadline, Loop, Round, Max,
       Gap, Poll, Evidence, Repair, View, Watch

-----------------------------------------------------------------------------
\* What a function hands on is the task as it was, moved on: nobody else's
\* epoch, and completed only if it was.
Moves(g, h, mr) ==
    /\ Keeps(g, mr) /\ g.controlEpoch = h.controlEpoch
    /\ g.status = "completed" => h.status = "completed"
    /\ g.status = "paused" => h.status = "paused"

\* The fields that the invariant is about, verdicts and the status apart.
Still(g, h) ==
    /\ g.calls = h.calls /\ g.deliveryActive = h.deliveryActive
    /\ g.controlEpoch = h.controlEpoch /\ g.sha = h.sha /\ g.mr = h.mr
    /\ g.watch = h.watch

\* The other fields are free, but a verdict needs a commit.
Alters(g, h) ==
    /\ g \in Host /\ Still(g, h)
    /\ g.pipeline = h.pipeline \/ g.pipeline \notin Known \/ h.sha # None
    /\ g.gap = h.gap \/ g.gap = None \/ h.sha # None
    /\ g.status = h.status \/ g.status \notin {"completed", "paused"}

LEMMA Altered ==
    ASSUME NEW h, NEW mr, Keeps(h, mr), NEW g, Alters(g, h)
    PROVE  Moves(g, h, mr)
BY DEF Keeps, Moves, Alters, Still, OneDelivery, Epochs, Pushes, Watches

\* A call that is not preparing a repair is still there.
Holds(g, h) == \A c \in h.calls : c.kind # "artifacts" => c \in g.calls

\* The fields that verdicts are about.
Alike(g, h) ==
    /\ g.sha = h.sha /\ g.mr = h.mr /\ g.pipeline = h.pipeline /\ g.gap = h.gap

LEMMA MovesOn ==
    ASSUME NEW f, NEW g, NEW h, NEW mr, Moves(g, h, mr), Moves(f, g, mr)
    PROVE  Moves(f, h, mr)
BY DEF Moves

\* What Replaced leaves alone, and that it moves.
LEMMA ReplacedMoves ==
    ASSUME NEW h, NEW mr, Keeps(h, mr)
    PROVE  /\ Moves(Replaced(h), h, mr)
           /\ Holds(Replaced(h), h) /\ Alike(Replaced(h), h)
           /\ Replaced(h).status = h.status /\ Replaced(h).stalled = h.stalled
<1> DEFINE m(c) == [c EXCEPT !.mark = @ /\ c.kind # "artifacts"]
           cs == {m(c) : c \in h.calls}
           g == [h EXCEPT !.calls = cs]
<1>h. h \in Host /\ OneDelivery(h) /\ Epochs(h) /\ Pushes(h, mr) /\ Watches(h, mr)
  BY DEF Keeps
<1>1. h.calls \subseteq CallRecord
  BY <1>h DEF Host
<1>2. \A c \in CallRecord :
        /\ m(c) \in CallRecord
        /\ m(c).kind = c.kind /\ m(c).epoch = c.epoch /\ m(c).owner = c.owner
        /\ m(c).sha = c.sha /\ m(c).how = c.how
        /\ c.kind # "artifacts" => m(c) = c
  BY DEF CallRecord
<1>3. Replaced(h) = g
  BY DEF Replaced
<1> HIDE DEF m
<1>4. /\ cs \subseteq CallRecord
      /\ \A d \in cs : \E c \in h.calls : d = m(c)
      /\ \A c \in h.calls : m(c) \in cs
  BY <1>1, <1>2
<1>5. \A c \in h.calls : c.kind # "artifacts" => c \in cs
  BY <1>1, <1>2
<1> HIDE DEF cs
<1>6. /\ g \in Host /\ g.calls = cs
      /\ g.deliveryActive = h.deliveryActive /\ g.controlEpoch = h.controlEpoch
      /\ g.watch = h.watch
      /\ g.status = h.status /\ g.sha = h.sha /\ g.mr = h.mr
      /\ g.pipeline = h.pipeline /\ g.gap = h.gap /\ g.stalled = h.stalled
  BY <1>4, <1>h DEF Host
<1> HIDE DEF g
<1>7. OneDelivery(g)
  BY <1>1, <1>2, <1>4, <1>6, <1>h DEF OneDelivery
<1>8. Epochs(g)
  BY <1>1, <1>2, <1>4, <1>6, <1>h DEF Epochs
<1>9. Pushes(g, mr)
  BY <1>1, <1>2, <1>4, <1>6, <1>h DEF Pushes, Meant
<1>10. Watches(g, mr)
  BY <1>1, <1>2, <1>4, <1>6, <1>h DEF Watches
<1> QED BY <1>3, <1>5, <1>6, <1>7, <1>8, <1>9, <1>10 DEF Moves, Keeps, Holds, Alike

-----------------------------------------------------------------------------
\* Deadlines and timers.

LEMMA NoDeadlineMoves ==
    ASSUME NEW h, NEW mr, Keeps(h, mr)
    PROVE  /\ Moves(NoDeadline(h), h, mr) /\ NoDeadline(h).calls = h.calls
           /\ Alike(NoDeadline(h), h) /\ NoDeadline(h).status = h.status
           /\ NoDeadline(h).stalled = h.stalled
<1> DEFINE g == NoDeadline(h)
<1>1. h \in Host
  BY DEF Keeps
<1>2. g \in Host
  BY <1>1, Values DEF NoDeadline, Host
<1>3. Still(g, h) /\ Alike(g, h) /\ g.status = h.status /\ g.stalled = h.stalled
  BY <1>1 DEF NoDeadline, Host, Still, Alike
<1> HIDE DEF g
<1>4. Alters(g, h)
  BY <1>2, <1>3 DEF Alters, Alike
<1> QED BY <1>3, <1>4, Altered DEF g, Still

LEMMA OpenDeadlineMoves ==
    ASSUME NEW h, NEW mr, Keeps(h, mr)
    PROVE  /\ Moves(OpenDeadline(h), h, mr) /\ Holds(OpenDeadline(h), h)
           /\ Alike(OpenDeadline(h), h) /\ OpenDeadline(h).status = h.status
           /\ OpenDeadline(h).stalled = h.stalled
<1> DEFINE r == Replaced(h)
           g == [r EXCEPT !.verify_deadline = "open"]
<1>1. /\ Moves(r, h, mr) /\ Keeps(r, mr) /\ Holds(r, h) /\ Alike(r, h)
      /\ r.status = h.status /\ r.stalled = h.stalled
  BY ReplacedMoves DEF Moves
<1> HIDE DEF r
<1>2. r \in Host
  BY <1>1 DEF Keeps
<1>3. g \in Host
  BY <1>2, Values DEF Host
<1>4. Still(g, r) /\ Alike(g, r) /\ g.status = r.status /\ g.stalled = r.stalled
  BY <1>2 DEF Host, Still, Alike
<1> HIDE DEF g
<1>5. Moves(g, h, mr)
  <2>1. Alters(g, r)
    BY <1>3, <1>4 DEF Alters, Alike
  <2> QED BY <1>1, <2>1, Altered, MovesOn
<1>6. OpenDeadline(h) = IF h.verify_deadline # "none" THEN h ELSE g
  BY DEF OpenDeadline, g, r
<1>7. Moves(h, h, mr) /\ Holds(h, h) /\ Alike(h, h)
  BY DEF Moves, Holds, Alike
<1> QED BY <1>1, <1>4, <1>5, <1>6, <1>7 DEF Holds, Alike, Still

LEMMA StalledMoves ==
    ASSUME NEW h, NEW mr, Keeps(h, mr)
    PROVE  LET g == markVerificationStalled(h) IN
           /\ Moves(g, h, mr) /\ Holds(g, h) /\ Alike(g, h) /\ g.status = "verifying"
<1> DEFINE r == NoDeadline(Replaced(h))
           g == [r EXCEPT !.status = "verifying", !.stalled = TRUE]
<1>1. Moves(Replaced(h), h, mr) /\ Holds(Replaced(h), h) /\ Alike(Replaced(h), h)
  BY ReplacedMoves
<1>2. Keeps(Replaced(h), mr)
  BY <1>1 DEF Moves
<1>3. /\ Moves(r, Replaced(h), mr) /\ r.calls = Replaced(h).calls
      /\ Alike(r, Replaced(h))
  BY <1>2, NoDeadlineMoves
<1>4. Moves(r, h, mr) /\ Holds(r, h) /\ Alike(r, h)
  BY <1>1, <1>3, MovesOn DEF Holds, Alike
<1> HIDE DEF r
<1>5. Keeps(r, mr) /\ r \in Host
  BY <1>4 DEF Moves, Keeps
<1>6. g \in Host
  BY <1>5, Values DEF Host
<1>7. Still(g, r) /\ Alike(g, r) /\ g.status = "verifying"
  BY <1>5 DEF Host, Still, Alike
<1> HIDE DEF g
<1>8. Moves(g, r, mr)
  <2>1. Alters(g, r)
    BY <1>6, <1>7 DEF Alters, Alike
  <2> QED BY <1>5, <2>1, Altered
<1>9. markVerificationStalled(h) = g
  BY DEF markVerificationStalled, g, r
<1> QED BY <1>4, <1>7, <1>8, <1>9, MovesOn DEF Holds, Alike, Still

LEMMA ScheduledMoves ==
    ASSUME NEW h, NEW mr, Keeps(h, mr), NEW epoch \in Nat
    PROVE  LET g == scheduleDeliveryRecovery(h, epoch) IN
           /\ Moves(g, h, mr) /\ Holds(g, h) /\ Alike(g, h) /\ g.status = h.status
<1> DEFINE r == OpenDeadline(h)
           g == scheduleDeliveryRecovery(h, epoch)
<1>1. /\ Moves(r, h, mr) /\ Keeps(r, mr) /\ Holds(r, h) /\ Alike(r, h)
      /\ r.status = h.status
  BY OpenDeadlineMoves DEF Moves
<1>2. g = [r EXCEPT !.limit = epoch,
                    !.recovery = IF r.recovery = None THEN epoch ELSE r.recovery]
  BY DEF scheduleDeliveryRecovery
<1> HIDE DEF r, g
<1>3. r \in Host
  BY <1>1 DEF Keeps
<1>4. g \in Host
  BY <1>2, <1>3, Values DEF Host
<1>5. Still(g, r) /\ Alike(g, r) /\ g.status = r.status
  BY <1>2, <1>3 DEF Host, Still, Alike
<1>6. Moves(g, r, mr)
  <2>1. Alters(g, r)
    BY <1>4, <1>5 DEF Alters, Alike
  <2> QED BY <1>1, <2>1, Altered
<1> QED BY <1>1, <1>5, <1>6, MovesOn DEF g, Holds, Alike, Still

LEMMA HeldMoves ==
    ASSUME NEW h, NEW mr, Keeps(h, mr), NEW epoch \in Nat
    PROVE  LET g == holdWithRecovery(h, epoch) IN
           /\ Moves(g, h, mr) /\ Holds(g, h) /\ Alike(g, h) /\ g.status = "verifying"
<1> DEFINE r == Replaced(h)
           held == [r EXCEPT !.status = "verifying"]
<1>1. Moves(r, h, mr) /\ Keeps(r, mr) /\ Holds(r, h) /\ Alike(r, h)
  BY ReplacedMoves DEF Moves
<1> HIDE DEF r
<1>2. r \in Host
  BY <1>1 DEF Keeps
<1>3. held \in Host
  BY <1>2, Values DEF Host
<1>4. Still(held, r) /\ Alike(held, r) /\ held.status = "verifying"
  BY <1>2 DEF Host, Still, Alike
<1> HIDE DEF held
<1>5. Moves(held, r, mr)
  <2>1. Alters(held, r)
    BY <1>3, <1>4 DEF Alters, Alike
  <2> QED BY <1>1, <2>1, Altered
<1>6. /\ Moves(held, h, mr) /\ Keeps(held, mr) /\ Holds(held, h) /\ Alike(held, h)
      /\ held.status = "verifying"
  BY <1>1, <1>4, <1>5, MovesOn DEF Holds, Alike, Still, Moves
<1>7. LET g == markVerificationStalled(held) IN
      /\ Moves(g, held, mr) /\ Holds(g, held) /\ Alike(g, held) /\ g.status = "verifying"
  BY <1>6, StalledMoves
<1>8. LET g == scheduleDeliveryRecovery(held, epoch) IN
      /\ Moves(g, held, mr) /\ Holds(g, held) /\ Alike(g, held) /\ g.status = held.status
  BY <1>6, ScheduledMoves
<1>9. holdWithRecovery(h, epoch) =
        IF h.stalled THEN held
        ELSE IF h.verify_deadline = "past" THEN markVerificationStalled(held)
        ELSE scheduleDeliveryRecovery(held, epoch)
  BY DEF holdWithRecovery, held, r
<1>10. CASE h.stalled
  BY <1>6, <1>9, <1>10
<1>11. CASE ~h.stalled /\ h.verify_deadline = "past"
  BY <1>6, <1>7, <1>9, <1>11, MovesOn DEF Holds, Alike
<1>12. CASE ~h.stalled /\ h.verify_deadline # "past"
  BY <1>6, <1>8, <1>9, <1>12, MovesOn DEF Holds, Alike
<1> QED BY <1>10, <1>11, <1>12

LEMMA EvidenceMoves ==
    ASSUME NEW h, NEW mr, Keeps(h, mr),
           NEW sha \in Commit, NEW epoch \in Nat, NEW stale \in BOOLEAN
    PROVE  LET g == schedulePipelineEvidenceRetry(h, sha, epoch, stale) IN
           Moves(g, h, mr) /\ Holds(g, h) /\ Alike(g, h)
<1> DEFINE r == OpenDeadline(h)
           e == [epoch |-> epoch, sha |-> sha, stale |-> stale]
           g == [r EXCEPT !.evidence = e]
<1>1. Moves(r, h, mr) /\ Keeps(r, mr) /\ Holds(r, h) /\ Alike(r, h)
  BY OpenDeadlineMoves DEF Moves
<1>2. schedulePipelineEvidenceRetry(h, sha, epoch, stale) =
        IF h.evidence # None \/ h.stalled THEN h
        ELSE IF h.verify_deadline = "past" THEN markVerificationStalled(h)
        ELSE g
  BY DEF schedulePipelineEvidenceRetry
<1>3. e \in Evidence
  BY DEF Evidence
<1> HIDE DEF r, e
<1>4. r \in Host
  BY <1>1 DEF Keeps
<1>5. g \in Host
  BY <1>3, <1>4 DEF Host
<1>6. Still(g, r) /\ Alike(g, r) /\ g.status = r.status
  BY <1>4 DEF Host, Still, Alike
<1> HIDE DEF g
<1>7. Moves(g, r, mr)
  <2>1. Alters(g, r)
    BY <1>5, <1>6 DEF Alters, Alike
  <2> QED BY <1>1, <2>1, Altered
<1>8. Moves(g, h, mr) /\ Holds(g, h) /\ Alike(g, h)
  BY <1>1, <1>6, <1>7, MovesOn DEF Holds, Alike, Still
<1>9. Moves(h, h, mr) /\ Holds(h, h) /\ Alike(h, h)
  BY DEF Moves, Holds, Alike
<1> QED BY <1>2, <1>8, <1>9, StalledMoves

LEMMA RepairMoves ==
    ASSUME NEW h, NEW mr, Keeps(h, mr), NEW sha \in Commit, NEW epoch \in Nat
    PROVE  LET g == scheduleRepairEvidenceRetry(h, sha, epoch) IN
           Moves(g, h, mr) /\ g.calls = h.calls /\ Alike(g, h)
<1> DEFINE e == [epoch |-> epoch, sha |-> sha]
           g == [h EXCEPT !.repair = e]
<1>1. h \in Host
  BY DEF Keeps
<1>2. e \in Repair
  BY DEF Repair
<1> HIDE DEF e
<1>3. g \in Host
  BY <1>1, <1>2 DEF Host
<1>4. Still(g, h) /\ Alike(g, h) /\ g.status = h.status
  BY <1>1 DEF Host, Still, Alike
<1> HIDE DEF g
<1>5. Moves(g, h, mr)
  <2>1. Alters(g, h)
    BY <1>3, <1>4 DEF Alters, Alike
  <2> QED BY <2>1, Altered
<1>6. Moves(h, h, mr) /\ Alike(h, h)
  BY DEF Moves, Alike
<1> QED BY <1>4, <1>5, <1>6 DEF scheduleRepairEvidenceRetry, g, e, Still

\* The task is queued, or verified: neither paused nor completed.
LEMMA StatusMoves ==
    ASSUME NEW h, NEW mr, Keeps(h, mr), NEW status \in Status \ {"paused", "completed"}
    PROVE  LET g == [h EXCEPT !.status = status] IN
           /\ Moves(g, h, mr) /\ g.calls = h.calls /\ Alike(g, h) /\ g.status = status
<1> DEFINE g == [h EXCEPT !.status = status]
<1>1. h \in Host
  BY DEF Keeps
<1>2. g \in Host
  BY <1>1 DEF Host
<1>3. Still(g, h) /\ Alike(g, h) /\ g.status = status
  BY <1>1 DEF Host, Still, Alike
<1> HIDE DEF g
<1>4. Alters(g, h)
  BY <1>2, <1>3 DEF Alters, Alike
<1> QED BY <1>3, <1>4, Altered DEF g, Still

\* A merge request that is known is watched.
LEMMA WatchedMoves ==
    ASSUME NEW h, NEW mr, Keeps(h, mr)
    PROVE  LET g == ensureMergeWatch(h) IN
           /\ Moves(g, h, mr) /\ g.calls = h.calls /\ Alike(g, h) /\ g.status = h.status
<1> DEFINE g == [h EXCEPT !.watch = "wait"]
<1>1. /\ h \in Host /\ OneDelivery(h) /\ Epochs(h) /\ Pushes(h, mr) /\ Watches(h, mr)
  BY DEF Keeps
<1>2. g \in Host
  BY <1>1, Values DEF Host
<1>3. /\ g.calls = h.calls /\ g.deliveryActive = h.deliveryActive
      /\ g.controlEpoch = h.controlEpoch /\ g.status = h.status
      /\ Alike(g, h) /\ g.watch = "wait"
  BY <1>1 DEF Host, Alike
<1>4. ensureMergeWatch(h) = IF h.mr /\ h.watch = "off" /\ h.status # "completed"
                            THEN g ELSE h
  BY DEF ensureMergeWatch
<1> HIDE DEF g
<1>5. ASSUME h.mr PROVE Keeps(g, mr)
  BY <1>1, <1>2, <1>3, <1>5 DEF Keeps, OneDelivery, Epochs, Pushes, Watches, Alike
<1>6. Moves(h, h, mr) /\ Alike(h, h)
  BY DEF Moves, Alike
<1> QED BY <1>3, <1>4, <1>5, <1>6 DEF Moves

-----------------------------------------------------------------------------
\* Calls come and go.

\* A call that a function may end: one under way, or one it has just begun
\* for somebody else than a delivery.
Held(h, c) ==
    /\ c \in CallRecord /\ c.epoch <= h.controlEpoch
    /\ c.owner \in Delivering => c \in h.calls
    /\ c.owner = "watch" => h.mr

LEMMA HeldCall ==
    ASSUME NEW h, NEW mr, Keeps(h, mr), NEW c \in h.calls
    PROVE  Held(h, c)
BY DEF Keeps, Host, Epochs, Watches, Held

LEMMA HeldStill ==
    ASSUME NEW g, NEW h, NEW mr, Moves(g, h, mr), Holds(g, h), h.mr => g.mr,
           NEW c, Held(h, c), c.kind # "artifacts"
    PROVE  Held(g, c)
BY DEF Moves, Holds, Held

\* A call that may be under way.
Admits(h, d, mr) ==
    /\ d \in CallRecord /\ d.epoch <= h.controlEpoch /\ Meant(d)
    /\ h.status = "paused" /\ d.epoch = h.controlEpoch => d.kind = "settle"
    /\ d.kind \notin Early => d.sha # None /\ h.sha # None
    /\ d.kind \in {"confirm", "push"} => d.sha # None
    /\ d.owner = "watch" => h.mr
    /\ d.kind = "settle" /\ d.how = "merged" => mr = "merged"

\* One call takes the place of another, for the same owner.
LEMMA Swapped ==
    ASSUME NEW h, NEW mr, Keeps(h, mr), NEW c, Held(h, c),
           NEW d, Admits(h, d, mr), d.owner = c.owner
    PROVE  LET g == Add(Drop(h, c), d) IN
           /\ Moves(g, h, mr) /\ Alike(g, h) /\ g.status = h.status
           /\ g.calls = (h.calls \ {c}) \cup {d}
<1> DEFINE cs == (h.calls \ {c}) \cup {d}
           g == [h EXCEPT !.calls = cs]
<1>1. /\ h \in Host /\ OneDelivery(h) /\ Epochs(h) /\ Pushes(h, mr) /\ Watches(h, mr)
      /\ h.calls \subseteq CallRecord
  BY DEF Keeps, Host
<1>2. Add(Drop(h, c), d) = g
  BY <1>1 DEF Add, Drop, Host
<1>3. cs \subseteq CallRecord
  BY <1>1 DEF Admits
<1>4. /\ \A x \in cs : x = d \/ (x \in h.calls /\ x # c)
      /\ \A x \in h.calls : x # c => x \in cs
      /\ d \in cs
  OBVIOUS
<1> HIDE DEF cs
<1>5. g \in Host
  BY <1>1, <1>3 DEF Host
<1>6. /\ g.calls = cs /\ g.deliveryActive = h.deliveryActive
      /\ g.controlEpoch = h.controlEpoch /\ g.status = h.status /\ Alike(g, h)
      /\ g.watch = h.watch
  BY <1>1 DEF Host, Alike
<1> HIDE DEF g
<1>7. OneDelivery(g)
  BY <1>1, <1>4, <1>6 DEF OneDelivery, Held
<1>8. Epochs(g)
  BY <1>1, <1>4, <1>6 DEF Epochs, Admits
<1>9. Pushes(g, mr)
  BY <1>1, <1>4, <1>6 DEF Pushes, Admits, Alike
<1>10. Watches(g, mr)
  BY <1>1, <1>4, <1>6 DEF Watches, Admits, Alike
<1> QED BY <1>2, <1>5, <1>6, <1>7, <1>8, <1>9, <1>10 DEF Moves, Keeps, cs

\* A call that is no delivery begins, or ends.
LEMMA Added ==
    ASSUME NEW h, NEW mr, Keeps(h, mr), NEW d, Admits(h, d, mr), d.owner \notin Delivering
    PROVE  LET g == Add(h, d) IN
           /\ Moves(g, h, mr) /\ Alike(g, h) /\ g.status = h.status
           /\ Holds(g, h) /\ d \in g.calls
<1>1. h \in Host
  BY DEF Keeps
<1>2. Add(Drop(h, d), d) = Add(h, d)
  <2>1. (h.calls \ {d}) \cup {d} = h.calls \cup {d}
    OBVIOUS
  <2>2. Add(Drop(h, d), d) = [h EXCEPT !.calls = (h.calls \ {d}) \cup {d}]
    BY <1>1 DEF Add, Drop, Host
  <2> QED BY <2>1, <2>2 DEF Add
<1>3. Held(h, d)
  BY DEF Admits, Held
<1> QED BY <1>2, <1>3, Swapped DEF Holds

LEMMA Dropped ==
    ASSUME NEW h, NEW mr, Keeps(h, mr), NEW c, c.owner \notin Delivering
    PROVE  LET g == Drop(h, c) IN
           /\ Moves(g, h, mr) /\ Alike(g, h) /\ g.status = h.status
           /\ g.calls = h.calls \ {c}
<1> DEFINE cs == h.calls \ {c}
           g == [h EXCEPT !.calls = cs]
<1>1. /\ h \in Host /\ OneDelivery(h) /\ Epochs(h) /\ Pushes(h, mr) /\ Watches(h, mr)
      /\ h.calls \subseteq CallRecord
  BY DEF Keeps, Host
<1>2. /\ cs \subseteq CallRecord
      /\ \A x \in cs : x \in h.calls
      /\ \A x \in h.calls : x.owner \in Delivering => x \in cs
  BY <1>1
<1> HIDE DEF cs
<1>3. g \in Host
  BY <1>1, <1>2 DEF Host
<1>4. /\ g.calls = cs /\ g.deliveryActive = h.deliveryActive
      /\ g.controlEpoch = h.controlEpoch /\ g.status = h.status /\ Alike(g, h)
      /\ g.watch = h.watch
  BY <1>1 DEF Host, Alike
<1>5. Drop(h, c) = g
  BY DEF Drop, g, cs
<1> HIDE DEF g
<1>6. Keeps(g, mr)
  BY <1>1, <1>2, <1>3, <1>4 DEF Keeps, OneDelivery, Epochs, Pushes, Watches, Alike
<1> QED BY <1>4, <1>5, <1>6 DEF Moves, cs

\* What the caller of a delivery does never touches a task that is neither
\* running nor verifying.
LEMMA AfterMoves ==
    ASSUME NEW h, NEW mr, Keeps(h, mr), NEW epoch \in Nat, NEW owner
    PROVE  LET g == AfterDelivery(h, epoch, owner) IN
           /\ Moves(g, h, mr) /\ Holds(g, h) /\ Alike(g, h)
           /\ h.status \notin {"running", "verifying"} => g.status = h.status
<1>1. Moves(h, h, mr) /\ Holds(h, h) /\ Alike(h, h)
  BY DEF Moves, Holds, Alike
<1>2. CASE owner = "turn" /\ Current(h, epoch) /\ h.status = "running"
  <2>1. AfterDelivery(h, epoch, owner) = holdWithRecovery(h, epoch)
    BY <1>2 DEF AfterDelivery
  <2> QED BY <1>2, <2>1, HeldMoves
<1>3. CASE owner = "recovery" /\ recoveryStillNeeded(h, epoch)
  <2>1. AfterDelivery(h, epoch, owner) =
          IF h.verify_deadline = "past" THEN markVerificationStalled(h)
          ELSE scheduleDeliveryRecovery(h, epoch)
    BY <1>3 DEF AfterDelivery
  <2>2. h.status = "verifying"
    BY <1>3 DEF recoveryStillNeeded
  <2> QED BY <2>1, <2>2, StalledMoves, ScheduledMoves
<1>4. CASE /\ ~(owner = "turn" /\ Current(h, epoch) /\ h.status = "running")
           /\ ~(owner = "recovery" /\ recoveryStillNeeded(h, epoch))
  <2>1. AfterDelivery(h, epoch, owner) = h
    BY <1>4 DEF AfterDelivery
  <2> QED BY <1>1, <2>1
<1> QED BY <1>2, <1>3, <1>4

LEMMA PerformMoves ==
    ASSUME NEW h, NEW mr, Keeps(h, mr), ~h.deliveryActive, h.status # "paused",
           NEW owner \in Delivering
    PROVE  LET g == performDelivery(h, h.controlEpoch, owner) IN
           Moves(g, h, mr) /\ Holds(g, h) /\ Alike(g, h)
<1> DEFINE k == [h EXCEPT !.deliveryActive = TRUE,
                   !.status = IF @ \in {"running", "queued"} THEN "verifying" ELSE @,
                   !.loop = IF @ = "repairing" /\ ~h.mr THEN "verifying" ELSE @]
           d == Call(IF h.mr THEN "check" ELSE "sync", h.controlEpoch, owner, {}, h.stalled)
           cs == h.calls \cup {d}
           g == [k EXCEPT !.calls = cs]
<1>1. /\ h \in Host /\ OneDelivery(h) /\ Epochs(h) /\ Pushes(h, mr) /\ Watches(h, mr)
      /\ h.calls \subseteq CallRecord /\ h.controlEpoch \in Nat /\ h.stalled \in BOOLEAN
  BY DEF Keeps, Host
<1>2. performDelivery(h, h.controlEpoch, owner) = g
  <2>1. k.calls = h.calls
    BY <1>1 DEF Host
  <2> QED BY <2>1 DEF performDelivery, Add
<1>3. /\ d \in CallRecord /\ d.epoch = h.controlEpoch /\ d.owner = owner
      /\ d.kind \in {"check", "sync"}
  BY <1>1 DEF Call, CallRecord, Kinds, Owner, MaybeSha, How, Commit
<1> HIDE DEF d
<1>4. /\ cs \subseteq CallRecord
      /\ \A x \in cs : x = d \/ x \in h.calls
      /\ \A x \in h.calls : x \in cs
      /\ d \in cs
  BY <1>1, <1>3
<1> HIDE DEF cs
<1>5. k \in Host
  BY <1>1, Values DEF Host
<1>6. /\ k.controlEpoch = h.controlEpoch /\ k.deliveryActive = TRUE
      /\ Alike(k, h) /\ k.watch = h.watch
      /\ k.status = h.status \/ k.status = "verifying"
  BY <1>1 DEF Host, Alike
<1> HIDE DEF k
<1>7. /\ g \in Host /\ g.calls = cs
      /\ g.controlEpoch = k.controlEpoch /\ g.deliveryActive = k.deliveryActive
      /\ Alike(g, k) /\ g.watch = k.watch /\ g.status = k.status
  BY <1>4, <1>5 DEF Host, Alike
<1> HIDE DEF g
<1>8. OneDelivery(g)
  BY <1>1, <1>3, <1>4, <1>6, <1>7 DEF OneDelivery
<1>9. Epochs(g)
  BY <1>1, <1>3, <1>4, <1>6, <1>7 DEF Epochs
<1>10. Pushes(g, mr)
  BY <1>1, <1>3, <1>4, <1>6, <1>7 DEF Pushes, Meant, Alike, Early
<1>11. Watches(g, mr)
  BY <1>1, <1>3, <1>4, <1>6, <1>7, NoneAssumption DEF Watches, Alike, Delivering
<1> QED BY <1>2, <1>4, <1>6, <1>7, <1>8, <1>9, <1>10, <1>11
        DEF Moves, Keeps, Holds, Alike

LEMMA TryMoves ==
    ASSUME NEW h, NEW mr, Keeps(h, mr), NEW epoch \in Nat, NEW owner \in Delivering,
           Current(h, epoch) => h.status # "paused"
    PROVE  LET g == tryDeliver(h, epoch, owner) IN
           Moves(g, h, mr) /\ Holds(g, h) /\ Alike(g, h)
<1>1. CASE h.deliveryActive \/ ~Current(h, epoch)
  BY <1>1, AfterMoves DEF tryDeliver
<1>2. CASE ~h.deliveryActive /\ Current(h, epoch)
  BY <1>2, PerformMoves DEF tryDeliver, Current
<1> QED BY <1>1, <1>2

LEMMA PollMoves ==
    ASSUME NEW h, NEW mr, Keeps(h, mr), NEW epoch \in Nat
    PROVE  LET g == pollPipeline(h, epoch) IN
           Moves(g, h, mr) /\ Holds(g, h) /\ Alike(g, h)
<1> DEFINE e == [sha |-> h.sha, epoch |-> epoch]
           g == [h EXCEPT !.poll = e]
<1>1. h \in Host /\ (h.mr => h.sha \in Commit)
  BY DEF Keeps, Host, Pushes, MaybeSha
<1>2. CASE h.mr
  <2>1. e \in Poll
    BY <1>1, <1>2 DEF Poll
  <2> HIDE DEF e
  <2>2. g \in Host
    BY <1>1, <2>1 DEF Host
  <2>3. Still(g, h) /\ Alike(g, h) /\ g.status = h.status
    BY <1>1 DEF Host, Still, Alike
  <2>4. pollPipeline(h, epoch) = g
    BY <1>2 DEF pollPipeline, e
  <2> HIDE DEF g
  <2>5. Alters(g, h)
    BY <2>2, <2>3 DEF Alters, Alike
  <2> QED BY <2>3, <2>4, <2>5, Altered DEF Still, Holds
<1>3. CASE ~h.mr /\ h.status = "verifying"
  <2>1. "call" \in Delivering
    BY DEF Delivering
  <2>2. pollPipeline(h, epoch) = tryDeliver(h, epoch, "call")
    BY <1>3 DEF pollPipeline
  <2> QED BY <1>3, <2>1, <2>2, TryMoves
<1>4. CASE ~h.mr /\ h.status # "verifying"
  BY <1>4 DEF pollPipeline, Moves, Holds, Alike
<1> QED BY <1>2, <1>3, <1>4

\* A call returns to its owner.
LEMMA ReturnMoves ==
    ASSUME NEW h, NEW mr, Keeps(h, mr), NEW c, Held(h, c)
    PROVE  LET g == Return(h, c) IN
           /\ Moves(g, h, mr) /\ Alike(g, h)
           /\ h.status \notin {"running", "verifying"} => g.status = h.status
<1> DEFINE cs == h.calls \ {c}
           g == Drop(h, c)
<1>1. /\ h \in Host /\ OneDelivery(h) /\ Epochs(h) /\ Pushes(h, mr) /\ Watches(h, mr)
      /\ h.calls \subseteq CallRecord
      /\ c \in CallRecord /\ c.owner \in Owner /\ c.epoch \in Nat
  BY DEF Keeps, Host, Held, CallRecord
<1>2. CASE c.owner \in Delivering
  <2> DEFINE k == [h EXCEPT !.calls = cs, !.deliveryActive = FALSE]
  <2>1. c \in h.calls
    BY <1>2 DEF Held
  <2>2. /\ cs \subseteq CallRecord
        /\ \A x \in cs : x \in h.calls /\ x # c
    BY <1>1
  <2>3. Return(h, c) = AfterDelivery(k, c.epoch, c.owner)
    <3>1. [g EXCEPT !.deliveryActive = FALSE] = k
      BY <1>1 DEF Drop, Host
    <3>2. Return(h, c) = AfterDelivery([g EXCEPT !.deliveryActive = FALSE], c.epoch, c.owner)
      BY <1>2 DEF Return, Delivering
    <3> QED BY <3>1, <3>2
  <2> HIDE DEF cs
  <2>4. k \in Host
    BY <1>1, <2>2 DEF Host
  <2>5. /\ k.calls = cs /\ k.deliveryActive = FALSE
        /\ k.controlEpoch = h.controlEpoch /\ Alike(k, h) /\ k.status = h.status
        /\ k.watch = h.watch
    BY <1>1 DEF Host, Alike
  <2> HIDE DEF k
  <2>6. OneDelivery(k)
    BY <1>1, <1>2, <2>1, <2>2, <2>5 DEF OneDelivery
  <2>7. Keeps(k, mr)
    BY <1>1, <2>2, <2>4, <2>5, <2>6 DEF Keeps, Epochs, Pushes, Watches, Alike
  <2>8. Moves(k, h, mr)
    BY <2>5, <2>7 DEF Moves
  <2>9. LET f == AfterDelivery(k, c.epoch, c.owner) IN
        /\ Moves(f, k, mr) /\ Alike(f, k)
        /\ k.status \notin {"running", "verifying"} => f.status = k.status
    BY <1>1, <2>7, AfterMoves
  <2> QED BY <2>3, <2>5, <2>8, <2>9, MovesOn DEF Alike
<1>3. CASE c.owner \notin Delivering
  <2>1. Moves(g, h, mr) /\ Keeps(g, mr) /\ Alike(g, h) /\ g.status = h.status
    BY <1>3, Dropped DEF Moves
  <2>2. g \in Host /\ Watches(g, mr)
    BY <2>1 DEF Keeps
  <2> HIDE DEF g
  <2>3. CASE c.owner = "poll"
    <3> DEFINE p == IF g.poll = [sha |-> c.sha, epoch |-> c.epoch] THEN None ELSE g.poll
               f == [g EXCEPT !.poll = p]
    <3>1. Return(h, c) = f
      BY <2>3 DEF Return, g
    <3>2. p \in Poll
      BY <2>2, Values DEF Host
    <3> HIDE DEF p
    <3>3. f \in Host
      BY <2>2, <3>2 DEF Host
    <3>4. Still(f, g) /\ Alike(f, g) /\ f.status = g.status
      BY <2>2 DEF Host, Still, Alike
    <3> HIDE DEF f
    <3>5. Alters(f, g)
      BY <3>3, <3>4 DEF Alters, Alike
    <3> QED BY <2>1, <3>1, <3>4, <3>5, Altered, MovesOn DEF Alike
  <2>4. CASE c.owner \in {"watch", "merged"}
    <3> DEFINE w == IF c.owner = "watch" THEN "wait" ELSE "off"
               f == [g EXCEPT !.watch = w]
    <3>1. Return(h, c) = f
      BY <2>4 DEF Return, g
    <3>2. w \in Watch /\ w # "act" /\ (w # "off" => g.mr)
      BY <2>1, Values DEF Held, Alike
    <3> HIDE DEF w
    <3>3. f \in Host
      BY <2>2, <3>2 DEF Host
    <3>4. /\ f.calls = g.calls /\ f.deliveryActive = g.deliveryActive
          /\ f.controlEpoch = g.controlEpoch /\ Alike(f, g) /\ f.status = g.status
          /\ f.watch = w
      BY <2>2 DEF Host, Alike
    <3> HIDE DEF f
    <3>5. Keeps(f, mr)
      BY <2>1, <3>2, <3>3, <3>4 DEF Keeps, OneDelivery, Epochs, Pushes, Watches, Alike
    <3>6. Moves(f, g, mr)
      BY <3>4, <3>5 DEF Moves
    <3> QED BY <2>1, <3>1, <3>4, <3>6, MovesOn DEF Alike
  <2>5. CASE c.owner = None
    <3>1. c.owner \notin {"turn", "recovery", "call", "poll", "watch", "merged"}
      BY <2>5, NoneAssumption
    <3>2. Return(h, c) = g
      BY <3>1 DEF Return, g
    <3> QED BY <2>1, <3>2
  <2> QED BY <1>1, <1>3, <2>3, <2>4, <2>5 DEF Owner
<1> QED BY <1>2, <1>3

\* A call that goes on to its next await.
LEMMA GoMoves ==
    ASSUME NEW h, NEW mr, Keeps(h, mr), NEW c, Held(h, c),
           NEW kind \in Kinds, NEW sha \in MaybeSha, NEW how \in How,
           h.status = "paused" /\ c.epoch = h.controlEpoch => kind = "settle",
           kind \notin Early => sha # None /\ h.sha # None,
           kind \in {"confirm", "push"} => sha # None,
           kind = "create" => how \in {"ask", "trigger"},
           kind = "settle" => how \in {"merged", "closed"},
           kind = "settle" /\ how = "merged" => mr = "merged",
           kind \notin {"turn", "refresh"}
    PROVE  LET g == Go(h, c, kind, sha, how) IN
           Moves(g, h, mr) /\ Alike(g, h) /\ g.status = h.status
<1> DEFINE d == [c EXCEPT !.kind = kind, !.sha = sha, !.how = how, !.mark = kind = "artifacts"]
<1>1. c \in CallRecord
  BY DEF Held
<1>2. /\ d \in CallRecord /\ d.kind = kind /\ d.sha = sha /\ d.how = how
      /\ d.epoch = c.epoch /\ d.owner = c.owner
  BY <1>1 DEF CallRecord
<1>3. Go(h, c, kind, sha, how) = Add(Drop(h, c), d)
  BY DEF Go
<1> HIDE DEF d
<1>4. Admits(h, d, mr)
  BY <1>2 DEF Admits, Held, Meant
<1> QED BY <1>2, <1>3, <1>4, Swapped

-----------------------------------------------------------------------------
\* Verdicts and repairs.

\* A task that is neither running nor verifying is left as it is.
Stays(g, h) == h.status \notin {"running", "verifying"} => g.status = h.status

LEMMA VerdictMoves ==
    ASSUME NEW h, NEW mr, Keeps(h, mr), NEW c, Held(h, c), NEW status \in How,
           c.sha # None, Current(h, c.epoch) => h.status # "paused"
    PROVE  LET g == pipelineVerdict(h, c, status) IN
           Moves(g, h, mr) /\ Alike(g, h) /\ Stays(g, h)
<1>1. CASE Current(h, c.epoch) /\ h.sha = c.sha
  <2>1. c.sha \in MaybeSha /\ "verdict" \in Kinds /\ "verdict" \notin Early
    BY DEF Held, CallRecord, Kinds, Early
  <2>2. pipelineVerdict(h, c, status) = Go(h, c, "verdict", c.sha, status)
    BY <1>1 DEF pipelineVerdict
  <2>3. "verdict" \notin {"confirm", "push", "settle", "turn", "refresh"}
    OBVIOUS
  <2>4. LET g == Go(h, c, "verdict", c.sha, status) IN
        Moves(g, h, mr) /\ Alike(g, h) /\ g.status = h.status
    BY <1>1, <2>1, <2>3, GoMoves
  <2> QED BY <2>2, <2>4 DEF Stays
<1>2. CASE ~(Current(h, c.epoch) /\ h.sha = c.sha)
  BY <1>2, ReturnMoves DEF pipelineVerdict, Stays
<1> QED BY <1>1, <1>2

LEMMA RedMoves ==
    ASSUME NEW h, NEW mr, Keeps(h, mr), NEW c, Held(h, c), c.sha # None, h.sha # None
    PROVE  Moves(handlePipelineRed(h, c), h, mr)
<1> DEFINE k == [h EXCEPT !.status = "verifying", !.closed = FALSE]
<1>1. h \in Host
  BY DEF Keeps
<1>2. k \in Host
  BY <1>1, Values DEF Host
<1>3. Still(k, h) /\ Alike(k, h) /\ k.status = "verifying"
  BY <1>1 DEF Host, Still, Alike
<1>4. handlePipelineRed(h, c) = Go(k, c, "red", c.sha, None)
  BY DEF handlePipelineRed
<1> HIDE DEF k
<1>5. Moves(k, h, mr) /\ Keeps(k, mr) /\ Held(k, c)
  <2>1. Alters(k, h)
    BY <1>2, <1>3 DEF Alters, Alike
  <2> QED BY <1>3, <2>1, Altered DEF Moves, Held, Still
<1>6. /\ c.sha \in MaybeSha /\ "red" \in Kinds /\ None \in How /\ k.sha # None
      /\ "red" \notin {"confirm", "push", "settle", "turn", "refresh"}
  BY <1>3 DEF Held, CallRecord, Kinds, How, Alike
<1>7. Moves(Go(k, c, "red", c.sha, None), k, mr)
  BY <1>3, <1>5, <1>6, GoMoves
<1> QED BY <1>4, <1>5, <1>7, MovesOn

LEMMA DispatchMoves ==
    ASSUME NEW h, NEW mr, Keeps(h, mr), NEW c, Held(h, c), c.sha # None,
           Current(h, c.epoch) => h.status # "paused"
    PROVE  LET g == dispatchCiRepair(h, c) IN
           Moves(g, h, mr) /\ Stays(g, h)
<1>1. CASE ~Current(h, c.epoch) \/ h.sha # c.sha
  BY <1>1, ReturnMoves DEF dispatchCiRepair, Stays
<1>2. CASE Current(h, c.epoch) /\ h.sha = c.sha /\ Exhausted(h)
  <2> DEFINE k == [h EXCEPT !.loop = "exhausted", !.pipeline = "failed"]
  <2>1. h \in Host
    BY DEF Keeps
  <2>2. k \in Host
    BY <2>1, Values DEF Host
  <2>3. Still(k, h) /\ k.gap = h.gap /\ k.status = h.status
    BY <2>1 DEF Host, Still
  <2>4. dispatchCiRepair(h, c) = Return(k, c)
    BY <1>2 DEF dispatchCiRepair
  <2> HIDE DEF k
  <2>5. Moves(k, h, mr) /\ Keeps(k, mr) /\ Held(k, c)
    <3>1. Alters(k, h)
      BY <1>2, <2>2, <2>3 DEF Alters
    <3> QED BY <2>3, <3>1, Altered DEF Moves, Held, Still
  <2>6. Moves(Return(k, c), k, mr) /\ Stays(Return(k, c), k)
    BY <2>5, ReturnMoves DEF Stays
  <2> QED BY <2>3, <2>4, <2>5, <2>6, MovesOn DEF Stays
<1>3. CASE Current(h, c.epoch) /\ h.sha = c.sha /\ ~Exhausted(h)
  <2>1. /\ c.sha \in MaybeSha /\ "artifacts" \in Kinds /\ None \in How
        /\ "artifacts" \notin {"confirm", "push", "settle", "turn", "refresh"}
    BY DEF Held, CallRecord, Kinds, How
  <2>2. dispatchCiRepair(h, c) = Go(h, c, "artifacts", c.sha, None)
    BY <1>3 DEF dispatchCiRepair
  <2>3. LET g == Go(h, c, "artifacts", c.sha, None) IN
        Moves(g, h, mr) /\ g.status = h.status
    BY <1>3, <2>1, GoMoves
  <2> QED BY <2>2, <2>3 DEF Stays
<1> QED BY <1>1, <1>2, <1>3

\* A settlement takes the task from everyone: the epoch moves on.
Takes(g, h, mr) ==
    /\ Keeps(g, mr) /\ Alike(g, h)
    /\ g.status \in {"completed", "paused"} => g.status = h.status
    /\ g.controlEpoch = h.controlEpoch => Stays(g, h)

\* applyMergeState where it takes the task: nothing else is of the new epoch.
Overtake(h, c, state) ==
    Add(Drop([h EXCEPT !.controlEpoch = @ + 1, !.stopping = h.driver], c),
        [c EXCEPT !.kind = "settle", !.how = state, !.mark = TRUE])

LEMMA OvertakeMoves ==
    ASSUME NEW h, NEW mr, Keeps(h, mr), NEW c, Held(h, c), h.status # "paused",
           NEW state \in {"merged", "closed"}, state = "merged" => mr = "merged"
    PROVE  LET g == Overtake(h, c, state) IN
           /\ Keeps(g, mr) /\ Alike(g, h) /\ g.status = h.status
           /\ g.controlEpoch # h.controlEpoch
<1> DEFINE k == [h EXCEPT !.controlEpoch = @ + 1, !.stopping = h.driver]
           d == [c EXCEPT !.kind = "settle", !.how = state, !.mark = TRUE]
<1>1. /\ h \in Host /\ OneDelivery(h) /\ Epochs(h) /\ Pushes(h, mr) /\ Watches(h, mr)
      /\ h.calls \subseteq CallRecord /\ h.controlEpoch \in Nat /\ h.driver \in MaybeEpoch
      /\ c \in CallRecord /\ c.epoch \in Nat
      /\ \A x \in h.calls : x.epoch \in Nat
  BY DEF Keeps, Host, Held, CallRecord
<1>2. k \in Host
  <2>1. h.controlEpoch + 1 \in Nat
    BY <1>1
  <2> QED BY <1>1, <2>1, Values DEF Host
<1>3. /\ k.calls = h.calls /\ k.deliveryActive = h.deliveryActive
      /\ k.controlEpoch = h.controlEpoch + 1 /\ k.status = h.status
      /\ Alike(k, h) /\ k.watch = h.watch
  BY <1>1 DEF Host, Alike
<1> HIDE DEF k
<1>4. Keeps(k, mr)
  BY <1>1, <1>2, <1>3 DEF Keeps, OneDelivery, Epochs, Pushes, Watches, Alike
<1>5. Held(k, c)
  BY <1>1, <1>3 DEF Held, Alike
<1>6. /\ d \in CallRecord /\ d.kind = "settle" /\ d.how = state
      /\ d.epoch = c.epoch /\ d.owner = c.owner
  BY <1>1 DEF CallRecord, Kinds, How
<1> HIDE DEF d
<1>7. Admits(k, d, mr)
  BY <1>3, <1>5, <1>6 DEF Admits, Meant, Held, Early, Alike
<1>8. LET g == Add(Drop(k, c), d) IN
      Moves(g, k, mr) /\ Alike(g, k) /\ g.status = k.status
  BY <1>4, <1>5, <1>6, <1>7, Swapped
<1>9. k.controlEpoch # h.controlEpoch
  BY <1>1, <1>3
<1>10. Overtake(h, c, state) = Add(Drop(k, c), d)
  BY DEF Overtake, k, d
<1>11. Alike(Overtake(h, c, state), h) /\ Overtake(h, c, state).status = h.status
  BY <1>3, <1>8, <1>10 DEF Alike
<1> QED BY <1>8, <1>9, <1>10, <1>11 DEF Moves

LEMMA ApplyTakes ==
    ASSUME NEW h, NEW mr, Keeps(h, mr), NEW c, Held(h, c),
           NEW state \in {"merged", "closed"}, state = "merged" => mr = "merged"
    PROVE  Takes(applyMergeState(h, c, state), h, mr)
<1>1. h \in Host
  BY DEF Keeps
<1>2. CASE state = "merged"
  <2> DEFINE k == [h EXCEPT !.status = "verifying", !.stalled = FALSE]
  <2>1. k \in Host
    BY <1>1, Values DEF Host
  <2>2. Still(k, h) /\ Alike(k, h) /\ k.status = "verifying"
    BY <1>1 DEF Host, Still, Alike
  <2>3. applyMergeState(h, c, state) = Overtake(k, c, "merged")
    BY <1>2 DEF applyMergeState, Overtake
  <2> HIDE DEF k
  <2>4. Keeps(k, mr) /\ Held(k, c)
    <3>1. Alters(k, h)
      BY <2>1, <2>2 DEF Alters, Alike
    <3> QED BY <2>2, <3>1, Altered DEF Moves, Held, Still
  <2>5. LET g == Overtake(k, c, "merged") IN
        /\ Keeps(g, mr) /\ Alike(g, k) /\ g.status = k.status
        /\ g.controlEpoch # k.controlEpoch
    BY <1>2, <2>2, <2>4, OvertakeMoves
  <2> QED BY <2>2, <2>3, <2>5 DEF Takes, Alike, Still
<1>3. CASE state = "closed" /\ h.status \in {"running", "queued", "verifying"}
  <2> DEFINE k == [h EXCEPT !.status = "await_merge", !.loop = "closed", !.closed = TRUE]
  <2>1. k \in Host
    BY <1>1, Values DEF Host
  <2>2. Still(k, h) /\ Alike(k, h) /\ k.status = "await_merge"
    BY <1>1 DEF Host, Still, Alike
  <2>3. applyMergeState(h, c, state) = Overtake(k, c, "closed")
    BY <1>3 DEF applyMergeState, Overtake
  <2> HIDE DEF k
  <2>4. Keeps(k, mr) /\ Held(k, c)
    <3>1. Alters(k, h)
      BY <2>1, <2>2 DEF Alters, Alike
    <3> QED BY <2>2, <3>1, Altered DEF Moves, Held, Still
  <2>5. LET g == Overtake(k, c, "closed") IN
        /\ Keeps(g, mr) /\ Alike(g, k) /\ g.status = k.status
        /\ g.controlEpoch # k.controlEpoch
    BY <1>3, <2>2, <2>4, OvertakeMoves
  <2> QED BY <2>2, <2>3, <2>5 DEF Takes, Alike, Still
<1>4. CASE state = "closed" /\ h.status \notin {"running", "queued", "verifying"}
  <2> DEFINE k == [h EXCEPT !.closed = TRUE]
  <2>1. k \in Host
    BY <1>1, Values DEF Host
  <2>2. Still(k, h) /\ Alike(k, h) /\ k.status = h.status
    BY <1>1 DEF Host, Still, Alike
  <2>3. applyMergeState(h, c, state) = Return(k, c)
    BY <1>4 DEF applyMergeState
  <2> HIDE DEF k
  <2>4. Keeps(k, mr) /\ Held(k, c)
    <3>1. Alters(k, h)
      BY <2>1, <2>2 DEF Alters, Alike
    <3> QED BY <2>2, <3>1, Altered DEF Moves, Held, Still
  <2>5. LET g == Return(k, c) IN
        /\ Moves(g, k, mr) /\ Alike(g, k)
        /\ k.status \notin {"running", "verifying"} => g.status = k.status
    BY <2>4, ReturnMoves
  <2> QED BY <2>2, <2>3, <2>5 DEF Takes, Alike, Moves, Stays
<1> QED BY <1>2, <1>3, <1>4

LEMMA SettleTakes ==
    ASSUME NEW h, NEW mr, Keeps(h, mr), NEW c, Held(h, c),
           NEW state \in {"merged", "closed"}, state = "merged" => mr = "merged"
    PROVE  Takes(settleMergeState(h, c, state), h, mr)
<1>1. CASE Settling(h)
  <2>1. c.sha \in MaybeSha /\ "settle" \in Kinds /\ state \in How /\ "settle" \in Early
    BY DEF Held, CallRecord, Kinds, How, Early
  <2>2. settleMergeState(h, c, state) = Go(h, c, "settle", c.sha, state)
    BY <1>1 DEF settleMergeState
  <2>3. "settle" \notin {"confirm", "push"}
    OBVIOUS
  <2>4. LET g == Go(h, c, "settle", c.sha, state) IN
        Moves(g, h, mr) /\ Alike(g, h) /\ g.status = h.status
    BY <2>1, <2>3, GoMoves
  <2> QED BY <2>2, <2>4 DEF Takes, Moves, Stays
<1>2. CASE ~Settling(h) /\ h.status = "completed"
  <2>1. settleMergeState(h, c, state) = Return(h, c)
    BY <1>2 DEF settleMergeState
  <2> QED BY <1>2, <2>1, ReturnMoves DEF Takes, Moves, Stays
<1>3. CASE ~Settling(h) /\ h.status # "completed"
  BY <1>3, ApplyTakes DEF settleMergeState
<1> QED BY <1>1, <1>2, <1>3

-----------------------------------------------------------------------------
\* Pushes.

\* None is no commit.
LEMMA NoCommit == None \notin Commit
BY NoneAssumption DEF Commit

\* A receipt names the commit that is on the branch.
LEMMA ReceiptMoves ==
    ASSUME NEW h, NEW mr, Keeps(h, mr), NEW sha \in Commit
    PROVE  LET g == projectPushReceipt(h, sha) IN
           /\ Moves(g, h, mr) /\ Holds(g, h) /\ g.sha = sha /\ g.mr = h.mr
           /\ g.status = h.status
<1> DEFINE r == Replaced(h)
           k == NoDeadline(r)
           g == [k EXCEPT !.sha = sha, !.pipeline = None, !.gap = None]
<1>1. /\ Moves(r, h, mr) /\ Keeps(r, mr) /\ Holds(r, h) /\ Alike(r, h)
      /\ r.status = h.status
  BY ReplacedMoves DEF Moves
<1>2. projectPushReceipt(h, sha) = IF h.sha = sha THEN r ELSE g
  BY DEF projectPushReceipt
<1> HIDE DEF r
<1>3. /\ Moves(k, r, mr) /\ k.calls = r.calls /\ Alike(k, r) /\ k.status = r.status
  BY <1>1, NoDeadlineMoves
<1>4. /\ Moves(k, h, mr) /\ Keeps(k, mr) /\ Holds(k, h) /\ Alike(k, h)
      /\ k.status = h.status
  BY <1>1, <1>3, MovesOn DEF Moves, Holds, Alike
<1> HIDE DEF k
<1>5. /\ k \in Host /\ OneDelivery(k) /\ Epochs(k) /\ Pushes(k, mr) /\ Watches(k, mr)
  BY <1>4 DEF Keeps
<1>6. g \in Host
  BY <1>5, Values DEF Host
<1>7. /\ g.calls = k.calls /\ g.deliveryActive = k.deliveryActive
      /\ g.controlEpoch = k.controlEpoch /\ g.mr = k.mr /\ g.status = k.status
      /\ g.watch = k.watch
      /\ g.sha = sha /\ g.pipeline = None /\ g.gap = None
  BY <1>5 DEF Host
<1> HIDE DEF g
<1>8. Keeps(g, mr)
  BY <1>5, <1>6, <1>7, NoCommit DEF Keeps, OneDelivery, Epochs, Pushes, Watches
<1>9. Moves(g, k, mr)
  BY <1>7, <1>8 DEF Moves
<1>10. Moves(g, h, mr)
  BY <1>4, <1>9, MovesOn
<1>11. Holds(g, h) /\ g.mr = h.mr /\ g.status = h.status
  BY <1>4, <1>7 DEF Holds, Alike
<1> QED BY <1>1, <1>2, <1>7, <1>10, <1>11 DEF Alike

\* Of a commit that was pushed one may know the merge request.
LEMMA FoundMoves ==
    ASSUME NEW h, NEW mr, Keeps(h, mr), h.sha # None
    PROVE  LET g == [h EXCEPT !.mr = TRUE] IN
           /\ Moves(g, h, mr) /\ g.calls = h.calls /\ g.sha = h.sha /\ g.mr = TRUE
           /\ g.status = h.status
<1> DEFINE g == [h EXCEPT !.mr = TRUE]
<1>1. /\ h \in Host /\ OneDelivery(h) /\ Epochs(h) /\ Pushes(h, mr) /\ Watches(h, mr)
  BY DEF Keeps
<1>2. g \in Host
  BY <1>1, Values DEF Host
<1>3. /\ g.calls = h.calls /\ g.deliveryActive = h.deliveryActive
      /\ g.controlEpoch = h.controlEpoch /\ g.sha = h.sha /\ g.status = h.status
      /\ g.pipeline = h.pipeline /\ g.gap = h.gap /\ g.mr = TRUE
      /\ g.watch = h.watch
  BY <1>1 DEF Host
<1> HIDE DEF g
<1>4. Keeps(g, mr)
  BY <1>1, <1>2, <1>3 DEF Keeps, OneDelivery, Epochs, Pushes, Watches
<1> QED BY <1>3, <1>4 DEF Moves, g

\* The next delivery step after the push.
LEMMA PushedMoves ==
    ASSUME NEW h, NEW mr, Keeps(h, mr), NEW c, Held(h, c), c.sha \in Commit,
           c.kind # "artifacts", NEW existing \in BOOLEAN,
           Current(h, c.epoch) => h.status # "paused"
    PROVE  LET g == Pushed(h, c, existing) IN
           /\ Moves(g, h, mr)
           /\ ~Current(h, c.epoch) => Stays(g, h)
<1> DEFINE g == projectPushReceipt(h, c.sha)
           was == IF existing /\ h.mr THEN h.pipeline ELSE None
           v == [g EXCEPT !.status = "verifying"]
           how == IF existing /\ h.pipeline # "retry" THEN "ask" ELSE "trigger"
<1>1. /\ Moves(g, h, mr) /\ Keeps(g, mr) /\ Holds(g, h) /\ g.sha = c.sha /\ g.mr = h.mr
      /\ g.status = h.status /\ g.controlEpoch = h.controlEpoch
  BY ReceiptMoves DEF Moves
<1>2. Held(g, c) /\ c.epoch \in Nat /\ c.sha # None /\ c.sha \in MaybeSha
  BY <1>1, HeldStill, NoCommit DEF Held, CallRecord
<1>3. Pushed(h, c, existing) =
        CASE ~Current(g, c.epoch) -> Return(g, c)
          [] Current(g, c.epoch) /\ was \in {"success", "failed"} ->
               pipelineVerdict(v, c, was)
          [] Current(g, c.epoch) /\ was \in {"running", "not_found", "unavailable"} ->
               Return(pollPipeline(v, c.epoch), c)
          [] OTHER -> Go(g, c, "create", c.sha, how)
  BY DEF Pushed
<1> HIDE DEF g
<1>4. Current(g, c.epoch) <=> Current(h, c.epoch)
  BY <1>1 DEF Current
<1>5. CASE ~Current(g, c.epoch)
  <2>1. Pushed(h, c, existing) = Return(g, c)
    BY <1>3, <1>5
  <2>2. Moves(Return(g, c), g, mr) /\ Stays(Return(g, c), g)
    BY <1>1, <1>2, ReturnMoves DEF Stays
  <2> QED BY <1>1, <2>1, <2>2, MovesOn DEF Stays
<1>6. /\ Moves(v, g, mr) /\ Keeps(v, mr) /\ v.calls = g.calls /\ Alike(v, g)
      /\ v.status = "verifying" /\ v.controlEpoch = g.controlEpoch
  <2>1. "verifying" \in Status \ {"paused", "completed"}
    BY DEF Status
  <2> QED BY <1>1, <2>1, StatusMoves DEF Moves
<1> HIDE DEF v
<1>7. Held(v, c)
  BY <1>2, <1>6 DEF Held, Alike
<1>8. CASE Current(g, c.epoch) /\ was \in {"success", "failed"}
  <2>1. Pushed(h, c, existing) = pipelineVerdict(v, c, was)
    BY <1>3, <1>8
  <2>2. was \in How
    BY <1>8 DEF How
  <2>3. Moves(pipelineVerdict(v, c, was), v, mr)
    <3> HIDE DEF was
    <3> QED BY <1>2, <1>6, <1>7, <2>2, VerdictMoves
  <2> QED BY <1>1, <1>4, <1>6, <1>8, <2>1, <2>3, MovesOn
<1>9. CASE Current(g, c.epoch) /\ was \in {"running", "not_found", "unavailable"}
  <2> DEFINE p == pollPipeline(v, c.epoch)
  <2>1. Pushed(h, c, existing) = Return(p, c)
    BY <1>3, <1>9
  <2>2. Moves(p, v, mr) /\ Keeps(p, mr) /\ Holds(p, v) /\ Alike(p, v)
    BY <1>2, <1>6, PollMoves DEF Moves
  <2> HIDE DEF p
  <2>3. Held(p, c)
    BY <1>7, <2>2, HeldStill DEF Alike
  <2>4. Moves(Return(p, c), p, mr)
    BY <2>2, <2>3, ReturnMoves
  <2> QED BY <1>1, <1>4, <1>6, <1>9, <2>1, <2>2, <2>4, MovesOn
<1>10. CASE Current(g, c.epoch) /\ was \notin {"success", "failed", "running",
                                                "not_found", "unavailable"}
  <2>1. Pushed(h, c, existing) = Go(g, c, "create", c.sha, how)
    BY <1>3, <1>10
  <2>2. /\ "create" \in Kinds /\ how \in How /\ how \in {"ask", "trigger"}
        /\ "create" \notin {"confirm", "push", "settle", "turn", "refresh"}
    BY DEF Kinds, How
  <2> HIDE DEF how, was
  <2>3. Moves(Go(g, c, "create", c.sha, how), g, mr)
    BY <1>1, <1>2, <1>4, <1>10, <2>2, GoMoves DEF Current
  <2> QED BY <1>1, <1>4, <1>10, <2>1, <2>3, MovesOn
<1> QED BY <1>5, <1>8, <1>9, <1>10

-----------------------------------------------------------------------------
\* What a step of the service does: it keeps the invariant, completes no task,
\* and moves a paused one only in a new epoch.
Steps(g, h, mr) ==
    /\ Keeps(g, mr)
    /\ g.status = "completed" => h.status = "completed"
    /\ h.status = "paused" => g.status = "paused" \/ g.controlEpoch # h.controlEpoch

LEMMA MovesSteps ==
    ASSUME NEW g, NEW h, NEW mr, Moves(g, h, mr), Stays(g, h) \/ h.status # "paused"
    PROVE  Steps(g, h, mr)
BY DEF Moves, Steps, Stays

LEMMA TakesSteps ==
    ASSUME NEW g, NEW h, NEW mr, Takes(g, h, mr)
    PROVE  Steps(g, h, mr)
BY DEF Takes, Steps, Stays

\* The calls of a paused task are overtaken, settlements apart.
LEMMA NotPaused ==
    ASSUME NEW h, NEW mr, Keeps(h, mr), NEW c \in h.calls, c.kind # "settle",
           Current(h, c.epoch)
    PROVE  h.status # "paused"
BY DEF Keeps, Epochs, Current

LEMMA ReturnSteps ==
    ASSUME NEW h, NEW mr, Keeps(h, mr), NEW c, Held(h, c)
    PROVE  Steps(Return(h, c), h, mr)
BY ReturnMoves, MovesSteps DEF Stays

LEMMA FailedSteps ==
    ASSUME NEW h, NEW mr, Keeps(h, mr), NEW c, Held(h, c), c.kind # "artifacts",
           Current(h, c.epoch) => h.status # "paused", NEW g \in Failed(h, c)
    PROVE  Steps(g, h, mr)
<1>1. CASE ~Current(h, c.epoch)
  <2>1. g = Return(h, c)
    BY <1>1 DEF Failed
  <2> QED BY <2>1, ReturnSteps
<1>2. CASE Current(h, c.epoch)
  <2> DEFINE w == holdWithRecovery(h, c.epoch)
             s == markVerificationStalled(h)
  <2>1. g \in {Return(w, c), Return(s, c)}
    BY <1>2 DEF Failed
  <2>2. c.epoch \in Nat
    BY DEF Held, CallRecord
  <2>3. Moves(w, h, mr) /\ Keeps(w, mr) /\ Holds(w, h) /\ Alike(w, h)
    BY <2>2, HeldMoves DEF Moves
  <2>4. Moves(s, h, mr) /\ Keeps(s, mr) /\ Holds(s, h) /\ Alike(s, h)
    BY StalledMoves DEF Moves
  <2> HIDE DEF w, s
  <2>5. Held(w, c) /\ Held(s, c)
    BY <2>3, <2>4, HeldStill DEF Alike
  <2>6. Moves(Return(w, c), w, mr) /\ Moves(Return(s, c), s, mr)
    BY <2>3, <2>4, <2>5, ReturnMoves
  <2>7. Moves(g, h, mr)
    BY <2>1, <2>3, <2>4, <2>6, MovesOn
  <2> QED BY <1>2, <2>7, MovesSteps
<1> QED BY <1>1, <1>2

\* The merge request of a pushed commit is known and watched from now on.
LEMMA RequestMoves ==
    ASSUME NEW h, NEW mr, Keeps(h, mr), h.sha # None
    PROVE  LET g == ensureMergeWatch([Replaced(h) EXCEPT !.mr = TRUE]) IN
           /\ Moves(g, h, mr) /\ Holds(g, h) /\ g.sha = h.sha /\ g.mr = TRUE
           /\ g.status = h.status
<1> DEFINE r == Replaced(h)
           k == [r EXCEPT !.mr = TRUE]
           g == ensureMergeWatch(k)
<1>1. /\ Moves(r, h, mr) /\ Keeps(r, mr) /\ Holds(r, h) /\ r.sha = h.sha
      /\ r.status = h.status
  BY ReplacedMoves DEF Moves, Alike
<1> HIDE DEF r
<1>2. /\ Moves(k, r, mr) /\ Keeps(k, mr) /\ k.calls = r.calls /\ k.sha = r.sha
      /\ k.mr = TRUE /\ k.status = r.status
  BY <1>1, FoundMoves DEF Moves
<1> HIDE DEF k
<1>3. /\ Moves(g, k, mr) /\ g.calls = k.calls /\ g.sha = k.sha /\ g.mr = k.mr
      /\ g.status = k.status
  BY <1>2, WatchedMoves DEF Alike
<1> HIDE DEF g
<1>4. Moves(g, h, mr) /\ Holds(g, h)
  BY <1>1, <1>2, <1>3, MovesOn DEF Holds
<1> QED BY <1>1, <1>2, <1>3, <1>4 DEF g, k, r

LEMMA ReconciledMoves ==
    ASSUME Inv
    PROVE  LET g == Reconciled IN
           /\ Moves(g, host, site.mr) /\ Holds(g, host) /\ (host.mr => g.mr)
           /\ g.status = host.status
<1> DEFINE k == ensureMergeWatch([Replaced(host) EXCEPT !.mr = TRUE])
           seen == IF host.mr \/ site.mr = "opened" THEN k ELSE host
           g == projectPushReceipt(seen, head)
<1>1. Keeps(host, site.mr) /\ head \in Commit
  BY DEF Inv
<1>2. Reconciled = IF site.branch = head THEN g ELSE seen
  BY DEF Reconciled
<1>3. /\ Moves(seen, host, site.mr) /\ Keeps(seen, site.mr) /\ Holds(seen, host)
      /\ host.mr => seen.mr
      /\ seen.status = host.status
  <2>1. CASE host.mr \/ site.mr = "opened"
    <3>1. host.sha # None
      BY <1>1, <2>1 DEF Keeps, Pushes
    <3>2. /\ Moves(k, host, site.mr) /\ Holds(k, host) /\ k.mr = TRUE
          /\ k.status = host.status
      BY <1>1, <3>1, RequestMoves
    <3> HIDE DEF k
    <3> QED BY <2>1, <3>2 DEF Moves
  <2>2. CASE ~(host.mr \/ site.mr = "opened")
    BY <1>1, <2>2 DEF Moves, Holds
  <2> QED BY <2>1, <2>2
<1> HIDE DEF seen
<1>4. /\ Moves(g, seen, site.mr) /\ Holds(g, seen) /\ g.mr = seen.mr
      /\ g.status = seen.status
  BY <1>1, <1>3, ReceiptMoves
<1> HIDE DEF g
<1> QED BY <1>2, <1>3, <1>4, MovesOn DEF Holds

-----------------------------------------------------------------------------
\* The answers to the calls of a delivery.

LEMMA CheckSteps ==
    ASSUME Inv, NEW c \in host.calls, c.kind \notin {"settle", "artifacts"}, CheckEnds(c)
    PROVE  Steps(host', host, site.mr)
<1>1. Keeps(host, site.mr) /\ Held(host, c)
  BY HeldCall DEF Inv
<1>2. Steps(Return(host, c), host, site.mr)
  BY <1>1, ReturnSteps
<1>3. CASE Ended /\ host' = settleMergeState(host, c, site.mr)
  <2>1. site.mr \in {"merged", "closed"}
    BY <1>3 DEF Ended
  <2>2. Takes(settleMergeState(host, c, site.mr), host, site.mr)
    BY <1>1, <2>1, SettleTakes
  <2> QED BY <1>3, <2>2, TakesSteps
<1>4. CASE host' \in Failed(host, c)
  BY <1>1, <1>4, FailedSteps, NotPaused
<1> QED BY <1>2, <1>3, <1>4 DEF CheckEnds

LEMMA ChecksSteps ==
    ASSUME Inv, NEW c \in host.calls, DeliverChecks(c)
    PROVE  Steps(host', host, site.mr)
<1>1. Keeps(host, site.mr) /\ Held(host, c) /\ c.kind = "check"
  BY HeldCall DEF Inv, DeliverChecks
<1>2. CASE CheckEnds(c)
  BY <1>1, <1>2, CheckSteps
<1>3. CASE Proceeds(c) /\ ~CheckEnds(c)
  <2> DEFINE h == Reconciled
             k == [h EXCEPT !.loop = IF @ = "repairing" THEN "verifying" ELSE @]
             g == Go(k, c, "sync", {}, h.stalled)
  <2>1. Moves(h, host, site.mr) /\ Keeps(h, site.mr) /\ Holds(h, host) /\ (host.mr => h.mr)
    BY ReconciledMoves DEF Moves
  <2>2. h.status = host.status /\ host.status # "paused"
    BY <1>1, <1>3, ReconciledMoves, NotPaused DEF Proceeds, Overtaken
  <2>3. Held(h, c)
    BY <1>1, <2>1, HeldStill
  <2>4. host' = g
    BY <1>3 DEF DeliverChecks, enterRepairVerification
  <2> HIDE DEF h
  <2>5. h \in Host /\ h.stalled \in BOOLEAN
    BY <2>1 DEF Keeps, Host
  <2>6. k \in Host
    BY <2>5, Values DEF Host
  <2>7. Still(k, h) /\ Alike(k, h) /\ k.status = h.status
    BY <2>5 DEF Host, Still, Alike
  <2> HIDE DEF k
  <2>8. Moves(k, h, site.mr) /\ Keeps(k, site.mr) /\ Held(k, c)
    <3>1. Alters(k, h)
      BY <2>6, <2>7 DEF Alters, Alike
    <3> QED BY <2>1, <2>3, <2>7, <3>1, Altered DEF Moves, Held, Still
  <2>9. /\ "sync" \in Kinds /\ {} \in MaybeSha /\ h.stalled \in How /\ "sync" \in Early
        /\ "sync" \notin {"confirm", "push", "settle", "turn", "refresh"}
    BY <2>5 DEF Kinds, MaybeSha, Commit, How, Early
  <2>10. Moves(g, k, site.mr)
    BY <2>2, <2>7, <2>8, <2>9, GoMoves
  <2>11. Moves(g, host, site.mr)
    BY <2>1, <2>8, <2>10, MovesOn
  <2> QED BY <2>2, <2>4, <2>11, MovesSteps
<1> QED BY <1>2, <1>3 DEF DeliverChecks

LEMMA SyncsSteps ==
    ASSUME Inv, NEW c \in host.calls, DeliverSyncs(c)
    PROVE  Steps(host', host, site.mr)
<1>1. Keeps(host, site.mr) /\ Held(host, c) /\ c.kind = "sync"
  BY HeldCall DEF Inv, DeliverSyncs
<1>2. head' \in Commit
  BY DEF Inv, Site, Commit, DeliverSyncs
<1>3. host.stalled \in BOOLEAN /\ c \in CallRecord
  BY <1>1 DEF Keeps, Host, Held
<1>4. CASE host' = Return(host, c)
  BY <1>1, <1>4, ReturnSteps
<1>5. CASE /\ Current(host, c.epoch) /\ host.mr /\ host.sha = head'
           /\ host' = Pushed(Add(Drop(host, c), [c EXCEPT !.sha = head']),
                             [c EXCEPT !.sha = head'], TRUE)
  <2> DEFINE d == [c EXCEPT !.sha = head']
             k == Add(Drop(host, c), d)
  <2>1. /\ d \in CallRecord /\ d.kind = "sync" /\ d.sha = head'
        /\ d.epoch = c.epoch /\ d.owner = c.owner
    BY <1>1, <1>2, <1>3 DEF CallRecord, MaybeSha
  <2>2. host.status # "paused"
    BY <1>1, <1>5, NotPaused
  <2>3. host' = Pushed(k, d, TRUE)
    BY <1>5
  <2> HIDE DEF d
  <2>4. Admits(host, d, site.mr)
    BY <1>1, <2>1, <2>2 DEF Admits, Meant, Held, Early
  <2>5. /\ Moves(k, host, site.mr) /\ Keeps(k, site.mr) /\ Alike(k, host) /\ k.status = host.status
        /\ d \in k.calls
    BY <1>1, <2>1, <2>4, Swapped DEF Moves
  <2> HIDE DEF k
  <2>6. Held(k, d)
    BY <2>5, HeldCall
  <2>7. Moves(Pushed(k, d, TRUE), k, site.mr)
    BY <1>2, <2>1, <2>2, <2>5, <2>6, PushedMoves
  <2>8. Moves(host', host, site.mr)
    BY <2>3, <2>5, <2>7, MovesOn
  <2> QED BY <2>2, <2>8, MovesSteps
<1>6. CASE Current(host, c.epoch) /\ host' = Go(host, c, "confirm", head', host.stalled)
  <2>1. /\ "confirm" \in Kinds /\ head' \in MaybeSha /\ host.stalled \in How
        /\ "confirm" \in Early /\ head' # None
    BY <1>2, <1>3, NoCommit DEF Kinds, MaybeSha, How, Early
  <2>2. "confirm" # "settle" /\ host.status # "paused"
    BY <1>1, <1>6, NotPaused
  <2>3. Moves(host', host, site.mr)
    BY <1>1, <1>6, <2>1, <2>2, GoMoves
  <2> QED BY <2>2, <2>3, MovesSteps
<1>7. CASE Current(host, c.epoch) /\ host' = Return(enqueueRepair(host), c)
  <2> DEFINE k == [host EXCEPT !.status = "queued"]
  <2>1. host.status # "paused"
    BY <1>1, <1>7, NotPaused
  <2>2. "queued" \in Status \ {"paused", "completed"}
    BY DEF Status
  <2>3. Moves(k, host, site.mr) /\ Keeps(k, site.mr) /\ k.calls = host.calls /\ Alike(k, host)
    BY <1>1, <2>2, StatusMoves DEF Moves
  <2>4. host' = Return(k, c)
    BY <1>7 DEF enqueueRepair
  <2> HIDE DEF k
  <2>5. Held(k, c)
    BY <1>1, <2>3 DEF Held, Moves, Alike
  <2>6. Moves(host', host, site.mr)
    BY <2>3, <2>4, <2>5, ReturnMoves, MovesOn
  <2> QED BY <2>1, <2>6, MovesSteps
<1>8. CASE host' \in Failed(host, c)
  BY <1>1, <1>8, FailedSteps, NotPaused
<1> QED BY <1>4, <1>5, <1>6, <1>7, <1>8 DEF DeliverSyncs

LEMMA ConfirmsSteps ==
    ASSUME Inv, NEW c \in host.calls, DeliverConfirms(c)
    PROVE  Steps(host', host, site.mr)
<1>1. Keeps(host, site.mr) /\ Held(host, c) /\ c.kind = "confirm"
  BY HeldCall DEF Inv, DeliverConfirms
<1>2. CASE CheckEnds(c)
  BY <1>1, <1>2, CheckSteps
<1>3. CASE Proceeds(c) /\ ~CheckEnds(c)
  <2> DEFINE h == Reconciled
  <2>1. Moves(h, host, site.mr) /\ Keeps(h, site.mr) /\ Holds(h, host) /\ (host.mr => h.mr)
    BY ReconciledMoves DEF Moves
  <2>2. h.status # "paused" /\ host.status # "paused"
    BY <1>1, <1>3, ReconciledMoves, NotPaused DEF Proceeds, Overtaken
  <2>3. Held(h, c)
    BY <1>1, <2>1, HeldStill
  <2>4. c.sha \in Commit /\ c.sha \in MaybeSha /\ c.sha # None
    BY <1>1 DEF Keeps, Pushes, Held, CallRecord, MaybeSha
  <2>5. host' \in {Pushed(h, c, TRUE), Go(h, c, "push", c.sha, None)}
    BY <1>3 DEF DeliverConfirms
  <2> HIDE DEF h
  <2>6. Moves(Pushed(h, c, TRUE), h, site.mr)
    BY <1>1, <2>1, <2>2, <2>3, <2>4, PushedMoves
  <2>7. "push" \in Kinds /\ None \in How /\ "push" \in Early /\ "push" # "settle"
    BY DEF Kinds, How, Early
  <2>8. Moves(Go(h, c, "push", c.sha, None), h, site.mr)
    BY <2>1, <2>2, <2>3, <2>4, <2>7, GoMoves
  <2>9. Moves(host', host, site.mr)
    BY <2>1, <2>5, <2>6, <2>8, MovesOn
  <2> QED BY <2>2, <2>9, MovesSteps
<1> QED BY <1>2, <1>3 DEF DeliverConfirms

LEMMA PushesSteps ==
    ASSUME Inv, NEW c \in host.calls, DeliverPushes(c)
    PROVE  Steps(host', host, site.mr)
<1>1. Keeps(host, site.mr) /\ Held(host, c) /\ c.kind = "push"
  BY HeldCall DEF Inv, DeliverPushes
<1>2. Current(host, c.epoch) => host.status # "paused"
  BY <1>1, NotPaused
<1>3. c.sha \in Commit /\ host.stalled \in BOOLEAN
  BY <1>1 DEF Keeps, Pushes, Host, Held, CallRecord, MaybeSha
<1>4. CASE host' = Pushed(host, c, FALSE)
  <2>1. /\ Moves(host', host, site.mr)
        /\ ~Current(host, c.epoch) => Stays(host', host)
    BY <1>1, <1>2, <1>3, <1>4, PushedMoves
  <2> QED BY <1>2, <2>1, MovesSteps
<1>5. CASE Current(host, c.epoch) /\ host' = Go(host, c, "sync", {}, host.stalled)
  <2>1. /\ "sync" \in Kinds /\ {} \in MaybeSha /\ host.stalled \in How /\ "sync" \in Early
        /\ "sync" \notin {"confirm", "push", "settle", "turn", "refresh"}
    BY <1>3 DEF Kinds, MaybeSha, Commit, How, Early
  <2>2. Moves(host', host, site.mr)
    BY <1>1, <1>2, <1>5, <2>1, GoMoves
  <2> QED BY <1>2, <1>5, <2>2, MovesSteps
<1>6. CASE host' = Return(host, c)
  BY <1>1, <1>6, ReturnSteps
<1>7. CASE host' \in Failed(host, c)
  BY <1>1, <1>2, <1>7, FailedSteps
<1> QED BY <1>4, <1>5, <1>6, <1>7 DEF DeliverPushes

LEMMA CreatesSteps ==
    ASSUME Inv, NEW c \in host.calls, DeliverCreates(c)
    PROVE  Steps(host', host, site.mr)
<1>1. Keeps(host, site.mr) /\ Held(host, c) /\ c.kind = "create"
  BY HeldCall DEF Inv, DeliverCreates
<1>2. Current(host, c.epoch) => host.status # "paused"
  BY <1>1, NotPaused
<1>3. CASE host' = Return(host, c)
  BY <1>1, <1>3, ReturnSteps
<1>4. CASE host' \in Failed(host, c)
  BY <1>1, <1>2, <1>4, FailedSteps
<1>5. CASE /\ Current(host, c.epoch)
           /\ host' = Go(ensureMergeWatch([Replaced(host) EXCEPT !.mr = TRUE]),
                         c, c.how, c.sha, None)
  <2> DEFINE k == ensureMergeWatch([Replaced(host) EXCEPT !.mr = TRUE])
  <2>1. host.sha # None /\ c.sha # None /\ c.sha \in MaybeSha
    BY <1>1 DEF Keeps, Pushes, Early, Held, CallRecord
  <2>2. /\ Moves(k, host, site.mr) /\ Keeps(k, site.mr) /\ Holds(k, host)
        /\ k.sha = host.sha /\ k.mr = TRUE /\ k.status = host.status
    BY <1>1, <2>1, RequestMoves DEF Moves
  <2>3. host' = Go(k, c, c.how, c.sha, None)
    BY <1>5
  <2> HIDE DEF k
  <2>4. Held(k, c)
    BY <1>1, <2>2, HeldStill
  <2>5. c.how \in {"ask", "trigger"}
    BY <1>1 DEF Keeps, Pushes, Meant
  <2>6. /\ c.how \in Kinds /\ None \in How /\ k.sha # None
        /\ c.how \notin {"confirm", "push", "settle", "create", "turn", "refresh"}
    BY <2>1, <2>2, <2>5 DEF Kinds, How
  <2>7. Moves(Go(k, c, c.how, c.sha, None), k, site.mr)
    BY <1>2, <1>5, <2>1, <2>2, <2>4, <2>6, GoMoves DEF Current, Moves
  <2>8. Moves(host', host, site.mr)
    BY <2>2, <2>3, <2>7, MovesOn
  <2> QED BY <1>2, <1>5, <2>8, MovesSteps
<1> QED BY <1>3, <1>4, <1>5 DEF DeliverCreates

\* How a run looks from outside is a result one may know.
LEMMA ReportedKnown ==
    ASSUME Inv, NEW sha \in Commit
    PROVE  Reported(site.run[sha]) \in {"none", "running", "success", "failed"}
<1>1. site.run[sha] \in Run
  BY DEF Inv, Site
<1> QED BY <1>1 DEF Reported, Run

LEMMA AcceptMoves ==
    ASSUME NEW h, NEW mr, Keeps(h, mr), NEW c, Held(h, c), c.kind # "artifacts",
           c.sha # None, h.sha # None, h.status # "paused", NEW run \in Known
    PROVE  Moves(acceptPipelineRun(h, c, run), h, mr)
<1> DEFINE r == Replaced(h)
           k == [r EXCEPT !.pipeline = run, !.status = "verifying", !.stalled = FALSE,
                          !.gap = None, !.loop = IF h.round = 0 THEN @ ELSE "verifying"]
           g == ensureMergeWatch(k)
           p == pollPipeline(g, c.epoch)
<1>1. Moves(r, h, mr) /\ Keeps(r, mr) /\ Holds(r, h) /\ Alike(r, h)
  BY ReplacedMoves DEF Moves
<1> HIDE DEF r
<1>2. r \in Host /\ run \in Pipeline
  BY <1>1 DEF Keeps, Pipeline
<1>3. k \in Host
  BY <1>2, Values DEF Host
<1>4. Still(k, r) /\ k.gap = None /\ k.status = "verifying"
  BY <1>2 DEF Host, Still
<1>5. acceptPipelineRun(h, c, run) =
        IF run \in {"success", "failed"} THEN pipelineVerdict(g, c, run)
        ELSE Return(p, c)
  BY DEF acceptPipelineRun, r
<1> HIDE DEF k
<1>6. Moves(k, r, mr) /\ Keeps(k, mr)
  <2>1. Alters(k, r)
    BY <1>1, <1>3, <1>4 DEF Alters, Alike
  <2> QED BY <1>1, <2>1, Altered DEF Moves
<1>7. /\ Moves(g, k, mr) /\ Keeps(g, mr) /\ g.calls = k.calls /\ Alike(g, k)
      /\ g.status = "verifying"
  BY <1>4, <1>6, WatchedMoves DEF Moves
<1> HIDE DEF g
<1>8. Moves(g, h, mr) /\ Holds(g, h) /\ g.mr = h.mr
  BY <1>1, <1>4, <1>6, <1>7, MovesOn DEF Holds, Still, Alike
<1>9. Held(g, c) /\ c.epoch \in Nat
  BY <1>8, HeldStill DEF Held, CallRecord
<1>10. CASE run \in {"success", "failed"}
  <2>1. run \in How
    BY <1>10 DEF How
  <2>2. Moves(pipelineVerdict(g, c, run), g, mr)
    BY <1>7, <1>9, <2>1, VerdictMoves
  <2> QED BY <1>5, <1>8, <1>10, <2>2, MovesOn
<1>11. CASE run \notin {"success", "failed"}
  <2>1. Moves(p, g, mr) /\ Keeps(p, mr) /\ Holds(p, g) /\ Alike(p, g)
    BY <1>7, <1>9, PollMoves DEF Moves
  <2> HIDE DEF p
  <2>2. Held(p, c)
    BY <1>9, <2>1, HeldStill DEF Alike
  <2>3. Moves(Return(p, c), p, mr)
    BY <2>1, <2>2, ReturnMoves
  <2> QED BY <1>5, <1>8, <1>11, <2>1, <2>3, MovesOn
<1> QED BY <1>10, <1>11

LEMMA AsksSteps ==
    ASSUME Inv, NEW c \in host.calls, DeliverAsks(c)
    PROVE  Steps(host', host, site.mr)
<1>1. Keeps(host, site.mr) /\ Held(host, c) /\ c.kind = "ask"
  BY HeldCall DEF Inv, DeliverAsks
<1>2. Current(host, c.epoch) => host.status # "paused"
  BY <1>1, NotPaused
<1>3. host.sha # None /\ c.sha # None /\ c.sha \in MaybeSha /\ c.sha \in Commit
  BY <1>1 DEF Keeps, Pushes, Early, Held, CallRecord, MaybeSha
<1>4. CASE host' = Return(host, c)
  BY <1>1, <1>4, ReturnSteps
<1>5. CASE host' \in Failed(host, c)
  BY <1>1, <1>2, <1>5, FailedSteps
<1>6. CASE Current(host, c.epoch) /\ host' = Go(host, c, "trigger", c.sha, None)
  <2>1. /\ "trigger" \in Kinds /\ None \in How
        /\ "trigger" \notin {"confirm", "push", "settle", "create", "turn", "refresh"}
    BY DEF Kinds, How
  <2>2. Moves(host', host, site.mr)
    BY <1>1, <1>2, <1>3, <1>6, <2>1, GoMoves
  <2> QED BY <1>2, <1>6, <2>2, MovesSteps
<1>7. CASE /\ Current(host, c.epoch)
           /\ host' = acceptPipelineRun(host, c, Reported(site.run[c.sha]))
  <2>1. Reported(site.run[c.sha]) \in Known
    BY <1>3, ReportedKnown DEF Known
  <2>2. Moves(host', host, site.mr)
    BY <1>1, <1>2, <1>3, <1>7, <2>1, AcceptMoves
  <2> QED BY <1>2, <1>7, <2>2, MovesSteps
<1> QED BY <1>4, <1>5, <1>6, <1>7 DEF DeliverAsks

LEMMA TriggersSteps ==
    ASSUME Inv, NEW c \in host.calls, DeliverTriggers(c)
    PROVE  Steps(host', host, site.mr)
<1>1. Keeps(host, site.mr) /\ Held(host, c) /\ c.kind = "trigger"
  BY HeldCall DEF Inv, DeliverTriggers
<1>2. Current(host, c.epoch) => host.status # "paused"
  BY <1>1, NotPaused
<1>3. host.sha # None /\ c.sha # None /\ c.sha \in Commit
  BY <1>1 DEF Keeps, Pushes, Early, Held, CallRecord, MaybeSha
<1>4. CASE host' = Return(host, c)
  BY <1>1, <1>4, ReturnSteps
<1>5. CASE host' \in Failed(host, c)
  BY <1>1, <1>2, <1>5, FailedSteps
<1>6. CASE /\ Current(host, c.epoch)
           /\ host' = acceptPipelineRun([NoDeadline(host) EXCEPT !.closed = FALSE],
                                        c, Reported(site.run[c.sha]))
  <2> DEFINE n == NoDeadline(host)
             k == [n EXCEPT !.closed = FALSE]
  <2>1. /\ Moves(n, host, site.mr) /\ Keeps(n, site.mr) /\ n.calls = host.calls
        /\ Alike(n, host) /\ n.status = host.status
    BY <1>1, NoDeadlineMoves DEF Moves
  <2> HIDE DEF n
  <2>2. n \in Host
    BY <2>1 DEF Keeps
  <2>3. k \in Host
    BY <2>2, Values DEF Host
  <2>4. Still(k, n) /\ Alike(k, n) /\ k.status = n.status
    BY <2>2 DEF Host, Still, Alike
  <2>5. host' = acceptPipelineRun(k, c, Reported(site.run[c.sha]))
    BY <1>6 DEF n
  <2> HIDE DEF k
  <2>6. Moves(k, n, site.mr)
    <3>1. Alters(k, n)
      BY <2>3, <2>4 DEF Alters, Alike
    <3> QED BY <2>1, <3>1, Altered
  <2>7. Moves(k, host, site.mr) /\ Keeps(k, site.mr) /\ Holds(k, host) /\ Alike(k, host)
    BY <2>1, <2>4, <2>6, MovesOn DEF Moves, Holds, Still, Alike
  <2>8. Held(k, c) /\ k.sha # None /\ k.status # "paused"
    BY <1>1, <1>2, <1>3, <1>6, <2>1, <2>4, <2>7, HeldStill DEF Alike
  <2>9. Reported(site.run[c.sha]) \in Known
    BY <1>3, ReportedKnown DEF Known
  <2>10. Moves(host', k, site.mr)
    BY <1>1, <1>3, <2>5, <2>7, <2>8, <2>9, AcceptMoves
  <2>11. Moves(host', host, site.mr)
    BY <2>7, <2>10, MovesOn
  <2> QED BY <1>2, <1>6, <2>11, MovesSteps
<1> QED BY <1>4, <1>5, <1>6 DEF DeliverTriggers

LEMMA DeliverSteps ==
    ASSUME Inv, NEW c \in host.calls, Deliver(c)
    PROVE  Steps(host', host, site.mr)
BY ChecksSteps, SyncsSteps, ConfirmsSteps, PushesSteps, CreatesSteps, AsksSteps,
   TriggersSteps DEF Deliver

\* The platform may open a request for what was pushed, or merge it.
LEMMA Platforms ==
    ASSUME NEW h, NEW mr, Keeps(h, mr), NEW now, mr = "merged" => now = "merged",
           now # "none" => h.sha # None
    PROVE  Keeps(h, now)
BY DEF Keeps, Pushes, Watches

LEMMA ArrivesSteps ==
    ASSUME Inv, NEW c \in host.calls, Arrives(c)
    PROVE  Steps(host', host, site'.mr) /\ site' \in Site
<1> DEFINE d == [c EXCEPT !.mark = TRUE]
<1>1. Keeps(host, site.mr) /\ Held(host, c) /\ site \in Site
  BY HeldCall DEF Inv
<1>2. /\ c.kind \in {"push", "create", "trigger"} /\ c \in CallRecord
      /\ host' = Add(Drop(host, c), d)
  BY <1>1 DEF Arrives, Held
<1>3. /\ c.sha # None /\ c.sha \in Commit
      /\ c.kind # "push" => host.sha # None
  BY <1>1, <1>2 DEF Keeps, Pushes, Early, CallRecord, MaybeSha
<1>4. /\ d \in CallRecord /\ d.kind = c.kind /\ d.epoch = c.epoch /\ d.owner = c.owner
      /\ d.sha = c.sha /\ d.how = c.how
  BY <1>2 DEF CallRecord
<1> HIDE DEF d
<1>5. Admits(host, d, site.mr)
  <2>1. host.status = "paused" => c.epoch # host.controlEpoch
    BY <1>1, <1>2 DEF Keeps, Epochs
  <2>2. Meant(c)
    BY <1>1 DEF Keeps, Pushes
  <2> QED BY <1>1, <1>2, <1>3, <1>4, <2>1, <2>2 DEF Admits, Held, Meant, Early
<1>6. Moves(host', host, site.mr) /\ host'.status = host.status /\ host'.sha = host.sha
  BY <1>1, <1>2, <1>4, <1>5, Swapped DEF Alike
<1>7. CASE c.kind = "push"
  <2>1. site' = [site EXCEPT !.branch = c.sha]
    BY <1>7 DEF Arrives
  <2> QED BY <1>1, <1>3, <1>6, <2>1 DEF Site, Moves, Steps
<1>8. CASE c.kind = "create"
  <2>1. site' = [site EXCEPT !.mr = IF @ = "none" THEN "opened" ELSE @]
    BY <1>8 DEF Arrives
  <2>2. /\ site' \in Site
        /\ site.mr = "merged" => site'.mr = "merged"
    BY <1>1, <2>1 DEF Site, MergeState
  <2>3. Keeps(host', site'.mr)
    BY <1>3, <1>6, <1>8, <2>2, Platforms DEF Moves
  <2> QED BY <1>6, <2>2, <2>3 DEF Moves, Steps
<1>9. CASE c.kind = "trigger"
  <2>1. site' = [site EXCEPT !.run[c.sha] = "running",
                             !.triggers[c.sha] = Counted(site.triggers[c.sha])]
    BY <1>9 DEF Arrives
  <2>2. Counted(site.triggers[c.sha]) \in Nat
    BY <1>1, <1>3 DEF Site, Counted
  <2>3. site' \in Site /\ site'.mr = site.mr
    BY <1>1, <1>3, <2>1, <2>2 DEF Site, Run
  <2> QED BY <1>6, <2>3 DEF Moves, Steps
<1> QED BY <1>2, <1>7, <1>8, <1>9

-----------------------------------------------------------------------------
\* The agent.

LEMMA LaunchSteps ==
    ASSUME Inv, Launch
    PROVE  Steps(host', host, site.mr)
<1> DEFINE k == [host EXCEPT !.status = "running", !.driver = host.controlEpoch]
           d == Call("turn", host.controlEpoch, None, {}, None)
<1>1. Keeps(host, site.mr) /\ host.status = "queued" /\ host' = Add(k, d)
  BY DEF Inv, Launch
<1>2. host \in Host /\ host.controlEpoch \in Nat
  BY <1>1 DEF Keeps, Host
<1>3. k \in Host
  BY <1>2, Values DEF Host
<1>4. Still(k, host) /\ Alike(k, host) /\ k.status = "running"
  BY <1>2 DEF Host, Still, Alike
<1> HIDE DEF k
<1>5. Moves(k, host, site.mr) /\ Keeps(k, site.mr)
  <2>1. Alters(k, host)
    BY <1>3, <1>4 DEF Alters, Alike
  <2> QED BY <1>1, <2>1, Altered DEF Moves
<1>6. /\ d \in CallRecord /\ d.kind = "turn" /\ d.epoch = host.controlEpoch
      /\ d.owner = None
  BY <1>2 DEF Call, CallRecord, Kinds, Owner, MaybeSha, Commit, How
<1> HIDE DEF d
<1>7. None \notin Delivering /\ None # "watch"
  BY NoneAssumption DEF Delivering
<1>8. Admits(k, d, site.mr)
  BY <1>2, <1>4, <1>6, <1>7 DEF Admits, Meant, Early, Still
<1>9. Moves(host', k, site.mr)
  BY <1>1, <1>5, <1>6, <1>7, <1>8, Added
<1>10. Moves(host', host, site.mr)
  BY <1>5, <1>9, MovesOn
<1> QED BY <1>1, <1>10, MovesSteps

LEMMA TurnSteps ==
    ASSUME Inv, NEW c \in host.calls, TurnEnds(c)
    PROVE  Steps(host', host, site.mr)
<1> DEFINE g == Drop(host, c)
           k == [g EXCEPT !.driver = None]
<1>1. Keeps(host, site.mr) /\ Held(host, c) /\ c.kind = "turn" /\ c.epoch \in Nat
  BY HeldCall DEF Inv, TurnEnds, Held, CallRecord
<1>2. c.owner \notin Delivering
  BY <1>1, NoneAssumption DEF Keeps, Pushes, Meant, Delivering
<1>3. /\ Moves(g, host, site.mr) /\ Keeps(g, site.mr) /\ Alike(g, host)
      /\ g.status = host.status /\ g.controlEpoch = host.controlEpoch
  BY <1>1, <1>2, Dropped DEF Moves
<1> HIDE DEF g
<1>4. CASE host' = g
  BY <1>3, <1>4, MovesSteps DEF Stays
<1>5. CASE Current(host, c.epoch) /\ host' = tryDeliver(k, c.epoch, "turn")
  <2>1. g \in Host
    BY <1>3 DEF Keeps
  <2>2. k \in Host
    BY <2>1, Values DEF Host
  <2>3. Still(k, g) /\ Alike(k, g) /\ k.status = g.status
    BY <2>1 DEF Host, Still, Alike
  <2> HIDE DEF k
  <2>4. Moves(k, g, site.mr) /\ Keeps(k, site.mr)
    <3>1. Alters(k, g)
      BY <2>2, <2>3 DEF Alters, Alike
    <3> QED BY <1>3, <3>1, Altered DEF Moves
  <2>5. host.status # "paused" /\ k.status # "paused" /\ "turn" \in Delivering
    BY <1>1, <1>3, <1>5, <2>3, NotPaused DEF Delivering
  <2>6. Moves(host', k, site.mr)
    BY <1>1, <1>5, <2>4, <2>5, TryMoves
  <2>7. Moves(host', host, site.mr)
    BY <1>3, <2>4, <2>6, MovesOn
  <2> QED BY <2>5, <2>7, MovesSteps
<1> QED BY <1>4, <1>5 DEF TurnEnds, g, k

-----------------------------------------------------------------------------
\* Verdicts and the repairs they lead to.

LEMMA GreenMoves ==
    ASSUME NEW h, NEW mr, Keeps(h, mr), NEW c, Held(h, c)
    PROVE  Moves(Green(h, c), h, mr)
<1> DEFINE k == [h EXCEPT !.status = "await_merge", !.closed = FALSE,
                          !.loop = IF @ = None THEN @ ELSE "green"]
           g == ensureMergeWatch(k)
<1>1. h \in Host
  BY DEF Keeps
<1>2. k \in Host
  BY <1>1, Values DEF Host
<1>3. Still(k, h) /\ Alike(k, h) /\ k.status = "await_merge"
  BY <1>1 DEF Host, Still, Alike
<1>4. Green(h, c) = Return(g, c)
  BY DEF Green
<1> HIDE DEF k
<1>5. Moves(k, h, mr) /\ Keeps(k, mr)
  <2>1. Alters(k, h)
    BY <1>2, <1>3 DEF Alters, Alike
  <2> QED BY <2>1, Altered DEF Moves
<1>6. Moves(g, k, mr) /\ Keeps(g, mr) /\ g.calls = k.calls /\ Alike(g, k)
  BY <1>5, WatchedMoves DEF Moves
<1> HIDE DEF g
<1>7. Held(g, c)
  BY <1>3, <1>5, <1>6 DEF Held, Still, Alike, Moves
<1>8. Moves(Return(g, c), g, mr)
  BY <1>6, <1>7, ReturnMoves
<1> QED BY <1>4, <1>5, <1>6, <1>8, MovesOn

LEMMA ConcludedMoves ==
    ASSUME NEW h, NEW mr, Keeps(h, mr), NEW c, Held(h, c), c.kind # "artifacts",
           c.sha \in Commit, h.sha # None, NEW verdict
    PROVE  Moves(Concluded(h, c, verdict), h, mr)
<1>1. h \in Host /\ c.epoch \in Nat /\ c.sha # None
  BY NoCommit DEF Keeps, Held, CallRecord
<1>2. CASE verdict = "RED" \/ (c.how = "failed" /\ verdict # "STALE")
  <2> DEFINE k == [h EXCEPT !.pipeline = "failed"]
  <2>1. k \in Host
    BY <1>1, Values DEF Host
  <2>2. Still(k, h) /\ k.gap = h.gap /\ k.status = h.status
    BY <1>1 DEF Host, Still
  <2>3. Concluded(h, c, verdict) = handlePipelineRed(k, c)
    BY <1>2 DEF Concluded
  <2> HIDE DEF k
  <2>4. Moves(k, h, mr) /\ Keeps(k, mr)
    <3>1. Alters(k, h)
      BY <2>1, <2>2 DEF Alters
    <3> QED BY <3>1, Altered DEF Moves
  <2>5. Held(k, c) /\ k.sha # None
    BY <2>2 DEF Held, Still
  <2>6. Moves(handlePipelineRed(k, c), k, mr)
    BY <1>1, <2>4, <2>5, RedMoves
  <2> QED BY <2>3, <2>4, <2>6, MovesOn
<1>3. CASE /\ ~(verdict = "RED" \/ (c.how = "failed" /\ verdict # "STALE"))
           /\ verdict = "PASS"
  BY <1>3, GreenMoves DEF Concluded
<1>4. CASE /\ ~(verdict = "RED" \/ (c.how = "failed" /\ verdict # "STALE"))
           /\ verdict # "PASS"
  <2> DEFINE k == [h EXCEPT !.status = "verifying", !.closed = FALSE]
             stale == verdict = "STALE"
             g == schedulePipelineEvidenceRetry(k, c.sha, c.epoch, stale)
  <2>1. k \in Host
    BY <1>1, Values DEF Host
  <2>2. Still(k, h) /\ Alike(k, h) /\ k.status = "verifying"
    BY <1>1 DEF Host, Still, Alike
  <2>3. stale \in BOOLEAN
    OBVIOUS
  <2>s. Concluded(h, c, verdict) = Return(g, c)
    BY <1>4, Zenon DEF Concluded
  <2> HIDE DEF k, stale
  <2>4. Moves(k, h, mr) /\ Keeps(k, mr)
    <3>1. Alters(k, h)
      BY <2>1, <2>2 DEF Alters, Alike
    <3> QED BY <3>1, Altered DEF Moves
  <2>5. Held(k, c)
    BY <2>2 DEF Held, Still
  <2>6. Moves(g, k, mr) /\ Keeps(g, mr) /\ Holds(g, k) /\ Alike(g, k)
    BY <1>1, <2>3, <2>4, EvidenceMoves DEF Moves
  <2> HIDE DEF g
  <2>7. Held(g, c)
    BY <2>5, <2>6, HeldStill DEF Alike
  <2>8. Moves(Return(g, c), g, mr)
    BY <2>6, <2>7, ReturnMoves
  <2> QED BY <2>s, <2>4, <2>6, <2>8, MovesOn
<1> QED BY <1>2, <1>3, <1>4

LEMMA VerdictSteps ==
    ASSUME Inv, NEW c \in host.calls, VerdictAnswers(c)
    PROVE  Steps(host', host, site.mr) /\ attested' \subseteq Commit
<1>1. Keeps(host, site.mr) /\ Held(host, c) /\ c.kind = "verdict"
  BY HeldCall DEF Inv, VerdictAnswers
<1>2. c.sha # None /\ c.sha \in Commit /\ host.sha # None
  BY <1>1 DEF Keeps, Pushes, Early, Held, CallRecord, MaybeSha
<1>3. attested' \subseteq Commit
  BY <1>2 DEF Inv, VerdictAnswers
<1>4. PICK verdict \in Verdicts(c) :
        host' = IF ~Current(host, c.epoch) \/ host.sha # c.sha THEN Return(host, c)
                ELSE Concluded(host, c, verdict)
  BY DEF VerdictAnswers
<1>5. CASE ~Current(host, c.epoch) \/ host.sha # c.sha
  BY <1>1, <1>3, <1>4, <1>5, ReturnSteps
<1>6. CASE ~(~Current(host, c.epoch) \/ host.sha # c.sha)
  <2>1. host' = Concluded(host, c, verdict)
    BY <1>4, <1>6
  <2>2. Moves(host', host, site.mr)
    BY <1>1, <1>2, <2>1, ConcludedMoves
  <2>3. host.status # "paused"
    BY <1>1, <1>6, NotPaused
  <2> QED BY <1>3, <2>2, <2>3, MovesSteps
<1> QED BY <1>5, <1>6

LEMMA RedLooksSteps ==
    ASSUME Inv, NEW c \in host.calls, RedLooks(c)
    PROVE  Steps(host', host, site.mr)
<1>1. Keeps(host, site.mr) /\ Held(host, c) /\ c.kind = "red"
  BY HeldCall DEF Inv, RedLooks
<1>2. c.sha # None
  BY <1>1 DEF Keeps, Pushes, Early
<1>3. CASE host' = Return(host, c)
  BY <1>1, <1>3, ReturnSteps
<1>4. CASE site.mr \in {"merged", "closed"} /\ host' = settleMergeState(host, c, site.mr)
  <2>1. Takes(settleMergeState(host, c, site.mr), host, site.mr)
    BY <1>1, <1>4, SettleTakes
  <2> QED BY <1>4, <2>1, TakesSteps
<1>5. CASE host' = dispatchCiRepair(host, c)
  <2>1. Current(host, c.epoch) => host.status # "paused"
    BY <1>1, NotPaused
  <2>2. Moves(host', host, site.mr) /\ Stays(host', host)
    BY <1>1, <1>2, <1>5, <2>1, DispatchMoves
  <2> QED BY <2>2, MovesSteps
<1> QED BY <1>3, <1>4, <1>5 DEF RedLooks

LEMMA ArtifactsSteps ==
    ASSUME Inv, NEW c \in host.calls, ArtifactsArrive(c)
    PROVE  Steps(host', host, site.mr)
<1>1. Keeps(host, site.mr) /\ Held(host, c) /\ c.kind = "artifacts"
  BY HeldCall DEF Inv, ArtifactsArrive
<1>2. /\ host \in Host /\ c.sha # None /\ host.sha # None /\ c.epoch \in Nat
      /\ c.sha \in Commit
  BY <1>1 DEF Keeps, Pushes, Early, Held, CallRecord, MaybeSha
<1>3. CASE host' = Return(host, c)
  BY <1>1, <1>3, ReturnSteps
<1>4. CASE /\ Current(host, c.epoch)
           /\ host' = Return([host EXCEPT
                          !.round = @ + 1, !.loop = "repairing",
                          !.max = IF host.loop = None THEN MaxRound ELSE @,
                          !.gap = None, !.pipeline = "failed",
                          !.status = "queued"], c)
  <2> DEFINE n == host.round + 1
             k == [host EXCEPT !.round = n, !.loop = "repairing",
                     !.max = IF host.loop = None THEN MaxRound ELSE @,
                     !.gap = None, !.pipeline = "failed", !.status = "queued"]
  <2>1. host' = Return(k, c)
    BY <1>4
  <2>2. n \in Round
    BY <1>2, MaxRoundAssumption DEF ArtifactsArrive, Host, Round
  <2> HIDE DEF n
  <2>3. k \in Host
    BY <1>2, <2>2, Values DEF Host
  <2>4. Still(k, host) /\ k.gap = None /\ k.status = "queued"
    BY <1>2 DEF Host, Still
  <2> HIDE DEF k
  <2>5. Moves(k, host, site.mr) /\ Keeps(k, site.mr)
    <3>1. Alters(k, host)
      BY <1>2, <2>3, <2>4 DEF Alters
    <3> QED BY <1>1, <3>1, Altered DEF Moves
  <2>6. Held(k, c)
    BY <1>1, <2>4 DEF Held, Still
  <2>7. Moves(host', host, site.mr)
    BY <2>1, <2>5, <2>6, ReturnMoves, MovesOn
  <2>8. host.status # "paused"
    BY <1>1, <1>4, NotPaused
  <2> QED BY <2>7, <2>8, MovesSteps
<1>5. CASE /\ Current(host, c.epoch)
           /\ host' = Return(scheduleRepairEvidenceRetry(
                        [host EXCEPT !.pipeline = "failed",
                             !.gap = IF @ \in {"late", "waiting_human"}
                                     THEN "waiting_human" ELSE "retrying"],
                        c.sha, c.epoch), c)
  <2> DEFINE k == [host EXCEPT !.pipeline = "failed",
                             !.gap = IF @ \in {"late", "waiting_human"}
                                     THEN "waiting_human" ELSE "retrying"]
             g == scheduleRepairEvidenceRetry(k, c.sha, c.epoch)
  <2>1. host' = Return(g, c)
    BY <1>5
  <2>2. k \in Host
    BY <1>2, Values DEF Host
  <2>3. Still(k, host) /\ k.status = host.status
    BY <1>2 DEF Host, Still
  <2> HIDE DEF k
  <2>4. Moves(k, host, site.mr) /\ Keeps(k, site.mr)
    <3>1. Alters(k, host)
      BY <1>2, <2>2, <2>3 DEF Alters
    <3> QED BY <1>1, <3>1, Altered DEF Moves
  <2>5. Moves(g, k, site.mr) /\ Keeps(g, site.mr) /\ g.calls = k.calls /\ Alike(g, k)
    BY <1>2, <2>4, RepairMoves DEF Moves
  <2> HIDE DEF g
  <2>6. Held(g, c)
    BY <1>1, <2>3, <2>5 DEF Held, Still, Alike, Moves
  <2>7. Moves(host', host, site.mr)
    BY <2>1, <2>4, <2>5, <2>6, ReturnMoves, MovesOn
  <2>8. host.status # "paused"
    BY <1>1, <1>5, NotPaused
  <2> QED BY <2>7, <2>8, MovesSteps
<1> QED BY <1>3, <1>4, <1>5 DEF ArtifactsArrive

\* A result that was looked up is entered in the record of a pushed commit.
LEMMA KnownMoves ==
    ASSUME NEW h, NEW mr, Keeps(h, mr), h.sha # None, NEW run \in Known
    PROVE  LET g == [Replaced(h) EXCEPT !.pipeline = run] IN
           /\ Moves(g, h, mr) /\ Holds(g, h) /\ g.sha = h.sha /\ g.mr = h.mr
           /\ g.status = h.status
<1> DEFINE r == Replaced(h)
           g == [r EXCEPT !.pipeline = run]
<1>1. Moves(r, h, mr) /\ Keeps(r, mr) /\ Holds(r, h) /\ Alike(r, h) /\ r.status = h.status
  BY ReplacedMoves DEF Moves
<1> HIDE DEF r
<1>2. r \in Host /\ run \in Pipeline
  BY <1>1 DEF Keeps, Pipeline
<1>3. g \in Host
  BY <1>2 DEF Host
<1>4. Still(g, r) /\ g.gap = r.gap /\ g.status = r.status
  BY <1>2 DEF Host, Still
<1> HIDE DEF g
<1>5. Moves(g, r, mr)
  <2>1. Alters(g, r)
    BY <1>1, <1>3, <1>4 DEF Alters, Alike
  <2> QED BY <1>1, <2>1, Altered
<1>6. Moves(g, h, mr) /\ Holds(g, h)
  BY <1>1, <1>4, <1>5, MovesOn DEF Holds, Still
<1> QED BY <1>1, <1>4, <1>6 DEF g, r, Still, Alike

LEMMA RefreshSteps ==
    ASSUME Inv, NEW c \in host.calls, RefreshAnswers(c)
    PROVE  Steps(host', host, site.mr)
<1> DEFINE run == Reported(site.run[c.sha])
           k == [Replaced(host) EXCEPT !.pipeline = run]
           g == Drop(k, c)
<1>1. Keeps(host, site.mr) /\ Held(host, c) /\ c.kind = "refresh" /\ c.epoch \in Nat
  BY HeldCall DEF Inv, RefreshAnswers, Held, CallRecord
<1>2. host.sha # None /\ c.sha # None /\ c.sha \in Commit
  BY <1>1 DEF Keeps, Pushes, Early, Held, CallRecord, MaybeSha
<1>3. c.owner \notin Delivering
  BY <1>1, NoneAssumption DEF Keeps, Pushes, Meant, Delivering
<1>4. Current(host, c.epoch) => host.status # "paused"
  BY <1>1, NotPaused
<1>5. run \in {"none", "running", "success", "failed"}
  BY <1>2, ReportedKnown
<1>6. CASE host' = Drop(host, c)
  <2>1. Moves(host', host, site.mr) /\ host'.status = host.status
    BY <1>1, <1>3, <1>6, Dropped
  <2> QED BY <2>1, MovesSteps DEF Stays
<1>7. CASE host' = pipelineVerdict(host, c, "success")
  <2>1. "success" \in How
    BY DEF How
  <2>2. Moves(host', host, site.mr) /\ Stays(host', host)
    BY <1>1, <1>2, <1>4, <1>7, <2>1, VerdictMoves
  <2> QED BY <2>2, MovesSteps
<1>8. /\ Moves(k, host, site.mr) /\ Keeps(k, site.mr) /\ Holds(k, host) /\ k.mr = host.mr
      /\ k.status = host.status
  <2>1. run \in Known
    BY <1>5 DEF Known
  <2> HIDE DEF run
  <2> QED BY <1>1, <1>2, <2>1, KnownMoves DEF Moves
<1>9. CASE /\ Current(host, c.epoch) /\ host.status = "verifying"
           /\ host' = pollPipeline(g, c.epoch)
  <2> HIDE DEF run, k
  <2>1. Moves(g, k, site.mr) /\ Keeps(g, site.mr)
    BY <1>3, <1>8, Dropped DEF Moves
  <2> HIDE DEF g
  <2>2. Moves(host', g, site.mr)
    BY <1>1, <1>9, <2>1, PollMoves
  <2>3. Moves(host', host, site.mr)
    BY <1>8, <2>1, <2>2, MovesOn
  <2> QED BY <1>9, <2>3, MovesSteps
<1>10. CASE /\ Current(host, c.epoch) /\ host.status = "verifying"
            /\ run \in {"success", "failed"}
            /\ host' = pipelineVerdict(k, c, run)
  <2>1. run \in How
    BY <1>10 DEF How
  <2> HIDE DEF run, k
  <2>2. Held(k, c)
    BY <1>1, <1>8, HeldStill
  <2>3. Moves(host', k, site.mr)
    BY <1>2, <1>8, <1>10, <2>1, <2>2, VerdictMoves
  <2>4. Moves(host', host, site.mr)
    BY <1>8, <2>3, MovesOn
  <2> QED BY <1>10, <2>4, MovesSteps
<1>11. \/ host' = Drop(host, c)
       \/ host' = pipelineVerdict(host, c, "success")
       \/ /\ Current(host, c.epoch) /\ host.status = "verifying"
          /\ host' = pollPipeline(g, c.epoch)
       \/ /\ Current(host, c.epoch) /\ host.status = "verifying"
          /\ run \notin {"none", "running"} /\ host' = pipelineVerdict(k, c, run)
  <2>1. CASE ~Current(host, c.epoch) \/ host.status # "verifying"
    BY <2>1 DEF RefreshAnswers
  <2>2. CASE Current(host, c.epoch) /\ host.status = "verifying"
    <3>1. \/ host' = (IF run = "running" THEN pollPipeline(g, c.epoch)
                      ELSE IF run = "none" THEN pipelineVerdict(host, c, "success")
                      ELSE pipelineVerdict(k, c, run))
          \/ host' = pipelineVerdict(host, c, "success")
      BY <2>2 DEF RefreshAnswers
    <3>2. CASE run = "running"
      <4> HIDE DEF run, g
      <4> QED BY <2>2, <3>1, <3>2
    <3>3. CASE run = "none"
      <4> HIDE DEF run, g
      <4> QED BY <3>1, <3>3
    <3>4. CASE run \notin {"none", "running"}
      <4> HIDE DEF run, g, k
      <4> QED BY <2>2, <3>1, <3>4
    <3> QED BY <3>2, <3>3, <3>4
  <2> QED BY <2>1, <2>2
<1> HIDE DEF run, g, k
<1> QED BY <1>5, <1>6, <1>7, <1>9, <1>10, <1>11

-----------------------------------------------------------------------------
\* Settlements.

LEMMA SettleBeginsSteps ==
    ASSUME Inv, NEW c \in host.calls, SettleBegins(c)
    PROVE  Steps(host', host, site.mr)
<1>1. Keeps(host, site.mr) /\ Held(host, c) /\ c.kind = "settle"
  BY HeldCall DEF Inv, SettleBegins
<1>2. c.how \in {"merged", "closed"} /\ (c.how = "merged" => site.mr = "merged")
  BY <1>1 DEF Keeps, Pushes, Meant, Watches
<1>3. Takes(applyMergeState(host, c, c.how), host, site.mr)
  BY <1>1, <1>2, ApplyTakes
<1> QED BY <1>1, <1>3, ReturnSteps, TakesSteps DEF SettleBegins

\* What any step of the system does to the task.
Advances ==
    /\ Keeps(host', site'.mr)
    /\ host'.status = "completed" /\ host.status # "completed" =>
         site.mr = "merged" /\ head \subseteq site.merged
    /\ host.status = "paused" /\ host'.status # "paused" =>
         host'.controlEpoch # host.controlEpoch \/ site.mr = "merged"

LEMMA StepsAdvance ==
    ASSUME Steps(host', host, site'.mr)
    PROVE  Advances
BY DEF Steps, Advances

LEMMA SettleEndsAdvances ==
    ASSUME Inv, NEW c \in host.calls, SettleEnds(c)
    PROVE  Advances
<1> DEFINE idle == [host EXCEPT !.stopping = None]
           stopped == [idle EXCEPT !.driver = IF @ = host.stopping THEN None ELSE @]
           s == markVerificationStalled(stopped)
           i == markVerificationStalled(idle)
           n == NoDeadline(stopped)
           done == [n EXCEPT !.status = "completed", !.stalled = FALSE,
                             !.loop = IF @ = None THEN @ ELSE "merged"]
           lost == [idle EXCEPT !.status = "failed", !.loop = "halted"]
<1>1. /\ Keeps(host, site.mr) /\ Held(host, c) /\ c.kind = "settle" /\ host \in Host
      /\ c.how = "merged" => site.mr = "merged"
      /\ site' = site
  BY HeldCall DEF Inv, SettleEnds, Keeps, Watches, Idle
<1>2. \/ c.how = "merged" /\ Included /\ host' = Return(done, c)
      \/ c.how = "merged" /\ host' = Return(s, c)
      \/ c.how = "merged" /\ host' = Return(i, c)
      \/ host' = Return(stopped, c)
      \/ host' = Return(idle, c)
      \/ host.status = "await_merge" /\ host' = Return(lost, c)
  <2> HIDE DEF s, i, n
  <2> QED BY DEF SettleEnds, s, i, n
<1>3. /\ Moves(idle, host, site.mr) /\ Keeps(idle, site.mr) /\ Held(idle, c)
      /\ idle.status = host.status
  <2>1. idle \in Host
    BY <1>1, Values DEF Host
  <2>2. Still(idle, host) /\ Alike(idle, host) /\ idle.status = host.status
    BY <1>1 DEF Host, Still, Alike
  <2> HIDE DEF idle
  <2>3. Alters(idle, host)
    BY <2>1, <2>2 DEF Alters, Alike
  <2> QED BY <1>1, <2>2, <2>3, Altered DEF Moves, Held, Still
<1> HIDE DEF idle
<1>4. /\ Moves(stopped, idle, site.mr) /\ Keeps(stopped, site.mr) /\ Held(stopped, c)
      /\ stopped.status = host.status
  <2>1. idle \in Host
    BY <1>3 DEF Keeps
  <2>2. stopped \in Host
    BY <2>1, Values DEF Host
  <2>3. Still(stopped, idle) /\ Alike(stopped, idle) /\ stopped.status = idle.status
    BY <2>1 DEF Host, Still, Alike
  <2> HIDE DEF stopped
  <2>4. Alters(stopped, idle)
    BY <2>2, <2>3 DEF Alters, Alike
  <2> QED BY <1>3, <2>3, <2>4, Altered DEF Moves, Held, Still
<1> HIDE DEF stopped
<1>5. CASE host' \in {Return(idle, c), Return(stopped, c)}
  <2>1. /\ Moves(Return(idle, c), idle, site.mr) /\ Stays(Return(idle, c), idle)
        /\ Moves(Return(stopped, c), stopped, site.mr) /\ Stays(Return(stopped, c), stopped)
    BY <1>3, <1>4, ReturnMoves DEF Stays
  <2>2. Moves(host', host, site.mr) /\ Stays(host', host)
    BY <1>3, <1>4, <1>5, <2>1, MovesOn DEF Stays
  <2> QED BY <1>1, <2>2, MovesSteps, StepsAdvance
<1>6. CASE c.how = "merged" /\ host' \in {Return(s, c), Return(i, c)}
  <2>1. /\ Moves(s, stopped, site.mr) /\ Holds(s, stopped) /\ Alike(s, stopped)
        /\ Moves(i, idle, site.mr) /\ Holds(i, idle) /\ Alike(i, idle)
    BY <1>3, <1>4, StalledMoves
  <2> HIDE DEF s, i
  <2>2. Keeps(s, site.mr) /\ Keeps(i, site.mr) /\ Held(s, c) /\ Held(i, c)
    BY <1>1, <1>3, <1>4, <2>1, HeldStill DEF Moves, Alike
  <2>3. Moves(Return(s, c), s, site.mr) /\ Moves(Return(i, c), i, site.mr)
    BY <2>2, ReturnMoves
  <2>4. Moves(host', host, site.mr)
    BY <1>3, <1>4, <1>6, <2>1, <2>3, MovesOn
  <2> QED BY <1>1, <1>6, <2>4 DEF Moves, Advances
<1>7. CASE host.status = "await_merge" /\ host' = Return(lost, c)
  <2>1. idle \in Host
    BY <1>3 DEF Keeps
  <2>2. lost \in Host
    BY <2>1, Values DEF Host
  <2>3. Still(lost, idle) /\ Alike(lost, idle) /\ lost.status = "failed"
    BY <2>1 DEF Host, Still, Alike
  <2> HIDE DEF lost
  <2>4. Moves(lost, idle, site.mr) /\ Keeps(lost, site.mr) /\ Held(lost, c)
    <3>1. Alters(lost, idle)
      BY <2>2, <2>3 DEF Alters, Alike
    <3> QED BY <1>3, <2>3, <3>1, Altered DEF Moves, Held, Still
  <2>5. Moves(host', host, site.mr)
    BY <1>3, <1>7, <2>4, ReturnMoves, MovesOn
  <2> QED BY <1>1, <1>7, <2>5, MovesSteps, StepsAdvance
<1>8. CASE c.how = "merged" /\ Included /\ host' = Return(done, c)
  <2>1. Moves(n, stopped, site.mr) /\ Keeps(n, site.mr) /\ Alike(n, stopped) /\ n.calls = stopped.calls
    BY <1>4, NoDeadlineMoves DEF Moves
  <2> HIDE DEF n
  <2>2. /\ n \in Host /\ OneDelivery(n) /\ Epochs(n) /\ Pushes(n, site.mr)
        /\ Watches(n, site.mr)
    BY <2>1 DEF Keeps
  <2>3. done \in Host
    BY <2>2, Values DEF Host
  <2>4. Still(done, n) /\ Alike(done, n) /\ done.status = "completed"
    BY <2>2 DEF Host, Still, Alike
  <2> HIDE DEF done
  <2>5. Keeps(done, site.mr)
    BY <2>2, <2>3, <2>4 DEF Keeps, Still, Alike, OneDelivery, Epochs, Pushes, Watches
  <2>6. Held(done, c)
    BY <1>4, <2>1, <2>4 DEF Held, Still, Alike, Moves
  <2>7. Moves(host', done, site.mr)
    BY <1>8, <2>5, <2>6, ReturnMoves
  <2> QED BY <1>1, <1>8, <2>7 DEF Moves, Advances, Included
<1> QED BY <1>2, <1>5, <1>6, <1>7, <1>8

-----------------------------------------------------------------------------
\* The poll and the timers.

LEMMA PollEndsSteps ==
    ASSUME Inv, PollEnds
    PROVE  Steps(host', host, site.mr)
<1>1. Keeps(host, site.mr) /\ host \in Host /\ host' = [host EXCEPT !.poll = None]
  BY DEF Inv, Keeps, PollEnds
<1>2. host' \in Host
  BY <1>1, Values DEF Host
<1>3. Still(host', host) /\ Alike(host', host) /\ host'.status = host.status
  BY <1>1 DEF Host, Still, Alike
<1>4. Alters(host', host)
  BY <1>2, <1>3 DEF Alters, Alike
<1>5. Moves(host', host, site.mr)
  BY <1>1, <1>4, Altered
<1> QED BY <1>3, <1>5, MovesSteps DEF Stays

LEMMA WaitingMoves ==
    ASSUME NEW h, NEW mr, Keeps(h, mr)
    PROVE  Moves(waitingForRun(h), h, mr)
<1> DEFINE s == markVerificationStalled(h)
           k == [s EXCEPT !.poll = None]
<1>1. Moves(s, h, mr) /\ Keeps(s, mr)
  BY StalledMoves DEF Moves
<1>2. waitingForRun(h) = IF h.verify_deadline = "past" THEN k ELSE OpenDeadline(h)
  BY DEF waitingForRun
<1> HIDE DEF s
<1>3. s \in Host
  BY <1>1 DEF Keeps
<1>4. k \in Host
  BY <1>3, Values DEF Host
<1>5. Still(k, s) /\ Alike(k, s) /\ k.status = s.status
  BY <1>3 DEF Host, Still, Alike
<1> HIDE DEF k
<1>6. Alters(k, s)
  BY <1>4, <1>5 DEF Alters, Alike
<1>7. Moves(k, h, mr)
  BY <1>1, <1>6, Altered, MovesOn
<1> QED BY <1>2, <1>7, OpenDeadlineMoves

LEMMA PollAnswersSteps ==
    ASSUME Inv, PollAnswers
    PROVE  Steps(host', host, site.mr)
<1> DEFINE run == Reported(site.run[host.poll.sha])
           seen(status) == [Replaced(host) EXCEPT !.pipeline = status]
           c == Call("verdict", host.poll.epoch, "poll", host.poll.sha, run)
           n == NoDeadline(seen(run))
<1>1. /\ Keeps(host, site.mr) /\ host \in Host /\ host.poll # None
      /\ host.sha = host.poll.sha /\ Current(host, host.poll.epoch) /\ host.mr
      /\ host.status = "verifying"
  BY DEF Inv, Keeps, PollAnswers, PollCurrent
<1>2. /\ host.poll.sha \in Commit /\ host.poll.epoch \in Nat /\ host.sha # None
      /\ host.poll.epoch = host.controlEpoch
  BY <1>1 DEF Host, Poll, Keeps, Pushes, Current
<1>3. run \in {"none", "running", "success", "failed"}
  BY <1>2, ReportedKnown
<1>4. \A status \in Known :
        /\ Moves(seen(status), host, site.mr) /\ seen(status).sha = host.sha
        /\ seen(status).status = host.status
  BY <1>1, <1>2, KnownMoves
<1> HIDE DEF seen
<1>5. CASE \/ host' = waitingForRun(seen("not_found"))
           \/ host' = waitingForRun(seen("unavailable"))
  <2>1. {"not_found", "unavailable"} \subseteq Known
    BY DEF Known
  <2>2. /\ Moves(waitingForRun(seen("not_found")), seen("not_found"), site.mr)
        /\ Moves(waitingForRun(seen("unavailable")), seen("unavailable"), site.mr)
    BY <1>4, <2>1, WaitingMoves DEF Moves
  <2>3. Moves(host', host, site.mr)
    BY <1>4, <1>5, <2>1, <2>2, MovesOn
  <2> QED BY <1>1, <2>3, MovesSteps
<1>6. /\ Moves(seen(run), host, site.mr) /\ Keeps(seen(run), site.mr)
      /\ seen(run).sha = host.sha /\ seen(run).status = host.status
  <2>1. run \in Known
    BY <1>3 DEF Known
  <2> HIDE DEF run
  <2> QED BY <1>4, <2>1 DEF Moves
<1>7. /\ Moves(n, host, site.mr) /\ Keeps(n, site.mr) /\ n.sha # None
      /\ n.status = "verifying" /\ n.controlEpoch = host.controlEpoch
  <2> HIDE DEF run
  <2>1. Moves(n, seen(run), site.mr) /\ Alike(n, seen(run)) /\ n.status = seen(run).status
    BY <1>6, NoDeadlineMoves
  <2> QED BY <1>1, <1>2, <1>6, <2>1, MovesOn DEF Moves, Alike
<1>8. CASE host' = n
  BY <1>1, <1>7, <1>8, MovesSteps
<1>9. CASE run \in {"success", "failed"} /\ host' = Add(n, c)
  <2>1. /\ c \in CallRecord /\ c.kind = "verdict" /\ c.epoch = host.controlEpoch
        /\ c.owner = "poll" /\ c.sha # None
    <3>1. run \in How /\ host.poll.sha \in MaybeSha /\ host.poll.sha # None
      BY <1>2, <1>9, NoCommit DEF How, MaybeSha
    <3> HIDE DEF run
    <3> QED BY <1>2, <3>1 DEF Call, CallRecord, Kinds, Owner
  <2>2. "poll" \notin Delivering /\ "poll" # "watch"
    BY DEF Delivering
  <2>3. host.controlEpoch \in Nat
    BY <1>1 DEF Host
  <2> HIDE DEF c, n
  <2>4. Admits(n, c, site.mr)
    BY <1>7, <2>1, <2>2, <2>3 DEF Admits, Meant, Early
  <2>5. Moves(host', n, site.mr)
    BY <1>7, <1>9, <2>1, <2>2, <2>4, Added
  <2>6. Moves(host', host, site.mr)
    BY <1>7, <2>5, MovesOn
  <2> QED BY <1>1, <2>6, MovesSteps
<1>10. \/ host' = waitingForRun(seen("not_found"))
       \/ host' = waitingForRun(seen("unavailable"))
       \/ host' = n
       \/ run \in {"success", "failed"} /\ host' = Add(n, c)
  BY DEF PollAnswers, seen
<1> QED BY <1>5, <1>8, <1>9, <1>10

LEMMA RecoverySteps ==
    ASSUME Inv, RecoveryFires
    PROVE  Steps(host', host, site.mr)
<1> DEFINE epoch == host.recovery
           h == [host EXCEPT !.recovery = None]
           o == OpenDeadline(h)
<1>1. Keeps(host, site.mr) /\ host \in Host /\ epoch \in Nat
  BY DEF Inv, Keeps, Host, MaybeEpoch, RecoveryFires
<1>2. h \in Host
  BY <1>1, Values DEF Host
<1>3. Still(h, host) /\ Alike(h, host) /\ h.status = host.status
  BY <1>1 DEF Host, Still, Alike
<1>4. host' = IF ~recoveryStillNeeded(h, epoch) THEN h
              ELSE IF h.verify_deadline = "past" THEN markVerificationStalled(h)
              ELSE tryDeliver(o, epoch, "recovery")
  BY DEF RecoveryFires
<1> HIDE DEF h
<1>5. Moves(h, host, site.mr) /\ Keeps(h, site.mr)
  <2>1. Alters(h, host)
    BY <1>2, <1>3 DEF Alters, Alike
  <2> QED BY <1>1, <2>1, Altered DEF Moves
<1>6. CASE host' = h
  BY <1>3, <1>5, <1>6, MovesSteps DEF Stays
<1>7. CASE recoveryStillNeeded(h, epoch) /\ host' = markVerificationStalled(h)
  <2>1. host.status # "paused"
    BY <1>3, <1>7 DEF recoveryStillNeeded
  <2>2. Moves(host', host, site.mr)
    BY <1>5, <1>7, StalledMoves, MovesOn
  <2> QED BY <2>1, <2>2, MovesSteps
<1>8. CASE recoveryStillNeeded(h, epoch) /\ host' = tryDeliver(o, epoch, "recovery")
  <2>1. host.status # "paused" /\ h.status # "paused"
    BY <1>3, <1>8 DEF recoveryStillNeeded
  <2>2. Moves(o, h, site.mr) /\ Keeps(o, site.mr) /\ o.status = h.status
    BY <1>5, OpenDeadlineMoves DEF Moves
  <2> HIDE DEF o, epoch
  <2>3. "recovery" \in Delivering
    BY DEF Delivering
  <2>4. Moves(host', o, site.mr)
    BY <1>1, <1>8, <2>1, <2>2, <2>3, TryMoves
  <2>5. Moves(host', host, site.mr)
    BY <1>5, <2>2, <2>4, MovesOn
  <2> QED BY <2>1, <2>5, MovesSteps
<1> QED BY <1>4, <1>6, <1>7, <1>8

LEMMA LimitSteps ==
    ASSUME Inv, LimitFires
    PROVE  Steps(host', host, site.mr)
<1> DEFINE h == [host EXCEPT !.limit = None]
<1>1. Keeps(host, site.mr) /\ host \in Host
  BY DEF Inv, Keeps
<1>2. h \in Host
  BY <1>1, Values DEF Host
<1>3. Still(h, host) /\ Alike(h, host) /\ h.status = host.status
  BY <1>1 DEF Host, Still, Alike
<1>4. host' = h \/ (h.status = "verifying" /\ host' = markVerificationStalled(h))
  BY DEF LimitFires
<1> HIDE DEF h
<1>5. Moves(h, host, site.mr) /\ Keeps(h, site.mr)
  <2>1. Alters(h, host)
    BY <1>2, <1>3 DEF Alters, Alike
  <2> QED BY <1>1, <2>1, Altered DEF Moves
<1>6. CASE host' = h
  BY <1>3, <1>5, <1>6, MovesSteps DEF Stays
<1>7. CASE h.status = "verifying" /\ host' = markVerificationStalled(h)
  <2>1. Moves(host', host, site.mr)
    BY <1>5, <1>7, StalledMoves, MovesOn
  <2> QED BY <1>3, <1>7, <2>1, MovesSteps
<1> QED BY <1>4, <1>6, <1>7

LEMMA EvidenceSteps ==
    ASSUME Inv, EvidenceFires
    PROVE  Steps(host', host, site.mr)
<1> DEFINE e == host.evidence
           h == [host EXCEPT !.evidence = None]
           d == Call("refresh", e.epoch, None, e.sha, None)
<1>1. Keeps(host, site.mr) /\ host \in Host
  BY DEF Inv, Keeps
<1>2. e.epoch \in Nat /\ e.sha \in Commit
  BY <1>1 DEF EvidenceFires, Host, Evidence
<1>3. h \in Host
  BY <1>1, Values DEF Host
<1>4. Still(h, host) /\ Alike(h, host) /\ h.status = host.status
  BY <1>1 DEF Host, Still, Alike
<1>5. \/ host' = h
      \/ evidenceRetryStillValid(e) /\ host' = tryDeliver(h, e.epoch, "call")
      \/ evidenceRetryStillValid(e) /\ host' = Add(h, d)
  <2>1. CASE ~evidenceRetryStillValid(e)
    BY <2>1 DEF EvidenceFires
  <2>2. CASE evidenceRetryStillValid(e) /\ e.stale
    BY <2>2 DEF EvidenceFires
  <2>3. CASE evidenceRetryStillValid(e) /\ ~e.stale
    BY <2>3 DEF EvidenceFires
  <2> QED BY <2>1, <2>2, <2>3
<1> HIDE DEF h
<1>6. Moves(h, host, site.mr) /\ Keeps(h, site.mr)
  <2>1. Alters(h, host)
    BY <1>3, <1>4 DEF Alters, Alike
  <2> QED BY <1>1, <2>1, Altered DEF Moves
<1>7. CASE host' = h
  BY <1>4, <1>6, <1>7, MovesSteps DEF Stays
<1>8. ASSUME evidenceRetryStillValid(e)
      PROVE  /\ e.epoch = host.controlEpoch /\ host.status = "verifying" /\ host.sha = e.sha
  BY <1>8 DEF evidenceRetryStillValid, Current
<1>9. CASE evidenceRetryStillValid(e) /\ host' = tryDeliver(h, e.epoch, "call")
  <2>1. "call" \in Delivering
    BY DEF Delivering
  <2>2. Moves(host', h, site.mr)
    BY <1>2, <1>4, <1>6, <1>8, <1>9, <2>1, TryMoves
  <2>3. Moves(host', host, site.mr)
    BY <1>6, <2>2, MovesOn
  <2> QED BY <1>8, <1>9, <2>3, MovesSteps
<1>10. CASE evidenceRetryStillValid(e) /\ host' = Add(h, d)
  <2>1. /\ d \in CallRecord /\ d.kind = "refresh" /\ d.epoch = e.epoch /\ d.owner = None
        /\ d.sha = e.sha
    BY <1>2 DEF Call, CallRecord, Kinds, Owner, MaybeSha, How
  <2> HIDE DEF d
  <2>2. None \notin Delivering /\ None # "watch" /\ e.sha # None
    BY <1>2, NoneAssumption, NoCommit DEF Delivering
  <2>3. Admits(h, d, site.mr)
    BY <1>2, <1>4, <1>8, <1>10, <2>1, <2>2 DEF Admits, Meant, Early, Still
  <2>4. Moves(host', h, site.mr)
    BY <1>6, <1>10, <2>1, <2>2, <2>3, Added
  <2>5. Moves(host', host, site.mr)
    BY <1>6, <2>4, MovesOn
  <2> QED BY <1>8, <1>10, <2>5, MovesSteps
<1> QED BY <1>5, <1>7, <1>9, <1>10

\* A repair may be asked for on behalf of the task in its present epoch.
LEMMA AgainHeld ==
    ASSUME NEW h, NEW mr, Keeps(h, mr), NEW sha \in MaybeSha
    PROVE  LET c == Call("red", h.controlEpoch, None, sha, None) IN
           Held(h, c) /\ c.sha = sha /\ c.epoch = h.controlEpoch
<1> DEFINE c == Call("red", h.controlEpoch, None, sha, None)
<1>1. h.controlEpoch \in Nat
  BY DEF Keeps, Host
<1>2. /\ c \in CallRecord /\ c.epoch = h.controlEpoch /\ c.owner = None /\ c.sha = sha
  BY <1>1 DEF Call, CallRecord, Kinds, Owner, How
<1> HIDE DEF c
<1>3. None \notin Delivering /\ None # "watch"
  BY NoneAssumption DEF Delivering
<1>4. Held(h, c)
  BY <1>1, <1>2, <1>3 DEF Held
<1> QED BY <1>2, <1>4 DEF c

LEMMA RepairFiresSteps ==
    ASSUME Inv, RepairFires
    PROVE  Steps(host', host, site.mr)
<1> DEFINE e == host.repair
           h == [host EXCEPT !.repair = None]
           c == Call("red", e.epoch, None, e.sha, None)
<1>1. Keeps(host, site.mr) /\ host \in Host
  BY DEF Inv, Keeps
<1>2. e.epoch \in Nat /\ e.sha \in Commit /\ e.sha # None /\ e.sha \in MaybeSha
  BY <1>1, NoCommit DEF RepairFires, Host, Repair, MaybeSha
<1>3. h \in Host
  BY <1>1, Values DEF Host
<1>4. Still(h, host) /\ Alike(h, host) /\ h.status = host.status
  BY <1>1 DEF Host, Still, Alike
<1>5. \/ host' = h
      \/ /\ e.epoch = h.controlEpoch /\ h.status = "verifying"
         /\ host' = dispatchCiRepair(h, c)
  BY DEF RepairFires, Current
<1> HIDE DEF h
<1>6. Moves(h, host, site.mr) /\ Keeps(h, site.mr)
  <2>1. Alters(h, host)
    BY <1>3, <1>4 DEF Alters, Alike
  <2> QED BY <1>1, <2>1, Altered DEF Moves
<1>7. CASE host' = h
  BY <1>4, <1>6, <1>7, MovesSteps DEF Stays
<1>8. CASE /\ e.epoch = h.controlEpoch /\ h.status = "verifying"
           /\ host' = dispatchCiRepair(h, c)
  <2>1. Held(h, c) /\ c.sha # None
    BY <1>2, <1>6, <1>8, AgainHeld
  <2> HIDE DEF c
  <2>2. Moves(host', h, site.mr)
    BY <1>6, <1>8, <2>1, DispatchMoves
  <2>3. Moves(host', host, site.mr)
    BY <1>6, <2>2, MovesOn
  <2> QED BY <1>4, <1>8, <2>3, MovesSteps
<1> QED BY <1>5, <1>7, <1>8

LEMMA ExpireSteps ==
    ASSUME Inv, Expire
    PROVE  Steps(host', host, site.mr)
<1>1. Keeps(host, site.mr) /\ host \in Host
  BY DEF Inv, Keeps
<1>2. host' \in Host
  BY <1>1, Values DEF Host, Expire
<1>3. /\ Still(host', host) /\ host'.status = host.status
      /\ host'.pipeline = host.pipeline
      /\ host'.gap = host.gap \/ host.gap = "retrying"
  BY <1>1 DEF Host, Still, Expire
<1>4. host.gap = "retrying" => host.sha # None
  BY <1>1, NoneAssumption DEF Keeps, Pushes
<1>5. Alters(host', host)
  BY <1>2, <1>3, <1>4 DEF Alters
<1>6. Moves(host', host, site.mr)
  BY <1>1, <1>5, Altered
<1> QED BY <1>3, <1>6, MovesSteps DEF Stays

-----------------------------------------------------------------------------
\* The watcher.

\* It turns between its states, and nothing else that the invariant is about.
Turns(g, h) ==
    /\ g \in Host /\ Alike(g, h)
    /\ g.calls = h.calls /\ g.deliveryActive = h.deliveryActive
    /\ g.controlEpoch = h.controlEpoch
    /\ g.status = h.status \/ g.status \notin {"completed", "paused"}
    /\ g.watch # "off" => h.mr

LEMMA TurnsMoves ==
    ASSUME NEW h, NEW mr, Keeps(h, mr), NEW g, Turns(g, h)
    PROVE  Moves(g, h, mr)
BY DEF Keeps, Moves, Turns, Alike, OneDelivery, Epochs, Pushes, Watches

\* Taking a merge request that was seen as closed or merged.
LEMMA SeenSteps ==
    ASSUME Inv, host.watch = "wait", NEW owner \in {"watch", "merged"},
           site.mr \in {"merged", "closed"},
           host' = settleMergeState([host EXCEPT !.watch = "busy"],
                       Call("settle", host.controlEpoch, owner, {}, None), site.mr)
    PROVE  Steps(host', host, site.mr)
<1> DEFINE busy == [host EXCEPT !.watch = "busy"]
           c == Call("settle", host.controlEpoch, owner, {}, None)
<1>1. /\ Keeps(host, site.mr) /\ host \in Host /\ host.mr /\ host.controlEpoch \in Nat
  BY DEF Inv, Keeps, Watches, Host
<1>2. busy \in Host
  BY <1>1, Values DEF Host
<1>3. /\ Turns(busy, host) /\ busy.mr /\ busy.status = host.status
      /\ busy.controlEpoch = host.controlEpoch
  <2>1. /\ Alike(busy, host) /\ busy.calls = host.calls
        /\ busy.deliveryActive = host.deliveryActive
        /\ busy.controlEpoch = host.controlEpoch /\ busy.status = host.status
        /\ busy.watch = "busy" /\ busy.mr = host.mr
    BY <1>1 DEF Host, Alike
  <2> HIDE DEF busy
  <2> QED BY <1>1, <1>2, <2>1 DEF Turns
<1> HIDE DEF busy
<1>4. Moves(busy, host, site.mr) /\ Keeps(busy, site.mr)
  BY <1>1, <1>3, TurnsMoves DEF Moves
<1>5. Held(busy, c)
  <2>1. c \in CallRecord /\ c.epoch = host.controlEpoch /\ c.owner = owner
    BY <1>1 DEF Call, CallRecord, Kinds, Owner, MaybeSha, Commit, How
  <2>2. owner \notin Delivering
    BY DEF Delivering
  <2> HIDE DEF c
  <2> QED BY <1>1, <1>3, <2>1, <2>2 DEF Held
<1> HIDE DEF c
<1>6. host' = settleMergeState(busy, c, site.mr)
  BY DEF busy, c
<1>7. Takes(host', busy, site.mr)
  BY <1>4, <1>5, <1>6, SettleTakes
<1> QED BY <1>3, <1>7, TakesSteps DEF Steps

LEMMA LooksSteps ==
    ASSUME Inv, WatchLooks
    PROVE  Steps(host', host, site.mr)
<1> DEFINE off == [host EXCEPT !.watch = "off"]
           again == [host EXCEPT !.closed = FALSE, !.loop = "halted", !.status = "queued"]
           view == [sha |-> site.branch, red |-> site.run[site.branch] = "failed"]
           act == [host EXCEPT !.closed = FALSE, !.watch = "act", !.view = view]
           call(owner) == Call("settle", host.controlEpoch, owner, {}, None)
           busy == [host EXCEPT !.watch = "busy"]
<1>1. /\ Keeps(host, site.mr) /\ host \in Host /\ host.mr /\ host.watch = "wait"
  BY DEF Inv, Keeps, Watches, WatchLooks
<1>2. \/ host' = off
      \/ site.mr = "merged" /\ host' = settleMergeState(busy, call("merged"), "merged")
      \/ site.mr = "closed" /\ host' = settleMergeState(busy, call("watch"), "closed")
      \/ host.status = "await_merge" /\ host' = again
      \/ host' = act
  <2>1. CASE host.status = "completed"
    BY <2>1 DEF WatchLooks
  <2>2. CASE host.status # "completed" /\ site.mr = "merged"
    BY <2>2 DEF WatchLooks
  <2>3. CASE host.status # "completed" /\ site.mr = "closed"
    BY <2>3 DEF WatchLooks
  <2>4. CASE host.status # "completed" /\ site.mr \notin {"merged", "closed"}
    <3>1. enqueueRepair([host EXCEPT !.closed = FALSE, !.loop = "halted"]) = again
      BY <1>1 DEF enqueueRepair, Host
    <3> HIDE DEF again
    <3> QED BY <2>4, <3>1 DEF WatchLooks
  <2> QED BY <2>1, <2>2, <2>3, <2>4
<1>3. CASE host' = off
  <2>1. off \in Host
    BY <1>1, Values DEF Host
  <2>2. Turns(off, host) /\ off.status = host.status
    <3>1. /\ Alike(off, host) /\ off.calls = host.calls
          /\ off.deliveryActive = host.deliveryActive
          /\ off.controlEpoch = host.controlEpoch /\ off.status = host.status
          /\ off.watch = "off"
      BY <1>1 DEF Host, Alike
    <3> HIDE DEF off
    <3> QED BY <2>1, <3>1 DEF Turns
  <2> HIDE DEF off
  <2> QED BY <1>1, <1>3, <2>2, TurnsMoves, MovesSteps DEF Stays
<1>4. CASE \/ site.mr = "merged" /\ host' = settleMergeState(busy, call("merged"), "merged")
           \/ site.mr = "closed" /\ host' = settleMergeState(busy, call("watch"), "closed")
  BY <1>1, <1>4, SeenSteps
<1>5. CASE host.status = "await_merge" /\ host' = again
  <2>1. again \in Host
    BY <1>1, Values DEF Host
  <2>2. Still(again, host) /\ Alike(again, host) /\ again.status = "queued"
    BY <1>1 DEF Host, Still, Alike
  <2> HIDE DEF again
  <2>3. Alters(again, host)
    BY <2>1, <2>2 DEF Alters, Alike
  <2>4. Moves(again, host, site.mr)
    BY <1>1, <2>3, Altered
  <2> QED BY <1>5, <2>4, MovesSteps
<1>6. CASE host' = act
  <2>1. view \in View
    <3>1. site.branch \in Commit /\ (site.run[site.branch] = "failed") \in BOOLEAN
      BY DEF Inv, Site
    <3>2. view \in [sha : Commit, red : BOOLEAN]
      BY <3>1
    <3> QED BY <3>2 DEF View
  <2> HIDE DEF view
  <2>2. act \in Host
    BY <1>1, <2>1, Values DEF Host
  <2>3. Turns(act, host) /\ act.status = host.status
    <3>1. /\ Alike(act, host) /\ act.calls = host.calls
          /\ act.deliveryActive = host.deliveryActive
          /\ act.controlEpoch = host.controlEpoch /\ act.status = host.status
      BY <1>1 DEF Host, Alike
    <3> HIDE DEF act
    <3> QED BY <1>1, <2>1, <2>2, <3>1 DEF Turns
  <2> HIDE DEF act
  <2> QED BY <1>1, <1>6, <2>3, TurnsMoves, MovesSteps DEF Stays
<1> QED BY <1>2, <1>3, <1>4, <1>5, <1>6

LEMMA ActsSteps ==
    ASSUME Inv, WatchActs
    PROVE  Steps(host', host, site.mr)
<1> DEFINE wait == [host EXCEPT !.watch = "wait", !.view = None]
           busy == [wait EXCEPT !.watch = "busy"]
           c == Call("red", host.controlEpoch, "watch", host.sha, None)
<1>1. /\ Keeps(host, site.mr) /\ host \in Host /\ host.mr /\ host.controlEpoch \in Nat
      /\ host.sha # None /\ host.sha \in MaybeSha
  BY DEF Inv, Keeps, Watches, Pushes, Host, WatchActs
<1>2. \/ host' = wait
      \/ host.status = "await_merge" /\ host' = markVerificationStalled(wait)
      \/ host.status = "await_merge" /\ host' = dispatchCiRepair(busy, c)
  BY DEF WatchActs
<1>3. wait \in Host
  BY <1>1, Values DEF Host
<1>4. /\ Alike(wait, host) /\ wait.calls = host.calls
      /\ wait.deliveryActive = host.deliveryActive
      /\ wait.controlEpoch = host.controlEpoch /\ wait.status = host.status
  BY <1>1 DEF Host, Alike
<1>5. busy \in Host
  BY <1>3, Values DEF Host
<1>6. /\ Alike(busy, wait) /\ busy.calls = wait.calls
      /\ busy.deliveryActive = wait.deliveryActive
      /\ busy.controlEpoch = wait.controlEpoch /\ busy.status = wait.status
  <2> HIDE DEF wait
  <2> QED BY <1>3 DEF Host, Alike
<1> HIDE DEF wait, busy
<1>7. Moves(wait, host, site.mr) /\ Keeps(wait, site.mr)
  BY <1>1, <1>3, <1>4, TurnsMoves DEF Turns, Moves
<1>8. Moves(busy, host, site.mr) /\ Keeps(busy, site.mr)
  <2>1. Alike(busy, host)
    BY <1>4, <1>6 DEF Alike
  <2>2. busy.watch # "off" => host.mr
    BY <1>1
  <2>3. Turns(busy, host)
    BY <1>4, <1>5, <1>6, <2>1, <2>2 DEF Turns
  <2> QED BY <1>1, <2>3, TurnsMoves DEF Moves
<1>9. CASE host' = wait
  BY <1>4, <1>7, <1>9, MovesSteps DEF Stays
<1>10. CASE host.status = "await_merge" /\ host' = markVerificationStalled(wait)
  <2>1. Moves(host', host, site.mr)
    BY <1>7, <1>10, StalledMoves, MovesOn
  <2> QED BY <1>10, <2>1, MovesSteps
<1>11. CASE host.status = "await_merge" /\ host' = dispatchCiRepair(busy, c)
  <2>1. c \in CallRecord /\ c.epoch = host.controlEpoch /\ c.owner = "watch" /\ c.sha = host.sha
    BY <1>1 DEF Call, CallRecord, Kinds, Owner, How
  <2>2. "watch" \notin Delivering
    BY DEF Delivering
  <2> HIDE DEF c
  <2>3. Held(busy, c) /\ c.sha # None
    BY <1>1, <1>4, <1>6, <2>1, <2>2 DEF Held, Alike
  <2>4. busy.status # "paused"
    BY <1>4, <1>6, <1>11
  <2>5. Moves(host', busy, site.mr)
    BY <1>8, <1>11, <2>3, <2>4, DispatchMoves
  <2>6. Moves(host', host, site.mr)
    BY <1>8, <2>5, MovesOn
  <2> QED BY <1>11, <2>6, MovesSteps
<1> QED BY <1>2, <1>9, <1>10, <1>11

-----------------------------------------------------------------------------
\* Users.

\* A user takes the task from everyone.
TakenBy(h, status, from) ==
    [h EXCEPT !.controlEpoch = @ + 1, !.status = status, !.from = from]

LEMMA TakenKeeps ==
    ASSUME NEW h, NEW mr, Keeps(h, mr), NEW status \in Status \ {"completed"},
           NEW from \in From
    PROVE  LET g == TakenBy(h, status, from) IN
           /\ Keeps(g, mr) /\ g.controlEpoch # h.controlEpoch
           /\ g.controlEpoch = h.controlEpoch + 1 /\ g.controlEpoch \in Nat
           /\ g.status = status
<1> DEFINE n == h.controlEpoch + 1
           g == [h EXCEPT !.controlEpoch = n, !.status = status, !.from = from]
<1>1. /\ h \in Host /\ OneDelivery(h) /\ Epochs(h) /\ Pushes(h, mr) /\ Watches(h, mr)
      /\ h.calls \subseteq CallRecord /\ h.controlEpoch \in Nat
      /\ \A x \in h.calls : x.epoch \in Nat
  BY DEF Keeps, Host, CallRecord
<1>2. n \in Nat /\ n = h.controlEpoch + 1
  BY <1>1
<1>3. TakenBy(h, status, from) = g
  BY DEF TakenBy
<1> HIDE DEF n
<1>4. g \in Host
  BY <1>1, <1>2 DEF Host
<1>5. /\ g.calls = h.calls /\ g.deliveryActive = h.deliveryActive
      /\ g.controlEpoch = n /\ g.status = status
      /\ Alike(g, h) /\ g.watch = h.watch
  BY <1>1 DEF Host, Alike
<1> HIDE DEF g
<1>6. Epochs(g)
  <2>1. \A x \in g.calls : x.epoch < g.controlEpoch
    BY <1>1, <1>2, <1>5 DEF Epochs
  <2> QED BY <1>1, <1>2, <1>5, <2>1 DEF Epochs
<1>7. Keeps(g, mr)
  BY <1>1, <1>4, <1>5, <1>6 DEF Keeps, OneDelivery, Pushes, Watches, Alike
<1> QED BY <1>1, <1>2, <1>3, <1>5, <1>7

LEMMA PauseSteps ==
    ASSUME Inv, Pause
    PROVE  Steps(host', host, site.mr)
<1>1. /\ Keeps(host, site.mr) /\ host.status \in {"verifying", "queued"}
      /\ host \in Host
  BY DEF Inv, Keeps, Pause
<1>2. host' = TakenBy(host, "paused", host.status)
  BY <1>1 DEF Pause, Taken, TakenBy, Host
<1>3. "paused" \in Status \ {"completed"} /\ host.status \in From
  BY <1>1 DEF Status, From
<1> QED BY <1>1, <1>2, <1>3, TakenKeeps DEF Steps

LEMMA ResumeSteps ==
    ASSUME Inv, Resume
    PROVE  Steps(host', host, site.mr)
<1> DEFINE v == TakenBy(host, "verifying", None)
           q == TakenBy(host, "queued", None)
<1>1. Keeps(host, site.mr) /\ host \in Host /\ host.status = "paused"
  BY DEF Inv, Keeps, Resume
<1>2. host' \in {pollPipeline(v, host.controlEpoch + 1), q}
  BY <1>1 DEF Resume, Taken, TakenBy, Host
<1>3. {"queued", "verifying"} \subseteq Status \ {"completed"} /\ None \in From
  BY DEF Status, From
<1>4. /\ Keeps(v, site.mr) /\ v.controlEpoch = host.controlEpoch + 1
      /\ v.controlEpoch \in Nat /\ v.controlEpoch # host.controlEpoch
      /\ v.status = "verifying"
      /\ Keeps(q, site.mr) /\ q.controlEpoch # host.controlEpoch /\ q.status = "queued"
  BY <1>1, <1>3, TakenKeeps
<1> HIDE DEF v, q
<1>5. Moves(pollPipeline(v, v.controlEpoch), v, site.mr)
  BY <1>4, PollMoves
<1> QED BY <1>2, <1>4, <1>5 DEF Steps, Moves

LEMMA InterruptSteps ==
    ASSUME Inv, Interrupt
    PROVE  Steps(host', host, site.mr)
<1>1. Keeps(host, site.mr) /\ host \in Host
  BY DEF Inv, Keeps
<1>2. host' = TakenBy(host, "queued", host.from)
  BY <1>1 DEF Interrupt, enqueueRepair, Taken, TakenBy, Host
<1>3. "queued" \in Status \ {"completed"} /\ host.from \in From
  BY <1>1 DEF Status, Host
<1> QED BY <1>1, <1>2, <1>3, TakenKeeps DEF Steps

LEMMA RetrySteps ==
    ASSUME Inv, Retry
    PROVE  Steps(host', host, site.mr)
<1> DEFINE n == NoDeadline(Replaced(host))
           lifted == [n EXCEPT !.pipeline = "retry", !.stalled = FALSE]
           again == Call("red", host.controlEpoch, None, host.sha, None)
           red == [host EXCEPT !.gap = "retrying", !.pipeline = "failed"]
           anew == [lifted EXCEPT !.loop = None, !.round = 0, !.max = None,
                                  !.gap = None, !.status = "queued"]
<1>1. /\ Keeps(host, site.mr) /\ host \in Host /\ host.status = "verifying"
      /\ host.controlEpoch \in Nat /\ host.sha \in MaybeSha
  BY DEF Inv, Keeps, Retry, Host
<1>2. \/ host.gap = "waiting_human" /\ host' = dispatchCiRepair(red, again)
      \/ host' = tryDeliver(lifted, host.controlEpoch, "call")
      \/ host' = anew
  BY DEF Retry
<1>3. CASE host.gap = "waiting_human" /\ host' = dispatchCiRepair(red, again)
  <2>1. host.sha # None
    BY <1>1, <1>3, NoneAssumption DEF Keeps, Pushes
  <2>2. red \in Host
    BY <1>1, Values DEF Host
  <2>3. Still(red, host) /\ red.status = host.status
    BY <1>1 DEF Host, Still
  <2> HIDE DEF red
  <2>4. Moves(red, host, site.mr) /\ Keeps(red, site.mr)
    <3>1. Alters(red, host)
      BY <2>1, <2>2, <2>3 DEF Alters
    <3> QED BY <1>1, <3>1, Altered DEF Moves
  <2>5. Held(red, again) /\ again.sha = host.sha
    BY <1>1, <2>3, <2>4, AgainHeld DEF Still
  <2> HIDE DEF again
  <2>6. Moves(host', red, site.mr)
    BY <1>1, <1>3, <2>1, <2>3, <2>4, <2>5, DispatchMoves
  <2>7. Moves(host', host, site.mr)
    BY <2>4, <2>6, MovesOn
  <2> QED BY <1>1, <2>7, MovesSteps
<1>4. Moves(n, host, site.mr) /\ Keeps(n, site.mr) /\ n.status = host.status
  <2>1. /\ Moves(Replaced(host), host, site.mr) /\ Keeps(Replaced(host), site.mr)
        /\ Replaced(host).status = host.status
    BY <1>1, ReplacedMoves DEF Moves
  <2>2. Moves(n, Replaced(host), site.mr) /\ n.status = Replaced(host).status
    BY <2>1, NoDeadlineMoves
  <2> QED BY <2>1, <2>2, MovesOn DEF Moves
<1> HIDE DEF n
<1>5. n \in Host
  BY <1>4 DEF Keeps
<1>6. lifted \in Host
  BY <1>5, Values DEF Host
<1>7. /\ Still(lifted, n) /\ lifted.gap = n.gap /\ lifted.pipeline = "retry"
      /\ lifted.status = n.status
  BY <1>5 DEF Host, Still
<1> HIDE DEF lifted
<1>8. Moves(lifted, host, site.mr) /\ Keeps(lifted, site.mr)
  <2>1. "retry" \notin Known
    BY DEF Known
  <2>2. Alters(lifted, n)
    BY <1>6, <1>7, <2>1 DEF Alters
  <2> QED BY <1>4, <2>2, Altered, MovesOn DEF Moves
<1>9. CASE host' = tryDeliver(lifted, host.controlEpoch, "call")
  <2>1. "call" \in Delivering
    BY DEF Delivering
  <2>2. Moves(host', lifted, site.mr)
    BY <1>1, <1>4, <1>7, <1>8, <1>9, <2>1, TryMoves
  <2>3. Moves(host', host, site.mr)
    BY <1>8, <2>2, MovesOn
  <2> QED BY <1>1, <2>3, MovesSteps
<1>10. CASE host' = anew
  <2>1. anew \in Host
    BY <1>6, Values DEF Host
  <2>2. /\ Still(anew, lifted) /\ anew.gap = None /\ anew.pipeline = lifted.pipeline
        /\ anew.status = "queued"
    BY <1>6 DEF Host, Still
  <2> HIDE DEF anew
  <2>3. Alters(anew, lifted)
    BY <2>1, <2>2 DEF Alters
  <2>4. Moves(anew, host, site.mr)
    BY <1>8, <2>3, Altered, MovesOn
  <2> QED BY <1>1, <1>10, <2>4, MovesSteps
<1> QED BY <1>2, <1>3, <1>9, <1>10

-----------------------------------------------------------------------------
\* The process starts again.

LEMMA RecoverMoves ==
    ASSUME NEW h, NEW mr, Keeps(h, mr), h.controlEpoch = 0
    PROVE  Moves(recover(h), h, mr) /\ Stays(recover(h), h)
<1> DEFINE c == Call("red", 0, None, h.sha, None)
           d == Call("verdict", 0, None, h.sha, "success")
<1>1. /\ h \in Host /\ h.sha \in MaybeSha /\ 0 \in Nat /\ "call" \in Delivering
      /\ "queued" \in Status \ {"paused", "completed"}
  BY DEF Keeps, Host, Delivering, Status
<1>2. CASE h.status \in {"running", "queued"}
  <2>1. recover(h) = [h EXCEPT !.status = "queued"]
    BY <1>2 DEF recover
  <2>2. Moves(recover(h), h, mr) /\ recover(h).status = "queued"
    BY <1>1, <2>1, StatusMoves
  <2> QED BY <1>2, <2>2 DEF Stays
<1>3. CASE h.status = "verifying"
  <2>1. \/ recover(h) \in {h, tryDeliver(h, 0, "call"), pollPipeline(h, 0)}
        \/ h.gap # None /\ recover(h) = dispatchCiRepair(h, c)
        \/ h.pipeline = "success" /\ recover(h) = Add(h, d)
    <3>1. CASE ~h.mr /\ ~h.stalled
      BY <1>3, <3>1 DEF recover
    <3>2. CASE h.mr \/ h.stalled
      BY <1>3, <3>2 DEF recover
    <3> QED BY <3>1, <3>2
  <2>2. CASE recover(h) \in {h, tryDeliver(h, 0, "call"), pollPipeline(h, 0)}
    <3>1. Moves(h, h, mr)
      BY DEF Moves
    <3>2. Moves(tryDeliver(h, 0, "call"), h, mr) /\ Moves(pollPipeline(h, 0), h, mr)
      BY <1>1, <1>3, TryMoves, PollMoves
    <3> QED BY <1>3, <2>2, <3>1, <3>2 DEF Stays
  <2>3. CASE h.gap # None /\ recover(h) = dispatchCiRepair(h, c)
    <3>1. h.sha # None
      BY <2>3 DEF Keeps, Pushes
    <3>2. Held(h, c) /\ c.sha = h.sha
      BY <1>1, AgainHeld
    <3> HIDE DEF c
    <3>3. Moves(dispatchCiRepair(h, c), h, mr)
      BY <1>3, <3>1, <3>2, DispatchMoves
    <3> QED BY <1>3, <2>3, <3>3 DEF Stays
  <2>4. CASE h.pipeline = "success" /\ recover(h) = Add(h, d)
    <3>1. h.sha # None
      BY <2>4 DEF Keeps, Pushes, Known
    <3>2. /\ d \in CallRecord /\ d.kind = "verdict" /\ d.epoch = 0 /\ d.owner = None
          /\ d.sha = h.sha
      BY <1>1 DEF Call, CallRecord, Kinds, Owner, How
    <3>3. None \notin Delivering /\ None # "watch"
      BY NoneAssumption DEF Delivering
    <3> HIDE DEF d
    <3>4. Admits(h, d, mr)
      BY <1>3, <3>1, <3>2, <3>3 DEF Admits, Meant, Early
    <3>5. Moves(Add(h, d), h, mr)
      BY <3>2, <3>3, <3>4, Added
    <3> QED BY <1>3, <2>4, <3>5 DEF Stays
  <2> QED BY <2>1, <2>2, <2>3, <2>4
<1>4. CASE h.status \notin {"running", "queued", "verifying"}
  <2>1. recover(h) = h
    BY <1>4 DEF recover
  <2> QED BY <2>1 DEF Moves, Stays
<1> QED BY <1>2, <1>3, <1>4

LEMMA CrashSteps ==
    ASSUME Inv, Crash
    PROVE  Steps(host', host, site.mr)
<1> DEFINE z == [host EXCEPT
                   !.controlEpoch = 0, !.driver = None, !.stopping = None,
                   !.deliveryActive = FALSE, !.calls = {}, !.poll = None, !.recovery = None,
                   !.limit = None, !.evidence = None, !.repair = None,
                   !.watch = "off", !.view = None]
           r == recover(z)
<1>1. /\ host \in Host /\ Pushes(host, site.mr) /\ host' = ensureMergeWatch(r)
  BY DEF Inv, Keeps, Crash, Restarted
<1>2. z \in Host
  BY <1>1, Values DEF Host
<1>3. /\ Alike(z, host) /\ z.status = host.status /\ z.controlEpoch = 0
      /\ z.calls = {} /\ z.deliveryActive = FALSE /\ z.watch = "off"
  BY <1>1 DEF Host, Alike
<1> HIDE DEF z
<1>4. Keeps(z, site.mr)
  BY <1>1, <1>2, <1>3 DEF Keeps, Alike, OneDelivery, Epochs, Pushes, Watches
<1>5. Moves(r, z, site.mr) /\ Keeps(r, site.mr) /\ Stays(r, z)
  BY <1>3, <1>4, RecoverMoves DEF Moves
<1> HIDE DEF r
<1>6. Moves(host', r, site.mr) /\ host'.status = r.status
  BY <1>1, <1>5, WatchedMoves
<1> QED BY <1>3, <1>5, <1>6 DEF Moves, Stays, Steps

-----------------------------------------------------------------------------
\* The platform: a merge is for good, and only a pushed commit has a request.
LEMMA PlatformAdvances ==
    ASSUME Inv, Platform
    PROVE  Advances /\ site' \in Site
<1>1. Keeps(host, site.mr) /\ site \in Site /\ host' = host
  BY DEF Inv, Platform, PipelineEnds, Rerun, Merge, Close, Reopen, ForeignPush
<1>2. /\ site' \in Site
      /\ site'.mr = site.mr \/ (site.mr \in {"opened", "closed"})
  <2>1. CASE PipelineEnds
    <3>1. PICK s \in Commit, outcome \in Outcomes :
            site' = [site EXCEPT !.run[s] = outcome,
                                 !.red = IF outcome = "success" THEN @ ELSE @ \cup {s}]
      BY <2>1 DEF PipelineEnds
    <3>2. outcome \in Run
      BY OutcomesAssumption DEF Run
    <3> QED BY <1>1, <3>1, <3>2 DEF Site
  <2>2. CASE Rerun
    BY <1>1, <2>2 DEF Site, Rerun, Run
  <2>3. CASE Merge
    BY <1>1, <2>3 DEF Site, Merge, MergeState
  <2>4. CASE Close
    BY <1>1, <2>4 DEF Site, Close, MergeState
  <2>5. CASE Reopen
    BY <1>1, <2>5 DEF Site, Reopen, MergeState
  <2>6. CASE ForeignPush
    <3>1. PICK x \in Change : site' = [site EXCEPT !.branch = @ \cup {x}]
      BY <2>6 DEF ForeignPush
    <3>2. site.branch \cup {x} \in Commit
      BY <1>1 DEF Site, Commit
    <3> QED BY <1>1, <3>1, <3>2 DEF Site
  <2> QED BY <2>1, <2>2, <2>3, <2>4, <2>5, <2>6 DEF Platform
<1>3. site'.mr # "none" => host.sha # None
  BY <1>1, <1>2 DEF Keeps, Pushes
<1>4. site.mr = "merged" => site'.mr = "merged"
  BY <1>2
<1>5. Keeps(host', site'.mr)
  BY <1>1, <1>3, <1>4, Platforms
<1> QED BY <1>1, <1>2, <1>5 DEF Advances

-----------------------------------------------------------------------------
\* All of it.

LEMMA HappensLeft ==
    ASSUME Inv, NEW event \in Event, Happens(event)
    PROVE  left' \in [Event -> Nat]
<1>1. left \in [Event -> Nat] /\ left[event] > 0 /\ left' = [left EXCEPT ![event] = @ - 1]
  BY DEF Inv, Happens
<1>2. left[event] - 1 \in Nat
  BY <1>1
<1> QED BY <1>1, <1>2

LEMMA AnswersAdvances ==
    ASSUME Inv, NEW c \in host.calls, Answers(c)
    PROVE  Advances /\ Inv'
<1>1. left' = left /\ site' = site /\ left \in [Event -> Nat] /\ site \in Site
  BY DEF Inv, Answers, TurnEnds, Deliver, DeliverChecks, DeliverSyncs, DeliverConfirms,
         DeliverPushes, DeliverCreates, DeliverAsks, DeliverTriggers, VerdictAnswers,
         RedLooks, ArtifactsArrive, RefreshAnswers, SettleEnds, SettleBegins, Idle
<1>2. head' \in Commit
  BY DEF Inv, Site, Commit, Answers, TurnEnds, Deliver, DeliverChecks, DeliverSyncs,
         DeliverConfirms, DeliverPushes, DeliverCreates, DeliverAsks, DeliverTriggers,
         VerdictAnswers, RedLooks, ArtifactsArrive, RefreshAnswers, SettleEnds,
         SettleBegins, Idle
<1>3. attested' \subseteq Commit
  <2>1. CASE VerdictAnswers(c)
    BY <2>1, VerdictSteps
  <2>2. CASE ~VerdictAnswers(c)
    BY <2>2
    DEF Inv, Answers, TurnEnds, Deliver, DeliverChecks, DeliverSyncs, DeliverConfirms,
        DeliverPushes, DeliverCreates, DeliverAsks, DeliverTriggers,
        RedLooks, ArtifactsArrive, RefreshAnswers, SettleEnds, SettleBegins, Idle
  <2> QED BY <2>1, <2>2
<1>4. Advances
  <2>1. CASE SettleEnds(c)
    BY <2>1, SettleEndsAdvances
  <2>2. CASE ~SettleEnds(c)
    <3>1. Steps(host', host, site.mr)
      BY <2>2, TurnSteps, DeliverSteps, VerdictSteps, RedLooksSteps, ArtifactsSteps,
         RefreshSteps, SettleBeginsSteps DEF Answers
    <3> QED BY <1>1, <3>1, StepsAdvance
  <2> QED BY <2>1, <2>2
<1> QED BY <1>1, <1>2, <1>3, <1>4 DEF Inv, Advances

LEMMA NextAdvances ==
    ASSUME Inv, Next
    PROVE  Advances /\ Inv'
<1>0. /\ Keeps(host, site.mr) /\ head \in Commit /\ site \in Site
      /\ attested \subseteq Commit /\ left \in [Event -> Nat]
  BY DEF Inv
<1>1. ASSUME Steps(host', host, site.mr), UNCHANGED <<head, site, attested>>,
             left' \in [Event -> Nat]
      PROVE  Advances /\ Inv'
  BY <1>0, <1>1, StepsAdvance DEF Inv, Advances
<1>2. CASE Launch \/ Timers \/ Expire \/ WatchLooks \/ WatchActs
  <2>1. Steps(host', host, site.mr)
    BY <1>2, LaunchSteps, PollEndsSteps, PollAnswersSteps, RecoverySteps, LimitSteps,
       EvidenceSteps, RepairFiresSteps, ExpireSteps, LooksSteps, ActsSteps DEF Timers
  <2>2. Idle
    BY <1>2 DEF Launch, Timers, PollEnds, PollAnswers, RecoveryFires, LimitFires,
                EvidenceFires, RepairFires, Expire, WatchLooks, WatchActs
  <2> QED BY <1>0, <1>1, <2>1, <2>2 DEF Idle
<1>3. CASE Commits
  <2>1. UNCHANGED <<host, site, attested, left>> /\ head' \in Commit
    BY <1>0, <1>3 DEF Commits, Commit
  <2> QED BY <1>0, <2>1 DEF Inv, Advances
<1>4. CASE \E c \in host.calls : Arrives(c)
  <2>1. PICK c \in host.calls : Arrives(c)
    BY <1>4
  <2>2. Steps(host', host, site'.mr) /\ site' \in Site
    BY <2>1, ArrivesSteps
  <2>3. UNCHANGED <<head, attested, left>>
    BY <2>1 DEF Arrives
  <2> QED BY <1>0, <2>2, <2>3, StepsAdvance DEF Inv, Advances
<1>5. CASE \E c \in host.calls : Answers(c)
  BY <1>5, AnswersAdvances
<1>6. CASE Users
  <2>1. Steps(host', host, site.mr)
    BY <1>6, PauseSteps, ResumeSteps, InterruptSteps, RetrySteps DEF Users
  <2>2. UNCHANGED <<head, site, attested>>
    BY <1>6 DEF Users, Pause, Resume, Interrupt, Retry, Idle
  <2>3. left' \in [Event -> Nat]
    BY <1>0, <1>6, HappensLeft DEF Users, Pause, Resume, Interrupt, Retry, Idle, Event
  <2> QED BY <1>1, <2>1, <2>2, <2>3
<1>7. CASE Platform
  <2>1. Advances /\ site' \in Site
    BY <1>7, PlatformAdvances
  <2>2. UNCHANGED <<head, attested>>
    BY <1>7 DEF Platform, PipelineEnds, Rerun, Merge, Close, Reopen, ForeignPush
  <2>3. left' \in [Event -> Nat]
    BY <1>0, <1>7, HappensLeft
       DEF Platform, PipelineEnds, Rerun, Merge, Close, Reopen, ForeignPush, Event
  <2> QED BY <1>0, <2>1, <2>2, <2>3 DEF Inv, Advances
<1>8. CASE Crash
  <2>1. Steps(host', host, site.mr) /\ UNCHANGED <<head, site, attested>>
    BY <1>8, CrashSteps DEF Crash
  <2>2. left' \in [Event -> Nat]
    BY <1>8, HappensLeft DEF Crash, Event
  <2> QED BY <1>1, <2>1, <2>2
<1> QED BY <1>2, <1>3, <1>4, <1>5, <1>6, <1>7, <1>8 DEF Next

LEMMA InitInv == Init => Inv
<1> SUFFICES ASSUME Init PROVE Inv
  OBVIOUS
<1>1. {} \in Commit
  BY DEF Commit
<1>2. host \in Host
  BY Values DEF Init, Host
<1>3. /\ host.calls = {} /\ host.deliveryActive = FALSE /\ host.status = "queued"
      /\ host.sha = None /\ host.mr = FALSE /\ host.pipeline = None /\ host.gap = None
      /\ host.watch = "off"
  BY DEF Init
<1>4. site \in Site /\ site.mr = "none"
  BY <1>1 DEF Init, Site, MergeState, Run
<1>5. head \in Commit /\ attested \subseteq Commit /\ left \in [Event -> Nat]
  BY <1>1, BoundsAssumption DEF Init
<1>6. None \notin Known
  BY NoneAssumption DEF Known
<1>7. Keeps(host, site.mr)
  BY <1>2, <1>3, <1>4, <1>6 DEF Keeps, OneDelivery, Epochs, Pushes, Watches
<1> QED BY <1>4, <1>5, <1>7 DEF Inv

\* The invariant that the theorems rest on.
THEOREM Invariance == Spec => []Inv
<1>1. Inv /\ [Next]_vars => Inv'
  <2> SUFFICES ASSUME Inv, [Next]_vars PROVE Inv'
    OBVIOUS
  <2>1. CASE Next
    BY <2>1, NextAdvances
  <2>2. CASE UNCHANGED vars
    BY <2>2 DEF Inv, vars
  <2> QED BY <2>1, <2>2
<1> QED BY InitInv, <1>1, PTL DEF Spec

\* Every reachable state of delivery is of the type the runs check: the round
\* is within one of its budget, a watched request is known, and deliveryActive
\* is set exactly while a delivery is under way.
THEOREM TypeCorrect == Spec => []TypeOK
<1>1. Inv => TypeOK
  <2> SUFFICES ASSUME Inv PROVE TypeOK
    OBVIOUS
  <2>1. host \in Host /\ OneDelivery(host) /\ Watches(host, site.mr) /\ site \in Site
    BY DEF Inv, Keeps
  <2>2. /\ host.status \in Status /\ host.controlEpoch \in Nat /\ host.sha \in MaybeSha
        /\ host.round \in Round
    BY <2>1 DEF Host
  <2>3. site.branch \in Commit
    BY <2>1 DEF Site
  <2> QED BY <2>1, <2>2, <2>3
          DEF Inv, TypeOK, OneDelivery, Watches, Status, MaybeSha, Round, Delivering
<1> QED BY <1>1, Invariance, PTL

\* A task is completed only by a merge of its request that holds all it has
\* committed (settleMergeState, completeMergedTask).
THEOREM CompletedByItsMerge == Spec => CompletedTruly
<1>1. Inv /\ [Next]_vars =>
        [host'.status = "completed" /\ host.status # "completed" =>
           site.mr = "merged" /\ head \subseteq site.merged]_vars
  BY NextAdvances DEF Advances
<1> QED BY <1>1, Invariance, PTL DEF Spec, CompletedTruly

\* A paused task goes on only in a new epoch, or ends with its merge: no late
\* answer, timer or watcher moves it (controlEpoch, isTaskCurrent).
THEOREM PausedIsLeftAlone == Spec => PausedStaysPut
<1>1. Inv /\ [Next]_vars =>
        [host.status = "paused" /\ host'.status # "paused" =>
           host'.controlEpoch # host.controlEpoch \/ site.mr = "merged"]_vars
  BY NextAdvances DEF Advances
<1> QED BY <1>1, Invariance, PTL DEF Spec, PausedStaysPut

-----------------------------------------------------------------------------
\* What a task knows of its commits.

\* Nobody asked for another run.
Unasked == "retry" \notin Happened

Fields ==
    {"status", "controlEpoch", "driver", "stopping", "from", "sha", "mr", "pipeline",
     "stalled", "verify_deadline", "loop", "round", "max", "gap", "closed",
     "deliveryActive", "poll", "recovery", "limit", "evidence", "repair", "watch",
     "view", "calls"}

CallOf(S) ==
    [kind : S, epoch : S, owner : S, sha : S, how : S, mark : BOOLEAN]

IsCall(c) == \E S : c \in CallOf(S)
IsTask(h) == DOMAIN h = Fields /\ \A c \in h.calls : IsCall(c)

\* The stages of a delivery.
Stages == {"check", "sync", "confirm", "push", "create", "ask", "trigger"}

\* A call that leads to a repair is about a commit that was red.
Blames(c) == c.kind \in {"red", "artifacts"} \/ (c.kind = "verdict" /\ c.how = "failed")

\* What a call of a task with the commit `sha` knows.  A commit on its way to
\* the branch holds the one before it and has no run, what was committed
\* since is not on the branch, and a commit whose run is about to be
\* triggered has none.
Knows(c, sha, mr, hd, st, unasked) ==
    /\ c.kind \in Stages => c.owner \in Delivering
    /\ c.kind \in {"confirm", "push"} =>
         /\ sha # None => sha \subseteq c.sha
         /\ c.sha \subseteq hd /\ (hd \ c.sha) \cap st.branch = {}
    /\ c.kind = "confirm" => st.run[c.sha] = "none" \/ (~mr /\ sha = c.sha)
    /\ c.kind = "push" => st.run[c.sha] = "none"
    /\ c.kind \in {"create", "ask", "trigger"} => c.sha = sha
    /\ unasked /\ ((c.kind = "create" /\ c.how = "trigger") \/ (c.kind = "trigger" /\ ~c.mark))
         => st.run[c.sha] = "none"
    /\ "kernel" \notin Faults =>
         c.kind # "refresh" /\ (Blames(c) => c.sha \in st.red)

\* What the record says is red was red.
Blamed(h, red) ==
    /\ h.pipeline = "failed" => h.sha \in red
    /\ h.gap # None => h.sha \in red
    /\ h.repair # None => h.repair.sha \in red
    /\ h.watch = "act" /\ h.view.red => h.view.sha \in red
    /\ h.evidence # None => h.evidence.stale

\* All that ever had a run is part of the commit of the task, and that is part
\* of its working tree.
Sound(h, hd, st, unasked, round) ==
    /\ IsTask(h) /\ h.round = round
    /\ h.sha # None => h.sha \subseteq hd
    /\ \A s \in Commit : st.run[s] # "none" => h.sha # None /\ s \subseteq h.sha
    /\ \A c \in h.calls : Knows(c, h.sha, h.mr, hd, st, unasked)
    /\ unasked => h.pipeline # "retry"
    /\ "kernel" \notin Faults => Blamed(h, st.red)

\* What the platform knows of a commit.
Paid(st, unasked) ==
    \A s \in Commit :
        /\ st.run[s] \in {"failed", "mixed"} => s \in st.red
        /\ unasked => /\ st.triggers[s] <= 1
                      /\ st.run[s] = "none" => st.triggers[s] = 0

Informed == Sound(host, head, site, Unasked, host.round) /\ Paid(site, Unasked)

-----------------------------------------------------------------------------
\* What functions do to that.

Resembles(c, d) ==
    /\ c.kind = d.kind /\ c.epoch = d.epoch /\ c.owner = d.owner
    /\ c.sha = d.sha /\ c.how = d.how
    /\ c.kind # "artifacts" => c.mark = d.mark

\* It says no more than before.
Lean(g, h) ==
    /\ IsTask(g)
    /\ g.sha = h.sha /\ g.mr = h.mr /\ g.round = h.round
    /\ g.pipeline = h.pipeline /\ g.gap = h.gap
    /\ g.repair = h.repair /\ g.view = h.view /\ g.evidence = h.evidence
    /\ g.watch = "act" => h.watch = "act"
    /\ \A c \in g.calls : \E d \in h.calls : Resembles(c, d)

\* A call that goes on as another.
Gone(c, kind, sha, how) ==
    [c EXCEPT !.kind = kind, !.sha = sha, !.how = how, !.mark = kind = "artifacts"]

LEMMA CallGoes ==
    ASSUME NEW c, IsCall(c), NEW kind, NEW sha, NEW how
    PROVE  LET d == Gone(c, kind, sha, how) IN
           /\ IsCall(d) /\ d.kind = kind /\ d.epoch = c.epoch /\ d.owner = c.owner
           /\ d.sha = sha /\ d.how = how /\ d.mark \in BOOLEAN
<1>1. PICK S : c \in CallOf(S)
  BY DEF IsCall
<1> DEFINE T == S \cup {how, kind, sha}
           d == Gone(c, kind, sha, how)
<1>2. c \in CallOf(T)
  BY <1>1 DEF CallOf
<1>3. /\ d \in CallOf(T)
      /\ d.kind = kind /\ d.epoch = c.epoch /\ d.owner = c.owner
      /\ d.sha = sha /\ d.how = how /\ d.mark \in BOOLEAN
  BY <1>2 DEF CallOf, Gone
<1> QED BY <1>3, Zenon DEF IsCall

\* It is marked.
LEMMA CallMarked ==
    ASSUME NEW c, IsCall(c), NEW mark \in BOOLEAN
    PROVE  LET d == [c EXCEPT !.mark = mark] IN
           /\ IsCall(d) /\ d.kind = c.kind /\ d.epoch = c.epoch /\ d.owner = c.owner
           /\ d.sha = c.sha /\ d.how = c.how /\ d.mark = mark
<1>1. PICK S : c \in CallOf(S)
  BY DEF IsCall
<1> DEFINE T == S \cup {}
           d == [c EXCEPT !.mark = mark]
<1>2. c \in CallOf(T)
  BY <1>1 DEF CallOf
<1>3. /\ d \in CallOf(T)
      /\ d.kind = c.kind /\ d.epoch = c.epoch /\ d.owner = c.owner
      /\ d.sha = c.sha /\ d.how = c.how /\ d.mark = mark
  BY <1>2 DEF CallOf
<1> QED BY <1>3, Zenon DEF IsCall

\* It settles a merge request.
LEMMA CallSettles ==
    ASSUME NEW c, IsCall(c), NEW how
    PROVE  LET d == [c EXCEPT !.kind = "settle", !.how = how, !.mark = TRUE] IN
           /\ IsCall(d) /\ d.kind = "settle" /\ d.epoch = c.epoch /\ d.owner = c.owner
           /\ d.sha = c.sha /\ d.how = how /\ d.mark = TRUE
<1>1. PICK S : c \in CallOf(S)
  BY DEF IsCall
<1> DEFINE T == S \cup {"settle", how}
           d == [c EXCEPT !.kind = "settle", !.how = how, !.mark = TRUE]
<1>2. c \in CallOf(T)
  BY <1>1 DEF CallOf
<1>3. /\ d \in CallOf(T)
      /\ d.kind = "settle" /\ d.epoch = c.epoch /\ d.owner = c.owner
      /\ d.sha = c.sha /\ d.how = how /\ d.mark = TRUE
  BY <1>2 DEF CallOf
<1> QED BY <1>3, Zenon DEF IsCall

\* It is about another commit.
LEMMA CallTakes ==
    ASSUME NEW c, IsCall(c), NEW sha
    PROVE  LET d == [c EXCEPT !.sha = sha] IN
           /\ IsCall(d) /\ d.kind = c.kind /\ d.epoch = c.epoch /\ d.owner = c.owner
           /\ d.sha = sha /\ d.how = c.how /\ d.mark = c.mark
<1>1. PICK S : c \in CallOf(S)
  BY DEF IsCall
<1> DEFINE T == S \cup {sha}
           d == [c EXCEPT !.sha = sha]
<1>2. c \in CallOf(T)
  BY <1>1 DEF CallOf
<1>3. /\ d \in CallOf(T)
      /\ d.kind = c.kind /\ d.epoch = c.epoch /\ d.owner = c.owner
      /\ d.sha = sha /\ d.how = c.how /\ d.mark = c.mark
  BY <1>2 DEF CallOf
<1> QED BY <1>3, Zenon DEF IsCall

LEMMA LeanOn ==
    ASSUME NEW f, NEW g, NEW h, Lean(g, h), Lean(f, g)
    PROVE  Lean(f, h)
BY DEF Lean, Resembles

LEMMA LeanSelf ==
    ASSUME NEW h, IsTask(h)
    PROVE  Lean(h, h)
BY DEF Lean, Resembles

LEMMA LeanSound ==
    ASSUME NEW g, NEW h, NEW hd, NEW st, NEW u, NEW n, Sound(h, hd, st, u, n), Lean(g, h)
    PROVE  Sound(g, hd, st, u, n)
<1>1. \A c \in g.calls : Knows(c, g.sha, g.mr, hd, st, u)
  BY DEF Sound, Lean, Knows, Resembles, Blames, Stages
<1> QED BY <1>1 DEF Sound, Lean, Blamed

\* The fields that lean records share.
LEMMA FieldsLean ==
    ASSUME NEW g, NEW h, IsTask(h), DOMAIN g = Fields, g.calls \subseteq h.calls,
           g.sha = h.sha, g.mr = h.mr, g.round = h.round,
           g.pipeline = h.pipeline, g.gap = h.gap,
           g.repair = h.repair, g.view = h.view, g.evidence = h.evidence,
           g.watch \in {h.watch, "wait", "busy", "off"}
    PROVE  Lean(g, h)
BY DEF Lean, IsTask, Resembles

LEMMA ReplacedLean ==
    ASSUME NEW h, IsTask(h)
    PROVE  Lean(Replaced(h), h)
<1> DEFINE m(c) == [c EXCEPT !.mark = @ /\ c.kind # "artifacts"]
           cs == {m(c) : c \in h.calls}
           g == [h EXCEPT !.calls = cs]
<1>1. ASSUME NEW c \in h.calls PROVE IsCall(m(c)) /\ Resembles(m(c), c)
  <2>1. IsCall(c) /\ c.mark \in BOOLEAN
    <3>1. PICK S : c \in CallOf(S)
      BY DEF IsTask, IsCall
    <3> QED BY <3>1 DEF CallOf, IsCall
  <2>2. (c.mark /\ c.kind # "artifacts") \in BOOLEAN
    OBVIOUS
  <2> QED BY <2>1, <2>2, CallMarked DEF Resembles
<1> HIDE DEF m
<1>2. \A d \in cs : IsCall(d) /\ \E c \in h.calls : Resembles(d, c)
  BY <1>1
<1> HIDE DEF cs
<1>3. /\ DOMAIN g = Fields /\ g.calls = cs
      /\ g.sha = h.sha /\ g.mr = h.mr /\ g.round = h.round
    /\ g.pipeline = h.pipeline /\ g.gap = h.gap
      /\ g.repair = h.repair /\ g.view = h.view /\ g.watch = h.watch /\ g.evidence = h.evidence
  BY DEF IsTask, Fields
<1>4. Replaced(h) = g
  BY DEF Replaced, cs, m
<1> HIDE DEF g
<1> QED BY <1>2, <1>3, <1>4 DEF Lean, IsTask

\* Deadlines, timers, the status and the watcher say nothing of commits.

LEMMA NoDeadlineLean ==
    ASSUME NEW h, IsTask(h)
    PROVE  Lean(NoDeadline(h), h)
BY FieldsLean DEF NoDeadline, IsTask, Fields

LEMMA OpenDeadlineLean ==
    ASSUME NEW h, IsTask(h)
    PROVE  Lean(OpenDeadline(h), h)
<1> DEFINE r == Replaced(h)
<1>1. Lean(r, h) /\ IsTask(r)
  BY ReplacedLean DEF Lean
<1> HIDE DEF r
<1>2. Lean([r EXCEPT !.verify_deadline = "open"], r)
  BY <1>1, FieldsLean DEF IsTask, Fields
<1> QED BY <1>1, <1>2, LeanOn, LeanSelf DEF OpenDeadline, r

LEMMA StalledLean ==
    ASSUME NEW h, IsTask(h)
    PROVE  Lean(markVerificationStalled(h), h)
<1> DEFINE r == NoDeadline(Replaced(h))
<1>1. Lean(Replaced(h), h) /\ IsTask(Replaced(h))
  BY ReplacedLean DEF Lean
<1>2. Lean(r, h) /\ IsTask(r)
  BY <1>1, NoDeadlineLean, LeanOn DEF Lean
<1> HIDE DEF r
<1>3. Lean([r EXCEPT !.status = "verifying", !.stalled = TRUE], r)
  BY <1>2, FieldsLean DEF IsTask, Fields
<1> QED BY <1>2, <1>3, LeanOn DEF markVerificationStalled, r

LEMMA ScheduledLean ==
    ASSUME NEW h, IsTask(h), NEW epoch
    PROVE  Lean(scheduleDeliveryRecovery(h, epoch), h)
<1> DEFINE r == OpenDeadline(h)
           g == [r EXCEPT !.limit = epoch, !.recovery = IF @ = None THEN epoch ELSE @]
<1>1. Lean(r, h) /\ IsTask(r)
  BY OpenDeadlineLean DEF Lean
<1>2. scheduleDeliveryRecovery(h, epoch) = g
  BY DEF scheduleDeliveryRecovery
<1> HIDE DEF r
<1>3. Lean(g, r)
  BY <1>1, FieldsLean DEF IsTask, Fields
<1> QED BY <1>1, <1>2, <1>3, LeanOn

LEMMA StatusLean ==
    ASSUME NEW h, IsTask(h), NEW status
    PROVE  Lean([h EXCEPT !.status = status], h)
BY FieldsLean DEF IsTask, Fields

LEMMA HeldLean ==
    ASSUME NEW h, IsTask(h), NEW epoch
    PROVE  Lean(holdWithRecovery(h, epoch), h)
<1> DEFINE held == [Replaced(h) EXCEPT !.status = "verifying"]
<1>1. Lean(held, h) /\ IsTask(held)
  <2>1. Lean(Replaced(h), h) /\ IsTask(Replaced(h))
    BY ReplacedLean DEF Lean
  <2>2. Lean(held, Replaced(h))
    BY <2>1, StatusLean
  <2>3. Lean(held, h)
    BY <2>1, <2>2, LeanOn
  <2> QED BY <2>3 DEF Lean
<1>2. holdWithRecovery(h, epoch) \in
         {held, markVerificationStalled(held), scheduleDeliveryRecovery(held, epoch)}
  BY DEF holdWithRecovery
<1> HIDE DEF held
<1> QED BY <1>1, <1>2, StalledLean, ScheduledLean, LeanOn

LEMMA WatchedLean ==
    ASSUME NEW h, IsTask(h)
    PROVE  Lean(ensureMergeWatch(h), h)
<1>1. Lean([h EXCEPT !.watch = "wait"], h)
  BY FieldsLean DEF IsTask, Fields
<1> QED BY <1>1, LeanSelf DEF ensureMergeWatch

LEMMA AfterLean ==
    ASSUME NEW h, IsTask(h), NEW epoch, NEW owner
    PROVE  Lean(AfterDelivery(h, epoch, owner), h)
<1>1. AfterDelivery(h, epoch, owner) \in
         {h, holdWithRecovery(h, epoch), markVerificationStalled(h),
          scheduleDeliveryRecovery(h, epoch)}
  BY DEF AfterDelivery
<1> QED BY <1>1, LeanSelf, HeldLean, StalledLean, ScheduledLean

LEMMA DropLean ==
    ASSUME NEW h, IsTask(h), NEW c
    PROVE  Lean(Drop(h, c), h)
BY FieldsLean DEF Drop, IsTask, Fields

\* A call that returns says nothing.
LEMMA ReturnLean ==
    ASSUME NEW h, IsTask(h), NEW c
    PROVE  Lean(Return(h, c), Drop(h, c))
<1> DEFINE g == Drop(h, c)
           idle == [g EXCEPT !.deliveryActive = FALSE]
           unpolled == [g EXCEPT !.poll = IF @ = [sha |-> c.sha, epoch |-> c.epoch]
                                          THEN None ELSE @]
<1>1. Lean(g, h) /\ IsTask(g)
  BY DropLean DEF Lean
<1>2. Return(h, c) \in
         {g, AfterDelivery(idle, c.epoch, c.owner), unpolled,
          [g EXCEPT !.watch = "wait"], [g EXCEPT !.watch = "off"]}
  BY DEF Return
<1> HIDE DEF g
<1>3. Lean(idle, g) /\ IsTask(idle)
  BY <1>1, FieldsLean DEF IsTask, Fields, Lean
<1> HIDE DEF idle
<1>4. Lean(AfterDelivery(idle, c.epoch, c.owner), g)
  BY <1>3, AfterLean, LeanOn
<1>5. Lean(unpolled, g)
  BY <1>1, FieldsLean DEF IsTask, Fields
<1>6. Lean([g EXCEPT !.watch = "wait"], g) /\ Lean([g EXCEPT !.watch = "off"], g)
  BY <1>1, FieldsLean DEF IsTask, Fields
<1> HIDE DEF unpolled
<1> QED BY <1>1, <1>2, <1>4, <1>5, <1>6, LeanSelf DEF g

-----------------------------------------------------------------------------
\* Calls begin.

LEMMA CallIs ==
    ASSUME NEW kind, NEW epoch, NEW owner, NEW sha, NEW how
    PROVE  LET c == Call(kind, epoch, owner, sha, how) IN
           /\ IsCall(c) /\ c.kind = kind /\ c.epoch = epoch /\ c.owner = owner
           /\ c.sha = sha /\ c.how = how /\ ~c.mark
<1> DEFINE S == {kind, epoch, owner, sha, how}
           c == Call(kind, epoch, owner, sha, how)
<1>1. /\ c \in CallOf(S) /\ c.kind = kind /\ c.epoch = epoch /\ c.owner = owner
      /\ c.sha = sha /\ c.how = how /\ ~c.mark
  BY DEF Call, CallOf
<1> QED BY <1>1, Zenon DEF IsCall

LEMMA AddSound ==
    ASSUME NEW h, NEW hd, NEW st, NEW u, NEW n, Sound(h, hd, st, u, n),
           NEW d, IsCall(d), Knows(d, h.sha, h.mr, hd, st, u)
    PROVE  Sound(Add(h, d), hd, st, u, n)
<1> DEFINE g == Add(h, d)
<1>1. /\ DOMAIN g = Fields /\ g.calls = h.calls \cup {d}
      /\ g.sha = h.sha /\ g.mr = h.mr /\ g.round = h.round
    /\ g.pipeline = h.pipeline /\ g.gap = h.gap
      /\ g.repair = h.repair /\ g.view = h.view /\ g.watch = h.watch /\ g.evidence = h.evidence
  BY DEF Add, Sound, IsTask, Fields
<1> HIDE DEF g
<1> QED BY <1>1 DEF Sound, IsTask, Blamed, g

\* All calls but c.
Rest(h, c, hd, st, u, n) == IsTask(h) /\ Sound(Drop(h, c), hd, st, u, n)

LEMMA DropRest ==
    ASSUME NEW h, NEW hd, NEW st, NEW u, NEW n, Sound(h, hd, st, u, n), NEW c
    PROVE  Rest(h, c, hd, st, u, n)
<1>1. IsTask(h)
  BY DEF Sound
<1> QED BY <1>1, DropLean, LeanSound DEF Rest

LEMMA LeanDrop ==
    ASSUME NEW g, NEW h, Lean(g, h), IsTask(h), NEW c, IsCall(c), c.kind # "artifacts"
    PROVE  Lean(Drop(g, c), Drop(h, c))
<1> DEFINE x == Drop(g, c)
           y == Drop(h, c)
<1>1. /\ x.calls = g.calls \ {c} /\ y.calls = h.calls \ {c}
      /\ \A d \in g.calls : IsCall(d) /\ \E e \in h.calls : IsCall(e) /\ Resembles(d, e)
  BY DEF Lean, IsTask, Fields, Drop
<1>2. \A d \in x.calls : \E e \in y.calls : Resembles(d, e)
  <2> TAKE d \in x.calls
  <2>1. PICK e \in h.calls : IsCall(d) /\ IsCall(e) /\ Resembles(d, e)
    BY <1>1
  <2>2. e # c
    <3>1. SUFFICES ASSUME e = c PROVE FALSE
      OBVIOUS
    <3>2. d = e
      <4>1. /\ d.kind = e.kind /\ d.epoch = e.epoch /\ d.owner = e.owner
            /\ d.sha = e.sha /\ d.how = e.how /\ d.mark = e.mark
        BY <2>1, <3>1 DEF Resembles
      <4>2. PICK S : d \in CallOf(S)
        BY <2>1 DEF IsCall
      <4>3. PICK T : e \in CallOf(T)
        BY <2>1 DEF IsCall
      <4> QED BY <4>1, <4>2, <4>3 DEF CallOf
    <3> QED BY <1>1, <3>1, <3>2
  <2> QED BY <1>1, <2>1, <2>2
<1>3. Lean(x, y)
  <2>1. /\ x.sha = g.sha /\ x.mr = g.mr /\ x.round = g.round /\ x.pipeline = g.pipeline /\ x.gap = g.gap
        /\ x.repair = g.repair /\ x.view = g.view /\ x.watch = g.watch /\ x.evidence = g.evidence
        /\ DOMAIN x = Fields
    BY DEF Lean, IsTask, Fields, Drop
  <2>2. /\ y.sha = h.sha /\ y.mr = h.mr /\ y.round = h.round /\ y.pipeline = h.pipeline /\ y.gap = h.gap
        /\ y.repair = h.repair /\ y.view = h.view /\ y.watch = h.watch /\ y.evidence = h.evidence
    BY DEF IsTask, Fields, Drop
  <2> HIDE DEF x, y
  <2> QED BY <1>1, <1>2, <2>1, <2>2 DEF Lean, IsTask
<1> QED BY <1>3

LEMMA LeanRest ==
    ASSUME NEW g, NEW h, NEW hd, NEW st, NEW u, NEW n, Lean(g, h), NEW c, IsCall(c),
           c.kind # "artifacts", Rest(h, c, hd, st, u, n)
    PROVE  Rest(g, c, hd, st, u, n)
BY LeanDrop, LeanSound DEF Rest, Lean

LEMMA ReturnSound ==
    ASSUME NEW h, NEW hd, NEW st, NEW u, NEW n, NEW c, Rest(h, c, hd, st, u, n)
    PROVE  Sound(Return(h, c), hd, st, u, n)
BY ReturnLean, LeanSound DEF Rest

\* A call goes on.
LEMMA GoSound ==
    ASSUME NEW h, NEW hd, NEW st, NEW u, NEW n, NEW c, Rest(h, c, hd, st, u, n), IsCall(c),
           NEW kind, NEW sha, NEW how,
           Knows(Gone(c, kind, sha, how), h.sha, h.mr, hd, st, u)
    PROVE  Sound(Go(h, c, kind, sha, how), hd, st, u, n)
<1> DEFINE d == Gone(c, kind, sha, how)
           g == Drop(h, c)
<1>1. IsCall(d)
  BY CallGoes
<1>2. Sound(g, hd, st, u, n) /\ g.sha = h.sha /\ g.mr = h.mr
  BY DropLean DEF Rest, Lean
<1>3. Go(h, c, kind, sha, how) = Add(g, d)
  BY DEF Go, Gone
<1> HIDE DEF d, g
<1> QED BY <1>1, <1>2, <1>3, AddSound DEF d

LEMMA PerformSound ==
    ASSUME NEW h, NEW hd, NEW st, NEW u, NEW n, Sound(h, hd, st, u, n), NEW epoch,
           NEW owner \in Delivering
    PROVE  Sound(performDelivery(h, epoch, owner), hd, st, u, n)
<1> DEFINE k == [h EXCEPT !.deliveryActive = TRUE,
                   !.status = IF @ \in {"running", "queued"} THEN "verifying" ELSE @,
                   !.loop = IF @ = "repairing" /\ ~h.mr THEN "verifying" ELSE @]
           kind == IF h.mr THEN "check" ELSE "sync"
           d == Call(kind, epoch, owner, {}, h.stalled)
<1>1. Lean(k, h)
  BY FieldsLean DEF Sound, IsTask, Fields
<1>2. performDelivery(h, epoch, owner) = Add(k, d)
  BY DEF performDelivery
<1> HIDE DEF k
<1>3. Sound(k, hd, st, u, n)
  BY <1>1, LeanSound
<1>4. IsCall(d) /\ Knows(d, k.sha, k.mr, hd, st, u)
  <2>1. /\ IsCall(d) /\ d.kind = kind /\ d.owner = owner
    BY CallIs
  <2>2. kind \in {"check", "sync"}
    OBVIOUS
  <2> HIDE DEF d, kind
  <2> QED BY <2>1, <2>2 DEF Knows, Blames, Stages
<1> HIDE DEF d
<1> QED BY <1>2, <1>3, <1>4, AddSound

LEMMA TrySound ==
    ASSUME NEW h, NEW hd, NEW st, NEW u, NEW n, Sound(h, hd, st, u, n), NEW epoch,
           NEW owner \in Delivering
    PROVE  Sound(tryDeliver(h, epoch, owner), hd, st, u, n)
<1>1. tryDeliver(h, epoch, owner) \in
         {AfterDelivery(h, epoch, owner), performDelivery(h, epoch, owner)}
  BY DEF tryDeliver
<1>2. IsTask(h)
  BY DEF Sound
<1>3. Sound(AfterDelivery(h, epoch, owner), hd, st, u, n)
  BY <1>2, AfterLean, LeanSound
<1>4. Sound(performDelivery(h, epoch, owner), hd, st, u, n)
  BY PerformSound
<1> QED BY <1>1, <1>3, <1>4

LEMMA PollSound ==
    ASSUME NEW h, NEW hd, NEW st, NEW u, NEW n, Sound(h, hd, st, u, n), NEW epoch
    PROVE  Sound(pollPipeline(h, epoch), hd, st, u, n)
<1>1. Lean([h EXCEPT !.poll = [sha |-> h.sha, epoch |-> epoch]], h)
  BY FieldsLean DEF Sound, IsTask, Fields
<1>2. "call" \in Delivering
  BY DEF Delivering
<1>3. pollPipeline(h, epoch) \in
         {h, [h EXCEPT !.poll = [sha |-> h.sha, epoch |-> epoch]],
          tryDeliver(h, epoch, "call")}
  BY DEF pollPipeline
<1> QED BY <1>1, <1>2, <1>3, LeanSound, TrySound

-----------------------------------------------------------------------------
\* Verdicts and repairs.

\* What a call that is made for a verdict or a repair knows.
LEMMA BlameKnows ==
    ASSUME NEW c, c.kind \in {"verdict", "red", "artifacts", "settle", "turn"},
           NEW sha, NEW mr, NEW hd, NEW st, NEW u, NEW n,
           "kernel" \notin Faults /\ Blames(c) => c.sha \in st.red
    PROVE  Knows(c, sha, mr, hd, st, u)
BY DEF Knows, Blames, Stages

\* A call goes on to that.
LEMMA GoBlames ==
    ASSUME NEW h, NEW hd, NEW st, NEW u, NEW n, NEW c, Rest(h, c, hd, st, u, n), IsCall(c),
           NEW kind \in {"verdict", "red", "artifacts", "settle"}, NEW how,
           \/ kind = "settle" \/ (kind = "verdict" /\ how # "failed")
           \/ "kernel" \notin Faults => c.sha \in st.red
    PROVE  Sound(Go(h, c, kind, c.sha, how), hd, st, u, n)
<1> DEFINE d == Gone(c, kind, c.sha, how)
<1>1. d.kind = kind /\ d.sha = c.sha /\ d.how = how
  BY CallGoes
<1> HIDE DEF d
<1>2. Knows(d, h.sha, h.mr, hd, st, u)
  BY <1>1, BlameKnows DEF Blames
<1> QED BY <1>2, GoSound DEF d

\* A record that differs in what it blames, and with reason.
LEMMA BlamesSound ==
    ASSUME NEW h, NEW hd, NEW st, NEW u, NEW n, Sound(h, hd, st, u, n),
           NEW g, DOMAIN g = Fields, g.calls = h.calls, g.sha = h.sha, g.mr = h.mr, g.round = h.round,
           u => g.pipeline # "retry",
           "kernel" \notin Faults => Blamed(g, st.red)
    PROVE  Sound(g, hd, st, u, n)
BY DEF Sound, IsTask

LEMMA VerdictSound ==
    ASSUME NEW h, NEW hd, NEW st, NEW u, NEW n, NEW c, Rest(h, c, hd, st, u, n), IsCall(c), NEW status,
           "kernel" \notin Faults /\ status = "failed" => c.sha \in st.red
    PROVE  Sound(pipelineVerdict(h, c, status), hd, st, u, n)
<1>1. Sound(Go(h, c, "verdict", c.sha, status), hd, st, u, n)
  BY GoBlames
<1> QED BY <1>1, ReturnSound DEF pipelineVerdict

LEMMA RedSound ==
    ASSUME NEW h, NEW hd, NEW st, NEW u, NEW n, Sound(h, hd, st, u, n), NEW c, IsCall(c),
           "kernel" \notin Faults => c.sha \in st.red
    PROVE  Sound(handlePipelineRed(h, c), hd, st, u, n)
<1> DEFINE k == [h EXCEPT !.status = "verifying", !.closed = FALSE]
<1>1. Lean(k, h)
  BY FieldsLean DEF Sound, IsTask, Fields
<1>2. handlePipelineRed(h, c) = Go(k, c, "red", c.sha, None)
  BY DEF handlePipelineRed
<1> HIDE DEF k
<1>3. Sound(k, hd, st, u, n)
  BY <1>1, LeanSound
<1> QED BY <1>2, <1>3, DropRest, GoBlames

LEMMA DispatchSound ==
    ASSUME NEW h, NEW hd, NEW st, NEW u, NEW n, Sound(h, hd, st, u, n), NEW c, IsCall(c),
           "kernel" \notin Faults => c.sha \in st.red
    PROVE  Sound(dispatchCiRepair(h, c), hd, st, u, n)
<1> DEFINE k == [h EXCEPT !.loop = "exhausted", !.pipeline = "failed"]
<1>1. CASE ~Current(h, c.epoch) \/ h.sha # c.sha
  BY <1>1, DropRest, ReturnSound DEF dispatchCiRepair
<1>2. CASE Current(h, c.epoch) /\ h.sha = c.sha
  <2>1. dispatchCiRepair(h, c) \in {Return(k, c), Go(h, c, "artifacts", c.sha, None)}
    BY <1>2 DEF dispatchCiRepair
  <2>2. /\ DOMAIN k = Fields /\ k.calls = h.calls /\ k.sha = h.sha /\ k.mr = h.mr
        /\ k.round = h.round
        /\ k.pipeline = "failed" /\ k.gap = h.gap /\ k.repair = h.repair
        /\ k.view = h.view /\ k.watch = h.watch /\ k.evidence = h.evidence
    BY DEF Sound, IsTask, Fields
  <2> HIDE DEF k
  <2>3. Sound(k, hd, st, u, n)
    <3>1. "kernel" \notin Faults => Blamed(k, st.red)
      BY <1>2, <2>2 DEF Sound, Blamed
    <3> QED BY <2>2, <3>1, BlamesSound
  <2>4. Sound(Go(h, c, "artifacts", c.sha, None), hd, st, u, n)
    BY DropRest, GoBlames
  <2> QED BY <2>1, <2>3, <2>4, DropRest, ReturnSound
<1> QED BY <1>1, <1>2

\* The settling of a merge request says nothing of commits.
LEMMA ApplySound ==
    ASSUME NEW h, NEW hd, NEW st, NEW u, NEW n, Sound(h, hd, st, u, n), NEW c, IsCall(c), NEW state
    PROVE  Sound(applyMergeState(h, c, state), hd, st, u, n)
<1> DEFINE d == [c EXCEPT !.kind = "settle", !.how = state, !.mark = TRUE]
           taken(g) == Add(Drop([g EXCEPT !.controlEpoch = @ + 1, !.stopping = g.driver], c), d)
           m == [h EXCEPT !.status = "verifying", !.stalled = FALSE]
           k == [h EXCEPT !.status = "await_merge", !.loop = "closed", !.closed = TRUE]
           o == [h EXCEPT !.closed = TRUE]
<1>1. Lean(m, h) /\ Lean(k, h) /\ Lean(o, h)
  <2>1. Lean(m, h)
    BY FieldsLean DEF Sound, IsTask, Fields
  <2>2. Lean(k, h)
    BY FieldsLean DEF Sound, IsTask, Fields
  <2>3. Lean(o, h)
    BY FieldsLean DEF Sound, IsTask, Fields
  <2> QED BY <2>1, <2>2, <2>3
<1>2. applyMergeState(h, c, state) \in {taken(m), taken(k), Return(o, c)}
  BY DEF applyMergeState
<1> HIDE DEF m, k, o
<1>3. Sound(m, hd, st, u, n) /\ Sound(k, hd, st, u, n) /\ Sound(o, hd, st, u, n)
  BY <1>1, LeanSound
<1>4. ASSUME NEW g, Sound(g, hd, st, u, n) PROVE Sound(taken(g), hd, st, u, n)
  <2> DEFINE e == [g EXCEPT !.controlEpoch = @ + 1, !.stopping = g.driver]
             f == Drop(e, c)
  <2>1. Lean(e, g)
    BY <1>4, FieldsLean DEF Sound, IsTask, Fields
  <2> HIDE DEF e
  <2>2. Sound(e, hd, st, u, n) /\ IsTask(e)
    BY <1>4, <2>1, LeanSound DEF Lean
  <2>3. Sound(f, hd, st, u, n)
    BY <2>2, DropLean, LeanSound
  <2>4. IsCall(d) /\ d.kind = "settle"
    BY CallSettles
  <2> HIDE DEF d, f
  <2>5. Knows(d, f.sha, f.mr, hd, st, u)
    BY <2>4, BlameKnows DEF Blames
  <2>6. Sound(Add(f, d), hd, st, u, n)
    BY <2>3, <2>4, <2>5, AddSound
  <2> QED BY <2>6 DEF f, e
<1> HIDE DEF taken
<1> QED BY <1>2, <1>3, <1>4, DropRest, ReturnSound

LEMMA SettleSound ==
    ASSUME NEW h, NEW hd, NEW st, NEW u, NEW n, Sound(h, hd, st, u, n), NEW c, IsCall(c), NEW state
    PROVE  Sound(settleMergeState(h, c, state), hd, st, u, n)
<1>1. settleMergeState(h, c, state) \in
         {Go(h, c, "settle", c.sha, state), Return(h, c), applyMergeState(h, c, state)}
  BY DEF settleMergeState
<1>2. Sound(Go(h, c, "settle", c.sha, state), hd, st, u, n)
  BY DropRest, GoBlames
<1> QED BY <1>1, <1>2, DropRest, ReturnSound, ApplySound

-----------------------------------------------------------------------------
\* The stages of a delivery.

\* No other call is a stage of a delivery.
Alone(h, c) == \A d \in h.calls \ {c} : d.kind \notin Stages

LEMMA AloneLean ==
    ASSUME NEW g, NEW h, Lean(g, h), IsTask(h), NEW c, IsCall(c), c.kind # "artifacts",
           Alone(h, c)
    PROVE  Alone(g, c)
<1>1. Lean(Drop(g, c), Drop(h, c))
  BY LeanDrop
<1>2. Drop(g, c).calls = g.calls \ {c} /\ Drop(h, c).calls = h.calls \ {c}
  BY DEF Drop, Lean, IsTask, Fields
<1> QED BY <1>1, <1>2 DEF Alone, Lean, Resembles

\* The fields of a task without a call.
LEMMA DropFields ==
    ASSUME NEW h, DOMAIN h = Fields, NEW c
    PROVE  LET g == Drop(h, c) IN
           /\ DOMAIN g = Fields /\ g.calls = h.calls \ {c}
           /\ g.sha = h.sha /\ g.mr = h.mr /\ g.round = h.round
           /\ g.pipeline = h.pipeline /\ g.gap = h.gap
           /\ g.repair = h.repair /\ g.view = h.view /\ g.watch = h.watch /\ g.evidence = h.evidence
BY DEF Drop, Fields

\* A delivery learns that a commit is on the branch.
LEMMA ReceiptRest ==
    ASSUME NEW h, NEW hd, NEW st, NEW u, NEW n, NEW c, IsCall(c), c.kind # "artifacts",
           Rest(h, c, hd, st, u, n), Alone(h, c),
           NEW sha, sha # None, sha \subseteq hd, h.sha # None => h.sha \subseteq sha
    PROVE  LET g == projectPushReceipt(h, sha) IN
           /\ Rest(g, c, hd, st, u, n) /\ Alone(g, c) /\ g.sha = sha /\ g.mr = h.mr
<1> DEFINE r == NoDeadline(Replaced(h))
           k == [r EXCEPT !.sha = sha, !.pipeline = None, !.gap = None]
<1>1. Lean(Replaced(h), h) /\ Lean(r, h) /\ IsTask(r) /\ IsTask(h)
  <2>1. IsTask(h)
    BY DEF Rest
  <2>2. Lean(Replaced(h), h) /\ IsTask(Replaced(h))
    BY <2>1, ReplacedLean DEF Lean
  <2>3. Lean(r, Replaced(h)) /\ IsTask(r)
    BY <2>2, NoDeadlineLean DEF Lean
  <2> QED BY <2>1, <2>2, <2>3, LeanOn
<1>2. CASE h.sha = sha
  BY <1>1, <1>2, LeanRest, AloneLean DEF projectPushReceipt, Lean
<1>3. CASE h.sha # sha
  <2>1. projectPushReceipt(h, sha) = k
    BY <1>3 DEF projectPushReceipt
  <2>2. /\ Rest(r, c, hd, st, u, n) /\ Alone(r, c)
        /\ r.sha = h.sha /\ r.mr = h.mr
    BY <1>1, LeanRest, AloneLean DEF Lean
  <2> HIDE DEF r
  <2>3. /\ DOMAIN k = Fields /\ k.calls = r.calls /\ k.sha = sha /\ k.mr = r.mr
        /\ k.round = r.round /\ k.pipeline = None /\ k.gap = None
        /\ k.repair = r.repair /\ k.view = r.view /\ k.watch = r.watch /\ k.evidence = r.evidence
    BY <1>1 DEF IsTask, Fields
  <2> HIDE DEF k
  <2> DEFINE x == Drop(k, c)
             y == Drop(r, c)
  <2>4. /\ DOMAIN x = Fields /\ x.calls = r.calls \ {c} /\ x.sha = sha /\ x.mr = r.mr
        /\ x.round = r.round /\ x.pipeline = None /\ x.gap = None
        /\ x.repair = r.repair /\ x.view = r.view /\ x.watch = r.watch /\ x.evidence = r.evidence
    BY <2>3, DropFields
  <2>5. /\ y.calls = r.calls \ {c} /\ y.sha = h.sha /\ y.mr = r.mr /\ y.round = r.round
        /\ y.repair = r.repair /\ y.view = r.view /\ y.watch = r.watch /\ y.evidence = r.evidence
    BY <1>1, <2>2, DropFields DEF IsTask
  <2>6. Sound(y, hd, st, u, n)
    BY <2>2 DEF Rest
  <2> HIDE DEF x, y
  <2>7. \A d \in x.calls : Knows(d, sha, x.mr, hd, st, u)
    <3> TAKE d \in x.calls
    <3>1. d.kind \notin Stages /\ Knows(d, y.sha, y.mr, hd, st, u)
      BY <2>2, <2>4, <2>5, <2>6 DEF Alone, Sound
    <3> QED BY <3>1 DEF Knows, Stages
  <2>8. \A s \in Commit : st.run[s] # "none" => s \subseteq sha
    BY <2>5, <2>6 DEF Sound
  <2>9. "kernel" \notin Faults => Blamed(x, st.red)
    BY <2>4, <2>5, <2>6, NoneAssumption DEF Sound, Blamed
  <2>10. Sound(x, hd, st, u, n)
    <3>1. IsTask(x) /\ x.round = n
      BY <2>4, <2>5, <2>6 DEF Sound, IsTask
    <3>2. None # "retry"
      BY NoneAssumption
    <3> QED BY <2>4, <2>7, <2>8, <2>9, <3>1, <3>2 DEF Sound
  <2>11. IsTask(k) /\ Alone(k, c)
    BY <1>1, <2>2, <2>3 DEF IsTask, Alone
  <2> QED BY <2>1, <2>2, <2>3, <2>10, <2>11 DEF Rest, x
<1> QED BY <1>2, <1>3
\* A poll is set up, or the delivery that it needs.
LEMMA PollRest ==
    ASSUME NEW h, NEW hd, NEW st, NEW u, NEW n, NEW c, IsCall(c),
           c.kind \notin {"artifacts", "check", "sync"}, Rest(h, c, hd, st, u, n), NEW epoch
    PROVE  Rest(pollPipeline(h, epoch), c, hd, st, u, n)
<1> DEFINE polled == [h EXCEPT !.poll = [sha |-> h.sha, epoch |-> epoch]]
           k == [h EXCEPT !.deliveryActive = TRUE,
                   !.status = IF @ \in {"running", "queued"} THEN "verifying" ELSE @,
                   !.loop = IF @ = "repairing" /\ ~h.mr THEN "verifying" ELSE @]
           kind == IF h.mr THEN "check" ELSE "sync"
           d == Call(kind, epoch, "call", {}, h.stalled)
<1>1. IsTask(h)
  BY DEF Rest
<1>2. pollPipeline(h, epoch) \in {h, polled, AfterDelivery(h, epoch, "call"), Add(k, d)}
  BY DEF pollPipeline, tryDeliver, performDelivery
<1>3. Lean(polled, h) /\ Lean(k, h) /\ Lean(AfterDelivery(h, epoch, "call"), h)
  <2>1. Lean(polled, h)
    BY <1>1, FieldsLean DEF IsTask, Fields
  <2>2. Lean(k, h)
    BY <1>1, FieldsLean DEF IsTask, Fields
  <2> QED BY <1>1, <2>1, <2>2, AfterLean
<1>4. IsCall(d) /\ d.kind \in {"check", "sync"} /\ d.owner = "call"
  <2>1. /\ IsCall(d) /\ d.kind = kind /\ d.owner = "call"
    BY CallIs
  <2>2. kind \in {"check", "sync"}
    OBVIOUS
  <2> QED BY <2>1, <2>2
<1> HIDE DEF polled, k, d, kind
<1>5. Rest(polled, c, hd, st, u, n) /\ Rest(k, c, hd, st, u, n)
      /\ Rest(AfterDelivery(h, epoch, "call"), c, hd, st, u, n)
  BY <1>3, LeanRest
<1>6. Rest(Add(k, d), c, hd, st, u, n)
  <2> DEFINE f == Add(k, d)
             x == Drop(f, c)
             y == Drop(k, c)
             z == Add(y, d)
  <2>1. IsTask(f)
    <3>1. DOMAIN f = Fields /\ f.calls = k.calls \cup {d}
      BY <1>3 DEF Lean, IsTask, Fields, Add
    <3> QED BY <1>3, <1>4, <3>1 DEF Lean, IsTask
  <2>2. Sound(y, hd, st, u, n)
    BY <1>5 DEF Rest
  <2>3. ASSUME NEW sha, NEW mr PROVE Knows(d, sha, mr, hd, st, u)
    BY <1>4 DEF Knows, Blames, Stages, Delivering
  <2>4. Sound(z, hd, st, u, n)
    BY <1>4, <2>2, <2>3, AddSound
  <2>5. Lean(x, z)
    <3>1. DOMAIN k = Fields /\ IsTask(z)
      BY <1>3, <2>4 DEF Lean, IsTask, Sound
    <3>2. /\ DOMAIN x = Fields /\ x.calls = (k.calls \cup {d}) \ {c}
          /\ x.sha = k.sha /\ x.mr = k.mr /\ x.round = k.round
          /\ x.pipeline = k.pipeline /\ x.gap = k.gap
          /\ x.repair = k.repair /\ x.view = k.view /\ x.watch = k.watch /\ x.evidence = k.evidence
      BY <3>1 DEF Drop, Add, Fields
    <3>3. /\ z.calls = (k.calls \ {c}) \cup {d}
          /\ z.sha = k.sha /\ z.mr = k.mr /\ z.round = k.round
          /\ z.pipeline = k.pipeline /\ z.gap = k.gap
          /\ z.repair = k.repair /\ z.view = k.view /\ z.watch = k.watch /\ z.evidence = k.evidence
      BY <3>1 DEF Drop, Add, Fields
    <3> HIDE DEF x, z
    <3> QED BY <3>1, <3>2, <3>3, FieldsLean
  <2> HIDE DEF x, z
  <2>6. Sound(x, hd, st, u, n)
    BY <2>4, <2>5, LeanSound
  <2> QED BY <2>1, <2>6 DEF Rest, x
<1> QED BY <1>2, <1>5, <1>6

\* A run is taken over.
LEMMA AcceptSound ==
    ASSUME NEW h, NEW hd, NEW st, NEW u, NEW n, NEW c, IsCall(c),
           c.kind \notin {"artifacts", "check", "sync"}, Rest(h, c, hd, st, u, n),
           c.sha = h.sha, NEW run, run # "retry",
           "kernel" \notin Faults /\ run = "failed" => c.sha \in st.red
    PROVE  Sound(acceptPipelineRun(h, c, run), hd, st, u, n)
<1> DEFINE r == Replaced(h)
           k == [r EXCEPT !.pipeline = run, !.status = "verifying", !.stalled = FALSE,
                          !.gap = None, !.loop = IF h.round = 0 THEN @ ELSE "verifying"]
           g == ensureMergeWatch(k)
<1>1. IsTask(r) /\ Rest(r, c, hd, st, u, n) /\ r.sha = h.sha /\ r.round = h.round
  BY ReplacedLean, LeanRest DEF Rest, Lean
<1>2. \/ acceptPipelineRun(h, c, run) = pipelineVerdict(g, c, run)
      \/ acceptPipelineRun(h, c, run) = Return(pollPipeline(g, c.epoch), c)
  <2>1. r.round = h.round
    BY <1>1
  <2> QED BY DEF acceptPipelineRun
<1> HIDE DEF r
<1>3. /\ DOMAIN k = Fields /\ k.calls = r.calls /\ k.sha = r.sha /\ k.mr = r.mr
      /\ k.round = r.round /\ k.pipeline = run /\ k.gap = None
      /\ k.repair = r.repair /\ k.view = r.view /\ k.watch = r.watch /\ k.evidence = r.evidence
  BY <1>1 DEF IsTask, Fields
<1> HIDE DEF k
<1>4. Rest(k, c, hd, st, u, n)
  <2> DEFINE x == Drop(k, c)
             y == Drop(r, c)
  <2>1. /\ DOMAIN x = Fields /\ x.calls = y.calls /\ x.sha = y.sha /\ x.mr = y.mr
        /\ x.round = y.round /\ x.pipeline = run /\ x.gap = None
        /\ x.repair = y.repair /\ x.view = y.view /\ x.watch = y.watch /\ x.evidence = y.evidence
        /\ x.sha = h.sha
    <3>1. /\ DOMAIN x = Fields /\ x.calls = k.calls \ {c} /\ x.sha = k.sha /\ x.mr = k.mr
          /\ x.round = k.round /\ x.pipeline = k.pipeline /\ x.gap = k.gap
          /\ x.repair = k.repair /\ x.view = k.view /\ x.watch = k.watch /\ x.evidence = k.evidence
      BY <1>3, DropFields
    <3>2. /\ y.calls = r.calls \ {c} /\ y.sha = r.sha /\ y.mr = r.mr
          /\ y.round = r.round /\ y.repair = r.repair /\ y.view = r.view /\ y.watch = r.watch
          /\ y.evidence = r.evidence
      BY <1>1, DropFields DEF IsTask
    <3> QED BY <1>1, <1>3, <3>1, <3>2
  <2>2. Sound(y, hd, st, u, n)
    BY <1>1 DEF Rest
  <2> HIDE DEF x, y
  <2>3. "kernel" \notin Faults => Blamed(x, st.red)
    BY <2>1, <2>2 DEF Sound, Blamed
  <2>4. Sound(x, hd, st, u, n)
    BY <2>1, <2>2, <2>3, BlamesSound
  <2>5. IsTask(k)
    BY <1>1, <1>3 DEF IsTask
  <2> QED BY <2>4, <2>5 DEF Rest, x
<1>5. Rest(g, c, hd, st, u, n)
  <2>1. Lean(g, k)
    BY <1>4, WatchedLean DEF Rest
  <2> QED BY <1>4, <2>1, LeanRest
<1> HIDE DEF g
<1>6. Sound(pipelineVerdict(g, c, run), hd, st, u, n)
  BY <1>5, VerdictSound
<1>7. Sound(Return(pollPipeline(g, c.epoch), c), hd, st, u, n)
  BY <1>5, PollRest, ReturnSound
<1> QED BY <1>2, <1>6, <1>7

\* The commit is on the branch.
LEMMA PushedSound ==
    ASSUME NEW h, NEW hd, NEW st, NEW u, NEW n, NEW c, IsCall(c),
           c.kind \notin {"artifacts", "check"}, c.owner \in Delivering,
           Rest(h, c, hd, st, u, n), Alone(h, c),
           c.sha # None, c.sha \subseteq hd, h.sha # None => h.sha \subseteq c.sha,
           NEW existing \in BOOLEAN,
           existing => h.sha = c.sha, ~existing => st.run[c.sha] = "none"
    PROVE  Sound(Pushed(h, c, existing), hd, st, u, n)
<1> DEFINE g == projectPushReceipt(h, c.sha)
           k == [g EXCEPT !.status = "verifying"]
           was == IF existing /\ h.mr THEN h.pipeline ELSE None
           how == IF existing /\ h.pipeline # "retry" THEN "ask" ELSE "trigger"
<1>1. Rest(g, c, hd, st, u, n) /\ Alone(g, c) /\ g.sha = c.sha /\ g.mr = h.mr
  BY ReceiptRest
<1>2. \/ Pushed(h, c, existing) = Return(g, c)
      \/ was \in {"success", "failed"} /\ Pushed(h, c, existing) = pipelineVerdict(k, c, was)
      \/ /\ was \in {"running", "not_found", "unavailable"}
         /\ Pushed(h, c, existing) = Return(pollPipeline(k, c.epoch), c)
      \/ Pushed(h, c, existing) = Go(g, c, "create", c.sha, how)
  BY DEF Pushed
<1> HIDE DEF g
<1>3. Lean(k, g) /\ Rest(k, c, hd, st, u, n)
  <2>1. Lean(k, g)
    BY <1>1, StatusLean DEF Rest
  <2> QED BY <1>1, <2>1, LeanRest
<1>4. k.mr = h.mr
  BY <1>1, <1>3 DEF Lean
<1> HIDE DEF k
<1>5. ASSUME was \in {"success", "failed"}
      PROVE  Sound(pipelineVerdict(k, c, was), hd, st, u, n)
  <2>1. existing /\ h.pipeline = was
    BY <1>5, NoneAssumption
  <2>2. DOMAIN h = Fields /\ Sound(Drop(h, c), hd, st, u, n)
    BY DEF Rest, IsTask
  <2>3. Drop(h, c).pipeline = h.pipeline /\ Drop(h, c).sha = h.sha
    BY <2>2, DropFields
  <2>4. "kernel" \notin Faults /\ was = "failed" => c.sha \in st.red
    BY <2>1, <2>2, <2>3 DEF Sound, Blamed
  <2> HIDE DEF was
  <2> QED BY <1>3, <2>4, VerdictSound
<1>6. ASSUME was \in {"running", "not_found", "unavailable"}
      PROVE  Sound(Return(pollPipeline(k, c.epoch), c), hd, st, u, n)
  <2>1. h.mr
    BY <1>6, NoneAssumption
  <2>2. pollPipeline(k, c.epoch) = [k EXCEPT !.poll = [sha |-> k.sha, epoch |-> c.epoch]]
    BY <1>4, <2>1 DEF pollPipeline
  <2>3. Lean([k EXCEPT !.poll = [sha |-> k.sha, epoch |-> c.epoch]], k)
    BY <1>3, FieldsLean DEF Lean, IsTask, Fields
  <2>4. Rest([k EXCEPT !.poll = [sha |-> k.sha, epoch |-> c.epoch]], c, hd, st, u, n)
    BY <1>3, <2>3, LeanRest
  <2> QED BY <2>2, <2>4, ReturnSound
<1>7. Sound(Go(g, c, "create", c.sha, how), hd, st, u, n)
  <2> DEFINE d == Gone(c, "create", c.sha, how)
  <2>1. d.kind = "create" /\ d.owner = c.owner /\ d.sha = c.sha /\ d.how = how
    BY CallGoes
  <2>2. u /\ how = "trigger" => st.run[c.sha] = "none"
    <3>1. DOMAIN h = Fields /\ Sound(Drop(h, c), hd, st, u, n)
      BY DEF Rest, IsTask
    <3>2. Drop(h, c).pipeline = h.pipeline
      BY <3>1, DropFields
    <3> QED BY <3>1, <3>2 DEF Sound
  <2> HIDE DEF d, how
  <2>3. Knows(d, g.sha, g.mr, hd, st, u)
    BY <1>1, <2>1, <2>2 DEF Knows, Blames, Stages
  <2> QED BY <1>1, <2>3, GoSound DEF d
<1> HIDE DEF was, how
<1>8. Sound(Return(g, c), hd, st, u, n)
  BY <1>1, ReturnSound
<1> QED BY <1>2, <1>5, <1>6, <1>7, <1>8

-----------------------------------------------------------------------------
\* The answers to the calls of a delivery leave the task sound.

\* A task of the present working tree and platform, in this round.
Told(h) == Sound(h, head, site, Unasked, host.round)

\* It is, apart from c.
Untold(h, c) == Rest(h, c, head, site, Unasked, host.round)

LEMMA InformedCall ==
    ASSUME Inv, Informed, NEW c \in host.calls
    PROVE  /\ Told(host) /\ Untold(host, c) /\ IsCall(c) /\ IsTask(host)
           /\ Knows(c, host.sha, host.mr, head, site, Unasked)
<1>1. Told(host)
  BY DEF Informed, Told
<1>2. Untold(host, c)
  BY <1>1, DropRest DEF Told, Untold
<1> QED BY <1>1, <1>2 DEF Told, Sound, IsTask

LEMMA StageCall ==
    ASSUME Inv, Informed, NEW c \in host.calls, c.kind \in Stages
    PROVE  Alone(host, c) /\ c.owner \in Delivering
<1>1. \A d \in host.calls : d.kind \in Stages => d.owner \in Delivering
  BY DEF Informed, Sound, Knows
<1>2. OneDelivery(host)
  BY DEF Inv, Keeps
<1> QED BY <1>1, <1>2 DEF Alone, OneDelivery

\* The branch grows, of others or of this task, and so may the working tree.
LEMMA HeadRest ==
    ASSUME NEW h, NEW hd, NEW st, NEW u, NEW n, NEW c, Rest(h, c, hd, st, u, n),
           Alone(h, c), NEW hx, hd \subseteq hx
    PROVE  Rest(h, c, hx, st, u, n)
<1> DEFINE g == Drop(h, c)
<1>1. Sound(g, hd, st, u, n) /\ g.calls = h.calls \ {c}
  BY DropFields DEF Rest, IsTask
<1> HIDE DEF g
<1>2. \A d \in g.calls : Knows(d, g.sha, g.mr, hx, st, u)
  BY <1>1 DEF Sound, Knows, Alone, Stages
<1> QED BY <1>1, <1>2 DEF Rest, Sound, g

\* The platform takes a request of this task.
LEMMA SiteRest ==
    ASSUME NEW h, NEW hd, NEW st, NEW u, NEW n, NEW c, Rest(h, c, hd, st, u, n),
           Alone(h, c), NEW sx, sx.red = st.red,
           \A s \in Commit : sx.run[s] # "none" => h.sha # None /\ s \subseteq h.sha
    PROVE  Rest(h, c, hd, sx, u, n)
<1> DEFINE g == Drop(h, c)
<1>1. Sound(g, hd, st, u, n) /\ g.calls = h.calls \ {c} /\ g.sha = h.sha
  BY DropFields DEF Rest, IsTask
<1> HIDE DEF g
<1>2. \A d \in g.calls : Knows(d, g.sha, g.mr, hd, sx, u)
  BY <1>1 DEF Sound, Knows, Alone, Stages
<1> QED BY <1>1, <1>2 DEF Rest, Sound, g

LEMMA FailedSound ==
    ASSUME NEW h, NEW hd, NEW st, NEW u, NEW n, NEW c, IsCall(c), c.kind # "artifacts",
           Rest(h, c, hd, st, u, n), NEW g \in Failed(h, c)
    PROVE  Sound(g, hd, st, u, n)
<1> DEFINE w == holdWithRecovery(h, c.epoch)
           s == markVerificationStalled(h)
<1>1. g \in {Return(h, c), Return(w, c), Return(s, c)}
  BY DEF Failed
<1>2. Lean(w, h) /\ Lean(s, h)
  BY HeldLean, StalledLean DEF Rest
<1> HIDE DEF w, s
<1>3. Rest(w, c, hd, st, u, n) /\ Rest(s, c, hd, st, u, n)
  BY <1>2, LeanRest
<1> QED BY <1>1, <1>3, ReturnSound

\* The merge request is known and watched.
LEMMA RequestRest ==
    ASSUME NEW h, NEW hd, NEW st, NEW u, NEW n, NEW c, IsCall(c), c.kind # "artifacts",
           Rest(h, c, hd, st, u, n), Alone(h, c)
    PROVE  LET g == ensureMergeWatch([Replaced(h) EXCEPT !.mr = TRUE]) IN
           Rest(g, c, hd, st, u, n) /\ Alone(g, c) /\ g.sha = h.sha
<1> DEFINE r == Replaced(h)
           k == [r EXCEPT !.mr = TRUE]
           g == ensureMergeWatch(k)
<1>1. /\ Lean(r, h) /\ IsTask(r) /\ Rest(r, c, hd, st, u, n) /\ Alone(r, c)
      /\ r.sha = h.sha
  BY ReplacedLean, LeanRest, AloneLean DEF Rest, Lean
<1> HIDE DEF r
<1>2. /\ DOMAIN k = Fields /\ k.calls = r.calls /\ k.sha = r.sha /\ k.mr = TRUE
      /\ k.round = r.round /\ k.pipeline = r.pipeline /\ k.gap = r.gap
      /\ k.repair = r.repair /\ k.view = r.view /\ k.watch = r.watch /\ k.evidence = r.evidence
  BY <1>1 DEF IsTask, Fields
<1> HIDE DEF k
<1> DEFINE x == Drop(k, c)
           y == Drop(r, c)
<1>3. /\ DOMAIN x = Fields /\ x.calls = k.calls \ {c} /\ x.sha = k.sha /\ x.mr = k.mr
      /\ x.round = k.round /\ x.pipeline = k.pipeline /\ x.gap = k.gap
      /\ x.repair = k.repair /\ x.view = k.view /\ x.watch = k.watch /\ x.evidence = k.evidence
  BY <1>2, DropFields
<1>4. /\ y.calls = r.calls \ {c} /\ y.sha = r.sha /\ y.mr = r.mr
      /\ y.round = r.round /\ y.pipeline = r.pipeline /\ y.gap = r.gap
      /\ y.repair = r.repair /\ y.view = r.view /\ y.watch = r.watch /\ y.evidence = r.evidence
  BY <1>1, DropFields DEF IsTask
<1>5. Sound(y, hd, st, u, n)
  BY <1>1 DEF Rest
<1> HIDE DEF x, y
<1>6. \A d \in x.calls : Knows(d, x.sha, x.mr, hd, st, u)
  <2> TAKE d \in x.calls
  <2>1. d.kind \notin Stages /\ Knows(d, y.sha, y.mr, hd, st, u)
    BY <1>1, <1>2, <1>3, <1>4, <1>5 DEF Alone, Sound
  <2> QED BY <2>1 DEF Knows, Stages
<1>7. Sound(x, hd, st, u, n)
  <2>1. IsTask(x) /\ x.round = n
    BY <1>2, <1>3, <1>4, <1>5 DEF Sound, IsTask
  <2> QED BY <1>2, <1>3, <1>4, <1>5, <1>6, <2>1 DEF Sound, Blamed
<1>8. IsTask(k) /\ Rest(k, c, hd, st, u, n) /\ Alone(k, c)
  BY <1>1, <1>2, <1>7 DEF Rest, IsTask, Alone, x
<1>9. Lean(g, k)
  BY <1>8, WatchedLean
<1> HIDE DEF g
<1>10. Rest(g, c, hd, st, u, n) /\ Alone(g, c) /\ g.sha = k.sha
  BY <1>8, <1>9, LeanRest, AloneLean DEF Lean
<1> QED BY <1>1, <1>2, <1>10 DEF g, k, r

\* A delivery looks for the merge request.  What is on the branch was on its way.
LEMMA ReconciledRest ==
    ASSUME Inv, Informed, NEW c \in host.calls, c.kind \in Stages
    PROVE  LET g == Reconciled IN
           /\ Untold(g, c) /\ Alone(g, c)
           /\ g.sha = (IF site.branch = head THEN head ELSE host.sha)
<1> DEFINE k == ensureMergeWatch([Replaced(host) EXCEPT !.mr = TRUE])
           seen == IF host.mr \/ site.mr = "opened" THEN k ELSE host
           g == projectPushReceipt(seen, head)
<1>1. /\ Untold(host, c) /\ Alone(host, c) /\ IsCall(c) /\ c.kind # "artifacts"
      /\ head # None /\ (host.sha # None => host.sha \subseteq head)
  <2>1. head # None
    BY NoCommit DEF Inv
  <2>2. host.sha # None => host.sha \subseteq head
    BY DEF Informed, Sound
  <2> QED BY <2>1, <2>2, InformedCall, StageCall DEF Stages
<1>2. Untold(k, c) /\ Alone(k, c) /\ k.sha = host.sha
  BY <1>1, RequestRest DEF Untold
<1>3. Reconciled = IF site.branch = head THEN g ELSE seen
  BY DEF Reconciled
<1> HIDE DEF k
<1>4. Untold(seen, c) /\ Alone(seen, c) /\ seen.sha = host.sha
  BY <1>1, <1>2
<1> HIDE DEF seen
<1>5. Untold(g, c) /\ Alone(g, c) /\ g.sha = head
  BY <1>1, <1>4, ReceiptRest DEF Untold
<1> HIDE DEF g
<1> QED BY <1>3, <1>4, <1>5

LEMMA ReturnTold ==
    ASSUME NEW h, NEW c, Untold(h, c)
    PROVE  Told(Return(h, c))
BY ReturnSound DEF Told, Untold

LEMMA CheckTold ==
    ASSUME Inv, Informed, NEW c \in host.calls, c.kind \in Stages, CheckEnds(c)
    PROVE  Told(host')
<1>1. Told(host) /\ Untold(host, c) /\ IsCall(c) /\ c.kind # "artifacts"
  BY InformedCall DEF Stages
<1>2. Told(Return(host, c))
  BY <1>1, ReturnTold
<1>3. Told(settleMergeState(host, c, site.mr))
  BY <1>1, SettleSound DEF Told
<1>4. \A g \in Failed(host, c) : Told(g)
  BY <1>1, FailedSound DEF Told, Untold
<1> QED BY <1>2, <1>3, <1>4 DEF CheckEnds

LEMMA ChecksTold ==
    ASSUME Inv, Informed, NEW c \in host.calls, DeliverChecks(c)
    PROVE  Told(host')
<1>1. c.kind = "check" /\ c.kind \in Stages /\ IsCall(c)
  BY InformedCall DEF DeliverChecks, Stages
<1>2. CASE CheckEnds(c)
  BY <1>1, <1>2, CheckTold
<1>3. CASE ~CheckEnds(c)
  <2> DEFINE h == Reconciled
             k == enterRepairVerification(h)
             d == Gone(c, "sync", {}, h.stalled)
  <2>1. host' = Go(k, c, "sync", {}, h.stalled)
    BY <1>3 DEF DeliverChecks
  <2>2. Untold(h, c)
    BY <1>1, ReconciledRest
  <2> HIDE DEF h
  <2>3. Lean(k, h)
    BY <2>2, FieldsLean DEF Untold, Rest, enterRepairVerification, IsTask, Fields
  <2> HIDE DEF k
  <2>4. Untold(k, c)
    BY <1>1, <2>2, <2>3, LeanRest DEF Untold
  <2>5. d.kind = "sync" /\ d.owner = c.owner
    BY <1>1, CallGoes
  <2>6. c.owner \in Delivering
    BY <1>1, StageCall
  <2> HIDE DEF d
  <2>7. Knows(d, k.sha, k.mr, head, site, Unasked)
    BY <2>5, <2>6 DEF Knows, Blames, Stages
  <2> QED BY <1>1, <2>1, <2>4, <2>7, GoSound DEF Told, Untold, d
<1> QED BY <1>2, <1>3

LEMMA ConfirmsTold ==
    ASSUME Inv, Informed, NEW c \in host.calls, DeliverConfirms(c)
    PROVE  Told(host')
<1>1. /\ c.kind = "confirm" /\ c.kind \in Stages /\ IsCall(c) /\ c.owner \in Delivering
      /\ Knows(c, host.sha, host.mr, head, site, Unasked) /\ c.sha # None
  <2>1. c.kind = "confirm" /\ c.kind \in Stages
    BY DEF DeliverConfirms, Stages
  <2>2. c.sha # None
    BY <2>1 DEF Inv, Keeps, Pushes
  <2> QED BY <2>1, <2>2, InformedCall, StageCall
<1>2. CASE CheckEnds(c)
  BY <1>1, <1>2, CheckTold
<1>3. CASE ~CheckEnds(c)
  <2> DEFINE h == Reconciled
             d == Gone(c, "push", c.sha, None)
  <2>1. \/ ~host.mr /\ h.sha = c.sha /\ host' = Pushed(h, c, TRUE)
        \/ ~(~host.mr /\ h.sha = c.sha) /\ host' = Go(h, c, "push", c.sha, None)
    BY <1>3 DEF DeliverConfirms
  <2>2. /\ Untold(h, c) /\ Alone(h, c)
        /\ h.sha = (IF site.branch = head THEN head ELSE host.sha)
    BY <1>1, ReconciledRest
  <2> HIDE DEF h
  <2>3. /\ c.sha \subseteq head /\ (head \ c.sha) \cap site.branch = {}
        /\ host.sha # None => host.sha \subseteq c.sha
        /\ site.run[c.sha] = "none" \/ (~host.mr /\ host.sha = c.sha)
    BY <1>1 DEF Knows
  <2>4. site.branch = head => head = c.sha
    BY <2>3
  <2>5. h.sha # None => h.sha \subseteq c.sha
    BY <2>2, <2>3, <2>4
  <2>6. CASE ~host.mr /\ h.sha = c.sha
    <3>1. Told(Pushed(h, c, TRUE))
      BY <1>1, <2>2, <2>3, <2>5, <2>6, PushedSound DEF Told, Untold
    <3> QED BY <2>1, <2>6, <3>1
  <2>7. CASE ~(~host.mr /\ h.sha = c.sha)
    <3>1. d.kind = "push" /\ d.owner = c.owner /\ d.sha = c.sha
      BY <1>1, CallGoes
    <3>2. site.run[c.sha] = "none"
      BY <2>2, <2>3, <2>4, <2>7
    <3> HIDE DEF d
    <3>3. Knows(d, h.sha, h.mr, head, site, Unasked)
      BY <1>1, <2>3, <2>5, <3>1, <3>2 DEF Knows, Blames, Stages
    <3> QED BY <1>1, <2>1, <2>2, <2>7, <3>3, GoSound DEF Told, Untold, d
  <2> QED BY <2>6, <2>7
<1> QED BY <1>2, <1>3

LEMMA PushesTold ==
    ASSUME Inv, Informed, NEW c \in host.calls, DeliverPushes(c)
    PROVE  Told(host')
<1>1. /\ c.kind = "push" /\ IsCall(c) /\ c.owner \in Delivering
      /\ Untold(host, c) /\ Alone(host, c)
      /\ Knows(c, host.sha, host.mr, head, site, Unasked) /\ c.sha # None
  <2>1. c.kind = "push" /\ c.kind \in Stages
    BY DEF DeliverPushes, Stages
  <2>2. c.sha # None
    BY <2>1 DEF Inv, Keeps, Pushes
  <2> QED BY <2>1, <2>2, InformedCall, StageCall
<1>2. Told(Pushed(host, c, FALSE))
  <2>1. /\ c.sha \subseteq head /\ site.run[c.sha] = "none"
        /\ host.sha # None => host.sha \subseteq c.sha
    BY <1>1 DEF Knows
  <2> QED BY <1>1, <2>1, PushedSound DEF Told, Untold
<1>3. Told(Return(host, c))
  BY <1>1, ReturnTold
<1>4. Told(Go(host, c, "sync", {}, host.stalled))
  <2> DEFINE d == Gone(c, "sync", {}, host.stalled)
  <2>1. d.kind = "sync" /\ d.owner = c.owner
    BY <1>1, CallGoes
  <2> HIDE DEF d
  <2>2. Knows(d, host.sha, host.mr, head, site, Unasked)
    BY <1>1, <2>1 DEF Knows, Blames, Stages
  <2> QED BY <1>1, <2>2, GoSound DEF Told, Untold, d
<1>5. \A g \in Failed(host, c) : Told(g)
  BY <1>1, FailedSound DEF Told, Untold
<1> QED BY <1>2, <1>3, <1>4, <1>5 DEF DeliverPushes

LEMMA CreatesTold ==
    ASSUME Inv, Informed, NEW c \in host.calls, DeliverCreates(c)
    PROVE  Told(host')
<1>1. /\ c.kind = "create" /\ IsCall(c) /\ c.owner \in Delivering
      /\ Untold(host, c) /\ Alone(host, c) /\ c.how \in {"ask", "trigger"}
      /\ Knows(c, host.sha, host.mr, head, site, Unasked)
  <2>1. c.kind = "create" /\ c.kind \in Stages
    BY DEF DeliverCreates, Stages
  <2>2. c.how \in {"ask", "trigger"}
    BY <2>1 DEF Inv, Keeps, Pushes, Meant
  <2> QED BY <2>1, <2>2, InformedCall, StageCall
<1>2. Told(Return(host, c))
  BY <1>1, ReturnTold
<1>3. \A g \in Failed(host, c) : Told(g)
  BY <1>1, FailedSound DEF Told, Untold
<1> DEFINE g == ensureMergeWatch([Replaced(host) EXCEPT !.mr = TRUE])
           d == Gone(c, c.how, c.sha, None)
<1>4. Untold(g, c) /\ g.sha = host.sha
  BY <1>1, RequestRest DEF Untold
<1>5. host' = Return(host, c) \/ host' = Go(g, c, c.how, c.sha, None)
        \/ host' \in Failed(host, c)
  BY DEF DeliverCreates
<1> HIDE DEF g
<1>6. Told(Go(g, c, c.how, c.sha, None))
  <2>1. d.kind = c.how /\ d.owner = c.owner /\ d.sha = c.sha
    BY <1>1, CallGoes
  <2> HIDE DEF d
  <2>2. Knows(d, g.sha, g.mr, head, site, Unasked)
    BY <1>1, <1>4, <2>1 DEF Knows, Blames, Stages
  <2> QED BY <1>1, <1>4, <2>2, GoSound DEF Told, Untold, d
<1> QED BY <1>2, <1>3, <1>5, <1>6

\* What is reported of a run.
LEMMA ReportedRed ==
    ASSUME Informed, Inv, NEW s \in Commit, Reported(site.run[s]) = "failed"
    PROVE  s \in site.red
BY DEF Informed, Paid, Reported

LEMMA ReportedNoRetry ==
    ASSUME Inv, NEW s \in Commit
    PROVE  Reported(site.run[s]) # "retry"
BY DEF Inv, Site, Run, Reported

LEMMA AsksTold ==
    ASSUME Inv, Informed, NEW c \in host.calls, DeliverAsks(c)
    PROVE  Told(host')
<1>1. /\ c.kind = "ask" /\ IsCall(c) /\ c.owner \in Delivering /\ Untold(host, c)
      /\ Knows(c, host.sha, host.mr, head, site, Unasked) /\ c.sha \in Commit
  <2>1. c.kind = "ask" /\ c.kind \in Stages
    BY DEF DeliverAsks, Stages
  <2>2. c.sha \in Commit
    BY <2>1 DEF Inv, Keeps, Pushes, Early, Host, CallRecord, MaybeSha
  <2> QED BY <2>1, <2>2, InformedCall, StageCall
<1>2. Told(Return(host, c))
  BY <1>1, ReturnTold
<1>3. \A g \in Failed(host, c) : Told(g)
  BY <1>1, FailedSound DEF Told, Untold
<1>4. ASSUME site.run[c.sha] = "none" PROVE Told(Go(host, c, "trigger", c.sha, None))
  <2> DEFINE d == Gone(c, "trigger", c.sha, None)
  <2>1. d.kind = "trigger" /\ d.owner = c.owner /\ d.sha = c.sha
    BY <1>1, CallGoes
  <2> HIDE DEF d
  <2>2. Knows(d, host.sha, host.mr, head, site, Unasked)
    BY <1>1, <1>4, <2>1 DEF Knows, Blames, Stages
  <2> QED BY <1>1, <2>2, GoSound DEF Told, Untold, d
<1>5. Told(acceptPipelineRun(host, c, Reported(site.run[c.sha])))
  <2>1. c.sha = host.sha
    BY <1>1 DEF Knows
  <2> QED BY <1>1, <2>1, ReportedRed, ReportedNoRetry, AcceptSound DEF Told, Untold
<1> QED BY <1>2, <1>3, <1>4, <1>5 DEF DeliverAsks

LEMMA TriggersTold ==
    ASSUME Inv, Informed, NEW c \in host.calls, DeliverTriggers(c)
    PROVE  Told(host')
<1>1. /\ c.kind = "trigger" /\ IsCall(c) /\ c.owner \in Delivering /\ Untold(host, c)
      /\ Knows(c, host.sha, host.mr, head, site, Unasked) /\ c.sha \in Commit
  <2>1. c.kind = "trigger" /\ c.kind \in Stages
    BY DEF DeliverTriggers, Stages
  <2>2. c.sha \in Commit
    BY <2>1 DEF Inv, Keeps, Pushes, Early, Host, CallRecord, MaybeSha
  <2> QED BY <2>1, <2>2, InformedCall, StageCall
<1>2. Told(Return(host, c))
  BY <1>1, ReturnTold
<1>3. \A g \in Failed(host, c) : Told(g)
  BY <1>1, FailedSound DEF Told, Untold
<1> DEFINE k == NoDeadline(host)
           g == [k EXCEPT !.closed = FALSE]
<1>4. \/ host' = Return(host, c) \/ host' \in Failed(host, c)
      \/ host' = acceptPipelineRun(g, c, Reported(site.run[c.sha]))
  BY DEF DeliverTriggers
<1>5. Lean(g, host)
  <2>1. Lean(k, host) /\ IsTask(k)
    BY <1>1, NoDeadlineLean DEF Untold, Rest, Lean
  <2> HIDE DEF k
  <2>2. Lean(g, k)
    BY <2>1, FieldsLean DEF IsTask, Fields
  <2> QED BY <2>1, <2>2, LeanOn
<1> HIDE DEF g
<1>6. Untold(g, c) /\ g.sha = c.sha
  BY <1>1, <1>5, LeanRest DEF Untold, Lean, Knows
<1>7. Told(acceptPipelineRun(g, c, Reported(site.run[c.sha])))
  BY <1>1, <1>6, ReportedRed, ReportedNoRetry, AcceptSound DEF Told, Untold
<1> QED BY <1>2, <1>3, <1>4, <1>7

\* The branch takes over what others pushed; a commit that has a run is known.
LEMMA SyncsSound ==
    ASSUME Inv, Informed, NEW c \in host.calls, DeliverSyncs(c)
    PROVE  Sound(host', head', site, Unasked, host.round)
<1>1. /\ c.kind = "sync" /\ IsCall(c) /\ c.owner \in Delivering /\ IsTask(host)
      /\ Untold(host, c) /\ Alone(host, c)
      /\ head \in Commit /\ site.branch \in Commit
  <2>1. c.kind = "sync" /\ c.kind \in Stages
    BY DEF DeliverSyncs, Stages
  <2> QED BY <2>1, InformedCall, StageCall DEF Inv, Site
<1>2. /\ host.sha # None => host.sha \subseteq head
      /\ \A s \in Commit : site.run[s] # "none" => host.sha # None /\ s \subseteq host.sha
  BY DEF Informed, Sound
<1>3. head \subseteq head' /\ head' \subseteq head \cup site.branch /\ head' \in Commit
  BY <1>1 DEF DeliverSyncs, Commit
<1>4. Rest(host, c, head', site, Unasked, host.round)
  BY <1>1, <1>3, HeadRest DEF Untold
<1> DEFINE k == enqueueRepair(host)
           b == [c EXCEPT !.sha = head']
           h == Add(Drop(host, c), b)
           d == Gone(c, "confirm", head', host.stalled)
<1>5. \/ host' = Return(host, c) \/ host' = Return(k, c) \/ host' \in Failed(host, c)
      \/ /\ head' = head \cup site.branch /\ host.mr /\ host.sha = head'
         /\ host' = Pushed(h, b, TRUE)
      \/ /\ head' = head \cup site.branch /\ ~(host.mr /\ host.sha = head')
         /\ host' = Go(host, c, "confirm", head', host.stalled)
  BY DEF DeliverSyncs
<1>6. Sound(Return(host, c), head', site, Unasked, host.round)
  BY <1>4, ReturnSound
<1>7. Sound(Return(k, c), head', site, Unasked, host.round)
  <2>1. Lean(k, host)
    BY <1>1, StatusLean DEF enqueueRepair
  <2> HIDE DEF k
  <2>2. Rest(k, c, head', site, Unasked, host.round)
    BY <1>1, <1>4, <2>1, LeanRest
  <2> QED BY <2>2, ReturnSound
<1>8. \A g \in Failed(host, c) : Sound(g, head', site, Unasked, host.round)
  BY <1>1, <1>4, FailedSound
<1>9. ASSUME host.sha = head'
      PROVE  Sound(Pushed(h, b, TRUE), head', site, Unasked, host.round)
  <2>1. /\ IsCall(b) /\ b.kind = c.kind /\ b.owner = c.owner /\ b.sha = head'
    BY <1>1, CallTakes
  <2> HIDE DEF b
  <2> DEFINE f == Drop(host, c)
             x == Drop(h, b)
  <2>2. Sound(f, head', site, Unasked, host.round) /\ f.calls = host.calls \ {c}
    BY <1>1, <1>4, DropFields DEF Rest, IsTask
  <2>3. DOMAIN f = Fields /\ f.sha = host.sha /\ IsTask(f)
    BY <1>1, <2>2, DropFields DEF IsTask, Sound
  <2> HIDE DEF f
  <2>4. /\ IsTask(h) /\ h.calls = f.calls \cup {b} /\ h.sha = host.sha
    <3>1. DOMAIN h = Fields /\ h.calls = f.calls \cup {b} /\ h.sha = f.sha
      BY <2>3 DEF f, Add, Fields
    <3> QED BY <2>1, <2>3, <3>1 DEF IsTask
  <2>5. Lean(x, f)
    <3>1. /\ DOMAIN x = Fields /\ x.calls = (f.calls \cup {b}) \ {b}
          /\ x.sha = f.sha /\ x.mr = f.mr /\ x.round = f.round
          /\ x.pipeline = f.pipeline /\ x.gap = f.gap
          /\ x.repair = f.repair /\ x.view = f.view /\ x.watch = f.watch /\ x.evidence = f.evidence
      BY <2>3 DEF f, Add, Drop, Fields
    <3> HIDE DEF x
    <3> QED BY <2>3, <3>1, FieldsLean
  <2> HIDE DEF h
  <2>6. Rest(h, b, head', site, Unasked, host.round) /\ Alone(h, b)
    <3>1. Sound(x, head', site, Unasked, host.round)
      BY <2>2, <2>5, LeanSound
    <3>2. Alone(h, b)
      BY <1>1, <2>2, <2>4 DEF Alone
    <3> QED BY <2>4, <3>1, <3>2 DEF Rest
  <2>7. b.sha # None
    BY <1>3, <2>1, NoCommit
  <2> QED BY <1>1, <1>9, <2>1, <2>4, <2>6, <2>7, PushedSound
<1>10. ASSUME head' = head \cup site.branch, ~(host.mr /\ host.sha = head')
       PROVE  Sound(Go(host, c, "confirm", head', host.stalled), head', site, Unasked,
                    host.round)
  <2>1. d.kind = "confirm" /\ d.owner = c.owner /\ d.sha = head'
    BY <1>1, CallGoes
  <2> HIDE DEF d
  <2>2. site.run[head'] = "none" \/ (~host.mr /\ host.sha = head')
    BY <1>2, <1>3, <1>10
  <2>3. Knows(d, host.sha, host.mr, head', site, Unasked)
    BY <1>1, <1>2, <1>3, <2>1, <2>2 DEF Knows, Blames, Stages
  <2> QED BY <1>1, <1>4, <2>3, GoSound DEF d
<1> HIDE DEF h, k
<1> QED BY <1>5, <1>6, <1>7, <1>8, <1>9, <1>10

\* A request takes effect: each commit gets its one pipeline.
LEMMA ArrivesSound ==
    ASSUME Inv, Informed, NEW c \in host.calls, Arrives(c)
    PROVE  Sound(host', head, site', Unasked, host.round) /\ Paid(site', Unasked)
<1>1. /\ c.kind \in {"push", "create", "trigger"} /\ ~c.mark
      /\ IsCall(c) /\ c.owner \in Delivering /\ IsTask(host)
      /\ Untold(host, c) /\ Alone(host, c) /\ site \in Site
      /\ Knows(c, host.sha, host.mr, head, site, Unasked)
      /\ c.kind = "trigger" => c.sha \in Commit /\ host.sha \in Commit
  <2>1. c.kind \in {"push", "create", "trigger"} /\ ~c.mark /\ c.kind \in Stages
    BY DEF Arrives, Stages
  <2>2. c.kind = "trigger" => c.sha \in Commit /\ host.sha \in Commit
    BY DEF Inv, Keeps, Pushes, Early, Host, CallRecord, MaybeSha
  <2> QED BY <2>1, <2>2, InformedCall, StageCall DEF Inv
<1>2. /\ \A s \in Commit : site.run[s] # "none" => host.sha # None /\ s \subseteq host.sha
      /\ Paid(site, Unasked)
  BY DEF Informed, Sound
<1> DEFINE d == [c EXCEPT !.mark = TRUE]
           f == Drop(host, c)
<1>3. host' = Add(f, d)
  BY DEF Arrives
<1>4. IsCall(d) /\ d.kind = c.kind /\ d.owner = c.owner /\ d.sha = c.sha /\ d.how = c.how /\ d.mark
  BY <1>1, CallMarked
<1> HIDE DEF d
<1>5. f.sha = host.sha /\ f.mr = host.mr
  BY <1>1, DropFields DEF IsTask
<1> HIDE DEF f
<1>6. CASE c.kind = "push"
  <2>1. /\ site'.run = site.run /\ site'.red = site.red /\ site'.triggers = site.triggers
        /\ site'.branch = c.sha
    BY <1>1, <1>6 DEF Arrives, Site
  <2>2. Paid(site', Unasked)
    BY <1>2, <2>1 DEF Paid
  <2>3. Rest(host, c, head, site', Unasked, host.round)
    BY <1>1, <1>2, <2>1, SiteRest DEF Untold
  <2>4. Knows(d, f.sha, f.mr, head, site', Unasked)
    BY <1>1, <1>4, <1>5, <1>6, <2>1 DEF Knows, Blames, Stages
  <2> QED BY <1>3, <1>4, <2>2, <2>3, <2>4, AddSound DEF Rest, f
<1>7. CASE c.kind = "create"
  <2>1. /\ site'.run = site.run /\ site'.red = site.red /\ site'.triggers = site.triggers
        /\ site'.branch = site.branch
    BY <1>1, <1>7 DEF Arrives, Site
  <2>2. Paid(site', Unasked)
    BY <1>2, <2>1 DEF Paid
  <2>3. Rest(host, c, head, site', Unasked, host.round)
    BY <1>1, <1>2, <2>1, SiteRest DEF Untold
  <2>4. Knows(d, f.sha, f.mr, head, site', Unasked)
    BY <1>1, <1>4, <1>5, <1>7, <2>1 DEF Knows, Blames, Stages
  <2> QED BY <1>3, <1>4, <2>2, <2>3, <2>4, AddSound DEF Rest, f
<1>8. CASE c.kind = "trigger"
  <2>1. /\ site'.red = site.red /\ site'.branch = site.branch
        /\ site'.run = [site.run EXCEPT ![c.sha] = "running"]
        /\ site'.triggers = [site.triggers EXCEPT ![c.sha] = Counted(@)]
    BY <1>1, <1>8 DEF Arrives, Site
  <2>2. /\ c.sha \in Commit /\ c.sha = host.sha /\ host.sha # None
        /\ Unasked => site.run[c.sha] = "none"
    BY <1>1, <1>8, NoCommit DEF Knows, Stages
  <2>3. /\ site'.run[c.sha] = "running" /\ site'.triggers[c.sha] = Counted(site.triggers[c.sha])
        /\ \A s \in Commit : s # c.sha =>
             site'.run[s] = site.run[s] /\ site'.triggers[s] = site.triggers[s]
    BY <1>1, <2>1, <2>2 DEF Site
  <2>4. site.triggers[c.sha] = 0 => Counted(site.triggers[c.sha]) <= 1
    BY BoundsAssumption DEF Counted, Event
  <2>5. Paid(site', Unasked)
    <3> SUFFICES ASSUME NEW s \in Commit
                 PROVE  /\ site'.run[s] \in {"failed", "mixed"} => s \in site'.red
                        /\ Unasked => /\ site'.triggers[s] <= 1
                                      /\ site'.run[s] = "none" => site'.triggers[s] = 0
      BY DEF Paid
    <3>1. CASE s = c.sha
      BY <1>2, <2>2, <2>3, <2>4, <3>1 DEF Paid
    <3>2. CASE s # c.sha
      BY <1>2, <2>1, <2>3, <3>2 DEF Paid
    <3> QED BY <3>1, <3>2
  <2>6. \A s \in Commit : site'.run[s] # "none" => host.sha # None /\ s \subseteq host.sha
    BY <1>2, <2>2, <2>3
  <2>7. Rest(host, c, head, site', Unasked, host.round)
    BY <1>1, <2>1, <2>6, SiteRest DEF Untold
  <2>8. Knows(d, f.sha, f.mr, head, site', Unasked)
    BY <1>1, <1>4, <1>5, <1>8, <2>2 DEF Knows, Blames, Stages
  <2> QED BY <1>3, <1>4, <2>5, <2>7, <2>8, AddSound DEF Rest, f
<1> QED BY <1>1, <1>6, <1>7, <1>8

\* A session begins and ends.
LEMMA LaunchTold ==
    ASSUME Inv, Informed, Launch
    PROVE  Told(host')
<1> DEFINE k == [host EXCEPT !.status = "running", !.driver = host.controlEpoch]
           d == Call("turn", host.controlEpoch, None, {}, None)
<1>1. Told(host) /\ IsTask(host) /\ host' = Add(k, d)
  BY DEF Informed, Told, Sound, Launch
<1>2. Lean(k, host)
  BY <1>1, FieldsLean DEF IsTask, Fields
<1> HIDE DEF k
<1>3. Told(k)
  BY <1>1, <1>2, LeanSound DEF Told
<1>4. IsCall(d) /\ d.kind = "turn"
  BY CallIs
<1> HIDE DEF d
<1>5. Knows(d, k.sha, k.mr, head, site, Unasked)
  BY <1>4, BlameKnows DEF Blames
<1> QED BY <1>1, <1>3, <1>4, <1>5, AddSound DEF Told

LEMMA TurnTold ==
    ASSUME Inv, Informed, NEW c \in host.calls, TurnEnds(c)
    PROVE  Told(host')
<1> DEFINE f == Drop(host, c)
           k == [f EXCEPT !.driver = None]
<1>1. host' = f \/ host' = tryDeliver(k, c.epoch, "turn")
  BY DEF TurnEnds
<1>2. Told(f) /\ IsTask(f)
  BY InformedCall DEF Untold, Told, Rest, Sound
<1> HIDE DEF f
<1>3. Lean(k, f)
  BY <1>2, FieldsLean DEF IsTask, Fields
<1> HIDE DEF k
<1>4. Told(k)
  BY <1>2, <1>3, LeanSound DEF Told
<1>5. Told(tryDeliver(k, c.epoch, "turn"))
  BY <1>4, TrySound DEF Told, Delivering
<1> QED BY <1>1, <1>2, <1>5

\* Retries of evidence are about a stale working tree, where the kernel answers.
LEMMA EvidenceTold ==
    ASSUME NEW h, NEW hd, NEW st, NEW u, NEW n, NEW c, IsCall(c), c.kind # "artifacts",
           Rest(h, c, hd, st, u, n), NEW sha, NEW epoch, NEW stale \in BOOLEAN,
           "kernel" \notin Faults => stale
    PROVE  Rest(schedulePipelineEvidenceRetry(h, sha, epoch, stale), c, hd, st, u, n)
<1> DEFINE r == OpenDeadline(h)
           s == markVerificationStalled(h)
           e == [epoch |-> epoch, sha |-> sha, stale |-> stale]
           k == [r EXCEPT !.evidence = e]
<1>1. schedulePipelineEvidenceRetry(h, sha, epoch, stale) \in {h, s, k}
  BY DEF schedulePipelineEvidenceRetry
<1>2. Lean(r, h) /\ Lean(s, h) /\ IsTask(h) /\ IsTask(r)
  BY OpenDeadlineLean, StalledLean DEF Rest, Lean
<1> HIDE DEF r, s
<1>3. Rest(r, c, hd, st, u, n) /\ Rest(s, c, hd, st, u, n)
  BY <1>2, LeanRest
<1>4. e.stale = stale
  OBVIOUS
<1> HIDE DEF e
<1>5. /\ DOMAIN k = Fields /\ k.calls = r.calls /\ k.sha = r.sha /\ k.mr = r.mr
      /\ k.round = r.round /\ k.pipeline = r.pipeline /\ k.gap = r.gap
      /\ k.repair = r.repair /\ k.view = r.view /\ k.watch = r.watch /\ k.evidence = e
  BY <1>2 DEF IsTask, Fields
<1> HIDE DEF k
<1>6. Rest(k, c, hd, st, u, n)
  <2> DEFINE x == Drop(k, c)
             y == Drop(r, c)
  <2>1. /\ DOMAIN x = Fields /\ x.calls = k.calls \ {c} /\ x.sha = k.sha /\ x.mr = k.mr
        /\ x.round = k.round /\ x.pipeline = k.pipeline /\ x.gap = k.gap
        /\ x.repair = k.repair /\ x.view = k.view /\ x.watch = k.watch /\ x.evidence = k.evidence
    BY <1>5, DropFields
  <2>2. /\ y.calls = r.calls \ {c} /\ y.sha = r.sha /\ y.mr = r.mr
        /\ y.round = r.round /\ y.pipeline = r.pipeline /\ y.gap = r.gap
        /\ y.repair = r.repair /\ y.view = r.view /\ y.watch = r.watch /\ y.evidence = r.evidence
    BY <1>2, DropFields DEF IsTask
  <2>3. Sound(y, hd, st, u, n)
    BY <1>3 DEF Rest
  <2> HIDE DEF x, y
  <2>4. "kernel" \notin Faults => Blamed(x, st.red)
    BY <1>4, <1>5, <2>1, <2>2, <2>3 DEF Sound, Blamed
  <2>5. u => x.pipeline # "retry"
    BY <1>5, <2>1, <2>2, <2>3 DEF Sound
  <2>6. Sound(x, hd, st, u, n)
    BY <1>5, <2>1, <2>2, <2>3, <2>4, <2>5, BlamesSound
  <2> QED BY <1>2, <1>5, <2>6 DEF Rest, IsTask, x
<1> QED BY <1>1, <1>3, <1>6

\* The record says that the result of its commit is red.
LEMMA FailedResult ==
    ASSUME NEW h, NEW hd, NEW st, NEW u, NEW n, Sound(h, hd, st, u, n),
           "kernel" \notin Faults => h.sha \in st.red
    PROVE  Sound([h EXCEPT !.pipeline = "failed"], hd, st, u, n)
<1> DEFINE k == [h EXCEPT !.pipeline = "failed"]
<1>1. /\ DOMAIN k = Fields /\ k.calls = h.calls /\ k.sha = h.sha /\ k.mr = h.mr
      /\ k.round = h.round /\ k.pipeline = "failed" /\ k.gap = h.gap
      /\ k.repair = h.repair /\ k.view = h.view /\ k.watch = h.watch /\ k.evidence = h.evidence
  BY DEF Sound, IsTask, Fields
<1> HIDE DEF k
<1>2. "kernel" \notin Faults => Blamed(k, st.red)
  BY <1>1 DEF Sound, Blamed
<1>3. Sound(k, hd, st, u, n)
  BY <1>1, <1>2, BlamesSound
<1> QED BY <1>3 DEF k

LEMMA GreenTold ==
    ASSUME NEW c, IsCall(c), c.kind # "artifacts", Untold(host, c)
    PROVE  Told(Green(host, c))
<1> DEFINE k == [host EXCEPT !.status = "await_merge", !.closed = FALSE,
                             !.loop = IF @ = None THEN @ ELSE "green"]
           g == ensureMergeWatch(k)
<1>1. Lean(k, host) /\ IsTask(k)
  <2>1. Lean(k, host)
    BY FieldsLean DEF Untold, Rest, IsTask, Fields
  <2> QED BY <2>1 DEF Lean
<1>2. Green(host, c) = Return(g, c)
  BY DEF Green
<1> HIDE DEF k
<1>3. Lean(g, host)
  BY <1>1, WatchedLean, LeanOn
<1> HIDE DEF g
<1>4. Untold(g, c)
  BY <1>3, LeanRest DEF Untold
<1> QED BY <1>2, <1>4, ReturnTold

LEMMA VerdictTold ==
    ASSUME Inv, Informed, NEW c \in host.calls, VerdictAnswers(c)
    PROVE  Told(host')
<1>1. /\ c.kind = "verdict" /\ IsCall(c) /\ IsTask(host) /\ Untold(host, c) /\ Told(host)
      /\ Knows(c, host.sha, host.mr, head, site, Unasked) /\ c.sha \in Commit
  <2>1. c.kind = "verdict"
    BY DEF VerdictAnswers
  <2>2. c.sha \in Commit
    BY <2>1 DEF Inv, Keeps, Pushes, Early, Host, CallRecord, MaybeSha
  <2> QED BY <2>1, <2>2, InformedCall
<1>2. PICK verdict \in Verdicts(c) :
         host' = IF ~Current(host, c.epoch) \/ host.sha # c.sha THEN Return(host, c)
                 ELSE Concluded(host, c, verdict)
  BY DEF VerdictAnswers
<1>3. Told(Return(host, c))
  BY <1>1, ReturnTold
<1>4. ASSUME host.sha = c.sha PROVE Told(Concluded(host, c, verdict))
  <2> DEFINE k == [host EXCEPT !.pipeline = "failed"]
             m == [host EXCEPT !.status = "verifying", !.closed = FALSE]
             stale == verdict = "STALE"
             g == schedulePipelineEvidenceRetry(m, c.sha, c.epoch, stale)
             red == verdict = "RED" \/ (c.how = "failed" /\ verdict # "STALE")
  <2>1. \/ red /\ Concluded(host, c, verdict) = handlePipelineRed(k, c)
        \/ Concluded(host, c, verdict) = Green(host, c)
        \/ /\ ~red /\ ~(verdict = "PASS" /\ c.how # "failed")
           /\ Concluded(host, c, verdict) = Return(g, c)
    BY DEF Concluded
  <2>2. ASSUME red PROVE Told(handlePipelineRed(k, c))
    <3>1. "kernel" \notin Faults => c.sha \in site.red
      <4> SUFFICES ASSUME "kernel" \notin Faults PROVE c.sha \in site.red
        OBVIOUS
      <4>1. c.how = "failed" \/ site.run[c.sha] = "mixed"
        BY <2>2 DEF Verdicts
      <4> QED BY <1>1, <4>1 DEF Knows, Blames, Informed, Paid
    <3>2. Told(k)
      BY <1>1, <1>4, <3>1, FailedResult DEF Told
    <3> HIDE DEF k
    <3> QED BY <1>1, <3>1, <3>2, RedSound DEF Told
  <2>3. Told(Green(host, c))
    BY <1>1, GreenTold
  <2>4. ASSUME ~red, ~(verdict = "PASS" /\ c.how # "failed") PROVE Told(Return(g, c))
    <3>1. stale \in BOOLEAN /\ ("kernel" \notin Faults => stale)
      BY <1>2, <2>4 DEF Verdicts
    <3>2. Lean(m, host)
      BY <1>1, FieldsLean DEF IsTask, Fields
    <3> HIDE DEF m, stale
    <3>3. Untold(m, c)
      BY <1>1, <3>2, LeanRest DEF Untold
    <3>4. Untold(g, c)
      BY <1>1, <3>1, <3>3, EvidenceTold DEF Untold
    <3> HIDE DEF g
    <3> QED BY <3>4, ReturnTold
  <2> HIDE DEF k, g, red
  <2> QED BY <2>1, <2>2, <2>3, <2>4
<1> QED BY <1>2, <1>3, <1>4

LEMMA RedLooksTold ==
    ASSUME Inv, Informed, NEW c \in host.calls, RedLooks(c)
    PROVE  Told(host')
<1>1. /\ c.kind = "red" /\ IsCall(c) /\ Told(host) /\ Untold(host, c)
      /\ Knows(c, host.sha, host.mr, head, site, Unasked)
  BY InformedCall DEF RedLooks
<1>2. "kernel" \notin Faults => c.sha \in site.red
  BY <1>1 DEF Knows, Blames
<1>3. Told(Return(host, c))
  BY <1>1, ReturnTold
<1>4. Told(settleMergeState(host, c, site.mr))
  BY <1>1, SettleSound DEF Told
<1>5. Told(dispatchCiRepair(host, c))
  BY <1>1, <1>2, DispatchSound DEF Told
<1> QED BY <1>3, <1>4, <1>5 DEF RedLooks

\* A round of the budget is spent on a commit that was red.
Spends ==
    /\ host'.round = host.round + 1
    /\ "kernel" \notin Faults => host.sha \in site.red

LEMMA ArtifactsSound ==
    ASSUME Inv, Informed, NEW c \in host.calls, ArtifactsArrive(c)
    PROVE  /\ Sound(host', head, site, Unasked, host'.round)
           /\ host'.round = host.round \/ Spends
<1>1. /\ c.kind = "artifacts" /\ IsCall(c) /\ IsTask(host) /\ Told(host) /\ Untold(host, c)
      /\ Knows(c, host.sha, host.mr, head, site, Unasked)
  BY InformedCall DEF ArtifactsArrive
<1> DEFINE k == [host EXCEPT !.round = @ + 1, !.loop = "repairing",
                    !.max = IF host.loop = None THEN MaxRound ELSE @,
                    !.gap = None, !.pipeline = "failed", !.status = "queued"]
           m == [host EXCEPT !.pipeline = "failed",
                    !.gap = IF @ \in {"late", "waiting_human"}
                            THEN "waiting_human" ELSE "retrying"]
           g == scheduleRepairEvidenceRetry(m, c.sha, c.epoch)
<1>2. \/ host' = Return(host, c)
      \/ host.sha = c.sha /\ host' = Return(k, c)
      \/ host.sha = c.sha /\ host' = Return(g, c)
  BY DEF ArtifactsArrive
<1>3. /\ "kernel" \notin Faults => c.sha \in site.red
      /\ "kernel" \notin Faults => Blamed(host, site.red)
  BY <1>1 DEF Knows, Blames, Told, Sound
<1>4. CASE host' = Return(host, c)
  <2>1. Told(host')
    BY <1>1, <1>4, ReturnTold
  <2> QED BY <2>1 DEF Told, Sound
<1>5. CASE host.sha = c.sha /\ host' = Return(k, c)
  <2>1. /\ DOMAIN k = Fields /\ k.calls = host.calls /\ k.sha = host.sha /\ k.mr = host.mr
        /\ k.round = host.round + 1 /\ k.pipeline = "failed" /\ k.gap = None
        /\ k.repair = host.repair /\ k.view = host.view /\ k.watch = host.watch /\ k.evidence = host.evidence
    BY <1>1 DEF IsTask, Fields
  <2> HIDE DEF k
  <2>2. "kernel" \notin Faults => Blamed(k, site.red)
    BY <1>3, <1>5, <2>1 DEF Blamed
  <2>3. Sound(k, head, site, Unasked, host.round + 1)
    BY <1>1, <2>1, <2>2 DEF Told, Sound, IsTask
  <2>4. Sound(host', head, site, Unasked, host.round + 1)
    BY <1>5, <2>3, DropRest, ReturnSound
  <2>5. host'.round = host.round + 1
    BY <2>4 DEF Sound
  <2> QED BY <1>3, <1>5, <2>4, <2>5 DEF Spends
<1>6. CASE host.sha = c.sha /\ host' = Return(g, c)
  <2>1. /\ DOMAIN m = Fields /\ m.calls = host.calls /\ m.sha = host.sha /\ m.mr = host.mr
        /\ m.round = host.round /\ m.pipeline = "failed"
        /\ m.repair = host.repair /\ m.view = host.view /\ m.watch = host.watch /\ m.evidence = host.evidence
    BY <1>1 DEF IsTask, Fields
  <2> HIDE DEF m
  <2> DEFINE e == [epoch |-> c.epoch, sha |-> c.sha]
             f == [m EXCEPT !.repair = e]
  <2>2. g \in {m, f}
    BY DEF scheduleRepairEvidenceRetry
  <2>3. e.sha = c.sha
    OBVIOUS
  <2> HIDE DEF e, g
  <2>4. /\ DOMAIN g = Fields /\ g.calls = host.calls /\ g.sha = host.sha /\ g.mr = host.mr
        /\ g.round = host.round /\ g.pipeline = "failed"
        /\ g.repair = host.repair \/ g.repair = e
        /\ g.view = host.view /\ g.watch = host.watch /\ g.evidence = host.evidence
    BY <2>1, <2>2 DEF Fields
  <2>5. "kernel" \notin Faults => Blamed(g, site.red)
    BY <1>3, <1>6, <2>3, <2>4 DEF Blamed
  <2>6. Told(g)
    BY <1>1, <2>4, <2>5, BlamesSound DEF Told
  <2>7. Told(host')
    BY <1>6, <2>6, DropRest, ReturnSound DEF Told
  <2> QED BY <2>7 DEF Told, Sound
<1> QED BY <1>2, <1>4, <1>5, <1>6

\* Another result of the same commit, which does not blame it.
LEMMA SeenSound ==
    ASSUME NEW h, NEW hd, NEW st, NEW u, NEW n, Sound(h, hd, st, u, n),
           NEW run, run # "retry",
           "kernel" \notin Faults /\ run = "failed" => h.sha \in st.red
    PROVE  Sound([Replaced(h) EXCEPT !.pipeline = run], hd, st, u, n)
<1> DEFINE r == Replaced(h)
           k == [r EXCEPT !.pipeline = run]
<1>1. Sound(r, hd, st, u, n) /\ r.sha = h.sha
  <2>1. IsTask(h)
    BY DEF Sound
  <2>2. Lean(r, h)
    BY <2>1, ReplacedLean
  <2> HIDE DEF r
  <2> QED BY <2>2, LeanSound DEF Lean
<1> HIDE DEF r
<1>2. /\ DOMAIN k = Fields /\ k.calls = r.calls /\ k.sha = r.sha /\ k.mr = r.mr
      /\ k.round = r.round /\ k.pipeline = run /\ k.gap = r.gap
      /\ k.repair = r.repair /\ k.view = r.view /\ k.watch = r.watch /\ k.evidence = r.evidence
  BY <1>1 DEF Sound, IsTask, Fields
<1> HIDE DEF k
<1>3. "kernel" \notin Faults => Blamed(k, st.red)
  BY <1>1, <1>2 DEF Sound, Blamed
<1>4. Sound(k, hd, st, u, n)
  BY <1>1, <1>2, <1>3, BlamesSound
<1> QED BY <1>4 DEF k, r

\* A refresh happens only where the kernel may fail.
LEMMA RefreshTold ==
    ASSUME Inv, Informed, NEW c \in host.calls, RefreshAnswers(c)
    PROVE  Told(host')
<1>1. /\ c.kind = "refresh" /\ IsCall(c) /\ IsTask(host) /\ Told(host) /\ Untold(host, c)
      /\ Knows(c, host.sha, host.mr, head, site, Unasked) /\ c.sha \in Commit
  <2>1. c.kind = "refresh"
    BY DEF RefreshAnswers
  <2>2. c.sha \in Commit
    BY <2>1 DEF Inv, Keeps, Pushes, Early, Host, CallRecord, MaybeSha
  <2> QED BY <2>1, <2>2, InformedCall
<1>2. "kernel" \in Faults
  BY <1>1 DEF Knows
<1> DEFINE run == Reported(site.run[c.sha])
           k == [Replaced(host) EXCEPT !.pipeline = run]
           f == Drop(k, c)
<1>3. Told(k) /\ run # "retry"
  BY <1>1, <1>2, SeenSound, ReportedNoRetry DEF Told
<1>4. \/ host' = Drop(host, c) \/ host' = pipelineVerdict(host, c, "success")
      \/ host' = pollPipeline(f, c.epoch) \/ host' = pipelineVerdict(k, c, run)
  BY DEF RefreshAnswers
<1> HIDE DEF k, run
<1>5. Told(Drop(host, c))
  BY <1>1 DEF Untold, Rest, Told
<1>6. Untold(k, c)
  BY <1>3, DropRest DEF Told, Untold
<1>7. Told(pipelineVerdict(host, c, "success")) /\ Told(pipelineVerdict(k, c, run))
  BY <1>1, <1>2, <1>6, VerdictSound DEF Told, Untold
<1>8. Told(pollPipeline(f, c.epoch))
  BY <1>6, PollSound DEF Told, Untold, Rest
<1> QED BY <1>4, <1>5, <1>7, <1>8

\* A settlement ends with the task wherever it was.
LEMMA SettleEndsTold ==
    ASSUME Inv, Informed, NEW c \in host.calls, SettleEnds(c)
    PROVE  Told(host')
<1>1. c.kind = "settle" /\ IsCall(c) /\ IsTask(host) /\ Untold(host, c)
  BY InformedCall DEF SettleEnds
<1> DEFINE idle == [host EXCEPT !.stopping = None]
           stopped == [idle EXCEPT !.driver = IF @ = host.stopping THEN None ELSE @]
           o == NoDeadline(stopped)
           done == [o EXCEPT !.status = "completed", !.stalled = FALSE,
                             !.loop = IF @ = None THEN @ ELSE "merged"]
           halted == [idle EXCEPT !.status = "failed", !.loop = "halted"]
           a == markVerificationStalled(stopped)
           b == markVerificationStalled(idle)
<1>2. \E g \in {done, a, b, stopped, idle, halted} : host' = Return(g, c)
  BY DEF SettleEnds
<1>3. Lean(idle, host) /\ IsTask(idle)
  <2>1. Lean(idle, host)
    BY <1>1, FieldsLean DEF IsTask, Fields
  <2> QED BY <2>1 DEF Lean
<1> HIDE DEF idle
<1>4. Lean(stopped, host) /\ IsTask(stopped) /\ Lean(halted, host)
  <2>1. Lean(stopped, idle)
    BY <1>3, FieldsLean DEF IsTask, Fields
  <2>2. Lean(halted, idle)
    BY <1>3, FieldsLean DEF IsTask, Fields
  <2> HIDE DEF stopped, halted
  <2> QED BY <1>3, <2>1, <2>2, LeanOn DEF Lean
<1> HIDE DEF stopped, halted
<1>5. Lean(o, host) /\ IsTask(o) /\ Lean(a, host) /\ Lean(b, host)
  <2>1. Lean(o, stopped) /\ IsTask(o) /\ Lean(a, stopped) /\ Lean(b, idle)
    BY <1>3, <1>4, NoDeadlineLean, StalledLean DEF Lean
  <2> HIDE DEF o, a, b
  <2> QED BY <1>3, <1>4, <2>1, LeanOn
<1> HIDE DEF o, a, b
<1>6. Lean(done, host)
  <2>1. Lean(done, o)
    BY <1>5, FieldsLean DEF IsTask, Fields
  <2> HIDE DEF done
  <2> QED BY <1>5, <2>1, LeanOn
<1> HIDE DEF done
<1>7. \A g \in {done, a, b, stopped, idle, halted} : Untold(g, c)
  BY <1>1, <1>3, <1>4, <1>5, <1>6, LeanRest DEF Untold
<1> QED BY <1>2, <1>7, ReturnTold

LEMMA SettleBeginsTold ==
    ASSUME Inv, Informed, NEW c \in host.calls, SettleBegins(c)
    PROVE  Told(host')
<1>1. Told(host) /\ Untold(host, c) /\ IsCall(c)
  BY InformedCall
<1>2. Told(Return(host, c)) /\ Told(applyMergeState(host, c, c.how))
  BY <1>1, ReturnTold, ApplySound DEF Told
<1> QED BY <1>2 DEF SettleBegins

\* The poll and the timers.

LEMMA LeanTold ==
    ASSUME NEW g, NEW h, Told(h), Lean(g, h)
    PROVE  Told(g) /\ IsTask(g)
BY LeanSound DEF Told, Lean

LEMMA HostTold ==
    ASSUME Informed
    PROVE  Told(host) /\ IsTask(host)
BY DEF Informed, Told, Sound

LEMMA PollEndsTold ==
    ASSUME Inv, Informed, PollEnds
    PROVE  Told(host')
<1>1. Lean([host EXCEPT !.poll = None], host)
  BY HostTold, FieldsLean DEF IsTask, Fields
<1> QED BY <1>1, HostTold, LeanTold DEF PollEnds

LEMMA WaitingLean ==
    ASSUME NEW h, IsTask(h)
    PROVE  Lean(waitingForRun(h), h)
<1> DEFINE s == markVerificationStalled(h)
           k == [s EXCEPT !.poll = None]
<1>1. waitingForRun(h) \in {k, OpenDeadline(h)}
  BY DEF waitingForRun
<1>2. Lean(s, h) /\ IsTask(s)
  BY StalledLean DEF Lean
<1> HIDE DEF s
<1>3. Lean(k, s)
  BY <1>2, FieldsLean DEF IsTask, Fields
<1> HIDE DEF k
<1> QED BY <1>1, <1>2, <1>3, LeanOn, OpenDeadlineLean

LEMMA PollAnswersTold ==
    ASSUME Inv, Informed, PollAnswers
    PROVE  Told(host')
<1>1. host.poll # None /\ host.sha = host.poll.sha /\ host.poll.sha \in Commit
  BY DEF PollAnswers, PollCurrent, Inv, Keeps, Host, Poll
<1> DEFINE sha == host.poll.sha
           run == Reported(site.run[sha])
           seen(status) == [Replaced(host) EXCEPT !.pipeline = status]
           c == Call("verdict", host.poll.epoch, "poll", sha, run)
           k == NoDeadline(seen(run))
<1>2. \/ host' = waitingForRun(seen("not_found")) \/ host' = k
      \/ host' = Add(k, c) \/ host' = waitingForRun(seen("unavailable"))
  BY DEF PollAnswers
<1>3. run # "retry" /\ (run = "failed" => sha \in site.red)
  BY <1>1, ReportedRed, ReportedNoRetry
<1>4. IsCall(c) /\ c.kind = "verdict" /\ c.sha = sha /\ c.how = run
  BY CallIs
<1> HIDE DEF c, run
<1>5. \A status : status # "retry" /\ (status = "failed" => sha \in site.red) => Told(seen(status))
  BY <1>1, HostTold, SeenSound DEF Told
<1>6. Told(seen(run)) /\ Told(seen("not_found")) /\ Told(seen("unavailable"))
  BY <1>3, <1>5
<1> HIDE DEF seen
<1>7. Told(waitingForRun(seen("not_found"))) /\ Told(waitingForRun(seen("unavailable")))
  BY <1>6, WaitingLean, LeanTold DEF Told, Sound
<1>8. Told(k)
  BY <1>6, NoDeadlineLean, LeanTold DEF Told, Sound
<1> HIDE DEF k
<1>9. Told(Add(k, c))
  <2>1. Knows(c, k.sha, k.mr, head, site, Unasked)
    BY <1>3, <1>4, BlameKnows DEF Blames
  <2> QED BY <1>4, <1>8, <2>1, AddSound DEF Told
<1> QED BY <1>2, <1>7, <1>8, <1>9

LEMMA RecoveryTold ==
    ASSUME Inv, Informed, RecoveryFires
    PROVE  Told(host')
<1> DEFINE h == [host EXCEPT !.recovery = None]
           s == markVerificationStalled(h)
           o == OpenDeadline(h)
           epoch == host.recovery
<1>1. host' = h \/ host' = s \/ host' = tryDeliver(o, epoch, "recovery")
  BY DEF RecoveryFires
<1>2. Told(h) /\ IsTask(h)
  <2>1. Lean(h, host)
    BY HostTold, FieldsLean DEF IsTask, Fields
  <2> QED BY <2>1, HostTold, LeanTold
<1> HIDE DEF h
<1>3. Told(s) /\ Told(o)
  BY <1>2, StalledLean, OpenDeadlineLean, LeanTold
<1> HIDE DEF s, o, epoch
<1>4. Told(tryDeliver(o, epoch, "recovery"))
  BY <1>3, TrySound DEF Told, Delivering
<1> QED BY <1>1, <1>2, <1>3, <1>4

LEMMA LimitTold ==
    ASSUME Inv, Informed, LimitFires
    PROVE  Told(host')
<1> DEFINE h == [host EXCEPT !.limit = None]
           s == markVerificationStalled(h)
<1>1. host' = h \/ host' = s
  BY DEF LimitFires
<1>2. Told(h) /\ IsTask(h)
  <2>1. Lean(h, host)
    BY HostTold, FieldsLean DEF IsTask, Fields
  <2> QED BY <2>1, HostTold, LeanTold
<1> HIDE DEF h
<1>3. Told(s)
  BY <1>2, StalledLean, LeanTold
<1> QED BY <1>1, <1>2, <1>3

\* One blame less.
LEMMA SilentSound ==
    ASSUME NEW h, NEW hd, NEW st, NEW u, NEW n, Sound(h, hd, st, u, n),
           NEW g, DOMAIN g = Fields, g.calls = h.calls, g.sha = h.sha, g.mr = h.mr,
           g.round = h.round, g.pipeline = h.pipeline, g.gap = h.gap,
           g.repair \in {h.repair, None}, g.view \in {h.view, None},
           g.evidence \in {h.evidence, None},
           (g.watch = h.watch /\ g.view = h.view) \/ g.watch # "act"
    PROVE  Sound(g, hd, st, u, n)
<1>1. "kernel" \notin Faults => Blamed(g, st.red)
  BY DEF Sound, Blamed
<1>2. u => g.pipeline # "retry"
  BY DEF Sound
<1> QED BY <1>1, <1>2, BlamesSound

LEMMA EvidenceFiresTold ==
    ASSUME Inv, Informed, EvidenceFires
    PROVE  Told(host')
<1> DEFINE e == host.evidence
           h == [host EXCEPT !.evidence = None]
           d == Call("refresh", e.epoch, None, e.sha, None)
<1>1. \/ host' = h \/ host' = tryDeliver(h, e.epoch, "call")
      \/ ~e.stale /\ host' = Add(h, d)
  BY DEF EvidenceFires
<1>2. e # None
  BY DEF EvidenceFires
<1>3. Told(h)
  <2>1. /\ DOMAIN h = Fields /\ h.calls = host.calls /\ h.sha = host.sha /\ h.mr = host.mr
        /\ h.round = host.round /\ h.pipeline = host.pipeline /\ h.gap = host.gap
        /\ h.repair = host.repair /\ h.view = host.view /\ h.watch = host.watch /\ h.evidence = None
    BY HostTold DEF IsTask, Fields
  <2> HIDE DEF h
  <2> QED BY <2>1, HostTold, SilentSound DEF Told
<1> HIDE DEF h
<1>4. Told(tryDeliver(h, e.epoch, "call"))
  BY <1>3, TrySound DEF Told, Delivering
<1>5. ASSUME ~e.stale PROVE Told(Add(h, d))
  <2>1. "kernel" \in Faults
    BY <1>2, <1>5 DEF Informed, Sound, Blamed
  <2>2. IsCall(d) /\ d.kind = "refresh"
    BY CallIs
  <2> HIDE DEF d
  <2>3. Knows(d, h.sha, h.mr, head, site, Unasked)
    BY <2>1, <2>2 DEF Knows, Stages
  <2> QED BY <1>3, <2>2, <2>3, AddSound DEF Told
<1> QED BY <1>1, <1>3, <1>4, <1>5

LEMMA RepairFiresTold ==
    ASSUME Inv, Informed, RepairFires
    PROVE  Told(host')
<1> DEFINE e == host.repair
           h == [host EXCEPT !.repair = None]
           d == Call("red", e.epoch, None, e.sha, None)
<1>1. host' = h \/ host' = dispatchCiRepair(h, d)
  BY DEF RepairFires
<1>2. "kernel" \notin Faults => e.sha \in site.red
  BY DEF RepairFires, Informed, Sound, Blamed
<1>3. Told(h)
  <2>1. /\ DOMAIN h = Fields /\ h.calls = host.calls /\ h.sha = host.sha /\ h.mr = host.mr
        /\ h.round = host.round /\ h.pipeline = host.pipeline /\ h.gap = host.gap
        /\ h.repair = None /\ h.view = host.view /\ h.watch = host.watch /\ h.evidence = host.evidence
    BY HostTold DEF IsTask, Fields
  <2> HIDE DEF h
  <2> QED BY <2>1, HostTold, SilentSound DEF Told
<1>4. IsCall(d) /\ d.sha = e.sha
  BY CallIs
<1> HIDE DEF h, d, e
<1>5. Told(dispatchCiRepair(h, d))
  BY <1>2, <1>3, <1>4, DispatchSound DEF Told
<1> QED BY <1>1, <1>3, <1>5

LEMMA ExpireTold ==
    ASSUME Inv, Informed, Expire
    PROVE  Told(host')
<1> DEFINE a == [host EXCEPT !.verify_deadline = "past"]
           b == [host EXCEPT !.gap = "late"]
<1>1. host' = a \/ (host.gap = "retrying" /\ host' = b)
  BY DEF Expire
<1>2. Told(a)
  <2>1. Lean(a, host)
    BY HostTold, FieldsLean DEF IsTask, Fields
  <2> QED BY <2>1, HostTold, LeanTold
<1>3. ASSUME host.gap = "retrying" PROVE Told(b)
  <2>1. /\ DOMAIN b = Fields /\ b.calls = host.calls /\ b.sha = host.sha /\ b.mr = host.mr
        /\ b.round = host.round /\ b.pipeline = host.pipeline /\ b.gap = "late"
        /\ b.repair = host.repair /\ b.view = host.view /\ b.watch = host.watch /\ b.evidence = host.evidence
    BY HostTold DEF IsTask, Fields
  <2> HIDE DEF b
  <2>2. "kernel" \notin Faults => Blamed(b, site.red)
    BY <1>3, <2>1, HostTold, NoneAssumption DEF Told, Sound, Blamed
  <2> QED BY <2>1, <2>2, HostTold, BlamesSound DEF Told, Sound
<1> QED BY <1>1, <1>2, <1>3

LEMMA LooksTold ==
    ASSUME Inv, Informed, WatchLooks
    PROVE  Told(host')
<1> DEFINE off == [host EXCEPT !.watch = "off"]
           busy == [host EXCEPT !.watch = "busy"]
           again == [host EXCEPT !.closed = FALSE, !.loop = "halted"]
           v == [sha |-> site.branch, red |-> site.run[site.branch] = "failed"]
           seen == [host EXCEPT !.closed = FALSE, !.watch = "act", !.view = v]
           d(owner) == Call("settle", host.controlEpoch, owner, {}, None)
<1>1. \/ host' = off \/ host' = enqueueRepair(again) \/ host' = seen
      \/ host' = settleMergeState(busy, d("merged"), "merged")
      \/ host' = settleMergeState(busy, d("watch"), "closed")
  BY DEF WatchLooks
<1>2. Told(off) /\ Told(busy) /\ Told(again) /\ IsTask(again)
  <2>1. Lean(off, host)
    BY HostTold, FieldsLean DEF IsTask, Fields
  <2>2. Lean(busy, host)
    BY HostTold, FieldsLean DEF IsTask, Fields
  <2>3. Lean(again, host)
    BY HostTold, FieldsLean DEF IsTask, Fields
  <2> HIDE DEF off, busy, again
  <2> QED BY <2>1, <2>2, <2>3, HostTold, LeanTold
<1>3. Told(seen)
  <2>1. /\ DOMAIN seen = Fields /\ seen.calls = host.calls /\ seen.sha = host.sha
        /\ seen.mr = host.mr /\ seen.round = host.round /\ seen.pipeline = host.pipeline
        /\ seen.gap = host.gap /\ seen.repair = host.repair /\ seen.view = v
        /\ seen.evidence = host.evidence
    BY HostTold DEF IsTask, Fields
  <2> HIDE DEF seen
  <2>2. v.red => v.sha \in site.red
    BY DEF Informed, Paid, Inv, Site
  <2> HIDE DEF v
  <2>3. "kernel" \notin Faults => Blamed(seen, site.red)
    BY <2>1, <2>2, HostTold DEF Told, Sound, Blamed
  <2> QED BY <2>1, <2>3, HostTold, BlamesSound DEF Told, Sound
<1>4. IsCall(d("merged")) /\ IsCall(d("watch"))
  BY CallIs
<1> HIDE DEF off, busy, again, seen, d
<1>5. Told(enqueueRepair(again))
  BY <1>2, StatusLean, LeanTold DEF enqueueRepair
<1>6. /\ Told(settleMergeState(busy, d("merged"), "merged"))
      /\ Told(settleMergeState(busy, d("watch"), "closed"))
  BY <1>2, <1>4, SettleSound DEF Told
<1> QED BY <1>1, <1>2, <1>3, <1>5, <1>6

LEMMA ActsTold ==
    ASSUME Inv, Informed, WatchActs
    PROVE  Told(host')
<1> DEFINE wait == [host EXCEPT !.watch = "wait", !.view = None]
           s == markVerificationStalled(wait)
           busy == [wait EXCEPT !.watch = "busy"]
           d == Call("red", host.controlEpoch, "watch", host.sha, None)
           red == host.view.red /\ host.view.sha = host.sha /\ host.status = "await_merge"
<1>1. \/ host' = wait \/ host' = s
      \/ red /\ host' = dispatchCiRepair(busy, d)
  BY DEF WatchActs
<1>2. Told(wait) /\ IsTask(wait)
  <2>1. /\ DOMAIN wait = Fields /\ wait.calls = host.calls /\ wait.sha = host.sha
        /\ wait.mr = host.mr /\ wait.round = host.round /\ wait.pipeline = host.pipeline
        /\ wait.gap = host.gap /\ wait.repair = host.repair /\ wait.view = None /\ wait.watch = "wait"
        /\ wait.evidence = host.evidence
    BY HostTold DEF IsTask, Fields
  <2> HIDE DEF wait
  <2>2. Told(wait)
    BY <2>1, HostTold, SilentSound DEF Told
  <2> QED BY <2>2 DEF Told, Sound
<1> HIDE DEF wait
<1>3. Told(s) /\ Told(busy)
  <2>1. Lean(busy, wait)
    BY <1>2, FieldsLean DEF IsTask, Fields
  <2> HIDE DEF busy
  <2> QED BY <1>2, <2>1, StalledLean, LeanTold
<1>4. ASSUME red PROVE Told(dispatchCiRepair(busy, d))
  <2>2. "kernel" \notin Faults => host.sha \in site.red
    BY <1>4 DEF Informed, Sound, Blamed, WatchActs
  <2>3. IsCall(d) /\ d.sha = host.sha
    BY CallIs
  <2> HIDE DEF d, busy
  <2> QED BY <1>3, <2>2, <2>3, DispatchSound DEF Told
<1> HIDE DEF s, busy, red
<1> QED BY <1>1, <1>2, <1>3, <1>4

\* Users.

LEMMA TakenTold ==
    ASSUME Informed
    PROVE  Told(Taken) /\ IsTask(Taken)
<1>1. Lean(Taken, host)
  BY HostTold, FieldsLean DEF Taken, IsTask, Fields
<1> QED BY <1>1, HostTold, LeanTold

LEMMA PauseTold ==
    ASSUME Inv, Informed, Pause
    PROVE  Told(host')
<1> DEFINE t == Taken
           k == [t EXCEPT !.status = "paused", !.from = host.status]
<1>1. host' = k
  BY DEF Pause
<1>2. Told(t) /\ IsTask(t)
  BY TakenTold
<1> HIDE DEF t
<1>3. Lean(k, t)
  BY <1>2, FieldsLean DEF IsTask, Fields
<1> HIDE DEF k
<1> QED BY <1>1, <1>2, <1>3, LeanTold

LEMMA ResumeTold ==
    ASSUME Inv, Informed, Resume
    PROVE  Told(host')
<1> DEFINE t == Taken
           k == [t EXCEPT !.status = "verifying", !.from = None]
           q == [t EXCEPT !.status = "queued", !.from = None]
           epoch == host.controlEpoch + 1
<1>1. host' = pollPipeline(k, epoch) \/ host' = q
  BY DEF Resume
<1>2. Told(t) /\ IsTask(t)
  BY TakenTold
<1> HIDE DEF t, epoch
<1>3. Lean(k, t)
  BY <1>2, FieldsLean DEF IsTask, Fields
<1>4. Lean(q, t)
  BY <1>2, FieldsLean DEF IsTask, Fields
<1> HIDE DEF k, q
<1>5. Told(k) /\ Told(q)
  BY <1>2, <1>3, <1>4, LeanTold
<1>6. Told(pollPipeline(k, epoch))
  BY <1>5, PollSound DEF Told
<1> QED BY <1>1, <1>5, <1>6

LEMMA InterruptTold ==
    ASSUME Inv, Informed, Interrupt
    PROVE  Told(host')
<1> DEFINE t == Taken
<1>1. host' = enqueueRepair(t)
  BY DEF Interrupt
<1>2. Told(t) /\ IsTask(t)
  BY TakenTold
<1> HIDE DEF t
<1>3. Lean(enqueueRepair(t), t)
  BY <1>2, StatusLean DEF enqueueRepair
<1> QED BY <1>1, <1>2, <1>3, LeanTold

\* Less is said of a commit once somebody asked for another run.
LEMMA AskedSound ==
    ASSUME NEW h, NEW hd, NEW st, NEW u, NEW n, Sound(h, hd, st, u, n), NEW v, v => u
    PROVE  Sound(h, hd, st, v, n)
BY DEF Sound, Knows

\* Somebody asks for another run, and the budget starts again where the task does.
LEMMA RetrySound ==
    ASSUME Inv, Informed, Retry
    PROVE  /\ Sound(host', head, site, FALSE, host'.round)
           /\ host'.round = host.round \/ host'.round = 0
<1> DEFINE r == NoDeadline(Replaced(host))
           lifted == [r EXCEPT !.pipeline = "retry", !.stalled = FALSE]
           d == Call("red", host.controlEpoch, None, host.sha, None)
           m == [host EXCEPT !.gap = "retrying", !.pipeline = "failed"]
           q == [lifted EXCEPT !.loop = None, !.round = 0, !.max = None,
                               !.gap = None, !.status = "queued"]
           S(h, n) == Sound(h, head, site, FALSE, n)
<1>1. \/ host.gap = "waiting_human" /\ host' = dispatchCiRepair(m, d)
      \/ host' = tryDeliver(lifted, host.controlEpoch, "call") \/ host' = q
  BY DEF Retry
<1>2. S(host, host.round) /\ IsTask(host)
  BY HostTold, AskedSound DEF Told
<1>3. S(r, host.round) /\ IsTask(r)
  <2>1. Lean(Replaced(host), host) /\ IsTask(Replaced(host))
    BY <1>2, ReplacedLean DEF Lean
  <2>2. Lean(r, host) /\ IsTask(r)
    BY <2>1, NoDeadlineLean, LeanOn DEF Lean
  <2> HIDE DEF r
  <2> QED BY <1>2, <2>2, LeanSound
<1> HIDE DEF r
<1>4. S(lifted, host.round) /\ DOMAIN lifted = Fields
  <2>1. /\ DOMAIN lifted = Fields /\ lifted.calls = r.calls /\ lifted.sha = r.sha
        /\ lifted.mr = r.mr /\ lifted.round = r.round /\ lifted.pipeline = "retry"
        /\ lifted.gap = r.gap /\ lifted.repair = r.repair
        /\ lifted.view = r.view /\ lifted.watch = r.watch /\ lifted.evidence = r.evidence
    BY <1>3 DEF IsTask, Fields
  <2> HIDE DEF lifted
  <2>2. "kernel" \notin Faults => Blamed(lifted, site.red)
    BY <1>3, <2>1 DEF Sound, Blamed
  <2> QED BY <1>3, <2>1, <2>2, BlamesSound
<1> HIDE DEF lifted
<1>5. S(tryDeliver(lifted, host.controlEpoch, "call"), host.round)
  BY <1>4, TrySound DEF Delivering
<1>6. S(q, 0)
  <2>1. /\ DOMAIN q = Fields /\ q.calls = lifted.calls /\ q.sha = lifted.sha
        /\ q.mr = lifted.mr /\ q.round = 0 /\ q.pipeline = lifted.pipeline
        /\ q.gap = None /\ q.repair = lifted.repair
        /\ q.view = lifted.view /\ q.watch = lifted.watch /\ q.evidence = lifted.evidence
    BY <1>4 DEF Fields
  <2> HIDE DEF q
  <2>2. "kernel" \notin Faults => Blamed(q, site.red)
    BY <1>4, <2>1 DEF Sound, Blamed
  <2> QED BY <1>4, <2>1, <2>2 DEF Sound, IsTask
<1> HIDE DEF q
<1>7. ASSUME host.gap = "waiting_human" PROVE S(dispatchCiRepair(m, d), host.round)
  <2>1. "kernel" \notin Faults => host.sha \in site.red
    BY <1>2, <1>7, NoneAssumption DEF Sound, Blamed
  <2>2. /\ DOMAIN m = Fields /\ m.calls = host.calls /\ m.sha = host.sha
        /\ m.mr = host.mr /\ m.round = host.round /\ m.pipeline = "failed"
        /\ m.gap = "retrying" /\ m.repair = host.repair
        /\ m.view = host.view /\ m.watch = host.watch /\ m.evidence = host.evidence
    BY <1>2 DEF IsTask, Fields
  <2> HIDE DEF m
  <2>3. "kernel" \notin Faults => Blamed(m, site.red)
    BY <1>2, <2>1, <2>2 DEF Sound, Blamed
  <2>4. S(m, host.round)
    BY <1>2, <2>2, <2>3, BlamesSound
  <2>5. IsCall(d) /\ d.sha = host.sha
    BY CallIs
  <2> HIDE DEF d
  <2> QED BY <2>1, <2>4, <2>5, DispatchSound
<1> HIDE DEF m, d
<1>8. ASSUME NEW n, S(host', n)
      PROVE  S(host', host'.round) /\ host'.round = n
  BY <1>8 DEF Sound
<1>9. S(host', host.round) \/ S(host', 0)
  BY <1>1, <1>5, <1>6, <1>7
<1> QED BY <1>8, <1>9

\* The process starts again: what the record says is all that is left.
LEMMA CrashTold ==
    ASSUME Inv, Informed, Crash
    PROVE  Told(host')
<1> DEFINE h == [host EXCEPT
                   !.controlEpoch = 0, !.driver = None, !.stopping = None,
                   !.deliveryActive = FALSE, !.calls = {}, !.poll = None, !.recovery = None,
                   !.limit = None, !.evidence = None, !.repair = None,
                   !.watch = "off", !.view = None]
           g == recover(h)
<1>1. host' = ensureMergeWatch(g)
  BY DEF Crash, Restarted
<1>2. Told(host) /\ IsTask(host)
  BY HostTold
<1>3. Told(h) /\ IsTask(h)
  <2>1. DOMAIN h = Fields /\ h.calls = {} /\ h.watch = "off"
    BY <1>2 DEF IsTask, Fields
  <2>2. h.sha = host.sha /\ h.mr = host.mr /\ h.round = host.round
    BY <1>2 DEF IsTask, Fields
  <2>3. h.pipeline = host.pipeline /\ h.gap = host.gap
    BY <1>2 DEF IsTask, Fields
  <2>4. h.repair = None /\ h.view = None /\ h.evidence = None
    BY <1>2 DEF IsTask, Fields
  <2> HIDE DEF h
  <2>5. IsTask(h)
    BY <2>1 DEF IsTask
  <2>6. "kernel" \notin Faults => Blamed(h, site.red)
    BY <1>2, <2>1, <2>2, <2>3, <2>4 DEF Told, Sound, Blamed
  <2> QED BY <1>2, <2>1, <2>2, <2>3, <2>5, <2>6 DEF Told, Sound
<1> HIDE DEF h
<1> DEFINE d == Call("red", 0, None, h.sha, None)
           v == Call("verdict", 0, None, h.sha, "success")
           q == [h EXCEPT !.status = "queued"]
<1>4. \/ g = q \/ g = h \/ g = tryDeliver(h, 0, "call")
      \/ h.gap # None /\ g = dispatchCiRepair(h, d)
      \/ g = pollPipeline(h, 0) \/ g = Add(h, v)
  BY DEF recover
<1>5. Told(q)
  BY <1>3, StatusLean, LeanTold
<1>6. Told(tryDeliver(h, 0, "call")) /\ Told(pollPipeline(h, 0))
  BY <1>3, TrySound, PollSound DEF Told, Delivering
<1>7. ASSUME h.gap # None PROVE Told(dispatchCiRepair(h, d))
  <2>1. "kernel" \notin Faults => h.sha \in site.red
    BY <1>3, <1>7 DEF Told, Sound, Blamed
  <2>2. IsCall(d) /\ d.sha = h.sha
    BY CallIs
  <2> HIDE DEF d
  <2> QED BY <1>3, <2>1, <2>2, DispatchSound DEF Told
<1>8. Told(Add(h, v))
  <2>1. IsCall(v) /\ v.kind = "verdict" /\ v.how = "success"
    BY CallIs
  <2> HIDE DEF v
  <2>2. Knows(v, h.sha, h.mr, head, site, Unasked)
    BY <2>1, BlameKnows DEF Blames
  <2> QED BY <1>3, <2>1, <2>2, AddSound DEF Told
<1> HIDE DEF q, d, v, g
<1>9. Told(g)
  BY <1>3, <1>4, <1>5, <1>6, <1>7, <1>8
<1> QED BY <1>1, <1>9, WatchedLean, LeanTold DEF Told, Sound

-----------------------------------------------------------------------------
\* The platform and the agent.

LEMMA CommitsSound ==
    ASSUME Inv, Informed, Commits
    PROVE  Sound(host, head', site, Unasked, host.round)
<1>1. PICK x \in Change \ (head \cup site.branch) : head' = head \cup {x}
  BY DEF Commits
<1>2. Told(host)
  BY HostTold
<1>3. \A c \in host.calls : Knows(c, host.sha, host.mr, head', site, Unasked)
  <2> TAKE c \in host.calls
  <2>1. Knows(c, host.sha, host.mr, head, site, Unasked)
    BY <1>2 DEF Told, Sound
  <2>2. c.sha \subseteq head => c.sha \subseteq head'
    BY <1>1
  <2>3. (head \ c.sha) \cap site.branch = {} => (head' \ c.sha) \cap site.branch = {}
    BY <1>1
  <2> QED BY <2>1, <2>2, <2>3 DEF Knows
<1> QED BY <1>1, <1>2, <1>3 DEF Told, Sound

\* What others do there: runs that were there stay, what was red stays so, and
\* what they push is none of the task's.
Around ==
    /\ \A s \in Commit : site'.run[s] = "none" <=> site.run[s] = "none"
    /\ site.red \subseteq site'.red /\ site'.triggers = site.triggers
    /\ \A s \in Commit : site'.run[s] \in {"failed", "mixed"} => s \in site'.red
    /\ site'.branch \cap head = site.branch \cap head

LEMMA PlatformAround ==
    ASSUME Inv, Informed, Platform
    PROVE  Around
<1>1. site \in Site /\ Paid(site, Unasked) /\ site.branch \in Commit
  BY DEF Inv, Informed, Site
<1>2. CASE PipelineEnds
  <2>1. PICK s \in Commit, outcome \in Outcomes :
           /\ site.run[s] = "running"
           /\ site' = [site EXCEPT !.run[s] = outcome,
                                 !.red = IF outcome = "success" THEN @ ELSE @ \cup {s}]
    BY <1>2 DEF PipelineEnds
  <2>2. /\ site'.run = [site.run EXCEPT ![s] = outcome]
        /\ site'.red = IF outcome = "success" THEN site.red ELSE site.red \cup {s}
        /\ site'.triggers = site.triggers /\ site'.branch = site.branch
    BY <1>1, <2>1 DEF Site
  <2>3. outcome # "none"
    BY OutcomesAssumption
  <2>4. /\ site'.run[s] = outcome
        /\ \A r \in Commit : r # s => site'.run[r] = site.run[r]
    BY <1>1, <2>2 DEF Site
  <2>5. \A r \in Commit : site'.run[r] = "none" <=> site.run[r] = "none"
    BY <2>1, <2>3, <2>4
  <2>6. \A r \in Commit : site'.run[r] \in {"failed", "mixed"} => r \in site'.red
    BY <1>1, <2>2, <2>4 DEF Paid
  <2> QED BY <2>2, <2>5, <2>6 DEF Around
<1>3. CASE Rerun
  <2>1. /\ site'.run = [site.run EXCEPT ![site.branch] = "running"]
        /\ site'.red = site.red /\ site'.triggers = site.triggers
        /\ site'.branch = site.branch /\ site.run[site.branch] # "none"
    BY <1>1, <1>3 DEF Rerun, Site
  <2>2. /\ site'.run[site.branch] = "running"
        /\ \A r \in Commit : r # site.branch => site'.run[r] = site.run[r]
    BY <1>1, <2>1 DEF Site
  <2> QED BY <1>1, <2>1, <2>2 DEF Around, Paid
<1>4. CASE Merge \/ Close \/ Reopen
  <2>1. /\ site'.run = site.run /\ site'.red = site.red /\ site'.triggers = site.triggers
        /\ site'.branch = site.branch
    BY <1>1, <1>4 DEF Merge, Close, Reopen, Site
  <2> QED BY <1>1, <2>1 DEF Around, Paid
<1>5. CASE ForeignPush
  <2>1. PICK x \in Change \ (head \cup site.branch) :
           site' = [site EXCEPT !.branch = @ \cup {x}]
    BY <1>5 DEF ForeignPush
  <2>2. /\ site'.run = site.run /\ site'.red = site.red /\ site'.triggers = site.triggers
        /\ site'.branch = site.branch \cup {x}
    BY <1>1, <2>1 DEF Site
  <2> QED BY <1>1, <2>1, <2>2 DEF Around, Paid
<1> QED BY <1>2, <1>3, <1>4, <1>5 DEF Platform

LEMMA AroundSound ==
    ASSUME Inv, Informed, Around
    PROVE  Sound(host, head, site', Unasked, host.round) /\ Paid(site', Unasked)
<1>1. Told(host) /\ Paid(site, Unasked)
  BY HostTold DEF Informed
<1>2. \A c \in host.calls : Knows(c, host.sha, host.mr, head, site', Unasked)
  <2> TAKE c \in host.calls
  <2>1. Knows(c, host.sha, host.mr, head, site, Unasked)
    BY <1>1 DEF Told, Sound
  <2>2. (head \ c.sha) \cap site.branch = {} => (head \ c.sha) \cap site'.branch = {}
    BY DEF Around
  <2>3. c.kind \in {"confirm", "push", "create", "trigger"} => c.sha \in Commit
    BY DEF Inv, Keeps, Pushes, Early, Host, CallRecord, MaybeSha
  <2>4. c.sha \in site.red => c.sha \in site'.red
    BY DEF Around
  <2>5. c.sha \in Commit /\ site.run[c.sha] = "none" => site'.run[c.sha] = "none"
    BY DEF Around
  <2> QED BY <2>1, <2>2, <2>3, <2>4, <2>5 DEF Knows, Blames
<1>3. "kernel" \notin Faults => Blamed(host, site'.red)
  BY <1>1 DEF Told, Sound, Blamed, Around
<1>4. \A s \in Commit : site'.run[s] # "none" => host.sha # None /\ s \subseteq host.sha
  BY <1>1 DEF Told, Sound, Around
<1>5. Paid(site', Unasked)
  BY <1>1 DEF Paid, Around
<1> QED BY <1>1, <1>2, <1>3, <1>4, <1>5 DEF Told, Sound

-----------------------------------------------------------------------------
\* Every step leaves the task sound.

\* No more events are left than there were.
Spent == \A event \in Event : left[event] <= Bounds[event]

Knowing == Inv /\ Informed /\ Spent

\* A step spends a round on a commit that was red, or none.
Earns == host'.round <= host.round \/ Spends

LEMMA InformedOn ==
    ASSUME Unasked' => Unasked, NEW n, Sound(host', head', site', Unasked, n),
           Paid(site', Unasked)
    PROVE  Informed' /\ host'.round = n
<1>1. host'.round = n
  BY DEF Sound
<1>2. Sound(host', head', site', Unasked', n)
  BY AskedSound
<1>3. Paid(site', Unasked')
  BY DEF Paid
<1> QED BY <1>1, <1>2, <1>3 DEF Informed

\* An event that is not a retry.
LEMMA HappensKeeps ==
    ASSUME Knowing, NEW event \in Event, Happens(event)
    PROVE  Spent' /\ (event # "retry" => (Unasked' => Unasked)) /\ (event = "retry" => ~Unasked')
<1>1. /\ left \in [Event -> Nat] /\ left[event] > 0
      /\ left' = [left EXCEPT ![event] = @ - 1] /\ Bounds \in [Event -> Nat]
  BY BoundsAssumption DEF Knowing, Inv, Happens
<1>2. \A e \in Event : left[e] <= Bounds[e] /\ left[e] \in Nat /\ Bounds[e] \in Nat
  BY <1>1 DEF Knowing, Spent
<1>3. left'[event] = left[event] - 1 /\ \A e \in Event : e # event => left'[e] = left[e]
  BY <1>1
<1>4. Spent'
  <2> SUFFICES ASSUME NEW e \in Event PROVE left'[e] <= Bounds[e]
    BY DEF Spent
  <2> QED BY <1>1, <1>2, <1>3
<1>5. "retry" \in Event
  BY DEF Event
<1>6. ASSUME event # "retry", Unasked' PROVE Unasked
  BY <1>3, <1>5, <1>6 DEF Unasked, Happened
<1>7. ASSUME event = "retry" PROVE ~Unasked'
  BY <1>1, <1>2, <1>3, <1>5, <1>7 DEF Unasked, Happened
<1> QED BY <1>4, <1>6, <1>7

LEMMA QuietKeeps ==
    ASSUME Knowing, left' = left
    PROVE  Spent' /\ (Unasked' => Unasked)
BY DEF Knowing, Spent, Unasked, Happened

LEMMA TellsOn ==
    ASSUME Knowing, Told(host'), UNCHANGED <<head, site>>, Spent', Unasked' => Unasked
    PROVE  Informed' /\ Spent' /\ Earns
<1>1. Sound(host', head', site', Unasked, host.round) /\ Paid(site', Unasked)
  BY DEF Knowing, Informed, Told
<1>2. host.round \in Nat
  BY DEF Knowing, Inv, Keeps, Host, Round
<1> QED BY <1>1, <1>2, InformedOn DEF Earns

LEMMA AnswersInformed ==
    ASSUME Knowing, NEW c \in host.calls, Answers(c)
    PROVE  Informed' /\ Spent' /\ Earns
<1>1. Inv /\ Informed /\ Paid(site, Unasked) /\ host.round \in Nat
  BY DEF Knowing, Informed, Inv, Keeps, Host, Round
<1>2. left' = left /\ site' = site
  BY DEF Answers, TurnEnds, Deliver, DeliverChecks, DeliverSyncs, DeliverConfirms,
         DeliverPushes, DeliverCreates, DeliverAsks, DeliverTriggers, VerdictAnswers,
         RedLooks, ArtifactsArrive, RefreshAnswers, SettleEnds, SettleBegins, Idle
<1>3. Spent' /\ (Unasked' => Unasked)
  BY <1>2, QuietKeeps
<1>4. CASE DeliverSyncs(c)
  <2>1. Sound(host', head', site', Unasked, host.round)
    BY <1>1, <1>2, <1>4, SyncsSound
  <2> QED BY <1>1, <1>2, <1>3, <2>1, InformedOn DEF Earns
<1>5. CASE ArtifactsArrive(c)
  <2>1. head' = head
    BY <1>5 DEF ArtifactsArrive, Idle
  <2>2. /\ Sound(host', head', site', Unasked, host'.round)
        /\ host'.round = host.round \/ Spends
    BY <1>1, <1>2, <1>5, <2>1, ArtifactsSound
  <2> QED BY <1>1, <1>2, <1>3, <2>2, InformedOn DEF Earns
<1>6. CASE ~DeliverSyncs(c) /\ ~ArtifactsArrive(c)
  <2>1. head' = head
    BY <1>6 DEF Answers, TurnEnds, Deliver, DeliverChecks, DeliverConfirms,
         DeliverPushes, DeliverCreates, DeliverAsks, DeliverTriggers, VerdictAnswers,
         RedLooks, RefreshAnswers, SettleEnds, SettleBegins, Idle
  <2>2. Told(host')
    BY <1>1, <1>6, TurnTold, ChecksTold, ConfirmsTold, PushesTold, CreatesTold, AsksTold,
       TriggersTold, VerdictTold, RedLooksTold, RefreshTold, SettleEndsTold,
       SettleBeginsTold DEF Answers, Deliver
  <2> QED BY <1>2, <1>3, <2>1, <2>2, TellsOn
<1> QED BY <1>4, <1>5, <1>6

LEMMA NextInformed ==
    ASSUME Knowing, Next
    PROVE  Informed' /\ Spent' /\ Earns
<1>1. Inv /\ Informed /\ Paid(site, Unasked) /\ host.round \in Nat
  BY DEF Knowing, Informed, Inv, Keeps, Host, Round
<1>2. CASE Launch \/ Timers \/ Expire \/ WatchLooks \/ WatchActs \/ Resume
  <2>1. Told(host')
    BY <1>1, <1>2, LaunchTold, PollEndsTold, PollAnswersTold, RecoveryTold, LimitTold,
       EvidenceFiresTold, RepairFiresTold, ExpireTold, LooksTold, ActsTold, ResumeTold
       DEF Timers
  <2>2. Idle
    BY <1>2 DEF Launch, Timers, PollEnds, PollAnswers, RecoveryFires, LimitFires,
                EvidenceFires, RepairFires, Expire, WatchLooks, WatchActs, Resume
  <2> QED BY <2>1, <2>2, QuietKeeps, TellsOn DEF Idle
<1>3. CASE Commits
  <2>1. UNCHANGED <<host, site, left>>
    BY <1>3 DEF Commits
  <2>2. Sound(host', head', site', Unasked, host.round)
    BY <1>1, <1>3, <2>1, CommitsSound
  <2> QED BY <1>1, <2>1, <2>2, QuietKeeps, InformedOn DEF Earns
<1>4. CASE \E c \in host.calls : Arrives(c)
  <2>1. PICK c \in host.calls : Arrives(c)
    BY <1>4
  <2>2. UNCHANGED <<head, left>>
    BY <2>1 DEF Arrives
  <2>3. Sound(host', head', site', Unasked, host.round) /\ Paid(site', Unasked)
    BY <1>1, <2>1, <2>2, ArrivesSound
  <2> QED BY <1>1, <2>2, <2>3, QuietKeeps, InformedOn DEF Earns
<1>5. CASE \E c \in host.calls : Answers(c)
  BY <1>5, AnswersInformed
<1>6. CASE Pause \/ Interrupt \/ Crash
  <2>1. Told(host')
    BY <1>1, <1>6, PauseTold, InterruptTold, CrashTold
  <2>2. UNCHANGED <<head, site>>
    BY <1>6 DEF Pause, Interrupt, Crash
  <2>3. Spent' /\ (Unasked' => Unasked)
    BY <1>6, HappensKeeps DEF Pause, Interrupt, Crash, Event
  <2> QED BY <2>1, <2>2, <2>3, TellsOn
<1>7. CASE Retry
  <2>1. UNCHANGED <<head, site>>
    BY <1>7 DEF Retry
  <2>2. Spent' /\ ~Unasked'
    BY <1>7, HappensKeeps DEF Retry, Event
  <2>3. /\ Sound(host', head', site', FALSE, host'.round)
        /\ host'.round = host.round \/ host'.round = 0
    BY <1>1, <1>7, <2>1, RetrySound
  <2>4. Sound(host', head', site', Unasked', host'.round)
    BY <2>2, <2>3, AskedSound
  <2>5. Paid(site', Unasked')
    BY <1>1, <2>1, <2>2 DEF Paid
  <2> QED BY <1>1, <2>2, <2>3, <2>4, <2>5 DEF Informed, Earns
<1>8. CASE Platform
  <2>1. UNCHANGED <<host, head>>
    BY <1>8 DEF Platform, PipelineEnds, Rerun, Merge, Close, Reopen, ForeignPush
  <2>2. Sound(host', head', site', Unasked, host.round) /\ Paid(site', Unasked)
    BY <1>1, <1>8, <2>1, PlatformAround, AroundSound
  <2>3. Spent' /\ (Unasked' => Unasked)
    BY <1>8, HappensKeeps, QuietKeeps
       DEF Platform, PipelineEnds, Rerun, Merge, Close, Reopen, ForeignPush, Event
  <2> QED BY <1>1, <2>1, <2>2, <2>3, InformedOn DEF Earns
<1> QED BY <1>2, <1>3, <1>4, <1>5, <1>6, <1>7, <1>8 DEF Next, Users

LEMMA InitKnowing == Init => Knowing
<1> SUFFICES ASSUME Init PROVE Knowing
  OBVIOUS
<1>1. Inv
  BY InitInv
<1>2. Spent
  <2>1. \A event \in Event : Bounds[event] \in Nat
    BY BoundsAssumption
  <2> QED BY <2>1 DEF Init, Spent
<1>3. IsTask(host) /\ host.calls = {}
  BY DEF Init, IsTask, Fields
<1>4. /\ host.sha = None /\ host.pipeline = None /\ host.gap = None /\ host.repair = None
      /\ host.watch = "off" /\ host.evidence = None
  BY DEF Init
<1>5. \A s \in Commit : site.run[s] = "none" /\ site.triggers[s] = 0
  BY DEF Init
<1>6. Blamed(host, site.red)
  BY <1>4, NoneAssumption DEF Blamed
<1>7. Sound(host, head, site, Unasked, host.round)
  BY <1>3, <1>4, <1>5, <1>6, NoneAssumption DEF Sound
<1>8. Paid(site, Unasked)
  BY <1>5 DEF Paid
<1> QED BY <1>1, <1>2, <1>7, <1>8 DEF Knowing, Informed

LEMMA KnowingNext ==
    ASSUME Knowing, [Next]_vars
    PROVE  Knowing' /\ Earns
<1>1. CASE Next
  <2>1. Inv'
    BY <1>1, NextAdvances DEF Knowing
  <2> QED BY <1>1, <2>1, NextInformed DEF Knowing
<1>2. CASE UNCHANGED vars
  <2>1. host.round \in Nat
    BY DEF Knowing, Inv, Keeps, Host, Round
  <2> QED BY <1>2, <2>1
       DEF vars, Knowing, Inv, Informed, Spent, Unasked, Happened, Earns
<1> QED BY <1>1, <1>2

\* What the calls, the timers and the poll of a task believe of its commits is
\* what the platform knows of them, through every step: the invariant behind
\* the two theorems that follow.
THEOREM Knowledge == Spec => []Knowing
<1>1. Knowing /\ [Next]_vars => Knowing'
  BY KnowingNext
<1> QED BY InitKnowing, <1>1, PTL DEF Spec

\* Each pipeline costs: whatever is lost, repeated, overtaken or restarted,
\* performDelivery triggers one for a commit as long as nobody asks for another.
THEOREM OnePipeline == Spec => []OneTriggerPerCommit
<1>1. Knowing => OneTriggerPerCommit
  BY DEF Knowing, Informed, Paid, Unasked, OneTriggerPerCommit
<1> QED BY Knowledge, <1>1, PTL

\* Where the kernel answers, a round of the repair budget is spent, in
\* dispatchCiRepair, on a commit whose pipeline was red, and one at a time.
THEOREM RepairsEarned ==
    ASSUME "kernel" \notin Faults
    PROVE  Spec => RepairsAreEarned
<1>1. Knowing /\ [Next]_vars =>
        [host'.round > host.round =>
           host'.round = host.round + 1 /\ host.sha \in site.red]_vars
  <2> SUFFICES ASSUME Knowing, [Next]_vars, host'.round > host.round
               PROVE  host'.round = host.round + 1 /\ host.sha \in site.red
    OBVIOUS
  <2>1. Earns /\ Knowing'
    BY KnowingNext
  <2>2. host.round \in Nat /\ host'.round \in Nat
    BY <2>1 DEF Knowing, Inv, Keeps, Host, Round
  <2>3. Spends
    BY <2>1, <2>2 DEF Earns
  <2> QED BY <2>3 DEF Spends
<1> QED BY Knowledge, <1>1, PTL DEF Spec, RepairsAreEarned

-----------------------------------------------------------------------------
\* What the wait for the merge may rest on.

Waiting(h) == h.status = "await_merge" /\ ~Stopped(h)

\* The call is a delivery of this epoch that is going to verify a commit, or
\* to settle the merge request it found.
Carries(h, c) ==
    /\ c.epoch = h.controlEpoch
    /\ c.kind \in Stages \/ (c.kind = "settle" /\ ~c.mark)
    /\ c.kind \in {"check", "confirm"} => c.how = h.stalled

\* A delivery that is under way while the task waits: the commit is one the
\* kernel passed, or the delivery goes on.  If it was overtaken, its push
\* brings no other commit.
Vouched(h, c, passed) ==
    /\ h.sha \in passed \/ Carries(h, c)
    /\ c.kind = "push" /\ c.epoch # h.controlEpoch => c.sha = h.sha

Waits(h, passed) ==
    Waiting(h) => \A c \in h.calls : c.owner \in Delivering => Vouched(h, c, passed)

-----------------------------------------------------------------------------
\* What functions do to that.

Like(c, d) ==
    /\ c.kind = d.kind /\ c.epoch = d.epoch /\ c.owner = d.owner
    /\ c.sha = d.sha /\ c.how = d.how
    /\ c.kind = "settle" => c.mark = d.mark

\* A delivery that has just begun.
Fresh(c, h) ==
    c.kind \in {"check", "sync"} /\ c.epoch = h.controlEpoch /\ c.how = h.stalled

\* If the task waits it did so before, with the same deliveries or fewer, or a
\* new one.
Rests(g, h) ==
    /\ IsTask(g)
    /\ Waiting(g) =>
         /\ Waiting(h) /\ g.sha = h.sha /\ g.stalled = h.stalled
         /\ g.controlEpoch = h.controlEpoch
         /\ \A c \in g.calls : c.owner \in Delivering =>
              Fresh(c, g) \/ \E d \in h.calls : Like(c, d)

\* And a delivery under way still is.
Quiet(g, h) == Rests(g, h) /\ (Waiting(g) /\ h.deliveryActive => g.deliveryActive)

LEMMA RestsOn ==
    ASSUME NEW f, NEW g, NEW h, Rests(g, h), Rests(f, g)
    PROVE  Rests(f, h)
<1> SUFFICES ASSUME Waiting(f)
             PROVE  /\ Waiting(h) /\ f.sha = h.sha /\ f.stalled = h.stalled
                    /\ f.controlEpoch = h.controlEpoch
                    /\ \A c \in f.calls : c.owner \in Delivering =>
                         Fresh(c, f) \/ \E d \in h.calls : Like(c, d)
  BY DEF Rests
<1>1. /\ Waiting(g) /\ f.sha = g.sha /\ f.stalled = g.stalled
      /\ f.controlEpoch = g.controlEpoch
      /\ Waiting(h) /\ g.sha = h.sha /\ g.stalled = h.stalled
      /\ g.controlEpoch = h.controlEpoch
  BY DEF Rests
<1>2. ASSUME NEW c \in f.calls, c.owner \in Delivering, ~Fresh(c, f)
      PROVE  \E d \in h.calls : Like(c, d)
  <2>1. PICK d \in g.calls : Like(c, d)
    BY <1>2 DEF Rests
  <2>2. d.owner \in Delivering /\ ~Fresh(d, g)
    BY <1>1, <1>2, <2>1 DEF Like, Fresh
  <2>3. PICK e \in h.calls : Like(d, e)
    BY <1>1, <2>2 DEF Rests
  <2> QED BY <2>1, <2>3 DEF Like
<1> QED BY <1>1, <1>2

LEMMA QuietOn ==
    ASSUME NEW f, NEW g, NEW h, Quiet(g, h), Quiet(f, g)
    PROVE  Quiet(f, h)
BY RestsOn DEF Quiet, Rests

LEMMA QuietSelf ==
    ASSUME NEW h, IsTask(h)
    PROVE  Quiet(h, h)
BY DEF Quiet, Rests, Like

\* A task that does not wait.
LEMMA AwayQuiet ==
    ASSUME NEW g, IsTask(g), ~Waiting(g), NEW h
    PROVE  Quiet(g, h)
BY DEF Quiet, Rests

LEMMA QuietAway ==
    ASSUME NEW g, NEW h, Rests(g, h), ~Waiting(h)
    PROVE  ~Waiting(g)
BY DEF Rests

\* The fields that it is about.
LEMMA FieldsQuiet ==
    ASSUME NEW g, NEW h, IsTask(h), DOMAIN g = Fields, g.calls = h.calls,
           g.sha = h.sha, g.controlEpoch = h.controlEpoch, g.stalled = h.stalled,
           g.status = h.status, g.loop = h.loop, g.deliveryActive = h.deliveryActive
    PROVE  Quiet(g, h)
BY DEF Quiet, Rests, IsTask, Like, Waiting, Stopped

LEMMA ReplacedQuiet ==
    ASSUME NEW h, IsTask(h)
    PROVE  Quiet(Replaced(h), h)
<1> DEFINE g == Replaced(h)
<1>1. Lean(g, h)
  BY ReplacedLean
<1>2. /\ g.sha = h.sha /\ g.controlEpoch = h.controlEpoch /\ g.stalled = h.stalled
      /\ g.status = h.status /\ g.loop = h.loop /\ g.deliveryActive = h.deliveryActive
  BY DEF Replaced, IsTask, Fields
<1>3. \A c \in g.calls : \E d \in h.calls : Like(c, d)
  BY <1>1 DEF Lean, Resembles, Like
<1> HIDE DEF g
<1> QED BY <1>1, <1>2, <1>3 DEF Quiet, Rests, Lean, Waiting, Stopped, g

LEMMA NoDeadlineQuiet ==
    ASSUME NEW h, IsTask(h)
    PROVE  Quiet(NoDeadline(h), h)
BY FieldsQuiet DEF NoDeadline, IsTask, Fields

LEMMA OpenDeadlineQuiet ==
    ASSUME NEW h, IsTask(h)
    PROVE  Quiet(OpenDeadline(h), h)
<1> DEFINE r == Replaced(h)
<1>1. Quiet(r, h) /\ IsTask(r)
  BY ReplacedQuiet DEF Quiet, Rests
<1> HIDE DEF r
<1>2. Quiet([r EXCEPT !.verify_deadline = "open"], r)
  BY <1>1, FieldsQuiet DEF IsTask, Fields
<1> QED BY <1>1, <1>2, QuietOn, QuietSelf DEF OpenDeadline, r

\* A status that is not the wait.
LEMMA StatusAway ==
    ASSUME NEW h, IsTask(h), NEW status, status # "await_merge"
    PROVE  ~Waiting([h EXCEPT !.status = status]) /\ IsTask([h EXCEPT !.status = status])
BY DEF Waiting, IsTask, Fields

LEMMA StalledAway ==
    ASSUME NEW h, IsTask(h)
    PROVE  ~Waiting(markVerificationStalled(h)) /\ IsTask(markVerificationStalled(h))
<1> DEFINE r == NoDeadline(Replaced(h))
<1>1. IsTask(r) /\ IsTask(markVerificationStalled(h))
  BY ReplacedLean, NoDeadlineLean, StalledLean DEF Lean
<1>2. markVerificationStalled(h) = [r EXCEPT !.status = "verifying", !.stalled = TRUE]
  BY DEF markVerificationStalled
<1> HIDE DEF r
<1>3. [r EXCEPT !.status = "verifying", !.stalled = TRUE].status = "verifying"
  BY <1>1 DEF IsTask, Fields
<1> QED BY <1>1, <1>2, <1>3 DEF Waiting

LEMMA ScheduledQuiet ==
    ASSUME NEW h, IsTask(h), NEW epoch
    PROVE  Quiet(scheduleDeliveryRecovery(h, epoch), h)
<1> DEFINE r == OpenDeadline(h)
           g == [r EXCEPT !.limit = epoch, !.recovery = IF @ = None THEN epoch ELSE @]
<1>1. Quiet(r, h) /\ IsTask(r)
  BY OpenDeadlineQuiet DEF Quiet, Rests
<1>2. scheduleDeliveryRecovery(h, epoch) = g
  BY DEF scheduleDeliveryRecovery
<1> HIDE DEF r
<1>3. /\ DOMAIN g = Fields /\ g.calls = r.calls /\ g.sha = r.sha
      /\ g.controlEpoch = r.controlEpoch /\ g.stalled = r.stalled
      /\ g.status = r.status /\ g.loop = r.loop /\ g.deliveryActive = r.deliveryActive
  BY <1>1 DEF IsTask, Fields
<1> HIDE DEF g
<1>4. Quiet(g, r)
  BY <1>1, <1>3, FieldsQuiet
<1> QED BY <1>1, <1>2, <1>4, QuietOn

LEMMA HeldAway ==
    ASSUME NEW h, IsTask(h), NEW epoch
    PROVE  ~Waiting(holdWithRecovery(h, epoch)) /\ IsTask(holdWithRecovery(h, epoch))
<1> DEFINE held == [Replaced(h) EXCEPT !.status = "verifying"]
<1>1. IsTask(held) /\ ~Waiting(held)
  BY ReplacedLean, StatusAway DEF Lean
<1>2. holdWithRecovery(h, epoch) \in
         {held, markVerificationStalled(held), scheduleDeliveryRecovery(held, epoch)}
  BY DEF holdWithRecovery
<1> HIDE DEF held
<1>3. Quiet(scheduleDeliveryRecovery(held, epoch), held)
  BY <1>1, ScheduledQuiet
<1> QED BY <1>1, <1>2, <1>3, StalledAway, QuietAway DEF Quiet, Rests

LEMMA EvidenceQuiet ==
    ASSUME NEW h, IsTask(h), NEW sha, NEW epoch, NEW stale
    PROVE  Quiet(schedulePipelineEvidenceRetry(h, sha, epoch, stale), h)
<1> DEFINE r == OpenDeadline(h)
           g == [r EXCEPT !.evidence = [epoch |-> epoch, sha |-> sha, stale |-> stale]]
<1>1. Quiet(r, h) /\ IsTask(r)
  BY OpenDeadlineQuiet DEF Quiet, Rests
<1>2. schedulePipelineEvidenceRetry(h, sha, epoch, stale) \in
        {h, markVerificationStalled(h), g}
  BY DEF schedulePipelineEvidenceRetry
<1> HIDE DEF r
<1>3. Quiet(g, r)
  BY <1>1, FieldsQuiet DEF IsTask, Fields
<1>4. Quiet(g, h)
  BY <1>1, <1>3, QuietOn
<1>5. Quiet(markVerificationStalled(h), h)
  BY StalledAway, AwayQuiet
<1> HIDE DEF g
<1> QED BY <1>2, <1>4, <1>5, QuietSelf

LEMMA RepairQuiet ==
    ASSUME NEW h, IsTask(h), NEW sha, NEW epoch
    PROVE  Quiet(scheduleRepairEvidenceRetry(h, sha, epoch), h)
<1>1. Quiet([h EXCEPT !.repair = [epoch |-> epoch, sha |-> sha]], h)
  BY FieldsQuiet DEF IsTask, Fields
<1> QED BY <1>1, QuietSelf DEF scheduleRepairEvidenceRetry

LEMMA WatchedQuiet ==
    ASSUME NEW h, IsTask(h)
    PROVE  Quiet(ensureMergeWatch(h), h)
<1>1. Quiet([h EXCEPT !.watch = "wait"], h)
  BY FieldsQuiet DEF IsTask, Fields
<1> QED BY <1>1, QuietSelf DEF ensureMergeWatch

LEMMA AfterQuiet ==
    ASSUME NEW h, IsTask(h), NEW epoch, NEW owner
    PROVE  /\ Quiet(AfterDelivery(h, epoch, owner), h)
           /\ Waiting(AfterDelivery(h, epoch, owner)) => AfterDelivery(h, epoch, owner) = h
<1>1. \/ AfterDelivery(h, epoch, owner) = h
      \/ AfterDelivery(h, epoch, owner) = holdWithRecovery(h, epoch)
      \/ AfterDelivery(h, epoch, owner) = markVerificationStalled(h)
      \/ /\ AfterDelivery(h, epoch, owner) = scheduleDeliveryRecovery(h, epoch)
         /\ h.status = "verifying"
  BY DEF AfterDelivery, recoveryStillNeeded
<1>2. Quiet(scheduleDeliveryRecovery(h, epoch), h)
  BY ScheduledQuiet
<1>3. h.status = "verifying" => ~Waiting(scheduleDeliveryRecovery(h, epoch))
  BY <1>2 DEF Quiet, Rests, Waiting
<1>4. Quiet(holdWithRecovery(h, epoch), h) /\ Quiet(markVerificationStalled(h), h)
  BY HeldAway, StalledAway, AwayQuiet
<1> QED BY <1>1, <1>2, <1>3, <1>4, QuietSelf, HeldAway, StalledAway

-----------------------------------------------------------------------------
\* Calls come and go.

LEMMA DropQuiet ==
    ASSUME NEW h, IsTask(h), NEW c
    PROVE  Quiet(Drop(h, c), h) /\ Drop(h, c).calls = h.calls \ {c}
<1> DEFINE g == Drop(h, c)
<1>1. /\ DOMAIN g = Fields /\ g.calls = h.calls \ {c} /\ g.sha = h.sha
      /\ g.controlEpoch = h.controlEpoch /\ g.stalled = h.stalled
      /\ g.status = h.status /\ g.loop = h.loop /\ g.deliveryActive = h.deliveryActive
  BY DEF Drop, IsTask, Fields
<1> HIDE DEF g
<1> QED BY <1>1 DEF Quiet, Rests, IsTask, Like, Waiting, Stopped, g

\* One that is no delivery, or a delivery that begins.
LEMMA AddQuiet ==
    ASSUME NEW h, IsTask(h), NEW c, IsCall(c), c.owner \in Delivering => Fresh(c, h)
    PROVE  Quiet(Add(h, c), h)
<1> DEFINE g == Add(h, c)
<1>1. /\ DOMAIN g = Fields /\ g.calls = h.calls \cup {c} /\ g.sha = h.sha
      /\ g.controlEpoch = h.controlEpoch /\ g.stalled = h.stalled
      /\ g.status = h.status /\ g.loop = h.loop /\ g.deliveryActive = h.deliveryActive
  BY DEF Add, IsTask, Fields
<1> HIDE DEF g
<1>2. Fresh(c, h) => Fresh(c, g)
  BY <1>1 DEF Fresh
<1>3. ASSUME NEW d \in g.calls, d.owner \in Delivering
      PROVE  Fresh(d, g) \/ \E e \in h.calls : Like(d, e)
  BY <1>1, <1>2, <1>3 DEF Like
<1> QED BY <1>1, <1>3 DEF Quiet, Rests, IsTask, Waiting, Stopped, g

LEMMA PerformQuiet ==
    ASSUME NEW h, IsTask(h), NEW epoch, Current(h, epoch), NEW owner
    PROVE  Quiet(performDelivery(h, epoch, owner), h)
<1> DEFINE k == [h EXCEPT !.deliveryActive = TRUE,
                   !.status = IF @ \in {"running", "queued"} THEN "verifying" ELSE @,
                   !.loop = IF @ = "repairing" /\ ~h.mr THEN "verifying" ELSE @]
           kind == IF h.mr THEN "check" ELSE "sync"
           d == Call(kind, epoch, owner, {}, h.stalled)
<1>1. /\ DOMAIN k = Fields /\ k.calls = h.calls /\ k.sha = h.sha
      /\ k.controlEpoch = h.controlEpoch /\ k.stalled = h.stalled
      /\ k.deliveryActive = TRUE
      /\ k.status = "await_merge" => h.status = "await_merge"
      /\ h.loop = k.loop \/ h.loop \notin {"halted", "closed", "exhausted"}
  BY DEF IsTask, Fields
<1>2. performDelivery(h, epoch, owner) = Add(k, d)
  BY DEF performDelivery
<1> HIDE DEF k
<1>3. Quiet(k, h) /\ IsTask(k)
  BY <1>1 DEF Quiet, Rests, IsTask, Like, Waiting, Stopped
<1>4. IsCall(d) /\ Fresh(d, k)
  <2>1. /\ IsCall(d) /\ d.kind = kind /\ d.epoch = epoch /\ d.how = h.stalled
    BY CallIs
  <2>2. kind \in {"check", "sync"}
    OBVIOUS
  <2> HIDE DEF d, kind
  <2> QED BY <1>1, <2>1, <2>2 DEF Fresh, Current
<1> HIDE DEF d
<1> QED BY <1>2, <1>3, <1>4, AddQuiet, QuietOn

LEMMA TryQuiet ==
    ASSUME NEW h, IsTask(h), NEW epoch, NEW owner
    PROVE  Quiet(tryDeliver(h, epoch, owner), h)
<1>1. \/ tryDeliver(h, epoch, owner) = AfterDelivery(h, epoch, owner)
      \/ /\ tryDeliver(h, epoch, owner) = performDelivery(h, epoch, owner)
         /\ Current(h, epoch)
  BY DEF tryDeliver
<1> QED BY <1>1, AfterQuiet, PerformQuiet

LEMMA PollQuiet ==
    ASSUME NEW h, IsTask(h), NEW epoch
    PROVE  Quiet(pollPipeline(h, epoch), h)
<1>1. Quiet([h EXCEPT !.poll = [sha |-> h.sha, epoch |-> epoch]], h)
  BY FieldsQuiet DEF IsTask, Fields
<1>2. pollPipeline(h, epoch) \in
         {h, [h EXCEPT !.poll = [sha |-> h.sha, epoch |-> epoch]],
          tryDeliver(h, epoch, "call")}
  BY DEF pollPipeline
<1> QED BY <1>1, <1>2, QuietSelf, TryQuiet

\* A call that returns begins nothing.
LEMMA ReturnRests ==
    ASSUME NEW h, IsTask(h), NEW c
    PROVE  LET g == Return(h, c) IN
           /\ Rests(g, h) /\ (c.owner \notin Delivering => Quiet(g, h))
           /\ Waiting(g) => g.closed = h.closed /\ g.calls = h.calls \ {c}
<1> DEFINE f == Drop(h, c)
           idle == [f EXCEPT !.deliveryActive = FALSE]
           k == AfterDelivery(idle, c.epoch, c.owner)
           unpolled == [f EXCEPT !.poll = IF @ = [sha |-> c.sha, epoch |-> c.epoch]
                                          THEN None ELSE @]
           wait == [f EXCEPT !.watch = "wait"]
           off == [f EXCEPT !.watch = "off"]
<1>1. /\ Quiet(f, h) /\ IsTask(f) /\ f.calls = h.calls \ {c} /\ f.closed = h.closed
  BY DropQuiet DEF Quiet, Rests, Drop, IsTask, Fields
<1>2. \/ c.owner \in Delivering /\ Return(h, c) = k
      \/ c.owner \notin Delivering /\ Return(h, c) \in {f, unpolled, wait, off}
  BY DEF Return, Delivering
<1> HIDE DEF f
<1>3. \A g \in {unpolled, wait, off} :
          Quiet(g, f) /\ g.closed = f.closed /\ g.calls = f.calls
  <2>1. Quiet(unpolled, f) /\ unpolled.closed = f.closed /\ unpolled.calls = f.calls
    <3>1. /\ DOMAIN unpolled = Fields /\ unpolled.calls = f.calls /\ unpolled.sha = f.sha
          /\ unpolled.controlEpoch = f.controlEpoch /\ unpolled.stalled = f.stalled
          /\ unpolled.status = f.status /\ unpolled.loop = f.loop
          /\ unpolled.deliveryActive = f.deliveryActive /\ unpolled.closed = f.closed
      BY <1>1 DEF IsTask, Fields
    <3> HIDE DEF unpolled
    <3> QED BY <1>1, <3>1, FieldsQuiet
  <2>2. Quiet(wait, f) /\ wait.closed = f.closed /\ wait.calls = f.calls
    BY <1>1, FieldsQuiet DEF IsTask, Fields
  <2>3. Quiet(off, f) /\ off.closed = f.closed /\ off.calls = f.calls
    BY <1>1, FieldsQuiet DEF IsTask, Fields
  <2> HIDE DEF unpolled, wait, off
  <2> QED BY <2>1, <2>2, <2>3
<1>4. CASE c.owner \notin Delivering
  <2> HIDE DEF unpolled, wait, off, k
  <2>1. Quiet(Return(h, c), f) /\ Return(h, c).closed = f.closed
        /\ Return(h, c).calls = f.calls
    BY <1>1, <1>2, <1>3, <1>4, QuietSelf
  <2> QED BY <1>1, <1>4, <2>1, QuietOn DEF Quiet
<1>5. CASE c.owner \in Delivering
  <2>1. /\ DOMAIN idle = Fields /\ idle.calls = f.calls /\ idle.sha = f.sha
        /\ idle.controlEpoch = f.controlEpoch /\ idle.stalled = f.stalled
        /\ idle.status = f.status /\ idle.loop = f.loop /\ idle.closed = f.closed
    BY <1>1 DEF IsTask, Fields
  <2>2. Return(h, c) = k
    BY <1>2, <1>5
  <2> HIDE DEF idle
  <2>3. Rests(idle, f) /\ IsTask(idle)
    BY <1>1, <2>1 DEF Rests, IsTask, Like, Waiting, Stopped
  <2>4. Quiet(k, idle) /\ (Waiting(k) => k = idle)
    BY <2>3, AfterQuiet
  <2> HIDE DEF k
  <2>5. Rests(k, h)
    BY <1>1, <2>3, <2>4, RestsOn DEF Quiet
  <2> QED BY <1>1, <1>5, <2>1, <2>2, <2>4, <2>5
<1> QED BY <1>4, <1>5

\* A call that goes on.
LEMMA GoFields ==
    ASSUME NEW h, IsTask(h), NEW c, IsCall(c), NEW kind, NEW sha, NEW how
    PROVE  LET g == Go(h, c, kind, sha, how) IN
           /\ IsTask(g) /\ g.calls = (h.calls \ {c}) \cup {Gone(c, kind, sha, how)}
           /\ g.sha = h.sha /\ g.controlEpoch = h.controlEpoch /\ g.stalled = h.stalled
           /\ g.status = h.status /\ g.loop = h.loop
           /\ g.deliveryActive = h.deliveryActive /\ g.closed = h.closed
<1> DEFINE d == Gone(c, kind, sha, how)
           g == Go(h, c, kind, sha, how)
<1>1. IsCall(d)
  BY CallGoes
<1>2. g = Add(Drop(h, c), d)
  BY DEF Go, Gone
<1> HIDE DEF d
<1>3. /\ DOMAIN g = Fields /\ g.calls = (h.calls \ {c}) \cup {d}
      /\ g.sha = h.sha /\ g.controlEpoch = h.controlEpoch /\ g.stalled = h.stalled
      /\ g.status = h.status /\ g.loop = h.loop
      /\ g.deliveryActive = h.deliveryActive /\ g.closed = h.closed
  BY <1>2 DEF Add, Drop, IsTask, Fields
<1> HIDE DEF g
<1> QED BY <1>1, <1>3 DEF IsTask, d, g

\* None of that makes a task wait.
LEMMA ReturnAway ==
    ASSUME NEW h, IsTask(h), ~Waiting(h), NEW c
    PROVE  ~Waiting(Return(h, c)) /\ IsTask(Return(h, c))
BY ReturnRests DEF Rests

LEMMA GoAway ==
    ASSUME NEW h, IsTask(h), ~Waiting(h), NEW c, IsCall(c), NEW kind, NEW sha, NEW how
    PROVE  ~Waiting(Go(h, c, kind, sha, how)) /\ IsTask(Go(h, c, kind, sha, how))
BY GoFields DEF Waiting, Stopped

LEMMA VerdictAway ==
    ASSUME NEW h, IsTask(h), ~Waiting(h), NEW c, IsCall(c), NEW status
    PROVE  ~Waiting(pipelineVerdict(h, c, status)) /\ IsTask(pipelineVerdict(h, c, status))
BY ReturnAway, GoAway DEF pipelineVerdict

LEMMA RedAway ==
    ASSUME NEW h, IsTask(h), NEW c, IsCall(c)
    PROVE  ~Waiting(handlePipelineRed(h, c)) /\ IsTask(handlePipelineRed(h, c))
<1> DEFINE k == [h EXCEPT !.status = "verifying", !.closed = FALSE]
<1>1. IsTask(k) /\ ~Waiting(k)
  BY DEF IsTask, Fields, Waiting
<1>2. handlePipelineRed(h, c) = Go(k, c, "red", c.sha, None)
  BY DEF handlePipelineRed
<1> HIDE DEF k
<1> QED BY <1>1, <1>2, GoAway

-----------------------------------------------------------------------------
\* What a step may make of the task.

\* The task may be left like that: it waits for a commit of which it may, and
\* comes to wait for another only by the closing of its request.
Bears(g, passed) ==
    /\ Waits(g, passed)
    /\ Unverified(g, passed) =>
         Unverified(host, attested) \/ (host.deliveryActive /\ g.closed)

\* A call that comes back is not one the waiting task rests on.
Vain(c) ==
    c.owner \in Delivering => c \in host.calls /\ (Waiting(host) => ~Carries(host, c))

\* A call may go on as this.
Onward(c, kind, how) ==
    c.owner \in Delivering =>
        /\ c \in host.calls
        /\ Waiting(host) =>
             \/ ~Carries(host, c) /\ kind # "push"
             \/ /\ Current(host, c.epoch) /\ kind \in Stages \cup {"settle"}
                /\ kind \in {"check", "confirm"} => how = host.stalled

LEMMA AwayBears ==
    ASSUME NEW g, ~Waiting(g), NEW passed
    PROVE  Bears(g, passed)
BY DEF Bears, Waits, Unverified, Waiting

LEMMA RestsWaits ==
    ASSUME NEW h, NEW seen, Waits(h, seen), NEW g, Rests(g, h), NEW passed, seen \subseteq passed
    PROVE  Waits(g, passed)
<1> SUFFICES ASSUME Waiting(g), NEW c \in g.calls, c.owner \in Delivering
             PROVE  Vouched(g, c, passed)
  BY DEF Waits
<1>1. /\ Waiting(h) /\ g.sha = h.sha /\ g.stalled = h.stalled
      /\ g.controlEpoch = h.controlEpoch
      /\ Fresh(c, g) \/ \E d \in h.calls : Like(c, d)
  BY DEF Rests
<1>2. CASE Fresh(c, g)
  BY <1>2 DEF Fresh, Vouched, Carries, Stages
<1>3. ASSUME NEW d \in h.calls, Like(c, d) PROVE Vouched(g, c, passed)
  <2>1. Vouched(h, d, seen)
    BY <1>1, <1>3 DEF Waits, Like
  <2>2. c.kind = d.kind /\ c.epoch = d.epoch /\ c.sha = d.sha /\ c.how = d.how
        /\ (c.kind = "settle" => c.mark = d.mark)
    BY <1>3 DEF Like
  <2>3. Carries(h, d) => Carries(g, c)
    BY <1>1, <2>2 DEF Carries
  <2> QED BY <1>1, <2>1, <2>2, <2>3 DEF Vouched
<1> QED BY <1>1, <1>2, <1>3

LEMMA QuietBears ==
    ASSUME Waits(host, attested), NEW g, Quiet(g, host), NEW passed, attested \subseteq passed
    PROVE  Bears(g, passed)
<1>1. Waits(g, passed)
  BY RestsWaits DEF Quiet
<1>2. ASSUME Unverified(g, passed) PROVE Unverified(host, attested)
  <2>1. Waiting(g) /\ g.sha \notin passed /\ ~g.deliveryActive
    BY <1>2 DEF Unverified, Waiting
  <2>2. Waiting(host) /\ host.sha = g.sha /\ ~host.deliveryActive
    BY <2>1 DEF Quiet, Rests
  <2> QED BY <2>1, <2>2 DEF Unverified, Waiting
<1> QED BY <1>1, <1>2 DEF Bears

LEMMA ReturnBears ==
    ASSUME Waits(host, attested), NEW h, Quiet(h, host), NEW c, Vain(c),
           NEW passed, attested \subseteq passed
    PROVE  Bears(Return(h, c), passed)
<1> DEFINE g == Return(h, c)
<1>1. Rests(g, h) /\ (c.owner \notin Delivering => Quiet(g, h))
  BY ReturnRests DEF Quiet, Rests
<1> HIDE DEF g
<1>2. CASE c.owner \notin Delivering
  BY <1>1, <1>2, QuietOn, QuietBears DEF g
<1>3. CASE c.owner \in Delivering
  <2>1. Rests(g, host)
    BY <1>1, RestsOn DEF Quiet
  <2>2. Waits(g, passed)
    BY <2>1, RestsWaits
  <2>3. ~Unverified(g, passed)
    <3> SUFFICES ASSUME Unverified(g, passed) PROVE FALSE
      OBVIOUS
    <3>1. Waiting(host) /\ host.sha \notin attested
      BY <2>1 DEF Unverified, Rests, Waiting
    <3>2. Vouched(host, c, attested) /\ ~Carries(host, c)
      BY <1>3, <3>1 DEF Waits, Vain
    <3> QED BY <3>1, <3>2 DEF Vouched
  <2> QED BY <2>2, <2>3 DEF Bears, g
<1> QED BY <1>2, <1>3

LEMMA GoBears ==
    ASSUME Waits(host, attested), NEW h, Quiet(h, host), NEW c, IsCall(c),
           NEW kind, NEW sha, NEW how, Onward(c, kind, how),
           NEW passed, attested \subseteq passed
    PROVE  Bears(Go(h, c, kind, sha, how), passed)
<1> DEFINE d == Gone(c, kind, sha, how)
           g == Go(h, c, kind, sha, how)
           f == Drop(h, c)
<1>1. /\ g.calls = (h.calls \ {c}) \cup {d}
      /\ g.sha = h.sha /\ g.controlEpoch = h.controlEpoch /\ g.stalled = h.stalled
      /\ g.status = h.status /\ g.loop = h.loop /\ g.deliveryActive = h.deliveryActive
      /\ IsTask(h)
  BY GoFields DEF Quiet, Rests
<1>2. /\ d.kind = kind /\ d.epoch = c.epoch /\ d.owner = c.owner /\ d.how = how
      /\ kind = "settle" => ~d.mark
  <2>1. d.kind = kind /\ d.epoch = c.epoch /\ d.owner = c.owner /\ d.how = how
    BY CallGoes
  <2>2. PICK S : c \in CallOf(S)
    BY DEF IsCall
  <2>3. d.mark = (kind = "artifacts")
    BY <2>2 DEF Gone, CallOf
  <2> QED BY <2>1, <2>3
<1>3. /\ Waits(h, passed)
      /\ Unverified(h, passed) => Unverified(host, attested) \/ (host.deliveryActive /\ h.closed)
  BY QuietBears DEF Bears
<1> HIDE DEF d, g
<1>4. Waiting(g) =>
        /\ Waiting(h) /\ Waiting(host) /\ h.sha = host.sha
        /\ h.stalled = host.stalled /\ h.controlEpoch = host.controlEpoch
  BY <1>1 DEF Quiet, Rests, Waiting, Stopped
<1>5. Waits(g, passed)
  <2> SUFFICES ASSUME Waiting(g), NEW e \in g.calls, e.owner \in Delivering
               PROVE  Vouched(g, e, passed)
    BY DEF Waits
  <2>1. CASE e \in h.calls
    <3>1. Vouched(h, e, passed)
      BY <1>3, <1>4, <2>1 DEF Waits
    <3> QED BY <1>1, <3>1 DEF Vouched, Carries
  <2>2. CASE e = d
    <3>1. c \in host.calls /\ Waiting(host) /\ c.owner \in Delivering
      BY <1>2, <1>4, <2>2 DEF Onward
    <3>2. CASE ~Carries(host, c) /\ kind # "push"
      <4>1. host.sha \in attested
        BY <3>1, <3>2 DEF Waits, Vouched
      <4> QED BY <1>1, <1>2, <1>4, <2>2, <3>2, <4>1 DEF Vouched
    <3>3. CASE /\ Current(host, c.epoch) /\ kind \in Stages \cup {"settle"}
               /\ kind \in {"check", "confirm"} => how = host.stalled
      <4>1. Carries(g, d) /\ d.epoch = g.controlEpoch
        BY <1>1, <1>2, <1>4, <3>3 DEF Carries, Current
      <4> QED BY <2>2, <4>1 DEF Vouched
    <3> QED BY <3>1, <3>2, <3>3 DEF Onward
  <2> QED BY <1>1, <2>1, <2>2
<1>6. ASSUME Unverified(g, passed) PROVE Unverified(host, attested)
  <2>1. Waiting(g) /\ g.sha \notin passed /\ ~g.deliveryActive
    BY <1>6 DEF Unverified, Waiting
  <2>2. Waiting(host) /\ host.sha \notin attested /\ ~host.deliveryActive
    BY <1>1, <1>4, <2>1 DEF Quiet
  <2> QED BY <2>2 DEF Unverified, Waiting
<1> QED BY <1>5, <1>6 DEF Bears, g

-----------------------------------------------------------------------------
\* Verdicts, repairs and the end of a merge request.

LEMMA VerdictBears ==
    ASSUME Waits(host, attested), NEW h, Quiet(h, host), NEW c, IsCall(c), Vain(c),
           NEW status, NEW passed, attested \subseteq passed
    PROVE  Bears(pipelineVerdict(h, c, status), passed)
<1>1. Onward(c, "verdict", status)
  BY DEF Vain, Onward
<1> QED BY <1>1, GoBears, ReturnBears DEF pipelineVerdict

LEMMA DispatchBears ==
    ASSUME Waits(host, attested), NEW h, Quiet(h, host), NEW c, IsCall(c), Vain(c),
           NEW passed, attested \subseteq passed
    PROVE  Bears(dispatchCiRepair(h, c), passed)
<1> DEFINE k == [h EXCEPT !.loop = "exhausted", !.pipeline = "failed"]
<1>1. dispatchCiRepair(h, c) \in {Return(h, c), Return(k, c), Go(h, c, "artifacts", c.sha, None)}
  BY DEF dispatchCiRepair
<1>2. IsTask(h)
  BY DEF Quiet, Rests
<1>3. IsTask(k) /\ ~Waiting(k)
  BY <1>2 DEF IsTask, Fields, Waiting, Stopped
<1> HIDE DEF k
<1>4. Bears(Return(k, c), passed)
  BY <1>3, ReturnAway, AwayBears
<1>5. Bears(Go(h, c, "artifacts", c.sha, None), passed)
  <2>1. Onward(c, "artifacts", None)
    BY DEF Vain, Onward
  <2> QED BY <2>1, GoBears
<1> QED BY <1>1, <1>4, <1>5, ReturnBears

\* The call is of this epoch, or in vain.
Concerned(c) ==
    c.owner \in Delivering =>
        c \in host.calls /\ (Waiting(host) => ~Carries(host, c) \/ Current(host, c.epoch))

LEMMA ApplyBears ==
    ASSUME Inv, Waits(host, attested), NEW h, Quiet(h, host), NEW c, IsCall(c),
           c.owner \in Delivering => c \in host.calls,
           NEW state, NEW passed, attested \subseteq passed
    PROVE  Bears(applyMergeState(h, c, state), passed)
<1> DEFINE d == [c EXCEPT !.kind = "settle", !.how = state, !.mark = TRUE]
           taken(g) == Add(Drop([g EXCEPT !.controlEpoch = @ + 1, !.stopping = g.driver], c), d)
           m == [h EXCEPT !.status = "verifying", !.stalled = FALSE]
           k == [h EXCEPT !.status = "await_merge", !.loop = "closed", !.closed = TRUE]
           o == [h EXCEPT !.closed = TRUE]
<1>1. applyMergeState(h, c, state) \in {taken(m), taken(k), Return(o, c)}
  BY DEF applyMergeState
<1>2. IsTask(h)
  BY DEF Quiet, Rests
<1>3. IsTask(m) /\ ~Waiting(m) /\ IsTask(k) /\ ~Waiting(k)
  BY <1>2 DEF IsTask, Fields, Waiting, Stopped
<1> HIDE DEF m, k
<1>4. ASSUME NEW g, IsTask(g), ~Waiting(g) PROVE ~Waiting(taken(g))
  BY <1>4 DEF Add, Drop, IsTask, Fields, Waiting, Stopped
<1> HIDE DEF taken
<1>5. Bears(Return(o, c), passed)
  <2>1. Quiet(o, h) /\ IsTask(o) /\ o.closed = TRUE
    BY <1>2, FieldsQuiet DEF IsTask, Fields
  <2> HIDE DEF o
  <2>2. Quiet(o, host)
    BY <2>1, QuietOn
  <2> DEFINE g == Return(o, c)
  <2>3. /\ Rests(g, o) /\ (c.owner \notin Delivering => Quiet(g, o))
        /\ Waiting(g) => g.closed = o.closed
    BY <2>1, ReturnRests
  <2> HIDE DEF g
  <2>4. CASE c.owner \notin Delivering
    BY <2>2, <2>3, <2>4, QuietOn, QuietBears DEF g
  <2>5. CASE c.owner \in Delivering
    <3>1. Waits(g, passed)
      BY <2>2, <2>3, RestsOn, RestsWaits DEF Quiet
    <3>2. host.deliveryActive
      BY <2>5 DEF Inv, Keeps, OneDelivery
    <3>3. Unverified(g, passed) => g.closed
      BY <2>1, <2>3 DEF Unverified, Waiting
    <3> QED BY <3>1, <3>2, <3>3 DEF Bears, g
  <2> QED BY <2>4, <2>5
<1> QED BY <1>1, <1>3, <1>4, <1>5, AwayBears

LEMMA SettleBears ==
    ASSUME Inv, Waits(host, attested), NEW h, Quiet(h, host), NEW c, IsCall(c), Concerned(c),
           NEW state, NEW passed, attested \subseteq passed
    PROVE  Bears(settleMergeState(h, c, state), passed)
<1>1. \/ settleMergeState(h, c, state) = Go(h, c, "settle", c.sha, state)
      \/ settleMergeState(h, c, state) = Return(h, c) /\ h.status = "completed"
      \/ settleMergeState(h, c, state) = applyMergeState(h, c, state)
  BY DEF settleMergeState
<1>2. Bears(Go(h, c, "settle", c.sha, state), passed)
  <2>1. Onward(c, "settle", state)
    BY DEF Concerned, Onward
  <2> QED BY <2>1, GoBears
<1>3. h.status = "completed" => Bears(Return(h, c), passed)
  <2>1. h.status = "completed" => ~Waiting(h)
    BY DEF Waiting
  <2> QED BY <2>1, ReturnAway, AwayBears DEF Quiet, Rests
<1>4. Bears(applyMergeState(h, c, state), passed)
  BY ApplyBears DEF Concerned
<1> QED BY <1>1, <1>2, <1>3, <1>4

-----------------------------------------------------------------------------
\* Sessions and answers.

LEMMA HostTask ==
    ASSUME Informed
    PROVE  IsTask(host) /\ Quiet(host, host) /\ \A c \in host.calls : IsCall(c)
BY QuietSelf DEF Informed, Sound, IsTask

LEMMA VainCall ==
    ASSUME NEW c \in host.calls, c.kind \notin Stages, c.kind # "settle" \/ c.mark
    PROVE  Vain(c)
BY DEF Vain, Carries

LEMMA LaunchBears ==
    ASSUME Informed, Launch
    PROVE  Bears(host', attested')
<1>1. host'.status = "running"
  BY HostTask DEF Launch, Add, IsTask, Fields
<1> QED BY <1>1, AwayBears DEF Waiting

LEMMA TurnBears ==
    ASSUME Informed, Waits(host, attested), NEW c \in host.calls, TurnEnds(c)
    PROVE  Bears(host', attested')
<1> DEFINE f == Drop(host, c)
           k == [f EXCEPT !.driver = None]
<1>1. (host' = f \/ host' = tryDeliver(k, c.epoch, "turn")) /\ attested' = attested
  BY DEF TurnEnds, Idle
<1>2. Quiet(f, host) /\ IsTask(f)
  BY HostTask, DropQuiet DEF Quiet, Rests
<1> HIDE DEF f
<1>3. Quiet(k, f) /\ IsTask(k)
  BY <1>2, FieldsQuiet DEF IsTask, Fields
<1> HIDE DEF k
<1>4. Quiet(tryDeliver(k, c.epoch, "turn"), host)
  BY <1>2, <1>3, TryQuiet, QuietOn
<1> QED BY <1>1, <1>2, <1>4, QuietBears

\* The kernel passes the commit of the task, and all of its working tree: an
\* overtaken push on its way brings no other.
LEMMA GreenBears ==
    ASSUME Inv, Informed, NEW c \in host.calls, host.sha = c.sha, head = c.sha,
           NEW passed, c.sha \in passed
    PROVE  Bears(Green(host, c), passed)
<1> DEFINE x == [host EXCEPT !.status = "await_merge", !.closed = FALSE,
                             !.loop = IF @ = None THEN @ ELSE "green"]
           k == ensureMergeWatch(x)
           g == Return(k, c)
<1>1. /\ IsTask(x) /\ x.calls = host.calls /\ x.sha = host.sha
  BY HostTask DEF IsTask, Fields
<1>2. Green(host, c) = g
  BY DEF Green
<1> HIDE DEF x
<1>3. Quiet(k, x) /\ Lean(k, x) /\ IsTask(k)
  BY <1>1, WatchedQuiet, WatchedLean DEF Lean
<1>4. k.calls = x.calls
  BY <1>1 DEF ensureMergeWatch, IsTask, Fields
<1> HIDE DEF k
<1>5. /\ Rests(g, k) /\ (Waiting(g) => g.calls = k.calls \ {c})
      /\ g.sha = k.sha
  <2>1. Lean(g, Drop(k, c)) /\ Lean(Drop(k, c), k)
    BY <1>3, ReturnLean, DropLean
  <2> QED BY <1>3, <2>1, ReturnRests DEF Lean
<1> HIDE DEF g
<1>6. g.sha = c.sha
  BY <1>1, <1>3, <1>5 DEF Lean
<1>7. ASSUME Waiting(g), NEW d \in g.calls, d.owner \in Delivering
      PROVE  Vouched(g, d, passed)
  <2>1. d \in host.calls
    BY <1>1, <1>4, <1>5, <1>7
  <2>2. d.kind = "push" => d.sha = host.sha
    <3>1. d.kind = "push" => host.sha \subseteq d.sha /\ d.sha \subseteq head
      <4>1. Knows(d, host.sha, host.mr, head, site, Unasked)
        BY <2>1, InformedCall
      <4>2. host.sha # None
        BY NoCommit DEF Inv
      <4> QED BY <4>1, <4>2 DEF Knows
    <3> QED BY <3>1
  <2> QED BY <1>6, <2>2 DEF Vouched
<1> QED BY <1>2, <1>6, <1>7 DEF Bears, Waits, Unverified

LEMMA ConcludedBears ==
    ASSUME Inv, Informed, Waits(host, attested), NEW c \in host.calls, host.sha = c.sha,
           NEW verdict \in Verdicts(c),
           NEW passed, verdict = "PASS" => c.sha \in passed
    PROVE  Bears(Concluded(host, c, verdict), passed)
<1> DEFINE r == handlePipelineRed([host EXCEPT !.pipeline = "failed"], c)
           v == [host EXCEPT !.status = "verifying", !.closed = FALSE]
           w == schedulePipelineEvidenceRetry(v, c.sha, c.epoch, verdict = "STALE")
<1>1. \/ Concluded(host, c, verdict) = r
      \/ Concluded(host, c, verdict) = Return(w, c)
      \/ verdict = "PASS" /\ Concluded(host, c, verdict) = Green(host, c)
  BY DEF Concluded
<1>2. IsTask(host) /\ IsCall(c)
  BY HostTask
<1>3. ~Waiting(r)
  <2>1. IsTask([host EXCEPT !.pipeline = "failed"])
    BY <1>2 DEF IsTask, Fields
  <2> QED BY <1>2, <2>1, RedAway
<1> HIDE DEF r
<1>4. ~Waiting(Return(w, c))
  <2>1. IsTask(v) /\ ~Waiting(v)
    BY <1>2 DEF IsTask, Fields, Waiting
  <2> HIDE DEF v
  <2>2. IsTask(w) /\ ~Waiting(w)
    BY <2>1, EvidenceQuiet, QuietAway DEF Quiet, Rests
  <2> HIDE DEF w
  <2> QED BY <2>2, ReturnAway
<1> HIDE DEF w
<1>5. ASSUME verdict = "PASS" PROVE Bears(Green(host, c), passed)
  <2>1. head = c.sha
    BY <1>5 DEF Verdicts
  <2> QED BY <1>5, <2>1, GreenBears
<1> QED BY <1>1, <1>3, <1>4, <1>5, AwayBears

LEMMA VerdictAnswersBears ==
    ASSUME Inv, Informed, Waits(host, attested), NEW c \in host.calls, VerdictAnswers(c)
    PROVE  Bears(host', attested')
<1>1. PICK verdict \in Verdicts(c) :
         /\ attested' = IF verdict = "PASS" THEN attested \cup {c.sha} ELSE attested
         /\ host' = IF ~Current(host, c.epoch) \/ host.sha # c.sha THEN Return(host, c)
                    ELSE Concluded(host, c, verdict)
  BY DEF VerdictAnswers
<1>2. attested \subseteq attested' /\ (verdict = "PASS" => c.sha \in attested')
  BY <1>1
<1>3. Bears(Return(host, c), attested')
  <2>1. Vain(c)
    BY VainCall DEF VerdictAnswers, Stages
  <2> QED BY <1>2, <2>1, HostTask, ReturnBears
<1>4. host.sha = c.sha => Bears(Concluded(host, c, verdict), attested')
  BY <1>2, ConcludedBears
<1> QED BY <1>1, <1>3, <1>4

LEMMA RedLooksBears ==
    ASSUME Inv, Informed, Waits(host, attested), NEW c \in host.calls, RedLooks(c)
    PROVE  Bears(host', attested')
<1>1. /\ attested' = attested
      /\ host' \in {Return(host, c), settleMergeState(host, c, site.mr),
                    dispatchCiRepair(host, c)}
  BY DEF RedLooks, Idle
<1>2. Vain(c) /\ Concerned(c) /\ IsCall(c) /\ Quiet(host, host)
  <2>1. Vain(c)
    BY VainCall DEF RedLooks, Stages
  <2> QED BY <2>1, HostTask DEF Vain, Concerned
<1> QED BY <1>1, <1>2, ReturnBears, SettleBears, DispatchBears

LEMMA ArtifactsBears ==
    ASSUME Inv, Informed, Waits(host, attested), NEW c \in host.calls, ArtifactsArrive(c)
    PROVE  Bears(host', attested')
<1> DEFINE k == [host EXCEPT
                  !.round = @ + 1, !.loop = "repairing",
                  !.max = IF host.loop = None THEN MaxRound ELSE @,
                  !.gap = None, !.pipeline = "failed", !.status = "queued"]
           x == [host EXCEPT !.pipeline = "failed",
                             !.gap = IF @ \in {"late", "waiting_human"}
                                     THEN "waiting_human" ELSE "retrying"]
           r == scheduleRepairEvidenceRetry(x, c.sha, c.epoch)
<1>1. /\ attested' = attested
      /\ host' \in {Return(host, c), Return(k, c), Return(r, c)}
  BY DEF ArtifactsArrive, Idle
<1>2. Vain(c) /\ IsTask(host) /\ Quiet(host, host)
  BY VainCall, HostTask DEF ArtifactsArrive, Stages
<1>3. IsTask(k) /\ ~Waiting(k)
  <2>1. DOMAIN k = Fields /\ k.calls = host.calls /\ k.status = "queued"
    BY <1>2 DEF IsTask, Fields
  <2> HIDE DEF k
  <2> QED BY <1>2, <2>1 DEF IsTask, Waiting
<1> HIDE DEF k
<1>4. Quiet(r, host)
  <2>1. /\ DOMAIN x = Fields /\ x.calls = host.calls /\ x.sha = host.sha
        /\ x.controlEpoch = host.controlEpoch /\ x.stalled = host.stalled
        /\ x.status = host.status /\ x.loop = host.loop
        /\ x.deliveryActive = host.deliveryActive
    BY <1>2 DEF IsTask, Fields
  <2> HIDE DEF x
  <2>2. Quiet(x, host)
    BY <1>2, <2>1, FieldsQuiet
  <2> QED BY <2>2, RepairQuiet, QuietOn DEF Quiet, Rests
<1> HIDE DEF r
<1> QED BY <1>1, <1>2, <1>3, <1>4, ReturnAway, AwayBears, ReturnBears

LEMMA RefreshBears ==
    ASSUME Inv, Informed, Waits(host, attested), NEW c \in host.calls, RefreshAnswers(c)
    PROVE  Bears(host', attested')
<1> DEFINE run == Reported(site.run[c.sha])
           x == [Replaced(host) EXCEPT !.pipeline = run]
           y == Drop(x, c)
<1>1. /\ attested' = attested
      /\ \/ host' = Drop(host, c) \/ host' = pollPipeline(y, c.epoch)
         \/ host' = pipelineVerdict(host, c, "success") \/ host' = pipelineVerdict(x, c, run)
  BY DEF RefreshAnswers, Idle
<1>2. Vain(c) /\ IsTask(host) /\ Quiet(host, host) /\ IsCall(c)
  BY VainCall, HostTask DEF RefreshAnswers, Stages
<1>3. Quiet(x, host) /\ IsTask(x)
  <2> DEFINE r == Replaced(host)
  <2>1. Quiet(r, host) /\ IsTask(r)
    BY <1>2, ReplacedQuiet DEF Quiet, Rests
  <2> HIDE DEF r
  <2>2. Quiet([r EXCEPT !.pipeline = run], r)
    BY <2>1, FieldsQuiet DEF IsTask, Fields
  <2>3. Quiet([r EXCEPT !.pipeline = run], host)
    BY <2>1, <2>2, QuietOn
  <2> QED BY <2>3 DEF r, Quiet, Rests
<1> HIDE DEF x
<1>4. Quiet(y, host) /\ IsTask(y)
  BY <1>3, DropQuiet, QuietOn DEF Quiet, Rests
<1> HIDE DEF y
<1>5. Quiet(pollPipeline(y, c.epoch), host)
  BY <1>4, PollQuiet, QuietOn
<1>6. Quiet(Drop(host, c), host)
  BY <1>2, DropQuiet
<1> HIDE DEF run
<1> QED BY <1>1, <1>2, <1>3, <1>5, <1>6, QuietBears, VerdictBears

LEMMA SettleEndsBears ==
    ASSUME Inv, Informed, Waits(host, attested), NEW c \in host.calls, SettleEnds(c)
    PROVE  Bears(host', attested')
<1> DEFINE idle == [host EXCEPT !.stopping = None]
           stopped == [idle EXCEPT !.driver = IF @ = host.stopping THEN None ELSE @]
           n == NoDeadline(stopped)
           done == [n EXCEPT !.status = "completed", !.stalled = FALSE,
                             !.loop = IF @ = None THEN @ ELSE "merged"]
           lost == [idle EXCEPT !.status = "failed", !.loop = "halted"]
<1>1. /\ attested' = attested
      /\ host' \in {Return(done, c), Return(markVerificationStalled(stopped), c),
                    Return(markVerificationStalled(idle), c), Return(stopped, c),
                    Return(idle, c), Return(lost, c)}
  BY DEF SettleEnds, Idle
<1>2. Vain(c) /\ IsTask(host)
  BY VainCall, HostTask DEF SettleEnds, Stages
<1>3. Quiet(idle, host) /\ IsTask(idle) /\ IsTask(lost) /\ ~Waiting(lost)
  <2>1. IsTask(lost) /\ ~Waiting(lost)
    BY <1>2 DEF IsTask, Fields, Waiting
  <2> QED BY <1>2, <2>1, FieldsQuiet DEF IsTask, Fields
<1> HIDE DEF idle, lost
<1>4. Quiet(stopped, host) /\ IsTask(stopped)
  <2>1. /\ DOMAIN stopped = Fields /\ stopped.calls = idle.calls /\ stopped.sha = idle.sha
        /\ stopped.controlEpoch = idle.controlEpoch /\ stopped.stalled = idle.stalled
        /\ stopped.status = idle.status /\ stopped.loop = idle.loop
        /\ stopped.deliveryActive = idle.deliveryActive
    BY <1>3 DEF IsTask, Fields
  <2> HIDE DEF stopped
  <2>2. Quiet(stopped, idle)
    BY <1>3, <2>1, FieldsQuiet
  <2> QED BY <1>3, <2>2, QuietOn DEF Quiet, Rests
<1> HIDE DEF stopped
<1>5. IsTask(done) /\ ~Waiting(done)
  <2>1. IsTask(n)
    BY <1>4, NoDeadlineQuiet DEF Quiet, Rests
  <2> HIDE DEF n
  <2>2. DOMAIN done = Fields /\ done.calls = n.calls /\ done.status = "completed"
    BY <2>1 DEF IsTask, Fields
  <2> HIDE DEF done
  <2> QED BY <2>1, <2>2 DEF IsTask, Waiting
<1> HIDE DEF done
<1>6. /\ Bears(Return(stopped, c), attested') /\ Bears(Return(idle, c), attested')
  BY <1>1, <1>2, <1>3, <1>4, ReturnBears
<1>7. ASSUME NEW x, IsTask(x) PROVE Bears(Return(markVerificationStalled(x), c), attested')
  BY <1>7, StalledAway, ReturnAway, AwayBears
<1>8. Bears(Return(done, c), attested') /\ Bears(Return(lost, c), attested')
  BY <1>3, <1>5, ReturnAway, AwayBears
<1> QED BY <1>1, <1>3, <1>4, <1>6, <1>7, <1>8

LEMMA SettleBeginsBears ==
    ASSUME Inv, Informed, Waits(host, attested), NEW c \in host.calls, SettleBegins(c)
    PROVE  Bears(host', attested')
<1>1. /\ attested' = attested
      /\ \/ host.status = "completed" /\ host' = Return(host, c)
         \/ host' = applyMergeState(host, c, c.how)
  BY DEF SettleBegins, Idle
<1>2. IsTask(host) /\ Quiet(host, host) /\ IsCall(c)
  BY HostTask
<1>3. host.status = "completed" => Bears(Return(host, c), attested')
  <2>1. host.status = "completed" => ~Waiting(host)
    BY DEF Waiting
  <2> QED BY <1>2, <2>1, ReturnAway, AwayBears
<1> QED BY <1>1, <1>2, <1>3, ApplyBears

-----------------------------------------------------------------------------
\* Timers.

LEMMA OwnedVain ==
    ASSUME NEW c, c.owner \notin Delivering
    PROVE  Vain(c) /\ Concerned(c)
BY DEF Vain, Concerned

LEMMA PollEndsBears ==
    ASSUME Informed, Waits(host, attested), PollEnds
    PROVE  Bears(host', attested')
<1>1. Quiet([host EXCEPT !.poll = None], host)
  BY HostTask, FieldsQuiet DEF IsTask, Fields
<1> QED BY <1>1, QuietBears DEF PollEnds, Idle

\* A poll looks while the task verifies, and so it stays.
LEMMA PollAnswersBears ==
    ASSUME Informed, PollAnswers
    PROVE  Bears(host', attested')
<1> DEFINE run == Reported(site.run[host.poll.sha])
           seen(status) == [Replaced(host) EXCEPT !.pipeline = status]
           c == Call("verdict", host.poll.epoch, "poll", host.poll.sha, run)
<1>1. \E status :
        \/ host' = waitingForRun(seen(status)) \/ host' = NoDeadline(seen(status))
        \/ host' = Add(NoDeadline(seen(status)), c)
  BY DEF PollAnswers
<1>2. ASSUME NEW status PROVE IsTask(seen(status)) /\ seen(status).status = "verifying"
  <2> DEFINE r == Replaced(host)
  <2>1. IsTask(r)
    BY HostTask, ReplacedLean DEF Lean
  <2>2. r.status = "verifying"
    BY HostTask DEF PollAnswers, PollCurrent, Replaced, IsTask, Fields
  <2> HIDE DEF r
  <2>3. IsTask([r EXCEPT !.pipeline = status])
        /\ [r EXCEPT !.pipeline = status].status = "verifying"
    BY <2>1, <2>2 DEF IsTask, Fields
  <2> QED BY <2>3 DEF r
<1> HIDE DEF seen
<1>3. ASSUME NEW x, IsTask(x), x.status = "verifying"
      PROVE  ~Waiting(waitingForRun(x)) /\ ~Waiting(NoDeadline(x)) /\ ~Waiting(Add(NoDeadline(x), c))
  <2>1. ~Waiting(x)
    BY <1>3 DEF Waiting
  <2>2. ~Waiting(NoDeadline(x)) /\ ~Waiting(OpenDeadline(x)) /\ IsTask(NoDeadline(x))
    BY <1>3, <2>1, NoDeadlineQuiet, OpenDeadlineQuiet, QuietAway DEF Quiet, Rests
  <2>3. ~Waiting(Add(NoDeadline(x), c))
    <3> DEFINE n == NoDeadline(x)
    <3>1. IsTask(n) /\ ~Waiting(n)
      BY <2>2
    <3> HIDE DEF n
    <3>2. ~Waiting(Add(n, c))
      BY <3>1 DEF Add, IsTask, Fields, Waiting, Stopped
    <3> QED BY <3>2 DEF n
  <2>4. ~Waiting([markVerificationStalled(x) EXCEPT !.poll = None])
    <3> DEFINE s == markVerificationStalled(x)
    <3>1. IsTask(s) /\ ~Waiting(s)
      BY <1>3, StalledAway
    <3> HIDE DEF s
    <3>2. ~Waiting([s EXCEPT !.poll = None])
      BY <3>1 DEF IsTask, Fields, Waiting, Stopped
    <3> QED BY <3>2 DEF s
  <2> QED BY <2>2, <2>3, <2>4 DEF waitingForRun
<1> HIDE DEF c
<1> QED BY <1>1, <1>2, <1>3, AwayBears

LEMMA RecoveryBears ==
    ASSUME Informed, Waits(host, attested), RecoveryFires
    PROVE  Bears(host', attested')
<1> DEFINE h == [host EXCEPT !.recovery = None]
           epoch == host.recovery
<1>1. /\ attested' = attested
      /\ \/ host' = h \/ host' = markVerificationStalled(h)
         \/ host' = tryDeliver(OpenDeadline(h), epoch, "recovery")
  BY DEF RecoveryFires, Idle
<1>2. Quiet(h, host) /\ IsTask(h)
  BY HostTask, FieldsQuiet DEF IsTask, Fields
<1> HIDE DEF h
<1>3. Bears(markVerificationStalled(h), attested')
  BY <1>2, StalledAway, AwayBears
<1>4. Quiet(OpenDeadline(h), host) /\ IsTask(OpenDeadline(h))
  BY <1>2, OpenDeadlineQuiet, QuietOn DEF Quiet, Rests
<1>5. Quiet(tryDeliver(OpenDeadline(h), epoch, "recovery"), host)
  BY <1>4, TryQuiet, QuietOn
<1> QED BY <1>1, <1>2, <1>3, <1>5, QuietBears

LEMMA LimitBears ==
    ASSUME Informed, Waits(host, attested), LimitFires
    PROVE  Bears(host', attested')
<1> DEFINE h == [host EXCEPT !.limit = None]
<1>1. attested' = attested /\ host' \in {h, markVerificationStalled(h)}
  BY DEF LimitFires, Idle
<1>2. Quiet(h, host) /\ IsTask(h)
  BY HostTask, FieldsQuiet DEF IsTask, Fields
<1> HIDE DEF h
<1>3. Bears(markVerificationStalled(h), attested')
  BY <1>2, StalledAway, AwayBears
<1> QED BY <1>1, <1>2, <1>3, QuietBears

LEMMA EvidenceFiresBears ==
    ASSUME Informed, Waits(host, attested), EvidenceFires
    PROVE  Bears(host', attested')
<1> DEFINE e == host.evidence
           h == [host EXCEPT !.evidence = None]
           d == Call("refresh", e.epoch, None, e.sha, None)
<1>1. attested' = attested /\ host' \in {h, tryDeliver(h, e.epoch, "call"), Add(h, d)}
  BY DEF EvidenceFires, Idle
<1>2. Quiet(h, host) /\ IsTask(h)
  BY HostTask, FieldsQuiet DEF IsTask, Fields
<1> HIDE DEF h
<1>3. IsCall(d) /\ d.owner \notin Delivering
  BY CallIs, NoneAssumption DEF Delivering
<1> HIDE DEF d
<1>4. Quiet(tryDeliver(h, e.epoch, "call"), host) /\ Quiet(Add(h, d), host)
  BY <1>2, <1>3, TryQuiet, AddQuiet, QuietOn
<1> QED BY <1>1, <1>2, <1>4, QuietBears

LEMMA RepairFiresBears ==
    ASSUME Informed, Waits(host, attested), RepairFires
    PROVE  Bears(host', attested')
<1> DEFINE e == host.repair
           h == [host EXCEPT !.repair = None]
           d == Call("red", e.epoch, None, e.sha, None)
<1>1. attested' = attested /\ host' \in {h, dispatchCiRepair(h, d)}
  BY DEF RepairFires, Idle
<1>2. Quiet(h, host)
  BY HostTask, FieldsQuiet DEF IsTask, Fields
<1> HIDE DEF h
<1>3. IsCall(d) /\ d.owner \notin Delivering
  BY CallIs, NoneAssumption DEF Delivering
<1> HIDE DEF d
<1>4. Bears(dispatchCiRepair(h, d), attested')
  BY <1>1, <1>2, <1>3, OwnedVain, DispatchBears
<1> QED BY <1>1, <1>2, <1>4, QuietBears

LEMMA ExpireBears ==
    ASSUME Informed, Waits(host, attested), Expire
    PROVE  Bears(host', attested')
<1> DEFINE p == [host EXCEPT !.verify_deadline = "past"]
           g == [host EXCEPT !.gap = "late"]
<1>1. attested' = attested /\ host' \in {p, g}
  BY DEF Expire, Idle
<1>2. Quiet(p, host)
  BY HostTask, FieldsQuiet DEF IsTask, Fields
<1>3. Quiet(g, host)
  BY HostTask, FieldsQuiet DEF IsTask, Fields
<1> HIDE DEF p, g
<1> QED BY <1>1, <1>2, <1>3, QuietBears

-----------------------------------------------------------------------------
\* The watcher, and what users ask for.

LEMMA LooksBears ==
    ASSUME Inv, Informed, Waits(host, attested), WatchLooks
    PROVE  Bears(host', attested')
<1> DEFINE call(owner) == Call("settle", host.controlEpoch, owner, {}, None)
           busy == [host EXCEPT !.watch = "busy"]
           off == [host EXCEPT !.watch = "off"]
           back == [host EXCEPT !.closed = FALSE, !.loop = "halted"]
           next == [host EXCEPT !.closed = FALSE, !.watch = "act",
                                !.view = [sha |-> site.branch,
                                          red |-> site.run[site.branch] = "failed"]]
<1>1. /\ attested' = attested
      /\ \/ host' = off \/ host' = enqueueRepair(back) \/ host' = next
         \/ host' = settleMergeState(busy, call("merged"), "merged")
         \/ host' = settleMergeState(busy, call("watch"), "closed")
  BY DEF WatchLooks, Idle
<1>2. IsTask(host)
  BY HostTask
<1>3. Quiet(off, host) /\ Quiet(busy, host)
  BY <1>2, FieldsQuiet DEF IsTask, Fields
<1>4. Quiet(next, host)
  <2>1. /\ DOMAIN next = Fields /\ next.calls = host.calls /\ next.sha = host.sha
        /\ next.controlEpoch = host.controlEpoch /\ next.stalled = host.stalled
        /\ next.status = host.status /\ next.loop = host.loop
        /\ next.deliveryActive = host.deliveryActive
    BY <1>2 DEF IsTask, Fields
  <2> HIDE DEF next
  <2> QED BY <1>2, <2>1, FieldsQuiet
<1>5. Bears(enqueueRepair(back), attested')
  <2>1. IsTask(back)
    BY <1>2 DEF IsTask, Fields
  <2> HIDE DEF back
  <2> QED BY <2>1, StatusAway, AwayBears DEF enqueueRepair
<1>6. ASSUME NEW owner \in {"merged", "watch"}, NEW state
      PROVE  Bears(settleMergeState(busy, call(owner), state), attested')
  <2>1. IsCall(call(owner)) /\ call(owner).owner \notin Delivering
    BY CallIs DEF Delivering
  <2> HIDE DEF call, busy
  <2> QED BY <1>1, <1>3, <2>1, OwnedVain, SettleBears
<1> HIDE DEF off, back, next, busy, call
<1> QED BY <1>1, <1>3, <1>4, <1>5, <1>6, QuietBears

LEMMA ActsBears ==
    ASSUME Inv, Informed, Waits(host, attested), WatchActs
    PROVE  Bears(host', attested')
<1> DEFINE wait == [host EXCEPT !.watch = "wait", !.view = None]
           busy == [wait EXCEPT !.watch = "busy"]
           d == Call("red", host.controlEpoch, "watch", host.sha, None)
<1>1. /\ attested' = attested
      /\ host' \in {wait, markVerificationStalled(wait), dispatchCiRepair(busy, d)}
  BY DEF WatchActs, Idle
<1>2. IsTask(host)
  BY HostTask
<1>3. Quiet(wait, host) /\ IsTask(wait)
  BY <1>2, FieldsQuiet DEF IsTask, Fields
<1> HIDE DEF wait
<1>4. Quiet(busy, host)
  <2>1. Quiet(busy, wait)
    BY <1>3, FieldsQuiet DEF IsTask, Fields
  <2> QED BY <1>3, <2>1, QuietOn
<1> HIDE DEF busy
<1>5. IsCall(d) /\ d.owner \notin Delivering
  BY CallIs DEF Delivering
<1> HIDE DEF d
<1>6. Bears(dispatchCiRepair(busy, d), attested')
  BY <1>1, <1>4, <1>5, OwnedVain, DispatchBears
<1> QED BY <1>1, <1>3, <1>6, QuietBears, StalledAway, AwayBears

LEMMA PauseBears ==
    ASSUME Informed, Pause
    PROVE  Bears(host', attested')
<1>1. host'.status = "paused"
  BY HostTask DEF Pause, Taken, IsTask, Fields
<1> QED BY <1>1, AwayBears DEF Waiting

LEMMA ResumeBears ==
    ASSUME Informed, Resume
    PROVE  Bears(host', attested')
<1> DEFINE v == [Taken EXCEPT !.status = "verifying", !.from = None]
           q == [Taken EXCEPT !.status = "queued", !.from = None]
<1>1. host' \in {pollPipeline(v, host.controlEpoch + 1), q}
  BY DEF Resume
<1>2. IsTask(v) /\ ~Waiting(v) /\ ~Waiting(q)
  BY HostTask DEF Taken, IsTask, Fields, Waiting
<1> HIDE DEF v, q
<1>3. ~Waiting(pollPipeline(v, host.controlEpoch + 1))
  BY <1>2, PollQuiet, QuietAway DEF Quiet
<1> QED BY <1>1, <1>2, <1>3, AwayBears

LEMMA InterruptBears ==
    ASSUME Informed, Interrupt
    PROVE  Bears(host', attested')
<1>1. host'.status = "queued"
  BY HostTask DEF Interrupt, enqueueRepair, Taken, IsTask, Fields
<1> QED BY <1>1, AwayBears DEF Waiting

LEMMA RetryBears ==
    ASSUME Inv, Informed, Waits(host, attested), Retry
    PROVE  Bears(host', attested')
<1> DEFINE r == NoDeadline(Replaced(host))
           lifted == [r EXCEPT !.pipeline = "retry", !.stalled = FALSE]
           d == Call("red", host.controlEpoch, None, host.sha, None)
           x == [host EXCEPT !.gap = "retrying", !.pipeline = "failed"]
           q == [lifted EXCEPT !.loop = None, !.round = 0, !.max = None,
                               !.gap = None, !.status = "queued"]
<1>1. /\ attested' = attested /\ host.status = "verifying"
      /\ host' \in {dispatchCiRepair(x, d), tryDeliver(lifted, host.controlEpoch, "call"), q}
  BY DEF Retry
<1>2. IsTask(host)
  BY HostTask
<1>3. Bears(dispatchCiRepair(x, d), attested')
  <2>1. Quiet(x, host)
    BY <1>2, FieldsQuiet DEF IsTask, Fields
  <2>2. IsCall(d) /\ d.owner \notin Delivering
    BY CallIs, NoneAssumption DEF Delivering
  <2> HIDE DEF x, d
  <2> QED BY <1>1, <2>1, <2>2, OwnedVain, DispatchBears
<1>4. IsTask(r) /\ r.status = "verifying"
  <2>1. IsTask(r)
    BY <1>2, ReplacedLean, NoDeadlineLean DEF Lean
  <2>2. r.status = host.status
    BY <1>2 DEF Replaced, NoDeadline, IsTask, Fields
  <2> QED BY <1>1, <2>1, <2>2
<1> HIDE DEF r
<1>5. IsTask(lifted) /\ ~Waiting(lifted)
  BY <1>4 DEF IsTask, Fields, Waiting
<1> HIDE DEF lifted
<1>6. ~Waiting(q)
  <2>1. q.status = "queued"
    BY <1>5 DEF IsTask, Fields
  <2> QED BY <2>1 DEF Waiting
<1> HIDE DEF q
<1>7. ~Waiting(tryDeliver(lifted, host.controlEpoch, "call"))
  BY <1>5, TryQuiet, QuietAway DEF Quiet
<1> QED BY <1>1, <1>3, <1>6, <1>7, AwayBears

-----------------------------------------------------------------------------
\* The stages of a delivery.

\* The task is under the delivery c, and no other, since the step began.
Led(h, c) ==
    /\ IsTask(h) /\ h.controlEpoch = host.controlEpoch /\ h.deliveryActive
    /\ \A d \in h.calls \ {c} : d.owner \notin Delivering

LEMMA StageLed ==
    ASSUME Inv, Informed, NEW c \in host.calls, c.kind \in Stages
    PROVE  /\ Led(host, c) /\ c.owner \in Delivering /\ IsCall(c)
           /\ c.kind # "artifacts" /\ host.deliveryActive
<1>1. c.owner \in Delivering
  BY StageCall
<1>2. OneDelivery(host)
  BY DEF Inv, Keeps
<1> QED BY <1>1, <1>2, HostTask DEF Led, OneDelivery, Stages

LEMMA FieldsLed ==
    ASSUME NEW g, NEW h, NEW c, Led(h, c), DOMAIN g = Fields, g.calls = h.calls,
           g.controlEpoch = h.controlEpoch, g.deliveryActive = h.deliveryActive
    PROVE  Led(g, c)
BY DEF Led, IsTask

LEMMA ReplacedLed ==
    ASSUME NEW h, NEW c, Led(h, c), IsCall(c), c.kind # "artifacts"
    PROVE  LET g == Replaced(h) IN
           /\ Led(g, c) /\ g.sha = h.sha /\ g.status = h.status /\ g.loop = h.loop
           /\ g.stalled = h.stalled
<1> DEFINE g == Replaced(h)
<1>1. IsTask(h)
  BY DEF Led
<1>2. Lean(Drop(g, c), Drop(h, c)) /\ IsTask(g)
  BY <1>1, ReplacedLean, LeanDrop DEF Lean
<1>3. Drop(g, c).calls = g.calls \ {c} /\ Drop(h, c).calls = h.calls \ {c}
  BY <1>1, <1>2, DropFields DEF IsTask
<1>4. /\ g.sha = h.sha /\ g.controlEpoch = h.controlEpoch /\ g.stalled = h.stalled
      /\ g.status = h.status /\ g.loop = h.loop /\ g.deliveryActive = h.deliveryActive
  BY <1>1 DEF Replaced, IsTask, Fields
<1> HIDE DEF g
<1>5. \A d \in g.calls \ {c} : d.owner \notin Delivering
  BY <1>2, <1>3 DEF Led, Lean, Resembles
<1> QED BY <1>2, <1>4, <1>5 DEF Led, g

LEMMA WatchedLed ==
    ASSUME NEW h, NEW c, Led(h, c)
    PROVE  Led(ensureMergeWatch(h), c)
<1>1. Led([h EXCEPT !.watch = "wait"], c)
  BY FieldsLed DEF Led, IsTask, Fields
<1> QED BY <1>1 DEF ensureMergeWatch

LEMMA ReceiptLed ==
    ASSUME NEW h, NEW c, Led(h, c), IsCall(c), c.kind # "artifacts", NEW sha
    PROVE  LET g == projectPushReceipt(h, sha) IN
           Led(g, c) /\ g.sha = sha /\ (Waiting(g) => Waiting(h))
<1> DEFINE r == Replaced(h)
           n == NoDeadline(r)
           k == [n EXCEPT !.sha = sha, !.pipeline = None, !.gap = None]
<1>1. /\ Led(r, c) /\ IsTask(r) /\ r.sha = h.sha /\ r.status = h.status /\ r.loop = h.loop
      /\ r.stalled = h.stalled
  BY ReplacedLed DEF Led
<1>2. projectPushReceipt(h, sha) = IF h.sha = sha THEN r ELSE k
  BY DEF projectPushReceipt
<1> HIDE DEF r
<1>3. /\ DOMAIN k = Fields /\ k.calls = r.calls /\ k.controlEpoch = r.controlEpoch
      /\ k.deliveryActive = r.deliveryActive /\ k.sha = sha /\ k.status = r.status
      /\ k.loop = r.loop /\ k.stalled = r.stalled
  BY <1>1 DEF NoDeadline, IsTask, Fields
<1> HIDE DEF k
<1>4. Led(k, c)
  BY <1>1, <1>3, FieldsLed
<1> QED BY <1>1, <1>2, <1>3, <1>4 DEF Waiting, Stopped

LEMMA RequestLed ==
    ASSUME NEW h, NEW c, Led(h, c), IsCall(c), c.kind # "artifacts"
    PROVE  Led(ensureMergeWatch([Replaced(h) EXCEPT !.mr = TRUE]), c)
<1> DEFINE r == Replaced(h)
<1>1. Led(r, c)
  BY ReplacedLed
<1> HIDE DEF r
<1>2. Led([r EXCEPT !.mr = TRUE], c)
  BY <1>1, FieldsLed DEF Led, IsTask, Fields
<1> QED BY <1>2, WatchedLed DEF r

LEMMA ReconciledLed ==
    ASSUME Inv, Informed, NEW c \in host.calls, c.kind \in Stages
    PROVE  Led(Reconciled, c)
<1> DEFINE k == ensureMergeWatch([Replaced(host) EXCEPT !.mr = TRUE])
<1>1. Led(host, c) /\ Led(k, c) /\ IsCall(c) /\ c.kind # "artifacts"
  BY StageLed, RequestLed
<1>2. Reconciled \in {k, host, projectPushReceipt(k, head), projectPushReceipt(host, head)}
  BY DEF Reconciled
<1> HIDE DEF k
<1> QED BY <1>1, <1>2, ReceiptLed

\* The delivery goes on to its next stage, or ends.

LEMMA OnBears ==
    ASSUME NEW h, NEW c, Led(h, c), IsCall(c), Current(h, c.epoch),
           NEW kind \in Stages, NEW sha, NEW how,
           kind \in {"check", "confirm"} => how = h.stalled, NEW passed
    PROVE  Bears(Go(h, c, kind, sha, how), passed)
<1> DEFINE d == Gone(c, kind, sha, how)
           g == Go(h, c, kind, sha, how)
<1>1. /\ g.calls = (h.calls \ {c}) \cup {d} /\ g.controlEpoch = h.controlEpoch
      /\ g.stalled = h.stalled /\ g.deliveryActive = h.deliveryActive
  <2>1. IsTask(h)
    BY DEF Led
  <2> QED BY <2>1, GoFields
<1>2. d.kind = kind /\ d.epoch = c.epoch /\ d.how = how
  BY CallGoes
<1> HIDE DEF d, g
<1>3. Vouched(g, d, passed)
  BY <1>1, <1>2 DEF Vouched, Carries, Current
<1>4. \A e \in g.calls : e.owner \in Delivering => e = d
  BY <1>1 DEF Led
<1>5. ~Unverified(g, passed)
  BY <1>1 DEF Unverified, Led
<1> QED BY <1>3, <1>4, <1>5 DEF Bears, Waits, g

LEMMA EndBears ==
    ASSUME NEW h, NEW c, Led(h, c), NEW passed, Waiting(h) => h.sha \in passed
    PROVE  Bears(Return(h, c), passed)
<1> DEFINE g == Return(h, c)
<1>1. Rests(g, h) /\ (Waiting(g) => g.calls = h.calls \ {c})
  BY ReturnRests DEF Led
<1> HIDE DEF g
<1>2. Waits(g, passed)
  BY <1>1 DEF Waits, Led
<1>3. ~Unverified(g, passed)
  BY <1>1 DEF Unverified, Rests, Waiting
<1> QED BY <1>2, <1>3 DEF Bears, g

\* One that was overtaken leaves the task as it was.
LEMMA IdleBears ==
    ASSUME Inv, Informed, Waits(host, attested), NEW c \in host.calls, c.kind \in Stages,
           ~Carries(host, c)
    PROVE  Bears(Return(host, c), attested)
<1>1. Led(host, c) /\ c.owner \in Delivering
  BY StageLed
<1>2. Waiting(host) => host.sha \in attested
  BY <1>1 DEF Waits, Vouched
<1> QED BY <1>1, <1>2, EndBears

LEMMA FailedBears ==
    ASSUME Inv, Informed, Waits(host, attested), NEW c \in host.calls, c.kind \in Stages,
           NEW g \in Failed(host, c)
    PROVE  Bears(g, attested)
<1> DEFINE w == holdWithRecovery(host, c.epoch)
           s == markVerificationStalled(host)
<1>1. \/ ~Current(host, c.epoch) /\ g = Return(host, c)
      \/ g = Return(w, c) \/ g = Return(s, c)
  BY DEF Failed
<1>2. ~Current(host, c.epoch) => ~Carries(host, c)
  BY DEF Current, Carries
<1>3. IsTask(w) /\ ~Waiting(w) /\ IsTask(s) /\ ~Waiting(s)
  BY HostTask, HeldAway, StalledAway
<1> HIDE DEF w, s
<1> QED BY <1>1, <1>2, <1>3, IdleBears, ReturnAway, AwayBears

LEMMA PushedBears ==
    ASSUME NEW h, NEW c, Led(h, c), IsCall(c), c.kind # "artifacts", NEW existing, NEW passed,
           Current(h, c.epoch) \/ (Waiting(h) => c.sha \in passed)
    PROVE  Bears(Pushed(h, c, existing), passed)
<1> DEFINE g == projectPushReceipt(h, c.sha)
           k == [g EXCEPT !.status = "verifying"]
           was == IF existing /\ h.mr THEN h.pipeline ELSE None
           how == IF existing /\ h.pipeline # "retry" THEN "ask" ELSE "trigger"
<1>1. /\ Led(g, c) /\ g.sha = c.sha /\ (Waiting(g) => Waiting(h)) /\ IsTask(g)
      /\ g.controlEpoch = h.controlEpoch
  BY ReceiptLed DEF Led
<1>2. \/ ~Current(g, c.epoch) /\ Pushed(h, c, existing) = Return(g, c)
      \/ Pushed(h, c, existing) = pipelineVerdict(k, c, was)
      \/ Pushed(h, c, existing) = Return(pollPipeline(k, c.epoch), c)
      \/ Current(g, c.epoch) /\ Pushed(h, c, existing) = Go(g, c, "create", c.sha, how)
  BY DEF Pushed
<1> HIDE DEF g, was, how
<1>3. IsTask(k) /\ ~Waiting(k)
  BY <1>1, StatusAway
<1> HIDE DEF k
<1>4. ~Waiting(pipelineVerdict(k, c, was))
  BY <1>3, VerdictAway
<1>5. ~Waiting(Return(pollPipeline(k, c.epoch), c))
  <2>1. IsTask(pollPipeline(k, c.epoch)) /\ ~Waiting(pollPipeline(k, c.epoch))
    BY <1>3, PollQuiet, QuietAway DEF Quiet, Rests
  <2> QED BY <2>1, ReturnAway
<1>6. ~Current(g, c.epoch) => Bears(Return(g, c), passed)
  BY <1>1, EndBears DEF Current
<1>7. Current(g, c.epoch) => Bears(Go(g, c, "create", c.sha, how), passed)
  BY <1>1, OnBears DEF Stages
<1> QED BY <1>2, <1>4, <1>5, <1>6, <1>7, AwayBears

-----------------------------------------------------------------------------
\* A run is taken over: the task verifies.
LEMMA AcceptAway ==
    ASSUME NEW h, IsTask(h), NEW c, IsCall(c), NEW run
    PROVE  ~Waiting(acceptPipelineRun(h, c, run))
<1> DEFINE r == Replaced(h)
           k == [r EXCEPT !.pipeline = run, !.status = "verifying", !.stalled = FALSE,
                          !.gap = None, !.loop = IF h.round = 0 THEN @ ELSE "verifying"]
           g == ensureMergeWatch(k)
<1>1. IsTask(r)
  BY ReplacedLean DEF Lean
<1>2. \/ acceptPipelineRun(h, c, run) = pipelineVerdict(g, c, run)
      \/ acceptPipelineRun(h, c, run) = Return(pollPipeline(g, c.epoch), c)
  BY DEF acceptPipelineRun
<1> HIDE DEF r
<1>3. IsTask(k) /\ ~Waiting(k)
  <2>1. DOMAIN k = Fields /\ k.calls = r.calls /\ k.status = "verifying"
    BY <1>1 DEF IsTask, Fields
  <2> HIDE DEF k
  <2> QED BY <1>1, <2>1 DEF IsTask, Waiting
<1> HIDE DEF k
<1>4. IsTask(g) /\ ~Waiting(g)
  BY <1>3, WatchedQuiet, QuietAway DEF Quiet, Rests
<1> HIDE DEF g
<1>5. IsTask(pollPipeline(g, c.epoch)) /\ ~Waiting(pollPipeline(g, c.epoch))
  BY <1>4, PollQuiet, QuietAway DEF Quiet, Rests
<1> QED BY <1>2, <1>4, <1>5, VerdictAway, ReturnAway

LEMMA CheckBears ==
    ASSUME Inv, Informed, Waits(host, attested), NEW c \in host.calls,
           c.kind \in {"check", "confirm"}, CheckEnds(c)
    PROVE  Bears(host', attested)
<1>1. c.kind \in Stages /\ IsCall(c) /\ Quiet(host, host)
  BY HostTask DEF Stages
<1>2. Overtaken(c) \/ host.stalled # c.how => Bears(Return(host, c), attested)
  <2>1. Overtaken(c) \/ host.stalled # c.how => ~Carries(host, c)
    BY DEF Overtaken, Carries, Current
  <2> QED BY <1>1, <2>1, IdleBears
<1>3. ~Overtaken(c) => Bears(settleMergeState(host, c, site.mr), attested)
  <2>1. ~Overtaken(c) => Concerned(c)
    BY DEF Overtaken, Concerned
  <2> QED BY <1>1, <2>1, SettleBears
<1>4. \A g \in Failed(host, c) : Bears(g, attested)
  BY <1>1, FailedBears
<1> QED BY <1>2, <1>3, <1>4 DEF CheckEnds

LEMMA ChecksBears ==
    ASSUME Inv, Informed, Waits(host, attested), NEW c \in host.calls, DeliverChecks(c)
    PROVE  Bears(host', attested')
<1>1. /\ c.kind = "check" /\ c.kind \in Stages /\ IsCall(c) /\ attested' = attested
  BY HostTask DEF DeliverChecks, Stages, Idle
<1>2. CASE CheckEnds(c)
  BY <1>1, <1>2, CheckBears
<1>3. CASE ~CheckEnds(c)
  <2> DEFINE h == Reconciled
             k == enterRepairVerification(h)
  <2>1. host' = Go(k, c, "sync", {}, h.stalled) /\ Current(host, c.epoch)
    BY <1>3 DEF DeliverChecks, Proceeds, Overtaken
  <2>2. Led(h, c)
    BY <1>1, ReconciledLed
  <2> HIDE DEF h
  <2>3. Led(k, c) /\ k.controlEpoch = h.controlEpoch
    BY <2>2, FieldsLed DEF Led, enterRepairVerification, IsTask, Fields
  <2> HIDE DEF k
  <2>4. Current(k, c.epoch)
    BY <2>1, <2>2, <2>3 DEF Led, Current
  <2> QED BY <1>1, <2>1, <2>3, <2>4, OnBears DEF Stages
<1> QED BY <1>2, <1>3

LEMMA SyncsBears ==
    ASSUME Inv, Informed, Waits(host, attested), NEW c \in host.calls, DeliverSyncs(c)
    PROVE  Bears(host', attested')
<1> DEFINE d == [c EXCEPT !.sha = head']
           h == Add(Drop(host, c), d)
           q == enqueueRepair(host)
<1>1. /\ c.kind = "sync" /\ c.kind \in Stages /\ IsCall(c) /\ attested' = attested
      /\ IsTask(host) /\ Led(host, c)
  BY HostTask, StageLed DEF DeliverSyncs, Stages
<1>2. \/ ~Current(host, c.epoch) /\ host' = Return(host, c)
      \/ /\ Current(host, c.epoch)
         /\ host' = Pushed(h, d, TRUE) \/ host' = Go(host, c, "confirm", head', host.stalled)
      \/ host' = Return(q, c) \/ host' \in Failed(host, c)
  BY DEF DeliverSyncs
<1>3. ~Current(host, c.epoch) => Bears(Return(host, c), attested)
  BY <1>1, IdleBears DEF Carries, Current
<1>4. Current(host, c.epoch) => Bears(Pushed(h, d, TRUE), attested)
  <2>1. IsCall(d) /\ d.kind = c.kind /\ d.epoch = c.epoch
    BY <1>1, CallTakes
  <2> HIDE DEF d
  <2>2. /\ DOMAIN h = Fields /\ h.calls = (host.calls \ {c}) \cup {d}
        /\ h.controlEpoch = host.controlEpoch /\ h.deliveryActive = host.deliveryActive
    BY <1>1 DEF Add, Drop, IsTask, Fields
  <2> HIDE DEF h
  <2>3. Led(h, d)
    BY <1>1, <2>1, <2>2 DEF Led, IsTask
  <2>4. Current(host, c.epoch) => Current(h, d.epoch)
    BY <2>1, <2>2 DEF Current
  <2> QED BY <1>1, <2>1, <2>3, <2>4, PushedBears
<1>5. Current(host, c.epoch) => Bears(Go(host, c, "confirm", head', host.stalled), attested)
  BY <1>1, OnBears DEF Stages
<1>6. Bears(Return(q, c), attested)
  <2>1. IsTask(q) /\ ~Waiting(q)
    BY <1>1, StatusAway DEF enqueueRepair
  <2> QED BY <2>1, ReturnAway, AwayBears
<1>7. \A g \in Failed(host, c) : Bears(g, attested)
  BY <1>1, FailedBears
<1> HIDE DEF d, h, q
<1> QED BY <1>1, <1>2, <1>3, <1>4, <1>5, <1>6, <1>7

LEMMA ConfirmsBears ==
    ASSUME Inv, Informed, Waits(host, attested), NEW c \in host.calls, DeliverConfirms(c)
    PROVE  Bears(host', attested')
<1>1. /\ c.kind = "confirm" /\ c.kind \in Stages /\ IsCall(c) /\ attested' = attested
  BY HostTask DEF DeliverConfirms, Stages, Idle
<1>2. CASE CheckEnds(c)
  BY <1>1, <1>2, CheckBears
<1>3. CASE ~CheckEnds(c)
  <2> DEFINE h == Reconciled
  <2>1. /\ host' \in {Pushed(h, c, TRUE), Go(h, c, "push", c.sha, None)}
        /\ Current(host, c.epoch)
    BY <1>3 DEF DeliverConfirms, Proceeds, Overtaken
  <2>2. Led(h, c)
    BY <1>1, ReconciledLed
  <2> HIDE DEF h
  <2>3. Current(h, c.epoch)
    BY <2>1, <2>2 DEF Led, Current
  <2>4. Bears(Pushed(h, c, TRUE), attested)
    BY <1>1, <2>2, <2>3, PushedBears
  <2>5. Bears(Go(h, c, "push", c.sha, None), attested)
    BY <1>1, <2>2, <2>3, OnBears DEF Stages
  <2> QED BY <1>1, <2>1, <2>4, <2>5
<1> QED BY <1>2, <1>3

\* A push that was overtaken brought the commit that the kernel passed.
LEMMA PushesBears ==
    ASSUME Inv, Informed, Waits(host, attested), NEW c \in host.calls, DeliverPushes(c)
    PROVE  Bears(host', attested')
<1>1. /\ c.kind = "push" /\ c.kind \in Stages /\ attested' = attested
      /\ \/ host' = Pushed(host, c, FALSE)
         \/ Current(host, c.epoch) /\ host' = Go(host, c, "sync", {}, host.stalled)
         \/ ~Current(host, c.epoch) /\ host' = Return(host, c)
         \/ host' \in Failed(host, c)
  BY DEF DeliverPushes, Stages, Idle
<1>2. Led(host, c) /\ c.owner \in Delivering /\ IsCall(c) /\ c.kind # "artifacts"
  BY <1>1, StageLed
<1>3. ~Current(host, c.epoch) => ~Carries(host, c)
  BY DEF Carries, Current
<1>4. Bears(Pushed(host, c, FALSE), attested)
  <2>1. Current(host, c.epoch) \/ (Waiting(host) => c.sha \in attested)
    BY <1>1, <1>2, <1>3 DEF Waits, Vouched, Current
  <2> QED BY <1>2, <2>1, PushedBears
<1>5. Current(host, c.epoch) => Bears(Go(host, c, "sync", {}, host.stalled), attested)
  BY <1>2, OnBears DEF Stages
<1>6. ~Current(host, c.epoch) => Bears(Return(host, c), attested)
  BY <1>1, <1>3, IdleBears
<1>7. \A g \in Failed(host, c) : Bears(g, attested)
  BY <1>1, FailedBears
<1> QED BY <1>1, <1>4, <1>5, <1>6, <1>7

LEMMA CreatesBears ==
    ASSUME Inv, Informed, Waits(host, attested), NEW c \in host.calls, DeliverCreates(c)
    PROVE  Bears(host', attested')
<1> DEFINE k == ensureMergeWatch([Replaced(host) EXCEPT !.mr = TRUE])
<1>1. /\ c.kind = "create" /\ c.kind \in Stages /\ attested' = attested
      /\ \/ ~Current(host, c.epoch) /\ host' = Return(host, c)
         \/ Current(host, c.epoch) /\ host' = Go(k, c, c.how, c.sha, None)
         \/ host' \in Failed(host, c)
  BY DEF DeliverCreates, Stages, Idle
<1>2. Led(host, c) /\ IsCall(c) /\ c.kind # "artifacts"
  BY <1>1, StageLed
<1>3. Led(k, c)
  BY <1>2, RequestLed
<1> HIDE DEF k
<1>4. c.how \in {"ask", "trigger"}
  BY <1>1 DEF Inv, Keeps, Pushes, Meant
<1>5. Current(host, c.epoch) => Bears(Go(k, c, c.how, c.sha, None), attested)
  <2>1. Current(host, c.epoch) => Current(k, c.epoch)
    BY <1>3 DEF Led, Current
  <2> QED BY <1>2, <1>3, <1>4, <2>1, OnBears DEF Stages
<1>6. ~Current(host, c.epoch) => Bears(Return(host, c), attested)
  BY <1>1, IdleBears DEF Carries, Current
<1>7. \A g \in Failed(host, c) : Bears(g, attested)
  BY <1>1, FailedBears
<1> QED BY <1>1, <1>5, <1>6, <1>7

LEMMA AsksBears ==
    ASSUME Inv, Informed, Waits(host, attested), NEW c \in host.calls, DeliverAsks(c)
    PROVE  Bears(host', attested')
<1> DEFINE run == Reported(site.run[c.sha])
<1>1. /\ c.kind = "ask" /\ c.kind \in Stages /\ attested' = attested
      /\ \/ ~Current(host, c.epoch) /\ host' = Return(host, c)
         \/ Current(host, c.epoch) /\ host' = Go(host, c, "trigger", c.sha, None)
         \/ host' = acceptPipelineRun(host, c, run)
         \/ host' \in Failed(host, c)
  BY DEF DeliverAsks, Stages, Idle
<1> HIDE DEF run
<1>2. Led(host, c) /\ IsCall(c) /\ IsTask(host)
  BY <1>1, StageLed, HostTask
<1>3. Current(host, c.epoch) => Bears(Go(host, c, "trigger", c.sha, None), attested)
  BY <1>2, OnBears DEF Stages
<1>4. Bears(acceptPipelineRun(host, c, run), attested)
  BY <1>2, AcceptAway, AwayBears
<1>5. ~Current(host, c.epoch) => Bears(Return(host, c), attested)
  BY <1>1, IdleBears DEF Carries, Current
<1>6. \A g \in Failed(host, c) : Bears(g, attested)
  BY <1>1, FailedBears
<1> QED BY <1>1, <1>3, <1>4, <1>5, <1>6

LEMMA TriggersBears ==
    ASSUME Inv, Informed, Waits(host, attested), NEW c \in host.calls, DeliverTriggers(c)
    PROVE  Bears(host', attested')
<1> DEFINE run == Reported(site.run[c.sha])
           n == NoDeadline(host)
           k == [n EXCEPT !.closed = FALSE]
<1>1. /\ c.kind = "trigger" /\ c.kind \in Stages /\ attested' = attested
      /\ \/ ~Current(host, c.epoch) /\ host' = Return(host, c)
         \/ host' = acceptPipelineRun(k, c, run)
         \/ host' \in Failed(host, c)
  BY DEF DeliverTriggers, Stages, Idle
<1> HIDE DEF run
<1>2. IsCall(c) /\ IsTask(n)
  BY HostTask, NoDeadlineLean DEF Lean
<1> HIDE DEF n
<1>3. IsTask(k)
  BY <1>2 DEF IsTask, Fields
<1> HIDE DEF k
<1>4. Bears(acceptPipelineRun(k, c, run), attested)
  BY <1>2, <1>3, AcceptAway, AwayBears
<1>5. ~Current(host, c.epoch) => Bears(Return(host, c), attested)
  BY <1>1, IdleBears DEF Carries, Current
<1>6. \A g \in Failed(host, c) : Bears(g, attested)
  BY <1>1, FailedBears
<1> QED BY <1>1, <1>4, <1>5, <1>6

LEMMA ArrivesBears ==
    ASSUME Inv, Informed, Waits(host, attested), NEW c \in host.calls, Arrives(c)
    PROVE  Bears(host', attested')
<1> DEFINE d == [c EXCEPT !.mark = TRUE]
           f == Drop(host, c)
           g == Add(f, d)
<1>1. /\ c.kind \in {"push", "create", "trigger"} /\ host' = g /\ attested' = attested
      /\ IsTask(host) /\ IsCall(c)
  BY HostTask DEF Arrives
<1>2. IsCall(d) /\ Like(d, c)
  <2>1. TRUE \in BOOLEAN
    OBVIOUS
  <2>2. /\ IsCall(d) /\ d.kind = c.kind /\ d.epoch = c.epoch /\ d.owner = c.owner
        /\ d.sha = c.sha /\ d.how = c.how
    BY <1>1, <2>1, CallMarked
  <2> QED BY <1>1, <2>2 DEF Like
<1> HIDE DEF d
<1>3. /\ DOMAIN g = Fields /\ g.calls = (host.calls \ {c}) \cup {d} /\ g.sha = host.sha
      /\ g.controlEpoch = host.controlEpoch /\ g.stalled = host.stalled
      /\ g.status = host.status /\ g.loop = host.loop
      /\ g.deliveryActive = host.deliveryActive
  BY <1>1 DEF Add, Drop, IsTask, Fields
<1> HIDE DEF g
<1>4. \A e \in g.calls : \E x \in host.calls : Like(e, x)
  BY <1>2, <1>3 DEF Like
<1>5. Quiet(g, host)
  BY <1>1, <1>2, <1>3, <1>4 DEF Quiet, Rests, IsTask, Waiting, Stopped
<1> QED BY <1>1, <1>5, QuietBears

-----------------------------------------------------------------------------
\* The process starts again: no delivery is under way.

LEMMA DispatchAway ==
    ASSUME NEW h, IsTask(h), ~Waiting(h), NEW c, IsCall(c)
    PROVE  ~Waiting(dispatchCiRepair(h, c)) /\ IsTask(dispatchCiRepair(h, c))
<1> DEFINE k == [h EXCEPT !.loop = "exhausted", !.pipeline = "failed"]
<1>1. dispatchCiRepair(h, c) \in {Return(h, c), Return(k, c), Go(h, c, "artifacts", c.sha, None)}
  BY DEF dispatchCiRepair
<1>2. IsTask(k) /\ ~Waiting(k)
  BY DEF IsTask, Fields, Waiting, Stopped
<1> HIDE DEF k
<1> QED BY <1>1, <1>2, ReturnAway, GoAway

LEMMA CrashWaits ==
    ASSUME Informed, Crash
    PROVE  Waiting(host') => host'.calls = {} /\ Waiting(host) /\ host'.sha = host.sha
<1> DEFINE h == [host EXCEPT
                   !.controlEpoch = 0, !.driver = None, !.stopping = None,
                   !.deliveryActive = FALSE, !.calls = {}, !.poll = None, !.recovery = None,
                   !.limit = None, !.evidence = None, !.repair = None,
                   !.watch = "off", !.view = None]
           g == recover(h)
<1>1. host' = ensureMergeWatch(g)
  BY DEF Crash, Restarted
<1>2. /\ DOMAIN h = Fields /\ h.calls = {} /\ h.sha = host.sha /\ h.status = host.status
      /\ h.loop = host.loop /\ h.stalled = host.stalled
  BY HostTask DEF IsTask, Fields
<1> HIDE DEF h
<1>3. IsTask(h)
  BY <1>2 DEF IsTask
<1>4. CASE h.status = "await_merge"
  <2>1. g = h
    BY <1>4 DEF recover
  <2>2. /\ host'.calls = h.calls /\ host'.sha = h.sha /\ host'.status = h.status
        /\ host'.loop = h.loop /\ host'.stalled = h.stalled
    BY <1>1, <1>3, <2>1 DEF ensureMergeWatch, IsTask, Fields
  <2> QED BY <1>2, <2>2 DEF Waiting, Stopped
<1>5. CASE h.status # "await_merge"
  <2> DEFINE d == Call("red", 0, None, h.sha, None)
             v == Call("verdict", 0, None, h.sha, "success")
             q == [h EXCEPT !.status = "queued"]
  <2>1. \/ g = q \/ g = h \/ g = tryDeliver(h, 0, "call") \/ g = dispatchCiRepair(h, d)
        \/ g = pollPipeline(h, 0) \/ g = Add(h, v)
    BY DEF recover
  <2>2. ~Waiting(h)
    BY <1>5 DEF Waiting
  <2>3. IsCall(d) /\ IsCall(v)
    BY CallIs
  <2> HIDE DEF d, v
  <2>4. ~Waiting(dispatchCiRepair(h, d)) /\ IsTask(dispatchCiRepair(h, d))
    BY <1>3, <2>2, <2>3, DispatchAway
  <2>5. IsTask(q) /\ ~Waiting(q)
    BY <1>3, StatusAway
  <2> HIDE DEF q
  <2>6. ASSUME NEW x, Quiet(x, h) PROVE IsTask(x) /\ ~Waiting(x)
    BY <2>2, <2>6, QuietAway DEF Quiet, Rests
  <2>7. Quiet(tryDeliver(h, 0, "call"), h) /\ Quiet(pollPipeline(h, 0), h)
    BY <1>3, TryQuiet, PollQuiet
  <2>8. IsTask(Add(h, v)) /\ ~Waiting(Add(h, v))
    BY <1>3, <2>2, <2>3 DEF Add, IsTask, Fields, Waiting, Stopped
  <2> HIDE DEF g
  <2>9. IsTask(g) /\ ~Waiting(g)
    BY <1>3, <2>1, <2>2, <2>4, <2>5, <2>6, <2>7, <2>8
  <2> QED BY <1>1, <2>9, WatchedQuiet, QuietAway DEF Quiet
<1> QED BY <1>4, <1>5

-----------------------------------------------------------------------------
\* Every step leaves it like that.

Rested == Waits(host, attested)

\* A step of a delivery that is cut off, if it leaves a commit unverified.
CutOff == host.deliveryActive /\ (host'.closed \/ left'["crash"] # left["crash"])

Leaves == Unverified(host', attested') /\ ~Unverified(host, attested) => CutOff

LEMMA BearsLeaves ==
    ASSUME Bears(host', attested')
    PROVE  Rested' /\ Leaves
BY DEF Bears, Rested, Leaves, CutOff

LEMMA AnswersBears ==
    ASSUME Inv, Informed, Rested, NEW c \in host.calls, Answers(c)
    PROVE  Bears(host', attested')
BY TurnBears, ChecksBears, SyncsBears, ConfirmsBears, PushesBears, CreatesBears,
   AsksBears, TriggersBears, VerdictAnswersBears, RedLooksBears, ArtifactsBears,
   RefreshBears, SettleEndsBears, SettleBeginsBears DEF Answers, Deliver, Rested

LEMMA NextRested ==
    ASSUME Knowing, Rested, [Next]_vars
    PROVE  Rested' /\ Leaves
<1>1. Inv /\ Informed /\ Waits(host, attested)
  BY DEF Knowing, Rested
<1>2. CASE UNCHANGED <<host, attested>>
  BY <1>2 DEF Rested, Leaves
<1>3. CASE Crash
  <2>1. attested' = attested /\ Happens("crash")
    BY <1>3 DEF Crash
  <2>2. left'["crash"] # left["crash"]
    BY <1>1, <2>1 DEF Inv, Happens, Event
  <2>3. Waiting(host') => host'.calls = {} /\ Waiting(host) /\ host'.sha = host.sha
    BY <1>1, <1>3, CrashWaits
  <2>4. Rested'
    BY <2>3 DEF Rested, Waits
  <2>5. Unverified(host', attested') /\ ~Unverified(host, attested) => host.deliveryActive
    BY <2>1, <2>3 DEF Unverified, Waiting
  <2> QED BY <2>2, <2>4, <2>5 DEF Leaves, CutOff
<1>4. CASE \E c \in host.calls : Arrives(c) \/ Answers(c)
  BY <1>1, <1>4, ArrivesBears, AnswersBears, BearsLeaves DEF Rested
<1>5. CASE Launch \/ Timers \/ Expire \/ WatchLooks \/ WatchActs \/ Users
  <2>1. Bears(host', attested')
    BY <1>1, <1>5, LaunchBears, PollEndsBears, PollAnswersBears, RecoveryBears, LimitBears,
       EvidenceFiresBears, RepairFiresBears, ExpireBears, LooksBears, ActsBears,
       PauseBears, ResumeBears, InterruptBears, RetryBears DEF Timers, Users
  <2> QED BY <2>1, BearsLeaves
<1>6. CASE Commits \/ Platform
  <2>1. UNCHANGED <<host, attested>>
    BY <1>6 DEF Commits, Platform, PipelineEnds, Rerun, Merge, Close, Reopen, ForeignPush
  <2> QED BY <1>2, <2>1
<1>7. CASE UNCHANGED vars
  BY <1>2, <1>7 DEF vars
<1> QED BY <1>3, <1>4, <1>5, <1>6, <1>7 DEF Next

\* While a task waits for its merge, every delivery still under way (one that
\* a timer or a retry began beside a poll, in tryDeliver) goes on to verify
\* what it pushes, or its request was overtaken and it pushes what the kernel
\* passed: the invariant behind the theorem that follows.
THEOREM WaitsVouched == Spec => []Rested
<1>1. Init => Rested
  BY DEF Init, Rested, Waits
<1>2. Knowing /\ Rested /\ [Next]_vars => Rested'
  BY NextRested
<1> QED BY <1>1, <1>2, Knowledge, PTL DEF Spec

\* pipelineVerdict lets a task wait for its merge only when the kernel passed
\* its commit, and nothing changes that commit afterwards but a delivery that
\* is then cut off by a crash or by the closing of the request.
THEOREM WaitsVerified == Spec => VerifiedBeforeMergeWait
<1>1. Knowing /\ Rested /\ [Next]_vars =>
        [Unverified(host', attested') /\ ~Unverified(host, attested) =>
           host.deliveryActive /\ (host'.closed \/ left'["crash"] # left["crash"])]_vars
  BY NextRested DEF Leaves, CutOff
<1> QED BY Knowledge, WaitsVouched, <1>1, PTL DEF Spec, VerifiedBeforeMergeWait
=============================================================================
