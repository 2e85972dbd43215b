------------------------- MODULE TaskControlProofs -------------------------
(***************************************************************************)
(* Theorems about TaskControl for any tasks, plans, slots and bounds.      *)
(*                                                                         *)
(* OneExecutor is not inductive: it needs what a suspended call implies    *)
(* about the record of its task (Suits), that no call is of a later epoch  *)
(* than its task, and that a task at rest has no session (Rests).  A step  *)
(* changes one task and the calls of that task, so the invariant is about  *)
(* one record and the calls that belong to it (Fits).                      *)
(*                                                                         *)
(* Who goes first is a matter of all tasks.  SameTicketApart and           *)
(* SomeoneGoesFirst need that a task that was started waits for nobody any *)
(* more (IAnc), that no two tasks of one ticket go on without the pump     *)
(* (ILone), and, for both, what a task that was never started, that is     *)
(* merged or that has failed can still have (Ordered).  All but two steps  *)
(* start nobody and leave dependencies and tickets alone (Going); the two  *)
(* are a start by the pump and an early start.                             *)
(***************************************************************************)
EXTENDS TaskControl, FiniteSetTheorems, WellFoundedInduction, TLAPS

\* The calls that may write the outcome of a task, or wait to.
Executor == {"launch", "turn", "failing", "deliver", "poll", "pause"}

FramesOf(fs, t) == {f \in fs : f.task = t}

\* What a task is that a call of its epoch works on.
Suits(kind, rec) ==
    /\ kind = "launch" => rec.status \in {"running", "pausing", "completed"}
                          /\ rec.driver = "none"
    /\ kind = "turn" => rec.status \in {"running", "pausing", "completed"}
                        /\ rec.driver = "open"
    /\ kind \in {"deliver", "poll"} => rec.status \in {"verifying", "completed"}
                                       /\ rec.driver = "none"
    /\ kind = "failing" =>
         /\ rec.status \in {"running", "pausing", "completed", "failed", "paused"}
         /\ rec.driver # "open"
    /\ kind = "pause" =>
         /\ rec.status \notin {"queued", "paused", "canceled"}
         /\ rec.driver # "open"

\* A task at rest has no session; one that a control has stopped, none that
\* works.
Rests(rec) ==
    /\ rec.status \in {"queued", "paused"} => rec.driver = "none"
    /\ rec.status = "failed" => rec.driver \in {"none", "stuck"}
    /\ rec.status \in {"verifying", "canceled"} => rec.driver # "open"

\* Two calls of one epoch: a pause may run beside the failure of the turn
\* it interrupts, nothing else.
Apart(f, g) ==
    \/ f = g
    \/ f.kind = "pause" /\ g.kind = "failing"
    \/ f.kind = "failing" /\ g.kind = "pause"

\* While nothing is merged, a session at work waits at a card or has a call
\* that will settle its turn.  (A merge that settles completes the task
\* whatever its owner did meanwhile, its session included.)
Kept(rec, F) ==
    /\ \A f \in F : f.kind # "merge"
    /\ rec.driver = "open" =>
         \/ rec.status = "waiting_for_human"
         \/ \E f \in F : f.kind = "turn" /\ f.epoch = rec.controlEpoch

\* The record of a task and its calls.
Fits(rec, F) ==
    /\ Rests(rec)
    /\ "merge" \notin Operations => Kept(rec, F)
    /\ \A f \in F :
         /\ f.epoch <= rec.controlEpoch
         /\ f.counted => f.kind \in Executor \ {"poll"}
         /\ f.epoch = rec.controlEpoch /\ f.kind \in Executor
              => rec.status # "canceled" /\ Suits(f.kind, rec)
    /\ \A f, g \in F :
         /\ f.counted /\ g.counted /\ f.epoch = g.epoch => f = g
         /\ /\ f.epoch = rec.controlEpoch /\ g.epoch = rec.controlEpoch
            /\ f.kind \in Executor /\ g.kind \in Executor
            => Apart(f, g)

\* Every slot in use has its call.
Slots(fs, n) == IsFiniteSet(fs) /\ n = Cardinality({f \in fs : f.counted})

\* The cards of a task: the one it waits at is open; the answer it keeps
\* for its next session is on the card and nobody has heard it; none is
\* heard twice, or before it is given.
Cards(rec, cards, heard) ==
    /\ rec.status = "waiting_for_human" => rec.waiting # 0
    /\ rec.waiting # 0 => /\ rec.waiting <= Len(cards)
                          /\ cards[rec.waiting].status = "waiting"
    /\ rec.pendingResume # 0 => /\ rec.pendingResume <= Len(cards)
                                /\ cards[rec.pendingResume].status = "resolved"
                                /\ heard[rec.pendingResume] = 0
    /\ \A c \in 1..MaxCards :
         /\ heard[c] \in {0, 1}
         /\ heard[c] = 1 => c <= Len(cards) /\ cards[c].status = "resolved"
         /\ c <= Len(cards) /\ cards[c].status # "resolved" => cards[c].decision = None

Inv ==
    /\ Typed
    /\ Slots(frames, runningCount)
    /\ \A t \in Task : /\ Fits(task[t], FramesOf(frames, t))
                       /\ Cards(task[t], gate[t], told[t])
-----------------------------------------------------------------------------
\* The slots.

\* A call that goes gives its slot back.
LEMMA SlotsDrop ==
    ASSUME NEW fs, NEW n, Slots(fs, n), NEW f \in fs, f.counted \in BOOLEAN
    PROVE  Slots(fs \ {f}, IF f.counted THEN n - 1 ELSE n)
<1> DEFINE C == {x \in fs : x.counted}
<1>1. IsFiniteSet(fs) /\ IsFiniteSet(C) /\ n = Cardinality(C)
  BY FS_Subset DEF Slots
<1>2. IsFiniteSet(fs \ {f})
  BY <1>1, FS_Subset
<1>3. CASE f.counted
  <2>1. {x \in fs \ {f} : x.counted} = C \ {f} /\ f \in C
    BY <1>3
  <2>2. Cardinality(C \ {f}) = Cardinality(C) - 1
    BY <1>1, <2>1, FS_RemoveElement
  <2> QED BY <1>1, <1>2, <1>3, <2>1, <2>2 DEF Slots
<1>4. CASE ~f.counted
  <2>1. {x \in fs \ {f} : x.counted} = C
    BY <1>4
  <2> QED BY <1>1, <1>2, <1>4, <2>1 DEF Slots
<1> QED BY <1>3, <1>4

\* A call that takes no slot changes nothing about them.
LEMMA SlotsAdd ==
    ASSUME NEW fs, NEW n, Slots(fs, n), NEW g, ~g.counted
    PROVE  Slots(fs \cup {g}, n)
<1>1. IsFiniteSet(fs \cup {g})
  BY FS_AddElement DEF Slots
<1>2. {x \in fs \cup {g} : x.counted} = {x \in fs : x.counted}
  OBVIOUS
<1> QED BY <1>1, <1>2 DEF Slots

\* A new call that takes a slot is counted.
LEMMA SlotsTake ==
    ASSUME NEW fs, NEW n, Slots(fs, n), NEW g, g.counted, g \notin fs
    PROVE  Slots(fs \cup {g}, n + 1)
<1> DEFINE C == {x \in fs : x.counted}
<1>1. IsFiniteSet(fs) /\ IsFiniteSet(C) /\ n = Cardinality(C) /\ g \notin C
  BY FS_Subset DEF Slots
<1>2. IsFiniteSet(fs \cup {g})
  BY <1>1, FS_AddElement
<1>3. {x \in fs \cup {g} : x.counted} = C \cup {g}
  OBVIOUS
<1>4. Cardinality(C \cup {g}) = Cardinality(C) + 1
  BY <1>1, FS_AddElement
<1> QED BY <1>1, <1>2, <1>3, <1>4 DEF Slots

\* Slots are never fewer than none.
LEMMA SlotsNat ==
    ASSUME NEW fs, NEW n, Slots(fs, n)
    PROVE  n \in Nat
BY FS_Subset, FS_CardinalityType DEF Slots
-----------------------------------------------------------------------------
\* One task at a time.

\* No step takes the cancellation of a task back.
CanceledStays ==
    \A t \in Task : task[t].status = "canceled" => task'[t].status = "canceled"

\* Of the calls of t those in R return and those in A begin.
Moves(t, R, A) ==
    /\ R \subseteq FramesOf(frames, t) /\ A \subseteq FramesOf(FrameRecord, t)
    /\ frames' = (frames \ R) \cup A
    /\ Slots(frames', runningCount') /\ runningCount' <= MaxConcurrent
    /\ pump' \in {"idle", "due", "on"}

\* With that, the record of t becomes rec.
Steps(t, rec, R, A) ==
    /\ t \in Task /\ rec \in TaskRecord /\ Write(t, rec)
    /\ task[t].status = "canceled" => rec.status = "canceled"
    /\ Moves(t, R, A)
    /\ Fits(rec, (FramesOf(frames, t) \ R) \cup A)
    /\ crashes' = crashes /\ (view' = view \/ view' = None)

\* The cards of t are `cards`, and `heard` says who was told.
Dealt(t, rec, cards, heard) ==
    /\ gate' \in [Task -> Seq(Card)] /\ told' \in [Task -> [1..MaxCards -> Nat]]
    /\ gate'[t] = cards /\ told'[t] = heard
    /\ \A u \in Task \ {t} : gate'[u] = gate[u] /\ told'[u] = told[u]
    /\ Len(cards) <= MaxCards /\ Cards(rec, cards, heard)

\* Such a step keeps the invariant.
LEMMA StepKeeps ==
    ASSUME Inv, NEW t, NEW rec, NEW R, NEW A, Steps(t, rec, R, A),
           Dealt(t, rec, gate'[t], told'[t])
    PROVE  Inv' /\ CanceledStays
<1>1. /\ t \in Task /\ rec \in TaskRecord /\ task \in [Task -> TaskRecord]
      /\ task' = [task EXCEPT ![t] = rec]
  BY DEF Steps, Inv, Typed, Write
<1>2. task'[t] = rec /\ \A u \in Task \ {t} : task'[u] = task[u]
  BY <1>1
<1>3. FramesOf(frames', t) = (FramesOf(frames, t) \ R) \cup A
  BY DEF Steps, Moves, FramesOf
<1>4. \A u \in Task \ {t} : FramesOf(frames', u) = FramesOf(frames, u)
  BY DEF Steps, Moves, FramesOf
<1>5. Typed'
  <2>1. task' \in [Task -> TaskRecord]
    BY <1>1
  <2>2. frames' \subseteq FrameRecord
    BY DEF Steps, Moves, FramesOf, Inv, Typed
  <2>3. runningCount' \in 0..MaxConcurrent
    BY SlotsNat, MaxConcurrentAssumption DEF Steps, Moves
  <2>4. \A u \in Task : Len(gate'[u]) <= MaxCards
    BY DEF Dealt, Inv, Typed
  <2>5. view' # None => view'.task \in Task /\ view'.ticket \in Ticket
    BY DEF Steps, Inv, Typed
  <2> QED BY <2>1, <2>2, <2>3, <2>4, <2>5 DEF Typed, Steps, Moves, Dealt, Inv
<1>6. \A u \in Task : /\ Fits(task'[u], FramesOf(frames', u))
                      /\ Cards(task'[u], gate'[u], told'[u])
  <2> TAKE u \in Task
  <2>1. CASE u = t
    BY <1>2, <1>3, <2>1 DEF Steps, Dealt
  <2>2. CASE u # t
    BY <1>2, <1>4, <2>2 DEF Dealt, Inv
  <2> QED BY <2>1, <2>2
<1>7. CanceledStays
  BY <1>2 DEF CanceledStays, Steps
<1>8. Slots(frames', runningCount')
  BY DEF Steps, Moves
<1> QED BY <1>5, <1>6, <1>7, <1>8 DEF Inv

\* A record that waits for no card the old one did not wait for, and keeps
\* no answer the old one did not keep, goes with the same cards.
Milder(old, rec) ==
    /\ rec.waiting \in {0, old.waiting} /\ rec.pendingResume \in {0, old.pendingResume}
    /\ rec.status = "waiting_for_human" => rec.waiting # 0

\* A step that leaves the cards alone.
LEMMA StepAside ==
    ASSUME Inv, NEW t, NEW rec, NEW R, NEW A, Steps(t, rec, R, A),
           Milder(task[t], rec), Undecided
    PROVE  Inv' /\ CanceledStays
<1>1. t \in Task
  BY DEF Steps
<1>2. Cards(rec, gate[t], told[t])
  BY <1>1 DEF Inv, Cards, Milder
<1>3. Dealt(t, rec, gate'[t], told'[t])
  BY <1>1, <1>2 DEF Dealt, Undecided, Inv, Typed
<1> QED BY <1>3, StepKeeps

\* A suspended call and its task.
LEMMA CallFacts ==
    ASSUME Inv, NEW f \in frames
    PROVE  /\ f \in FrameRecord /\ f.task \in Task /\ f.counted \in BOOLEAN
           /\ f \in FramesOf(frames, f.task) /\ f.epoch \in Nat /\ f.kind \in Kind
           /\ f.from \in Status \cup {None}
           /\ task[f.task] \in TaskRecord
           /\ Fits(task[f.task], FramesOf(frames, f.task))
           /\ Cards(task[f.task], gate[f.task], told[f.task])
<1>1. f \in FrameRecord /\ task \in [Task -> TaskRecord]
  BY DEF Inv, Typed
<1>2. /\ f.task \in Task /\ f.counted \in BOOLEAN /\ f.epoch \in Nat
      /\ f.kind \in Kind /\ f.from \in Status \cup {None}
  BY <1>1, BoundAssumption DEF FrameRecord
<1>3. f \in FramesOf(frames, f.task)
  BY DEF FramesOf
<1> QED BY <1>1, <1>2, <1>3 DEF Inv

\* A task.
LEMMA TaskFacts ==
    ASSUME Inv, NEW t \in Task
    PROVE  /\ task[t] \in TaskRecord /\ task[t].controlEpoch \in Nat
           /\ Fits(task[t], FramesOf(frames, t))
           /\ Cards(task[t], gate[t], told[t])
           /\ Slots(frames, runningCount) /\ runningCount \in 0..MaxConcurrent
           /\ frames \subseteq FrameRecord
           /\ task = [task EXCEPT ![t] = task[t]]
BY BoundAssumption DEF Inv, Typed, TaskRecord
-----------------------------------------------------------------------------
\* What a step does to the calls.

\* No call comes or goes.
LEMMA StillMoves ==
    ASSUME Inv, NEW t \in Task, UNCHANGED <<frames, runningCount>>,
           pump' \in {"idle", "due", "on"}
    PROVE  Moves(t, {}, {})
<1>1. Slots(frames', runningCount') /\ runningCount' <= MaxConcurrent
  BY TaskFacts, MaxConcurrentAssumption
<1> QED BY <1>1 DEF Moves

\* A call that takes no slot begins.
LEMMA CallMoves ==
    ASSUME Inv, NEW t \in Task, NEW g \in FrameRecord, g.task = t, ~g.counted,
           frames' = frames \cup {g}, runningCount' = runningCount,
           pump' \in {"idle", "due", "on"}
    PROVE  Moves(t, {}, {g})
<1>1. Slots(frames, runningCount) /\ runningCount' <= MaxConcurrent
  BY TaskFacts, MaxConcurrentAssumption
<1>2. Slots(frames', runningCount')
  BY <1>1, SlotsAdd
<1> QED BY <1>1, <1>2 DEF Moves, FramesOf

\* What is left of the slots when a call goes.
LEMMA DropFacts ==
    ASSUME Inv, NEW f \in frames, NEW n, n = IF f.counted THEN runningCount - 1 ELSE runningCount
    PROVE  Slots(frames \ {f}, n) /\ n <= MaxConcurrent
<1>1. /\ f.counted \in BOOLEAN /\ Slots(frames, runningCount)
      /\ runningCount \in Int /\ runningCount <= MaxConcurrent /\ MaxConcurrent \in Int
  BY CallFacts, TaskFacts, MaxConcurrentAssumption
<1>2. n <= MaxConcurrent
  BY <1>1
<1> QED BY <1>1, <1>2, SlotsDrop

\* A call returns.
LEMMA ReturnMoves ==
    ASSUME Inv, NEW f \in frames, frames' = frames \ {f},
           runningCount' = IF f.counted THEN runningCount - 1 ELSE runningCount,
           pump' \in {"idle", "due", "on"}
    PROVE  Moves(f.task, {f}, {})
<1>1. Slots(frames', runningCount') /\ runningCount' <= MaxConcurrent
  BY DropFacts
<1> QED BY <1>1, CallFacts DEF Moves

\* A call gives its slot back and goes on as another.
LEMMA SwapMoves ==
    ASSUME Inv, NEW f \in frames, NEW g \in FrameRecord, g.task = f.task, ~g.counted,
           frames' = (frames \ {f}) \cup {g},
           runningCount' = IF f.counted THEN runningCount - 1 ELSE runningCount,
           pump' \in {"idle", "due", "on"}
    PROVE  Moves(f.task, {f}, {g})
<1>1. Slots(frames \ {f}, runningCount') /\ runningCount' <= MaxConcurrent
  BY DropFacts
<1>2. Slots(frames', runningCount')
  BY <1>1, SlotsAdd
<1> QED BY <1>1, <1>2, CallFacts DEF Moves, FramesOf

\* A call goes on, and keeps the slot it has.
LEMMA ContinueMoves ==
    ASSUME Inv, NEW f \in frames, NEW kind \in Kind, NEW from \in Status \cup {None},
           Continue(f, kind, from)
    PROVE  Moves(f.task, {f}, {Frame(kind, f.task, f.epoch, f.counted, from)})
<1> DEFINE g == Frame(kind, f.task, f.epoch, f.counted, from)
<1>1. f \in FrameRecord /\ Slots(frames, runningCount) /\ runningCount \in 0..MaxConcurrent
  BY CallFacts, TaskFacts
<1>2. /\ g \in FrameRecord /\ g.task = f.task /\ g.counted = f.counted /\ g.epoch = f.epoch
  BY <1>1 DEF FrameRecord, Frame
<1>3. frames' = (frames \ {f}) \cup {g} /\ UNCHANGED <<runningCount, pump>>
  BY DEF Continue
<1>4. pump' \in {"idle", "due", "on"} /\ runningCount' <= MaxConcurrent
  BY <1>1, <1>3, MaxConcurrentAssumption DEF Inv, Typed
<1> HIDE DEF g
<1>5. CASE f.counted
  <2>1. g \notin frames \ {f}
    <3>1. ASSUME g \in frames \ {f} PROVE FALSE
      <4>1. f \in FramesOf(frames, f.task) /\ g \in FramesOf(frames, f.task) /\ g # f
        BY <1>2, <3>1 DEF FramesOf
      <4> QED BY <1>2, <1>5, <4>1, CallFacts DEF Fits
    <3> QED BY <3>1
  <2>2. Slots(frames \ {f}, runningCount - 1)
    BY <1>5, DropFacts
  <2>3. Slots((frames \ {f}) \cup {g}, runningCount - 1 + 1)
    BY <1>2, <1>5, <2>1, <2>2, SlotsTake
  <2>4. runningCount - 1 + 1 = runningCount
    BY <1>1, MaxConcurrentAssumption
  <2> QED BY <1>2, <1>3, <1>4, <2>3, <2>4, CallFacts DEF Moves, FramesOf, g
<1>6. CASE ~f.counted
  <2>1. Slots(frames \ {f}, runningCount)
    BY <1>6, DropFacts
  <2>2. Slots((frames \ {f}) \cup {g}, runningCount)
    BY <1>2, <1>6, <2>1, SlotsAdd
  <2> QED BY <1>2, <1>3, <1>4, <2>2, CallFacts DEF Moves, FramesOf, g
<1> QED BY <1>5, <1>6
-----------------------------------------------------------------------------
\* What a step does to the fit of a record and its calls.

\* A call that works on the task alone ends or goes on as those in A.
LEMMA FitsAlone ==
    ASSUME NEW rec \in TaskRecord, NEW new \in TaskRecord, NEW F \in SUBSET FrameRecord,
           Fits(rec, F), NEW f \in F, f.epoch = rec.controlEpoch,
           f.kind \in {"launch", "turn", "deliver", "poll"},
           new.controlEpoch = rec.controlEpoch, Rests(new),
           NEW A \in SUBSET FrameRecord, \A g, h \in A : g = h,
           \A g \in A : /\ g.epoch = f.epoch /\ g.kind \in Executor
                        /\ g.counted => f.counted /\ g.kind # "poll"
                        /\ new.status # "canceled" /\ Suits(g.kind, new),
           new.driver = "open" => \/ new.status = "waiting_for_human"
                                  \/ \E g \in A : g.kind = "turn"
    PROVE  Fits(new, (F \ {f}) \cup A)
<1> DEFINE G == (F \ {f}) \cup A
<1>1. f.kind \in Executor /\ f.kind # "failing" /\ f.kind # "pause"
  BY DEF Executor
<1>2. \A h \in F \ {f} : ~(h.epoch = rec.controlEpoch /\ h.kind \in Executor)
  BY <1>1 DEF Fits, Apart
<1>3. \A h \in G :
        /\ h.epoch <= new.controlEpoch
        /\ h.counted => h.kind \in Executor \ {"poll"}
        /\ h.epoch = new.controlEpoch /\ h.kind \in Executor
             => new.status # "canceled" /\ Suits(h.kind, new)
  BY <1>2, BoundAssumption DEF Fits, TaskRecord
<1>4. \A g, h \in G : g.counted /\ h.counted /\ g.epoch = h.epoch => g = h
  BY <1>2 DEF Fits
<1>5. \A g, h \in G : /\ g.epoch = new.controlEpoch /\ h.epoch = new.controlEpoch
                      /\ g.kind \in Executor /\ h.kind \in Executor
                      => Apart(g, h)
  BY <1>2 DEF Apart
<1>6. ASSUME "merge" \notin Operations PROVE Kept(new, G)
  <2>1. \A h \in F : h.kind # "merge"
    BY <1>6 DEF Fits, Kept
  <2>2. \A h \in A : h.kind # "merge"
    BY DEF Executor
  <2> QED BY <2>1, <2>2 DEF Kept
<1> QED BY <1>3, <1>4, <1>5, <1>6 DEF Fits

\* A call that may write no outcome goes.
LEMMA FitsGone ==
    ASSUME NEW rec \in TaskRecord, NEW F \in SUBSET FrameRecord, Fits(rec, F), NEW f \in F,
           \/ f.epoch # rec.controlEpoch \/ rec.status = "canceled"
           \/ f.kind # "turn"
    PROVE  Fits(rec, F \ {f})
<1>1. f.kind = "turn" => f.epoch # rec.controlEpoch
  BY DEF Fits, Executor
<1>2. Kept(rec, F) => Kept(rec, F \ {f})
  BY <1>1 DEF Kept
<1> QED BY <1>2 DEF Fits

\* A control that stops the session and moves the epoch on.
LEMMA FitsBumped ==
    ASSUME NEW rec \in TaskRecord, NEW new \in TaskRecord, NEW F \in SUBSET FrameRecord,
           Fits(rec, F), new.controlEpoch = rec.controlEpoch + 1,
           Rests(new), new.driver # "open", NEW R,
           NEW A \in SUBSET FrameRecord, \A g, h \in A : g = h,
           \A g \in A : /\ g.epoch = new.controlEpoch /\ ~g.counted
                        /\ g.kind = "merge" => "merge" \in Operations
                        /\ g.kind \in Executor => /\ new.status # "canceled"
                                                  /\ Suits(g.kind, new)
    PROVE  Fits(new, (F \ R) \cup A)
<1> DEFINE G == (F \ R) \cup A
<1>1. rec.controlEpoch \in Nat /\ \A g \in FrameRecord : g.epoch \in Nat
  BY BoundAssumption DEF TaskRecord, FrameRecord
<1>2. \A h \in F : h.epoch < new.controlEpoch
  BY <1>1 DEF Fits
<1>3. \A h \in G :
        /\ h.epoch <= new.controlEpoch
        /\ h.counted => h.kind \in Executor \ {"poll"}
        /\ h.epoch = new.controlEpoch /\ h.kind \in Executor
             => new.status # "canceled" /\ Suits(h.kind, new)
  BY <1>1, <1>2 DEF Fits
<1>4. \A g, h \in G : g.counted /\ h.counted /\ g.epoch = h.epoch => g = h
  BY DEF Fits
<1>5. \A g, h \in G : /\ g.epoch = new.controlEpoch /\ h.epoch = new.controlEpoch
                      /\ g.kind \in Executor /\ h.kind \in Executor
                      => Apart(g, h)
  BY <1>1, <1>2 DEF Apart
<1>6. "merge" \notin Operations => Kept(new, G)
  BY DEF Fits, Kept
<1> QED BY <1>3, <1>4, <1>5, <1>6 DEF Fits

\* A record that still suits its calls may change.
LEMMA FitsStill ==
    ASSUME NEW rec, NEW new, NEW F, Fits(rec, F),
           new.controlEpoch = rec.controlEpoch, Rests(new),
           \A f \in F : f.epoch = rec.controlEpoch /\ f.kind \in Executor
              => new.status # "canceled" /\ Suits(f.kind, new),
           "merge" \notin Operations => Kept(new, F)
    PROVE  Fits(new, F)
BY DEF Fits

\* A task nobody works on may get one call.
LEMMA FitsTaken ==
    ASSUME NEW rec \in TaskRecord, NEW new \in TaskRecord, NEW F \in SUBSET FrameRecord,
           Fits(rec, F), new.controlEpoch = rec.controlEpoch, Rests(new),
           \A f \in F : ~(f.epoch = rec.controlEpoch /\ f.kind \in Executor),
           NEW g \in FrameRecord, g.epoch = rec.controlEpoch, g.kind \in Executor \ {"poll"},
           new.status # "canceled", Suits(g.kind, new),
           new.driver = "open" => g.kind = "turn"
    PROVE  Fits(new, F \cup {g})
<1>1. "merge" \notin Operations => Kept(new, F \cup {g})
  BY DEF Fits, Kept, Executor
<1>2. \A h \in F \cup {g} :
        /\ h.epoch <= new.controlEpoch
        /\ h.counted => h.kind \in Executor \ {"poll"}
        /\ h.epoch = new.controlEpoch /\ h.kind \in Executor
             => new.status # "canceled" /\ Suits(h.kind, new)
  BY BoundAssumption DEF Fits, TaskRecord
<1>3. \A h, k \in F \cup {g} :
        /\ h.counted /\ k.counted /\ h.epoch = k.epoch => h = k
        /\ /\ h.epoch = new.controlEpoch /\ k.epoch = new.controlEpoch
           /\ h.kind \in Executor /\ k.kind \in Executor
           => Apart(h, k)
  BY DEF Fits, Apart
<1> QED BY <1>1, <1>2, <1>3 DEF Fits
-----------------------------------------------------------------------------
\* Sessions.

\* A call returns and leaves its task as it is.
LEMMA Leaves ==
    ASSUME Inv, NEW f \in frames, Moves(f.task, {f}, {}), UNCHANGED task,
           f.kind # "turn" \/ ~Current(f), Undecided, Unserved
    PROVE  Inv' /\ CanceledStays
<1> DEFINE t == f.task
           F == FramesOf(frames, t)
<1>1. /\ t \in Task /\ task[t] \in TaskRecord /\ f \in F /\ F \in SUBSET FrameRecord
      /\ Fits(task[t], F) /\ task = [task EXCEPT ![t] = task[t]]
      /\ Cards(task[t], gate[t], told[t])
  BY CallFacts, TaskFacts DEF FramesOf
<1>2. Fits(task[t], F \ {f})
  BY <1>1, FitsGone DEF Current
<1>3. Steps(t, task[t], {f}, {})
  BY <1>1, <1>2 DEF Steps, Write, Unserved
<1>4. Milder(task[t], task[t])
  BY <1>1 DEF Milder, Cards
<1> QED BY <1>3, <1>4, StepAside

\* A call that works on its task alone goes on as the calls in A.
GoesOn(f, rec, A) ==
    /\ Current(f) /\ f.kind \in {"launch", "turn", "deliver", "poll"}
    /\ rec \in TaskRecord /\ Write(f.task, rec)
    /\ rec.controlEpoch = task[f.task].controlEpoch /\ Rests(rec)
    /\ Moves(f.task, {f}, A) /\ Unserved
    /\ \A g, h \in A : g = h
    /\ \A g \in A : /\ g.epoch = f.epoch /\ g.kind \in Executor
                    /\ g.counted => f.counted /\ g.kind # "poll"
                    /\ rec.status # "canceled" /\ Suits(g.kind, rec)
    /\ rec.driver = "open" => \/ rec.status = "waiting_for_human"
                              \/ \E g \in A : g.kind = "turn"

\* Such a call takes a step.
LEMMA GoesOnSteps ==
    ASSUME Inv, NEW f \in frames, NEW rec, NEW A, GoesOn(f, rec, A)
    PROVE  Steps(f.task, rec, {f}, A)
<1> DEFINE t == f.task
           F == FramesOf(frames, t)
<1>1. /\ t \in Task /\ task[t] \in TaskRecord /\ f \in F /\ F \in SUBSET FrameRecord
      /\ Fits(task[t], F)
  BY CallFacts, TaskFacts DEF FramesOf
<1>2. A \in SUBSET FrameRecord /\ f.epoch = task[t].controlEpoch /\ task[t].status # "canceled"
  BY DEF GoesOn, Moves, FramesOf, Current
<1>3. Fits(rec, (F \ {f}) \cup A)
  BY <1>1, <1>2, FitsAlone DEF GoesOn
<1> QED BY <1>1, <1>2, <1>3 DEF Steps, GoesOn, Unserved

\* The state of a task that a current call works on.
LEMMA Suited ==
    ASSUME Inv, NEW f \in frames, Current(f), f.kind \in Executor
    PROVE  /\ Suits(f.kind, task[f.task]) /\ f.epoch = task[f.task].controlEpoch
           /\ task[f.task].status # "canceled"
BY CallFacts DEF Fits, Current

\* A session is there.
LEMMA LaunchReadyStep ==
    ASSUME Inv, NEW f \in frames, LaunchReady(f)
    PROVE  Inv' /\ CanceledStays
<1> DEFINE t == f.task
           old == task[t]
           c == old.pendingResume
<1>1. /\ f.kind = "launch" /\ Unserved /\ t \in Task /\ old \in TaskRecord
      /\ Cards(old, gate[t], told[t]) /\ pump = "idle" /\ f \in FrameRecord
  BY CallFacts DEF LaunchReady, Idle
<1>2. CASE ~Current(f)
  <2>1. Return(f) /\ UNCHANGED task /\ Undecided
    BY <1>2 DEF LaunchReady
  <2>2. Moves(t, {f}, {})
    BY <2>1, ReturnMoves DEF Return
  <2> QED BY <1>1, <1>2, <2>1, <2>2, Leaves
<1>3. CASE Current(f)
  <2>1. Suits("launch", old) /\ f.epoch = old.controlEpoch /\ old.status # "canceled"
    BY <1>1, <1>3, Suited DEF Executor
  <2>2. CASE WantsPause(t)
    <3> DEFINE rec == Pausing([old EXCEPT !.driver = "open"])
               g == Frame("pause", t, f.epoch, f.counted, "running")
    <3>1. Write(t, rec) /\ Continue(f, "pause", "running") /\ Undecided
      BY <1>3, <2>2 DEF LaunchReady
    <3>2. Moves(t, {f}, {g})
      BY <3>1, ContinueMoves DEF Kind, Status
    <3>3. /\ rec \in TaskRecord /\ rec.status = old.status /\ rec.driver = "aborted"
          /\ rec.controlEpoch = old.controlEpoch /\ Milder(old, rec)
      BY <1>1 DEF TaskRecord, Pausing, Abort, Milder, Cards
    <3>4. /\ g.epoch = f.epoch /\ g.kind = "pause" /\ g.counted = f.counted
      BY DEF Frame
    <3> HIDE DEF rec, g
    <3>5. Rests(rec) /\ Suits("pause", rec)
      BY <2>1, <3>3 DEF Suits, Rests
    <3>6. GoesOn(f, rec, {g})
      BY <1>1, <1>3, <2>1, <3>1, <3>2, <3>3, <3>4, <3>5 DEF GoesOn, Executor
    <3> QED BY <3>1, <3>3, <3>6, GoesOnSteps, StepAside
  <2>3. CASE ~WantsPause(t)
    <3> DEFINE rec == Opened(old)
               g == Frame("turn", t, f.epoch, f.counted, None)
    <3>1. /\ Write(t, rec) /\ Continue(f, "turn", None) /\ UNCHANGED gate
          /\ told' = IF c = 0 THEN told ELSE [told EXCEPT ![t][c] = @ + 1]
      BY <1>3, <2>3 DEF LaunchReady
    <3>2. Moves(t, {f}, {g})
      BY <3>1, ContinueMoves DEF Kind, Status
    <3>3. /\ rec \in TaskRecord /\ rec.status = old.status /\ rec.driver = "open"
          /\ rec.controlEpoch = old.controlEpoch /\ rec.waiting = old.waiting
          /\ rec.pendingResume = 0
      <4>1. 0 \in 0..MaxCards
        BY BoundAssumption
      <4> QED BY <1>1, <4>1 DEF TaskRecord, Opened
    <3>4. /\ g.epoch = f.epoch /\ g.kind = "turn" /\ g.counted = f.counted
      BY DEF Frame
    <3> HIDE DEF rec, g
    <3>5. Rests(rec) /\ Suits("turn", rec)
      BY <2>1, <3>3 DEF Suits, Rests
    <3>6. Steps(t, rec, {f}, {g})
      <4>1. GoesOn(f, rec, {g})
        BY <1>1, <1>3, <2>1, <3>1, <3>2, <3>3, <3>4, <3>5 DEF GoesOn, Executor
      <4> QED BY <4>1, GoesOnSteps
    <3>7. Dealt(t, rec, gate'[t], told'[t])
      <4>1. /\ gate \in [Task -> Seq(Card)] /\ told \in [Task -> [1..MaxCards -> Nat]]
            /\ Len(gate[t]) <= MaxCards /\ c \in 0..MaxCards
        BY <1>1 DEF Inv, Typed, TaskRecord
      <4>2. CASE c = 0
        BY <1>1, <3>1, <3>3, <4>1, <4>2 DEF Dealt, Cards
      <4>3. CASE c # 0
        <5>1. c \in 1..MaxCards /\ told' = [told EXCEPT ![t][c] = @ + 1]
          BY <3>1, <4>1, <4>3, BoundAssumption
        <5>2. /\ told' \in [Task -> [1..MaxCards -> Nat]]
              /\ told'[t] = [told[t] EXCEPT ![c] = @ + 1]
              /\ \A u \in Task \ {t} : told'[u] = told[u]
          <6> DEFINE heard == [told[t] EXCEPT ![c] = @ + 1]
          <6>1. heard \in [1..MaxCards -> Nat]
            <7>1. told[t] \in [1..MaxCards -> Nat]
              BY <1>1, <4>1
            <7>2. c \in 1..MaxCards
              BY <5>1
            <7> HIDE DEF c
            <7>3. told[t][c] \in Nat
              BY <7>1, <7>2
            <7>4. told[t][c] + 1 \in Nat
              BY <7>3
            <7> QED BY <7>1, <7>4
          <6>2. told' = [told EXCEPT ![t] = heard]
            BY <1>1, <4>1, <5>1
          <6> HIDE DEF heard
          <6>3. /\ told' \in [Task -> [1..MaxCards -> Nat]] /\ told'[t] = heard
                /\ \A u \in Task \ {t} : told'[u] = told[u]
            BY <1>1, <4>1, <6>1, <6>2
          <6> QED BY <6>3 DEF heard
        <5>3. Cards(rec, gate[t], told'[t])
          BY <1>1, <3>3, <4>1, <4>3, <5>1, <5>2 DEF Cards
        <5> QED BY <3>1, <4>1, <5>2, <5>3 DEF Dealt
      <4> QED BY <4>2, <4>3
    <3> QED BY <3>6, <3>7, StepKeeps
  <2> QED BY <2>2, <2>3
<1> QED BY <1>2, <1>3

\* A launch that fails.
LEMMA LaunchFailsStep ==
    ASSUME Inv, NEW f \in frames, LaunchFails(f)
    PROVE  Inv' /\ CanceledStays
<1> DEFINE t == f.task
           old == task[t]
           rec == [old EXCEPT !.driver = "aborted"]
           g == Frame("failing", t, f.epoch, f.counted, None)
<1>1. /\ f.kind = "launch" /\ Unserved /\ Undecided /\ Current(f) /\ t \in Task
      /\ old \in TaskRecord /\ Write(t, rec) /\ Continue(f, "failing", None)
      /\ Cards(old, gate[t], told[t])
  BY CallFacts DEF LaunchFails
<1>2. Suits("launch", old) /\ f.epoch = old.controlEpoch /\ old.status # "canceled"
  BY <1>1, Suited DEF Executor
<1>3. Moves(t, {f}, {g})
  BY <1>1, ContinueMoves DEF Kind
<1>4. /\ rec \in TaskRecord /\ rec.status = old.status /\ rec.driver = "aborted"
      /\ rec.controlEpoch = old.controlEpoch /\ Milder(old, rec)
  BY <1>1 DEF TaskRecord, Milder, Cards
<1>5. g.epoch = f.epoch /\ g.kind = "failing" /\ g.counted = f.counted
  BY DEF Frame
<1> HIDE DEF rec, g
<1>6. Rests(rec) /\ Suits("failing", rec)
  BY <1>2, <1>4 DEF Suits, Rests
<1>7. GoesOn(f, rec, {g})
  BY <1>1, <1>2, <1>3, <1>4, <1>5, <1>6 DEF GoesOn, Executor
<1> QED BY <1>1, <1>4, <1>7, GoesOnSteps, StepAside

\* A session raises a card.
LEMMA TurnAsksStep ==
    ASSUME Inv, NEW f \in frames, TurnAsks(f)
    PROVE  Inv' /\ CanceledStays
<1> DEFINE t == f.task
           old == task[t]
           c == Len(gate[t]) + 1
           card == [status |-> "waiting", decision |-> None]
<1>1. /\ f.kind = "turn" /\ Unserved /\ Current(f) /\ t \in Task /\ c <= MaxCards
      /\ gate' = [gate EXCEPT ![t] = Append(@, card)] /\ UNCHANGED told
      /\ old \in TaskRecord /\ Cards(old, gate[t], told[t]) /\ pump = "idle"
  BY CallFacts DEF TurnAsks, Idle
<1>2. Suits("turn", old) /\ f.epoch = old.controlEpoch /\ old.status # "canceled"
  BY <1>1, Suited DEF Executor
<1>3. c \in 1..MaxCards /\ gate[t] \in Seq(Card) /\ card \in Card
  <2>1. gate[t] \in Seq(Card)
    BY <1>1 DEF Inv, Typed
  <2>2. card \in Card
    BY DEF Card
  <2>3. Len(gate[t]) \in Nat
    BY <2>1
  <2> QED BY <1>1, <2>1, <2>2, <2>3, BoundAssumption
<1>4. ASSUME NEW rec, rec.waiting = c, rec.pendingResume = old.pendingResume
      PROVE  Dealt(t, rec, gate'[t], told'[t])
  <2>1. /\ gate' \in [Task -> Seq(Card)] /\ gate'[t] = Append(gate[t], card)
        /\ \A u \in Task \ {t} : gate'[u] = gate[u]
    BY <1>1, <1>3 DEF Inv, Typed
  <2>2. Len(gate'[t]) = c /\ gate'[t][c] = card /\ \A d \in 1..Len(gate[t]) : gate'[t][d] = gate[t][d]
    BY <1>3, <2>1
  <2>3. Cards(rec, gate'[t], told'[t])
    <3>1. rec.pendingResume # 0 =>
             /\ rec.pendingResume \in 1..Len(gate[t])
             /\ gate'[t][rec.pendingResume].status = "resolved"
             /\ told'[t][rec.pendingResume] = 0
      BY <1>1, <1>3, <1>4, <2>2 DEF Cards, TaskRecord
    <3>2. ASSUME NEW d \in 1..MaxCards
          PROVE  /\ told'[t][d] \in {0, 1}
                 /\ told'[t][d] = 1 => d <= Len(gate'[t]) /\ gate'[t][d].status = "resolved"
                 /\ d <= Len(gate'[t]) /\ gate'[t][d].status # "resolved"
                      => gate'[t][d].decision = None
      <4>1. CASE d \in 1..Len(gate[t])
        BY <1>1, <1>3, <2>2, <4>1 DEF Cards
      <4>2. CASE d = c
        BY <1>1, <1>3, <2>2, <4>2 DEF Cards
      <4>3. CASE d > c
        BY <1>1, <1>3, <2>2, <4>3 DEF Cards
      <4> QED BY <1>3, <4>1, <4>2, <4>3
    <3> QED BY <1>1, <1>3, <1>4, <2>2, <3>1, <3>2 DEF Cards
  <2> QED BY <1>1, <2>1, <2>2, <2>3 DEF Dealt, Inv, Typed
<1> HIDE DEF card
<1>5. CASE WantsPause(t)
  <2> DEFINE rec == Pausing([old EXCEPT !.waiting = c])
             g == Frame("pause", t, f.epoch, f.counted, "waiting_for_human")
  <2>1. Write(t, rec) /\ Continue(f, "pause", "waiting_for_human")
    BY <1>5 DEF TurnAsks
  <2>2. Moves(t, {f}, {g})
    BY <2>1, ContinueMoves DEF Kind, Status
  <2>3. /\ rec \in TaskRecord /\ rec.status = old.status /\ rec.driver = "aborted"
        /\ rec.controlEpoch = old.controlEpoch
        /\ rec.waiting = c /\ rec.pendingResume = old.pendingResume
    <3>1. c \in 0..MaxCards /\ old.driver = "open"
      BY <1>2, <1>3 DEF Suits
    <3> QED BY <1>1, <3>1 DEF TaskRecord, Pausing, Abort
  <2>4. g.epoch = f.epoch /\ g.kind = "pause" /\ g.counted = f.counted
    BY DEF Frame
  <2> HIDE DEF rec, g, c
  <2>5. Rests(rec) /\ Suits("pause", rec)
    BY <1>2, <2>3 DEF Suits, Rests
  <2>6. GoesOn(f, rec, {g})
    BY <1>1, <1>2, <2>1, <2>2, <2>3, <2>4, <2>5 DEF GoesOn, Executor
  <2> QED BY <1>4, <2>3, <2>6, GoesOnSteps, StepKeeps
<1>6. CASE ~WantsPause(t)
  <2> DEFINE rec == [old EXCEPT !.waiting = c, !.status = "waiting_for_human"]
  <2>1. Write(t, rec) /\ Return(f)
    BY <1>6 DEF TurnAsks
  <2>2. Moves(t, {f}, {})
    BY <1>1, <2>1, ReturnMoves DEF Return
  <2>3. /\ rec \in TaskRecord /\ rec.status = "waiting_for_human"
        /\ rec.controlEpoch = old.controlEpoch
        /\ rec.waiting = c /\ rec.pendingResume = old.pendingResume
    <3>1. c \in 0..MaxCards
      BY <1>3
    <3> QED BY <1>1, <3>1 DEF TaskRecord, Status
  <2> HIDE DEF rec, c
  <2>4. Rests(rec)
    BY <2>3 DEF Rests
  <2>5. GoesOn(f, rec, {})
    BY <1>1, <2>1, <2>2, <2>3, <2>4 DEF GoesOn
  <2> QED BY <1>4, <2>3, <2>5, GoesOnSteps, StepKeeps
<1> QED BY <1>5, <1>6

\* A turn ends without a card: its call goes on to the pause, the delivery
\* or the failure.
LEMMA TurnEndsStep ==
    ASSUME Inv, NEW f \in frames, TurnFinishes(f) \/ TurnDies(f)
    PROVE  Inv' /\ CanceledStays
<1> DEFINE t == f.task
           old == task[t]
<1>1. /\ f.kind = "turn" /\ Unserved /\ Undecided /\ Current(f) /\ t \in Task
      /\ old \in TaskRecord /\ Cards(old, gate[t], told[t])
  BY CallFacts DEF TurnFinishes, TurnDies
<1>2. Suits("turn", old) /\ f.epoch = old.controlEpoch /\ old.status # "canceled"
  BY <1>1, Suited DEF Executor
<1>3. ASSUME NEW rec \in TaskRecord, NEW kind \in {"pause", "deliver", "failing"},
             NEW from \in Status \cup {None}, Write(t, rec), Continue(f, kind, from),
             rec.controlEpoch = old.controlEpoch, Rests(rec), Suits(kind, rec),
             rec.status # "canceled", rec.driver # "open", Milder(old, rec)
      PROVE  Inv' /\ CanceledStays
  <2> DEFINE g == Frame(kind, t, f.epoch, f.counted, from)
  <2>1. Moves(t, {f}, {g})
    BY <1>3, ContinueMoves DEF Kind
  <2>2. g.epoch = f.epoch /\ g.kind = kind /\ g.counted = f.counted
    BY DEF Frame
  <2> HIDE DEF g
  <2>3. GoesOn(f, rec, {g})
    BY <1>1, <1>2, <1>3, <2>1, <2>2 DEF GoesOn, Executor
  <2> QED BY <1>1, <1>3, <2>3, GoesOnSteps, StepAside
<1> DEFINE paused == Pausing(old)
           done == [old EXCEPT !.status = "verifying", !.driver = "none", !.handedOver = TRUE]
           dead == [old EXCEPT !.driver = "aborted"]
<1>4. /\ paused \in TaskRecord /\ paused.status = old.status /\ paused.driver = "aborted"
      /\ paused.controlEpoch = old.controlEpoch /\ Milder(old, paused)
  BY <1>1, <1>2 DEF TaskRecord, Pausing, Abort, Milder, Cards, Suits
<1>5. /\ done \in TaskRecord /\ done.status = "verifying" /\ done.driver = "none"
      /\ done.controlEpoch = old.controlEpoch /\ Milder(old, done)
  BY <1>1 DEF TaskRecord, Milder, Cards, Status
<1>6. /\ dead \in TaskRecord /\ dead.status = old.status /\ dead.driver = "aborted"
      /\ dead.controlEpoch = old.controlEpoch /\ Milder(old, dead)
  BY <1>1 DEF TaskRecord, Milder, Cards
<1>7. \/ Write(t, paused) /\ Continue(f, "pause", "running")
      \/ Write(t, done) /\ Continue(f, "deliver", None)
      \/ Write(t, dead) /\ Continue(f, "failing", None)
  BY DEF TurnFinishes, TurnDies
<1> HIDE DEF paused, done, dead
<1>8. CASE Write(t, paused) /\ Continue(f, "pause", "running")
  <2>1. Rests(paused) /\ Suits("pause", paused) /\ "running" \in Status
    BY <1>2, <1>4 DEF Suits, Rests, Status
  <2> QED BY <1>2, <1>3, <1>4, <1>8, <2>1
<1>9. CASE Write(t, done) /\ Continue(f, "deliver", None)
  <2>1. Rests(done) /\ Suits("deliver", done)
    BY <1>5 DEF Suits, Rests
  <2> QED BY <1>3, <1>5, <1>9, <2>1
<1>10. CASE Write(t, dead) /\ Continue(f, "failing", None)
  <2>1. Rests(dead) /\ Suits("failing", dead)
    BY <1>2, <1>6 DEF Suits, Rests
  <2> QED BY <1>2, <1>3, <1>6, <1>10, <2>1
<1> QED BY <1>7, <1>8, <1>9, <1>10

\* The turn of an earlier epoch only gives its slot back.
LEMMA TurnStaleStep ==
    ASSUME Inv, NEW f \in frames, TurnStale(f)
    PROVE  Inv' /\ CanceledStays
<1>1. Return(f) /\ UNCHANGED task /\ Undecided /\ Unserved /\ ~Current(f) /\ pump = "idle"
  BY DEF TurnStale, Idle
<1>2. Moves(f.task, {f}, {})
  BY <1>1, ReturnMoves DEF Return
<1> QED BY <1>1, <1>2, Leaves
\* A failure or the end of a pause is written: only the other one of the two
\* may still be under way.
LEMMA EndingStep ==
    ASSUME Inv, NEW f \in frames, f.kind \in {"failing", "pause"}, pump = "idle", Ending(f),
           Return(f), Undecided, Unserved,
           \/ UNCHANGED task
           \/ Current(f) /\ Write(f.task, [task[f.task] EXCEPT !.status = "failed"])
           \/ /\ Current(f) /\ f.kind = "pause" /\ task[f.task].driver = "none"
              /\ Write(f.task, [task[f.task] EXCEPT !.status = "paused",
                                                    !.paused_from = f.from])
    PROVE  Inv' /\ CanceledStays
<1> DEFINE t == f.task
           old == task[t]
           F == FramesOf(frames, t)
           failed == [old EXCEPT !.status = "failed"]
           paused == [old EXCEPT !.status = "paused", !.paused_from = f.from]
<1>1. /\ t \in Task /\ old \in TaskRecord /\ Fits(old, F) /\ f \in F /\ F \in SUBSET FrameRecord
      /\ Cards(old, gate[t], told[t]) /\ f.from \in Status \cup {None}
  BY CallFacts, TaskFacts DEF FramesOf
<1>2. Moves(t, {f}, {}) /\ old.driver \in {"none", "stuck"}
  BY ReturnMoves DEF Return, Ending
<1>3. CASE UNCHANGED task
  BY <1>2, <1>3, Leaves
<1>4. ASSUME NEW rec \in TaskRecord, Current(f), Write(t, rec), Rests(rec), Milder(old, rec),
             rec.driver # "open", rec.controlEpoch = old.controlEpoch, rec.status # "canceled",
             \/ f.kind = "pause" /\ Suits("failing", rec)
             \/ f.kind = "failing" /\ Suits("pause", rec)
      PROVE  Inv' /\ CanceledStays
  <2>1. Fits(old, F \ {f})
    BY <1>1, FitsGone
  <2>2. \A h \in F \ {f} : h.epoch = old.controlEpoch /\ h.kind \in Executor
                              => Suits(h.kind, rec)
    BY <1>1, <1>4 DEF Fits, Apart, Current, Executor
  <2>3. "merge" \notin Operations => Kept(rec, F \ {f})
    BY <1>4, <2>1 DEF Fits, Kept
  <2>4. Fits(rec, F \ {f})
    BY <1>4, <2>1, <2>2, <2>3, FitsStill
  <2>5. Steps(t, rec, {f}, {})
    BY <1>1, <1>2, <1>4, <2>4 DEF Steps, Unserved, Current
  <2> QED BY <1>4, <2>5, StepAside
<1>5. CASE Current(f) /\ Write(t, failed)
  <2>1. /\ failed \in TaskRecord /\ failed.status = "failed" /\ failed.driver = old.driver
        /\ failed.controlEpoch = old.controlEpoch /\ Milder(old, failed)
    BY <1>1 DEF TaskRecord, Milder, Cards, Status
  <2> HIDE DEF failed
  <2>2. Rests(failed) /\ Suits("failing", failed) /\ Suits("pause", failed)
    BY <1>2, <2>1 DEF Rests, Suits
  <2> QED BY <1>2, <1>4, <1>5, <2>1, <2>2
<1>6. CASE Current(f) /\ f.kind = "pause" /\ old.driver = "none" /\ Write(t, paused)
  <2>1. /\ paused \in TaskRecord /\ paused.status = "paused" /\ paused.driver = "none"
        /\ paused.controlEpoch = old.controlEpoch /\ Milder(old, paused)
    BY <1>1, <1>6 DEF TaskRecord, Milder, Cards, Status
  <2> HIDE DEF paused
  <2>2. Rests(paused) /\ Suits("failing", paused)
    BY <2>1 DEF Rests, Suits
  <2> QED BY <1>2, <1>4, <1>6, <2>1, <2>2
<1> QED BY <1>3, <1>5, <1>6

\* FailingEnds and PauseEnds are such ends.
LEMMA EndsStep ==
    ASSUME Inv, NEW f \in frames, FailingEnds(f) \/ PauseEnds(f)
    PROVE  Inv' /\ CanceledStays
<1>1. CASE FailingEnds(f)
  BY <1>1, EndingStep DEF FailingEnds
<1>2. CASE PauseEnds(f)
  <2>1. /\ f.kind = "pause" /\ pump = "idle" /\ Ending(f) /\ Return(f) /\ Undecided /\ Unserved
    BY <1>2 DEF PauseEnds
  <2>2. \/ UNCHANGED task
        \/ Current(f) /\ Write(f.task, [task[f.task] EXCEPT !.status = "failed"])
        \/ /\ Current(f) /\ task[f.task].driver = "none"
           /\ Write(f.task, [task[f.task] EXCEPT !.status = "paused", !.paused_from = f.from])
    BY <1>2 DEF PauseEnds
  <2> QED BY <2>1, <2>2, EndingStep
<1> QED BY <1>1, <1>2

\* The release of a session ends, well or not.
LEMMA ReleasedStep ==
    ASSUME Inv, NEW t \in Task, Released(t)
    PROVE  Inv' /\ CanceledStays
<1> DEFINE old == task[t]
           F == FramesOf(frames, t)
<1>1. /\ old \in TaskRecord /\ Fits(old, F) /\ Cards(old, gate[t], told[t])
      /\ old.driver = "aborted" /\ pump = "idle" /\ UNCHANGED <<frames, runningCount, pump>>
      /\ Undecided /\ Unserved
  BY TaskFacts DEF Released, Idle
<1>2. PICK left \in {"none", "stuck"} : Write(t, [old EXCEPT !.driver = left])
  BY DEF Released
<1> DEFINE rec == [old EXCEPT !.driver = left]
<1>3. /\ rec \in TaskRecord /\ rec.status = old.status /\ rec.driver \in {"none", "stuck"}
      /\ rec.controlEpoch = old.controlEpoch /\ Milder(old, rec)
  BY <1>1 DEF TaskRecord, Milder, Cards
<1>4. Write(t, rec)
  BY <1>2
<1> HIDE DEF rec
<1>5. Fits(rec, F)
  <2>1. Rests(rec)
    BY <1>1, <1>3 DEF Rests, Fits
  <2>2. \A h \in F : h.epoch = old.controlEpoch /\ h.kind \in Executor
                       => rec.status # "canceled" /\ Suits(h.kind, rec)
    BY <1>1, <1>3 DEF Fits, Suits, Executor
  <2>3. "merge" \notin Operations => Kept(rec, F)
    BY <1>1, <1>3 DEF Fits, Kept
  <2> QED BY <1>1, <1>3, <2>1, <2>2, <2>3, FitsStill
<1>6. Moves(t, {}, {})
  BY <1>1, StillMoves
<1>7. Steps(t, rec, {}, {})
  BY <1>1, <1>3, <1>4, <1>5, <1>6 DEF Steps, Unserved
<1> QED BY <1>1, <1>3, <1>7, StepAside
-----------------------------------------------------------------------------
\* Delivery and merge.

\* The delivery of an earlier epoch only gives its slot back.
LEMMA DeliverStaleStep ==
    ASSUME Inv, NEW f \in frames, DeliverStale(f)
    PROVE  Inv' /\ CanceledStays
<1>1. /\ Return(f) /\ UNCHANGED task /\ Undecided /\ Unserved /\ ~Current(f) /\ pump = "idle"
  BY DEF DeliverStale, Idle
<1>2. Moves(f.task, {f}, {})
  BY <1>1, ReturnMoves DEF Return
<1> QED BY <1>1, <1>2, Leaves

\* A delivery that goes on, fails or needs a repair.
LEMMA DeliverStep ==
    ASSUME Inv, NEW f \in frames, Delivers(f) \/ DeliveryHeld(f) \/ NeedsRepair(f)
    PROVE  Inv' /\ CanceledStays
<1> DEFINE t == f.task
           old == task[t]
<1>1. /\ f.kind \in {"deliver", "poll"} /\ Unserved /\ Undecided /\ Current(f) /\ t \in Task
      /\ old \in TaskRecord /\ Cards(old, gate[t], told[t]) /\ pump = "idle"
      /\ f \in FrameRecord /\ f.counted \in BOOLEAN /\ task = [task EXCEPT ![t] = old]
  BY CallFacts, TaskFacts DEF Delivers, DeliveryHeld, NeedsRepair, Idle
<1>2. Suits("deliver", old) /\ f.epoch = old.controlEpoch /\ old.status # "canceled"
  BY <1>1, Suited DEF Executor, Suits
<1>3. ASSUME NEW rec \in TaskRecord, Write(t, rec), Moves(t, {f}, {}),
             rec.controlEpoch = old.controlEpoch, rec.driver = "none",
             rec.status \in {"failed", "queued"}, Milder(old, rec)
      PROVE  Inv' /\ CanceledStays
  <2>1. Rests(rec)
    BY <1>3 DEF Rests
  <2>2. GoesOn(f, rec, {})
    BY <1>1, <1>3, <2>1 DEF GoesOn
  <2> QED BY <1>1, <1>3, <2>2, GoesOnSteps, StepAside
<1>4. ASSUME NEW rec \in TaskRecord, NEW g \in FrameRecord, Write(t, rec), Moves(t, {f}, {g}),
             rec.controlEpoch = old.controlEpoch, rec.driver = old.driver,
             rec.status = old.status, Milder(old, rec), ~g.counted,
             g.epoch = f.epoch, g.kind \in {"deliver", "poll"}
      PROVE  Inv' /\ CanceledStays
  <2>1. Rests(rec) /\ Suits(g.kind, rec)
    BY <1>2, <1>4 DEF Rests, Suits
  <2>2. GoesOn(f, rec, {g})
    BY <1>1, <1>2, <1>4, <2>1 DEF GoesOn, Executor, Suits
  <2> QED BY <1>1, <1>4, <2>2, GoesOnSteps, StepAside
<1>5. CASE Delivers(f)
  <2> DEFINE rec == [old EXCEPT !.pushed = TRUE]
             g == Frame("poll", t, f.epoch, FALSE, None)
  <2>1. /\ Write(t, rec) /\ frames' = (frames \ {f}) \cup {g}
        /\ runningCount' = IF f.counted THEN runningCount - 1 ELSE runningCount
        /\ pump' \in {"idle", "due", "on"}
    BY <1>5 DEF Delivers
  <2>2. /\ g \in FrameRecord /\ g.task = t /\ ~g.counted /\ g.epoch = f.epoch /\ g.kind = "poll"
    BY <1>1 DEF Frame, FrameRecord, Kind
  <2>3. /\ rec \in TaskRecord /\ rec.controlEpoch = old.controlEpoch /\ rec.driver = old.driver
        /\ rec.status = old.status /\ Milder(old, rec)
    BY <1>1 DEF TaskRecord, Milder, Cards
  <2> HIDE DEF rec, g
  <2>4. Moves(t, {f}, {g})
    BY <2>1, <2>2, SwapMoves
  <2> QED BY <1>4, <2>1, <2>2, <2>3, <2>4
<1>6. CASE DeliveryHeld(f)
  <2> DEFINE rec == [old EXCEPT !.status = "failed"]
             g == [f EXCEPT !.counted = FALSE]
  <2>1. CASE /\ f.counted /\ frames' = (frames \ {f}) \cup {g}
             /\ runningCount' = runningCount - 1 /\ pump' = "due" /\ UNCHANGED task
    <3>1. /\ g \in FrameRecord /\ g.task = t /\ ~g.counted /\ g.epoch = f.epoch
          /\ g.kind = f.kind
      BY <1>1 DEF FrameRecord
    <3> HIDE DEF g
    <3>2. Moves(t, {f}, {g})
      BY <2>1, <3>1, SwapMoves
    <3>3. Write(t, old) /\ Milder(old, old)
      BY <1>1, <2>1 DEF Write, Milder, Cards
    <3> QED BY <1>1, <1>4, <3>1, <3>2, <3>3
  <2>2. CASE Write(t, rec) /\ Return(f)
    <3>1. /\ rec \in TaskRecord /\ rec.controlEpoch = old.controlEpoch /\ rec.driver = old.driver
          /\ rec.status = "failed" /\ Milder(old, rec)
      BY <1>1 DEF TaskRecord, Milder, Cards, Status
    <3>2. Moves(t, {f}, {})
      BY <2>2, <1>1, ReturnMoves DEF Return
    <3> QED BY <1>2, <1>3, <2>2, <3>1, <3>2 DEF Suits
  <2> QED BY <1>6, <2>1, <2>2 DEF DeliveryHeld
<1>7. CASE NeedsRepair(f)
  <2> DEFINE rec == [old EXCEPT !.status = "queued"]
  <2>1. Write(t, rec) /\ Moves(t, {f}, {})
    BY <1>7, ReturnMoves DEF NeedsRepair, Repair
  <2>2. /\ rec \in TaskRecord /\ rec.controlEpoch = old.controlEpoch /\ rec.driver = old.driver
        /\ rec.status = "queued" /\ Milder(old, rec)
    BY <1>1 DEF TaskRecord, Milder, Cards, Status
  <2> QED BY <1>2, <1>3, <2>1, <2>2 DEF Suits
<1> QED BY <1>5, <1>6, <1>7
\* A step of a control that moves the epoch of its task on.
Bumps(t, rec, R, A) ==
    /\ t \in Task /\ rec \in TaskRecord /\ Write(t, rec)
    /\ task[t].status = "canceled" => rec.status = "canceled"
    /\ rec.controlEpoch = task[t].controlEpoch + 1
    /\ Rests(rec) /\ rec.driver # "open"
    /\ Moves(t, R, A) /\ Unserved
    /\ \A g, h \in A : g = h
    /\ \A g \in A : /\ g.epoch = rec.controlEpoch /\ ~g.counted
                    /\ g.kind = "merge" => "merge" \in Operations
                    /\ g.kind \in Executor => rec.status # "canceled" /\ Suits(g.kind, rec)

\* Such a control takes a step.
LEMMA BumpsSteps ==
    ASSUME Inv, NEW t, NEW rec, NEW R, NEW A, Bumps(t, rec, R, A)
    PROVE  Steps(t, rec, R, A)
<1> DEFINE F == FramesOf(frames, t)
<1>1. /\ t \in Task /\ rec \in TaskRecord /\ task[t] \in TaskRecord
      /\ F \in SUBSET FrameRecord /\ Fits(task[t], F)
  BY TaskFacts DEF FramesOf, Bumps
<1>2. A \in SUBSET FrameRecord
  BY DEF Bumps, Moves, FramesOf
<1>3. Fits(rec, (F \ R) \cup A)
  BY <1>1, <1>2, FitsBumped DEF Bumps
<1> QED BY <1>3 DEF Steps, Bumps, Unserved

\* The epoch of a task may go on.
LEMMA EpochFacts ==
    ASSUME Inv, NEW t \in Task, task[t].controlEpoch < MaxEpoch
    PROVE  task[t].controlEpoch + 1 \in 0..MaxEpoch
BY TaskFacts, BoundAssumption

\* The merge takes the task from whoever works on it.
LEMMA SettleMergeStep ==
    ASSUME Inv, NEW t \in Task, NEW R, task[t].controlEpoch < MaxEpoch,
           task[t].status # "canceled", "merge" \in Operations,
           \/ R = {}
           \/ \E f \in frames : R = {f} /\ f.task = t /\ f.kind = "cancel_query",
           SettleMerge(t, frames \ R), UNCHANGED <<runningCount, pump>>,
           Undecided, Unserved
    PROVE  Inv' /\ CanceledStays
<1> DEFINE old == task[t]
           rec == [old EXCEPT !.status = "verifying", !.controlEpoch = @ + 1,
                              !.driver = Abort(@)]
           g == Frame("merge", t, rec.controlEpoch, FALSE, None)
<1>1. /\ old \in TaskRecord /\ Cards(old, gate[t], told[t]) /\ old.controlEpoch + 1 \in 0..MaxEpoch
      /\ Write(t, rec) /\ frames' = (frames \ R) \cup {Frame("merge", t, task'[t].controlEpoch, FALSE, None)}
  BY TaskFacts, EpochFacts DEF SettleMerge
<1>2. task'[t] = rec
  BY <1>1 DEF Write, Inv, Typed
<1>3. /\ rec \in TaskRecord /\ rec.status = "verifying" /\ rec.driver # "open"
      /\ rec.controlEpoch = old.controlEpoch + 1 /\ Milder(old, rec)
  BY <1>1 DEF TaskRecord, Abort, Milder, Cards, Status
<1>4. g \in FrameRecord /\ g.task = t /\ ~g.counted /\ g.epoch = rec.controlEpoch /\ g.kind = "merge"
  BY <1>3 DEF Frame, FrameRecord, Kind, TaskRecord
<1>5. frames' = (frames \ R) \cup {g} /\ pump' \in {"idle", "due", "on"}
  BY <1>1, <1>2 DEF Inv, Typed
<1> HIDE DEF rec, g
<1>6. Moves(t, R, {g})
  <2>1. CASE R = {}
    <3>1. frames' = frames \cup {g}
      BY <1>5, <2>1
    <3>2. Moves(t, {}, {g})
      BY <1>4, <1>5, <3>1, CallMoves
    <3> QED BY <2>1, <3>2
  <2>2. CASE R # {}
    <3>1. PICK f \in frames : R = {f} /\ f.task = t /\ f.kind = "cancel_query"
      BY <2>2
    <3>2. ~f.counted
      BY <3>1, CallFacts DEF Fits, Executor
    <3> QED BY <1>4, <1>5, <3>1, <3>2, SwapMoves
  <2> QED BY <2>1, <2>2
<1>7. Rests(rec)
  BY <1>3 DEF Rests
<1>8. Bumps(t, rec, R, {g})
  BY <1>1, <1>3, <1>4, <1>6, <1>7 DEF Bumps, Executor
<1> QED BY <1>3, <1>8, BumpsSteps, StepAside

\* The watcher sees the merge.
LEMMA MergeSeenStep ==
    ASSUME Inv, NEW t \in Task, MergeSeen(t)
    PROVE  Inv' /\ CanceledStays
<1>1. frames \ {} = frames
  OBVIOUS
<1>2. SettleMerge(t, frames \ {})
  BY <1>1 DEF MergeSeen
<1> QED BY <1>2, SettleMergeStep DEF MergeSeen, May

\* The merge is done, or gives up.
LEMMA MergeEndsStep ==
    ASSUME Inv, NEW f \in frames, MergeEnds(f)
    PROVE  Inv' /\ CanceledStays
<1> DEFINE t == f.task
           old == task[t]
           F == FramesOf(frames, t)
           rec == [old EXCEPT !.status = "completed"]
<1>1. /\ f.kind = "merge" /\ Undecided /\ Unserved /\ pump = "idle" /\ t \in Task
      /\ frames' = frames \ {f} /\ runningCount' = runningCount /\ f \in F
      /\ old \in TaskRecord /\ Fits(old, F) /\ F \in SUBSET FrameRecord
      /\ Cards(old, gate[t], told[t])
  BY CallFacts, TaskFacts DEF MergeEnds, Idle, FramesOf
<1>2. ~f.counted
  BY <1>1 DEF Fits, Executor
<1>3. pump' \in {"idle", "due", "on"}
  BY <1>1 DEF MergeEnds
<1>4. Moves(t, {f}, {})
  BY <1>1, <1>2, <1>3, ReturnMoves
<1>5. CASE UNCHANGED task
  BY <1>1, <1>4, <1>5, Leaves
<1>6. CASE old.status # "canceled" /\ Write(t, rec)
  <2>1. /\ rec \in TaskRecord /\ rec.status = "completed" /\ rec.driver = old.driver
        /\ rec.controlEpoch = old.controlEpoch /\ Milder(old, rec)
    BY <1>1 DEF TaskRecord, Milder, Cards, Status
  <2> HIDE DEF rec
  <2>2. Fits(rec, F \ {f})
    <3>1. Fits(old, F \ {f})
      BY <1>1, FitsGone
    <3>2. \A h \in F \ {f} : h.epoch = old.controlEpoch /\ h.kind \in Executor
                               => rec.status # "canceled" /\ Suits(h.kind, rec)
      BY <2>1, <3>1 DEF Fits, Suits, Executor
    <3>3. "merge" \notin Operations => Kept(rec, F \ {f})
      BY <1>1 DEF Fits, Kept
    <3>4. Rests(rec)
      BY <2>1 DEF Rests
    <3> QED BY <2>1, <3>1, <3>2, <3>3, <3>4, FitsStill
  <2>3. Steps(t, rec, {f}, {})
    BY <1>1, <1>4, <1>6, <2>1, <2>2 DEF Steps, Unserved
  <2> QED BY <1>1, <2>1, <2>3, StepAside
<1> QED BY <1>5, <1>6 DEF MergeEnds

\* The platform answers a cancel: it knows of a merge.
LEMMA CancelFindsMergeStep ==
    ASSUME Inv, NEW f \in frames, CancelFindsMerge(f)
    PROVE  Inv' /\ CanceledStays
<1> DEFINE t == f.task
<1>1. /\ f.kind = "cancel_query" /\ "merge" \in Operations /\ t \in Task /\ pump = "idle"
      /\ UNCHANGED <<runningCount, pump>> /\ Undecided /\ Unserved
  BY CallFacts DEF CancelFindsMerge, Idle
<1>2. ~f.counted
  BY <1>1, CallFacts DEF Fits, Executor
<1>3. CASE frames' = frames \ {f} /\ UNCHANGED task
  <2>1. Moves(t, {f}, {})
    BY <1>1, <1>2, <1>3, ReturnMoves
  <2> QED BY <1>1, <1>3, <2>1, Leaves
<1>4. CASE /\ task[t].status # "canceled" /\ task[t].controlEpoch < MaxEpoch
           /\ SettleMerge(t, frames \ {f})
  BY <1>1, <1>4, SettleMergeStep
<1> QED BY <1>3, <1>4 DEF CancelFindsMerge
-----------------------------------------------------------------------------
\* Cancel.

\* The record of a task that is canceled now.
LEMMA CanceledRecord ==
    ASSUME Inv, NEW t \in Task, task[t].controlEpoch < MaxEpoch, CancelNow(t),
           NEW R, NEW A, Moves(t, R, A), Undecided, Unserved,
           \/ A = {}
           \/ A = {Frame("cancel", t, task'[t].controlEpoch, FALSE, None)}
    PROVE  Inv' /\ CanceledStays
<1> DEFINE old == task[t]
           rec == [old EXCEPT !.status = "canceled", !.controlEpoch = @ + 1,
                              !.pauseRequested = FALSE, !.waiting = 0,
                              !.driver = Abort(@)]
<1>1. /\ old \in TaskRecord /\ Cards(old, gate[t], told[t]) /\ old.controlEpoch + 1 \in 0..MaxEpoch
      /\ Write(t, rec) /\ 0 \in 0..MaxCards
  BY TaskFacts, EpochFacts, BoundAssumption DEF CancelNow
<1>2. task'[t] = rec
  BY <1>1 DEF Write, Inv, Typed
<1>3. /\ rec \in TaskRecord /\ rec.status = "canceled" /\ rec.driver # "open"
      /\ rec.controlEpoch = old.controlEpoch + 1 /\ Milder(old, rec)
  BY <1>1 DEF TaskRecord, Abort, Milder, Cards, Status
<1>4. \A g \in A : g.epoch = rec.controlEpoch /\ ~g.counted /\ g.kind = "cancel"
  BY <1>2 DEF Frame
<1> HIDE DEF rec
<1>5. Rests(rec)
  BY <1>3 DEF Rests
<1>6. Bumps(t, rec, R, A)
  BY <1>1, <1>3, <1>4, <1>5 DEF Bumps, Executor
<1> QED BY <1>3, <1>6, BumpsSteps, StepAside

\* The frame of a cancel whose cleanup is awaited.
LEMMA CancelFrame ==
    ASSUME Inv, NEW t \in Task, task[t].controlEpoch < MaxEpoch, CancelNow(t)
    PROVE  Frame("cancel", t, task'[t].controlEpoch, FALSE, None) \in FrameRecord
<1>1. task'[t].controlEpoch = task[t].controlEpoch + 1
  BY TaskFacts DEF CancelNow, Write, Inv, Typed, TaskRecord
<1> QED BY <1>1, EpochFacts DEF Frame, FrameRecord, Kind

\* A task is canceled, or the platform is asked first.
LEMMA CancelStep ==
    ASSUME Inv, NEW t \in Task, Cancel(t)
    PROVE  Inv' /\ CanceledStays
<1> DEFINE old == task[t]
           F == FramesOf(frames, t)
           g == Frame("cancel_query", t, old.controlEpoch, FALSE, None)
           h == Frame("cancel", t, task'[t].controlEpoch, FALSE, None)
<1>1. /\ old.controlEpoch < MaxEpoch /\ pump = "idle" /\ runningCount' = runningCount
      /\ Undecided /\ Unserved /\ old \in TaskRecord /\ Fits(old, F)
      /\ F \in SUBSET FrameRecord /\ Cards(old, gate[t], told[t])
      /\ task = [task EXCEPT ![t] = old]
  BY TaskFacts DEF Cancel, May, Idle, FramesOf
<1>2. \/ frames' = frames \cup {g} /\ UNCHANGED <<task, pump>>
      \/ CancelNow(t) /\ UNCHANGED pump /\ frames' = frames \cup {h}
      \/ CancelNow(t) /\ pump' = "due" /\ UNCHANGED frames
  BY DEF Cancel, Call
<1>3. CASE frames' = frames \cup {g} /\ UNCHANGED <<task, pump>>
  <2>1. /\ g \in FrameRecord /\ g.task = t /\ ~g.counted /\ g.kind = "cancel_query"
        /\ g.epoch = old.controlEpoch
    BY <1>1 DEF Frame, FrameRecord, Kind, TaskRecord
  <2> HIDE DEF g
  <2>2. Moves(t, {}, {g})
    BY <1>1, <1>3, <2>1, CallMoves
  <2>3. Fits(old, F \cup {g})
    <3>1. g.kind \notin Executor /\ g.kind # "merge"
      BY <2>1 DEF Executor
    <3>2. Kept(old, F) => Kept(old, F \cup {g})
      BY <3>1 DEF Kept
    <3>3. g.epoch <= old.controlEpoch
      BY <2>1, TaskFacts
    <3>4. \A x \in F \cup {g} :
            /\ x.epoch <= old.controlEpoch
            /\ x.counted => x.kind \in Executor \ {"poll"}
            /\ x.epoch = old.controlEpoch /\ x.kind \in Executor
                 => old.status # "canceled" /\ Suits(x.kind, old)
      BY <1>1, <2>1, <3>1, <3>3 DEF Fits
    <3>5. \A x, y \in F \cup {g} :
            /\ x.counted /\ y.counted /\ x.epoch = y.epoch => x = y
            /\ /\ x.epoch = old.controlEpoch /\ y.epoch = old.controlEpoch
               /\ x.kind \in Executor /\ y.kind \in Executor
               => Apart(x, y)
      BY <1>1, <2>1, <3>1 DEF Fits
    <3> QED BY <1>1, <3>2, <3>4, <3>5 DEF Fits
  <2>4. (F \ {}) \cup {g} = F \cup {g}
    OBVIOUS
  <2>5. Steps(t, old, {}, {g})
    BY <1>1, <1>3, <2>2, <2>3, <2>4 DEF Steps, Write, Unserved
  <2>6. Milder(old, old)
    BY <1>1 DEF Milder, Cards
  <2> QED BY <1>1, <2>5, <2>6, StepAside
<1>4. CASE CancelNow(t) /\ UNCHANGED pump /\ frames' = frames \cup {h}
  <2>1. h \in FrameRecord /\ h.task = t /\ ~h.counted
    BY <1>1, <1>4, CancelFrame DEF Frame
  <2>2. Moves(t, {}, {h})
    BY <1>1, <1>4, <2>1, CallMoves
  <2> QED BY <1>1, <1>4, <2>2, CanceledRecord
<1>5. CASE CancelNow(t) /\ pump' = "due" /\ UNCHANGED frames
  <2>1. Moves(t, {}, {})
    BY <1>1, <1>5, StillMoves
  <2> QED BY <1>1, <1>5, <2>1, CanceledRecord
<1> QED BY <1>2, <1>3, <1>4, <1>5

\* The platform knows of no merge.
LEMMA CancelAnsweredStep ==
    ASSUME Inv, NEW f \in frames, CancelAnswered(f)
    PROVE  Inv' /\ CanceledStays
<1> DEFINE t == f.task
           h == Frame("cancel", t, task'[t].controlEpoch, FALSE, None)
<1>1. /\ f.kind = "cancel_query" /\ t \in Task /\ task[t].controlEpoch < MaxEpoch
      /\ pump = "idle" /\ CancelNow(t) /\ runningCount' = runningCount /\ Undecided /\ Unserved
  BY CallFacts DEF CancelAnswered, Idle
<1>2. ~f.counted
  BY <1>1, CallFacts DEF Fits, Executor
<1>3. h \in FrameRecord /\ h.task = t /\ ~h.counted
  BY <1>1, CancelFrame DEF Frame
<1>4. CASE frames' = (frames \ {f}) \cup {h} /\ UNCHANGED pump
  <2>1. Moves(t, {f}, {h})
    BY <1>1, <1>2, <1>3, <1>4, SwapMoves
  <2> QED BY <1>1, <2>1, CanceledRecord
<1>5. CASE frames' = frames \ {f} /\ pump' = "due"
  <2>1. Moves(t, {f}, {})
    BY <1>1, <1>2, <1>5, ReturnMoves
  <2> QED BY <1>1, <2>1, CanceledRecord
<1> QED BY <1>4, <1>5 DEF CancelAnswered

\* The cleanup of a cancel is over.
LEMMA CancelEndsStep ==
    ASSUME Inv, NEW f \in frames, CancelEnds(f)
    PROVE  Inv' /\ CanceledStays
<1>1. /\ f.kind = "cancel" /\ frames' = frames \ {f} /\ pump' = "due"
      /\ UNCHANGED <<task, queue, runningCount>> /\ Undecided /\ Unserved
  BY DEF CancelEnds
<1>2. ~f.counted
  BY <1>1, CallFacts DEF Fits, Executor
<1>3. Moves(f.task, {f}, {})
  BY <1>1, <1>2, ReturnMoves
<1> QED BY <1>1, <1>3, Leaves
-----------------------------------------------------------------------------
\* Pause, resume, retry and interruption.

\* While no await has ended, nobody works on a task that failed, or waits
\* at a card without a session, or with one that is open.
LEMMA NobodyWorks ==
    ASSUME Inv, NEW t \in Task, Idle,
           \/ task[t].status = "queued"
           \/ task[t].status = "failed" /\ task[t].driver = "none"
           \/ task[t].status = "waiting_for_human" /\ task[t].driver # "aborted",
           NEW h \in FramesOf(frames, t)
    PROVE  ~(h.epoch = task[t].controlEpoch /\ h.kind \in Executor)
<1>1. /\ h \in frames /\ h.task = t /\ Fits(task[t], FramesOf(frames, t))
      /\ task[t].driver \in {"none", "open", "aborted", "stuck"}
  BY TaskFacts DEF FramesOf, TaskRecord
<1>2. SUFFICES ASSUME h.epoch = task[t].controlEpoch, h.kind \in Executor PROVE FALSE
  OBVIOUS
<1>3. Suits(h.kind, task[t])
  BY <1>1, <1>2 DEF Fits
<1>4. h.kind \in {"failing", "pause"} /\ task[t].driver \in {"none", "stuck"}
  BY <1>1, <1>2, <1>3 DEF Suits, Executor
<1>5. Ending(h)
  BY <1>1, <1>4 DEF Ending
<1> QED BY <1>1, <1>5 DEF Idle

\* A running turn is asked to stop.
LEMMA PauseRunningStep ==
    ASSUME Inv, NEW t \in Task, PauseRunning(t)
    PROVE  Inv' /\ CanceledStays
<1> DEFINE old == task[t]
           F == FramesOf(frames, t)
           rec == [old EXCEPT !.status = "pausing", !.pauseRequested = TRUE]
<1>1. /\ old \in TaskRecord /\ Fits(old, F) /\ Cards(old, gate[t], told[t])
      /\ old.status = "running" /\ pump = "idle" /\ UNCHANGED <<frames, runningCount, pump>>
      /\ Undecided /\ Unserved /\ Write(t, rec)
  BY TaskFacts DEF PauseRunning, Idle
<1>2. /\ rec \in TaskRecord /\ rec.status = "pausing" /\ rec.driver = old.driver
      /\ rec.controlEpoch = old.controlEpoch /\ Milder(old, rec)
  BY <1>1 DEF TaskRecord, Milder, Cards, Status
<1> HIDE DEF rec
<1>3. Fits(rec, F)
  <2>1. Rests(rec)
    BY <1>2 DEF Rests
  <2>2. \A h \in F : h.epoch = old.controlEpoch /\ h.kind \in Executor
                       => rec.status # "canceled" /\ Suits(h.kind, rec)
    BY <1>1, <1>2 DEF Fits, Suits, Executor
  <2>3. "merge" \notin Operations => Kept(rec, F)
    BY <1>1, <1>2 DEF Fits, Kept
  <2> QED BY <1>1, <1>2, <2>1, <2>2, <2>3, FitsStill
<1>4. Moves(t, {}, {})
  BY <1>1, StillMoves
<1>5. Steps(t, rec, {}, {})
  BY <1>1, <1>2, <1>3, <1>4 DEF Steps, Unserved
<1> QED BY <1>1, <1>2, <1>5, StepAside

\* A task whose session is stopped at once.
LEMMA PauseRestingStep ==
    ASSUME Inv, NEW t \in Task, PauseResting(t)
    PROVE  Inv' /\ CanceledStays
<1> DEFINE old == task[t]
           from == old.status
           rec == [Pausing(old) EXCEPT !.controlEpoch = @ + 1]
           rest == [rec EXCEPT !.status = "paused", !.paused_from = from]
           g == Frame("pause", t, rec.controlEpoch, FALSE, from)
<1>1. /\ old \in TaskRecord /\ Fits(old, FramesOf(frames, t)) /\ Cards(old, gate[t], told[t])
      /\ old.status \in {"queued", "waiting_for_human", "verifying"}
      /\ old.controlEpoch < MaxEpoch /\ pump = "idle"
      /\ UNCHANGED <<runningCount, pump>> /\ Undecided /\ Unserved
      /\ old.controlEpoch + 1 \in 0..MaxEpoch
  BY TaskFacts, EpochFacts DEF PauseResting, May, Idle
<1>2. \/ rec.driver = "none" /\ Write(t, rest) /\ UNCHANGED frames
      \/ rec.driver # "none" /\ Write(t, rec) /\ frames' = frames \cup {g}
  BY DEF PauseResting, Call
<1>3. /\ rec \in TaskRecord /\ rec.status = from /\ rec.driver \in {"none", "aborted"}
      /\ rec.controlEpoch = old.controlEpoch + 1 /\ Milder(old, rec)
      /\ rec.driver = "none" <=> old.driver = "none"
  BY <1>1 DEF TaskRecord, Pausing, Abort, Milder, Cards
<1>4. /\ rest \in TaskRecord /\ rest.status = "paused" /\ rest.driver = rec.driver
      /\ rest.controlEpoch = rec.controlEpoch /\ Milder(old, rest)
  BY <1>1, <1>3 DEF TaskRecord, Milder, Cards, Status
<1>5. /\ g \in FrameRecord /\ g.task = t /\ ~g.counted /\ g.epoch = rec.controlEpoch
      /\ g.kind = "pause"
  BY <1>3, <1>1 DEF Frame, FrameRecord, Kind, TaskRecord
<1> HIDE DEF rec, rest, g
<1>6. CASE rec.driver = "none" /\ Write(t, rest) /\ UNCHANGED frames
  <2>1. Moves(t, {}, {})
    BY <1>1, <1>6, StillMoves
  <2>2. Rests(rest)
    BY <1>4, <1>6 DEF Rests
  <2>3. Bumps(t, rest, {}, {})
    BY <1>1, <1>3, <1>4, <1>6, <2>1, <2>2 DEF Bumps
  <2> QED BY <1>1, <1>4, <2>3, BumpsSteps, StepAside
<1>7. CASE rec.driver # "none" /\ Write(t, rec) /\ frames' = frames \cup {g}
  <2>1. Moves(t, {}, {g})
    BY <1>1, <1>5, <1>7, CallMoves
  <2>2. Rests(rec) /\ Suits("pause", rec)
    BY <1>1, <1>3, <1>7 DEF Rests, Suits, Fits
  <2>3. Bumps(t, rec, {}, {g})
    BY <1>1, <1>3, <1>5, <1>7, <2>1, <2>2 DEF Bumps
  <2> QED BY <1>1, <1>3, <2>3, BumpsSteps, StepAside
<1> QED BY <1>2, <1>6, <1>7

\* The cards of a task whose card was made obsolete.
LEMMA SupersedeDeals ==
    ASSUME Inv, NEW t \in Task, NEW rec, task[t].waiting # 0, rec.waiting = 0,
           rec.pendingResume = 0, rec.status # "waiting_for_human", UNCHANGED told,
           gate' = [gate EXCEPT ![t][task[t].waiting] =
                       [status |-> "superseded", decision |-> None]]
    PROVE  Dealt(t, rec, gate'[t], told'[t])
<1> DEFINE c == task[t].waiting
           card == [status |-> "superseded", decision |-> None]
           cards == [gate[t] EXCEPT ![c] = card]
<1>1. /\ gate \in [Task -> Seq(Card)] /\ gate[t] \in Seq(Card) /\ Len(gate[t]) <= MaxCards
      /\ told \in [Task -> [1..MaxCards -> Nat]]
  BY DEF Inv, Typed
<1>2. Cards(task[t], gate[t], told[t]) /\ task[t].waiting \in Nat
  BY TaskFacts, BoundAssumption DEF TaskRecord
<1>3. card \in Card
  BY DEF Card
<1>4. c \in 1..Len(gate[t]) /\ gate[t][c].status = "waiting"
  BY <1>1, <1>2 DEF Cards
<1>5. cards \in Seq(Card) /\ Len(cards) = Len(gate[t])
  BY <1>1, <1>3, <1>4
<1>6. cards[c] = card /\ \A d \in 1..Len(gate[t]) : d # c => cards[d] = gate[t][d]
  BY <1>1, <1>4
<1>7. gate' = [gate EXCEPT ![t] = cards]
  OBVIOUS
<1>8. card.status = "superseded" /\ card.decision = None
  OBVIOUS
<1> HIDE DEF cards, card, c
<1>9. gate' \in [Task -> Seq(Card)] /\ gate'[t] = cards /\ \A u \in Task \ {t} : gate'[u] = gate[u]
  BY <1>1, <1>5, <1>7
<1>10. Cards(rec, cards, told[t])
  <2> SUFFICES ASSUME NEW d \in 1..MaxCards
               PROVE  /\ told[t][d] \in {0, 1}
                      /\ told[t][d] = 1 => d <= Len(cards) /\ cards[d].status = "resolved"
                      /\ d <= Len(cards) /\ cards[d].status # "resolved" => cards[d].decision = None
    BY DEF Cards
  <2>1. /\ told[t][d] \in {0, 1}
        /\ told[t][d] = 1 => d <= Len(gate[t]) /\ gate[t][d].status = "resolved"
        /\ d <= Len(gate[t]) /\ gate[t][d].status # "resolved" => gate[t][d].decision = None
    BY <1>2 DEF Cards
  <2>2. CASE d = c
    BY <1>4, <1>5, <1>6, <1>8, <2>1, <2>2
  <2>3. CASE d # c
    <3>1. d <= Len(gate[t]) => cards[d] = gate[t][d]
      BY <1>1, <1>6, <2>3
    <3> QED BY <1>5, <2>1, <3>1
  <2> QED BY <2>2, <2>3
<1> QED BY <1>1, <1>5, <1>9, <1>10 DEF Dealt

\* A paused task goes on.
LEMMA ResumeStep ==
    ASSUME Inv, NEW t \in Task, Resume(t)
    PROVE  Inv' /\ CanceledStays
<1> DEFINE old == task[t]
           rec == [old EXCEPT !.controlEpoch = @ + 1, !.pauseRequested = FALSE]
           c == old.waiting
           asking == [rec EXCEPT !.status = "waiting_for_human"]
           polling == [rec EXCEPT !.status = "verifying"]
           again == [rec EXCEPT !.status = "queued"]
           anew == [rec EXCEPT !.status = "queued", !.waiting = 0, !.pendingResume = 0]
           g == Frame("poll", t, rec.controlEpoch, FALSE, None)
<1>1. /\ old \in TaskRecord /\ Cards(old, gate[t], told[t])
      /\ old.status = "paused" /\ old.driver = "none"
      /\ old.controlEpoch < MaxEpoch /\ pump = "idle"
      /\ UNCHANGED <<runningCount, told>> /\ Unserved
      /\ old.controlEpoch + 1 \in 0..MaxEpoch /\ 0 \in 0..MaxCards
  BY TaskFacts, EpochFacts, BoundAssumption DEF Resume, May, Idle
<1>2. \/ c # 0 /\ Write(t, asking) /\ UNCHANGED <<frames, pump, gate>>
      \/ Write(t, polling) /\ frames' = frames \cup {g} /\ UNCHANGED <<pump, gate>>
      \/ Write(t, again) /\ pump' = "due" /\ UNCHANGED <<frames, gate>>
      \/ /\ c # 0 /\ Write(t, anew) /\ pump' = "due" /\ UNCHANGED frames
         /\ gate' = [gate EXCEPT ![t][c] = [status |-> "superseded", decision |-> None]]
  BY DEF Resume, Call
<1>3. /\ rec \in TaskRecord /\ rec.driver = "none" /\ rec.controlEpoch = old.controlEpoch + 1
      /\ rec.waiting = old.waiting /\ rec.pendingResume = old.pendingResume
  BY <1>1 DEF TaskRecord
<1>4. ASSUME NEW new \in TaskRecord, NEW A, Write(t, new), Moves(t, {}, A),
             new.driver = "none", new.controlEpoch = rec.controlEpoch,
             \/ A = {}
             \/ A = {g} /\ new.status = "verifying"
      PROVE  Steps(t, new, {}, A)
  <2>1. Rests(new)
    BY <1>4 DEF Rests
  <2>2. g.epoch = rec.controlEpoch /\ ~g.counted /\ g.kind = "poll"
    BY DEF Frame
  <2> HIDE DEF g, rec
  <2>3. Bumps(t, new, {}, A)
    BY <1>1, <1>3, <1>4, <2>1, <2>2 DEF Bumps, Suits
  <2> QED BY <2>3, BumpsSteps
<1>5. CASE c # 0 /\ Write(t, asking) /\ UNCHANGED <<frames, pump, gate>>
  <2>1. /\ asking \in TaskRecord /\ asking.driver = "none" /\ Milder(old, asking)
        /\ asking.controlEpoch = rec.controlEpoch
    BY <1>3, <1>5 DEF TaskRecord, Milder, Status
  <2>2. Moves(t, {}, {})
    BY <1>1, <1>5, StillMoves
  <2>3. Steps(t, asking, {}, {})
    BY <1>4, <1>5, <2>1, <2>2
  <2> QED BY <1>1, <1>5, <2>1, <2>3, StepAside DEF Undecided
<1>6. CASE Write(t, polling) /\ frames' = frames \cup {g} /\ UNCHANGED <<pump, gate>>
  <2>1. /\ polling \in TaskRecord /\ polling.driver = "none" /\ Milder(old, polling)
        /\ polling.controlEpoch = rec.controlEpoch /\ polling.status = "verifying"
    BY <1>3 DEF TaskRecord, Milder, Status
  <2>2. g \in FrameRecord /\ g.task = t /\ ~g.counted
    BY <1>1, <1>3 DEF Frame, FrameRecord, Kind
  <2>3. Moves(t, {}, {g})
    BY <1>1, <1>6, <2>2, CallMoves
  <2>4. Steps(t, polling, {}, {g})
    BY <1>4, <1>6, <2>1, <2>3
  <2> QED BY <1>1, <1>6, <2>1, <2>4, StepAside DEF Undecided
<1>7. CASE Write(t, again) /\ pump' = "due" /\ UNCHANGED <<frames, gate>>
  <2>1. /\ again \in TaskRecord /\ again.driver = "none" /\ Milder(old, again)
        /\ again.controlEpoch = rec.controlEpoch
    BY <1>3 DEF TaskRecord, Milder, Status
  <2>2. Moves(t, {}, {})
    BY <1>1, <1>7, StillMoves
  <2>3. Steps(t, again, {}, {})
    BY <1>4, <1>7, <2>1, <2>2
  <2> QED BY <1>1, <1>7, <2>1, <2>3, StepAside DEF Undecided
<1>8. CASE /\ c # 0 /\ Write(t, anew) /\ pump' = "due" /\ UNCHANGED frames
           /\ gate' = [gate EXCEPT ![t][c] = [status |-> "superseded", decision |-> None]]
  <2>1. /\ anew \in TaskRecord /\ anew.driver = "none" /\ anew.status = "queued"
        /\ anew.waiting = 0 /\ anew.pendingResume = 0
        /\ anew.controlEpoch = rec.controlEpoch
    BY <1>1, <1>3 DEF TaskRecord, Status
  <2>2. Moves(t, {}, {})
    BY <1>1, <1>8, StillMoves
  <2>3. Steps(t, anew, {}, {})
    BY <1>4, <1>8, <2>1, <2>2
  <2>4. Dealt(t, anew, gate'[t], told'[t])
    <3> HIDE DEF anew
    <3> QED BY <1>1, <1>8, <2>1, SupersedeDeals
  <2> QED BY <2>3, <2>4, StepKeeps
<1> QED BY <1>2, <1>5, <1>6, <1>7, <1>8

\* A failed task starts again, or its delivery does.
LEMMA RetryStep ==
    ASSUME Inv, NEW t \in Task, Retry(t)
    PROVE  Inv' /\ CanceledStays
<1> DEFINE old == task[t]
           F == FramesOf(frames, t)
           again == [old EXCEPT !.status = "queued"]
           verify == [old EXCEPT !.status = "verifying"]
           g == Frame("deliver", t, old.controlEpoch, FALSE, None)
<1>1. /\ old \in TaskRecord /\ Fits(old, F) /\ Cards(old, gate[t], told[t])
      /\ old.status = "failed" /\ old.driver = "none" /\ Idle /\ pump = "idle"
      /\ runningCount' = runningCount /\ Undecided /\ Unserved
      /\ F \in SUBSET FrameRecord
  BY TaskFacts DEF Retry, Idle, FramesOf
<1>2. \A h \in F : ~(h.epoch = old.controlEpoch /\ h.kind \in Executor)
  BY <1>1, NobodyWorks
<1>3. \/ Write(t, again) /\ pump' = "due" /\ UNCHANGED frames
      \/ Write(t, verify) /\ frames' = frames \cup {g} /\ UNCHANGED pump
  BY DEF Retry, Repair, Call
<1>4. CASE Write(t, again) /\ pump' = "due" /\ UNCHANGED frames
  <2>1. /\ again \in TaskRecord /\ again.status = "queued" /\ again.driver = "none"
        /\ again.controlEpoch = old.controlEpoch /\ Milder(old, again)
    BY <1>1 DEF TaskRecord, Milder, Cards, Status
  <2> HIDE DEF again
  <2>2. Rests(again) /\ ("merge" \notin Operations => Kept(again, F))
    BY <1>1, <2>1 DEF Rests, Fits, Kept
  <2>3. Fits(again, F)
    BY <1>1, <1>2, <2>1, <2>2, FitsStill
  <2>4. Moves(t, {}, {})
    BY <1>1, <1>4, StillMoves
  <2>5. Steps(t, again, {}, {})
    BY <1>1, <1>4, <2>1, <2>3, <2>4 DEF Steps, Unserved
  <2> QED BY <1>1, <2>1, <2>5, StepAside
<1>5. CASE Write(t, verify) /\ frames' = frames \cup {g} /\ UNCHANGED pump
  <2>1. /\ verify \in TaskRecord /\ verify.status = "verifying" /\ verify.driver = "none"
        /\ verify.controlEpoch = old.controlEpoch /\ Milder(old, verify)
    BY <1>1 DEF TaskRecord, Milder, Cards, Status
  <2>2. /\ g \in FrameRecord /\ g.task = t /\ ~g.counted /\ g.kind = "deliver"
        /\ g.epoch = old.controlEpoch
    BY <1>1 DEF Frame, FrameRecord, Kind, TaskRecord
  <2> HIDE DEF verify, g
  <2>3. Rests(verify) /\ Suits("deliver", verify)
    BY <2>1 DEF Rests, Suits
  <2>4. Fits(verify, F \cup {g})
    BY <1>1, <1>2, <2>1, <2>2, <2>3, FitsTaken DEF Executor
  <2>5. Moves(t, {}, {g})
    BY <1>1, <1>5, <2>2, CallMoves
  <2>6. (F \ {}) \cup {g} = F \cup {g}
    OBVIOUS
  <2>7. Steps(t, verify, {}, {g})
    BY <1>1, <1>5, <2>1, <2>4, <2>5, <2>6 DEF Steps, Unserved
  <2> QED BY <1>1, <2>1, <2>7, StepAside
<1> QED BY <1>3, <1>4, <1>5

\* A new request takes the task back from its verification.
LEMMA InterruptStep ==
    ASSUME Inv, NEW t \in Task, Interrupt(t)
    PROVE  Inv' /\ CanceledStays
<1> DEFINE old == task[t]
           rec == [old EXCEPT !.status = "queued", !.controlEpoch = @ + 1]
<1>1. /\ old \in TaskRecord /\ Cards(old, gate[t], told[t])
      /\ old.status \in {"verifying", "failed"} /\ old.driver = "none"
      /\ Write(t, rec) /\ pump' = "due" /\ UNCHANGED <<frames, runningCount>>
      /\ Undecided /\ Unserved /\ old.controlEpoch + 1 \in 0..MaxEpoch
  BY TaskFacts, EpochFacts DEF Interrupt, May
<1>2. /\ rec \in TaskRecord /\ rec.status = "queued" /\ rec.driver = "none"
      /\ rec.controlEpoch = old.controlEpoch + 1 /\ Milder(old, rec)
  BY <1>1 DEF TaskRecord, Milder, Cards, Status
<1> HIDE DEF rec
<1>3. Moves(t, {}, {}) /\ Rests(rec)
  BY <1>1, <1>2, StillMoves DEF Rests
<1>4. Bumps(t, rec, {}, {})
  BY <1>1, <1>2, <1>3 DEF Bumps
<1> QED BY <1>1, <1>2, <1>4, BumpsSteps, StepAside
-----------------------------------------------------------------------------
\* Decisions.

\* The cards of a task whose card is answered; the session may hear it.
LEMMA AnswerDeals ==
    ASSUME Inv, NEW t \in Task, NEW rec, Open(t), NEW answer \in Answer,
           Resolve(t, task[t].waiting, answer), rec.waiting = 0,
           rec.status # "waiting_for_human",
           \/ /\ told' = told
              /\ rec.pendingResume \in {task[t].waiting, task[t].pendingResume}
           \/ /\ told' = [told EXCEPT ![t][task[t].waiting] = @ + 1]
              /\ rec.pendingResume = task[t].pendingResume
    PROVE  Dealt(t, rec, gate'[t], told'[t])
<1> DEFINE c == task[t].waiting
           card == [status |-> "resolved", decision |-> answer]
           cards == [gate[t] EXCEPT ![c] = card]
           more == [told[t] EXCEPT ![c] = @ + 1]
<1>1. /\ gate \in [Task -> Seq(Card)] /\ gate[t] \in Seq(Card) /\ Len(gate[t]) <= MaxCards
      /\ told \in [Task -> [1..MaxCards -> Nat]] /\ told[t] \in [1..MaxCards -> Nat]
  BY DEF Inv, Typed
<1>2. Cards(task[t], gate[t], told[t])
  BY TaskFacts
<1>3. card \in Card
  BY DEF Card
<1>4. c \in 1..Len(gate[t]) /\ gate[t][c].status = "waiting"
  <2>1. task[t].waiting \in Nat
    BY TaskFacts, BoundAssumption DEF TaskRecord
  <2> QED BY <1>1, <1>2, <2>1 DEF Cards, Open
<1>5. c \in 1..MaxCards
  <2>1. Len(gate[t]) \in Nat
    BY <1>1
  <2> QED BY <1>1, <1>4, <2>1, BoundAssumption
<1>6. cards \in Seq(Card) /\ Len(cards) = Len(gate[t])
  BY <1>1, <1>3, <1>4
<1>7. cards[c] = card /\ \A d \in 1..Len(gate[t]) : d # c => cards[d] = gate[t][d]
  BY <1>1, <1>4
<1>8. gate' = [gate EXCEPT ![t] = cards]
  BY DEF Resolve
<1>9. card.status = "resolved" /\ told[t][c] = 0
  <2>1. told[t][c] \in {0, 1} /\ (told[t][c] = 1 => gate[t][c].status = "resolved")
    BY <1>2, <1>5 DEF Cards
  <2> QED BY <1>4, <2>1
<1>10. /\ more \in [1..MaxCards -> Nat] /\ more[c] = 1
       /\ \A d \in 1..MaxCards : d # c => more[d] = told[t][d]
  <2> HIDE DEF c
  <2> QED BY <1>1, <1>5, <1>9
<1>11. \/ /\ told' = [told EXCEPT ![t] = more]
          /\ rec.pendingResume = task[t].pendingResume
       \/ told' = told /\ rec.pendingResume \in {c, task[t].pendingResume}
  OBVIOUS
<1>12. task[t].pendingResume # 0 => /\ task[t].pendingResume \in 1..Len(gate[t])
                                    /\ gate[t][task[t].pendingResume].status = "resolved"
                                    /\ told[t][task[t].pendingResume] = 0
                                    /\ task[t].pendingResume \in 1..MaxCards
  <2>1. task[t].pendingResume \in 0..MaxCards /\ Len(gate[t]) \in Nat
    BY <1>1, TaskFacts DEF TaskRecord
  <2> QED BY <1>2, <2>1, BoundAssumption DEF Cards
<1> HIDE DEF cards, card, c, more
<1>13. /\ gate' \in [Task -> Seq(Card)] /\ gate'[t] = cards
       /\ \A u \in Task \ {t} : gate'[u] = gate[u]
  BY <1>1, <1>6, <1>8
<1>14. /\ told' \in [Task -> [1..MaxCards -> Nat]] /\ told'[t] \in {told[t], more}
       /\ \A u \in Task \ {t} : told'[u] = told[u]
       /\ told'[t] = more => rec.pendingResume = task[t].pendingResume
       /\ rec.pendingResume \in {c, task[t].pendingResume}
       /\ rec.pendingResume = task[t].pendingResume \/ told'[t] = told[t]
  <2>1. CASE /\ told' = [told EXCEPT ![t] = more]
             /\ rec.pendingResume = task[t].pendingResume
    BY <1>1, <1>10, <2>1
  <2>2. CASE told' = told /\ rec.pendingResume \in {c, task[t].pendingResume}
    BY <1>1, <1>9, <1>10, <1>5, <2>2
  <2> QED BY <1>11, <2>1, <2>2
<1>15. Cards(rec, cards, told'[t])
  <2>1. ASSUME NEW d \in 1..MaxCards
        PROVE  /\ told'[t][d] \in {0, 1}
               /\ told'[t][d] = 1 => d <= Len(cards) /\ cards[d].status = "resolved"
               /\ d <= Len(cards) /\ cards[d].status # "resolved" => cards[d].decision = None
    <3>1. /\ told[t][d] \in {0, 1}
          /\ told[t][d] = 1 => d <= Len(gate[t]) /\ gate[t][d].status = "resolved"
          /\ d <= Len(gate[t]) /\ gate[t][d].status # "resolved" => gate[t][d].decision = None
      BY <1>2 DEF Cards
    <3>2. CASE d = c
      <4>1. told'[t][c] \in {0, 1}
        BY <1>9, <1>10, <1>14
      <4> QED BY <1>4, <1>6, <1>7, <1>9, <3>2, <4>1
    <3>3. CASE d # c
      <4>1. d <= Len(gate[t]) => cards[d] = gate[t][d]
        BY <1>1, <1>7, <3>3
      <4>2. told'[t][d] = told[t][d]
        BY <1>10, <1>14, <3>3
      <4> QED BY <1>6, <3>1, <4>1, <4>2
    <3> QED BY <3>2, <3>3
  <2>2. rec.pendingResume # 0 => /\ rec.pendingResume <= Len(cards)
                                 /\ cards[rec.pendingResume].status = "resolved"
                                 /\ told'[t][rec.pendingResume] = 0
    <3>1. CASE rec.pendingResume = c /\ told'[t] = told[t]
      BY <1>4, <1>6, <1>7, <1>9, <3>1
    <3>2. CASE rec.pendingResume = task[t].pendingResume
      <4>1. SUFFICES ASSUME task[t].pendingResume # 0
                     PROVE  /\ task[t].pendingResume <= Len(cards)
                            /\ cards[task[t].pendingResume].status = "resolved"
                            /\ told'[t][task[t].pendingResume] = 0
        BY <3>2
      <4>2. task[t].pendingResume # c
        BY <1>4, <1>12, <4>1
      <4>3. told'[t][task[t].pendingResume] = 0
        BY <1>10, <1>12, <1>14, <4>1, <4>2
      <4>4. cards[task[t].pendingResume] = gate[t][task[t].pendingResume]
        BY <1>7, <1>12, <4>1, <4>2
      <4>5. task[t].pendingResume <= Len(cards)
        BY <1>1, <1>6, <1>12, <4>1
      <4> QED BY <1>12, <4>1, <4>3, <4>4, <4>5
    <3> QED BY <1>14, <3>1, <3>2
  <2> QED BY <2>1, <2>2 DEF Cards
<1> QED BY <1>1, <1>6, <1>13, <1>14, <1>15 DEF Dealt

\* A failure may begin beside the end of a pause.
LEMMA FitsBeside ==
    ASSUME NEW rec \in TaskRecord, NEW new \in TaskRecord, NEW F \in SUBSET FrameRecord,
           Fits(rec, F), new.controlEpoch = rec.controlEpoch, Rests(new),
           \A f \in F : f.epoch = rec.controlEpoch /\ f.kind \in Executor => f.kind = "pause",
           NEW g \in FrameRecord, g.epoch = rec.controlEpoch, g.kind = "failing", ~g.counted,
           new.status # "canceled", Suits("failing", new), Suits("pause", new),
           new.driver # "open"
    PROVE  Fits(new, F \cup {g})
<1>1. "merge" \notin Operations => Kept(new, F \cup {g})
  BY DEF Fits, Kept
<1>2. \A h \in F \cup {g} :
        /\ h.epoch <= new.controlEpoch
        /\ h.counted => h.kind \in Executor \ {"poll"}
        /\ h.epoch = new.controlEpoch /\ h.kind \in Executor
             => new.status # "canceled" /\ Suits(h.kind, new)
  BY BoundAssumption DEF Fits, TaskRecord
<1>3. \A h, k \in F \cup {g} :
        /\ h.counted /\ k.counted /\ h.epoch = k.epoch => h = k
        /\ /\ h.epoch = new.controlEpoch /\ k.epoch = new.controlEpoch
           /\ h.kind \in Executor /\ k.kind \in Executor
           => Apart(h, k)
  BY DEF Fits, Apart
<1> QED BY <1>1, <1>2, <1>3 DEF Fits

\* A decision is taken.
LEMMA DecideStep ==
    ASSUME Inv, NEW t \in Task, NEW answer \in Answer, Decide(t, answer)
    PROVE  Inv' /\ CanceledStays
<1> DEFINE old == task[t]
           F == FramesOf(frames, t)
           c == old.waiting
           rec == Answered(old, c)
           kind == IF old.driver = "open" THEN "turn" ELSE "failing"
           g == Frame(kind, t, old.controlEpoch, FALSE, None)
<1>1. /\ old \in TaskRecord /\ Fits(old, F) /\ Cards(old, gate[t], told[t])
      /\ F \in SUBSET FrameRecord /\ Open(t) /\ old.status = "waiting_for_human"
      /\ Idle /\ pump = "idle" /\ runningCount' = runningCount /\ Unserved
      /\ Resolve(t, c, answer) /\ Write(t, rec) /\ 0 \in 0..MaxCards /\ c \in 0..MaxCards
  <2>1. old \in TaskRecord /\ Fits(old, F) /\ Cards(old, gate[t], told[t]) /\ F \in SUBSET FrameRecord
    BY TaskFacts DEF FramesOf
  <2>2. c \in 0..MaxCards /\ 0 \in 0..MaxCards
    BY <2>1, BoundAssumption DEF TaskRecord
  <2> QED BY <2>1, <2>2 DEF Decide, Open, Idle
<1>2. /\ rec \in TaskRecord /\ rec.controlEpoch = old.controlEpoch /\ rec.driver = old.driver
      /\ rec.waiting = 0
      /\ old.driver # "none" => rec.status = "running" /\ rec.pendingResume = old.pendingResume
      /\ old.driver = "none" => rec.status = "queued" /\ rec.pendingResume = c
  BY <1>1 DEF TaskRecord, Answered, Status
<1>3. Dealt(t, rec, gate'[t], told'[t])
  <2>1. \/ told' = told /\ rec.pendingResume \in {c, old.pendingResume}
        \/ told' = [told EXCEPT ![t][c] = @ + 1] /\ rec.pendingResume = old.pendingResume
    BY <1>2 DEF Decide
  <2>2. rec.status # "waiting_for_human"
    BY <1>2
  <2> HIDE DEF rec
  <2> QED BY <1>1, <1>2, <2>1, <2>2, AnswerDeals
<1>4. /\ g \in FrameRecord /\ g.task = t /\ ~g.counted /\ g.epoch = old.controlEpoch
      /\ g.kind = kind
  BY <1>1 DEF Frame, FrameRecord, Kind, TaskRecord
<1>5. \/ old.driver # "none" /\ frames' = frames \cup {g} /\ UNCHANGED pump
      \/ old.driver = "none" /\ UNCHANGED frames /\ pump' = "due"
  BY DEF Decide, Call
<1>6. (F \ {}) \cup {g} = F \cup {g} /\ (F \ {}) \cup {} = F
  OBVIOUS
<1> HIDE DEF g, rec
<1>7. CASE old.driver = "none" /\ UNCHANGED frames /\ pump' = "due"
  <2>1. \A h \in F : ~(h.epoch = old.controlEpoch /\ h.kind \in Executor)
    BY <1>1, <1>7, NobodyWorks
  <2>2. Rests(rec) /\ ("merge" \notin Operations => Kept(rec, F))
    BY <1>1, <1>2, <1>7 DEF Rests, Fits, Kept
  <2>3. Fits(rec, F)
    BY <1>1, <1>2, <2>1, <2>2, FitsStill
  <2>4. Moves(t, {}, {})
    BY <1>1, <1>7, StillMoves
  <2>5. Steps(t, rec, {}, {})
    BY <1>1, <1>2, <1>6, <2>3, <2>4 DEF Steps, Unserved
  <2> QED BY <1>3, <2>5, StepKeeps
<1>8. CASE old.driver # "none" /\ frames' = frames \cup {g} /\ UNCHANGED pump
  <2>1. Moves(t, {}, {g})
    BY <1>1, <1>4, <1>8, CallMoves
  <2>2. Rests(rec) /\ rec.status = "running"
    BY <1>2, <1>8 DEF Rests
  <2>3. CASE old.driver = "open"
    <3>1. \A h \in F : ~(h.epoch = old.controlEpoch /\ h.kind \in Executor)
      BY <1>1, <2>3, NobodyWorks
    <3>2. g.kind = "turn" /\ Suits("turn", rec)
      BY <1>2, <1>4, <2>2, <2>3 DEF Suits
    <3>3. Fits(rec, F \cup {g})
      BY <1>1, <1>2, <1>4, <2>2, <3>1, <3>2, FitsTaken DEF Executor
    <3>4. Steps(t, rec, {}, {g})
      BY <1>1, <1>2, <1>6, <2>1, <3>3 DEF Steps, Unserved
    <3> QED BY <1>3, <3>4, StepKeeps
  <2>4. CASE old.driver # "open"
    <3>1. \A h \in F : h.epoch = old.controlEpoch /\ h.kind \in Executor => h.kind = "pause"
      BY <1>1 DEF Fits, Suits, Executor
    <3>2. g.kind = "failing" /\ Suits("failing", rec) /\ Suits("pause", rec)
      BY <1>2, <1>4, <2>2, <2>4 DEF Suits
    <3>3. Fits(rec, F \cup {g})
      BY <1>1, <1>2, <1>4, <2>2, <2>4, <3>1, <3>2, FitsBeside
    <3>4. Steps(t, rec, {}, {g})
      BY <1>1, <1>2, <1>6, <2>1, <3>3 DEF Steps, Unserved
    <3> QED BY <1>3, <3>4, StepKeeps
  <2> QED BY <2>3, <2>4
<1> QED BY <1>5, <1>7, <1>8
-----------------------------------------------------------------------------
\* The pump and the early start.

\* Nobody works on a queued task.
LEMMA NobodyQueued ==
    ASSUME Inv, NEW t \in Task, task[t].status = "queued", NEW h \in FramesOf(frames, t)
    PROVE  ~(h.epoch = task[t].controlEpoch /\ h.kind \in Executor)
<1>1. SUFFICES ASSUME h.epoch = task[t].controlEpoch, h.kind \in Executor PROVE FALSE
  OBVIOUS
<1>2. Suits(h.kind, task[t])
  BY <1>1, TaskFacts DEF Fits
<1> QED BY <1>1, <1>2 DEF Suits, Executor

\* A step about other things.
LEMMA Elsewhere ==
    ASSUME Inv, UNCHANGED <<task, frames, runningCount, crashes>>, Undecided,
           pump' \in {"idle", "due", "on"},
           view' # None => view'.task \in Task /\ view'.ticket \in Ticket
    PROVE  Inv' /\ CanceledStays
<1>1. Typed'
  BY DEF Inv, Typed, Undecided
<1>2. \A t \in Task : /\ Fits(task'[t], FramesOf(frames', t))
                      /\ Cards(task'[t], gate'[t], told'[t])
  BY DEF Inv, Undecided
<1> QED BY <1>1, <1>2 DEF Inv, CanceledStays

\* Tasks that wait for a canceled one fail.
LEMMA PumpRefreshStep ==
    ASSUME Inv, PumpRefresh
    PROVE  Inv' /\ CanceledStays
<1>1. /\ task' = [t \in Task |-> IF t \in Hopeless THEN [task[t] EXCEPT !.status = "failed"]
                                                   ELSE task[t]]
      /\ pump' = "on" /\ UNCHANGED <<frames, runningCount>> /\ Undecided /\ Unserved
  BY DEF PumpRefresh
<1>2. ASSUME NEW t \in Task
      PROVE  /\ task'[t] \in TaskRecord /\ Fits(task'[t], FramesOf(frames', t))
             /\ Cards(task'[t], gate'[t], told'[t])
             /\ task[t].status = "canceled" => task'[t].status = "canceled"
  <2> DEFINE old == task[t]
             F == FramesOf(frames, t)
             rec == [old EXCEPT !.status = "failed"]
  <2>1. old \in TaskRecord /\ Fits(old, F) /\ Cards(old, gate[t], told[t])
    BY TaskFacts
  <2>2. FramesOf(frames', t) = F /\ gate'[t] = gate[t] /\ told'[t] = told[t]
    BY <1>1 DEF Undecided
  <2>3. CASE t \in Hopeless
    <3>1. task'[t] = rec /\ old.status = "queued"
      BY <1>1, <2>3 DEF Hopeless
    <3>2. /\ rec \in TaskRecord /\ rec.status = "failed" /\ rec.driver = old.driver
          /\ rec.controlEpoch = old.controlEpoch /\ rec.waiting = old.waiting
          /\ rec.pendingResume = old.pendingResume
      BY <2>1 DEF TaskRecord, Status
    <3> HIDE DEF rec
    <3>3. Rests(rec) /\ ("merge" \notin Operations => Kept(rec, F))
      BY <2>1, <3>1, <3>2 DEF Rests, Fits, Kept
    <3>4. \A h \in F : ~(h.epoch = old.controlEpoch /\ h.kind \in Executor)
      BY <3>1, NobodyQueued
    <3>5. Fits(rec, F)
      BY <2>1, <3>2, <3>3, <3>4, FitsStill
    <3>6. Cards(rec, gate[t], told[t])
      BY <2>1, <3>2 DEF Cards
    <3> QED BY <2>2, <3>1, <3>2, <3>5, <3>6
  <2>4. CASE t \notin Hopeless
    BY <1>1, <2>1, <2>2, <2>4
  <2> QED BY <2>3, <2>4
<1>3. task' \in [Task -> TaskRecord]
  <2>1. task' = [t \in Task |-> task'[t]]
    BY <1>1
  <2> QED BY <1>2, <2>1
<1>4. Typed'
  BY <1>1, <1>3 DEF Inv, Typed, Undecided, Unserved
<1>5. Slots(frames', runningCount')
  BY <1>1 DEF Inv
<1> QED BY <1>2, <1>4, <1>5 DEF Inv, CanceledStays

\* A task gets a slot.
LEMMA PumpStartStep ==
    ASSUME Inv, PumpStart
    PROVE  Inv' /\ CanceledStays
<1> DEFINE t == queue[FirstReady]
           old == task[t]
           F == FramesOf(frames, t)
           rec == [old EXCEPT !.status = "running", !.started = TRUE]
           g == Frame("launch", t, old.controlEpoch, TRUE, None)
<1>1. /\ pump = "on" /\ pump' = "on" /\ runningCount < MaxConcurrent /\ Undecided /\ Unserved
      /\ runningCount \in Int /\ MaxConcurrent \in Int
  BY MaxConcurrentAssumption DEF PumpStart, Inv, Typed
<1>2. CASE ~(t \in Task /\ old.status = "queued")
  <2>1. UNCHANGED <<task, runningCount, frames>>
    BY <1>2 DEF PumpStart
  <2>2. view' # None => view'.task \in Task /\ view'.ticket \in Ticket
    BY <1>1 DEF Inv, Typed, Unserved
  <2> QED BY <1>1, <2>1, <2>2, Elsewhere DEF Unserved
<1>3. CASE t \in Task /\ old.status = "queued"
  <2>1. Write(t, rec) /\ runningCount' = runningCount + 1 /\ frames' = frames \cup {g}
    BY <1>3 DEF PumpStart
  <2> HIDE DEF t
  <2>2. /\ old \in TaskRecord /\ Fits(old, F) /\ Cards(old, gate[t], told[t])
        /\ F \in SUBSET FrameRecord /\ Slots(frames, runningCount)
    BY <1>3, TaskFacts DEF FramesOf
  <2>3. /\ rec \in TaskRecord /\ rec.status = "running" /\ rec.driver = old.driver
        /\ rec.controlEpoch = old.controlEpoch /\ Milder(old, rec)
    BY <2>2 DEF TaskRecord, Milder, Cards, Status
  <2>4. old.driver = "none"
    BY <1>3, <2>2 DEF Fits, Rests
  <2>5. /\ g \in FrameRecord /\ g.task = t /\ g.counted /\ g.kind = "launch"
        /\ g.epoch = old.controlEpoch
    BY <1>3, <2>2 DEF Frame, FrameRecord, Kind, TaskRecord
  <2>6. \A h \in F : ~(h.epoch = old.controlEpoch /\ h.kind \in Executor)
    BY <1>3, NobodyQueued
  <2> HIDE DEF rec, g
  <2>7. g \notin frames
    BY <2>5, <2>6 DEF FramesOf, Executor
  <2>8. Slots(frames', runningCount') /\ runningCount' <= MaxConcurrent
    BY <1>1, <2>1, <2>2, <2>5, <2>7, SlotsTake
  <2>9. Moves(t, {}, {g})
    BY <1>1, <2>1, <2>5, <2>8 DEF Moves, FramesOf
  <2>10. Rests(rec) /\ Suits("launch", rec)
    BY <2>3, <2>4 DEF Rests, Suits
  <2>11. Fits(rec, F \cup {g})
    BY <2>2, <2>3, <2>4, <2>5, <2>6, <2>10, FitsTaken DEF Executor
  <2>12. (F \ {}) \cup {g} = F \cup {g}
    OBVIOUS
  <2>13. Steps(t, rec, {}, {g})
    BY <1>1, <1>3, <2>1, <2>3, <2>9, <2>11, <2>12 DEF Steps, Unserved
  <2> QED BY <1>1, <2>3, <2>13, StepAside
<1> QED BY <1>2, <1>3

\* The pump has nothing left to do.
LEMMA PumpRestStep ==
    ASSUME Inv, PumpRest
    PROVE  Inv' /\ CanceledStays
BY Elsewhere DEF PumpRest, Unserved, Inv, Typed

\* A preview is shown.
LEMMA PreviewStartStep ==
    ASSUME Inv, NEW t \in Task, PreviewStart(t)
    PROVE  Inv' /\ CanceledStays
<1>1. PICK released \in SUBSET Pending(task[t].blocked_by), ticket \in Ticket :
        view' = Preview(t, released, ticket)
  BY DEF PreviewStart
<1>2. view'.task = t /\ view'.ticket = ticket
  BY <1>1 DEF Preview
<1>3. /\ UNCHANGED <<task, frames, runningCount, crashes>> /\ Undecided
      /\ pump' \in {"idle", "due", "on"}
  BY DEF PreviewStart, Inv, Typed
<1> QED BY <1>2, <1>3, Elsewhere

\* An early start changes what a task waits for and its ticket.
LEMMA StartEarlyStep ==
    ASSUME Inv, StartEarly
    PROVE  Inv' /\ CanceledStays
<1> DEFINE t == view.task
           old == task[t]
           F == FramesOf(frames, t)
           rec == [old EXCEPT !.blocked_by = @ \ view.release_ids, !.ticket = view.ticket]
<1>1. /\ t \in Task /\ view.ticket \in Ticket /\ view # None
      /\ UNCHANGED <<frames, runningCount, crashes>> /\ Undecided /\ pump = "idle"
      /\ view' = view \/ view' = None
  BY DEF StartEarly, Inv, Typed, Idle
<1>2. pump' \in {"idle", "due", "on"}
  BY <1>1 DEF StartEarly, Wake
<1>3. \/ UNCHANGED task
      \/ Write(t, rec)
  BY DEF StartEarly
<1>4. CASE UNCHANGED task
  BY <1>1, <1>2, <1>4, Elsewhere
<1>5. CASE Write(t, rec)
  <2>1. old \in TaskRecord /\ Fits(old, F) /\ Cards(old, gate[t], told[t])
    BY <1>1, TaskFacts
  <2>2. /\ rec \in TaskRecord /\ rec.status = old.status /\ rec.driver = old.driver
        /\ rec.controlEpoch = old.controlEpoch /\ Milder(old, rec)
    BY <1>1, <2>1 DEF TaskRecord, Milder, Cards
  <2> HIDE DEF rec
  <2>3. Fits(rec, F)
    <3>1. Rests(rec) /\ ("merge" \notin Operations => Kept(rec, F))
      BY <2>1, <2>2 DEF Rests, Fits, Kept
    <3>2. \A h \in F : h.epoch = old.controlEpoch /\ h.kind \in Executor
                         => rec.status # "canceled" /\ Suits(h.kind, rec)
      BY <2>1, <2>2 DEF Fits, Suits
    <3> QED BY <2>1, <2>2, <3>1, <3>2, FitsStill
  <2>4. Moves(t, {}, {})
    BY <1>1, <1>2, StillMoves
  <2>5. Steps(t, rec, {}, {})
    BY <1>1, <1>5, <2>2, <2>3, <2>4 DEF Steps
  <2> QED BY <1>1, <2>2, <2>5, StepAside
<1> QED BY <1>3, <1>4, <1>5
-----------------------------------------------------------------------------
\* Crash and recovery.

\* What becomes of the record of a task.
LEMMA RecoveredFacts ==
    ASSUME NEW rec \in TaskRecord, NEW cards
    PROVE  LET r == Recovered(rec, cards) IN
           /\ r \in TaskRecord /\ r.controlEpoch = 0 /\ r.driver = "none"
           /\ rec.status = "canceled" => r.status = "canceled"
           /\ r.pendingResume \in {rec.pendingResume, rec.waiting}
<1> DEFINE r == [rec EXCEPT !.controlEpoch = 0, !.driver = "none", !.pauseRequested = FALSE]
           queued == [r EXCEPT !.status = "queued"]
           paused == [r EXCEPT !.status = "paused", !.paused_from = "running", !.waiting = 0]
           answered == [r EXCEPT !.waiting = 0, !.status = "queued", !.pendingResume = r.waiting]
<1>1. 0 \in 0..MaxEpoch /\ 0 \in 0..MaxCards
  BY BoundAssumption
<1>2. /\ r \in TaskRecord /\ r.controlEpoch = 0 /\ r.driver = "none" /\ r.status = rec.status
      /\ r.waiting = rec.waiting /\ r.pendingResume = rec.pendingResume
  BY <1>1 DEF TaskRecord
<1> HIDE DEF r
<1>3. /\ queued \in TaskRecord /\ queued.controlEpoch = 0 /\ queued.driver = "none"
      /\ queued.pendingResume = rec.pendingResume
  BY <1>2 DEF TaskRecord, Status
<1>4. /\ paused \in TaskRecord /\ paused.controlEpoch = 0 /\ paused.driver = "none"
      /\ paused.pendingResume = rec.pendingResume
  BY <1>1, <1>2 DEF TaskRecord, Status
<1>5. /\ answered \in TaskRecord /\ answered.controlEpoch = 0 /\ answered.driver = "none"
      /\ answered.pendingResume = rec.waiting
  BY <1>1, <1>2 DEF TaskRecord, Status
<1>6. Answered(r, r.waiting) = answered
  BY <1>2 DEF Answered
<1> HIDE DEF queued, paused, answered
<1>7. Recovered(rec, cards) =
        CASE r.status \in {"running", "queued"} -> queued
          [] r.status = "pausing" -> paused
          [] r.status = "waiting_for_human" /\ cards[r.waiting].status = "resolved" -> answered
          [] OTHER -> r
  BY <1>6 DEF Recovered, r, queued, paused
<1>8. /\ Recovered(rec, cards) \in {queued, paused, answered, r}
      /\ rec.status = "canceled" => Recovered(rec, cards) = r
  BY <1>2, <1>7
<1> QED BY <1>2, <1>3, <1>4, <1>5, <1>8

\* The cards of a task that has not been answered while it went down.
LEMMA RecoveredCards ==
    ASSUME NEW rec \in TaskRecord, NEW cards, NEW heard, Cards(rec, cards, heard)
    PROVE  Cards(Recovered(rec, cards), cards, heard)
<1> DEFINE r == [rec EXCEPT !.controlEpoch = 0, !.driver = "none", !.pauseRequested = FALSE]
           queued == [r EXCEPT !.status = "queued"]
           paused == [r EXCEPT !.status = "paused", !.paused_from = "running", !.waiting = 0]
<1>1. r.status = rec.status /\ r.waiting = rec.waiting /\ r.pendingResume = rec.pendingResume
  BY DEF TaskRecord
<1>2. /\ queued.status = "queued" /\ queued.waiting = rec.waiting
      /\ queued.pendingResume = rec.pendingResume
  BY DEF TaskRecord
<1>3. /\ paused.status = "paused" /\ paused.waiting = 0
      /\ paused.pendingResume = rec.pendingResume
  BY DEF TaskRecord
<1>4. ~(r.status = "waiting_for_human" /\ cards[r.waiting].status = "resolved")
  BY <1>1 DEF Cards
<1> HIDE DEF r, queued, paused
<1>5. Recovered(rec, cards) \in {queued, paused, r}
  <2>1. Recovered(rec, cards) =
        CASE r.status \in {"running", "queued"} -> queued
          [] r.status = "pausing" -> paused
          [] r.status = "waiting_for_human" /\ cards[r.waiting].status = "resolved"
               -> Answered(r, r.waiting)
          [] OTHER -> r
    BY DEF Recovered, r, queued, paused
  <2> QED BY <1>4, <2>1
<1>6. Cards(queued, cards, heard) /\ Cards(paused, cards, heard) /\ Cards(r, cards, heard)
  BY <1>1, <1>2, <1>3 DEF Cards
<1> QED BY <1>5, <1>6

\* A restart keeps the invariant if the cards it finds fit the records.
LEMMA RestartKeeps ==
    ASSUME Inv, NEW g, Restart(g), crashes < MaxCrashes, g \in [Task -> Seq(Card)],
           \A t \in Task : /\ Len(g[t]) <= MaxCards
                           /\ Cards(Recovered(task[t], g[t]), g[t], told[t])
    PROVE  Inv' /\ CanceledStays
<1> DEFINE tasks == [t \in Task |-> Recovered(task[t], g[t])]
           kind(t) == IF tasks[t].pushed THEN "poll" ELSE "deliver"
           call(t) == Frame(kind(t), t, 0, FALSE, None)
           V == {t \in Task : tasks[t].status = "verifying"}
<1>1. /\ task' = tasks /\ gate' = g /\ told' = told /\ runningCount' = 0
      /\ frames' = {call(t) : t \in V} /\ pump' \in {"idle", "due"}
      /\ view' = None /\ crashes' = crashes + 1
  BY DEF Restart
<1>2. \A t \in Task :
        /\ tasks[t] \in TaskRecord /\ tasks[t].controlEpoch = 0 /\ tasks[t].driver = "none"
        /\ task[t].status = "canceled" => tasks[t].status = "canceled"
  BY TaskFacts, RecoveredFacts
<1>3. \A t \in Task :
        /\ call(t) \in FrameRecord /\ call(t).task = t /\ call(t).epoch = 0
        /\ ~call(t).counted /\ call(t).kind \in {"poll", "deliver"}
  BY BoundAssumption DEF Frame, FrameRecord, Kind
<1> HIDE DEF call
<1>4. Slots(frames', runningCount')
  <2>1. IsFiniteSet(V)
    BY TaskAssumption, FS_Subset
  <2>2. IsFiniteSet({call(t) : t \in V})
    <3> DEFINE W == {call(t) : t \in V}
               g0 == [t \in V |-> call(t)]
    <3>1. g0 \in Surjection(V, W)
      BY DEF Surjection
    <3> HIDE DEF W, g0, V
    <3>2. IsFiniteSet(W)
      BY <2>1, <3>1, FS_Surjection
    <3> QED BY <3>2 DEF W
  <2>3. {f \in frames' : f.counted} = {}
    BY <1>1, <1>3
  <2> QED BY <1>1, <2>2, <2>3, FS_EmptySet DEF Slots
<1>5. Typed'
  <2>1. task' \in [Task -> TaskRecord]
    BY <1>1, <1>2
  <2>2. frames' \subseteq FrameRecord
    BY <1>1, <1>3
  <2>3. crashes' \in 0..MaxCrashes /\ runningCount' \in 0..MaxConcurrent
    BY <1>1, BoundAssumption, MaxConcurrentAssumption DEF Inv, Typed
  <2>4. told' \in [Task -> [1..MaxCards -> Nat]]
    BY <1>1 DEF Inv, Typed
  <2> QED BY <1>1, <2>1, <2>2, <2>3, <2>4 DEF Typed
<1>6. ASSUME NEW t \in Task PROVE Fits(task'[t], FramesOf(frames', t))
  <2>1. \A f \in FramesOf(frames', t) : f = call(t) /\ tasks[t].status = "verifying"
    BY <1>1, <1>3 DEF FramesOf
  <2>2. Rests(tasks[t])
    BY <1>2 DEF Rests
  <2>3. \A f \in FramesOf(frames', t) : Suits(f.kind, tasks[t])
    BY <1>2, <1>3, <2>1 DEF Suits
  <2>4. Kept(tasks[t], FramesOf(frames', t))
    BY <1>2, <1>3, <2>1 DEF Kept
  <2> HIDE DEF tasks
  <2> QED BY <1>1, <1>2, <1>3, <2>1, <2>2, <2>3, <2>4 DEF Fits, Apart
<1>7. \A t \in Task : Cards(task'[t], gate'[t], told'[t])
  BY <1>1
<1>8. CanceledStays
  BY <1>1, <1>2 DEF CanceledStays
<1> QED BY <1>4, <1>5, <1>6, <1>7, <1>8 DEF Inv

\* A crash between two steps of the loop.
LEMMA CrashStep ==
    ASSUME Inv, Crash
    PROVE  Inv' /\ CanceledStays
<1>1. Restart(gate) /\ crashes < MaxCrashes /\ gate \in [Task -> Seq(Card)]
  BY DEF Crash, Inv, Typed
<1>2. \A t \in Task : /\ Len(gate[t]) <= MaxCards
                      /\ Cards(Recovered(task[t], gate[t]), gate[t], told[t])
  BY TaskFacts, RecoveredCards DEF Inv, Typed
<1> QED BY <1>1, <1>2, RestartKeeps

\* A crash between the two files of a decision: the answer is kept for the
\* next session.
LEMMA CrashInDecideStep ==
    ASSUME Inv, NEW t \in Task, NEW answer \in Answer, CrashInDecide(t, answer)
    PROVE  Inv' /\ CanceledStays
<1> DEFINE old == task[t]
           c == old.waiting
           g == [gate EXCEPT ![t][c] = [status |-> "resolved", decision |-> answer]]
           rec == Recovered(old, g[t])
           r == [old EXCEPT !.controlEpoch = 0, !.driver = "none", !.pauseRequested = FALSE]
<1>1. /\ crashes < MaxCrashes /\ Open(t) /\ Restart(g) /\ told' = told
      /\ gate' = g /\ Resolve(t, c, answer) /\ gate \in [Task -> Seq(Card)]
      /\ old.status = "waiting_for_human" /\ c # 0
  BY DEF CrashInDecide, Restart, Resolve, Open, Inv, Typed
<1>2. old \in TaskRecord /\ Cards(old, gate[t], told[t]) /\ gate[t] \in Seq(Card)
  BY <1>1, TaskFacts
<1>3. g[t][c].status = "resolved"
  <2>1. c \in 1..Len(gate[t])
    BY <1>1, <1>2 DEF Cards, TaskRecord
  <2>2. g[t] = [gate[t] EXCEPT ![c] = [status |-> "resolved", decision |-> answer]]
    BY <1>1
  <2> HIDE DEF g
  <2> QED BY <1>2, <2>1, <2>2
<1>4. /\ r.status = "waiting_for_human" /\ r.waiting = c /\ r.driver = "none"
      /\ r \in [status : Status, blocked_by : SUBSET Task, ticket : Ticket,
                pushed : BOOLEAN, started : BOOLEAN, handedOver : BOOLEAN,
                controlEpoch : {0}, driver : {"none"}, pauseRequested : {FALSE},
                paused_from : Status \cup {None}, waiting : 0..MaxCards,
                pendingResume : 0..MaxCards]
  BY <1>1, <1>2 DEF TaskRecord
<1>5. rec = Answered(r, c)
  <2>1. rec =
          CASE r.status \in {"running", "queued"} -> [r EXCEPT !.status = "queued"]
            [] r.status = "pausing" ->
                 [r EXCEPT !.status = "paused", !.paused_from = "running", !.waiting = 0]
            [] r.status = "waiting_for_human" /\ g[t][r.waiting].status = "resolved"
                 -> Answered(r, r.waiting)
            [] OTHER -> r
    BY DEF Recovered
  <2> HIDE DEF r, rec, g
  <2> QED BY <1>3, <1>4, <2>1
<1>6. rec.waiting = 0 /\ rec.status = "queued" /\ rec.pendingResume = c
  <2> HIDE DEF r, rec
  <2>1. rec = [r EXCEPT !.waiting = 0, !.status = "queued", !.pendingResume = c]
    BY <1>4, <1>5 DEF Answered
  <2> QED BY <1>4, <2>1
<1>7. Dealt(t, rec, gate'[t], told'[t])
  <2> HIDE DEF rec
  <2> QED BY <1>1, <1>6, AnswerDeals
<1> HIDE DEF rec
<1>8. /\ g \in [Task -> Seq(Card)] /\ Len(g[t]) <= MaxCards /\ Cards(rec, g[t], told[t])
      /\ \A u \in Task \ {t} : g[u] = gate[u]
  BY <1>1, <1>7 DEF Dealt
<1> HIDE DEF g
<1>9. ASSUME NEW u \in Task
      PROVE  /\ Len(g[u]) <= MaxCards
             /\ Cards(Recovered(task[u], g[u]), g[u], told[u])
  <2>1. CASE u = t
    BY <1>8, <2>1 DEF rec
  <2>2. CASE u # t
    BY <1>8, <2>2, TaskFacts, RecoveredCards DEF Inv, Typed
  <2> QED BY <2>1, <2>2
<1> QED BY <1>1, <1>8, <1>9, RestartKeeps
-----------------------------------------------------------------------------
\* The theorems.

\* The initial states.
LEMMA InitInv == Init => Inv
<1> SUFFICES ASSUME Init PROVE Inv
  OBVIOUS
<1>1. PICK plan \in Plans :
        task = [t \in Task |-> NewTask(plan[t].blocked_by, plan[t].ticket)]
  BY DEF Init
<1>2. /\ frames = {} /\ runningCount = 0 /\ pump = "due" /\ view = None /\ crashes = 0
      /\ gate = [t \in Task |-> <<>>] /\ told = [t \in Task |-> [c \in 1..MaxCards |-> 0]]
  BY DEF Init
<1>3. \A t \in Task : plan[t].blocked_by \in SUBSET Task /\ plan[t].ticket \in Ticket
  BY PlanAssumption
<1>4. \A t \in Task : /\ task[t] \in TaskRecord /\ task[t].status = "queued"
                      /\ task[t].driver = "none" /\ task[t].waiting = 0
                      /\ task[t].pendingResume = 0
  BY <1>1, <1>3, BoundAssumption DEF NewTask, TaskRecord, Status
<1>5. Typed
  <2>1. task \in [Task -> TaskRecord]
    BY <1>1, <1>4
  <2>2. gate \in [Task -> Seq(Card)] /\ \A t \in Task : Len(gate[t]) <= MaxCards
    BY <1>2, BoundAssumption
  <2>3. runningCount \in 0..MaxConcurrent /\ crashes \in 0..MaxCrashes
    BY <1>2, BoundAssumption, MaxConcurrentAssumption
  <2> QED BY <1>2, <2>1, <2>2, <2>3 DEF Typed
<1>6. Slots(frames, runningCount)
  <2>1. {f \in frames : f.counted} = {}
    BY <1>2
  <2> QED BY <1>2, <2>1, FS_EmptySet DEF Slots
<1>7. ASSUME NEW t \in Task
      PROVE  Fits(task[t], FramesOf(frames, t)) /\ Cards(task[t], gate[t], told[t])
  <2>1. FramesOf(frames, t) = {}
    BY <1>2 DEF FramesOf
  <2>2. Fits(task[t], FramesOf(frames, t))
    BY <1>4, <2>1 DEF Fits, Rests, Kept
  <2>3. gate[t] = <<>> /\ \A c \in 1..MaxCards : told[t][c] = 0
    BY <1>2
  <2>4. Cards(task[t], gate[t], told[t])
    BY <1>4, <2>3 DEF Cards
  <2> QED BY <2>2, <2>4
<1> QED BY <1>5, <1>6, <1>7 DEF Inv

\* Nothing happens.
LEMMA StutterStep ==
    ASSUME Inv, UNCHANGED vars
    PROVE  Inv' /\ CanceledStays
<1>1. /\ UNCHANGED <<task, frames, runningCount, crashes>> /\ Undecided
      /\ pump' = pump /\ view' = view
  BY DEF vars, Undecided
<1> QED BY <1>1, Elsewhere DEF Inv, Typed

\* Every step keeps the invariant, and every cancellation.
LEMMA NextInv ==
    ASSUME Inv, [Next]_vars
    PROVE  Inv' /\ CanceledStays
<1>1. CASE Pump
  BY <1>1, PumpRefreshStep, PumpStartStep, PumpRestStep DEF Pump
<1>2. ASSUME NEW f \in frames, Settle(f) PROVE Inv' /\ CanceledStays
  BY <1>2, LaunchReadyStep, LaunchFailsStep, TurnStaleStep, TurnAsksStep, TurnEndsStep,
     EndsStep, CancelEndsStep, MergeEndsStep, CancelAnsweredStep, CancelFindsMergeStep
  DEF Settle
<1>3. ASSUME NEW f \in frames, Deliver(f) PROVE Inv' /\ CanceledStays
  BY <1>3, DeliverStaleStep, DeliverStep DEF Deliver
<1>4. ASSUME NEW t \in Task, Control(t) PROVE Inv' /\ CanceledStays
  BY <1>4, PauseRunningStep, PauseRestingStep, ResumeStep, CancelStep, RetryStep,
     InterruptStep, PreviewStartStep, MergeSeenStep
  DEF Control
<1>5. ASSUME NEW t \in Task, NEW answer \in Answer, Decide(t, answer) \/ CrashInDecide(t, answer)
      PROVE  Inv' /\ CanceledStays
  BY <1>5, DecideStep, CrashInDecideStep
<1> QED BY <1>1, <1>2, <1>3, <1>4, <1>5, ReleasedStep, StartEarlyStep, CrashStep,
           StutterStep DEF Next

\* The invariant of the scheduler: every call fits the record of its task,
\* every slot in use has its call, and every card the answers it was given.
THEOREM Invariance == Spec => []Inv
<1>1. Inv /\ [Next]_vars => Inv'
  BY NextInv
<1> QED BY <1>1, InitInv, PTL DEF Spec

\* The records, the calls, the slots and the cards have their types.
THEOREM TypeCorrect == Spec => []Typed
<1>1. Inv => Typed
  BY DEF Inv
<1> QED BY <1>1, Invariance, PTL

\* At most one call has the right to write the outcome of a task, through
\* every interleaving of launches, turns, deliveries, controls, decisions
\* and crashes.
THEOREM OneWriter == Spec => []OneExecutor
<1>1. Inv => OneExecutor
  <2> SUFFICES ASSUME Inv, NEW t \in Task
               PROVE  Cardinality({f \in frames : f.task = t /\ f.kind \in Working
                                                  /\ Current(f)}) <= 1
    BY DEF OneExecutor
  <2> DEFINE W == {f \in frames : f.task = t /\ f.kind \in Working /\ Current(f)}
  <2>1. ASSUME NEW f \in W, NEW g \in W PROVE f = g
    <3>1. /\ f \in FramesOf(frames, t) /\ g \in FramesOf(frames, t)
          /\ f.epoch = task[t].controlEpoch /\ g.epoch = task[t].controlEpoch
          /\ f.kind \in Executor \ {"pause"} /\ g.kind \in Executor \ {"pause"}
      BY DEF FramesOf, Working, Executor, Current
    <3>2. Fits(task[t], FramesOf(frames, t))
      BY TaskFacts
    <3> HIDE DEF W
    <3> QED BY <3>1, <3>2 DEF Fits, Apart
  <2>2. CASE W = {}
    BY <2>2, FS_EmptySet
  <2>3. CASE W # {}
    <3>1. PICK f \in W : W = {f}
      BY <2>1, <2>3
    <3> HIDE DEF W
    <3>2. Cardinality(W) = 1
      BY <3>1, FS_Singleton
    <3> QED BY <3>2 DEF W
  <2> QED BY <2>2, <2>3
<1> QED BY <1>1, Invariance, PTL

\* A cancelled task stays cancelled, whatever was still suspended when it
\* was, and through every crash.
THEOREM CanceledStaysCanceled == Spec => CanceledIsFinal
<1>1. Inv /\ [Next]_vars =>
        [\A t \in Task : task[t].status = "canceled" => task'[t].status = "canceled"]_vars
  BY NextInv DEF CanceledStays
<1> QED BY <1>1, Invariance, PTL DEF Spec, CanceledIsFinal

\* While nothing is merged, a session at work has a call that will settle
\* its turn or waits at a card: no control, crash or stale call leaves one
\* behind.
THEOREM SessionsAreKept ==
    ASSUME "merge" \notin Operations
    PROVE  Spec => []NoStraySession
<1>1. Inv => NoStraySession
  <2> SUFFICES ASSUME Inv, NEW t \in Task, task[t].driver = "open"
               PROVE  \/ task[t].status = "waiting_for_human" /\ task[t].waiting # 0
                      \/ \E f \in frames : f.task = t /\ f.kind = "turn" /\ Current(f)
    BY DEF NoStraySession
  <2>1. Fits(task[t], FramesOf(frames, t)) /\ Cards(task[t], gate[t], told[t])
    BY TaskFacts
  <2>2. \/ task[t].status = "waiting_for_human"
        \/ \E f \in FramesOf(frames, t) : f.kind = "turn" /\ f.epoch = task[t].controlEpoch
    BY <2>1 DEF Fits, Kept
  <2> QED BY <2>1, <2>2 DEF Cards, Fits, Rests, FramesOf, Current
<1> QED BY <1>1, Invariance, PTL
-----------------------------------------------------------------------------
\* The promise about cards.

Key == Task \X (1..MaxCards)

\* A step that touches no card.
LEMMA CardsStill ==
    ASSUME Undecided
    PROVE  UNCHANGED [key \in Key |-> CardOf(key)]
BY DEF Undecided, CardOf

\* A step that touches one card.
LEMMA CardMoves ==
    ASSUME Inv, NEW t \in Task, NEW c \in 1..MaxCards, c <= Len(gate'[t]),
           \A u \in Task \ {t} : gate'[u] = gate[u] /\ told'[u] = told[u],
           \A d \in (1..MaxCards) \ {c} :
             /\ d > Len(gate'[t]) <=> d > Len(gate[t])
             /\ d <= Len(gate[t]) => gate'[t][d] = gate[t][d]
             /\ told'[t][d] = told[t][d]
    PROVE  [key \in Key |-> CardOf(key)]' =
             [[key \in Key |-> CardOf(key)] EXCEPT ![<<t, c>>] =
                [status |-> gate'[t][c].status, decision |-> gate'[t][c].decision,
                 told |-> told'[t][c]]]
<1> DEFINE new == [status |-> gate'[t][c].status, decision |-> gate'[t][c].decision,
                   told |-> told'[t][c]]
<1>1. gate[t] \in Seq(Card)
  BY DEF Inv, Typed
<1>2. ASSUME NEW key \in Key
      PROVE  CardOf(key)' = IF key = <<t, c>> THEN new ELSE CardOf(key)
  <2>1. PICK u \in Task, d \in 1..MaxCards : key = <<u, d>>
    BY DEF Key
  <2>2. CASE u # t
    BY <2>1, <2>2 DEF CardOf
  <2>3. CASE u = t /\ d # c
    BY <1>1, <2>1, <2>3 DEF CardOf
  <2>4. CASE u = t /\ d = c
    <3>1. ~(c > Len(gate'[t]))
      BY <2>4
    <3> QED BY <2>1, <2>4, <3>1 DEF CardOf
  <2> QED BY <2>2, <2>3, <2>4
<1>3. <<t, c>> \in Key
  BY DEF Key
<1> HIDE DEF new, Key
<1>4. [[key \in Key |-> CardOf(key)] EXCEPT ![<<t, c>>] = new] =
        [key \in Key |-> IF key = <<t, c>> THEN new ELSE CardOf(key)]
  BY <1>3
<1>5. [key \in Key |-> CardOf(key)]' = [key \in Key |-> CardOf(key)']
  BY DEF Key
<1> QED BY <1>2, <1>4, <1>5 DEF new

\* The card a task waits at.
LEMMA OpenCard ==
    ASSUME Inv, NEW t \in Task, task[t].waiting # 0
    PROVE  LET c == task[t].waiting IN
           /\ c \in 1..MaxCards /\ c <= Len(gate[t]) /\ <<t, c>> \in Key
           /\ gate[t] \in Seq(Card) /\ told[t] \in [1..MaxCards -> Nat]
           /\ CardOf(<<t, c>>) = Deciders!Waiting
<1> DEFINE c == task[t].waiting
<1>1. /\ task[t] \in TaskRecord /\ Cards(task[t], gate[t], told[t])
      /\ gate[t] \in Seq(Card) /\ told[t] \in [1..MaxCards -> Nat] /\ Len(gate[t]) <= MaxCards
  BY TaskFacts DEF Inv, Typed
<1>2. c \in 1..MaxCards /\ c <= Len(gate[t]) /\ gate[t][c].status = "waiting"
  BY <1>1, BoundAssumption DEF TaskRecord, Cards
<1>3. told[t][c] = 0 /\ gate[t][c].decision = None
  BY <1>1, <1>2 DEF Cards
<1>4. CardOf(<<t, c>>) = Deciders!Waiting
  BY <1>2, <1>3 DEF CardOf, Deciders!Waiting
<1> QED BY <1>1, <1>2, <1>4 DEF Key

\* A card is raised.
LEMMA TurnAsksRaises ==
    ASSUME Inv, NEW f \in frames, TurnAsks(f)
    PROVE  Deciders!Next
<1> DEFINE t == f.task
           c == Len(gate[t]) + 1
           cards == Append(gate[t], [status |-> "waiting", decision |-> None])
<1>1. /\ t \in Task /\ c <= MaxCards /\ UNCHANGED told
      /\ gate' = [gate EXCEPT ![t] = cards]
      /\ gate \in [Task -> Seq(Card)] /\ gate[t] \in Seq(Card)
      /\ told[t] \in [1..MaxCards -> Nat] /\ Cards(task[t], gate[t], told[t])
  BY CallFacts DEF TurnAsks, Inv, Typed
<1>2. c \in 1..MaxCards /\ ~(c <= Len(gate[t])) /\ c > Len(gate[t])
  BY <1>1, BoundAssumption
<1>3. gate'[t] = cards /\ \A u \in Task \ {t} : gate'[u] = gate[u] /\ told'[u] = told[u]
  BY <1>1
<1>4. /\ Len(cards) = c /\ cards[c] = [status |-> "waiting", decision |-> None]
      /\ \A d \in 1..Len(gate[t]) : cards[d] = gate[t][d]
  BY <1>1
<1> HIDE DEF cards
<1>5. told[t][c] = 0 /\ told'[t] = told[t]
  BY <1>1, <1>2 DEF Cards
<1>6. c <= Len(gate'[t])
  BY <1>2, <1>3, <1>4
<1>7. \A d \in (1..MaxCards) \ {c} :
        /\ d > Len(gate'[t]) <=> d > Len(gate[t])
        /\ d <= Len(gate[t]) => gate'[t][d] = gate[t][d]
        /\ told'[t][d] = told[t][d]
  BY <1>1, <1>3, <1>4, <1>5, BoundAssumption
<1>8. [key \in Key |-> CardOf(key)]' =
         [[key \in Key |-> CardOf(key)] EXCEPT ![<<t, c>>] = Deciders!Waiting]
  <2>1. [status |-> gate'[t][c].status, decision |-> gate'[t][c].decision,
         told |-> told'[t][c]] = Deciders!Waiting
    BY <1>3, <1>4, <1>5 DEF Deciders!Waiting
  <2> HIDE DEF c, t
  <2>2. [key \in Key |-> CardOf(key)]' =
          [[key \in Key |-> CardOf(key)] EXCEPT ![<<t, c>>] =
             [status |-> gate'[t][c].status, decision |-> gate'[t][c].decision,
              told |-> told'[t][c]]]
    BY <1>1, <1>2, <1>3, <1>6, <1>7, CardMoves
  <2> QED BY <2>1, <2>2
<1>9. <<t, c>> \in Key /\ CardOf(<<t, c>>) = Deciders!Blank
  BY <1>1, <1>2 DEF Key, CardOf, Deciders!Blank
<1>10. Deciders!Raise(<<t, c>>)
  BY <1>8, <1>9 DEF Deciders!Raise, Key
<1> QED BY <1>9, <1>10 DEF Deciders!Next, Key

\* A session is told the answer of one card.
LEMMA ToldMore ==
    ASSUME told \in [Task -> [1..MaxCards -> Nat]], NEW t \in Task, NEW c \in 1..MaxCards,
           told[t][c] = 0, told' = [told EXCEPT ![t][c] = @ + 1]
    PROVE  /\ told'[t][c] = 1
           /\ \A d \in (1..MaxCards) \ {c} : told'[t][d] = told[t][d]
           /\ \A u \in Task \ {t} : told'[u] = told[u]
<1> DEFINE heard == [told[t] EXCEPT ![c] = @ + 1]
<1>1. told[t] \in [1..MaxCards -> Nat]
  OBVIOUS
<1>2. heard[c] = 1 /\ \A d \in (1..MaxCards) \ {c} : heard[d] = told[t][d]
  BY <1>1
<1>3. told' = [told EXCEPT ![t] = heard]
  OBVIOUS
<1> HIDE DEF heard
<1>4. told'[t] = heard /\ \A u \in Task \ {t} : told'[u] = told[u]
  BY <1>3
<1> QED BY <1>2, <1>4

\* A card is answered, and its session may hear it.
LEMMA AnswerDecides ==
    ASSUME Inv, NEW t \in Task, NEW answer \in Answer, Open(t),
           Resolve(t, task[t].waiting, answer),
           told' = told \/ told' = [told EXCEPT ![t][task[t].waiting] = @ + 1]
    PROVE  Deciders!Next
<1> DEFINE c == task[t].waiting
           card == [status |-> "resolved", decision |-> answer]
           cards == [gate[t] EXCEPT ![c] = card]
<1>1. /\ c \in 1..MaxCards /\ c <= Len(gate[t]) /\ <<t, c>> \in Key
      /\ gate[t] \in Seq(Card) /\ told[t] \in [1..MaxCards -> Nat]
      /\ CardOf(<<t, c>>) = Deciders!Waiting
  BY OpenCard DEF Open
<1>2. gate \in [Task -> Seq(Card)] /\ told \in [Task -> [1..MaxCards -> Nat]]
      /\ gate' = [gate EXCEPT ![t] = cards]
  BY DEF Inv, Typed, Resolve
<1>3. gate'[t] = cards /\ \A u \in Task \ {t} : gate'[u] = gate[u] /\ told'[u] = told[u]
  BY <1>2
<1>4. /\ Len(cards) = Len(gate[t]) /\ cards[c] = card
      /\ \A d \in (1..Len(gate[t])) \ {c} : cards[d] = gate[t][d]
  BY <1>1
<1> HIDE DEF cards
<1>5. told[t][c] = 0
  BY <1>1 DEF CardOf, Deciders!Waiting
<1>6. /\ told'[t][c] \in {0, 1}
      /\ \A d \in (1..MaxCards) \ {c} : told'[t][d] = told[t][d]
  <2>1. CASE told' = told
    BY <1>5, <2>1
  <2>2. CASE told' = [told EXCEPT ![t][c] = @ + 1]
    BY <1>1, <1>2, <1>5, <2>2, ToldMore
  <2> QED BY <2>1, <2>2
<1>7. \A d \in (1..MaxCards) \ {c} :
        /\ d > Len(gate'[t]) <=> d > Len(gate[t])
        /\ d <= Len(gate[t]) => gate'[t][d] = gate[t][d]
        /\ told'[t][d] = told[t][d]
  BY <1>1, <1>3, <1>4, <1>6, BoundAssumption
<1>8. [key \in Key |-> CardOf(key)]' =
         [[key \in Key |-> CardOf(key)] EXCEPT ![<<t, c>>] =
            [status |-> "resolved", decision |-> answer, told |-> told'[t][c]]]
  BY <1>1, <1>3, <1>4, <1>7, CardMoves
<1>9. Deciders!Decide(<<t, c>>)
  BY <1>1, <1>6, <1>8 DEF Deciders!Decide, Key
<1> QED BY <1>1, <1>9 DEF Deciders!Next, Key

\* A new session hears the answer that was kept for it.
LEMMA LaunchTells ==
    ASSUME Inv, NEW f \in frames, LaunchReady(f)
    PROVE  Deciders!Next \/ Undecided
<1> DEFINE t == f.task
           c == task[t].pendingResume
<1>1. /\ t \in Task /\ task[t] \in TaskRecord /\ Cards(task[t], gate[t], told[t])
      /\ gate[t] \in Seq(Card) /\ told[t] \in [1..MaxCards -> Nat]
      /\ told \in [Task -> [1..MaxCards -> Nat]]
  BY CallFacts DEF Inv, Typed
<1>2. Undecided \/ (c # 0 /\ UNCHANGED gate /\ told' = [told EXCEPT ![t][c] = @ + 1])
  BY DEF LaunchReady, Undecided
<1>3. CASE c # 0 /\ UNCHANGED gate /\ told' = [told EXCEPT ![t][c] = @ + 1]
  <2>1. /\ c \in 1..MaxCards /\ c <= Len(gate[t]) /\ <<t, c>> \in Key
        /\ gate[t][c].status = "resolved" /\ told[t][c] = 0
    BY <1>1, <1>3, BoundAssumption DEF TaskRecord, Cards, Key
  <2>2. /\ told'[t][c] = 1 /\ \A d \in (1..MaxCards) \ {c} : told'[t][d] = told[t][d]
        /\ \A u \in Task \ {t} : gate'[u] = gate[u] /\ told'[u] = told[u]
    <3>1. /\ t \in Task /\ c \in 1..MaxCards /\ told[t][c] = 0
          /\ told \in [Task -> [1..MaxCards -> Nat]]
          /\ told' = [told EXCEPT ![t][c] = @ + 1] /\ UNCHANGED gate
      BY <1>1, <1>3, <2>1
    <3> HIDE DEF c, t
    <3>2. /\ told'[t][c] = 1
          /\ \A d \in (1..MaxCards) \ {c} : told'[t][d] = told[t][d]
          /\ \A u \in Task \ {t} : told'[u] = told[u]
      BY <3>1, ToldMore
    <3> QED BY <3>1, <3>2
  <2>3. CardOf(<<t, c>>) =
          [status |-> "resolved", decision |-> gate[t][c].decision, told |-> 0]
    BY <1>1, <2>1 DEF CardOf
  <2>4. [key \in Key |-> CardOf(key)]' =
         [[key \in Key |-> CardOf(key)] EXCEPT ![<<t, c>>] =
            [status |-> "resolved", decision |-> gate[t][c].decision, told |-> 1]]
    BY <1>1, <1>3, <2>1, <2>2, CardMoves
  <2>5. [[key \in Key |-> CardOf(key)] EXCEPT ![<<t, c>>].told = 1] =
         [[key \in Key |-> CardOf(key)] EXCEPT ![<<t, c>>] =
            [status |-> "resolved", decision |-> gate[t][c].decision, told |-> 1]]
    <3>1. [CardOf(<<t, c>>) EXCEPT !.told = 1] =
            [status |-> "resolved", decision |-> gate[t][c].decision, told |-> 1]
      BY <2>3
    <3> QED BY <2>1, <3>1
  <2>6. Deciders!Tell(<<t, c>>)
    BY <2>1, <2>3, <2>4, <2>5 DEF Deciders!Tell, Key
  <2> QED BY <2>1, <2>6 DEF Deciders!Next, Key
<1> QED BY <1>2, <1>3

\* A card that became obsolete is withdrawn.
LEMMA ResumeWithdraws ==
    ASSUME Inv, NEW t \in Task, Resume(t)
    PROVE  Deciders!Next \/ Undecided
<1> DEFINE c == task[t].waiting
           card == [status |-> "superseded", decision |-> None]
           cards == [gate[t] EXCEPT ![c] = card]
<1>1. UNCHANGED told /\ (UNCHANGED gate \/ (c # 0 /\ gate' = [gate EXCEPT ![t][c] = card]))
  BY DEF Resume
<1>2. CASE c # 0 /\ gate' = [gate EXCEPT ![t][c] = card]
  <2>1. /\ c \in 1..MaxCards /\ c <= Len(gate[t]) /\ <<t, c>> \in Key
        /\ gate[t] \in Seq(Card) /\ told[t] \in [1..MaxCards -> Nat]
        /\ CardOf(<<t, c>>) = Deciders!Waiting
    BY <1>2, OpenCard
  <2>2. /\ gate \in [Task -> Seq(Card)] /\ gate' = [gate EXCEPT ![t] = cards]
    BY <1>2 DEF Inv, Typed
  <2>3. gate'[t] = cards /\ \A u \in Task \ {t} : gate'[u] = gate[u] /\ told'[u] = told[u]
    BY <1>1, <2>2
  <2>4. /\ Len(cards) = Len(gate[t]) /\ cards[c] = card
        /\ \A d \in (1..Len(gate[t])) \ {c} : cards[d] = gate[t][d]
    BY <2>1
  <2> HIDE DEF cards
  <2>5. told'[t][c] = 0 /\ told'[t] = told[t]
    BY <1>1, <2>1 DEF CardOf, Deciders!Waiting
  <2>6. \A d \in (1..MaxCards) \ {c} :
          /\ d > Len(gate'[t]) <=> d > Len(gate[t])
          /\ d <= Len(gate[t]) => gate'[t][d] = gate[t][d]
          /\ told'[t][d] = told[t][d]
    BY <2>1, <2>3, <2>4, <2>5, BoundAssumption
  <2>7. [key \in Key |-> CardOf(key)]' =
         [[key \in Key |-> CardOf(key)] EXCEPT ![<<t, c>>] =
            [status |-> "superseded", decision |-> None, told |-> 0]]
    <3>1. [status |-> gate'[t][c].status, decision |-> gate'[t][c].decision,
           told |-> told'[t][c]] = [status |-> "superseded", decision |-> None, told |-> 0]
      BY <2>3, <2>4, <2>5
    <3>2. c <= Len(gate'[t])
      BY <2>1, <2>3, <2>4
    <3> HIDE DEF c
    <3>3. [key \in Key |-> CardOf(key)]' =
            [[key \in Key |-> CardOf(key)] EXCEPT ![<<t, c>>] =
               [status |-> gate'[t][c].status, decision |-> gate'[t][c].decision,
                told |-> told'[t][c]]]
      BY <2>1, <2>3, <2>6, <3>2, CardMoves
    <3> QED BY <3>1, <3>3
  <2>8. [[key \in Key |-> CardOf(key)] EXCEPT ![<<t, c>>].status = "superseded"] =
         [[key \in Key |-> CardOf(key)] EXCEPT ![<<t, c>>] =
            [status |-> "superseded", decision |-> None, told |-> 0]]
    <3>1. [CardOf(<<t, c>>) EXCEPT !.status = "superseded"] =
            [status |-> "superseded", decision |-> None, told |-> 0]
      BY <2>1 DEF Deciders!Waiting
    <3> QED BY <2>1, <3>1
  <2>9. Deciders!Withdraw(<<t, c>>)
    BY <2>1, <2>7, <2>8 DEF Deciders!Withdraw, Key
  <2> QED BY <2>1, <2>9 DEF Deciders!Next, Key
<1> QED BY <1>1, <1>2 DEF Undecided

\* Every step keeps the promise.
LEMMA NextKeepsPromise ==
    ASSUME Inv, [Next]_vars
    PROVE  Deciders!Next \/ UNCHANGED [key \in Key |-> CardOf(key)]
<1>1. SUFFICES Deciders!Next \/ Undecided
  BY CardsStill
<1>2. CASE Pump
  BY <1>2 DEF Pump, PumpRefresh, PumpStart, PumpRest
<1>3. ASSUME NEW f \in frames, Settle(f) PROVE Deciders!Next \/ Undecided
  <2>1. CASE LaunchReady(f) \/ TurnAsks(f)
    BY <2>1, LaunchTells, TurnAsksRaises
  <2>2. CASE LaunchFails(f) \/ TurnStale(f) \/ TurnFinishes(f) \/ TurnDies(f)
    BY <2>2 DEF LaunchFails, TurnStale, TurnFinishes, TurnDies
  <2>3. CASE FailingEnds(f) \/ PauseEnds(f) \/ CancelEnds(f) \/ MergeEnds(f)
    BY <2>3 DEF FailingEnds, PauseEnds, CancelEnds, MergeEnds
  <2>4. CASE CancelAnswered(f) \/ CancelFindsMerge(f)
    BY <2>4 DEF CancelAnswered, CancelFindsMerge
  <2> QED BY <1>3, <2>1, <2>2, <2>3, <2>4 DEF Settle
<1>4. ASSUME NEW f \in frames, Deliver(f) PROVE Undecided
  BY <1>4 DEF Deliver, DeliverStale, Delivers, DeliveryHeld, NeedsRepair
<1>5. ASSUME NEW t \in Task, Control(t) PROVE Deciders!Next \/ Undecided
  <2>1. CASE Resume(t)
    BY <2>1, ResumeWithdraws
  <2>2. CASE PauseRunning(t) \/ PauseResting(t) \/ Cancel(t)
    BY <2>2 DEF PauseRunning, PauseResting, Cancel
  <2>3. CASE Retry(t) \/ Interrupt(t) \/ PreviewStart(t) \/ MergeSeen(t)
    BY <2>3 DEF Retry, Interrupt, PreviewStart, MergeSeen
  <2> QED BY <1>5, <2>1, <2>2, <2>3 DEF Control
<1>6. ASSUME NEW t \in Task, NEW answer \in Answer, Decide(t, answer) PROVE Deciders!Next
  <2>1. /\ Open(t) /\ Resolve(t, task[t].waiting, answer)
        /\ told' = told \/ told' = [told EXCEPT ![t][task[t].waiting] = @ + 1]
    BY <1>6 DEF Decide
  <2> QED BY <2>1, AnswerDecides
<1>7. ASSUME NEW t \in Task, NEW answer \in Answer, CrashInDecide(t, answer)
      PROVE  Deciders!Next
  <2>1. Open(t) /\ Resolve(t, task[t].waiting, answer) /\ told' = told
    BY <1>7 DEF CrashInDecide, Restart, Resolve
  <2> QED BY <2>1, AnswerDecides
<1>8. CASE Crash
  BY <1>8 DEF Crash, Restart, Undecided
<1>9. CASE StartEarly \/ UNCHANGED vars \/ \E t \in Task : Released(t)
  BY <1>9 DEF StartEarly, Released, vars, Undecided
<1> QED BY <1>2, <1>3, <1>4, <1>5, <1>6, <1>7, <1>8, <1>9 DEF Next

\* A card is answered at most once and keeps that answer, and a session
\* hears it at most once, through pauses, decisions and crashes between the
\* two files a decision writes: the scheduler implements AnswerOnce.
THEOREM AnswersOnce == Spec => AnsweredOnce
<1>1. Init => Deciders!Init
  <2> SUFFICES ASSUME Init PROVE Deciders!Init
    OBVIOUS
  <2>1. ASSUME NEW key \in Key PROVE CardOf(key) = Deciders!Blank
    <3>1. key[1] \in Task /\ key[2] \in 1..MaxCards
      BY DEF Key
    <3>2. gate = [t \in Task |-> <<>>]
      BY DEF Init
    <3>3. gate[key[1]] = <<>> /\ key[2] > 0
      BY <3>1, <3>2, BoundAssumption
    <3>4. key[2] > Len(gate[key[1]])
      BY <3>3
    <3> QED BY <3>4 DEF CardOf, Deciders!Blank
  <2> QED BY <2>1 DEF Deciders!Init, Key
<1>2. Inv /\ [Next]_vars => [Deciders!Next]_([key \in Task \X (1..MaxCards) |-> CardOf(key)])
  BY NextKeepsPromise DEF Key
<1> QED BY <1>1, <1>2, Invariance, PTL DEF Spec, AnsweredOnce, Deciders!Spec

-----------------------------------------------------------------------------
\* Dependencies.

Deps == [Task -> SUBSET Task]

\* What a task waits for is closed: with a task it holds its dependencies.
LEMMA AncestorsClosed ==
    ASSUME NEW deps \in Deps, NEW t \in Task
    PROVE  /\ deps[t] \subseteq Ancestors(deps, t) /\ Ancestors(deps, t) \subseteq Task
           /\ \A x \in Ancestors(deps, t) : deps[x] \subseteq Ancestors(deps, t)
BY DEF Deps, Ancestors

\* It is the least such set.
LEMMA AncestorsLeast ==
    ASSUME NEW deps \in Deps, NEW t \in Task, NEW S \in SUBSET Task,
           deps[t] \subseteq S, \A x \in S : deps[x] \subseteq S
    PROVE  Ancestors(deps, t) \subseteq S
BY DEF Ancestors

\* What a dependency waits for, those who depend on it wait for.
LEMMA AncestorsPass ==
    ASSUME NEW deps \in Deps, NEW t \in Task, NEW a \in Ancestors(deps, t)
    PROVE  Ancestors(deps, a) \subseteq Ancestors(deps, t)
<1>1. a \in Task /\ Ancestors(deps, t) \in SUBSET Task /\ deps[a] \subseteq Ancestors(deps, t)
  BY AncestorsClosed
<1>2. \A x \in Ancestors(deps, t) : deps[x] \subseteq Ancestors(deps, t)
  BY AncestorsClosed
<1> QED BY <1>1, <1>2, AncestorsLeast

\* A task waits for its dependencies and what they wait for, nothing else.
LEMMA AncestorsOnly ==
    ASSUME NEW deps \in Deps, NEW t \in Task, NEW a \in Ancestors(deps, t)
    PROVE  a \in deps[t] \/ \E d \in deps[t] : a \in Ancestors(deps, d)
<1> DEFINE S == deps[t] \cup UNION {Ancestors(deps, d) : d \in deps[t]}
<1>1. deps[t] \subseteq Task /\ \A d \in deps[t] : d \in Task
  BY DEF Deps
<1>2. S \in SUBSET Task
  BY <1>1, AncestorsClosed
<1>3. ASSUME NEW x \in S PROVE deps[x] \subseteq S
  <2>1. CASE x \in deps[t]
    BY <1>1, <2>1, AncestorsClosed
  <2>2. CASE \E d \in deps[t] : x \in Ancestors(deps, d)
    <3>1. PICK d \in deps[t] : x \in Ancestors(deps, d)
      BY <2>2
    <3> QED BY <1>1, <3>1, AncestorsClosed
  <2> QED BY <2>1, <2>2
<1>4. deps[t] \subseteq S
  OBVIOUS
<1> HIDE DEF S
<1>5. Ancestors(deps, t) \subseteq S
  BY <1>2, <1>3, <1>4, AncestorsLeast
<1> QED BY <1>5 DEF S

\* Fewer dependencies, fewer to wait for.
LEMMA AncestorsFewer ==
    ASSUME NEW deps \in Deps, NEW less \in Deps, \A x \in Task : less[x] \subseteq deps[x],
           NEW t \in Task
    PROVE  Ancestors(less, t) \subseteq Ancestors(deps, t)
<1> DEFINE S == Ancestors(deps, t)
<1>1. S \in SUBSET Task /\ deps[t] \subseteq S /\ \A x \in S : deps[x] \subseteq S
  BY AncestorsClosed
<1>2. less[t] \subseteq S /\ \A x \in S : less[x] \subseteq S
  BY <1>1
<1> HIDE DEF S
<1> QED BY <1>1, <1>2, AncestorsLeast DEF S

\* Who does not wait for a task does not notice that it waits for less.
LEMMA AncestorsElsewhere ==
    ASSUME NEW deps \in Deps, NEW less \in Deps, NEW o \in Task, NEW t \in Task, t # o,
           o \notin Ancestors(deps, t), \A x \in Task \ {o} : less[x] = deps[x]
    PROVE  Ancestors(deps, t) \subseteq Ancestors(less, t)
<1> DEFINE A == Ancestors(deps, t)
           B == Ancestors(less, t)
<1>1. A \in SUBSET Task /\ deps[t] \subseteq A /\ \A x \in A : deps[x] \subseteq A
  BY AncestorsClosed
<1>2. B \in SUBSET Task /\ less[t] \subseteq B /\ \A x \in B : less[x] \subseteq B
  BY AncestorsClosed
<1>3. A \cap B \in SUBSET Task /\ deps[t] \subseteq A \cap B
  BY <1>1, <1>2
<1>4. \A x \in A \cap B : deps[x] \subseteq A \cap B
  BY <1>1, <1>2
<1> HIDE DEF B
<1>5. A \subseteq A \cap B
  BY <1>3, <1>4, AncestorsLeast
<1> QED BY <1>5 DEF B

-----------------------------------------------------------------------------
\* The early start.

\* The dependencies before and after.
LEMMA CutFacts ==
    ASSUME Inv, NEW t \in Task, NEW released
    PROVE  /\ Blocking \in Deps /\ Cut(t, released) \in Deps
           /\ Cut(t, released)[t] = task[t].blocked_by \ released
           /\ \A x \in Task \ {t} : Cut(t, released)[x] = Blocking[x]
           /\ \A x \in Task : Blocking[x] = task[x].blocked_by
                              /\ Cut(t, released)[x] \subseteq Blocking[x]
BY DEF Inv, Typed, TaskRecord, Blocking, Cut, Deps

\* What a confirmed early start does.
LEMMA StartedEarly ==
    ASSUME Inv, StartEarly, accepted' # accepted
    PROVE  LET t == view.task  cut == Cut(t, view.release_ids) IN
           /\ t \in Task /\ ~view.errors /\ view.available
           /\ view = Preview(t, view.release_ids, view.ticket)
           /\ task' = [task EXCEPT ![t] = [task[t] EXCEPT
                 !.blocked_by = @ \ view.release_ids, !.ticket = view.ticket]]
           /\ Blocking' = cut
<1> DEFINE t == view.task
           cut == Cut(t, view.release_ids)
           rec == [task[t] EXCEPT !.blocked_by = @ \ view.release_ids, !.ticket = view.ticket]
<1>1. /\ ~view.errors /\ view.available /\ view # None
      /\ view = Preview(t, view.release_ids, view.ticket)
      /\ Write(t, rec)
  BY DEF StartEarly
<1>2. t \in Task /\ task \in [Task -> TaskRecord] /\ task[t] \in TaskRecord
  BY <1>1 DEF Inv, Typed
<1>3. rec.blocked_by = task[t].blocked_by \ view.release_ids
  BY <1>2 DEF TaskRecord
<1>4. task' = [task EXCEPT ![t] = rec]
  BY <1>1 DEF Write
<1>5. Blocking' = [x \in Task |-> IF x = t THEN rec.blocked_by ELSE task[x].blocked_by]
  BY <1>2, <1>4 DEF Blocking
<1>6. cut \in Deps /\ cut[t] = rec.blocked_by
      /\ \A x \in Task \ {t} : cut[x] = task[x].blocked_by
  BY <1>2, <1>3, CutFacts
<1>7. Blocking' = cut
  BY <1>2, <1>5, <1>6 DEF Deps
<1> QED BY <1>1, <1>2, <1>4, <1>7

\* An early start takes away what it showed.
LEMMA StartEarlyShows ==
    ASSUME Inv, StartEarly, accepted' # accepted,
           NEW t \in Task, Worker(t), ~Completed(t)
    PROVE  Loses(t) = IF t = view.task THEN view.no_longer_waiting
                      ELSE UNION {d.lost : d \in
                               {x \in view.downstream : x.follower = t}}
<1> DEFINE o == view.task
           cut == Cut(o, view.release_ids)
<1>1. /\ o \in Task /\ view = Preview(o, view.release_ids, view.ticket) /\ Blocking' = cut
  BY StartedEarly
<1>2. view.no_longer_waiting = Lost(o, cut) /\ view.downstream = Downstream(o, cut)
  BY <1>1 DEF Preview
<1>3. /\ Blocking \in Deps /\ cut \in Deps
      /\ \A x \in Task \ {o} : cut[x] = Blocking[x]
  BY <1>1, CutFacts
<1>4. Loses(t) = Lost(t, cut)
  <2>1. Ancestors(Blocking, t)' = Ancestors(cut, t)
    BY <1>1 DEF Ancestors
  <2> QED BY <2>1 DEF Loses, Lost, Pending
<1>5. CASE t = o
  BY <1>2, <1>4, <1>5
<1>6. CASE t # o
  <2> DEFINE D == {x \in view.downstream : x.follower = t}
  <2>1. CASE o \in Ancestors(Blocking, t) /\ Lost(t, cut) # {}
    <3>1. PICK d \in Downstream(o, cut) : d.follower = t
      <4>1. t \in {x \in Task \ {o} : /\ Worker(x) /\ ~Completed(x)
                                      /\ o \in Ancestors(Blocking, x)
                                      /\ Lost(x, cut) # {}}
        BY <1>6, <2>1
      <4> DEFINE shown ==
                      [follower |-> t, lost |-> Lost(t, cut),
                       conflicts |-> {p \in Lost(t, cut) :
                           /\ Worker(p) /\ task[p].ticket = task[t].ticket
                           /\ t \notin Ancestors(cut, p)}]
      <4>2. shown \in Downstream(o, cut)
        BY <4>1, Zenon DEF Downstream
      <4>3. shown.follower = t
        OBVIOUS
      <4> QED BY <4>2, <4>3
    <3>2. \A x \in D : x.lost = Lost(t, cut)
      BY <1>2 DEF Downstream
    <3>3. D # {}
      BY <1>2, <3>1
    <3>4. UNION {x.lost : x \in D} = Lost(t, cut)
      BY <3>2, <3>3
    <3> QED BY <1>4, <1>6, <3>4
  <2>2. CASE ~(o \in Ancestors(Blocking, t) /\ Lost(t, cut) # {})
    <3>1. Lost(t, cut) = {}
      <4>1. CASE o \notin Ancestors(Blocking, t)
        <5>1. Ancestors(Blocking, t) \subseteq Ancestors(cut, t)
          BY <1>1, <1>3, <1>6, <4>1, AncestorsElsewhere
        <5> QED BY <5>1 DEF Lost, Pending
      <4> QED BY <2>2, <4>1
    <3>2. D = {}
      BY <1>2, <2>2 DEF Downstream
    <3> QED BY <1>4, <1>6, <3>1, <3>2
  <2> QED BY <2>1, <2>2
<1> QED BY <1>5, <1>6

\* Nothing else is accepted.
LEMMA AcceptedOnlyEarly ==
    ASSUME Next, accepted' # accepted
    PROVE  StartEarly
<1>1. CASE Pump
  BY <1>1 DEF Pump, PumpRefresh, PumpStart, PumpRest, Unserved
<1>2. ASSUME NEW f \in frames, Settle(f) PROVE accepted' = accepted
  BY <1>2 DEF Settle, LaunchReady, LaunchFails, TurnStale, TurnAsks, TurnFinishes, TurnDies,
     FailingEnds, PauseEnds, CancelEnds, MergeEnds, CancelAnswered, CancelFindsMerge, Unserved
<1>3. ASSUME NEW f \in frames, Deliver(f) PROVE accepted' = accepted
  BY <1>3 DEF Deliver, DeliverStale, Delivers, DeliveryHeld, NeedsRepair, Unserved
<1>4. ASSUME NEW t \in Task, Control(t) \/ Released(t) PROVE accepted' = accepted
  BY <1>4 DEF Control, PauseRunning, PauseResting, Resume, Cancel, Retry, Interrupt,
     PreviewStart, MergeSeen, Released, Unserved
<1>5. ASSUME NEW t \in Task, NEW answer \in Answer, Decide(t, answer) \/ CrashInDecide(t, answer)
      PROVE  accepted' = accepted
  BY <1>5 DEF Decide, CrashInDecide, Restart, Unserved
<1>6. CASE Crash
  BY <1>6 DEF Crash, Restart
<1> QED BY <1>1, <1>2, <1>3, <1>4, <1>5, <1>6 DEF Next

\* An early start takes away the waits its owner was shown, of the task and
\* of its followers, and no others (earlyStartPreview): the preview of a
\* confirmed request is the one of the moment it is applied.
THEOREM ReleasesAreShown == Spec => ReleasedAsShown
<1>1. Inv /\ [Next]_vars =>
        (accepted' # accepted =>
           \A t \in {x \in Task : Worker(x) /\ ~Completed(x)} :
              Loses(t) = IF t = view.task THEN view.no_longer_waiting
                         ELSE UNION {d.lost : d \in
                                  {x \in view.downstream : x.follower = t}})
  <2> SUFFICES ASSUME Inv, [Next]_vars, accepted' # accepted,
                      NEW t \in Task, Worker(t), ~Completed(t)
               PROVE  Loses(t) = IF t = view.task THEN view.no_longer_waiting
                                 ELSE UNION {d.lost : d \in
                                         {x \in view.downstream : x.follower = t}}
    OBVIOUS
  <2>1. Next
    BY DEF vars
  <2> QED BY <2>1, AcceptedOnlyEarly, StartEarlyShows
<1> QED BY <1>1, Invariance, PTL DEF Spec, ReleasedAsShown

-----------------------------------------------------------------------------
\* Who goes first.

\* What is completed stays so: nobody takes a task back while it is merged.
Stable ==
    "merge" \in Operations => "pause" \notin Operations /\ "interrupt" \notin Operations

\* Nobody is stopped in the middle, and nobody begins again by hand.
Calm == "pause" \notin Operations

Straight == Stable /\ Calm /\ "retry" \notin Operations

\* The task goes on without being started by the pump again.
Engaged(rec, F) ==
    \/ rec.status \in {"running", "waiting_for_human"}
    \/ /\ rec.status = "verifying"
       /\ ~rec.pushed \/ \E f \in F : f.kind = "deliver" /\ f.epoch = rec.controlEpoch

\* A task that was never started has nothing, and a cancellation asks the
\* platform only about one that was pushed.
Fresh(rec, F) ==
    /\ ~rec.started =>
         /\ F = {} /\ rec.driver = "none" /\ ~rec.pushed /\ ~rec.handedOver
         /\ rec.waiting = 0 /\ rec.status \in {"queued", "paused", "failed", "canceled"}
    /\ (\E f \in F : f.kind = "cancel_query") => rec.pushed

\* The task is merged, or about to be.
Over(rec, F) == rec.status = "completed" \/ \E f \in F : f.kind = "merge"

\* Then nobody works on it any more.
Settled(rec, F) ==
    Over(rec, F) =>
        /\ "merge" \in Operations
        /\ rec.status \in {"completed", "verifying", "canceled"} /\ rec.driver # "open"
        /\ \A f \in F : f.kind \in Executor => f.epoch # rec.controlEpoch

\* There are no pauses, and so a task has failed when its failure is settled.
Sober(rec, F) ==
    /\ rec.status \notin {"pausing", "paused"} /\ ~rec.pauseRequested
    /\ \A f \in F : f.kind # "pause"
    /\ rec.status = "failed" =>
         \A f \in F : f.kind = "failing" => f.epoch # rec.controlEpoch

Ordered(rec, F) ==
    Fresh(rec, F) /\ (Stable => Settled(rec, F)) /\ (Calm => Sober(rec, F))

Same(rec, new) ==
    /\ new.blocked_by = rec.blocked_by /\ new.ticket = rec.ticket
    /\ new.started = rec.started /\ (rec.pushed => new.pushed)

Stays(rec, new) == Same(rec, new) /\ new.controlEpoch = rec.controlEpoch

Ends == {"completed", "canceled"}

\* The record of a task and its calls after a step that starts nobody.
Passes(rec, F, new, G) ==
    /\ Same(rec, new) /\ Ordered(new, G)
    /\ Straight /\ Engaged(new, G) => Engaged(rec, F)
    /\ Stable /\ rec.status \in Ends => new.status \in Ends

\* Such a step of every task.
Going ==
    \A t \in Task : Passes(task[t], FramesOf(frames, t), task'[t], FramesOf(frames', t))

IOrd == \A t \in Task : Ordered(task[t], FramesOf(frames, t))

\* It is enough to look at the task that changes.
LEMMA GivesGoing ==
    ASSUME Inv, IOrd, NEW t \in Task, NEW new, Write(t, new), NEW G,
           FramesOf(frames', t) = G,
           \A u \in Task \ {t} : FramesOf(frames', u) = FramesOf(frames, u),
           Passes(task[t], FramesOf(frames, t), new, G)
    PROVE  Going
<1>1. task'[t] = new /\ \A u \in Task \ {t} : task'[u] = task[u]
  BY DEF Inv, Typed, Write
<1>2. ASSUME NEW u \in Task \ {t}
      PROVE  Passes(task[u], FramesOf(frames, u), task'[u], FramesOf(frames', u))
  <2>1. Ordered(task[u], FramesOf(frames, u))
    BY DEF IOrd
  <2> QED BY <1>1, <2>1 DEF Passes, Same
<1> QED BY <1>1, <1>2 DEF Going

\* The calls of each task when one goes, and some come in its place.
LEMMA FramesGone ==
    ASSUME NEW f, frames' = frames \ {f}
    PROVE  /\ FramesOf(frames', f.task) = FramesOf(frames, f.task) \ {f}
           /\ \A u \in Task \ {f.task} : FramesOf(frames', u) = FramesOf(frames, u)
BY DEF FramesOf

LEMMA FramesSwapped ==
    ASSUME NEW f, NEW A, \A g \in A : g.task = f.task, frames' = (frames \ {f}) \cup A
    PROVE  /\ FramesOf(frames', f.task) = (FramesOf(frames, f.task) \ {f}) \cup A
           /\ \A u \in Task \ {f.task} : FramesOf(frames', u) = FramesOf(frames, u)
BY DEF FramesOf

LEMMA FramesMore ==
    ASSUME NEW t, NEW A, \A g \in A : g.task = t, frames' = frames \cup A
    PROVE  /\ FramesOf(frames', t) = FramesOf(frames, t) \cup A
           /\ \A u \in Task \ {t} : FramesOf(frames', u) = FramesOf(frames, u)
BY DEF FramesOf

\* A call goes, and leaves its task as it is.
LEMMA DropPasses ==
    ASSUME NEW rec, NEW F, Ordered(rec, F), NEW f \in F
    PROVE  Passes(rec, F, rec, F \ {f})
<1>1. Fresh(rec, F \ {f})
  BY DEF Ordered, Fresh
<1>2. Settled(rec, F) => Settled(rec, F \ {f})
  BY DEF Settled, Over
<1>3. Sober(rec, F) => Sober(rec, F \ {f})
  BY DEF Sober
<1>4. Engaged(rec, F \ {f}) => Engaged(rec, F)
  BY DEF Engaged
<1> QED BY <1>1, <1>2, <1>3, <1>4 DEF Ordered, Passes, Same

LEMMA DropGoes ==
    ASSUME Inv, IOrd, NEW f \in frames, frames' = frames \ {f}, UNCHANGED task
    PROVE  Going
<1> DEFINE t == f.task
           F == FramesOf(frames, t)
<1>1. t \in Task /\ f \in F /\ task' = [task EXCEPT ![t] = task[t]]
  BY CallFacts, TaskFacts
<1>2. Passes(task[t], F, task[t], F \ {f})
  BY <1>1, DropPasses DEF IOrd
<1>3. /\ FramesOf(frames', t) = F \ {f}
      /\ \A u \in Task \ {t} : FramesOf(frames', u) = FramesOf(frames, u)
  BY FramesGone
<1>4. Write(t, task[t])
  BY <1>1 DEF Write
<1> HIDE DEF t
<1> QED BY <1>1, <1>2, <1>3, <1>4, GivesGoing

\* A call of this epoch goes on as those in A.
LEMMA CurrentPasses ==
    ASSUME NEW rec \in TaskRecord, NEW F \in SUBSET FrameRecord, Fits(rec, F), Ordered(rec, F),
           NEW f \in F, f.epoch = rec.controlEpoch, f.kind \in Executor,
           NEW new, Stays(rec, new), Stable => new.status # "completed",
           NEW A, \A g \in A : g.kind \notin {"merge", "cancel_query"},
           Calm => Sober(new, A),
           \/ f.kind \in {"launch", "turn", "deliver"}
           \/ new.status \notin {"running", "waiting_for_human", "verifying"}
    PROVE  Passes(rec, F, new, (F \ {f}) \cup A)
<1> DEFINE G == (F \ {f}) \cup A
<1>1. rec.started /\ rec.status # "canceled" /\ Suits(f.kind, rec)
  BY DEF Ordered, Fresh, Fits, TaskRecord
<1>2. Stable => ~Over(rec, F)
  BY DEF Ordered, Settled
<1>3. Fresh(new, G)
  BY <1>1 DEF Fresh, Stays, Same, Ordered
<1>4. Stable => Settled(new, G)
  BY <1>2 DEF Settled, Over
<1>5. Calm => Sober(new, G)
  <2>1. Calm => \A g \in F \ {f} : g.kind = "failing" => g.epoch # rec.controlEpoch
    BY DEF Ordered, Sober, Fits, Apart, Executor
  <2>2. new.controlEpoch = rec.controlEpoch
    BY DEF Stays
  <2> QED BY <2>1, <2>2 DEF Sober, Ordered
<1>6. Straight /\ Engaged(new, G) => Engaged(rec, F)
  <2>1. CASE f.kind \in {"launch", "turn"}
    BY <1>1, <1>2, <2>1 DEF Straight, Suits, Over, Ordered, Sober, Engaged
  <2>2. CASE f.kind = "deliver"
    BY <1>1, <1>2, <2>2 DEF Straight, Suits, Over, Engaged
  <2>3. CASE new.status \notin {"running", "waiting_for_human", "verifying"}
    BY <2>3 DEF Engaged
  <2> QED BY <2>1, <2>2, <2>3
<1>7. Stable => rec.status \notin Ends
  BY <1>1, <1>2 DEF Ends, Over
<1> QED BY <1>3, <1>4, <1>5, <1>6, <1>7 DEF Passes, Ordered, Stays

LEMMA CurrentGoes ==
    ASSUME Inv, IOrd, NEW f \in frames, Current(f), f.kind \in Executor,
           NEW new, Write(f.task, new), Stays(task[f.task], new),
           Stable => new.status # "completed",
           NEW A, frames' = (frames \ {f}) \cup A, \A g \in A : g.task = f.task,
           \A g \in A : g.kind \notin {"merge", "cancel_query"},
           Calm => Sober(new, A),
           \/ f.kind \in {"launch", "turn", "deliver"}
           \/ new.status \notin {"running", "waiting_for_human", "verifying"}
    PROVE  Going
<1> DEFINE t == f.task
           F == FramesOf(frames, t)
<1>1. /\ t \in Task /\ f \in F /\ task[t] \in TaskRecord /\ F \in SUBSET FrameRecord
      /\ Fits(task[t], F) /\ Ordered(task[t], F)
      /\ f.epoch = task[t].controlEpoch
  BY CallFacts, TaskFacts DEF IOrd, FramesOf, Current
<1>2. Passes(task[t], F, new, (F \ {f}) \cup A)
  <2> HIDE DEF F
  <2> QED BY <1>1, CurrentPasses
<1>3. /\ FramesOf(frames', t) = (F \ {f}) \cup A
      /\ \A u \in Task \ {t} : FramesOf(frames', u) = FramesOf(frames, u)
  BY FramesSwapped
<1> HIDE DEF t
<1> QED BY <1>1, <1>2, <1>3, GivesGoing DEF t

-----------------------------------------------------------------------------
\* The turns.

\* What a call knows of its task.
LEMMA CurrentFacts ==
    ASSUME Inv, IOrd, NEW f \in frames
    PROVE  /\ f.task \in Task /\ task[f.task] \in TaskRecord
           /\ Calm => ~WantsPause(f.task) /\ f.kind # "pause"
                      /\ task[f.task].status # "paused"
           /\ Stable /\ Current(f) /\ f.kind \in Executor => task[f.task].status # "completed"
           /\ Current(f) /\ f.kind \in Executor => Suits(f.kind, task[f.task])
<1> DEFINE rec == task[f.task]
           F == FramesOf(frames, f.task)
<1>1. /\ f.task \in Task /\ rec \in TaskRecord /\ f \in F /\ Fits(rec, F) /\ Ordered(rec, F)
  BY CallFacts DEF IOrd
<1>2. Calm => Sober(rec, F)
  BY <1>1 DEF Ordered
<1>3. Stable => Settled(rec, F)
  BY <1>1 DEF Ordered
<1>4. Current(f) => f.epoch = rec.controlEpoch
  BY DEF Current
<1> HIDE DEF F
<1> QED BY <1>1, <1>2, <1>3, <1>4 DEF Sober, WantsPause, Settled, Over, Fits

\* A call of this epoch returns.
LEMMA ReturnGoes ==
    ASSUME Inv, IOrd, NEW f \in frames, Current(f), f.kind \in Executor,
           NEW new, Write(f.task, new), Stays(task[f.task], new), Stable => new.status # "completed",
           frames' = frames \ {f}, Calm => Sober(new, {}),
           \/ f.kind \in {"launch", "turn", "deliver"}
           \/ new.status \notin {"running", "waiting_for_human", "verifying"}
    PROVE  Going
<1>1. frames' = (frames \ {f}) \cup {}
  OBVIOUS
<1>2. (\A g \in {} : g.task = f.task) /\ (\A g \in {} : g.kind \notin {"merge", "cancel_query"})
  OBVIOUS
<1> QED BY <1>1, <1>2, CurrentGoes

\* It goes on as another.
LEMMA ContinueGoes ==
    ASSUME Inv, IOrd, NEW f \in frames, Current(f), f.kind \in {"launch", "turn", "deliver"},
           NEW new, Write(f.task, new), Stays(task[f.task], new), Stable => new.status # "completed",
           NEW kind \in Executor, NEW counted, NEW from,
           frames' = (frames \ {f}) \cup {Frame(kind, f.task, f.epoch, counted, from)},
           Calm => kind # "pause" /\ new.status \notin {"pausing", "paused"}
                   /\ ~new.pauseRequested,
           kind = "failing" => new.status # "failed"
    PROVE  Going
<1> DEFINE g == Frame(kind, f.task, f.epoch, counted, from)
           A == {g}
<1>1. g.kind = kind /\ g.task = f.task
  BY DEF Frame
<1>2. frames' = (frames \ {f}) \cup A
  OBVIOUS
<1> HIDE DEF g
<1>3. /\ \A h \in A : h.task = f.task
      /\ \A h \in A : h.kind \notin {"merge", "cancel_query"}
      /\ Calm => Sober(new, A)
  BY <1>1 DEF Sober, Executor
<1>4. f.kind \in Executor
  BY DEF Executor
<1> HIDE DEF A
<1> QED BY <1>2, <1>3, <1>4, CurrentGoes

LEMMA LaunchReadyGoes ==
    ASSUME Inv, IOrd, NEW f \in frames, LaunchReady(f)
    PROVE  Going
<1> DEFINE t == f.task
<1>1. /\ t \in Task /\ task[t] \in TaskRecord /\ f.kind = "launch"
      /\ Calm => ~WantsPause(t) /\ f.kind # "pause"
  BY CurrentFacts DEF LaunchReady
<1>2. CASE ~Current(f)
  BY <1>2, DropGoes DEF LaunchReady, Return
<1> DEFINE paused == Pausing([task[t] EXCEPT !.driver = "open"])
           opened == Opened(task[t])
<1>3. CASE Current(f) /\ WantsPause(t)
  <2>1. ~Calm /\ (Stable => task[t].status # "completed")
    BY <1>1, <1>3, CurrentFacts DEF Executor
  <2>2. paused.status = task[t].status /\ Stays(task[t], paused)
    BY <1>1 DEF TaskRecord, Pausing, Stays, Same
  <2>3. /\ Write(t, paused)
        /\ frames' = (frames \ {f}) \cup {Frame("pause", f.task, f.epoch, f.counted, "running")}
    BY <1>3 DEF LaunchReady, Continue
  <2> HIDE DEF paused
  <2> QED BY <1>1, <1>3, <2>1, <2>2, <2>3, ContinueGoes DEF Executor
<1>4. CASE Current(f) /\ ~WantsPause(t)
  <2>1. /\ Stable => task[t].status # "completed"
        /\ Calm => task[t].status # "paused"
    BY <1>1, <1>4, CurrentFacts DEF Executor
  <2>2. /\ opened.status = task[t].status /\ opened.pauseRequested = task[t].pauseRequested
        /\ Stays(task[t], opened)
    BY <1>1 DEF TaskRecord, Opened, Stays, Same
  <2>3. /\ Write(t, opened)
        /\ frames' = (frames \ {f}) \cup {Frame("turn", f.task, f.epoch, f.counted, None)}
    BY <1>4 DEF LaunchReady, Continue
  <2> HIDE DEF opened
  <2> QED BY <1>1, <1>4, <2>1, <2>2, <2>3, ContinueGoes DEF Executor, WantsPause
<1> QED BY <1>2, <1>3, <1>4

\* A call of this epoch works on its task.
LEMMA WorkingFacts ==
    ASSUME Inv, IOrd, NEW f \in frames, Current(f), f.kind \in Executor
    PROVE  /\ f.task \in Task /\ task[f.task] \in TaskRecord
           /\ Stable => task[f.task].status # "completed"
           /\ Calm => /\ task[f.task].status \notin {"pausing", "paused"}
                      /\ ~task[f.task].pauseRequested /\ ~WantsPause(f.task)
                      /\ f.kind # "pause"
           /\ f.kind \in {"launch", "turn"} => task[f.task].status # "failed"
<1>1. task[f.task] \in TaskRecord /\ Suits(f.kind, task[f.task])
  BY CurrentFacts
<1>2. f.kind \in {"launch", "turn"} => task[f.task].status # "failed"
  BY <1>1 DEF Suits
<1> QED BY <1>1, <1>2, CurrentFacts DEF WantsPause

LEMMA LaunchFailsGoes ==
    ASSUME Inv, IOrd, NEW f \in frames, LaunchFails(f)
    PROVE  Going
<1> DEFINE t == f.task
           new == [task[t] EXCEPT !.driver = "aborted"]
<1>1. /\ f.kind = "launch" /\ Current(f) /\ Write(t, new)
      /\ frames' = (frames \ {f}) \cup {Frame("failing", f.task, f.epoch, f.counted, None)}
  BY DEF LaunchFails, Continue
<1>2. /\ t \in Task /\ task[t] \in TaskRecord
      /\ Stable => task[t].status # "completed"
      /\ task[t].status # "failed"
      /\ Calm => task[t].status \notin {"pausing", "paused"} /\ ~task[t].pauseRequested
  BY <1>1, WorkingFacts DEF Executor
<1>3. /\ new.status = task[t].status /\ new.pauseRequested = task[t].pauseRequested
      /\ Stays(task[t], new)
  BY <1>2 DEF TaskRecord, Stays, Same
<1> HIDE DEF new
<1> QED BY <1>1, <1>2, <1>3, ContinueGoes DEF Executor

\* The turn of a task that is to pause.
LEMMA PausingGoes ==
    ASSUME Inv, IOrd, NEW f \in frames, f.kind = "turn", Current(f), WantsPause(f.task),
           NEW rec, Stays(task[f.task], rec), rec.status = task[f.task].status,
           NEW new, new = Pausing(rec), Stays(rec, new), new.status = rec.status,
           Write(f.task, new), NEW from, Continue(f, "pause", from)
    PROVE  Going
<1>1. /\ ~Calm /\ (Stable => task[f.task].status # "completed")
  BY WorkingFacts DEF Executor
<1>2. Stays(task[f.task], new)
  BY DEF Stays, Same
<1>3. frames' = (frames \ {f}) \cup {Frame("pause", f.task, f.epoch, f.counted, from)}
  BY DEF Continue
<1> QED BY <1>1, <1>2, <1>3, ContinueGoes DEF Executor

LEMMA TurnAsksGoes ==
    ASSUME Inv, IOrd, NEW f \in frames, TurnAsks(f)
    PROVE  Going
<1> DEFINE t == f.task
           c == Len(gate[t]) + 1
           rec == [task[t] EXCEPT !.waiting = c]
           paused == Pausing(rec)
           new == [task[t] EXCEPT !.waiting = c, !.status = "waiting_for_human"]
<1>1. f.kind = "turn" /\ Current(f)
  BY DEF TurnAsks
<1>2. /\ t \in Task /\ task[t] \in TaskRecord
      /\ Stable => task[t].status # "completed"
      /\ Calm => ~WantsPause(t) /\ ~task[t].pauseRequested
  BY <1>1, WorkingFacts DEF Executor
<1>3. CASE WantsPause(t)
  <2>1. Write(t, paused) /\ Continue(f, "pause", "waiting_for_human")
    BY <1>3 DEF TurnAsks
  <2>2. rec.status = task[t].status /\ Stays(task[t], rec)
    BY <1>2 DEF TaskRecord, Stays, Same
  <2>3. paused.status = rec.status /\ Stays(rec, paused)
    BY <1>2 DEF TaskRecord, Stays, Same, Pausing
  <2>4. paused = Pausing(rec)
    OBVIOUS
  <2> HIDE DEF paused, rec
  <2> QED BY <1>1, <1>3, <2>1, <2>2, <2>3, <2>4, PausingGoes
<1>4. CASE ~WantsPause(t)
  <2>1. Write(t, new) /\ frames' = frames \ {f}
    BY <1>4 DEF TurnAsks, Return
  <2>2. /\ new.status = "waiting_for_human" /\ new.pauseRequested = task[t].pauseRequested
        /\ Stays(task[t], new)
    BY <1>2 DEF TaskRecord, Stays, Same
  <2> HIDE DEF new
  <2>3. Calm => Sober(new, {})
    BY <1>2, <2>2 DEF Sober
  <2> QED BY <1>1, <2>1, <2>2, <2>3, ReturnGoes DEF Executor
<1> QED BY <1>3, <1>4

LEMMA TurnFinishesGoes ==
    ASSUME Inv, IOrd, NEW f \in frames, TurnFinishes(f)
    PROVE  Going
<1> DEFINE t == f.task
           paused == Pausing(task[t])
           new == [task[t] EXCEPT !.status = "verifying", !.driver = "none",
                                  !.handedOver = TRUE]
<1>1. f.kind = "turn" /\ Current(f)
  BY DEF TurnFinishes
<1>2. /\ t \in Task /\ task[t] \in TaskRecord
      /\ Calm => ~task[t].pauseRequested
  BY <1>1, WorkingFacts DEF Executor
<1>3. CASE task[t].pauseRequested
  <2>1. Write(t, paused) /\ Continue(f, "pause", "running") /\ WantsPause(t)
    BY <1>3 DEF TurnFinishes, WantsPause
  <2>2. paused.status = task[t].status /\ Stays(task[t], paused) /\ Stays(task[t], task[t])
    BY <1>2 DEF TaskRecord, Stays, Same, Pausing
  <2>3. paused = Pausing(task[t])
    OBVIOUS
  <2> HIDE DEF paused
  <2> QED BY <1>1, <2>1, <2>2, <2>3, PausingGoes
<1>4. CASE ~task[t].pauseRequested
  <2>1. /\ Write(t, new)
        /\ frames' = (frames \ {f}) \cup {Frame("deliver", f.task, f.epoch, f.counted, None)}
    BY <1>4 DEF TurnFinishes, Continue
  <2>2. /\ new.status = "verifying" /\ new.pauseRequested = task[t].pauseRequested
        /\ Stays(task[t], new)
    BY <1>2 DEF TaskRecord, Stays, Same
  <2> HIDE DEF new
  <2> QED BY <1>1, <1>4, <2>1, <2>2, ContinueGoes DEF Executor
<1> QED BY <1>3, <1>4

LEMMA TurnDiesGoes ==
    ASSUME Inv, IOrd, NEW f \in frames, TurnDies(f)
    PROVE  Going
<1> DEFINE t == f.task
           paused == Pausing(task[t])
           new == [task[t] EXCEPT !.driver = "aborted"]
<1>1. f.kind = "turn" /\ Current(f)
  BY DEF TurnDies
<1>2. /\ t \in Task /\ task[t] \in TaskRecord
      /\ Stable => task[t].status # "completed"
      /\ task[t].status # "failed"
      /\ Calm => task[t].status \notin {"pausing", "paused"} /\ ~task[t].pauseRequested
  BY <1>1, WorkingFacts DEF Executor
<1>3. CASE WantsPause(t)
  <2>1. Write(t, paused) /\ Continue(f, "pause", "running")
    BY <1>3 DEF TurnDies
  <2>2. paused.status = task[t].status /\ Stays(task[t], paused) /\ Stays(task[t], task[t])
    BY <1>2 DEF TaskRecord, Stays, Same, Pausing
  <2>3. paused = Pausing(task[t])
    OBVIOUS
  <2> HIDE DEF paused
  <2> QED BY <1>1, <1>3, <2>1, <2>2, <2>3, PausingGoes
<1>4. CASE ~WantsPause(t)
  <2>1. /\ Write(t, new)
        /\ frames' = (frames \ {f}) \cup {Frame("failing", f.task, f.epoch, f.counted, None)}
    BY <1>4 DEF TurnDies, Continue
  <2>2. /\ new.status = task[t].status /\ new.pauseRequested = task[t].pauseRequested
        /\ Stays(task[t], new)
    BY <1>2 DEF TaskRecord, Stays, Same
  <2> HIDE DEF new
  <2> QED BY <1>1, <1>2, <2>1, <2>2, ContinueGoes DEF Executor
<1> QED BY <1>3, <1>4

-----------------------------------------------------------------------------
\* What ends.

LEMMA TurnStaleGoes ==
    ASSUME Inv, IOrd, NEW f \in frames,
           TurnStale(f) \/ DeliverStale(f) \/ CancelEnds(f)
    PROVE  Going
BY DropGoes DEF TurnStale, DeliverStale, CancelEnds, Return

LEMMA FailingEndsGoes ==
    ASSUME Inv, IOrd, NEW f \in frames, FailingEnds(f)
    PROVE  Going
<1> DEFINE t == f.task
           new == [task[t] EXCEPT !.status = "failed"]
<1>1. f.kind = "failing" /\ frames' = frames \ {f}
  BY DEF FailingEnds, Return
<1>2. CASE ~Current(f)
  BY <1>1, <1>2, DropGoes DEF FailingEnds
<1>3. CASE Current(f)
  <2>1. /\ t \in Task /\ task[t] \in TaskRecord
        /\ Calm => ~task[t].pauseRequested
    BY <1>1, <1>3, WorkingFacts DEF Executor
  <2>2. /\ new.status = "failed" /\ (~task[t].pauseRequested => ~new.pauseRequested)
        /\ Stays(task[t], new)
    BY <2>1 DEF TaskRecord, Stays, Same
  <2>3. Write(t, new)
    BY <1>3 DEF FailingEnds
  <2> HIDE DEF new
  <2>4. Calm => Sober(new, {})
    <3>1. Calm => ~new.pauseRequested
      BY <2>1, <2>2
    <3>2. new.status \notin {"pausing", "paused"}
      BY <2>2
    <3> QED BY <3>1, <3>2 DEF Sober
  <2>5. /\ Stable => new.status # "completed"
        /\ new.status \notin {"running", "waiting_for_human", "verifying"}
        /\ f.kind \in Executor
    BY <1>1, <2>2 DEF Executor
  <2> QED BY <1>1, <1>3, <2>2, <2>3, <2>4, <2>5, ReturnGoes
<1> QED BY <1>2, <1>3

LEMMA PauseEndsGoes ==
    ASSUME Inv, IOrd, NEW f \in frames, PauseEnds(f)
    PROVE  Going
<1> DEFINE t == f.task
           paused == [task[t] EXCEPT !.status = "paused", !.paused_from = f.from]
           failed == [task[t] EXCEPT !.status = "failed"]
<1>1. f.kind = "pause" /\ frames' = frames \ {f}
  BY DEF PauseEnds, Return
<1>2. CASE ~Current(f)
  BY <1>1, <1>2, DropGoes DEF PauseEnds
<1>3. CASE Current(f)
  <2>1. t \in Task /\ task[t] \in TaskRecord /\ ~Calm
    BY <1>1, <1>3, WorkingFacts DEF Executor
  <2>2. paused.status = "paused" /\ Stays(task[t], paused)
    BY <2>1 DEF TaskRecord, Stays, Same
  <2>3. failed.status = "failed" /\ Stays(task[t], failed)
    BY <2>1 DEF TaskRecord, Stays, Same
  <2>4. Write(t, paused) \/ Write(t, failed)
    BY <1>3 DEF PauseEnds
  <2> HIDE DEF paused, failed
  <2>5. CASE Write(t, paused)
    BY <1>1, <1>3, <2>1, <2>2, <2>5, ReturnGoes DEF Executor
  <2>6. CASE Write(t, failed)
    BY <1>1, <1>3, <2>1, <2>3, <2>6, ReturnGoes DEF Executor
  <2> QED BY <2>4, <2>5, <2>6
<1> QED BY <1>2, <1>3

LEMMA DeliversGoes ==
    ASSUME Inv, IOrd, NEW f \in frames, Delivers(f)
    PROVE  Going
<1> DEFINE t == f.task
           new == [task[t] EXCEPT !.pushed = TRUE]
<1>1. /\ f.kind = "deliver" /\ Current(f) /\ Write(t, new)
      /\ frames' = (frames \ {f}) \cup {Frame("poll", f.task, f.epoch, FALSE, None)}
  BY DEF Delivers
<1>2. /\ t \in Task /\ task[t] \in TaskRecord
      /\ Stable => task[t].status # "completed"
      /\ Calm => task[t].status \notin {"pausing", "paused"} /\ ~task[t].pauseRequested
  BY <1>1, WorkingFacts DEF Executor
<1>3. /\ new.status = task[t].status /\ new.pauseRequested = task[t].pauseRequested
      /\ Stays(task[t], new)
  BY <1>2 DEF TaskRecord, Stays, Same
<1> HIDE DEF new
<1> QED BY <1>1, <1>2, <1>3, ContinueGoes DEF Executor

LEMMA DeliveryHeldGoes ==
    ASSUME Inv, IOrd, NEW f \in frames, DeliveryHeld(f)
    PROVE  Going
<1> DEFINE t == f.task
           failed == [task[t] EXCEPT !.status = "failed"]
           g == [f EXCEPT !.counted = FALSE]
<1>1. f.kind = "deliver" /\ Current(f)
  BY DEF DeliveryHeld
<1>2. /\ t \in Task /\ task[t] \in TaskRecord
      /\ Stable => task[t].status # "completed"
      /\ Calm => task[t].status \notin {"pausing", "paused"} /\ ~task[t].pauseRequested
  BY <1>1, WorkingFacts DEF Executor
<1>3. CASE frames' = (frames \ {f}) \cup {g} /\ UNCHANGED task
  <2> DEFINE A == {g}
  <2>1. g.kind = "deliver" /\ g.task = f.task
    <3>1. f \in FrameRecord
      BY CallFacts
    <3> QED BY <1>1, <3>1 DEF FrameRecord
  <2>2. Write(t, task[t])
    BY <1>2, <1>3, TaskFacts DEF Write
  <2>3. Stays(task[t], task[t])
    BY DEF Stays, Same
  <2>4. frames' = (frames \ {f}) \cup A
    BY <1>3
  <2> HIDE DEF g
  <2>5. /\ \A h \in A : h.task = f.task
        /\ \A h \in A : h.kind \notin {"merge", "cancel_query"}
        /\ \A h \in A : h.kind # "pause"
        /\ \A h \in A : h.kind # "failing"
    BY <2>1
  <2> HIDE DEF A
  <2>6. Calm => Sober(task[t], A)
    BY <1>2, <2>5 DEF Sober
  <2> QED BY <1>1, <1>2, <2>2, <2>3, <2>4, <2>5, <2>6, CurrentGoes DEF Executor
<1>4. CASE Write(t, failed) /\ Return(f)
  <2>1. /\ failed.status = "failed" /\ failed.pauseRequested = task[t].pauseRequested
        /\ Stays(task[t], failed)
    BY <1>2 DEF TaskRecord, Stays, Same
  <2> HIDE DEF failed
  <2>2. (Calm => Sober(failed, {})) /\ frames' = frames \ {f}
    BY <1>2, <1>4, <2>1 DEF Sober, Return
  <2> QED BY <1>1, <1>4, <2>1, <2>2, ReturnGoes DEF Executor
<1> QED BY <1>3, <1>4 DEF DeliveryHeld

LEMMA NeedsRepairGoes ==
    ASSUME Inv, IOrd, NEW f \in frames, NeedsRepair(f)
    PROVE  Going
<1> DEFINE t == f.task
           new == [task[t] EXCEPT !.status = "queued"]
<1>1. /\ f.kind \in {"deliver", "poll"} /\ Current(f) /\ Write(t, new)
      /\ frames' = frames \ {f}
  BY DEF NeedsRepair, Repair
<1>2. /\ t \in Task /\ task[t] \in TaskRecord
      /\ Calm => ~task[t].pauseRequested
  BY <1>1, WorkingFacts DEF Executor
<1>3. /\ new.status = "queued" /\ (~task[t].pauseRequested => ~new.pauseRequested)
      /\ Stays(task[t], new)
  BY <1>2 DEF TaskRecord, Stays, Same
<1> HIDE DEF new
<1>4. Calm => Sober(new, {})
  <2>1. Calm => ~new.pauseRequested
    BY <1>2, <1>3
  <2>2. new.status \notin {"pausing", "paused"}
    BY <1>3
  <2> QED BY <2>1, <2>2 DEF Sober
<1>5. /\ Stable => new.status # "completed"
      /\ new.status \notin {"running", "waiting_for_human", "verifying"}
      /\ f.kind \in Executor
  BY <1>1, <1>3 DEF Executor
<1> QED BY <1>1, <1>3, <1>4, <1>5, ReturnGoes
-----------------------------------------------------------------------------
\* What others do to a task.

\* No call comes or goes.
LEMMA StillGoes ==
    ASSUME Inv, IOrd, NEW t \in Task, NEW new, Write(t, new), UNCHANGED frames,
           Passes(task[t], FramesOf(frames, t), new, FramesOf(frames, t))
    PROVE  Going
<1>1. \A u \in Task : FramesOf(frames', u) = FramesOf(frames, u)
  OBVIOUS
<1> QED BY <1>1, GivesGoing

LEMMA ReleasedGoes ==
    ASSUME Inv, IOrd, NEW t \in Task, Released(t)
    PROVE  Going
<1> DEFINE new(left) == [task[t] EXCEPT !.driver = left]
           F == FramesOf(frames, t)
<1>1. PICK left \in {"none", "stuck"} : Write(t, new(left))
  BY DEF Released
<1>2. task[t] \in TaskRecord /\ Ordered(task[t], F) /\ task[t].driver = "aborted"
  BY TaskFacts DEF IOrd, Released
<1> DEFINE n == new(left)
<1>3. /\ n.status = task[t].status /\ n.controlEpoch = task[t].controlEpoch
      /\ n.pauseRequested = task[t].pauseRequested /\ n.driver # "open"
      /\ n.started = task[t].started /\ n.pushed = task[t].pushed
      /\ n.handedOver = task[t].handedOver /\ n.waiting = task[t].waiting
      /\ Same(task[t], n)
  BY <1>2 DEF TaskRecord, Same
<1>4. Write(t, n) /\ UNCHANGED frames
  BY <1>1 DEF Released
<1> HIDE DEF n, F
<1>5. Ordered(n, F)
  BY <1>2, <1>3 DEF Ordered, Fresh, Settled, Over, Sober
<1>6. Passes(task[t], F, n, F)
  BY <1>3, <1>5 DEF Passes, Engaged, Ends
<1> QED BY <1>4, <1>6, StillGoes DEF F

LEMMA MergeEndsGoes ==
    ASSUME Inv, IOrd, NEW f \in frames, MergeEnds(f)
    PROVE  Going
<1> DEFINE t == f.task
           F == FramesOf(frames, t)
           new == [task[t] EXCEPT !.status = "completed"]
<1>1. CASE UNCHANGED task
  BY <1>1, DropGoes DEF MergeEnds
<1>2. CASE task[t].status # "canceled" /\ Write(t, new)
  <2>1. /\ t \in Task /\ f \in F /\ f.kind = "merge" /\ task[t] \in TaskRecord
        /\ Ordered(task[t], F)
    BY CallFacts DEF IOrd, MergeEnds
  <2>2. /\ new.status = "completed" /\ new.controlEpoch = task[t].controlEpoch
        /\ new.pauseRequested = task[t].pauseRequested /\ new.driver = task[t].driver
        /\ new.started = task[t].started /\ new.pushed = task[t].pushed
        /\ Same(task[t], new)
    BY <2>1 DEF TaskRecord, Same
  <2>3. /\ FramesOf(frames', t) = F \ {f}
        /\ \A u \in Task \ {t} : FramesOf(frames', u) = FramesOf(frames, u)
    BY FramesGone DEF MergeEnds
  <2> HIDE DEF new, F
  <2>4. Ordered(new, F \ {f})
    BY <2>1, <2>2 DEF Ordered, Fresh, Settled, Over, Sober
  <2>5. Passes(task[t], F, new, F \ {f})
    BY <2>2, <2>4 DEF Passes, Engaged, Ends
  <2> HIDE DEF t
  <2> QED BY <1>2, <2>1, <2>3, <2>5, GivesGoing DEF F
<1> QED BY <1>1, <1>2 DEF MergeEnds

-----------------------------------------------------------------------------
\* The controls.

\* A task and its calls.
LEMMA OrderedFacts ==
    ASSUME Inv, IOrd, NEW t \in Task
    PROVE  /\ task[t] \in TaskRecord /\ task[t].controlEpoch \in Nat
           /\ FramesOf(frames, t) \in SUBSET FrameRecord
           /\ Fits(task[t], FramesOf(frames, t)) /\ Ordered(task[t], FramesOf(frames, t))
BY TaskFacts DEF IOrd, FramesOf

\* A call of t begins.
LEMMA CallGoes ==
    ASSUME Inv, IOrd, NEW t \in Task, NEW new, Write(t, new),
           NEW kind, NEW epoch, NEW from, Call(kind, t, epoch, from),
           Passes(task[t], FramesOf(frames, t), new,
                  FramesOf(frames, t) \cup {Frame(kind, t, epoch, FALSE, from)})
    PROVE  Going
<1> DEFINE g == Frame(kind, t, epoch, FALSE, from)
           A == {g}
<1>1. g.task = t
  BY DEF Frame
<1>2. frames' = frames \cup A
  BY DEF Call
<1> HIDE DEF g
<1>3. \A h \in A : h.task = t
  BY <1>1
<1>4. /\ FramesOf(frames', t) = FramesOf(frames, t) \cup A
      /\ \A u \in Task \ {t} : FramesOf(frames', u) = FramesOf(frames, u)
  <2> HIDE DEF A
  <2> QED BY <1>2, <1>3, FramesMore
<1> QED BY <1>4, GivesGoing DEF g

\* A step of a task that nobody has merged.
LEMMA UndonePasses ==
    ASSUME NEW rec, NEW F, Ordered(rec, F), NEW new, NEW G, Same(rec, new), Fresh(new, G),
           Stable => ~Over(rec, F) /\ ~Over(new, G),
           rec.status \notin Ends, Calm => Sober(new, G),
           Straight => (Engaged(new, G) => Engaged(rec, F))
    PROVE  Passes(rec, F, new, G)
<1>1. Stable => Settled(new, G)
  BY DEF Settled
<1> QED BY <1>1 DEF Passes, Ordered

\* A merge takes the task.
LEMMA MergedPasses ==
    ASSUME NEW rec \in TaskRecord, NEW F \in SUBSET FrameRecord, Fits(rec, F), Ordered(rec, F),
           rec.pushed, rec.status \notin Ends, "merge" \in Operations,
           NEW new, Same(rec, new), new.status = "verifying",
           new.controlEpoch = rec.controlEpoch + 1, new.driver # "open",
           new.pauseRequested = rec.pauseRequested,
           NEW E \in SUBSET F, NEW m, m.kind = "merge"
    PROVE  Passes(rec, F, new, E \cup {m})
<1> DEFINE G == E \cup {m}
<1>1. rec.started /\ new.started /\ new.pushed
  BY DEF Ordered, Fresh, Same
<1>2. Fresh(new, G)
  BY <1>1 DEF Fresh
<1>3. \A f \in G : f.kind \in Executor => f.epoch # new.controlEpoch
  <2>1. \A f \in F : f.epoch \in Nat /\ f.epoch <= rec.controlEpoch
    BY BoundAssumption DEF Fits, FrameRecord
  <2>2. rec.controlEpoch \in Nat
    BY BoundAssumption DEF TaskRecord
  <2>3. \A f \in E : f.epoch # new.controlEpoch
    BY <2>1, <2>2
  <2> QED BY <2>3 DEF Executor
<1>4. Settled(new, G)
  BY <1>3 DEF Settled
<1>5. Sober(rec, F) => Sober(new, G)
  BY DEF Sober
<1>6. ~Engaged(new, G)
  BY <1>1, <1>3 DEF Engaged, Executor
<1> QED BY <1>2, <1>4, <1>5, <1>6 DEF Passes, Ordered

\* The record of a merge.
LEMMA SettleMergeGoes ==
    ASSUME Inv, IOrd, NEW t \in Task, NEW others, SettleMerge(t, others),
           task[t].pushed, task[t].status \notin Ends, "merge" \in Operations,
           others = frames \/ \E f \in frames : f.task = t /\ others = frames \ {f}
    PROVE  Going
<1> DEFINE F == FramesOf(frames, t)
           new == [task[t] EXCEPT !.status = "verifying", !.controlEpoch = @ + 1,
                                  !.driver = Abort(@)]
           m == Frame("merge", t, task'[t].controlEpoch, FALSE, None)
           E == FramesOf(others, t)
<1>1. /\ task[t] \in TaskRecord /\ task[t].controlEpoch \in Nat /\ F \in SUBSET FrameRecord
      /\ Fits(task[t], F) /\ Ordered(task[t], F)
  BY OrderedFacts
<1>2. Write(t, new) /\ frames' = others \cup {m}
  BY DEF SettleMerge
<1>3. /\ new.status = "verifying" /\ new.controlEpoch = task[t].controlEpoch + 1
      /\ new.driver # "open" /\ new.pauseRequested = task[t].pauseRequested
      /\ Same(task[t], new)
  BY <1>1 DEF TaskRecord, Same, Abort
<1>4. m.kind = "merge" /\ m.task = t
  BY DEF Frame
<1> HIDE DEF new, m
<1>5. /\ FramesOf(frames', t) = E \cup {m} /\ E \in SUBSET F
      /\ \A u \in Task \ {t} : FramesOf(frames', u) = FramesOf(frames, u)
  BY <1>2, <1>4 DEF FramesOf
<1> HIDE DEF E, F
<1>6. Passes(task[t], F, new, E \cup {m})
  BY <1>1, <1>3, <1>4, <1>5, MergedPasses
<1> QED BY <1>2, <1>5, <1>6, GivesGoing DEF F

LEMMA MergeSeenGoes ==
    ASSUME Inv, IOrd, NEW t \in Task, MergeSeen(t)
    PROVE  Going
BY SettleMergeGoes DEF MergeSeen, May, Ends

LEMMA CancelFindsMergeGoes ==
    ASSUME Inv, IOrd, NEW f \in frames, CancelFindsMerge(f)
    PROVE  Going
<1> DEFINE t == f.task
<1>1. CASE frames' = frames \ {f} /\ UNCHANGED task
  BY <1>1, DropGoes
<1>2. CASE task[t].status \notin {"completed", "canceled"} /\ SettleMerge(t, frames \ {f})
  <2>1. t \in Task /\ f \in FramesOf(frames, t) /\ f.kind = "cancel_query"
    BY CallFacts DEF CancelFindsMerge
  <2>2. task[t].pushed
    BY <2>1 DEF IOrd, Ordered, Fresh
  <2>3. "merge" \in Operations
    BY DEF CancelFindsMerge
  <2>4. \E g \in frames : g.task = t /\ frames \ {f} = frames \ {g}
    OBVIOUS
  <2> HIDE DEF t
  <2> QED BY <1>2, <2>1, <2>2, <2>3, <2>4, SettleMergeGoes DEF Ends
<1> QED BY <1>1, <1>2 DEF CancelFindsMerge

\* A cancellation takes it.
LEMMA CanceledPasses ==
    ASSUME NEW rec \in TaskRecord, NEW F \in SUBSET FrameRecord, Fits(rec, F), Ordered(rec, F),
           NEW new, Same(rec, new), new.status = "canceled",
           new.controlEpoch = rec.controlEpoch + 1, ~new.pauseRequested,
           new.waiting = 0, new.handedOver = rec.handedOver, new.pushed = rec.pushed,
           new.driver = Abort(rec.driver),
           NEW E \in SUBSET F, NEW A, \A g \in A : g.kind = "cancel",
           A # {} => rec.driver # "none"
    PROVE  Passes(rec, F, new, E \cup A)
<1> DEFINE G == E \cup A
<1>1. Fresh(new, G)
  BY DEF Fresh, Ordered, Same, Abort
<1>2. \A f \in G : f.kind \in Executor => f.epoch # new.controlEpoch
  <2>1. \A f \in F : f.epoch \in Nat /\ f.epoch <= rec.controlEpoch
    BY BoundAssumption DEF Fits, FrameRecord
  <2>2. rec.controlEpoch \in Nat
    BY BoundAssumption DEF TaskRecord
  <2>3. \A f \in E : f.epoch # new.controlEpoch
    BY <2>1, <2>2
  <2> QED BY <2>3 DEF Executor
<1>3. Over(new, G) => Over(rec, F)
  BY DEF Over
<1>4. new.driver # "open"
  BY DEF Abort, TaskRecord
<1>5. Settled(rec, F) => Settled(new, G)
  BY <1>2, <1>3, <1>4 DEF Settled
<1>6. Sober(rec, F) => Sober(new, G)
  BY DEF Sober
<1> QED BY <1>1, <1>5, <1>6 DEF Passes, Ordered, Engaged, Ends

\* The record of a cancellation.
LEMMA CanceledFacts ==
    ASSUME Inv, IOrd, NEW t \in Task, NEW E \in SUBSET FramesOf(frames, t), NEW A,
           \A g \in A : g.kind = "cancel", A # {} => task[t].driver # "none",
           CancelNow(t)
    PROVE  \E new : Write(t, new) /\ Passes(task[t], FramesOf(frames, t), new, E \cup A)
<1> DEFINE new == [task[t] EXCEPT !.status = "canceled", !.controlEpoch = @ + 1,
                       !.pauseRequested = FALSE, !.waiting = 0, !.driver = Abort(@)]
<1>1. /\ task[t] \in TaskRecord /\ FramesOf(frames, t) \in SUBSET FrameRecord
      /\ Fits(task[t], FramesOf(frames, t)) /\ Ordered(task[t], FramesOf(frames, t))
  BY OrderedFacts
<1>2. /\ new.status = "canceled" /\ new.controlEpoch = task[t].controlEpoch + 1
      /\ ~new.pauseRequested /\ new.waiting = 0 /\ new.handedOver = task[t].handedOver
      /\ new.pushed = task[t].pushed /\ new.driver = Abort(task[t].driver)
      /\ Same(task[t], new)
  BY <1>1 DEF TaskRecord, Same
<1>3. Write(t, new)
  BY DEF CancelNow
<1> HIDE DEF new
<1>4. Passes(task[t], FramesOf(frames, t), new, E \cup A)
  BY <1>1, <1>2, CanceledPasses
<1> QED BY <1>3, <1>4

LEMMA CancelGoes ==
    ASSUME Inv, IOrd, NEW t \in Task, Cancel(t)
    PROVE  Going
<1> DEFINE F == FramesOf(frames, t)
<1>1. CASE /\ task[t].pushed /\ task[t].status = "verifying"
           /\ Call("cancel_query", t, task[t].controlEpoch, None) /\ UNCHANGED task
  <2> DEFINE g == Frame("cancel_query", t, task[t].controlEpoch, FALSE, None)
  <2>1. Write(t, task[t]) /\ Ordered(task[t], F)
    BY <1>1, TaskFacts DEF IOrd, Write
  <2>2. g.kind = "cancel_query"
    BY DEF Frame
  <2> HIDE DEF g, F
  <2>3. Fresh(task[t], F \cup {g})
    BY <1>1, <2>1 DEF Ordered, Fresh
  <2>4. Settled(task[t], F) => Settled(task[t], F \cup {g})
    BY <2>2 DEF Settled, Over, Executor
  <2>5. Sober(task[t], F) => Sober(task[t], F \cup {g})
    BY <2>2 DEF Sober
  <2>6. Engaged(task[t], F \cup {g}) => Engaged(task[t], F)
    BY <2>2 DEF Engaged
  <2>7. Passes(task[t], F, task[t], F \cup {g})
    BY <2>1, <2>3, <2>4, <2>5, <2>6 DEF Passes, Ordered, Same
  <2> QED BY <1>1, <2>1, <2>7, CallGoes DEF F, g
<1>2. CASE /\ task[t].driver # "none" /\ CancelNow(t)
           /\ Call("cancel", t, task'[t].controlEpoch, None)
  <2> DEFINE g == Frame("cancel", t, task'[t].controlEpoch, FALSE, None)
             A == {g}
  <2>1. g.kind = "cancel"
    BY DEF Frame
  <2> HIDE DEF g
  <2>2. \A h \in A : h.kind = "cancel"
    BY <2>1
  <2> HIDE DEF A
  <2>3. PICK new : Write(t, new) /\ Passes(task[t], F, new, F \cup A)
    BY <1>2, <2>2, CanceledFacts
  <2> QED BY <1>2, <2>3, CallGoes DEF A, g
<1>3. CASE CancelNow(t) /\ UNCHANGED frames
  <2>1. PICK new : Write(t, new) /\ Passes(task[t], F, new, F \cup {})
    BY <1>3, CanceledFacts
  <2>2. F \cup {} = F
    OBVIOUS
  <2>3. Passes(task[t], F, new, F)
    BY <2>1, <2>2
  <2> QED BY <1>3, <2>1, <2>3, StillGoes
<1> QED BY <1>1, <1>2, <1>3 DEF Cancel

LEMMA CancelAnsweredGoes ==
    ASSUME Inv, IOrd, NEW f \in frames, CancelAnswered(f)
    PROVE  Going
<1> DEFINE t == f.task
           F == FramesOf(frames, t)
           g == Frame("cancel", t, task'[t].controlEpoch, FALSE, None)
           A == IF task[t].driver # "none" THEN {g} ELSE {}
<1>1. t \in Task /\ CancelNow(t) /\ frames' = (frames \ {f}) \cup A
  BY CallFacts DEF CancelAnswered
<1>2. g.kind = "cancel" /\ g.task = t
  BY DEF Frame
<1> HIDE DEF g
<1>3. /\ \A h \in A : h.kind = "cancel" /\ h.task = t
      /\ A # {} => task[t].driver # "none"
  BY <1>2
<1> HIDE DEF A
<1>4. F \ {f} \in SUBSET F
  OBVIOUS
<1> HIDE DEF t
<1>5. PICK new : Write(t, new) /\ Passes(task[t], F, new, (F \ {f}) \cup A)
  BY <1>1, <1>3, <1>4, CanceledFacts
<1>6. /\ FramesOf(frames', t) = (F \ {f}) \cup A
      /\ \A u \in Task \ {t} : FramesOf(frames', u) = FramesOf(frames, u)
  BY <1>1, <1>3, FramesSwapped DEF t
<1> QED BY <1>1, <1>5, <1>6, GivesGoing

LEMMA PauseRunningGoes ==
    ASSUME Inv, IOrd, NEW t \in Task, PauseRunning(t)
    PROVE  Going
<1> DEFINE new == [task[t] EXCEPT !.status = "pausing", !.pauseRequested = TRUE]
           F == FramesOf(frames, t)
<1>1. /\ task[t] \in TaskRecord /\ Ordered(task[t], F) /\ task[t].status = "running"
      /\ ~Calm /\ Write(t, new) /\ UNCHANGED frames
  BY OrderedFacts DEF PauseRunning, Calm
<1>2. /\ new.status = "pausing" /\ new.driver = task[t].driver /\ new.waiting = task[t].waiting
      /\ new.handedOver = task[t].handedOver /\ new.pushed = task[t].pushed
      /\ Same(task[t], new)
  BY <1>1 DEF TaskRecord, Same
<1> HIDE DEF new, F
<1>3. Fresh(new, F)
  BY <1>1, <1>2 DEF Ordered, Fresh, Same
<1>4. Stable => ~Over(task[t], F) /\ ~Over(new, F)
  BY <1>1, <1>2 DEF Ordered, Settled, Over
<1>5. Passes(task[t], F, new, F)
  BY <1>1, <1>2, <1>3, <1>4, UndonePasses DEF Straight, Ends
<1> QED BY <1>1, <1>5, StillGoes DEF F

LEMMA PauseRestingGoes ==
    ASSUME Inv, IOrd, NEW t \in Task, PauseResting(t)
    PROVE  Going
<1> DEFINE from == task[t].status
           rec == [Pausing(task[t]) EXCEPT !.controlEpoch = @ + 1]
           paused == [rec EXCEPT !.status = "paused", !.paused_from = from]
           F == FramesOf(frames, t)
           g == Frame("pause", t, rec.controlEpoch, FALSE, from)
<1>1. /\ task[t] \in TaskRecord /\ Ordered(task[t], F)
      /\ from \in {"queued", "waiting_for_human", "verifying"} /\ ~Calm
  BY OrderedFacts DEF PauseResting, May, Calm
<1>2. /\ rec.status = from /\ rec.driver = Abort(task[t].driver) /\ rec.waiting = task[t].waiting
      /\ rec.handedOver = task[t].handedOver /\ rec.pushed = task[t].pushed
      /\ Same(task[t], rec)
  BY <1>1 DEF TaskRecord, Same, Pausing
<1>3. /\ paused.status = "paused" /\ paused.driver = Abort(task[t].driver)
      /\ paused.waiting = task[t].waiting /\ paused.handedOver = task[t].handedOver
      /\ paused.pushed = task[t].pushed /\ Same(task[t], paused)
  BY <1>1 DEF TaskRecord, Same, Pausing
<1>4. Stable => ~Over(task[t], F)
  <2>1. ~Calm /\ Stable => "merge" \notin Operations
    BY DEF Calm, Stable
  <2> QED BY <1>1, <2>1 DEF Ordered, Settled
<1>5. CASE rec.driver = "none" /\ Write(t, paused) /\ UNCHANGED frames
  <2> HIDE DEF rec, paused, F
  <2>1. Fresh(paused, F)
    BY <1>1, <1>3 DEF Ordered, Fresh, Same, Abort
  <2>2. Stable => ~Over(paused, F)
    BY <1>3, <1>4 DEF Over
  <2>3. Passes(task[t], F, paused, F)
    BY <1>1, <1>3, <1>4, <2>1, <2>2, UndonePasses DEF Straight, Ends
  <2> QED BY <1>5, <2>3, StillGoes DEF F
<1>6. CASE /\ rec.driver # "none" /\ Write(t, rec)
           /\ Call("pause", t, rec.controlEpoch, from)
  <2>1. g.kind = "pause"
    BY DEF Frame
  <2>2. Call("pause", t, rec.controlEpoch, from) /\ Write(t, rec) /\ rec.driver # "none"
    BY <1>6
  <2> HIDE DEF rec, g, F
  <2>3. Fresh(rec, F \cup {g})
    BY <1>1, <1>2, <2>1, <2>2 DEF Ordered, Fresh, Same, Abort
  <2>4. Stable => ~Over(rec, F \cup {g})
    BY <1>1, <1>2, <1>4, <2>1 DEF Over
  <2>5. Passes(task[t], F, rec, F \cup {g})
    BY <1>1, <1>2, <1>4, <2>3, <2>4, UndonePasses DEF Straight, Ends
  <2> QED BY <2>2, <2>5, CallGoes DEF F, g
<1> QED BY <1>5, <1>6 DEF PauseResting

\* A paused task goes on.
LEMMA ResumeGoes ==
    ASSUME Inv, IOrd, NEW t \in Task, Resume(t)
    PROVE  Going
<1> DEFINE old == task[t]
           rec == [task[t] EXCEPT !.controlEpoch = @ + 1, !.pauseRequested = FALSE]
           waits == [rec EXCEPT !.status = "waiting_for_human"]
           polls == [rec EXCEPT !.status = "verifying"]
           anew == [rec EXCEPT !.status = "queued", !.waiting = 0, !.pendingResume = 0]
           again == [rec EXCEPT !.status = "queued"]
           F == FramesOf(frames, t)
           g == Frame("poll", t, rec.controlEpoch, FALSE, None)
<1>1. old \in TaskRecord /\ Ordered(old, F) /\ old.status = "paused"
  BY OrderedFacts DEF Resume
<1>2. ~Calm /\ (Stable => ~Over(old, F))
  BY <1>1 DEF Ordered, Sober, Settled
<1>3. /\ waits.status = "waiting_for_human" /\ waits.driver = old.driver
      /\ waits.waiting = old.waiting /\ waits.handedOver = old.handedOver
      /\ waits.pushed = old.pushed /\ Same(old, waits)
  BY <1>1 DEF TaskRecord, Same
<1>4. /\ polls.status = "verifying" /\ polls.driver = old.driver
      /\ polls.waiting = old.waiting /\ polls.handedOver = old.handedOver
      /\ polls.pushed = old.pushed /\ Same(old, polls)
  BY <1>1 DEF TaskRecord, Same
<1>5. /\ anew.status = "queued" /\ anew.driver = old.driver
      /\ anew.waiting = 0 /\ anew.handedOver = old.handedOver
      /\ anew.pushed = old.pushed /\ Same(old, anew)
  BY <1>1 DEF TaskRecord, Same
<1>6. /\ again.status = "queued" /\ again.driver = old.driver
      /\ again.waiting = old.waiting /\ again.handedOver = old.handedOver
      /\ again.pushed = old.pushed /\ Same(old, again)
  BY <1>1 DEF TaskRecord, Same
<1>7. /\ rec.paused_from = old.paused_from /\ rec.pushed = old.pushed
  BY <1>1 DEF TaskRecord
<1>8. \/ Write(t, waits) /\ UNCHANGED frames /\ old.waiting # 0
      \/ Write(t, polls) /\ Call("poll", t, rec.controlEpoch, None) /\ old.pushed
      \/ (Write(t, anew) \/ Write(t, again)) /\ UNCHANGED frames
  BY <1>7 DEF Resume
<1>9. g.kind = "poll"
  BY DEF Frame
<1> HIDE DEF waits, polls, anew, again, F, g, rec
<1>10. CASE Write(t, waits) /\ UNCHANGED frames /\ old.waiting # 0
  <2>1. Fresh(waits, F) /\ (Stable => ~Over(waits, F))
    BY <1>1, <1>2, <1>3, <1>10 DEF Ordered, Fresh, Same, Over
  <2>2. Passes(old, F, waits, F)
    BY <1>1, <1>2, <1>3, <2>1, UndonePasses DEF Straight, Ends
  <2> QED BY <1>10, <2>2, StillGoes DEF F
<1>11. CASE Write(t, polls) /\ Call("poll", t, rec.controlEpoch, None) /\ old.pushed
  <2>1. Fresh(polls, F \cup {g}) /\ (Stable => ~Over(polls, F \cup {g}))
    BY <1>1, <1>2, <1>4, <1>9, <1>11 DEF Ordered, Fresh, Same, Over
  <2>2. Passes(old, F, polls, F \cup {g})
    BY <1>1, <1>2, <1>4, <2>1, UndonePasses DEF Straight, Ends
  <2> QED BY <1>11, <2>2, CallGoes DEF F, g
<1>12. CASE Write(t, anew) /\ UNCHANGED frames
  <2>1. Fresh(anew, F) /\ (Stable => ~Over(anew, F))
    BY <1>1, <1>2, <1>5, <1>12 DEF Ordered, Fresh, Same, Over
  <2>2. Passes(old, F, anew, F)
    BY <1>1, <1>2, <1>5, <2>1, UndonePasses DEF Straight, Ends
  <2> QED BY <1>12, <2>2, StillGoes DEF F
<1>13. CASE Write(t, again) /\ UNCHANGED frames
  <2>1. Fresh(again, F) /\ (Stable => ~Over(again, F))
    BY <1>1, <1>2, <1>6, <1>13 DEF Ordered, Fresh, Same, Over
  <2>2. Passes(old, F, again, F)
    BY <1>1, <1>2, <1>6, <2>1, UndonePasses DEF Straight, Ends
  <2> QED BY <1>13, <2>2, StillGoes DEF F
<1> QED BY <1>8, <1>10, <1>11, <1>12, <1>13

LEMMA RetryGoes ==
    ASSUME Inv, IOrd, NEW t \in Task, Retry(t)
    PROVE  Going
<1> DEFINE old == task[t]
           again == [task[t] EXCEPT !.status = "queued"]
           verifies == [task[t] EXCEPT !.status = "verifying"]
           F == FramesOf(frames, t)
           g == Frame("deliver", t, task[t].controlEpoch, FALSE, None)
<1>1. old \in TaskRecord /\ Ordered(old, F) /\ old.status = "failed" /\ ~Straight
  BY OrderedFacts DEF Retry, Straight
<1>2. Stable => ~Over(old, F)
  BY <1>1 DEF Ordered, Settled
<1>3. /\ again.status = "queued" /\ again.driver = old.driver
      /\ again.pauseRequested = old.pauseRequested /\ again.waiting = old.waiting
      /\ again.handedOver = old.handedOver /\ again.pushed = old.pushed /\ Same(old, again)
  BY <1>1 DEF TaskRecord, Same
<1>4. /\ verifies.status = "verifying" /\ verifies.pauseRequested = old.pauseRequested
      /\ verifies.pushed = old.pushed /\ Same(old, verifies)
  BY <1>1 DEF TaskRecord, Same
<1>5. \/ Write(t, again) /\ UNCHANGED frames
      \/ Write(t, verifies) /\ Call("deliver", t, task[t].controlEpoch, None) /\ old.handedOver
  BY DEF Retry, Repair
<1>6. g.kind = "deliver"
  BY DEF Frame
<1> HIDE DEF again, verifies, F, g
<1>7. CASE Write(t, again) /\ UNCHANGED frames
  <2>1. Fresh(again, F) /\ (Stable => ~Over(again, F))
    BY <1>1, <1>2, <1>3 DEF Ordered, Fresh, Same, Over
  <2>2. Calm => Sober(again, F)
    BY <1>1, <1>3 DEF Ordered, Sober
  <2>3. Passes(old, F, again, F)
    BY <1>1, <1>2, <1>3, <2>1, <2>2, UndonePasses DEF Ends
  <2> QED BY <1>7, <2>3, StillGoes DEF F
<1>8. CASE Write(t, verifies) /\ Call("deliver", t, task[t].controlEpoch, None) /\ old.handedOver
  <2>1. Fresh(verifies, F \cup {g}) /\ (Stable => ~Over(verifies, F \cup {g}))
    BY <1>1, <1>2, <1>4, <1>6, <1>8 DEF Ordered, Fresh, Same, Over
  <2>2. Calm => Sober(verifies, F \cup {g})
    BY <1>1, <1>4, <1>6 DEF Ordered, Sober
  <2>3. Passes(old, F, verifies, F \cup {g})
    BY <1>1, <1>2, <1>4, <2>1, <2>2, UndonePasses DEF Ends
  <2> QED BY <1>8, <2>3, CallGoes DEF F, g
<1> QED BY <1>5, <1>7, <1>8

LEMMA InterruptGoes ==
    ASSUME Inv, IOrd, NEW t \in Task, Interrupt(t)
    PROVE  Going
<1> DEFINE old == task[t]
           new == [task[t] EXCEPT !.status = "queued", !.controlEpoch = @ + 1]
           F == FramesOf(frames, t)
<1>1. /\ old \in TaskRecord /\ Ordered(old, F) /\ "interrupt" \in Operations
      /\ old.status \in {"verifying", "failed"} /\ Write(t, new) /\ UNCHANGED frames
  BY OrderedFacts DEF Interrupt, May
<1>2. Stable => ~Over(old, F)
  BY <1>1 DEF Ordered, Settled, Stable
<1>3. /\ new.status = "queued" /\ new.driver = old.driver
      /\ new.pauseRequested = old.pauseRequested /\ new.waiting = old.waiting
      /\ new.handedOver = old.handedOver /\ new.pushed = old.pushed /\ Same(old, new)
  BY <1>1 DEF TaskRecord, Same
<1> HIDE DEF new, F
<1>4. Fresh(new, F) /\ (Stable => ~Over(new, F))
  BY <1>1, <1>2, <1>3 DEF Ordered, Fresh, Same, Over
<1>5. Calm => Sober(new, F)
  BY <1>1, <1>3 DEF Ordered, Sober
<1>6. ~Engaged(new, F)
  BY <1>3 DEF Engaged
<1>7. Passes(old, F, new, F)
  BY <1>1, <1>2, <1>3, <1>4, <1>5, <1>6, UndonePasses DEF Ends
<1> QED BY <1>1, <1>7, StillGoes DEF F

LEMMA DecideGoes ==
    ASSUME Inv, IOrd, NEW t \in Task, NEW answer, Decide(t, answer)
    PROVE  Going
<1> DEFINE old == task[t]
           c == task[t].waiting
           new == Answered(task[t], c)
           F == FramesOf(frames, t)
           kind == IF task[t].driver = "open" THEN "turn" ELSE "failing"
           g == Frame(kind, t, task[t].controlEpoch, FALSE, None)
<1>1. /\ old \in TaskRecord /\ Ordered(old, F) /\ old.status = "waiting_for_human"
      /\ Write(t, new)
      /\ \/ Call(kind, t, task[t].controlEpoch, None)
         \/ UNCHANGED frames
  BY OrderedFacts DEF Decide, Open
<1>2. /\ new.status \in {"running", "queued"}
      /\ new.pauseRequested = old.pauseRequested
      /\ new.pushed = old.pushed /\ Same(old, new)
  BY <1>1 DEF TaskRecord, Same, Answered
<1>3. (Stable => ~Over(old, F)) /\ old.started /\ Engaged(old, F)
  BY <1>1 DEF Ordered, Settled, Fresh, Engaged
<1>4. g.kind = kind
  BY DEF Frame
<1>5. kind \in {"turn", "failing"}
  OBVIOUS
<1> HIDE DEF new, F, g, kind
<1>6. CASE Call(kind, t, task[t].controlEpoch, None)
  <2>1. Fresh(new, F \cup {g}) /\ (Stable => ~Over(new, F \cup {g}))
    BY <1>1, <1>2, <1>3, <1>4, <1>5 DEF Ordered, Fresh, Same, Over
  <2>2. Calm => Sober(new, F \cup {g})
    BY <1>1, <1>2, <1>4, <1>5 DEF Ordered, Sober
  <2>3. Passes(old, F, new, F \cup {g})
    BY <1>1, <1>2, <1>3, <2>1, <2>2, UndonePasses DEF Ends
  <2> QED BY <1>1, <1>6, <2>3, CallGoes DEF F, g
<1>7. CASE UNCHANGED frames
  <2>1. Fresh(new, F) /\ (Stable => ~Over(new, F))
    BY <1>1, <1>2, <1>3 DEF Ordered, Fresh, Same, Over
  <2>2. Calm => Sober(new, F)
    BY <1>1, <1>2 DEF Ordered, Sober
  <2>3. Passes(old, F, new, F)
    BY <1>1, <1>2, <1>3, <2>1, <2>2, UndonePasses DEF Ends
  <2> QED BY <1>1, <1>7, <2>3, StillGoes DEF F
<1> QED BY <1>1, <1>6, <1>7

-----------------------------------------------------------------------------
\* Steps of all tasks.

LEMMA PumpRefreshGoes ==
    ASSUME Inv, IOrd, PumpRefresh
    PROVE  Going
<1> SUFFICES ASSUME NEW t \in Task
             PROVE  Passes(task[t], FramesOf(frames, t), task'[t], FramesOf(frames', t))
  BY DEF Going
<1> DEFINE old == task[t]
           new == [task[t] EXCEPT !.status = "failed"]
           F == FramesOf(frames, t)
<1>1. old \in TaskRecord /\ Ordered(old, F) /\ Fits(old, F) /\ FramesOf(frames', t) = F
  BY OrderedFacts DEF PumpRefresh
<1>2. CASE t \notin Hopeless
  <2>1. task'[t] = old
    BY <1>2 DEF PumpRefresh
  <2> QED BY <1>1, <2>1 DEF Passes, Same
<1>3. CASE t \in Hopeless
  <2>1. task'[t] = new /\ old.status = "queued"
    BY <1>3 DEF PumpRefresh, Hopeless
  <2>2. /\ new.status = "failed" /\ new.driver = old.driver
        /\ new.controlEpoch = old.controlEpoch
        /\ new.pauseRequested = old.pauseRequested /\ new.waiting = old.waiting
        /\ new.handedOver = old.handedOver /\ new.pushed = old.pushed /\ Same(old, new)
    BY <1>1 DEF TaskRecord, Same
  <2> HIDE DEF new, F
  <2>3. Stable => ~Over(old, F) /\ ~Over(new, F)
    BY <1>1, <2>1, <2>2 DEF Ordered, Settled, Over
  <2>4. Fresh(new, F)
    BY <1>1, <2>2 DEF Ordered, Fresh, Same
  <2>5. Calm => Sober(new, F)
    <3>1. \A f \in F : f.kind = "failing" => f.epoch # old.controlEpoch
      BY <1>1, <2>1 DEF Fits, Suits, Executor
    <3> QED BY <1>1, <2>2, <3>1 DEF Ordered, Sober
  <2>6. ~Engaged(new, F)
    BY <2>2 DEF Engaged
  <2>7. Passes(old, F, new, F)
    BY <1>1, <2>1, <2>2, <2>3, <2>4, <2>5, <2>6, UndonePasses DEF Ends
  <2> QED BY <1>1, <2>1, <2>7 DEF F
<1> QED BY <1>2, <1>3

\* What a restart makes of a task goes on from where it was, or is queued.
LEMMA RecoveredPasses ==
    ASSUME NEW rec \in TaskRecord, NEW F, Ordered(rec, F), NEW cards, NEW new,
           new = Recovered(rec, cards), NEW G,
           \A f \in G : f.kind = IF new.pushed THEN "poll" ELSE "deliver",
           G # {} => new.status = "verifying"
    PROVE  Passes(rec, F, new, G)
<1> DEFINE r == [rec EXCEPT !.controlEpoch = 0, !.driver = "none", !.pauseRequested = FALSE]
           queued == [r EXCEPT !.status = "queued"]
           paused == [r EXCEPT !.status = "paused", !.paused_from = "running", !.waiting = 0]
           answered == Answered(r, r.waiting)
<1>1. /\ r \in TaskRecord /\ r.status = rec.status /\ r.driver = "none"
      /\ ~r.pauseRequested /\ r.waiting = rec.waiting /\ r.pushed = rec.pushed
      /\ r.handedOver = rec.handedOver /\ Same(rec, r)
  <2>1. 0 \in 0..MaxEpoch
    BY BoundAssumption
  <2>2. r \in TaskRecord
    BY <2>1 DEF TaskRecord
  <2> QED BY <2>2 DEF TaskRecord, Same
<1>2. \/ rec.status \in {"running", "queued"} /\ new = queued
      \/ rec.status = "pausing" /\ new = paused
      \/ rec.status = "waiting_for_human" /\ new = answered
      \/ rec.status \notin {"running", "queued", "pausing"} /\ new = r
  BY <1>1, Zenon DEF Recovered
<1> HIDE DEF r
<1>3. /\ queued.status = "queued" /\ queued.driver = "none"
      /\ ~queued.pauseRequested /\ queued.waiting = rec.waiting /\ queued.pushed = rec.pushed
      /\ queued.handedOver = rec.handedOver /\ Same(rec, queued)
  BY <1>1 DEF TaskRecord, Same
<1>4. /\ paused.status = "paused" /\ paused.driver = "none"
      /\ ~paused.pauseRequested /\ paused.waiting = 0 /\ paused.pushed = rec.pushed
      /\ paused.handedOver = rec.handedOver /\ Same(rec, paused)
  BY <1>1 DEF TaskRecord, Same
<1>5. /\ answered.status = "queued" /\ answered.driver = "none"
      /\ ~answered.pauseRequested /\ answered.waiting = 0 /\ answered.pushed = rec.pushed
      /\ answered.handedOver = rec.handedOver /\ Same(rec, answered)
  BY <1>1 DEF TaskRecord, Same, Answered
<1> HIDE DEF queued, paused, answered
<1>6. /\ new.driver = "none" /\ ~new.pauseRequested /\ new.waiting \in {0, rec.waiting}
      /\ new.pushed = rec.pushed /\ new.handedOver = rec.handedOver /\ Same(rec, new)
      /\ \/ rec.status \in {"running", "queued", "waiting_for_human"} /\ new.status = "queued"
         \/ rec.status = "pausing" /\ new.status = "paused"
         \/ rec.status \notin {"running", "queued", "pausing"} /\ new.status = rec.status
  BY <1>1, <1>2, <1>3, <1>4, <1>5
<1>7. \A f \in G : f.kind \in {"poll", "deliver"}
  OBVIOUS
<1>8. Fresh(new, G)
  <2>1. CASE ~rec.started
    <3>1. /\ rec.status \in {"queued", "paused", "failed", "canceled"}
          /\ ~rec.pushed /\ ~rec.handedOver /\ rec.waiting = 0
      BY <2>1 DEF Ordered, Fresh
    <3>2. new.status \in {"queued", "paused", "failed", "canceled"}
      BY <1>6, <3>1
    <3> QED BY <1>6, <1>7, <3>1, <3>2 DEF Fresh
  <2>2. CASE rec.started
    BY <1>6, <1>7, <2>2 DEF Fresh, Same
  <2> QED BY <2>1, <2>2
<1>9. Stable => Settled(new, G)
  <2>1. Stable /\ new.status = "completed" => "merge" \in Operations
    BY <1>6 DEF Ordered, Settled, Over
  <2>2. Over(new, G) => new.status = "completed"
    BY <1>7 DEF Over
  <2>3. new.status = "completed" => G = {}
    OBVIOUS
  <2> QED BY <1>6, <2>1, <2>2, <2>3 DEF Settled
<1>10. Calm => Sober(new, G)
  <2>1. Calm => rec.status \notin {"pausing", "paused"}
    BY DEF Ordered, Sober
  <2>2. Calm => new.status \notin {"pausing", "paused"}
    BY <1>6, <2>1
  <2> QED BY <1>6, <1>7, <2>2 DEF Sober
<1>11. Engaged(new, G) => Engaged(rec, F)
  <2>1. new.pushed => \A f \in G : f.kind # "deliver"
    OBVIOUS
  <2> QED BY <1>6, <2>1 DEF Engaged
<1>12. Stable /\ rec.status \in Ends => new.status \in Ends
  BY <1>6 DEF Ends
<1> QED BY <1>6, <1>8, <1>9, <1>10, <1>11, <1>12 DEF Passes, Ordered

LEMMA RestartGoes ==
    ASSUME Inv, IOrd, NEW g, Restart(g)
    PROVE  Going
<1> SUFFICES ASSUME NEW t \in Task
             PROVE  Passes(task[t], FramesOf(frames, t), task'[t], FramesOf(frames', t))
  BY DEF Going
<1> DEFINE tasks == [u \in Task |-> Recovered(task[u], g[u])]
           G == FramesOf(frames', t)
<1>1. task' = tasks
  BY DEF Restart
<1>2. task'[t] = Recovered(task[t], g[t])
  BY <1>1
<1>3. frames' = {Frame(IF tasks[u].pushed THEN "poll" ELSE "deliver", u, 0, FALSE, None) :
                    u \in {x \in Task : tasks[x].status = "verifying"}}
  BY DEF Restart
<1> HIDE DEF tasks
<1>4. \A f \in G : /\ f.kind = IF task'[t].pushed THEN "poll" ELSE "deliver"
                   /\ task'[t].status = "verifying"
  BY <1>1, <1>3 DEF FramesOf, Frame
<1>5. task[t] \in TaskRecord /\ Ordered(task[t], FramesOf(frames, t))
  BY OrderedFacts
<1> HIDE DEF G
<1>6. Passes(task[t], FramesOf(frames, t), task'[t], G)
  BY <1>2, <1>4, <1>5, RecoveredPasses
<1> QED BY <1>6 DEF G

LEMMA CrashGoes ==
    ASSUME Inv, IOrd, Crash \/ \E t \in Task, answer \in Answer : CrashInDecide(t, answer)
    PROVE  Going
BY RestartGoes DEF Crash, CrashInDecide

-----------------------------------------------------------------------------
\* The queue.

\* The least of some numbers.
LEMMA LeastOne ==
    ASSUME NEW T, T \subseteq Nat, T # {}
    PROVE  Min(T) \in T /\ \A k \in T : Min(T) <= k
<1> DEFINE R == {ss \in Nat \X Nat : ss[1] < ss[2]}
<1>1. IsWellFoundedOn(R, Nat)
  BY NatLessThanWellFounded, Zenon DEF OpToRel
<1>2. \A k, m \in Nat : k < m => <<k, m>> \in R
  OBVIOUS
<1> HIDE DEF R
<1>3. PICK m \in T : \A k \in T : ~(<<k, m>> \in R)
  BY <1>1, WFMin
<1>4. \A k \in T : ~(k < m)
  BY <1>2, <1>3
<1>5. \A k \in T : m <= k
  BY <1>4
<1> QED BY <1>5 DEF Min

\* Whom the pump takes may go.
LEMMA FirstMayGo ==
    ASSUME FirstReady # 0
    PROVE  Ready(queue[FirstReady])
<1> DEFINE I == {i \in 1..Len(queue) : Ready(queue[i])}
<1>1. FirstReady = Min(I) /\ I # {}
  BY DEF FirstReady, SelectInSeq
<1>2. I \subseteq Nat
  OBVIOUS
<1>3. Min(I) \in I
  BY <1>1, <1>2, LeastOne
<1> QED BY <1>1, <1>3
-----------------------------------------------------------------------------
\* What holds of all tasks.

\* Whoever was started waits for nobody any more.
IAnc ==
    Stable => \A t \in Task : task[t].started =>
        \A a \in Ancestors(Blocking, t) : task[a].status \in Ends

Engages(t) == Engaged(task[t], FramesOf(frames, t))

\* No two tasks of one ticket are engaged.
ILone ==
    Straight => \A t, u \in Task :
        t # u /\ Engages(t) /\ Engages(u) => task[t].ticket # task[u].ticket

Ranked == IOrd /\ IAnc /\ ILone

LEMMA GoingRanked ==
    ASSUME Inv, Ranked, Going
    PROVE  Ranked'
<1>1. \A t \in Task :
        /\ Passes(task[t], FramesOf(frames, t), task'[t], FramesOf(frames', t))
        /\ Same(task[t], task'[t])
  BY DEF Going, Passes
<1>2. IOrd'
  BY <1>1 DEF IOrd, Passes, FramesOf
<1>3. IAnc'
  <2>1. \A t \in Task : task'[t].blocked_by = task[t].blocked_by
    BY <1>1 DEF Same
  <2>2. Blocking' = Blocking
    BY <2>1 DEF Blocking
  <2>3. \A t \in Task : Ancestors(Blocking, t)' = Ancestors(Blocking, t)
    BY <2>2 DEF Ancestors
  <2>4. \A t \in Task : Ancestors(Blocking, t) \subseteq Task
    BY DEF Ancestors
  <2>5. ASSUME Stable PROVE \A a \in Task : task[a].status \in Ends => task'[a].status \in Ends
    BY <1>1, <2>5 DEF Passes
  <2> QED BY <1>1, <2>3, <2>4, <2>5 DEF IAnc, Same, Ranked
<1>4. ILone'
  <2>1. ASSUME Straight
        PROVE  \A t \in Task : Engages(t)' => Engages(t)
    BY <1>1, <2>1 DEF Passes, Engages, FramesOf
  <2>2. \A t \in Task : task'[t].ticket = task[t].ticket
    BY <1>1 DEF Same
  <2> QED BY <2>1, <2>2 DEF ILone, Ranked
<1> QED BY <1>2, <1>3, <1>4 DEF Ranked

\* Who may go waits for nobody.
LEMMA DoneAncestors ==
    ASSUME Inv, Ranked, Stable, NEW t \in Task, DependenciesDone(t)
    PROVE  \A a \in Ancestors(Blocking, t) : a \in Task /\ task[a].status \in Ends
<1>1. Blocking \in Deps /\ Blocking[t] = task[t].blocked_by /\ Blocking[t] \subseteq Task
  BY CutFacts DEF Deps
<1>2. SUFFICES ASSUME NEW a \in Ancestors(Blocking, t)
               PROVE  task[a].status \in Ends
  BY <1>1, AncestorsClosed
<1>3. CASE a \in Blocking[t]
  BY <1>1, <1>3 DEF DependenciesDone, Completed, Ends
<1>4. CASE \E d \in Blocking[t] : a \in Ancestors(Blocking, d)
  <2>1. PICK d \in Blocking[t] : a \in Ancestors(Blocking, d)
    BY <1>4
  <2>2. d \in Task /\ task[d].status = "completed"
    BY <1>1 DEF DependenciesDone, Completed
  <2>3. task[d].started
    BY <2>2 DEF Ranked, IOrd, Ordered, Fresh
  <2> QED BY <2>1, <2>2, <2>3 DEF Ranked, IAnc
<1> QED BY <1>1, <1>3, <1>4, AncestorsOnly

\* Nor is anybody of its ticket engaged.
LEMMA ReadyAlone ==
    ASSUME Inv, Ranked, Straight, NEW t \in Task, task[t].status = "queued", Ready(t),
           NEW o \in Task, o # t, Engages(o)
    PROVE  task[o].ticket # task[t].ticket
<1>1. task[o].status \in {"running", "waiting_for_human", "verifying"}
  BY DEF Engages, Engaged
<1>2. task[o].started
  BY <1>1 DEF Ranked, IOrd, Ordered, Fresh
<1>3. Stable
  BY DEF Straight
<1>4. o \notin Ancestors(Blocking, t)
  BY <1>1, <1>3, DoneAncestors DEF Ready, Ends
<1>5. t \notin Ancestors(Blocking, o)
  BY <1>2, <1>3 DEF Ranked, IAnc, Ends
<1>6. Worker(t) /\ Worker(o) /\ ~Completed(o) /\ task[o].status # "queued"
  BY <1>1 DEF Worker, Completed
<1>7. o \notin TicketConflicts(t)
  BY DEF Ready
<1> QED BY <1>4, <1>5, <1>6, <1>7 DEF TicketConflicts

\* The pump starts one that may go.
LEMMA PumpStartRanked ==
    ASSUME Inv, Ranked, PumpStart
    PROVE  Ranked'
<1> DEFINE t == queue[FirstReady]
           old == task[t]
           new == [task[t] EXCEPT !.status = "running", !.started = TRUE]
           F == FramesOf(frames, t)
           g == Frame("launch", t, task[t].controlEpoch, TRUE, None)
<1>1. CASE UNCHANGED <<task, frames>>
  <2>1. Going
    BY <1>1 DEF Going, Ranked, IOrd, Passes, Same
  <2> QED BY <2>1, GoingRanked
<1>2. CASE /\ t \in Task /\ old.status = "queued" /\ Write(t, new)
           /\ frames' = frames \cup {g}
  <2>1. Ready(t)
    BY FirstMayGo DEF PumpStart
  <2>2. old \in TaskRecord /\ Ordered(old, F)
    BY <1>2, OrderedFacts DEF Ranked
  <2>3. /\ new.status = "running" /\ new.started /\ new.blocked_by = old.blocked_by
        /\ new.ticket = old.ticket /\ new.pauseRequested = old.pauseRequested
        /\ new.pushed = old.pushed
    BY <2>2 DEF TaskRecord
  <2>4. g.kind = "launch" /\ g.task = t
    BY DEF Frame
  <2>5. task'[t] = new /\ \A u \in Task \ {t} : task'[u] = task[u]
    BY <1>2 DEF Write, Inv, Typed
  <2>6. frames' = frames \cup {g}
    BY <1>2
  <2>7. t \in Task /\ old.status = "queued"
    BY <1>2
  <2> HIDE DEF g, new, t
  <2>8. /\ FramesOf(frames', t) = F \cup {g}
        /\ \A u \in Task \ {t} : FramesOf(frames', u) = FramesOf(frames, u)
    BY <2>4, <2>6 DEF FramesOf
  <2> HIDE DEF F
  <2>9. Ordered(new, F \cup {g})
    <3>1. Fresh(new, F \cup {g})
      BY <2>2, <2>3, <2>4 DEF Ordered, Fresh
    <3>2. Stable => ~Over(new, F \cup {g})
      BY <2>2, <2>3, <2>4, <2>7 DEF Ordered, Settled, Over
    <3>3. Calm => Sober(new, F \cup {g})
      BY <2>2, <2>3, <2>4 DEF Ordered, Sober
    <3> QED BY <3>1, <3>2, <3>3 DEF Ordered, Settled
  <2>10. IOrd'
    <3>1. \A u \in Task : Ordered(task'[u], FramesOf(frames', u))
      BY <2>5, <2>8, <2>9 DEF Ranked, IOrd
    <3> QED BY <3>1 DEF IOrd, FramesOf
  <2>11. \A u \in Task : Ancestors(Blocking, u)' = Ancestors(Blocking, u)
    <3>1. \A u \in Task : task'[u].blocked_by = task[u].blocked_by
      BY <2>3, <2>5
    <3>2. Blocking' = Blocking
      BY <3>1 DEF Blocking
    <3> QED BY <3>2 DEF Ancestors
  <2>12. ASSUME Stable, NEW u \in Task, task'[u].started, NEW a \in Ancestors(Blocking, u)
         PROVE  task'[a].status \in Ends
    <3>1. a \in Task
      BY <2>12 DEF Ancestors
    <3>2. task[a].status \in Ends
      <4>1. CASE u = t
        BY <2>1, <2>12, <2>7, <4>1, DoneAncestors DEF Ready
      <4>2. CASE u # t
        BY <2>5, <2>12, <4>2 DEF Ranked, IAnc
      <4> QED BY <4>1, <4>2
    <3>3. a # t
      BY <2>7, <3>2 DEF Ends
    <3> QED BY <2>5, <3>1, <3>2, <3>3
  <2>13. IAnc'
    BY <2>11, <2>12 DEF IAnc
  <2>14. \A u \in Task \ {t} : Engages(u)' => Engages(u)
    BY <2>5, <2>8 DEF Engages, FramesOf
  <2>15. \A u \in Task : task'[u].ticket = task[u].ticket
    BY <2>3, <2>5
  <2>16. ASSUME Straight, NEW u \in Task \ {t}, Engages(u) PROVE task[u].ticket # task[t].ticket
    BY <2>1, <2>7, <2>16, ReadyAlone
  <2>17. ILone'
    <3> SUFFICES ASSUME Straight, NEW u \in Task, NEW v \in Task, u # v,
                        Engages(u)', Engages(v)'
                 PROVE  task'[u].ticket # task'[v].ticket
      BY DEF ILone
    <3>1. CASE u = t
      BY <2>14, <2>15, <2>16, <3>1
    <3>2. CASE v = t
      BY <2>14, <2>15, <2>16, <3>2
    <3>3. CASE u # t /\ v # t
      BY <2>14, <2>15, <3>3 DEF Ranked, ILone
    <3> QED BY <3>1, <3>2, <3>3
  <2> QED BY <2>10, <2>13, <2>17 DEF Ranked
<1> QED BY <1>1, <1>2 DEF PumpStart

\* An early start is one of a task that waits, and takes waits away.
LEMMA StartEarlyRanked ==
    ASSUME Inv, Ranked, StartEarly
    PROVE  Ranked'
<1>1. CASE accepted' = accepted
  <2>1. UNCHANGED <<task, frames>>
    BY <1>1 DEF StartEarly
  <2>2. Going
    BY <2>1 DEF Going, Ranked, IOrd, Passes, Same
  <2> QED BY <2>2, GoingRanked
<1>2. CASE accepted' # accepted
  <2> DEFINE t == view.task
             cut == Cut(t, view.release_ids)
             new == [task[t] EXCEPT !.blocked_by = @ \ view.release_ids, !.ticket = view.ticket]
  <2>1. /\ t \in Task /\ view.available
        /\ view = Preview(t, view.release_ids, view.ticket)
        /\ task' = [task EXCEPT ![t] = new]
        /\ Blocking' = cut
    BY <1>2, StartedEarly
  <2>2. task[t].status = "queued"
    <3>1. Preview(t, view.release_ids, view.ticket).available
            => task[t].status = "queued" /\ Pristine(t)
      BY DEF Preview
    <3> QED BY <2>1, <3>1
  <2>3. task[t] \in TaskRecord /\ task \in [Task -> TaskRecord]
    BY <2>1 DEF Inv, Typed
  <2>4. /\ new.status = task[t].status /\ new.controlEpoch = task[t].controlEpoch
        /\ new.pauseRequested = task[t].pauseRequested /\ new.driver = task[t].driver
        /\ new.started = task[t].started /\ new.pushed = task[t].pushed
        /\ new.handedOver = task[t].handedOver /\ new.waiting = task[t].waiting
    BY <2>3 DEF TaskRecord
  <2>5. task'[t] = new /\ \A u \in Task \ {t} : task'[u] = task[u]
    BY <2>1, <2>3
  <2>6. Blocking \in Deps /\ cut \in Deps /\ \A x \in Task : cut[x] \subseteq Blocking[x]
    BY <2>1, CutFacts
  <2> HIDE DEF new, t, cut
  <2>7. frames' = frames
    BY DEF StartEarly
  <2>8. Ordered(new, FramesOf(frames, t))
    BY <2>1, <2>4 DEF Ranked, IOrd, Ordered, Fresh, Settled, Over, Sober
  <2>9. IOrd'
    <3>1. \A u \in Task : Ordered(task'[u], FramesOf(frames, u))
      BY <2>5, <2>8 DEF Ranked, IOrd
    <3> QED BY <2>7, <3>1 DEF IOrd, FramesOf
  <2>10. \A u \in Task : task'[u].status = task[u].status /\ task'[u].started = task[u].started
    BY <2>4, <2>5
  <2>11. \A u \in Task : Ancestors(Blocking, u)' \subseteq Ancestors(Blocking, u)
    <3>1. \A u \in Task : Ancestors(cut, u) \subseteq Ancestors(Blocking, u)
      BY <2>6, AncestorsFewer
    <3>2. \A u \in Task : Ancestors(Blocking, u)' = Ancestors(cut, u)
      BY <2>1 DEF Ancestors
    <3> QED BY <3>1, <3>2
  <2>12. \A u \in Task : Ancestors(Blocking, u) \subseteq Task
    BY DEF Ancestors
  <2>13. IAnc'
    BY <2>10, <2>11, <2>12 DEF IAnc, Ranked
  <2>14. ~Engaged(new, FramesOf(frames, t))
    BY <2>2, <2>4 DEF Engaged
  <2>15. \A u \in Task : Engages(u)' => u # t /\ Engages(u)
    BY <2>5, <2>7, <2>14 DEF Engages, FramesOf
  <2>16. ILone'
    BY <2>5, <2>15 DEF ILone, Ranked
  <2> QED BY <2>9, <2>13, <2>16 DEF Ranked
<1> QED BY <1>1, <1>2

LEMMA InitRanked == Init => Ranked
<1> SUFFICES ASSUME Init PROVE Ranked
  OBVIOUS
<1>1. PICK plan \in Plans :
        task = [t \in Task |-> NewTask(plan[t].blocked_by, plan[t].ticket)]
  BY DEF Init
<1>2. \A t \in Task :
        /\ task[t].status = "queued" /\ ~task[t].started /\ task[t].driver = "none"
        /\ ~task[t].pushed /\ ~task[t].handedOver /\ task[t].waiting = 0
        /\ ~task[t].pauseRequested /\ FramesOf(frames, t) = {}
  BY <1>1 DEF NewTask, Init, FramesOf
<1>3. ASSUME NEW t \in Task PROVE Ordered(task[t], {})
  <2>1. Fresh(task[t], {})
    BY <1>2 DEF Fresh
  <2>2. Settled(task[t], {})
    BY <1>2 DEF Settled, Over
  <2>3. Sober(task[t], {})
    BY <1>2 DEF Sober
  <2> QED BY <2>1, <2>2, <2>3 DEF Ordered
<1>4. IOrd
  BY <1>2, <1>3 DEF IOrd
<1>5. IAnc
  BY <1>2 DEF IAnc
<1>6. ILone
  BY <1>2 DEF ILone, Engages, Engaged
<1> QED BY <1>4, <1>5, <1>6 DEF Ranked

\* Every step is one that starts nobody, a start by the pump or an early start.
LEMMA NextGoes ==
    ASSUME Inv, IOrd, [Next]_vars
    PROVE  Going \/ PumpStart \/ StartEarly
<1>2. ASSUME UNCHANGED <<task, frames>> PROVE Going
  BY <1>2 DEF Going, IOrd, Passes, Same
<1>3. CASE Pump
  BY <1>2, <1>3, PumpRefreshGoes DEF Pump, PumpRest
<1>4. ASSUME NEW f \in frames, Settle(f) PROVE Going
  BY <1>4, LaunchReadyGoes, LaunchFailsGoes, TurnStaleGoes, TurnAsksGoes,
     TurnFinishesGoes, TurnDiesGoes, FailingEndsGoes, PauseEndsGoes, MergeEndsGoes,
     CancelAnsweredGoes, CancelFindsMergeGoes
  DEF Settle
<1>5. ASSUME NEW f \in frames, Deliver(f) PROVE Going
  BY <1>5, TurnStaleGoes, DeliversGoes, DeliveryHeldGoes, NeedsRepairGoes DEF Deliver
<1>6. ASSUME NEW t \in Task, Control(t) \/ Released(t) PROVE Going
  BY <1>2, <1>6, PauseRunningGoes, PauseRestingGoes, ResumeGoes, CancelGoes, RetryGoes,
     InterruptGoes, MergeSeenGoes, ReleasedGoes
  DEF Control, PreviewStart
<1>7. ASSUME NEW t \in Task, NEW answer \in Answer, Decide(t, answer) \/ CrashInDecide(t, answer)
      PROVE  Going
  BY <1>7, DecideGoes, CrashGoes
<1>8. CASE Crash
  BY <1>8, CrashGoes
<1>9. CASE UNCHANGED vars
  BY <1>2, <1>9 DEF vars
<1> QED BY <1>3, <1>4, <1>5, <1>6, <1>7, <1>8, <1>9 DEF Next

\* Every step keeps the ranks.
LEMMA NextRanked ==
    ASSUME Inv, Ranked, [Next]_vars
    PROVE  Ranked'
<1>1. Going \/ PumpStart \/ StartEarly
  BY NextGoes DEF Ranked
<1> QED BY <1>1, GoingRanked, PumpStartRanked, StartEarlyRanked

LEMMA AlwaysRanked == Spec => [](Inv /\ Ranked)
<1>1. Inv /\ Ranked /\ [Next]_vars => (Inv /\ Ranked)'
  BY NextInv, NextRanked
<1> QED BY <1>1, InitInv, InitRanked, PTL DEF Spec

-----------------------------------------------------------------------------
\* One executor of a ticket.

\* Whoever executes goes on without the pump.
LEMMA ExecutingEngages ==
    ASSUME Inv, Ranked, Straight, NEW t \in Task, Executing(t)
    PROVE  Engages(t)
<1> DEFINE rec == task[t]
           F == FramesOf(frames, t)
<1>1. rec \in TaskRecord /\ Fits(rec, F)
  BY DEF Inv, Typed
<1>2. Settled(rec, F) /\ Sober(rec, F)
  BY DEF Ranked, IOrd, Ordered, Straight
<1>3. rec.status \in Status
  BY <1>1 DEF TaskRecord
<1>4. rec.status \notin {"pausing", "paused"}
  BY <1>2 DEF Sober
<1>5. CASE rec.driver = "open"
  <2>1. rec.status \notin {"queued", "failed", "verifying", "canceled"}
    BY <1>1, <1>5 DEF Fits, Rests
  <2>2. rec.status # "completed"
    BY <1>2, <1>5 DEF Settled, Over
  <2>3. rec.status \in {"running", "waiting_for_human"}
    BY <1>3, <1>4, <2>1, <2>2 DEF Status
  <2> QED BY <2>3 DEF Engages, Engaged
<1>6. CASE \E f \in frames : f.task = t /\ f.kind \in Working /\ Current(f)
  <2>1. PICK f \in F : f.kind \in Working /\ f.epoch = rec.controlEpoch
    BY <1>6 DEF FramesOf, Current
  <2>2. f.kind \in Executor
    BY <2>1 DEF Working, Executor
  <2>3. Suits(f.kind, rec)
    BY <1>1, <2>1, <2>2 DEF Fits
  <2>4. rec.status # "completed"
    BY <1>2, <2>1, <2>2 DEF Settled, Over
  <2>5. CASE f.kind = "deliver"
    <3>1. rec.status = "verifying"
      BY <2>3, <2>4, <2>5 DEF Suits
    <3> QED BY <2>1, <2>5, <3>1 DEF Engages, Engaged
  <2>6. CASE f.kind = "failing"
    <3>1. rec.status # "failed"
      BY <1>2, <2>1, <2>6 DEF Sober
    <3>2. rec.status = "running"
      BY <1>4, <2>3, <2>4, <2>6, <3>1 DEF Suits
    <3> QED BY <3>2 DEF Engages, Engaged
  <2>7. CASE f.kind \in {"launch", "turn"}
    <3>1. rec.status = "running"
      BY <1>4, <2>3, <2>4, <2>7 DEF Suits
    <3> QED BY <3>1 DEF Engages, Engaged
  <2> QED BY <2>1, <2>5, <2>6, <2>7 DEF Working
<1> QED BY <1>5, <1>6 DEF Executing

\* "Only one executor at a time per ticket" (concurrentTicketConflict), while
\* tasks are neither paused nor retried, and none is taken back from a merge:
\* whom the pump starts has nobody of its ticket at work beside it, and
\* nobody comes to be at work again without the pump.
THEOREM TicketsApart == ASSUME Straight PROVE Spec => []SameTicketApart
<1>1. ASSUME Inv, Ranked PROVE SameTicketApart
  <2>1. ILone
    BY <1>1 DEF Ranked
  <2> QED BY <1>1, <2>1, ExecutingEngages DEF SameTicketApart, ILone
<1>2. Inv /\ Ranked => SameTicketApart
  BY <1>1
<1> QED BY <1>2, AlwaysRanked, PTL
-----------------------------------------------------------------------------
\* Nobody waits for each other.

LEMMA PositionNat ==
    ASSUME NEW t
    PROVE  Position(t) \in Nat
<1> DEFINE I == {i \in 1..Len(queue) : queue[i] = t}
<1>1. Position(t) = IF I = {} THEN 0 ELSE Min(I)
  BY DEF Position, SelectInSeq
<1>2. I \subseteq Nat
  OBVIOUS
<1> HIDE DEF I
<1>3. CASE I = {}
  <2>1. Position(t) = 0
    BY <1>1, <1>3
  <2> QED BY <2>1
<1>4. CASE I # {}
  <2>1. Min(I) \in I
    BY <1>2, <1>4, LeastOne
  <2>2. Position(t) = Min(I)
    BY <1>1, <1>4
  <2> QED BY <1>2, <2>1, <2>2
<1> QED BY <1>3, <1>4

\* A worker that is not queued was started.
LEMMA WorkerStarted ==
    ASSUME Inv, Ranked, Calm, NEW p \in Task, Worker(p), task[p].status # "queued"
    PROVE  task[p].started
<1>1. Fresh(task[p], FramesOf(frames, p)) /\ Sober(task[p], FramesOf(frames, p))
  BY DEF Ranked, IOrd, Ordered
<1> QED BY <1>1 DEF Fresh, Sober, Worker

LEMMA ConflictFacts ==
    ASSUME NEW t, NEW o \in TicketConflicts(t)
    PROVE  /\ Worker(t) /\ o \in Task \ {t} /\ Worker(o) /\ ~Completed(o)
           /\ task[o].ticket = task[t].ticket
           /\ \/ task[o].status # "queued"
              \/ /\ DependenciesDone(o) /\ Position(o) # 0
                 /\ Position(o) < Position(t)
<1>1. Worker(t)
  BY DEF TicketConflicts
<1>2. o \in {x \in Task \ {t} :
              /\ Worker(x) /\ ~Completed(x)
              /\ task[x].ticket = task[t].ticket
              /\ x \notin Ancestors(Blocking, t)
              /\ t \notin Ancestors(Blocking, x)
              /\ \/ task[x].status # "queued"
                 \/ /\ DependenciesDone(x)
                    /\ Position(x) # 0
                    /\ Position(x) < Position(t)}
  BY <1>1, Zenon DEF TicketConflicts
<1> QED BY <1>1, <1>2

\* The first of those a task waits for waits for nobody, or for somebody the
\* task waits for too.
LEMMA FirstConflict ==
    ASSUME Inv, Ranked, Stable, Calm,
           NEW t \in Task, task[t].status = "queued", DependenciesDone(t),
           NEW o \in TicketConflicts(t), task[o].status = "queued",
           NEW p \in TicketConflicts(o)
    PROVE  /\ p \in TicketConflicts(t)
           /\ task[p].status = "queued" => Position(p) < Position(o)
<1>1. /\ Worker(t) /\ o \in Task \ {t} /\ Worker(o) /\ task[o].ticket = task[t].ticket
      /\ Position(o) # 0 /\ Position(o) < Position(t)
  BY ConflictFacts
<1>2. /\ p \in Task \ {o} /\ Worker(p) /\ ~Completed(p)
      /\ task[p].ticket = task[o].ticket
      /\ \/ task[p].status # "queued"
         \/ /\ DependenciesDone(p) /\ Position(p) # 0
            /\ Position(p) < Position(o)
  BY ConflictFacts
<1>3. Position(p) \in Nat /\ Position(o) \in Nat /\ Position(t) \in Nat
  BY PositionNat
<1>4. p # t
  BY <1>1, <1>2, <1>3
<1>5. p \notin Ancestors(Blocking, t)
  BY <1>2, DoneAncestors DEF Ends, Worker, Completed
<1>6. t \notin Ancestors(Blocking, p)
  <2>1. CASE task[p].status = "queued"
    BY <1>2, <2>1, DoneAncestors DEF Ends
  <2>2. CASE task[p].status # "queued"
    BY <1>2, <2>2, WorkerStarted DEF Ranked, IAnc, Ends
  <2> QED BY <2>1, <2>2
<1>7. task[p].status = "queued"
        => DependenciesDone(p) /\ Position(p) # 0 /\ Position(p) < Position(t)
  BY <1>1, <1>2, <1>3
<1> QED BY <1>1, <1>2, <1>4, <1>5, <1>6, <1>7 DEF TicketConflicts

LEMMA FirstGoes ==
    ASSUME Inv, Ranked, Stable, Calm,
           NEW t \in Task, task[t].status = "queued", DependenciesDone(t), ~Ready(t)
    PROVE  \E o \in TicketConflicts(t) : task[o].status # "queued" \/ Ready(o)
<1> SUFFICES ASSUME \A o \in TicketConflicts(t) : task[o].status = "queued"
             PROVE  \E o \in TicketConflicts(t) : Ready(o)
  OBVIOUS
<1> DEFINE P == {Position(o) : o \in TicketConflicts(t)}
<1>1. P \subseteq Nat /\ P # {}
  BY PositionNat DEF Ready
<1> HIDE DEF P
<1>2. Min(P) \in P /\ \A k \in P : Min(P) <= k
  BY <1>1, LeastOne
<1>3. PICK o \in TicketConflicts(t) : \A p \in TicketConflicts(t) : Position(o) <= Position(p)
  BY <1>2 DEF P
<1>4. DependenciesDone(o)
  BY DEF TicketConflicts
<1>5. ASSUME NEW p \in TicketConflicts(o) PROVE FALSE
  <2>1. p \in TicketConflicts(t) /\ Position(p) < Position(o)
    BY <1>5, FirstConflict
  <2> QED BY <1>3, <2>1, PositionNat
<1> QED BY <1>4, <1>5 DEF Ready

\* Queued tasks never wait only for each other (concurrentTicketConflict),
\* while nobody is paused and none is taken back from a merge: the order of
\* the queue decides between those of one ticket that wait for nobody else.
THEOREM SomeoneMayGo == ASSUME Stable, Calm PROVE Spec => []SomeoneGoesFirst
<1>1. ASSUME Inv, Ranked PROVE SomeoneGoesFirst
  BY <1>1, FirstGoes DEF SomeoneGoesFirst
<1>2. Inv /\ Ranked => SomeoneGoesFirst
  BY <1>1
<1> QED BY <1>2, AlwaysRanked, PTL
-----------------------------------------------------------------------------
\* Who becomes a neighbour of whom.

LEMMA AncestorsNext ==
    ASSUME \A t \in Task : task'[t].blocked_by = task[t].blocked_by
    PROVE  \A t \in Task : Ancestors(Blocking, t)' = Ancestors(Blocking, t)
<1>1. Blocking' = Blocking
  BY DEF Blocking
<1> QED BY <1>1 DEF Ancestors

\* Nobody by a step that leaves dependencies and tickets alone and takes
\* nothing back.
LEMMA BesideBefore ==
    ASSUME NEW t \in Task, NEW u \in Task, Worker(t), Worker(u), Beside(t, u)',
           \A x \in Task : /\ task'[x].blocked_by = task[x].blocked_by
                           /\ task'[x].ticket = task[x].ticket
                           /\ task[x].status = "completed" => task'[x].status \in Ends
    PROVE  Beside(t, u)
<1>1. /\ Ancestors(Blocking, t)' = Ancestors(Blocking, t)
      /\ Ancestors(Blocking, u)' = Ancestors(Blocking, u)
  BY AncestorsNext
<1>2. ~Completed(t) /\ ~Completed(u)
  BY DEF Beside, Completed, Worker, Ends
<1> QED BY <1>1, <1>2 DEF Beside

\* A confirmed early start whose preview showed no error: none that does
\* not wait for the other any more is a worker of the same ticket.
LEMMA EarlyApart ==
    ASSUME Inv, StartEarly, accepted' # accepted,
           NEW t \in Task, NEW u \in Task \ {t}, Worker(t), Worker(u), Beside(t, u)'
    PROVE  /\ t # view.task /\ u # view.task
           /\ ~Completed(t) /\ ~Completed(u) /\ task[t].ticket = task[u].ticket
           /\ t \notin Ancestors(Blocking, u)
<1> DEFINE o == view.task
           cut == Cut(o, view.release_ids)
           new == [task[o] EXCEPT !.blocked_by = @ \ view.release_ids, !.ticket = view.ticket]
<1>1. /\ o \in Task /\ ~view.errors
      /\ view = Preview(o, view.release_ids, view.ticket)
      /\ task' = [task EXCEPT ![o] = new]
      /\ Blocking' = cut
  BY StartedEarly
<1>2. task \in [Task -> TaskRecord] /\ task[o] \in TaskRecord
  BY <1>1 DEF Inv, Typed
<1>3. new.status = task[o].status /\ new.ticket = view.ticket
  BY <1>2 DEF TaskRecord
<1>4. /\ \A x \in Task : task'[x].status = task[x].status
      /\ \A x \in Task \ {o} : task'[x].ticket = task[x].ticket
      /\ task'[o].ticket = view.ticket
  BY <1>1, <1>2, <1>3
<1> HIDE DEF new
<1>5. ~Completed(t) /\ ~Completed(u)
  BY <1>4 DEF Beside, Completed
<1>6. task'[t].ticket = task'[u].ticket
  BY DEF Beside
<1>7. t \notin Ancestors(cut, u) /\ u \notin Ancestors(cut, t)
  BY <1>1 DEF Beside, Ancestors
<1>8. /\ \A x \in Parallel(o, cut) : task[x].ticket # view.ticket
      /\ \A d \in Downstream(o, cut) : d.conflicts = {}
  <2>1. Preview(o, view.release_ids, view.ticket).errors =
          \/ view.release_ids = {}
          \/ \E x \in Parallel(o, cut) : task[x].ticket = view.ticket
          \/ \E d \in Downstream(o, cut) : d.conflicts # {}
    BY DEF Preview
  <2> QED BY <1>1, <2>1
<1>9. t # o
  BY <1>1, <1>4, <1>5, <1>6, <1>7, <1>8 DEF Parallel
<1>10. u # o
  BY <1>1, <1>4, <1>5, <1>6, <1>7, <1>8 DEF Parallel
<1>11. task[t].ticket = task[u].ticket
  BY <1>4, <1>6, <1>9, <1>10
<1>12. ASSUME t \in Ancestors(Blocking, u) PROVE FALSE
  <2>1. Blocking \in Deps /\ cut \in Deps /\ \A x \in Task \ {o} : cut[x] = Blocking[x]
    BY <1>1, CutFacts
  <2>2. t \in Lost(u, cut)
    BY <1>5, <1>7, <1>12 DEF Lost, Pending
  <2>3. o \in Ancestors(Blocking, u)
    <3> SUFFICES ASSUME o \notin Ancestors(Blocking, u) PROVE FALSE
      OBVIOUS
    <3>1. Ancestors(Blocking, u) \subseteq Ancestors(cut, u)
      BY <1>1, <1>10, <2>1, AncestorsElsewhere
    <3> QED BY <1>7, <1>12, <3>1
  <2> DEFINE d == [follower |-> u, lost |-> Lost(u, cut),
                   conflicts |-> {p \in Lost(u, cut) :
                       /\ Worker(p) /\ task[p].ticket = task[u].ticket
                       /\ u \notin Ancestors(cut, p)}]
  <2>4. u \in {x \in Task \ {o} : /\ Worker(x) /\ ~Completed(x)
                                  /\ o \in Ancestors(Blocking, x)
                                  /\ Lost(x, cut) # {}}
    BY <1>5, <1>10, <2>2, <2>3
  <2>5. d \in Downstream(o, cut)
    BY <2>4, Zenon DEF Downstream
  <2>6. t \in d.conflicts
    BY <1>7, <1>11, <2>2
  <2> QED BY <1>8, <2>5, <2>6
<1> QED BY <1>5, <1>9, <1>10, <1>11, <1>12

\* The step of an early start.
LEMMA EarlyBeside ==
    ASSUME Inv, StartEarly,
           NEW t \in Task, NEW u \in Task \ {t}, Worker(t), Worker(u), Beside(t, u)'
    PROVE  Beside(t, u)
<1>1. CASE accepted' = accepted
  <2>1. task' = task
    BY <1>1 DEF StartEarly
  <2> QED BY <2>1, BesideBefore DEF Ends
<1>2. CASE accepted' # accepted
  <2>1. Beside(u, t)'
    BY DEF Beside
  <2>2. /\ ~Completed(t) /\ ~Completed(u) /\ task[t].ticket = task[u].ticket
        /\ t \notin Ancestors(Blocking, u)
    BY <1>2, EarlyApart
  <2>3. u \notin Ancestors(Blocking, t)
    BY <1>2, <2>1, EarlyApart
  <2> QED BY <2>2, <2>3 DEF Beside
<1> QED BY <1>1, <1>2

\* The step of the pump.
LEMMA StartBeside ==
    ASSUME Inv, PumpStart,
           NEW t \in Task, NEW u \in Task, Worker(t), Worker(u), Beside(t, u)'
    PROVE  Beside(t, u)
<1> DEFINE o == queue[FirstReady]
           new == [task[o] EXCEPT !.status = "running", !.started = TRUE]
<1>1. CASE task' = task
  BY <1>1, BesideBefore DEF Ends
<1>2. CASE o \in Task /\ task[o].status = "queued" /\ Write(o, new)
  <2>1. task \in [Task -> TaskRecord] /\ task[o] \in TaskRecord
    BY <1>2 DEF Inv, Typed
  <2>2. new.blocked_by = task[o].blocked_by /\ new.ticket = task[o].ticket
    BY <2>1 DEF TaskRecord
  <2>3. task'[o] = new /\ \A x \in Task \ {o} : task'[x] = task[x]
    BY <1>2, <2>1 DEF Write
  <2> HIDE DEF new
  <2>4. task[o].status # "completed"
    BY <1>2
  <2> HIDE DEF o
  <2>5. \A x \in Task : /\ task'[x].blocked_by = task[x].blocked_by
                        /\ task'[x].ticket = task[x].ticket
                        /\ task[x].status = "completed" => task'[x].status \in Ends
    BY <2>2, <2>3, <2>4 DEF Ends
  <2> QED BY <2>5, BesideBefore
<1> QED BY <1>1, <1>2 DEF PumpStart

\* Two workers of one ticket of which one waits for the other, or that have
\* different tickets, never become neighbours, by an early start
\* (earlyStartPreview) or otherwise, while none is taken back from a merge.
THEOREM OrderKept == ASSUME Stable PROVE Spec => TicketOrderKept
<1>1. ASSUME Inv, Ranked, [Next]_vars,
             NEW t \in Task, NEW u \in Task, t # u, Beside(t, u)', Worker(t), Worker(u)
      PROVE  Beside(t, u)
  <2>1. Going \/ PumpStart \/ StartEarly
    BY <1>1, NextGoes DEF Ranked
  <2>2. CASE Going
    <3>1. \A x \in Task : Same(task[x], task'[x])
                          /\ (task[x].status \in Ends => task'[x].status \in Ends)
      BY <2>2 DEF Going, Passes
    <3>2. \A x \in Task : /\ task'[x].blocked_by = task[x].blocked_by
                          /\ task'[x].ticket = task[x].ticket
                          /\ task[x].status = "completed" => task'[x].status \in Ends
      BY <3>1 DEF Same, Ends
    <3> QED BY <1>1, <3>2, BesideBefore
  <2> QED BY <1>1, <2>1, <2>2, StartBeside, EarlyBeside
<1>2. Inv /\ Ranked /\ [Next]_vars =>
        \A t, u \in Task :
            (/\ t # u /\ Beside(t, u)'
             /\ Worker(t) /\ Worker(u))
            => Beside(t, u)
  BY <1>1
<1> QED BY <1>2, AlwaysRanked, PTL DEF Spec, TicketOrderKept
=============================================================================
