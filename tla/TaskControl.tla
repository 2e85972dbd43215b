---------------------------- MODULE TaskControl ----------------------------
(***************************************************************************)
(* The task service's scheduler and controls (src/src/taskService.ts): the *)
(* pump that hands a bounded number of slots to queued tasks, the sessions *)
(* it launches, the cards they raise and the decisions that answer them,   *)
(* pause, resume, cancel, retry, interruption, early start, merge, and the *)
(* recovery of all that after a crash.                                     *)
(*                                                                         *)
(* The service is one event loop.  What a handler does between two awaits  *)
(* is one step; the rest of it waits in `frames`, one record per           *)
(* suspended call, with the controlEpoch it was started under.  The pump   *)
(* is synchronous: while `pump` is not "idle" nothing else may run, so its *)
(* micro-steps form one step of the loop.                                  *)
(*                                                                         *)
(* `driver` stands for a session and the container that belongs to it:     *)
(* "open", "aborted" while their release is awaited, "stuck" when it was   *)
(* not confirmed, or "none".  Stopping a container is shared: all who      *)
(* await it go on when it ends, before anybody else is served.             *)
(***************************************************************************)
EXTENDS DependencyScheduling

CONSTANTS
    Answer,             \* what a decider may answer
    MaxConcurrent,      \* the slots (settings max_concurrent)
    Plans,              \* how requirements are split: dependencies and tickets
    Operations,         \* the controls the users of an instance exercise
    Steered,            \* the tasks they exercise them on
    MaxEpoch,           \* bound: control epochs of one task
    MaxCards,           \* bound: cards of one task
    MaxCrashes,         \* bound: crashes of the service
    None

ASSUME TaskAssumption == Task \subseteq Nat /\ IsFiniteSet(Task)
ASSUME PlanAssumption ==
    /\ Plans \subseteq [Task -> [blocked_by : SUBSET Task, ticket : Ticket]]
    /\ \A plan \in Plans, t \in Task : \A d \in plan[t].blocked_by : d < t
ASSUME MaxConcurrentAssumption == MaxConcurrent \in Nat \ {0}
ASSUME BoundAssumption == MaxEpoch \in Nat /\ MaxCards \in Nat /\ MaxCrashes \in Nat

VARIABLES
    frames,         \* the suspended calls
    runningCount,
    pump,           \* "idle", "due" or "on"
    gate,           \* waiting.json: the cards of a task, oldest first
    told,           \* how often a session was given the answer of a card
    view,           \* the early-start preview an owner has before them
    accepted,       \* dependency_adjustments: the previews applied so far
    crashes

vars == <<task, queue, frames, runningCount, pump, gate, told, view, accepted,
          crashes>>

Status == {"queued", "running", "pausing", "paused", "waiting_for_human",
           "verifying", "completed", "failed", "canceled"}

Kind == {"launch", "turn", "failing", "deliver", "poll", "pause",
         "cancel_query", "cancel", "merge"}

Frame(kind, t, epoch, counted, from) ==
    [kind |-> kind, task |-> t, epoch |-> epoch, counted |-> counted,
     from |-> from]

\* MUTANT: a call of an earlier epoch still writes its outcome.
Current_AnyEpoch(f) == task[f.task].status # "canceled"

\* MUTANT: whatever comes late is written.
Current_Always(f) == TRUE

\* The outcome of a call may still be written: current() in the source.
Current(f) ==
    /\ task[f.task].controlEpoch = f.epoch
    /\ task[f.task].status # "canceled"

\* MUTANT: the slot is not given back.
Return_KeepsSlot(f) ==
    /\ frames' = frames \ {f}
    /\ UNCHANGED runningCount /\ pump' = "idle"

\* The call returns; the launch's finally gives its slot back and pumps.
Return(f) ==
    /\ frames' = frames \ {f}
    /\ runningCount' = IF f.counted THEN runningCount - 1 ELSE runningCount
    /\ pump' = IF f.counted THEN "due" ELSE "idle"

\* The same call goes on to its next await.
Continue(f, kind, from) ==
    /\ frames' = (frames \ {f})
                     \cup {Frame(kind, f.task, f.epoch, f.counted, from)}
    /\ UNCHANGED <<runningCount, pump>>

Call(kind, t, epoch, from) ==
    frames' = frames \cup {Frame(kind, t, epoch, FALSE, from)}

Write(t, rec) == task' = [task EXCEPT ![t] = rec]

Off(t) == SelectSeq(queue, LAMBDA id : id # t)      \* removeFromQueue

Unserved == UNCHANGED <<view, accepted, crashes>>
Undecided == UNCHANGED <<gate, told>>

\* Calls whose await on a release has ended.
Ending(f) ==
    /\ f.kind \in {"failing", "pause", "cancel"}
    /\ task[f.task].driver \in {"none", "stuck"}

Idle == pump = "idle" /\ ~\E f \in frames : Ending(f)

\* A control that changes the epoch of t.
May(op, t) ==
    /\ Idle /\ op \in Operations /\ t \in Steered
    /\ task[t].controlEpoch < MaxEpoch

Abort(driver) == IF driver = "none" THEN driver ELSE "aborted"
---------------------------------------------------------------------------
(* The pump.                                                               *)

PumpRefresh ==
    /\ pump = "due"
    /\ task' = [t \in Task |-> IF t \in Hopeless
                               THEN [task[t] EXCEPT !.status = "failed"]
                               ELSE task[t]]
    /\ queue' = SelectSeq(queue, LAMBDA id : id \notin Hopeless)
    /\ pump' = "on"
    /\ UNCHANGED <<frames, runningCount>> /\ Undecided /\ Unserved

FirstReady == SelectInSeq(queue, Ready)

PumpStart ==
    /\ pump = "on" /\ runningCount < MaxConcurrent /\ FirstReady # 0
    /\ LET t == queue[FirstReady] IN
       /\ queue' = RemoveAt(queue, FirstReady)
       /\ IF t \in Task /\ task[t].status = "queued"
          THEN /\ Write(t, [task[t] EXCEPT !.status = "running",
                                           !.started = TRUE])
               /\ runningCount' = runningCount + 1
               /\ frames' = frames \cup
                     {Frame("launch", t, task[t].controlEpoch, TRUE, None)}
          ELSE UNCHANGED <<task, runningCount, frames>>
    /\ UNCHANGED pump /\ Undecided /\ Unserved

PumpRest ==
    /\ pump = "on" /\ (runningCount >= MaxConcurrent \/ FirstReady = 0)
    /\ pump' = "idle"
    /\ UNCHANGED <<task, queue, frames, runningCount>> /\ Undecided /\ Unserved

---------------------------------------------------------------------------
(* A launched session and the settling of its turns.                       *)

\* MUTANT: the session is left alone.
Pausing_KeepsSession(rec) == [rec EXCEPT !.pauseRequested = FALSE]

\* finishPause: ask the session and the container to stop, and wait.
Pausing(rec) ==
    [rec EXCEPT !.pauseRequested = FALSE,
                !.driver = Abort(@)]

WantsPause(t) == task[t].pauseRequested \/ task[t].status = "pausing"

\* MUTANT: the answer is given again to the next session.
Opened_KeepsAnswer(rec) == [rec EXCEPT !.driver = "open", !.handedOver = FALSE]

Opened(rec) ==
    [rec EXCEPT !.driver = "open", !.pendingResume = 0, !.handedOver = FALSE]

\* The session is there: a decision that was taken meanwhile is given to it
\* before its first turn.
LaunchReady(f) ==
    LET t == f.task  c == task[f.task].pendingResume IN
    /\ Idle /\ f.kind = "launch"
    /\ CASE ~Current(f) -> Return(f) /\ UNCHANGED task /\ Undecided
         [] Current(f) /\ WantsPause(t) ->
              /\ Write(t, Pausing([task[t] EXCEPT !.driver = "open"]))
              /\ Continue(f, "pause", "running") /\ Undecided
         [] OTHER ->
              /\ Write(t, Opened(task[t]))
              /\ told' = IF c = 0 THEN told ELSE [told EXCEPT ![t][c] = @ + 1]
              /\ Continue(f, "turn", None) /\ UNCHANGED gate
    /\ UNCHANGED queue /\ Unserved

LaunchFails(f) ==
    /\ Idle /\ f.kind = "launch" /\ Current(f)
    /\ Continue(f, "failing", None)
    /\ Write(f.task, [task[f.task] EXCEPT !.driver = "aborted"])
    /\ UNCHANGED queue /\ Undecided /\ Unserved

\* The session and the container of a task are gone, or their release
\* fails.
Released(t) ==
    /\ Idle /\ task[t].driver = "aborted"
    /\ \E left \in {"none", "stuck"} :
         Write(t, [task[t] EXCEPT !.driver = left])
    /\ UNCHANGED <<queue, frames, runningCount, pump>> /\ Undecided /\ Unserved

\* The turn of a task that was canceled, or taken over by a later control.
TurnStale(f) ==
    /\ Idle /\ f.kind = "turn" /\ ~Current(f)
    /\ Return(f)
    /\ UNCHANGED <<task, queue>> /\ Undecided /\ Unserved

\* The session raises a card and stops at it.
TurnAsks(f) ==
    LET t == f.task  c == Len(gate[f.task]) + 1 IN
    /\ Idle /\ f.kind = "turn" /\ Current(f) /\ task[t].driver = "open"
    /\ c <= MaxCards
    /\ gate' = [gate EXCEPT ![t] =
                    Append(@, [status |-> "waiting", decision |-> None])]
    /\ IF WantsPause(t)
       THEN /\ Write(t, Pausing([task[t] EXCEPT !.waiting = c]))
            /\ Continue(f, "pause", "waiting_for_human")
       ELSE /\ Write(t, [task[t] EXCEPT !.waiting = c,
                                        !.status = "waiting_for_human"])
            /\ Return(f)
    /\ UNCHANGED <<queue, told>> /\ Unserved

\* The workflow is done: the host takes the delivery over.
TurnFinishes(f) ==
    LET t == f.task IN
    /\ Idle /\ f.kind = "turn" /\ Current(f) /\ task[t].driver = "open"
    /\ IF task[t].pauseRequested
       THEN Write(t, Pausing(task[t])) /\ Continue(f, "pause", "running")
       ELSE /\ Write(t, [task[t] EXCEPT !.status = "verifying",
                                        !.driver = "none",
                                        !.handedOver = TRUE])
            /\ Continue(f, "deliver", None)
    /\ UNCHANGED queue /\ Undecided /\ Unserved

\* The session ends before its work does.
TurnDies(f) ==
    LET t == f.task IN
    /\ Idle /\ f.kind = "turn" /\ Current(f) /\ task[t].driver = "open"
    /\ IF WantsPause(t)
       THEN Write(t, Pausing(task[t])) /\ Continue(f, "pause", "running")
       ELSE /\ Write(t, [task[t] EXCEPT !.driver = "aborted"])
            /\ Continue(f, "failing", None)
    /\ UNCHANGED queue /\ Undecided /\ Unserved

FailingEnds(f) ==
    LET t == f.task IN
    /\ pump = "idle" /\ f.kind = "failing" /\ Ending(f)
    /\ IF Current(f) THEN Write(t, [task[t] EXCEPT !.status = "failed"])
                     ELSE UNCHANGED task
    /\ Return(f)
    /\ UNCHANGED queue /\ Undecided /\ Unserved

---------------------------------------------------------------------------
(* Delivery, as far as the controls see it.                                *)

\* enqueueRepair
Repair(t) ==
    /\ Write(t, [task[t] EXCEPT !.status = "queued"])
    /\ queue' = Append(queue, t)

DeliverStale(f) ==
    /\ Idle /\ f.kind \in {"deliver", "poll"} /\ ~Current(f)
    /\ Return(f)
    /\ UNCHANGED <<task, queue>> /\ Undecided /\ Unserved

\* The change is pushed: the rest of the wait is a poll without a slot.
Delivers(f) ==
    LET t == f.task IN
    /\ Idle /\ f.kind = "deliver" /\ Current(f)
    /\ Write(t, [task[t] EXCEPT !.pushed = TRUE])
    /\ frames' = (frames \ {f}) \cup {Frame("poll", t, f.epoch, FALSE, None)}
    /\ runningCount' = IF f.counted THEN runningCount - 1 ELSE runningCount
    /\ pump' = IF f.counted THEN "due" ELSE "idle"
    /\ UNCHANGED queue /\ Undecided /\ Unserved

\* It could not be pushed and a timer will try again, or it never will.
DeliveryHeld(f) ==
    LET t == f.task IN
    /\ Idle /\ f.kind = "deliver" /\ Current(f)
    /\ \/ /\ f.counted
          /\ frames' = (frames \ {f}) \cup {[f EXCEPT !.counted = FALSE]}
          /\ runningCount' = runningCount - 1 /\ pump' = "due"
          /\ UNCHANGED task
       \/ /\ Write(t, [task[t] EXCEPT !.status = "failed"]) /\ Return(f)
    /\ UNCHANGED queue /\ Undecided /\ Unserved

\* A conflict or a red pipeline sends the task back to its agent.
NeedsRepair(f) ==
    /\ Idle /\ f.kind \in {"deliver", "poll"} /\ Current(f)
    /\ f.kind = "poll" => task[f.task].status = "verifying"
    /\ Repair(f.task)
    /\ frames' = frames \ {f}
    /\ runningCount' = IF f.counted THEN runningCount - 1 ELSE runningCount
    /\ pump' = "due"
    /\ Undecided /\ Unserved

\* settleMergeState: the merge takes the task from whoever works on it, and
\* closes it when that one has stopped.
Merging(t) == \E f \in frames : f.kind = "merge" /\ f.task = t

SettleMerge(t, others) ==
    /\ Write(t, [task[t] EXCEPT
          !.status = "verifying", !.controlEpoch = @ + 1,
          !.driver = Abort(@)])
    /\ queue' = Off(t)
    /\ frames' = others \cup
          {Frame("merge", t, task'[t].controlEpoch, FALSE, None)}

\* The watcher sees it on the platform.
MergeSeen(t) ==
    /\ May("merge", t)
    /\ task[t].pushed /\ task[t].status \notin {"completed", "canceled"}
    /\ ~Merging(t)
    /\ SettleMerge(t, frames)
    /\ UNCHANGED <<runningCount, pump>> /\ Undecided /\ Unserved

\* It is done, unless the task was canceled meanwhile, its session did not
\* stop, or the merge does not contain the local work.
MergeEnds(f) ==
    LET t == f.task IN
    /\ Idle /\ f.kind = "merge" /\ task[t].driver # "aborted"
    /\ frames' = frames \ {f}
    /\ \/ /\ task[t].status # "canceled" /\ task[t].driver # "stuck"
          /\ Write(t, [task[t] EXCEPT !.status = "completed"])
          /\ pump' = "due"
       \/ UNCHANGED <<task, pump>>
    /\ UNCHANGED <<queue, runningCount>> /\ Undecided /\ Unserved

---------------------------------------------------------------------------
(* Decisions.                                                              *)

\* What the task record becomes when its card is answered: the live session
\* goes on, or a new one is queued to hear the answer.
Answered(rec, c) ==
    IF rec.driver # "none"
    THEN [rec EXCEPT !.waiting = 0, !.status = "running"]
    ELSE [rec EXCEPT !.waiting = 0, !.status = "queued", !.pendingResume = c]

Resolve(t, c, answer) ==
    gate' = [gate EXCEPT ![t][c] = [status |-> "resolved", decision |-> answer]]

\* decideUnderLock and decideOnce: the card of the task, not answered yet.
Open(t) ==
    /\ task[t].status = "waiting_for_human" /\ task[t].waiting # 0
    /\ gate[t][task[t].waiting].status = "waiting"

\* The answer is recorded and the session continues with it.  This call
\* takes no slot.  A session that is being aborted refuses it, and the
\* refusal is settled as a failure.
Decide(t, answer) ==
    LET c == task[t].waiting IN
    /\ Idle /\ "decide" \in Operations /\ Open(t)
    /\ Resolve(t, c, answer)
    /\ Write(t, Answered(task[t], c))
    /\ IF task[t].driver # "none"
       THEN /\ told' = IF task[t].driver = "open"
                       THEN [told EXCEPT ![t][c] = @ + 1] ELSE told
            /\ Call(IF task[t].driver = "open" THEN "turn" ELSE "failing",
                    t, task[t].controlEpoch, None)
            /\ UNCHANGED <<queue, pump>>
       ELSE /\ queue' = Append(queue, t) /\ pump' = "due"
            /\ UNCHANGED <<frames, told>>
    /\ UNCHANGED runningCount /\ Unserved

---------------------------------------------------------------------------
(* The controls.                                                           *)

\* A running turn is only asked to stop.
PauseRunning(t) ==
    /\ Idle /\ "pause" \in Operations /\ t \in Steered
    /\ task[t].status = "running"
    /\ Write(t, [task[t] EXCEPT !.status = "pausing",
                                !.pauseRequested = TRUE])
    /\ UNCHANGED <<queue, frames, runningCount, pump>> /\ Undecided /\ Unserved

\* Otherwise the session, if there is one, is stopped at once; nothing is
\* awaited when there is none.
PauseResting(t) ==
    LET from == task[t].status
        rec == [Pausing(task[t]) EXCEPT !.controlEpoch = @ + 1]
    IN  /\ May("pause", t)
        /\ from \in {"queued", "waiting_for_human", "verifying"}
        /\ queue' = Off(t)
        /\ IF rec.driver = "none"
           THEN /\ Write(t, [rec EXCEPT !.status = "paused",
                                        !.paused_from = from])
                /\ UNCHANGED frames
           ELSE Write(t, rec) /\ Call("pause", t, rec.controlEpoch, from)
        /\ UNCHANGED <<runningCount, pump>> /\ Undecided /\ Unserved

\* MUTANT: a release that failed is not reported.
PauseEnds_Unreported(f) ==
    LET t == f.task IN
    /\ pump = "idle" /\ f.kind = "pause" /\ Ending(f)
    /\ IF Current(f) /\ task[t].driver = "none"
       THEN Write(t, [task[t] EXCEPT !.status = "paused", !.paused_from = f.from])
       ELSE UNCHANGED task
    /\ Return(f)
    /\ UNCHANGED queue /\ Undecided /\ Unserved

\* The cleanup of a pause is over.  A later control has the last word.
PauseEnds(f) ==
    LET t == f.task IN
    /\ pump = "idle" /\ f.kind = "pause" /\ Ending(f)
    /\ CASE ~Current(f) -> UNCHANGED task
         [] Current(f) /\ task[t].driver = "none" ->
              Write(t, [task[t] EXCEPT !.status = "paused",
                                       !.paused_from = f.from])
         [] OTHER -> Write(t, [task[t] EXCEPT !.status = "failed"])
    /\ Return(f)
    /\ UNCHANGED queue /\ Undecided /\ Unserved

\* Back to the card, back to the poll, or back to the queue.  A developer
\* who changed the code meanwhile has made the card obsolete.
Resume(t) ==
    LET rec == [task[t] EXCEPT !.controlEpoch = @ + 1,
                               !.pauseRequested = FALSE]
        c == task[t].waiting
    IN  /\ May("resume", t)
        /\ task[t].status = "paused" /\ task[t].driver = "none"
        /\ \E changed \in BOOLEAN :
             CASE rec.paused_from = "waiting_for_human" /\ c # 0 /\ ~changed ->
                    /\ Write(t, [rec EXCEPT !.status = "waiting_for_human"])
                    /\ UNCHANGED <<queue, frames, pump, gate>>
               [] rec.paused_from = "verifying" /\ rec.pushed /\ ~changed ->
                    /\ Write(t, [rec EXCEPT !.status = "verifying"])
                    /\ Call("poll", t, rec.controlEpoch, None)
                    /\ UNCHANGED <<queue, pump, gate>>
               [] OTHER ->
                    /\ IF rec.paused_from = "waiting_for_human" /\ c # 0
                       THEN /\ Write(t, [rec EXCEPT !.status = "queued",
                                   !.waiting = 0, !.pendingResume = 0])
                            /\ gate' = [gate EXCEPT ![t][c] =
                                 [status |-> "superseded", decision |-> None]]
                       ELSE /\ Write(t, [rec EXCEPT !.status = "queued"])
                            /\ UNCHANGED gate
                    /\ queue' = Append(queue, t) /\ pump' = "due"
                    /\ UNCHANGED frames
        /\ UNCHANGED <<runningCount, told>> /\ Unserved

\* cancel: first the record, then the cleanup, then the pump.
CancelNow(t) ==
    /\ Write(t, [task[t] EXCEPT
          !.status = "canceled", !.controlEpoch = @ + 1,
          !.pauseRequested = FALSE, !.waiting = 0,
          !.driver = Abort(@)])
    /\ queue' = Off(t)

\* A task with a merge request asks the platform first.
Cancel(t) ==
    /\ May("cancel", t)
    /\ task[t].status # "completed"
    /\ task[t].status = "canceled" => task[t].driver # "none"
    /\ CASE task[t].pushed /\ task[t].status = "verifying" ->
              /\ Call("cancel_query", t, task[t].controlEpoch, None)
              /\ UNCHANGED <<task, queue, pump>>
         [] task[t].driver # "none" ->
              /\ CancelNow(t) /\ UNCHANGED pump
              /\ Call("cancel", t, task'[t].controlEpoch, None)
         [] OTHER ->
              /\ CancelNow(t) /\ pump' = "due" /\ UNCHANGED frames
    /\ UNCHANGED runningCount /\ Undecided /\ Unserved

\* The platform reports a merge: the task is not canceled but completed.
CancelFindsMerge(f) ==
    LET t == f.task  others == frames \ {f} IN
    /\ Idle /\ "merge" \in Operations /\ f.kind = "cancel_query"
    /\ IF task[t].status \in {"completed", "canceled"} \/ Merging(t)
       THEN frames' = others /\ UNCHANGED <<task, queue>>
       ELSE task[t].controlEpoch < MaxEpoch /\ SettleMerge(t, others)
    /\ UNCHANGED <<runningCount, pump>> /\ Undecided /\ Unserved

\* It knows of no merge, or does not answer.
CancelAnswered(f) ==
    LET t == f.task IN
    /\ Idle /\ f.kind = "cancel_query" /\ task[t].controlEpoch < MaxEpoch
    /\ CancelNow(t)
    /\ IF task[t].driver # "none"
       THEN /\ frames' = (frames \ {f}) \cup
                  {Frame("cancel", t, task'[t].controlEpoch, FALSE, None)}
            /\ UNCHANGED pump
       ELSE frames' = frames \ {f} /\ pump' = "due"
    /\ UNCHANGED runningCount /\ Undecided /\ Unserved

CancelEnds(f) ==
    /\ pump = "idle" /\ f.kind = "cancel" /\ Ending(f)
    /\ frames' = frames \ {f} /\ pump' = "due"
    /\ UNCHANGED <<task, queue, runningCount>> /\ Undecided /\ Unserved

\* retry: a new session, or, when only the host's delivery failed, that
\* delivery again.
Retry(t) ==
    /\ Idle /\ "retry" \in Operations /\ t \in Steered
    /\ task[t].status = "failed" /\ task[t].driver = "none"
    /\ \/ Repair(t) /\ pump' = "due" /\ UNCHANGED frames
       \/ /\ task[t].handedOver
          /\ Write(t, [task[t] EXCEPT !.status = "verifying"])
          /\ Call("deliver", t, task[t].controlEpoch, None)
          /\ UNCHANGED <<queue, pump>>
    /\ UNCHANGED runningCount /\ Undecided /\ Unserved

\* The owner's new request takes a task back from its verification.
Interrupt(t) ==
    /\ May("interrupt", t)
    /\ task[t].status \in {"verifying", "failed"} /\ task[t].driver = "none"
    /\ Write(t, [task[t] EXCEPT !.status = "queued", !.controlEpoch = @ + 1])
    /\ queue' = Append(queue, t) /\ pump' = "due"
    /\ UNCHANGED <<frames, runningCount>> /\ Undecided /\ Unserved

---------------------------------------------------------------------------
(* Early start.                                                            *)

\* The owner opens the preview for some of the pending prerequisites and a
\* ticket of their choice.
PreviewStart(t) ==
    /\ Idle /\ "start_early" \in Operations /\ view = None
    /\ \E released \in SUBSET Pending(task[t].blocked_by), ticket \in Ticket :
         /\ Preview(t, released, ticket).available
         /\ view' = Preview(t, released, ticket)
    /\ UNCHANGED <<task, queue, frames, runningCount, pump, accepted, crashes>>
    /\ Undecided

\* dependencyHost().wake
Wake(t, rec) ==
    /\ queue' = IF rec.status = "queued" /\ ~Contains(queue, t)
                THEN Append(queue, t) ELSE queue
    /\ pump' = "due"

\* The owner confirms what the preview showed.  A repeated request is only
\* acknowledged, a stale one refused.
StartEarly ==
    LET t == view.task IN
    /\ Idle /\ view # None
    /\ IF view \in accepted
       THEN Wake(t, task[t]) /\ view' = None /\ UNCHANGED <<task, accepted>>
       ELSE IF /\ view.release_ids \subseteq Pending(task[t].blocked_by)
               /\ view = Preview(t, view.release_ids, view.ticket)
               /\ view.available /\ ~view.errors
       THEN /\ Write(t, [task[t] EXCEPT
                  !.blocked_by = @ \ view.release_ids,
                  !.ticket = view.ticket])
            /\ Wake(t, task'[t])
            /\ accepted' = accepted \cup {view}
            /\ UNCHANGED view                   \* the answer may be lost
       ELSE view' = None /\ UNCHANGED <<task, queue, pump, accepted>>
    /\ UNCHANGED <<frames, runningCount, crashes>> /\ Undecided

---------------------------------------------------------------------------
(* Crash and recovery.                                                     *)

\* What recover() makes of a task record that was saved with cards g.
Recovered(rec, g) ==
    LET r == [rec EXCEPT !.controlEpoch = 0, !.driver = "none",
                         !.pauseRequested = FALSE]
    IN  CASE r.status \in {"running", "queued"} -> [r EXCEPT !.status = "queued"]
          [] r.status = "pausing" ->
               [r EXCEPT !.status = "paused", !.paused_from = "running",
                         !.waiting = 0]
          [] r.status = "waiting_for_human" /\ g[r.waiting].status = "resolved" ->
               Answered(r, r.waiting)
          [] OTHER -> r

\* What is left when the process dies with the cards g on disk: everything
\* in memory is gone, verification and merge watching are taken up again.
Restart(g) ==
    LET tasks == [t \in Task |-> Recovered(task[t], g[t])]
        again == {t \in Task : tasks[t].status = "queued"}
    IN  /\ task' = tasks
        /\ gate' = g
        /\ queue' = SetToSortSeq(again, <)
        /\ frames' = {Frame(IF tasks[t].pushed THEN "poll" ELSE "deliver",
                            t, 0, FALSE, None) :
                         t \in {x \in Task : tasks[x].status = "verifying"}}
        /\ runningCount' = 0
        /\ pump' = IF again = {} THEN "idle" ELSE "due"
        /\ view' = None
        /\ crashes' = crashes + 1
        /\ UNCHANGED <<told, accepted>>

Crash == crashes < MaxCrashes /\ Restart(gate)

\* The process dies between the two files a decision writes.
CrashInDecide(t, answer) ==
    /\ crashes < MaxCrashes /\ Idle /\ "decide" \in Operations /\ Open(t)
    /\ Restart([gate EXCEPT ![t][task[t].waiting] =
                   [status |-> "resolved", decision |-> answer]])

---------------------------------------------------------------------------
NewTask(blocked_by, ticket) ==
    [status |-> "queued", blocked_by |-> blocked_by, ticket |-> ticket,
     pushed |-> FALSE, started |-> FALSE, handedOver |-> FALSE, controlEpoch |-> 0,
     driver |-> "none", pauseRequested |-> FALSE, paused_from |-> None,
     waiting |-> 0, pendingResume |-> 0]

\* The tasks of one requirement, just created.
Init ==
    /\ \E plan \in Plans :
         task = [t \in Task |-> NewTask(plan[t].blocked_by, plan[t].ticket)]
    /\ queue = SetToSortSeq(Task, <)
    /\ frames = {} /\ runningCount = 0 /\ pump = "due"
    /\ gate = [t \in Task |-> <<>>]
    /\ told = [t \in Task |-> [c \in 1..MaxCards |-> 0]]
    /\ view = None /\ accepted = {} /\ crashes = 0

Pump == PumpRefresh \/ PumpStart \/ PumpRest

Settle(f) ==
    \/ LaunchReady(f) \/ LaunchFails(f)
    \/ TurnStale(f) \/ TurnAsks(f) \/ TurnFinishes(f) \/ TurnDies(f)
    \/ FailingEnds(f)
    \/ PauseEnds(f) \/ CancelEnds(f) \/ MergeEnds(f)
    \/ CancelAnswered(f) \/ CancelFindsMerge(f)

Deliver(f) ==
    \/ DeliverStale(f) \/ Delivers(f) \/ DeliveryHeld(f) \/ NeedsRepair(f)

Control(t) ==
    \/ PauseRunning(t) \/ PauseResting(t) \/ Resume(t) \/ Cancel(t)
    \/ Retry(t) \/ Interrupt(t) \/ PreviewStart(t) \/ MergeSeen(t)

Next ==
    \/ Pump
    \/ \E f \in frames : Settle(f) \/ Deliver(f)
    \/ \E t \in Task : Control(t) \/ Released(t)
    \/ \E t \in Task, answer \in Answer :
         Decide(t, answer) \/ CrashInDecide(t, answer)
    \/ StartEarly
    \/ Crash

Spec == Init /\ [][Next]_vars

\* The event loop runs what is due: the pump, and a call whose await has
\* ended.  Awaits on the session, the container and the platform end; strong
\* fairness, because the loop is busy again and again with something else.
Fairness ==
    /\ WF_vars(Pump)
    /\ \A t \in Task : SF_vars(Released(t))
    /\ \A t \in Task : SF_vars(\E f \in frames : f.task = t /\ Settle(f))
    /\ \A t \in Task : SF_vars(\E f \in frames : f.task = t /\ f.counted
                                                 /\ Deliver(f))

FairSpec == Spec /\ Fairness

---------------------------------------------------------------------------
(* Types.                                                                  *)

TaskRecord ==
    [status : Status, blocked_by : SUBSET Task, ticket : Ticket,
     pushed : BOOLEAN, started : BOOLEAN, handedOver : BOOLEAN, controlEpoch : 0..MaxEpoch,
     driver : {"none", "open", "aborted", "stuck"}, pauseRequested : BOOLEAN,
     paused_from : Status \cup {None}, waiting : 0..MaxCards,
     pendingResume : 0..MaxCards]

Card == [status : {"waiting", "resolved", "superseded"},
         decision : Answer \cup {None}]

FrameRecord == [kind : Kind, task : Task, epoch : 0..MaxEpoch,
                counted : BOOLEAN, from : Status \cup {None}]

\* The types of everything but the queue.
Typed ==
    /\ task \in [Task -> TaskRecord]
    /\ frames \subseteq FrameRecord
    /\ runningCount \in 0..MaxConcurrent
    /\ pump \in {"idle", "due", "on"}
    /\ gate \in [Task -> Seq(Card)]
    /\ \A t \in Task : Len(gate[t]) <= MaxCards
    /\ told \in [Task -> [1..MaxCards -> Nat]]
    /\ view # None => view.task \in Task /\ view.ticket \in Ticket
    /\ crashes \in 0..MaxCrashes

\* The type invariant.
TypeOK == Typed /\ queue \in Seq(Task)

---------------------------------------------------------------------------
(* Safety.                                                                 *)

Working == {"launch", "turn", "failing", "deliver"}

\* At most one call has the right to write the outcome of a task.
OneExecutor ==
    \A t \in Task :
        Cardinality({f \in frames : f.task = t /\ f.kind \in Working
                                    /\ Current(f)}) <= 1

\* A session at work has somebody who will settle its turn, unless it waits
\* at a card: none is forgotten, and none is kept by a task that ended.
NoStraySession ==
    \A t \in Task : task[t].driver = "open" =>
        \/ task[t].status = "waiting_for_human" /\ task[t].waiting # 0
        \/ \E f \in frames : f.task = t /\ f.kind = "turn" /\ Current(f)

\* A session or a delivery of t is at work.
Executing(t) ==
    \/ task[t].driver = "open"
    \/ \E f \in frames : f.task = t /\ f.kind \in Working /\ Current(f)

\* "only one executor at a time per ticket" (concurrentTicketConflict).
SameTicketApart ==
    \A t, u \in Task :
        t # u /\ Executing(t) /\ Executing(u) => task[t].ticket # task[u].ticket

\* Queued tasks never wait only for each other: one whose dependencies are
\* done may go, or somebody ahead of it may, or one of its ticket is at work.
SomeoneGoesFirst ==
    \A t \in Task :
        task[t].status = "queued" /\ Contains(queue, t) /\ DependenciesDone(t)
        => \/ Ready(t)
           \/ \E o \in TicketConflicts(t) : task[o].status # "queued" \/ Ready(o)

\* "starts when there is a free slot" (previewEarlyStart): while a slot is
\* free and no call is left that will pump, no task that may go is queued.
FreeSlotServes ==
    /\ Idle /\ runningCount < MaxConcurrent
    /\ ~\E f \in frames : f.counted \/ f.kind \in {"cancel", "merge"}
    => ~\E t \in Task :
            task[t].status = "queued" /\ Contains(queue, t) /\ Ready(t)

\* A cancelled task stays cancelled, whatever was still suspended.
CanceledIsFinal ==
    [][\A t \in Task :
        task[t].status = "canceled" => task'[t].status = "canceled"]_vars

\* finishPause: "paused; after resuming it goes on waiting for the decision".
PausedKeepsCard ==
    \A t \in Task :
        task[t].status = "paused" /\ task[t].paused_from = "waiting_for_human"
        => task[t].waiting # 0 /\ gate[t][task[t].waiting].status = "waiting"

\* At most MaxConcurrent tasks work at the same time.
ConcurrencyLimit ==
    Cardinality({t \in Task : task[t].status = "running"}) <= MaxConcurrent

\* A delivered task is not turned into a cancelled one.
MergeIsFinal ==
    [][\A t \in Task :
        task[t].status = "completed" => task'[t].status # "canceled"]_vars

\* What deciders are promised about their cards.
CardOf(key) ==
    LET t == key[1]  c == key[2] IN
    IF c > Len(gate[t]) THEN [status |-> "none", decision |-> None, told |-> 0]
    ELSE [status |-> gate[t][c].status, decision |-> gate[t][c].decision,
          told |-> told[t][c]]

Deciders == INSTANCE AnswerOnce WITH
    Card <- Task \X (1..MaxCards),
    card <- [key \in Task \X (1..MaxCards) |-> CardOf(key)]

AnsweredOnce == Deciders!Spec

\* Two unfinished workers of one ticket that wait for one another, directly
\* or not, or work on different tickets, are not made neighbours: neither
\* by an early start nor by anything else.
Beside(t, u) ==
    /\ Worker(t) /\ Worker(u) /\ ~Completed(t) /\ ~Completed(u)
    /\ task[t].ticket = task[u].ticket
    /\ t \notin Ancestors(Blocking, u) /\ u \notin Ancestors(Blocking, t)

TicketOrderKept ==
    [][\A t, u \in Task :
        (/\ t # u /\ Beside(t, u)'
         /\ Worker(t) /\ Worker(u))
        => Beside(t, u)]_vars

\* An early start takes away the waits its owner was shown, and no others
\* (of tasks that may still own a branch).
Loses(t) == Pending(Ancestors(Blocking, t)) \ Ancestors(Blocking, t)'

ReleasedAsShown ==
    [][accepted' # accepted =>
        \A t \in {x \in Task : Worker(x) /\ ~Completed(x)} :
            Loses(t) = IF t = view.task THEN view.no_longer_waiting
                       ELSE UNION {d.lost : d \in
                                {x \in view.downstream : x.follower = t}}]_vars

---------------------------------------------------------------------------
(* Liveness.                                                               *)

\* A queued task that waits for no other task gets its turn.
Free(t) ==
    /\ task[t].blocked_by = {}
    /\ \A o \in Task \ {t} : task[o].ticket # task[t].ticket

QueuedStarts ==
    \A t \in Task :
        task[t].status = "queued" /\ Free(t) ~> task[t].status # "queued"

\* A requested pause comes to an end.
PauseReturns ==
    \A t \in Task : task[t].status = "pausing" ~> task[t].status # "pausing"

\* An answer recorded while no session was there reaches one, unless its
\* task is stopped.
AnswerHeard ==
    \A t \in Task :
        task[t].pendingResume # 0
            ~> \/ task[t].pendingResume = 0
               \/ task[t].status \in {"paused", "canceled", "failed"}
=============================================================================
