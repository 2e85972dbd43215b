------------------------ MODULE ReviewRepliesProofs ------------------------
(***************************************************************************)
(* What the outbox guarantees for any number of discussions, commits,      *)
(* lines, failed appends and restarts: its types, that the service can     *)
(* always read the file it wrote, that it keeps the promise of ReplyLedger,*)
(* that a request leaves only for a reply whose attempt is in the log, and *)
(* that a discussion counts as answered only if it was.                    *)
(***************************************************************************)
EXTENDS ReviewReplies, FiniteSetTheorems, TLAPS

--------------------------------------------------------------------------
\* The file.

\* An append adds its line or nothing; it never takes a line back.
LEMMA AppendLines ==
    ASSUME NEW f \in File, NEW e \in Line, NEW how \in Appends
    PROVE  /\ append(f, e, how) \in File
           /\ \/ append(f, e, how).lines = f.lines
              \/ append(f, e, how).lines = Append(f.lines, e)
           /\ how = "whole" => append(f, e, how).lines = Append(f.lines, e)
BY DEF append, File, Tails, Appends

\* What an appended line adds to the replies an operation was logged for.
LEMMA LoggedAppend ==
    ASSUME NEW f \in File, NEW g \in File, NEW e \in Line, NEW op,
           g.lines = Append(f.lines, e)
    PROVE  Logged(g, op) = Logged(f, op) \cup (IF e.op = op THEN {e.id} ELSE {})
<1> DEFINE n == Len(f.lines) + 1
<1>1. f.lines \in Seq(Line) /\ DOMAIN g.lines = 1..n /\ DOMAIN f.lines = 1..(n - 1) /\ n \in Nat
  BY DEF File
<1>2. g.lines[n] = e /\ \A m \in 1..(n - 1) : g.lines[m] = f.lines[m]
  BY <1>1 DEF File
<1> HIDE DEF n
<1>3. ASSUME NEW id, id \in Logged(g, op)
      PROVE  id \in Logged(f, op) \cup (IF e.op = op THEN {e.id} ELSE {})
  <2>1. PICK m \in 1..n : g.lines[m].op = op /\ id = g.lines[m].id
    BY <1>1, <1>3 DEF Logged
  <2>2. CASE m = n
    BY <1>2, <2>1, <2>2
  <2>3. CASE m # n
    <3>1. m \in 1..(n - 1)
      BY <1>1, <2>3
    <3> QED BY <1>1, <1>2, <2>1, <3>1 DEF Logged
  <2> QED BY <2>2, <2>3
<1>4. ASSUME NEW id, id \in Logged(f, op) \cup (IF e.op = op THEN {e.id} ELSE {})
      PROVE  id \in Logged(g, op)
  <2>1. CASE id \in Logged(f, op)
    <3>1. PICK m \in 1..(n - 1) : f.lines[m].op = op /\ id = f.lines[m].id
      BY <1>1, <2>1 DEF Logged
    <3>2. m \in 1..n
      BY <1>1
    <3> QED BY <1>1, <1>2, <3>1, <3>2 DEF Logged
  <2>2. CASE e.op = op /\ id = e.id
    <3>1. n \in 1..n
      BY <1>1
    <3> QED BY <1>1, <1>2, <2>2, <3>1 DEF Logged
  <2> QED BY <1>4, <2>1, <2>2
<1> QED BY <1>3, <1>4

\* A line that enqueues, or speaks of a pending reply, leaves the file
\* readable.
LEMMA ReadableAppend ==
    ASSUME NEW f \in File, NEW g \in File, NEW e \in Line,
           Readable(f), g.lines = Append(f.lines, e),
           e.op = "enqueue" \/ e.id \in Pending(f)
    PROVE  Readable(g)
<1> DEFINE n == Len(f.lines) + 1
<1>1. f.lines \in Seq(Line) /\ DOMAIN g.lines = 1..n /\ DOMAIN f.lines = 1..(n - 1) /\ n \in Nat
  BY DEF File
<1>2. g.lines[n] = e /\ \A m \in 1..(n - 1) : g.lines[m] = f.lines[m]
  BY <1>1 DEF File
<1> HIDE DEF n
<1> SUFFICES ASSUME NEW k \in 1..n, g.lines[k].op # "enqueue"
             PROVE  /\ \E m \in 1..(k - 1) : g.lines[m].op = "enqueue" /\ g.lines[m].id = g.lines[k].id
                    /\ \A m \in 1..(k - 1) : ~(g.lines[m].op = "delivered" /\ g.lines[m].id = g.lines[k].id)
  BY <1>1 DEF Readable
<1>3. CASE k = n
  <2>1. e.id \in Listed(f) /\ e.id \notin Delivered(f)
    BY <1>2, <1>3 DEF Pending
  <2>2. PICK m \in 1..(n - 1) : f.lines[m].op = "enqueue" /\ f.lines[m].id = e.id
    BY <1>1, <2>1 DEF Listed, Logged
  <2>3. \A j \in 1..(n - 1) : ~(f.lines[j].op = "delivered" /\ f.lines[j].id = e.id)
    BY <1>1, <2>1 DEF Delivered, Logged
  <2> QED BY <1>2, <1>3, <2>2, <2>3
<1>4. CASE k # n
  <2>1. k \in 1..(n - 1) /\ \A m \in 1..(k - 1) : m \in 1..(n - 1)
    BY <1>1, <1>4
  <2> QED BY <1>1, <1>2, <2>1 DEF Readable
<1> QED BY <1>3, <1>4

\* What a write means for the replies on record; `reply` is the one written
\* about, if a line was added at all.
Wrote(f, g, e) ==
    /\ g \in File
    /\ Readable(f) => Readable(g)
    /\ \/ Listed(g) = Listed(f) /\ Delivered(g) = Delivered(f)
       \/ /\ Listed(g) = Listed(f) \cup (IF e.op = "enqueue" THEN {e.id} ELSE {})
          /\ Delivered(g) = Delivered(f) \cup (IF e.op = "delivered" THEN {e.id} ELSE {})

LEMMA AppendWrote ==
    ASSUME NEW f \in File, NEW e \in Line, NEW how \in Appends,
           e.op = "enqueue" \/ e.id \in Pending(f)
    PROVE  Wrote(f, append(f, e, how), e)
<1> SUFFICES ASSUME NEW g \in File, g.lines = f.lines \/ g.lines = Append(f.lines, e)
             PROVE  Wrote(f, g, e)
  BY AppendLines
<1>1. CASE g.lines = f.lines
  BY <1>1 DEF Wrote, Readable, Listed, Delivered, Logged
<1>2. CASE g.lines = Append(f.lines, e)
  <2>1. Readable(f) => Readable(g)
    BY <1>2, ReadableAppend
  <2>2. /\ Listed(g) = Listed(f) \cup (IF e.op = "enqueue" THEN {e.id} ELSE {})
        /\ Delivered(g) = Delivered(f) \cup (IF e.op = "delivered" THEN {e.id} ELSE {})
    BY <1>2, LoggedAppend DEF Listed, Delivered
  <2> QED BY <2>1, <2>2 DEF Wrote
<1> QED BY <1>1, <1>2

LEMMA MarkWrote ==
    ASSUME NEW f \in File, NEW e \in Line, NEW how \in Appends
    PROVE  Wrote(f, mark(f, e, how), e)
<1>1. CASE e.id \in Pending(f)
  BY <1>1, AppendWrote DEF mark
<1>2. CASE e.id \notin Pending(f)
  BY <1>2 DEF mark, Wrote
<1> QED BY <1>1, <1>2

\* The lines of a file speak of replies.
LEMMA LoggedReplies ==
    ASSUME NEW f \in File, NEW op
    PROVE  Logged(f, op) \subseteq Replies
<1> SUFFICES ASSUME NEW n \in DOMAIN f.lines PROVE f.lines[n].id \in Replies
  BY DEF Logged
<1>1. f.lines \in Seq(Line)
  BY DEF File
<1>2. f.lines[n] \in Line
  BY <1>1
<1> QED BY <1>2 DEF Line

\* The empty file lists nothing, and can be read.
LEMMA EmptyFile ==
    Empty \in File /\ Readable(Empty) /\ \A op : Logged(Empty, op) = {}
<1>1. Empty.lines = <<>> /\ DOMAIN Empty.lines = {} /\ Empty \in File
  BY DEF Empty, File, Tails
<1> QED BY <1>1 DEF Readable, Logged

--------------------------------------------------------------------------
\* The inductive invariant: what is on its way or has arrived is on record
\* and speaks of a published commit, and the two calls in progress hold what
\* they were started with.

OnRecord == accepted \cup wire \subseteq {i \in Listed(log) : i[2] \in published}

Pushes ==
    /\ pushed # None => pushed \in published
    /\ flush.pc # "idle" => flush.pushed \in published

Calls ==
    /\ flush.pc \in {"posting", "catch"} => flush.reply \in Replies
    /\ stage.pc = "append" => stage.sha \in Shas

\* While answers are staged, every discussion has its answer on the platform
\* or in the log, or is still to be written.
Covered ==
    stage.pc = "append" =>
        \A d \in Discussions :
            d \in replied \/ <<d, stage.sha>> \in Listed(log) \/ d \in stage.left

IInv ==
    /\ Covered
    /\ TypeOK
    /\ LogReadable
    /\ Delivered(log) \subseteq accepted
    /\ OnRecord
    /\ Pushes
    /\ Calls
    /\ RepliedTruly

LEMMA InitIInv ==
    ASSUME Init
    PROVE  IInv
<1>1. TypeOK
  <2>1. 1 \in Shas /\ 0 \in Nat
    BY ReviewRepliesConstants DEF Shas
  <2> QED BY <2>1, EmptyFile DEF Init, TypeOK, NoStage, NoFlush
<1>2. LogReadable /\ Delivered(log) = {} /\ Listed(log) = {}
  BY EmptyFile DEF Init, LogReadable, Delivered, Listed
<1>3. OnRecord /\ Pushes /\ Calls /\ RepliedTruly /\ Covered
  BY <1>2 DEF Init, OnRecord, Pushes, Calls, RepliedTruly, Covered, NoStage, NoFlush
<1> QED BY <1>1, <1>2, <1>3 DEF IInv

--------------------------------------------------------------------------
\* What each line is about, and that its write is one of the file's.

LEMMA StageOneWrote ==
    ASSUME IInv, NEW d \in Discussions, NEW how \in Appends, StageOne(d, how)
    PROVE  /\ stage.sha \in Shas /\ <<d, stage.sha>> \in Replies
           /\ Wrote(log, log', Entry("enqueue", <<d, stage.sha>>, None))
<1>1. stage.sha \in Shas /\ <<d, stage.sha>> \in Replies
  BY DEF IInv, Calls, StageOne, Replies
<1>2. Entry("enqueue", <<d, stage.sha>>, None) \in Line
  BY <1>1 DEF Entry, Line, Errors
<1>3. Entry("enqueue", <<d, stage.sha>>, None).op = "enqueue" /\ log \in File
  BY DEF Entry, IInv, TypeOK
<1> QED BY <1>1, <1>2, <1>3, AppendWrote DEF StageOne

LEMMA SendWrote ==
    ASSUME IInv, NEW i \in Replies, NEW how \in Appends, Send(i, how)
    PROVE  Wrote(log, log', Entry("attempt", i, None))
<1>1. Entry("attempt", i, None) \in Line /\ log \in File
  BY DEF Entry, Line, Errors, IInv, TypeOK
<1> QED BY <1>1, MarkWrote DEF Send

LEMMA RefuseWrote ==
    ASSUME IInv, NEW i \in Replies, NEW how \in Appends, Refuse(i, how)
    PROVE  log' = log \/ Wrote(log, log', Entry("failed", i, <<"refused", flush.pushed>>))
<1>1. CASE log' = log
  BY <1>1
<1>2. CASE log' = mark(log, Entry("failed", i, <<"refused", flush.pushed>>), how)
  <2>1. flush.pc # "idle" /\ flush.pushed \in Shas
    BY DEF Refuse, IInv, Pushes, TypeOK
  <2>2. Entry("failed", i, <<"refused", flush.pushed>>) \in Line /\ log \in File
    BY <2>1 DEF Entry, Line, Errors, IInv, TypeOK
  <2> QED BY <1>2, <2>2, MarkWrote
<1> QED BY <1>1, <1>2 DEF Refuse, ledger

LEMMA AnsweredWrote ==
    ASSUME IInv, NEW how \in Appends, Answered(how)
    PROVE  /\ flush.reply \in Replies /\ flush.reply \in accepted
           /\ Wrote(log, log', Entry("delivered", flush.reply, None))
<1>1. flush.reply \in Replies /\ flush.reply \in accepted
  BY DEF Answered, Confirms, IInv, Calls
<1>2. Entry("delivered", flush.reply, None) \in Line /\ log \in File
  BY <1>1 DEF Entry, Line, Errors, IInv, TypeOK
<1> QED BY <1>1, <1>2, MarkWrote DEF Answered

LEMMA CatchWrote ==
    ASSUME IInv, NEW how \in Appends, Catch(how)
    PROVE  Wrote(log, log', Entry("failed", flush.reply, <<"error">>))
<1>1. flush.reply \in Replies
  BY DEF Catch, IInv, Calls
<1>2. Entry("failed", flush.reply, <<"error">>) \in Line /\ log \in File
  BY <1>1 DEF Entry, Line, Errors, IInv, TypeOK
<1> QED BY <1>2, MarkWrote DEF Catch

--------------------------------------------------------------------------
\* Types.

LEMMA TypeStep ==
    ASSUME IInv, [Next]_vars
    PROVE  TypeOK'
<1> USE DEF IInv
<1>1. CASE Commit
  <2>1. head' \in Shas
    BY <1>1, ReviewRepliesConstants DEF Commit, TypeOK, Shas
  <2> QED BY <1>1, <2>1 DEF Commit, TypeOK, ledger, platform
<1>2. CASE AgentWrites
  BY <1>2 DEF AgentWrites, TypeOK, ledger, platform
<1>3. CASE Push
  BY <1>3 DEF Push, TypeOK, ledger, platform
<1>4. CASE Settle
  BY <1>4 DEF Settle, TypeOK, ledger, platform
<1>5. CASE StageBegin
  <2>1. stage' \in [pc : {"idle", "append"}, sha : Shas \cup {None}, left : SUBSET Discussions]
    BY <1>5 DEF StageBegin, Uncovered, TypeOK
  <2> QED BY <1>5, <2>1 DEF StageBegin, TypeOK, task, ledger, platform
<1>6. ASSUME NEW d \in Discussions, NEW how \in Appends, StageOne(d, how)
      PROVE  TypeOK'
  <2>1. log' \in File
    BY <1>6, StageOneWrote DEF Wrote
  <2>2. stage' \in [pc : {"idle", "append"}, sha : Shas \cup {None}, left : SUBSET Discussions]
    BY <1>6 DEF StageOne, TypeOK, NoStage
  <2>3. draft' \subseteq Discussions /\ faults' \in Nat
    BY <1>6 DEF StageOne, Writes, TypeOK
  <2> QED BY <1>6, <2>1, <2>2, <2>3 DEF StageOne, TypeOK, platform
<1>7. CASE FlushStart
  <2>1. Pending(log) \subseteq Replies
    BY LoggedReplies DEF Pending, Listed, TypeOK
  <2> QED BY <1>7, <2>1 DEF FlushStart, NoFlush, TypeOK, task, ledger, platform
<1>8. ASSUME NEW i \in Replies, NEW how \in Appends, Refuse(i, how)
      PROVE  TypeOK'
  <2>1. log' \in File
    BY <1>8, RefuseWrote DEF Wrote, TypeOK
  <2>2. faults' \in Nat
    BY <1>8 DEF Refuse, Writes, TypeOK, ledger
  <2>3. /\ flush' \in [pc : {"idle", "next", "posting", "catch", "end"}, pushed : Shas \cup {None},
                       left : SUBSET Replies, reply : Replies \cup {None}]
        /\ stalled' \in BOOLEAN
    BY <1>8 DEF Refuse, GiveUp, NoFlush, TypeOK
  <2> QED BY <1>8, <2>1, <2>2, <2>3 DEF Refuse, TypeOK, task, platform
<1>9. ASSUME NEW i \in Replies, NEW how \in Appends, Send(i, how)
      PROVE  TypeOK'
  <2>1. log' \in File
    BY <1>9, SendWrote DEF Wrote
  <2>2. faults' \in Nat /\ wire' \subseteq Replies
    BY <1>9 DEF Send, Writes, TypeOK
  <2>3. flush' \in [pc : {"idle", "next", "posting", "catch", "end"}, pushed : Shas \cup {None},
                    left : SUBSET Replies, reply : Replies \cup {None}]
    BY <1>9 DEF Send, TypeOK
  <2> QED BY <1>9, <2>1, <2>2, <2>3 DEF Send, TypeOK, task
<1>10. ASSUME NEW i \in Replies, Accept(i)
       PROVE  TypeOK'
  BY <1>10 DEF Accept, TypeOK, task, ledger
<1>11. ASSUME NEW how \in Appends, Answered(how)
       PROVE  TypeOK'
  <2>1. log' \in File
    BY <1>11, AnsweredWrote DEF Wrote
  <2>2. faults' \in Nat
    BY <1>11 DEF Answered, Writes, TypeOK
  <2>3. flush' \in [pc : {"idle", "next", "posting", "catch", "end"}, pushed : Shas \cup {None},
                    left : SUBSET Replies, reply : Replies \cup {None}]
    <3>1. CASE GoOn
      BY <3>1 DEF GoOn, TypeOK
    <3>2. CASE flush' = [flush EXCEPT !.pc = "catch"]
      BY <3>2 DEF TypeOK
    <3> QED BY <1>11, <3>1, <3>2 DEF Answered
  <2> QED BY <1>11, <2>1, <2>2, <2>3 DEF Answered, TypeOK, task, platform
<1>12. CASE Failed
  BY <1>12 DEF Failed, TypeOK, task, ledger, platform
<1>13. ASSUME NEW how \in Appends, Catch(how)
       PROVE  TypeOK'
  <2>1. log' \in File
    BY <1>13, CatchWrote DEF Wrote
  <2>2. faults' \in Nat
    BY <1>13 DEF Catch, Writes, TypeOK
  <2>3. /\ flush' \in [pc : {"idle", "next", "posting", "catch", "end"}, pushed : Shas \cup {None},
                       left : SUBSET Replies, reply : Replies \cup {None}]
        /\ stalled' \in BOOLEAN
    <3>1. CASE GoOn /\ UNCHANGED stalled
      BY <3>1 DEF GoOn, TypeOK
    <3>2. CASE GiveUp
      BY <3>2 DEF GiveUp, NoFlush, TypeOK
    <3> QED BY <1>13, <3>1, <3>2 DEF Catch
  <2> QED BY <1>13, <2>1, <2>2, <2>3 DEF Catch, TypeOK, task, platform
<1>14. CASE FlushEnd
  <2>1. Answers(log) \subseteq Discussions
    BY LoggedReplies DEF Answers, Delivered, Replies, TypeOK
  <2>2. replied' \subseteq Discussions /\ stalled' \in BOOLEAN
    BY <1>14, <2>1 DEF FlushEnd, TypeOK
  <2> QED BY <1>14, <2>2 DEF FlushEnd, NoFlush, TypeOK, task, ledger, platform
<1>15. CASE Restart
  BY <1>15 DEF Restart, NoStage, NoFlush, TypeOK, task, ledger, platform
<1>16. CASE UNCHANGED vars
  BY <1>16 DEF vars, TypeOK, task, ledger, platform
<1> QED BY <1>1, <1>2, <1>3, <1>4, <1>5, <1>6, <1>7, <1>8, <1>9, <1>10, <1>11, <1>12,
          <1>13, <1>14, <1>15, <1>16 DEF Next

--------------------------------------------------------------------------
\* What each write does to the replies on record.

\* An attempt or a failure neither lists nor delivers a reply.
LEMMA Noted ==
    ASSUME NEW f, NEW g, NEW op \in {"attempt", "failed"}, NEW id, NEW error,
           Wrote(f, g, Entry(op, id, error))
    PROVE  /\ Readable(f) => Readable(g)
           /\ Listed(g) = Listed(f) /\ Delivered(g) = Delivered(f)
BY DEF Wrote, Entry

LEMMA Enqueued ==
    ASSUME NEW f, NEW g, NEW id, Wrote(f, g, Entry("enqueue", id, None))
    PROVE  /\ Readable(f) => Readable(g)
           /\ Delivered(g) = Delivered(f)
           /\ Listed(g) \in {Listed(f), Listed(f) \cup {id}}
BY DEF Wrote, Entry

LEMMA WasDelivered ==
    ASSUME NEW f, NEW g, NEW id, Wrote(f, g, Entry("delivered", id, None))
    PROVE  /\ Readable(f) => Readable(g)
           /\ Listed(g) = Listed(f)
           /\ Delivered(g) \in {Delivered(f), Delivered(f) \cup {id}}
BY DEF Wrote, Entry

\* The invariant without its types.
Rest ==
    /\ LogReadable
    /\ Delivered(log) \subseteq accepted
    /\ OnRecord
    /\ Pushes
    /\ Calls
    /\ RepliedTruly

\* A step that leaves the replies on record, on their way, arrived and
\* counted as they are keeps the invariant if the pushes and calls do.
LEMMA Aside ==
    ASSUME Rest, LogReadable => LogReadable',
           Listed(log') = Listed(log), Delivered(log') = Delivered(log),
           UNCHANGED <<wire, accepted, replied>>, published \subseteq published',
           Pushes', Calls'
    PROVE  Rest'
<1>1. OnRecord'
  BY DEF Rest, OnRecord
<1>2. RepliedTruly'
  BY DEF Rest, RepliedTruly
<1>3. Delivered(log') \subseteq accepted'
  BY DEF Rest
<1> QED BY <1>1, <1>2, <1>3 DEF Rest

LEMMA RestStep ==
    ASSUME IInv, [Next]_vars
    PROVE  Rest'
<1> USE DEF IInv
<1>0. Rest
  BY DEF Rest
<1>1. CASE Commit
  BY <1>0, <1>1, Aside DEF Commit, ledger, platform, LogReadable, Pushes, Calls
<1>2. CASE AgentWrites
  BY <1>0, <1>2, Aside DEF AgentWrites, ledger, platform, LogReadable, Pushes, Calls
<1>3. CASE Push
  BY <1>0, <1>3, Aside DEF Push, ledger, platform, LogReadable, Pushes, Calls
<1>4. CASE Settle
  BY <1>0, <1>4, Aside DEF Settle, ledger, platform, LogReadable, Pushes, Calls
<1>5. CASE StageBegin
  BY <1>0, <1>5, Aside DEF StageBegin, task, ledger, platform, LogReadable, Pushes, Calls, TypeOK
<1>6. ASSUME NEW d \in Discussions, NEW how \in Appends, StageOne(d, how)
      PROVE  Rest'
  <2>1. /\ LogReadable'
        /\ Delivered(log') = Delivered(log) /\ Listed(log) \subseteq Listed(log')
    <3>1. Wrote(log, log', Entry("enqueue", <<d, stage.sha>>, None))
      BY <1>6, StageOneWrote
    <3>2. /\ Readable(log) => Readable(log')
          /\ Delivered(log') = Delivered(log)
          /\ Listed(log') \in {Listed(log), Listed(log) \cup {<<d, stage.sha>>}}
      BY <3>1, Enqueued
    <3> QED BY <3>2 DEF LogReadable
  <2>2. OnRecord' /\ RepliedTruly'
    BY <1>6, <2>1 DEF StageOne, OnRecord, RepliedTruly, platform
  <2>3. Pushes'
    BY <1>6 DEF StageOne, Pushes
  <2>4. Calls'
    BY <1>6 DEF StageOne, Calls, NoStage, TypeOK
  <2> QED BY <1>6, <2>1, <2>2, <2>3, <2>4 DEF Rest, StageOne, platform
<1>7. CASE FlushStart
  BY <1>0, <1>7, Aside DEF FlushStart, NoFlush, task, ledger, platform, LogReadable, Pushes, Calls
<1>8. ASSUME NEW i \in Replies, NEW how \in Appends, Refuse(i, how)
      PROVE  Rest'
  <2>1. /\ LogReadable'
        /\ Listed(log') = Listed(log) /\ Delivered(log') = Delivered(log)
    BY <1>8, RefuseWrote, Noted DEF LogReadable
  <2>2. flush' = NoFlush \/ flush' = [flush EXCEPT !.left = @ \ {i}]
    BY <1>8 DEF Refuse, GiveUp
  <2>3. Pushes' /\ Calls'
    BY <1>8, <2>2 DEF Refuse, NoFlush, TypeOK, Pushes, Calls, task
  <2> QED BY <1>0, <1>8, <2>1, <2>3, Aside DEF Refuse, platform
<1>9. ASSUME NEW i \in Replies, NEW how \in Appends, Send(i, how)
      PROVE  Rest'
  <2>1. /\ LogReadable'
        /\ Listed(log') = Listed(log) /\ Delivered(log') = Delivered(log)
    BY <1>9, SendWrote, Noted DEF LogReadable
  <2>2. flush.pushed \in published
    BY <1>9 DEF Send, Pushes
  <2>3. wire' \subseteq wire \cup (IF i \in Listed(log) /\ i[2] \in published THEN {i} ELSE {})
    BY <1>9, <2>2 DEF Send, Sendable, Marked, Entry, Pending
  <2>4. OnRecord' /\ RepliedTruly'
    BY <1>9, <2>1, <2>3 DEF Send, OnRecord, RepliedTruly
  <2>5. Pushes' /\ Calls'
    BY <1>9 DEF Send, TypeOK, Pushes, Calls, task
  <2> QED BY <1>9, <2>1, <2>4, <2>5 DEF Rest, Send
<1>10. ASSUME NEW i \in Replies, Accept(i)
       PROVE  Rest'
  <2>1. LogReadable' /\ Delivered(log') \subseteq accepted'
    BY <1>10 DEF Accept, LogReadable, ledger
  <2>2. OnRecord' /\ RepliedTruly'
    BY <1>10 DEF Accept, OnRecord, RepliedTruly, ledger
  <2>3. Pushes' /\ Calls'
    BY <1>10 DEF Accept, Pushes, Calls, task
  <2> QED BY <2>1, <2>2, <2>3 DEF Rest
<1>11. ASSUME NEW how \in Appends, Answered(how)
       PROVE  Rest'
  <2>1. /\ LogReadable'
        /\ Listed(log') = Listed(log) /\ Delivered(log') \subseteq accepted
    BY <1>11, AnsweredWrote, WasDelivered DEF LogReadable
  <2>2. OnRecord' /\ RepliedTruly'
    BY <1>11, <2>1 DEF Answered, OnRecord, RepliedTruly, platform
  <2>3. /\ flush'.pushed = flush.pushed
        /\ flush'.pc = "catch" => flush'.reply = flush.reply
        /\ flush'.pc # "posting"
    <3>1. CASE GoOn
      BY <3>1 DEF GoOn, TypeOK
    <3>2. CASE flush' = [flush EXCEPT !.pc = "catch"]
      BY <3>2 DEF TypeOK
    <3> QED BY <1>11, <3>1, <3>2 DEF Answered
  <2>4. Pushes' /\ Calls'
    BY <1>11, <2>3, AnsweredWrote DEF Answered, Pushes, Calls, task
  <2> QED BY <1>11, <2>1, <2>2, <2>4 DEF Rest, Answered, platform
<1>12. CASE Failed
  BY <1>0, <1>12, Aside DEF Failed, task, ledger, platform, LogReadable, Pushes, Calls, TypeOK
<1>13. ASSUME NEW how \in Appends, Catch(how)
       PROVE  Rest'
  <2>1. /\ LogReadable'
        /\ Listed(log') = Listed(log) /\ Delivered(log') = Delivered(log)
    BY <1>13, CatchWrote, Noted DEF LogReadable
  <2>2. /\ flush'.pc # "idle" => flush'.pushed = flush.pushed
        /\ flush'.pc \notin {"posting", "catch"}
    <3>1. CASE GoOn
      BY <3>1 DEF GoOn, TypeOK
    <3>2. CASE GiveUp
      BY <3>2 DEF GiveUp, NoFlush
    <3> QED BY <1>13, <3>1, <3>2 DEF Catch
  <2>3. Pushes' /\ Calls'
    BY <1>13, <2>2 DEF Catch, Pushes, Calls, task
  <2> QED BY <1>0, <1>13, <2>1, <2>3, Aside DEF Catch, platform
<1>14. CASE FlushEnd
  <2>1. \A d \in Answers(log) : \E i \in accepted : i[1] = d
    BY DEF Answers
  <2>2. RepliedTruly'
    BY <1>14, <2>1 DEF FlushEnd, RepliedTruly, platform
  <2>3. LogReadable' /\ Delivered(log') \subseteq accepted' /\ OnRecord'
    BY <1>14 DEF FlushEnd, LogReadable, OnRecord, ledger, platform
  <2>4. Pushes' /\ Calls'
    BY <1>14 DEF FlushEnd, NoFlush, Pushes, Calls, task
  <2> QED BY <2>2, <2>3, <2>4 DEF Rest
<1>15. CASE Restart
  BY <1>0, <1>15, Aside DEF Restart, NoStage, NoFlush, task, ledger, platform, LogReadable, Pushes, Calls
<1>16. CASE UNCHANGED vars
  BY <1>0, <1>16, Aside DEF vars, task, ledger, platform, LogReadable, Pushes, Calls
<1> QED BY <1>1, <1>2, <1>3, <1>4, <1>5, <1>6, <1>7, <1>8, <1>9, <1>10, <1>11, <1>12,
          <1>13, <1>14, <1>15, <1>16 DEF Next

--------------------------------------------------------------------------
\* What is staged.

LEMMA EnqueueWhole ==
    ASSUME NEW f \in File, NEW e \in Line, e.op = "enqueue"
    PROVE  Listed(append(f, e, "whole")) = Listed(f) \cup {e.id}
<1> SUFFICES ASSUME NEW g \in File, g.lines = Append(f.lines, e)
             PROVE  Listed(g) = Listed(f) \cup {e.id}
  BY AppendLines DEF Appends
<1>1. Logged(g, "enqueue") = Logged(f, "enqueue") \cup (IF e.op = "enqueue" THEN {e.id} ELSE {})
  BY LoggedAppend
<1> QED BY <1>1 DEF Listed

\* An enqueue line that was written whole puts its reply on record.
LEMMA StageOneWhole ==
    ASSUME IInv, NEW d \in Discussions, StageOne(d, "whole")
    PROVE  Listed(log') = Listed(log) \cup {<<d, stage.sha>>}
<1> DEFINE e == Entry("enqueue", <<d, stage.sha>>, None)
<1>1. stage.sha \in Shas
  BY StageOneWrote DEF Appends
<1>2. e \in Line /\ e.op = "enqueue" /\ e.id = <<d, stage.sha>>
  BY <1>1 DEF Entry, Line, Errors, Replies
<1>3. log' = append(log, e, "whole") /\ log \in File
  BY DEF StageOne, IInv, TypeOK
<1> HIDE DEF e
<1> QED BY <1>2, <1>3, EnqueueWhole

\* No reply leaves the record.
LEMMA ListedGrows ==
    ASSUME IInv, [Next]_vars
    PROVE  Listed(log) \subseteq Listed(log') /\ replied \subseteq replied'
<1>1. CASE \/ Commit \/ AgentWrites \/ Push \/ Settle \/ StageBegin \/ FlushStart
           \/ Failed \/ FlushEnd \/ Restart \/ UNCHANGED vars
  <2>1. UNCHANGED log /\ replied \subseteq replied'
    BY <1>1 DEF Commit, AgentWrites, Push, Settle, StageBegin, FlushStart, Failed, FlushEnd,
                Restart, vars, ledger
  <2> QED BY <2>1
<1>2. ASSUME NEW d \in Discussions, NEW how \in Appends, StageOne(d, how)
      PROVE  Listed(log) \subseteq Listed(log') /\ UNCHANGED replied
  <2>1. Wrote(log, log', Entry("enqueue", <<d, stage.sha>>, None))
    BY <1>2, StageOneWrote
  <2>2. Listed(log') \in {Listed(log), Listed(log) \cup {<<d, stage.sha>>}}
    BY <2>1, Enqueued
  <2> QED BY <1>2, <2>2 DEF StageOne
<1>3. ASSUME NEW i \in Replies, NEW how \in Appends, Refuse(i, how)
      PROVE  Listed(log) \subseteq Listed(log') /\ UNCHANGED replied
  BY <1>3, RefuseWrote, Noted DEF Refuse
<1>4. ASSUME NEW i \in Replies, NEW how \in Appends, Send(i, how)
      PROVE  Listed(log) \subseteq Listed(log') /\ UNCHANGED replied
  BY <1>4, SendWrote, Noted DEF Send
<1>5. ASSUME NEW i \in Replies, Accept(i)
      PROVE  Listed(log) \subseteq Listed(log') /\ UNCHANGED replied
  BY <1>5 DEF Accept, ledger
<1>6. ASSUME NEW how \in Appends, Answered(how)
      PROVE  Listed(log) \subseteq Listed(log') /\ UNCHANGED replied
  BY <1>6, AnsweredWrote, WasDelivered DEF Answered
<1>7. ASSUME NEW how \in Appends, Catch(how)
      PROVE  Listed(log) \subseteq Listed(log') /\ UNCHANGED replied
  BY <1>7, CatchWrote, Noted DEF Catch
<1> QED BY <1>1, <1>2, <1>3, <1>4, <1>5, <1>6, <1>7 DEF Next

LEMMA CoveredStep ==
    ASSUME IInv, [Next]_vars
    PROVE  Covered'
<1>1. CASE stage' = stage \/ stage' = NoStage
  BY <1>1, ListedGrows DEF IInv, Covered, NoStage
<1>2. CASE StageBegin
  BY <1>2 DEF StageBegin, Uncovered, Staged, Covered, ledger
<1>3. ASSUME NEW d \in Discussions, NEW how \in Appends, StageOne(d, how),
             stage' # stage, stage' # NoStage
      PROVE  Covered'
  <2>1. how = "whole" /\ stage' = [stage EXCEPT !.left = @ \ {d}] /\ stage.pc = "append"
    BY <1>3 DEF StageOne
  <2>2. Listed(log') = Listed(log) \cup {<<d, stage.sha>>} /\ UNCHANGED replied
    BY <1>3, <2>1, StageOneWhole DEF StageOne
  <2>3. stage'.sha = stage.sha /\ stage'.left = stage.left \ {d}
    BY <2>1 DEF IInv, TypeOK
  <2> QED BY <2>1, <2>2, <2>3 DEF IInv, Covered
<1>4. \/ stage' = stage \/ stage' = NoStage \/ StageBegin
      \/ \E d \in Discussions, how \in Appends : StageOne(d, how)
  BY DEF Next, vars, Commit, AgentWrites, Push, Settle, FlushStart, Failed, FlushEnd, Restart,
         Refuse, Send, Accept, Answered, Catch
<1> QED BY <1>1, <1>2, <1>3, <1>4

--------------------------------------------------------------------------
\* The invariant holds in every reachable state.
THEOREM Invariance == Spec => []IInv
<1>1. Init => IInv
  BY InitIInv
<1>2. IInv /\ [Next]_vars => IInv'
  BY TypeStep, RestStep, CoveredStep DEF IInv, Rest
<1> QED BY <1>1, <1>2, PTL DEF Spec

\* Every variable keeps its type, whatever fails and wherever the process dies.
THEOREM TypeCorrect == Spec => []TypeOK
<1>1. IInv => TypeOK
  BY DEF IInv
<1> QED BY <1>1, Invariance, PTL

\* The file can be read after any number of appends that failed half-way and
\* of restarts: a torn line is never taken for one, and no line is written
\* about a reply that is not on record or has been delivered (`list` and
\* `requirePending` of deliveryOutbox.ts).
THEOREM AlwaysReadable == Spec => []LogReadable
<1>1. IInv => LogReadable
  BY DEF IInv
<1> QED BY <1>1, Invariance, PTL

\* A discussion that the task counts as answered (loop.replied_ids) has an
\* answer on the platform.
THEOREM AnswersAreTrue == Spec => []RepliedTruly
<1>1. IInv => RepliedTruly
  BY DEF IInv
<1> QED BY <1>1, Invariance, PTL

\* The agent's draft is emptied only when each of its answers is in the log
\* or on the platform (`stageReviewReplies`), so that a call that died or
\* failed half-way can be repeated from the draft.
THEOREM DraftsAreKept == Spec => DraftKept
<1>1. IInv /\ [Next]_vars =>
        [draft # {} /\ draft' = {} =>
            \A d \in draft : d \in replied \/ <<d, stage.sha>> \in Listed(log')]_vars
  <2> SUFFICES ASSUME IInv, Next, draft # {}, draft' = {}, NEW d \in draft
               PROVE  d \in replied \/ <<d, stage.sha>> \in Listed(log')
    OBVIOUS
  <2>1. PICK c \in Discussions, how \in Appends : StageOne(c, how)
    <3>1. ~AgentWrites
      BY DEF AgentWrites
    <3>2. draft' # draft
      OBVIOUS
    <3>3. ~(Commit \/ Push \/ Settle)
      BY <3>2 DEF Commit, Push, Settle
    <3>4. ~(StageBegin \/ FlushStart \/ Failed \/ FlushEnd \/ Restart)
      BY <3>2 DEF StageBegin, FlushStart, Failed, FlushEnd, Restart, task
    <3>5. \A how \in Appends : ~(Answered(how) \/ Catch(how))
      BY <3>2 DEF Answered, Catch, task
    <3>6. \A i \in Replies, how \in Appends : ~(Accept(i) \/ Refuse(i, how) \/ Send(i, how))
      BY <3>2 DEF Accept, Refuse, Send, task
    <3>7. \A i \in Replies : ~Accept(i)
      BY <3>2 DEF Accept, task
    <3> QED BY <3>1, <3>3, <3>4, <3>5, <3>6, <3>7 DEF Next
  <2>2. how = "whole" /\ stage.left \subseteq {c} /\ stage.pc = "append"
    BY <2>1 DEF StageOne, Cleared
  <2>3. Listed(log') = Listed(log) \cup {<<c, stage.sha>>}
    BY <2>1, <2>2, StageOneWhole
  <2>4. d \in Discussions
    BY DEF IInv, TypeOK
  <2> QED BY <2>2, <2>3, <2>4 DEF IInv, Covered
<1> QED BY <1>1, Invariance, PTL DEF Spec, DraftKept

\* The outbox and its flush implement ReplyLedger: a push is its Publish, an
\* enqueue line its Record, the platform's acceptance its Receive, a
\* delivered line its Deliver; everything else is invisible to it.
THEOREM Implements == Spec => KeepsPromise
<1>1. Init => Promise!Init
  BY EmptyFile DEF Init, Promise!Init, Listed, Delivered
<1>2. IInv /\ [Next]_vars => [Promise!Next]_(Promise!vars)
  <2> SUFFICES ASSUME IInv, [Next]_vars
               PROVE  Promise!Next \/ UNCHANGED Promise!vars
    OBVIOUS
  <2> DEFINE Stutters == /\ UNCHANGED <<published, accepted>>
                         /\ Listed(log') = Listed(log) /\ Delivered(log') = Delivered(log)
  <2>0. Stutters => UNCHANGED Promise!vars
    BY DEF Promise!vars
  <2>1. CASE \/ Commit \/ AgentWrites \/ Settle \/ StageBegin \/ FlushStart
             \/ Failed \/ FlushEnd \/ Restart \/ UNCHANGED vars
    <3>1. UNCHANGED <<published, accepted, log>>
      BY <2>1 DEF Commit, AgentWrites, Settle, StageBegin, FlushStart, Failed, FlushEnd,
                  Restart, vars, ledger, platform
    <3> QED BY <2>0, <3>1
  <2>2. CASE Push
    <3>1. head \in Shas /\ published' = published \cup {head}
          /\ UNCHANGED <<log, accepted>>
      BY <2>2 DEF Push, IInv, TypeOK, ledger, platform
    <3>2. Promise!Publish(head)
      BY <3>1 DEF Promise!Publish
    <3> QED BY <3>1, <3>2 DEF Promise!Next
  <2>3. ASSUME NEW d \in Discussions, NEW how \in Appends, StageOne(d, how)
        PROVE  Promise!Next \/ UNCHANGED Promise!vars
    <3> DEFINE reply == <<d, stage.sha>>
    <3>1. reply \in Promise!Replies /\ Wrote(log, log', Entry("enqueue", reply, None))
      BY <2>3, StageOneWrote DEF Promise!Replies
    <3> HIDE DEF reply
    <3>2. Delivered(log') = Delivered(log) /\ Listed(log') \in {Listed(log), Listed(log) \cup {reply}}
      BY <3>1, Enqueued
    <3>3. UNCHANGED <<published, accepted>>
      BY <2>3 DEF StageOne, platform
    <3>4. CASE Listed(log') = Listed(log)
      BY <2>0, <3>2, <3>3, <3>4
    <3>5. CASE Listed(log') = Listed(log) \cup {reply}
      <4>1. Promise!Record(reply)
        BY <3>2, <3>3, <3>5 DEF Promise!Record
      <4> QED BY <3>1, <4>1 DEF Promise!Next
    <3> QED BY <3>2, <3>4, <3>5
  <2>4. ASSUME NEW i \in Replies, NEW how \in Appends, Refuse(i, how)
        PROVE  Promise!Next \/ UNCHANGED Promise!vars
    <3>1. Listed(log') = Listed(log) /\ Delivered(log') = Delivered(log)
      BY <2>4, RefuseWrote, Noted
    <3>2. UNCHANGED <<published, accepted>>
      BY <2>4 DEF Refuse, platform
    <3> QED BY <2>0, <3>1, <3>2
  <2>5. ASSUME NEW i \in Replies, NEW how \in Appends, Send(i, how)
        PROVE  Promise!Next \/ UNCHANGED Promise!vars
    <3>1. Listed(log') = Listed(log) /\ Delivered(log') = Delivered(log)
      BY <2>5, SendWrote, Noted
    <3>2. UNCHANGED <<published, accepted>>
      BY <2>5 DEF Send
    <3> QED BY <2>0, <3>1, <3>2
  <2>6. ASSUME NEW i \in Replies, Accept(i)
        PROVE  Promise!Next \/ UNCHANGED Promise!vars
    <3>1. i \in Listed(log) /\ i[2] \in published
      BY <2>6 DEF Accept, IInv, OnRecord
    <3>2. Promise!Receive(i)
      BY <2>6, <3>1 DEF Accept, ledger, Promise!Receive
    <3>3. i \in Promise!Replies
      BY DEF Replies, Promise!Replies
    <3> QED BY <3>2, <3>3 DEF Promise!Next
  <2>7. ASSUME NEW how \in Appends, Answered(how)
        PROVE  Promise!Next \/ UNCHANGED Promise!vars
    <3>1. /\ flush.reply \in Promise!Replies /\ flush.reply \in accepted
          /\ Wrote(log, log', Entry("delivered", flush.reply, None))
      BY <2>7, AnsweredWrote DEF Replies, Promise!Replies
    <3>2. /\ Listed(log') = Listed(log)
          /\ Delivered(log') \in {Delivered(log), Delivered(log) \cup {flush.reply}}
      BY <3>1, WasDelivered
    <3>3. UNCHANGED <<published, accepted>>
      BY <2>7 DEF Answered, platform
    <3>4. CASE Delivered(log') = Delivered(log)
      BY <2>0, <3>2, <3>3, <3>4
    <3>5. CASE Delivered(log') = Delivered(log) \cup {flush.reply}
      <4>1. Promise!Deliver(flush.reply)
        BY <3>1, <3>2, <3>3, <3>5 DEF Promise!Deliver
      <4> QED BY <3>1, <4>1 DEF Promise!Next
    <3> QED BY <3>2, <3>4, <3>5
  <2>8. ASSUME NEW how \in Appends, Catch(how)
        PROVE  Promise!Next \/ UNCHANGED Promise!vars
    <3>1. Listed(log') = Listed(log) /\ Delivered(log') = Delivered(log)
      BY <2>8, CatchWrote, Noted
    <3>2. UNCHANGED <<published, accepted>>
      BY <2>8 DEF Catch, platform
    <3> QED BY <2>0, <3>1, <3>2
  <2> QED BY <2>1, <2>2, <2>3, <2>4, <2>5, <2>6, <2>7, <2>8 DEF Next
<1> QED BY <1>1, <1>2, Invariance, PTL DEF Spec, KeepsPromise, Promise!Spec

--------------------------------------------------------------------------
\* What is sent.

\* A line that was appended is counted once.
LEMMA AttemptsAppend ==
    ASSUME NEW f \in File, NEW g \in File, NEW id \in Replies,
           g.lines = Append(f.lines, Entry("attempt", id, None))
    PROVE  attempts(g, id) = attempts(f, id) + 1
<1> DEFINE e == Entry("attempt", id, None)
           n == Len(f.lines) + 1
           A == {m \in DOMAIN f.lines : f.lines[m] = e}
           B == {m \in DOMAIN g.lines : g.lines[m] = e}
<1>1. e \in Line
  BY DEF Entry, Line, Errors
<1>2. f.lines \in Seq(Line) /\ DOMAIN g.lines = 1..n /\ DOMAIN f.lines = 1..(n - 1) /\ n \in Nat
  BY <1>1 DEF File
<1>3. g.lines[n] = e /\ \A m \in 1..(n - 1) : g.lines[m] = f.lines[m]
  BY <1>1, <1>2 DEF File
<1>4. n \in 1..n /\ n \notin 1..(n - 1) /\ 1..(n - 1) \subseteq 1..n
      /\ \A m \in 1..n : m # n => m \in 1..(n - 1)
  BY <1>2
<1> HIDE DEF e, n
<1>5. B = A \cup {n} /\ n \notin A
  BY <1>2, <1>3, <1>4
<1>6. IsFiniteSet(A)
  <2>1. IsFiniteSet(1..(n - 1))
    BY <1>2, FS_Interval
  <2> QED BY <1>2, <2>1, FS_Subset
<1> HIDE DEF A, B
<1>7. Cardinality(B) = Cardinality(A) + 1
  BY <1>5, <1>6, FS_AddElement
<1>8. attempts(f, id) = Cardinality(A) /\ attempts(g, id) = Cardinality(B)
  BY DEF attempts, A, B, e
<1> QED BY <1>7, <1>8

\* A request is on its way only by Send.
LEMMA PostingBySend ==
    ASSUME IInv, Next, flush'.pc = "posting", flush # flush'
    PROVE  \E i \in Replies, how \in Appends : Send(i, how)
<1>1. NoFlush.pc # "posting"
  BY DEF NoFlush
<1>2. flush' # NoFlush
  BY <1>1
<1>3. ~(Commit \/ AgentWrites \/ Push \/ Settle \/ StageBegin)
  BY DEF Commit, AgentWrites, Push, Settle, StageBegin
<1>4. \A d \in Discussions, how \in Appends : ~StageOne(d, how)
  BY DEF StageOne
<1>5. ~(FlushEnd \/ Restart)
  BY <1>2 DEF FlushEnd, Restart
<1>6. ~FlushStart
  BY DEF FlushStart
<1>7. flush' # [flush EXCEPT !.pc = "catch"] /\ ~GoOn
  BY DEF GoOn, IInv, TypeOK
<1>8. ~Failed
  BY <1>7 DEF Failed
<1>9. \A how \in Appends : ~(Answered(how) \/ Catch(how))
  BY <1>2, <1>7 DEF Answered, Catch, GiveUp
<1>10. ASSUME NEW i \in Replies, NEW how \in Appends PROVE ~Refuse(i, how)
  BY <1>2 DEF Refuse, GiveUp, IInv, TypeOK
<1>11. \A i \in Replies : ~Accept(i)
  BY DEF Accept
<1> QED BY <1>3, <1>4, <1>5, <1>6, <1>8, <1>9, <1>10, <1>11 DEF Next

\* A request leaves only for a reply the log has as pending, with its attempt
\* in the log (markAttempt before the request): what is recorded as delivered
\* is never sent again, whatever was repeated, lost or restarted.
THEOREM SendsAreLogged == Spec => SentFromLog
<1>1. IInv /\ [Next]_vars =>
        [\A i \in Replies :
            flush'.pc = "posting" /\ flush'.reply = i /\ flush # flush' =>
                /\ i \in Pending(log)
                /\ attempts(log', i) = attempts(log, i) + 1]_vars
  <2> SUFFICES ASSUME IInv, Next, NEW i \in Replies,
                      flush'.pc = "posting", flush'.reply = i, flush # flush'
               PROVE  i \in Pending(log) /\ attempts(log', i) = attempts(log, i) + 1
    BY DEF vars
  <2> DEFINE attempt == Entry("attempt", i, None)
  <2>1. PICK how \in Appends : Send(i, how)
    <3>1. PICK j \in Replies, how \in Appends : Send(j, how)
      BY PostingBySend
    <3>2. flush'.reply = j
      BY <3>1 DEF Send, IInv, TypeOK
    <3> QED BY <3>1, <3>2
  <2>2. Marked(log, attempt, how) /\ log' = mark(log, attempt, how)
    BY <2>1 DEF Send, IInv, TypeOK
  <2>3. attempt \in Line /\ attempt.id = i /\ log \in File
    BY DEF Entry, Line, Errors, IInv, TypeOK
  <2>4. i \in Pending(log) /\ how = "whole"
    BY <2>2, <2>3 DEF Marked
  <2>5. log' = append(log, attempt, "whole")
    BY <2>2, <2>3, <2>4 DEF mark
  <2>6. log' \in File /\ log'.lines = Append(log.lines, attempt)
    BY <2>3, <2>5, AppendLines DEF Appends
  <2> QED BY <2>3, <2>4, <2>6, AttemptsAppend
<1> QED BY <1>1, Invariance, PTL DEF Spec, SentFromLog

=============================================================================
