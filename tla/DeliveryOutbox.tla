--------------------------- MODULE DeliveryOutbox ---------------------------
(***************************************************************************)
(* The append-only file of review replies (src/deliveryOutbox.ts).  A file *)
(* is the sequence of its complete lines and the way it ends: with a       *)
(* newline, with a last line whose newline was never written ("bare"), or  *)
(* with a fragment of a line behind the last complete one ("torn").  What  *)
(* `list` computes by replaying the lines is said here of the lines        *)
(* themselves: a reply is listed by an enqueue line and delivered by a     *)
(* delivered line.                                                         *)
(***************************************************************************)
EXTENDS Naturals, Sequences, FiniteSets

CONSTANT None

Tails == {"newline", "bare", "torn"}

\* How an append may end: as intended, or in an exception (or the death of
\* the process) after all of the line but its newline, a part of it, or
\* nothing was written.
Appends == {"whole", "bare", "torn", "none"}

Empty == [lines |-> <<>>, tail |-> "newline"]

Entry(op, id, error) == [op |-> op, id |-> id, error |-> error]

Logged(f, op) == {f.lines[n].id : n \in {m \in DOMAIN f.lines : f.lines[m].op = op}}

Listed(f) == Logged(f, "enqueue")
Delivered(f) == Logged(f, "delivered")
Pending(f) == Listed(f) \ Delivered(f)

attempts(f, id) == Cardinality({n \in DOMAIN f.lines : f.lines[n] = Entry("attempt", id, None)})

\* An attempt clears the error that a failure has left.
last_error(f, id) ==
    LET marks == {n \in DOMAIN f.lines : f.lines[n].id = id /\ f.lines[n].op \in {"attempt", "failed"}}
    IN  IF marks = {} THEN None
        ELSE f.lines[CHOOSE n \in marks : \A m \in marks : m <= n].error

\* `list` returns instead of throwing: a line about a reply follows the line
\* that enqueued it, and no line follows the one that delivered it.
Readable(f) ==
    \A n \in DOMAIN f.lines : f.lines[n].op # "enqueue" =>
        /\ \E m \in 1..(n - 1) : f.lines[m].op = "enqueue" /\ f.lines[m].id = f.lines[n].id
        /\ \A m \in 1..(n - 1) : ~(f.lines[m].op = "delivered" /\ f.lines[m].id = f.lines[n].id)

\* Mutant of append: a last line without a newline is taken for a fragment.
append_DropsBareLine(f, entry, how) ==
    LET kept == IF f.tail = "bare" THEN SubSeq(f.lines, 1, Len(f.lines) - 1) ELSE f.lines
    IN  [lines |-> IF how \in {"whole", "bare"} THEN Append(kept, entry) ELSE kept,
         tail |-> CASE how = "whole" -> "newline" [] how = "none" -> "newline" [] OTHER -> how]

\* A fragment is cut off first; a bare line is kept and set apart.
append(f, entry, how) ==
    [lines |-> IF how \in {"whole", "bare"} THEN Append(f.lines, entry) ELSE f.lines,
     tail |-> CASE how = "whole" -> "newline"
                [] how = "none"  -> IF f.tail = "torn" THEN "newline" ELSE f.tail
                [] OTHER         -> how]

\* Mutant of mark: nobody looks whether the reply has been delivered meanwhile.
mark_Unchecked(f, entry, how) == append(f, entry, how)

\* markAttempt, markFailed and markDelivered want a pending reply ...
mark(f, entry, how) == IF entry.id \in Pending(f) THEN append(f, entry, how) ELSE f

\* Mutant of Marked: an exception of the append is swallowed.
Marked_Swallowed(f, entry, how) == entry.id \in Pending(f)

\* ... and return if they had one and could write the line.
Marked(f, entry, how) == entry.id \in Pending(f) /\ how = "whole"
=============================================================================
