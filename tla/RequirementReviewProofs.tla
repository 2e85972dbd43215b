---------------------- MODULE RequirementReviewProofs ----------------------
(***************************************************************************)
(* What the review of the requirement document guarantees for any number   *)
(* of comments, versions, pauses and restarts: no comment is forgotten, a  *)
(* receipt that says "fixed" is true of the document, no version of a      *)
(* comment is given to an agent twice, and a confirmed document is frozen. *)
(***************************************************************************)
EXTENDS RequirementReview, FiniteSetTheorems, TLAPS

\* Runs are numbered upwards, and a run works on versions it was given.
Numbered ==
    /\ \A d \in drains : d.run < Fresh /\ d.batch \subseteq handed
    /\ revision # None => revision.id < Fresh

\* What was given away is not newer than its comment, and it is older when
\* the comment is still to be given away.
GivenAway ==
    \A c \in Comment : \A n \in 0..MaxVersion :
        <<c, n>> \in handed =>
            /\ n <= comment[c].version
            /\ comment[c].status \in {"draft", "requirement_queue"} =>
                 n < comment[c].version

\* A comment that was sent can be given back as a next version, and is
\* processed with a response only.
SentFacts ==
    \A c \in Comment :
        /\ comment[c].status \in Sent => comment[c].version < MaxVersion
        /\ comment[c].status = "interrupt" => comment[c].response # None

\* The queue is in use only while the task waits for people.
Phases ==
    /\ \A c \in Comment : comment[c].status \in InHand => status = "waiting_for_human"
    /\ confirmed => status # "waiting_for_human"
    /\ writer # None => status \notin {"paused", "canceled"}
    /\ auxEpoch <= controlEpoch

\* The pause that has the last word is still to come.
Stopping == controlEpoch \in pauses

\* What is in hand is in the batch of a loop of this epoch, what lines up
\* has such a loop to read it, and so has whatever will line up at the lock,
\* unless a pause is about to give everything back.
Guarded ==
    \/ Stopping
    \/ /\ \A c \in Comment :
            /\ comment[c].status = "requirement_review" =>
                 \E d \in drains : d.epoch = auxEpoch /\ Version(c) \in d.batch
            /\ comment[c].status = "requirement_queue" =>
                 \E d \in drains : d.epoch = auxEpoch
       /\ writer # None => \E d \in drains : d.epoch = auxEpoch /\ d.loop = writer

\* The run the task record names works on a copy of the document as it is.
CopyCurrent ==
    \A d \in drains :
        revision # None /\ revision.id = d.run => d.copy = document

Inv ==
    TypeOK /\ Numbered /\ GivenAway /\ SentFacts /\ Phases /\ Guarded
    /\ CopyCurrent /\ ReceiptsTrue
-----------------------------------------------------------------------------
\* The numbers of the runs.

\* There are finitely many versions of comments.
LEMMA FiniteKeys ==
    /\ IsFiniteSet(VersionKey)
    /\ \A S \in SUBSET VersionKey : IsFiniteSet(S) /\ Cardinality(S) \in Nat
<1>1. IsFiniteSet(0..MaxVersion)
  BY FS_Interval, BoundAssumption
<1>2. IsFiniteSet(VersionKey)
  BY <1>1, FS_Product, CommentAssumption DEF VersionKey
<1> QED BY <1>2, FS_Subset, FS_CardinalityType

\* A batch that was never given away moves the number of the next run.
LEMMA NextRun ==
    ASSUME TypeOK, NEW batch \in SUBSET VersionKey, batch # {},
           batch \cap handed = {}, handed' = handed \cup batch
    PROVE  /\ Fresh \in Nat /\ Fresh' \in Nat
           /\ Fresh < Fresh'
<1>1. handed \in SUBSET VersionKey /\ handed' \in SUBSET VersionKey /\ handed # handed'
  BY DEF TypeOK
<1>2. Cardinality(handed) <= Cardinality(handed') /\ Cardinality(handed) # Cardinality(handed')
  BY <1>1, FiniteKeys, FS_Subset
<1> QED BY <1>1, <1>2, FiniteKeys DEF Fresh

-----------------------------------------------------------------------------
\* The ledger.

\* What an entry may become while no batch is given away and no receipt
\* written: it stays, goes back to its author, or is closed.
Settles(old, new) ==
    \/ new = old
    \/ old.version < MaxVersion /\ new = Redraft(old)
    \/ \E s \in {"verified", "dropped"} : new = [old EXCEPT !.status = s]

\* The ledger stays sound when each comment settles one way or another.
LEMMA LedgerSettles ==
    ASSUME TypeOK, GivenAway, SentFacts, ReceiptsTrue,
           handed' = handed, document \subseteq document',
           comment' = [c \in Comment |-> comment'[c]],
           \A c \in Comment : Settles(comment[c], comment'[c])
    PROVE  /\ comment' \in [Comment -> Entry]
           /\ GivenAway' /\ SentFacts' /\ ReceiptsTrue'
           /\ \A c \in Comment : comment'[c].status \in InHand => comment'[c] = comment[c]
<1>1. ASSUME NEW c \in Comment
      PROVE  /\ comment'[c] \in Entry
             /\ comment'[c].version >= comment[c].version
             /\ comment'[c].status = "draft" =>
                  comment'[c] = comment[c] \/ comment'[c].version > comment[c].version
             /\ comment'[c].status \in Sent => comment'[c] = comment[c]
             /\ comment'[c].response = "fixed" =>
                  comment'[c].version = comment[c].version /\ comment[c].response = "fixed"
  <2>1. comment[c] \in Entry /\ Settles(comment[c], comment'[c])
    BY DEF TypeOK
  <2>2. comment[c].version \in Nat
    BY <2>1, BoundAssumption DEF Entry
  <2> QED BY <2>1, <2>2, NoneAssumption, BoundAssumption DEF Settles, Redraft, Entry, Sent
<1>2. comment' \in [Comment -> Entry]
  BY <1>1
<1>3. GivenAway'
  BY <1>1, BoundAssumption DEF GivenAway, Sent, TypeOK, Entry
<1>4. SentFacts'
  BY <1>1 DEF SentFacts, Sent
<1>5. ReceiptsTrue'
  BY <1>1 DEF ReceiptsTrue, Version
<1> QED BY <1>1, <1>2, <1>3, <1>4, <1>5 DEF InHand, Sent

-----------------------------------------------------------------------------
\* The steps.

\* What authors do with their comments takes none out of hand.
LEMMA AuthorStep ==
    ASSUME Inv, NEW c \in Comment,
           EditAnnotation(c) \/ DropAnnotation(c) \/ VerifyAnnotation(c) \/ ReopenAnnotation(c)
    PROVE  Inv'
<1> USE DEF Inv
<1>1. /\ comment' = [x \in Comment |-> comment'[x]]
      /\ \A x \in Comment : Settles(comment[x], comment'[x])
  <2>1. comment[c].version < MaxVersion => Settles(comment[c], Redraft(comment[c]))
    BY DEF Settles
  <2>2. \A s \in {"verified", "dropped"} : Settles(comment[c], [comment[c] EXCEPT !.status = s])
    BY DEF Settles
  <2>3. \A x \in Comment : Settles(comment[x], comment[x])
    BY DEF Settles
  <2>4. CASE EditAnnotation(c) \/ ReopenAnnotation(c)
    BY <2>1, <2>3, <2>4 DEF EditAnnotation, ReopenAnnotation, Put
  <2>5. CASE DropAnnotation(c)
    BY <2>2, <2>3, <2>5 DEF DropAnnotation, Put
  <2>6. CASE VerifyAnnotation(c)
    BY <2>2, <2>3, <2>6 DEF VerifyAnnotation, Put
  <2> QED BY <2>4, <2>5, <2>6
<1>2. UNCHANGED Others
  BY DEF EditAnnotation, DropAnnotation, VerifyAnnotation, ReopenAnnotation
<1>3. /\ comment' \in [Comment -> Entry]
      /\ GivenAway' /\ SentFacts' /\ ReceiptsTrue'
      /\ \A x \in Comment : comment'[x].status \in InHand => comment'[x] = comment[x]
  BY <1>1, <1>2, LedgerSettles DEF Others
<1>4. TypeOK'
  BY <1>2, <1>3 DEF TypeOK, Others
<1>5. Numbered' /\ CopyCurrent'
  BY <1>2 DEF Numbered, CopyCurrent, Others, Fresh
<1>6. Phases' /\ Guarded'
  BY <1>2, <1>3 DEF Phases, Guarded, Others, InHand, Version, Stopping
<1> QED BY <1>3, <1>4, <1>5, <1>6

\* Whatever stops the queue leaves nothing in hand.
LEMMA Withdrawn ==
    ASSUME Inv, handed' = handed, document \subseteq document',
           comment' = ResetQueued \/ comment' = [c \in Comment |-> Recovered(c)]
    PROVE  /\ comment' \in [Comment -> Entry]
           /\ GivenAway' /\ SentFacts' /\ ReceiptsTrue'
           /\ \A c \in Comment : comment'[c].status \notin InHand
<1> USE DEF Inv
<1>1. \A c \in Comment : Settles(comment[c], comment'[c]) /\ comment'[c].status \notin InHand
  <2> SUFFICES ASSUME NEW c \in Comment
               PROVE  Settles(comment[c], comment'[c]) /\ comment'[c].status \notin InHand
    OBVIOUS
  <2>1. \/ /\ comment[c].status \in Sent
           /\ comment'[c] = Redraft(comment[c])
        \/ /\ comment[c].status \notin InHand
           /\ comment'[c] = comment[c]
    BY DEF ResetQueued, Recovered, Put, InHand, Sent
  <2> QED BY <2>1 DEF Settles, SentFacts, Redraft, InHand
<1>2. comment' = [c \in Comment |-> comment'[c]]
  BY DEF ResetQueued, Put
<1> QED BY <1>1, <1>2, LedgerSettles

\* A halted run keeps its number, and stays none if there was none.
LEMMA HaltedFacts ==
    ASSUME TypeOK
    PROVE  /\ Halted # None => /\ revision # None
                               /\ Halted.id = revision.id
                               /\ Halted \in [id : Nat, state : {"running", "failed"}, batch : SUBSET Comment]
BY DEF TypeOK, Halted

\* A pause, its end, a resumption and the confirmation keep the invariant.
LEMMA ControlStep ==
    ASSUME Inv, Pause \/ Resume \/ Confirm
    PROVE  Inv'
<1> USE DEF Inv
<1>1. UNCHANGED <<comment, drains, writer, document, handed, crashes>>
  BY DEF Pause, Resume, Confirm
<1>2. auxEpoch \in Nat /\ controlEpoch \in Nat
  BY BoundAssumption DEF TypeOK
<1>3. TypeOK' /\ auxEpoch' <= controlEpoch'
  <2>1. revision' = revision \/ revision' = None
    BY DEF Pause, Resume, Confirm
  <2>2. /\ auxEpoch' \in 0..MaxEpoch /\ controlEpoch' \in 0..MaxEpoch
        /\ auxEpoch' <= controlEpoch' /\ pauses' \subseteq 1..MaxEpoch
    <3>1. /\ auxEpoch \in 0..MaxEpoch /\ controlEpoch \in 0..MaxEpoch
          /\ auxEpoch <= controlEpoch /\ pauses \subseteq 1..MaxEpoch
      BY DEF TypeOK, Phases
    <3>2. CASE Pause
      BY <1>2, <3>1, <3>2, BoundAssumption DEF Pause
    <3>3. CASE Resume
      BY <1>2, <3>1, <3>3, BoundAssumption DEF Resume
    <3>4. CASE Confirm
      BY <3>1, <3>4 DEF Confirm
    <3> QED BY <3>2, <3>3, <3>4
  <2>3. status' \in {"waiting_for_human", "paused", "queued", "canceled"}
    BY DEF TypeOK, Pause, Resume, Confirm
  <2>4. confirmed' \in BOOLEAN
    BY DEF TypeOK, Pause, Resume, Confirm
  <2> QED BY <2>4, <1>1, <2>1, <2>2, <2>3 DEF TypeOK
<1>4. Numbered' /\ CopyCurrent' /\ GivenAway' /\ SentFacts' /\ ReceiptsTrue'
  <2>1. revision' = revision \/ revision' = None
    BY DEF Pause, Resume, Confirm
  <2> QED BY <1>1, <2>1 DEF Numbered, CopyCurrent, Fresh, GivenAway, SentFacts, ReceiptsTrue, Version
<1>5. CASE Pause
  <2>1. Phases'
    BY <1>1, <1>3, <1>5 DEF Phases, Pause
  <2>2. Guarded'
    BY <1>5 DEF Guarded, Stopping, Pause
  <2> QED BY <1>3, <1>4, <2>1, <2>2
<1>6. CASE Resume
  <2>1. writer = None /\ \A c \in Comment : comment[c].status \notin InHand
    BY <1>6 DEF Resume, Phases
  <2>2. Phases'
    BY <1>1, <1>3, <1>6, <2>1 DEF Phases, Resume
  <2>3. Guarded'
    BY <1>1, <2>1 DEF Guarded, InHand
  <2> QED BY <1>3, <1>4, <2>2, <2>3
<1>7. CASE Confirm
  <2>1. UNCHANGED <<auxEpoch, controlEpoch, pauses>>
    BY <1>7 DEF Confirm
  <2>2. Phases'
    BY <1>1, <1>3, <1>7 DEF Phases, Confirm, InHand
  <2>3. Guarded'
    BY <1>1, <2>1 DEF Guarded, InHand, Stopping, Version
  <2> QED BY <1>3, <1>4, <2>2, <2>3
<1> QED BY <1>5, <1>6, <1>7

\* The end of a pause, a cancellation or a restart leaves nothing to guard.
LEMMA StopStep ==
    ASSUME Inv,
           \/ \E e \in pauses : PauseEnds(e)
           \/ Cancel \/ Crash
           \/ \E d \in drains : CrashInWrite(d)
    PROVE  Inv'
<1> USE DEF Inv
<1>0. auxEpoch \in Nat /\ controlEpoch \in Nat
  BY BoundAssumption DEF TypeOK
<1>1. CASE \E e \in pauses : PauseEnds(e) /\ UNCHANGED <<status, writer, comment, revision>>
  <2>1. PICK e \in pauses : PauseEnds(e) /\ UNCHANGED <<status, writer, comment, revision>>
    BY <1>1
  <2>2. /\ pauses' = pauses \ {e}
        /\ UNCHANGED <<drains, auxEpoch, controlEpoch, confirmed, document, handed, crashes>>
    BY <2>1 DEF PauseEnds
  <2>3. TypeOK' /\ Numbered' /\ CopyCurrent' /\ GivenAway' /\ SentFacts' /\ ReceiptsTrue' /\ Phases'
    BY <2>1, <2>2 DEF TypeOK, Numbered, CopyCurrent, Fresh, GivenAway, SentFacts, ReceiptsTrue, Version, Phases
  <2>4. Guarded'
    <3>1. CASE e # controlEpoch
      BY <2>1, <2>2, <3>1 DEF Guarded, Stopping, Version
    <3>2. CASE e = controlEpoch
      <4>1. writer = None /\ \A c \in Comment : comment[c].status \notin InHand
        BY <2>1, <3>2 DEF PauseEnds, Phases
      <4> QED BY <2>1, <4>1 DEF Guarded, InHand
    <3> QED BY <3>1, <3>2
  <2> QED BY <2>3, <2>4
<1>2. CASE /\ Interrupt \/ Restart
           /\ \/ \E e \in pauses : PauseEnds(e)
              \/ Cancel \/ Crash
              \/ \E d \in drains : CrashInWrite(d)
  <2>1. /\ writer' = None /\ revision' = Halted /\ handed' = handed
        /\ drains' = drains \/ drains' = {}
        /\ comment' = ResetQueued \/ comment' = [c \in Comment |-> Recovered(c)]
    BY <1>2 DEF Interrupt, Restart, PauseEnds, Cancel, Crash, CrashInWrite
  <2>2. document \subseteq document' /\ document' \subseteq VersionKey
        /\ (drains' # {} => document' = document)
    <3>1. CASE \E d \in drains : CrashInWrite(d)
      <4>1. PICK d \in drains : CrashInWrite(d)
        BY <3>1
      <4>2. d.copy = document /\ d.batch \subseteq VersionKey
        BY <4>1 DEF CrashInWrite, Entitled, CopyCurrent, TypeOK, Drain
      <4> QED BY <4>1, <4>2 DEF CrashInWrite, Restart, TypeOK
    <3>2. CASE UNCHANGED document
      BY <3>2 DEF TypeOK
    <3> QED BY <1>2, <3>1, <3>2 DEF PauseEnds, Cancel, Crash
  <2>3. /\ comment' \in [Comment -> Entry]
        /\ GivenAway' /\ SentFacts' /\ ReceiptsTrue'
        /\ \A c \in Comment : comment'[c].status \notin InHand
    BY <2>1, <2>2, Withdrawn
  <2>4. /\ auxEpoch' \in 0..MaxEpoch /\ controlEpoch' \in 0..MaxEpoch
        /\ auxEpoch' <= controlEpoch' /\ pauses' \subseteq 1..MaxEpoch
        /\ crashes' \in 0..MaxCrashes
    <3>1. CASE Restart
      BY <3>1, BoundAssumption DEF Restart, TypeOK
    <3>2. CASE Cancel
      BY <3>2, <1>0, BoundAssumption DEF Cancel, TypeOK, Phases
    <3>3. CASE \E e \in pauses : PauseEnds(e)
      BY <3>3 DEF PauseEnds, TypeOK, Phases
    <3> QED BY <1>2, <3>1, <3>2, <3>3 DEF Crash, CrashInWrite
  <2>5. /\ status' \in {"waiting_for_human", "paused", "queued", "canceled"}
        /\ confirmed' = confirmed
        /\ status' = "waiting_for_human" => status = "waiting_for_human"
    BY <1>2 DEF PauseEnds, Cancel, Crash, CrashInWrite, Restart, TypeOK
  <2>6. TypeOK'
    BY <2>1, <2>2, <2>3, <2>4, <2>5, HaltedFacts DEF TypeOK
  <2>7. Numbered' /\ CopyCurrent'
    BY <2>1, <2>2, HaltedFacts DEF Numbered, CopyCurrent, Fresh
  <2>8. Phases' /\ Guarded'
    BY <2>1, <2>3, <2>4, <2>5 DEF Phases, Guarded, InHand
  <2> QED BY <2>3, <2>6, <2>7, <2>8
<1> QED BY <1>1, <1>2 DEF PauseEnds, Cancel, Crash, CrashInWrite

\* The facts about a ledger, a document and what was given away, for a
\* ledger a step goes through.
Ledger(l, doc, given) ==
    /\ l \in [Comment -> Entry]
    /\ \A c \in Comment : \A n \in 0..MaxVersion :
         <<c, n>> \in given =>
             /\ n <= l[c].version
             /\ l[c].status \in {"draft", "requirement_queue"} => n < l[c].version
    /\ \A c \in Comment :
         /\ l[c].status \in Sent => l[c].version < MaxVersion
         /\ l[c].status = "interrupt" => l[c].response # None
         /\ l[c].response = "fixed" => <<c, l[c].version>> \in doc

\* The parts of the invariant about comments, read off a ledger, a document
\* and what was given away.
LEMMA LedgerIs ==
    /\ Ledger(comment, document, handed)
         <=> comment \in [Comment -> Entry] /\ GivenAway /\ SentFacts /\ ReceiptsTrue
    /\ Ledger(comment', document', handed')
         <=> comment' \in [Comment -> Entry] /\ GivenAway' /\ SentFacts' /\ ReceiptsTrue'
BY DEF Ledger, GivenAway, SentFacts, ReceiptsTrue, Version

\* Drafts, and comments that line up, are marked: those in hand are the
\* batch, those that line up are given to nobody.
Marks(l, m, S, via, batch) ==
    /\ S \subseteq Comment
    /\ \A c \in S : /\ l[c].status \in {"draft", "requirement_queue"}
                    /\ l[c].version < MaxVersion
    /\ m = [c \in Comment |-> IF c \in S THEN [l[c] EXCEPT !.status = via] ELSE l[c]]
    /\ \/ via = "requirement_review" /\ batch = {<<c, l[c].version>> : c \in S}
       \/ via = "requirement_queue" /\ batch = {}

AreMarked(l, m, S, via) ==
    /\ \A c \in Comment : m[c].version = l[c].version
    /\ \A c \in S : m[c].status = via
    /\ \A c \in Comment \ S : m[c].status = l[c].status

Unused(batch, given) == batch \subseteq VersionKey /\ batch \cap given = {}

\* A ledger that is only marked stays sound when the batch is given away.
LEMMA Marked ==
    ASSUME NEW l, NEW m, NEW doc, NEW given, NEW S, NEW via, NEW batch,
           Ledger(l, doc, given), Marks(l, m, S, via, batch)
    PROVE  /\ Ledger(m, doc, given \cup batch)
           /\ Unused(batch, given) /\ AreMarked(l, m, S, via)
<1> USE DEF Marks
<1>1. \A c \in Comment : l[c] \in Entry /\ l[c].version \in 0..MaxVersion
  BY DEF Ledger, Entry
<1>2. m \in [Comment -> Entry]
  BY <1>1 DEF Entry, Sent
<1>3. \A c \in Comment : /\ m[c].version = l[c].version /\ m[c].response = l[c].response
                         /\ m[c].status = IF c \in S THEN via ELSE l[c].status
  BY <1>1 DEF Entry
<1>4. ASSUME NEW c \in Comment, NEW n \in 0..MaxVersion, <<c, n>> \in given \cup batch
      PROVE  /\ n <= m[c].version
             /\ m[c].status \in {"draft", "requirement_queue"} => n < m[c].version
  <2>1. CASE <<c, n>> \in given
    BY <1>3, <1>4, <2>1 DEF Ledger
  <2>2. CASE <<c, n>> \in batch
    <3>1. c \in S /\ n = l[c].version /\ via = "requirement_review"
      BY <2>2
    <3>2. m[c].status = "requirement_review" /\ m[c].version = n
      BY <1>3, <3>1
    <3> QED BY <3>2
  <2> QED BY <1>4, <2>1, <2>2
<1>5. ASSUME NEW c \in Comment
      PROVE  /\ m[c].status \in Sent => m[c].version < MaxVersion
             /\ m[c].status = "interrupt" => m[c].response # None
             /\ m[c].response = "fixed" => <<c, m[c].version>> \in doc
  BY <1>3 DEF Ledger
<1>6. batch \subseteq VersionKey
  BY <1>1 DEF VersionKey
<1>7. batch \cap given = {}
  <2> SUFFICES ASSUME NEW c \in S, <<c, l[c].version>> \in given
               PROVE  FALSE
    OBVIOUS
  <2> QED BY <1>1, BoundAssumption DEF Ledger
<1>8. Ledger(m, doc, given \cup batch)
  BY <1>2, <1>4, <1>5 DEF Ledger
<1> QED BY <1>3, <1>6, <1>7, <1>8 DEF Unused, AreMarked

\* A new run has the next number, a batch nobody was given and a copy of the
\* document as it is from now on.
Begins(loop, batch, doc, others) ==
    /\ loop \in Nat /\ doc \subseteq VersionKey /\ others \subseteq drains
    /\ batch \subseteq VersionKey /\ batch # {} /\ batch \cap handed = {}
    /\ handed' = handed \cup batch /\ document' = doc
    /\ drains' = others \cup {[Run(loop, batch) EXCEPT !.copy = doc]}
    /\ revision' = [id |-> Fresh, state |-> "running", batch |-> {v[1] : v \in batch}]

\* A run that begins on an unused batch fits among the others.
LEMMA RunBegins ==
    ASSUME TypeOK, Numbered, CopyCurrent,
           NEW loop, NEW batch, NEW doc, NEW others, Begins(loop, batch, doc, others)
    PROVE  /\ drains' \subseteq Drain
           /\ revision' \in [id : Nat, state : {"running", "failed"}, batch : SUBSET Comment]
           /\ Numbered' /\ CopyCurrent'
           /\ \E d \in drains' : d.loop = loop /\ d.epoch = auxEpoch /\ d.batch = batch
           /\ \A d \in drains' \ drains : d.batch = batch
<1> USE DEF Begins
<1> DEFINE new == [Run(loop, batch) EXCEPT !.copy = doc]
<1>1. Fresh \in Nat /\ Fresh' \in Nat /\ Fresh < Fresh'
  BY NextRun
<1>2. new = [loop |-> loop, run |-> Fresh, epoch |-> auxEpoch, batch |-> batch, copy |-> doc]
  BY DEF Run
<1>3. new \in Drain /\ new.run = Fresh /\ new.loop = loop /\ new.epoch = auxEpoch
      /\ new.batch = batch /\ new.copy = doc
  BY <1>1, <1>2 DEF Drain, TypeOK
<1> HIDE DEF new
<1>4. drains' = others \cup {new} /\ others \subseteq Drain
  BY DEF new, TypeOK
<1>5. revision' \in [id : Nat, state : {"running", "failed"}, batch : SUBSET Comment]
      /\ revision'.id = Fresh
  BY <1>1 DEF VersionKey
<1>6. \A d \in others : d.run \in Nat /\ d.run < Fresh /\ d.batch \subseteq handed
  BY <1>4 DEF Numbered, Drain
<1>7. Numbered'
  BY <1>1, <1>3, <1>4, <1>5, <1>6 DEF Numbered
<1>8. CopyCurrent'
  BY <1>1, <1>3, <1>4, <1>5, <1>6 DEF CopyCurrent
<1> QED BY <1>3, <1>4, <1>5, <1>7, <1>8

\* submit keeps the invariant, and whatever it starts is given a batch
\* nobody had.
LEMMA SubmitStep ==
    ASSUME Inv, NEW S \in SUBSET Comment, Submit(S)
    PROVE  Inv' /\ \A d \in drains' \ drains : d.batch \cap handed = {}
<1> USE DEF Inv
<1> DEFINE batch == {<<c, comment[c].version>> : c \in S}
<1>1. /\ S # {} /\ status = "waiting_for_human"
      /\ \A c \in S : comment[c].status = "draft" /\ comment[c].version < MaxVersion
      /\ UNCHANGED <<auxEpoch, controlEpoch, pauses, status, confirmed, document, crashes>>
  BY DEF Submit
<1>2. Ledger(comment, document, handed)
  BY LedgerIs DEF TypeOK
<1>3. CASE writer = None
  <2>0. Marks(comment, comment', S, "requirement_review", batch)
    BY <1>1, <1>3 DEF Marks, Submit, MarkSent, Put
  <2>1. /\ Ledger(comment', document, handed \cup batch)
        /\ batch \subseteq VersionKey /\ batch \cap handed = {}
        /\ \A c \in Comment : comment'[c].version = comment[c].version
        /\ \A c \in S : comment'[c].status = "requirement_review"
        /\ \A c \in Comment \ S : comment'[c].status = comment[c].status
    <3> HIDE DEF batch
    <3>1. /\ Ledger(comment', document, handed \cup batch)
          /\ Unused(batch, handed) /\ AreMarked(comment, comment', S, "requirement_review")
      BY <1>2, <2>0, Marked
    <3> QED BY <3>1 DEF Unused, AreMarked
  <2>2. /\ comment' = [c \in Comment |-> comment'[c]]
        /\ writer' = Fresh /\ handed' = handed \cup batch
        /\ drains' = drains \cup {Run(Fresh, batch)}
        /\ revision' = [id |-> Fresh, state |-> "running", batch |-> {v[1] : v \in batch}]
    BY <1>3 DEF Submit, MarkSent, Put, Begin, Version
  <2>3. batch # {}
    BY <1>1
  <2> HIDE DEF batch
  <2>4. Fresh \in Nat
    BY FiniteKeys DEF TypeOK, Fresh
  <2>5. Run(Fresh, batch) = [Run(Fresh, batch) EXCEPT !.copy = document]
    BY DEF Run
  <2>6. /\ drains' \subseteq Drain
        /\ revision' \in [id : Nat, state : {"running", "failed"}, batch : SUBSET Comment]
        /\ Numbered' /\ CopyCurrent'
        /\ \E d \in drains' : d.loop = Fresh /\ d.epoch = auxEpoch /\ d.batch = batch
        /\ \A d \in drains' \ drains : d.batch = batch
    <3>1. document \in SUBSET VersionKey
      BY DEF TypeOK
    <3>2. drains' = drains \cup {[Run(Fresh, batch) EXCEPT !.copy = document]}
      BY <2>2, <2>5
    <3>3. Begins(Fresh, batch, document, drains)
      BY <1>1, <2>1, <2>2, <2>3, <2>4, <3>1, <3>2 DEF Begins
    <3> QED BY <3>3, RunBegins
  <2>7. comment' \in [Comment -> Entry] /\ GivenAway' /\ SentFacts' /\ ReceiptsTrue'
    BY <1>1, <2>1, <2>2, LedgerIs
  <2>8. TypeOK'
    <3>1. handed' \subseteq VersionKey
      BY <2>1, <2>2 DEF TypeOK
    <3> QED BY <1>1, <2>2, <2>4, <2>6, <2>7, <3>1 DEF TypeOK
  <2>9. Phases'
    BY <1>1, <2>2 DEF Phases
  <2>10. Guarded'
    <3>3. drains \subseteq drains'
      BY <2>2
    <3>4. \A c \in S : Version(c)' \in batch
      BY <2>1 DEF batch, Version
    <3> QED BY <1>1, <1>3, <2>1, <2>2, <2>6, <3>3, <3>4 DEF Guarded, Stopping, Version
  <2> QED BY <2>1, <2>6, <2>7, <2>8, <2>9, <2>10
<1>4. CASE writer # None
  <2>1. UNCHANGED <<writer, drains, handed, revision>>
    BY <1>4 DEF Submit
  <2>2. /\ Ledger(comment', document', handed')
        /\ \A c \in Comment : comment'[c].version = comment[c].version
        /\ \A c \in S : comment'[c].status = "requirement_queue"
        /\ \A c \in Comment \ S : comment'[c].status = comment[c].status
    <3>0. Marks(comment, comment', S, "requirement_queue", {})
      BY <1>1, <1>4 DEF Marks, Submit, MarkSent, Put
    <3>1. /\ Ledger(comment', document, handed \cup {})
          /\ AreMarked(comment, comment', S, "requirement_queue")
      BY <1>2, <3>0, Marked
    <3>2. handed \cup {} = handed' /\ document' = document
      BY <1>1, <2>1
    <3> QED BY <3>1, <3>2 DEF AreMarked
  <2>3. comment' \in [Comment -> Entry] /\ GivenAway' /\ SentFacts' /\ ReceiptsTrue'
    BY <2>2, LedgerIs
  <2>4. TypeOK' /\ Numbered' /\ CopyCurrent' /\ Phases'
    BY <1>1, <2>1, <2>3 DEF TypeOK, Numbered, CopyCurrent, Phases, Fresh
  <2>5. Guarded'
    <3> QED BY <1>1, <1>4, <2>1, <2>2 DEF Guarded, Stopping, Version
  <2> QED BY <2>1, <2>3, <2>4, <2>5
<1> QED BY <1>3, <1>4

\* What the end of a run leaves to the loop: a ledger in order, in which
\* nothing of its batch is in hand, and a document no other run works on.
Settled(d, after, rev, doc) ==
    /\ Ledger(after, doc, handed)
    /\ \A c \in Comment : after[c].status \in InHand =>
         /\ after[c] = comment[c]
         /\ after[c].status = "requirement_review" => Version(c) \notin d.batch
    /\ d \in drains /\ d.epoch = auxEpoch
    /\ doc \subseteq VersionKey
    /\ \/ rev = None
       \/ /\ rev \in [id : Nat, state : {"running", "failed"}, batch : SUBSET Comment]
          /\ revision # None /\ rev.id = revision.id /\ doc = document
    /\ document' = doc
    /\ UNCHANGED <<auxEpoch, controlEpoch, pauses, status, confirmed, crashes>>

\* A loop that goes on to its next batch, or leaves, keeps the invariant
\* once the batch it had is settled.
LEMMA ProceedStep ==
    ASSUME Inv, NEW d, NEW after, NEW rev, NEW doc,
           Settled(d, after, rev, doc), Proceed(d, after, rev, doc)
    PROVE  Inv' /\ \A e \in drains' \ drains : e.batch \cap handed = {}
<1> USE DEF Inv
<1> DEFINE queued == {c \in Comment : after[c].status = "requirement_queue"}
           batch == {<<c, after[c].version>> : c \in queued}
<1>1. /\ Ledger(after, doc, handed)
      /\ UNCHANGED <<auxEpoch, controlEpoch, pauses, status, confirmed, crashes>>
      /\ document' = doc /\ d \in drains
  BY DEF Settled
<1>2. \A c \in Comment : after[c].status = "requirement_review" =>
        Stopping \/ \E e \in drains \ {d} : e.epoch = auxEpoch /\ <<c, after[c].version>> \in e.batch
  BY DEF Settled, Guarded, InHand, Version
<1>3. \A c \in Comment : after[c].status \in InHand => status = "waiting_for_human"
  BY DEF Settled, Phases
<1>4. CASE queued = {}
  <2>1. /\ comment' = after /\ revision' = rev /\ handed' = handed
        /\ drains' = drains \ {d} /\ writer' = IF writer = d.loop THEN None ELSE writer
    BY <1>4 DEF Proceed, Leave
  <2>2. comment' \in [Comment -> Entry] /\ GivenAway' /\ SentFacts' /\ ReceiptsTrue'
    BY <1>1, <2>1, LedgerIs
  <2>3. TypeOK'
    BY <1>1, <2>1, <2>2 DEF TypeOK, Settled
  <2>4. Numbered' /\ CopyCurrent'
    BY <2>1 DEF Numbered, CopyCurrent, Settled, Fresh
  <2>5. Phases'
    BY <1>1, <1>3, <2>1 DEF Phases
  <2>6. Guarded'
    <3>1. \A c \in Comment : comment'[c].status # "requirement_queue"
      BY <1>4, <2>1
    <3>2. writer' # None => Stopping \/ \E e \in drains' : e.epoch = auxEpoch /\ e.loop = writer'
      BY <2>1 DEF Guarded
    <3> QED BY <1>1, <1>2, <2>1, <3>1, <3>2 DEF Guarded, Stopping, Version
  <2> QED BY <2>1, <2>2, <2>3, <2>4, <2>5, <2>6
<1>5. CASE queued # {}
  <2>1. status = "waiting_for_human"
    BY <1>3, <1>5 DEF InHand
  <2>2. /\ comment' = [c \in Comment |-> IF c \in queued
                                         THEN [after[c] EXCEPT !.status = "requirement_review"]
                                         ELSE after[c]]
        /\ drains' = (drains \ {d}) \cup {[Run(d.loop, batch) EXCEPT !.copy = doc]}
        /\ handed' = handed \cup batch
        /\ revision' = [id |-> Fresh, state |-> "running", batch |-> queued]
        /\ writer' = writer
    BY <1>5, <2>1 DEF Proceed
  <2>3. \A c \in queued : after[c].version < MaxVersion
    BY <1>1 DEF Ledger, Sent
  <2>4. Marks(after, comment', queued, "requirement_review", batch)
    BY <2>2, <2>3 DEF Marks
  <2>5. queued = {v[1] : v \in batch} /\ batch # {}
    <3>1. ASSUME NEW c \in queued PROVE \E v \in batch : v[1] = c
      <4>1. <<c, after[c].version>> \in batch
        OBVIOUS
      <4> QED BY <4>1
    <3>2. \A v \in batch : v[1] \in queued
      OBVIOUS
    <3>3. batch # {}
      BY <1>5
    <3> HIDE DEF batch, queued
    <3> QED BY <3>1, <3>2, <3>3
  <2>6. queued \subseteq Comment /\ \A c \in queued : <<c, after[c].version>> \in batch
    OBVIOUS
  <2>7. \A c \in Comment \ queued : after[c].status # "requirement_queue"
    OBVIOUS
  <2> HIDE DEF batch, queued
  <2>8. /\ Ledger(comment', doc, handed \cup batch)
        /\ Unused(batch, handed) /\ AreMarked(after, comment', queued, "requirement_review")
    BY <1>1, <2>4, Marked
  <2>9. Begins(d.loop, batch, doc, drains \ {d})
    BY <1>1, <2>2, <2>5, <2>8 DEF Begins, Unused, Settled, TypeOK, Drain
  <2>10. /\ drains' \subseteq Drain
         /\ revision' \in [id : Nat, state : {"running", "failed"}, batch : SUBSET Comment]
         /\ Numbered' /\ CopyCurrent'
         /\ \E e \in drains' : e.loop = d.loop /\ e.epoch = auxEpoch /\ e.batch = batch
         /\ \A e \in drains' \ drains : e.batch = batch
    BY <2>9, RunBegins
  <2>11. comment' \in [Comment -> Entry] /\ GivenAway' /\ SentFacts' /\ ReceiptsTrue'
    <3>1. doc = document' /\ handed' = handed \cup batch
      BY <1>1, <2>2
    <3>2. Ledger(comment', document', handed')
      BY <2>8, <3>1
    <3> QED BY <3>2, LedgerIs
  <2>12. TypeOK'
    <3>1. handed' \subseteq VersionKey /\ document' \subseteq VersionKey
      BY <1>1, <2>2, <2>8 DEF TypeOK, Unused, Settled
    <3> QED BY <1>1, <2>2, <2>10, <2>11, <3>1 DEF TypeOK
  <2>13. Phases'
    BY <1>1, <2>1, <2>2 DEF Phases
  <2>14. Guarded'
    <3>1. PICK n \in drains' : n.loop = d.loop /\ n.epoch = auxEpoch /\ n.batch = batch
      BY <2>10
    <3>2. \A e \in drains \ {d} : e \in drains'
      BY <2>2
    <3>3. ASSUME NEW c \in Comment
          PROVE  /\ comment'[c].status # "requirement_queue"
                 /\ comment'[c].status = "requirement_review" =>
                      Stopping \/ \E e \in drains' : e.epoch = auxEpoch /\ <<c, comment'[c].version>> \in e.batch
      <4>1. CASE c \in queued
        BY <2>6, <2>8, <3>1, <4>1 DEF AreMarked
      <4>2. CASE c \notin queued
        BY <1>2, <2>7, <2>8, <3>2, <4>2 DEF AreMarked
      <4> QED BY <4>1, <4>2
    <3>4. writer' # None => Stopping \/ \E e \in drains' : e.epoch = auxEpoch /\ e.loop = writer'
      BY <2>2, <3>1, <3>2 DEF Guarded
    <3>5. \A c \in Comment : Version(c)' = <<c, comment'[c].version>>
      BY DEF Version
    <3> QED BY <1>1, <3>3, <3>4, <3>5 DEF Guarded, Stopping
  <2> QED BY <2>8, <2>10, <2>11, <2>12, <2>13, <2>14 DEF Unused
<1> QED BY <1>4, <1>5

\* A run that ends well keeps the invariant, and does not end in a confirmed
\* document.
LEMMA SucceedsStep ==
    ASSUME Inv, NEW d \in drains, RunSucceeds(d)
    PROVE  /\ Inv' /\ ~confirmed
           /\ \A e \in drains' \ drains : e.batch \cap handed = {}
<1> USE DEF Inv
<1>1. /\ d.epoch = auxEpoch /\ revision # None /\ revision.id = d.run
      /\ status = "waiting_for_human"
  BY DEF RunSucceeds, Entitled
<1>2. d \in Drain /\ d.batch \subseteq handed /\ d.batch \subseteq VersionKey /\ d.copy = document
  BY <1>1 DEF TypeOK, Numbered, CopyCurrent, Drain
<1>3. PICK fixed \in SUBSET {v[1] : v \in d.batch} :
        LET new == d.copy \cup {v \in d.batch : v[1] \in fixed} IN
        /\ document' = new
        /\ Proceed(d,
               [c \in Comment |->
                  IF c \in Applied(d)
                  THEN [comment[c] EXCEPT !.status = "interrupt",
                           !.response = IF c \in fixed THEN "fixed"
                                        ELSE "declined"]
                  ELSE comment[c]],
               None, new)
  BY DEF RunSucceeds
<1> DEFINE new == d.copy \cup {v \in d.batch : v[1] \in fixed}
           after == [c \in Comment |->
                       IF c \in Applied(d)
                       THEN [comment[c] EXCEPT !.status = "interrupt",
                                !.response = IF c \in fixed THEN "fixed"
                                             ELSE "declined"]
                       ELSE comment[c]]
<1>4. document' = new /\ Proceed(d, after, None, new)
  BY <1>3
<1>5. document \subseteq new /\ new \subseteq VersionKey
  BY <1>2 DEF TypeOK
<1>6. \A c \in Comment : comment[c] \in Entry /\ comment[c].version \in 0..MaxVersion
  BY DEF TypeOK, Entry
<1>7. \A c \in Applied(d) : /\ comment[c].status \in Sent
                            /\ comment[c].version < MaxVersion
                            /\ c \in fixed => Version(c) \in new
  <2> SUFFICES ASSUME NEW c \in Applied(d)
               PROVE  /\ comment[c].status \in Sent
                      /\ comment[c].version < MaxVersion
                      /\ c \in fixed => Version(c) \in new
    OBVIOUS
  <2>1. /\ c \in Comment /\ Version(c) \in d.batch
        /\ comment[c].status \in Sent \cup {"draft"}
    BY DEF Applied
  <2>2. <<c, comment[c].version>> \in handed
    BY <1>2, <2>1 DEF Version
  <2>3. comment[c].status # "draft"
    BY <1>6, <2>1, <2>2, BoundAssumption DEF GivenAway
  <2>4. Version(c)[1] = c
    BY DEF Version
  <2> QED BY <2>1, <2>3, <2>4 DEF SentFacts
<1>8. \A c \in Comment :
        /\ after[c] \in Entry /\ after[c].version = comment[c].version
        /\ c \in Applied(d) => /\ after[c].status = "interrupt"
                               /\ after[c].response \in {"fixed", "declined"}
                               /\ after[c].response = "fixed" => c \in fixed
        /\ c \notin Applied(d) => after[c] = comment[c]
  BY <1>6 DEF Entry, Sent
<1>9. after \in [Comment -> Entry]
  BY <1>8
<1> HIDE DEF after, new
<1>10. Ledger(after, new, handed)
  <2>1. ASSUME NEW c \in Comment, NEW n \in 0..MaxVersion, <<c, n>> \in handed
        PROVE  /\ n <= after[c].version
               /\ after[c].status \in {"draft", "requirement_queue"} => n < after[c].version
    <3>1. CASE c \in Applied(d)
      BY <1>8, <2>1, <3>1 DEF GivenAway
    <3>2. CASE c \notin Applied(d)
      BY <1>8, <2>1, <3>2 DEF GivenAway
    <3> QED BY <3>1, <3>2
  <2>2. ASSUME NEW c \in Comment
        PROVE  /\ after[c].status \in Sent => after[c].version < MaxVersion
               /\ after[c].status = "interrupt" => after[c].response # None
               /\ after[c].response = "fixed" => <<c, after[c].version>> \in new
    <3>1. CASE c \in Applied(d)
      BY <1>7, <1>8, <3>1, NoneAssumption DEF Version
    <3>2. CASE c \notin Applied(d)
      BY <1>5, <1>8, <3>2 DEF SentFacts, ReceiptsTrue, Version
    <3> QED BY <3>1, <3>2
  <2> QED BY <1>9, <2>1, <2>2 DEF Ledger
<1>11. ASSUME NEW c \in Comment, after[c].status \in InHand
       PROVE  /\ after[c] = comment[c]
              /\ after[c].status = "requirement_review" => Version(c) \notin d.batch
  BY <1>8, <1>11 DEF InHand, Applied, Sent
<1>12. Settled(d, after, None, new)
  BY <1>1, <1>4, <1>5, <1>10, <1>11 DEF Settled, RunSucceeds
<1> QED BY <1>1, <1>4, <1>12, ProceedStep DEF Phases

\* A run that fails keeps the invariant and gives away no batch twice.
LEMMA FailsStep ==
    ASSUME Inv, NEW d \in drains, RunFails(d)
    PROVE  Inv' /\ \A e \in drains' \ drains : e.batch \cap handed = {}
<1> USE DEF Inv
<1>1. UNCHANGED <<auxEpoch, controlEpoch, pauses, status, confirmed, document, crashes>>
  BY DEF RunFails
<1>2. CASE d.epoch # auxEpoch
  <2>1. /\ UNCHANGED <<comment, revision, handed>>
        /\ drains' = drains \ {d} /\ writer' = IF writer = d.loop THEN None ELSE writer
    BY <1>2 DEF RunFails, Leave
  <2>2. TypeOK' /\ Numbered' /\ CopyCurrent' /\ GivenAway' /\ SentFacts' /\ ReceiptsTrue' /\ Phases'
    BY <1>1, <2>1 DEF TypeOK, Numbered, CopyCurrent, Fresh, GivenAway, SentFacts, ReceiptsTrue, Version, Phases
  <2>3. Guarded'
    BY <1>1, <1>2, <2>1 DEF Guarded, Stopping, Version
  <2> QED BY <2>1, <2>2, <2>3
<1>3. CASE d.epoch = auxEpoch
  <2> DEFINE back == {c \in Comment : /\ Version(c) \in d.batch
                                      /\ comment[c].status = "requirement_review"}
             after == Put(back, Redraft)
             rev == IF Entitled(d) THEN Halted ELSE revision
  <2>1. Proceed(d, after, rev, document)
    BY <1>3 DEF RunFails
  <2>2. \A c \in Comment : after[c] = IF c \in back THEN Redraft(comment[c]) ELSE comment[c]
    BY DEF Put
  <2>3. \A c \in Comment : comment[c] \in Entry /\ comment[c].version \in 0..MaxVersion
    BY DEF TypeOK, Entry
  <2>4. \A c \in back : comment[c].version < MaxVersion
    BY DEF SentFacts, Sent
  <2>5. \A c \in Comment :
          /\ c \in back => /\ after[c] \in Entry /\ after[c].status = "draft"
                           /\ after[c].response = None
                           /\ after[c].version = comment[c].version + 1
          /\ c \notin back => after[c] = comment[c]
    <3>1. ASSUME NEW c \in back
          PROVE  /\ after[c] \in Entry /\ after[c].status = "draft"
                 /\ after[c].response = None
                 /\ after[c].version = comment[c].version + 1
      <4>1. after[c] = [status |-> "draft", version |-> comment[c].version + 1, response |-> None]
        BY <2>2 DEF Redraft
      <4>2. comment[c].version + 1 \in 0..MaxVersion
        BY <2>3, <2>4, BoundAssumption
      <4> QED BY <4>1, <4>2 DEF Entry
    <3>2. \A c \in Comment : c \notin back => after[c] = comment[c]
      BY <2>2
    <3> QED BY <3>1, <3>2
  <2>6. after = [c \in Comment |-> after[c]]
    BY DEF Put
  <2>7. \A c \in Comment : comment[c].status = "requirement_review" /\ Version(c) \in d.batch => c \in back
    OBVIOUS
  <2>8. back \subseteq Comment
    OBVIOUS
  <2>9. \/ rev = None
        \/ /\ rev \in [id : Nat, state : {"running", "failed"}, batch : SUBSET Comment]
           /\ revision # None /\ rev.id = revision.id
    BY HaltedFacts DEF TypeOK
  <2> HIDE DEF after, back, rev
  <2>10. Ledger(after, document, handed)
    <3>1. ASSUME NEW c \in Comment, NEW n \in 0..MaxVersion, <<c, n>> \in handed
          PROVE  /\ n <= after[c].version
                 /\ after[c].status \in {"draft", "requirement_queue"} => n < after[c].version
      <4>1. CASE c \in back
        BY <2>3, <2>5, <3>1, <4>1, BoundAssumption DEF GivenAway
      <4>2. CASE c \notin back
        BY <2>5, <3>1, <4>2 DEF GivenAway
      <4> QED BY <4>1, <4>2
    <3>2. ASSUME NEW c \in Comment
          PROVE  /\ after[c].status \in Sent => after[c].version < MaxVersion
                 /\ after[c].status = "interrupt" => after[c].response # None
                 /\ after[c].response = "fixed" => <<c, after[c].version>> \in document
      <4>1. CASE c \in back
        BY <2>5, <4>1, NoneAssumption DEF Sent
      <4>2. CASE c \notin back
        BY <2>5, <4>2 DEF SentFacts, ReceiptsTrue, Version
      <4> QED BY <4>1, <4>2
    <3>3. after \in [Comment -> Entry]
      BY <2>3, <2>5, <2>6
    <3> QED BY <3>1, <3>2, <3>3 DEF Ledger
  <2>11. ASSUME NEW c \in Comment, after[c].status \in InHand
         PROVE  /\ after[c] = comment[c]
                /\ after[c].status = "requirement_review" => Version(c) \notin d.batch
    BY <2>5, <2>7, <2>11 DEF InHand
  <2>12. Settled(d, after, rev, document)
    BY <1>1, <1>3, <2>9, <2>10, <2>11 DEF Settled, TypeOK
  <2> QED BY <2>1, <2>12, ProceedStep
<1> QED BY <1>2, <1>3

-----------------------------------------------------------------------------
\* The theorems.

\* The invariant holds at the start.
LEMMA InitInv == Init => Inv
<1> SUFFICES ASSUME Init PROVE Inv
  OBVIOUS
<1>1. TypeOK
  <2>1. comment \in [Comment -> Entry]
    BY BoundAssumption DEF Init, Entry
  <2>2. 0 \in 0..MaxEpoch /\ 0 \in 0..MaxCrashes
    BY BoundAssumption
  <2> QED BY <2>1, <2>2 DEF Init, TypeOK
<1>2. /\ \A c \in Comment : comment[c].status = "draft" /\ comment[c].response = None
      /\ drains = {} /\ revision = None /\ handed = {} /\ writer = None
      /\ ~confirmed /\ auxEpoch = 0 /\ controlEpoch = 0
  BY DEF Init
<1>3. Numbered /\ GivenAway /\ CopyCurrent
  BY <1>2 DEF Numbered, GivenAway, CopyCurrent
<1>4. SentFacts /\ ReceiptsTrue
  BY <1>2, NoneAssumption DEF SentFacts, ReceiptsTrue, Sent
<1>5. Phases /\ Guarded
  BY <1>2 DEF Phases, Guarded, InHand
<1> QED BY <1>1, <1>3, <1>4, <1>5 DEF Inv

\* Every step keeps the invariant, gives away new versions only, and leaves
\* a confirmed document alone.
LEMMA NextInv ==
    ASSUME Inv, [Next]_vars
    PROVE  /\ Inv'
           /\ \A d \in drains' \ drains : d.batch \cap handed = {}
           /\ confirmed => UNCHANGED document
<1>1. CASE UNCHANGED vars
  <2>1. UNCHANGED <<comment, drains, writer, auxEpoch, controlEpoch, pauses, status,
                    confirmed, revision, document, handed, crashes>>
    BY <1>1 DEF vars
  <2>2. TypeOK' /\ Numbered' /\ GivenAway' /\ SentFacts'
    BY <2>1 DEF Inv, TypeOK, Numbered, GivenAway, SentFacts, Fresh
  <2>3. Phases' /\ Guarded' /\ CopyCurrent' /\ ReceiptsTrue'
    BY <2>1 DEF Inv, Phases, Guarded, Stopping, CopyCurrent, ReceiptsTrue, Version
  <2> QED BY <2>1, <2>2, <2>3 DEF Inv
<1>2. CASE \E d \in drains : RunSucceeds(d)
  BY <1>2, SucceedsStep
<1>3. CASE \E d \in drains : RunFails(d)
  <2>1. UNCHANGED document
    BY <1>3 DEF RunFails
  <2> QED BY <1>3, <2>1, FailsStep
<1>4. CASE \/ \E e \in pauses : PauseEnds(e)
           \/ Cancel \/ Crash
           \/ \E d \in drains : CrashInWrite(d)
  <2>1. drains' = drains \/ drains' = {}
    BY <1>4 DEF PauseEnds, Cancel, Crash, CrashInWrite, Restart
  <2>2. confirmed => UNCHANGED document
    BY <1>4 DEF PauseEnds, Cancel, Crash, CrashInWrite, Entitled, Inv, Phases
  <2> QED BY <1>4, <2>1, <2>2, StopStep
<1>5. CASE \E S \in SUBSET Comment : Submit(S)
  <2>1. UNCHANGED document
    BY <1>5 DEF Submit
  <2> QED BY <1>5, <2>1, SubmitStep
<1>6. CASE \E c \in Comment : \/ EditAnnotation(c) \/ DropAnnotation(c)
                              \/ VerifyAnnotation(c) \/ ReopenAnnotation(c)
  <2>1. UNCHANGED <<drains, document>>
    BY <1>6 DEF EditAnnotation, DropAnnotation, VerifyAnnotation, ReopenAnnotation, Others
  <2> QED BY <1>6, <2>1, AuthorStep
<1>7. CASE Pause \/ Resume \/ Confirm
  <2>1. UNCHANGED <<drains, document>>
    BY <1>7 DEF Pause, Resume, Confirm
  <2> QED BY <1>7, <2>1, ControlStep
<1> QED BY <1>1, <1>2, <1>3, <1>4, <1>5, <1>6, <1>7 DEF Next, Processing

\* The invariant holds of every reachable state.
THEOREM Invariance == Spec => []Inv
<1>1. Inv /\ [Next]_vars => Inv'
  BY NextInv
<1> QED BY InitInv, <1>1, PTL DEF Spec

\* The variables keep their types.
THEOREM TypeCorrect == Spec => []TypeOK
<1>1. Inv => TypeOK
  BY DEF Inv
<1> QED BY Invariance, <1>1, PTL

\* A comment people can no longer touch is in the hands of a loop that will
\* still read the ledger, or of a pause that will give it back; one that was
\* processed can be closed or reopened.
THEOREM NothingForgotten == Spec => []NotForgotten
<1>1. Inv => NotForgotten
  <2> SUFFICES ASSUME Inv, NEW c \in Comment
               PROVE  /\ comment[c].status \in InHand =>
                           \/ pauses # {}
                           \/ \E d \in drains : d.epoch = auxEpoch
                      /\ comment[c].status = "interrupt" => comment[c].response # None
    BY DEF NotForgotten
  <2>1. Stopping => pauses # {}
    BY DEF Stopping
  <2> QED BY <2>1 DEF Inv, Guarded, SentFacts, InHand
<1> QED BY Invariance, <1>1, PTL

\* A receipt that says "fixed" is true of the document as it is: no run
\* overwrites what another one has done.
THEOREM ReceiptsAreTrue == Spec => []ReceiptsTrue
<1>1. Inv => ReceiptsTrue
  BY DEF Inv
<1> QED BY Invariance, <1>1, PTL

\* No version of a comment is given to an agent twice.
THEOREM NeverHandedTwice == Spec => HandedOnce
<1>1. Inv /\ [Next]_vars => [\A d \in drains' \ drains : d.batch \cap handed = {}]_vars
  BY NextInv
<1> QED BY Invariance, <1>1, PTL DEF Spec, HandedOnce

\* A confirmed document does not change.
THEOREM ConfirmedStaysFrozen == Spec => ConfirmedFrozen
<1>1. Inv /\ [Next]_vars => [confirmed => UNCHANGED document]_vars
  BY NextInv
<1> QED BY Invariance, <1>1, PTL DEF Spec, ConfirmedFrozen
=============================================================================
