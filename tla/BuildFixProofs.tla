-------------------------- MODULE BuildFixProofs --------------------------
(***************************************************************************)
(* What Build-Fix rounds guarantee for any number of calls, commits, other *)
(* builds, controls and restarts: who is told that the verification is     *)
(* done holds a commit that was verified or skipped, the record implements *)
(* Endorsement, and the build slot has one holder.                         *)
(***************************************************************************)
EXTENDS BuildFix, PrePushVerificationProofs, WellFoundedInduction

--------------------------------------------------------------------------
\* The inductive invariant.

\* A commit is what its checks are about.
ShaOf == [rev \in Revision |-> rev.sha]

\* Both checks of a commit were reported as passed, or a user skipped it.
Justified(sha, said, skips) ==
    (\A check \in CheckNames : <<sha, check>> \in said) \/ sha \in skips

\* The record of the task: a skip is one the user made of that commit.
Recording(p, said, skips) ==
    p # None =>
        /\ Sound(p, ShaOf, said)
        /\ p.state = "user_skipped" => p.rev.sha \in skips

\* A result speaks only of what its runner has reported.
Heard(result, said) ==
    /\ result \in Result
    /\ \A check \in CheckNames :
          result.report[check] = "passed" => <<result.sha, check>> \in said

\* A call: it waits only where it says so; a round has its attempt and its own
\* copy of the record; it is done only for a commit it may hand over.
Sure(k, said, skips) ==
    /\ k \in ChainRecord
    /\ k.on # None => k.pc \in {"wait", "join"}
    /\ k.pc \in InRound =>
          /\ k.id \in AttemptId /\ k.rev \in Shas /\ k.prev \in Statuses
          /\ Sound(k.local, ShaOf, said) /\ k.local.state # "user_skipped"
    /\ k.pc = "final_revision" => Heard(k.result, said)
    /\ k.pc = "settled" /\ k.ok => Justified(k.rev, said, skips)

Calls(chains, said, skips) ==
    /\ chains \in [Chains -> ChainRecord]
    /\ \A c \in Chains : Sure(chains[c], said, skips)

Verified ==
    /\ Recording(pp, reported, skippedAt)
    /\ Calls(chain, reported, skippedAt)
    /\ \A read \in skipping : Sound(read, ShaOf, reported) /\ read.state \in Stopped

\* An interrupt leaves room for the epoch that ends it.
Roomy == stopping # None /\ stopping.push = FALSE => stopping.epoch <= MaxEpoch

Inv == TypeOK /\ Verified /\ Roomy /\ SlotSound

--------------------------------------------------------------------------
\* Sequences.

\* Every set of natural numbers has a least member: the provers cannot use the
\* induction theorems, but they can look for the least counterexample.
LEMMA Least ==
    ASSUME NEW T, T \subseteq Nat, T # {}
    PROVE  \E m \in T : \A k \in T : m <= k
<1> DEFINE R == {ss \in Nat \X Nat : ss[1] < ss[2]}
<1>1. IsWellFoundedOn(R, Nat)
  BY NatLessThanWellFounded, Zenon DEF OpToRel
<1>2. \A k, m \in Nat : k < m => <<k, m>> \in R
  OBVIOUS
<1> HIDE DEF R
<1>3. PICK m \in T : \A k \in T : ~(<<k, m>> \in R)
  BY <1>1, WFMin
<1>4. \A k \in T : ~(k < m)
  BY <1>2, <1>3
<1> QED BY <1>4

\* What is kept of the first n.
Body(f, s, n) ==
    [i \in 0..n |->
        IF i = 0 THEN <<>>
        ELSE IF s[i] \in Others THEN Append(f[i - 1], s[i]) ELSE f[i - 1]]

Loops(f, s, n) == f = Body(f, s, n)

LEMMA LoopsOn ==
    ASSUME NEW s, NEW n \in Nat
    PROVE  \E f : Loops(f, s, n)
<1> DEFINE T == {k \in Nat : ~ \E f : Loops(f, s, k)}
<1> SUFFICES ASSUME T # {} PROVE FALSE
  OBVIOUS
<1>1. PICK m \in T : \A k \in T : m <= k
  BY Least
<1>2. m # 0
  <2> DEFINE f == [i \in 0..0 |-> <<>>]
  <2>1. Loops(f, s, 0)
    BY DEF Loops, Body
  <2> QED BY <2>1
<1>3. PICK f : Loops(f, s, m - 1)
  <2>1. m - 1 \in Nat /\ ~(m <= m - 1)
    BY <1>2
  <2> QED BY <1>1, <2>1
<1> DEFINE g == [i \in 0..m |-> IF i = m
                                THEN IF s[m] \in Others THEN Append(f[m - 1], s[m]) ELSE f[m - 1]
                                ELSE f[i]]
<1>4. Loops(g, s, m)
  <2> DEFINE e(h, i) == IF i = 0 THEN <<>>
                        ELSE IF s[i] \in Others THEN Append(h[i - 1], s[i]) ELSE h[i - 1]
  <2>1. \A i \in 0..(m - 1) : f[i] = e(f, i)
    BY <1>3 DEF Loops, Body
  <2>2. \A i \in 0..(m - 1) : g[i] = f[i]
    OBVIOUS
  <2>3. g[m] = e(g, m)
    BY <1>2
  <2>4. \A i \in 0..(m - 1) : i # 0 => i - 1 \in 0..(m - 1)
    OBVIOUS
  <2>5. \A i \in 0..m : g[i] = e(g, i)
    BY <2>1, <2>2, <2>3, <2>4
  <2>6. g = [i \in 0..m |-> g[i]]
    OBVIOUS
  <2> HIDE DEF g
  <2>7. g = [i \in 0..m |-> e(g, i)]
    BY <2>5, <2>6
  <2> QED BY <2>7 DEF Loops, Body
<1> HIDE DEF g
<1> QED BY <1>1, <1>4

LEMMA KeptIs ==
    ASSUME NEW s, Len(s) \in Nat
    PROVE  \E f : Loops(f, s, Len(s)) /\ Kept(s) = f[Len(s)]
<1> DEFINE f == CHOOSE g : g = Body(g, s, Len(s))
<1>1. Kept(s) = f[Len(s)]
  BY DEF Kept, Body
<1>2. \E g : g = Body(g, s, Len(s))
  <2>1. PICK g : Loops(g, s, Len(s))
    BY LoopsOn
  <2> QED BY <2>1 DEF Loops
<1>3. f = Body(f, s, Len(s))
  BY <1>2
<1> QED BY <1>1, <1>3 DEF Loops

\* The first i waiters have been kept right.
Keeps(q, s, i) ==
    /\ \A k \in DOMAIN q : \E l \in 1..i : q[k] = s[l] /\ s[l] \in Others
    /\ (\A k, l \in DOMAIN s : s[k] = s[l] => k = l) =>
          \A k, l \in DOMAIN q : q[k] = q[l] => k = l

LEMMA KeepsNext ==
    ASSUME NEW S, NEW s \in Seq(S), NEW i \in 1..Len(s), NEW q \in Seq(S), Keeps(q, s, i - 1)
    PROVE  /\ Keeps(q, s, i)
           /\ s[i] \in Others => Append(q, s[i]) \in Seq(S) /\ Keeps(Append(q, s[i]), s, i)
<1>1. Keeps(q, s, i)
  BY DEF Keeps
<1>2. ASSUME s[i] \in Others
      PROVE  Append(q, s[i]) \in Seq(S) /\ Keeps(Append(q, s[i]), s, i)
  <2> DEFINE a == Append(q, s[i])
  <2>1. s[i] \in S /\ a \in Seq(S)
    OBVIOUS
  <2>2. /\ DOMAIN q = 1..Len(q) /\ DOMAIN a = 1..(Len(q) + 1) /\ Len(q) \in Nat
        /\ \A k \in 1..Len(q) : a[k] = q[k]
        /\ a[Len(q) + 1] = s[i]
        /\ DOMAIN s = 1..Len(s)
    OBVIOUS
  <2> HIDE DEF a
  <2>3. \A k \in DOMAIN a : \E l \in 1..i : a[k] = s[l] /\ s[l] \in Others
    BY <1>1, <1>2, <2>2 DEF Keeps
  <2>4. ASSUME \A k, l \in DOMAIN s : s[k] = s[l] => k = l,
               NEW k \in DOMAIN a, NEW l \in DOMAIN a, a[k] = a[l]
        PROVE  k = l
    <3>1. \A m \in 1..Len(q) : q[m] # s[i]
      <4> SUFFICES ASSUME NEW m \in 1..Len(q), q[m] = s[i] PROVE FALSE
        OBVIOUS
      <4>1. PICK n \in 1..(i - 1) : q[m] = s[n]
        BY <2>2 DEF Keeps
      <4>2. n \in DOMAIN s /\ i \in DOMAIN s /\ n # i
        BY <2>2
      <4> QED BY <2>4, <4>1, <4>2
    <3>2. CASE k \in 1..Len(q) /\ l \in 1..Len(q)
      BY <2>2, <2>4, <3>2 DEF Keeps
    <3>3. CASE k = Len(q) + 1 \/ l = Len(q) + 1
      BY <2>2, <2>4, <3>1, <3>3
    <3> QED BY <2>2, <3>2, <3>3
  <2> QED BY <2>1, <2>3, <2>4 DEF Keeps, a
<1> QED BY <1>1, <1>2

LEMMA KeptKeeps ==
    ASSUME NEW S, NEW s \in Seq(S)
    PROVE  Kept(s) \in Seq(S) /\ Keeps(Kept(s), s, Len(s))
<1>1. Len(s) \in Nat
  OBVIOUS
<1>2. PICK f : Loops(f, s, Len(s)) /\ Kept(s) = f[Len(s)]
  BY <1>1, KeptIs
<1> DEFINE T == {i \in 0..Len(s) : ~(f[i] \in Seq(S) /\ Keeps(f[i], s, i))}
<1> SUFFICES ASSUME T # {} PROVE FALSE
  BY <1>1, <1>2
<1>3. PICK m \in T : \A k \in T : m <= k
  <2>1. T \subseteq Nat
    OBVIOUS
  <2> QED BY <2>1, Least
<1>4. m # 0
  <2>1. f[0] = <<>>
    BY <1>1, <1>2 DEF Loops, Body
  <2>2. f[0] \in Seq(S) /\ Keeps(f[0], s, 0)
    BY <2>1 DEF Keeps
  <2> QED BY <2>2
<1>5. m \in 1..Len(s) /\ m - 1 \in 0..Len(s) /\ ~(m <= m - 1)
  BY <1>1, <1>4
<1>6. f[m - 1] \in Seq(S) /\ Keeps(f[m - 1], s, m - 1)
  BY <1>3, <1>5
<1>7. f[m] = IF s[m] \in Others THEN Append(f[m - 1], s[m]) ELSE f[m - 1]
  <2>1. \A i \in 1..Len(s) :
          f[i] = IF s[i] \in Others THEN Append(f[i - 1], s[i]) ELSE f[i - 1]
    <3>1. f = Body(f, s, Len(s))
      BY <1>2 DEF Loops
    <3>2. \A i \in 0..Len(s) : f[i] = IF i = 0 THEN <<>>
                    ELSE IF s[i] \in Others THEN Append(f[i - 1], s[i]) ELSE f[i - 1]
      BY <3>1 DEF Body
    <3> QED BY <1>1, <3>2
  <2> QED BY <1>5, <2>1
<1>8. f[m] \in Seq(S) /\ Keeps(f[m], s, m)
  BY <1>5, <1>6, <1>7, KeepsNext
<1> QED BY <1>8

--------------------------------------------------------------------------
\* Calls.

\* More reports and more skips never make a call less sure.
LEMMA CallsMonotone ==
    ASSUME NEW chains, NEW said, NEW skips, NEW more, NEW moreSkips,
           said \subseteq more, skips \subseteq moreSkips,
           Calls(chains, said, skips)
    PROVE  Calls(chains, more, moreSkips)
<1> SUFFICES ASSUME NEW c \in Chains PROVE Sure(chains[c], more, moreSkips)
  BY DEF Calls
<1> DEFINE k == chains[c]
<1>1. Sure(k, said, skips)
  BY DEF Calls
<1> HIDE DEF k
<1>2. Sound(k.local, ShaOf, said) => Sound(k.local, ShaOf, more)
  BY SoundMonotone
<1>3. Heard(k.result, said) => Heard(k.result, more)
  BY DEF Heard
<1>4. Justified(k.rev, said, skips) => Justified(k.rev, more, moreSkips)
  BY DEF Justified
<1>5. Sure(k, more, moreSkips)
  BY <1>1, <1>2, <1>3, <1>4 DEF Sure
<1> QED BY <1>5 DEF k

\* The same holds of the record.
LEMMA RecordingMonotone ==
    ASSUME NEW p, NEW said, NEW skips, NEW more, NEW moreSkips,
           said \subseteq more, skips \subseteq moreSkips,
           Recording(p, said, skips)
    PROVE  Recording(p, more, moreSkips)
BY SoundMonotone DEF Recording

\* One call moves, the others stay.
LEMMA OneMoves ==
    ASSUME NEW chains, NEW said, NEW skips, Calls(chains, said, skips),
           NEW c \in Chains, NEW k, Sure(k, said, skips)
    PROVE  Calls([chains EXCEPT ![c] = k], said, skips)
BY DEF Calls, Sure

\* A call that is not there, or has just come, promises nothing.
LEMMA StartedSure ==
    ASSUME NEW said, NEW skips, NEW kind \in {"resume", "host"}, NEW e \in Nat
    PROVE  /\ Sure(Idle, said, skips)
           /\ Sure(Started(kind, e, "revision"), said, skips)
           /\ \A busy \in Chains :
                 Sure([Started(kind, e, "wait") EXCEPT !.on = busy], said, skips)
<1>1. Idle \in ChainRecord /\ Idle.pc = "idle" /\ Idle.on = None
  BY DEF Idle, ChainRecord, Pcs
<1>2. /\ Started(kind, e, "revision") \in ChainRecord
      /\ Started(kind, e, "revision").pc = "revision"
      /\ Started(kind, e, "revision").on = None
  BY DEF Started, Idle, ChainRecord, Pcs
<1>3. \A busy \in Chains :
        /\ [Started(kind, e, "wait") EXCEPT !.on = busy] \in ChainRecord
        /\ [Started(kind, e, "wait") EXCEPT !.on = busy].pc = "wait"
  BY DEF Started, Idle, ChainRecord, Pcs
<1> QED BY <1>1, <1>2, <1>3 DEF Sure, InRound

\* A call keeps what it has when it goes from one point of a round to another.
LEMMA MovedSure ==
    ASSUME NEW said, NEW skips, NEW k, Sure(k, said, skips), k.pc \in InRound,
           NEW pc \in InRound \ {"final_revision"}
    PROVE  Sure([k EXCEPT !.pc = pc], said, skips)
<1> DEFINE n == [k EXCEPT !.pc = pc]
<1>1. k \in ChainRecord /\ k.on = None
  BY DEF Sure, InRound
<1>2. n \in ChainRecord
  BY <1>1 DEF ChainRecord, Pcs, InRound
<1>3. /\ n.pc = pc /\ n.on = k.on /\ n.id = k.id /\ n.rev = k.rev /\ n.prev = k.prev
      /\ n.local = k.local
  BY <1>1 DEF ChainRecord
<1> HIDE DEF n
<1>4. Sure(n, said, skips)
  BY <1>1, <1>2, <1>3 DEF Sure, InRound
<1> QED BY <1>4 DEF n

\* The end of a round settles its caller and whoever waits for it: they may
\* hand over if the round may.
LEMMA SettledCalls ==
    ASSUME NEW chains, NEW said, NEW skips, Calls(chains, said, skips),
           NEW c \in Chains, chains[c].on = None, NEW ok \in BOOLEAN,
           ok => Justified(chains[c].rev, said, skips)
    PROVE  Calls(Settled(chains, c, ok), said, skips)
<1> SUFFICES ASSUME NEW d \in Chains
             PROVE  Sure(Settled(chains, c, ok)[d], said, skips)
  BY DEF Calls, Settled, Sure
<1> DEFINE n == Settled(chains, c, ok)[d]
<1>1. Sure(chains[c], said, skips) /\ Sure(chains[d], said, skips)
  BY DEF Calls
<1>2. chains[c] \in ChainRecord /\ chains[d] \in ChainRecord
  BY <1>1 DEF Sure
<1>3. CASE d = c
  <2>1. n = [chains[c] EXCEPT !.pc = "settled", !.ok = ok, !.id = None,
                              !.local = None, !.prev = None, !.result = None]
    BY <1>3 DEF Settled
  <2>2. n \in ChainRecord
    BY <1>2, <2>1 DEF ChainRecord, Pcs
  <2>3. n.pc = "settled" /\ n.ok = ok /\ n.on = None /\ n.rev = chains[c].rev
    BY <1>2, <2>1 DEF ChainRecord
  <2> HIDE DEF n
  <2>4. Sure(n, said, skips)
    BY <2>2, <2>3 DEF Sure, InRound
  <2> QED BY <2>4 DEF n
<1>4. CASE d # c /\ chains[d].on # c
  BY <1>1, <1>4 DEF Settled
<1>5. CASE d # c /\ chains[d].on = c
  <2>1. chains[d].pc \in {"wait", "join"}
    BY <1>1, <1>5, BuildFixConstants DEF Sure
  <2>2. CASE chains[d].pc = "wait"
    <3>1. n = [chains[d] EXCEPT !.pc = "woken", !.on = None]
      BY <1>5, <2>2 DEF Settled
    <3>2. n \in ChainRecord
      BY <1>2, <3>1 DEF ChainRecord, Pcs
    <3>3. n.pc = "woken" /\ n.on = None
      BY <1>2, <3>1 DEF ChainRecord
    <3> HIDE DEF n
    <3>4. Sure(n, said, skips)
      BY <3>2, <3>3 DEF Sure, InRound
    <3> QED BY <3>4 DEF n
  <2>3. CASE chains[d].pc = "join"
    <3>1. n = [chains[d] EXCEPT !.pc = "settled", !.on = None, !.ok = ok,
                                !.rev = chains[c].rev]
      BY <1>5, <2>3 DEF Settled
    <3>2. n \in ChainRecord
      BY <1>2, <3>1 DEF ChainRecord, Pcs
    <3>3. n.pc = "settled" /\ n.on = None /\ n.ok = ok /\ n.rev = chains[c].rev
      BY <1>2, <3>1 DEF ChainRecord
    <3> HIDE DEF n
    <3>4. Sure(n, said, skips)
      BY <3>2, <3>3 DEF Sure, InRound
    <3> QED BY <3>4 DEF n
  <2> QED BY <2>1, <2>2, <2>3
<1> QED BY <1>3, <1>4, <1>5

\* A round that has read HEAD again goes by it.
LEMMA SeenCalls ==
    ASSUME NEW chains, NEW said, NEW skips, Calls(chains, said, skips),
           NEW c \in Chains, chains[c].pc \in {"round_revision", "final_revision"},
           NEW sha \in Shas
    PROVE  LET seen == [chains EXCEPT ![c].rev = sha] IN
           /\ Calls(seen, said, skips)
           /\ seen[c].on = None /\ seen[c].rev = sha /\ seen[c].pc = chains[c].pc
           /\ \A d \in Chains : d # c => seen[d] = chains[d]
<1> DEFINE seen == [chains EXCEPT ![c].rev = sha]
           k == [chains[c] EXCEPT !.rev = sha]
<1>1. Sure(chains[c], said, skips) /\ chains[c] \in ChainRecord
  BY DEF Calls, Sure
<1>2. k \in ChainRecord
  BY <1>1 DEF ChainRecord
<1>3. /\ k.pc = chains[c].pc /\ k.on = chains[c].on /\ k.id = chains[c].id
      /\ k.rev = sha /\ k.prev = chains[c].prev /\ k.local = chains[c].local
      /\ k.result = chains[c].result
  BY <1>1 DEF ChainRecord
<1>4. /\ seen = [chains EXCEPT ![c] = k] /\ seen[c] = k
      /\ \A d \in Chains : d # c => seen[d] = chains[d]
  BY DEF Calls
<1> HIDE DEF k, seen
<1>5. Sure(k, said, skips) /\ k.on = None
  BY <1>1, <1>2, <1>3 DEF Sure, InRound
<1>6. Calls(seen, said, skips)
  BY <1>4, <1>5, OneMoves
<1> QED BY <1>3, <1>4, <1>5, <1>6 DEF seen

--------------------------------------------------------------------------
\* The build slot.

Holding == {"granted", "boot", "turn"}

\* SlotSound of any slot, queue and calls.
Slots(holder, waiters, chains) ==
    /\ \A c \in Chains : holder = c <=> chains[c].pc \in Holding
    /\ \A c \in Chains :
          chains[c].pc = "queued" <=> \E i \in DOMAIN waiters : waiters[i] = c
    /\ \A i, j \in DOMAIN waiters : waiters[i] = waiters[j] => i = j
    /\ holder = None => waiters = <<>>

LEMMA SlotsIs == SlotSound <=> Slots(slot, queue, chain)
BY DEF SlotSound, Slots, Holding

\* Calls that neither gain nor lose a place change nothing about the slot.
Alike(chains, others) ==
    \A d \in Chains :
        /\ chains[d].pc \in Holding <=> others[d].pc \in Holding
        /\ chains[d].pc = "queued" <=> others[d].pc = "queued"

LEMMA SlotsAlike ==
    ASSUME NEW holder, NEW waiters, NEW chains, NEW others,
           Slots(holder, waiters, chains), Alike(chains, others)
    PROVE  Slots(holder, waiters, others)
BY DEF Slots, Alike

\* The end of a round that has no place changes nothing about the slot.
LEMMA SettledAlike ==
    ASSUME NEW chains, NEW said, NEW skips, Calls(chains, said, skips),
           NEW c \in Chains, chains[c].pc \notin Holding \cup {"queued"}, NEW ok
    PROVE  Alike(chains, Settled(chains, c, ok))
<1> SUFFICES ASSUME NEW d \in Chains
             PROVE  /\ chains[d].pc \in Holding <=> Settled(chains, c, ok)[d].pc \in Holding
                    /\ chains[d].pc = "queued" <=> Settled(chains, c, ok)[d].pc = "queued"
  BY DEF Alike
<1>1. Sure(chains[d], said, skips) /\ chains[d] \in ChainRecord /\ chains[c] \in ChainRecord
  BY DEF Calls, Sure
<1>2. CASE d = c
  <2>1. Settled(chains, c, ok)[d].pc = "settled"
    BY <1>1, <1>2 DEF Settled, ChainRecord
  <2> QED BY <1>2, <2>1 DEF Holding
<1>3. CASE d # c /\ chains[d].on # c
  BY <1>3 DEF Settled
<1>4. CASE d # c /\ chains[d].on = c
  <2>1. chains[d].pc \in {"wait", "join"}
    BY <1>1, <1>4, BuildFixConstants DEF Sure
  <2>2. Settled(chains, c, ok)[d].pc \in {"woken", "settled"}
    BY <1>1, <1>4, <2>1 DEF Settled, ChainRecord
  <2> QED BY <2>1, <2>2 DEF Holding
<1> QED BY <1>2, <1>3, <1>4

\* The first that may run.
LEMMA FirstReadyIs ==
    ASSUME queue \in Seq(Chains \cup Others), Ready # {}
    PROVE  FirstReady \in Ready /\ FirstReady \in 1..Len(queue)
<1>1. Ready \subseteq 1..Len(queue)
  BY DEF Ready
<1>2. Ready \subseteq Nat
  BY <1>1
<1>3. \E m \in Ready : \A k \in Ready : m <= k
  BY <1>2, Least
<1>4. FirstReady \in Ready
  BY <1>3 DEF FirstReady
<1> QED BY <1>1, <1>4

\* Whoever is passed over or served was waiting.
LEMMA Waited ==
    ASSUME queue \in Seq(Chains \cup Others)
    PROVE  /\ \A w \in PassedOver : \E i \in DOMAIN queue : queue[i] = w
           /\ Ready # {} => FirstReady \in DOMAIN queue
<1>1. CASE Ready = {}
  BY <1>1 DEF PassedOver
<1>2. CASE Ready # {}
  <2>1. FirstReady \in 1..Len(queue)
    BY <1>2, FirstReadyIs
  <2>2. 1..(FirstReady - 1) \subseteq DOMAIN queue
    BY <2>1
  <2> QED BY <1>2, <2>1, <2>2 DEF PassedOver
<1> QED BY <1>1, <1>2

\* What a drain does to one call: a waiter is refused or granted.
LEMMA DrainedIs ==
    ASSUME queue \in Seq(Chains \cup Others), SlotSound, NEW d \in Chains
    PROVE  /\ Drained(chain)[d] \in {chain[d], [chain[d] EXCEPT !.pc = "refused"],
                                     [chain[d] EXCEPT !.pc = "granted"]}
           /\ chain[d].pc # "queued" => Drained(chain)[d] = chain[d]
           /\ d \in PassedOver => Drained(chain)[d] = [chain[d] EXCEPT !.pc = "refused"]
           /\ d \notin PassedOver /\ Ready # {} /\ queue[FirstReady] = d =>
                Drained(chain)[d] = [chain[d] EXCEPT !.pc = "granted"]
           /\ d \notin PassedOver /\ ~(Ready # {} /\ queue[FirstReady] = d) =>
                Drained(chain)[d] = chain[d]
<1>1. d \in PassedOver => chain[d].pc = "queued"
  BY Waited DEF SlotSound
<1>2. Ready # {} /\ queue[FirstReady] = d => chain[d].pc = "queued"
  BY Waited DEF SlotSound
<1> QED BY <1>1, <1>2 DEF Drained

LEMMA DrainedCalls ==
    ASSUME TypeOK, Verified, SlotSound
    PROVE  Calls(Drained(chain), reported, skippedAt)
<1>1. Calls(chain, reported, skippedAt) /\ queue \in Seq(Chains \cup Others)
  BY DEF Verified, TypeOK
<1> SUFFICES ASSUME NEW d \in Chains
             PROVE  Sure(Drained(chain)[d], reported, skippedAt)
  BY <1>1 DEF Calls, Drained, Sure
<1>2. Sure(chain[d], reported, skippedAt)
  BY <1>1 DEF Calls
<1>3. CASE chain[d].pc # "queued"
  BY <1>1, <1>2, <1>3, DrainedIs
<1>4. CASE chain[d].pc = "queued"
  <2>1. chain[d].pc \in InRound /\ {"refused", "granted"} \subseteq InRound \ {"final_revision"}
    BY <1>4 DEF InRound
  <2>2. /\ Sure([chain[d] EXCEPT !.pc = "refused"], reported, skippedAt)
        /\ Sure([chain[d] EXCEPT !.pc = "granted"], reported, skippedAt)
    BY <1>2, <2>1, MovedSure
  <2> QED BY <1>1, <1>2, <2>2, DrainedIs
<1> QED BY <1>3, <1>4

\* The slot goes from its holder to the first that may have it, and whoever
\* was waiting before that one is out of the queue.
LEMMA ReleasedSlots ==
    ASSUME TypeOK, SlotSound, ReleaseSlot, slot # None,
           NEW chains, NEW next \in [Chains -> ChainRecord],
           chains = Drained(chain),
           \A d \in Chains : d # slot =>
              /\ next[d].pc \in Holding <=> chains[d].pc \in Holding
              /\ next[d].pc = "queued" <=> chains[d].pc = "queued",
           slot \in Chains => next[slot].pc \notin Holding \cup {"queued"}
    PROVE  /\ Slots(slot', queue', next)
           /\ slot' \in Chains \cup Others \cup {None} /\ queue' \in Seq(Chains \cup Others)
<1>1. /\ queue \in Seq(Chains \cup Others) /\ DOMAIN queue = 1..Len(queue) /\ Len(queue) \in Nat
      /\ chain \in [Chains -> ChainRecord]
  BY DEF TypeOK
<1>3. \A d \in Chains :
        /\ [chain[d] EXCEPT !.pc = "refused"].pc = "refused"
        /\ [chain[d] EXCEPT !.pc = "granted"].pc = "granted"
  BY <1>1 DEF ChainRecord
<1>4. /\ \A d \in Chains : slot = d <=> chain[d].pc \in Holding
      /\ \A d \in Chains : chain[d].pc = "queued" <=> \E i \in DOMAIN queue : queue[i] = d
      /\ \A i, j \in DOMAIN queue : queue[i] = queue[j] => i = j
  BY DEF SlotSound, Holding
<1>5. CASE Ready = {}
  <2>1. slot' = None /\ queue' = <<>>
    BY <1>5 DEF ReleaseSlot
  <2>2. PassedOver = {queue[i] : i \in DOMAIN queue}
    BY <1>5 DEF PassedOver
  <2>3. \A d \in Chains : d # slot =>
          next[d].pc \notin Holding /\ next[d].pc # "queued"
    <3> SUFFICES ASSUME NEW d \in Chains, d # slot
                 PROVE  chains[d].pc \notin Holding /\ chains[d].pc # "queued"
      OBVIOUS
    <3>1. chain[d].pc \notin Holding
      BY <1>4
    <3>2. CASE chain[d].pc = "queued"
      <4>1. d \in PassedOver
        BY <1>4, <2>2, <3>2
      <4>2. chains[d] = [chain[d] EXCEPT !.pc = "refused"]
        BY <1>1, <4>1, DrainedIs
      <4> QED BY <1>3, <4>2 DEF Holding
    <3>3. CASE chain[d].pc # "queued"
      BY <1>1, <3>1, <3>3, DrainedIs
    <3> QED BY <3>2, <3>3
  <2>4. \A d \in Chains : next[d].pc \notin Holding /\ next[d].pc # "queued"
    BY <2>3
  <2> QED BY <2>1, <2>4, BuildFixConstants DEF Slots
<1>6. CASE Ready # {}
  <2> DEFINE f == FirstReady
  <2>1. f \in 1..Len(queue)
    BY <1>1, <1>6, FirstReadyIs
  <2>2. slot' = queue[f] /\ queue' = SubSeq(queue, f + 1, Len(queue))
    BY <1>6 DEF ReleaseSlot
  <2>3. PassedOver = {queue[i] : i \in 1..(f - 1)}
    BY <1>6 DEF PassedOver
  <2>4. \A d \in Chains : Ready # {} /\ queue[f] = d <=> queue[f] = d
    BY <1>6
  <2> HIDE DEF f
  <2>5. /\ queue' \in Seq(Chains \cup Others) /\ DOMAIN queue' = 1..(Len(queue) - f)
        /\ \A i \in 1..(Len(queue) - f) : queue'[i] = queue[i + f]
    BY <1>1, <2>1, <2>2
  <2>6. queue[f] \in Chains \cup Others
    BY <1>1, <2>1
  <2>7. \A d \in Chains :
          (\E i \in DOMAIN queue' : queue'[i] = d) <=> \E i \in (f + 1)..Len(queue) : queue[i] = d
    <3> SUFFICES ASSUME NEW d \in Chains
                 PROVE  (\E i \in DOMAIN queue' : queue'[i] = d) <=>
                        \E i \in (f + 1)..Len(queue) : queue[i] = d
      OBVIOUS
    <3>1. ASSUME NEW i \in DOMAIN queue', queue'[i] = d
          PROVE  \E j \in (f + 1)..Len(queue) : queue[j] = d
      <4>1. i + f \in (f + 1)..Len(queue)
        BY <1>1, <2>1, <2>5, <3>1
      <4> QED BY <2>5, <3>1, <4>1
    <3>2. ASSUME NEW j \in (f + 1)..Len(queue), queue[j] = d
          PROVE  \E i \in DOMAIN queue' : queue'[i] = d
      <4>1. j - f \in 1..(Len(queue) - f) /\ j - f + f = j
        BY <1>1, <2>1
      <4> QED BY <2>5, <3>2, <4>1
    <3> QED BY <3>1, <3>2
  <2>8. \A d \in Chains : d # slot =>
          /\ next[d].pc \in Holding <=> queue[f] = d
          /\ next[d].pc = "queued" <=> \E i \in (f + 1)..Len(queue) : queue[i] = d
    <3> SUFFICES ASSUME NEW d \in Chains, d # slot
                 PROVE  /\ chains[d].pc \in Holding <=> queue[f] = d
                        /\ chains[d].pc = "queued" <=>
                             \E i \in (f + 1)..Len(queue) : queue[i] = d
      OBVIOUS
    <3>1. chain[d].pc \notin Holding
      BY <1>4
    <3>2. f + 1 \in Nat /\ (f + 1)..Len(queue) \subseteq DOMAIN queue /\ f \in DOMAIN queue
          /\ 1..(f - 1) \subseteq DOMAIN queue
          /\ f \notin 1..(f - 1) /\ f \notin (f + 1)..Len(queue)
      BY <1>1, <2>1
    <3>3. CASE d \in PassedOver
      <4>1. chains[d].pc = "refused"
        BY <1>1, <1>3, <3>3, DrainedIs
      <4>2. PICK i \in 1..(f - 1) : queue[i] = d
        BY <2>3, <3>3
      <4>3. i \notin (f + 1)..Len(queue) /\ i # f /\ i \in DOMAIN queue
        BY <1>1, <2>1, <3>2
      <4> QED BY <1>4, <3>2, <4>1, <4>2, <4>3 DEF Holding
    <3>4. CASE d \notin PassedOver /\ queue[f] = d
      <4>1. d \notin PassedOver /\ Ready # {} /\ queue[FirstReady] = d
        BY <1>6, <3>4 DEF f
      <4>2. chains[d] = [chain[d] EXCEPT !.pc = "granted"]
        BY <1>1, <4>1, DrainedIs
      <4>3. chains[d].pc = "granted"
        BY <1>3, <4>2
      <4> QED BY <1>4, <3>2, <3>4, <4>3 DEF Holding
    <3>5. CASE d \notin PassedOver /\ queue[f] # d
      <4>1. chains[d] = chain[d]
        BY <1>1, <2>4, <3>5, DrainedIs DEF f
      <4>2. \A i \in DOMAIN queue : queue[i] = d => i \in (f + 1)..Len(queue)
        <5>1. \A i \in DOMAIN queue : i \in 1..(f - 1) \/ i = f \/ i \in (f + 1)..Len(queue)
          BY <1>1, <2>1
        <5> QED BY <2>3, <3>5, <5>1
      <4> QED BY <1>4, <3>1, <3>2, <3>5, <4>1, <4>2
    <3> QED BY <3>3, <3>4, <3>5
  <2>9. \A i \in DOMAIN queue : slot \in Chains => queue[i] # slot
    <3> SUFFICES ASSUME slot \in Chains, NEW i \in DOMAIN queue, queue[i] = slot PROVE FALSE
      OBVIOUS
    <3>1. chain[slot].pc \in Holding /\ chain[slot].pc = "queued"
      BY <1>4
    <3> QED BY <3>1 DEF Holding
  <2>10. \A d \in Chains :
           /\ queue[f] = d <=> next[d].pc \in Holding
           /\ next[d].pc = "queued" <=> \E i \in (f + 1)..Len(queue) : queue[i] = d
    <3> SUFFICES ASSUME NEW d \in Chains, d = slot
                 PROVE  /\ queue[f] = d <=> next[d].pc \in Holding
                        /\ next[d].pc = "queued" <=>
                             \E i \in (f + 1)..Len(queue) : queue[i] = d
      BY <2>8
    <3>1. f \in DOMAIN queue /\ (f + 1)..Len(queue) \subseteq DOMAIN queue
      BY <1>1, <2>1
    <3> QED BY <2>9, <3>1
  <2>11. \A i, j \in DOMAIN queue' : queue'[i] = queue'[j] => i = j
    <3> SUFFICES ASSUME NEW i \in DOMAIN queue', NEW j \in DOMAIN queue', queue'[i] = queue'[j]
                 PROVE  i = j
      OBVIOUS
    <3>1. i + f \in DOMAIN queue /\ j + f \in DOMAIN queue /\ queue[i + f] = queue[j + f]
      BY <1>1, <2>1, <2>5
    <3>2. i + f = j + f
      BY <1>4, <3>1
    <3> QED BY <2>1, <2>5, <3>2
  <2>12. slot' # None
    BY <2>2, <2>6, BuildFixConstants
  <2> QED BY <2>2, <2>5, <2>6, <2>7, <2>10, <2>11, <2>12 DEF Slots
<1> QED BY <1>5, <1>6

\* A call asks for the slot: it is served at once, or waits behind the holder.
LEMMA TakenSlots ==
    ASSUME SlotSound, slot = None, NEW c \in Chains,
           NEW next, \A d \in Chains : d # c => next[d] = chain[d],
           next[c].pc = "granted"
    PROVE  Slots(c, queue, next)
<1>1. queue = <<>>
  BY DEF SlotSound
<1>2. \A d \in Chains : chain[d].pc \notin Holding
  BY BuildFixConstants DEF SlotSound, Holding
<1>3. \A d \in Chains : chain[d].pc # "queued"
  BY <1>1 DEF SlotSound
<1>4. \A d \in Chains : c = d <=> next[d].pc \in Holding
  BY <1>2 DEF Holding
<1>5. \A d \in Chains : next[d].pc # "queued"
  BY <1>3
<1>6. c # None
  BY BuildFixConstants
<1> QED BY <1>1, <1>4, <1>5, <1>6 DEF Slots

LEMMA JoinedSlots ==
    ASSUME SlotSound, queue \in Seq(Chains \cup Others), slot # None,
           NEW w \in Chains \cup Others, \A i \in DOMAIN queue : queue[i] # w,
           NEW next, \A d \in Chains : d # w => next[d] = chain[d],
           w \in Chains => next[w].pc = "queued" /\ chain[w].pc \notin Holding
    PROVE  Slots(slot, Append(queue, w), next) /\ Append(queue, w) \in Seq(Chains \cup Others)
<1> DEFINE q == Append(queue, w)
<1>1. /\ q \in Seq(Chains \cup Others) /\ DOMAIN queue = 1..Len(queue) /\ Len(queue) \in Nat
      /\ DOMAIN q = 1..(Len(queue) + 1)
      /\ \A i \in 1..Len(queue) : q[i] = queue[i]
      /\ q[Len(queue) + 1] = w
  OBVIOUS
<1> HIDE DEF q
<1>2. \A d : (\E i \in DOMAIN q : q[i] = d) <=> d = w \/ \E i \in DOMAIN queue : queue[i] = d
  BY <1>1
<1>3. \A d \in Chains : slot = d <=> next[d].pc \in Holding
  BY DEF SlotSound, Holding
<1>4. \A d \in Chains : next[d].pc = "queued" <=> \E i \in DOMAIN q : q[i] = d
  BY <1>2 DEF SlotSound
<1>5. \A i, j \in DOMAIN q : q[i] = q[j] => i = j
  BY <1>1 DEF SlotSound
<1> QED BY <1>1, <1>3, <1>4, <1>5 DEF Slots, q

\* Sending the waiters of the task away leaks no place.
LEMMA DismissedSlots ==
    ASSUME TypeOK, SlotSound, DismissWaiters, slot' = slot
    PROVE  SlotSound' /\ queue' \in Seq(Chains \cup Others)
<1>1. queue \in Seq(Chains \cup Others) /\ chain \in [Chains -> ChainRecord]
  BY DEF TypeOK
<1>2. queue' \in Seq(Chains \cup Others) /\ Keeps(queue', queue, Len(queue))
  BY <1>1, KeptKeeps DEF DismissWaiters
<1>3. \A d \in Chains : chain'[d].pc = IF chain[d].pc = "queued" THEN "refused" ELSE chain[d].pc
  BY <1>1 DEF DismissWaiters, ChainRecord
<1>4. \A d \in Chains : chain'[d].pc # "queued" /\ (chain'[d].pc \in Holding <=> chain[d].pc \in Holding)
  BY <1>3 DEF Holding
<1>5. \A i \in DOMAIN queue' : queue'[i] \notin Chains
  BY <1>2, BuildFixConstants DEF Keeps
<1>6. \A i, j \in DOMAIN queue' : queue'[i] = queue'[j] => i = j
  BY <1>2 DEF Keeps, SlotSound
<1>7. slot = None => queue' = <<>>
  <2> SUFFICES ASSUME slot = None PROVE queue' = <<>>
    OBVIOUS
  <2>1. Len(queue) = 0
    BY DEF SlotSound
  <2>2. \A i \in DOMAIN queue' : FALSE
    BY <1>2, <2>1 DEF Keeps
  <2> QED BY <1>2, <2>2
<1> QED BY <1>2, <1>4, <1>5, <1>6, <1>7 DEF SlotSound, Holding

LEMMA DismissedCalls ==
    ASSUME Verified, DismissWaiters
    PROVE  Calls(chain', reported, skippedAt)
<1>1. Calls(chain, reported, skippedAt)
  BY DEF Verified
<1> SUFFICES ASSUME NEW d \in Chains PROVE Sure(chain'[d], reported, skippedAt)
  BY DEF Calls, DismissWaiters, Sure
<1>2. Sure(chain[d], reported, skippedAt)
  BY <1>1 DEF Calls
<1>3. CASE chain[d].pc = "queued"
  <2>1. chain[d].pc \in InRound /\ "refused" \in InRound \ {"final_revision"}
    BY <1>3 DEF InRound
  <2>2. Sure([chain[d] EXCEPT !.pc = "refused"], reported, skippedAt)
    BY <1>2, <2>1, MovedSure
  <2> QED BY <1>3, <2>2 DEF DismissWaiters
<1>4. CASE chain[d].pc # "queued"
  BY <1>2, <1>4 DEF DismissWaiters
<1> QED BY <1>3, <1>4

--------------------------------------------------------------------------
\* The record.

\* What a runner says of the two checks.
LEMMA ReportsAreReports ==
    /\ \A v \in Outcomes : Reports(v) \subseteq [CheckNames -> ReportedOutcomes]
    /\ \A sha \in Shas : Infrastructure(sha) \in Result
    /\ \A sha : \A check \in CheckNames : Infrastructure(sha).report[check] # "passed"
<1>1. \A x, y \in ReportedOutcomes : [compile |-> x, unit_test |-> y] \in [CheckNames -> ReportedOutcomes]
  BY DEF CheckNames
<1>2. ASSUME NEW v \in Outcomes PROVE Reports(v) \subseteq [CheckNames -> ReportedOutcomes]
  <2>1. ASSUME NEW r \in Reports(v)
        PROVE  \E x, y \in ReportedOutcomes : r = [compile |-> x, unit_test |-> y]
    BY DEF Reports, Outcomes, ReportedOutcomes
  <2> QED BY <1>1, <2>1
<1>3. ASSUME NEW sha \in Shas PROVE Infrastructure(sha) \in Result
  <2>1. [compile |-> "infrastructure_failure", unit_test |-> "not_run"] \in [CheckNames -> ReportedOutcomes]
    BY <1>1 DEF Outcomes, ReportedOutcomes
  <2> QED BY <2>1 DEF Infrastructure, Result, Outcomes
<1>4. \A sha : \A check \in CheckNames : Infrastructure(sha).report[check] # "passed"
  BY DEF Infrastructure, CheckNames
<1> QED BY <1>2, <1>3, <1>4

\* Closing an attempt earns nothing.
LEMMA ClosedRecording ==
    ASSUME NEW p, NEW said, NEW skips, Recording(p, said, skips),
           NEW id \in AttemptId \cup {None}
    PROVE  Recording(Closed(p, id), said, skips)
<1>1. CASE ~(p # None /\ id # None /\ p.active = id)
  BY <1>1 DEF Closed
<1>2. CASE p # None /\ id # None /\ p.active = id
  <2> DEFINE report == [compile |-> "infrastructure_failure", unit_test |-> "not_run"]
  <2>1. Sound(p, ShaOf, said) /\ p.state # "user_skipped"
    BY <1>2 DEF Recording, Sound, Shape
  <2>2. report \in [CheckNames -> ReportedOutcomes]
    BY DEF CheckNames, ReportedOutcomes, Outcomes
  <2>3. \A check \in CheckNames : report[check] # "passed"
    BY DEF CheckNames
  <2>4. Closed(p, id) = recordReport(p, id, report)
    BY <1>2 DEF Closed
  <2> HIDE DEF report
  <2>5. /\ Sound(recordReport(p, id, report), ShaOf, said)
        /\ recordReport(p, id, report).state # "user_skipped"
    BY <1>2, <2>1, <2>2, <2>3, RecordReportSound
  <2> QED BY <2>4, <2>5 DEF Recording
<1> QED BY <1>1, <1>2

\* A workspace that cannot be read earns nothing either.
LEMMA PendingRecording ==
    ASSUME NEW p, NEW said, NEW skips, Recording(p, said, skips), NEW st, FailPending(p, st),
           st \in Statuses
    PROVE  Recording(pp', said, skips) /\ status' \in Statuses
<1>1. CASE Unfinished(p)
  <2>1. Sound(p, ShaOf, said) /\ p.state # "user_skipped"
    BY <1>1 DEF Unfinished, Recording
  <2>2. /\ Sound(environmentFailed(p), ShaOf, said)
        /\ environmentFailed(p).state # "user_skipped"
    BY <2>1, EnvironmentSound
  <2> QED BY <1>1, <2>2 DEF FailPending, Recording, Statuses
<1>2. CASE ~Unfinished(p)
  BY <1>2 DEF FailPending
<1> QED BY <1>1, <1>2

\* A record that has passed, or a skip, justifies its commit.
LEMMA PassedJustifies ==
    ASSUME NEW p, NEW said, NEW skips, Recording(p, said, skips), p # None,
           p.state \in {"passed", "user_skipped"}, NEW sha \in Shas, p.rev = Rev(sha)
    PROVE  Justified(sha, said, skips)
<1>1. p.rev \in Revision /\ p.rev.sha = sha /\ ShaOf[p.rev] = sha
  BY DEF Recording, Sound, PrePushState, Rev, ShaOf
<1>2. CASE p.state = "user_skipped"
  BY <1>1, <1>2 DEF Recording, Justified
<1>3. CASE p.state = "passed"
  BY <1>1, <1>3 DEF Recording, Sound, Shape, Backed, Justified, CheckNames
<1> QED BY <1>2, <1>3

\* A record that is no skip is recorded as well as it is sound.
LEMMA SoundRecording ==
    ASSUME NEW p, NEW said, NEW skips, Sound(p, ShaOf, said), p.state # "user_skipped"
    PROVE  Recording(p, said, skips)
BY DEF Recording

LEMMA RevIsRevision == \A sha \in Shas : Rev(sha) \in Revision /\ ShaOf[Rev(sha)] = sha
BY BuildFixConstants DEF Rev, Revision, ShaOf

--------------------------------------------------------------------------
\* The end of a round.

\* Settling types what it touches, and leaves a stop its room.
LEMMA SettleTyped ==
    ASSUME TypeOK, Roomy, NEW chains, NEW c \in Chains, NEW ok, Settle(chains, c, ok)
    PROVE  /\ active' \in Chains \cup {None}
           /\ stopping' = None \/ stopping' \in [target : Chains \cup {None}, push : BOOLEAN, epoch : 0..epoch]
           /\ stopping' # None /\ stopping'.push = FALSE => stopping'.epoch <= MaxEpoch
<1>1. active' \in Chains \cup {None}
  BY DEF Settle, TypeOK
<1>2. CASE stopping' = stopping
  BY <1>1, <1>2 DEF TypeOK, Roomy
<1>3. CASE stopping' # stopping
  <2>1. stopping # None /\ stopping' = [stopping EXCEPT !.target = None]
    BY <1>3 DEF Settle
  <2>2. stopping \in [target : Chains \cup {None}, push : BOOLEAN, epoch : 0..epoch]
    BY <2>1 DEF TypeOK
  <2>3. /\ stopping' \in [target : Chains \cup {None}, push : BOOLEAN, epoch : 0..epoch]
        /\ stopping'.push = stopping.push /\ stopping'.epoch = stopping.epoch
    BY <2>1, <2>2
  <2> QED BY <1>1, <2>1, <2>3 DEF Roomy
<1> QED BY <1>1, <1>2, <1>3

\* A round that is given up hands nothing over and closes its attempt.
LEMMA AbandonedSound ==
    ASSUME TypeOK, Verified, NEW c \in Chains, NEW chains,
           Calls(chains, reported, skippedAt), chains[c].on = None,
           Abandon(chains, c)
    PROVE  /\ Recording(pp', reported, skippedAt)
           /\ Calls(chain', reported, skippedAt)
<1>1. chain[c].id \in AttemptId \cup {None}
  BY DEF TypeOK, ChainRecord
<1>2. Recording(pp', reported, skippedAt)
  BY <1>1, ClosedRecording DEF Abandon, Verified
<1>3. Calls(Settled(chains, c, FALSE), reported, skippedAt)
  BY SettledCalls
<1> QED BY <1>2, <1>3 DEF Abandon, Settle

\* What a round makes of its result is sound, for what its runner has said is
\* about the commit it is recorded on.
LEMMA FinalSound ==
    ASSUME TypeOK, Verified, NEW c \in Chains, chain[c].pc = "final_revision"
    PROVE  /\ Sound(Recorded(c), ShaOf, reported)
           /\ Recorded(c).state # "user_skipped"
           /\ ~AttestThrows(c) => /\ Sound(Final(c), ShaOf, reported)
                                  /\ Final(c).state # "user_skipped"
<1> DEFINE k == chain[c]
           o == Observed(c)
<1>1. Sure(k, reported, skippedAt) /\ head \in Shas
  BY DEF Verified, Calls, TypeOK
<1>2. /\ k.id \in AttemptId /\ Sound(k.local, ShaOf, reported)
      /\ k.local.state # "user_skipped" /\ Heard(k.result, reported)
  BY <1>1 DEF Sure, InRound
<1>3. Rev(head) \in Revision /\ ShaOf[Rev(head)] = head
  BY <1>1, RevIsRevision
<1>4. Sound(o, ShaOf, reported) /\ o.rev = Rev(head) /\ o.state # "user_skipped"
  <2>1. CASE sameRevision(k.local, Rev(head))
    BY <1>2, <2>1 DEF Observed, sameRevision
  <2>2. CASE ~sameRevision(k.local, Rev(head))
    <3> DEFINE seen == observe(k.local, Rev(head))
    <3>1. Sound(seen, ShaOf, reported) /\ seen.rev = Rev(head)
      BY <1>2, <1>3, ObserveSound
    <3>2. seen.state # "user_skipped"
      BY <2>2 DEF observe, create
    <3>3. o = startAttempt(seen, k.id)
      BY <2>2 DEF Observed
    <3> HIDE DEF seen, o
    <3> QED BY <1>2, <3>1, <3>2, <3>3, StartSound
  <2> QED BY <2>1, <2>2
<1>5. /\ BoundResult(c).report \in [CheckNames -> ReportedOutcomes]
      /\ \A check \in CheckNames :
            BoundResult(c).report[check] = "passed" => <<head, check>> \in reported
  <2>1. CASE k.result.sha = head
    BY <1>2, <2>1 DEF BoundResult, Heard, Result
  <2>2. CASE k.result.sha # head
    <3>1. BoundResult(c) = Infrastructure(head)
      BY <2>2 DEF BoundResult
    <3>2. Infrastructure(head).report \in [CheckNames -> ReportedOutcomes]
      BY <1>1, ReportsAreReports DEF Result
    <3> QED BY <3>1, <3>2, ReportsAreReports
  <2> QED BY <2>1, <2>2
<1> DEFINE report == BoundResult(c).report
           r == recordReport(o, k.id, report)
<1>6. Recorded(c) = r
  BY DEF Recorded
<1> HIDE DEF o, report
<1>7. /\ report \in [CheckNames -> ReportedOutcomes]
      /\ \A check \in CheckNames : report[check] = "passed" => <<ShaOf[o.rev], check>> \in reported
  BY <1>3, <1>4, <1>5 DEF report
<1>8. Sound(r, ShaOf, reported) /\ r.state # "user_skipped"
  BY <1>2, <1>4, <1>7, RecordReportSound
<1>9. ASSUME ~AttestThrows(c)
      PROVE  Sound(Final(c), ShaOf, reported) /\ Final(c).state # "user_skipped"
  <2>1. CASE Attests(c)
    <3>1. canAttest(r, k.id) /\ Final(c) = attest(r, k.id)
      BY <1>6, <1>9, <2>1 DEF AttestThrows, Final
    <3> HIDE DEF r
    <3>2. Sound(attest(r, k.id), ShaOf, reported) /\ attest(r, k.id).state = "passed"
      BY <1>2, <1>8, <3>1, AttestSound
    <3> QED BY <3>1, <3>2
  <2>2. CASE ~Attests(c)
    BY <1>6, <1>8, <2>2 DEF Final
  <2> QED BY <2>1, <2>2
<1> QED BY <1>6, <1>8, <1>9

--------------------------------------------------------------------------
\* Every step keeps the record, the calls and what a skip has read right.

LEMMA ReadsSound ==
    ASSUME Verified, skipping' \subseteq skipping, reported \subseteq reported'
    PROVE  \A read \in skipping' : Sound(read, ShaOf, reported') /\ read.state \in Stopped
<1> SUFFICES ASSUME NEW read \in skipping'
             PROVE  Sound(read, ShaOf, reported') /\ read.state \in Stopped
  OBVIOUS
<1>1. Sound(read, ShaOf, reported) /\ read.state \in Stopped
  BY DEF Verified
<1> QED BY <1>1, SoundMonotone

\* Only what changes has to be looked at.
LEMMA StillVerified ==
    ASSUME Verified, UNCHANGED <<skipping, history>>,
           Recording(pp', reported, skippedAt), Calls(chain', reported, skippedAt)
    PROVE  Verified'
BY DEF Verified, history

LEMMA SameVerified ==
    ASSUME Verified, UNCHANGED <<pp, chain, skipping, history>>
    PROVE  Verified'
BY DEF Verified, history

\* A call that comes, whatever became of the record.
LEMMA ResumeSound ==
    ASSUME TypeOK, Verified, NEW c \in Chains, NEW busy \in Chains \cup {None},
           NEW e \in Nat, NEW st \in Statuses, StartResume(c, busy, e, st)
    PROVE  /\ Recording(pp', reported, skippedAt)
           /\ Calls(chain', reported, skippedAt)
           /\ status' \in Statuses
           /\ starts' \in 0..MaxStarts
<1>1. Calls(chain, reported, skippedAt) /\ Recording(pp, reported, skippedAt)
  BY DEF Verified
<1>2. starts' \in 0..MaxStarts
  BY BuildFixConstants DEF StartResume, CanStart, TypeOK
<1>3. ASSUME NEW k, chain' = [chain EXCEPT ![c] = k], Sure(k, reported, skippedAt)
      PROVE  Calls(chain', reported, skippedAt)
  BY <1>1, <1>3, OneMoves
<1>4. CASE chain' = [chain EXCEPT ![c] =
                       IF busy = None THEN Started("resume", e, "revision")
                       ELSE [Started("resume", e, "wait") EXCEPT !.on = busy]]
           /\ status' = st /\ pp' = pp
  <2>1. Sure(IF busy = None THEN Started("resume", e, "revision")
             ELSE [Started("resume", e, "wait") EXCEPT !.on = busy], reported, skippedAt)
    BY StartedSure
  <2> QED BY <1>1, <1>2, <1>3, <1>4, <2>1
<1>5. CASE chain' = chain /\ FailPending(pp, st)
  BY <1>1, <1>2, <1>5, PendingRecording
<1> QED BY <1>4, <1>5 DEF StartResume

LEMMA WokenVerified ==
    ASSUME TypeOK, Verified, NEW c \in Chains, Woken(c)
    PROVE  Verified' /\ status' \in Statuses
<1>1. /\ Calls(chain, reported, skippedAt) /\ Recording(pp, reported, skippedAt)
      /\ chain[c].pc = "woken" /\ chain[c] \in ChainRecord /\ Sure(chain[c], reported, skippedAt)
      /\ UNCHANGED <<skipping, history>> /\ status \in Statuses
  BY DEF Verified, Calls, Sure, Woken, requests, TypeOK
<1>2. Sure(Idle, reported, skippedAt)
  <2>1. 0 \in Nat /\ "resume" \in {"resume", "host"}
    OBVIOUS
  <2> QED BY <2>1, StartedSure
<1>3. CASE chain' = [chain EXCEPT ![c] = Idle] /\ pp' = pp /\ status' = status
  <2>1. Calls(chain', reported, skippedAt)
    BY <1>1, <1>2, <1>3, OneMoves
  <2> QED BY <1>1, <1>3, <2>1, StillVerified
<1>4. CASE chain' = [chain EXCEPT ![c] = Idle] /\ FailPending(pp, status)
  <2>1. Calls(chain', reported, skippedAt)
    BY <1>1, <1>2, <1>4, OneMoves
  <2> QED BY <1>1, <1>4, <2>1, PendingRecording, StillVerified
<1>5. CASE active # None /\ chain' = [chain EXCEPT ![c].pc = "join", ![c].on = active]
           /\ pp' = pp /\ status' = status
  <2> DEFINE k == [chain[c] EXCEPT !.pc = "join", !.on = active]
  <2>1. k \in ChainRecord /\ k.pc = "join"
    BY <1>1 DEF ChainRecord, Pcs, TypeOK
  <2>2. chain' = [chain EXCEPT ![c] = k]
    BY <1>5
  <2> HIDE DEF k
  <2>3. Sure(k, reported, skippedAt)
    BY <2>1 DEF Sure, InRound
  <2>4. Calls(chain', reported, skippedAt)
    BY <1>1, <2>2, <2>3, OneMoves
  <2> QED BY <1>1, <1>5, <2>4, StillVerified
<1>6. CASE chain' = [chain EXCEPT ![c].pc = "revision"] /\ pp' = pp /\ status' = status
  <2> DEFINE k == [chain[c] EXCEPT !.pc = "revision"]
  <2>1. k \in ChainRecord /\ k.pc = "revision" /\ k.on = chain[c].on
    BY <1>1 DEF ChainRecord, Pcs
  <2>2. chain' = [chain EXCEPT ![c] = k]
    BY <1>6
  <2> HIDE DEF k
  <2>3. Sure(k, reported, skippedAt)
    BY <1>1, <2>1 DEF Sure, InRound
  <2>4. Calls(chain', reported, skippedAt)
    BY <1>1, <2>2, <2>3, OneMoves
  <2> QED BY <1>1, <1>6, <2>4, StillVerified
<1> QED BY <1>3, <1>4, <1>5, <1>6 DEF Woken, task

LEMMA PrepareVerified ==
    ASSUME TypeOK, Verified, NEW c \in Chains, Prepare(c)
    PROVE  Verified'
<1>1. /\ Calls(chain, reported, skippedAt) /\ Recording(pp, reported, skippedAt)
      /\ chain[c].pc = "revision" /\ chain[c] \in ChainRecord /\ Sure(chain[c], reported, skippedAt)
      /\ UNCHANGED <<pp, skipping, history>> /\ head \in Shas
  BY DEF Verified, Calls, Sure, Prepare, requests, task, TypeOK
<1>2. CASE pp # None /\ pp.state \in {"passed", "user_skipped"} /\ sameRevision(pp, Rev(head))
  <2> DEFINE k == [chain[c] EXCEPT !.pc = "settled", !.ok = TRUE, !.rev = head]
  <2>1. Justified(head, reported, skippedAt)
    BY <1>1, <1>2, PassedJustifies DEF sameRevision
  <2>2. k \in ChainRecord
    BY <1>1 DEF ChainRecord, Pcs
  <2>3. k.pc = "settled" /\ k.on = chain[c].on /\ k.rev = head
    BY <1>1 DEF ChainRecord
  <2>4. chain' = [chain EXCEPT ![c] = k]
    BY <1>2 DEF Prepare
  <2> HIDE DEF k
  <2>5. Sure(k, reported, skippedAt)
    BY <1>1, <2>1, <2>2, <2>3 DEF Sure, InRound
  <2>6. Calls(chain', reported, skippedAt)
    BY <1>1, <2>4, <2>5, OneMoves
  <2> QED BY <1>1, <2>6, StillVerified
<1>3. CASE ~(pp # None /\ pp.state \in {"passed", "user_skipped"} /\ sameRevision(pp, Rev(head)))
  <2> DEFINE k == [chain[c] EXCEPT !.pc = "round_revision"]
  <2>1. k \in ChainRecord /\ k.pc = "round_revision" /\ k.on = chain[c].on
    BY <1>1 DEF ChainRecord, Pcs
  <2>2. chain' = [chain EXCEPT ![c] = k]
    BY <1>3 DEF Prepare
  <2> HIDE DEF k
  <2>3. Sure(k, reported, skippedAt)
    BY <1>1, <2>1 DEF Sure, InRound
  <2>4. Calls(chain', reported, skippedAt)
    BY <1>1, <2>2, <2>3, OneMoves
  <2> QED BY <1>1, <2>4, StillVerified
<1> QED BY <1>2, <1>3

\* A round begins on the commit it has read, with an attempt of its own; a
\* pass that can be used again is handed over at once.
LEMMA BeginRoundVerified ==
    ASSUME TypeOK, Verified, NEW c \in Chains, BeginRound(c)
    PROVE  Verified'
<1> DEFINE restored == restore(pp, Rev(head))
           retried == IF restored.state \in Stopped THEN retryRequested(restored) ELSE restored
           begun == begin(retried)
<1>1. /\ Calls(chain, reported, skippedAt) /\ Recording(pp, reported, skippedAt)
      /\ chain[c].pc = "round_revision" /\ chain[c] \in ChainRecord
      /\ Sure(chain[c], reported, skippedAt)
      /\ UNCHANGED <<skipping, history>> /\ head \in Shas /\ status \in Statuses
  BY DEF Verified, Calls, Sure, BeginRound, TypeOK
<1>2. Rev(head) \in Revision /\ ShaOf[Rev(head)] = head
  BY <1>1, RevIsRevision
<1>3. /\ Sound(restored, ShaOf, reported)
      /\ restored.active = None /\ restored.rev = Rev(head)
      /\ restored.state # "user_skipped"
      /\ restored.state = "passed" => hasReusableReceipt(restored, Rev(head))
  <2>1. pp # None => Sound(pp, ShaOf, reported)
    BY <1>1 DEF Recording
  <2> QED BY <1>2, <2>1, RestoreSound
<1>4. CASE hasReusableReceipt(restored, Rev(head))
  <2> DEFINE chains == [chain EXCEPT ![c].rev = head]
  <2>1. pp' = restored /\ Settle(chains, c, TRUE)
    BY <1>4 DEF BeginRound
  <2>2. Recording(restored, reported, skippedAt)
    BY <1>3, SoundRecording
  <2>3. Justified(head, reported, skippedAt)
    <3>1. restored # None /\ restored.state = "passed"
      BY <1>3, <1>4, NoneIsNoData DEF Sound, hasReusableReceipt
    <3> QED BY <1>1, <1>3, <2>2, <3>1, PassedJustifies
  <2>4. Calls(chains, reported, skippedAt) /\ chains[c].on = None /\ chains[c].rev = head
    BY <1>1, SeenCalls
  <2> HIDE DEF chains
  <2>5. Calls(Settled(chains, c, TRUE), reported, skippedAt)
    BY <2>3, <2>4, SettledCalls
  <2> QED BY <1>1, <2>1, <2>2, <2>5, StillVerified DEF Settle
<1>5. CASE ~hasReusableReceipt(restored, Rev(head))
  <2> DEFINE k == [chain[c] EXCEPT !.pc = "snapshot", !.rev = head, !.id = begun.active,
                                   !.local = begun, !.prev = status]
  <2>1. /\ Sound(retried, ShaOf, reported) /\ retried.state \in {"preparing", "repairing"}
        /\ retried.active = None
    <3>1. restored.state # "passed"
      BY <1>3, <1>5
    <3>2. CASE restored.state \in Stopped
      <4>1. retried = retryRequested(restored)
        BY <3>2
      <4>2. /\ Sound(retryRequested(restored), ShaOf, reported)
            /\ retryRequested(restored).active = None
            /\ retryRequested(restored).state = "preparing"
        BY <1>3, <3>1, RetrySound
      <4> QED BY <4>1, <4>2
    <3>3. CASE restored.state \notin Stopped
      <4>1. restored.state \in StateNames
        BY <1>3 DEF Sound, PrePushState
      <4>2. restored.state \in {"preparing", "repairing"}
        BY <1>3, <3>1, <3>3, <4>1 DEF StateNames, Stopped
      <4>3. retried = restored
        BY <3>3
      <4> QED BY <1>3, <4>2, <4>3
    <3> QED BY <3>2, <3>3
  <2>2. /\ pp' = begun
        /\ chain' = [chain EXCEPT ![c].pc = "snapshot", ![c].rev = head,
                                  ![c].id = begun.active, ![c].local = begun,
                                  ![c].prev = status]
    BY <1>5 DEF BeginRound
  <2> HIDE DEF retried
  <2>3. generatedAttemptId(retried) \in AttemptId
    BY <2>1 DEF Sound, PrePushState, generatedAttemptId, AttemptId
  <2>4. /\ Sound(begun, ShaOf, reported) /\ begun.state # "user_skipped"
        /\ begun.active \in AttemptId
    BY <2>1, <2>3, StartSound DEF begin
  <2> HIDE DEF begun
  <2>5. k \in ChainRecord
    BY <1>1, <2>4 DEF ChainRecord, Pcs, Sound
  <2>6. /\ k.pc = "snapshot" /\ k.on = chain[c].on /\ k.rev = head /\ k.id = begun.active
        /\ k.local = begun /\ k.prev = status
    BY <1>1 DEF ChainRecord
  <2>7. chain' = [chain EXCEPT ![c] = k]
    BY <2>2
  <2> HIDE DEF k
  <2>8. Sure(k, reported, skippedAt)
    BY <1>1, <2>4, <2>5, <2>6 DEF Sure
  <2>9. Calls(chain', reported, skippedAt)
    BY <1>1, <2>7, <2>8, OneMoves
  <2>10. Recording(pp', reported, skippedAt)
    BY <2>2, <2>4, SoundRecording
  <2> QED BY <1>1, <2>9, <2>10, StillVerified
<1> QED BY <1>4, <1>5

\* A round that is given up, wherever it stands.
LEMMA AbandonVerified ==
    ASSUME TypeOK, Verified, NEW c \in Chains, Abandon(chain, c),
           chain[c].pc \notin {"wait", "join"}, UNCHANGED <<skipping, history>>
    PROVE  Verified'
<1>1. Calls(chain, reported, skippedAt) /\ Sure(chain[c], reported, skippedAt)
  BY DEF Verified, Calls
<1>2. chain[c].on = None
  BY <1>1 DEF Sure
<1> QED BY <1>1, <1>2, AbandonedSound, StillVerified

\* A point of a round is left for another.
LEMMA MoveVerified ==
    ASSUME Verified, NEW c \in Chains, chain[c].pc \in InRound,
           NEW pc \in InRound \ {"final_revision"}, chain' = [chain EXCEPT ![c].pc = pc],
           UNCHANGED <<pp, skipping, history>>
    PROVE  Verified'
<1>1. /\ Calls(chain, reported, skippedAt) /\ Sure(chain[c], reported, skippedAt)
      /\ Recording(pp, reported, skippedAt)
  BY DEF Verified, Calls
<1> DEFINE k == [chain[c] EXCEPT !.pc = pc]
<1>2. Sure(k, reported, skippedAt)
  BY <1>1, MovedSure
<1>3. chain' = [chain EXCEPT ![c] = k]
  OBVIOUS
<1> HIDE DEF k
<1>4. Calls([chain EXCEPT ![c] = k], reported, skippedAt)
  BY <1>1, <1>2, OneMoves
<1>5. Calls(chain', reported, skippedAt)
  BY <1>3, <1>4
<1> QED BY <1>1, <1>5, StillVerified

LEMMA AskSlotVerified ==
    ASSUME TypeOK, Verified, NEW c \in Chains, AskSlot(c)
    PROVE  Verified'
<1>1. CASE Abandon(chain, c)
  BY <1>1, AbandonVerified DEF AskSlot
<1>2. ASSUME NEW pc \in {"granted", "queued"}, chain' = [chain EXCEPT ![c].pc = pc], pp' = pp
      PROVE  Verified'
  <2>1. chain[c].pc \in InRound /\ pc \in InRound \ {"final_revision"}
    BY DEF AskSlot, InRound
  <2> QED BY <1>2, <2>1, MoveVerified DEF AskSlot
<1> QED BY <1>1, <1>2 DEF AskSlot

\* A revoked call gives the slot back unused.
LEMMA GrantedVerified ==
    ASSUME TypeOK, Verified, SlotSound, NEW c \in Chains, Granted(c)
    PROVE  Verified'
<1>1. CASE chain' = [chain EXCEPT ![c].pc = "boot"] /\ pp' = pp
  <2>1. chain[c].pc \in InRound /\ "boot" \in InRound \ {"final_revision"}
    BY DEF Granted, InRound
  <2> QED BY <1>1, <2>1, MoveVerified DEF Granted
<1>2. CASE Abandon(Drained(chain), c)
  <2>1. Calls(Drained(chain), reported, skippedAt)
    BY DrainedCalls
  <2>2. Sure(Drained(chain)[c], reported, skippedAt) /\ Drained(chain)[c] = chain[c]
    <3>1. queue \in Seq(Chains \cup Others) /\ chain[c].pc # "queued"
      BY DEF TypeOK, Granted
    <3> QED BY <2>1, <3>1, DrainedIs DEF Calls
  <2>3. Drained(chain)[c].on = None
    BY <2>2 DEF Sure, Granted
  <2> QED BY <1>2, <2>1, <2>3, AbandonedSound, StillVerified DEF Granted
<1> QED BY <1>1, <1>2 DEF Granted

\* What a runner brings back is heard.
LEMMA ReturnsVerified ==
    ASSUME TypeOK, Verified, SlotSound, NEW c \in Chains, chain[c].pc \in {"boot", "turn"},
           NEW result \in Result, Returns(c, result)
    PROVE  /\ Verified'
           /\ reported' \subseteq Shas \X CheckNames
<1> DEFINE drained == Drained(chain)
<1>1. /\ UNCHANGED <<skipping, skippedAt>>
      /\ reported' = reported \cup
            ({result.sha} \X {check \in CheckNames : result.report[check] = "passed"})
      /\ result.sha \in Shas /\ reported \subseteq Shas \X CheckNames
  BY DEF Returns, TypeOK, Result
<1>2. reported \subseteq reported' /\ reported' \subseteq Shas \X CheckNames
  BY <1>1
<1>3. Heard(result, reported')
  BY <1>1 DEF Heard
<1>4. Calls(drained, reported, skippedAt)
  BY DrainedCalls
<1>5. drained[c] = chain[c]
  BY DrainedIs DEF TypeOK
<1> HIDE DEF drained
<1>6. Sure(chain[c], reported, skippedAt) /\ Recording(pp, reported, skippedAt)
  BY <1>4, <1>5 DEF Calls, Verified
<1>7. \A read \in skipping' : Sound(read, ShaOf, reported') /\ read.state \in Stopped
  BY <1>1, <1>2, ReadsSound
<1>8. Calls(drained, reported', skippedAt) /\ Recording(pp, reported', skippedAt)
  BY <1>2, <1>4, <1>6, CallsMonotone, RecordingMonotone
<1>9. CASE Mine(c)
  <2> DEFINE k == [chain[c] EXCEPT !.pc = "final_revision", !.result = result]
  <2>1. chain' = [drained EXCEPT ![c] = k] /\ pp' = pp
    BY <1>5, <1>9 DEF Returns, drained
  <2>2. chain[c] \in ChainRecord /\ Sure(chain[c], reported', skippedAt)
    BY <1>5, <1>8 DEF Calls, Sure
  <2>3. k \in ChainRecord
    BY <2>2 DEF ChainRecord, Pcs
  <2>4. /\ k.pc = "final_revision" /\ k.on = chain[c].on /\ k.id = chain[c].id
        /\ k.rev = chain[c].rev /\ k.prev = chain[c].prev /\ k.local = chain[c].local
        /\ k.result = result
    BY <2>2 DEF ChainRecord
  <2> HIDE DEF k
  <2>5. Sure(k, reported', skippedAt)
    BY <1>3, <2>2, <2>3, <2>4 DEF Sure, InRound
  <2>6. Calls(chain', reported', skippedAt)
    BY <1>8, <2>1, <2>5, OneMoves
  <2> QED BY <1>1, <1>2, <1>7, <1>8, <2>1, <2>6 DEF Verified
<1>10. CASE ~Mine(c)
  <2>1. Abandon(drained, c)
    BY <1>10 DEF Returns, drained
  <2>2. drained[c].on = None
    BY <1>5, <1>6 DEF Sure
  <2>3. Recording(pp', reported, skippedAt) /\ Calls(chain', reported, skippedAt)
    BY <1>4, <2>1, <2>2, AbandonedSound
  <2>4. Calls(chain', reported', skippedAt) /\ Recording(pp', reported', skippedAt)
    BY <1>2, <2>3, CallsMonotone, RecordingMonotone
  <2> QED BY <1>1, <1>2, <1>7, <2>4 DEF Verified
<1> QED BY <1>9, <1>10

LEMMA RunnerResultsAreResults ==
    ASSUME head \in Shas, NEW asked \in Shas
    PROVE  RunnerResults(asked) \subseteq Result
<1>1. Infrastructure(asked) \in Result
  BY ReportsAreReports
<1>2. ASSUME NEW v \in Outcomes
      PROVE  [verdict : {v}, sha : {head}, report : Reports(v)] \subseteq Result
  <2>1. Reports(v) \subseteq [CheckNames -> ReportedOutcomes]
    BY ReportsAreReports
  <2> QED BY <2>1 DEF Result
<1> SUFFICES ASSUME NEW result \in RunnerResults(asked) PROVE result \in Result
  OBVIOUS
<1>3. \/ \E v \in Outcomes : result \in [verdict : {v}, sha : {head}, report : Reports(v)]
      \/ result = Infrastructure(asked)
  <2> DEFINE bound(v) == [verdict : {v}, sha : {head}, report : Reports(v)]
  <2>1. result \in UNION {bound(v) : v \in Outcomes} \/ result = Infrastructure(asked)
    BY DEF RunnerResults
  <2> HIDE DEF bound
  <2>2. result \in UNION {bound(v) : v \in Outcomes} => \E v \in Outcomes : result \in bound(v)
    OBVIOUS
  <2> QED BY <2>1, <2>2 DEF bound
<1> QED BY <1>1, <1>2, <1>3

\* The round ends: it is done only if the record of HEAD has passed.
LEMMA ConcludedVerified ==
    ASSUME TypeOK, Verified, NEW c \in Chains, chain[c].pc = "final_revision",
           ~AttestThrows(c), NEW st \in Statuses, NEW ok \in BOOLEAN,
           ok => hasReusableReceipt(Final(c), Rev(head)),
           Conclude(c, st, ok), UNCHANGED <<skipping, history>>
    PROVE  Verified' /\ status' \in Statuses
<1> DEFINE seen == [chain EXCEPT ![c].rev = head]
<1>1. /\ Calls(chain, reported, skippedAt) /\ Sure(chain[c], reported, skippedAt)
      /\ chain[c].id \in AttemptId /\ head \in Shas
  BY DEF Verified, Calls, Sure, InRound, TypeOK
<1>2. Sound(Final(c), ShaOf, reported) /\ Final(c).state # "user_skipped"
  BY FinalSound
<1>3. Recording(Final(c), reported, skippedAt)
  BY <1>2, SoundRecording
<1>4. /\ Calls(seen, reported, skippedAt) /\ seen[c].on = None /\ seen[c].rev = head
      /\ seen[c].pc = "final_revision"
  BY <1>1, SeenCalls
<1> HIDE DEF seen
<1>5. CASE pauseReq /\ Mine(c)
  <2> DEFINE k == [seen[c] EXCEPT !.pc = "pausing"]
  <2>1. pp' = Final(c) /\ status' = st /\ chain' = [seen EXCEPT ![c].pc = "pausing"]
    BY <1>5 DEF Conclude, seen
  <2>2. Sure(k, reported, skippedAt)
    <3>1. seen[c].pc \in InRound /\ "pausing" \in InRound \ {"final_revision"}
      BY <1>4 DEF InRound
    <3> QED BY <1>4, <3>1, MovedSure DEF Calls
  <2>3. chain' = [seen EXCEPT ![c] = k]
    BY <2>1
  <2> HIDE DEF k
  <2>4. Calls([seen EXCEPT ![c] = k], reported, skippedAt)
    BY <1>4, <2>2, OneMoves
  <2>5. Calls(chain', reported, skippedAt)
    BY <2>3, <2>4
  <2> QED BY <1>3, <2>1, <2>5, StillVerified
<1>6. CASE ~(pauseReq /\ Mine(c))
  <2>1. pp' = Closed(Final(c), chain[c].id) /\ status' = st /\ Settle(seen, c, ok)
    BY <1>6 DEF Conclude, seen
  <2>2. Recording(pp', reported, skippedAt)
    BY <1>1, <1>3, <2>1, ClosedRecording
  <2>3. ok => Justified(seen[c].rev, reported, skippedAt)
    <3> SUFFICES ASSUME ok PROVE Justified(head, reported, skippedAt)
      BY <1>4
    <3>1. Final(c) # None /\ Final(c).state = "passed" /\ Final(c).rev = Rev(head)
      BY <1>2, NoneIsNoData DEF hasReusableReceipt, sameRevision, Sound
    <3> QED BY <1>1, <1>3, <3>1, PassedJustifies
  <2>4. Calls(Settled(seen, c, ok), reported, skippedAt)
    BY <1>4, <2>3, SettledCalls
  <2> QED BY <2>1, <2>2, <2>4, StillVerified DEF Settle
<1> QED BY <1>5, <1>6

LEMMA FinishRoundVerified ==
    ASSUME TypeOK, Verified, NEW c \in Chains, FinishRound(c)
    PROVE  Verified' /\ status' \in Statuses
<1>1. /\ chain[c].pc = "final_revision" /\ UNCHANGED <<skipping, history>>
      /\ Sure(chain[c], reported, skippedAt) /\ Calls(chain, reported, skippedAt)
  BY DEF FinishRound, Verified, Calls
<1>2. chain[c].prev \in Statuses /\ chain[c].id \in AttemptId /\ status \in Statuses
  BY <1>1 DEF Sure, InRound, TypeOK
<1>3. CASE AttestThrows(c)
  <2>1. Abandon(chain, c) /\ status' = IF Mine(c) THEN "failed" ELSE status
    BY <1>3 DEF FinishRound
  <2> QED BY <1>1, <1>2, <2>1, AbandonVerified DEF Statuses
<1>4. CASE ~AttestThrows(c) /\ hasReusableReceipt(Final(c), Rev(head))
  <2>1. Conclude(c, chain[c].prev, TRUE)
    BY <1>4 DEF FinishRound
  <2> QED BY <1>1, <1>2, <1>4, <2>1, ConcludedVerified
<1>5. CASE ~AttestThrows(c) /\ Conclude(c, "failed", FALSE)
  <2>1. "failed" \in Statuses /\ FALSE \in BOOLEAN
    BY DEF Statuses
  <2> QED BY <1>1, <1>5, <2>1, ConcludedVerified
<1>6. CASE ~AttestThrows(c) /\ FeedBack(c)
  <2>1. /\ pp' = Closed(Final(c), chain[c].id) /\ Settle(chain, c, FALSE)
        /\ status' = IF chain[c].kind = "host" THEN chain[c].prev ELSE "queued"
    BY <1>6 DEF FeedBack
  <2>2. Recording(Final(c), reported, skippedAt)
    BY <1>1, <1>6, FinalSound, SoundRecording
  <2>3. Recording(pp', reported, skippedAt)
    BY <1>2, <2>1, <2>2, ClosedRecording
  <2>4. chain[c].on = None
    BY <1>1 DEF Sure
  <2>5. Calls(Settled(chain, c, FALSE), reported, skippedAt)
    BY <1>1, <2>4, SettledCalls
  <2> QED BY <1>1, <1>2, <2>1, <2>3, <2>5, StillVerified DEF Settle, Statuses
<1> QED BY <1>3, <1>4, <1>5, <1>6 DEF FinishRound

\* A skip of the commit that HEAD is by now.
LEMMA SkipWriteVerified ==
    ASSUME TypeOK, Verified, SkipWrite
    PROVE  Verified' /\ status' \in Statuses /\ pp' \in PrePushState
           /\ skippedAt' \subseteq Shas
<1>1. PICK read \in skipping :
        /\ skipping' = skipping \ {read}
        /\ pp' = [read EXCEPT !.state = "user_skipped", !.rev = Rev(head)]
        /\ status' \in IF Retriable THEN Retried(status, pp') ELSE {status}
        /\ skippedAt' = skippedAt \cup {head}
        /\ UNCHANGED <<chain, reported>>
  BY DEF SkipWrite
<1>2. /\ Sound(read, ShaOf, reported) /\ read.state \in Stopped /\ head \in Shas
      /\ Calls(chain, reported, skippedAt) /\ status \in Statuses /\ skippedAt \subseteq Shas
  BY DEF Verified, TypeOK
<1>3. Rev(head) \in Revision /\ Rev(head).sha = head
  BY <1>2, RevIsRevision DEF Rev
<1>4. Sound(pp', ShaOf, reported) /\ pp'.rev = Rev(head)
  BY <1>1, <1>2, <1>3, SkipSound DEF Stopped
<1>5. Recording(pp', reported, skippedAt')
  BY <1>1, <1>3, <1>4 DEF Recording
<1>6. Calls(chain, reported, skippedAt')
  BY <1>1, <1>2, CallsMonotone
<1>7. \A r \in skipping' : Sound(r, ShaOf, reported') /\ r.state \in Stopped
  BY <1>1, ReadsSound
<1>8. Verified'
  BY <1>1, <1>5, <1>6, <1>7 DEF Verified
<1>9. status' \in Statuses
  BY <1>1, <1>2 DEF Retried, Statuses
<1> QED BY <1>1, <1>2, <1>4, <1>8, <1>9 DEF Sound

\* A stop gives the attempt up and may hand the record to a skip.
LEMMA StopDoneVerified ==
    ASSUME TypeOK, Verified, StopDone
    PROVE  Verified' /\ (pp' # None => pp' \in PrePushState)
<1>1. /\ pp' = StopRecord /\ UNCHANGED <<chain, history>> /\ UNCHANGED active
      /\ skipping' \subseteq skipping \cup (IF Skippable(pp') THEN {pp'} ELSE {})
  BY DEF StopDone
<1>2. Recording(pp, reported, skippedAt) /\ Calls(chain, reported, skippedAt)
  BY DEF Verified
<1>3. Recording(pp', reported, skippedAt)
  <2>1. CASE pp # None /\ pp.state \notin Stopped \cup {"passed", "user_skipped"}
    <3> DEFINE next == [pp EXCEPT !.state = "environment_error", !.active = None]
    <3>1. Sound(pp, ShaOf, reported) /\ pp.receipt = None
      BY <1>2, <2>1 DEF Recording, Sound, Shape
    <3>2. next \in PrePushState
      BY <3>1 DEF Sound, PrePushState, StateNames
    <3>3. /\ next.state = "environment_error" /\ next.active = None /\ next.receipt = None
          /\ next.rev = pp.rev /\ next.compile = pp.compile /\ next.unit_test = pp.unit_test
      BY <3>1 DEF Sound, PrePushState
    <3>4. pp' = next
      BY <1>1, <2>1 DEF StopRecord
    <3> HIDE DEF next
    <3>5. Sound(next, ShaOf, reported)
      BY <2>1, <3>1, <3>2, <3>3 DEF Sound, Shape, Backed
    <3> QED BY <3>3, <3>4, <3>5, SoundRecording
  <2>2. CASE ~(pp # None /\ pp.state \notin Stopped \cup {"passed", "user_skipped"})
    BY <1>1, <1>2, <2>2 DEF StopRecord
  <2> QED BY <2>1, <2>2
<1>4. \A read \in skipping' : Sound(read, ShaOf, reported) /\ read.state \in Stopped
  <2>1. \A read \in skipping : Sound(read, ShaOf, reported) /\ read.state \in Stopped
    BY DEF Verified
  <2>2. Skippable(pp') => Sound(pp', ShaOf, reported) /\ pp'.state \in Stopped
    BY <1>3 DEF Skippable, Recording
  <2> QED BY <1>1, <2>1, <2>2
<1>5. Verified'
  BY <1>1, <1>2, <1>3, <1>4 DEF Verified, history
<1> QED BY <1>3, <1>5 DEF Recording, Sound

LEMMA RestartVerified ==
    ASSUME TypeOK, Verified, NEW c \in Chains, Restart(c)
    PROVE  /\ Verified' /\ status' \in Statuses /\ chain' \in [Chains -> ChainRecord]
           /\ starts' \in 0..MaxStarts
           /\ \A d \in Chains : chain'[d].pc \in {"idle", "revision"}
<1> DEFINE st == CASE status = "pausing" -> "paused" [] status = "withdrawn" -> "queued"
                   [] OTHER -> status
           idle == [d \in Chains |-> Idle]
<1>1. Recording(pp, reported, skippedAt) /\ epoch \in Nat /\ Calls(chain, reported, skippedAt)
  BY BuildFixConstants DEF Verified, TypeOK
<1>2. st \in Statuses
  BY DEF TypeOK, Statuses
<1>3. PICK p \in {pp} \cup {Closed(pp, chain[d].id) : d \in Chains} :
        IF Interrupted(p, st)
        THEN /\ starts < MaxStarts /\ starts' = starts + 1
             /\ \/ /\ chain' = [idle EXCEPT ![c] = Started("resume", epoch, "revision")]
                   /\ pp' = p /\ status' = "verifying"
                \/ chain' = idle /\ FailPending(p, st)
        ELSE /\ chain' = idle /\ pp' = p /\ UNCHANGED starts
             /\ status' \in IF st \in {"running", "queued"}
                            THEN {"queued", "verifying"} ELSE {st}
  BY DEF Restart
<1>4. Recording(p, reported, skippedAt)
  <2>1. \A d \in Chains : chain[d].id \in AttemptId \cup {None}
    BY DEF TypeOK, ChainRecord
  <2>2. \A d \in Chains : Recording(Closed(pp, chain[d].id), reported, skippedAt)
    BY <1>1, <2>1, ClosedRecording
  <2> QED BY <1>1, <2>2
<1> HIDE DEF st
<1>5. Recording(pp', reported, skippedAt) /\ status' \in Statuses
  <2>1. CASE FailPending(p, st)
    BY <1>2, <1>4, <2>1, PendingRecording
  <2>2. CASE pp' = p /\ status' \in {"verifying", "queued", st}
    BY <1>2, <1>4, <2>2 DEF Statuses
  <2> QED BY <1>3, <2>1, <2>2
<1>6. "resume" \in {"resume", "host"}
  OBVIOUS
<1>7. Sure(Idle, reported, skippedAt) /\ Sure(Started("resume", epoch, "revision"), reported, skippedAt)
  BY <1>1, <1>6, StartedSure
<1>8. Idle.pc = "idle" /\ Started("resume", epoch, "revision").pc = "revision"
  BY DEF Idle, Started
<1>9. \A d \in Chains : chain'[d] \in {Idle, Started("resume", epoch, "revision")}
  BY <1>3
<1>10. \A d \in Chains : /\ chain'[d].pc \in {"idle", "revision"}
                         /\ Sure(chain'[d], reported, skippedAt)
  BY <1>7, <1>8, <1>9
<1>11. chain' = [d \in Chains |-> chain'[d]]
  BY <1>3
<1>12. chain' \in [Chains -> ChainRecord] /\ Calls(chain', reported, skippedAt)
  <2>1. \A d \in Chains : chain'[d] \in ChainRecord
    BY <1>10 DEF Sure
  <2>2. chain' \in [Chains -> ChainRecord]
    BY <1>11, <2>1
  <2> QED BY <1>10, <2>2 DEF Calls
<1>13. UNCHANGED <<reported, skippedAt>> /\ skipping' = {} /\ starts' \in 0..MaxStarts
  BY <1>3, BuildFixConstants DEF Restart, history, TypeOK
<1> QED BY <1>5, <1>10, <1>12, <1>13 DEF Verified

\* A call that is over is forgotten.
LEMMA ForgottenVerified ==
    ASSUME Verified, NEW c \in Chains, chain' = [chain EXCEPT ![c] = Idle],
           UNCHANGED <<pp, skipping, history>>
    PROVE  Verified'
<1>1. 0 \in Nat /\ "resume" \in {"resume", "host"}
  OBVIOUS
<1>2. Sure(Idle, reported, skippedAt)
  BY <1>1, StartedSure
<1>3. Calls(chain', reported, skippedAt)
  BY <1>2, OneMoves DEF Verified
<1> QED BY <1>3, StillVerified DEF Verified

LEMMA NextVerified ==
    ASSUME TypeOK, Verified, SlotSound, [Next]_vars
    PROVE  Verified'
<1> USE DEF task, control, builds, requests, counters, history
<1>1. ASSUME NEW c \in Chains, Woken(c) PROVE Verified'
  BY <1>1, WokenVerified
<1>2. ASSUME NEW c \in Chains, HandOver(c) PROVE Verified'
  BY <1>2, ForgottenVerified DEF HandOver
<1>3. ASSUME NEW c \in Chains, HostAnswers(c) PROVE Verified'
  BY <1>3, ForgottenVerified DEF HostAnswers
<1>4. CASE StopDone
  BY <1>4, StopDoneVerified
<1>5. CASE StartCoding \/ CodingCommits \/ CodingEnds
  BY <1>5, SameVerified DEF StartCoding, CodingCommits, CodingEnds
<1>6. ASSUME NEW c \in Chains, HostVerify(c) PROVE Verified'
  <2>1. coding \in Nat /\ "host" \in {"resume", "host"}
    BY <1>6, BuildFixConstants DEF HostVerify, TypeOK
  <2>2. Sure(Started("host", coding, "revision"), reported, skippedAt)
    BY <2>1, StartedSure
  <2>3. Calls(chain', reported, skippedAt)
    BY <1>6, <2>2, OneMoves DEF HostVerify, Verified
  <2> QED BY <1>6, <2>3, StillVerified DEF HostVerify, Verified
<1>7. ASSUME NEW c \in Chains, RetryPrePush(c) PROVE Verified'
  <2>1. StartResume(c, None, epoch, "verifying") /\ epoch \in Nat /\ "verifying" \in Statuses
    BY <1>7, BuildFixConstants DEF RetryPrePush, TypeOK, Statuses
  <2>2. Recording(pp', reported, skippedAt) /\ Calls(chain', reported, skippedAt)
    BY <2>1, ResumeSound
  <2> QED BY <1>7, <2>2, StillVerified DEF RetryPrePush
<1>8. ASSUME NEW c \in Chains, Resume(c) PROVE Verified'
  <2>1. CASE UNCHANGED <<pp, chain, starts>>
    BY <1>8, <2>1, SameVerified DEF Resume
  <2>2. CASE StartResume(c, active, epoch + 1, "verifying")
    <3>1. epoch + 1 \in Nat /\ "verifying" \in Statuses /\ active \in Chains \cup {None}
      BY BuildFixConstants DEF TypeOK, Statuses
    <3>2. Recording(pp', reported, skippedAt) /\ Calls(chain', reported, skippedAt)
      BY <2>2, <3>1, ResumeSound
    <3> QED BY <1>8, <3>2, StillVerified DEF Resume
  <2> QED BY <1>8, <2>1, <2>2 DEF Resume
<1>9. CASE Retry \/ Stop \/ Interrupt
  BY <1>9, SameVerified DEF Retry, Stop, Interrupt
<1>10. CASE SkipCall
  <2>1. skipping' = {pp} /\ pp # None /\ pp.state \in Stopped /\ UNCHANGED <<pp, chain, reported, skippedAt>>
    BY <1>10 DEF SkipCall, Skippable
  <2>2. Sound(pp, ShaOf, reported)
    BY <2>1 DEF Verified, Recording
  <2> QED BY <2>1, <2>2 DEF Verified
<1>11. CASE Pause \/ Cancel \/ StopAborts
  <2>1. UNCHANGED <<pp, skipping, reported, skippedAt>>
    BY <1>11 DEF Pause, Cancel, StopAborts
  <2>2. CASE DismissWaiters
    BY <2>1, <2>2, DismissedCalls, StillVerified DEF Verified
  <2>3. CASE UNCHANGED chain
    BY <2>1, <2>3, SameVerified
  <2> QED BY <1>11, <2>2, <2>3 DEF Pause, Cancel, StopAborts
<1>12. CASE SkipWrite
  BY <1>12, SkipWriteVerified
<1>13. CASE SkipFails
  <2>1. skipping' \subseteq skipping /\ UNCHANGED <<pp, chain, reported, skippedAt>>
    BY <1>13 DEF SkipFails
  <2> QED BY <2>1 DEF Verified
<1>14. CASE StopGivesUp \/ \E e \in 0..(MaxEpoch + 1) : PauseDone(e)
  BY <1>14, SameVerified DEF StopGivesUp, PauseDone
<1>15. ASSUME NEW c \in Chains, Throws(c) PROVE Verified'
  <2>1. chain[c].pc \notin {"wait", "join"}
    BY <1>15 DEF Throws
  <2> QED BY <1>15, <2>1, AbandonVerified DEF Throws
<1>16. ASSUME NEW c \in Chains, Commit(c) PROVE Verified'
  BY <1>16, SameVerified DEF Commit
<1>17. ASSUME NEW c \in Chains, Restart(c) PROVE Verified'
  BY <1>17, RestartVerified
<1>18. ASSUME NEW o \in Others, OtherBuilds(o) PROVE Verified'
  BY <1>18, SameVerified DEF OtherBuilds
<1>19. CASE OtherFinishes
  <2>1. Calls(chain', reported, skippedAt)
    BY <1>19, DrainedCalls DEF OtherFinishes
  <2> QED BY <1>19, <2>1, StillVerified DEF OtherFinishes, Verified
<1>20. ASSUME NEW c \in Chains, Prepare(c) PROVE Verified'
  BY <1>20, PrepareVerified
<1>21. ASSUME NEW c \in Chains, BeginRound(c) PROVE Verified'
  BY <1>21, BeginRoundVerified
<1>22. ASSUME NEW c \in Chains, AskSlot(c) PROVE Verified'
  BY <1>22, AskSlotVerified
<1>23. ASSUME NEW c \in Chains, Refused(c) PROVE Verified'
  <2>1. chain[c].pc \notin {"wait", "join"}
    BY <1>23 DEF Refused
  <2> QED BY <1>23, <2>1, AbandonVerified DEF Refused
<1>24. ASSUME NEW c \in Chains, Granted(c) PROVE Verified'
  BY <1>24, GrantedVerified
<1>25. ASSUME NEW c \in Chains, Boot(c) PROVE Verified'
  <2>1. chain[c].pc \in InRound /\ "turn" \in InRound \ {"final_revision"}
    BY <1>25 DEF Boot, InRound
  <2>2. chain' = [chain EXCEPT ![c].pc = "turn"] /\ UNCHANGED <<pp, skipping, history>>
    BY <1>25 DEF Boot
  <2> QED BY <2>1, <2>2, MoveVerified
<1>26. ASSUME NEW c \in Chains, NeverRan(c) PROVE Verified'
  <2>1. Infrastructure(head) \in Result
    BY ReportsAreReports DEF TypeOK
  <2> QED BY <1>26, <2>1, ReturnsVerified DEF NeverRan
<1>27. ASSUME NEW c \in Chains, AgentEnds(c) PROVE Verified'
  <2>1. PICK result \in RunnerResults(chain[c].rev) : Returns(c, result)
    BY <1>27 DEF AgentEnds
  <2>2. chain[c].pc = "turn" /\ head \in Shas /\ Sure(chain[c], reported, skippedAt)
    BY <1>27 DEF AgentEnds, TypeOK, Verified, Calls
  <2>3. chain[c].rev \in Shas
    BY <2>2 DEF Sure, InRound
  <2>4. result \in Result
    BY <2>1, <2>2, <2>3, RunnerResultsAreResults
  <2> QED BY <2>1, <2>2, <2>4, ReturnsVerified
<1>28. ASSUME NEW c \in Chains, FinishRound(c) PROVE Verified'
  BY <1>28, FinishRoundVerified
<1>29. ASSUME NEW c \in Chains, PauseFromRound(c) PROVE Verified'
  <2>1. chain[c].pc \notin {"wait", "join"}
    BY <1>29 DEF PauseFromRound
  <2> QED BY <1>29, <2>1, AbandonVerified DEF PauseFromRound
<1>30. CASE UNCHANGED vars
  BY <1>30, SameVerified DEF vars
<1> QED
  BY <1>1, <1>2, <1>3, <1>4, <1>5, <1>6, <1>7, <1>8, <1>9, <1>10, <1>11, <1>12, <1>13, <1>14,
     <1>15, <1>16, <1>17, <1>18, <1>19, <1>20, <1>21, <1>22, <1>23, <1>24, <1>25, <1>26, <1>27,
     <1>28, <1>29, <1>30
     DEF Next, Reactions, Session, Controls, Answers, Environment, Step

--------------------------------------------------------------------------
\* Every step keeps the types, and the room for the epoch of an interrupt.

StopType(last) == [target : Chains \cup {None}, push : BOOLEAN, epoch : 0..last]

Rest ==
    /\ head \in Shas /\ status \in Statuses /\ pauseReq \in BOOLEAN
    /\ epoch \in 0..(MaxEpoch + 1) /\ pausers \subseteq 0..epoch
    /\ coding \in (0..epoch) \cup {None}
    /\ active \in Chains \cup {None}
    /\ stopping = None \/ stopping \in StopType(epoch)
    /\ starts \in 0..MaxStarts /\ restarts \in 0..MaxRestarts
    /\ reported \subseteq Shas \X CheckNames /\ skippedAt \subseteq Shas
    /\ Roomy

SlotTyped == slot \in Chains \cup Others \cup {None} /\ queue \in Seq(Chains \cup Others)

LEMMA RestFromTypes == TypeOK /\ Roomy => Rest
BY DEF TypeOK, Rest, StopType

LEMMA TypesFromRest == Rest /\ Verified /\ SlotTyped => TypeOK
<1> SUFFICES ASSUME Rest, Verified, SlotTyped PROVE TypeOK
  OBVIOUS
<1>1. pp \in PrePushState \cup {None}
  BY DEF Verified, Recording, Sound
<1>2. skipping \subseteq PrePushState
  BY DEF Verified, Sound
<1>3. chain \in [Chains -> ChainRecord]
  BY DEF Verified, Calls
<1> QED BY <1>1, <1>2, <1>3 DEF TypeOK, Rest, StopType, SlotTyped

\* The epoch stays, or goes up by one for a control: what is older keeps its
\* type.
LEMMA ControlTyped ==
    ASSUME Rest, epoch' \in {epoch, epoch + 1}, epoch' <= MaxEpoch + 1,
           pausers' \subseteq pausers \cup {epoch'},
           coding' \in {coding, None} \cup {epoch},
           stopping' = None \/ stopping' = stopping
    PROVE  /\ epoch' \in 0..(MaxEpoch + 1) /\ pausers' \subseteq 0..epoch'
           /\ coding' \in (0..epoch') \cup {None}
           /\ stopping' = None \/ stopping' \in StopType(epoch')
           /\ Roomy'
<1>1. epoch \in Nat /\ MaxEpoch \in Nat
  BY BuildFixConstants DEF Rest
<1>2. epoch' \in Nat /\ epoch <= epoch' /\ epoch' \in 0..(MaxEpoch + 1)
  BY <1>1
<1>3. 0..epoch \subseteq 0..epoch' /\ epoch \in 0..epoch' /\ epoch' \in 0..epoch'
  BY <1>1, <1>2
<1>4. pausers' \subseteq 0..epoch'
  BY <1>3 DEF Rest
<1>5. coding' \in (0..epoch') \cup {None}
  BY <1>3 DEF Rest
<1>6. StopType(epoch) \subseteq StopType(epoch')
  BY <1>3 DEF StopType
<1>7. stopping' = None \/ stopping' \in StopType(epoch')
  BY <1>6 DEF Rest
<1>8. Roomy'
  BY DEF Roomy, Rest
<1> QED BY <1>2, <1>4, <1>5, <1>7, <1>8

\* The end of a round: nobody's epoch changes.
LEMMA SettleRest ==
    ASSUME TypeOK, Rest, NEW chains, NEW c \in Chains, NEW ok, Settle(chains, c, ok),
           UNCHANGED <<head, epoch, pausers, coding, starts, restarts>>,
           status' \in Statuses, pauseReq' \in BOOLEAN,
           reported' \subseteq Shas \X CheckNames, skippedAt' \subseteq Shas
    PROVE  Rest'
<1>1. /\ active' \in Chains \cup {None}
      /\ stopping' = None \/ stopping' \in StopType(epoch)
      /\ stopping' # None /\ stopping'.push = FALSE => stopping'.epoch <= MaxEpoch
  BY SettleTyped DEF Rest, StopType
<1>2. Roomy'
  BY <1>1 DEF Roomy
<1> QED BY <1>1, <1>2 DEF Rest

\* Nothing of this changes.
LEMMA SameRest ==
    ASSUME Rest, UNCHANGED <<head, epoch, pausers, coding, restarts, pauseReq, active, stopping>>,
           status' \in Statuses, starts' \in 0..MaxStarts,
           reported' \subseteq Shas \X CheckNames, skippedAt' \subseteq Shas
    PROVE  Rest'
BY DEF Rest, Roomy

\* A control moves the epoch and what hangs on it.
LEMMA ControlRest ==
    ASSUME Rest, epoch' \in {epoch, epoch + 1}, epoch' <= MaxEpoch + 1,
           pausers' \subseteq pausers \cup {epoch'},
           coding' \in {coding, None} \cup {epoch},
           stopping' = None \/ stopping' = stopping,
           status' \in Statuses, pauseReq' \in BOOLEAN,
           active' = active, starts' \in 0..MaxStarts,
           UNCHANGED <<head, restarts, reported, skippedAt>>
    PROVE  Rest'
<1>1. /\ epoch' \in 0..(MaxEpoch + 1) /\ pausers' \subseteq 0..epoch'
      /\ coding' \in (0..epoch') \cup {None}
      /\ stopping' = None \/ stopping' \in StopType(epoch')
      /\ Roomy'
  BY ControlTyped
<1> QED BY <1>1 DEF Rest

LEMMA NextRest ==
    ASSUME TypeOK, Verified, SlotSound, Rest, [Next]_vars
    PROVE  Rest'
<1> USE DEF task, control, builds, requests, counters, history
<1>0. /\ head \in Shas /\ status \in Statuses /\ pauseReq \in BOOLEAN /\ epoch \in Nat
      /\ epoch <= MaxEpoch + 1 /\ starts \in 0..MaxStarts
      /\ reported \subseteq Shas \X CheckNames /\ skippedAt \subseteq Shas
      /\ MaxEpoch \in Nat /\ MaxStarts \in Nat /\ MaxRestarts \in Nat /\ MaxSha \in Nat
      /\ Shas = 1..MaxSha
      /\ active \in Chains \cup {None} /\ restarts \in 0..MaxRestarts
  BY BuildFixConstants DEF Rest
<1>1. ASSUME NEW c \in Chains, Woken(c) PROVE Rest'
  <2>1. status' \in Statuses
    BY <1>1, WokenVerified
  <2> QED BY <1>0, <1>1, <2>1, SameRest DEF Woken
<1>2. ASSUME NEW c \in Chains, HandOver(c) PROVE Rest'
  BY <1>0, <1>2, SameRest DEF HandOver
<1>3. ASSUME NEW c \in Chains, HostAnswers(c) PROVE Rest'
  <2>1. status' \in Statuses /\ pauseReq' \in BOOLEAN /\ pausers' \subseteq pausers \cup {epoch}
    BY <1>0, <1>3 DEF HostAnswers, DropPause, Statuses
  <2> QED BY <1>0, <1>3, <2>1, ControlRest DEF HostAnswers
<1>4. CASE StopDone
  <2>1. UNCHANGED <<head, pauseReq, pausers, active, coding, starts, restarts, reported, skippedAt>>
        /\ stopping # None /\ stopping' = None
    BY <1>4 DEF StopDone
  <2>2. status' \in Statuses
    BY <1>0, <1>4 DEF StopDone, Statuses
  <2>3. stopping \in StopType(epoch)
    BY <2>1 DEF Rest
  <2>4. epoch' = epoch \/ (epoch' = epoch + 1 /\ epoch <= MaxEpoch)
    <3>1. epoch' = epoch \/ (epoch' = epoch + 1 /\ ~stopping.push /\ stopping.epoch = epoch)
      BY <1>4 DEF StopDone, current
    <3> QED BY <2>1, <2>3, <3>1 DEF Rest, Roomy, StopType
  <2> QED BY <1>0, <2>1, <2>2, <2>4, ControlRest
<1>5. CASE StartCoding
  <2>1. "running" \in Statuses
    BY DEF Statuses
  <2> QED BY <1>0, <1>5, <2>1, ControlRest DEF StartCoding
<1>6. CASE CodingCommits \/ \E c \in Chains : Commit(c)
  <2>1. /\ head' = head + 1 /\ head < MaxSha
        /\ UNCHANGED <<status, epoch, pauseReq, pausers, coding, active, stopping, starts,
                       restarts, reported, skippedAt>>
    BY <1>6 DEF CodingCommits, Commit
  <2>2. head' \in Shas
    BY <1>0, <2>1
  <2> QED BY <2>1, <2>2 DEF Rest, Roomy
<1>7. CASE CodingEnds
  <2>1. status' \in Statuses /\ pauseReq' \in BOOLEAN /\ pausers' \subseteq pausers \cup {epoch}
    BY <1>0, <1>7 DEF CodingEnds, DropPause, Statuses
  <2> QED BY <1>0, <1>7, <2>1, ControlRest DEF CodingEnds
<1>8. ASSUME NEW c \in Chains, HostVerify(c) PROVE Rest'
  <2>1. starts' \in 0..MaxStarts
    BY <1>0, <1>8 DEF HostVerify, CanStart
  <2> QED BY <1>0, <1>8, <2>1, ControlRest DEF HostVerify
<1>9. ASSUME NEW c \in Chains, RetryPrePush(c) PROVE Rest'
  <2>1. StartResume(c, None, epoch, "verifying") /\ "verifying" \in Statuses
    BY <1>9 DEF RetryPrePush, Statuses
  <2>2. status' \in Statuses /\ starts' \in 0..MaxStarts
    BY <1>0, <2>1, ResumeSound
  <2> QED BY <1>0, <1>9, <2>2, SameRest DEF RetryPrePush
<1>10. ASSUME NEW c \in Chains, Resume(c) PROVE Rest'
  <2>1. status' \in Statuses /\ starts' \in 0..MaxStarts
    <3>1. CASE UNCHANGED starts /\ status' \in {"verifying", "queued"}
      BY <1>0, <3>1 DEF Statuses
    <3>2. CASE StartResume(c, active, epoch + 1, "verifying")
      <4>1. epoch + 1 \in Nat /\ "verifying" \in Statuses
        BY <1>0 DEF Statuses
      <4> QED BY <1>0, <3>2, <4>1, ResumeSound
    <3> QED BY <1>10, <3>1, <3>2 DEF Resume
  <2>2. /\ epoch' = epoch + 1 /\ epoch < MaxEpoch /\ pauseReq' = FALSE
        /\ UNCHANGED <<head, pausers, active, coding, stopping, restarts, reported, skippedAt>>
    BY <1>10 DEF Resume, Revoke
  <2>3. epoch' \in {epoch, epoch + 1} /\ epoch' <= MaxEpoch + 1 /\ pausers' \subseteq pausers \cup {epoch'}
    BY <1>0, <2>2
  <2> QED BY <1>0, <2>1, <2>2, <2>3, ControlRest
<1>11. CASE Retry
  <2>1. status' \in Statuses
    BY <1>11 DEF Retry, Retried, Statuses
  <2> QED BY <1>0, <1>11, <2>1, SameRest DEF Retry
<1>12. CASE SkipCall \/ SkipFails \/ \E o \in Others : OtherBuilds(o)
  BY <1>0, <1>12, SameRest DEF SkipCall, SkipFails, OtherBuilds
<1>13. CASE Stop
  <2>1. stopping' \in StopType(epoch) /\ stopping'.push = TRUE
    <3>1. epoch \in 0..epoch /\ active \in Chains \cup {None}
      BY <1>0
    <3> QED BY <1>13, <3>1 DEF Stop, StopType
  <2>2. UNCHANGED <<head, status, pauseReq, epoch, pausers, coding, active, starts, restarts,
                    reported, skippedAt>>
    BY <1>13 DEF Stop
  <2> QED BY <2>1, <2>2 DEF Rest, Roomy
<1>14. CASE Interrupt
  <2>1. /\ epoch' = epoch + 1 /\ epoch < MaxEpoch
        /\ UNCHANGED <<head, pauseReq, pausers, active, coding, starts, restarts, reported, skippedAt>>
    BY <1>14 DEF Interrupt, Revoke
  <2>2. CASE stopping' = [target |-> active, push |-> FALSE, epoch |-> epoch'] /\ UNCHANGED status
    <3>1. epoch' \in 0..epoch' /\ epoch' \in 0..(MaxEpoch + 1) /\ 0..epoch \subseteq 0..epoch'
          /\ epoch' <= MaxEpoch
      BY <1>0, <2>1
    <3>2. stopping' \in StopType(epoch') /\ stopping'.epoch = epoch'
      BY <1>0, <2>2, <3>1 DEF StopType
    <3>3. Roomy'
      BY <3>1, <3>2 DEF Roomy
    <3>4. pausers' \subseteq 0..epoch' /\ coding' \in (0..epoch') \cup {None}
      BY <2>1, <3>1 DEF Rest
    <3> QED BY <1>0, <2>1, <2>2, <3>1, <3>2, <3>3, <3>4 DEF Rest
  <2>3. CASE status' = "queued" /\ UNCHANGED stopping
    BY <1>0, <2>1, <2>3, ControlRest DEF Statuses
  <2> QED BY <1>14, <2>2, <2>3 DEF Interrupt
<1>15. CASE Pause
  <2>1. /\ status' \in Statuses /\ pauseReq' \in BOOLEAN
        /\ epoch' = epoch \/ (epoch' = epoch + 1 /\ epoch < MaxEpoch)
        /\ pausers' \subseteq pausers \cup {epoch'}
        /\ UNCHANGED <<head, active, coding, stopping, starts, restarts, reported, skippedAt>>
    BY <1>0, <1>15 DEF Pause, Revoke, Statuses
  <2> QED BY <1>0, <2>1, ControlRest
<1>16. CASE Cancel
  <2>1. /\ epoch' = epoch + 1 /\ epoch < MaxEpoch /\ pauseReq' = FALSE /\ status' = "canceled"
        /\ UNCHANGED <<head, pausers, active, coding, stopping, starts, restarts, reported, skippedAt>>
    BY <1>16 DEF Cancel, Revoke
  <2>2. epoch' \in {epoch, epoch + 1} /\ epoch' <= MaxEpoch + 1 /\ pausers' \subseteq pausers \cup {epoch'}
    BY <1>0, <2>1
  <2>3. "canceled" \in Statuses
    BY DEF Statuses
  <2> QED BY <1>0, <2>1, <2>2, <2>3, ControlRest
<1>17. CASE SkipWrite
  <2>1. status' \in Statuses /\ skippedAt' \subseteq Shas
    BY <1>17, SkipWriteVerified
  <2> QED BY <1>0, <1>17, <2>1, SameRest DEF SkipWrite
<1>18. CASE StopAborts
  BY <1>0, <1>18, SameRest DEF StopAborts
<1>19. CASE StopGivesUp
  <2>1. UNCHANGED <<head, pauseReq, pausers, active, coding, starts, restarts, reported, skippedAt>>
        /\ stopping # None /\ stopping' = None
    BY <1>19 DEF StopGivesUp
  <2>2. status' \in Statuses
    BY <1>0, <1>19 DEF StopGivesUp, Statuses
  <2>3. stopping \in StopType(epoch)
    BY <2>1 DEF Rest
  <2>4. epoch' = epoch \/ (epoch' = epoch + 1 /\ epoch <= MaxEpoch)
    <3>1. epoch' = epoch \/ (epoch' = epoch + 1 /\ ~stopping.push /\ stopping.epoch = epoch)
      BY <1>19 DEF StopGivesUp, current
    <3> QED BY <2>1, <2>3, <3>1 DEF Rest, Roomy, StopType
  <2> QED BY <1>0, <2>1, <2>2, <2>4, ControlRest
<1>20. ASSUME NEW e \in 0..(MaxEpoch + 1), PauseDone(e) PROVE Rest'
  <2>1. status' \in Statuses /\ pausers' \subseteq pausers /\ coding' \in {coding, None}
    BY <1>0, <1>20 DEF PauseDone, Statuses
  <2> QED BY <1>0, <1>20, <2>1, ControlRest DEF PauseDone
<1>21. ASSUME NEW c \in Chains, Throws(c) PROVE Rest'
  <2>1. status' \in Statuses /\ Settle(chain, c, FALSE)
    BY <1>0, <1>21 DEF Throws, Abandon, Statuses
  <2> QED BY <1>0, <1>21, <2>1, SettleRest DEF Throws
<1>22. ASSUME NEW c \in Chains, Restart(c) PROVE Rest'
  <2>1. status' \in Statuses /\ starts' \in 0..MaxStarts
    BY <1>22, RestartVerified
  <2>2. restarts' \in 0..MaxRestarts
    BY <1>0, <1>22 DEF Restart
  <2> QED BY <1>0, <1>22, <2>1, <2>2 DEF Rest, Roomy, Restart
<1>23. CASE OtherFinishes
  BY <1>0, <1>23, SameRest DEF OtherFinishes
<1>24. ASSUME NEW c \in Chains, Prepare(c) PROVE Rest'
  BY <1>24 DEF Rest, Roomy, Prepare
<1>25. ASSUME NEW c \in Chains, BeginRound(c) PROVE Rest'
  <2>1. CASE Settle([chain EXCEPT ![c].rev = head], c, TRUE) /\ UNCHANGED status
    BY <1>0, <1>25, <2>1, SettleRest DEF BeginRound
  <2>2. CASE status' = "running" /\ UNCHANGED <<active, stopping>>
    BY <1>0, <1>25, <2>2, SameRest DEF BeginRound, Statuses
  <2> QED BY <1>25, <2>1, <2>2 DEF BeginRound
<1>26. ASSUME NEW c \in Chains, AskSlot(c) PROVE Rest'
  <2>1. CASE Settle(chain, c, FALSE)
    BY <1>0, <1>26, <2>1, SettleRest DEF AskSlot
  <2>2. CASE UNCHANGED <<active, stopping>>
    BY <1>0, <1>26, <2>2, SameRest DEF AskSlot
  <2> QED BY <1>26, <2>1, <2>2 DEF AskSlot, Abandon
<1>27. ASSUME NEW c \in Chains, Refused(c) PROVE Rest'
  <2>1. Settle(chain, c, FALSE)
    BY <1>27 DEF Refused, Abandon
  <2> QED BY <1>0, <1>27, <2>1, SettleRest DEF Refused
<1>28. ASSUME NEW c \in Chains, Granted(c) PROVE Rest'
  <2>1. CASE Settle(Drained(chain), c, FALSE)
    BY <1>0, <1>28, <2>1, SettleRest DEF Granted
  <2>2. CASE UNCHANGED <<active, stopping>>
    BY <1>0, <1>28, <2>2, SameRest DEF Granted
  <2> QED BY <1>28, <2>1, <2>2 DEF Granted, Abandon
<1>29. ASSUME NEW c \in Chains, Boot(c) PROVE Rest'
  BY <1>0, <1>29, SameRest DEF Boot
<1>30. ASSUME NEW c \in Chains, NEW result \in Result, chain[c].pc \in {"boot", "turn"},
              Returns(c, result)
       PROVE  Rest'
  <2>1. reported' \subseteq Shas \X CheckNames
    BY <1>30, ReturnsVerified
  <2>2. CASE Settle(Drained(chain), c, FALSE)
    BY <1>0, <1>30, <2>1, <2>2, SettleRest DEF Returns
  <2>3. CASE UNCHANGED <<active, stopping>>
    BY <1>0, <1>30, <2>1, <2>3, SameRest DEF Returns
  <2> QED BY <1>30, <2>2, <2>3 DEF Returns, Abandon
<1>31. ASSUME NEW c \in Chains, NeverRan(c) PROVE Rest'
  <2>1. Infrastructure(head) \in Result
    BY ReportsAreReports DEF TypeOK
  <2> QED BY <1>30, <1>31, <2>1 DEF NeverRan
<1>32. ASSUME NEW c \in Chains, AgentEnds(c) PROVE Rest'
  <2>1. PICK result \in RunnerResults(chain[c].rev) : Returns(c, result)
    BY <1>32 DEF AgentEnds
  <2>2. chain[c].pc = "turn" /\ Sure(chain[c], reported, skippedAt)
    BY <1>32 DEF AgentEnds, Verified, Calls
  <2>3. chain[c].rev \in Shas
    BY <2>2 DEF Sure, InRound
  <2>4. result \in Result
    BY <1>0, <2>1, <2>3, RunnerResultsAreResults
  <2> QED BY <1>30, <2>1, <2>2, <2>4
<1>33. ASSUME NEW c \in Chains, FinishRound(c) PROVE Rest'
  <2>1. status' \in Statuses
    BY <1>33, FinishRoundVerified
  <2>2. \/ \E chains : \E ok : Settle(chains, c, ok) /\ UNCHANGED pauseReq
        \/ UNCHANGED <<active, stopping>> /\ pauseReq' = FALSE
    BY <1>33 DEF FinishRound, Abandon, Conclude, FeedBack
  <2>3. ASSUME NEW chains, NEW ok, Settle(chains, c, ok) /\ UNCHANGED pauseReq PROVE Rest'
    BY <1>0, <1>33, <2>1, <2>3, SettleRest DEF FinishRound
  <2>4. CASE UNCHANGED <<active, stopping>> /\ pauseReq' = FALSE
    BY <1>0, <1>33, <2>1, <2>4, ControlRest DEF FinishRound
  <2> QED BY <2>2, <2>3, <2>4
<1>34. ASSUME NEW c \in Chains, PauseFromRound(c) PROVE Rest'
  <2>1. status' \in Statuses /\ Settle(chain, c, FALSE)
    BY <1>0, <1>34 DEF PauseFromRound, Abandon, Statuses
  <2> QED BY <1>0, <1>34, <2>1, SettleRest DEF PauseFromRound
<1>35. CASE UNCHANGED vars
  BY <1>35 DEF vars, Rest, Roomy
<1> QED
  BY <1>1, <1>2, <1>3, <1>4, <1>5, <1>6, <1>7, <1>8, <1>9, <1>10, <1>11, <1>12, <1>13, <1>14,
     <1>15, <1>16, <1>17, <1>18, <1>19, <1>20, <1>21, <1>22, <1>23, <1>24, <1>25, <1>26, <1>27,
     <1>28, <1>29, <1>31, <1>32, <1>33, <1>34, <1>35
     DEF Next, Reactions, Session, Controls, Answers, Environment, Step

--------------------------------------------------------------------------
\* Every step keeps the slot sound.

LEMMA AlikeKeepsSlots ==
    ASSUME TypeOK, SlotSound, UNCHANGED builds, Alike(chain, chain')
    PROVE  SlotSound' /\ SlotTyped'
<1>1. Slots(slot, queue, chain')
  BY SlotsIs, SlotsAlike
<1> QED BY <1>1 DEF SlotSound, Slots, Holding, SlotTyped, TypeOK, builds

\* One call moves between points that have no place, or keep it.
LEMMA OneKeepsSlots ==
    ASSUME TypeOK, SlotSound, UNCHANGED builds, NEW c \in Chains, NEW k,
           chain' = [chain EXCEPT ![c] = k],
           \/ chain[c].pc \notin Holding \cup {"queued"} /\ k.pc \notin Holding \cup {"queued"}
           \/ chain[c].pc \in Holding /\ k.pc \in Holding
    PROVE  SlotSound' /\ SlotTyped'
<1>1. \A d \in Chains : chain'[d] = IF d = c THEN k ELSE chain[d]
  BY DEF TypeOK
<1>2. Alike(chain, chain')
  BY <1>1 DEF Alike, Holding
<1> QED BY <1>2, AlikeKeepsSlots

\* A round that has no place ends.
LEMMA SettleKeepsSlots ==
    ASSUME TypeOK, SlotSound, UNCHANGED builds, NEW c \in Chains, NEW chains, NEW ok,
           Calls(chains, reported, skippedAt), chains[c].pc \notin Holding \cup {"queued"},
           chain[c].pc = chains[c].pc, \A d \in Chains : d # c => chains[d] = chain[d],
           Settle(chains, c, ok)
    PROVE  SlotSound' /\ SlotTyped'
<1>1. Alike(chains, chain')
  BY SettledAlike DEF Settle
<1>2. Alike(chain, chain')
  BY <1>1 DEF Alike
<1> QED BY <1>2, AlikeKeepsSlots

\* A round gives its slot up and goes on without one.
LEMMA ReleaseKeepsSlots ==
    ASSUME TypeOK, Verified, Verified', SlotSound, NEW c \in Chains, chain[c].pc \in Holding,
           ReleaseSlot,
           \/ \E ok : Settle(Drained(chain), c, ok)
           \/ \E result :
                 chain' = [Drained(chain) EXCEPT ![c].pc = "final_revision", ![c].result = result]
    PROVE  SlotSound' /\ SlotTyped'
<1> DEFINE chains == Drained(chain)
<1>1. slot = c /\ slot # None
  BY BuildFixConstants DEF SlotSound, Holding
<1>2. Calls(chains, reported, skippedAt) /\ chains[c] = chain[c]
  <2>1. queue \in Seq(Chains \cup Others) /\ chain[c].pc # "queued"
    BY DEF TypeOK, Holding
  <2> QED BY <2>1, DrainedCalls, DrainedIs
<1>3. /\ chains \in [Chains -> ChainRecord] /\ chains[c] \in ChainRecord
      /\ chain' \in [Chains -> ChainRecord]
  BY <1>2 DEF Calls, Verified
<1> HIDE DEF chains
<1> DEFINE Goes ==
             /\ \A d \in Chains : d # c =>
                   /\ chain'[d].pc \in Holding <=> chains[d].pc \in Holding
                   /\ chain'[d].pc = "queued" <=> chains[d].pc = "queued"
             /\ chain'[c].pc \notin Holding \cup {"queued"}
<1>4. Goes
  <2>1. ASSUME NEW ok, Settle(chains, c, ok)
        PROVE  Goes
    <3>1. chain' = Settled(chains, c, ok)
      BY <2>1 DEF Settle
    <3>2. chain'[c].pc = "settled"
      BY <1>3, <3>1 DEF Settled, ChainRecord
    <3>3. \A d \in Chains : d # c =>
            chain'[d].pc = chains[d].pc \/ {chain'[d].pc, chains[d].pc} \subseteq {"wait", "join", "woken", "settled"}
      <4> SUFFICES ASSUME NEW d \in Chains, d # c, chains[d].on = c
                   PROVE  {chain'[d].pc, chains[d].pc} \subseteq {"wait", "join", "woken", "settled"}
        BY <3>1 DEF Settled
      <4>1. chains[d] \in ChainRecord /\ chains[d].pc \in {"wait", "join"}
        BY <1>2, BuildFixConstants DEF Calls, Sure
      <4> QED BY <3>1, <4>1 DEF Settled, ChainRecord
    <3> QED BY <3>2, <3>3 DEF Holding
  <2>2. ASSUME NEW result,
               chain' = [chains EXCEPT ![c].pc = "final_revision", ![c].result = result]
        PROVE  Goes
    <3>1. \A d \in Chains : d # c => chain'[d] = chains[d]
      BY <1>3, <2>2
    <3>2. chain'[c].pc = "final_revision"
      BY <1>3, <2>2 DEF ChainRecord
    <3> QED BY <3>1, <3>2 DEF Holding
  <2> QED BY <2>1, <2>2 DEF chains
<1>5. /\ Slots(slot', queue', chain')
      /\ slot' \in Chains \cup Others \cup {None} /\ queue' \in Seq(Chains \cup Others)
  BY <1>1, <1>3, <1>4, ReleasedSlots DEF chains
<1> QED BY <1>5 DEF Slots, SlotSound, Holding, SlotTyped

LEMMA NextSlots ==
    ASSUME TypeOK, Verified, Verified', SlotSound, [Next]_vars
    PROVE  SlotSound' /\ SlotTyped'
<1> USE DEF task, control, requests, counters, history
<1>0. /\ Calls(chain, reported, skippedAt) /\ head \in Shas
      /\ \A c \in Chains : chain[c] \in ChainRecord
      /\ chain \in [Chains -> ChainRecord]
      /\ queue \in Seq(Chains \cup Others) /\ slot \in Chains \cup Others \cup {None}
  BY DEF Verified, Calls, TypeOK
<1>1. CASE UNCHANGED <<slot, queue, chain>>
  BY <1>1 DEF SlotSound, SlotTyped, TypeOK
<1>2. ASSUME NEW c \in Chains, Settle(chain, c, FALSE), UNCHANGED builds,
             chain[c].pc \notin Holding \cup {"queued"}
      PROVE  SlotSound' /\ SlotTyped'
  BY <1>0, <1>2, SettleKeepsSlots
<1>3. ASSUME NEW c \in Chains, Woken(c) PROVE SlotSound' /\ SlotTyped'
  <2>1. chain[c].pc = "woken" /\ UNCHANGED builds
    BY <1>3 DEF Woken
  <2>2. PICK k : chain' = [chain EXCEPT ![c] = k] /\ k.pc \in {"idle", "join", "revision"}
    <3>1. CASE chain' = [chain EXCEPT ![c] = Idle]
      <4>1. Idle.pc = "idle"
        BY DEF Idle
      <4> QED BY <3>1, <4>1
    <3>2. CASE chain' = [chain EXCEPT ![c].pc = "join", ![c].on = active]
      <4> DEFINE k == [chain[c] EXCEPT !.pc = "join", !.on = active]
      <4>1. k.pc = "join" /\ chain' = [chain EXCEPT ![c] = k]
        BY <1>0, <3>2 DEF ChainRecord
      <4> QED BY <4>1
    <3>3. CASE chain' = [chain EXCEPT ![c].pc = "revision"]
      <4> DEFINE k == [chain[c] EXCEPT !.pc = "revision"]
      <4>1. k.pc = "revision" /\ chain' = [chain EXCEPT ![c] = k]
        BY <1>0, <3>3 DEF ChainRecord
      <4> QED BY <4>1
    <3> QED BY <1>3, <3>1, <3>2, <3>3 DEF Woken
  <2> QED BY <2>1, <2>2, OneKeepsSlots DEF Holding
<1>4. ASSUME NEW c \in Chains, HandOver(c) \/ HostAnswers(c) PROVE SlotSound' /\ SlotTyped'
  <2>1. chain[c].pc = "settled" /\ UNCHANGED builds /\ chain' = [chain EXCEPT ![c] = Idle]
        /\ Idle.pc = "idle"
    BY <1>4 DEF HandOver, HostAnswers, Idle
  <2> QED BY <2>1, OneKeepsSlots DEF Holding
<1>5. ASSUME NEW c \in Chains, HostVerify(c) PROVE SlotSound' /\ SlotTyped'
  <2>1. /\ chain[c].pc = "idle" /\ UNCHANGED builds
        /\ chain' = [chain EXCEPT ![c] = Started("host", coding, "revision")]
        /\ Started("host", coding, "revision").pc = "revision"
    BY <1>5 DEF HostVerify, CanStart, Started, Idle
  <2> QED BY <2>1, OneKeepsSlots DEF Holding
<1>6. ASSUME NEW c \in Chains, NEW busy, NEW e, NEW st, StartResume(c, busy, e, st),
             UNCHANGED builds
      PROVE  SlotSound' /\ SlotTyped'
  <2>1. CASE UNCHANGED chain
    BY <1>1, <1>6, <2>1 DEF builds
  <2> DEFINE k == IF busy = None THEN Started("resume", e, "revision")
                  ELSE [Started("resume", e, "wait") EXCEPT !.on = busy]
  <2>2. CASE chain' = [chain EXCEPT ![c] = k]
    <3>1. chain[c].pc = "idle" /\ k.pc \in {"revision", "wait"}
      BY <1>6 DEF StartResume, CanStart, Started, Idle
    <3> HIDE DEF k
    <3> QED BY <1>6, <2>2, <3>1, OneKeepsSlots DEF Holding
  <2> QED BY <1>6, <2>1, <2>2 DEF StartResume
<1>7. ASSUME NEW c \in Chains, RetryPrePush(c) PROVE SlotSound' /\ SlotTyped'
  BY <1>6, <1>7 DEF RetryPrePush
<1>8. ASSUME NEW c \in Chains, Resume(c) PROVE SlotSound' /\ SlotTyped'
  <2>1. CASE UNCHANGED chain
    BY <1>1, <1>8, <2>1 DEF Resume, builds
  <2>2. CASE StartResume(c, active, epoch + 1, "verifying")
    BY <1>6, <1>8, <2>2 DEF Resume
  <2> QED BY <1>8, <2>1, <2>2 DEF Resume
<1>9. CASE Pause \/ Cancel \/ StopAborts
  <2>1. UNCHANGED slot /\ (DismissWaiters \/ UNCHANGED <<chain, queue>>)
    BY <1>9 DEF Pause, Cancel, StopAborts
  <2>2. CASE DismissWaiters
    BY <1>0, <2>1, <2>2, DismissedSlots DEF SlotTyped
  <2> QED BY <1>1, <2>1, <2>2
<1>10. CASE \/ StopDone \/ StartCoding \/ CodingCommits \/ CodingEnds \/ Retry \/ SkipCall \/ Stop
            \/ Interrupt \/ SkipWrite \/ SkipFails \/ StopGivesUp
            \/ \E e \in 0..(MaxEpoch + 1) : PauseDone(e)
            \/ \E c \in Chains : Commit(c)
  BY <1>1, <1>10
     DEF StopDone, StartCoding, CodingCommits, CodingEnds, Retry, SkipCall, Stop, Interrupt,
         SkipWrite, SkipFails, StopGivesUp, PauseDone, Commit, builds
<1>11. ASSUME NEW c \in Chains, Restart(c) PROVE SlotSound' /\ SlotTyped'
  <2>1. slot' = None /\ queue' = <<>> /\ \A d \in Chains : chain'[d].pc \in {"idle", "revision"}
    BY <1>11, RestartVerified DEF Restart
  <2>2. None \notin Chains
    BY BuildFixConstants
  <2> QED BY <2>1, <2>2 DEF SlotSound, SlotTyped
<1>12. ASSUME NEW o \in Others, OtherBuilds(o) PROVE SlotSound' /\ SlotTyped'
  <2>1. \A i \in DOMAIN queue : queue[i] # o
    BY <1>12 DEF OtherBuilds
  <2>2. o \notin Chains /\ o # None
    BY BuildFixConstants
  <2>3. CASE slot = None
    <3>1. slot' = o /\ queue' = queue /\ chain' = chain
      BY <1>12, <2>3 DEF OtherBuilds
    <3>2. queue = <<>> /\ \A d \in Chains : chain[d].pc \notin Holding
      BY <2>3, BuildFixConstants DEF SlotSound, Holding
    <3> QED BY <1>0, <2>2, <3>1, <3>2 DEF SlotSound, SlotTyped, Holding
  <2>4. CASE slot # None
    <3>1. slot' = slot /\ queue' = Append(queue, o) /\ chain' = chain
      BY <1>12, <2>4 DEF OtherBuilds
    <3>2. Slots(slot, Append(queue, o), chain) /\ Append(queue, o) \in Seq(Chains \cup Others)
      BY <1>0, <2>1, <2>2, <2>4, JoinedSlots
    <3> QED BY <1>0, <3>1, <3>2 DEF Slots, SlotSound, SlotTyped, Holding
  <2> QED BY <2>3, <2>4
<1>13. CASE OtherFinishes
  <2>1. /\ ReleaseSlot /\ chain' = Drained(chain) /\ slot \in Others /\ slot # None
        /\ slot \notin Chains /\ chain' \in [Chains -> ChainRecord]
    BY <1>13, BuildFixConstants DEF OtherFinishes, Verified, Calls
  <2>2. /\ Slots(slot', queue', chain')
        /\ slot' \in Chains \cup Others \cup {None} /\ queue' \in Seq(Chains \cup Others)
    BY <2>1, ReleasedSlots
  <2> QED BY <2>2 DEF Slots, SlotSound, Holding, SlotTyped
<1>14. ASSUME NEW c \in Chains, Prepare(c) PROVE SlotSound' /\ SlotTyped'
  <2>1. chain[c].pc = "revision" /\ UNCHANGED builds
    BY <1>14 DEF Prepare
  <2>2. PICK k : chain' = [chain EXCEPT ![c] = k] /\ k.pc \in {"settled", "round_revision"}
    <3> DEFINE done == [chain[c] EXCEPT !.pc = "settled", !.ok = TRUE, !.rev = head]
               goes == [chain[c] EXCEPT !.pc = "round_revision"]
    <3>1. done.pc = "settled" /\ goes.pc = "round_revision"
      BY <1>0 DEF ChainRecord
    <3>2. chain' = [chain EXCEPT ![c] = done] \/ chain' = [chain EXCEPT ![c] = goes]
      BY <1>14 DEF Prepare
    <3> HIDE DEF done, goes
    <3> QED BY <3>1, <3>2
  <2> QED BY <2>1, <2>2, OneKeepsSlots DEF Holding
<1>15. ASSUME NEW c \in Chains, BeginRound(c) PROVE SlotSound' /\ SlotTyped'
  <2> DEFINE seen == [chain EXCEPT ![c].rev = head]
  <2>1. chain[c].pc = "round_revision" /\ UNCHANGED builds
    BY <1>15 DEF BeginRound
  <2>2. CASE Settle(seen, c, TRUE)
    <3>1. /\ Calls(seen, reported, skippedAt) /\ seen[c].pc = chain[c].pc
          /\ \A d \in Chains : d # c => seen[d] = chain[d]
      BY <1>0, <2>1, SeenCalls
    <3> HIDE DEF seen
    <3> QED BY <2>1, <2>2, <3>1, SettleKeepsSlots DEF Holding
  <2>3. ASSUME NEW begun,
               chain' = [chain EXCEPT ![c].pc = "snapshot", ![c].rev = head,
                                      ![c].id = begun.active, ![c].local = begun,
                                      ![c].prev = status]
        PROVE  SlotSound' /\ SlotTyped'
    <3> DEFINE k == [chain[c] EXCEPT !.pc = "snapshot", !.rev = head, !.id = begun.active,
                                     !.local = begun, !.prev = status]
    <3>1. k.pc = "snapshot"
      BY <1>0 DEF ChainRecord
    <3>2. chain' = [chain EXCEPT ![c] = k]
      BY <2>3
    <3> HIDE DEF k
    <3> QED BY <2>1, <3>1, <3>2, OneKeepsSlots DEF Holding
  <2> QED BY <1>15, <2>2, <2>3 DEF BeginRound
<1>16. ASSUME NEW c \in Chains, Throws(c) PROVE SlotSound' /\ SlotTyped'
  BY <1>2, <1>16 DEF Throws, Abandon, Holding
<1>17. ASSUME NEW c \in Chains, AskSlot(c) PROVE SlotSound' /\ SlotTyped'
  <2>1. chain[c].pc = "snapshot"
    BY <1>17 DEF AskSlot
  <2>2. CASE Abandon(chain, c) /\ UNCHANGED builds
    BY <1>2, <2>1, <2>2 DEF Abandon, Holding
  <2>3. ASSUME NEW pc, chain' = [chain EXCEPT ![c].pc = pc]
        PROVE  chain'[c].pc = pc /\ \A d \in Chains : d # c => chain'[d] = chain[d]
    BY <1>0, <2>3 DEF ChainRecord
  <2>4. CASE slot = None /\ slot' = c /\ queue' = queue /\ chain' = [chain EXCEPT ![c].pc = "granted"]
    <3>1. Slots(c, queue, chain')
      BY <2>3, <2>4, TakenSlots
    <3> QED BY <1>0, <2>4, <3>1 DEF Slots, SlotSound, SlotTyped, Holding
  <2>5. CASE slot # None /\ slot' = slot /\ queue' = Append(queue, c)
             /\ chain' = [chain EXCEPT ![c].pc = "queued"]
    <3>1. \A i \in DOMAIN queue : queue[i] # c
      BY <2>1 DEF SlotSound
    <3>2. Slots(slot, Append(queue, c), chain') /\ Append(queue, c) \in Seq(Chains \cup Others)
      BY <1>0, <2>1, <2>3, <2>5, <3>1, JoinedSlots DEF Holding
    <3> QED BY <1>0, <2>5, <3>2 DEF Slots, SlotSound, SlotTyped, Holding
  <2> QED BY <1>17, <2>2, <2>4, <2>5 DEF AskSlot
<1>18. ASSUME NEW c \in Chains, Refused(c) PROVE SlotSound' /\ SlotTyped'
  BY <1>2, <1>18 DEF Refused, Abandon, Holding
<1>19. ASSUME NEW c \in Chains, Granted(c) PROVE SlotSound' /\ SlotTyped'
  <2>1. chain[c].pc = "granted" /\ "granted" \in Holding /\ "boot" \in Holding
    BY <1>19 DEF Granted, Holding
  <2>2. CASE chain' = [chain EXCEPT ![c].pc = "boot"] /\ UNCHANGED builds
    <3> DEFINE k == [chain[c] EXCEPT !.pc = "boot"]
    <3>1. k.pc = "boot" /\ chain' = [chain EXCEPT ![c] = k]
      BY <1>0, <2>2 DEF ChainRecord
    <3> HIDE DEF k
    <3> QED BY <2>1, <2>2, <3>1, OneKeepsSlots
  <2>3. CASE ReleaseSlot /\ Abandon(Drained(chain), c)
    BY <2>1, <2>3, ReleaseKeepsSlots DEF Abandon
  <2> QED BY <1>19, <2>2, <2>3 DEF Granted
<1>20. ASSUME NEW c \in Chains, Boot(c) PROVE SlotSound' /\ SlotTyped'
  <2> DEFINE k == [chain[c] EXCEPT !.pc = "turn"]
  <2>1. k.pc = "turn" /\ chain' = [chain EXCEPT ![c] = k] /\ UNCHANGED builds /\ chain[c].pc = "boot"
    BY <1>0, <1>20 DEF Boot, ChainRecord
  <2> HIDE DEF k
  <2> QED BY <2>1, OneKeepsSlots DEF Holding
<1>21. ASSUME NEW c \in Chains, NEW result, chain[c].pc \in {"boot", "turn"}, Returns(c, result)
       PROVE  SlotSound' /\ SlotTyped'
  <2>1. ReleaseSlot /\ chain[c].pc \in Holding
    BY <1>21 DEF Returns, Holding
  <2>2. \/ Settle(Drained(chain), c, FALSE)
        \/ chain' = [Drained(chain) EXCEPT ![c].pc = "final_revision", ![c].result = result]
    BY <1>21 DEF Returns, Abandon
  <2> QED BY <2>1, <2>2, ReleaseKeepsSlots
<1>22. ASSUME NEW c \in Chains, NeverRan(c) \/ AgentEnds(c) PROVE SlotSound' /\ SlotTyped'
  BY <1>21, <1>22 DEF NeverRan, AgentEnds
<1>23. ASSUME NEW c \in Chains, FinishRound(c) PROVE SlotSound' /\ SlotTyped'
  <2> DEFINE seen == [chain EXCEPT ![c].rev = head]
  <2>1. chain[c].pc = "final_revision" /\ UNCHANGED builds
    BY <1>23 DEF FinishRound
  <2>2. \/ Settle(chain, c, FALSE)
        \/ \E ok : Settle(seen, c, ok)
        \/ chain' = [seen EXCEPT ![c].pc = "pausing"]
    BY <1>23 DEF FinishRound, Abandon, FeedBack, Conclude
  <2>3. /\ Calls(seen, reported, skippedAt) /\ seen[c].pc = chain[c].pc
        /\ \A d \in Chains : d # c => seen[d] = chain[d]
    BY <1>0, <2>1, SeenCalls
  <2>4. CASE Settle(chain, c, FALSE)
    BY <1>2, <2>1, <2>4 DEF Holding
  <2>5. ASSUME NEW ok, Settle(seen, c, ok) PROVE SlotSound' /\ SlotTyped'
    <3> HIDE DEF seen
    <3> QED BY <2>1, <2>3, <2>5, SettleKeepsSlots DEF Holding
  <2>6. CASE chain' = [seen EXCEPT ![c].pc = "pausing"]
    <3> DEFINE k == [seen[c] EXCEPT !.pc = "pausing"]
    <3>1. seen[c] \in ChainRecord
      BY <2>3 DEF Calls
    <3>2. chain' = [chain EXCEPT ![c] = k]
      BY <1>0, <2>6
    <3> HIDE DEF seen
    <3>3. k.pc = "pausing"
      BY <3>1 DEF ChainRecord
    <3> HIDE DEF k
    <3> QED BY <2>1, <3>2, <3>3, OneKeepsSlots DEF Holding
  <2> QED BY <2>2, <2>4, <2>5, <2>6
<1>24. ASSUME NEW c \in Chains, PauseFromRound(c) PROVE SlotSound' /\ SlotTyped'
  BY <1>2, <1>24 DEF PauseFromRound, Abandon, Holding
<1>25. CASE UNCHANGED vars
  BY <1>1, <1>25 DEF vars, builds
<1> QED
  BY <1>3, <1>4, <1>5, <1>7, <1>8, <1>9, <1>10, <1>11, <1>12, <1>13, <1>14, <1>15, <1>16, <1>17,
     <1>18, <1>19, <1>20, <1>22, <1>23, <1>24, <1>25
     DEF Next, Reactions, Session, Controls, Answers, Environment, Step

--------------------------------------------------------------------------
\* The theorems.

LEMMA InitInv == Init => Inv
<1> SUFFICES ASSUME Init PROVE Inv
  OBVIOUS
<1>1. Rest
  <2>1. /\ 1 \in Shas /\ 0 \in 0..(MaxEpoch + 1) /\ 0 \in 0..0 /\ 0 \in 0..MaxStarts
        /\ 0 \in 0..MaxRestarts /\ "running" \in Statuses
    BY BuildFixConstants DEF Statuses
  <2> QED BY <2>1 DEF Init, Rest, Roomy
<1>2. 0 \in Nat /\ "resume" \in {"resume", "host"}
  OBVIOUS
<1>3. Sure(Idle, reported, skippedAt) /\ Idle \in ChainRecord /\ Idle.pc = "idle"
  <2>1. Sure(Idle, reported, skippedAt)
    BY <1>2, StartedSure
  <2> QED BY <2>1 DEF Sure, Idle
<1>4. \A c \in Chains : chain[c] = Idle
  BY DEF Init
<1>5. chain \in [Chains -> ChainRecord]
  BY <1>3 DEF Init
<1>6. Verified
  BY <1>3, <1>4, <1>5 DEF Init, Verified, Recording, Calls
<1>7. SlotSound
  <2>1. slot = None /\ queue = <<>> /\ None \notin Chains
    BY BuildFixConstants DEF Init
  <2> QED BY <1>3, <1>4, <2>1 DEF SlotSound
<1>8. SlotTyped
  BY DEF Init, SlotTyped
<1>9. TypeOK
  BY <1>1, <1>6, <1>8, TypesFromRest
<1> QED BY <1>1, <1>6, <1>7, <1>9 DEF Inv, Rest

LEMMA NextInv ==
    ASSUME Inv, [Next]_vars
    PROVE  Inv'
<1>1. TypeOK /\ Verified /\ SlotSound /\ Rest
  BY RestFromTypes DEF Inv
<1>2. Verified'
  BY <1>1, NextVerified
<1>3. SlotSound' /\ SlotTyped'
  BY <1>1, <1>2, NextSlots
<1>4. Rest'
  BY <1>1, NextRest
<1>5. TypeOK'
  BY <1>2, <1>3, <1>4, TypesFromRest, PTL
<1>6. Roomy'
  BY <1>4 DEF Rest
<1> QED BY <1>2, <1>3, <1>5, <1>6 DEF Inv

\* Whatever joins, queues, cancels, commits, pauses and restarts: the record
\* and the calls stay verified and the slot sound.
THEOREM Invariance == Spec => []Inv
<1>1. Inv /\ [Next]_vars => Inv'
  BY NextInv
<1> QED BY <1>1, InitInv, PTL DEF Spec

\* Every variable keeps its type.
THEOREM TypeCorrect == Spec => []TypeOK
<1>1. Inv => TypeOK
  BY DEF Inv
<1> QED BY <1>1, Invariance, PTL

\* The slot has the holder that is between its grant and its runner's return;
\* nobody waits for it twice, or for a slot that is free.
THEOREM SlotIsSound == Spec => []SlotSound
<1>1. Inv => SlotSound
  BY DEF Inv
<1> QED BY <1>1, Invariance, PTL

LEMMA JustifiedFromInv == Inv => HandoverJustified
BY DEF Inv, Verified, Calls, Sure, Justified, HandoverJustified

\* Whoever is told that verification is done holds a commit on which both
\* checks were reported as passed, or one the user skipped.
THEOREM HandoversAreJustified == Spec => []HandoverJustified
BY Invariance, JustifiedFromInv, PTL

--------------------------------------------------------------------------
\* Refinement.

Endorsed == IF pp = None THEN None
            ELSE IF pp.receipt = None THEN None ELSE pp.receipt.rev.sha

\* The receipt of a sound record names a commit that was reported as passed.
EndorsedIsEarned ==
    Endorsed # None =>
        Endorsed \in Shas /\ \A check \in CheckNames : <<Endorsed, check>> \in reported

LEMMA EarnedFromInv == Inv => EndorsedIsEarned
<1> SUFFICES ASSUME Inv, Endorsed # None
             PROVE  Endorsed \in Shas /\ \A check \in CheckNames : <<Endorsed, check>> \in reported
  BY DEF EndorsedIsEarned
<1>1. pp # None /\ pp.receipt # None /\ Endorsed = pp.receipt.rev.sha
  BY DEF Endorsed
<1>2. Sound(pp, ShaOf, reported)
  BY <1>1 DEF Inv, Verified, Recording
<1>3. pp.rev \in Revision /\ pp.receipt.rev = pp.rev /\ pp.state = "passed"
  BY <1>1, <1>2 DEF Sound, Shape, PrePushState
<1>4. Endorsed \in Shas /\ ShaOf[pp.rev] = Endorsed
  BY <1>1, <1>3 DEF Revision, ShaOf
<1>5. pp.compile.st = "passed" /\ pp.unit_test.st = "passed" /\ pp.state # "user_skipped"
  BY <1>2, <1>3 DEF Sound, Shape
<1> QED BY <1>2, <1>4, <1>5 DEF Sound, Backed, CheckNames

\* Reports are never forgotten.
LEMMA ReportedGrows ==
    ASSUME [Next]_vars
    PROVE  reported \subseteq reported'
<1> USE DEF history, Returns
<1>1. CASE Reactions
  BY <1>1 DEF Reactions, Woken, HandOver, HostAnswers, StopDone
<1>2. CASE Session
  BY <1>2 DEF Session, StartCoding, CodingCommits, CodingEnds, HostVerify
<1>3. CASE Controls
  BY <1>3 DEF Controls, RetryPrePush, Resume, Retry, SkipCall, Stop, Interrupt, Pause, Cancel
<1>4. CASE Answers
  BY <1>4 DEF Answers, SkipWrite, SkipFails, StopAborts, StopGivesUp, PauseDone
<1>5. CASE Environment
  BY <1>5 DEF Environment, Throws, Commit, Restart, OtherBuilds
<1>6. CASE OtherFinishes
  BY <1>6 DEF OtherFinishes
<1>7. ASSUME NEW c \in Chains, Step(c) PROVE reported \subseteq reported'
  BY <1>7 DEF Step, Prepare, BeginRound, AskSlot, Refused, Granted, Boot, NeverRan, AgentEnds,
              FinishRound, PauseFromRound
<1>8. CASE UNCHANGED vars
  BY <1>8 DEF vars
<1> QED BY <1>1, <1>2, <1>3, <1>4, <1>5, <1>6, <1>7, <1>8 DEF Next

\* Every step of the rounds is a step of Endorsement.
LEMMA StepEndorses ==
    ASSUME Inv, Inv', [Next]_vars
    PROVE  [Promise!Next]_(Promise!vars)
<1>1. \E new \in SUBSET (Shas \X CheckNames) : reported' = reported \cup new
  <2>1. reported \subseteq reported' /\ reported' \in SUBSET (Shas \X CheckNames)
    BY ReportedGrows DEF Inv, TypeOK
  <2>2. reported' = reported \cup reported'
    BY <2>1
  <2> QED BY <2>1, <2>2
<1>2. CASE Endorsed' = None
  BY <1>1, <1>2 DEF Promise!Next, Promise!Withdraw, Endorsed
<1>3. CASE Endorsed' # None
  <2>1. EndorsedIsEarned'
    BY EarnedFromInv, PTL
  <2>2. Endorsed' \in Shas /\ \A check \in CheckNames : <<Endorsed', check>> \in reported'
    BY <1>3, <2>1 DEF EndorsedIsEarned
  <2> QED BY <1>1, <2>2 DEF Promise!Next, Promise!Endorse, Promise!Earned, Endorsed
<1> QED BY <1>2, <1>3

LEMMA InitEndorses == Init => Promise!Init
BY DEF Init, Promise!Init

\* The rounds implement the abstract specification: at most the commits that
\* the runners reported as passed are ever endorsed.
THEOREM RoundsEndorse == Spec => Endorses
<1>1. Inv /\ Inv' /\ [Next]_vars => [Promise!Next]_(Promise!vars)
  BY StepEndorses
<1> QED BY <1>1, InitEndorses, Invariance, PTL DEF Spec, Endorses, Promise!Spec
=============================================================================
