----------------------------- MODULE AnswerOnce -----------------------------
(***************************************************************************)
(* What deciders are promised about their cards: a card is answered at     *)
(* most once and keeps that answer, an answer reaches a session at most    *)
(* once, and no session hears an answer that nobody gave.                  *)
(***************************************************************************)
EXTENDS Naturals

CONSTANTS Card, Answer, None

VARIABLE card       \* per card its status, its decision and who was told

Blank == [status |-> "none", decision |-> None, told |-> 0]
Waiting == [status |-> "waiting", decision |-> None, told |-> 0]

Raise(c) ==
    card[c] = Blank /\ card' = [card EXCEPT ![c] = Waiting]

\* The answer is recorded; a session that is waiting for it hears it at once.
Decide(c) ==
    /\ card[c] = Waiting
    /\ \E answer \in Answer, told \in {0, 1} :
         card' = [card EXCEPT ![c] = [status |-> "resolved",
                                      decision |-> answer, told |-> told]]

\* A later session hears it.
Tell(c) ==
    /\ card[c].status = "resolved" /\ card[c].told = 0
    /\ card' = [card EXCEPT ![c].told = 1]

Withdraw(c) ==
    /\ card[c] = Waiting
    /\ card' = [card EXCEPT ![c].status = "superseded"]

Init == card = [c \in Card |-> Blank]

Next == \E c \in Card : Raise(c) \/ Decide(c) \/ Tell(c) \/ Withdraw(c)

Spec == Init /\ [][Next]_card
=============================================================================
