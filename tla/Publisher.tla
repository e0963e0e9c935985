----------------------------- MODULE Publisher ------------------------------
(***************************************************************************)
(* pkg/slack: the channel on which everybody sends what is to be reported, *)
(* and the one goroutine that receives from it and posts to Slack.         *)
(*                                                                         *)
(* The channel has no buffer: a sender is blocked from its Offer until its *)
(* form is received.  Go serves blocked senders in the order they came.    *)
(*                                                                         *)
(* A POST has no timeout: nothing makes it end.  What Slack answers is not *)
(* looked at.  When there is no answer, or the item's URL is none, the     *)
(* error is logged and a nil pointer is used all the same: the goroutine   *)
(* panics, and with it the process is down.                                *)
(***************************************************************************)
EXTENDS Naturals, Sequences, SequencesExt

CONSTANTS
  Senders,    \* the goroutines that report
  Nobody      \* nothing is being posted; no sender

VARIABLES
  up,         \* the process has not panicked
  waiting,    \* the senders blocked in a send, in the order they came
  posting,    \* whose form is being posted
  taken       \* taken[x][y]: history, the forms of y that were received
              \* while x has been waiting, counted to 2

vars == <<up, waiting, posting, taken>>

Init ==
  /\ up = TRUE
  /\ waiting = <<>>
  /\ posting = Nobody
  /\ taken = [x \in Senders |-> [y \in Senders |-> 0]]

Blocked(x) == x \in Range(waiting)

(* The newest form first. *)
NewestFirstMutant(x) ==
  /\ up
  /\ waiting' = <<x>> \o waiting
  /\ UNCHANGED <<up, posting, taken>>

(* slack.Channel <- form *)
Offer(x) ==
  /\ up
  /\ waiting' = Append(waiting, x)
  /\ UNCHANGED <<up, posting, taken>>

(* publisher() is back at its channel and receives: the first sender goes  *)
(* on, the others have seen one more form pass.                            *)
Receive ==
  /\ up
  /\ posting = Nobody
  /\ waiting # <<>>
  /\ posting' = Head(waiting)
  /\ waiting' = Tail(waiting)
  /\ taken' = [x \in Senders |->
                 IF x \in Range(waiting')
                 THEN [taken[x] EXCEPT ![posting'] = IF @ < 2 THEN @ + 1
                                                     ELSE 2]
                 ELSE [y \in Senders |-> 0]]
  /\ UNCHANGED up

(* Some answer of the server, of any status. *)
PostEnds ==
  /\ up
  /\ posting # Nobody
  /\ posting' = Nobody
  /\ UNCHANGED <<up, waiting, taken>>

(* No answer, or no request: req or resp is nil. *)
PostFails ==
  /\ up
  /\ posting # Nobody
  /\ up' = FALSE
  /\ UNCHANGED <<waiting, posting, taken>>

Publish == Receive \/ PostEnds \/ PostFails

Next == (\E x \in Senders : Offer(x)) \/ Publish

Spec == Init /\ [][Next]_vars

-----------------------------------------------------------------------------
(* Properties *)

TypeOK ==
  /\ up \in BOOLEAN
  /\ waiting \in Seq(Senders)
  /\ posting \in Senders \cup {Nobody}
  /\ taken \in [Senders -> [Senders -> 0..2]]

(* While a sender waits, each other one gets in before it once at most:    *)
(* with a single publisher and a channel without a buffer, an item with a  *)
(* short interval cannot keep the others from being reported.  This rests  *)
(* on the senders: each waits until its form is taken.                     *)
FairShare == \A x, y \in Senders : taken[x][y] <= 1
=============================================================================
