-------------------------- MODULE ApprovalWait_proofs --------------------------
(***************************************************************************)
(* Proofs about ApprovalWait, for any lengths of ceiling, slack, slice and *)
(* floor that are ordered as the code's are, and any deadlines.            *)
(*                                                                         *)
(* The argument: what the server reported is an approval's state, and a    *)
(* decision is final (ReplyInv); the loop is at its top only after a poll  *)
(* that took the floor's time or before the first (TopInv).                *)
(***************************************************************************)
EXTENDS ApprovalWait, TLAPS

\* A decision in an answer has been taken.
ReplyInv == reply = "decided" => approval = "decided"
\* Whoever polls next has not just polled.
TopInv == pc = "top" => elapsed >= Floor
\* The loop has returned when it has a result.
ResultInv == result.err # "none" => Returned

\* The inductive invariant.
IInv == TypeOK /\ ReplyInv /\ TopInv /\ ResultInv /\ DecisionIsReal /\ DeadlineIsOwned

USE TimesAssumption, DeadlinesAssumption

\* The invariant holds at first.
LEMMA InitInv == Init => IInv
<1> SUFFICES ASSUME Init PROVE IInv
  OBVIOUS
<1>1. Patience \in Nat /\ Patience >= Floor
  BY DEF Patience
<1>2. QED
  BY <1>1 DEF Init, IInv, TypeOK, Approval, Label, Error, ReplyInv, TopInv, ResultInv, Returned,
     DecisionIsReal, DeadlineIsOwned

\* Every step keeps it.
LEMMA StepInv == IInv /\ [Next]_vars => IInv'
<1> SUFFICES ASSUME IInv, [Next]_vars PROVE IInv'
  OBVIOUS
<1> USE DEF IInv, TypeOK, Approval, Label, Error, ReplyInv, TopInv, ResultInv, Returned,
     DecisionIsReal, DeadlineIsOwned, Done, HasDeadline
<1>1. Patience \in Nat /\ Patience >= Floor
  BY DEF Patience
<1>2. CASE DeadlineArrived
  BY <1>2 DEF DeadlineArrived, Return
<1>3. CASE TooLateToPoll
  BY <1>3 DEF TooLateToPoll
<1>4. CASE Poll
  BY <1>4, <1>1 DEF Poll
<1>5. CASE ReceiveDecision
  BY <1>5 DEF ReceiveDecision, TimedOut, Return
<1>6. CASE ReceivePending
  BY <1>6, <1>1 DEF ReceivePending, TimedOut, MustPause
<1>7. CASE PauseOver
  BY <1>7 DEF PauseOver
<1>8. CASE CallTimesOut \/ CallLost
  BY <1>8 DEF CallTimesOut, CallLost, PollFails, Blame, Return
<1>9. CASE ServerAnswers
  BY <1>9 DEF ServerAnswers
<1>10. CASE Decide
  BY <1>10 DEF Decide
<1>11. CASE Cancel
  BY <1>11 DEF Cancel
<1>12. CASE Tick
  BY <1>12, <1>1 DEF Tick, Due
<1>13. CASE UNCHANGED vars
  BY <1>13 DEF vars
<1>14. QED
  BY <1>2, <1>3, <1>4, <1>5, <1>6, <1>7, <1>8, <1>9, <1>10, <1>11, <1>12, <1>13 DEF Next, Loop

\* The inductive invariant of ApprovalWait.
THEOREM Inductive == Spec => []IInv
  BY InitInv, StepInv, PTL DEF Spec

\* The types: the approval kept for the caller is never anything but pending.
THEOREM TypeCorrect == Spec => []TypeOK
<1>1. IInv => TypeOK
  BY DEF IInv
<1>2. QED
  BY <1>1, Inductive, PTL

\* What a wait returns without an error is a decision that was taken.
THEOREM DecisionsAreReal == Spec => []DecisionIsReal
<1>1. IInv => DecisionIsReal
  BY DEF IInv
<1>2. QED
  BY <1>1, Inductive, PTL

\* A wait without a decision blames its caller's context exactly when that is done,
\* and shows the approval it saw.
THEOREM DeadlinesAreOwned == Spec => []DeadlineIsOwned
<1>1. IInv => DeadlineIsOwned
  BY DEF IInv
<1>2. QED
  BY <1>1, Inductive, PTL

\* However fast the server answers, polls start a floor's time apart.
THEOREM PollsArePaced == Spec => NoHotSpin
<1>1. IInv => (pc = "top" /\ pc' = "polling" => elapsed >= Floor)
  BY DEF IInv, TopInv
<1>2. QED
  BY <1>1, Inductive, PTL DEF NoHotSpin
=============================================================================
