---------------------------- MODULE ApprovalWait ----------------------------
(***************************************************************************)
(* ApprovalsAPI.WaitUntilDecided (approval.go): a loop of bounded long     *)
(* polls around WaitApproval, until the approval is terminal or the        *)
(* caller's context is done.  A poll that reaches the server's ceiling is  *)
(* answered with the approval still pending, and that answer may be old    *)
(* by the time it arrives.                                                 *)
(*                                                                         *)
(* Time is counted in units.  Two clocks say all the code asks of it: the  *)
(* time left to the caller's deadline and the time since the last poll     *)
(* started.  Local code takes no time and timers fire on time.             *)
(***************************************************************************)
EXTENDS Naturals

CONSTANTS
  Ceiling,    \* waitServerCeiling: the longest the server holds a poll
  Slack,      \* waitCallSlack: what a call gets beyond that
  MinSlice,   \* waitMinSlice: no poll is issued with less time left
  Floor,      \* waitPollFloor: the least time an iteration takes
  Never,      \* the deadline of a context that has none
  Deadlines   \* how long the caller is willing to wait

ASSUME TimesAssumption ==
  /\ {Ceiling, Slack, MinSlice, Floor} \subseteq Nat \ {0}
  /\ Floor <= MinSlice /\ MinSlice <= Ceiling
ASSUME DeadlinesAssumption == Never \notin Nat /\ Deadlines \subseteq Nat \cup {Never}

VARIABLES
  approval,  \* the approval on the platform
  reply,     \* the answer to the poll in flight, as the server saw the approval
  pc,        \* the loop: at its top, polling, pausing, or waiting for ctx.Done()
  timeLeft,  \* to the caller's deadline; 0 once its context is done
  elapsed,   \* since the poll in flight, or the last one, started
  last,      \* the last pending approval seen, or "none"
  result     \* what WaitUntilDecided returned: an approval and an error

vars == <<approval, reply, pc, timeLeft, elapsed, last, result>>

Approval == {"pending", "decided"}
Label    == {"top", "polling", "pausing", "draining", "returned"}
Error    == {"none", "nil", "context", "deadlineExceeded", "unavailable"}

Patience == Ceiling + Slack     \* of one call

Init ==
  /\ approval \in Approval /\ reply = "none" /\ pc = "top"
  /\ timeLeft \in Deadlines /\ elapsed = Patience
  /\ last = "none" /\ result = [approval |-> "none", err |-> "none"]

Done == timeLeft = 0
HasDeadline == timeLeft # Never
Return(a, e) == pc' = "returned" /\ result' = [approval |-> a, err |-> e] /\ reply' = "none"

-----------------------------------------------------------------------------
(* The loop.                                                               *)

DeadlineArrived ==
  /\ pc \in {"top", "draining", "pausing"} /\ Done
  /\ Return(last, "context")
  /\ UNCHANGED <<approval, timeLeft, elapsed, last>>

TooLateToPoll ==
  /\ pc = "top" /\ ~ Done /\ HasDeadline /\ timeLeft < MinSlice
  /\ pc' = "draining"
  /\ UNCHANGED <<approval, reply, timeLeft, elapsed, last, result>>

Poll ==
  /\ pc = "top" /\ ~ Done /\ (HasDeadline => timeLeft >= MinSlice)
  /\ pc' = "polling" /\ elapsed' = 0
  /\ UNCHANGED <<approval, reply, timeLeft, last, result>>

\* The poll was answered; TimedOut tells a pending approval from a decision.
TimedOutIgnored(r) == FALSE
TimedOutAlways(r) == TRUE
TimedOut(r) == r = "pending"

ReceiveDecision ==
  /\ pc = "polling" /\ reply # "none" /\ ~ TimedOut(reply)
  /\ Return(reply, "nil")
  /\ UNCHANGED <<approval, timeLeft, elapsed, last>>

PauseNever == FALSE
MustPause == elapsed < Floor

ReceivePending ==
  /\ pc = "polling" /\ reply # "none" /\ TimedOut(reply)
  /\ last' = reply /\ reply' = "none"
  /\ pc' = IF MustPause THEN "pausing" ELSE "top"
  /\ UNCHANGED <<approval, timeLeft, elapsed, result>>

PauseOver ==
  /\ pc = "pausing" /\ elapsed >= Floor
  /\ pc' = "top"
  /\ UNCHANGED <<approval, reply, timeLeft, elapsed, last, result>>

\* The poll failed: a context that is done is reported as such.
BlameTheCall(e) == e
Blame(e) == IF Done THEN "context" ELSE e

PollFails(e) ==
  /\ pc = "polling" /\ Return(last, Blame(e))
  /\ UNCHANGED <<approval, timeLeft, elapsed, last>>

CallTimesOut == (elapsed = Patience \/ Done) /\ PollFails("deadlineExceeded")
CallLost     == PollFails("unavailable")

-----------------------------------------------------------------------------
(* The platform, the caller's context, and time.                           *)

\* The server answers when it will: at its ceiling, on a decision, or at once.
ServerAnswers ==
  /\ pc = "polling" /\ reply = "none"
  /\ reply' = approval
  /\ UNCHANGED <<approval, pc, timeLeft, elapsed, last, result>>

Decide ==
  /\ approval = "pending" /\ approval' = "decided"
  /\ UNCHANGED <<reply, pc, timeLeft, elapsed, last, result>>

Cancel ==
  /\ pc # "returned" /\ ~ Done /\ timeLeft' = 0
  /\ UNCHANGED <<approval, reply, pc, elapsed, last, result>>

\* Something is due now, so no time passes before it: a local step or a timer.
Due ==
  \/ pc \in {"top", "returned"} \/ Done
  \/ pc = "polling" /\ elapsed = Patience
  \/ pc = "pausing" /\ elapsed >= Floor

Tick ==
  /\ ~ Due
  /\ elapsed' = IF elapsed < Patience THEN elapsed + 1 ELSE elapsed
  /\ timeLeft' = IF HasDeadline THEN timeLeft - 1 ELSE timeLeft
  /\ UNCHANGED <<approval, reply, pc, last, result>>

Loop ==
  \/ DeadlineArrived \/ TooLateToPoll \/ Poll \/ ReceiveDecision \/ ReceivePending
  \/ PauseOver \/ CallTimesOut

Next == Loop \/ CallLost \/ ServerAnswers \/ Decide \/ Cancel \/ Tick

Spec == Init /\ [][Next]_vars
\* The loop runs, time passes, and a poll is answered or runs out of patience.
FairSpec == Spec /\ WF_vars(Loop) /\ WF_vars(Tick) /\ WF_vars(ServerAnswers)

-----------------------------------------------------------------------------
TypeOK ==
  /\ approval \in Approval /\ reply \in Approval \cup {"none"} /\ pc \in Label
  /\ timeLeft \in Nat \cup {Never} /\ elapsed \in 0..Patience
  /\ last \in {"none", "pending"}
  /\ result \in [approval : Approval \cup {"none"}, err : Error]

Returned == pc = "returned"

\* A still-pending approval is never taken for a decision, though a reached
\* ceiling comes back as a success.
DecisionIsReal == result.err = "nil" => result.approval = "decided" /\ approval = "decided"

\* A wait that ends without a decision reports its caller's context exactly when
\* that context is done: never a poll's failure instead, and never for a poll that
\* only ran out of its own time. The approval it was waiting on comes with it.
DeadlineIsOwned ==
  Returned /\ result.err # "nil" =>
    /\ result.err = "context" <=> Done
    /\ last # "none" => result.approval = last

\* A server that answers at once cannot turn the loop into a hot spin.
NoHotSpin == [][pc = "top" /\ pc' = "polling" => elapsed >= Floor]_vars

\* A decided approval ends the wait, and so does the caller's deadline, whatever
\* the approval does and however the server answers.
DecisionReturns == approval = "decided" ~> Returned
DeadlineReturns == timeLeft # Never ~> Returned
=============================================================================
