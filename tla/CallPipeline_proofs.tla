-------------------------- MODULE CallPipeline_proofs --------------------------
(***************************************************************************)
(* Proofs about CallPipeline, for any number of callers, any requests, any *)
(* configurations and any number of expiries.                              *)
(*                                                                         *)
(* The argument: what a call has carried and may still retry adds up to    *)
(* its attempts (Budget); a request that is not safe to replay has had no  *)
(* effect while an attempt of it is under way (Effect); and an attempt     *)
(* ends with an error that agrees with what it did (Truth).                *)
(***************************************************************************)
EXTENDS CallPipeline, TLAPS

USE ClientsAssumption, ExpiriesAssumption, RequestsAssumption

Under(c) == pc[c] \in {"attempt", "sent", "refused", "reissued", "backoff"}
Chain == Seq(Status \cup Sentinel)

\* What is carried and what may be retried come to the attempts.
Budget(c) ==
  /\ pc[c] = "idle" => carried[c] = 0
  /\ Under(c) => carried[c] + left[c] <= attempts - 1
  /\ pc[c] = "judged" => carried[c] + left[c] <= attempts
  /\ ~ Replays(req[c]) => carried[c] <= (IF Under(c) THEN 0 ELSE 1)

\* A request that may not be replayed has no effect before its attempt ends.
Effect(c) ==
  /\ effects[c] <= 1 /\ Code(err[c]) # "alreadyExists"
  /\ Under(c) /\ ~ SafeToReplay(req[c]) => effects[c] = 0

\* What the error of an attempt tells of it.
Truth(c) ==
  ~ Under(c) =>
    /\ Code(err[c]) = "unauthenticated" /\ ~ SafeToReplay(req[c]) => effects[c] = 0
    /\ err[c] = <<>> /\ req[c].method # "GetAgent" => effects[c] = 1
    /\ client.source # "session" /\ Unrenewed(err[c]) => Code(err[c]) = "unauthenticated"
    /\ pc[c] = "idle" /\ IsTransient(err[c]) => ~ Replays(req[c]) \/ left[c] = 0

\* The inductive invariant.
IInv == TypeOK /\ \A c \in Caller : Budget(c) /\ Effect(c) /\ Truth(c)

-----------------------------------------------------------------------------
(* Chains of errors.                                                       *)

\* The code of a chain that has one is the first status in it.
LEMMA FirstStatus ==
  ASSUME NEW e \in Chain, NEW i \in DOMAIN e, e[i] \in Status,
         \A j \in DOMAIN e : e[j] \in Status => i <= j
  PROVE  StatusCode(e) = e[i]
<1>1. DOMAIN e \subseteq Nat
  BY DEF Chain
<1>2. i \in Statuses(e) /\ (\A j \in Statuses(e) : i <= j) /\ Statuses(e) \subseteq Nat
  BY <1>1 DEF Statuses
<1>3. (CHOOSE k \in Statuses(e) : \A j \in Statuses(e) : k <= j) = i
  BY <1>2
<1>4. e # <<>> /\ Statuses(e) # {}
  BY <1>2
<1>5. QED
  BY <1>3, <1>4 DEF StatusCode

\* A lone status is the code of its chain.
LEMMA LoneStatus ==
  ASSUME NEW x \in Status
  PROVE  /\ <<x>> \in Chain /\ StatusCode(<<x>>) = x /\ Code(<<x>>) = x
         /\ \A y : Wraps(<<x>>, y) <=> y = x
<1>1. <<x>> \in Chain /\ DOMAIN <<x>> = {1} /\ <<x>>[1] = x
  BY DEF Chain
<1>2. StatusCode(<<x>>) = x
  BY <1>1, FirstStatus
<1>3. QED
  BY <1>1, <1>2 DEF Code, Wraps, Status

\* A sentinel in front of a rejection leaves the rejection's code.
LEMMA WrappedRejection ==
  ASSUME NEW s \in {"keyRefused", "expired", "unsaved"}
  PROVE  LET e == Joined(<<s>>, <<"unauthenticated">>)
         IN  /\ e \in Chain /\ e # <<>> /\ Code(e) = "unauthenticated"
             /\ \A y : Wraps(e, y) <=> y \in {s, "unauthenticated"}
<1> DEFINE e == Joined(<<s>>, <<"unauthenticated">>)
<1>1. e \in Chain /\ DOMAIN e = {1, 2} /\ e[1] = s /\ e[2] = "unauthenticated"
  BY DEF Joined, Chain, Status, Sentinel
<1>2. StatusCode(e) = "unauthenticated"
  BY <1>1, FirstStatus DEF Status
<1>3. QED
  BY <1>1, <1>2 DEF Code, Wraps

\* A failed refresh in front of a rejection.
LEMMA WrappedFailure ==
  ASSUME NEW x \in Status \ {"alreadyExists"}
  PROVE  LET e == Joined(<<"expired", x>>, <<"unauthenticated">>)
         IN  /\ e \in Chain /\ e # <<>> /\ Code(e) = x
             /\ \A y : Wraps(e, y) <=> y \in {"expired", x, "unauthenticated"}
<1> DEFINE e == Joined(<<"expired", x>>, <<"unauthenticated">>)
<1>1. e \in Chain /\ DOMAIN e = {1, 2, 3} /\ e[1] = "expired" /\ e[2] = x /\ e[3] = "unauthenticated"
  BY DEF Joined, Chain, Status, Sentinel
<1>2. StatusCode(e) = x
  BY <1>1, FirstStatus DEF Status
<1>3. \A y : Wraps(e, y) <=> y \in {"expired", x, "unauthenticated"}
  BY <1>1 DEF Wraps
<1>4. Code(e) = x
  BY <1>2, <1>3 DEF Code, Status
<1>5. QED
  BY <1>1, <1>3, <1>4

\* An abandoned backoff: no status, and a code of its own.
LEMMA BareContext ==
  /\ <<"context">> \in Chain /\ StatusCode(<<"context">>) = "unknown"
  /\ Code(<<"context">>) = "deadlineExceeded"
  /\ \A y : Wraps(<<"context">>, y) <=> y = "context"
<1>1. <<"context">> \in Chain /\ DOMAIN <<"context">> = {1} /\ <<"context">>[1] = "context"
  BY DEF Chain, Sentinel
<1>2. Statuses(<<"context">>) = {} /\ <<"context">> # <<>>
  BY <1>1 DEF Statuses, Status
<1>3. QED
  BY <1>1, <1>2 DEF StatusCode, Code, Wraps

\* Success: no error at all.
LEMMA NoError == <<>> \in Chain /\ StatusCode(<<>>) = "ok" /\ Code(<<>>) = "ok" /\ \A y : ~ Wraps(<<>>, y)
<1>1. <<>> \in Chain /\ DOMAIN <<>> = {}
  BY DEF Chain
<1>2. QED
  BY <1>1 DEF StatusCode, Code, Wraps

-----------------------------------------------------------------------------
\* No step changes the configuration, and with it the attempts.
LEMMA ClientKept == [Next]_vars => client' = client
  BY DEF Next, Step, vars, source, counts, Begin, ContextDone, Expire, Present, AnswerAgain, Apply, Deny,
     TransportFails, Refuse, RefuseAgain, RenewStatic, RenewedAlready, Renew, RenewUnsaved,
     RenewRefused, RenewRpcFails, Return, Retry, BackoffOver, BackoffAbandoned, Leaves

\* The attempts are a positive number, and retries leave some.
LEMMA AttemptsType == TypeOK => attempts \in Nat \ {0}
  BY DEF TypeOK, attempts

\* At first nobody calls.
LEMMA InitInv == Init => IInv
<1> SUFFICES ASSUME Init PROVE IInv
  OBVIOUS
<1>1. PICK r0 \in Request : r0.method = "GetAgent" /\ req = [c \in Caller |-> r0]
  <2>1. [method |-> "GetAgent", log |-> FALSE, key |-> FALSE] \in Request
    BY DEF Request, replayableReads
  <2>2. QED
    BY <2>1 DEF Init
<1>2. TypeOK
  BY <1>1, NoError DEF Init, TypeOK, Label, Chain
<1>3. ASSUME NEW c \in Caller PROVE Budget(c) /\ Effect(c) /\ Truth(c)
  BY <1>1, NoError DEF Init, Budget, Effect, Truth, Unrenewed, Under, IsTransient, retryableCodes
<1>4. QED
  BY <1>2, <1>3 DEF IInv

\* Every step keeps the types.
LEMMA TypeStep == IInv /\ [Next]_vars => TypeOK'
<1> SUFFICES ASSUME IInv, [Next]_vars PROVE TypeOK'
  OBVIOUS
<1> USE DEF IInv, TypeOK, Label, Goto, source, counts
<1>1. attempts - 1 \in Nat /\ \A c \in Caller : Upto(carried[c], attempts + 1) \in Nat
  <2>1. attempts \in Nat \ {0}
    BY AttemptsType
  <2>2. \A c \in Caller : carried[c] \in Nat
    OBVIOUS
  <2>3. attempts - 1 \in Nat
    BY <2>1
  <2>4. QED
    BY <2>1, <2>2, <2>3 DEF Upto
<1>2. ASSUME NEW c \in Caller, NEW r \in Request, Begin(c, r) PROVE TypeOK'
  BY <1>1, <1>2, NoError DEF Begin, Chain
<1>3. ASSUME NEW c \in Caller, ContextDone(c) PROVE TypeOK'
  BY <1>3 DEF ContextDone
<1>4. ASSUME NEW c \in Caller, Present(c) PROVE TypeOK'
  BY <1>4 DEF Present
<1>5. ASSUME NEW c \in Caller, AnswerAgain(c) PROVE TypeOK'
  BY <1>1, <1>5, NoError, LoneStatus DEF AnswerAgain, Reached, Carries, Ends, Status, Chain
<1>6. ASSUME NEW c \in Caller, Apply(c) PROVE TypeOK'
  <2>1. Upto(effects[c], 2) \in Nat
    BY DEF Upto
  <2>2. PICK e \in Chain : Ends(c, e)
    BY <1>6, NoError, LoneStatus DEF Apply, Status
  <2>3. QED
    BY <1>1, <1>6, <2>1, <2>2 DEF Apply, Reached, Carries, Ends, Chain
<1>7. ASSUME NEW c \in Caller, Deny(c) PROVE TypeOK'
  BY <1>1, <1>7, LoneStatus DEF Deny, Reached, Carries, Ends, Status, Chain
<1>8. ASSUME NEW c \in Caller, TransportFails(c) PROVE TypeOK'
  BY <1>1, <1>8, LoneStatus DEF TransportFails, Carries, Ends, Status, Chain
<1>9. ASSUME NEW c \in Caller, Refuse(c) PROVE TypeOK'
  BY <1>9 DEF Refuse
<1>10. ASSUME NEW c \in Caller, RefuseAgain(c) PROVE TypeOK'
  BY <1>10, LoneStatus DEF RefuseAgain, Ends, Status, Chain
<1>11. ASSUME NEW c \in Caller, RenewStatic(c) PROVE TypeOK'
  <2>1. PICK e \in Chain : Ends(c, e)
    BY <1>11, WrappedRejection DEF RenewStatic, RenewalFailed
  <2>2. QED
    BY <1>11, <2>1 DEF RenewStatic, RenewalFailed, Ends, Chain
<1>12. ASSUME NEW c \in Caller, RenewedAlready(c) PROVE TypeOK'
  BY <1>12 DEF RenewedAlready, Reissue
<1>13. ASSUME NEW c \in Caller, Renew(c) PROVE TypeOK'
  BY <1>13 DEF Renew, Rotated, Reissue
<1>14. ASSUME NEW c \in Caller, RenewUnsaved(c) PROVE TypeOK'
  <2>1. PICK e \in Chain : Ends(c, e)
    BY <1>14, WrappedRejection DEF RenewUnsaved, RenewalFailed
  <2>2. QED
    BY <1>14, <2>1 DEF RenewUnsaved, RenewalFailed, Rotated, Ends, Chain
<1>15. ASSUME NEW c \in Caller, RenewRefused(c) PROVE TypeOK'
  <2>1. PICK e \in Chain : Ends(c, e)
    BY <1>15, WrappedFailure DEF RenewRefused, RenewalFailed, Status
  <2>2. QED
    BY <1>15, <2>1 DEF RenewRefused, RenewalFailed, Ends, Chain
<1>16. ASSUME NEW c \in Caller, RenewRpcFails(c) PROVE TypeOK'
  <2>1. PICK e \in Chain : Ends(c, e)
    BY <1>16, WrappedFailure DEF RenewRpcFails, RenewalFailed, Status
  <2>2. rotatable' \in BOOLEAN
    BY <1>16 DEF RenewRpcFails
  <2>3. QED
    BY <1>16, <2>1, <2>2 DEF RenewRpcFails, RenewalFailed, Ends, Chain
<1>17. ASSUME NEW c \in Caller, Return(c) PROVE TypeOK'
  BY <1>17 DEF Return, Leaves
<1>18. ASSUME NEW c \in Caller, Retry(c) PROVE TypeOK'
  <2>1. left[c] > 0 => left[c] - 1 \in Nat
    OBVIOUS
  <2>2. QED
    BY <1>18, <2>1 DEF Retry
<1>19. ASSUME NEW c \in Caller, BackoffOver(c) PROVE TypeOK'
  BY <1>19 DEF BackoffOver
<1>20. ASSUME NEW c \in Caller, BackoffAbandoned(c) PROVE TypeOK'
  BY <1>20, BareContext DEF BackoffAbandoned, Leaves, Chain
<1>21. CASE Expire
  BY <1>21 DEF Expire
<1>22. CASE UNCHANGED vars
  BY <1>22 DEF vars
<1>23. QED
  BY <1>2, <1>3, <1>4, <1>5, <1>6, <1>7, <1>8, <1>9, <1>10, <1>11, <1>12, <1>13, <1>14, <1>15,
     <1>16, <1>17, <1>18, <1>19, <1>20, <1>21, <1>22 DEF Next, Step

-----------------------------------------------------------------------------
(* What one call's steps do to it.                                         *)

\* Where a caller is, its call is idle, under way or judged.
LEMMA Places == ASSUME TypeOK, NEW c \in Caller PROVE pc[c] \in {"idle", "judged"} \/ Under(c)
  BY DEF TypeOK, Label, Under

\* A call that nothing happened to is as it was.
Untouched(d) ==
  /\ pc'[d] = pc[d] /\ req'[d] = req[d] /\ err'[d] = err[d] /\ left'[d] = left[d]
  /\ carried'[d] = carried[d] /\ effects'[d] = effects[d]

LEMMA UntouchedKept ==
  ASSUME NEW d \in Caller, client' = client, Untouched(d), Budget(d), Effect(d), Truth(d)
  PROVE  Budget(d)' /\ Effect(d)' /\ Truth(d)'
<1>1. Under(d)' <=> Under(d)
  BY DEF Under, Untouched
<1>2. attempts' = attempts
  BY DEF attempts
<1>3. (Replays(req[d]))' <=> Replays(req[d])
  BY <1>2 DEF Replays, Untouched
<1>4. (SafeToReplay(req[d]))' <=> SafeToReplay(req[d])
  BY DEF SafeToReplay, Untouched
<1>5. Budget(d)'
  BY <1>1, <1>2, <1>3 DEF Budget, Untouched
<1>6. Effect(d)'
  BY <1>1, <1>4 DEF Effect, Untouched, Code, StatusCode, Statuses, Wraps
<1>7. Truth(d)'
  BY <1>1, <1>3, <1>4 DEF Truth, Untouched, Code, StatusCode, Statuses, Wraps, IsTransient
<1>8. QED
  BY <1>5, <1>6, <1>7

\* The call under way keeps its numbers and moves to another place of it.
GoesOn(c) ==
  /\ Under(c) /\ Under(c)' /\ req'[c] = req[c] /\ err'[c] = err[c] /\ left'[c] = left[c]
  /\ carried'[c] = carried[c] /\ effects'[c] = effects[c]

LEMMA GoesOnKept ==
  ASSUME NEW c \in Caller, client' = client, GoesOn(c), Budget(c), Effect(c)
  PROVE  Budget(c)' /\ Effect(c)' /\ Truth(c)'
<1>1. attempts' = attempts
  BY DEF attempts
<1>2. (Replays(req[c]))' <=> Replays(req[c])
  BY <1>1 DEF Replays, GoesOn
<1>3. (SafeToReplay(req[c]))' <=> SafeToReplay(req[c])
  BY DEF SafeToReplay, GoesOn
<1>4. pc'[c] \notin {"idle", "judged"}
  BY DEF GoesOn, Under
<1>5. Budget(c)'
  BY <1>1, <1>2, <1>4 DEF Budget, GoesOn
<1>6. Effect(c)'
  BY <1>3 DEF Effect, GoesOn, Code, StatusCode, Statuses, Wraps
<1>7. Truth(c)'
  BY DEF Truth, GoesOn
<1>8. QED
  BY <1>5, <1>6, <1>7

\* The attempt under way ends with an error the numbers agree with.
Judges(c, e, n, k) ==
  /\ Under(c) /\ pc'[c] = "judged" /\ req'[c] = req[c] /\ left'[c] = left[c]
  /\ err'[c] = e /\ carried'[c] = n /\ effects'[c] = k
  /\ n \in {carried[c], carried[c] + 1}

LEMMA JudgesKept ==
  ASSUME TypeOK, NEW c \in Caller, NEW e, NEW n, NEW k, client' = client, Judges(c, e, n, k), Budget(c),
         k \in {0, 1}, Code(e) # "alreadyExists",
         Code(e) = "unauthenticated" /\ ~ SafeToReplay(req[c]) => k = 0,
         e = <<>> /\ req[c].method # "GetAgent" => k = 1,
         client.source # "session" /\ Unrenewed(e) => Code(e) = "unauthenticated"
  PROVE  Budget(c)' /\ Effect(c)' /\ Truth(c)'
<1>1. attempts' = attempts /\ attempts \in Nat /\ carried[c] \in Nat /\ left[c] \in Nat
  BY AttemptsType DEF attempts, TypeOK
<1>2. (Replays(req[c]))' <=> Replays(req[c])
  BY <1>1 DEF Replays, Judges
<1>3. (SafeToReplay(req[c]))' <=> SafeToReplay(req[c])
  BY DEF SafeToReplay, Judges
<1>4. ~ Under(c)'
  BY DEF Judges, Under
<1>5. Budget(c)'
  BY <1>1, <1>2, <1>4 DEF Budget, Judges
<1>6. Effect(c)'
  BY <1>4 DEF Effect, Judges, Code, StatusCode, Statuses, Wraps
<1>7. Truth(c)'
  BY <1>3, <1>4 DEF Truth, Judges, Code, StatusCode, Statuses, Wraps, Unrenewed
<1>8. QED
  BY <1>5, <1>6, <1>7

\* One more request carried, as the bounded counter has it.
LEMMA Carried ==
  ASSUME TypeOK, NEW c \in Caller, Under(c), Budget(c), Carries(c)
  PROVE  carried'[c] = carried[c] + 1
<1>1. attempts \in Nat /\ carried[c] \in Nat /\ left[c] \in Nat
  BY AttemptsType DEF TypeOK
<1>2. carried[c] < attempts + 1
  BY <1>1 DEF Budget
<1>3. carried'[c] = Upto(carried[c], attempts + 1)
  BY DEF Carries, TypeOK
<1>4. QED
  BY <1>2, <1>3 DEF Upto

\* Each step of a call keeps what is true of it.
LEMMA OwnStep ==
  ASSUME TypeOK, NEW c \in Caller, client' = client, Budget(c), Effect(c), Truth(c),
         Step(c) \/ ContextDone(c) \/ \E r \in Request : Begin(c, r)
  PROVE  Budget(c)' /\ Effect(c)' /\ Truth(c)'
<1> DEFINE Kept == Budget(c)' /\ Effect(c)' /\ Truth(c)'
<1>t. /\ pc \in [Caller -> Label] /\ req \in [Caller -> Request] /\ err \in [Caller -> Seq(Status \cup Sentinel)]
      /\ left \in [Caller -> Nat] /\ carried \in [Caller -> Nat] /\ effects \in [Caller -> Nat]
  BY DEF TypeOK
<1>e. Under(c) => /\ effects[c] \in {0, 1}
                  /\ ~ SafeToReplay(req[c]) => effects[c] = 0
  BY <1>t DEF Effect
<1>1. ASSUME NEW r \in Request, Begin(c, r) PROVE Kept
  <2>1. /\ pc'[c] = "attempt" /\ req'[c] = r /\ err'[c] = <<>> /\ left'[c] = attempts - 1
        /\ carried'[c] = 0 /\ effects'[c] = 0
    BY <1>1, <1>t DEF Begin, Goto, Budget
  <2>2. attempts' = attempts /\ attempts \in Nat \ {0}
    BY AttemptsType DEF attempts
  <2>3. Under(c)'
    BY <2>1 DEF Under
  <2>4. Budget(c)'
    BY <2>1, <2>2, <2>3 DEF Budget
  <2>5. Effect(c)'
    BY <2>1, NoError DEF Effect
  <2>6. Truth(c)'
    BY <2>3 DEF Truth
  <2>7. QED
    BY <2>4, <2>5, <2>6
<1>2. CASE ContextDone(c)
  <2>1. Untouched(c)
    BY <1>2 DEF ContextDone, Untouched, counts
  <2>2. QED
    BY <2>1, UntouchedKept
<1>3. CASE Present(c)
  <2>1. GoesOn(c)
    BY <1>3, <1>t DEF Present, GoesOn, Goto, Under, counts
  <2>2. QED
    BY <2>1, GoesOnKept
<1>4. CASE AnswerAgain(c)
  <2>1. Under(c) /\ carried'[c] = carried[c] + 1
    BY <1>4, Carried DEF AnswerAgain, Reached, InFlight, Under
  <2>2. ~ Collides(c)
    <3> SUFFICES ASSUME Collides(c) PROVE FALSE
      OBVIOUS
    <3>1. req[c].log /\ effects[c] > 0
      BY DEF Collides, Repeated
    <3>2. req[c].method = "CommitMemory"
      BY <1>t, <3>1, Zenon DEF Request
    <3>3. ~ SafeToReplay(req[c])
      BY <3>1, <3>2 DEF SafeToReplay, replayableReads
    <3>4. QED
      BY <1>e, <2>1, <3>1, <3>3
  <2>3. Converges(c) /\ Judges(c, <<>>, carried[c] + 1, effects[c])
    BY <1>4, <1>t, <2>1, <2>2 DEF AnswerAgain, Ends, Goto, Judges
  <2>4. req[c].method # "GetAgent" => effects[c] = 1
    BY <1>e, <2>1, <2>3 DEF Converges, Repeated
  <2>5. QED
    BY <1>e, <2>1, <2>3, <2>4, NoError, JudgesKept DEF Unrenewed
<1>5. CASE Apply(c)
  <2>1. Under(c) /\ carried'[c] = carried[c] + 1
    BY <1>5, Carried DEF Apply, Reached, InFlight, Under
  <2>2. effects[c] = 0
    BY <1>5, <1>t, <1>e, <2>1 DEF Apply, Converges, Collides, Repeated, SafeToReplay, Request,
       replayableReads, neverReplay
  <2>3. effects'[c] = 1
    BY <1>5, <1>t, <2>2 DEF Apply, Upto
  <2>4. PICK e \in {<<>>, <<"unavailable">>} : Ends(c, e)
    BY <1>5 DEF Apply
  <2>5. Judges(c, e, carried[c] + 1, 1)
    BY <1>5, <1>t, <2>1, <2>3, <2>4 DEF Apply, Ends, Goto, Judges
  <2>6. Code(e) \notin {"alreadyExists", "unauthenticated"} /\ ~ Unrenewed(e)
    BY NoError, LoneStatus DEF Status, Unrenewed
  <2>7. QED
    BY <2>5, <2>6, JudgesKept
<1>6. CASE Deny(c)
  <2>1. Under(c) /\ carried'[c] = carried[c] + 1
    BY <1>6, Carried DEF Deny, Reached, InFlight, Under
  <2>2. Judges(c, <<"denied">>, carried[c] + 1, effects[c])
    BY <1>6, <1>t, <2>1 DEF Deny, Ends, Goto, Judges
  <2>3. QED
    BY <1>e, <2>1, <2>2, LoneStatus, JudgesKept DEF Status, Unrenewed
<1>7. CASE TransportFails(c)
  <2>1. Under(c) /\ carried'[c] = carried[c] + 1
    BY <1>7, Carried DEF TransportFails, InFlight, Under
  <2>2. PICK x \in {"deadlineExceeded", "unavailable"} : Ends(c, <<x>>)
    BY <1>7 DEF TransportFails
  <2>3. Judges(c, <<x>>, carried[c] + 1, effects[c])
    BY <1>7, <1>t, <2>1, <2>2 DEF TransportFails, Ends, Goto, Judges
  <2>4. <<x>> # <<>> /\ ~ Unrenewed(<<x>>) /\ Code(<<x>>) = x
    BY LoneStatus DEF Status, Unrenewed
  <2>5. QED
    BY <1>e, <2>1, <2>3, <2>4, JudgesKept
<1>8. CASE Refuse(c)
  <2>1. GoesOn(c)
    BY <1>8, <1>t DEF Refuse, GoesOn, Goto, Under, counts
  <2>2. QED
    BY <2>1, GoesOnKept
<1>9. CASE RefuseAgain(c)
  <2>1. Judges(c, <<"unauthenticated">>, carried[c], effects[c]) /\ Under(c)
    BY <1>9, <1>t DEF RefuseAgain, Ends, Goto, Judges, Under, counts
  <2>2. QED
    BY <1>e, <2>1, LoneStatus, JudgesKept DEF Status
<1>10. CASE RenewStatic(c)
  <2>1. PICK s \in {"keyRefused", "expired"} : RenewalFailed(c, <<s>>)
    BY <1>10 DEF RenewStatic
  <2>2. Judges(c, Joined(<<s>>, <<"unauthenticated">>), carried[c], effects[c]) /\ Under(c)
    BY <1>10, <1>t, <2>1 DEF RenewStatic, RenewalFailed, Ends, Goto, Judges, Under, counts
  <2>3. QED
    BY <1>e, <2>2, WrappedRejection, JudgesKept
<1>11. CASE RenewedAlready(c)
  <2>1. GoesOn(c)
    BY <1>11, <1>t DEF RenewedAlready, Reissue, GoesOn, Goto, Under, counts
  <2>2. QED
    BY <2>1, GoesOnKept
<1>12. CASE Renew(c)
  <2>1. GoesOn(c)
    BY <1>12, <1>t DEF Renew, OwnToken, Reissue, GoesOn, Goto, Under
  <2>2. QED
    BY <2>1, GoesOnKept
<1>13. CASE RenewUnsaved(c)
  <2>1. Judges(c, Joined(<<"unsaved">>, <<"unauthenticated">>), carried[c], effects[c]) /\ Under(c)
    BY <1>13, <1>t DEF RenewUnsaved, OwnToken, RenewalFailed, Ends, Goto, Judges, Under
  <2>2. QED
    BY <1>e, <2>1, WrappedRejection, JudgesKept
<1>14. CASE RenewRefused(c)
  <2>1. Judges(c, Joined(<<"expired", "unauthenticated">>, <<"unauthenticated">>), carried[c], effects[c]) /\ Under(c)
    BY <1>14, <1>t DEF RenewRefused, OwnToken, RenewalFailed, Ends, Goto, Judges, Under, counts
  <2>2. QED
    BY <1>e, <2>1, WrappedFailure, JudgesKept DEF Status
<1>15. CASE RenewRpcFails(c)
  <2>1. PICK x \in {"deadlineExceeded", "unavailable"} : RenewalFailed(c, <<"expired", x>>)
    BY <1>15 DEF RenewRpcFails
  <2>2. /\ Judges(c, Joined(<<"expired", x>>, <<"unauthenticated">>), carried[c], effects[c])
        /\ Under(c) /\ client.source = "session"
    BY <1>15, <1>t, <2>1 DEF RenewRpcFails, OwnToken, RenewalFailed, Ends, Goto, Judges, Under
  <2>3. QED
    BY <1>e, <2>2, WrappedFailure, JudgesKept DEF Status
<1>16. CASE Return(c)
  <2>1. ~ Under(c) /\ ~ Under(c)' /\ pc'[c] = "idle" /\ carried'[c] = 0
    BY <1>16, <1>t DEF Return, Leaves, Goto, Under
  <2>2. req' = req /\ err' = err /\ left' = left /\ effects' = effects
    BY <1>16 DEF Return, Leaves
  <2>3. Budget(c)' /\ Effect(c)'
    BY <2>1, <2>2 DEF Budget, Effect, Code, StatusCode, Statuses, Wraps
  <2>4. IsTransient(err[c]) => ~ Replays(req[c]) \/ left[c] = 0
    BY <1>16, NoError DEF Return, OnCodes, IsTransient, retryableCodes
  <2>5. (Replays(req[c]))' <=> Replays(req[c])
    BY <2>2 DEF Replays, attempts
  <2>6. Truth(c)'
    BY <2>1, <2>2, <2>4, <2>5 DEF Truth, Code, StatusCode, Statuses, Wraps, Unrenewed, SafeToReplay, IsTransient
  <2>7. QED
    BY <2>3, <2>6
<1>17. CASE Retry(c)
  <2>1. pc[c] = "judged" /\ ~ Under(c) /\ Under(c)' /\ pc'[c] = "backoff" /\ left'[c] = left[c] - 1
    BY <1>17, <1>t DEF Retry, Goto, Under
  <2>2. req' = req /\ err' = err /\ carried' = carried /\ effects' = effects
    BY <1>17 DEF Retry, counts
  <2>3. Replays(req[c]) /\ (Replays(req[c]))' /\ (SafeToReplay(req[c]))' /\ attempts' = attempts /\ attempts \in Nat
    BY <1>17, <2>2, AttemptsType DEF Retry, Replays, attempts, SafeToReplay
  <2>4. Budget(c)'
    BY <1>t, <2>1, <2>2, <2>3 DEF Budget
  <2>5. Effect(c)'
    BY <2>2, <2>3 DEF Effect, Code, StatusCode, Statuses, Wraps
  <2>6. QED
    BY <2>1, <2>4, <2>5 DEF Truth
<1>18. CASE BackoffOver(c)
  <2>1. GoesOn(c)
    BY <1>18, <1>t DEF BackoffOver, GoesOn, Goto, Under, counts
  <2>2. QED
    BY <2>1, GoesOnKept
<1>19. CASE BackoffAbandoned(c)
  <2>1. ~ Under(c)' /\ pc'[c] = "idle" /\ carried'[c] = 0 /\ err'[c] = <<"context">>
    BY <1>19, <1>t DEF BackoffAbandoned, Leaves, Goto, Under
  <2>2. effects' = effects
    BY <1>19 DEF BackoffAbandoned, Leaves
  <2>3. Budget(c)' /\ Effect(c)'
    BY <2>1, <2>2, BareContext DEF Budget, Effect
  <2>4. Truth(c)'
    BY <2>1, BareContext DEF Truth, Unrenewed, IsTransient, retryableCodes
  <2>5. QED
    BY <2>3, <2>4
<1>20. QED
  BY <1>1, <1>2, <1>3, <1>4, <1>5, <1>6, <1>7, <1>8, <1>9, <1>10, <1>11, <1>12, <1>13, <1>14, <1>15,
     <1>16, <1>17, <1>18, <1>19 DEF Step

\* A caller's step leaves every other call alone.
LEMMA OthersUntouched ==
  ASSUME TypeOK, NEW c \in Caller, NEW d \in Caller \ {c},
         Step(c) \/ ContextDone(c) \/ \E r \in Request : Begin(c, r)
  PROVE  Untouched(d)
<1> USE DEF TypeOK, Untouched, Goto, counts
<1>1. CASE ContextDone(c)
  BY <1>1 DEF ContextDone
<1>2. CASE Present(c)
  BY <1>2 DEF Present
<1>3. CASE AnswerAgain(c)
  BY <1>3 DEF AnswerAgain, Reached, Carries, Ends
<1>4. CASE Apply(c)
  BY <1>4 DEF Apply, Reached, Carries, Ends
<1>5. CASE Deny(c)
  BY <1>5 DEF Deny, Reached, Carries, Ends
<1>6. CASE TransportFails(c)
  BY <1>6 DEF TransportFails, Carries, Ends
<1>7. CASE Refuse(c)
  BY <1>7 DEF Refuse
<1>8. CASE RefuseAgain(c)
  BY <1>8 DEF RefuseAgain, Ends
<1>9. CASE RenewStatic(c)
  BY <1>9 DEF RenewStatic, RenewalFailed, Ends
<1>10. CASE RenewedAlready(c)
  BY <1>10 DEF RenewedAlready, Reissue
<1>11. CASE Renew(c)
  BY <1>11 DEF Renew, Reissue
<1>12. CASE RenewUnsaved(c)
  BY <1>12 DEF RenewUnsaved, RenewalFailed, Ends
<1>13. CASE RenewRefused(c)
  BY <1>13 DEF RenewRefused, RenewalFailed, Ends
<1>14. CASE RenewRpcFails(c)
  BY <1>14 DEF RenewRpcFails, RenewalFailed, Ends
<1>15. CASE Return(c)
  BY <1>15 DEF Return, Leaves
<1>16. CASE Retry(c)
  BY <1>16 DEF Retry
<1>17. CASE BackoffOver(c)
  BY <1>17 DEF BackoffOver
<1>18. CASE BackoffAbandoned(c)
  BY <1>18 DEF BackoffAbandoned, Leaves
<1>19. ASSUME NEW r \in Request, Begin(c, r) PROVE Untouched(d)
  BY <1>19 DEF Begin
<1>20. QED
  BY <1>1, <1>2, <1>3, <1>4, <1>5, <1>6, <1>7, <1>8, <1>9, <1>10, <1>11, <1>12, <1>13, <1>14, <1>15, <1>16, <1>17, <1>18, <1>19 DEF Step

\* The invariant is kept by every step.
LEMMA StepInv == IInv /\ [Next]_vars => IInv'
<1> SUFFICES ASSUME IInv, [Next]_vars PROVE IInv'
  OBVIOUS
<1>1. TypeOK' /\ client' = client
  BY TypeStep, ClientKept
<1>2. ASSUME NEW c \in Caller, Step(c) \/ ContextDone(c) \/ \E r \in Request : Begin(c, r)
      PROVE  \A d \in Caller : Budget(d)' /\ Effect(d)' /\ Truth(d)'
  <2>1. Budget(c)' /\ Effect(c)' /\ Truth(c)'
    BY <1>1, <1>2, OwnStep DEF IInv
  <2>2. ASSUME NEW d \in Caller \ {c} PROVE Budget(d)' /\ Effect(d)' /\ Truth(d)'
    <3>1. Untouched(d)
      BY <1>2, OthersUntouched DEF IInv
    <3>2. QED
      BY <1>1, <3>1, UntouchedKept DEF IInv
  <2>3. QED
    BY <2>1, <2>2
<1>3. CASE Expire \/ UNCHANGED vars
  <2>1. \A d \in Caller : Untouched(d)
    BY <1>3 DEF Expire, vars, counts, Untouched
  <2>2. QED
    BY <1>1, <2>1, UntouchedKept DEF IInv
<1>4. QED
  BY <1>1, <1>2, <1>3 DEF Next, IInv

-----------------------------------------------------------------------------
(* The theorems.                                                           *)

\* The strengthened invariant holds in every reachable state.
THEOREM Inductive == Spec => []IInv
<1>1. Init => IInv
  BY InitInv
<1>2. IInv /\ [Next]_vars => IInv'
  BY StepInv
<1>3. QED
  BY <1>1, <1>2, PTL DEF Spec

\* The variables keep their types, error chains included.
THEOREM TypeCorrect == Spec => []TypeOK
<1>1. IInv => TypeOK
  BY DEF IInv
<1>2. QED
  BY <1>1, Inductive, PTL

\* One call has at most one effect, and is not told of its own as another's.
THEOREM OneEffect == Spec => []NoSecondEffect
<1>1. IInv => NoSecondEffect
  BY DEF IInv, NoSecondEffect, Effect
<1>2. QED
  BY <1>1, Inductive, PTL

\* The platform is asked at most as often as the policy allows.
THEOREM AttemptsAreBounded == Spec => []AttemptBudget
<1>1. IInv => AttemptBudget
  <2> SUFFICES ASSUME IInv, NEW c \in Caller
               PROVE  carried[c] <= IF client.Disabled THEN 1 ELSE attempts
    BY DEF AttemptBudget
  <2>1. /\ attempts \in Nat \ {0} /\ carried[c] \in Nat /\ left[c] \in Nat
        /\ pc[c] \in {"idle", "judged"} \/ Under(c)
    BY AttemptsType, Places DEF IInv, TypeOK
  <2>2. CASE client.Disabled
    BY <2>1, <2>2 DEF IInv, Budget, Replays
  <2>3. CASE ~ client.Disabled
    BY <2>1, <2>3 DEF IInv, Budget
  <2>4. QED
    BY <2>2, <2>3
<1>2. QED
  BY <1>1, Inductive, PTL

\* What IsTransient, Code and success tell the caller of a call is true of it.
THEOREM Truthful == Spec => []ErrorsTellTheTruth
<1>1. IInv => ErrorsTellTheTruth
  BY DEF IInv, ErrorsTellTheTruth, Truth, Returned, Under
<1>2. QED
  BY <1>1, Inductive, PTL
=============================================================================
