---------------------------- MODULE CallPipeline ----------------------------
(***************************************************************************)
(* One unary call on its way to the platform and back, through the two     *)
(* interceptors NewClient chains: the transport retry (retry.go) outside,  *)
(* the bearer interceptor (client.go) inside it.  An attempt of the outer  *)
(* one is a pass of the inner one: present a credential, and when it is    *)
(* refused renew it and reissue the request once.                          *)
(*                                                                         *)
(* The credential is a Source, whose Renew is one step here (its own steps *)
(* are SessionRenewal's).  Errors are chains of wrapped errors, because    *)
(* what the retry and the caller make of one depends on what it wraps.     *)
(* What a request does when it reaches the platform is external: retry.go  *)
(* says what each kind of write does when it is repeated.                  *)
(***************************************************************************)
EXTENDS Naturals, Sequences

CONSTANTS
  Caller,    \* goroutines making calls on one Client
  Requests,  \* the requests each of them makes
  Clients,   \* how the Client may be configured: its Source, whether what that
             \* holds is honoured at first, and its RetryPolicy
  Expiries   \* how many credentials may stop being honoured

ASSUME ClientsAssumption ==
  Clients \subseteq [source : {"session", "unrenewable", "key"},
                     valid : BOOLEAN, MaxAttempts : Nat, Disabled : BOOLEAN]
ASSUME ExpiriesAssumption == Expiries \in Nat

VARIABLES
  client,     \* the Client's configuration
  token,      \* the credential the Source holds (they are numbered)
  accepted,   \* credentials the platform honours
  rotatable,  \* whether the platform would honour the Source's refresh token
  expiries,   \* what is left of Expiries
  pc, req, cred,  \* each call's place, its request, the credential presented
  err,        \* the error its last attempt ended with; <<>> is nil
  left,       \* cappedRetryer.left
  done,       \* whether the caller's context is done
  carried,    \* requests of the call not refused for their credential
  effects     \* effects the call has had on the platform

source == <<client, token, accepted, rotatable, expiries>>
counts == <<carried, effects>>
vars   == <<client, token, accepted, rotatable, expiries, pc, req, cred, err, left, done,
            carried, effects>>

Label == {"idle", "attempt", "sent", "refused", "reissued", "judged", "backoff"}

\* The counters stop where no property can tell the difference.
Upto(n, bound) == IF n < bound THEN n + 1 ELSE bound

-----------------------------------------------------------------------------
(* Errors (errors.go).  A chain lists an error and what it wraps in the    *)
(* order errors.As visits them; "context" is the bare ctx.Err().           *)

Status   == {"unavailable", "unauthenticated", "deadlineExceeded", "alreadyExists", "denied"}
Sentinel == {"expired", "keyRefused", "unsaved", "context"}

Statuses(e) == {i \in DOMAIN e : e[i] \in Status}
StatusCode(e) ==
  CASE e = <<>> -> "ok"
    [] e # <<>> /\ Statuses(e) = {} -> "unknown"
    [] OTHER -> e[CHOOSE i \in Statuses(e) : \A j \in Statuses(e) : i <= j]

Wraps(e, link) == \E i \in DOMAIN e : e[i] = link
Code(e) == IF Wraps(e, "context") THEN "deadlineExceeded" ELSE StatusCode(e)

retryableCodes == {"unavailable"}
IsTransient(e) == StatusCode(e) \in retryableCodes

-----------------------------------------------------------------------------
(* Which calls may be replayed.  One method stands for the reads, one for  *)
(* the four writes that carry a key and one for those never replayed.      *)

replayableReads   == {"GetAgent"}
conditionalReplay == {"CommitMemory", "CommitData"}
neverReplay       == {"DeleteAgent"}

\* A request, with what safeToReplay reads of it: its log section and its key.
Request == [method : replayableReads \cup neverReplay, log : {FALSE}, key : {FALSE}]
      \cup [method : {"CommitMemory"}, log : BOOLEAN, key : {FALSE}]
      \cup [method : {"CommitData"}, log : {FALSE}, key : BOOLEAN]

ASSUME RequestsAssumption == Requests \in [Caller -> SUBSET Request]

SafeByMethod(r) == r.method \in replayableReads \cup conditionalReplay
SafeToReplay(r) ==
  \/ r.method \in replayableReads
  \/ r.method = "CommitMemory" /\ ~ r.log
  \/ r.method = "CommitData" /\ r.key

attempts == IF client.MaxAttempts > 0 THEN client.MaxAttempts ELSE 3
ReplaysAnyway(r) == attempts >= 2 /\ SafeToReplay(r)
Replays(r) == ~ client.Disabled /\ attempts >= 2 /\ SafeToReplay(r)

\* gax's OnCodes reads the code of the whole chain, as status.Code does.
OnCodesOutermost(e) == e # <<>> /\ Head(e) \in retryableCodes
OnCodes(e) == StatusCode(e) \in retryableCodes

-----------------------------------------------------------------------------
Init ==
  /\ client \in Clients
  /\ token = 1 /\ accepted = (IF client.valid THEN {1} ELSE {}) /\ rotatable = (client.source = "session")
  /\ expiries = Expiries
  /\ pc = [c \in Caller |-> "idle"] /\ req = [c \in Caller |-> CHOOSE r \in Request : r.method = "GetAgent"]
  /\ cred = [c \in Caller |-> 0] /\ err = [c \in Caller |-> <<>>]
  /\ left = [c \in Caller |-> 0] /\ done = [c \in Caller |-> FALSE]
  /\ carried = [c \in Caller |-> 0] /\ effects = [c \in Caller |-> 0]

Goto(c, l) == pc' = [pc EXCEPT ![c] = l]
Ends(c, e) == Goto(c, "judged") /\ err' = [err EXCEPT ![c] = e]
Carries(c) == carried' = [carried EXCEPT ![c] = Upto(@, attempts + 1)]

Begin(c, r) ==
  /\ pc[c] = "idle" /\ r \in Requests[c] /\ Goto(c, "attempt")
  /\ req' = [req EXCEPT ![c] = r] /\ err' = [err EXCEPT ![c] = <<>>]
  /\ left' = [left EXCEPT ![c] = attempts - 1] /\ effects' = [effects EXCEPT ![c] = 0]
  /\ UNCHANGED <<source, cred, done, carried>>

\* The caller cancels, or its deadline passes.
ContextDone(c) ==
  /\ pc[c] # "idle" /\ ~ done[c] /\ done' = [done EXCEPT ![c] = TRUE]
  /\ UNCHANGED <<source, pc, req, cred, err, left, counts>>

-----------------------------------------------------------------------------
(* The bearer interceptor.                                                 *)

Present(c) ==
  /\ pc[c] = "attempt" /\ Goto(c, "sent") /\ cred' = [cred EXCEPT ![c] = token]
  /\ UNCHANGED <<source, req, err, left, done, counts>>

InFlight(c) == pc[c] \in {"sent", "reissued"}

Reached(c) == InFlight(c) /\ cred[c] \in accepted /\ Carries(c)
Repeated(c) == effects[c] > 0
\* Reads, idempotent upserts, and writes whose key finds the first receipt.
Converges(c) ==
  \/ req[c].method = "GetAgent"
  \/ Repeated(c) /\ (req[c].key \/ (req[c].method = "CommitMemory" /\ ~ req[c].log))
\* Execution-log steps are append-only.
Collides(c) == Repeated(c) /\ req[c].log

AnswerAgain(c) ==
  /\ Reached(c) /\ (Converges(c) \/ Collides(c))
  /\ Ends(c, IF Collides(c) THEN <<"alreadyExists">> ELSE <<>>)
  /\ UNCHANGED <<source, req, cred, left, done, effects>>

\* The write is applied; its answer arrives, or is lost.
Apply(c) ==
  /\ Reached(c) /\ ~ Converges(c) /\ ~ Collides(c)
  /\ effects' = [effects EXCEPT ![c] = Upto(@, 2)]
  /\ \E e \in {<<>>, <<"unavailable">>} : Ends(c, e)
  /\ UNCHANGED <<source, req, cred, left, done>>

Deny(c) ==
  /\ Reached(c) /\ Ends(c, <<"denied">>)
  /\ UNCHANGED <<source, req, cred, left, done, effects>>

TransportFails(c) ==
  /\ InFlight(c) /\ Carries(c)
  /\ Ends(c, IF done[c] THEN <<"deadlineExceeded">> ELSE <<"unavailable">>)
  /\ UNCHANGED <<source, req, cred, left, done, effects>>

Refuse(c) ==
  /\ pc[c] = "sent" /\ cred[c] \notin accepted /\ Goto(c, "refused")
  /\ UNCHANGED <<source, req, cred, err, left, done, counts>>

\* "Exactly once": a second rejection goes to the caller as it is.
RefuseAgain(c) ==
  /\ pc[c] = "reissued" /\ cred[c] \notin accepted /\ Ends(c, <<"unauthenticated">>)
  /\ UNCHANGED <<source, req, cred, left, done, counts>>

-----------------------------------------------------------------------------
(* Source.Renew, and the reissue or the error that follows.                *)

Reissue(c, t) == Goto(c, "reissued") /\ cred' = [cred EXCEPT ![c] = t]

Joined(rerr, e) == rerr \o e
RenewalFailed(c, rerr) == Ends(c, Joined(rerr, <<"unauthenticated">>)) /\ UNCHANGED cred

OwnToken(c) == pc[c] = "refused" /\ client.source = "session" /\ cred[c] = token

RenewStatic(c) ==
  /\ pc[c] = "refused" /\ client.source # "session"
  /\ RenewalFailed(c, IF client.source = "key" THEN <<"keyRefused">> ELSE <<"expired">>)
  /\ UNCHANGED <<source, req, left, done, counts>>

RenewedAlready(c) ==
  /\ pc[c] = "refused" /\ client.source = "session" /\ cred[c] # token
  /\ Reissue(c, token)
  /\ UNCHANGED <<source, req, err, left, done, counts>>

Rotated == token' = token + 1 /\ accepted' = accepted \cup {token + 1}

Renew(c) ==
  /\ OwnToken(c) /\ rotatable /\ Rotated
  /\ Reissue(c, token + 1)
  /\ UNCHANGED <<client, rotatable, expiries, req, err, left, done, carried, effects>>

\* Rotated, but the new session could not be saved: Save's own error.
RenewUnsaved(c) ==
  /\ OwnToken(c) /\ rotatable /\ Rotated
  /\ RenewalFailed(c, <<"unsaved">>)
  /\ UNCHANGED <<client, rotatable, expiries, req, left, done, carried, effects>>

RenewRefused(c) ==
  /\ OwnToken(c) /\ ~ rotatable
  /\ RenewalFailed(c, <<"expired", "unauthenticated">>)
  /\ UNCHANGED <<source, req, left, done, carried, effects>>

\* The refresh RPC fails; the platform may have rotated all the same.
RenewRpcFails(c) ==
  /\ OwnToken(c)
  /\ RenewalFailed(c, <<"expired", IF done[c] THEN "deadlineExceeded" ELSE "unavailable">>)
  /\ rotatable' \in {FALSE, rotatable}
  /\ UNCHANGED <<client, token, accepted, expiries, req, left, done, carried, effects>>

-----------------------------------------------------------------------------
(* The retry interceptor: gax.Invoke around the attempts.                  *)

\* The call is over; its error, request and effects stay for its caller to see.
Leaves(c) ==
  /\ Goto(c, "idle") /\ cred' = [cred EXCEPT ![c] = 0] /\ done' = [done EXCEPT ![c] = FALSE]
  /\ carried' = [carried EXCEPT ![c] = 0]
  /\ UNCHANGED <<source, req, left, effects>>

Return(c) ==
  /\ pc[c] = "judged"
  /\ err[c] = <<>> \/ ~ Replays(req[c]) \/ left[c] = 0 \/ ~ OnCodes(err[c])
  /\ Leaves(c) /\ UNCHANGED err

RetryUncapped(c) ==
  /\ pc[c] = "judged" /\ Replays(req[c]) /\ OnCodes(err[c])
  /\ Goto(c, "backoff") /\ left' = [left EXCEPT ![c] = @ - 1]
  /\ UNCHANGED <<source, req, cred, err, done, counts>>

Retry(c) ==
  /\ pc[c] = "judged" /\ Replays(req[c]) /\ left[c] > 0 /\ OnCodes(err[c])
  /\ Goto(c, "backoff") /\ left' = [left EXCEPT ![c] = @ - 1]
  /\ UNCHANGED <<source, req, cred, err, done, counts>>

BackoffUntilDone(c) ==
  /\ pc[c] = "backoff" /\ done[c] /\ Goto(c, "attempt")
  /\ UNCHANGED <<source, req, cred, err, left, done, counts>>

\* The timer and the context may both be ready: either wins.
BackoffOver(c) ==
  /\ pc[c] = "backoff" /\ Goto(c, "attempt")
  /\ UNCHANGED <<source, req, cred, err, left, done, counts>>

BackoffAbandoned(c) ==
  /\ pc[c] = "backoff" /\ done[c]
  /\ Leaves(c) /\ err' = [err EXCEPT ![c] = <<"context">>]

-----------------------------------------------------------------------------
Expire ==
  /\ expiries > 0 /\ expiries' = expiries - 1
  /\ \E t \in accepted : accepted' = accepted \ {t}
  /\ UNCHANGED <<client, token, rotatable, pc, req, cred, err, left, done, counts>>

Step(c) ==
  \/ Present(c) \/ AnswerAgain(c) \/ Apply(c)
  \/ Deny(c) \/ TransportFails(c) \/ Refuse(c) \/ RefuseAgain(c)
  \/ RenewStatic(c) \/ RenewedAlready(c) \/ Renew(c) \/ RenewUnsaved(c)
  \/ RenewRefused(c) \/ RenewRpcFails(c)
  \/ Return(c) \/ Retry(c) \/ BackoffOver(c) \/ BackoffAbandoned(c)

Next ==
  \/ \E c \in Caller : Step(c) \/ ContextDone(c) \/ \E r \in Request : Begin(c, r)
  \/ Expire

Spec == Init /\ [][Next]_vars
\* Local code runs on, timers fire, and an RPC is answered or fails.
FairSpec == Spec /\ \A c \in Caller : WF_vars(Step(c))

-----------------------------------------------------------------------------
TypeOK ==
  /\ client \in Clients
  /\ token \in Nat /\ accepted \subseteq Nat /\ rotatable \in BOOLEAN /\ expiries \in Nat
  /\ pc \in [Caller -> Label] /\ req \in [Caller -> Request] /\ cred \in [Caller -> Nat]
  /\ err \in [Caller -> Seq(Status \cup Sentinel)]
  /\ left \in [Caller -> Nat] /\ done \in [Caller -> BOOLEAN]
  /\ carried \in [Caller -> Nat] /\ effects \in [Caller -> Nat]

Returned(c) == pc[c] = "idle"

\* However many attempts and reissues a call takes, it has one effect, and it
\* never meets its own: no caller is told AlreadyExists of what it just wrote
\* (safeToReplay: "only when replaying one cannot produce a second effect").
NoSecondEffect ==
  \A c \in Caller : effects[c] <= 1 /\ Code(err[c]) # "alreadyExists"

\* RetryPolicy.MaxAttempts bounds what the platform is asked to do, though
\* every attempt may be refused and reissued along the way; Disabled leaves one.
AttemptBudget == \A c \in Caller : carried[c] <= IF client.Disabled THEN 1 ELSE attempts

\* keyRefused of an API key, ErrSessionExpired of a session.
Unrenewed(e) == Wraps(e, "keyRefused") \/ Wraps(e, "expired")

\* What a caller may conclude from an error.  IsTransient: the retries were
\* used up, disabled, or unsafe.  IsUnauthenticated, on a write that is never
\* replayed: the write has not happened.  Success: it has.  A credential that
\* cannot be renewed, an API key or a session without a refresh token: Code is the
\* rejection's, whatever the error says besides.
ErrorsTellTheTruth ==
  \A c \in Caller : Returned(c) =>
    /\ IsTransient(err[c]) => ~ Replays(req[c]) \/ left[c] = 0
    /\ Code(err[c]) = "unauthenticated" /\ ~ SafeToReplay(req[c]) => effects[c] = 0
    /\ err[c] = <<>> /\ req[c].method # "GetAgent" => effects[c] = 1
    /\ client.source # "session" /\ Unrenewed(err[c]) => Code(err[c]) = "unauthenticated"

\* A call on a context without deadline returns, though the endpoint may stay
\* unreachable for ever ("an uncapped loop ... would then never return").
CallReturns == \A c \in Caller : pc[c] # "idle" ~> Returned(c)

\* client.go, on joining the renewal's error with the rejection: "the original
\* status keeps Code and IsUnauthenticated working".  It does for an API key; the
\* status of a failed refresh comes first in the chain, and Code reports that.
RejectionKeepsItsCode ==
  \A c \in Caller :
    pc[c] = "judged" /\ err[c] # <<>> =>
      (Head(err[c]) \in Sentinel => Code(err[c]) = "unauthenticated")
=============================================================================
