--------------------------- MODULE SessionRenewal ---------------------------
(***************************************************************************)
(* How the clients of one machine share a signed-in session and renew it.  *)
(*                                                                         *)
(* Each process holds a SessionSource: a copy of the stored session behind *)
(* a mutex (credentials/session_source.go).  Its callers run the bearer    *)
(* interceptor of client.go: present the access token, and when the        *)
(* platform refuses it, Renew and reissue the call once.  A renewal        *)
(* rotates: the platform mints a new pair and the refresh token presented  *)
(* is dead, so the replacement is written to the file the processes share. *)
(*                                                                         *)
(* The processes synchronise only through that file, which no lock covers. *)
(* The platform (which tokens it honours) is external to the repository.   *)
(* Sessions are numbered in the order the platform mints them.             *)
(***************************************************************************)
EXTENDS Naturals

CONSTANTS
  Proc,     \* processes, each with one SessionSource
  Caller,   \* goroutines making calls
  Home,     \* the process each caller runs in
  Origin,   \* where each process's session was resolved from
  Nobody,   \* the owner of a mutex that is free
  Answers,  \* the answers the platform may give to a refresh it honours
  Budget    \* how often each kind of fault may happen in a behaviour

Fault == {"expire", "rpc", "save", "crash", "login", "logout"}

ASSUME CallerAssumption == Home \in [Caller -> Proc] /\ Nobody \notin Caller
ASSUME OriginAssumption == Origin \in [Proc -> {"file", "explicit"}]
ASSUME AnswersAssumption == Answers \subseteq {"rotated", "accessOnly", "empty"}
ASSUME BudgetAssumption == Budget \in [Fault -> Nat]

VARIABLES
  issued,     \* how many credentials the platform has minted
  live,       \* refresh tokens the platform will rotate
  accepted,   \* access tokens the platform honours
  disk,       \* the session in the shared credentials file
  up,         \* processes that are running
  mem,        \* SessionSource.session of each process
  owner,      \* SessionSource.mu of each process
  pc,         \* where each caller is in the bearer interceptor
  presented,  \* the access token each caller last presented
  grant,      \* the reply to the renewal a caller is performing
  outcome,    \* how each caller's last call ended
  orphans,    \* refresh tokens of abandoned requests still on their way
  stranded,   \* refresh tokens spent for a replacement nobody can publish
  budget      \* what is left of Budget

platform == <<issued, live, accepted>>
calls    == <<pc, presented, grant, outcome>>
loose    == <<orphans, stranded>>
vars     == <<issued, live, accepted, disk, up, mem, owner, pc, presented,
              grant, outcome, orphans, stranded, budget>>

-----------------------------------------------------------------------------
(* A session is its two tokens; 0 is the empty string.  An absent or       *)
(* unreadable file reads as NoSession: adoptFromDisk treats a failed Load  *)
(* and a session without an access token alike.                            *)

NoToken   == 0
Session   == [at : Nat, rt : Nat]
NoSession == [at |-> NoToken, rt |-> NoToken]
Pair(n)   == [at |-> n, rt |-> n]

Label   == {"idle", "asking", "sent", "rejected", "renewing", "granted", "failed", "reissued"}
Outcome == {"none", "ok", "unauthenticated", "expired", "unsaved", "unavailable"}
Holding == {"renewing", "granted", "failed"}    \* inside Renew, past its early returns

\* What a program may supply as its own: the machine's session, or one that
\* has no refresh token.
Supplied == {Pair(1), [at |-> 1, rt |-> NoToken]}

Init ==
  /\ issued = 1 /\ live = {1} /\ accepted = {1}
  /\ disk = Pair(1) /\ up = Proc
  /\ mem \in [Proc -> Supplied]
  /\ \A p \in Proc : Origin[p] = "file" => mem[p] = disk
  /\ owner = [p \in Proc |-> Nobody]
  /\ pc = [c \in Caller |-> "idle"] /\ presented = [c \in Caller |-> NoToken]
  /\ grant = [c \in Caller |-> NoSession] /\ outcome = [c \in Caller |-> "none"]
  /\ orphans = {} /\ stranded = {}
  /\ budget = Budget

Spend(k) == budget[k] > 0 /\ budget' = [budget EXCEPT ![k] = @ - 1]
Goto(c, l) == pc' = [pc EXCEPT ![c] = l]
Return(c, o) == Goto(c, "idle") /\ outcome' = [outcome EXCEPT ![c] = o]

FreeUnguarded(p) == TRUE
Free(p) == owner[p] = Nobody
Lock(c)   == Free(Home[c]) /\ owner' = [owner EXCEPT ![Home[c]] = c]
Unlock(c) == owner' = [owner EXCEPT ![Home[c]] = Nobody]

-----------------------------------------------------------------------------
(* The bearer interceptor, up to the answer to the first attempt.          *)

Begin(c) ==
  /\ Home[c] \in up /\ pc[c] = "idle"
  /\ Goto(c, "asking") /\ outcome' = [outcome EXCEPT ![c] = "none"]
  /\ UNCHANGED <<platform, disk, up, mem, owner, presented, grant, loose, budget>>

\* What an RPC needs before it leaves: a token, which takes the mutex, unless
\* it is the renewal itself, which isRenewalCall lets through without one.
Departs(c) == pc[c] = "renewing" \/ Free(Home[c])

Token(c) ==
  /\ pc[c] = "asking" /\ Departs(c)
  /\ Goto(c, "sent") /\ presented' = [presented EXCEPT ![c] = mem[Home[c]].at]
  /\ UNCHANGED <<platform, disk, up, mem, owner, grant, outcome, loose, budget>>

Accept(c) ==
  /\ pc[c] \in {"sent", "reissued"} /\ presented[c] \in accepted
  /\ Return(c, "ok")
  /\ UNCHANGED <<platform, disk, up, mem, owner, presented, grant, loose, budget>>

Reject(c) ==
  /\ pc[c] = "sent" /\ presented[c] \notin accepted
  /\ Goto(c, "rejected")
  /\ UNCHANGED <<platform, disk, up, mem, owner, presented, grant, outcome, loose, budget>>

RejectAgain(c) ==
  /\ pc[c] = "reissued" /\ presented[c] \notin accepted
  /\ Return(c, "unauthenticated")
  /\ UNCHANGED <<platform, disk, up, mem, owner, presented, grant, loose, budget>>

CallFails(c) ==
  /\ pc[c] \in {"sent", "reissued"} /\ Spend("rpc")
  /\ Return(c, "unavailable")
  /\ UNCHANGED <<platform, disk, up, mem, owner, presented, grant, loose>>

-----------------------------------------------------------------------------
(* Renew(presented), up to the request that spends a rotation.             *)

MovedOnNever(p, tok) == FALSE
MovedOn(p, tok) == mem[p].at # NoToken /\ mem[p].at # tok

AdoptableNever(p, tok) == FALSE
Adoptable(p, tok) == Origin[p] = "file" /\ disk.at # NoToken /\ disk.at # tok

Reissue(c, s) == Goto(c, "reissued") /\ presented' = [presented EXCEPT ![c] = s.at]

RenewMovedOn(c) ==
  /\ pc[c] = "rejected" /\ Free(Home[c]) /\ MovedOn(Home[c], presented[c])
  /\ Reissue(c, mem[Home[c]])
  /\ UNCHANGED <<platform, disk, up, mem, owner, grant, outcome, loose, budget>>

RenewAdopts(c) ==
  /\ pc[c] = "rejected" /\ Free(Home[c])
  /\ ~ MovedOn(Home[c], presented[c]) /\ Adoptable(Home[c], presented[c])
  /\ mem' = [mem EXCEPT ![Home[c]] = disk]
  /\ Reissue(c, disk)
  /\ UNCHANGED <<platform, disk, up, owner, grant, outcome, loose, budget>>

MustRenew(c) ==
  /\ pc[c] = "rejected" /\ Free(Home[c])
  /\ ~ MovedOn(Home[c], presented[c]) /\ ~ Adoptable(Home[c], presented[c])

RenewImpossible(c) ==
  /\ MustRenew(c) /\ mem[Home[c]].rt = NoToken
  /\ Return(c, "expired")
  /\ UNCHANGED <<platform, disk, up, mem, owner, presented, grant, loose, budget>>

RenewSend(c) ==
  /\ MustRenew(c) /\ mem[Home[c]].rt # NoToken
  /\ Lock(c) /\ Goto(c, "renewing")
  /\ UNCHANGED <<platform, disk, up, mem, presented, grant, outcome, loose, budget>>

-----------------------------------------------------------------------------
(* The platform's RefreshToken, and what can become of the request.        *)

Mint == issued' = issued + 1 /\ accepted' = accepted \cup {issued + 1}
Rotated(rt) == live' = (live \ {rt}) \cup {issued + 1}

Spent(c) == mem[Home[c]].rt

\* A refresh token is stranded when it was rotated away and the replacement
\* will never be published.
Strand(rt) == stranded' = IF rt \in live THEN stranded ELSE stranded \cup {rt}

Rotate(c) ==
  /\ "rotated" \in Answers /\ pc[c] = "renewing" /\ Departs(c) /\ Spent(c) \in live
  /\ Mint /\ Rotated(Spent(c))
  /\ grant' = [grant EXCEPT ![c] = Pair(issued + 1)] /\ Goto(c, "granted")
  /\ stranded' = IF Origin[Home[c]] = "file" THEN stranded ELSE stranded \cup {Spent(c)}
  /\ UNCHANGED <<disk, up, mem, owner, presented, outcome, orphans, budget>>

AnswerAccessOnly(c) ==
  /\ "accessOnly" \in Answers /\ pc[c] = "renewing" /\ Departs(c) /\ Spent(c) \in live
  /\ Mint
  /\ grant' = [grant EXCEPT ![c] = [at |-> issued + 1, rt |-> NoToken]] /\ Goto(c, "granted")
  /\ UNCHANGED <<live, disk, up, mem, owner, presented, outcome, loose, budget>>

AnswerEmpty(c) ==
  /\ "empty" \in Answers /\ pc[c] = "renewing" /\ Departs(c) /\ Spent(c) \in live
  /\ grant' = [grant EXCEPT ![c] = NoSession] /\ Goto(c, "granted")
  /\ UNCHANGED <<platform, disk, up, mem, owner, presented, outcome, loose, budget>>

Refuse(c) ==
  /\ pc[c] = "renewing" /\ Departs(c) /\ Spent(c) \notin live
  /\ Goto(c, "failed")
  /\ UNCHANGED <<platform, disk, up, mem, owner, presented, grant, outcome, loose, budget>>

\* The transport fails or ctx is done: the request is lost, or still arrives.
RpcFails(c) ==
  /\ pc[c] = "renewing" /\ Spend("rpc")
  /\ \/ orphans' = orphans
     \/ orphans' = orphans \cup {Spent(c)}
  /\ Goto(c, "failed")
  /\ UNCHANGED <<platform, disk, up, mem, owner, presented, grant, outcome, stranded>>

\* The platform answered and the answer never reached the client.
ReplyLost(c) ==
  /\ pc[c] = "granted" /\ Spend("rpc")
  /\ Strand(Spent(c))
  /\ Goto(c, "failed")
  /\ UNCHANGED <<platform, disk, up, mem, owner, presented, grant, outcome, orphans>>

ServeOrphan(rt) ==
  /\ orphans' = orphans \ {rt}
  /\ IF rt \in live THEN Mint /\ Rotated(rt) /\ stranded' = stranded \cup {rt}
                    ELSE UNCHANGED <<issued, live, accepted, stranded>>
  /\ UNCHANGED <<disk, up, mem, owner, calls, budget>>

-----------------------------------------------------------------------------
(* Renew(presented), from the reply on; then the reissue.                  *)

MergedForgetful(s, g) == g
Merged(s, g) == [at |-> g.at, rt |-> IF g.rt = NoToken THEN s.rt ELSE g.rt]

BlankNever(c) == FALSE
Blank(c) == grant[c].at = NoToken

EmptyGrant(c) ==
  /\ pc[c] = "granted" /\ Blank(c)
  /\ Unlock(c) /\ Return(c, "expired")
  /\ UNCHANGED <<platform, disk, up, mem, presented, grant, loose, budget>>

PublishForgotten(c) ==
  /\ pc[c] = "granted" /\ ~ Blank(c) /\ Origin[Home[c]] = "file"
  /\ mem' = [mem EXCEPT ![Home[c]] = Merged(@, grant[c])] /\ disk' = disk
  /\ Unlock(c) /\ Reissue(c, grant[c])
  /\ UNCHANGED <<platform, up, grant, outcome, loose, budget>>

PublishStale(c) ==
  /\ pc[c] = "granted" /\ ~ Blank(c) /\ Origin[Home[c]] = "file"
  /\ mem' = [mem EXCEPT ![Home[c]] = Merged(@, grant[c])] /\ disk' = mem[Home[c]]
  /\ Unlock(c) /\ Reissue(c, grant[c])
  /\ UNCHANGED <<platform, up, grant, outcome, loose, budget>>

Publish(c) ==
  /\ pc[c] = "granted" /\ ~ Blank(c) /\ Origin[Home[c]] = "file"
  /\ mem' = [mem EXCEPT ![Home[c]] = Merged(@, grant[c])]
  /\ disk' = Merged(mem[Home[c]], grant[c])
  /\ Unlock(c) /\ Reissue(c, grant[c])
  /\ UNCHANGED <<platform, up, grant, outcome, loose, budget>>

\* Save failed: the error is returned, and the new session stays in memory.
PublishFails(c) ==
  /\ pc[c] = "granted" /\ ~ Blank(c) /\ Origin[Home[c]] = "file"
  /\ Spend("save")
  /\ mem' = [mem EXCEPT ![Home[c]] = Merged(@, grant[c])]
  /\ Strand(Spent(c))
  /\ Unlock(c) /\ Return(c, "unsaved")
  /\ UNCHANGED <<platform, disk, up, presented, grant, orphans>>

KeepPrivate(c) ==
  /\ pc[c] = "granted" /\ ~ Blank(c) /\ Origin[Home[c]] # "file"
  /\ mem' = [mem EXCEPT ![Home[c]] = Merged(@, grant[c])]
  /\ Unlock(c) /\ Reissue(c, grant[c])
  /\ UNCHANGED <<platform, disk, up, grant, outcome, loose, budget>>

FailureAdopts(c) ==
  /\ pc[c] = "failed" /\ Adoptable(Home[c], presented[c])
  /\ mem' = [mem EXCEPT ![Home[c]] = disk]
  /\ Unlock(c) /\ Reissue(c, disk)
  /\ UNCHANGED <<platform, disk, up, grant, outcome, loose, budget>>

FailureKeepsLock(c) ==
  /\ pc[c] = "failed" /\ ~ Adoptable(Home[c], presented[c])
  /\ Return(c, "expired")
  /\ UNCHANGED <<platform, disk, up, mem, owner, presented, grant, loose, budget>>

FailureIsFinal(c) ==
  /\ pc[c] = "failed" /\ ~ Adoptable(Home[c], presented[c])
  /\ Unlock(c) /\ Return(c, "expired")
  /\ UNCHANGED <<platform, disk, up, mem, presented, grant, loose, budget>>

-----------------------------------------------------------------------------
(* The environment: expiry, crashes, and `jnh login` and `jnh logout`.     *)

Expire(tok) ==
  /\ Spend("expire") /\ accepted' = accepted \ {tok}
  /\ UNCHANGED <<issued, live, disk, up, mem, owner, calls, loose>>

At(p, l) == \E c \in Caller : Home[c] = p /\ pc[c] = l

Crash(p) ==
  /\ Spend("crash") /\ up' = up \ {p}
  /\ mem' = [mem EXCEPT ![p] = NoSession] /\ owner' = [owner EXCEPT ![p] = Nobody]
  /\ pc' = [c \in Caller |-> IF Home[c] = p THEN "idle" ELSE pc[c]]
  /\ outcome' = [c \in Caller |-> IF Home[c] = p THEN "none" ELSE outcome[c]]
  /\ \/ orphans' = orphans
     \/ At(p, "renewing") /\ orphans' = orphans \cup {mem[p].rt}
  /\ IF At(p, "granted") THEN Strand(mem[p].rt) ELSE UNCHANGED stranded
  /\ UNCHANGED <<platform, disk, presented, grant>>

\* NewClient takes a session the program supplies as it is.  Otherwise it reads
\* the file again, and refuses one without an access token, or past its ExpiresAt
\* and not renewable; whether a session is past it is for the local clock to say,
\* so there this step may just fail.
Restart(p) ==
  /\ up' = up \cup {p}
  /\ \/ Origin[p] = "file" /\ disk.at # NoToken /\ mem' = [mem EXCEPT ![p] = disk]
     \/ Origin[p] # "file" /\ \E s \in Supplied : mem' = [mem EXCEPT ![p] = s]
  /\ UNCHANGED <<platform, disk, owner, calls, loose, budget>>

Login(renewable) ==
  /\ Spend("login") /\ Mint
  /\ live' = IF renewable THEN live \cup {issued + 1} ELSE live
  /\ disk' = [at |-> issued + 1, rt |-> IF renewable THEN issued + 1 ELSE NoToken]
  /\ UNCHANGED <<up, mem, owner, calls, loose>>

Logout ==
  /\ disk.at # NoToken /\ Spend("logout")
  /\ live' = live \ {disk.rt} /\ disk' = NoSession
  /\ UNCHANGED <<issued, accepted, up, mem, owner, calls, loose>>

-----------------------------------------------------------------------------
Interceptor(c) ==
  \/ Begin(c) \/ Token(c)
  \/ Accept(c) \/ Reject(c) \/ RejectAgain(c) \/ CallFails(c)

Renewal(c) ==
  \/ RenewMovedOn(c) \/ RenewAdopts(c) \/ RenewImpossible(c) \/ RenewSend(c)
  \/ EmptyGrant(c) \/ Publish(c) \/ PublishFails(c) \/ KeepPrivate(c)
  \/ FailureAdopts(c) \/ FailureIsFinal(c)

Platform(c) ==
  \/ Rotate(c) \/ AnswerAccessOnly(c) \/ AnswerEmpty(c) \/ Refuse(c)
  \/ RpcFails(c) \/ ReplyLost(c)

Environment ==
  \/ \E rt \in orphans : ServeOrphan(rt)
  \/ \E tok \in accepted : Expire(tok)
  \/ \E p \in up : Crash(p)
  \/ \E p \in Proc \ up : Restart(p)
  \/ \E renewable \in BOOLEAN : Login(renewable)
  \/ Logout

Next ==
  \/ \E c \in Caller : Interceptor(c) \/ Renewal(c) \/ Platform(c)
  \/ Environment

Spec == Init /\ [][Next]_vars

(* What the client's scheduling guarantees.  A sync.Mutex hands the lock   *)
(* to a waiter that has waited long enough, so taking it is strongly fair; *)
(* local code runs on; a unary RPC is answered or fails.                   *)
Answered(c)  == Accept(c) \/ Reject(c) \/ RejectAgain(c)
Renewed(c)   == Rotate(c) \/ AnswerAccessOnly(c) \/ AnswerEmpty(c) \/ Refuse(c)
TakesLock(c) == RenewMovedOn(c) \/ RenewAdopts(c) \/ RenewImpossible(c) \/ RenewSend(c)
Finishes(c)  == EmptyGrant(c) \/ Publish(c) \/ KeepPrivate(c) \/ FailureAdopts(c) \/ FailureIsFinal(c)

Progress(c) ==
  /\ SF_vars(Token(c)) /\ SF_vars(TakesLock(c))
  /\ WF_vars(Answered(c)) /\ WF_vars(Renewed(c)) /\ WF_vars(Finishes(c))

FairSpec == Spec /\ \A c \in Caller : Progress(c)
\* Callers that keep calling, for as long as their process runs.
BusySpec == FairSpec /\ \A c \in Caller : WF_vars(Begin(c))

-----------------------------------------------------------------------------
(* Properties.                                                             *)

\* The state has its types, and a process that runs always has an access token to
\* present: NewClient and Renew refuse a session without one.
TypeOK ==
  /\ issued \in Nat \ {0} /\ live \subseteq Nat /\ accepted \subseteq Nat
  /\ disk \in Session /\ up \subseteq Proc
  /\ mem \in [Proc -> Session] /\ \A p \in up : mem[p].at # NoToken
  /\ owner \in [Proc -> Caller \cup {Nobody}]
  /\ pc \in [Caller -> Label] /\ presented \in [Caller -> Nat]
  /\ grant \in [Caller -> Session] /\ outcome \in [Caller -> Outcome]
  /\ orphans \subseteq Nat /\ stranded \subseteq Nat
  /\ budget \in [Fault -> Nat]

\* Renewals of one process are single-flight (SessionSource, "a lock that let
\* each of them renew independently would spend a rotation per call").
SingleFlight ==
  \A c, d \in Caller :
    pc[c] \in Holding /\ pc[d] \in Holding /\ Home[c] = Home[d] => c = d

\* Renew spends a rotation only for a session whose access token the platform
\* refuses, and so does a request that outlived its caller.
SpendsOnlySpentSessions ==
  /\ \A c \in Caller : pc[c] \in Holding => mem[Home[c]].at \notin accepted
  /\ \A rt \in orphans : rt \notin accepted

\* Publish before relying on it: the refresh token in the shared file is one
\* the platform will rotate, unless the replacement is on its way to the file
\* or was lost by a failure (a write, a reply, a crash) or kept private.
InFlight(rt) ==
  \E c \in Caller :
    /\ pc[c] = "granted" /\ Origin[Home[c]] = "file" /\ Spent(c) = rt
    /\ grant[c].rt \in live
DiskRenewable ==
  disk.rt # NoToken /\ disk.rt \notin live => disk.rt \in stranded \/ InFlight(disk.rt)

\* The inductive invariant behind them, for a platform that always rotates.
\* Who holds the mutex is renewing, running and alone; nothing refers to a
\* session not yet minted; a rejected token is refused for good; a grant that
\* has not been published is known to nobody else.
LockInv == \A c \in Caller : pc[c] \in Holding => owner[Home[c]] = c
OwnerInv ==
  \A p \in Proc : owner[p] # Nobody =>
    \E c \in Caller : owner[p] = c /\ Home[c] = p /\ pc[c] \in Holding
UpInv   == \A c \in Caller : pc[c] # "idle" => Home[c] \in up

Known(s) == s.at <= issued /\ s.rt \in {NoToken, s.at}
KnownInv ==
  /\ Known(disk) /\ \A p \in Proc : Known(mem[p])
  /\ \A c \in Caller : grant[c].at <= issued /\ grant[c].rt = grant[c].at
  /\ \A c \in Caller : presented[c] <= issued
MintedInv ==
  /\ \A n \in live : 0 < n /\ n <= issued
  /\ \A n \in accepted : 0 < n /\ n <= issued
  /\ \A n \in orphans : n <= issued

RejectedInv == \A c \in Caller : pc[c] = "rejected" => presented[c] \notin accepted

HasGrant(c) == pc[c] = "granted" /\ grant[c].at # NoToken
FreshInv ==
  \A c \in Caller : HasGrant(c) =>
    /\ grant[c].rt \in live /\ grant[c].rt # disk.rt /\ grant[c].rt \notin orphans
    /\ \A p \in Proc : mem[p].rt # grant[c].rt
    /\ \A d \in Caller : HasGrant(d) /\ d # c => grant[d].rt # grant[c].rt

\* A grant is newer than what its process holds. Until a save fails or somebody
\* logs in or out, the sessions of the file form one line: its processes are on it
\* or behind it, only its end can be renewed, and at most one caller
\* holds a grant to publish, for which it has spent that end.
Undisturbed == \A k \in {"save", "login", "logout"} : budget[k] = Budget[k]
BudgetInv == \A k \in Fault : budget[k] <= Budget[k]
AheadInv  == \A c \in Caller : HasGrant(c) => mem[Home[c]].at < grant[c].at
OrderInv ==
  Undisturbed =>
    /\ \A p \in Proc : Origin[p] = "file" =>
         mem[p].at <= disk.at /\ (mem[p].rt \in live => mem[p].rt = disk.rt)
    /\ \A c \in Caller : HasGrant(c) /\ Origin[Home[c]] = "file" =>
         /\ disk.at < grant[c].at /\ disk.rt \notin live
         /\ \A d \in Caller : HasGrant(d) /\ Origin[Home[d]] = "file" => d = c

IInv ==
  /\ TypeOK /\ LockInv /\ OwnerInv /\ UpInv /\ KnownInv /\ MintedInv
  /\ RejectedInv /\ SpendsOnlySpentSessions /\ FreshInv /\ DiskRenewable
  /\ BudgetInv /\ AheadInv /\ OrderInv

\* A process whose session could be renewed keeps one that can when the platform
\* answers a renewal without a new refresh token: only a session stored by
\* somebody else, and adopted as it is, takes the means away.
KeepsRenewable ==
  [][\A p \in up \cap up' : mem[p].rt # NoToken /\ mem'[p].rt = NoToken => mem'[p] = disk]_vars

\* Renew asks the platform only when nobody has a better session to offer:
\* neither this process nor, at that moment, the file.
RotatesOnlyAsLastResort ==
  [][\A c \in Caller : pc[c] = "rejected" /\ pc'[c] = "renewing" =>
       /\ mem[Home[c]].at \notin accepted
       /\ Origin[Home[c]] = "file" => disk.at \notin accepted]_vars

\* As long as no save has failed and nobody has logged in or out, no step takes
\* the shared file or a running process back to a session older than the one it
\* holds: concurrent renewals are never applied out of order.
NeverStepsBack ==
  [][Undisturbed' =>
       /\ disk'.at >= disk.at
       /\ \A p \in up \cap up' : mem'[p].at >= mem[p].at]_vars

\* Every call comes back: no caller waits for ever, on the platform, on the
\* mutex, or on a renewal that waits for itself.
CallReturns == \A c \in Caller : pc[c] # "idle" ~> pc[c] = "idle"

\* While nothing fails, every caller keeps getting answers, however often the
\* access token expires and whoever renews it.
Heals == \A c \in Caller : []<>(pc[c] = "idle" /\ outcome[c] = "ok")

\* While nothing fails but tokens expiring, the processes of a machine keep the
\* promise of SessionLineage: every rotation is published before the next one.
Lineage == INSTANCE SessionLineage
             WITH current <- issued, published <- disk.at, view <- [p \in Proc |-> mem[p].at]
ImplementsLineage == Lineage!FairSpec

-----------------------------------------------------------------------------
(* What the repository says of itself, and the runs refute.                *)

\* session_source.go, on reading the file before renewing: "This also picks up
\* the freshest refresh token, which is the only one a rotation will accept."
AdoptsFreshest ==
  [][\A c \in Caller : pc[c] = "rejected" /\ pc'[c] = "reissued" =>
       (Spent(c) \in live => Spent(c)' \in live)]_vars
=============================================================================
