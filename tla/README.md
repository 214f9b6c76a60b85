# A TLA+ model of the jennah Go SDK

Specifications, model-checking configurations and machine-checked proofs kept
beside the SDK (package `jennah` and `jennah/credentials`). Paths below are
relative to the repository's source root.

## The system

| Part | State it keeps | Operations | What is hard about it |
|---|---|---|---|
| Session source (`credentials/session_source.go`) | the session in memory, a mutex, a renewer | `Token`, `Renew`, `SetRenewer` | many callers rejected at once; several processes over one file; a rotation that happened although nobody got the answer |
| Stored session (`credentials/session.go`) | the credentials file | `Load`, `Save`, `Delete` | concurrent writers without a lock, failing steps, dying processes, loss of power |
| Credential resolution (`credentials/resolve.go`, `client.go` `resolveSource`) | the client's `Source` | `NewClient`, `Resolve`, `Static` | order of the sources; an expired session that can or cannot be renewed; people logging in and out under a running client |
| Bearer interceptor (`client.go`) | none of its own | one pass per attempt: `Token`, send, `Renew`, reissue once | the renewal is itself an RPC through the interceptor; the errors are joined |
| Transport retry (`retry.go`) | attempts left, per call | `safeToReplay`, `retryInterceptor`, `cappedRetryer` | replaying a write whose answer was lost; it surrounds the renewal |
| Error helpers (`errors.go`) | none | `Code`, `Is...` | wrapped and joined errors, bare context errors |
| Waiting for approvals (`approval.go`) | the last pending approval | `WaitUntilDecided` | stale answers, deadlines in the middle of a poll, hot spin |
| Paging (`paging.go`) | a cursor per walk | the `All` iterators | empty pages, breaks, errors, a request shared by walks |
| Dataset handles (`dataset.go`) | an id | `Get`, `Destroy`, `Declare`, `Commit`, `Query` | the id is written into the caller's request, which retries and reissues send again and the program keeps |
| Session calls (`auth.go`) | none | `Session.Refresh`, `Session.Logout` | they carry a refresh token of their own through the bearer interceptor |
| Other wrappers (`agent.go`, `platform.go`, the rest of `auth.go`) | an id | build a request, call a stub | nothing of their own |
| Generated code (`jennah/**`), `types.go`, `doc.go` | none | stubs and names | not modelled |

How they interact: a call goes through the retry interceptor, then the bearer
interceptor, then gRPC. The bearer interceptor asks the source for a token and,
on UNAUTHENTICATED, for a renewal; the source's renewer sends `RefreshToken`
through the same connection, marked so that the bearer interceptor lets it
pass. Processes (the SDK's clients and the `jnh` command line) share nothing but
the credentials file.

What makes each part correct:

- source: renewals of a process are single-flight; a rotation is spent only when
  nobody has a better session; a rotation is published before anybody relies on
  it; nobody moves back to an older session; every call comes back;
- file: readers see whole sessions, storage never names half of one, a failed
  save leaves nothing behind, and all of it together is one atomic register;
- resolution: a program speaks as what it was given; a session is one person's;
  construction is refused only to a program that could not make a call; a login
  reaches the clients that run;
- dataset handles: what a handle sends goes to its dataset; commits add up; neither
  holds for a request that handles of two datasets share at once;
- retry: a call has at most one effect and never collides with its own; attempts
  are bounded; the error the caller reads says what happened;
- wait: only a decision is returned as one; the caller's deadline is the
  caller's; a decision or a deadline ends the wait; no hot spin;
- paging: the listing, in order, once, whoever else walks.

## The modules

| Module | Models | Composes |
|---|---|---|
| `SessionRenewal` | session source + bearer interceptor + the shared file as one cell + the platform's tokens | implements `SessionLineage` |
| `SessionLineage` | what sharing promises while nothing fails | abstract |
| `SessionFile` | `saveTo`, `loadFrom`, `deleteAt` over files, a page cache and storage | implements `AtomicSession` |
| `AtomicSession` | the register that `SessionRenewal` takes the file for | abstract |
| `ClientCredentials` | resolution, sources and their renewals, session calls, logins and logouts, with people and keys told apart | |
| `DatasetRequests` | dataset handles over kept requests, retries and reissues | |
| `CallPipeline` | transport retry around bearer interceptor around a `Source`; errors as chains | |
| `ApprovalWait` | `WaitUntilDecided` | |
| `Paging` | `pageAll` and its callers | |
| `..._proofs` | theorems about each of these modules; `SessionLineage_proofs` shows that `SessionRenewal` implements `SessionLineage` | |
| `MC...` | the instances TLC checks | |

### SessionRenewal

Sessions are numbered in the order the platform mints them; a session is its
access and its refresh token, 0 being the empty string. `live` and `accepted`
are the platform's: the refresh tokens it will rotate and the access tokens it
honours. `disk` is the file, `mem[p]` and `owner[p]` are `SessionSource.session`
and `.mu` of process `p`. A caller walks through the bearer interceptor:

| `pc` | in the code |
|---|---|
| `asking` | before `source.Token` |
| `sent` | first `invoker` in flight |
| `rejected` | at `source.Renew`, waiting for the mutex |
| `renewing` | refresh RPC in flight, mutex held |
| `granted` / `failed` | its answer on the way back, mutex held |
| `reissued` | second `invoker` in flight |

`RenewMovedOn`, `RenewAdopts`, `RenewImpossible` and `RenewSend` are the early
returns of `Renew` and the RPC. They take and release the mutex, or take it and
keep it, in one step: until the RPC leaves, nothing but the read of the file
touches shared state, and that read happens in that step. `Publish`,
`PublishFails`, `KeepPrivate` and `EmptyGrant` are what follows an answer;
`FailureAdopts` and `FailureIsFinal` what follows an error. Saving is one step
here, which `SessionFile` justifies (`ImplementsRegister`).

The environment: tokens expire; the refresh request or its answer is lost, or
the request arrives after its caller has given up (`ServeOrphan`); a save fails;
a process dies and starts again; somebody runs `jnh login` or `jnh logout`. Each
kind of fault has a budget. `stranded` is not in the code: it records refresh
tokens that were rotated away and whose replacement will never be published, so
that the properties can say exactly when the file may be dead.

Abstractions: expiry is the platform's (`accepted`); `ExpiresAt` only decides
whether a new client is refused early, so `Restart` simply may not happen; the
enterprise scope and the other fields of a session are left out. A process whose
session the program supplied (`Config.Credentials`) starts, and starts again, with one
of `Supplied`: the machine's first session, with or without its refresh token.
One that lives off the file reads it again. The platform
refuses a call only because of its bearer.

### SessionFile

Files are inodes. `target` is what the session's name refers to, `temps` the
files under temporary names, `data` their content as processes see it and
`durableData`, `durableTarget` as storage has them; the operating system writes
back in any order. `CreateTemp`, `Write`, `Flush`, `Rename` follow `saveTo`;
closing the file is part of `Flush`. `SaveFails` at any step stands for an error
return and its deferred `os.Remove`.

### CallPipeline

An error is the chain of what it wraps in the order `errors.As` visits it, so
that `status.Code`, `Code`, `IsTransient` and gax's `OnCodes` are what the
libraries make of joined errors. A request is its method's class and what
`safeToReplay` reads from it. What happens when a request reaches the platform
twice follows the comment of `safeToReplay` (external). `Renew` is one step here,
with the outcomes `SessionRenewal` has. The counters `carried` and `effects`
are history, and stop one past the value a property compares with. What
is local to a call goes back to its initial value when the call leaves; what its
caller can see (`err`, and with it `req`, `left` and `effects`) stays until the next.

### ClientCredentials

A token or key is who it speaks for and a number, which is what `SessionRenewal`
has no need of and precedence is about. `Resolve` ranks `Config.Credentials`
(a `SessionSource` of the program's own), `Config.APIKey`, the environment and the
file; `LoadError` is every reason the file will not do. `MayBeExpired` is
`Session.Expired`: the expiry recorded with the token may have passed once the
platform has stopped honouring it, and never before (the clock of the machine
does not run ahead). A `Static` is a source without a refresh token, which
is how `Renew` treats it. A `Renew` is its early returns, an RPC and what follows the
answer, as in `SessionRenewal`, but each client makes one call at a time and the mutex
is left out. `SessionCall` sends a method whose credential is its body.
`Login`, `Logout` and `Expire` are the world's; `Events` bounds them together with
failures and session calls.

### DatasetRequests

`id` is the `DatasetId` field of each request the program keeps, `own` that of a
request the SDK makes (`Get`, `Destroy`, or in place of nil). `Begin` is the
assignment in `Declare`, `Commit` and `Query`; `Send` reads the field again, which is
what marshalling per attempt does. `Retry`, `GiveUp` and `Reissue` are what the
interceptors may do with a message; why they do it is `CallPipeline`'s. The code writes
into the request without a lock or a copy, and goroutines may share one in any way:
`Others` are the calls another dataset's handle has under way on it, and while there
are any, a write or a read of the id may also make a torn string of it (`Torn`).
`begun`, `applied` and `answered` are history, and so are `crossed`, the calls whose
request was given to another dataset's handle while they were under way, and `mixed`, the
requests this ever happened to. The properties say what holds of the other calls and
requests, and what of all of them. `Id` includes the id nobody has filled in, and
requests may start with any dataset's id in them.

### ApprovalWait

Time in units of 250 ms, so the code's constants are 120, 20, 4 and 1. The model
keeps the time left to the deadline and the time since the poll started.
`Blame` is the test of `ctx.Err()` after a failed poll. Local code takes no
time and timers are on time. `Cancel` is the end of the context by any other
means.

### Paging

A page token is the number of the page it asks for. `SetPage` and `Fetch` are
separate steps because the request leaves after its token was set; `clonePage`
says whose request that is. `yielded` is what the consumer was given. A `Zero` is the
nil item that an error is yielded with, and never an item of a listing (`ItemAssumption`).

## The runs

Every property has a mutant of the code that breaks it in the same
configuration (`PROJECT.json`, "mutants").

| Run | Checks | Instance |
|---|---|---|
| `renewal_safety` | `TypeOK`, `SingleFlight`, `SpendsOnlySpentSessions`, `DiskRenewable`, `IInv`, `RotatesOnlyAsLastResort`, `NeverStepsBack` | 2 processes on one file, 2 + 1 callers, 2 expiries, 1 RPC fault, 1 failed save, 1 crash |
| `renewal_mixed` | `KeepsRenewable`, `CallReturns` | 1 caller in each of 2 processes, one with a session of its own; answers with and without a refresh token; 1 expiry, 1 failed save, 1 crash, 1 login, 1 logout; fairness |
| `renewal_live` | `Heals` (so every call returns too), `ImplementsLineage` | 2 processes, 2 + 1 callers that keep calling, 2 expiries; fairness |
| `file_sessions` | `TypeOK`, `ReadsWhole`, `DurableWhole`, `NoStrayTemps`, `ImplementsRegister` | 2 processes, 4 files, failing steps, 1 crash, 1 loss of power |
| `credentials` | `TypeOK`, `NoMixedSession`, `SpeaksAsGiven`, `LeavesTheFile`, `StartRefusedOnlyIfDead`, `LoginHeals` | 2 programs: one off the file, one with each kind of credential or off the file too; 2 people, 1 key; 5 files; 2 events; fairness |
| `pipeline` | `TypeOK`, `NoSecondEffect`, `AttemptBudget`, `ErrorsTellTheTruth`, `CallReturns` | 2 callers on one Client; a renewable session, an API key, or a session nothing can renew with retries disabled; every request class; 2 attempts (3 where disabled); fairness |
| `datasets` | `TypeOK`, `HandleDecides`, `CommitsAddUp` | 2 goroutines, 2 datasets, 3 kept requests (commits with and without a key, a query), 2 attempts, 3 calls, requests shared in any way; symmetry of goroutines and datasets |
| `wait` | `TypeOK`, `DecisionIsReal`, `DeadlineIsOwned`, `NoHotSpin`, `DecisionReturns`, `DeadlineReturns` | the code's constants; 11 deadlines around them and none; fairness |
| `paging` | `TypeOK`, `YieldsTheListing`, `WalkEnds` | 2 walks, all listings of up to 3 pages of up to 2 items; fairness |

What they show. The session of a machine survives concurrent renewals: one
rotation at a time in a process, none while somebody has a better session, and a
file whose refresh token is live unless its replacement is on the way or was
lost by a named failure. A save is atomic for its readers whatever step of it
fails. A client speaks as whoever its program said, or as whoever is logged in if it
said nothing, and never as a mixture. A handle's messages go to its dataset, unless two
datasets share a request at once. A
retried call never has a second effect. What a wait
reports as a decision is one, what it reports as the caller's deadline is that, and
anything else is the failed poll's own error. A walk is the listing.

Runs that refute what a comment says (`PROJECT.json`, "findings"):

| Run | What happens |
|---|---|
| `stale_adoption` | a save fails; memory has the live refresh token, the file the spent one; at the next expiry `adoptFromDisk` takes the file's, and the session is lost |
| `rejection_loses_code` | a rejection whose refresh failed with UNAVAILABLE has code UNAVAILABLE |
| `needless_rotation` | a session call with a dead refresh token in its body is refused, and the client rotates a session whose bearer is honoured |

More observations, which the models reproduce but no run states, because
no comment clearly promises otherwise:

- A renewal in flight when the session is deleted writes it back: `Renew` saves
  without looking whether the file is still there (`Logout` between `Rotate` and
  `Publish` in `SessionRenewal`).
- `saveTo` flushes the file and not its directory, so a loss of power after
  `Save` returned may bring back the previous session (`PowerLoss` before
  `WriteBackNames` in `SessionFile`). That is why `ImplementsRegister` excepts the
  loss of power.
- The loser of a race between two processes re-reads the file before the winner
  has saved, and returns `ErrSessionExpired` for a session that lives
  (`FailureIsFinal` in `SessionRenewal`, `session_source.go:120`). The same error is
  returned when only the refresh RPC failed.
- A replayable read whose refresh failed with UNAVAILABLE is retried as a whole, and
  sends the refresh again (`RenewRpcFails`, then `Retry` in `CallPipeline`), although
  `RefreshToken` is among the methods never replayed (`retry.go:236-238`).
- A renewal in flight during a login saves over the new session (`Publish` after
  `Login` in `ClientCredentials`); a client without a credential of its own speaks
  for whoever logged in last, once its bearer is refused.
- A session given as `Config.APIKey` and refused reports `ErrSessionExpired`, whose
  advice is `jnh login`, although a login cannot reach that client.
- A program that calls `Session.Refresh` or `Session.Logout` with the refresh token
  its client lives on leaves a dead one in the source and in the file. A client
  with an API key whose `Session.Refresh` is refused for its body is told that its
  key was refused.
- A file with a refresh token and no access token counts as no credential, although
  it could be renewed (`resolve.go:202`).
- A request given to handles of two datasets at once carries one id: `dataset.go:112`
  writes the second before the first call is marshalled, or marshalled again by a
  retry, and the first call goes to the second's dataset (`Call`, `Call`, `Send` in
  `DatasetRequests`). The comments say that the id comes from the handle, and not
  that a request may be shared. The iterators clone the request they are given; the
  handles do not. `HandleDecides` excepts these calls, and only these.
- A wait without deadline ends with an error on one lost poll (`CallLost` in
  `ApprovalWait`); `retry.go` leaves retrying it to the loop, which does not.

### Why the bounds are enough

Two processes and two callers in one of them give every relation the code can
tell apart: same process and waiting for the mutex, other process and only the
file in common. Two expiries let a session be renewed, and the renewed one
expire, which `stale_adoption` needs; one fault of each kind per behaviour is what
a single `Renew` can meet, and they combine. Failed saves and crashes together with
liveness are checked with one caller per process (`renewal_mixed`, where an RPC does not
fail; it does in `renewal_safety`, and that a failed one gives the mutex back is also
`MutexIsNotLeaked`), contention for the mutex and liveness without faults
(`renewal_live`). Logins and logouts are checked
for `KeepsRenewable`; that `DiskRenewable` survives them too is left to the theorem. Two attempts are the least with
which a retry can follow a renewal and a renewal a retry; the theorems hold for any
number. In `credentials` two programs share the file and two people the machine; two
events are what an expiry and a login, a login during a renewal, or a session call
and a logout take. In `datasets` three calls let a request be used with one dataset
and then the other, or with both at once and afterwards again; a retry and a reissue fit in each. In
`pipeline` the second caller only reads, because what two callers share is the source. Four files let two saves run while the target and storage
name two older ones. Two saves of one value suffice to tear a file; two values are
there where the register must tell them apart. Deadlock is checked except in
`ApprovalWait`, `Paging` and `DatasetRequests`, which end.

`NeverStepsBack` speaks of the time before a save has failed and before somebody
has logged in or out: after a failed save, memory may hold a newer session than the
file and adopting the file steps back, which is what `stale_adoption` shows; a logout
empties the file, and a renewal in flight during a login saves over the newer
session.

### Fairness

- `SF` of taking the mutex: Go's `sync.Mutex` hands itself to a waiter that has
  waited for a millisecond, so a caller that can take it again and again does.
- `WF` of local steps: goroutines are scheduled.
- `WF` of "the platform answers": a unary RPC is answered or fails. The SDK sets no
  timeout on the refresh RPC; a refresh that hangs for ever holds the mutex, and
  `CallReturns` does not claim anything then.
- `WF` of `NewClient` and `Call` in `ClientCredentials`: a program starts once it can,
  and keeps calling. `LoginHeals` is a statement about such programs.
- `WF` of each caller's `Step` in `CallPipeline`: timers fire and RPCs end. That the
  endpoint ever answers anything but UNAVAILABLE is not assumed.
- `WF` of `Tick`: time passes. Losing a poll (`CallLost`) is never forced.

## Proofs

Checked by TLAPS for every value of the constants, from the assumptions named in
each module. In each module an inductive invariant `IInv` is shown to hold at first
and to be kept by every step, one step of the proof for each action.

### SessionRenewal

For every number of processes and callers, every placement, and every budget of
faults:

- whatever the platform answers, with or without a new refresh token, or without
  anything: `TypeCorrect`, `RenewalsAreSingleFlight`, `SpendsOnlySpent`, `LastResort`,
  `MutexIsNotLeaked` and `RenewableIsKept` (`KeepsRenewable`);
- for a platform that rotates whenever it renews (`"accessOnly" \notin Answers`), as
  the documentation of `Renewal` (`credentials/session_source.go:12-14`) says:
  `Inductive`, `FileRenewable` and `OnlyForward` (`NeverStepsBack`).

The hypothesis of the second group is needed, and TLC finds why: one process is given
an access token for the refresh token they share, another has that refresh token
rotated, and if the first is the last to save, the file is left with an older session
whose refresh token is dead. They rest besides on the assumptions named in
`SessionRenewal`.

*Any platform* (`AnyInv`). Who is past the early returns holds the mutex, so `mem`
cannot move under it (`LockInv`); who holds the mutex is past the early returns, so it
is given back on every path and by every crash (`OwnerInv`, which `MutexIsNotLeaked`
states: the safety half of "every call comes back"). A refused access token stays
refused (`RejectedInv`), since nothing refers to a session not yet minted
(`MintedInv`). That a late request spends a dead session too needs a fact about
refresh tokens that have survived their access token: the session each was minted
with is refused by now (`SoundInv`).

*The file.* `DiskRenewable` alone is not inductive. That publishing a grant leaves a
live token in the file needs `FreshInv` (the grant is known to nobody else, so nobody
can have spent it), and that a process's session is one the platform minted as a pair
needs `KnownInv`.

*The order.* That nobody steps back is a race between processes: two of them may be
renewing at once, and what keeps their answers in order is that only one can get
one. `OrderInv` says it: until a save fails or somebody logs in or out, each process
on the file is on or behind it, a refresh token that is live and in its memory is the
file's, and a grant on its way to the file is the only one and newer, the file's refresh
token having been spent for it. `AheadInv` (a grant is newer than what its process
holds) covers the processes with a session of their own, and `BudgetInv` says that
what has been spent stays spent. The loser of the race is refused, and adopts the
file or fails.

`IInv` is the conjunction; one lemma per conjunct (`LockStep`, `OwnerStep`,
`KnownStep`, `MintedStep`, `SpentStep`, `FreshStep`, `CarryStep`, `BudgetStep`,
`AheadStep`, `OrderStep`) shows that a step preserves it, action by action, and
`renewal_safety` checks `IInv` with TLC.

### SessionLineage

`LineIsKept`: `SessionRenewal` implements the safety part of `SessionLineage` (its
`Spec`), for every number of processes on one file, as long as no save fails, nobody
dies and nobody logs in or out, on a platform that rotates (`Quiet`). Access tokens
may expire and RPCs be lost any number of times, which is more than `renewal_live`
has room for. The invariant adds `LineInv` to `IInv`: only the newest session can be
renewed, whoever asks, and a late request can renew no other than the one in the
file. So the file is up to date whenever a session is minted (`Renew`), a grant that is
published is the newest (`Publish`), and what is adopted is what is published
(`CatchUp`); every other step stutters.

### SessionFile

`LoadsAreWhole`, `StorageIsWhole`, `SavesAreTidy`, and the refinement
`FileIsRegister`. The argument is ownership: a temporary file has one writer, and
a file that is named or open is not temporary (`OwnInv`, `NamedInv`); what has been
flushed is whole in storage (`StageInv`); so whatever a session's name refers to, now
or in storage, or a reader has open, is whole. `SavesAreTidy` adds
that each process that dies leaves one stray at most (`StrayInv`, by cardinality,
which is why there are finitely many inodes). Every step is then a step of the
register, a stutter, or the loss of power.

### ClientCredentials

`OneUserPerSession`, `GivenIsKept`, `FileIsLeft` and `StartIsFair`. The invariant adds to
the types and to `NoMixedSession` that a grant is for the user whose token was
spent, that a source's origin says what its program was given, and that a source
not of the file is never adopted from it.

### CallPipeline

`OneEffect`, `AttemptsAreBounded` and `Truthful`. For each call: what it has carried
and what it may retry come to its attempts (`Budget`); a request that is not safe to
replay has no effect while an attempt of it is under way (`Effect`); an attempt
ends with an error that agrees with what it did (`Truth`). Lemmas say what the
code of each error chain is; that of a credential that cannot be renewed (an API key,
a session without a refresh token) is the rejection's. A step of one caller leaves the others' calls alone
(`OthersUntouched`), so it is enough to look at its own (`OwnStep`).

### DatasetRequests

`SentWhereHandled` and `CommitsCounted`. Calls that share a request for two datasets
are crossed, and nobody else is (`CrossInv`); so the request of any other call under way
bears the id of its handle (`ScopeInv`). A request, or a message, that names a dataset
names one a commit of it was begun for, whoever wrote the id (`WroteInv`). On requests
that were never mixed, the rows changed and the calls that may still change them come
to the calls begun (`SpareInv`, by the cardinality of the goroutines still at it).

### ApprovalWait

`DecisionsAreReal`, `DeadlinesAreOwned` and `PollsArePaced`: a reply that says decided
means the approval is, at the head of the loop a poll's floor has passed, and a result
is what its return made it. `DeadlinesAreOwned` goes both ways: a wait that ends without
a decision reports its caller's context if and only if that context is done.

### Paging

`TypeCorrect`, `ListingIsYielded` and `WalksOnlyAdvance`, for listings of any length
with pages of any size. Between two steps a walk has yielded all the pages before
the one its cursor names and the first items of that one, and has the others in hand
(`WalkInv`); its own copy of the request asks for that page. A step of one walk
leaves the others' alone (`OthersUntouched`), which is what `clonePage` is for. What
comes before a page is defined by recursion over the listing (`Before`), so its lemmas
(it is a prefix of the listing, one page longer for the next) are by induction on the
number of the page. The induction is stated over sets of naturals (`NaturalsBySet`)
and rests on the library's theorem that well-founded relations have minima.
`WalksOnlyAdvance` is what `WalkEnds` rests on besides fairness: every step takes a
walk to a later page or leaves it less of the one it is on, and takes no walk back.

### Only model-checked

Every invariant and every action property of the passing runs is also a theorem, and
of the two refinements `ImplementsRegister` is one in full. What is left to TLC needs
fairness, which is out of the prover's reach: `CallReturns` (both), `Heals`,
`LoginHeals`, `DecisionReturns`, `DeadlineReturns`, `WalkEnds`, and the liveness half of
`ImplementsLineage` (its `FairSpec`: a grant is published in the end).

## Not modelled

- Generated code (`jennah/**`): 35 of the repository's 38 thousand lines are output
  of the protoc plugins for messages, stubs and an HTTP gateway the SDK does not use.
  What they do is the libraries' business, and nothing in the SDK depends on more
  of it than a call being sent and answered. Hence the small share of
  the repository's lines that the definitions stand for.
- Type aliases and one-call wrappers: no control of their own.
- A `Config.Credentials` that is neither a `SessionSource` nor a `Static`: the
  program's own code.
- The JSON format of the file, its path and modes; dialling, TLS, `Ping`.
- Backoff lengths and jitter: only the cap matters to the properties.
- A refresh that never answers, and a server whose page tokens cycle.
- A clock that runs ahead of the platform's: a session without a refresh token
  would then be refused at construction while it is honoured.

## Plan

Done: `SessionRenewal` first, because a lost rotation is the one failure nobody
can repair; then the file it relies on, the pipeline around it, the wait and the
iterators; then the credentials a client starts from and lives with, the dataset
handles; the proofs of every safety property.

Left: `CallPipeline` over `SessionRenewal`'s own steps instead of an atomic `Renew`,
for refreshes counted across retries.
