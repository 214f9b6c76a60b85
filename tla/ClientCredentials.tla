-------------------------- MODULE ClientCredentials --------------------------
(***************************************************************************)
(* Which credential a Client is built with, and what becomes of it:        *)
(* NewClient ranks the sources (resolveSource in client.go, Resolve in     *)
(* credentials/resolve.go), and the Source it picks lives on while people  *)
(* log in and out of the machine.  Each client makes one call at a time;   *)
(* callers that contend for a Source are SessionRenewal's subject.         *)
(*                                                                         *)
(* A credential is who it speaks for and a number.  Calls that carry a     *)
(* refresh token in their body (Auth.Session.Refresh and Logout) pass the  *)
(* bearer interceptor like any other.                                      *)
(***************************************************************************)
EXTENDS Naturals

CONSTANTS
  Client,    \* the programs on the machine, each with one Client
  User,      \* who may be logged in
  Service,   \* what an API key may have been made for
  NoToken,   \* the empty string
  Programs,  \* the configurations the programs may have
  Files,     \* what the credentials file may hold at first
  Events     \* how many events, of people, clocks and faults, may happen

ASSUME EventsAssumption == Events \in Nat

Token == [holder : User, n : Nat]
Key   == [holder : Service, n : Nat]
Maybe == Token \cup {NoToken}
ASSUME NoTokenAssumption == User \cap Service = {} /\ NoToken \notin Token \cup Key

Session   == [at : Maybe, rt : Maybe]
NoSession == [at |-> NoToken, rt |-> NoToken]
\* What Load finds: no file, one that will not parse, or a session.
File == [state : {"absent", "corrupt"}, session : {NoSession}]
   \cup [state : {"session"}, session : Session]
Stored(s) == [state |-> "session", session |-> s]

\* Config.Credentials (a SessionSource of the program's own), Config.APIKey and
\* the environment.
Config == [credentials : Session, explicit : Maybe \cup Key, env : Maybe \cup Key]

\* Everybody has a session to begin with, and the keys are there: they, and the
\* tokens in Programs and Files, are numbered 0.  No session is made of two.
OneHolder(s) == s.at # NoToken /\ s.rt # NoToken => s.at.holder = s.rt.holder
ASSUME ProgramsAssumption ==
  /\ Programs \subseteq [Client -> Config]
  /\ \A f \in Programs : \A c \in Client :
       /\ f[c].credentials # NoSession => f[c].credentials.at # NoToken
       /\ OneHolder(f[c].credentials)
ASSUME FilesAssumption == Files \subseteq File /\ \A f \in Files : OneHolder(f.session)

VARIABLES
  config,    \* each program's configuration
  file,      \* the credentials file
  minted,    \* the number of the last token the platform minted
  live,      \* refresh tokens the platform will rotate
  accepted,  \* bearers the platform honours
  pc, source, op, body, cred,  \* each client: its place, its Source, the method
                               \* and body of its call, the bearer presented
  grant,     \* the answer to the renewal it is performing
  outcome,   \* how its last call, or its construction, ended
  events     \* what is left of Events

platform == <<minted, live, accepted>>
request  == <<op, body, cred, grant>>
vars == <<config, file, minted, live, accepted, pc, source, op, body, cred, grant,
          outcome, events>>

-----------------------------------------------------------------------------
(* Sources.  A Static is a source that never finds anything to renew with. *)

kindOf(credential) == IF credential \in Key THEN "api key" ELSE "session"
NewStatic(credential, origin) ==
  [kind |-> kindOf(credential), origin |-> origin,
   session |-> [at |-> credential, rt |-> NoToken]]
NewSessionSource(session, origin) ==
  [kind |-> "session", origin |-> origin, session |-> session]
NoSource == [kind |-> "unknown", origin |-> "unknown", session |-> NoSession]
Outcome == {"none", "noCredential", "corrupt", "served", "failed", "keyRefused", "expired"}
Source == [kind : {"unknown", "api key", "session"},
           origin : {"unknown", "explicit", "environment", "file"},
           session : [at : Maybe \cup Key, rt : Maybe]]

Given(c) == \/ config[c].credentials # NoSession
            \/ config[c].explicit # NoToken
            \/ config[c].env # NoToken

\* First match wins, and later sources are not consulted.
Resolve(c) ==
  LET g == config[c]
  IN  IF g.credentials # NoSession THEN NewSessionSource(g.credentials, "explicit")
      ELSE IF g.explicit # NoToken THEN NewStatic(g.explicit, "explicit")
      ELSE IF g.env # NoToken      THEN NewStatic(g.env, "environment")
      ELSE NewSessionSource(file.session, "file")

Renewable(s) == s.rt # NoToken

\* Why the stored session will not do, or "none".  Its access token may be past
\* the expiry recorded with it when the platform no longer honours it.
MayBeExpired == {FALSE, file.session.at \notin accepted}
HopelessOnceExpired(expired) == expired
Hopeless(expired) == expired /\ ~ Renewable(file.session)
LoadErrorUnlessRead(expired) == IF file.state = "absent" THEN "noCredential"
  ELSE IF file.state = "corrupt" THEN "corrupt" ELSE "none"
LoadError(expired) ==
  CASE file.state = "absent"  -> "noCredential"
    [] file.state = "corrupt" -> "corrupt"
    [] file.state = "session" ->
         IF file.session.at = NoToken THEN "noCredential"
         ELSE IF Hopeless(expired) THEN "expired" ELSE "none"

-----------------------------------------------------------------------------
Init ==
  /\ config \in Programs /\ file \in Files
  /\ minted = 0
  /\ live = [holder : User, n : {0}]
  /\ accepted = [holder : User \cup Service, n : {0}]
  /\ pc = [c \in Client |-> "unbuilt"]
  /\ source = [c \in Client |-> NoSource] /\ op = [c \in Client |-> "call"]
  /\ body = [c \in Client |-> NoToken] /\ cred = [c \in Client |-> NoToken]
  /\ grant = [c \in Client |-> NoSession] /\ outcome = [c \in Client |-> "none"]
  /\ events = Events

Happens == events > 0 /\ events' = events - 1
Goto(c, l) == pc' = [pc EXCEPT ![c] = l]
Hold(c, s) == source' = [source EXCEPT ![c].session = s]
\* The call is over: its request is forgotten, its outcome stays.
Ends(c, o) ==
  /\ Goto(c, "ready") /\ outcome' = [outcome EXCEPT ![c] = o]
  /\ op' = [op EXCEPT ![c] = "call"] /\ body' = [body EXCEPT ![c] = NoToken]
  /\ cred' = [cred EXCEPT ![c] = NoToken] /\ grant' = [grant EXCEPT ![c] = NoSession]

-----------------------------------------------------------------------------
(* Building a Client.                                                      *)

NewClient(c) ==
  /\ pc[c] = "unbuilt" /\ Goto(c, "ready")
  /\ Given(c) \/ \E expired \in MayBeExpired : LoadError(expired) = "none"
  /\ source' = [source EXCEPT ![c] = Resolve(c)] /\ outcome' = [outcome EXCEPT ![c] = "none"]
  /\ UNCHANGED <<config, file, platform, request, events>>

NewClientFails(c) ==
  /\ pc[c] = "unbuilt" /\ ~ Given(c)
  /\ \E expired \in MayBeExpired :
       LoadError(expired) # "none" /\ outcome' = [outcome EXCEPT ![c] = LoadError(expired)]
  /\ UNCHANGED <<config, file, platform, request, pc, source, events>>

-----------------------------------------------------------------------------
(* A call, in the bearer interceptor.                                      *)

Present(c) ==
  /\ pc[c] = "ready" /\ Goto(c, "sent")
  /\ cred' = [cred EXCEPT ![c] = source[c].session.at]
  /\ outcome' = [outcome EXCEPT ![c] = "none"]
  /\ UNCHANGED <<config, file, platform, source, grant>>

Call(c) == Present(c) /\ UNCHANGED <<op, body, events>>

\* Auth.Session.Refresh and Logout, with a token the program has from somewhere.
SessionCall(c, o, t) ==
  /\ Present(c) /\ Happens
  /\ op' = [op EXCEPT ![c] = o] /\ body' = [body EXCEPT ![c] = t]

InFlight(c) == pc[c] \in {"sent", "reissued"}

\* The platform mints an access token, and mostly a refresh token, for t's user.
Fresh(t) == [holder |-> t.holder, n |-> minted + 1]
Mint(t) == minted' = minted + 1 /\ accepted' = accepted \cup {Fresh(t)}
Rotated(t) == live' = (live \ {t}) \cup {Fresh(t)}

Serve(c) ==
  /\ InFlight(c) /\ op[c] = "call" /\ cred[c] \in accepted /\ Ends(c, "served")
  /\ UNCHANGED <<config, file, platform, source, events>>

\* Its answer is the program's: neither the Source nor the file hears of it.
ServeRefresh(c) ==
  /\ InFlight(c) /\ op[c] = "refresh" /\ body[c] \in live /\ Ends(c, "served")
  /\ Mint(body[c]) /\ Rotated(body[c])
  /\ UNCHANGED <<config, file, source, events>>

ServeLogout(c) ==
  /\ InFlight(c) /\ op[c] = "logout" /\ body[c] \in live /\ Ends(c, "served")
  /\ live' = live \ {body[c]}
  /\ UNCHANGED <<config, file, minted, accepted, source, events>>

\* The session methods are refused for their body, whatever the bearer.
Unauthenticated(c) ==
  IF op[c] = "call" THEN cred[c] \notin accepted ELSE body[c] \notin live

Refuse(c) ==
  /\ pc[c] = "sent" /\ Unauthenticated(c) /\ Goto(c, "refused")
  /\ UNCHANGED <<config, file, platform, source, request, outcome, events>>

RefuseAgain(c) ==
  /\ pc[c] = "reissued" /\ Unauthenticated(c) /\ Ends(c, "failed")
  /\ UNCHANGED <<config, file, platform, source, events>>

CallFails(c) ==
  /\ InFlight(c) /\ Happens /\ Ends(c, "failed")
  /\ UNCHANGED <<config, file, platform, source>>

-----------------------------------------------------------------------------
(* Source.Renew.                                                           *)

Reissue(c, t) == Goto(c, "reissued") /\ cred' = [cred EXCEPT ![c] = t]

AnothersSession(c) ==
  file.state = "session" /\ file.session.at \notin {NoToken, cred[c]}
AdoptableSameHolder(c) ==
  /\ source[c].origin = "file" /\ AnothersSession(c)
  /\ file.session.at.holder = source[c].session.at.holder
Adoptable(c) == source[c].origin = "file" /\ AnothersSession(c)

AdoptedTokenOnly(c) == [source[c].session EXCEPT !.at = file.session.at]
Adopted(c) == file.session

Adopt(c) == Adoptable(c) /\ Hold(c, Adopted(c)) /\ Reissue(c, file.session.at)

RenewAdopts(c) ==
  /\ pc[c] = "refused" /\ Adopt(c)
  /\ UNCHANGED <<config, file, platform, op, body, grant, outcome, events>>

MustRenew(c) == pc[c] = "refused" /\ ~ Adoptable(c)

\* A Static ends here too: ErrKeyRefused for a key, ErrSessionExpired otherwise.
RenewImpossible(c) ==
  /\ MustRenew(c) /\ ~ Renewable(source[c].session)
  /\ Ends(c, IF source[c].kind = "api key" THEN "keyRefused" ELSE "expired")
  /\ UNCHANGED <<config, file, platform, source, events>>

RenewSend(c) ==
  /\ MustRenew(c) /\ Renewable(source[c].session) /\ Goto(c, "renewing")
  /\ UNCHANGED <<config, file, platform, source, request, outcome, events>>

Spent(c) == source[c].session.rt

Rotate(c) ==
  /\ pc[c] = "renewing" /\ Spent(c) \in live /\ Mint(Spent(c))
  /\ \/ Rotated(Spent(c)) /\ grant' = [grant EXCEPT ![c] = [at |-> Fresh(Spent(c)), rt |-> Fresh(Spent(c))]]
     \/ UNCHANGED live /\ grant' = [grant EXCEPT ![c] = [at |-> Fresh(Spent(c)), rt |-> NoToken]]
  /\ Goto(c, "granted")
  /\ UNCHANGED <<config, file, source, op, body, cred, outcome, events>>

\* The answer is no, or the RPC fails.
RenewalFails(c) ==
  /\ pc[c] = "renewing"
  /\ \/ Spent(c) \notin live /\ UNCHANGED events
     \/ Happens

FailureAdopts(c) ==
  /\ RenewalFails(c) /\ Adopt(c)
  /\ UNCHANGED <<config, file, platform, op, body, grant, outcome>>

FailureIsFinal(c) ==
  /\ RenewalFails(c) /\ ~ Adoptable(c) /\ Ends(c, "expired")
  /\ UNCHANGED <<config, file, platform, source>>

Merged(c) ==
  [at |-> grant[c].at, rt |-> IF grant[c].rt = NoToken THEN Spent(c) ELSE grant[c].rt]

SavedAlways(c) == file' = Stored(Merged(c))
Saved(c) == file' = IF source[c].origin = "file" THEN Stored(Merged(c)) ELSE file

Publish(c) ==
  /\ pc[c] = "granted" /\ Hold(c, Merged(c)) /\ Saved(c) /\ Reissue(c, grant[c].at)
  /\ grant' = [grant EXCEPT ![c] = NoSession]
  /\ UNCHANGED <<config, platform, op, body, outcome, events>>

PublishFails(c) ==
  /\ pc[c] = "granted" /\ source[c].origin = "file" /\ Happens
  /\ Hold(c, Merged(c)) /\ Ends(c, "failed")
  /\ UNCHANGED <<config, file, platform>>

-----------------------------------------------------------------------------
(* The world: credentials end, and people log in and out.                  *)

Untouched == UNCHANGED <<config, pc, source, request, outcome>>

Expire(t) ==
  /\ t \in accepted /\ Happens /\ accepted' = accepted \ {t}
  /\ UNCHANGED <<file, minted, live>> /\ Untouched

Login(u) ==
  LET t == [holder |-> u, n |-> minted + 1]
  IN  /\ Happens /\ Mint([holder |-> u, n |-> 0]) /\ live' = live \cup {t}
      /\ file' = Stored([at |-> t, rt |-> t])
      /\ Untouched

Logout ==
  /\ file.state = "session" /\ Happens
  /\ live' = live \ {file.session.rt} /\ file' = [state |-> "absent", session |-> NoSession]
  /\ UNCHANGED <<minted, accepted>> /\ Untouched

-----------------------------------------------------------------------------
Renew(c) ==
  \/ RenewAdopts(c) \/ RenewImpossible(c) \/ RenewSend(c) \/ Rotate(c)
  \/ FailureAdopts(c) \/ FailureIsFinal(c) \/ Publish(c) \/ PublishFails(c)
Interceptor(c) ==
  \/ Serve(c) \/ ServeRefresh(c) \/ ServeLogout(c) \/ Refuse(c) \/ RefuseAgain(c)
  \/ CallFails(c) \/ Renew(c)
Tokens == [holder : User, n : 0..minted]

Program(c) ==
  \/ NewClient(c) \/ NewClientFails(c) \/ Call(c) \/ Interceptor(c)
  \/ \E o \in {"refresh", "logout"}, t \in Tokens : SessionCall(c, o, t)
World == (\E t \in accepted : Expire(t)) \/ (\E u \in User : Login(u)) \/ Logout

Next == (\E c \in Client : Program(c)) \/ World

Spec == Init /\ [][Next]_vars
\* Programs start, keep calling, and have their calls answered or failed.
FairSpec ==
  Spec /\ \A c \in Client : WF_vars(NewClient(c)) /\ WF_vars(Call(c)) /\ WF_vars(Interceptor(c))

-----------------------------------------------------------------------------
Bearer == Maybe \cup Key
TypeOK ==
  /\ config \in Programs /\ file \in File
  /\ minted \in Nat /\ live \subseteq Token /\ accepted \subseteq Token \cup Key
  /\ pc \in [Client -> {"unbuilt", "ready", "sent", "refused", "renewing", "granted", "reissued"}]
  /\ source \in [Client -> Source] /\ op \in [Client -> {"call", "refresh", "logout"}]
  /\ body \in [Client -> Maybe] /\ cred \in [Client -> Bearer] /\ grant \in [Client -> Session]
  /\ outcome \in [Client -> Outcome] /\ events \in Nat
  /\ \A c \in Client : pc[c] # "unbuilt" =>
       source[c].kind # "unknown" /\ source[c].session.at # NoToken

\* No session, in a Source or in the file, is made of two people's tokens,
\* whoever logs in while a renewal is under way: renewing one user's session
\* never yields, or stores, the other's.
NoMixedSession ==
  /\ OneHolder(file.session)
  /\ \A c \in Client : OneHolder(source[c].session)

\* The credential a program was given is the one it speaks with, whoever is
\* logged in on the machine, also after renewals (resolve.go, on Resolve: "an
\* explicit credential override[s] a session rather than compete[s] with it").
SpeaksWith(c, t) ==
  /\ source[c].session.at.holder = t.holder
  /\ cred[c] # NoToken => cred[c].holder = t.holder
SpeaksAsGiven ==
  \A c \in Client : pc[c] # "unbuilt" =>
    LET g == config[c]
    IN  IF g.credentials # NoSession THEN SpeaksWith(c, g.credentials.at)
        ELSE IF g.explicit # NoToken THEN SpeaksWith(c, g.explicit)
        ELSE g.env # NoToken => SpeaksWith(c, g.env)

\* ... and its renewals never reach the file, which is somebody else's session.
LeavesTheFile ==
  [][\A c \in Client : Given(c) /\ source'[c] # source[c] => file' = file]_vars

\* A program that cannot start could not have made one authenticated call
\* (client.go: "refusing to construct would be refusing a client that works"; a
\* session without an access token counts as none), and no state of the file
\* keeps a program with a credential from starting.
StartRefusedOnlyIfDead ==
  [][\A c \in Client : pc[c] = "unbuilt" /\ pc'[c] = "unbuilt" /\ outcome'[c] # outcome[c] =>
       /\ ~ Given(c)
       /\ file.session.at \notin accepted
       /\ file.session.at # NoToken => file.session.rt \notin live]_vars

\* Once the machine holds a session that works, every program that lives off
\* the file is served again, without being built anew.
FileWorks ==
  /\ file.session.at # NoToken
  /\ file.session.at \in accepted \/ file.session.rt \in live
LoginHeals ==
  \A c \in Client : <>[](FileWorks /\ ~ Given(c)) => []<>(outcome[c] = "served")

\* session_source.go: Renew "spends a rotation only when it has to".  A session
\* call refused for the token in its body makes it spend one for a bearer that
\* the platform honours; a run refutes this property.
RotatesOnlyIfRefused ==
  [][\A c \in Client :
       pc[c] = "renewing" /\ pc'[c] = "granted" => cred[c] \notin accepted]_vars
=============================================================================
