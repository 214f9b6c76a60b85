----------------------- MODULE ClientCredentials_proofs -----------------------
(***************************************************************************)
(* Proofs about ClientCredentials, for any programs, users, configurations *)
(* and contents of the file, and any number of events.                     *)
(*                                                                         *)
(* The argument: what the platform grants speaks for the user whose        *)
(* refresh token was spent (GrantInv), and a Source holds on to that token *)
(* until the grant is merged; so a session stays of one user               *)
(* (NoMixedSession), and a Source that never looks at the file (OriginInv) *)
(* stays with the user it was given (SpeaksAsGiven).                       *)
(***************************************************************************)
EXTENDS ClientCredentials, TLAPS

USE DEF platform, request, Goto, Hold, Reissue, Spent, InFlight

GrantInv ==
  \A c \in Client : pc[c] = "granted" =>
    /\ grant[c].at \in Token /\ Spent(c) \in Token
    /\ grant[c].at.holder = Spent(c).holder
    /\ grant[c].rt # NoToken => grant[c].rt.holder = Spent(c).holder

OriginInv == \A c \in Client : source[c].origin = "file" => ~ Given(c)
UnbuiltInv == \A c \in Client : pc[c] = "unbuilt" => cred[c] = NoToken

IInv == TypeOK /\ NoMixedSession /\ GrantInv /\ OriginInv /\ UnbuiltInv /\ SpeaksAsGiven

\* A token minted for a user's token is a token of that user.
LEMMA MintKeepsType ==
  ASSUME minted \in Nat, live \subseteq Token, accepted \subseteq Token \cup Key,
         NEW t \in Token, Mint(t)
  PROVE  /\ minted' \in Nat /\ accepted' \subseteq Token \cup Key
         /\ Fresh(t) \in Token /\ Fresh(t).holder = t.holder
         /\ Rotated(t) => live' \subseteq Token
<1>1. minted + 1 \in Nat
  OBVIOUS
<1>2. Fresh(t) \in Token /\ Fresh(t).holder = t.holder
  BY <1>1 DEF Fresh, Token
<1>3. QED
  BY <1>1, <1>2 DEF Mint, Rotated

\* What the sources are built from has the types of a Source.
LEMMA ResolveType ==
  ASSUME TypeOK, NEW c \in Client,
         Given(c) \/ \E expired \in MayBeExpired : LoadError(expired) = "none"
  PROVE  /\ Resolve(c) \in Source
         /\ Resolve(c).kind # "unknown" /\ Resolve(c).session.at # NoToken
<1>1. /\ config[c] \in Config
      /\ config[c].credentials # NoSession => config[c].credentials.at # NoToken
  BY ProgramsAssumption DEF TypeOK
<1>2. file.session \in Session
  BY DEF TypeOK, File, Session, NoSession, Maybe
<1>3. ~ Given(c) => file.session.at # NoToken
  BY DEF LoadError, TypeOK, File
<1>4. QED
  BY <1>1, <1>2, <1>3 DEF Given, Resolve, NewStatic, NewSessionSource, kindOf, Source, Session,
     Config, Maybe

\* Why a session will not do is an outcome.
LEMMA LoadErrorType ==
  ASSUME file \in File, NEW expired  PROVE  LoadError(expired) \in Outcome
  BY DEF File, LoadError, Outcome

\* Replacing the session of a Source leaves a Source, of the same kind and origin.
LEMMA HoldKeepsType ==
  ASSUME source \in [Client -> Source], NEW c \in Client, NEW s, Hold(c, s),
         s.at \in Maybe \cup Key, s.rt \in Maybe, s = [at |-> s.at, rt |-> s.rt]
  PROVE  /\ source' \in [Client -> Source]
         /\ source'[c].session = s
         /\ source'[c].kind = source[c].kind /\ source'[c].origin = source[c].origin
         /\ \A d \in Client \ {c} : source'[d] = source[d]
<1>1. s \in [at : Maybe \cup Key, rt : Maybe]
  OBVIOUS
<1>2. [source[c] EXCEPT !.session = s] \in Source
  BY <1>1 DEF Source
<1>3. QED
  BY <1>1, <1>2 DEF Source

\* An adopted session is one with an access token.
LEMMA AdoptType ==
  ASSUME file \in File, NEW c \in Client, Adoptable(c)
  PROVE  /\ file.session \in Session /\ file.session.at \in Token
         /\ file.session = [at |-> file.session.at, rt |-> file.session.rt]
         /\ source[c].origin = "file"
  BY DEF Adoptable, AnothersSession, File, Session, NoSession, Maybe

\* A grant completed with the token it was obtained for is a session.
LEMMA MergedType ==
  ASSUME grant \in [Client -> Session], GrantInv, NEW c \in Client, pc[c] = "granted"
  PROVE  /\ Merged(c) \in Session /\ Merged(c).at \in Token /\ Merged(c).rt \in Token
         /\ Merged(c).at.holder = Spent(c).holder /\ Merged(c).rt.holder = Spent(c).holder
         /\ Merged(c) = [at |-> Merged(c).at, rt |-> Merged(c).rt]
         /\ Merged(c).at = grant[c].at
  BY DEF GrantInv, Merged, Session, Maybe

\* Every step keeps the types.
LEMMA TypeStep == TypeOK /\ GrantInv /\ [Next]_vars => TypeOK'
<1> SUFFICES ASSUME TypeOK, GrantInv, [Next]_vars PROVE TypeOK'
  OBVIOUS
<1> USE NoTokenAssumption DEF TypeOK, Bearer, Maybe, Session, NoSession, Outcome
<1>1. ASSUME NEW c \in Client, NewClient(c) PROVE TypeOK'
  BY <1>1, ResolveType DEF NewClient
<1>2. ASSUME NEW c \in Client, NewClientFails(c) PROVE TypeOK'
  BY <1>2, LoadErrorType DEF NewClientFails
<1>3. ASSUME NEW c \in Client, Call(c) PROVE TypeOK'
  BY <1>3 DEF Call, Present, Source
<1>4. ASSUME NEW c \in Client, NEW o \in {"refresh", "logout"}, NEW t \in Tokens, SessionCall(c, o, t)
      PROVE  TypeOK'
  <2>1. t \in Maybe
    BY DEF Tokens, Token
  <2>2. source[c].session.at \in Maybe \cup Key
    BY DEF Source
  <2>3. QED
    BY <1>4, <2>1, <2>2 DEF SessionCall, Present, Happens
<1>5. ASSUME NEW c \in Client, Serve(c) PROVE TypeOK'
  BY <1>5 DEF Serve, Ends
<1>6. ASSUME NEW c \in Client, ServeRefresh(c) PROVE TypeOK'
  BY <1>6, MintKeepsType DEF ServeRefresh, Ends
<1>7. ASSUME NEW c \in Client, ServeLogout(c) PROVE TypeOK'
  BY <1>7 DEF ServeLogout, Ends
<1>8. ASSUME NEW c \in Client, Refuse(c) PROVE TypeOK'
  BY <1>8 DEF Refuse
<1>8b. ASSUME NEW c \in Client, RefuseAgain(c) PROVE TypeOK'
  BY <1>8b DEF RefuseAgain, Ends
<1>9. ASSUME NEW c \in Client, CallFails(c) PROVE TypeOK'
  BY <1>9 DEF CallFails, Ends, Happens
<1>10. ASSUME NEW c \in Client, RenewAdopts(c) PROVE TypeOK'
  <2>1. Adoptable(c) /\ Hold(c, file.session)
    BY <1>10 DEF RenewAdopts, Adopt, Adopted
  <2>2. /\ source' \in [Client -> Source] /\ source'[c].session = file.session
        /\ source'[c].kind = source[c].kind /\ \A d \in Client \ {c} : source'[d] = source[d]
    BY <2>1, AdoptType, HoldKeepsType
  <2>3. file.session.at \in Bearer /\ file.session.at # NoToken
    BY <2>1, AdoptType
  <2>4. QED
    BY <1>10, <2>2, <2>3 DEF RenewAdopts, Adopt
<1>11. ASSUME NEW c \in Client, RenewImpossible(c) PROVE TypeOK'
  BY <1>11 DEF RenewImpossible, MustRenew, Ends
<1>11b. ASSUME NEW c \in Client, RenewSend(c) PROVE TypeOK'
  BY <1>11b DEF RenewSend, MustRenew
<1>12. ASSUME NEW c \in Client, Rotate(c) PROVE TypeOK'
  BY <1>12, MintKeepsType DEF Rotate
<1>13. ASSUME NEW c \in Client, FailureAdopts(c) PROVE TypeOK'
  <2>1. Adoptable(c) /\ Hold(c, file.session)
    BY <1>13 DEF FailureAdopts, Adopt, Adopted
  <2>2. /\ source' \in [Client -> Source] /\ source'[c].session = file.session
        /\ source'[c].kind = source[c].kind /\ \A d \in Client \ {c} : source'[d] = source[d]
    BY <2>1, AdoptType, HoldKeepsType
  <2>3. file.session.at \in Bearer /\ file.session.at # NoToken
    BY <2>1, AdoptType
  <2>4. QED
    BY <1>13, <2>2, <2>3 DEF FailureAdopts, RenewalFails, Happens, Adopt
<1>14. ASSUME NEW c \in Client, FailureIsFinal(c) PROVE TypeOK'
  BY <1>14 DEF FailureIsFinal, RenewalFails, Happens, Ends
<1>15. ASSUME NEW c \in Client, Publish(c) PROVE TypeOK'
  <2>1. file' \in File
    BY <1>15, MergedType DEF Publish, Saved, Stored, File
  <2>2. pc[c] = "granted" /\ Hold(c, Merged(c))
    BY <1>15 DEF Publish
  <2>3. /\ source' \in [Client -> Source] /\ source'[c].session = Merged(c)
        /\ source'[c].kind = source[c].kind /\ \A d \in Client \ {c} : source'[d] = source[d]
    BY <2>2, MergedType, HoldKeepsType
  <2>4. Merged(c).at \in Bearer /\ Merged(c).at # NoToken /\ Merged(c).at = grant[c].at
    BY <2>2, MergedType
  <2>5. QED
    BY <1>15, <2>1, <2>3, <2>4 DEF Publish
<1>16. ASSUME NEW c \in Client, PublishFails(c) PROVE TypeOK'
  <2>2. pc[c] = "granted" /\ Hold(c, Merged(c))
    BY <1>16 DEF PublishFails
  <2>3. /\ source' \in [Client -> Source] /\ source'[c].session = Merged(c)
        /\ source'[c].kind = source[c].kind /\ \A d \in Client \ {c} : source'[d] = source[d]
    BY <2>2, MergedType, HoldKeepsType
  <2>4. Merged(c).at # NoToken
    BY <2>2, MergedType
  <2>5. QED
    BY <1>16, <2>3, <2>4 DEF PublishFails, Happens, Ends
<1>17. ASSUME NEW t \in accepted, Expire(t) PROVE TypeOK'
  BY <1>17 DEF Expire, Happens, Untouched
<1>18. ASSUME NEW u \in User, Login(u) PROVE TypeOK'
  BY <1>18, MintKeepsType DEF Login, Happens, Untouched, Stored, File, Token, Mint, Fresh
<1>19. ASSUME Logout PROVE TypeOK'
  BY <1>19 DEF Logout, Happens, Untouched, File
<1>20. CASE UNCHANGED vars
  BY <1>20 DEF vars
<1>21. QED
  BY <1>1, <1>2, <1>3, <1>4, <1>5, <1>6, <1>7, <1>8, <1>9, <1>10, <1>11, <1>12, <1>13, <1>14,
     <1>15, <1>16, <1>17, <1>18, <1>19, <1>20, <1>8b, <1>11b DEF Next, Program, World, Interceptor, Renew

-----------------------------------------------------------------------------
(* What a step may do to a Source, to a grant and to the file.             *)

\* A client's step leaves the other clients alone.
LEMMA OthersKeep ==
  ASSUME TypeOK, NEW c \in Client, NEW d \in Client, c # d, Program(d)
  PROVE  /\ source'[c] = source[c] /\ pc'[c] = pc[c] /\ cred'[c] = cred[c]
         /\ grant'[c] = grant[c] /\ outcome'[c] = outcome[c]
<1> USE DEF TypeOK
<1>1. CASE NewClient(d) \/ NewClientFails(d) \/ Call(d)
  BY <1>1 DEF NewClient, NewClientFails, Call, Present
<1>2. ASSUME NEW o, NEW t, SessionCall(d, o, t) PROVE UNCHANGED <<source[c], pc[c], cred[c], grant[c], outcome[c]>>
  BY <1>2 DEF SessionCall, Present
<1>3. CASE Serve(d) \/ ServeRefresh(d) \/ ServeLogout(d) \/ Refuse(d) \/ RefuseAgain(d) \/ CallFails(d)
  BY <1>3 DEF Serve, ServeRefresh, ServeLogout, Refuse, RefuseAgain, CallFails, Ends
<1>4. CASE RenewAdopts(d) \/ RenewImpossible(d) \/ RenewSend(d) \/ Rotate(d)
  BY <1>4 DEF RenewAdopts, Adopt, RenewImpossible, RenewSend, Rotate, Ends
<1>5. CASE FailureAdopts(d) \/ FailureIsFinal(d) \/ Publish(d) \/ PublishFails(d)
  BY <1>5 DEF FailureAdopts, Adopt, FailureIsFinal, Publish, PublishFails, Ends
<1>6. QED
  BY <1>1, <1>2, <1>3, <1>4, <1>5 DEF Program, Interceptor, Renew

\* No step changes how the programs are configured.
LEMMA ConfigKept == Next => config' = config
<1>1. ASSUME NEW d \in Client, Program(d) PROVE config' = config
  <2>1. CASE Interceptor(d)
    BY <2>1 DEF Interceptor, Renew, Serve, ServeRefresh, ServeLogout, Refuse, RefuseAgain, CallFails,
       RenewAdopts, RenewImpossible, RenewSend, Rotate, FailureAdopts, FailureIsFinal, Publish,
       PublishFails
  <2>2. QED
    BY <1>1, <2>1 DEF Program, NewClient, NewClientFails, Call, SessionCall, Present
<1>2. QED
  BY <1>1 DEF Next, World, Expire, Login, Logout, Untouched

\* A client's Source changes when it is built, adopts the file's session, or
\* merges a grant; otherwise what it presents is what it holds.
Keeps(c) ==
  /\ source'[c] = source[c] /\ cred'[c] \in {cred[c], NoToken, source[c].session.at}
  /\ pc[c] = "unbuilt" \/ pc'[c] = "unbuilt" => pc'[c] = pc[c] /\ cred'[c] = cred[c]
Merges(c) ==
  /\ pc[c] = "granted" /\ pc'[c] \in {"ready", "reissued"} /\ Hold(c, Merged(c))
  /\ cred'[c] \in {NoToken, grant[c].at}
LEMMA SourceEffect ==
  ASSUME TypeOK, Next, NEW c \in Client
  PROVE  Keeps(c) \/ NewClient(c) \/ Adopt(c) \/ Merges(c)
<1> USE DEF TypeOK, Keeps
<1>1. CASE World
  BY <1>1 DEF World, Expire, Login, Logout, Untouched
<1>2. ASSUME NEW d \in Client, d # c, Program(d) PROVE Keeps(c)
  BY <1>2, OthersKeep
<1>3. CASE NewClientFails(c) \/ Call(c)
  BY <1>3 DEF NewClientFails, Call, Present
<1>4. ASSUME NEW o, NEW t, SessionCall(c, o, t) PROVE Keeps(c)
  BY <1>4 DEF SessionCall, Present
<1>5. CASE Serve(c) \/ ServeRefresh(c) \/ ServeLogout(c) \/ Refuse(c) \/ RefuseAgain(c) \/ CallFails(c)
  BY <1>5 DEF Serve, ServeRefresh, ServeLogout, Refuse, RefuseAgain, CallFails, Ends
<1>6. CASE RenewImpossible(c) \/ RenewSend(c) \/ Rotate(c) \/ FailureIsFinal(c)
  BY <1>6 DEF RenewImpossible, RenewSend, MustRenew, Rotate, FailureIsFinal, RenewalFails, Ends
<1>7. CASE RenewAdopts(c) \/ FailureAdopts(c)
  BY <1>7 DEF RenewAdopts, FailureAdopts
<1>8. CASE Publish(c) \/ PublishFails(c)
  BY <1>8 DEF Publish, PublishFails, Merges, Ends
<1>9. QED
  BY <1>1, <1>2, <1>3, <1>4, <1>5, <1>6, <1>7, <1>8 DEF Next, Program, Interceptor, Renew

\* A grant arrives by Rotate, and stays as it is while the Source does.
LEMMA GrantEffect ==
  ASSUME TypeOK, Next, NEW c \in Client, pc'[c] = "granted"
  PROVE  \/ Rotate(c)
         \/ pc[c] = "granted" /\ grant'[c] = grant[c] /\ source'[c] = source[c]
<1> USE DEF TypeOK
<1>1. CASE World
  BY <1>1 DEF World, Expire, Login, Logout, Untouched
<1>2. ASSUME NEW d \in Client, d # c, Program(d)
      PROVE  pc[c] = "granted" /\ grant'[c] = grant[c] /\ source'[c] = source[c]
  BY <1>2, OthersKeep
<1>3. CASE NewClient(c) \/ NewClientFails(c) \/ Call(c)
  BY <1>3 DEF NewClient, NewClientFails, Call, Present
<1>4. ASSUME NEW o, NEW t, SessionCall(c, o, t) PROVE FALSE
  BY <1>4 DEF SessionCall, Present
<1>5. CASE Serve(c) \/ ServeRefresh(c) \/ ServeLogout(c) \/ Refuse(c) \/ RefuseAgain(c) \/ CallFails(c)
  BY <1>5 DEF Serve, ServeRefresh, ServeLogout, Refuse, RefuseAgain, CallFails, Ends
<1>6. CASE RenewAdopts(c) \/ RenewImpossible(c) \/ RenewSend(c) \/ FailureAdopts(c) \/ FailureIsFinal(c)
  BY <1>6 DEF RenewAdopts, Adopt, RenewImpossible, RenewSend, FailureAdopts, FailureIsFinal, Ends
<1>7. CASE Publish(c) \/ PublishFails(c)
  BY <1>7 DEF Publish, PublishFails, Ends
<1>8. CASE Program(c)
  <2>1. CASE Interceptor(c)
    BY <2>1, <1>5, <1>6, <1>7 DEF Interceptor, Renew
  <2>2. QED
    BY <1>8, <2>1, <1>3, <1>4 DEF Program
<1>9. QED
  BY <1>1, <1>2, <1>8 DEF Next

\* The file changes when a Source of the file publishes, and when people do.
LEMMA FileEffect ==
  ASSUME TypeOK, Next, file' # file
  PROVE  \/ World
         \/ \E c \in Client : /\ pc[c] = "granted" /\ source[c].origin = "file"
                            /\ file' = Stored(Merged(c)) /\ Program(c)
<1>1. ASSUME NEW d \in Client, Program(d), ~ Publish(d) PROVE file' = file
  <2>1. CASE NewClient(d) \/ NewClientFails(d) \/ Call(d)
    BY <2>1 DEF NewClient, NewClientFails, Call, Present
  <2>2. ASSUME NEW o, NEW t, SessionCall(d, o, t) PROVE file' = file
    BY <2>2 DEF SessionCall, Present
  <2>3. CASE Serve(d) \/ ServeRefresh(d) \/ ServeLogout(d) \/ Refuse(d) \/ RefuseAgain(d) \/ CallFails(d)
    BY <2>3 DEF Serve, ServeRefresh, ServeLogout, Refuse, RefuseAgain, CallFails
  <2>4. CASE Renew(d)
    BY <1>1, <2>4 DEF Renew, RenewAdopts, RenewImpossible, RenewSend, Rotate, FailureAdopts,
       FailureIsFinal, PublishFails
  <2>5. QED
    BY <1>1, <2>1, <2>2, <2>3, <2>4 DEF Program, Interceptor
<1>2. QED
  BY <1>1 DEF Next, Publish, Saved

-----------------------------------------------------------------------------
(* The inductive invariant, conjunct by conjunct.                          *)

\* A grant speaks for the user whose refresh token was spent for it.
LEMMA GrantStep == TypeOK /\ GrantInv /\ Next => GrantInv'
<1> SUFFICES ASSUME TypeOK, GrantInv, Next, NEW c \in Client, pc'[c] = "granted"
             PROVE  /\ grant'[c].at \in Token /\ source'[c].session.rt \in Token
                    /\ grant'[c].at.holder = source'[c].session.rt.holder
                    /\ grant'[c].rt # NoToken => grant'[c].rt.holder = source'[c].session.rt.holder
  BY DEF GrantInv
<1>1. CASE Rotate(c)
  <2>1. Spent(c) \in Token
    BY <1>1 DEF Rotate, TypeOK
  <2>2. Fresh(Spent(c)) \in Token /\ Fresh(Spent(c)).holder = Spent(c).holder
    BY <1>1, <2>1, MintKeepsType DEF TypeOK, Rotate
  <2>3. QED
    BY <1>1, <2>1, <2>2 DEF Rotate, TypeOK
<1>2. CASE pc[c] = "granted" /\ grant'[c] = grant[c] /\ source'[c] = source[c]
  BY <1>2 DEF GrantInv
<1>3. QED
  BY <1>1, <1>2, GrantEffect

\* Only a Source resolved from the file looks at it.
LEMMA OriginStep == TypeOK /\ OriginInv /\ Next => OriginInv'
<1> SUFFICES ASSUME TypeOK, OriginInv, Next, NEW c \in Client, source'[c].origin = "file"
             PROVE  ~ Given(c)'
  BY DEF OriginInv
<1> USE DEF TypeOK
<1>1. Given(c)' <=> Given(c)
  BY ConfigKept DEF Given
<1>2. CASE NewClient(c)
  BY <1>2, <1>1 DEF NewClient, Resolve, NewStatic, NewSessionSource, Given
<1>3. CASE ~ NewClient(c)
  <2>1. source[c] \in Source
    OBVIOUS
  <2>2. CASE Adopt(c) \/ Merges(c)
    <3>1. PICK s : source' = [source EXCEPT ![c] = [source[c] EXCEPT !.session = s]]
      BY <2>2 DEF Adopt, Merges
    <3>3. [source[c] EXCEPT !.session = s].origin = source[c].origin
      BY <2>1 DEF Source
    <3>4. source'[c].origin = source[c].origin
      BY <3>1, <3>3
    <3>2. QED
      BY <3>4, <1>1 DEF OriginInv
  <2>3. CASE Keeps(c)
    BY <2>3, <1>1 DEF Keeps, OriginInv
  <2>4. QED
    BY <1>3, <2>2, <2>3, SourceEffect
<1>4. QED
  BY <1>2, <1>3

\* Nobody mixes two users' tokens.
LEMMA HolderStep == TypeOK /\ NoMixedSession /\ GrantInv /\ Next => NoMixedSession'
<1> SUFFICES ASSUME TypeOK, NoMixedSession, GrantInv, Next PROVE NoMixedSession'
  OBVIOUS
<1>1. ASSUME NEW c \in Client, pc[c] = "granted" PROVE OneHolder(Merged(c))
  BY <1>1, MergedType DEF TypeOK, OneHolder
<1>2. OneHolder(file'.session)
  <2>1. CASE file' = file
    BY <2>1 DEF NoMixedSession
  <2>2. CASE World
    <3>1. ASSUME NEW t, Expire(t) PROVE OneHolder(file'.session)
      BY <3>1 DEF Expire, NoMixedSession
    <3>2. ASSUME NEW u \in User, Login(u) PROVE OneHolder(file'.session)
      BY <3>2 DEF Login, Stored, OneHolder
    <3>3. CASE Logout
      BY <3>3 DEF Logout, NoSession, OneHolder
    <3>4. QED
      BY <2>2, <3>1, <3>2, <3>3 DEF World
  <2>3. ASSUME NEW c \in Client, pc[c] = "granted", file' = Stored(Merged(c))
        PROVE  OneHolder(file'.session)
    BY <2>3, <1>1 DEF Stored
  <2>4. QED
    BY <2>1, <2>2, <2>3, FileEffect
<1>3. ASSUME NEW c \in Client PROVE OneHolder(source'[c].session)
  <2>1. CASE Keeps(c)
    BY <2>1 DEF Keeps, NoMixedSession
  <2>2. CASE NewClient(c)
    <3>1. OneHolder(config[c].credentials)
      BY ProgramsAssumption DEF TypeOK
    <3>2. OneHolder(Resolve(c).session)
      BY <3>1 DEF Resolve, NewStatic, NewSessionSource, NoMixedSession, OneHolder
    <3>3. QED
      BY <2>2, <3>2 DEF NewClient, TypeOK
  <2>3. CASE Adopt(c)
    <3>1. source'[c].session = file.session
      BY <2>3, AdoptType, HoldKeepsType DEF Adopt, Adopted, TypeOK, Session
    <3>2. QED
      BY <3>1 DEF NoMixedSession
  <2>4. CASE Merges(c)
    <3>1. source'[c].session = Merged(c)
      BY <2>4, MergedType, HoldKeepsType DEF Merges, TypeOK
    <3>2. QED
      BY <2>4, <3>1, <1>1 DEF Merges
  <2>5. QED
    BY <2>1, <2>2, <2>3, <2>4, SourceEffect
<1>4. QED
  BY <1>2, <1>3 DEF NoMixedSession

\* A client presents nothing before it is built.
LEMMA UnbuiltStep == TypeOK /\ UnbuiltInv /\ Next => UnbuiltInv'
<1> SUFFICES ASSUME TypeOK, UnbuiltInv, Next, NEW c \in Client, pc'[c] = "unbuilt"
             PROVE  cred'[c] = NoToken
  BY DEF UnbuiltInv
<1>1. Keeps(c)
  BY SourceEffect DEF NewClient, Adopt, Merges, TypeOK
<1>2. QED
  BY <1>1 DEF Keeps, UnbuiltInv

\* A Source that was given its credential keeps speaking for the same holder.
LEMMA SpeaksStep == IInv /\ Next => SpeaksAsGiven'
<1> SUFFICES ASSUME IInv, Next, NEW c \in Client, pc'[c] # "unbuilt", Given(c),
                    NEW t \in {config[c].credentials.at, config[c].explicit, config[c].env},
                    pc[c] # "unbuilt" => SpeaksWith(c, t),
                    pc[c] = "unbuilt" => Resolve(c).session.at = t
             PROVE  SpeaksWith(c, t)'
  BY ConfigKept DEF IInv, SpeaksAsGiven, Given, Resolve, NewStatic, NewSessionSource
<1>1. TypeOK
  BY DEF IInv
<1>2. CASE Keeps(c)
  BY <1>2, <1>1 DEF Keeps, SpeaksWith, TypeOK
<1>3. CASE NewClient(c)
  BY <1>3, <1>1 DEF NewClient, SpeaksWith, TypeOK, IInv, UnbuiltInv
<1>4. ~ Adopt(c)
  BY DEF IInv, OriginInv, Adopt, Adoptable
<1>5. CASE Merges(c)
  <2>1. GrantInv /\ OneHolder(source[c].session) /\ source[c].session.at # NoToken
    BY <1>1, <1>5 DEF IInv, NoMixedSession, TypeOK, Merges
  <2>2. /\ Merged(c).at = grant[c].at /\ grant[c].at.holder = Spent(c).holder
        /\ Spent(c) # NoToken
    BY <1>1, <1>5, <2>1, MergedType, NoTokenAssumption DEF TypeOK, Merges, GrantInv
  <2>3. grant[c].at.holder = t.holder
    BY <2>1, <2>2, <1>5 DEF OneHolder, SpeaksWith, Merges
  <2>4. source'[c].session = Merged(c)
    BY <1>1, <1>5, <2>1, MergedType, HoldKeepsType DEF Merges, TypeOK
  <2>5. QED
    BY <1>5, <2>2, <2>3, <2>4 DEF Merges, SpeaksWith
<1>6. QED
  BY <1>1, <1>2, <1>3, <1>4, <1>5, SourceEffect

-----------------------------------------------------------------------------
(* Theorems.                                                               *)

\* What is invariant at first and kept by every step.
LEMMA InitInv == Init => IInv
<1> SUFFICES ASSUME Init PROVE IInv
  OBVIOUS
<1> USE NoTokenAssumption DEF Init
<1>1. TypeOK
  BY EventsAssumption, FilesAssumption DEF TypeOK, Source, NoSource, NoSession, Session, Maybe, Bearer,
     Outcome, Token, Key
<1>2. NoMixedSession
  BY FilesAssumption DEF NoMixedSession, NoSource, NoSession, OneHolder
<1>3. GrantInv /\ OriginInv /\ UnbuiltInv /\ SpeaksAsGiven
  BY DEF GrantInv, OriginInv, NoSource, UnbuiltInv, SpeaksAsGiven
<1>4. QED
  BY <1>1, <1>2, <1>3 DEF IInv

\* Every step keeps the inductive invariant.
LEMMA StepInv == IInv /\ [Next]_vars => IInv'
<1> SUFFICES ASSUME IInv, [Next]_vars PROVE IInv'
  OBVIOUS
<1>1. CASE Next
  BY <1>1, TypeStep, GrantStep, OriginStep, HolderStep, UnbuiltStep, SpeaksStep DEF IInv
<1>2. CASE UNCHANGED vars
  BY <1>2 DEF vars, IInv, TypeOK, NoMixedSession, GrantInv, OriginInv, UnbuiltInv, SpeaksAsGiven,
     SpeaksWith, Given
<1>3. QED
  BY <1>1, <1>2

\* The inductive invariant of ClientCredentials: types, one user per session
\* and per grant, and Sources that stay with what they were given.
THEOREM Inductive == Spec => []IInv
  BY InitInv, StepInv, PTL DEF Spec

\* Every Client that was built holds a bearer, and all the types are right.
THEOREM TypeCorrect == Spec => []TypeOK
<1>1. IInv => TypeOK
  BY DEF IInv
<1>2. QED
  BY <1>1, Inductive, PTL

\* No session, in a Source or in the file, is made of two users' tokens,
\* however logins, renewals and publications interleave.
THEOREM OneUserPerSession == Spec => []NoMixedSession
<1>1. IInv => NoMixedSession
  BY DEF IInv
<1>2. QED
  BY <1>1, Inductive, PTL

\* A program that was given a credential speaks for its holder for ever.
THEOREM GivenIsKept == Spec => []SpeaksAsGiven
<1>1. IInv => SpeaksAsGiven
  BY DEF IInv
<1>2. QED
  BY <1>1, Inductive, PTL

\* What a program with a credential of its own does never reaches the file.
THEOREM FileIsLeft == Spec => LeavesTheFile
<1>1. ASSUME IInv, Next, NEW c \in Client, Given(c), source'[c] # source[c] PROVE file' = file
  <2>1. TypeOK
    BY <1>1 DEF IInv
  <2>2. ~ World
    BY <1>1 DEF World, Expire, Login, Logout, Untouched
  <2>3. ASSUME NEW d \in Client, Program(d), source[d].origin = "file" PROVE FALSE
    <3>1. d # c
      BY <1>1, <2>3 DEF IInv, OriginInv
    <3>2. QED
      BY <1>1, <2>1, <2>3, <3>1, OthersKeep
  <2>4. QED
    BY <1>1, <2>1, <2>2, <2>3, FileEffect
<1>2. IInv /\ [Next]_vars => [\A c \in Client : Given(c) /\ source'[c] # source[c] => file' = file]_vars
  BY <1>1
<1>3. QED
  BY <1>2, Inductive, PTL DEF Spec, LeavesTheFile

\* A Client that could not be built could not have made a call.
THEOREM StartIsFair == Spec => StartRefusedOnlyIfDead
<1> DEFINE Dead(c) == /\ ~ Given(c)
                      /\ file.session.at \notin accepted
                      /\ file.session.at # NoToken => file.session.rt \notin live
<1>1. ASSUME IInv, Next, NEW c \in Client, pc[c] = "unbuilt", pc'[c] = "unbuilt",
             outcome'[c] # outcome[c]
      PROVE  Dead(c)
  <2>1. TypeOK
    BY <1>1 DEF IInv
  <2>2. ~ World
    BY <1>1 DEF World, Expire, Login, Logout, Untouched
  <2>3. Program(c)
    BY <1>1, <2>1, <2>2, OthersKeep DEF Next
  <2>4. ~ Interceptor(c)
    BY <1>1 DEF Interceptor, Renew, Serve, ServeRefresh, ServeLogout, Refuse, RefuseAgain, CallFails,
       RenewAdopts, RenewImpossible, RenewSend, MustRenew, Rotate, FailureAdopts, FailureIsFinal,
       RenewalFails, Publish, PublishFails
  <2>5. NewClientFails(c)
    BY <1>1, <2>1, <2>3, <2>4 DEF Program, NewClient, Call, SessionCall, Present, TypeOK
  <2>6. PICK expired \in MayBeExpired : LoadError(expired) # "none"
    BY <2>5 DEF NewClientFails
  <2>7. NoToken \notin accepted /\ NoToken \notin live
    BY <2>1, NoTokenAssumption DEF TypeOK
  <2>8. CASE file.state # "session"
    BY <2>1, <2>5, <2>7, <2>8 DEF NewClientFails, TypeOK, File, NoSession
  <2>9. CASE file.state = "session" /\ file.session.at = NoToken
    BY <2>5, <2>7, <2>9 DEF NewClientFails
  <2>10. CASE file.state = "session" /\ file.session.at # NoToken
    BY <2>5, <2>6, <2>7, <2>10 DEF NewClientFails, LoadError, Hopeless, Renewable, MayBeExpired
  <2>11. QED
    BY <2>8, <2>9, <2>10
<1>2. IInv /\ [Next]_vars =>
        [\A c \in Client : pc[c] = "unbuilt" /\ pc'[c] = "unbuilt" /\ outcome'[c] # outcome[c]
           => Dead(c)]_vars
  BY <1>1
<1>3. QED
  BY <1>2, Inductive, PTL DEF Spec, StartRefusedOnlyIfDead
=============================================================================
