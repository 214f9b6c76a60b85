----------------------- MODULE SessionRenewal_proofs ------------------------
(***************************************************************************)
(* Proofs about SessionRenewal, for every number of processes and callers  *)
(* and every budget of faults.                                             *)
(*                                                                         *)
(* First what a step does to each part of the inductive invariant, then    *)
(* the theorems.  Some hold whatever the platform answers (AnyPlatform):   *)
(* types, single flight, a mutex that is always given back, rotations only *)
(* of spent sessions and as the last resort, sessions that stay renewable.  The others are proved   *)
(* for a platform that rotates whenever it renews ("accessOnly" is not one *)
(* of its answers), which is what the Renewal type says the platform does. *)
(*                                                                         *)
(* The argument for the file: a refused access token is refused for good   *)
(* (RejectedInv), the mutex keeps the session a renewal spends in place    *)
(* (LockInv), and a fresh pair is known to one caller until it is          *)
(* published (FreshInv); so what rotates away the file's refresh token     *)
(* either publishes its replacement or is recorded as having lost it       *)
(* (DiskRenewable).  And the argument for the order of sessions: until     *)
(* something disturbs it, only the end of the line can be renewed, so no   *)
(* two grants are on their way to the file at once (OrderInv).             *)
(***************************************************************************)
EXTENDS SessionRenewal, TLAPS

USE DEF platform, calls, loose, Goto, Return, Lock, Unlock, Reissue, Merged, Spent, Blank

\* Spending a fault leaves a well-formed budget.
LEMMA SpendKeepsType ==
  ASSUME budget \in [Fault -> Nat], NEW k \in Fault, Spend(k)
  PROVE  budget' \in [Fault -> Nat]
  BY DEF Spend

\* Recording a stranded refresh token leaves a set of tokens.
LEMMA StrandKeepsType ==
  ASSUME stranded \subseteq Nat, NEW rt \in Nat, Strand(rt)
  PROVE  stranded' \subseteq Nat
  BY DEF Strand

\* Minting a pair and retiring a refresh token leave sets of tokens.
LEMMA MintKeepsType ==
  ASSUME issued \in Nat, live \subseteq Nat, accepted \subseteq Nat, NEW rt, Mint, Rotated(rt)
  PROVE  issued' \in Nat \ {0} /\ live' \subseteq Nat /\ accepted' \subseteq Nat
<1>1. issued + 1 \in Nat \ {0}
  OBVIOUS
<1>2. QED
  BY <1>1 DEF Mint, Rotated

\* Every step keeps the types, whatever the platform answers.
LEMMA TypeStep == TypeOK /\ [Next]_vars => TypeOK'
<1> SUFFICES ASSUME TypeOK, [Next]_vars PROVE TypeOK'
  OBVIOUS
<1> USE CallerAssumption DEF TypeOK, Session, NoSession, NoToken, Label, Outcome, Pair
<1>1. ASSUME NEW c \in Caller, Begin(c) PROVE TypeOK'
  BY <1>1 DEF Begin
<1>2. ASSUME NEW c \in Caller, Token(c) PROVE TypeOK'
  BY <1>2 DEF Token
<1>3. ASSUME NEW c \in Caller, Accept(c) PROVE TypeOK'
  BY <1>3 DEF Accept
<1>4. ASSUME NEW c \in Caller, Reject(c) PROVE TypeOK'
  BY <1>4 DEF Reject
<1>5. ASSUME NEW c \in Caller, RejectAgain(c) PROVE TypeOK'
  BY <1>5 DEF RejectAgain
<1>6. ASSUME NEW c \in Caller, CallFails(c) PROVE TypeOK'
  <2>1. budget' \in [Fault -> Nat]
    BY <1>6, SpendKeepsType DEF CallFails, Fault
  <2>2. QED
    BY <1>6, <2>1 DEF CallFails
<1>7. ASSUME NEW c \in Caller, RenewMovedOn(c) PROVE TypeOK'
  BY <1>7 DEF RenewMovedOn
<1>8. ASSUME NEW c \in Caller, RenewAdopts(c) PROVE TypeOK'
  BY <1>8 DEF RenewAdopts, Adoptable
<1>9. ASSUME NEW c \in Caller, RenewImpossible(c) PROVE TypeOK'
  BY <1>9 DEF RenewImpossible
<1>10. ASSUME NEW c \in Caller, RenewSend(c) PROVE TypeOK'
  BY <1>10 DEF RenewSend
<1>11. ASSUME NEW c \in Caller, EmptyGrant(c) PROVE TypeOK'
  BY <1>11 DEF EmptyGrant
<1>12. ASSUME NEW c \in Caller, Publish(c) PROVE TypeOK'
  BY <1>12 DEF Publish
<1>13. ASSUME NEW c \in Caller, PublishFails(c) PROVE TypeOK'
  <2>1. budget' \in [Fault -> Nat]
    BY <1>13, SpendKeepsType DEF PublishFails, Blank, Fault
  <2>2. Spent(c) \in Nat
    OBVIOUS
  <2>3. stranded' \subseteq Nat
    BY <1>13, <2>2, StrandKeepsType DEF PublishFails
  <2>4. QED
    BY <1>13, <2>1, <2>3 DEF PublishFails
<1>14. ASSUME NEW c \in Caller, KeepPrivate(c) PROVE TypeOK'
  BY <1>14 DEF KeepPrivate
<1>15. ASSUME NEW c \in Caller, FailureAdopts(c) PROVE TypeOK'
  BY <1>15 DEF FailureAdopts, Adoptable
<1>16. ASSUME NEW c \in Caller, FailureIsFinal(c) PROVE TypeOK'
  BY <1>16 DEF FailureIsFinal
<1>17. ASSUME NEW c \in Caller, Rotate(c) PROVE TypeOK'
  <2>1. Spent(c) \in Nat
    OBVIOUS
  <2>2. stranded' \subseteq Nat
    BY <1>17, <2>1 DEF Rotate
  <2>3. live' \subseteq Nat /\ issued' \in Nat \ {0} /\ accepted' \subseteq Nat
    BY <1>17, MintKeepsType DEF Rotate
  <2>4. QED
    BY <1>17, <2>2, <2>3 DEF Rotate
<1>18. ASSUME NEW c \in Caller, AnswerAccessOnly(c) PROVE TypeOK'
  BY <1>18 DEF AnswerAccessOnly, Mint
<1>19. ASSUME NEW c \in Caller, AnswerEmpty(c) PROVE TypeOK'
  BY <1>19 DEF AnswerEmpty
<1>20. ASSUME NEW c \in Caller, Refuse(c) PROVE TypeOK'
  BY <1>20 DEF Refuse
<1>21. ASSUME NEW c \in Caller, RpcFails(c) PROVE TypeOK'
  <2>1. budget' \in [Fault -> Nat]
    BY <1>21, SpendKeepsType DEF RpcFails, Fault
  <2>2. QED
    BY <1>21, <2>1 DEF RpcFails
<1>22. ASSUME NEW c \in Caller, ReplyLost(c) PROVE TypeOK'
  <2>1. budget' \in [Fault -> Nat]
    BY <1>22, SpendKeepsType DEF ReplyLost, Fault
  <2>2. Spent(c) \in Nat
    OBVIOUS
  <2>3. stranded' \subseteq Nat
    BY <1>22, <2>2, StrandKeepsType DEF ReplyLost
  <2>4. QED
    BY <1>22, <2>1, <2>3 DEF ReplyLost
<1>23. ASSUME NEW rt \in orphans, ServeOrphan(rt) PROVE TypeOK'
  <2>1. rt \in Nat
    OBVIOUS
  <2>2. CASE rt \in live
    BY <1>23, <2>1, <2>2, MintKeepsType DEF ServeOrphan
  <2>3. CASE rt \notin live
    BY <1>23, <2>3 DEF ServeOrphan
  <2>4. QED
    BY <2>2, <2>3
<1>24. ASSUME NEW tok \in accepted, Expire(tok) PROVE TypeOK'
  <2>1. budget' \in [Fault -> Nat]
    BY <1>24, SpendKeepsType DEF Expire, Fault
  <2>2. QED
    BY <1>24, <2>1 DEF Expire
<1>25. ASSUME NEW p \in up, Crash(p) PROVE TypeOK'
  <2>1. budget' \in [Fault -> Nat]
    BY <1>25, SpendKeepsType DEF Crash, Fault
  <2>2. p \in Proc
    OBVIOUS
  <2>3. mem[p].rt \in Nat
    BY <2>2
  <2>4. stranded' \subseteq Nat
    BY <1>25, <2>3, StrandKeepsType DEF Crash
  <2>5. QED
    BY <1>25, <2>1, <2>2, <2>3, <2>4 DEF Crash
<1>26. ASSUME NEW p \in Proc \ up, Restart(p) PROVE TypeOK'
  BY <1>26 DEF Restart, Supplied
<1>27. ASSUME NEW renewable \in BOOLEAN, Login(renewable) PROVE TypeOK'
  <2>1. budget' \in [Fault -> Nat]
    BY <1>27, SpendKeepsType DEF Login, Fault
  <2>2. QED
    BY <1>27, <2>1 DEF Login, Mint
<1>28. ASSUME Logout PROVE TypeOK'
  <2>1. budget' \in [Fault -> Nat]
    BY <1>28, SpendKeepsType DEF Logout, Fault
  <2>2. QED
    BY <1>28, <2>1 DEF Logout
<1>29. CASE UNCHANGED vars
  BY <1>29 DEF vars
<1>30. QED
  BY <1>1, <1>2, <1>3, <1>4, <1>5, <1>6, <1>7, <1>8, <1>9, <1>10, <1>11, <1>12, <1>13,
     <1>14, <1>15, <1>16, <1>17, <1>18, <1>19, <1>20, <1>21, <1>22, <1>23, <1>24, <1>25,
     <1>26, <1>27, <1>28, <1>29
  DEF Next, Interceptor, Renewal, Platform, Environment

\* Type correctness of the whole system, for every value of the constants.
THEOREM TypeCorrect == Spec => []TypeOK
<1>1. Init => TypeOK
  BY CallerAssumption, BudgetAssumption DEF Init, TypeOK, Session, Supplied, Pair, NoSession, NoToken,
     Label, Outcome
<1>2. QED
  BY <1>1, TypeStep, PTL DEF Spec

\* Whoever is inside Renew past its early returns owns its process's mutex, and
\* only running processes have calls: SessionSource.mu is held across the RPC.
LEMMA LockStep ==
  ASSUME TypeOK, LockInv, UpInv, [Next]_vars
  PROVE  LockInv' /\ UpInv'
<1> USE CallerAssumption DEF TypeOK, LockInv, UpInv, Holding, Free, MustRenew, Label
<1>1. ASSUME NEW c \in Caller, Begin(c) PROVE LockInv' /\ UpInv'
  BY <1>1 DEF Begin
<1>2. ASSUME NEW c \in Caller, Token(c) PROVE LockInv' /\ UpInv'
  BY <1>2 DEF Token
<1>3. ASSUME NEW c \in Caller, Accept(c) PROVE LockInv' /\ UpInv'
  BY <1>3 DEF Accept
<1>4. ASSUME NEW c \in Caller, Reject(c) PROVE LockInv' /\ UpInv'
  BY <1>4 DEF Reject
<1>5. ASSUME NEW c \in Caller, RejectAgain(c) PROVE LockInv' /\ UpInv'
  BY <1>5 DEF RejectAgain
<1>6. ASSUME NEW c \in Caller, CallFails(c) PROVE LockInv' /\ UpInv'
  BY <1>6 DEF CallFails
<1>7. ASSUME NEW c \in Caller, RenewMovedOn(c) PROVE LockInv' /\ UpInv'
  BY <1>7 DEF RenewMovedOn
<1>8. ASSUME NEW c \in Caller, RenewAdopts(c) PROVE LockInv' /\ UpInv'
  BY <1>8 DEF RenewAdopts
<1>9. ASSUME NEW c \in Caller, RenewImpossible(c) PROVE LockInv' /\ UpInv'
  BY <1>9 DEF RenewImpossible
<1>10. ASSUME NEW c \in Caller, RenewSend(c) PROVE LockInv' /\ UpInv'
  BY <1>10 DEF RenewSend
<1>11. ASSUME NEW c \in Caller, EmptyGrant(c) PROVE LockInv' /\ UpInv'
  BY <1>11 DEF EmptyGrant
<1>12. ASSUME NEW c \in Caller, Publish(c) PROVE LockInv' /\ UpInv'
  BY <1>12 DEF Publish
<1>13. ASSUME NEW c \in Caller, PublishFails(c) PROVE LockInv' /\ UpInv'
  BY <1>13 DEF PublishFails
<1>14. ASSUME NEW c \in Caller, KeepPrivate(c) PROVE LockInv' /\ UpInv'
  BY <1>14 DEF KeepPrivate
<1>15. ASSUME NEW c \in Caller, FailureAdopts(c) PROVE LockInv' /\ UpInv'
  BY <1>15 DEF FailureAdopts
<1>16. ASSUME NEW c \in Caller, FailureIsFinal(c) PROVE LockInv' /\ UpInv'
  BY <1>16 DEF FailureIsFinal
<1>17. ASSUME NEW c \in Caller, Rotate(c) PROVE LockInv' /\ UpInv'
  BY <1>17 DEF Rotate
<1>18. ASSUME NEW c \in Caller, AnswerAccessOnly(c) PROVE LockInv' /\ UpInv'
  BY <1>18 DEF AnswerAccessOnly
<1>19. ASSUME NEW c \in Caller, AnswerEmpty(c) PROVE LockInv' /\ UpInv'
  BY <1>19 DEF AnswerEmpty
<1>20. ASSUME NEW c \in Caller, Refuse(c) PROVE LockInv' /\ UpInv'
  BY <1>20 DEF Refuse
<1>21. ASSUME NEW c \in Caller, RpcFails(c) PROVE LockInv' /\ UpInv'
  BY <1>21 DEF RpcFails
<1>22. ASSUME NEW c \in Caller, ReplyLost(c) PROVE LockInv' /\ UpInv'
  BY <1>22 DEF ReplyLost
<1>23. ASSUME NEW rt \in orphans, ServeOrphan(rt) PROVE LockInv' /\ UpInv'
  BY <1>23 DEF ServeOrphan
<1>24. ASSUME NEW tok \in accepted, Expire(tok) PROVE LockInv' /\ UpInv'
  BY <1>24 DEF Expire
<1>25. ASSUME NEW p \in up, Crash(p) PROVE LockInv' /\ UpInv'
  BY <1>25 DEF Crash
<1>26. ASSUME NEW p \in Proc \ up, Restart(p) PROVE LockInv' /\ UpInv'
  BY <1>26 DEF Restart
<1>27. ASSUME NEW renewable \in BOOLEAN, Login(renewable) PROVE LockInv' /\ UpInv'
  BY <1>27 DEF Login
<1>28. ASSUME Logout PROVE LockInv' /\ UpInv'
  BY <1>28 DEF Logout
<1>29. CASE UNCHANGED vars
  BY <1>29 DEF vars
<1>30. QED
  BY <1>1, <1>2, <1>3, <1>4, <1>5, <1>6, <1>7, <1>8, <1>9, <1>10, <1>11, <1>12, <1>13,
     <1>14, <1>15, <1>16, <1>17, <1>18, <1>19, <1>20, <1>21, <1>22, <1>23, <1>24, <1>25,
     <1>26, <1>27, <1>28, <1>29
  DEF Next, Interceptor, Renewal, Platform, Environment

\* A mutex that is taken is held by a renewal that is still under way: no path out
\* of Renew, no crash and no restart leaves it locked for ever.
LEMMA OwnerStep ==
  ASSUME TypeOK, LockInv, UpInv, OwnerInv, [Next]_vars
  PROVE  OwnerInv'
<1> USE CallerAssumption DEF TypeOK, LockInv, UpInv, OwnerInv, Holding, Free, MustRenew, Label
<1>1. ASSUME NEW c \in Caller, Begin(c) PROVE OwnerInv'
  BY <1>1 DEF Begin
<1>2. ASSUME NEW c \in Caller, Token(c) PROVE OwnerInv'
  BY <1>2 DEF Token
<1>3. ASSUME NEW c \in Caller, Accept(c) PROVE OwnerInv'
  BY <1>3 DEF Accept
<1>4. ASSUME NEW c \in Caller, Reject(c) PROVE OwnerInv'
  BY <1>4 DEF Reject
<1>5. ASSUME NEW c \in Caller, RejectAgain(c) PROVE OwnerInv'
  BY <1>5 DEF RejectAgain
<1>6. ASSUME NEW c \in Caller, CallFails(c) PROVE OwnerInv'
  BY <1>6 DEF CallFails
<1>7. ASSUME NEW c \in Caller, RenewMovedOn(c) PROVE OwnerInv'
  BY <1>7 DEF RenewMovedOn
<1>8. ASSUME NEW c \in Caller, RenewAdopts(c) PROVE OwnerInv'
  BY <1>8 DEF RenewAdopts
<1>9. ASSUME NEW c \in Caller, RenewImpossible(c) PROVE OwnerInv'
  BY <1>9 DEF RenewImpossible
<1>10. ASSUME NEW c \in Caller, RenewSend(c) PROVE OwnerInv'
  BY <1>10 DEF RenewSend
<1>11. ASSUME NEW c \in Caller, EmptyGrant(c) PROVE OwnerInv'
  BY <1>11 DEF EmptyGrant
<1>12. ASSUME NEW c \in Caller, Publish(c) PROVE OwnerInv'
  BY <1>12 DEF Publish
<1>13. ASSUME NEW c \in Caller, PublishFails(c) PROVE OwnerInv'
  BY <1>13 DEF PublishFails
<1>14. ASSUME NEW c \in Caller, KeepPrivate(c) PROVE OwnerInv'
  BY <1>14 DEF KeepPrivate
<1>15. ASSUME NEW c \in Caller, FailureAdopts(c) PROVE OwnerInv'
  BY <1>15 DEF FailureAdopts
<1>16. ASSUME NEW c \in Caller, FailureIsFinal(c) PROVE OwnerInv'
  BY <1>16 DEF FailureIsFinal
<1>17. ASSUME NEW c \in Caller, Rotate(c) PROVE OwnerInv'
  BY <1>17 DEF Rotate
<1>18. ASSUME NEW c \in Caller, AnswerAccessOnly(c) PROVE OwnerInv'
  BY <1>18 DEF AnswerAccessOnly
<1>19. ASSUME NEW c \in Caller, AnswerEmpty(c) PROVE OwnerInv'
  BY <1>19 DEF AnswerEmpty
<1>20. ASSUME NEW c \in Caller, Refuse(c) PROVE OwnerInv'
  BY <1>20 DEF Refuse
<1>21. ASSUME NEW c \in Caller, RpcFails(c) PROVE OwnerInv'
  BY <1>21 DEF RpcFails
<1>22. ASSUME NEW c \in Caller, ReplyLost(c) PROVE OwnerInv'
  BY <1>22 DEF ReplyLost
<1>23. ASSUME NEW rt \in orphans, ServeOrphan(rt) PROVE OwnerInv'
  BY <1>23 DEF ServeOrphan
<1>24. ASSUME NEW tok \in accepted, Expire(tok) PROVE OwnerInv'
  BY <1>24 DEF Expire
<1>25. ASSUME NEW p \in up, Crash(p) PROVE OwnerInv'
  BY <1>25 DEF Crash
<1>26. ASSUME NEW p \in Proc \ up, Restart(p) PROVE OwnerInv'
  BY <1>26 DEF Restart
<1>27. ASSUME NEW renewable \in BOOLEAN, Login(renewable) PROVE OwnerInv'
  BY <1>27 DEF Login
<1>28. ASSUME Logout PROVE OwnerInv'
  BY <1>28 DEF Logout
<1>29. CASE UNCHANGED vars
  BY <1>29 DEF vars
<1>30. QED
  BY <1>1, <1>2, <1>3, <1>4, <1>5, <1>6, <1>7, <1>8, <1>9, <1>10, <1>11, <1>12, <1>13,
     <1>14, <1>15, <1>16, <1>17, <1>18, <1>19, <1>20, <1>21, <1>22, <1>23, <1>24, <1>25,
     <1>26, <1>27, <1>28, <1>29
  DEF Next, Interceptor, Renewal, Platform, Environment

\* Whatever the platform answers: no file, process, call or reply refers to a
\* session not yet issued, and a refresh token that is not its session's own belongs
\* to one the platform refuses.
Sound(s) ==
  /\ s.at <= issued /\ s.rt <= issued
  /\ s.rt = s.at \/ s.rt \notin accepted
SoundInv ==
  /\ Sound(disk) /\ \A p \in Proc : Sound(mem[p])
  /\ \A c \in Caller : Sound(grant[c]) /\ presented[c] <= issued

LEMMA SoundStep ==
  ASSUME TypeOK, SoundInv, MintedInv, SpendsOnlySpentSessions, [Next]_vars
  PROVE  SoundInv'
<1> USE CallerAssumption DEF TypeOK, SoundInv, Sound, MintedInv, SpendsOnlySpentSessions, Holding,
            Session, Pair, NoSession, NoToken, MustRenew
<1>1. ASSUME NEW c \in Caller, Begin(c) PROVE SoundInv'
  BY <1>1 DEF Begin
<1>2. ASSUME NEW c \in Caller, Token(c) PROVE SoundInv'
  BY <1>2 DEF Token
<1>3. ASSUME NEW c \in Caller, Accept(c) PROVE SoundInv'
  BY <1>3 DEF Accept
<1>4. ASSUME NEW c \in Caller, Reject(c) PROVE SoundInv'
  BY <1>4 DEF Reject
<1>5. ASSUME NEW c \in Caller, RejectAgain(c) PROVE SoundInv'
  BY <1>5 DEF RejectAgain
<1>6. ASSUME NEW c \in Caller, CallFails(c) PROVE SoundInv'
  BY <1>6 DEF CallFails
<1>7. ASSUME NEW c \in Caller, RenewMovedOn(c) PROVE SoundInv'
  BY <1>7 DEF RenewMovedOn
<1>8. ASSUME NEW c \in Caller, RenewAdopts(c) PROVE SoundInv'
  BY <1>8 DEF RenewAdopts
<1>9. ASSUME NEW c \in Caller, RenewImpossible(c) PROVE SoundInv'
  BY <1>9 DEF RenewImpossible
<1>10. ASSUME NEW c \in Caller, RenewSend(c) PROVE SoundInv'
  BY <1>10 DEF RenewSend
<1>11. ASSUME NEW c \in Caller, EmptyGrant(c) PROVE SoundInv'
  BY <1>11 DEF EmptyGrant
<1>12. ASSUME NEW c \in Caller, Publish(c) PROVE SoundInv'
  BY <1>12 DEF Publish
<1>13. ASSUME NEW c \in Caller, PublishFails(c) PROVE SoundInv'
  BY <1>13 DEF PublishFails
<1>14. ASSUME NEW c \in Caller, KeepPrivate(c) PROVE SoundInv'
  BY <1>14 DEF KeepPrivate
<1>15. ASSUME NEW c \in Caller, FailureAdopts(c) PROVE SoundInv'
  BY <1>15 DEF FailureAdopts
<1>16. ASSUME NEW c \in Caller, FailureIsFinal(c) PROVE SoundInv'
  BY <1>16 DEF FailureIsFinal
<1>17. ASSUME NEW c \in Caller, Rotate(c) PROVE SoundInv'
  BY <1>17 DEF Rotate, Mint, Rotated
<1>18. ASSUME NEW c \in Caller, AnswerAccessOnly(c) PROVE SoundInv'
  BY <1>18 DEF AnswerAccessOnly, Mint
<1>19. ASSUME NEW c \in Caller, AnswerEmpty(c) PROVE SoundInv'
  BY <1>19 DEF AnswerEmpty
<1>20. ASSUME NEW c \in Caller, Refuse(c) PROVE SoundInv'
  BY <1>20 DEF Refuse
<1>21. ASSUME NEW c \in Caller, RpcFails(c) PROVE SoundInv'
  BY <1>21 DEF RpcFails
<1>22. ASSUME NEW c \in Caller, ReplyLost(c) PROVE SoundInv'
  BY <1>22 DEF ReplyLost
<1>23. ASSUME NEW rt \in orphans, ServeOrphan(rt) PROVE SoundInv'
  <2>1. CASE rt \in live
    BY <1>23, <2>1 DEF ServeOrphan, Mint, Rotated
  <2>2. CASE rt \notin live
    BY <1>23, <2>2 DEF ServeOrphan
  <2>3. QED
    BY <2>1, <2>2
<1>24. ASSUME NEW tok \in accepted, Expire(tok) PROVE SoundInv'
  BY <1>24 DEF Expire
<1>25. ASSUME NEW p \in up, Crash(p) PROVE SoundInv'
  BY <1>25 DEF Crash
<1>26. ASSUME NEW p \in Proc \ up, Restart(p) PROVE SoundInv'
  BY <1>26 DEF Restart, Supplied
<1>27. ASSUME NEW renewable \in BOOLEAN, Login(renewable) PROVE SoundInv'
  BY <1>27 DEF Login, Mint
<1>28. ASSUME Logout PROVE SoundInv'
  BY <1>28 DEF Logout
<1>29. CASE UNCHANGED vars
  BY <1>29 DEF vars
<1>30. QED
  BY <1>1, <1>2, <1>3, <1>4, <1>5, <1>6, <1>7, <1>8, <1>9, <1>10, <1>11, <1>12, <1>13,
     <1>14, <1>15, <1>16, <1>17, <1>18, <1>19, <1>20, <1>21, <1>22, <1>23, <1>24, <1>25,
     <1>26, <1>27, <1>28, <1>29
  DEF Next, Interceptor, Renewal, Platform, Environment

\* Minting never makes a token that refers to a session not yet issued.
LEMMA MintedAreKnown ==
  ASSUME TypeOK, MintedInv, NEW rt, Mint, Rotated(rt)
  PROVE  /\ issued' = issued + 1
         /\ (\A n \in live : 0 < n /\ n <= issued)'
         /\ (\A n \in accepted : 0 < n /\ n <= issued)'
<1>1. (\A n \in live : 0 < n /\ n <= issued)'
  BY DEF Mint, Rotated, TypeOK, MintedInv
<1>2. (\A n \in accepted : 0 < n /\ n <= issued)'
  BY DEF Mint, TypeOK, MintedInv
<1>3. QED
  BY <1>1, <1>2 DEF Mint


\* No file, process, call or reply refers to a session not yet issued.
LEMMA KnownStep ==
  ASSUME "accessOnly" \notin Answers, TypeOK, KnownInv, [Next]_vars
  PROVE  KnownInv'
<1> USE CallerAssumption DEF TypeOK, KnownInv, Known, Session, Pair, NoSession, NoToken,
            MustRenew
<1>1. ASSUME NEW c \in Caller, Begin(c) PROVE KnownInv'
  BY <1>1 DEF Begin
<1>2. ASSUME NEW c \in Caller, Token(c) PROVE KnownInv'
  BY <1>2 DEF Token
<1>3. ASSUME NEW c \in Caller, Accept(c) PROVE KnownInv'
  BY <1>3 DEF Accept
<1>4. ASSUME NEW c \in Caller, Reject(c) PROVE KnownInv'
  BY <1>4 DEF Reject
<1>5. ASSUME NEW c \in Caller, RejectAgain(c) PROVE KnownInv'
  BY <1>5 DEF RejectAgain
<1>6. ASSUME NEW c \in Caller, CallFails(c) PROVE KnownInv'
  BY <1>6 DEF CallFails
<1>7. ASSUME NEW c \in Caller, RenewMovedOn(c) PROVE KnownInv'
  BY <1>7 DEF RenewMovedOn
<1>8. ASSUME NEW c \in Caller, RenewAdopts(c) PROVE KnownInv'
  BY <1>8 DEF RenewAdopts
<1>9. ASSUME NEW c \in Caller, RenewImpossible(c) PROVE KnownInv'
  BY <1>9 DEF RenewImpossible
<1>10. ASSUME NEW c \in Caller, RenewSend(c) PROVE KnownInv'
  BY <1>10 DEF RenewSend
<1>11. ASSUME NEW c \in Caller, EmptyGrant(c) PROVE KnownInv'
  BY <1>11 DEF EmptyGrant
<1>12. ASSUME NEW c \in Caller, Publish(c) PROVE KnownInv'
  BY <1>12 DEF Publish
<1>13. ASSUME NEW c \in Caller, PublishFails(c) PROVE KnownInv'
  BY <1>13 DEF PublishFails
<1>14. ASSUME NEW c \in Caller, KeepPrivate(c) PROVE KnownInv'
  BY <1>14 DEF KeepPrivate
<1>15. ASSUME NEW c \in Caller, FailureAdopts(c) PROVE KnownInv'
  BY <1>15 DEF FailureAdopts
<1>16. ASSUME NEW c \in Caller, FailureIsFinal(c) PROVE KnownInv'
  BY <1>16 DEF FailureIsFinal
<1>17. ASSUME NEW c \in Caller, Rotate(c) PROVE KnownInv'
  BY <1>17 DEF Rotate, Mint, Rotated
<1>18. ASSUME NEW c \in Caller, AnswerAccessOnly(c) PROVE KnownInv'
  BY <1>18 DEF AnswerAccessOnly
<1>19. ASSUME NEW c \in Caller, AnswerEmpty(c) PROVE KnownInv'
  BY <1>19 DEF AnswerEmpty
<1>20. ASSUME NEW c \in Caller, Refuse(c) PROVE KnownInv'
  BY <1>20 DEF Refuse
<1>21. ASSUME NEW c \in Caller, RpcFails(c) PROVE KnownInv'
  BY <1>21 DEF RpcFails
<1>22. ASSUME NEW c \in Caller, ReplyLost(c) PROVE KnownInv'
  BY <1>22 DEF ReplyLost
<1>23. ASSUME NEW rt \in orphans, ServeOrphan(rt) PROVE KnownInv'
  <2>1. orphans' \subseteq orphans
    BY <1>23 DEF ServeOrphan
  <2>2. CASE rt \in live
    BY <1>23, <2>1, <2>2 DEF ServeOrphan, Mint, Rotated
  <2>3. CASE rt \notin live
    BY <1>23, <2>1, <2>3 DEF ServeOrphan
  <2>4. QED
    BY <2>2, <2>3
<1>24. ASSUME NEW tok \in accepted, Expire(tok) PROVE KnownInv'
  BY <1>24 DEF Expire
<1>25. ASSUME NEW p \in up, Crash(p) PROVE KnownInv'
  BY <1>25 DEF Crash
<1>26. ASSUME NEW p \in Proc \ up, Restart(p) PROVE KnownInv'
  <2>1. Known(disk) /\ \A s \in Supplied : Known(s)
    BY DEF Supplied
  <2>2. Known(mem'[p]) /\ \A q \in Proc \ {p} : mem'[q] = mem[q]
    BY <1>26, <2>1 DEF Restart, Supplied
  <2>3. QED
    BY <1>26, <2>1, <2>2 DEF Restart
<1>27. ASSUME NEW renewable \in BOOLEAN, Login(renewable) PROVE KnownInv'
  BY <1>27 DEF Login, Mint, Rotated
<1>28. ASSUME Logout PROVE KnownInv'
  BY <1>28 DEF Logout
<1>29. CASE UNCHANGED vars
  BY <1>29 DEF vars
<1>30. QED
  BY <1>1, <1>2, <1>3, <1>4, <1>5, <1>6, <1>7, <1>8, <1>9, <1>10, <1>11, <1>12, <1>13,
     <1>14, <1>15, <1>16, <1>17, <1>18, <1>19, <1>20, <1>21, <1>22, <1>23, <1>24, <1>25,
     <1>26, <1>27, <1>28, <1>29
  DEF Next, Interceptor, Renewal, Platform, Environment

\* A platform that always rotates hands out pairs, which are bounded too.
LEMMA KnownIsSound ==
  ASSUME TypeOK, KnownInv, MintedInv
  PROVE  SoundInv
<1>1. ASSUME NEW s \in Session, Known(s) PROVE Sound(s)
  BY <1>1 DEF TypeOK, MintedInv, Session, Known, Sound, NoToken
<1>2. disk \in Session /\ (\A p \in Proc : mem[p] \in Session)
  BY DEF TypeOK
<1>3. Sound(disk) /\ \A p \in Proc : Sound(mem[p])
  BY <1>1, <1>2 DEF KnownInv
<1>4. \A c \in Caller : Sound(grant[c]) /\ presented[c] <= issued
  BY DEF KnownInv, Sound
<1>5. QED
  BY <1>3, <1>4 DEF SoundInv

\* The platform honours, and late requests carry, only tokens it has issued.
LEMMA MintedStep ==
  ASSUME TypeOK, SoundInv, MintedInv, [Next]_vars
  PROVE  MintedInv'
<1> USE CallerAssumption DEF TypeOK, SoundInv, Sound, MintedInv, Session, NoSession, NoToken,
            MustRenew
<1>1. ASSUME NEW c \in Caller, Begin(c) PROVE MintedInv'
  BY <1>1 DEF Begin
<1>2. ASSUME NEW c \in Caller, Token(c) PROVE MintedInv'
  BY <1>2 DEF Token
<1>3. ASSUME NEW c \in Caller, Accept(c) PROVE MintedInv'
  BY <1>3 DEF Accept
<1>4. ASSUME NEW c \in Caller, Reject(c) PROVE MintedInv'
  BY <1>4 DEF Reject
<1>5. ASSUME NEW c \in Caller, RejectAgain(c) PROVE MintedInv'
  BY <1>5 DEF RejectAgain
<1>6. ASSUME NEW c \in Caller, CallFails(c) PROVE MintedInv'
  BY <1>6 DEF CallFails
<1>7. ASSUME NEW c \in Caller, RenewMovedOn(c) PROVE MintedInv'
  BY <1>7 DEF RenewMovedOn
<1>8. ASSUME NEW c \in Caller, RenewAdopts(c) PROVE MintedInv'
  BY <1>8 DEF RenewAdopts
<1>9. ASSUME NEW c \in Caller, RenewImpossible(c) PROVE MintedInv'
  BY <1>9 DEF RenewImpossible
<1>10. ASSUME NEW c \in Caller, RenewSend(c) PROVE MintedInv'
  BY <1>10 DEF RenewSend
<1>11. ASSUME NEW c \in Caller, EmptyGrant(c) PROVE MintedInv'
  BY <1>11 DEF EmptyGrant
<1>12. ASSUME NEW c \in Caller, Publish(c) PROVE MintedInv'
  BY <1>12 DEF Publish
<1>13. ASSUME NEW c \in Caller, PublishFails(c) PROVE MintedInv'
  BY <1>13 DEF PublishFails
<1>14. ASSUME NEW c \in Caller, KeepPrivate(c) PROVE MintedInv'
  BY <1>14 DEF KeepPrivate
<1>15. ASSUME NEW c \in Caller, FailureAdopts(c) PROVE MintedInv'
  BY <1>15 DEF FailureAdopts
<1>16. ASSUME NEW c \in Caller, FailureIsFinal(c) PROVE MintedInv'
  BY <1>16 DEF FailureIsFinal
<1>17. ASSUME NEW c \in Caller, Rotate(c) PROVE MintedInv'
  BY <1>17 DEF Rotate, Mint, Rotated
<1>18. ASSUME NEW c \in Caller, AnswerAccessOnly(c) PROVE MintedInv'
  BY <1>18 DEF AnswerAccessOnly, Mint
<1>19. ASSUME NEW c \in Caller, AnswerEmpty(c) PROVE MintedInv'
  BY <1>19 DEF AnswerEmpty
<1>20. ASSUME NEW c \in Caller, Refuse(c) PROVE MintedInv'
  BY <1>20 DEF Refuse
<1>21. ASSUME NEW c \in Caller, RpcFails(c) PROVE MintedInv'
  <2>1. mem[Home[c]].rt \in Nat /\ mem[Home[c]].rt <= issued
    BY <1>21 DEF RpcFails
  <2>2. orphans' \subseteq orphans \cup {mem[Home[c]].rt}
    BY <1>21 DEF RpcFails
  <2>3. QED
    BY <1>21, <2>1, <2>2 DEF RpcFails
<1>22. ASSUME NEW c \in Caller, ReplyLost(c) PROVE MintedInv'
  BY <1>22 DEF ReplyLost
<1>23. ASSUME NEW rt \in orphans, ServeOrphan(rt) PROVE MintedInv'
  <2>1. \A n \in orphans' : n \in Nat /\ n <= issued
    BY <1>23 DEF ServeOrphan
  <2>2. (issued' = issued /\ live' = live /\ accepted' = accepted) \/ (Mint /\ Rotated(rt))
    BY <1>23 DEF ServeOrphan
  <2>3. issued' \in Nat /\ issued <= issued'
    BY <2>2 DEF Mint
  <2>4. (\A n \in orphans : n <= issued)'
    BY <2>1, <2>3
  <2>5. CASE issued' = issued /\ live' = live /\ accepted' = accepted
    BY <2>4, <2>5
  <2>6. CASE Mint /\ Rotated(rt)
    BY <2>4, <2>6, MintedAreKnown
  <2>7. QED
    BY <2>2, <2>5, <2>6
<1>24. ASSUME NEW tok \in accepted, Expire(tok) PROVE MintedInv'
  BY <1>24 DEF Expire
<1>25. ASSUME NEW p \in up, Crash(p) PROVE MintedInv'
  <2>1. mem[p].rt \in Nat /\ mem[p].rt <= issued
    BY <1>25 DEF Crash
  <2>2. orphans' \subseteq orphans \cup {mem[p].rt}
    BY <1>25 DEF Crash
  <2>3. QED
    BY <1>25, <2>1, <2>2 DEF Crash
<1>26. ASSUME NEW p \in Proc \ up, Restart(p) PROVE MintedInv'
  BY <1>26 DEF Restart
<1>27. ASSUME NEW renewable \in BOOLEAN, Login(renewable) PROVE MintedInv'
  BY <1>27 DEF Login, Mint, Rotated
<1>28. ASSUME Logout PROVE MintedInv'
  BY <1>28 DEF Logout
<1>29. CASE UNCHANGED vars
  BY <1>29 DEF vars
<1>30. QED
  BY <1>1, <1>2, <1>3, <1>4, <1>5, <1>6, <1>7, <1>8, <1>9, <1>10, <1>11, <1>12, <1>13,
     <1>14, <1>15, <1>16, <1>17, <1>18, <1>19, <1>20, <1>21, <1>22, <1>23, <1>24, <1>25,
     <1>26, <1>27, <1>28, <1>29
  DEF Next, Interceptor, Renewal, Platform, Environment

\* A rejected access token stays refused, and so does the one of the session a
\* renewal is spending: nobody can replace that session while the mutex is held.
LEMMA SpentStep ==
  ASSUME TypeOK, LockInv, UpInv, SoundInv, MintedInv, RejectedInv, SpendsOnlySpentSessions,
         [Next]_vars
  PROVE  RejectedInv' /\ SpendsOnlySpentSessions'
<1> USE CallerAssumption DEF TypeOK, LockInv, UpInv, SoundInv, Sound, MintedInv, RejectedInv,
            SpendsOnlySpentSessions, Session, Pair, NoSession, NoToken, MustRenew, MovedOn,
            Holding, Free
<1>1. ASSUME NEW c \in Caller, Begin(c) PROVE RejectedInv' /\ SpendsOnlySpentSessions'
  BY <1>1 DEF Begin
<1>2. ASSUME NEW c \in Caller, Token(c) PROVE RejectedInv' /\ SpendsOnlySpentSessions'
  BY <1>2 DEF Token
<1>3. ASSUME NEW c \in Caller, Accept(c) PROVE RejectedInv' /\ SpendsOnlySpentSessions'
  BY <1>3 DEF Accept
<1>4. ASSUME NEW c \in Caller, Reject(c) PROVE RejectedInv' /\ SpendsOnlySpentSessions'
  BY <1>4 DEF Reject
<1>5. ASSUME NEW c \in Caller, RejectAgain(c) PROVE RejectedInv' /\ SpendsOnlySpentSessions'
  BY <1>5 DEF RejectAgain
<1>6. ASSUME NEW c \in Caller, CallFails(c) PROVE RejectedInv' /\ SpendsOnlySpentSessions'
  BY <1>6 DEF CallFails
<1>7. ASSUME NEW c \in Caller, RenewMovedOn(c) PROVE RejectedInv' /\ SpendsOnlySpentSessions'
  BY <1>7 DEF RenewMovedOn
<1>8. ASSUME NEW c \in Caller, RenewAdopts(c) PROVE RejectedInv' /\ SpendsOnlySpentSessions'
  BY <1>8 DEF RenewAdopts
<1>9. ASSUME NEW c \in Caller, RenewImpossible(c) PROVE RejectedInv' /\
  SpendsOnlySpentSessions'
  BY <1>9 DEF RenewImpossible
<1>10. ASSUME NEW c \in Caller, RenewSend(c) PROVE RejectedInv' /\ SpendsOnlySpentSessions'
  BY <1>10 DEF RenewSend
<1>11. ASSUME NEW c \in Caller, EmptyGrant(c) PROVE RejectedInv' /\ SpendsOnlySpentSessions'
  BY <1>11 DEF EmptyGrant
<1>12. ASSUME NEW c \in Caller, Publish(c) PROVE RejectedInv' /\ SpendsOnlySpentSessions'
  BY <1>12 DEF Publish
<1>13. ASSUME NEW c \in Caller, PublishFails(c) PROVE RejectedInv' /\ SpendsOnlySpentSessions'
  BY <1>13 DEF PublishFails
<1>14. ASSUME NEW c \in Caller, KeepPrivate(c) PROVE RejectedInv' /\ SpendsOnlySpentSessions'
  BY <1>14 DEF KeepPrivate
<1>15. ASSUME NEW c \in Caller, FailureAdopts(c) PROVE RejectedInv' /\
  SpendsOnlySpentSessions'
  BY <1>15 DEF FailureAdopts
<1>16. ASSUME NEW c \in Caller, FailureIsFinal(c) PROVE RejectedInv' /\
  SpendsOnlySpentSessions'
  BY <1>16 DEF FailureIsFinal
<1>17. ASSUME NEW c \in Caller, Rotate(c) PROVE RejectedInv' /\ SpendsOnlySpentSessions'
  BY <1>17 DEF Rotate, Mint, Rotated
<1>18. ASSUME NEW c \in Caller, AnswerAccessOnly(c) PROVE RejectedInv' /\
  SpendsOnlySpentSessions'
  BY <1>18 DEF AnswerAccessOnly, Mint
<1>19. ASSUME NEW c \in Caller, AnswerEmpty(c) PROVE RejectedInv' /\ SpendsOnlySpentSessions'
  BY <1>19 DEF AnswerEmpty
<1>20. ASSUME NEW c \in Caller, Refuse(c) PROVE RejectedInv' /\ SpendsOnlySpentSessions'
  BY <1>20 DEF Refuse
<1>21. ASSUME NEW c \in Caller, RpcFails(c) PROVE RejectedInv' /\ SpendsOnlySpentSessions'
  <2>1. mem[Home[c]].rt \in Nat /\ mem[Home[c]].rt \notin accepted
    BY <1>21 DEF RpcFails
  <2>2. orphans' \subseteq orphans \cup {mem[Home[c]].rt}
    BY <1>21 DEF RpcFails
  <2>3. QED
    BY <1>21, <2>1, <2>2 DEF RpcFails
<1>22. ASSUME NEW c \in Caller, ReplyLost(c) PROVE RejectedInv' /\ SpendsOnlySpentSessions'
  BY <1>22 DEF ReplyLost
<1>23. ASSUME NEW rt \in orphans, ServeOrphan(rt) PROVE RejectedInv' /\
  SpendsOnlySpentSessions'
  <2>1. CASE rt \in live
    BY <1>23, <2>1 DEF ServeOrphan, Mint, Rotated
  <2>2. CASE rt \notin live
    BY <1>23, <2>2 DEF ServeOrphan
  <2>3. QED
    BY <2>1, <2>2
<1>24. ASSUME NEW tok \in accepted, Expire(tok) PROVE RejectedInv' /\ SpendsOnlySpentSessions'
  BY <1>24 DEF Expire
<1>25. ASSUME NEW p \in up, Crash(p) PROVE RejectedInv' /\ SpendsOnlySpentSessions'
  <2>1. mem[p].rt \in Nat
    OBVIOUS
  <2>2. ASSUME At(p, "renewing") PROVE mem[p].rt \notin accepted
    BY <2>2 DEF At
  <2>3. \A rt \in orphans' : rt \notin accepted
    BY <1>25, <2>1, <2>2 DEF Crash
  <2>4. QED
    BY <1>25, <2>3 DEF Crash
<1>26. ASSUME NEW p \in Proc \ up, Restart(p) PROVE RejectedInv' /\ SpendsOnlySpentSessions'
  BY <1>26 DEF Restart
<1>27. ASSUME NEW renewable \in BOOLEAN, Login(renewable) PROVE RejectedInv' /\
  SpendsOnlySpentSessions'
  BY <1>27 DEF Login, Mint, Rotated
<1>28. ASSUME Logout PROVE RejectedInv' /\ SpendsOnlySpentSessions'
  BY <1>28 DEF Logout
<1>29. CASE UNCHANGED vars
  BY <1>29 DEF vars
<1>30. QED
  BY <1>1, <1>2, <1>3, <1>4, <1>5, <1>6, <1>7, <1>8, <1>9, <1>10, <1>11, <1>12, <1>13,
     <1>14, <1>15, <1>16, <1>17, <1>18, <1>19, <1>20, <1>21, <1>22, <1>23, <1>24, <1>25,
     <1>26, <1>27, <1>28, <1>29
  DEF Next, Interceptor, Renewal, Platform, Environment

\* A grant that has not been published is known to nobody else, so nobody can
\* spend its refresh token before it reaches the file.
LEMMA FreshStep ==
  ASSUME "accessOnly" \notin Answers, TypeOK, LockInv, UpInv, KnownInv, MintedInv, AheadInv, FreshInv,
         [Next]_vars
  PROVE  FreshInv'
<1> USE CallerAssumption DEF TypeOK, LockInv, UpInv, KnownInv, Known, MintedInv, FreshInv,
            HasGrant, Session, Pair, NoSession, NoToken, MustRenew, Holding, Free
<1>1. ASSUME NEW c \in Caller, Begin(c) PROVE FreshInv'
  BY <1>1 DEF Begin
<1>2. ASSUME NEW c \in Caller, Token(c) PROVE FreshInv'
  BY <1>2 DEF Token
<1>3. ASSUME NEW c \in Caller, Accept(c) PROVE FreshInv'
  BY <1>3 DEF Accept
<1>4. ASSUME NEW c \in Caller, Reject(c) PROVE FreshInv'
  BY <1>4 DEF Reject
<1>5. ASSUME NEW c \in Caller, RejectAgain(c) PROVE FreshInv'
  BY <1>5 DEF RejectAgain
<1>6. ASSUME NEW c \in Caller, CallFails(c) PROVE FreshInv'
  BY <1>6 DEF CallFails
<1>7. ASSUME NEW c \in Caller, RenewMovedOn(c) PROVE FreshInv'
  BY <1>7 DEF RenewMovedOn
<1>8. ASSUME NEW c \in Caller, RenewAdopts(c) PROVE FreshInv'
  BY <1>8 DEF RenewAdopts
<1>9. ASSUME NEW c \in Caller, RenewImpossible(c) PROVE FreshInv'
  BY <1>9 DEF RenewImpossible
<1>10. ASSUME NEW c \in Caller, RenewSend(c) PROVE FreshInv'
  BY <1>10 DEF RenewSend
<1>11. ASSUME NEW c \in Caller, EmptyGrant(c) PROVE FreshInv'
  BY <1>11 DEF EmptyGrant
<1>12. ASSUME NEW c \in Caller, Publish(c) PROVE FreshInv'
  BY <1>12 DEF Publish
<1>13. ASSUME NEW c \in Caller, PublishFails(c) PROVE FreshInv'
  BY <1>13 DEF PublishFails
<1>14. ASSUME NEW c \in Caller, KeepPrivate(c) PROVE FreshInv'
  BY <1>14 DEF KeepPrivate
<1>15. ASSUME NEW c \in Caller, FailureAdopts(c) PROVE FreshInv'
  BY <1>15 DEF FailureAdopts
<1>16. ASSUME NEW c \in Caller, FailureIsFinal(c) PROVE FreshInv'
  BY <1>16 DEF FailureIsFinal
<1>17. ASSUME NEW c \in Caller, Rotate(c) PROVE FreshInv'
  BY <1>17 DEF Rotate, Mint, Rotated
<1>18. ASSUME NEW c \in Caller, AnswerAccessOnly(c) PROVE FreshInv'
  BY <1>18 DEF AnswerAccessOnly
<1>19. ASSUME NEW c \in Caller, AnswerEmpty(c) PROVE FreshInv'
  BY <1>19 DEF AnswerEmpty
<1>20. ASSUME NEW c \in Caller, Refuse(c) PROVE FreshInv'
  BY <1>20 DEF Refuse
<1>21. ASSUME NEW c \in Caller, RpcFails(c) PROVE FreshInv'
  BY <1>21 DEF RpcFails
<1>22. ASSUME NEW c \in Caller, ReplyLost(c) PROVE FreshInv'
  BY <1>22 DEF ReplyLost
<1>23. ASSUME NEW rt \in orphans, ServeOrphan(rt) PROVE FreshInv'
  <2>1. orphans' \subseteq orphans
    BY <1>23 DEF ServeOrphan
  <2>2. CASE rt \in live
    BY <1>23, <2>1, <2>2 DEF ServeOrphan, Mint, Rotated
  <2>3. CASE rt \notin live
    BY <1>23, <2>1, <2>3 DEF ServeOrphan
  <2>4. QED
    BY <2>2, <2>3
<1>24. ASSUME NEW tok \in accepted, Expire(tok) PROVE FreshInv'
  BY <1>24 DEF Expire
<1>25. ASSUME NEW p \in up, Crash(p) PROVE FreshInv'
  BY <1>25 DEF Crash
<1>26. ASSUME NEW p \in Proc \ up, Restart(p) PROVE FreshInv'
  <2>1. mem'[p].rt \in {disk.rt, 1, NoToken} /\ \A q \in Proc \ {p} : mem'[q] = mem[q]
    BY <1>26 DEF Restart, Supplied
  <2>2. ASSUME NEW c \in Caller, HasGrant(c) PROVE Home[c] \in up /\ grant[c].rt > 1
    BY <2>2 DEF AheadInv
  <2>3. QED
    BY <1>26, <2>1, <2>2 DEF Restart
<1>27. ASSUME NEW renewable \in BOOLEAN, Login(renewable) PROVE FreshInv'
  BY <1>27 DEF Login, Mint, Rotated
<1>28. ASSUME Logout PROVE FreshInv'
  BY <1>28 DEF Logout
<1>29. CASE UNCHANGED vars
  BY <1>29 DEF vars
<1>30. QED
  BY <1>1, <1>2, <1>3, <1>4, <1>5, <1>6, <1>7, <1>8, <1>9, <1>10, <1>11, <1>12, <1>13,
     <1>14, <1>15, <1>16, <1>17, <1>18, <1>19, <1>20, <1>21, <1>22, <1>23, <1>24, <1>25,
     <1>26, <1>27, <1>28, <1>29
  DEF Next, Interceptor, Renewal, Platform, Environment

\* The refresh token in the file stays live, or its replacement is in flight, or
\* a failure lost the replacement.
LEMMA CarryStep ==
  ASSUME "accessOnly" \notin Answers, TypeOK, LockInv, UpInv, KnownInv, MintedInv, FreshInv,
         DiskRenewable, [Next]_vars
  PROVE  DiskRenewable'
<1> USE CallerAssumption DEF TypeOK, LockInv, UpInv, KnownInv, Known, MintedInv, FreshInv,
            HasGrant, DiskRenewable, InFlight, Session, Pair, NoSession, NoToken, MustRenew,
            Holding, Free
<1>1. ASSUME NEW c \in Caller, Begin(c) PROVE DiskRenewable'
  BY <1>1 DEF Begin
<1>2. ASSUME NEW c \in Caller, Token(c) PROVE DiskRenewable'
  BY <1>2 DEF Token
<1>3. ASSUME NEW c \in Caller, Accept(c) PROVE DiskRenewable'
  BY <1>3 DEF Accept
<1>4. ASSUME NEW c \in Caller, Reject(c) PROVE DiskRenewable'
  BY <1>4 DEF Reject
<1>5. ASSUME NEW c \in Caller, RejectAgain(c) PROVE DiskRenewable'
  BY <1>5 DEF RejectAgain
<1>6. ASSUME NEW c \in Caller, CallFails(c) PROVE DiskRenewable'
  BY <1>6 DEF CallFails
<1>7. ASSUME NEW c \in Caller, RenewMovedOn(c) PROVE DiskRenewable'
  BY <1>7 DEF RenewMovedOn
<1>8. ASSUME NEW c \in Caller, RenewAdopts(c) PROVE DiskRenewable'
  BY <1>8 DEF RenewAdopts
<1>9. ASSUME NEW c \in Caller, RenewImpossible(c) PROVE DiskRenewable'
  BY <1>9 DEF RenewImpossible
<1>10. ASSUME NEW c \in Caller, RenewSend(c) PROVE DiskRenewable'
  BY <1>10 DEF RenewSend
<1>11. ASSUME NEW c \in Caller, EmptyGrant(c) PROVE DiskRenewable'
  BY <1>11 DEF EmptyGrant
<1>12. ASSUME NEW c \in Caller, Publish(c) PROVE DiskRenewable'
  BY <1>12 DEF Publish
<1>13. ASSUME NEW c \in Caller, PublishFails(c) PROVE DiskRenewable'
  BY <1>13 DEF PublishFails, Strand
<1>14. ASSUME NEW c \in Caller, KeepPrivate(c) PROVE DiskRenewable'
  BY <1>14 DEF KeepPrivate
<1>15. ASSUME NEW c \in Caller, FailureAdopts(c) PROVE DiskRenewable'
  BY <1>15 DEF FailureAdopts
<1>16. ASSUME NEW c \in Caller, FailureIsFinal(c) PROVE DiskRenewable'
  BY <1>16 DEF FailureIsFinal
<1>17. ASSUME NEW c \in Caller, Rotate(c) PROVE DiskRenewable'
  <2> SUFFICES ASSUME disk.rt # NoToken, disk.rt \notin live'
               PROVE  disk.rt \in stranded' \/ InFlight(disk.rt)'
    BY <1>17 DEF Rotate
  <2>1. CASE disk.rt = Spent(c) /\ Origin[Home[c]] = "file"
    BY <1>17, <2>1 DEF Rotate, Rotated
  <2>2. CASE disk.rt = Spent(c) /\ Origin[Home[c]] # "file"
    BY <1>17, <2>2 DEF Rotate
  <2>3. CASE disk.rt # Spent(c)
    <3>1. disk.rt \in stranded \/ InFlight(disk.rt)
      BY <1>17, <2>3 DEF Rotate, Rotated
    <3>2. CASE disk.rt \in stranded
      BY <1>17, <3>2 DEF Rotate
    <3>3. ASSUME NEW d \in Caller, pc[d] = "granted", Origin[Home[d]] = "file",
                 Spent(d) = disk.rt, grant[d].rt \in live
          PROVE  InFlight(disk.rt)'
      <4>1. HasGrant(d) /\ d # c
        BY <1>17, <3>3 DEF Rotate
      <4>2. grant[d].rt # Spent(c)
        BY <4>1
      <4>3. QED
        BY <1>17, <3>3, <4>1, <4>2 DEF Rotate, Rotated
    <3>4. QED
      BY <3>1, <3>2, <3>3
  <2>4. QED
    BY <2>1, <2>2, <2>3
<1>18. ASSUME NEW c \in Caller, AnswerAccessOnly(c) PROVE DiskRenewable'
  BY <1>18 DEF AnswerAccessOnly
<1>19. ASSUME NEW c \in Caller, AnswerEmpty(c) PROVE DiskRenewable'
  BY <1>19 DEF AnswerEmpty
<1>20. ASSUME NEW c \in Caller, Refuse(c) PROVE DiskRenewable'
  BY <1>20 DEF Refuse
<1>21. ASSUME NEW c \in Caller, RpcFails(c) PROVE DiskRenewable'
  BY <1>21 DEF RpcFails
<1>22. ASSUME NEW c \in Caller, ReplyLost(c) PROVE DiskRenewable'
  BY <1>22 DEF ReplyLost, Strand
<1>23. ASSUME NEW rt \in orphans, ServeOrphan(rt) PROVE DiskRenewable'
  <2>1. orphans' \subseteq orphans
    BY <1>23 DEF ServeOrphan
  <2>2. CASE rt \in live
    BY <1>23, <2>1, <2>2 DEF ServeOrphan, Mint, Rotated
  <2>3. CASE rt \notin live
    BY <1>23, <2>1, <2>3 DEF ServeOrphan
  <2>4. QED
    BY <2>2, <2>3
<1>24. ASSUME NEW tok \in accepted, Expire(tok) PROVE DiskRenewable'
  BY <1>24 DEF Expire
<1>25. ASSUME NEW p \in up, Crash(p) PROVE DiskRenewable'
  BY <1>25 DEF Crash, At, Strand
<1>26. ASSUME NEW p \in Proc \ up, Restart(p) PROVE DiskRenewable'
  BY <1>26 DEF Restart
<1>27. ASSUME NEW renewable \in BOOLEAN, Login(renewable) PROVE DiskRenewable'
  BY <1>27 DEF Login, Mint, Rotated
<1>28. ASSUME Logout PROVE DiskRenewable'
  BY <1>28 DEF Logout
<1>29. CASE UNCHANGED vars
  BY <1>29 DEF vars
<1>30. QED
  BY <1>1, <1>2, <1>3, <1>4, <1>5, <1>6, <1>7, <1>8, <1>9, <1>10, <1>11, <1>12, <1>13,
     <1>14, <1>15, <1>16, <1>17, <1>18, <1>19, <1>20, <1>21, <1>22, <1>23, <1>24, <1>25,
     <1>26, <1>27, <1>28, <1>29
  DEF Next, Interceptor, Renewal, Platform, Environment

\* What is left of the budget of faults never grows, so what has been spent once
\* stays spent: a behaviour that was disturbed stays disturbed.
LEMMA BudgetStep ==
  ASSUME TypeOK, BudgetInv, [Next]_vars
  PROVE  BudgetInv' /\ (Undisturbed' => Undisturbed)
<1> USE BudgetAssumption DEF TypeOK
<1> SUFFICES \A k \in Fault : budget'[k] <= budget[k]
  BY TypeStep DEF BudgetInv, Undisturbed, Fault
<1>1. ASSUME NEW c \in Caller, Begin(c) PROVE \A k \in Fault : budget'[k] <= budget[k]
  BY <1>1 DEF Begin
<1>2. ASSUME NEW c \in Caller, Token(c) PROVE \A k \in Fault : budget'[k] <= budget[k]
  BY <1>2 DEF Token
<1>3. ASSUME NEW c \in Caller, Accept(c) PROVE \A k \in Fault : budget'[k] <= budget[k]
  BY <1>3 DEF Accept
<1>4. ASSUME NEW c \in Caller, Reject(c) PROVE \A k \in Fault : budget'[k] <= budget[k]
  BY <1>4 DEF Reject
<1>5. ASSUME NEW c \in Caller, RejectAgain(c) PROVE \A k \in Fault : budget'[k] <= budget[k]
  BY <1>5 DEF RejectAgain
<1>6. ASSUME NEW c \in Caller, CallFails(c) PROVE \A k \in Fault : budget'[k] <= budget[k]
  BY <1>6 DEF CallFails, Spend, Fault
<1>7. ASSUME NEW c \in Caller, RenewMovedOn(c) PROVE \A k \in Fault : budget'[k] <= budget[k]
  BY <1>7 DEF RenewMovedOn
<1>8. ASSUME NEW c \in Caller, RenewAdopts(c) PROVE \A k \in Fault : budget'[k] <= budget[k]
  BY <1>8 DEF RenewAdopts
<1>9. ASSUME NEW c \in Caller, RenewImpossible(c) PROVE \A k \in Fault : budget'[k] <= budget[k]
  BY <1>9 DEF RenewImpossible
<1>10. ASSUME NEW c \in Caller, RenewSend(c) PROVE \A k \in Fault : budget'[k] <= budget[k]
  BY <1>10 DEF RenewSend
<1>11. ASSUME NEW c \in Caller, EmptyGrant(c) PROVE \A k \in Fault : budget'[k] <= budget[k]
  BY <1>11 DEF EmptyGrant
<1>12. ASSUME NEW c \in Caller, Publish(c) PROVE \A k \in Fault : budget'[k] <= budget[k]
  BY <1>12 DEF Publish
<1>13. ASSUME NEW c \in Caller, PublishFails(c) PROVE \A k \in Fault : budget'[k] <= budget[k]
  BY <1>13 DEF PublishFails, Spend, Fault
<1>14. ASSUME NEW c \in Caller, KeepPrivate(c) PROVE \A k \in Fault : budget'[k] <= budget[k]
  BY <1>14 DEF KeepPrivate
<1>15. ASSUME NEW c \in Caller, FailureAdopts(c) PROVE \A k \in Fault : budget'[k] <= budget[k]
  BY <1>15 DEF FailureAdopts
<1>16. ASSUME NEW c \in Caller, FailureIsFinal(c) PROVE \A k \in Fault : budget'[k] <= budget[k]
  BY <1>16 DEF FailureIsFinal
<1>17. ASSUME NEW c \in Caller, Rotate(c) PROVE \A k \in Fault : budget'[k] <= budget[k]
  BY <1>17 DEF Rotate
<1>18. ASSUME NEW c \in Caller, AnswerAccessOnly(c) PROVE \A k \in Fault : budget'[k] <= budget[k]
  BY <1>18 DEF AnswerAccessOnly
<1>19. ASSUME NEW c \in Caller, AnswerEmpty(c) PROVE \A k \in Fault : budget'[k] <= budget[k]
  BY <1>19 DEF AnswerEmpty
<1>20. ASSUME NEW c \in Caller, Refuse(c) PROVE \A k \in Fault : budget'[k] <= budget[k]
  BY <1>20 DEF Refuse
<1>21. ASSUME NEW c \in Caller, RpcFails(c) PROVE \A k \in Fault : budget'[k] <= budget[k]
  BY <1>21 DEF RpcFails, Spend, Fault
<1>22. ASSUME NEW c \in Caller, ReplyLost(c) PROVE \A k \in Fault : budget'[k] <= budget[k]
  BY <1>22 DEF ReplyLost, Spend, Fault
<1>23. ASSUME NEW rt \in orphans, ServeOrphan(rt) PROVE \A k \in Fault : budget'[k] <= budget[k]
  BY <1>23 DEF ServeOrphan
<1>24. ASSUME NEW tok \in accepted, Expire(tok) PROVE \A k \in Fault : budget'[k] <= budget[k]
  BY <1>24 DEF Expire, Spend, Fault
<1>25. ASSUME NEW p \in up, Crash(p) PROVE \A k \in Fault : budget'[k] <= budget[k]
  BY <1>25 DEF Crash, Spend, Fault
<1>26. ASSUME NEW p \in Proc \ up, Restart(p) PROVE \A k \in Fault : budget'[k] <= budget[k]
  BY <1>26 DEF Restart
<1>27. ASSUME NEW renewable \in BOOLEAN, Login(renewable) PROVE \A k \in Fault : budget'[k] <= budget[k]
  BY <1>27 DEF Login, Spend, Fault
<1>28. ASSUME Logout PROVE \A k \in Fault : budget'[k] <= budget[k]
  BY <1>28 DEF Logout, Spend, Fault
<1>29. CASE UNCHANGED vars
  BY <1>29 DEF vars
<1>30. QED
  BY <1>1, <1>2, <1>3, <1>4, <1>5, <1>6, <1>7, <1>8, <1>9, <1>10, <1>11, <1>12, <1>13,
     <1>14, <1>15, <1>16, <1>17, <1>18, <1>19, <1>20, <1>21, <1>22, <1>23, <1>24, <1>25,
     <1>26, <1>27, <1>28, <1>29
  DEF Next, Interceptor, Renewal, Platform, Environment

\* Nothing replaces the session of a process while it holds a grant, and grants
\* are newer than everything minted before them.
LEMMA AheadStep ==
  ASSUME "accessOnly" \notin Answers, TypeOK, LockInv, UpInv, KnownInv, MintedInv, AheadInv,
         [Next]_vars
  PROVE  AheadInv'
<1> USE CallerAssumption DEF TypeOK, LockInv, UpInv, KnownInv, Known, MintedInv, AheadInv,
            HasGrant, Session, Pair, NoSession, NoToken, MustRenew, Holding, Free
<1>1. ASSUME NEW c \in Caller, Begin(c) PROVE AheadInv'
  BY <1>1 DEF Begin
<1>2. ASSUME NEW c \in Caller, Token(c) PROVE AheadInv'
  BY <1>2 DEF Token
<1>3. ASSUME NEW c \in Caller, Accept(c) PROVE AheadInv'
  BY <1>3 DEF Accept
<1>4. ASSUME NEW c \in Caller, Reject(c) PROVE AheadInv'
  BY <1>4 DEF Reject
<1>5. ASSUME NEW c \in Caller, RejectAgain(c) PROVE AheadInv'
  BY <1>5 DEF RejectAgain
<1>6. ASSUME NEW c \in Caller, CallFails(c) PROVE AheadInv'
  BY <1>6 DEF CallFails
<1>7. ASSUME NEW c \in Caller, RenewMovedOn(c) PROVE AheadInv'
  BY <1>7 DEF RenewMovedOn
<1>8. ASSUME NEW c \in Caller, RenewAdopts(c) PROVE AheadInv'
  BY <1>8 DEF RenewAdopts
<1>9. ASSUME NEW c \in Caller, RenewImpossible(c) PROVE AheadInv'
  BY <1>9 DEF RenewImpossible
<1>10. ASSUME NEW c \in Caller, RenewSend(c) PROVE AheadInv'
  BY <1>10 DEF RenewSend
<1>11. ASSUME NEW c \in Caller, EmptyGrant(c) PROVE AheadInv'
  BY <1>11 DEF EmptyGrant
<1>12. ASSUME NEW c \in Caller, Publish(c) PROVE AheadInv'
  BY <1>12 DEF Publish
<1>13. ASSUME NEW c \in Caller, PublishFails(c) PROVE AheadInv'
  BY <1>13 DEF PublishFails
<1>14. ASSUME NEW c \in Caller, KeepPrivate(c) PROVE AheadInv'
  BY <1>14 DEF KeepPrivate
<1>15. ASSUME NEW c \in Caller, FailureAdopts(c) PROVE AheadInv'
  BY <1>15 DEF FailureAdopts
<1>16. ASSUME NEW c \in Caller, FailureIsFinal(c) PROVE AheadInv'
  BY <1>16 DEF FailureIsFinal
<1>17. ASSUME NEW c \in Caller, Rotate(c) PROVE AheadInv'
  BY <1>17 DEF Rotate, Mint, Rotated
<1>18. ASSUME NEW c \in Caller, AnswerAccessOnly(c) PROVE AheadInv'
  BY <1>18 DEF AnswerAccessOnly
<1>19. ASSUME NEW c \in Caller, AnswerEmpty(c) PROVE AheadInv'
  BY <1>19 DEF AnswerEmpty
<1>20. ASSUME NEW c \in Caller, Refuse(c) PROVE AheadInv'
  BY <1>20 DEF Refuse
<1>21. ASSUME NEW c \in Caller, RpcFails(c) PROVE AheadInv'
  BY <1>21 DEF RpcFails
<1>22. ASSUME NEW c \in Caller, ReplyLost(c) PROVE AheadInv'
  BY <1>22 DEF ReplyLost
<1>23. ASSUME NEW rt \in orphans, ServeOrphan(rt) PROVE AheadInv'
  <2>1. CASE rt \in live
    BY <1>23, <2>1 DEF ServeOrphan, Mint, Rotated
  <2>2. CASE rt \notin live
    BY <1>23, <2>2 DEF ServeOrphan
  <2>3. QED
    BY <2>1, <2>2
<1>24. ASSUME NEW tok \in accepted, Expire(tok) PROVE AheadInv'
  BY <1>24 DEF Expire
<1>25. ASSUME NEW p \in up, Crash(p) PROVE AheadInv'
  BY <1>25 DEF Crash
<1>26. ASSUME NEW p \in Proc \ up, Restart(p) PROVE AheadInv'
  BY <1>26 DEF Restart
<1>27. ASSUME NEW renewable \in BOOLEAN, Login(renewable) PROVE AheadInv'
  BY <1>27 DEF Login, Mint
<1>28. ASSUME Logout PROVE AheadInv'
  BY <1>28 DEF Logout
<1>29. CASE UNCHANGED vars
  BY <1>29 DEF vars
<1>30. QED
  BY <1>1, <1>2, <1>3, <1>4, <1>5, <1>6, <1>7, <1>8, <1>9, <1>10, <1>11, <1>12, <1>13,
     <1>14, <1>15, <1>16, <1>17, <1>18, <1>19, <1>20, <1>21, <1>22, <1>23, <1>24, <1>25,
     <1>26, <1>27, <1>28, <1>29
  DEF Next, Interceptor, Renewal, Platform, Environment

\* Until something disturbs it, the file's sessions stay on one line: a rotation
\* spends its end, and nothing but that rotation's publication extends it.
LEMMA OrderStep ==
  ASSUME "accessOnly" \notin Answers, TypeOK, LockInv, UpInv, KnownInv, MintedInv, FreshInv,
         BudgetInv, OrderInv, [Next]_vars
  PROVE  OrderInv'
<1>0. Undisturbed' => Undisturbed
  BY BudgetStep
<1> DEFINE OnLine == \A p \in Proc : Origin[p] = "file" =>
                       mem[p].at <= disk.at /\ (mem[p].rt \in live => mem[p].rt = disk.rt)
           AtEnd  == \A c \in Caller : HasGrant(c) /\ Origin[Home[c]] = "file" =>
                       /\ disk.at < grant[c].at /\ disk.rt \notin live
                       /\ \A d \in Caller : HasGrant(d) /\ Origin[Home[d]] = "file" => d = c
<1> SUFFICES ASSUME Undisturbed', OnLine, AtEnd
             PROVE  OnLine' /\ AtEnd'
  BY <1>0 DEF OrderInv
<1> USE CallerAssumption DEF TypeOK, LockInv, UpInv, KnownInv, Known, MintedInv, FreshInv,
            HasGrant, Session, Pair, NoSession, NoToken, MustRenew, Holding, Free
<1>1. ASSUME NEW c \in Caller, Begin(c) PROVE OnLine' /\ AtEnd'
  BY <1>1 DEF Begin
<1>2. ASSUME NEW c \in Caller, Token(c) PROVE OnLine' /\ AtEnd'
  BY <1>2 DEF Token
<1>3. ASSUME NEW c \in Caller, Accept(c) PROVE OnLine' /\ AtEnd'
  BY <1>3 DEF Accept
<1>4. ASSUME NEW c \in Caller, Reject(c) PROVE OnLine' /\ AtEnd'
  BY <1>4 DEF Reject
<1>5. ASSUME NEW c \in Caller, RejectAgain(c) PROVE OnLine' /\ AtEnd'
  BY <1>5 DEF RejectAgain
<1>6. ASSUME NEW c \in Caller, CallFails(c) PROVE OnLine' /\ AtEnd'
  BY <1>6 DEF CallFails
<1>7. ASSUME NEW c \in Caller, RenewMovedOn(c) PROVE OnLine' /\ AtEnd'
  BY <1>7 DEF RenewMovedOn
<1>8. ASSUME NEW c \in Caller, RenewAdopts(c) PROVE OnLine' /\ AtEnd'
  BY <1>8 DEF RenewAdopts, Adoptable
<1>9. ASSUME NEW c \in Caller, RenewImpossible(c) PROVE OnLine' /\ AtEnd'
  BY <1>9 DEF RenewImpossible
<1>10. ASSUME NEW c \in Caller, RenewSend(c) PROVE OnLine' /\ AtEnd'
  BY <1>10 DEF RenewSend
<1>11. ASSUME NEW c \in Caller, EmptyGrant(c) PROVE OnLine' /\ AtEnd'
  BY <1>11 DEF EmptyGrant
<1>12. ASSUME NEW c \in Caller, Publish(c) PROVE OnLine' /\ AtEnd'
  <2>1. disk' = mem'[Home[c]] /\ disk'.at = grant[c].at /\ disk'.rt = grant[c].rt
    BY <1>12 DEF Publish
  <2>2. disk.at < grant[c].at /\ disk.rt \notin live
    BY <1>12 DEF Publish
  <2>3. OnLine'
    BY <1>12, <2>1, <2>2 DEF Publish
  <2>4. ASSUME NEW d \in Caller, HasGrant(d)', Origin[Home[d]] = "file" PROVE FALSE
    <3>1. d # c /\ HasGrant(d)
      BY <1>12, <2>4 DEF Publish
    <3>2. QED
      BY <1>12, <2>4, <3>1 DEF Publish
  <2>5. QED
    BY <2>3, <2>4
<1>13. ASSUME NEW c \in Caller, PublishFails(c) PROVE OnLine' /\ AtEnd'
  BY <1>13, BudgetAssumption DEF PublishFails, Spend, Undisturbed, BudgetInv, Fault
<1>14. ASSUME NEW c \in Caller, KeepPrivate(c) PROVE OnLine' /\ AtEnd'
  BY <1>14 DEF KeepPrivate
<1>15. ASSUME NEW c \in Caller, FailureAdopts(c) PROVE OnLine' /\ AtEnd'
  BY <1>15 DEF FailureAdopts, Adoptable
<1>16. ASSUME NEW c \in Caller, FailureIsFinal(c) PROVE OnLine' /\ AtEnd'
  BY <1>16 DEF FailureIsFinal
<1>17. ASSUME NEW c \in Caller, Rotate(c) PROVE OnLine' /\ AtEnd'
  BY <1>17 DEF Rotate, Mint, Rotated
<1>18. ASSUME NEW c \in Caller, AnswerAccessOnly(c) PROVE OnLine' /\ AtEnd'
  BY <1>18 DEF AnswerAccessOnly
<1>19. ASSUME NEW c \in Caller, AnswerEmpty(c) PROVE OnLine' /\ AtEnd'
  BY <1>19 DEF AnswerEmpty
<1>20. ASSUME NEW c \in Caller, Refuse(c) PROVE OnLine' /\ AtEnd'
  BY <1>20 DEF Refuse
<1>21. ASSUME NEW c \in Caller, RpcFails(c) PROVE OnLine' /\ AtEnd'
  BY <1>21 DEF RpcFails
<1>22. ASSUME NEW c \in Caller, ReplyLost(c) PROVE OnLine' /\ AtEnd'
  BY <1>22 DEF ReplyLost
<1>23. ASSUME NEW rt \in orphans, ServeOrphan(rt) PROVE OnLine' /\ AtEnd'
  <2>1. CASE rt \in live
    BY <1>23, <2>1 DEF ServeOrphan, Mint, Rotated
  <2>2. CASE rt \notin live
    BY <1>23, <2>2 DEF ServeOrphan
  <2>3. QED
    BY <2>1, <2>2
<1>24. ASSUME NEW tok \in accepted, Expire(tok) PROVE OnLine' /\ AtEnd'
  BY <1>24 DEF Expire
<1>25. ASSUME NEW p \in up, Crash(p) PROVE OnLine' /\ AtEnd'
  BY <1>25 DEF Crash
<1>26. ASSUME NEW p \in Proc \ up, Restart(p) PROVE OnLine' /\ AtEnd'
  BY <1>26 DEF Restart
<1>27. ASSUME NEW renewable \in BOOLEAN, Login(renewable) PROVE OnLine' /\ AtEnd'
  BY <1>27, BudgetAssumption DEF Login, Spend, Undisturbed, BudgetInv, Fault
<1>28. ASSUME Logout PROVE OnLine' /\ AtEnd'
  BY <1>28, BudgetAssumption DEF Logout, Spend, Undisturbed, BudgetInv, Fault
<1>29. CASE UNCHANGED vars
  BY <1>29 DEF vars
<1>30. QED
  BY <1>1, <1>2, <1>3, <1>4, <1>5, <1>6, <1>7, <1>8, <1>9, <1>10, <1>11, <1>12, <1>13,
     <1>14, <1>15, <1>16, <1>17, <1>18, <1>19, <1>20, <1>21, <1>22, <1>23, <1>24, <1>25,
     <1>26, <1>27, <1>28, <1>29
  DEF Next, Interceptor, Renewal, Platform, Environment

-----------------------------------------------------------------------------
\* The inductive invariant holds of a freshly signed-in machine.
LEMMA InitOK == Init => IInv
<1> SUFFICES ASSUME Init PROVE IInv
  OBVIOUS
<1> USE CallerAssumption DEF Init, Session, Supplied, Pair, NoSession, NoToken
<1>1. TypeOK
  BY BudgetAssumption DEF TypeOK, Label, Outcome
<1>2. LockInv /\ OwnerInv /\ UpInv /\ RejectedInv /\ FreshInv
  BY DEF LockInv, OwnerInv, UpInv, RejectedInv, FreshInv, HasGrant, Holding
<1>3. KnownInv /\ MintedInv
  BY DEF KnownInv, Known, MintedInv
<1>4. SpendsOnlySpentSessions /\ DiskRenewable
  BY DEF SpendsOnlySpentSessions, Holding, DiskRenewable
<1>5. BudgetInv /\ AheadInv /\ OrderInv
  BY BudgetAssumption DEF BudgetInv, AheadInv, OrderInv, HasGrant, Fault
<1>6. QED
  BY <1>1, <1>2, <1>3, <1>4, <1>5 DEF IInv

\* The conjunction IInv is an invariant of every behaviour, for any number of
\* processes, callers and faults, of a platform that always rotates.
THEOREM Inductive ==
  ASSUME "accessOnly" \notin Answers
  PROVE  Spec => []IInv
<1>1. Init => IInv
  BY InitOK
<1>2. IInv /\ [Next]_vars => IInv'
  <2> SUFFICES ASSUME IInv, [Next]_vars PROVE IInv'
    OBVIOUS
  <2>1. TypeOK'
    BY TypeStep DEF IInv
  <2>2. LockInv' /\ UpInv' /\ OwnerInv'
    BY LockStep, OwnerStep DEF IInv
  <2>3. KnownInv' /\ MintedInv'
    BY KnownStep, KnownIsSound, MintedStep DEF IInv
  <2>4. RejectedInv' /\ SpendsOnlySpentSessions'
    BY KnownIsSound, SpentStep DEF IInv
  <2>5. FreshInv' /\ DiskRenewable'
    BY FreshStep, CarryStep DEF IInv
  <2>6. BudgetInv' /\ AheadInv' /\ OrderInv'
    BY BudgetStep, AheadStep, OrderStep DEF IInv
  <2>7. QED
    BY <2>1, <2>2, <2>3, <2>4, <2>5, <2>6 DEF IInv
<1>3. QED
  BY <1>1, <1>2, PTL DEF Spec

\* Publish before relying on it: the shared file can be renewed from, unless its
\* replacement is on its way or was lost by a failure.
THEOREM FileRenewable ==
  ASSUME "accessOnly" \notin Answers
  PROVE  Spec => []DiskRenewable
<1>1. IInv => DiskRenewable
  BY DEF IInv
<1>2. QED
  BY <1>1, Inductive, PTL

-----------------------------------------------------------------------------
(* What holds whatever the platform answers.                               *)

AnyInv ==
  /\ TypeOK /\ LockInv /\ OwnerInv /\ UpInv /\ SoundInv /\ MintedInv
  /\ RejectedInv /\ SpendsOnlySpentSessions

THEOREM AnyPlatform == Spec => []AnyInv
<1>1. Init => AnyInv
  <2> SUFFICES ASSUME Init PROVE AnyInv
    OBVIOUS
  <2>1. IInv
    BY InitOK
  <2>2. QED
    BY <2>1, KnownIsSound DEF IInv, AnyInv
<1>2. AnyInv /\ [Next]_vars => AnyInv'
  BY TypeStep, LockStep, OwnerStep, SoundStep, MintedStep, SpentStep DEF AnyInv
<1>3. QED
  BY <1>1, <1>2, PTL DEF Spec

\* Renewals of one process are single-flight, whatever the platform answers.
THEOREM RenewalsAreSingleFlight == Spec => []SingleFlight
<1>1. AnyInv => SingleFlight
  BY DEF AnyInv, LockInv, SingleFlight
<1>2. QED
  BY <1>1, AnyPlatform, PTL

\* Renew never spends a rotation on a session whose access token still works,
\* not even through a request that outlives the call that sent it.
THEOREM SpendsOnlySpent == Spec => []SpendsOnlySpentSessions
<1>1. AnyInv => SpendsOnlySpentSessions
  BY DEF AnyInv
<1>2. QED
  BY <1>1, AnyPlatform, PTL

\* A mutex that is taken belongs to a renewal under way: nobody waits for one that
\* will not be released.
THEOREM MutexIsNotLeaked == Spec => []OwnerInv
<1>1. AnyInv => OwnerInv
  BY DEF AnyInv
<1>2. QED
  BY <1>1, AnyPlatform, PTL

\* Only RenewSend starts a renewal, and it has looked at both sessions by then.
LEMMA LastResortStep ==
  ASSUME AnyInv, [Next]_vars, NEW k \in Caller, pc[k] = "rejected", pc'[k] = "renewing"
  PROVE  /\ mem[Home[k]].at \notin accepted
         /\ Origin[Home[k]] = "file" => disk.at \notin accepted
<1> USE CallerAssumption DEF TypeOK, AnyInv
<1>1. RenewSend(k)
  <2>1. ASSUME NEW c \in Caller, Interceptor(c) PROVE FALSE
    BY <2>1 DEF Interceptor, Begin, Token, Accept, Reject, RejectAgain, CallFails
  <2>2. ASSUME NEW c \in Caller, Renewal(c) PROVE RenewSend(k)
    BY <2>2 DEF Renewal, RenewMovedOn, RenewAdopts, RenewImpossible, RenewSend, EmptyGrant,
       Publish,
       PublishFails, KeepPrivate, FailureAdopts, FailureIsFinal
  <2>3. ASSUME NEW c \in Caller, Platform(c) PROVE FALSE
    BY <2>3 DEF Platform, Rotate, AnswerAccessOnly, AnswerEmpty, Refuse, RpcFails, ReplyLost
  <2>4. CASE Environment
    BY <2>4 DEF Environment, ServeOrphan, Expire, Crash, Restart, Login, Logout
  <2>5. QED
    BY <2>1, <2>2, <2>3, <2>4 DEF Next, vars
<1>2. presented[k] \notin accepted /\ NoToken \notin accepted
  BY DEF RejectedInv, MintedInv, NoToken
<1>3. QED
  BY <1>1, <1>2 DEF RenewSend, MustRenew, MovedOn, Adoptable

\* Renew asks the platform only when neither the process nor, at that moment, the
\* file holds a session that still works, whatever it answers.
THEOREM LastResort == Spec => RotatesOnlyAsLastResort
<1>1. AnyInv /\ [Next]_vars =>
        [\A c \in Caller : pc[c] = "rejected" /\ pc'[c] = "renewing" =>
           /\ mem[Home[c]].at \notin accepted
           /\ Origin[Home[c]] = "file" => disk.at \notin accepted]_vars
  BY LastResortStep
<1>2. QED
  BY <1>1, AnyPlatform, PTL DEF Spec, RotatesOnlyAsLastResort
\* A step takes a process's means to renew away only by handing it what is in the
\* file.
LEMMA KeepsRenewableStep ==
  ASSUME TypeOK, [Next]_vars
  PROVE  \A p \in up \cap up' : mem[p].rt # NoToken /\ mem'[p].rt = NoToken => mem'[p] = disk
<1> DEFINE Kept(p) == mem[p].rt # NoToken /\ mem'[p].rt = NoToken => mem'[p] = disk
<1> SUFFICES ASSUME NEW q \in up \cap up' PROVE Kept(q)
  OBVIOUS
<1> USE CallerAssumption DEF TypeOK, Session, NoToken
<1>1. ASSUME NEW c \in Caller, Begin(c) PROVE Kept(q)
  BY <1>1 DEF Begin
<1>2. ASSUME NEW c \in Caller, Token(c) PROVE Kept(q)
  BY <1>2 DEF Token
<1>3. ASSUME NEW c \in Caller, Accept(c) PROVE Kept(q)
  BY <1>3 DEF Accept
<1>4. ASSUME NEW c \in Caller, Reject(c) PROVE Kept(q)
  BY <1>4 DEF Reject
<1>5. ASSUME NEW c \in Caller, RejectAgain(c) PROVE Kept(q)
  BY <1>5 DEF RejectAgain
<1>6. ASSUME NEW c \in Caller, CallFails(c) PROVE Kept(q)
  BY <1>6 DEF CallFails
<1>7. ASSUME NEW c \in Caller, RenewMovedOn(c) PROVE Kept(q)
  BY <1>7 DEF RenewMovedOn
<1>8. ASSUME NEW c \in Caller, RenewAdopts(c) PROVE Kept(q)
  BY <1>8 DEF RenewAdopts
<1>9. ASSUME NEW c \in Caller, RenewImpossible(c) PROVE Kept(q)
  BY <1>9 DEF RenewImpossible
<1>10. ASSUME NEW c \in Caller, RenewSend(c) PROVE Kept(q)
  BY <1>10 DEF RenewSend
<1>11. ASSUME NEW c \in Caller, EmptyGrant(c) PROVE Kept(q)
  BY <1>11 DEF EmptyGrant
<1>12. ASSUME NEW c \in Caller, Publish(c) PROVE Kept(q)
  BY <1>12 DEF Publish
<1>13. ASSUME NEW c \in Caller, PublishFails(c) PROVE Kept(q)
  BY <1>13 DEF PublishFails
<1>14. ASSUME NEW c \in Caller, KeepPrivate(c) PROVE Kept(q)
  BY <1>14 DEF KeepPrivate
<1>15. ASSUME NEW c \in Caller, FailureAdopts(c) PROVE Kept(q)
  BY <1>15 DEF FailureAdopts
<1>16. ASSUME NEW c \in Caller, FailureIsFinal(c) PROVE Kept(q)
  BY <1>16 DEF FailureIsFinal
<1>17. ASSUME NEW c \in Caller, Rotate(c) PROVE Kept(q)
  BY <1>17 DEF Rotate
<1>18. ASSUME NEW c \in Caller, AnswerAccessOnly(c) PROVE Kept(q)
  BY <1>18 DEF AnswerAccessOnly
<1>19. ASSUME NEW c \in Caller, AnswerEmpty(c) PROVE Kept(q)
  BY <1>19 DEF AnswerEmpty
<1>20. ASSUME NEW c \in Caller, Refuse(c) PROVE Kept(q)
  BY <1>20 DEF Refuse
<1>21. ASSUME NEW c \in Caller, RpcFails(c) PROVE Kept(q)
  BY <1>21 DEF RpcFails
<1>22. ASSUME NEW c \in Caller, ReplyLost(c) PROVE Kept(q)
  BY <1>22 DEF ReplyLost
<1>23. ASSUME NEW rt \in orphans, ServeOrphan(rt) PROVE Kept(q)
  BY <1>23 DEF ServeOrphan
<1>24. ASSUME NEW tok \in accepted, Expire(tok) PROVE Kept(q)
  BY <1>24 DEF Expire
<1>25. ASSUME NEW p \in up, Crash(p) PROVE Kept(q)
  BY <1>25 DEF Crash
<1>26. ASSUME NEW p \in Proc \ up, Restart(p) PROVE Kept(q)
  BY <1>26 DEF Restart
<1>27. ASSUME NEW renewable \in BOOLEAN, Login(renewable) PROVE Kept(q)
  BY <1>27 DEF Login
<1>28. ASSUME Logout PROVE Kept(q)
  BY <1>28 DEF Logout
<1>29. CASE UNCHANGED vars
  BY <1>29 DEF vars
<1>30. QED
  BY <1>1, <1>2, <1>3, <1>4, <1>5, <1>6, <1>7, <1>8, <1>9, <1>10, <1>11, <1>12, <1>13,
     <1>14, <1>15, <1>16, <1>17, <1>18, <1>19, <1>20, <1>21, <1>22, <1>23, <1>24, <1>25,
     <1>26, <1>27, <1>28, <1>29
  DEF Next, Interceptor, Renewal, Platform, Environment

\* A process whose session could be renewed keeps one that can, unless it takes over
\* a session somebody else has stored, whatever the platform answers.
THEOREM RenewableIsKept == Spec => KeepsRenewable
<1>1. TypeOK /\ [Next]_vars =>
        [\A p \in up \cap up' : mem[p].rt # NoToken /\ mem'[p].rt = NoToken => mem'[p] = disk]_vars
  BY KeepsRenewableStep
<1>2. QED
  BY <1>1, TypeCorrect, PTL DEF Spec, KeepsRenewable

\* On a line nothing moves backwards: what is published is newer than the file and
\* than what its process holds, and what is adopted is no older than that.
LEMMA ForwardStep ==
  ASSUME "accessOnly" \notin Answers, IInv, [Next]_vars, Undisturbed'
  PROVE  /\ disk'.at >= disk.at
         /\ \A p \in up \cap up' : mem'[p].at >= mem[p].at
<1>0. Undisturbed
  BY BudgetStep DEF IInv
<1> DEFINE Forward == /\ disk'.at >= disk.at
                      /\ \A p \in up \cap up' : mem'[p].at >= mem[p].at
<1> SUFFICES Forward
  OBVIOUS
<1> USE <1>0, CallerAssumption DEF IInv, TypeOK, AheadInv, OrderInv, HasGrant, Session, Pair,
        NoSession, NoToken
<1>1. ASSUME NEW c \in Caller, Begin(c) PROVE Forward
  BY <1>1 DEF Begin
<1>2. ASSUME NEW c \in Caller, Token(c) PROVE Forward
  BY <1>2 DEF Token
<1>3. ASSUME NEW c \in Caller, Accept(c) PROVE Forward
  BY <1>3 DEF Accept
<1>4. ASSUME NEW c \in Caller, Reject(c) PROVE Forward
  BY <1>4 DEF Reject
<1>5. ASSUME NEW c \in Caller, RejectAgain(c) PROVE Forward
  BY <1>5 DEF RejectAgain
<1>6. ASSUME NEW c \in Caller, CallFails(c) PROVE Forward
  BY <1>6 DEF CallFails
<1>7. ASSUME NEW c \in Caller, RenewMovedOn(c) PROVE Forward
  BY <1>7 DEF RenewMovedOn
<1>8. ASSUME NEW c \in Caller, RenewAdopts(c) PROVE Forward
  BY <1>8 DEF RenewAdopts, Adoptable
<1>9. ASSUME NEW c \in Caller, RenewImpossible(c) PROVE Forward
  BY <1>9 DEF RenewImpossible
<1>10. ASSUME NEW c \in Caller, RenewSend(c) PROVE Forward
  BY <1>10 DEF RenewSend
<1>11. ASSUME NEW c \in Caller, EmptyGrant(c) PROVE Forward
  BY <1>11 DEF EmptyGrant
<1>12. ASSUME NEW c \in Caller, Publish(c) PROVE Forward
  BY <1>12 DEF Publish
<1>13. ASSUME NEW c \in Caller, PublishFails(c) PROVE Forward
  BY <1>13 DEF PublishFails
<1>14. ASSUME NEW c \in Caller, KeepPrivate(c) PROVE Forward
  BY <1>14 DEF KeepPrivate
<1>15. ASSUME NEW c \in Caller, FailureAdopts(c) PROVE Forward
  BY <1>15 DEF FailureAdopts, Adoptable
<1>16. ASSUME NEW c \in Caller, FailureIsFinal(c) PROVE Forward
  BY <1>16 DEF FailureIsFinal
<1>17. ASSUME NEW c \in Caller, Rotate(c) PROVE Forward
  BY <1>17 DEF Rotate
<1>18. ASSUME NEW c \in Caller, AnswerAccessOnly(c) PROVE Forward
  BY <1>18 DEF AnswerAccessOnly
<1>19. ASSUME NEW c \in Caller, AnswerEmpty(c) PROVE Forward
  BY <1>19 DEF AnswerEmpty
<1>20. ASSUME NEW c \in Caller, Refuse(c) PROVE Forward
  BY <1>20 DEF Refuse
<1>21. ASSUME NEW c \in Caller, RpcFails(c) PROVE Forward
  BY <1>21 DEF RpcFails
<1>22. ASSUME NEW c \in Caller, ReplyLost(c) PROVE Forward
  BY <1>22 DEF ReplyLost
<1>23. ASSUME NEW rt \in orphans, ServeOrphan(rt) PROVE Forward
  BY <1>23 DEF ServeOrphan
<1>24. ASSUME NEW tok \in accepted, Expire(tok) PROVE Forward
  BY <1>24 DEF Expire
<1>25. ASSUME NEW p \in up, Crash(p) PROVE Forward
  BY <1>25 DEF Crash
<1>26. ASSUME NEW p \in Proc \ up, Restart(p) PROVE Forward
  BY <1>26 DEF Restart
<1>27. ASSUME NEW renewable \in BOOLEAN, Login(renewable) PROVE Forward
  BY <1>27, BudgetAssumption DEF Login, Spend, Undisturbed, Fault
<1>28. ASSUME Logout PROVE Forward
  BY <1>28, BudgetAssumption DEF Logout, Spend, Undisturbed, Fault
<1>29. CASE UNCHANGED vars
  BY <1>29 DEF vars
<1>30. QED
  BY <1>1, <1>2, <1>3, <1>4, <1>5, <1>6, <1>7, <1>8, <1>9, <1>10, <1>11, <1>12, <1>13,
     <1>14, <1>15, <1>16, <1>17, <1>18, <1>19, <1>20, <1>21, <1>22, <1>23, <1>24, <1>25,
     <1>26, <1>27, <1>28, <1>29
  DEF Next, Interceptor, Renewal, Platform, Environment

\* Until a save fails or somebody logs in or out, neither the file nor a running
\* process is ever taken back to an older session, however renewals interleave.
THEOREM OnlyForward ==
  ASSUME "accessOnly" \notin Answers
  PROVE  Spec => NeverStepsBack
<1>1. IInv /\ [Next]_vars =>
        [Undisturbed' =>
           /\ disk'.at >= disk.at
           /\ \A p \in up \cap up' : mem'[p].at >= mem[p].at]_vars
  BY ForwardStep
<1>2. QED
  BY <1>1, Inductive, PTL DEF Spec, NeverStepsBack
=============================================================================
