----------------------- MODULE SessionLineage_proofs ------------------------
(***************************************************************************)
(* SessionRenewal implements SessionLineage: while no save fails, nobody   *)
(* dies and nobody logs in or out, the sessions of a machine whose         *)
(* processes all use the file form one line.  Access tokens may expire,    *)
(* and requests and answers be lost, as often as they like.                *)
(*                                                                         *)
(* The argument: the platform rotates one refresh token only, the newest   *)
(* (LineInv), and who can present it has it from the file (OrderInv), so   *)
(* the file is not behind when a session is minted.  A grant that is       *)
(* published is fresh (FreshInv), hence the newest; what is adopted is     *)
(* what is published.                                                      *)
(***************************************************************************)
EXTENDS SessionRenewal_proofs

USE DEF platform, calls, loose, Goto, Return, Lock, Unlock, Reissue, Merged, Spent, Blank

\* Nothing happens that could part the file from those who use it.
Quiet ==
  /\ \A k \in Fault \ {"expire", "rpc"} : Budget[k] = 0
  /\ \A p \in Proc : Origin[p] = "file"
  /\ "accessOnly" \notin Answers

\* Only the newest session can be renewed, and a request that has outlived its
\* caller can renew no other than the one in the file.
LineInv ==
  /\ live \subseteq {issued} /\ disk.rt = disk.at /\ up = Proc
  /\ \A rt \in orphans : rt \in live => rt = disk.rt

\* With nothing to spend, the machine stays undisturbed.
LEMMA QuietIsUndisturbed ==
  ASSUME Quiet, TypeOK, BudgetInv
  PROVE  /\ Undisturbed /\ budget["save"] = 0 /\ budget["crash"] = 0
         /\ budget["login"] = 0 /\ budget["logout"] = 0
<1>1. \A k \in {"save", "crash", "login", "logout"} : budget[k] = 0 /\ Budget[k] = 0
  BY BudgetAssumption DEF Quiet, BudgetInv, TypeOK, Fault
<1>2. QED
  BY <1>1 DEF Undisturbed

\* Once its only live token is rotated, the platform renews the new one and no other.
LEMMA MintMovesTheEnd ==
  ASSUME TypeOK, MintedInv, LineInv, NEW rt \in live, Mint, Rotated(rt),
         orphans' \subseteq orphans, disk' = disk, up' = up
  PROVE  LineInv'
<1>1. issued' = issued + 1 /\ issued \in Nat
  BY DEF Mint, TypeOK
<1>2. live' \subseteq {issued + 1}
  BY DEF Rotated, LineInv
<1>3. \A n \in orphans' : n # issued + 1
  BY DEF TypeOK, MintedInv
<1>4. QED
  BY <1>1, <1>2, <1>3 DEF LineInv

\* Whatever can be renewed is in the file, or in a grant on its way there.
LEMMA LineStep ==
  ASSUME Quiet, IInv, LineInv, [Next]_vars
  PROVE  LineInv'
<1>0. Undisturbed /\ budget["save"] = 0 /\ budget["crash"] = 0 /\ budget["login"] = 0 /\ budget["logout"] = 0
  BY QuietIsUndisturbed DEF IInv
<1> USE <1>0, CallerAssumption DEF Quiet, IInv, TypeOK, KnownInv, Known, MintedInv, FreshInv,
        OrderInv, LineInv, HasGrant, Session, Pair, NoSession, NoToken
<1>1. ASSUME NEW c \in Caller, Begin(c) PROVE LineInv'
  BY <1>1 DEF Begin
<1>2. ASSUME NEW c \in Caller, Token(c) PROVE LineInv'
  BY <1>2 DEF Token
<1>3. ASSUME NEW c \in Caller, Accept(c) PROVE LineInv'
  BY <1>3 DEF Accept
<1>4. ASSUME NEW c \in Caller, Reject(c) PROVE LineInv'
  BY <1>4 DEF Reject
<1>5. ASSUME NEW c \in Caller, RejectAgain(c) PROVE LineInv'
  BY <1>5 DEF RejectAgain
<1>6. ASSUME NEW c \in Caller, CallFails(c) PROVE LineInv'
  BY <1>6 DEF CallFails
<1>7. ASSUME NEW c \in Caller, RenewMovedOn(c) PROVE LineInv'
  BY <1>7 DEF RenewMovedOn
<1>8. ASSUME NEW c \in Caller, RenewAdopts(c) PROVE LineInv'
  BY <1>8 DEF RenewAdopts
<1>9. ASSUME NEW c \in Caller, RenewImpossible(c) PROVE LineInv'
  BY <1>9 DEF RenewImpossible
<1>10. ASSUME NEW c \in Caller, RenewSend(c) PROVE LineInv'
  BY <1>10 DEF RenewSend
<1>11. ASSUME NEW c \in Caller, EmptyGrant(c) PROVE LineInv'
  BY <1>11 DEF EmptyGrant
<1>12. ASSUME NEW c \in Caller, Publish(c) PROVE LineInv'
  <2>1. disk'.rt = grant[c].rt /\ disk'.at = grant[c].at
    BY <1>12 DEF Publish
  <2>2. disk.rt \notin live
    BY <1>12 DEF Publish
  <2>3. QED
    BY <1>12, <2>1, <2>2 DEF Publish
<1>13. ASSUME NEW c \in Caller, PublishFails(c) PROVE LineInv'
  BY <1>13 DEF PublishFails, Spend
<1>14. ASSUME NEW c \in Caller, KeepPrivate(c) PROVE LineInv'
  BY <1>14 DEF KeepPrivate
<1>15. ASSUME NEW c \in Caller, FailureAdopts(c) PROVE LineInv'
  BY <1>15 DEF FailureAdopts
<1>16. ASSUME NEW c \in Caller, FailureIsFinal(c) PROVE LineInv'
  BY <1>16 DEF FailureIsFinal
<1>17. ASSUME NEW c \in Caller, Rotate(c) PROVE LineInv'
  BY <1>17, MintMovesTheEnd DEF Rotate
<1>18. ASSUME NEW c \in Caller, AnswerAccessOnly(c) PROVE LineInv'
  BY <1>18 DEF AnswerAccessOnly
<1>19. ASSUME NEW c \in Caller, AnswerEmpty(c) PROVE LineInv'
  BY <1>19 DEF AnswerEmpty
<1>20. ASSUME NEW c \in Caller, Refuse(c) PROVE LineInv'
  BY <1>20 DEF Refuse
<1>21. ASSUME NEW c \in Caller, RpcFails(c) PROVE LineInv'
  <2>1. orphans' \subseteq orphans \cup {Spent(c)}
    BY <1>21 DEF RpcFails
  <2>2. Spent(c) \in live => Spent(c) = disk.rt
    BY <1>21 DEF RpcFails
  <2>3. QED
    BY <1>21, <2>1, <2>2 DEF RpcFails
<1>22. ASSUME NEW c \in Caller, ReplyLost(c) PROVE LineInv'
  BY <1>22 DEF ReplyLost
<1>23. ASSUME NEW rt \in orphans, ServeOrphan(rt) PROVE LineInv'
  <2>1. orphans' \subseteq orphans
    BY <1>23 DEF ServeOrphan
  <2>2. CASE rt \in live
    BY <1>23, <2>1, <2>2, MintMovesTheEnd DEF ServeOrphan
  <2>3. CASE rt \notin live
    BY <1>23, <2>1, <2>3 DEF ServeOrphan
  <2>4. QED
    BY <2>2, <2>3
<1>24. ASSUME NEW tok \in accepted, Expire(tok) PROVE LineInv'
  BY <1>24 DEF Expire
<1>25. ASSUME NEW p \in up, Crash(p) PROVE LineInv'
  BY <1>25 DEF Crash, Spend
<1>26. ASSUME NEW p \in Proc \ up, Restart(p) PROVE LineInv'
  BY <1>26 DEF Restart
<1>27. ASSUME NEW renewable \in BOOLEAN, Login(renewable) PROVE LineInv'
  BY <1>27 DEF Login, Spend
<1>28. ASSUME Logout PROVE LineInv'
  BY <1>28 DEF Logout, Spend
<1>29. CASE UNCHANGED vars
  BY <1>29 DEF vars
<1>30. QED
  BY <1>1, <1>2, <1>3, <1>4, <1>5, <1>6, <1>7, <1>8, <1>9, <1>10, <1>11, <1>12, <1>13,
     <1>14, <1>15, <1>16, <1>17, <1>18, <1>19, <1>20, <1>21, <1>22, <1>23, <1>24, <1>25,
     <1>26, <1>27, <1>28, <1>29
  DEF Next, Interceptor, Renewal, Platform, Environment

\* A process that adopts the session of the file catches up with it.
LEMMA AdoptionCatchesUp ==
  ASSUME Quiet, IInv, NEW p \in Proc, mem' = [mem EXCEPT ![p] = disk],
         UNCHANGED <<issued, disk>>
  PROVE  [Lineage!Next]_(Lineage!vars)
<1>1. Undisturbed
  BY QuietIsUndisturbed DEF IInv
<1>2. mem[p].at <= disk.at /\ mem[p].at \in Nat /\ disk.at \in Nat
  BY <1>1 DEF IInv, OrderInv, Quiet, TypeOK, Session
<1>3. [q \in Proc |-> mem'[q].at] = [[q \in Proc |-> mem[q].at] EXCEPT ![p] = disk.at]
  BY DEF IInv, TypeOK
<1>4. CASE mem[p].at = disk.at
  <2>1. [q \in Proc |-> mem'[q].at] = [q \in Proc |-> mem[q].at]
    BY <1>3, <1>4
  <2>2. QED
    BY <2>1 DEF Lineage!vars
<1>5. CASE mem[p].at < disk.at
  <2>1. Lineage!CatchUp(p)
    BY <1>3, <1>5 DEF Lineage!CatchUp
  <2>2. QED
    BY <2>1 DEF Lineage!Next
<1>6. QED
  BY <1>2, <1>4, <1>5

\* Every step is a step of the line or leaves it as it is.
LEMMA StepMaps ==
  ASSUME Quiet, IInv, LineInv, [Next]_vars
  PROVE  [Lineage!Next]_(Lineage!vars)
<1>0. Undisturbed /\ budget["save"] = 0 /\ budget["crash"] = 0 /\ budget["login"] = 0 /\ budget["logout"] = 0
  BY QuietIsUndisturbed DEF IInv
<1> DEFINE Maps == [Lineage!Next]_(Lineage!vars)
<1> SUFFICES Maps
  OBVIOUS
<1> USE <1>0, CallerAssumption DEF Quiet, IInv, TypeOK, KnownInv, Known, MintedInv, FreshInv,
        OrderInv, LineInv, HasGrant, Session, Pair, NoSession, NoToken, Lineage!vars
<1>1. ASSUME NEW c \in Caller, Begin(c) PROVE Maps
  BY <1>1 DEF Begin
<1>2. ASSUME NEW c \in Caller, Token(c) PROVE Maps
  BY <1>2 DEF Token
<1>3. ASSUME NEW c \in Caller, Accept(c) PROVE Maps
  BY <1>3 DEF Accept
<1>4. ASSUME NEW c \in Caller, Reject(c) PROVE Maps
  BY <1>4 DEF Reject
<1>5. ASSUME NEW c \in Caller, RejectAgain(c) PROVE Maps
  BY <1>5 DEF RejectAgain
<1>6. ASSUME NEW c \in Caller, CallFails(c) PROVE Maps
  BY <1>6 DEF CallFails
<1>7. ASSUME NEW c \in Caller, RenewMovedOn(c) PROVE Maps
  BY <1>7 DEF RenewMovedOn
<1>8. ASSUME NEW c \in Caller, RenewAdopts(c) PROVE Maps
  BY <1>8, AdoptionCatchesUp DEF RenewAdopts, Adoptable
<1>9. ASSUME NEW c \in Caller, RenewImpossible(c) PROVE Maps
  BY <1>9 DEF RenewImpossible
<1>10. ASSUME NEW c \in Caller, RenewSend(c) PROVE Maps
  BY <1>10 DEF RenewSend
<1>11. ASSUME NEW c \in Caller, EmptyGrant(c) PROVE Maps
  BY <1>11 DEF EmptyGrant
<1>12. ASSUME NEW c \in Caller, Publish(c) PROVE Maps
  <2>1. HasGrant(c) /\ grant[c].at = issued /\ disk.at # issued
    BY <1>12 DEF Publish
  <2>2. disk'.at = issued /\ issued' = issued
    BY <1>12, <2>1 DEF Publish
  <2>3. [p \in Proc |-> mem'[p].at] = [[p \in Proc |-> mem[p].at] EXCEPT ![Home[c]] = issued]
    BY <1>12, <2>1 DEF Publish
  <2>4. Lineage!Publish(Home[c])
    BY <2>1, <2>2, <2>3 DEF Lineage!Publish
  <2>5. QED
    BY <2>4 DEF Lineage!Next
<1>13. ASSUME NEW c \in Caller, PublishFails(c) PROVE Maps
  BY <1>13 DEF PublishFails, Spend
<1>14. ASSUME NEW c \in Caller, KeepPrivate(c) PROVE Maps
  BY <1>14 DEF KeepPrivate
<1>15. ASSUME NEW c \in Caller, FailureAdopts(c) PROVE Maps
  BY <1>15, AdoptionCatchesUp DEF FailureAdopts, Adoptable
<1>16. ASSUME NEW c \in Caller, FailureIsFinal(c) PROVE Maps
  BY <1>16 DEF FailureIsFinal
<1>17. ASSUME NEW c \in Caller, Rotate(c) PROVE Maps
  <2>1. disk.at = issued
    BY <1>17 DEF Rotate
  <2>2. Lineage!Renew
    BY <1>17, <2>1 DEF Rotate, Mint, Lineage!Renew
  <2>3. QED
    BY <2>2 DEF Lineage!Next
<1>18. ASSUME NEW c \in Caller, AnswerAccessOnly(c) PROVE Maps
  BY <1>18 DEF AnswerAccessOnly
<1>19. ASSUME NEW c \in Caller, AnswerEmpty(c) PROVE Maps
  BY <1>19 DEF AnswerEmpty
<1>20. ASSUME NEW c \in Caller, Refuse(c) PROVE Maps
  BY <1>20 DEF Refuse
<1>21. ASSUME NEW c \in Caller, RpcFails(c) PROVE Maps
  BY <1>21 DEF RpcFails
<1>22. ASSUME NEW c \in Caller, ReplyLost(c) PROVE Maps
  BY <1>22 DEF ReplyLost
<1>23. ASSUME NEW rt \in orphans, ServeOrphan(rt) PROVE Maps
  <2>1. CASE rt \in live
    <3>1. disk.at = issued
      BY <2>1
    <3>2. Lineage!Renew
      BY <1>23, <2>1, <3>1 DEF ServeOrphan, Mint, Lineage!Renew
    <3>3. QED
      BY <3>2 DEF Lineage!Next
  <2>2. CASE rt \notin live
    BY <1>23, <2>2 DEF ServeOrphan
  <2>3. QED
    BY <2>1, <2>2
<1>24. ASSUME NEW tok \in accepted, Expire(tok) PROVE Maps
  BY <1>24 DEF Expire
<1>25. ASSUME NEW p \in up, Crash(p) PROVE Maps
  BY <1>25 DEF Crash, Spend
<1>26. ASSUME NEW p \in Proc \ up, Restart(p) PROVE Maps
  BY <1>26 DEF Restart
<1>27. ASSUME NEW renewable \in BOOLEAN, Login(renewable) PROVE Maps
  BY <1>27 DEF Login, Spend
<1>28. ASSUME Logout PROVE Maps
  BY <1>28 DEF Logout, Spend
<1>29. CASE UNCHANGED vars
  BY <1>29 DEF vars
<1>30. QED
  BY <1>1, <1>2, <1>3, <1>4, <1>5, <1>6, <1>7, <1>8, <1>9, <1>10, <1>11, <1>12, <1>13,
     <1>14, <1>15, <1>16, <1>17, <1>18, <1>19, <1>20, <1>21, <1>22, <1>23, <1>24, <1>25,
     <1>26, <1>27, <1>28, <1>29
  DEF Next, Interceptor, Renewal, Platform, Environment

\* The sharing of one session keeps what SessionLineage promises: every rotation is
\* published before the next one, and the processes only move along the line.
THEOREM LineIsKept ==
  ASSUME Quiet
  PROVE  Spec => Lineage!Spec
<1>1. Init => Lineage!Init
  BY DEF Init, Lineage!Init, Pair, Quiet
<1>2. Init => LineInv
  BY DEF Init, LineInv, Pair
<1>3. IInv /\ LineInv /\ [Next]_vars => LineInv'
  BY LineStep
<1>4. IInv /\ LineInv /\ [Next]_vars => [Lineage!Next]_(Lineage!vars)
  BY StepMaps
<1>5. Spec => []IInv
  BY Inductive DEF Quiet
<1>6. QED
  BY <1>1, <1>2, <1>3, <1>4, <1>5, PTL DEF Spec, Lineage!Spec
=============================================================================
