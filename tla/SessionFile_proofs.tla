-------------------------- MODULE SessionFile_proofs ---------------------------
(***************************************************************************)
(* Proofs about SessionFile, for any number of processes, sessions and     *)
(* files, and any number of crashes and losses of power.                   *)
(*                                                                         *)
(* The argument: a Save works on a file of its own that nothing refers to  *)
(* (OwnInv), and renames it only when its content is written and flushed   *)
(* (StageInv).  So whatever a name or an open handle refers to is whole,   *)
(* in memory and, for the names, on storage (NamedInv).                    *)
(***************************************************************************)
EXTENDS SessionFile, FiniteSetTheorems, TLAPS

Named(i) == i \in {target, durableTarget} \/ \E p \in Proc : fd[p] = i

\* A Save has something to write, and its file is no other Save's.
OwnInv ==
  /\ \A p \in Proc : Saving(p) => val[p] \in Value
  /\ \A p, q \in Proc : Saving(p) /\ Saving(q) /\ tmp[p] = tmp[q] => p = q

\* How far a Save has got with its file.
StageInv ==
  \A p \in Proc :
    /\ pc[p] \in {"written", "flushed"} => data[tmp[p]] = val[p]
    /\ pc[p] = "flushed" => durableData[tmp[p]] = val[p]

\* What is named is not temporary, and whole.
NamedInv ==
  /\ \A i \in Inode : Named(i) => i \notin temps /\ data[i] \in Value
  /\ \A i \in {target, durableTarget} : i # NoFile => durableData[i] \in Value
  /\ \A p \in Proc : fd[p] # NoFile <=> pc[p] = "reading"

\* The inductive invariant.
IInv == TypeOK /\ OwnInv /\ StageInv /\ NamedInv /\ ReadsWhole

USE ContentAssumption, InodeAssumption, BudgetAssumption

-----------------------------------------------------------------------------
\* At first there is no file.
LEMMA InitInv == Init => IInv
<1> SUFFICES ASSUME Init PROVE IInv
  OBVIOUS
<1> USE DEF Init
<1>1. TypeOK
  BY DEF TypeOK, Content, Label, Saving
<1>2. OwnInv /\ StageInv /\ NamedInv /\ ReadsWhole
  BY DEF OwnInv, StageInv, NamedInv, Named, ReadsWhole, Saving
<1>3. QED
  BY <1>1, <1>2 DEF IInv

\* Every step keeps the types.
LEMMA TypeStep == IInv /\ [Next]_vars => TypeOK'
<1> SUFFICES ASSUME IInv, [Next]_vars PROVE TypeOK'
  OBVIOUS
<1> USE DEF IInv, TypeOK, OwnInv, Content, Label, Saving, Goto, Done, names, durable, saving, loading
<1>1. ASSUME NEW p \in Proc, NEW v \in Value, NEW i \in Inode, CreateTemp(p, v, i) PROVE TypeOK'
  BY <1>1 DEF CreateTemp
<1>2. ASSUME NEW p \in Proc, Write(p) PROVE TypeOK'
  BY <1>2 DEF Write
<1>3. ASSUME NEW p \in Proc, Flush(p) PROVE TypeOK'
  <2>1. data[tmp[p]] \in Content
    BY <1>3 DEF Flush
  <2>2. QED
    BY <1>3, <2>1 DEF Flush
<1>4. ASSUME NEW p \in Proc, Rename(p) PROVE TypeOK'
  BY <1>4 DEF Rename
<1>5. ASSUME NEW p \in Proc, SaveFails(p) PROVE TypeOK'
  BY <1>5 DEF SaveFails
<1>6. ASSUME NEW p \in Proc, LoadNone(p) \/ LoadOpen(p) \/ Delete(p) PROVE TypeOK'
  BY <1>6 DEF LoadNone, LoadOpen, Delete
<1>7. ASSUME NEW p \in Proc, LoadRead(p) PROVE TypeOK'
  <2>1. data[fd[p]] \in Content
    BY <1>7 DEF LoadRead, NamedInv
  <2>2. QED
    BY <1>7, <2>1 DEF LoadRead
<1>8. ASSUME NEW p \in Proc, Crash(p) PROVE TypeOK'
  BY <1>8 DEF Crash, Spend, Fault
<1>9. ASSUME NEW i \in Inode, WriteBackData(i) PROVE TypeOK'
  BY <1>9 DEF WriteBackData
<1>10. CASE WriteBackNames
  BY <1>10 DEF WriteBackNames
<1>11. CASE PowerLoss
  BY <1>11 DEF PowerLoss, Spend, Fault
<1>12. CASE UNCHANGED vars
  BY <1>12 DEF vars
<1>13. QED
  BY <1>1, <1>2, <1>3, <1>4, <1>5, <1>6, <1>7, <1>8, <1>9, <1>10, <1>11, <1>12 DEF Next

\* Every step keeps Saves apart, their files in step, and names whole.
LEMMA FileStep == IInv /\ [Next]_vars => OwnInv' /\ StageInv' /\ NamedInv' /\ ReadsWhole'
<1> SUFFICES ASSUME IInv, [Next]_vars PROVE OwnInv' /\ StageInv' /\ NamedInv' /\ ReadsWhole'
  OBVIOUS
<1> USE DEF IInv, TypeOK, Content, Label, Saving, Goto, Done, names, durable, saving, loading,
        OwnInv, StageInv, NamedInv, Named, ReadsWhole
<1>1. ASSUME NEW p \in Proc, NEW v \in Value, NEW i \in Inode, CreateTemp(p, v, i)
      PROVE  OwnInv' /\ StageInv' /\ NamedInv' /\ ReadsWhole'
  BY <1>1 DEF CreateTemp, UniqueName, Unused
<1>2. ASSUME NEW p \in Proc, Write(p) PROVE OwnInv' /\ StageInv' /\ NamedInv' /\ ReadsWhole'
  BY <1>2 DEF Write
<1>3. ASSUME NEW p \in Proc, Flush(p) PROVE OwnInv' /\ StageInv' /\ NamedInv' /\ ReadsWhole'
  BY <1>3 DEF Flush
<1>4. ASSUME NEW p \in Proc, Rename(p) PROVE OwnInv' /\ StageInv' /\ NamedInv' /\ ReadsWhole'
  BY <1>4 DEF Rename
<1>5. ASSUME NEW p \in Proc, SaveFails(p) PROVE OwnInv' /\ StageInv' /\ NamedInv' /\ ReadsWhole'
  BY <1>5 DEF SaveFails
<1>6. ASSUME NEW p \in Proc, LoadNone(p) \/ Delete(p)
      PROVE  OwnInv' /\ StageInv' /\ NamedInv' /\ ReadsWhole'
  BY <1>6 DEF LoadNone, Delete
<1>7. ASSUME NEW p \in Proc, LoadOpen(p) PROVE OwnInv' /\ StageInv' /\ NamedInv' /\ ReadsWhole'
  BY <1>7 DEF LoadOpen
<1>8. ASSUME NEW p \in Proc, LoadRead(p) PROVE OwnInv' /\ StageInv' /\ NamedInv' /\ ReadsWhole'
  BY <1>8 DEF LoadRead
<1>9. ASSUME NEW p \in Proc, Crash(p) PROVE OwnInv' /\ StageInv' /\ NamedInv' /\ ReadsWhole'
  BY <1>9 DEF Crash
<1>10. ASSUME NEW i \in Inode, WriteBackData(i)
       PROVE  OwnInv' /\ StageInv' /\ NamedInv' /\ ReadsWhole'
  BY <1>10 DEF WriteBackData
<1>11. CASE WriteBackNames
  BY <1>11 DEF WriteBackNames
<1>12. CASE PowerLoss
  BY <1>12 DEF PowerLoss
<1>13. CASE UNCHANGED vars
  BY <1>13 DEF vars
<1>14. QED
  BY <1>1, <1>2, <1>3, <1>4, <1>5, <1>6, <1>7, <1>8, <1>9, <1>10, <1>11, <1>12, <1>13 DEF Next

\* Every step keeps the inductive invariant.
LEMMA StepInv == IInv /\ [Next]_vars => IInv'
  BY TypeStep, FileStep DEF IInv

\* The inductive invariant of SessionFile.
THEOREM Inductive == Spec => []IInv
  BY InitInv, StepInv, PTL DEF Spec

\* The types: a Save under way keeps its temporary file, and nothing else has one.
THEOREM TypeCorrect == Spec => []TypeOK
<1>1. IInv => TypeOK
  BY DEF IInv
<1>2. QED
  BY <1>1, Inductive, PTL

\* No Load returns half a session.
THEOREM LoadsAreWhole == Spec => []ReadsWhole
<1>1. IInv => ReadsWhole
  BY DEF IInv
<1>2. QED
  BY <1>1, Inductive, PTL

\* Storage never names half a session, so no loss of power leaves one.
THEOREM StorageIsWhole == Spec => []DurableWhole
<1>1. IInv => DurableWhole
  BY ContentAssumption DEF IInv, NamedInv, DurableWhole
<1>2. QED
  BY <1>1, Inductive, PTL

-----------------------------------------------------------------------------
(* Temporary files.                                                        *)

\* A temporary file nobody is saving has cost a crash, until the power fails.
Untidy == Cardinality(Strays) <= Budget["crash"] - budget["crash"]
StrayInv ==
  /\ budget["crash"] <= Budget["crash"] /\ budget["power"] <= Budget["power"]
  /\ budget["power"] = Budget["power"] => Untidy

\* There are finitely many strays, and one more is one more.
LEMMA StrayCount ==
  ASSUME temps \subseteq Inode, NEW i
  PROVE  /\ Cardinality(Strays) \in Nat
         /\ Cardinality(Strays \cup {i}) \in Nat
         /\ Cardinality(Strays \cup {i}) <= Cardinality(Strays) + 1
<1>1. IsFiniteSet(Strays)
  <2>1. Strays \in SUBSET Inode
    BY DEF Strays
  <2>2. QED
    BY <2>1, FS_Subset
<1>2. Cardinality(Strays) \in Nat
  BY <1>1, FS_CardinalityType
<1>3. Cardinality(Strays \cup {i}) = IF i \in Strays THEN Cardinality(Strays) ELSE Cardinality(Strays) + 1
  BY <1>1, FS_AddElement
<1>4. QED
  BY <1>2, <1>3

\* Only a process that dies leaves its file behind.
LEMMA StrayStep == IInv /\ StrayInv /\ [Next]_vars => StrayInv'
<1> SUFFICES ASSUME IInv, StrayInv, [Next]_vars PROVE StrayInv'
  OBVIOUS
<1> USE DEF IInv, TypeOK, Saving, Goto, Done, names, saving, loading, durable
<1>1. temps \subseteq Inode /\ Budget["crash"] \in Nat /\ budget["crash"] \in Nat
      /\ Budget["power"] \in Nat /\ budget["power"] \in Nat
  BY DEF Fault
<1>2. CASE budget' = budget /\ Strays' = Strays
  BY <1>2 DEF StrayInv, Untidy
<1>3. ASSUME NEW p \in Proc, NEW v \in Value, NEW i \in Inode, CreateTemp(p, v, i)
      PROVE  Strays' = Strays
  BY <1>3 DEF CreateTemp, UniqueName, Unused, Strays, OwnInv
<1>4. ASSUME NEW p \in Proc, Rename(p) \/ SaveFails(p) PROVE Strays' = Strays
  BY <1>4 DEF Rename, SaveFails, Strays, OwnInv
<1>5. ASSUME NEW p \in Proc, Write(p) \/ Flush(p) \/ LoadNone(p) \/ LoadOpen(p) \/ LoadRead(p) \/ Delete(p)
      PROVE  Strays' = Strays
  BY <1>5 DEF Write, Flush, LoadNone, LoadOpen, LoadRead, Delete, Strays
<1>6. ASSUME NEW p \in Proc, Crash(p) PROVE StrayInv'
  <2>1. Strays' = Strays \/ Strays' = Strays \cup {tmp[p]}
    BY <1>6 DEF Crash, Strays, OwnInv
  <2>2. budget'["crash"] = budget["crash"] - 1 /\ budget'["power"] = budget["power"]
    BY <1>6 DEF Crash, Spend, Fault
  <2>3. Cardinality(Strays) \in Nat /\ Cardinality(Strays \cup {tmp[p]}) \in Nat
        /\ Cardinality(Strays \cup {tmp[p]}) <= Cardinality(Strays) + 1
    BY <1>1, StrayCount
  <2>4. Cardinality(Strays') \in Nat /\ Cardinality(Strays') <= Cardinality(Strays) + 1
    <3>1. CASE Strays' = Strays
      BY <3>1, <2>3
    <3>2. CASE Strays' = Strays \cup {tmp[p]}
      <4>1. Cardinality(Strays') = Cardinality(Strays \cup {tmp[p]})
        BY <3>2
      <4>2. QED
        BY <4>1, <2>3
    <3>3. QED
      BY <2>1, <3>1, <3>2
  <2>5. budget["power"] = Budget["power"] => Cardinality(Strays') <= Budget["crash"] - budget'["crash"]
    BY <1>1, <2>2, <2>3, <2>4 DEF StrayInv, Untidy
  <2>6. QED
    BY <1>1, <2>2, <2>5 DEF StrayInv, Untidy
<1>7. CASE PowerLoss
  <2>1. budget'["crash"] = budget["crash"] /\ budget'["power"] = budget["power"] - 1
    BY <1>7 DEF PowerLoss, Spend, Fault
  <2>2. QED
    BY <1>1, <2>1 DEF StrayInv
<1>8. CASE WriteBackNames \/ UNCHANGED vars \/ \E i \in Inode : WriteBackData(i)
  BY <1>8, <1>2 DEF WriteBackNames, WriteBackData, vars, Strays
<1>9. QED
  BY <1>2, <1>3, <1>4, <1>5, <1>6, <1>7, <1>8
     DEF Next, CreateTemp, Rename, SaveFails, Write, Flush, LoadNone, LoadOpen, LoadRead, Delete

\* Save removes its temporary file however it ends.
THEOREM SavesAreTidy == Spec => []NoStrayTemps
<1>1. Init => StrayInv
  BY FS_EmptySet DEF Init, StrayInv, Untidy, Strays, Fault
<1>2. IInv /\ StrayInv /\ [Next]_vars => StrayInv'
  BY StrayStep
<1>3. StrayInv => NoStrayTemps
  BY DEF StrayInv, Untidy, NoStrayTemps
<1>4. QED
  BY <1>1, <1>2, <1>3, Inductive, PTL DEF Spec

-----------------------------------------------------------------------------
(* The register.                                                           *)

\* What a process has read, or is about to read from the file it has open.
Seen(p) == IF pc[p] = "reading" THEN data[fd[p]] ELSE loaded[p]

\* Every step is a step of the register, a stutter, or a loss of power.
LEMMA RegisterStep ==
  IInv /\ [Next]_vars => [Register!Next \/ PowerFails]_(Register!vars)
<1> SUFFICES ASSUME IInv, [Next]_vars PROVE Register!Next \/ PowerFails \/ UNCHANGED Register!vars
  OBVIOUS
<1> DEFINE Seens == [p \in Proc |-> Seen(p)]
<1> USE DEF IInv, TypeOK, Saving, Goto, Done, names, saving, loading, durable, Seen,
        NamedInv, Named, Stored, Register!vars
<1>1. ASSUME NEW p \in Proc, NEW v \in Value, NEW i \in Inode, CreateTemp(p, v, i)
      PROVE  UNCHANGED <<Stored, Seens>>
  BY <1>1 DEF CreateTemp, UniqueName, Unused, Label
<1>2. ASSUME NEW p \in Proc, Write(p) PROVE UNCHANGED <<Stored, Seens>>
  BY <1>2 DEF Write, OwnInv, Label
<1>3. ASSUME NEW p \in Proc, Rename(p) PROVE Register!Next
  <2>1. Stored' = val[p] /\ val[p] \in Value
    BY <1>3 DEF Rename, OwnInv, StageInv
  <2>2. Seens' = Seens
    BY <1>3 DEF Rename, Label
  <2>3. QED
    BY <2>1, <2>2 DEF Register!Next, Register!Save
<1>4. ASSUME NEW p \in Proc, Delete(p) PROVE Register!Next
  BY <1>4 DEF Delete, Register!Next, Register!Delete
<1>5. ASSUME NEW p \in Proc, LoadNone(p) PROVE Register!Next
  <2>1. Stored' = Stored /\ Seens' = [Seens EXCEPT ![p] = Stored]
    BY <1>5 DEF LoadNone
  <2>2. QED
    BY <2>1 DEF Register!Next, Register!Load
<1>6. ASSUME NEW p \in Proc, LoadOpen(p) PROVE Register!Next
  <2>1. Stored' = Stored /\ Seens' = [Seens EXCEPT ![p] = Stored]
    BY <1>6 DEF LoadOpen
  <2>2. QED
    BY <2>1 DEF Register!Next, Register!Load
<1>7. ASSUME NEW p \in Proc, LoadRead(p) PROVE UNCHANGED <<Stored, Seens>>
  BY <1>7 DEF LoadRead
<1>8. ASSUME NEW p \in Proc, Crash(p) PROVE Register!Next
  <2>1. Stored' = Stored /\ Seens' = [Seens EXCEPT ![p] = NoSession]
    BY <1>8 DEF Crash
  <2>2. QED
    BY <2>1 DEF Register!Next, Register!Forget
<1>9. ASSUME NEW p \in Proc, Flush(p) \/ SaveFails(p) PROVE UNCHANGED <<Stored, Seens>>
  BY <1>9 DEF Flush, SaveFails, Label
<1>10. CASE WriteBackNames \/ UNCHANGED vars \/ \E i \in Inode : WriteBackData(i)
  BY <1>10 DEF WriteBackNames, WriteBackData, vars
<1>11. CASE PowerLoss
  BY <1>11 DEF PowerLoss, PowerFails, Spend, Fault
<1>12. QED
  BY <1>1, <1>2, <1>3, <1>4, <1>5, <1>6, <1>7, <1>8, <1>9, <1>10, <1>11 DEF Next

\* Until the power fails, processes see one atomic register.
THEOREM FileIsRegister == Spec => ImplementsRegister
<1>1. Init => Register!Init
  BY DEF Init, Register!Init, Stored
<1>2. QED
  BY <1>1, RegisterStep, Inductive, PTL DEF Spec, ImplementsRegister
=============================================================================
