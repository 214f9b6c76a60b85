---------------------------- MODULE SessionFile -----------------------------
(***************************************************************************)
(* How credentials/session.go stores the session: Save writes a temporary  *)
(* file, flushes it and renames it over the target; Load opens the target  *)
(* and reads it; Delete removes it.  Any step of a Save may fail, a        *)
(* process may die between two steps, and the machine may lose power.      *)
(*                                                                         *)
(* A file's content is a whole session or Torn (empty or half written,     *)
(* which does not parse).  The page cache is what processes see; the       *)
(* storage below it (durable...) trails behind until something flushes it, *)
(* and contents and directory entries reach it in no particular order.     *)
(***************************************************************************)
EXTENDS Naturals, FiniteSets

CONSTANTS
  Proc,       \* processes sharing the file
  Value,      \* sessions they save
  Inode,      \* files the directory can hold
  NoFile,     \* the target when the name does not exist
  NoSession,  \* what Load returns then (ErrNoSession)
  Torn,       \* a file that is empty or half written (CorruptError)
  Budget      \* how many processes may die, and how often power may fail

Fault == {"crash", "power"}
ASSUME ContentAssumption == Torn \notin Value /\ NoSession \notin Value /\ Torn # NoSession
ASSUME InodeAssumption == NoFile \notin Inode /\ IsFiniteSet(Inode)
ASSUME BudgetAssumption == Budget \in [Fault -> Nat]

VARIABLES
  target,         \* the file the session's name refers to
  temps,          \* files under temporary names
  data,           \* the content of each file
  durableTarget, durableData,  \* target and data as stable storage has them
  pc, tmp, val,   \* each process's step of Save, its temporary file, its session
  fd,             \* the file a Load has open
  loaded,         \* what each process's last Load returned
  budget

names   == <<target, temps>>
durable == <<durableTarget, durableData>>
saving  == <<tmp, val>>
loading == <<fd, loaded>>
vars    == <<target, temps, data, durableTarget, durableData, pc, tmp, val, fd, loaded, budget>>

Label   == {"idle", "created", "written", "flushed", "reading"}
Saving(p) == pc[p] \in {"created", "written", "flushed"}
Content == Value \cup {Torn}

Init ==
  /\ target = NoFile /\ temps = {} /\ data = [i \in Inode |-> Torn]
  /\ durableTarget = NoFile /\ durableData = [i \in Inode |-> Torn]
  /\ pc = [p \in Proc |-> "idle"] /\ tmp = [p \in Proc |-> NoFile]
  /\ val = [p \in Proc |-> Torn]
  /\ fd = [p \in Proc |-> NoFile] /\ loaded = [p \in Proc |-> NoSession]
  /\ budget = Budget

Done(p) ==
  /\ pc' = [pc EXCEPT ![p] = "idle"]
  /\ tmp' = [tmp EXCEPT ![p] = NoFile] /\ val' = [val EXCEPT ![p] = Torn]
Goto(p, l) == pc' = [pc EXCEPT ![p] = l]
Spend(k) == budget[k] > 0 /\ budget' = [budget EXCEPT ![k] = @ - 1]

-----------------------------------------------------------------------------
(* Save *)

\* A file nothing refers to: no name, no open handle, no entry on storage.
Unused(i) == i \notin temps \cup {target, durableTarget} /\ \A p \in Proc : fd[p] # i

\* CreateTemp opens a file of its own for every write; a fixed name would open
\* and truncate the one another Save is still writing.
FixedName(i) == IF temps = {} THEN Unused(i) ELSE i \in temps
UniqueName(i) == Unused(i)

CreateTemp(p, v, i) ==
  /\ pc[p] = "idle" /\ UniqueName(i)
  /\ Goto(p, "created") /\ tmp' = [tmp EXCEPT ![p] = i] /\ val' = [val EXCEPT ![p] = v]
  /\ temps' = temps \cup {i}
  /\ data' = [data EXCEPT ![i] = Torn] /\ durableData' = [durableData EXCEPT ![i] = Torn]
  /\ UNCHANGED <<target, durableTarget, loading, budget>>

Write(p) ==
  /\ pc[p] = "created" /\ Goto(p, "written")
  /\ data' = [data EXCEPT ![tmp[p]] = val[p]]
  /\ UNCHANGED <<names, durable, saving, loading, budget>>

FlushSkipped(p) ==
  /\ pc[p] = "written" /\ Goto(p, "flushed")
  /\ UNCHANGED <<names, data, durable, saving, loading, budget>>

Flush(p) ==
  /\ pc[p] = "written" /\ Goto(p, "flushed")
  /\ durableData' = [durableData EXCEPT ![tmp[p]] = data[tmp[p]]]
  /\ UNCHANGED <<names, data, durableTarget, saving, loading, budget>>

RenameByCopy(p) ==
  /\ pc[p] = "flushed" /\ Done(p)
  /\ temps' = temps \ {tmp[p]} /\ target' = IF target = NoFile THEN tmp[p] ELSE target
  /\ data' = IF target = NoFile THEN data ELSE [data EXCEPT ![target] = Torn]
  /\ UNCHANGED <<durable, loading, budget>>

Rename(p) ==
  /\ pc[p] = "flushed" /\ Done(p)
  /\ target' = tmp[p] /\ temps' = temps \ {tmp[p]}
  /\ UNCHANGED <<data, durable, loading, budget>>

SaveFailsUntidy(p) ==
  /\ Saving(p) /\ Done(p)
  /\ UNCHANGED <<names, data, durable, loading, budget>>

\* Write, Sync, Close or Rename returned an error: the deferred Remove runs.
SaveFails(p) ==
  /\ Saving(p) /\ Done(p)
  /\ temps' = temps \ {tmp[p]}
  /\ UNCHANGED <<target, data, durable, loading, budget>>

-----------------------------------------------------------------------------
(* Load and Delete *)

LoadNone(p) ==
  /\ pc[p] = "idle" /\ target = NoFile
  /\ loaded' = [loaded EXCEPT ![p] = NoSession]
  /\ UNCHANGED <<names, data, durable, pc, saving, fd, budget>>

LoadOpen(p) ==
  /\ pc[p] = "idle" /\ target # NoFile
  /\ Goto(p, "reading") /\ fd' = [fd EXCEPT ![p] = target]
  /\ UNCHANGED <<names, data, durable, saving, loaded, budget>>

LoadRead(p) ==
  /\ pc[p] = "reading" /\ Goto(p, "idle")
  /\ loaded' = [loaded EXCEPT ![p] = data[fd[p]]] /\ fd' = [fd EXCEPT ![p] = NoFile]
  /\ UNCHANGED <<names, data, durable, saving, budget>>

Delete(p) ==
  /\ pc[p] = "idle" /\ target' = NoFile
  /\ UNCHANGED <<temps, data, durable, pc, saving, loading, budget>>

-----------------------------------------------------------------------------
(* Failures, and the operating system writing back in its own time.        *)

Crash(p) ==
  /\ pc[p] # "idle" /\ Spend("crash") /\ Done(p)
  /\ fd' = [fd EXCEPT ![p] = NoFile] /\ loaded' = [loaded EXCEPT ![p] = NoSession]
  /\ UNCHANGED <<names, data, durable>>

WriteBackData(i) ==
  /\ durableData[i] # data[i] /\ durableData' = [durableData EXCEPT ![i] = data[i]]
  /\ UNCHANGED <<names, data, durableTarget, pc, saving, loading, budget>>

WriteBackNames ==
  /\ durableTarget # target /\ durableTarget' = target
  /\ UNCHANGED <<names, data, durableData, pc, saving, loading, budget>>

PowerLoss ==
  /\ Spend("power")
  /\ target' = durableTarget /\ data' = durableData
  /\ pc' = [p \in Proc |-> "idle"] /\ fd' = [p \in Proc |-> NoFile]
  /\ tmp' = [p \in Proc |-> NoFile] /\ val' = [p \in Proc |-> Torn]
  /\ loaded' = [p \in Proc |-> NoSession]
  /\ UNCHANGED <<temps, durable>>

Next ==
  \/ \E p \in Proc :
       \/ \E v \in Value, i \in Inode : CreateTemp(p, v, i)
       \/ Write(p) \/ Flush(p) \/ Rename(p) \/ SaveFails(p)
       \/ LoadNone(p) \/ LoadOpen(p) \/ LoadRead(p) \/ Delete(p)
       \/ Crash(p)
  \/ \E i \in Inode : WriteBackData(i)
  \/ WriteBackNames \/ PowerLoss

Spec == Init /\ [][Next]_vars

-----------------------------------------------------------------------------
\* The state has its types, and a Save under way still finds its temporary file
\* under its name: no other Save renames or removes it.
TypeOK ==
  /\ target \in Inode \cup {NoFile} /\ durableTarget \in Inode \cup {NoFile}
  /\ temps \subseteq Inode
  /\ data \in [Inode -> Content] /\ durableData \in [Inode -> Content]
  /\ pc \in [Proc -> Label] /\ tmp \in [Proc -> Inode \cup {NoFile}] /\ val \in [Proc -> Content]
  /\ fd \in [Proc -> Inode \cup {NoFile}]
  /\ loaded \in [Proc -> Content \cup {NoSession}]
  /\ budget \in [Fault -> Nat]
  /\ \A p \in Proc : IF Saving(p) THEN tmp[p] \in temps ELSE tmp[p] = NoFile

\* Load never returns half a session, whoever is saving, failing or dying at
\* the time, and whatever a loss of power left behind.
ReadsWhole == \A p \in Proc : loaded[p] # Torn

\* A rename never beats its own content to storage: whatever the storage holds
\* under the session's name is a whole session.
DurableWhole == durableTarget # NoFile => durableData[durableTarget] # Torn

\* No temporary file outlives the Save that made it, however that Save ends,
\* short of the process dying or the power failing.
Strays == {i \in temps : \A p \in Proc : tmp[p] # i}
NoStrayTemps ==
  budget["power"] = Budget["power"] => Cardinality(Strays) <= Budget["crash"] - budget["crash"]

\* Until the power fails, processes see one atomic register: a Save takes effect
\* at its rename, a Load at its open, and failed and interrupted Saves not at all.
Stored == IF target = NoFile THEN NoSession ELSE data[target]
Register == INSTANCE AtomicSession WITH stored <- Stored,
  loaded <- [p \in Proc |-> IF pc[p] = "reading" THEN data[fd[p]] ELSE loaded[p]]
PowerFails == budget'["power"] # budget["power"]
ImplementsRegister == Register!Init /\ [][Register!Next \/ PowerFails]_(Register!vars)
=============================================================================
