--------------------------- MODULE AtomicSession ----------------------------
(***************************************************************************)
(* What credentials.Save, Load and Delete promise the processes that share *)
(* the stored session: one register, replaced or removed in one step, and  *)
(* read as a whole ("a concurrent reader observes either the whole         *)
(* previous session or the whole new one").                                *)
(***************************************************************************)
CONSTANTS Proc, Value, NoSession

VARIABLES
  stored,  \* the stored session, or NoSession
  loaded   \* what each process's last Load returned

vars == <<stored, loaded>>

Init == stored = NoSession /\ loaded = [p \in Proc |-> NoSession]

Save(v) == stored' = v /\ UNCHANGED loaded
Delete  == stored' = NoSession /\ UNCHANGED loaded
Load(p) == loaded' = [loaded EXCEPT ![p] = stored] /\ UNCHANGED stored
\* A process dies, and what it had read with it.
Forget(p) == loaded' = [loaded EXCEPT ![p] = NoSession] /\ UNCHANGED stored

Next == (\E v \in Value : Save(v)) \/ Delete \/ (\E p \in Proc : Load(p) \/ Forget(p))

Spec == Init /\ [][Next]_vars
=============================================================================
