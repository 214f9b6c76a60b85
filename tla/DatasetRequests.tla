--------------------------- MODULE DatasetRequests ---------------------------
(***************************************************************************)
(* The calls of dataset handles (dataset.go).  Declare, Commit and Query   *)
(* write the handle's id into the request they are given, and the request  *)
(* is read again every time it is sent: by every attempt of the retry and  *)
(* by the reissue after a renewal.  A program keeps its requests and uses  *)
(* them again, with this handle or another, one after the other or at the  *)
(* same time: nothing here copies a request or holds a lock, so calls that *)
(* share one race for its id.                                              *)
(*                                                                         *)
(* What the layers below do to one call is CallPipeline's subject; here    *)
(* they may send its request again, in the cases the code allows.          *)
(***************************************************************************)
EXTENDS Naturals, FiniteSets

CONSTANTS
  Goroutine,  \* they share the Client and the requests
  Dataset,    \* the ids handles are made for
  Unset,      \* the id of a request nobody has filled in
  Nil,        \* a nil request
  Torn,       \* an id put together of two: what a race can make of a string
  Requests,   \* the requests the program keeps
  Attempts,   \* RetryPolicy.attempts()
  Calls       \* how many calls the program makes

Takes  == {"CommitData", "QueryData", "DeclareTables"}
Builds == {"GetDataset", "DeleteDataset"}
Method == Takes \cup Builds
\* A kept request, with what safeToReplay reads of it: whether it has a key.
Request == [method : Takes, key : BOOLEAN]
Id == Dataset \cup {Unset, Torn}
Commits == {r \in Requests : r.method = "CommitData"}

ASSUME NamesAssumption == {Unset, Torn} \cap Dataset = {} /\ Nil \notin Request
ASSUME FiniteAssumption == IsFiniteSet(Goroutine)
ASSUME RequestsAssumption == Requests \subseteq Request
ASSUME BoundsAssumption == Attempts \in Nat \ {0} /\ Calls \in Nat

VARIABLES
  id,        \* the DatasetId field of each kept request
  pc, method, handle, in,  \* each call: its place, method, handle and request
  own,       \* the DatasetId of the request the SDK makes for the call
  wire,      \* the DatasetId of the message in flight
  left,      \* cappedRetryer.left
  calls,     \* what is left of Calls
  begun, applied, answered, \* commits of a request to a dataset: calls that
                            \* began, times the rows changed, successes returned
  crossed, mixed            \* history: the calls under way whose request was given
                            \* to another dataset's handle meanwhile, and the
                            \* requests such a thing ever happened to

commits == <<begun, applied, answered>>
history == <<crossed, mixed>>
call    == <<method, handle, in, own>>
vars    == <<id, pc, method, handle, in, own, wire, left, calls, begun, applied, answered,
             crossed, mixed>>

Busy(g) == pc[g] # "idle"
InFlight(g) == pc[g] \in {"sent", "resent"}

-----------------------------------------------------------------------------
Init ==
  /\ id \in [Requests -> Dataset \cup {Unset}]
  /\ pc = [g \in Goroutine |-> "idle"] /\ method = [g \in Goroutine |-> "GetDataset"]
  /\ handle = [g \in Goroutine |-> Unset] /\ in = [g \in Goroutine |-> Nil]
  /\ own = [g \in Goroutine |-> Unset] /\ wire = [g \in Goroutine |-> Unset]
  /\ left = [g \in Goroutine |-> 0] /\ calls = Calls
  /\ begun = [d \in Dataset |-> [r \in Commits |-> 0]]
  /\ applied = begun /\ answered = begun
  /\ crossed = [g \in Goroutine |-> FALSE] /\ mixed = {}

Goto(g, l) == pc' = [pc EXCEPT ![g] = l]
Count(table, d, r) == [table EXCEPT ![d][r] = @ + 1]

\* The calls under way on a request for another dataset.  While there are any,
\* a write of its id and a read of it may meet another write half done.
Others(r, d) == {h \in Goroutine : Busy(h) /\ r # Nil /\ in[h] = r /\ handle[h] # d}
Raced(r, d) == IF Others(r, d) = {} THEN {} ELSE {Torn}

\* in.DatasetId = d, after a nil request was replaced by an empty one.
Assign(r, d) == \E i \in {d} \cup Raced(r, d) : id' = [id EXCEPT ![r] = i]
ScopeIfUnset(r, d) == IF r # Nil /\ id[r] = Unset THEN Assign(r, d) ELSE id' = id
Scope(r, d) == IF r # Nil THEN Assign(r, d) ELSE id' = id

Cross(g, r, d) ==
  IF Others(r, d) = {} THEN UNCHANGED history
  ELSE /\ crossed' = [h \in Goroutine |-> crossed[h] \/ h \in Others(r, d) \cup {g}]
       /\ mixed' = mixed \cup {r}

Begin(g, m, d, r) ==
  /\ pc[g] = "idle" /\ calls > 0 /\ calls' = calls - 1
  /\ Goto(g, "ready") /\ Scope(r, d) /\ Cross(g, r, d)
  /\ method' = [method EXCEPT ![g] = m] /\ handle' = [handle EXCEPT ![g] = d]
  /\ in' = [in EXCEPT ![g] = r] /\ own' = [own EXCEPT ![g] = IF r = Nil THEN d ELSE Unset]
  /\ left' = [left EXCEPT ![g] = Attempts - 1]
  /\ begun' = IF r \in Commits THEN Count(begun, d, r) ELSE begun
  /\ UNCHANGED <<wire, applied, answered>>

\* Get and Destroy make a request of their own, as the others do for nil.
Call(g, m, d, r) ==
  /\ r # Nil => m = r.method
  /\ Begin(g, m, d, r)

DatasetId(g) == IF in[g] = Nil THEN own[g] ELSE id[in[g]]

\* The request is marshalled.
Send(g) ==
  /\ \/ pc[g] = "ready" /\ Goto(g, "sent")
     \/ pc[g] = "again" /\ Goto(g, "resent")
  /\ \E i \in {DatasetId(g)} \cup Raced(in[g], handle[g]) : wire' = [wire EXCEPT ![g] = i]
  /\ UNCHANGED <<id, call, left, calls, commits, history>>

-----------------------------------------------------------------------------
(* What becomes of the message.                                            *)

\* A commit that reaches its dataset; a key that has been there finds a receipt.
Apply(g) ==
  applied' = IF in[g] \in Commits /\ wire[g] \in Dataset
                /\ ~ (in[g].key /\ applied[wire[g]][in[g]] > 0)
             THEN Count(applied, wire[g], in[g]) ELSE applied

\* The call is over, and its locals with it.
Leave(g) ==
  /\ Goto(g, "idle") /\ wire' = [wire EXCEPT ![g] = Unset]
  /\ method' = [method EXCEPT ![g] = "GetDataset"] /\ handle' = [handle EXCEPT ![g] = Unset]
  /\ in' = [in EXCEPT ![g] = Nil] /\ own' = [own EXCEPT ![g] = Unset]
  /\ left' = [left EXCEPT ![g] = 0]
  /\ crossed' = [crossed EXCEPT ![g] = FALSE] /\ mixed' = mixed

Serve(g) ==
  /\ InFlight(g) /\ Apply(g) /\ Leave(g)
  /\ answered' = IF in[g] \in Commits THEN Count(answered, handle[g], in[g]) ELSE answered
  /\ UNCHANGED <<id, calls, begun>>

SafeByMethod(g) == method[g] \in {"GetDataset", "QueryData", "CommitData"}
SafeToReplay(g) ==
  \/ method[g] \in {"GetDataset", "QueryData"}
  \/ method[g] = "CommitData" /\ in[g] # Nil /\ in[g].key

\* UNAVAILABLE, though the request may have been served.
TransportFails(g) == InFlight(g) /\ (Apply(g) \/ UNCHANGED applied)

RetryUncapped(g) ==
  /\ TransportFails(g) /\ SafeToReplay(g)
  /\ Goto(g, "ready") /\ left' = [left EXCEPT ![g] = @ - 1]
  /\ wire' = [wire EXCEPT ![g] = Unset]
  /\ UNCHANGED <<id, call, calls, begun, answered, history>>

Retry(g) ==
  /\ TransportFails(g) /\ SafeToReplay(g) /\ left[g] > 0
  /\ Goto(g, "ready") /\ left' = [left EXCEPT ![g] = @ - 1]
  /\ wire' = [wire EXCEPT ![g] = Unset]
  /\ UNCHANGED <<id, call, calls, begun, answered, history>>

GiveUp(g) ==
  /\ TransportFails(g) /\ ~ (SafeToReplay(g) /\ left[g] > 0)
  /\ Leave(g) /\ UNCHANGED <<id, calls, begun, answered>>

\* Refused for its credential, which is renewed: any call is sent once more.
Reissue(g) ==
  /\ pc[g] = "sent" /\ Goto(g, "again")
  /\ wire' = [wire EXCEPT ![g] = Unset]
  /\ UNCHANGED <<id, call, left, calls, commits, history>>

\* Refused for good, or the caller's context is done: nothing is replayed.
Fail(g) ==
  /\ Busy(g) /\ Leave(g)
  /\ UNCHANGED <<id, calls, commits>>

-----------------------------------------------------------------------------
Next ==
  \E g \in Goroutine :
    \/ \E m \in Takes, d \in Dataset, r \in Requests \cup {Nil} : Call(g, m, d, r)
    \/ \E m \in Builds, d \in Dataset : Call(g, m, d, Nil)
    \/ Send(g) \/ Serve(g) \/ Retry(g) \/ GiveUp(g) \/ Reissue(g) \/ Fail(g)

Spec == Init /\ [][Next]_vars

-----------------------------------------------------------------------------
Tally == [Dataset -> [Commits -> Nat]]
TypeOK ==
  /\ id \in [Requests -> Id]
  /\ pc \in [Goroutine -> {"idle", "ready", "sent", "again", "resent"}]
  /\ method \in [Goroutine -> Method] /\ handle \in [Goroutine -> Id]
  /\ in \in [Goroutine -> Requests \cup {Nil}]
  /\ own \in [Goroutine -> Id] /\ wire \in [Goroutine -> Id]
  /\ left \in [Goroutine -> Nat] /\ calls \in Nat
  /\ begun \in Tally /\ applied \in Tally /\ answered \in Tally
  /\ crossed \in [Goroutine -> BOOLEAN] /\ mixed \subseteq Requests
  /\ \A g \in Goroutine : Busy(g) => handle[g] \in Dataset

\* What a call sends goes to its handle's dataset, the retries and reissues
\* included, whatever its request was used for before and whoever else uses it for
\* the same dataset: only a call whose request another dataset's handle was given
\* while it was under way can go astray (dataset.go writes the id into a request
\* it does not copy).
HandleDecides == \A g \in Goroutine : InFlight(g) => wire[g] = handle[g] \/ crossed[g]

\* A key changes the rows of a dataset once, and a commit changes none where the
\* program never sent it, however its request is shared.  The commits of a request
\* that was never two datasets' at once add up, whatever was lost on the way: the
\* rows change at most once for each call, and one that succeeded changed the rows
\* of its own handle's dataset.
CommitsAddUp ==
  \A d \in Dataset, r \in Commits :
    /\ r.key => applied[d][r] <= 1
    /\ applied[d][r] > 0 => begun[d][r] > 0
    /\ r \notin mixed =>
         /\ applied[d][r] <= begun[d][r]
         /\ IF r.key THEN answered[d][r] > 0 => applied[d][r] = 1
                     ELSE answered[d][r] <= applied[d][r]

=============================================================================
