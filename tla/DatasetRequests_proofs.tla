------------------------ MODULE DatasetRequests_proofs ------------------------
(***************************************************************************)
(* Proofs about DatasetRequests, for any number of goroutines, datasets,   *)
(* kept requests, attempts and calls.                                      *)
(*                                                                         *)
(* The argument: two calls under way on one request for two datasets are   *)
(* both crossed, and so is their request (CrossInv); while a call is not,  *)
(* its request bears its handle's id (ScopeInv), and so does what it       *)
(* sends.  A request under way bears the id of a handle it was given to,   *)
(* or no dataset's (WroteInv).  A commit without a key changes rows at     *)
(* most once, when its call ends, so the calls that began cover the rows   *)
(* that changed and the calls that still may change some (SpareInv).       *)
(***************************************************************************)
EXTENDS DatasetRequests, FiniteSetTheorems, TLAPS

\* Calls that share a request for two datasets are crossed, and nobody else is.
CrossInv ==
  /\ \A g, h \in Goroutine :
       Busy(g) /\ Busy(h) /\ in[g] = in[h] /\ in[g] # Nil /\ handle[g] # handle[h] => crossed[g]
  /\ \A g \in Goroutine : crossed[g] => Busy(g) /\ in[g] \in mixed

\* The request of a call under way bears the handle's id, and is of the right type.
ScopeInv ==
  \A g \in Goroutine : Busy(g) =>
    /\ DatasetId(g) = handle[g] \/ crossed[g]
    /\ in[g] # Nil => method[g] = in[g].method

\* A commit under way, and its message, name a dataset only if a commit of that
\* request to that dataset began.
WroteInv ==
  \A g \in Goroutine : in[g] \in Commits =>
    /\ Busy(g) /\ id[in[g]] \in Dataset => begun[id[in[g]]][in[g]] >= 1
    /\ InFlight(g) /\ wire[g] \in Dataset => begun[wire[g]][in[g]] >= 1

Pending(d, r) == {g \in Goroutine : Busy(g) /\ in[g] = r /\ handle[g] = d}
\* The calls that began cover what they have done and may yet do.
SpareInv ==
  \A d \in Dataset, r \in Commits :
    /\ r \notin mixed /\ ~ r.key => applied[d][r] + Cardinality(Pending(d, r)) <= begun[d][r]
    /\ Pending(d, r) # {} => begun[d][r] >= 1

\* The inductive invariant.
IInv ==
  /\ TypeOK /\ CrossInv /\ ScopeInv /\ WroteInv /\ HandleDecides
  /\ SpareInv /\ CommitsAddUp

-----------------------------------------------------------------------------
\* Nil is not a commit, and a commit is a kept request.
LEMMA CommitNames ==
  /\ Nil \notin Requests
  /\ \A r \in Commits : r \in Requests /\ r # Nil /\ r.method = "CommitData" /\ r.key \in BOOLEAN
  BY NamesAssumption, RequestsAssumption DEF Commits, Request

\* Counting one more raises that count and no other.
LEMMA CountType ==
  ASSUME NEW table \in Tally, NEW d \in Dataset, NEW r \in Commits
  PROVE  /\ Count(table, d, r) \in Tally
         /\ Count(table, d, r)[d][r] = table[d][r] + 1
         /\ \A e \in Dataset, s \in Commits :
              e # d \/ s # r => Count(table, d, r)[e][s] = table[e][s]
  BY DEF Count, Tally

\* What a message does to the rows, in the types.
LEMMA ApplyType ==
  ASSUME TypeOK, NEW g \in Goroutine, Apply(g) PROVE applied' \in Tally
  BY CountType DEF Apply, TypeOK

\* A goroutine that joins or leaves changes the number of those pending by one.
LEMMA PendingCount ==
  ASSUME NEW d, NEW r, NEW g
  PROVE  /\ Cardinality(Pending(d, r)) \in Nat /\ Cardinality(Pending(d, r) \ {g}) \in Nat
         /\ Cardinality(Pending(d, r) \ {g}) <= Cardinality(Pending(d, r))
         /\ g \in Pending(d, r) =>
              Cardinality(Pending(d, r) \ {g}) + 1 = Cardinality(Pending(d, r))
         /\ g \notin Pending(d, r) =>
              Cardinality(Pending(d, r) \cup {g}) = Cardinality(Pending(d, r)) + 1
<1>1. IsFiniteSet(Pending(d, r)) /\ IsFiniteSet(Pending(d, r) \ {g})
  <2>1. Pending(d, r) \in SUBSET Goroutine
    BY DEF Pending
  <2>2. QED
    BY <2>1, FiniteAssumption, FS_Subset
<1>2. Cardinality(Pending(d, r)) \in Nat /\ Cardinality(Pending(d, r) \ {g}) \in Nat
  BY <1>1, FS_CardinalityType
<1>3. Cardinality(Pending(d, r) \ {g})
        = IF g \in Pending(d, r) THEN Cardinality(Pending(d, r)) - 1 ELSE Cardinality(Pending(d, r))
  BY <1>1, FS_RemoveElement
<1>4. g \notin Pending(d, r) => Cardinality(Pending(d, r) \cup {g}) = Cardinality(Pending(d, r)) + 1
  BY <1>1, FS_AddElement
<1>5. QED
  BY <1>2, <1>3, <1>4

-----------------------------------------------------------------------------
(* Every step keeps the types.                                             *)

LEMMA TypeStep == TypeOK /\ [Next]_vars => TypeOK'
<1> SUFFICES ASSUME TypeOK, [Next]_vars PROVE TypeOK'
  OBVIOUS
<1> USE DEF TypeOK, Busy, InFlight, Goto, Id, Method, Builds, call, commits, history
<1>1. ASSUME NEW g \in Goroutine, NEW m \in Method, NEW d \in Dataset,
             NEW r \in Requests \cup {Nil}, Call(g, m, d, r)
      PROVE  TypeOK'
  <2>1. Attempts - 1 \in Nat /\ (calls > 0 => calls - 1 \in Nat)
    BY BoundsAssumption
  <2>2. begun' \in Tally
    BY <1>1, CountType DEF Call, Begin
  <2>3. id' \in [Requests -> Id]
    BY <1>1 DEF Call, Begin, Scope, Assign, Raced
  <2>4. crossed' \in [Goroutine -> BOOLEAN] /\ mixed' \subseteq Requests
    BY <1>1 DEF Call, Begin, Cross, Others
  <2>5. QED
    BY <1>1, <2>1, <2>2, <2>3, <2>4 DEF Call, Begin
<1>2. ASSUME NEW g \in Goroutine, Send(g) PROVE TypeOK'
  BY <1>2 DEF Send, DatasetId, Raced
<1>3. ASSUME NEW g \in Goroutine, Serve(g) PROVE TypeOK'
  <2>1. answered' \in Tally
    BY <1>3, CountType DEF Serve
  <2>2. applied' \in Tally
    BY <1>3, ApplyType DEF Serve
  <2>3. QED
    BY <1>3, <2>1, <2>2 DEF Serve, Leave
<1>4. ASSUME NEW g \in Goroutine, Retry(g) PROVE TypeOK'
  <2>1. applied' \in Tally
    BY <1>4, ApplyType DEF Retry, TransportFails
  <2>2. left[g] - 1 \in Nat
    BY <1>4 DEF Retry
  <2>3. QED
    BY <1>4, <2>1, <2>2 DEF Retry, TransportFails
<1>5. ASSUME NEW g \in Goroutine, GiveUp(g) PROVE TypeOK'
  <2>1. applied' \in Tally
    BY <1>5, ApplyType DEF GiveUp, TransportFails
  <2>2. QED
    BY <1>5, <2>1 DEF GiveUp, Leave
<1>6. ASSUME NEW g \in Goroutine, Reissue(g) PROVE TypeOK'
  BY <1>6 DEF Reissue
<1>7. ASSUME NEW g \in Goroutine, Fail(g) PROVE TypeOK'
  BY <1>7 DEF Fail, Leave
<1>8. CASE UNCHANGED vars
  BY <1>8 DEF vars
<1>9. QED
  BY <1>1, <1>2, <1>3, <1>4, <1>5, <1>6, <1>7, <1>8 DEF Next

-----------------------------------------------------------------------------
(* Requests and messages.                                                  *)

\* The steps that end a call, and those that leave every call its request.
Leaves(g) == Serve(g) \/ GiveUp(g) \/ Fail(g)
Stays(g)  == Send(g) \/ Retry(g) \/ Reissue(g)
LEMMA StepCases ==
  Next => \/ \E g \in Goroutine, m \in Method, d \in Dataset, r \in Requests \cup {Nil} : Call(g, m, d, r)
          \/ \E g \in Goroutine : Leaves(g) \/ Stays(g)
  BY DEF Next, Leaves, Stays, Method

\* Who stays keeps its request and its place among the busy.
LEMMA StaysEffect ==
  ASSUME TypeOK, NEW g \in Goroutine, Stays(g)
  PROVE  /\ UNCHANGED <<id, call, begun, answered, history>>
         /\ \A h \in Goroutine : Busy(h)' = Busy(h)
  BY DEF TypeOK, Stays, Send, Retry, Reissue, TransportFails, InFlight, Goto, Busy, commits

\* Who leaves is idle, and the others keep their requests.
LEMMA LeavesEffect ==
  ASSUME TypeOK, NEW g \in Goroutine, Leaves(g)
  PROVE  /\ UNCHANGED <<id, begun, mixed>> /\ Busy(g) /\ ~ Busy(g)' /\ ~ crossed'[g]
         /\ in'[g] = Nil
         /\ \A h \in Goroutine \ {g} :
              UNCHANGED <<pc[h], method[h], handle[h], in[h], own[h], wire[h], crossed[h]>>
  BY DEF TypeOK, Leaves, Serve, GiveUp, Fail, Leave, TransportFails, InFlight, Goto, Busy, commits

\* Who begins has its request bear the id, or what a race makes of it, and crosses
\* the calls that use the request for another dataset.
LEMMA CallEffect ==
  ASSUME TypeOK, CrossInv, NEW g \in Goroutine, NEW m \in Method, NEW d \in Dataset,
         NEW r \in Requests \cup {Nil}, Call(g, m, d, r)
  PROVE  /\ ~ Busy(g) /\ Busy(g)' /\ ~ InFlight(g)' /\ in'[g] = r /\ handle'[g] = d
         /\ r = Nil => own'[g] = d
         /\ r # Nil => method'[g] = r.method /\ id'[r] \in {d} \cup Raced(r, d)
         /\ \A s \in Requests \ {r} : id'[s] = id[s]
         /\ crossed'[g] <=> Others(r, d) # {}
         /\ mixed \subseteq mixed' /\ (Others(r, d) # {} => r \in mixed')
         /\ \A h \in Goroutine \ {g} :
              /\ UNCHANGED <<pc[h], method[h], handle[h], in[h], own[h], wire[h]>>
              /\ crossed'[h] <=> crossed[h] \/ h \in Others(r, d)
<1>1. /\ ~ Busy(g) /\ Busy(g)' /\ ~ InFlight(g)' /\ in'[g] = r /\ handle'[g] = d
      /\ r = Nil => own'[g] = d
      /\ r # Nil => method'[g] = r.method
  BY DEF Call, Begin, Goto, Busy, InFlight, TypeOK
<1>2. /\ r # Nil => id'[r] \in {d} \cup Raced(r, d)
      /\ \A s \in Requests \ {r} : id'[s] = id[s]
  BY DEF Call, Begin, Scope, Assign, TypeOK
<1>3. ~ crossed[g] /\ g \notin Others(r, d)
  BY <1>1 DEF CrossInv, Others
<1>4. /\ crossed'[g] <=> Others(r, d) # {}
      /\ mixed \subseteq mixed' /\ (Others(r, d) # {} => r \in mixed')
      /\ \A h \in Goroutine \ {g} : crossed'[h] <=> crossed[h] \/ h \in Others(r, d)
  <2>1. CASE Others(r, d) = {}
    BY <1>3, <2>1 DEF Call, Begin, Cross, history, TypeOK
  <2>2. CASE Others(r, d) # {}
    BY <1>3, <2>2 DEF Call, Begin, Cross, TypeOK
  <2>3. QED
    BY <2>1, <2>2
<1>5. \A h \in Goroutine \ {g} :
        UNCHANGED <<pc[h], method[h], handle[h], in[h], own[h], wire[h]>>
  BY DEF Call, Begin, Goto, TypeOK
<1>6. QED
  BY <1>1, <1>2, <1>4, <1>5

\* Who uses a request for one dataset crosses who uses it for another.
LEMMA CrossStep == TypeOK /\ CrossInv /\ Next => CrossInv'
<1> SUFFICES ASSUME TypeOK, CrossInv, Next PROVE CrossInv'
  OBVIOUS
<1>1. ASSUME NEW g \in Goroutine, NEW m \in Method, NEW d \in Dataset,
             NEW r \in Requests \cup {Nil}, Call(g, m, d, r)
      PROVE  CrossInv'
  <2>1. ASSUME NEW h \in Goroutine, NEW k \in Goroutine, Busy(h)', Busy(k)',
               in'[h] = in'[k], in'[h] # Nil, handle'[h] # handle'[k]
        PROVE  crossed'[h]
    <3>1. CASE h = g
      BY <1>1, <2>1, <3>1, CallEffect DEF Others, Busy
    <3>2. CASE h # g /\ k = g
      BY <1>1, <2>1, <3>2, CallEffect DEF Others, Busy
    <3>3. CASE h # g /\ k # g
      BY <1>1, <2>1, <3>3, CallEffect DEF CrossInv, Busy
    <3>4. QED
      BY <3>1, <3>2, <3>3
  <2>2. ASSUME NEW h \in Goroutine, crossed'[h] PROVE Busy(h)' /\ in'[h] \in mixed'
    <3>1. CASE h = g
      BY <1>1, <2>2, <3>1, CallEffect
    <3>2. CASE h # g
      BY <1>1, <2>2, <3>2, CallEffect DEF CrossInv, Others, Busy
    <3>3. QED
      BY <3>1, <3>2
  <2>3. QED
    BY <2>1, <2>2 DEF CrossInv
<1>2. ASSUME NEW g \in Goroutine, Leaves(g) PROVE CrossInv'
  BY <1>2, LeavesEffect DEF CrossInv, Busy
<1>3. ASSUME NEW g \in Goroutine, Stays(g) PROVE CrossInv'
  BY <1>3, StaysEffect DEF CrossInv, call, history
<1>4. QED
  BY <1>1, <1>2, <1>3, StepCases

\* Requests under way that nobody crosses bear the ids of their handles.
LEMMA ScopeStep == TypeOK /\ CrossInv /\ ScopeInv /\ Next => ScopeInv'
<1> DEFINE Good(h) == /\ DatasetId(h)' = handle'[h] \/ crossed'[h]
                      /\ in'[h] # Nil => method'[h] = in'[h].method
<1> SUFFICES ASSUME TypeOK, CrossInv, ScopeInv, Next, NEW h \in Goroutine, Busy(h)'
             PROVE  Good(h)
  BY DEF ScopeInv
<1>1. ASSUME NEW g \in Goroutine, NEW m \in Method, NEW d \in Dataset,
             NEW r \in Requests \cup {Nil}, Call(g, m, d, r)
      PROVE  Good(h)
  <2>1. CASE h = g
    BY <1>1, <2>1, CallEffect DEF DatasetId, Raced
  <2>2. CASE h # g
    <3>1. /\ Busy(h) /\ UNCHANGED <<method[h], handle[h], in[h], own[h]>>
          /\ crossed'[h] <=> crossed[h] \/ h \in Others(r, d)
      BY <1>1, <2>2, CallEffect DEF Busy
    <3>2. CASE in[h] = r /\ r # Nil
      <4>1. CASE handle[h] # d
        BY <3>1, <3>2, <4>1 DEF Others, ScopeInv
      <4>2. CASE handle[h] = d
        <5>1. Others(r, d) = {} \/ crossed[h]
          BY <3>1, <3>2, <4>2 DEF Others, CrossInv
        <5>2. id'[r] = d \/ crossed[h]
          BY <1>1, <3>2, <5>1, CallEffect DEF Raced
        <5>3. QED
          BY <3>1, <3>2, <4>2, <5>2 DEF DatasetId, ScopeInv
      <4>3. QED
        BY <4>1, <4>2
    <3>3. CASE in[h] # r \/ r = Nil
      <4>1. in[h] = Nil \/ id'[in[h]] = id[in[h]]
        BY <1>1, <3>3, CallEffect DEF TypeOK
      <4>2. QED
        BY <3>1, <4>1 DEF DatasetId, ScopeInv
    <3>4. QED
      BY <3>2, <3>3
  <2>3. QED
    BY <2>1, <2>2
<1>2. ASSUME NEW g \in Goroutine, Leaves(g) PROVE Good(h)
  BY <1>2, LeavesEffect DEF ScopeInv, DatasetId, Busy
<1>3. ASSUME NEW g \in Goroutine, Stays(g) PROVE Good(h)
  BY <1>3, StaysEffect DEF ScopeInv, DatasetId, call, history
<1>4. QED
  BY <1>1, <1>2, <1>3, StepCases

\* A message is marshalled from the request, or from a race for its id, which a
\* call nobody crosses is not in.
LEMMA SendEffect ==
  ASSUME TypeOK, CrossInv, NEW g \in Goroutine, Send(g)
  PROVE  /\ Busy(g) /\ wire'[g] \in {DatasetId(g), Torn} /\ (wire'[g] = DatasetId(g) \/ crossed[g])
         /\ \A h \in Goroutine \ {g} : UNCHANGED <<pc[h], wire[h]>>
<1>1. Busy(g) /\ wire'[g] \in {DatasetId(g)} \cup Raced(in[g], handle[g])
      /\ \A h \in Goroutine \ {g} : UNCHANGED <<pc[h], wire[h]>>
  BY DEF Send, Goto, Busy, TypeOK
<1>2. Others(in[g], handle[g]) = {} \/ crossed[g]
  BY <1>1 DEF Others, CrossInv
<1>3. QED
  BY <1>1, <1>2 DEF Raced

\* Messages are marshalled from such requests.
LEMMA HandleStep == TypeOK /\ CrossInv /\ ScopeInv /\ HandleDecides /\ Next => HandleDecides'
<1> SUFFICES ASSUME TypeOK, CrossInv, ScopeInv, HandleDecides, Next,
                    NEW h \in Goroutine, InFlight(h)'
             PROVE  wire'[h] = handle'[h] \/ crossed'[h]
  BY DEF HandleDecides
<1>1. ASSUME NEW g \in Goroutine, NEW m \in Method, NEW d \in Dataset,
             NEW r \in Requests \cup {Nil}, Call(g, m, d, r)
      PROVE  wire'[h] = handle'[h] \/ crossed'[h]
  BY <1>1, CallEffect DEF InFlight, HandleDecides
<1>2. ASSUME NEW g \in Goroutine, Leaves(g) PROVE wire'[h] = handle'[h] \/ crossed'[h]
  BY <1>2, LeavesEffect DEF HandleDecides, InFlight, Busy
<1>3. ASSUME NEW g \in Goroutine, Send(g) PROVE wire'[h] = handle'[h] \/ crossed'[h]
  <2>1. UNCHANGED <<call, history>>
    BY <1>3 DEF Send
  <2>2. QED
    BY <1>3, <2>1, SendEffect DEF InFlight, call, history, ScopeInv, HandleDecides
<1>4. ASSUME NEW g \in Goroutine, Retry(g) \/ Reissue(g) PROVE wire'[h] = handle'[h] \/ crossed'[h]
  BY <1>4 DEF Retry, Reissue, Goto, InFlight, call, history, HandleDecides, TypeOK
<1>5. QED
  BY <1>1, <1>2, <1>3, <1>4, StepCases DEF Stays

\* A dataset named by a commit under way is one the program sent it to.
LEMMA WroteStep == TypeOK /\ CrossInv /\ WroteInv /\ Next => WroteInv'
<1> DEFINE Good(h) == /\ Busy(h)' /\ id'[in'[h]] \in Dataset => begun'[id'[in'[h]]][in'[h]] >= 1
                      /\ InFlight(h)' /\ wire'[h] \in Dataset => begun'[wire'[h]][in'[h]] >= 1
<1> SUFFICES ASSUME TypeOK, CrossInv, WroteInv, Next, NEW h \in Goroutine, in'[h] \in Commits
             PROVE  Good(h)
  BY DEF WroteInv
<1>1. ASSUME NEW g \in Goroutine, NEW m \in Method, NEW d \in Dataset,
             NEW r \in Requests \cup {Nil}, Call(g, m, d, r)
      PROVE  Good(h)
  <2>1. \A e \in Dataset, s \in Commits :
          /\ begun'[e][s] >= begun[e][s]
          /\ e = d /\ s = r => begun'[e][s] >= 1
    <3>1. begun \in Tally /\ \A e \in Dataset, s \in Commits : begun[e][s] \in Nat
      BY DEF TypeOK, Tally
    <3>2. begun' = IF r \in Commits THEN Count(begun, d, r) ELSE begun
      BY <1>1 DEF Call, Begin
    <3>3. QED
      BY <3>1, <3>2, CountType
  <2>2. r # Nil => id'[r] = d \/ id'[r] \notin Dataset
    BY <1>1, CallEffect, NamesAssumption DEF Raced
  <2>3. in'[h] \in Requests /\ in'[h] # Nil
    BY CommitNames
  <2>4. CASE in'[h] = r
    <3>1. Busy(h)' /\ id'[in'[h]] \in Dataset => begun'[id'[in'[h]]][in'[h]] >= 1
      BY <2>1, <2>2, <2>3, <2>4
    <3>2. InFlight(h)' /\ wire'[h] \in Dataset => begun'[wire'[h]][in'[h]] >= 1
      <4>1. SUFFICES ASSUME InFlight(h)', wire'[h] \in Dataset PROVE begun'[wire'[h]][in'[h]] >= 1
        OBVIOUS
      <4>2. h # g /\ InFlight(h) /\ UNCHANGED <<wire[h], in[h]>>
        BY <1>1, <4>1, CallEffect DEF InFlight
      <4>3. begun[wire[h]][in[h]] >= 1
        BY <4>1, <4>2 DEF WroteInv
      <4>4. begun \in Tally /\ begun' \in Tally
        BY <1>1, CountType DEF TypeOK, Call, Begin
      <4>5. begun'[wire[h]][in[h]] >= begun[wire[h]][in[h]]
        BY <2>1, <4>1, <4>2
      <4>6. QED
        BY <4>1, <4>2, <4>3, <4>4, <4>5 DEF Tally
    <3>3. QED
      BY <3>1, <3>2
  <2>5. CASE in'[h] # r
    <3>1. h # g /\ UNCHANGED <<pc[h], wire[h], in[h]>> /\ id'[in[h]] = id[in[h]]
      BY <1>1, <2>3, <2>5, CallEffect
    <3>2. begun \in Tally /\ begun' \in Tally
      BY <1>1, CountType DEF TypeOK, Call, Begin
    <3>3. QED
      BY <2>1, <3>1, <3>2 DEF WroteInv, Busy, InFlight, Tally
  <2>6. QED
    BY <2>4, <2>5
<1>2. ASSUME NEW g \in Goroutine, Leaves(g) PROVE Good(h)
  BY <1>2, LeavesEffect, CommitNames DEF WroteInv, InFlight, Busy
<1>3. ASSUME NEW g \in Goroutine, Send(g) PROVE Good(h)
  <2>1. UNCHANGED <<id, call, begun>> /\ Busy(h)' = Busy(h)
    BY <1>3, StaysEffect DEF Stays
  <2>2. in[h] \in Commits /\ in[h] # Nil
    BY <2>1, CommitNames DEF call
  <2>3. QED
    BY <1>3, <2>1, <2>2, SendEffect, NamesAssumption DEF WroteInv, DatasetId, InFlight, Busy, call
<1>4. ASSUME NEW g \in Goroutine, Retry(g) \/ Reissue(g) PROVE Good(h)
  <2>1. UNCHANGED <<id, call, begun>> /\ Busy(h)' = Busy(h)
    BY <1>4, StaysEffect DEF Stays
  <2>2. InFlight(h)' => InFlight(h) /\ wire'[h] = wire[h]
    BY <1>4 DEF Retry, Reissue, Goto, InFlight, TypeOK
  <2>3. QED
    BY <2>1, <2>2 DEF WroteInv, call
<1>5. QED
  BY <1>1, <1>2, <1>3, <1>4, StepCases DEF Stays

-----------------------------------------------------------------------------
(* Counting commits.                                                       *)

\* A message changes rows of the dataset it names alone, once, and never those its
\* key has changed before.
Changes(g, d, r) == in[g] = r /\ wire[g] = d /\ ~ (r.key /\ applied[d][r] > 0)
LEMMA ApplyEffect ==
  ASSUME TypeOK, NEW g \in Goroutine, Apply(g), NEW d \in Dataset, NEW r \in Commits
  PROVE  applied'[d][r] = IF Changes(g, d, r) THEN applied[d][r] + 1 ELSE applied[d][r]
<1>1. applied \in Tally
  BY DEF TypeOK
<1>2. QED
  BY <1>1, CountType DEF Apply, Changes

\* That dataset is the handle's, if the request was never two datasets' at once.
LEMMA UnmixedChanges ==
  ASSUME CrossInv, HandleDecides, NEW g \in Goroutine, InFlight(g), NEW d, NEW r, r \notin mixed
  PROVE  Changes(g, d, r) <=> g \in Pending(d, r) /\ ~ (r.key /\ applied[d][r] > 0)
<1>1. in[g] = r => wire[g] = handle[g]
  BY DEF CrossInv, HandleDecides
<1>2. QED
  BY <1>1 DEF Changes, Pending, InFlight, Busy

\* The counts of a dataset and a request after each kind of step.
LEMMA CallCounts ==
  ASSUME TypeOK, NEW g \in Goroutine, NEW m \in Method, NEW e \in Dataset,
         NEW s \in Requests \cup {Nil}, Call(g, m, e, s), NEW d \in Dataset, NEW r \in Commits
  PROVE  /\ UNCHANGED <<applied, answered>>
         /\ IF d = e /\ r = s
            THEN /\ begun'[d][r] = begun[d][r] + 1
                 /\ g \notin Pending(d, r) /\ Pending(d, r)' = Pending(d, r) \cup {g}
            ELSE begun'[d][r] = begun[d][r] /\ Pending(d, r)' = Pending(d, r)
<1>1. \A h \in Goroutine \ {g} : UNCHANGED <<pc[h], in[h], handle[h]>>
  BY DEF Call, Begin, Goto, TypeOK
<1>2. ~ Busy(g) /\ Busy(g)' /\ in'[g] = s /\ handle'[g] = e
  BY DEF Call, Begin, Goto, Busy, TypeOK
<1>3. IF d = e /\ r = s THEN g \notin Pending(d, r) /\ Pending(d, r)' = Pending(d, r) \cup {g}
      ELSE Pending(d, r)' = Pending(d, r)
  BY <1>1, <1>2 DEF Pending, Busy
<1>4. begun'[d][r] = IF d = e /\ r = s THEN begun[d][r] + 1 ELSE begun[d][r]
  BY CountType DEF Call, Begin, TypeOK
<1>5. QED
  BY <1>3, <1>4 DEF Call, Begin

\* Leaving takes a goroutine off those pending.
LEMMA LeavesPending ==
  ASSUME TypeOK, NEW g \in Goroutine, Leaves(g), NEW d, NEW r
  PROVE  Pending(d, r)' = Pending(d, r) \ {g}
<1>1. Busy(g) /\ ~ Busy(g)' /\ \A h \in Goroutine \ {g} : UNCHANGED <<pc[h], in[h], handle[h]>>
  BY LeavesEffect
<1>2. QED
  BY <1>1 DEF Pending, Busy

\* A commit that may be replayed has a key.
LEMMA ReplayedHasKey ==
  ASSUME ScopeInv, NEW g \in Goroutine, Busy(g), SafeToReplay(g), in[g] \in Commits
  PROVE  in[g].key
  BY CommitNames DEF SafeToReplay, ScopeInv

\* Steps that leave the rows and the answers alone, and those a message brings about.
LEMMA RowsStep ==
  ASSUME Next
  PROVE  applied' = applied \/ \E g \in Goroutine : InFlight(g) /\ Apply(g) /\ UNCHANGED begun
  BY DEF Next, Call, Begin, Send, Serve, Retry, GiveUp, Reissue, Fail, TransportFails, commits

\* What began stays begun.
LEMMA BegunGrows ==
  ASSUME TypeOK, Next, NEW d \in Dataset, NEW r \in Commits
  PROVE  begun[d][r] \in Nat /\ begun'[d][r] \in Nat /\ begun'[d][r] >= begun[d][r]
<1>1. begun \in Tally
  BY DEF TypeOK
<1>2. begun' = begun \/ \E e \in Dataset, s \in Commits : begun' = Count(begun, e, s)
  BY DEF Next, Call, Begin, Send, Serve, Retry, GiveUp, Reissue, Fail, commits
<1>3. CASE begun' = begun
  BY <1>1, <1>3 DEF Tally
<1>4. ASSUME NEW e \in Dataset, NEW s \in Commits, begun' = Count(begun, e, s)
      PROVE  begun'[d][r] \in Nat /\ begun'[d][r] >= begun[d][r]
  <2>1. begun'[d][r] \in {begun[d][r], begun[d][r] + 1}
    BY <1>1, <1>4, CountType
  <2>2. begun[d][r] \in Nat
    BY <1>1 DEF Tally
  <2>3. QED
    BY <2>1, <2>2
<1>5. QED
  BY <1>1, <1>2, <1>3, <1>4 DEF Tally

\* However a request is shared, its key changes a dataset's rows once, and it
\* changes none where it was never sent.
Everywhere(d, r) == (r.key => applied[d][r] <= 1) /\ (applied[d][r] > 0 => begun[d][r] > 0)
LEMMA EverywhereStep ==
  ASSUME IInv, Next, NEW d \in Dataset, NEW r \in Commits
  PROVE  Everywhere(d, r)'
<1>1. TypeOK /\ WroteInv /\ Everywhere(d, r)
  BY DEF IInv, CommitsAddUp, Everywhere
<1>2. applied[d][r] \in Nat /\ begun'[d][r] \in Nat /\ begun'[d][r] >= begun[d][r] /\ r.key \in BOOLEAN
  BY <1>1, BegunGrows, CommitNames DEF TypeOK, Tally
<1>3. CASE applied' = applied
  BY <1>1, <1>2, <1>3, BegunGrows DEF Everywhere
<1>4. ASSUME NEW g \in Goroutine, InFlight(g), Apply(g) PROVE Everywhere(d, r)'
  <2>1. applied'[d][r] = IF Changes(g, d, r) THEN applied[d][r] + 1 ELSE applied[d][r]
    BY <1>1, <1>4, ApplyEffect
  <2>2. Changes(g, d, r) => begun[d][r] >= 1
    BY <1>1, <1>4 DEF Changes, WroteInv
  <2>3. QED
    BY <1>1, <1>2, <2>1, <2>2, BegunGrows DEF Changes, Everywhere
<1>5. QED
  BY <1>3, <1>4, RowsStep

\* The calls that began cover the rows that changed, if the request was never two
\* datasets' at once.
Covered(d, r) ==
  /\ ~ r.key => applied[d][r] + Cardinality(Pending(d, r)) <= begun[d][r]
  /\ Pending(d, r) # {} => begun[d][r] >= 1
  /\ applied[d][r] <= begun[d][r]
  /\ r.key => applied[d][r] <= 1 /\ (answered[d][r] > 0 => applied[d][r] = 1)
  /\ ~ r.key => answered[d][r] <= applied[d][r]
LEMMA CoveredStep ==
  ASSUME IInv, Next, NEW d \in Dataset, NEW r \in Commits, r \notin mixed
  PROVE  Covered(d, r)'
<1> DEFINE Good == /\ ~ r.key => applied'[d][r] + Cardinality(Pending(d, r)') <= begun'[d][r]
                   /\ Pending(d, r)' # {} => begun'[d][r] >= 1
                   /\ applied'[d][r] <= begun'[d][r]
                   /\ r.key => applied'[d][r] <= 1 /\ (answered'[d][r] > 0 => applied'[d][r] = 1)
                   /\ ~ r.key => answered'[d][r] <= applied'[d][r]
<1> SUFFICES Good
  BY DEF Covered
<1>1. TypeOK /\ CrossInv /\ ScopeInv /\ HandleDecides
  BY DEF IInv
<1>2. begun[d][r] \in Nat /\ applied[d][r] \in Nat /\ answered[d][r] \in Nat /\ r.key \in BOOLEAN
  BY <1>1, CommitNames DEF TypeOK, Tally
<1>3. /\ ~ r.key => applied[d][r] + Cardinality(Pending(d, r)) <= begun[d][r]
      /\ Pending(d, r) # {} => begun[d][r] >= 1
      /\ applied[d][r] <= begun[d][r]
      /\ r.key => applied[d][r] <= 1 /\ (answered[d][r] > 0 => applied[d][r] = 1)
      /\ ~ r.key => answered[d][r] <= applied[d][r]
  BY DEF IInv, SpareInv, CommitsAddUp
<1>4. ASSUME NEW g \in Goroutine, NEW m \in Method, NEW e \in Dataset,
             NEW s \in Requests \cup {Nil}, Call(g, m, e, s)
      PROVE  Good
  <2>1. UNCHANGED <<applied, answered>>
    BY <1>1, <1>4, CallCounts
  <2>2. CASE d = e /\ r = s
    <3>1. /\ begun'[d][r] = begun[d][r] + 1
          /\ g \notin Pending(d, r) /\ Pending(d, r)' = Pending(d, r) \cup {g}
      BY <1>1, <1>4, <2>2, CallCounts
    <3>2. Cardinality(Pending(d, r)') = Cardinality(Pending(d, r)) + 1 /\ Cardinality(Pending(d, r)) \in Nat
      <4>1. Cardinality(Pending(d, r) \cup {g}) = Cardinality(Pending(d, r)) + 1
        BY <3>1, PendingCount
      <4>2. QED
        BY <3>1, <4>1, PendingCount
    <3>3. QED
      BY <1>2, <1>3, <2>1, <3>1, <3>2
  <2>3. CASE ~ (d = e /\ r = s)
    <3>1. begun'[d][r] = begun[d][r] /\ Pending(d, r)' = Pending(d, r)
      BY <1>1, <1>4, <2>3, CallCounts
    <3>2. QED
      BY <1>3, <2>1, <3>1
  <2>4. QED
    BY <2>2, <2>3
<1>5. ASSUME NEW g \in Goroutine, Stays(g) PROVE Good
  <2>1. begun' = begun /\ answered' = answered /\ Pending(d, r)' = Pending(d, r)
    BY <1>1, <1>5, StaysEffect DEF Pending, call
  <2>2. CASE applied' = applied
    BY <1>3, <2>1, <2>2
  <2>3. CASE InFlight(g) /\ Apply(g) /\ SafeToReplay(g)
    <3>1. Changes(g, d, r) => r.key /\ applied[d][r] = 0 /\ g \in Pending(d, r)
      <4>1. Busy(g) /\ (g \in Pending(d, r) => r.key)
        BY <1>1, <2>3, ReplayedHasKey DEF Pending, InFlight, Busy
      <4>2. QED
        BY <1>1, <1>2, <2>3, <4>1, UnmixedChanges
    <3>2. QED
      BY <1>1, <1>2, <1>3, <2>1, <2>3, <3>1, ApplyEffect
  <2>4. QED
    BY <1>5, <2>2, <2>3 DEF Stays, Send, Retry, Reissue, TransportFails, commits
<1>6. ASSUME NEW g \in Goroutine, Leaves(g) PROVE Good
  <2>1. begun' = begun /\ Busy(g) /\ Pending(d, r)' = Pending(d, r) \ {g}
    BY <1>1, <1>6, LeavesEffect, LeavesPending
  <2>2. g \in Pending(d, r) <=> in[g] = r /\ handle[g] = d
    BY <2>1 DEF Pending
  <2>3. /\ Cardinality(Pending(d, r)) \in Nat
        /\ Pending(d, r)' # {} => Pending(d, r) # {}
        /\ Cardinality(Pending(d, r)') \in Nat
        /\ Cardinality(Pending(d, r)') <= Cardinality(Pending(d, r))
        /\ g \in Pending(d, r) => Cardinality(Pending(d, r)') + 1 = Cardinality(Pending(d, r))
    <3>1. /\ Cardinality(Pending(d, r) \ {g}) \in Nat
          /\ Cardinality(Pending(d, r) \ {g}) <= Cardinality(Pending(d, r))
          /\ g \in Pending(d, r) => Cardinality(Pending(d, r) \ {g}) + 1 = Cardinality(Pending(d, r))
      BY PendingCount
    <3>2. QED
      BY <2>1, <3>1, PendingCount
  <2>4. CASE applied' = applied /\ answered' = answered
    <3>1. /\ begun'[d][r] = begun[d][r] /\ applied'[d][r] = applied[d][r]
          /\ answered'[d][r] = answered[d][r]
      BY <2>1, <2>4
    <3>2. Cardinality(Pending(d, r)') <= Cardinality(Pending(d, r))
          /\ Cardinality(Pending(d, r)') \in Nat /\ Cardinality(Pending(d, r)) \in Nat
      BY <2>3
    <3>3. ~ r.key => applied'[d][r] + Cardinality(Pending(d, r)') <= begun'[d][r]
      BY <1>2, <1>3, <3>1, <3>2
    <3>4. QED
      BY <1>3, <2>3, <3>1, <3>3
  <2>5. CASE InFlight(g) /\ Apply(g)
    <3>1. applied'[d][r] = IF g \in Pending(d, r) /\ ~ (r.key /\ applied[d][r] > 0)
                           THEN applied[d][r] + 1 ELSE applied[d][r]
      BY <1>1, <2>5, ApplyEffect, UnmixedChanges
    <3>2. answered'[d][r] = answered[d][r]
          \/ (g \in Pending(d, r) /\ answered'[d][r] = answered[d][r] + 1)
      <4>1. CASE Serve(g) /\ in[g] \in Commits
        <5>1. handle[g] \in Dataset /\ answered \in Tally
          BY <1>1, <2>1 DEF TypeOK
        <5>2. answered' = Count(answered, handle[g], in[g])
          BY <4>1 DEF Serve
        <5>3. QED
          BY <2>2, <4>1, <5>1, <5>2, CountType
      <4>2. CASE ~ (Serve(g) /\ in[g] \in Commits)
        BY <1>6, <4>2 DEF Leaves, Serve, GiveUp, Fail, commits
      <4>3. QED
        BY <4>1, <4>2
    <3>3. CASE g \in Pending(d, r)
      BY <1>2, <1>3, <2>1, <2>3, <3>1, <3>2, <3>3
    <3>4. CASE g \notin Pending(d, r)
      BY <1>2, <1>3, <2>1, <2>3, <3>1, <3>2, <3>4
    <3>5. QED
      BY <3>3, <3>4
  <2>6. QED
    BY <1>6, <2>4, <2>5 DEF Leaves, Serve, GiveUp, Fail, TransportFails, commits
<1>7. QED
  BY <1>4, <1>5, <1>6, StepCases

\* So every step keeps the counts.
LEMMA CountStep == IInv /\ Next => SpareInv' /\ CommitsAddUp'
<1> SUFFICES ASSUME IInv, Next, NEW d \in Dataset, NEW r \in Commits
             PROVE  /\ Everywhere(d, r)' /\ (r \notin mixed' => Covered(d, r)')
                    /\ Pending(d, r)' # {} => begun'[d][r] >= 1
  BY CommitNames DEF SpareInv, CommitsAddUp, Everywhere, Covered
<1>1. mixed \subseteq mixed'
  BY StepCases, CallEffect, LeavesEffect, StaysEffect DEF IInv, history
<1>2. r \notin mixed' => Covered(d, r)'
  BY <1>1, CoveredStep
<1>3. Everywhere(d, r)'
  BY EverywhereStep
<1>4. Pending(d, r)' # {} => begun'[d][r] >= 1
  <2>1. TypeOK /\ (Pending(d, r) # {} => begun[d][r] >= 1)
    BY DEF IInv, SpareInv
  <2>2. begun[d][r] \in Nat /\ begun'[d][r] \in Nat /\ begun'[d][r] >= begun[d][r]
    BY <2>1, BegunGrows
  <2>3. ASSUME NEW g \in Goroutine, NEW m \in Method, NEW e \in Dataset,
               NEW s \in Requests \cup {Nil}, Call(g, m, e, s)
        PROVE  Pending(d, r)' # {} => begun'[d][r] >= 1
    BY <2>1, <2>2, <2>3, CallCounts
  <2>4. ASSUME NEW g \in Goroutine, Leaves(g) PROVE Pending(d, r)' \subseteq Pending(d, r)
    BY <2>1, <2>4, LeavesPending
  <2>5. ASSUME NEW g \in Goroutine, Stays(g) PROVE Pending(d, r)' = Pending(d, r)
    BY <2>1, <2>5, StaysEffect DEF Pending, call
  <2>6. QED
    BY <2>1, <2>2, <2>3, <2>4, <2>5, StepCases
<1>5. QED
  BY <1>2, <1>3, <1>4

-----------------------------------------------------------------------------
(* Theorems.                                                               *)

\* Nothing is under way at first.
LEMMA InitInv == Init => IInv
<1> SUFFICES ASSUME Init PROVE IInv
  OBVIOUS
<1> USE DEF Init
<1>1. TypeOK /\ CrossInv /\ ScopeInv /\ HandleDecides
  BY BoundsAssumption DEF TypeOK, CrossInv, ScopeInv, HandleDecides, Tally, Id, Method, Builds, Busy,
     InFlight
<1>2. \A d, r : Pending(d, r) = {}
  BY DEF Pending, Busy
<1>3. SpareInv /\ CommitsAddUp
  <2>1. \A d \in Dataset, r \in Commits :
          begun[d][r] = 0 /\ applied[d][r] = 0 /\ answered[d][r] = 0
    OBVIOUS
  <2>2. \A d, r : Pending(d, r) = {} /\ Cardinality(Pending(d, r)) = 0
    BY <1>2, FS_EmptySet
  <2>3. QED
    BY <2>1, <2>2 DEF SpareInv, CommitsAddUp
<1>4. WroteInv
  BY CommitNames DEF WroteInv
<1>5. QED
  BY <1>1, <1>3, <1>4 DEF IInv

\* Every step keeps the inductive invariant.
LEMMA StepInv == IInv /\ [Next]_vars => IInv'
<1>1. ASSUME IInv, Next PROVE IInv'
  BY <1>1, TypeStep, CrossStep, ScopeStep, WroteStep, HandleStep, CountStep DEF IInv
<1>2. ASSUME IInv, UNCHANGED vars PROVE IInv'
  BY <1>2 DEF vars, IInv, TypeOK, CrossInv, ScopeInv, WroteInv, HandleDecides, SpareInv,
     CommitsAddUp, Pending, Busy, InFlight, DatasetId
<1>3. QED
  BY <1>1, <1>2

\* The inductive invariant of DatasetRequests.
THEOREM Inductive == Spec => []IInv
  BY InitInv, StepInv, PTL DEF Spec

\* The types, and that a call under way has a handle's dataset.
THEOREM TypeCorrect == Spec => []TypeOK
<1>1. IInv => TypeOK
  BY DEF IInv
<1>2. QED
  BY <1>1, Inductive, PTL

\* What a call sends goes to its handle's dataset, unless its request was given to
\* another dataset's handle while the call was under way.
THEOREM SentWhereHandled == Spec => []HandleDecides
<1>1. IInv => HandleDecides
  BY DEF IInv
<1>2. QED
  BY <1>1, Inductive, PTL

\* The commits of every dataset add up, with any number of goroutines,
\* datasets, attempts and calls.
THEOREM CommitsCounted == Spec => []CommitsAddUp
<1>1. IInv => CommitsAddUp
  BY DEF IInv
<1>2. QED
  BY <1>1, Inductive, PTL
=============================================================================
