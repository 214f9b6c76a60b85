------------------------------- MODULE Paging -------------------------------
(***************************************************************************)
(* The All iterators of paging.go: each walk fetches page after page of a  *)
(* listing and yields its items one by one, so that cursors never reach    *)
(* the caller.  Walks may share one request: each sets its page token on   *)
(* a copy of its own.  The consumer may break out, a fetch may fail, and   *)
(* another goroutine may walk at the same time.                            *)
(***************************************************************************)
EXTENDS Naturals, Sequences, SequencesExt

CONSTANTS
  Walk,      \* walks in progress at once, all over the request Given
  Given,     \* the request the caller passed
  Item,      \* the items of a listing
  Listings,  \* what a listing may hold: sequences of pages, each of items
  Zero       \* the nil item an error is yielded with

ASSUME WalkAssumption == Given \notin Walk
ASSUME ItemAssumption == Zero \notin Item
ASSUME ListingsAssumption == \A l \in Listings : l \in Seq(Seq(Item)) /\ l # <<>>

VARIABLES
  listing,    \* the pages of the listing on the platform
  pageToken,  \* PageToken of the given request and of each walk's copy
  pc,         \* each walk: fetching, request sent, yielding, or over
  token,      \* pageAll's cursor: the page it asks for
  items,      \* what is left of the page in hand
  next,       \* the token that came with it; NoToken ends the walk
  yielded     \* what each walk's consumer was given

vars == <<listing, pageToken, pc, token, items, next, yielded>>

\* A token is the number of the page it asks for: 1 is the empty token of a
\* first request, and NoToken the empty token of the last answer.
NoToken == 0
First   == 1
Label   == {"fetch", "sent", "yield", "over", "broken", "failed"}

Init ==
  /\ listing \in Listings /\ pageToken = [r \in Walk \cup {Given} |-> First]
  /\ pc = [w \in Walk |-> "fetch"] /\ token = [w \in Walk |-> First]
  /\ items = [w \in Walk |-> <<>>] /\ next = [w \in Walk |-> NoToken]
  /\ yielded = [w \in Walk |-> <<>>]

Goto(w, l) == pc' = [pc EXCEPT ![w] = l]

\* clonePage: the request a walk sends is a copy of the one it was given.
NotCloned(w) == Given
clonePage(w) == w

SetPage(w) ==
  /\ pc[w] = "fetch" /\ Goto(w, "sent")
  /\ pageToken' = [pageToken EXCEPT ![clonePage(w)] = token[w]]
  /\ UNCHANGED <<listing, token, items, next, yielded>>

NextPage(i) == IF i < Len(listing) THEN i + 1 ELSE NoToken

Fetch(w) ==
  /\ pc[w] = "sent" /\ Goto(w, "yield")
  /\ LET i == pageToken[clonePage(w)]
     IN  items' = [items EXCEPT ![w] = listing[i]] /\ next' = [next EXCEPT ![w] = NextPage(i)]
  /\ UNCHANGED <<listing, pageToken, token, yielded>>

\* The error is yielded once, with a nil item, and the sequence ends.
FetchFails(w) ==
  /\ pc[w] = "sent" /\ Goto(w, "failed")
  /\ yielded' = [yielded EXCEPT ![w] = Append(@, Zero)]
  /\ UNCHANGED <<listing, pageToken, token, items, next>>

\* The consumer's body runs; it may break out of its loop.
Yield(w) ==
  /\ pc[w] = "yield" /\ items[w] # <<>>
  /\ yielded' = [yielded EXCEPT ![w] = Append(@, Head(items[w]))]
  /\ items' = [items EXCEPT ![w] = Tail(@)]
  /\ \E l \in {"yield", "broken"} : Goto(w, l)
  /\ UNCHANGED <<listing, pageToken, token, next>>

EndsOnEmptyPage(w) == next[w] = NoToken \/ listing[token[w]] = <<>>
EndsNever(w) == FALSE
EndsHere(w) == next[w] = NoToken

AdvanceNowhere(w) ==
  /\ pc[w] = "yield" /\ items[w] = <<>> /\ ~ EndsHere(w)
  /\ Goto(w, "fetch")
  /\ UNCHANGED <<listing, pageToken, token, items, next, yielded>>

Advance(w) ==
  /\ pc[w] = "yield" /\ items[w] = <<>> /\ ~ EndsHere(w)
  /\ Goto(w, "fetch") /\ token' = [token EXCEPT ![w] = next[w]]
  /\ UNCHANGED <<listing, pageToken, items, next, yielded>>

End(w) ==
  /\ pc[w] = "yield" /\ items[w] = <<>> /\ EndsHere(w)
  /\ Goto(w, "over")
  /\ UNCHANGED <<listing, pageToken, token, items, next, yielded>>

Step(w) == SetPage(w) \/ Fetch(w) \/ FetchFails(w) \/ Yield(w) \/ Advance(w) \/ End(w)

Next == \E w \in Walk : Step(w)
Spec == Init /\ [][Next]_vars
FairSpec == Spec /\ \A w \in Walk : WF_vars(Step(w))

-----------------------------------------------------------------------------
TypeOK ==
  /\ listing \in Listings
  /\ pageToken \in [Walk \cup {Given} -> DOMAIN listing]
  /\ pc \in [Walk -> Label] /\ token \in [Walk -> DOMAIN listing]
  /\ next \in [Walk -> DOMAIN listing \cup {NoToken}]
  /\ \A w \in Walk : IsSuffix(items[w], listing[token[w]]) \/ items[w] = <<>>

All == FlattenSeq(listing)
Stopped(w) == pc[w] \in {"over", "broken", "failed"}

\* A walk yields the listing, in order, without gaps or repeats, whatever the
\* pages' sizes and whoever else walks; all of it unless the consumer broke out
\* or a fetch failed, and an error only as the last thing.
YieldsTheListing ==
  \A w \in Walk :
    /\ IF pc[w] = "failed" THEN Last(yielded[w]) = Zero /\ IsPrefix(Front(yielded[w]), All)
                           ELSE IsPrefix(yielded[w], All)
    /\ pc[w] = "over" => yielded[w] = All

\* Every walk of a finite listing ends.
WalkEnds == \A w \in Walk : <>Stopped(w)
=============================================================================
