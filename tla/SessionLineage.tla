--------------------------- MODULE SessionLineage ---------------------------
(***************************************************************************)
(* What the sharing of one session promises while nothing fails: the       *)
(* machine's sessions form one line.  A new session is minted only from    *)
(* the one that is published, is published before the next one is minted,  *)
(* and the processes only ever move forward along the line.                *)
(***************************************************************************)
EXTENDS Naturals

CONSTANT Proc

VARIABLES
  current,    \* the newest session the platform has minted
  published,  \* the session in the shared file
  view        \* the session each process is using

vars == <<current, published, view>>

Init == current = 1 /\ published = 1 /\ view = [p \in Proc |-> 1]

Renew ==
  /\ published = current /\ current' = current + 1
  /\ UNCHANGED <<published, view>>

Publish(p) ==
  /\ published # current /\ published' = current
  /\ view' = [view EXCEPT ![p] = current]
  /\ UNCHANGED current

CatchUp(p) ==
  /\ view[p] < published /\ view' = [view EXCEPT ![p] = published]
  /\ UNCHANGED <<current, published>>

Next == Renew \/ \E p \in Proc : Publish(p) \/ CatchUp(p)

Spec == Init /\ [][Next]_vars
FairSpec == Spec /\ WF_vars(\E p \in Proc : Publish(p))
=============================================================================
