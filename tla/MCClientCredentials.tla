------------------------ MODULE MCClientCredentials ------------------------
(* Instances of ClientCredentials for TLC: one program that lives off the   *)
(* file, and one with a credential of every kind, or off the file as well.  *)
EXTENDS ClientCredentials, TLC

CONSTANTS c1, c2, ann, bob, ci

Start(h) == [holder |-> h, n |-> 0]
Pair(h) == [at |-> Start(h), rt |-> Start(h)]
Nothing == [credentials |-> NoSession, explicit |-> NoToken, env |-> NoToken]
Settings ==
  {Nothing,
   [Nothing EXCEPT !.credentials = Pair(bob), !.explicit = Start(ci)],
   [Nothing EXCEPT !.explicit = Start(bob), !.env = Start(ci)],
   [Nothing EXCEPT !.env = Start(ci)]}

TwoPrograms == {c1 :> Nothing @@ c2 :> s : s \in Settings}
OneProgram  == {c1 :> Nothing}

AnyFile ==
  {[state |-> "absent", session |-> NoSession], [state |-> "corrupt", session |-> NoSession]}
  \cup {Stored(s) : s \in {Pair(ann), [at |-> Start(ann), rt |-> NoToken],
                           [at |-> NoToken, rt |-> Start(ann)]}}
AnnsFile == {Stored(Pair(ann))}

=============================================================================
