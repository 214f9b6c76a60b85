-------------------------- MODULE MCSessionRenewal --------------------------
(***************************************************************************)
(* Instances of SessionRenewal for TLC: two processes that share the file, *)
(* two callers in the first and one in the second.                         *)
(***************************************************************************)
EXTENDS SessionRenewal, TLC

CONSTANTS p1, p2, c1, c2, c3

MCHome == c1 :> p1 @@ c2 :> p1 @@ c3 :> p2
PairHome == c1 :> p1 @@ c3 :> p2

Shared  == p1 :> "file" @@ p2 :> "file"
Private == p1 :> "file" @@ p2 :> "explicit"

Rotates      == {"rotated"}
RotatesOrNot == {"rotated", "empty"}
AccessOnly   == {"rotated", "accessOnly"}

Faults(e, r, s, c, i, o) ==
  [k \in Fault |-> CASE k = "expire" -> e [] k = "rpc" -> r [] k = "save" -> s
                     [] k = "crash" -> c [] k = "login" -> i [] k = "logout" -> o]
AllFaults  == Faults(2, 1, 1, 1, 0, 0)
NoRpcFault == Faults(1, 0, 1, 1, 1, 1)
ExpiryOnly == Faults(2, 0, 0, 0, 0, 0)
NoLogins   == Faults(2, 1, 1, 0, 0, 0)
=============================================================================
