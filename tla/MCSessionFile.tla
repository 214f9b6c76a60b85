--------------------------- MODULE MCSessionFile ----------------------------
(* Instances of SessionFile for TLC. *)
EXTENDS SessionFile, TLC

\* Processes, sessions and files are interchangeable.
Symmetry == Permutations(Proc) \cup Permutations(Value) \cup Permutations(Inode)

Failures == [k \in Fault |-> 1]
=============================================================================
