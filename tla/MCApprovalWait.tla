--------------------------- MODULE MCApprovalWait ---------------------------
(* Instances of ApprovalWait for TLC. *)
EXTENDS ApprovalWait

\* In units of 250 ms: the code's own constants, and deadlines around each of them.
Budgets == {0, 1, 3, 4, 5, 119, 121, 139, 141, 144, 250, Never}
=============================================================================
