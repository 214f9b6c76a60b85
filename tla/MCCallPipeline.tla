--------------------------- MODULE MCCallPipeline ---------------------------
(* Instances of CallPipeline for TLC. *)
EXTENDS CallPipeline, TLC

CONSTANTS c1, c2

\* The second caller only reads: what the callers share is the Source.
AnyAndRead == c1 :> Request @@ c2 :> [method : {"GetAgent"}, log : {FALSE}, key : {FALSE}]
AnyRequest == c1 :> Request

Client(s, v, n, off) == [source |-> s, valid |-> v, MaxAttempts |-> n, Disabled |-> off]
Varied  == {Client("session", FALSE, 2, FALSE), Client("key", TRUE, 2, FALSE), Client("unrenewable", TRUE, 0, TRUE)}
Default == {Client("session", FALSE, 0, FALSE)}
=============================================================================
