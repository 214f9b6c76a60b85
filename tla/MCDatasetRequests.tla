------------------------- MODULE MCDatasetRequests -------------------------
(* An instance of DatasetRequests for TLC: commits with and without a key,  *)
(* and a read.  Requests for the other methods are nil here.                *)
EXTENDS DatasetRequests, TLC

CONSTANTS g1, g2, d1, d2

Kept ==
  [method : {"CommitData"}, key : BOOLEAN] \cup [method : {"QueryData"}, key : {FALSE}]

Symmetry == Permutations({g1, g2}) \cup Permutations({d1, d2})
=============================================================================
