------------------------------ MODULE MCPaging ------------------------------
(* Instances of Paging for TLC. *)
EXTENDS Paging

\* Listings of up to three pages, of up to two items each, empty ones included.
Items == (1..3) \X (1..2)
Page(n, k) == [i \in 1..k |-> <<n, i>>]
UpTo3 == UNION {[1..n -> 0..2] : n \in 1..3}
SmallListings == {[n \in DOMAIN s |-> Page(n, s[n])] : s \in UpTo3}
=============================================================================
