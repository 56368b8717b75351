------------------------------ MODULE MCCommit ------------------------------
(* Instances of Commit for TLC: contract c1 is loaded, request 1 updates   *)
(* it, and request 2 updates it once more.                                 *)
EXTENDS Commit

CONSTANTS c1, Quorum

AllServices == [r \in Requests |-> Services]
SameQuorum == [r \in Requests |-> Quorum]
OneContract == [r \in Requests |-> c1]
Predecessor == [r \in Requests |-> IF r = 1 THEN Saved ELSE r - 1]
NoDependencies == [r \in Requests |-> <<>>]
=============================================================================
