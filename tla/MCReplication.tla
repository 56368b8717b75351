---------------------------- MODULE MCReplication ---------------------------
(* Instances of Replication for TLC; services that may fail in the same    *)
(* ways are interchangeable, and so are the workers of a service.          *)
EXTENDS Replication, TLC

CONSTANTS Quorum

AllServices == [r \in Requests |-> Services]
Alike == Permutations(Services) \cup Permutations(Workers)
SameQuorum == [r \in Requests |-> Quorum]
=============================================================================
