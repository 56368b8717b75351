--------------------------- MODULE MCTransactions ---------------------------
(* Instances of Transactions for TLC.  Contract c1 is created by request 1 *)
(* and updated by 2 and 4; contract c2 is loaded and updated by 3 and 5.   *)
(* Requests 3, 4 and 5 depend on states of the other contract.             *)
EXTENDS Transactions, TLC

CONSTANTS c1, c2

Contract == <<c1, c1, c2, c1, c2>>
Old == <<None, 1, Saved, 2, 3>>
Depends == <<<<>>, <<>>, <<1>>, <<3>>, <<2, 4>>>>

ContractOfRequest == [r \in Requests |-> Contract[r]]
OldStateOfRequest == [r \in Requests |-> Old[r]]
DependenciesOfRequest == [r \in Requests |-> Depends[r]]
=============================================================================
