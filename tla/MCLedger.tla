------------------------------ MODULE MCLedger ------------------------------
(* Instances of Ledger for TLC.                                            *)
EXTENDS Ledger, TLC

CONSTANTS e1, e2, m1, m2

OneMeasurement == [e \in Enclaves |-> m1]
TwoMeasurements == e1 :> m1 @@ e2 :> m2
StateSymmetry == Permutations(Hashes) \cup Permutations(Contracts)
(* An enclave is exchanged together with its measurement.                  *)
ServiceSymmetry ==
    Permutations(Nodes) \cup Permutations(Keys) \cup Permutations(Creators)
    \cup {e1 :> e2 @@ e2 :> e1 @@ m1 :> m2 @@ m2 :> m1}
=============================================================================
