---------------------------- MODULE MCBlockStore ----------------------------
(* BlockStore for TLC.  The leases run has two clients at one block; the   *)
(* race needs one client and a second block for the collector to delete    *)
(* while the lease of the first is extended.                               *)
EXTENDS BlockStore
=============================================================================
