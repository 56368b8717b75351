---------------------------- MODULE MCEnclavePool ---------------------------
(* EnclavePool for TLC: one request more than there are enclaves, so that  *)
(* a handler has to wait for the queue.                                    *)
EXTENDS EnclavePool
=============================================================================
