----------------------------- MODULE StateChain -----------------------------
(***************************************************************************)
(* What the ledger promises to the rest of the system, and nothing of how  *)
(* it is implemented: each contract has one linear history of states, a    *)
(* committed state is never retracted or changed, and a state is committed *)
(* only after every state it depends on.                                   *)
(*                                                                         *)
(* Ledger.tla implements this specification: its globally committed        *)
(* tables are a StateChain.                                                *)
(***************************************************************************)
EXTENDS Tables

CONSTANTS
    Contracts,
    Hashes,     \* state hashes
    None        \* the empty hash of a contract that is not initialized

VARIABLES
    head,       \* [Contracts -> Hashes \cup {None}]: latest committed state
    entry       \* committed <<contract, hash>> -> [prev, deps]

vars == <<head, entry>>

Init ==
    /\ head = [c \in Contracts |-> None]
    /\ entry = EmptyTable

(* State s of contract c is committed on top of the latest one; the first  *)
(* commit of a contract is its initialization.                             *)
Commit(c, s, deps) ==
    /\ <<c, s>> \notin DOMAIN entry
    /\ deps \subseteq DOMAIN entry
    /\ head' = [head EXCEPT ![c] = s]
    /\ entry' = Put(entry, <<c, s>>, [prev |-> head[c], deps |-> deps])

Next == \E c \in Contracts, s \in Hashes, deps \in SUBSET (DOMAIN entry) : Commit(c, s, deps)

Spec == Init /\ [][Next]_vars
=============================================================================
