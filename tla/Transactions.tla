---------------------------- MODULE Transactions ----------------------------
(***************************************************************************)
(* The client's transaction service (python/pdo/contract/transaction.py).  *)
(* One worker thread takes the requests whose blocks are replicated, holds *)
(* each back until the transactions it depends on are done, and submits it *)
(* to the ledger.                                                          *)
(*                                                                         *)
(* A contract state is named by the request that produced it; Saved is the *)
(* state a contract had before this process.  The ledger is what Ledger    *)
(* shows of it: an update is executed only on the latest state and when    *)
(* its dependencies are recorded; reads see globally committed states; a   *)
(* change of primary retracts what is executed and not committed.  (What   *)
(* of it the new primary has is here committed first.)                     *)
(* How requests get replicated is left open here: in any order, or not at  *)
(* all (see Commit).                                                       *)
(***************************************************************************)
EXTENDS Naturals, Sequences, FiniteSets, SequencesExt, FiniteSetsExt

CONSTANTS
    Requests,       \* 1..N, the request numbers
    Contracts,
    ContractOf,     \* [Requests -> Contracts]
    OldState,       \* the state a request was evaluated on; None: it initializes
    Dependencies,   \* [Requests -> Seq(Requests)]: states of other contracts
    Saved,
    Other,          \* a state recorded by another client
    None,
    OtherClients,   \* BOOLEAN: other clients update the contracts
    LedgerFaults,   \* BOOLEAN: a submission may raise, before or after it is executed
    ReplicationFaults \* BOOLEAN: a request's replication may fail

ASSUME TransactionsAssumption ==
    /\ ContractOf \in [Requests -> Contracts]
    /\ OldState \in [Requests -> Requests \cup {None, Saved}]
    /\ Dependencies \in [Requests -> Seq(Requests)]
    /\ \A r \in Requests : \A d \in ToSet(Dependencies[r]) \cup {OldState[r]} : d \in Requests => d < r

VARIABLES
    replication,            \* [Requests -> {"no", "running", "done", "failed"}]
    transaction_task_queue, \* every request put into the queue, in order
    taken,                  \* how many of them the worker has taken out
    depcache,               \* [Requests -> {"pending", "txn", None}]
    updates,                \* rep_completed_but_txn_not_submitted_updates
    worker,
    is_completed,
    is_failed,
    head,                   \* ledger: latest state of each contract
    recorded,               \* ledger: states executed so far
    retracted,              \* ledger: those among them that were rolled back
    committed,              \* ledger: globally committed states
    durable                 \* ledger: latest state of each contract among them

requestVars == <<depcache, is_completed, is_failed>>
ledgerVars == <<head, recorded, retracted, committed, durable>>
vars == <<replication, transaction_task_queue, taken, requestVars, updates, worker, ledgerVars>>

Initializes(r) == OldState[r] = None
Idle == [pc |-> "idle", contract |-> None, left |-> {}, any |-> FALSE, todo |-> {}]

Init ==
    /\ replication = [r \in Requests |-> "no"]
    /\ transaction_task_queue = <<>>
    /\ taken = 0
    /\ depcache = [r \in Requests |-> None]
    /\ updates = [c \in {} |-> {}]
    /\ worker = Idle
    /\ is_completed = [r \in Requests |-> FALSE]
    /\ is_failed = [r \in Requests |-> FALSE]
    /\ head = [c \in Contracts |->
                IF \E r \in Requests : ContractOf[r] = c /\ Initializes(r) THEN None ELSE Saved]
    /\ recorded = {}
    /\ retracted = {}
    /\ committed = {}
    /\ durable = head

(***************************************************************************)
(* The requests before they reach the worker.                              *)
(***************************************************************************)

(* TransactionRequest.__init__: requests are created in order.             *)
CreateRequest(r) ==
    /\ replication[r] = "no"
    /\ \A q \in Requests : q < r => replication[q] # "no"
    /\ replication' = [replication EXCEPT ![r] = "running"]
    /\ depcache' = [depcache EXCEPT ![r] = "pending"]
    /\ UNCHANGED <<transaction_task_queue, taken, is_completed, is_failed, updates, worker, ledgerVars>>

(* call_back_after_replication: add_transaction_task.                      *)
Replicated(r) ==
    /\ replication[r] = "running"
    /\ replication' = [replication EXCEPT ![r] = "done"]
    /\ transaction_task_queue' = Append(transaction_task_queue, r)
    /\ UNCHANGED <<taken, requestVars, updates, worker, ledgerVars>>

ReplicationFails(r) ==
    /\ ReplicationFaults
    /\ replication[r] = "running"
    /\ replication' = [replication EXCEPT ![r] = "failed"]
    /\ UNCHANGED <<transaction_task_queue, taken, requestVars, updates, worker, ledgerVars>>

(***************************************************************************)
(* __transaction_worker__.                                                 *)
(***************************************************************************)

(* submit_doable_transactions_for_contract starts.                         *)
Scan(c, todo, ups) ==
    [pc |-> "check", contract |-> c, left |-> ups[c], any |-> FALSE, todo |-> todo]

WorkerTakes ==
    /\ worker.pc = "idle"
    /\ taken < Len(transaction_task_queue)
    /\ taken' = taken + 1
    /\ LET r == transaction_task_queue[taken + 1]
           c == ContractOf[r]
       IN /\ updates' = [d \in DOMAIN updates \cup {c} |->
                            IF d \notin DOMAIN updates THEN {r}
                            ELSE IF d = c THEN updates[d] \cup {r} ELSE updates[d]]
          /\ worker' = Scan(c, {}, updates')
    /\ UNCHANGED <<replication, transaction_task_queue, requestVars, ledgerVars>>

(* FindDependency: a cached id, else what the ledger has committed; unread *)
(* is a state the ledger gives no answer for.  (The ids of Saved states    *)
(* are not kept here: the read of one may fail a second time.)             *)
FindDependency(s, unread) ==
    IF s # Saved /\ depcache[s] # None THEN depcache[s]
    ELSE IF s # unread /\ (s = Saved \/ s \in committed) THEN "txn" ELSE None

LookedUp(r) == IF Initializes(r) THEN <<>> ELSE <<OldState[r]>> \o Dependencies[r]

(* Mutant: a pending dependency counts as found.                           *)
NotFound(r, unread) == {i \in 1..Len(LookedUp(r)) : FindDependency(LookedUp(r)[i], unread) = None}

(* The dependencies that are not done; the look-up stops at the first one. *)
Missing(r, unread) == {i \in 1..Len(LookedUp(r)) : FindDependency(LookedUp(r)[i], unread) # "txn"}

(* The cache after the look-up: ids that were fetched are kept.            *)
Remembered(r, unread) ==
    LET found == {i \in 1..Len(LookedUp(r)) : \A m \in Missing(r, unread) : i < m} IN
    [s \in Requests |-> IF \E i \in found : LookedUp(r)[i] = s THEN "txn" ELSE depcache[s]]

(* Mutants: the failure is kept in the cache of dependencies; it is not    *)
(* kept with the request.                                                  *)
MarkInCache(r, cache) ==
    /\ depcache' = [cache EXCEPT ![r] = "failed"]
    /\ is_failed' = [is_failed EXCEPT ![r] = TRUE]
    /\ is_completed' = [is_completed EXCEPT ![r] = TRUE]
    /\ updates' = [updates EXCEPT ![worker.contract] = @ \ {r}]
    /\ worker' = [worker EXCEPT !.pc = "end"]
MarkAsEnded(r, cache) ==
    /\ depcache' = [cache EXCEPT ![r] = None]
    /\ is_completed' = [is_completed EXCEPT ![r] = TRUE]
    /\ updates' = [updates EXCEPT ![worker.contract] = @ \ {r}]
    /\ worker' = [worker EXCEPT !.pc = "end"]
    /\ UNCHANGED is_failed

(* mark_as_failed, with the removal of the request from the worker's list. *)
MarkAsFailed(r, cache) ==
    /\ depcache' = [cache EXCEPT ![r] = None]
    /\ is_failed' = [is_failed EXCEPT ![r] = TRUE]
    /\ is_completed' = [is_completed EXCEPT ![r] = TRUE]
    /\ updates' = [updates EXCEPT ![worker.contract] = @ \ {r}]
    /\ worker' = [worker EXCEPT !.pc = "end"]

(* What the worker does next with the lowest request number of its list:   *)
(* submit it, stop at a pending dependency, or abort it and stop.  The     *)
(* states committed on the ledger only grow, so the look-ups are one step. *)
CheckWith(unread) ==
    /\ worker.pc = "check"
    /\ worker.left # {}
    /\ unread \in {None} \cup (IF LedgerFaults THEN ToSet(LookedUp(Min(worker.left))) ELSE {})
    /\ LET r == Min(worker.left)
           done == Missing(r, unread) = {}
           stop == ~done /\ FindDependency(LookedUp(r)[Min(Missing(r, unread))], unread) = "pending"
       IN \/ /\ done \/ stop
             /\ worker' = [worker EXCEPT !.pc = IF stop THEN "end" ELSE "submit"]
             /\ depcache' = Remembered(r, unread)
             /\ UNCHANGED <<is_completed, is_failed, updates>>
          \/ /\ ~done /\ ~stop
             /\ MarkAsFailed(r, Remembered(r, unread))
    /\ UNCHANGED <<replication, transaction_task_queue, taken, ledgerVars>>

WorkerChecks == \E unread \in Requests \cup {None, Saved} : CheckWith(unread)

(* Mutant: the dependencies are not looked up.                             *)
AcceptableAlone(r) == head[ContractOf[r]] = OldState[r]

(* The ledger's conditions, see Ledger.                                    *)
Acceptable(r) ==
    /\ head[ContractOf[r]] = OldState[r]
    /\ ToSet(Dependencies[r]) \subseteq recorded \ retracted

Execute(r) ==
    /\ Acceptable(r)
    /\ head' = [head EXCEPT ![ContractOf[r]] = r]
    /\ recorded' = recorded \cup {r}
    /\ UNCHANGED <<retracted, committed, durable>>

(* Submission, the saved dependency and mark_as_completed.                 *)
WorkerSubmits ==
    /\ worker.pc = "submit"
    /\ LET r == Min(worker.left) IN
        /\ Execute(r)
        /\ depcache' = [depcache EXCEPT ![r] = "txn"]
        /\ is_completed' = [is_completed EXCEPT ![r] = TRUE]
        /\ updates' = [updates EXCEPT ![worker.contract] = @ \ {r}]
        /\ worker' = [worker EXCEPT !.pc = "check", !.left = @ \ {r}, !.any = TRUE]
    /\ UNCHANGED <<replication, transaction_task_queue, taken, is_failed>>

(* The submission is refused, does not reach the ledger, or its answer is  *)
(* lost.                                                                   *)
WorkerSubmissionFails ==
    /\ worker.pc = "submit"
    /\ LET r == Min(worker.left) IN
        /\ \/ ~Acceptable(r) /\ UNCHANGED ledgerVars
           \/ LedgerFaults /\ UNCHANGED ledgerVars
           \/ LedgerFaults /\ Execute(r)
        /\ MarkAsFailed(r, depcache)
    /\ UNCHANGED <<replication, transaction_task_queue, taken>>

ScanEnded == worker.pc = "end" \/ (worker.pc = "check" /\ worker.left = {})

(* Mutant: only the contract of the new request is looked at.              *)
ScanOnlyOne ==
    /\ ScanEnded
    /\ worker' = Idle
    /\ UNCHANGED <<replication, transaction_task_queue, taken, requestVars, updates, ledgerVars>>

(* A contract is done.  When something was submitted all contracts are     *)
(* looked at (if there are several), again and again until nothing can be  *)
(* submitted; "loop_again or submit_doable..." skips the rest of a pass.   *)
WorkerEndsScan ==
    /\ ScanEnded
    /\ worker' = IF worker.any /\ Cardinality(DOMAIN updates) > 1
                 THEN [Idle EXCEPT !.pc = "next", !.todo = DOMAIN updates]
                 ELSE IF worker.todo # {} THEN [worker EXCEPT !.pc = "next"] ELSE Idle
    /\ UNCHANGED <<replication, transaction_task_queue, taken, requestVars, updates, ledgerVars>>

WorkerScans(c) ==
    /\ worker.pc = "next"
    /\ c \in worker.todo
    /\ worker' = Scan(c, worker.todo \ {c}, updates)
    /\ UNCHANGED <<replication, transaction_task_queue, taken, requestVars, updates, ledgerVars>>

(***************************************************************************)
(* The ledger by itself.                                                   *)
(***************************************************************************)
GlobalCommit ==
    /\ committed # recorded \ retracted \/ durable # head
    /\ committed' = recorded \ retracted
    /\ durable' = head
    /\ UNCHANGED <<replication, transaction_task_queue, taken, requestVars, updates, worker,
                   head, recorded, retracted>>

(* A new primary that has the committed transactions only.                 *)
Failover ==
    /\ LedgerFaults
    /\ committed # recorded \ retracted \/ durable # head
    /\ retracted' = recorded \ committed
    /\ head' = durable
    /\ UNCHANGED <<replication, transaction_task_queue, taken, requestVars, updates, worker,
                   recorded, committed, durable>>

OtherUpdate(c) ==
    /\ OtherClients
    /\ head[c] \notin {None, Other}
    /\ head' = [head EXCEPT ![c] = Other]
    /\ UNCHANGED <<replication, transaction_task_queue, taken, requestVars, updates, worker,
                   recorded, retracted, committed, durable>>

-----------------------------------------------------------------------------
WorkerStep ==
    \/ WorkerTakes
    \/ WorkerChecks
    \/ WorkerSubmits
    \/ WorkerSubmissionFails
    \/ WorkerEndsScan
    \/ \E c \in Contracts : WorkerScans(c)

Next ==
    \/ \E r \in Requests : CreateRequest(r) \/ Replicated(r) \/ ReplicationFails(r)
    \/ WorkerStep
    \/ GlobalCommit
    \/ Failover
    \/ \E c \in Contracts : OtherUpdate(c)

(* The worker thread is scheduled, a submission returns or raises, and a   *)
(* replication that runs ends one way or the other (Replication shows when *)
(* it does).                                                               *)
Fairness ==
    /\ WF_vars(WorkerStep)
    /\ \A r \in Requests : WF_vars(Replicated(r) \/ ReplicationFails(r))

Spec == Init /\ [][Next]_vars /\ Fairness

(***************************************************************************)
(* Properties.                                                             *)
(***************************************************************************)
TypeOK ==
    /\ replication \in [Requests -> {"no", "running", "done", "failed"}]
    /\ transaction_task_queue \in Seq(Requests)
    /\ taken \in 0..Len(transaction_task_queue)
    /\ depcache \in [Requests -> {"pending", "txn", None}]
    /\ updates \in [DOMAIN updates -> SUBSET Requests]
    /\ DOMAIN updates \subseteq Contracts
    /\ worker \in [pc : {"idle", "check", "submit", "end", "next"},
                   contract : Contracts \cup {None}, left : SUBSET Requests, any : BOOLEAN,
                   todo : SUBSET Contracts]
    /\ is_completed \in [Requests -> BOOLEAN]
    /\ is_failed \in [Requests -> BOOLEAN]
    /\ head \in [Contracts -> Requests \cup {None, Saved, Other}]
    /\ durable \in [Contracts -> Requests \cup {None, Saved, Other}]
    /\ committed \cup retracted \subseteq recorded /\ recorded \subseteq Requests

(* A transaction id in the cache stands for a state the ledger executed,   *)
(* so a request is submitted only when the ledger has executed what it is  *)
(* evaluated on and what it depends on; and a request that completed       *)
(* without failing was executed.  (The submission returns before the       *)
(* global commit: a change of primary may retract any of them.)            *)
IdsAreReal ==
    /\ \A r \in Requests : depcache[r] = "txn" => r \in recorded
    /\ \A r \in Requests : is_completed[r] /\ ~is_failed[r] => r \in recorded
    /\ worker.pc = "submit" =>
        ToSet(LookedUp(Min(worker.left))) \subseteq recorded \cup {Saved}

(* Whatever the ledger has kept of this client's states, it has kept what  *)
(* they were evaluated on and what they depend on, although the cache of   *)
(* dependencies goes on giving ids of transactions that a change of        *)
(* primary has retracted.                                                  *)
KeptIsFounded ==
    \A r \in recorded \ retracted :
        /\ OldState[r] \in Requests => OldState[r] \in recorded \ retracted
        /\ ToSet(Dependencies[r]) \subseteq recorded \ retracted

(* When nothing but this client's own ordering can make a transaction      *)
(* fail, none fails, in whatever order the replications end: the worker    *)
(* never submits a request ahead of one it depends on, and never aborts    *)
(* one whose dependencies are still on their way.                          *)
NoSelfInflictedFailure == \A r \in Requests : ~is_failed[r]

(* When the worker has nothing to do, every request it still holds waits   *)
(* for one that is not replicated yet: a completed transaction of another  *)
(* contract has woken whatever waited for it.                              *)
NothingDoableHeld ==
    worker.pc = "idle" => \A c \in DOMAIN updates : \A r \in updates[c] :
        \E q \in Requests : q < r /\ ~Contains(SubSeq(transaction_task_queue, 1, taken), q)

(* "wait until completion of transaction. If success, return txn_id, else  *)
(* raise Exception": every request handed to the service is completed.     *)
EveryTransactionEnds == \A r \in Requests : replication[r] = "done" ~> is_completed[r]
=============================================================================
