------------------------------- MODULE Commit -------------------------------
(***************************************************************************)
(* Committing a contract state (python/pdo/contract/response.py): the      *)
(* replication service and the transaction service joined by               *)
(* commit_asynchronously, call_back_after_replication and wait_for_commit. *)
(***************************************************************************)
EXTENDS Naturals, Sequences, FiniteSets, SequencesExt

CONSTANTS
    Requests, Services, ReplicationSet, NumProvableReplicas, Unchanged, Workers, NoConnection,
    NoStore, NoBlocks, Threads, None, Contracts, ContractOf, OldState, Dependencies, Saved, Other,
    OtherClients, LedgerFaults

VARIABLES
    submitted, replication_task_queue, manager, service_task_queues, started, worker,
    services_to_ignore, is_completed, is_failed, successful_services, unsuccessful_services,
    transaction_task_queue, stored, waits_for, completed_cv,    \* Replication
    taken, depcache, updates, tx_worker, tx_completed, tx_failed,
    head, recorded, retracted, committed, durable,              \* Transactions
    tx_waits_for,       \* [Threads -> Requests \cup {None}]: waits for the transaction
    transactions_cv,    \* threads asleep on the transaction service's condition
    result              \* [Threads -> outcome of the last wait_for_commit]

R == INSTANCE Replication

replicationOnly ==
    <<submitted, replication_task_queue, manager, service_task_queues, started, worker,
      services_to_ignore, is_completed, is_failed, successful_services, unsuccessful_services,
      stored, waits_for, completed_cv>>
transactionOnly ==
    <<taken, depcache, updates, tx_worker, tx_completed, tx_failed,
      head, recorded, retracted, committed, durable>>
waitVars == <<tx_waits_for, transactions_cv, result>>
vars == <<replicationOnly, transaction_task_queue, transactionOnly, waitVars>>

(* What the transaction service can tell of a request's replication.       *)
ReplicationStatus ==
    [r \in Requests |-> CASE r > submitted -> "no"
                          [] r <= submitted /\ ~is_completed[r] -> "running"
                          [] r <= submitted /\ is_completed[r] ->
                                IF is_failed[r] THEN "failed" ELSE "done"]

T == INSTANCE Transactions WITH
    replication <- ReplicationStatus, worker <- tx_worker,
    is_completed <- tx_completed, is_failed <- tx_failed, ReplicationFaults <- TRUE

NoResult == [req |-> None, raised |-> FALSE]

Init ==
    /\ R!Init
    /\ taken = 0
    /\ T!Init
    /\ tx_waits_for = [a \in Threads |-> None]
    /\ transactions_cv = <<>>
    /\ result = [a \in Threads |-> NoResult]

(* commit_asynchronously: a ReplicationRequest, a TransactionRequest, and  *)
(* the replication task.                                                   *)
CommitAsynchronously ==
    /\ R!AddReplicationTask
    /\ UNCHANGED waitVars
    /\ T!CreateRequest(submitted + 1)

ReplicationStep ==
    /\ UNCHANGED <<transactionOnly, waitVars>>
    /\ \/ R!ManagerStep
       \/ \E t \in Services \X Workers : R!WorkerStep(t)
       \/ \E a \in Threads : R!Sleep(a)

(* A completed transaction wakes one thread.                               *)
TransactionStep ==
    /\ UNCHANGED <<replicationOnly, transaction_task_queue, tx_waits_for, result>>
    /\ T!WorkerStep
    /\ transactions_cv' = IF tx_completed' # tx_completed THEN R!Notify(transactions_cv)
                                                         ELSE transactions_cv

LedgerStep ==
    /\ UNCHANGED <<replicationOnly, transaction_task_queue, waitVars>>
    /\ T!GlobalCommit \/ T!Failover \/ \E c \in Contracts : T!OtherUpdate(c)

(***************************************************************************)
(* wait_for_commit: for the replication, then for the transaction.         *)
(***************************************************************************)
WaitForCommit(a, r) ==
    /\ tx_waits_for[a] = None
    /\ result[a] = NoResult
    /\ R!Wait(a, r)
    /\ UNCHANGED <<transactionOnly, waitVars>>

ReplicationWaitEnds(a) ==
    /\ LET r == waits_for[a] IN
        IF r # None /\ is_failed[r]
        THEN /\ result' = [result EXCEPT ![a] = [req |-> r, raised |-> TRUE]]
             /\ UNCHANGED tx_waits_for
        ELSE /\ tx_waits_for' = [tx_waits_for EXCEPT ![a] = r]
             /\ UNCHANGED result
    /\ R!Return(a)
    /\ UNCHANGED <<transactionOnly, transactions_cv>>

TransactionAwake(a) == tx_waits_for[a] # None /\ ~Contains(transactions_cv, a)

TransactionSleep(a) ==
    /\ TransactionAwake(a)
    /\ ~tx_completed[tx_waits_for[a]]
    /\ transactions_cv' = Append(transactions_cv, a)
    /\ UNCHANGED <<replicationOnly, transaction_task_queue, transactionOnly, tx_waits_for, result>>

(* Mutant: the outcome of the transaction is not looked at.                *)
TransactionWaitReturns(a) ==
    /\ TransactionAwake(a)
    /\ tx_completed[tx_waits_for[a]]
    /\ result' = [result EXCEPT ![a] = [req |-> tx_waits_for[a], raised |-> FALSE]]
    /\ tx_waits_for' = [tx_waits_for EXCEPT ![a] = None]
    /\ UNCHANGED <<replicationOnly, transaction_task_queue, transactionOnly, transactions_cv>>

TransactionWaitEnds(a) ==
    /\ TransactionAwake(a)
    /\ LET r == tx_waits_for[a] IN
        /\ tx_completed[r]
        /\ result' = [result EXCEPT ![a] = [req |-> r, raised |-> tx_failed[r]]]
    /\ tx_waits_for' = [tx_waits_for EXCEPT ![a] = None]
    /\ UNCHANGED <<replicationOnly, transaction_task_queue, transactionOnly, transactions_cv>>

ThreadStep(a) ==
    \/ ReplicationWaitEnds(a)
    \/ TransactionSleep(a)
    \/ TransactionWaitEnds(a)

Next ==
    \/ CommitAsynchronously
    \/ ReplicationStep
    \/ TransactionStep
    \/ LedgerStep
    \/ \E a \in Threads, r \in Requests : WaitForCommit(a, r)
    \/ \E a \in Threads : ThreadStep(a)

(* Every thread of the process is scheduled.                               *)
Fairness ==
    /\ WF_vars(R!ManagerStep /\ ReplicationStep)
    /\ \A t \in Services \X Workers : WF_vars(R!WorkerStep(t) /\ ReplicationStep)
    /\ \A a \in Threads : WF_vars(R!Sleep(a) /\ ReplicationStep) /\ WF_vars(ThreadStep(a))
    /\ WF_vars(TransactionStep)

Spec == Init /\ [][Next]_vars /\ Fairness

(***************************************************************************)
(* Properties.                                                             *)
(***************************************************************************)

(* No state is recorded on the ledger before its blocks, and the blocks of *)
(* every state of this client it builds on, are held by the required       *)
(* number of storage services: a recorded state can be fetched.            *)
RecordedIsReplicated ==
    \A r \in recorded :
        /\ Cardinality({s \in ReplicationSet[r] : r \in stored[s]}) >= R!Needed(r)
        /\ OldState[r] \in Requests => OldState[r] \in recorded

(* wait_for_commit returns normally only for a state that was recorded (a  *)
(* change of primary may have retracted it since), and raises only for a   *)
(* request that failed in one of the two services.                         *)
AnswerIsRight ==
    \A a \in Threads : result[a] # NoResult =>
        IF result[a].raised THEN is_failed[result[a].req] \/ tx_failed[result[a].req]
                            ELSE result[a].req \in recorded

(* Whoever waits for a commit gets an answer: "Wait for completion of the  *)
(* commit task corresponding to the response."                             *)
WaitForCommitEnds ==
    \A a \in Threads, r \in Requests :
        waits_for[a] = r ~> result[a] # NoResult /\ result[a].req = r

(* The replication service drives the transaction service only in ways     *)
(* that Transactions allows for: what is checked of Transactions holds in  *)
(* the whole.                                                              *)
ImplementsTransactions == T!Init /\ [][T!Next]_(T!vars)
=============================================================================
