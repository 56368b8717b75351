# Private Data Objects: TLA+ models and proofs

Private Data Objects (PDO) evaluates contracts inside SGX enclaves, off chain, and
records the hash of every new state of a contract on a ledger. This directory holds
TLA+ modules translated from the sources, the TLC configurations that check them on
small instances, and TLAPS proofs of the properties that matter most.

`PROJECT.json` lists, in machine-readable form, every part of the system, the source
lines each definition models (`map`), the runs, the mutated definitions each property
must reject, the hazards the models are aimed at, and the main theorems.

## 1. The system

An update of a contract goes through these parts.

1. The **client** (`python/pdo/contract`) builds a request and sends it to an enclave
   service, together with the identifier of the state to work on. The state is a tree
   of encrypted blocks.
2. The **enclave service** (`eservice`) has a pool of enclaves. A request waits for an
   enclave, is evaluated in it by an interpreter that a worker thread prepares, and
   the response is fetched in a second call. The contract reads and writes the
   **key-value store** (`common/state`): a trie laid out over fixed-size data nodes,
   which become blocks. The enclave signs the old state, the new one, and the states
   of other contracts the update depends on.
3. The client's **replication service** (`replication.py`) pushes the changed blocks
   to the **storage services** (`sservice`) of the contract. Storage services keep a
   block for a lease and collect it afterwards (`block_store_manager.py`).
4. Once a quorum holds the blocks, the **transaction service** (`transaction.py`)
   submits the update when everything it depends on is on the ledger.
5. The **ledger** (`ledgers/ccf/transaction_processor`) is an application on CCF: it
   checks the update against its tables, and answers questions with a signature once
   the answer is globally committed.

Besides, **provisioning services** (`pservice`) hand out the secrets from which an
enclave derives a contract's state encryption key, and enclaves **sign up** with the
ledger.

### Inventory

| Part | Source | Module | State |
|---|---|---|---|
| ledger transaction processor | `ledgers/ccf/transaction_processor` | `Ledger` | modelled, proved |
| replication of state blocks | `python/pdo/contract/replication.py` | `Replication` | modelled except process exit |
| transaction submission | `python/pdo/contract/transaction.py`, `submitter` | `Transactions` | modelled except process exit |
| response and commit | `python/pdo/contract/response.py` | `Commit` | modelled |
| block store, storage service | `python/pdo/common/block_store_manager.py`, `sservice`, `lmdb_block_store.cpp` | `BlockStore` | modelled except start-up, proved |
| enclave pool, contract worker | `eservice/pdo/eservice/enclave`, `libpdo_enclave/contract_enclave.cpp`, `contract_worker.cpp` | `EnclavePool` | modelled except SGX itself, proved |
| key-value state | `common/state` | `FreeSpace`, `StateKV` | modelled except the cache |
| contract evaluation | `libpdo_enclave/contract_request.cpp`, ... | actions of `Ledger` | what is read and signed |
| data node cache | `common/state/cache.cpp` | | planned |
| contract secrets, provisioning | `libpdo_enclave/contract_secrets.cpp`, `pservice` | | planned |
| enclave signup and restart | `libpdo_enclave/signup_enclave.cpp`, `pdo_enclave.py` | | planned |
| state and requests on the client | `python/pdo/contract/state.py`, `request.py` | | planned |
| enclave web service, service clients | `eservice/pdo/eservice/wsgi`, `service_client` | | thin; with the client |
| service database, client shell | `service_data`, `client/pdo/client` | | sequential; contract creation planned |
| contract interpreter and library | `common/interpreter`, `contracts/wawaka` | life cycle in `EnclavePool` | WebAssembly is external |
| cryptography, utilities, scripts | `common/crypto`, `build`, `docker` | | ideal, or without state |

## 2. The modules

Definitions have the names of the functions they model, in TLA+ spelling. A comment
that begins with "Mutant" marks a deliberately wrong variant of the definition below
it: replacing the definition by it must violate the property that `PROJECT.json`
pairs it with.

### Ledger, Tables, StateChain

`Ledger` is the transaction processor. `kv[0]` is the globally committed version of
the tables, `kv[1..last]` the versions executed by the primary and not yet committed;
`Global` and `Local` are what the handlers read with `get_globally_committed` and
`get`. Each write handler of `pdo_tp.cpp` is an action that appends a version
(`RegisterEnclave`, `RegisterContract`, `AddEnclave`, `InitializeContractState`,
`UpdateContractState`, `GenSigningKey`, and the operator's two settings), each read
handler one that sets `reply`. `ledger_signer_local` and `enclave_pubk_verifier` are
the globals of each node's process, which are not in the tables. CCF is external:
`GlobalCommit` commits the oldest version, `Failover` makes another node primary and
rolls back any number of uncommitted versions, possibly with a restart that empties
a node's memory. `EnclaveInitialize` and `EnclaveUpdate` produce signed evaluations:
an enclave signs whatever base state it is given, as many times as it is asked.
An evaluation that wrote nothing gives back the state it started from; `ChangesState`
is the handler's check against it. Cryptography is ideal: a signature is the record of
who signed what. Two things about signatures are worth knowing.

- An element of an update's dependency list has two hashes: `state_hash` is looked up
  and recorded, `state_hash_for_sign` is what the signature covers, and no handler
  compares them. The model has both (`DependencyLists`); `CausallyClosed` is about the
  first, `StatesAuthorised` about the second. `ccf_submitter.py` fills in both from one
  value.
- The signed fields follow each other without lengths and without a tag for the kind
  of message. That a signed text is read back as it was written is an assumption of
  the model, stated at `EnclaveSigned`.

`Tables` has two operators on functions. `StateChain` is the abstract promise: each
contract has a growing sequence of states, one step at a time. `ImplementsStateChain`
maps the committed tables to it.

### Replication, Transactions, Commit

`Replication` has the manager thread, the worker threads of each storage service, the
request objects and application threads that wait on a condition variable. What
runs under a lock is one step; counting an outcome, testing the quorum, setting
`is_failed` and `mark_as_completed` are steps of their own. A worker whose service does
not answer counts a failure and leaves; one that cannot read the blocks of a request
(`NoBlocks`) leaves without a trace (`WorkerLeaves`). `Notify` wakes one waiting thread.

`Transactions` has the dependency cache, the list of replicated requests that are not
submitted yet, and the worker that scans it. What replication does is an input
(`CreateRequest`, `Replicated`, `ReplicationFails`), and the ledger appears as the
latest state of each contract and the states it has executed (`recorded`), rolled back
since (`retracted`) and globally committed. `OtherClients`, `LedgerFaults` and
`ReplicationFaults` switch parts of the environment on; a ledger fault is a read that
gets no answer, a submission that raises, before or after it was executed, or a change
of primary (`Failover`). A submission returns when the transaction is executed, so
`IdsAreReal` and `AnswerIsRight` are about executed states, which a change of primary
may still retract; `KeptIsFounded` is about what the ledger keeps.

`Commit` composes the two the way `response.py` does: `call_back_after_replication`
feeds the transaction service, `wait_for_commit` waits on both in turn.
`ImplementsTransactions` says that, seen through the mapping `T`, the composition only
takes steps `Transactions` allows, so that the invariants checked of `Transactions`
carry over to the composition.

### BlockStore

One storage service (or the block store of an enclave service): `meta_data` and
`block_data` are the two databases, `now` the clock. `StoreBlocks` reads the clock,
`CommitStore` runs later in the write transaction; `SyncChecks`, `SyncPushes` and
`SyncEnds` are the two calls and the end of a synchronisation; `CollectorStarts`,
`CollectorSnapshots`, `CollectorDeletes` and `CollectorEnds` are the collector, which
reads in one transaction and deletes in others. `BlockStorePut` is the enclave's own
write through LMDB, which overwrites what is there; that the enclave's blocks are new
is the separate condition `FreshlyEncrypted`. `promised` and `lost` are history variables.

### EnclavePool

`queue` is the queue of ready enclaves. A handler takes one (`Pop`), has the request
evaluated in it (`Call`, `GetInitializedInterpreter`, `Run`, `Save`), fetches the
response in a second call (`Fetch`) and puts the enclave back (`Push`), also when one
of these steps throws; `Failing` are the requests that may meet an error. The retry of
a busy device in `CallSgx` changes nothing the model has; the reload of an enclave that
was lost is not modelled. Per enclave, the worker thread prepares
the interpreter and waits for it to be done; `main` stops the service. The two
condition variables of `contract_worker.cpp` and the one of the queue are modelled by
the states of the waiting threads.

### FreeSpace, StateKV

`FreeSpace` is the arithmetic of offsets and the free space collector, as operators.
`StateKV` is the store: `cells` is the content of the data nodes, `top` how much of
the last one is in use, `fsc` the collector. The bytes of a trie node are two cells
(its header; its offsets and key chunk), those of a value two and one per element.
The stack of `operate_trie_non_recursive` is the recursion of `PutAt`, `DeleteAt` and
`GetAt`. `Finalize` saves the store and its table of free space; `Abandon` is a failed
evaluation; `Open` reads what was saved. The code accepts an empty value, whose mark of
deletion is written into the object behind it (`DeleteValue`): what is claimed of the
store is claimed for non-empty values (`NoEmptyValue`). `contents` and `saved` are history variables:
the map the store should be.

## 3. What the runs check

| Run | Instance | Shows |
|---|---|---|
| `ledger_chain` | 2 nodes, 2 contracts, 3 states, 2 uncommitted versions | no fork, complete histories, every state signed by an enclave of its contract, the states named in dependency lists recorded, commits are kept, `StateChain` is implemented |
| `ledger_service` | 2 nodes, 2 enclaves, 2 creators, 2 keys, changing policy | signed answers stay true after a change of primary, one signing key, enclaves registered only while a policy is committed, enclaves of a contract registered and added once |
| `replication_safety` | 3 requests, one with unreadable blocks, 2 services with 2 workers, 1 waiting thread | a request is handed on once, with its quorum; failed is final; a service counts once |
| `transactions_alone` | 4 requests on 2 contracts that depend on each other | no failure of the client's own making, nothing doable is held, every transaction ends |
| `transactions_faults` | the same with every fault, changes of primary included | a cached transaction id stands for a state the ledger executed; what the ledger keeps is founded on what it keeps |
| `commit_safety` | 2 requests that need both services, one of which may fail, every ledger fault | what is recorded is replicated, an answer tells what the ledger executed, `Transactions` is implemented |
| `commit_live` | 2 requests, one service of two may fail | `wait_for_commit` ends |
| `blocks_leases` | 1 block, 2 clients, collector, clock to 4 | databases agree, leases are not cut, a sync is complete, expired blocks go |
| `blocks_race` | 2 blocks, 1 client | *violated*: the collector removes a block whose lease was extended after its snapshot |
| `pool_requests` | 2 enclaves, 3 requests, any step of one may fail | no enclave lost or shared, interpreters are finalized between contracts, responses are one's own, every request ends |
| `kvs_map` | 4 keys, 2 non-empty values, 5 puts or deletes, saved, reopened, abandoned anywhere | the trie is a map, no space used twice, none lost while the store is open |
| `kvs_finalize` | the same | *violated*: Finalize can be refused after legal operations |

**Bounds.** A fork needs two evaluations on one state and a third state to build on:
three hashes. A rollback needs two uncommitted versions to keep one of them. A quorum
decided twice needs two workers that are past their count, hence two workers and two
services. The transaction worker's scan goes wrong only across two contracts, with a
request on either side. A handler waits only when there are more requests than
enclaves. `MaxTime`, `MaxEvaluations`, `MaxUncommitted`, `MaxInfos`, `MaxBlocks` and `MaxOperations` are
bounds of the models, not of the code; they are guards of the actions. In `kvs_map` a
data node has 5 cells and a key chunk 2 elements, so that nodes and values cross the
end of a data node and keys span several nodes; five operations reach splits, pruning
with and without a successor, reuse of whole and of partial items, three free items
(one more than the table of a data node holds) and a reopening in between. Symmetry is
used in runs without liveness only.

**Deadlock** is not checked where the system may stop: after the bounded work is done
(`Replication`, `Transactions`, `Commit`, the ledger with no hash left, the pool after
its shutdown). `BlockStore` and `StateKV` never stop.

**Fairness.** Each thread of the client that can run does run: weak fairness of the
manager, of each worker and of each waiting thread (`Replication`, `Commit`), of the
transaction worker and of the replications it waits for (`Transactions`). They are
ordinary Python threads; every loop in them blocks only on a queue or a condition
variable, which are in the models. The clock advances and the collector is run by a
periodic call (`BlockStore`). In `EnclavePool` handlers, worker threads and shutdown
are fair, and the evaluation of a contract is assumed to end: the interpreter has no
time limit in the code. No fairness is assumed of storage services that may fail, of
other clients or of the ledger's global commit.

## 4. What is proved

The proofs hold for every value of the constants, under the assumption named in the
module that declares them.

**LedgerProofs** (`LedgerAssumption`): `TypeCorrect`, `NoForks`
(`UnforkedHistories`), `Causality` (`CausallyClosed`), `Durability` (`CommittedKept`),
`Authorisation` (`StatesAuthorised`), `Answers` (`ReplyHolds`), `Refinement` (the committed tables implement `StateChain`). That histories are linear
is not inductive in terms of the tables alone: an update is accepted because its base
is the latest state, and the new state must not be one recorded before. The invariant
`IInv` therefore says that no two signatures of a changed state name the same new state
(`SignedOnce`, the enclave's fresh encryption), that every recorded state is one that was signed with
the predecessor recorded for it, that each version in the list is well formed, and that
neighbouring versions `Follow` each other: tables only grow, and at most one contract
gains one state. The last part makes the proof carry over to `GlobalCommit` and
`Failover`, which only move along the list.

**BlockStoreProofs** (`BlockStoreAssumption`; for the last one `SyncAssumption`, that a
sync asks for at least the lease it checks for; the enclave's puts are
`FreshlyEncrypted`): `DatabasesAlwaysAgree`
(`DatabasesAgree`), `LeasesAreKept` (`LeaseKept`), `SyncsAreComplete`
(`SyncComplete`). The strengthening says that a block that is absent has no promise to
keep unless it was collected, and what a sync between its two calls has seen.

**EnclavePoolProofs** (`EnclavePoolAssumption`): `EnclavesAreKept` (`EnclavesKept`),
`InterpretersAreExclusive` (`InterpreterIsMine`), `ResponsesAreOwn` (`OwnResponse`).
The invariant ties the places of the threads to the flags: an enclave is in the queue
or held by one handler; a handler between `GetInitializedInterpreter` and its end
finds the state BUSY and the worker waiting; the worker prepares no interpreter that
was used and not finalized; a saved response belongs to the handler
that holds the enclave; and the service is stopped only when no enclave is held.

**Only model-checked**: all liveness properties (fairness is beyond the proof system
used here), `Replication`, `Transactions` and `Commit` with `ImplementsTransactions`,
`HistoryComplete`, `OneLedgerKey`, `RegisteredUnderPolicy` and `ContractEnclaves`, and
`StateKV`, whose operators are recursive.

## 5. Where the code and its own claims part

- `blocks_race`: the collector decides on a snapshot and deletes without looking again.
- `kvs_finalize`: a split may add a data node that stays empty; Finalize then meets the
  assertion "appending new data node after empty one".

The models have further behaviours that no run is spent on. Each is a hazard with a
note in `PROJECT.json`.

- A request whose quorum needs a service that cannot be reached is neither completed
  nor failed, and its wait does not end (`replication.py:163`, `:238` for blocks that
  cannot be read, and `:227` for services that are ignored from the start).
- What `wait_for_commit` has reported may be retracted by a change of primary
  (`transaction.py:198`).
- With several threads waiting, `notify` may wake the wrong one (`replication.py:279`).
- A request behind one whose replication or submission failed may be held for ever
  (`transaction.py:333`, `:203`).
- The memory of a new primary lacks the verifiers of enclaves registered elsewhere
  (`pdo_tp.cpp:726`).
- The service may be stopped between the worker's test and its wait
  (`contract_enclave.cpp:63`).
- Free space that is collected in the middle of the table may be forgotten at Finalize
  (`free_space_collector.cpp:65`); overwriting or deleting an empty value marks the
  object behind it (`trie.cpp:163`). `StateKV` has both.

## 6. What is not modelled

Cryptography is ideal and SGX, CCF, LMDB, HTTP and WebAssembly are external: the models
contain what the code relies on. Message formats, JSON, logging and configuration are
left out. The stopping of the client's services at process exit is not modelled.
Encryption and block identifiers of the key-value store are left out, so `StateKV`
takes the data nodes as memory; the cache between the two is not modelled yet. Nothing
is said about confidentiality: that needs a model of an attacker, which this is not.

## 7. Plan

Built so far, in this order: `Ledger` with `StateChain` and its proofs; `Replication`,
`Transactions` and their composition `Commit`; `BlockStore` and `EnclavePool` with
their proofs; `FreeSpace` and `StateKV`.

Next, each with its question:

1. `BlockCache` (`cache.cpp`, `sebio.cpp`, `block_warehouse.cpp`): slots, pins,
   eviction and flush. Abstract specification: memory; a modified node is written
   before its slot is reused, and Finalize leaves no modified node. To be proved.
2. `Provisioning` (`contract_secrets.cpp`, `secret_enclave.cpp`, `PServiceCLI.py`):
   every enclave of a contract derives the same state key, in whatever order and from
   whatever enclave the secrets arrive; composed with `Ledger`'s `AddEnclave`.
3. `Signup` (`signup_enclave.cpp`, `pdo_enclave.py`, `pdo_helper.py`): sealed data
   saved, lost or read back around a restart; the keys in use are the registered ones.
4. `ContractState` (`state.py`, `request.py`, `invoke.py`): pushing and pulling a state
   between client, enclave service and storage services; composed with `BlockStore`.
5. `Evaluation` (`contract_request.cpp`, `contract_response.cpp`): decoding, the error
   paths, and that a response without a state change signs nothing; refines the
   enclave actions of `Ledger`.
6. Lemmas about `FreeSpace` (`Allocate` and `Collect` keep the table in order and its
   items disjoint), which has no recursion.
7. Inductive invariants of `Replication` (`HandedOnOnce`, `FailureIsFinal`) for any
   number of services and workers.

The runs with violations give way when the modules above need their place.
