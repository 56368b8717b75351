---------------------------- MODULE Replication -----------------------------
(***************************************************************************)
(* The client's replication service (python/pdo/contract/replication.py).  *)
(* Before a new contract state may be recorded on the ledger its changed   *)
(* blocks are pushed to storage services.  A manager thread gives each     *)
(* request to the queue of every storage service of the contract; worker   *)
(* threads, a few per service, push the blocks; the worker that completes  *)
(* the request's quorum hands it to the transaction service.               *)
(*                                                                         *)
(* Each action is what one thread does between two points at which another *)
(* thread can observe or change shared state; the body of                  *)
(* mark_as_completed runs under the condition variable's lock and is one   *)
(* action.  Stopping the service at process exit is not modelled.          *)
(***************************************************************************)
EXTENDS Naturals, Sequences, FiniteSets, SequencesExt

CONSTANTS
    Requests,           \* 1..N: replication requests, in the order of submission
    Services,           \* storage services
    ReplicationSet,     \* [Requests -> SUBSET Services]
    NumProvableReplicas,\* [Requests -> Nat]
    Unchanged,          \* requests whose change set is empty
    Workers,            \* worker threads of each service
    NoConnection,       \* services to which a client may fail to connect
    NoStore,            \* services that may fail to answer store_blocks
    NoBlocks,           \* requests whose blocks may fail to be read locally
    Threads,            \* application threads that wait for a request
    None

ASSUME ReplicationAssumption ==
    /\ ReplicationSet \in [Requests -> SUBSET Services]
    /\ NumProvableReplicas \in [Requests -> Nat]
    /\ Unchanged \cup NoBlocks \subseteq Requests
    /\ NoConnection \cup NoStore \subseteq Services
    /\ None \notin Requests

VARIABLES
    submitted,              \* number of requests submitted so far
    replication_task_queue,
    manager,                \* the manager thread: where it is, with which request
    service_task_queues,    \* [Services -> Seq(Requests)]
    started,                \* services whose queue and workers exist
    worker,                 \* [Services \X Workers -> state of the thread]
    services_to_ignore,
    is_completed,
    is_failed,
    successful_services,    \* [Requests -> SUBSET Services]
    unsuccessful_services,
    transaction_task_queue, \* requests handed on by call_back_after_replication
    stored,                 \* [Services -> SUBSET Requests]: what the services hold
    waits_for,              \* [Threads -> Requests \cup {None}]
    completed_cv            \* threads asleep on the condition variable, in order

serviceVars == <<service_task_queues, started, worker>>
requestVars == <<is_completed, is_failed, transaction_task_queue, completed_cv>>
countVars == <<successful_services, unsuccessful_services, stored>>
vars == <<submitted, replication_task_queue, manager, serviceVars, services_to_ignore,
          requestVars, countVars, waits_for>>

Idle == [pc |-> "idle", req |-> None, todo |-> {}]
Thread(pc, r, fail) == [pc |-> pc, req |-> r, fail |-> fail]

Init ==
    /\ submitted = 0
    /\ replication_task_queue = <<>>
    /\ manager = Idle
    /\ service_task_queues = [s \in Services |-> <<>>]
    /\ started = {}
    /\ worker = [t \in Services \X Workers |-> Thread("off", None, FALSE)]
    /\ services_to_ignore = {}
    /\ is_completed = [r \in Requests |-> FALSE]
    /\ is_failed = [r \in Requests |-> FALSE]
    /\ successful_services = [r \in Requests |-> {}]
    /\ unsuccessful_services = [r \in Requests |-> {}]
    /\ transaction_task_queue = <<>>
    /\ stored = [s \in Services |-> {}]
    /\ waits_for = [a \in Threads |-> None]
    /\ completed_cv = <<>>

(***************************************************************************)
(* ReplicationRequest.                                                     *)
(***************************************************************************)

(* Mutant: nobody is woken.                                                *)
NotifyNobody(cv) == cv

(* notify(): the thread that has been asleep longest is woken.             *)
Notify(cv) == IF cv = <<>> THEN cv ELSE Tail(cv)

(* Mutant: completion is not checked again under the lock.                 *)
MarkWithoutCheck(r) ==
    /\ is_completed' = [is_completed EXCEPT ![r] = TRUE]
    /\ completed_cv' = Notify(completed_cv)
    /\ transaction_task_queue' = IF is_failed[r] THEN transaction_task_queue
                                 ELSE Append(transaction_task_queue, r)

MarkAsCompleted(r) ==
    IF is_completed[r] THEN UNCHANGED <<is_completed, completed_cv, transaction_task_queue>>
    ELSE /\ is_completed' = [is_completed EXCEPT ![r] = TRUE]
         /\ completed_cv' = Notify(completed_cv)
         /\ transaction_task_queue' = IF is_failed[r] THEN transaction_task_queue
                                      ELSE Append(transaction_task_queue, r)

(* The first, unlocked, assignment of mark_as_failed.                      *)
SetFailed(r) ==
    /\ is_failed' = [is_failed EXCEPT ![r] = TRUE]
    /\ UNCHANGED <<is_completed, completed_cv, transaction_task_queue>>

(* add_replication_task: requests are submitted in order by one thread.    *)
AddReplicationTask ==
    /\ submitted + 1 \in Requests
    /\ submitted' = submitted + 1
    /\ replication_task_queue' = Append(replication_task_queue, submitted + 1)
    /\ UNCHANGED <<manager, serviceVars, services_to_ignore, requestVars, countVars, waits_for>>

(* wait_for_completion: a thread starts to wait, falls asleep while the    *)
(* request is not completed (again when it was woken for another request)  *)
(* and otherwise returns, or raises when is_failed.                        *)
Wait(a, r) ==
    /\ r <= submitted
    /\ waits_for[a] = None
    /\ waits_for' = [waits_for EXCEPT ![a] = r]
    /\ UNCHANGED <<submitted, replication_task_queue, manager, serviceVars,
                   services_to_ignore, requestVars, countVars>>

Awake(a) == waits_for[a] # None /\ ~Contains(completed_cv, a)

Sleep(a) ==
    /\ Awake(a)
    /\ ~is_completed[waits_for[a]]
    /\ completed_cv' = Append(completed_cv, a)
    /\ UNCHANGED <<submitted, replication_task_queue, manager, serviceVars, services_to_ignore,
                   is_completed, is_failed, transaction_task_queue, countVars, waits_for>>

Return(a) ==
    /\ Awake(a)
    /\ is_completed[waits_for[a]]
    /\ waits_for' = [waits_for EXCEPT ![a] = None]
    /\ UNCHANGED <<submitted, replication_task_queue, manager, serviceVars,
                   services_to_ignore, requestVars, countVars>>

(***************************************************************************)
(* __replication_manager__.                                                *)
(***************************************************************************)
Needed(r) == IF r \in Unchanged THEN 0 ELSE NumProvableReplicas[r]

ManagerTakes ==
    /\ manager.pc = "idle"
    /\ replication_task_queue # <<>>
    /\ replication_task_queue' = Tail(replication_task_queue)
    /\ LET r == Head(replication_task_queue)
           use == ReplicationSet[r] \ services_to_ignore
       IN manager' = [req |-> r,
                      pc |-> CASE Needed(r) = 0 -> "complete"
                               [] Needed(r) > Cardinality(use) -> "fail"
                               [] OTHER -> "enqueue",
                      todo |-> use]
    /\ UNCHANGED <<submitted, serviceVars, services_to_ignore, requestVars, countVars, waits_for>>

(* start_service_workers, then the put into the service's queue.           *)
ManagerEnqueues(s) ==
    /\ manager.pc = "enqueue"
    /\ s \in manager.todo
    /\ started' = started \cup {s}
    /\ worker' = IF s \in started THEN worker
                 ELSE [t \in DOMAIN worker |-> IF t[1] = s THEN Thread("connect", None, FALSE)
                                               ELSE worker[t]]
    /\ service_task_queues' = [service_task_queues EXCEPT ![s] = Append(@, manager.req)]
    /\ manager' = IF manager.todo = {s} THEN Idle ELSE [manager EXCEPT !.todo = @ \ {s}]
    /\ UNCHANGED <<submitted, replication_task_queue, services_to_ignore, requestVars,
                   countVars, waits_for>>

ManagerSetsFailed ==
    /\ manager.pc = "fail"
    /\ SetFailed(manager.req)
    /\ manager' = [manager EXCEPT !.pc = "complete"]
    /\ UNCHANGED <<submitted, replication_task_queue, serviceVars, services_to_ignore,
                   countVars, waits_for>>

ManagerCompletes ==
    /\ manager.pc = "complete"
    /\ MarkAsCompleted(manager.req)
    /\ manager' = Idle
    /\ UNCHANGED <<submitted, replication_task_queue, serviceVars, services_to_ignore,
                   is_failed, countVars, waits_for>>

(***************************************************************************)
(* __replication_worker__; t is <<service, worker>>.                       *)
(***************************************************************************)
Step(t, pc, next) ==
    /\ worker[t].pc = pc
    /\ worker' = [worker EXCEPT ![t].pc = next]

(* The connection is made when the thread starts; a thread that fails to   *)
(* connect leaves, whatever is or will be in the queue.                    *)
WorkerConnects(t) ==
    /\ \/ Step(t, "connect", "idle") /\ UNCHANGED services_to_ignore
       \/ /\ t[1] \in NoConnection
          /\ Step(t, "connect", "exited")
          /\ services_to_ignore' = services_to_ignore \cup {t[1]}
    /\ UNCHANGED <<submitted, replication_task_queue, manager, service_task_queues, started,
                   requestVars, countVars, waits_for>>

(* Mutant: the task stays in the queue while it is worked on.              *)
WorkerPeeks(t) ==
    /\ worker[t].pc = "idle"
    /\ service_task_queues[t[1]] # <<>>
    /\ worker' = [worker EXCEPT ![t] = Thread("store", Head(service_task_queues[t[1]]), FALSE)]
    /\ UNCHANGED <<submitted, replication_task_queue, manager, service_task_queues, started,
                   services_to_ignore, requestVars, countVars, waits_for>>

WorkerTakes(t) ==
    /\ worker[t].pc = "idle"
    /\ service_task_queues[t[1]] # <<>>
    /\ worker' = [worker EXCEPT ![t] = Thread("store", Head(service_task_queues[t[1]]), FALSE)]
    /\ service_task_queues' = [service_task_queues EXCEPT ![t[1]] = Tail(@)]
    /\ UNCHANGED <<submitted, replication_task_queue, manager, started, services_to_ignore,
                   requestVars, countVars, waits_for>>

(* store_blocks and the count of its outcome.  A service that gives no     *)
(* answer may have stored the blocks.                                      *)
WorkerStores(t, fail, kept) ==
    /\ worker[t].pc = "store"
    /\ fail => t[1] \in NoStore
    /\ ~fail => kept
    /\ LET r == worker[t].req IN
        /\ stored' = [stored EXCEPT ![t[1]] = IF kept THEN @ \cup {r} ELSE @]
        /\ successful_services' =
            [successful_services EXCEPT ![r] = IF fail THEN @ ELSE @ \cup {t[1]}]
        /\ unsuccessful_services' =
            [unsuccessful_services EXCEPT ![r] = IF fail THEN @ \cup {t[1]} ELSE @]
        /\ worker' = [worker EXCEPT ![t] = Thread("decide", r, fail)]
    /\ UNCHANGED <<submitted, replication_task_queue, manager, service_task_queues, started,
                   services_to_ignore, requestVars, waits_for>>

(* get_blocks raises before anything is sent: the thread ends, and neither *)
(* the failure is counted nor the service ignored.                         *)
WorkerLeaves(t) ==
    /\ worker[t].pc = "store"
    /\ worker[t].req \in NoBlocks
    /\ worker' = [worker EXCEPT ![t] = Thread("exited", None, FALSE)]
    /\ UNCHANGED <<submitted, replication_task_queue, manager, service_task_queues, started,
                   services_to_ignore, requestVars, countVars, waits_for>>

(* Mutants: the quorum is one replica short; one failure short.            *)
AlmostEnoughReplicas(r) ==
    Cardinality(successful_services[r]) + 1 >= NumProvableReplicas[r]
AlmostTooManyFailures(r) ==
    Cardinality(unsuccessful_services[r]) + 1 >
        Cardinality(ReplicationSet[r]) - NumProvableReplicas[r]

EnoughReplicas(r) == Cardinality(successful_services[r]) >= NumProvableReplicas[r]
TooManyFailures(r) ==
    Cardinality(unsuccessful_services[r]) >
        Cardinality(ReplicationSet[r]) - NumProvableReplicas[r]

(* The two sets only grow and are disjoint, so it makes no difference that *)
(* the code reads their sizes one after the other.                         *)
WorkerDecides(t) ==
    /\ Step(t, "decide", CASE EnoughReplicas(worker[t].req) -> "complete"
                           [] TooManyFailures(worker[t].req) -> "fail"
                           [] OTHER -> "finish")
    /\ UNCHANGED <<submitted, replication_task_queue, manager, service_task_queues, started,
                   services_to_ignore, requestVars, countVars, waits_for>>

WorkerSetsFailed(t) ==
    /\ Step(t, "fail", "complete")
    /\ SetFailed(worker[t].req)
    /\ UNCHANGED <<submitted, replication_task_queue, manager, service_task_queues, started,
                   services_to_ignore, countVars, waits_for>>

WorkerCompletes(t) ==
    /\ Step(t, "complete", "finish")
    /\ MarkAsCompleted(worker[t].req)
    /\ UNCHANGED <<submitted, replication_task_queue, manager, service_task_queues, started,
                   services_to_ignore, is_failed, countVars, waits_for>>

(* A thread whose task failed has the service ignored and leaves.          *)
WorkerFinishes(t) ==
    /\ worker[t].pc = "finish"
    /\ worker' = [worker EXCEPT ![t] = Thread(IF @.fail THEN "exited" ELSE "idle", None, FALSE)]
    /\ services_to_ignore' = IF worker[t].fail THEN services_to_ignore \cup {t[1]}
                                               ELSE services_to_ignore
    /\ UNCHANGED <<submitted, replication_task_queue, manager, service_task_queues, started,
                   requestVars, countVars, waits_for>>

-----------------------------------------------------------------------------
ManagerStep ==
    \/ ManagerTakes
    \/ \E s \in Services : ManagerEnqueues(s)
    \/ ManagerSetsFailed
    \/ ManagerCompletes

WorkerStep(t) ==
    \/ WorkerConnects(t)
    \/ WorkerTakes(t)
    \/ \E fail, kept \in BOOLEAN : WorkerStores(t, fail, kept)
    \/ WorkerLeaves(t)
    \/ WorkerDecides(t)
    \/ WorkerSetsFailed(t)
    \/ WorkerCompletes(t)
    \/ WorkerFinishes(t)

ThreadStep(a) == Sleep(a) \/ Return(a)

Next ==
    \/ AddReplicationTask
    \/ ManagerStep
    \/ \E t \in Services \X Workers : WorkerStep(t)
    \/ \E a \in Threads, r \in Requests : Wait(a, r)
    \/ \E a \in Threads : ThreadStep(a)

(* The threads are scheduled by the operating system, a queue's get loop   *)
(* and store_blocks do not block for ever; nothing obliges the application *)
(* to submit or to wait.                                                   *)
Fairness ==
    /\ WF_vars(ManagerStep)
    /\ \A t \in Services \X Workers : WF_vars(WorkerStep(t))
    /\ \A a \in Threads : WF_vars(ThreadStep(a))

Spec == Init /\ [][Next]_vars /\ Fairness

(***************************************************************************)
(* Properties.                                                             *)
(***************************************************************************)
TypeOK ==
    /\ submitted \in 0..Cardinality(Requests)
    /\ replication_task_queue \in Seq(Requests)
    /\ manager \in [pc : {"idle", "enqueue", "fail", "complete"},
                    req : Requests \cup {None}, todo : SUBSET Services]
    /\ service_task_queues \in [Services -> Seq(Requests)]
    /\ started \subseteq Services
    /\ worker \in [Services \X Workers ->
            [pc : {"off", "connect", "idle", "store", "decide", "complete", "fail", "finish",
                   "exited"},
             req : Requests \cup {None}, fail : BOOLEAN]]
    /\ services_to_ignore \subseteq Services
    /\ is_completed \in [Requests -> BOOLEAN]
    /\ is_failed \in [Requests -> BOOLEAN]
    /\ successful_services \in [Requests -> SUBSET Services]
    /\ unsuccessful_services \in [Requests -> SUBSET Services]
    /\ transaction_task_queue \in Seq(Requests)
    /\ stored \in [Services -> SUBSET Requests]
    /\ waits_for \in [Threads -> Requests \cup {None}]
    /\ completed_cv \in Seq(Threads)

(* A request reaches the transaction service only when num_provable_       *)
(* replicas services of its replication set hold its blocks.               *)
HandedOnIsReplicated ==
    \A r \in ToSet(transaction_task_queue) :
        Cardinality({s \in ReplicationSet[r] : r \in stored[s]}) >= Needed(r)

(* "Multiple notifications and call backs are prevented": a request is     *)
(* handed on at most once although every worker after the quorum marks it. *)
HandedOnOnce == IsInjective(transaction_task_queue)

(* A request that is failed can no longer reach its quorum, whatever the   *)
(* workers that still hold it do; so it is never handed on as well, and    *)
(* wait_for_completion cannot raise for a request that is handed on.       *)
FailureIsFinal ==
    \A r \in Requests : is_failed[r] =>
        /\ Cardinality(successful_services[r]) < NumProvableReplicas[r]
        /\ ~Contains(transaction_task_queue, r)

(* A request is counted once per service: once the service is counted for  *)
(* it, it neither waits in the service's queue nor is being stored there.  *)
CountedOncePerService ==
    \A r \in Requests, s \in Services :
        /\ s \in successful_services[r] => s \notin unsuccessful_services[r]
        /\ s \in successful_services[r] \cup unsuccessful_services[r] =>
            /\ ~Contains(service_task_queues[s], r)
            /\ \A w \in Workers : ~(worker[<<s, w>>].pc = "store" /\ worker[<<s, w>>].req = r)
=============================================================================
