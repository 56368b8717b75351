----------------------------- MODULE EnclavePool ----------------------------
(***************************************************************************)
(* The enclaves of an enclave service and the threads in them (eservice:   *)
(* enclave_queue, enclave/base, contract_worker, contract_enclave).  A     *)
(* handler thread takes an enclave out of the ready queue, has it evaluate *)
(* the request, fetches the response in a second call and puts the enclave *)
(* back.  In each enclave a worker thread keeps an interpreter ready.      *)
(* When the service stops, the handlers are done first; then each worker   *)
(* is told to stop and is waited for.                                      *)
(*                                                                         *)
(* What runs under a mutex is one action; a wait on a condition variable   *)
(* is a state from which only a signal gets the thread out.  An exception  *)
(* in a worker thread ends the whole process and is not an action.         *)
(***************************************************************************)
EXTENDS Integers, Sequences

CONSTANTS
    NumOfEnclaves,
    Requests,       \* requests, each handled by a thread
    Failing,        \* requests whose handling may meet an error
    None

ASSUME EnclavePoolAssumption ==
    /\ NumOfEnclaves \in Nat \ {0}
    /\ Failing \subseteq Requests
    /\ None \notin Requests
    /\ None \notin Int

Enclaves == 0..(NumOfEnclaves - 1)

VARIABLES
    queue,          \* EnclaveQueue: enclaves that are ready
    handler,        \* [Requests -> where the thread is]
    enclave,        \* [Requests -> the enclave it holds, or None]
    response,       \* [Requests -> the request whose response it returns]
    worker,         \* [Enclaves -> where the worker thread is]
    worker_initialized,
    shutdown_worker,
    current_state,  \* [Enclaves -> {"READY", "BUSY", "DONE"}]
    interpreter,    \* [Enclaves -> {"none", "initialized", "used", "finalized"}]
    last_result,    \* [Enclaves -> the request whose response is kept]
    main            \* the thread that stops the service

handlerVars == <<queue, handler, enclave, response>>
enclaveVars == <<worker, worker_initialized, shutdown_worker, current_state, interpreter, last_result>>
vars == <<handlerVars, enclaveVars, main>>

Init ==
    /\ queue = [i \in 1..NumOfEnclaves |-> i - 1]
    /\ handler = [r \in Requests |-> "new"]
    /\ enclave = [r \in Requests |-> None]
    /\ response = [r \in Requests |-> None]
    /\ worker = [e \in Enclaves |-> "started"]
    /\ worker_initialized = [e \in Enclaves |-> FALSE]
    /\ shutdown_worker = [e \in Enclaves |-> FALSE]
    /\ current_state = [e \in Enclaves |-> "DONE"]
    /\ interpreter = [e \in Enclaves |-> "none"]
    /\ last_result = [e \in Enclaves |-> None]
    /\ main = [pc |-> "running", at |-> 0]

Goes(r, from, to) ==
    /\ handler[r] = from
    /\ handler' = [handler EXCEPT ![r] = to]

(***************************************************************************)
(* EnclaveQueue.                                                           *)
(***************************************************************************)
RequestArrives(r) ==
    /\ main.pc = "running"
    /\ Goes(r, "new", "pop")
    /\ UNCHANGED <<queue, enclave, response, enclaveVars, main>>

(* Mutant: the enclave stays in the queue.                                 *)
Peek(r) ==
    /\ queue # <<>>
    /\ Goes(r, "pop", "call")
    /\ enclave' = [enclave EXCEPT ![r] = Head(queue)]
    /\ UNCHANGED <<queue, response, enclaveVars, main>>

Pop(r) ==
    /\ queue # <<>>
    /\ Goes(r, "pop", "call")
    /\ enclave' = [enclave EXCEPT ![r] = Head(queue)]
    /\ queue' = Tail(queue)
    /\ UNCHANGED <<response, enclaveVars, main>>

PopWaits(r) ==
    /\ queue = <<>>
    /\ Goes(r, "pop", "pop_wait")
    /\ UNCHANGED <<queue, enclave, response, enclaveVars, main>>

(* Mutant: an error leaves without giving the enclave back.                *)
PushUnlessError(r) ==
    /\ Goes(r, "push", "signal")
    /\ queue' = IF response[r] = None THEN queue ELSE Append(queue, enclave[r])
    /\ enclave' = [enclave EXCEPT ![r] = None]
    /\ UNCHANGED <<response, enclaveVars, main>>

(* Mutant: the handler forgets the enclave first.                          *)
PushNothing(r) ==
    /\ Goes(r, "push", "signal")
    /\ enclave' = [enclave EXCEPT ![r] = None]
    /\ queue' = Append(queue, enclave'[r])
    /\ UNCHANGED <<response, enclaveVars, main>>

Push(r) ==
    /\ Goes(r, "push", "signal")
    /\ queue' = Append(queue, enclave[r])
    /\ enclave' = [enclave EXCEPT ![r] = None]
    /\ UNCHANGED <<response, enclaveVars, main>>

(* Mutant: nobody is told that there is an enclave again.                  *)
NoSignal(r) ==
    /\ Goes(r, "signal", "end")
    /\ UNCHANGED <<queue, enclave, response, enclaveVars, main>>

(* The signal is given after the mutex is released.                        *)
Signal(r) ==
    /\ handler[r] = "signal"
    /\ LET waiting == {q \in Requests : handler[q] = "pop_wait"} IN
        IF waiting = {} THEN handler' = [handler EXCEPT ![r] = "end"]
        ELSE \E q \in waiting : handler' = [handler EXCEPT ![r] = "end", ![q] = "pop"]
    /\ UNCHANGED <<queue, enclave, response, enclaveVars, main>>

(***************************************************************************)
(* ContractWorker.                                                         *)
(***************************************************************************)

(* The worker thread after done_cond_ was signalled.                       *)
SignalDone(e) == [worker EXCEPT ![e] = IF @ = "done_wait" THEN "wait" ELSE @]

MarkInterpreterDone(e) ==
    /\ current_state' = [current_state EXCEPT ![e] = "DONE"]
    /\ worker' = SignalDone(e)

(* Mutant: the state is not checked.                                       *)
GetAnyInterpreter(r) ==
    /\ handler[r] = "get"
    /\ handler' = [handler EXCEPT ![r] = "run"]
    /\ current_state' = [current_state EXCEPT ![enclave[r]] = "BUSY"]
    /\ UNCHANGED <<queue, enclave, response, worker, worker_initialized, shutdown_worker,
                   interpreter, last_result, main>>

GetInitializedInterpreter(r) ==
    /\ handler[r] = "get"
    /\ IF current_state[enclave[r]] = "READY"
       THEN /\ handler' = [handler EXCEPT ![r] = "run"]
            /\ current_state' = [current_state EXCEPT ![enclave[r]] = "BUSY"]
       ELSE /\ handler' = [handler EXCEPT ![r] = "ready_wait"]
            /\ UNCHANGED current_state
    /\ UNCHANGED <<queue, enclave, response, worker, worker_initialized, shutdown_worker,
                   interpreter, last_result, main>>

(***************************************************************************)
(* ecall_HandleContractRequest, ecall_InitializeContractState,             *)
(* ecall_GetSerializedResponse.                                            *)
(***************************************************************************)

(* The request reaches the interpreter, unless it cannot be unpacked, or   *)
(* there is no worker yet.  CallSgx tries again while the device is busy,  *)
(* which changes nothing here.  It also reloads an enclave that was lost   *)
(* to a change of the power state, without the worker thread and the last  *)
(* result: that is outside the model, no enclave is lost here.           *)
Call(r) ==
    /\ \/ Goes(r, "call", "get") /\ worker_initialized[enclave[r]]
       \/ /\ Goes(r, "call", "push")
          /\ worker_initialized[enclave[r]] => r \in Failing
    /\ UNCHANGED <<queue, enclave, response, enclaveVars, main>>

(* The contract is run, well or not, and the interpreter released.         *)
Run(r) ==
    /\ Goes(r, "run", "save")
    /\ MarkInterpreterDone(enclave[r])
    /\ interpreter' = [interpreter EXCEPT ![enclave[r]] = "used"]
    /\ UNCHANGED <<queue, enclave, response, worker_initialized, shutdown_worker, last_result, main>>

(* last_result, unless the response cannot be encrypted.                   *)
Save(r) ==
    /\ \/ /\ Goes(r, "save", "fetch")
          /\ last_result' = [last_result EXCEPT ![enclave[r]] = r]
       \/ /\ r \in Failing
          /\ Goes(r, "save", "push")
          /\ UNCHANGED last_result
    /\ UNCHANGED <<queue, enclave, response, worker, worker_initialized, shutdown_worker,
                   current_state, interpreter, main>>

(* The second call into the enclave; when it fails there is no response.   *)
Fetch(r) ==
    /\ Goes(r, "fetch", "push")
    /\ \/ response' = [response EXCEPT ![r] = last_result[enclave[r]]]
       \/ r \in Failing /\ UNCHANGED response
    /\ UNCHANGED <<queue, enclave, enclaveVars, main>>

(***************************************************************************)
(* ecall_CreateContractWorker.                                             *)
(***************************************************************************)
CreateContractWorker(e) ==
    /\ worker[e] = "started"
    /\ worker' = [worker EXCEPT ![e] = "loop"]
    /\ worker_initialized' = [worker_initialized EXCEPT ![e] = TRUE]
    /\ UNCHANGED <<handlerVars, shutdown_worker, current_state, interpreter, last_result, main>>

WorkerLoops(e) ==
    /\ worker[e] = "loop"
    /\ worker' = [worker EXCEPT ![e] = IF shutdown_worker[e] THEN "exited" ELSE "init"]
    /\ UNCHANGED <<handlerVars, worker_initialized, shutdown_worker, current_state, interpreter,
                   last_result, main>>

(* The handler after ready_cond_ was signalled.                            *)
SignalReady(e) ==
    [r \in Requests |-> IF handler[r] = "ready_wait" /\ enclave[r] = e THEN "get" ELSE handler[r]]

(* Initialize does not clear what a contract left in the interpreter, only *)
(* Finalize does.                                                          *)
InitializeInterpreter(e) ==
    /\ worker[e] = "init"
    /\ worker' = [worker EXCEPT ![e] = "wait"]
    /\ IF current_state[e] = "DONE"
       THEN /\ interpreter' = [interpreter EXCEPT ![e] =
                                IF @ = "used" THEN "used" ELSE "initialized"]
            /\ current_state' = [current_state EXCEPT ![e] = "READY"]
            /\ handler' = SignalReady(e)
       ELSE UNCHANGED <<interpreter, current_state, handler>>
    /\ UNCHANGED <<queue, enclave, response, worker_initialized, shutdown_worker, last_result, main>>

(* Mutant: the interpreter is not finalized after a run.                   *)
WaitOnly(e) ==
    /\ worker[e] = "wait"
    /\ worker' = [worker EXCEPT ![e] = IF current_state[e] = "DONE" THEN "loop" ELSE "done_wait"]
    /\ UNCHANGED <<handlerVars, worker_initialized, shutdown_worker, current_state, interpreter,
                   last_result, main>>

WaitForCompletion(e) ==
    /\ worker[e] = "wait"
    /\ IF current_state[e] = "DONE"
       THEN /\ worker' = [worker EXCEPT ![e] = "loop"]
            /\ interpreter' = [interpreter EXCEPT ![e] = "finalized"]
       ELSE /\ worker' = [worker EXCEPT ![e] = "done_wait"]
            /\ UNCHANGED interpreter
    /\ UNCHANGED <<handlerVars, worker_initialized, shutdown_worker, current_state, last_result, main>>

(***************************************************************************)
(* Terminate: for each enclave ecall_ShutdownContractWorker, pthread_join. *)
(* The service's thread pool has been stopped before.                      *)
(***************************************************************************)
Terminate ==
    /\ main.pc = "running"
    /\ \A r \in Requests : handler[r] \in {"new", "end"}
    /\ main' = [main EXCEPT !.pc = "shutdown"]
    /\ UNCHANGED <<handlerVars, enclaveVars>>

ShutdownWorker ==
    /\ main.pc = "shutdown"
    /\ IF worker_initialized[main.at]
       THEN /\ shutdown_worker' = [shutdown_worker EXCEPT ![main.at] = TRUE]
            /\ main' = [main EXCEPT !.pc = "mark"]
       ELSE /\ main' = [main EXCEPT !.pc = "join"]
            /\ UNCHANGED shutdown_worker
    /\ UNCHANGED <<handlerVars, worker, worker_initialized, current_state, interpreter, last_result>>

ShutdownMarks ==
    /\ main.pc = "mark"
    /\ MarkInterpreterDone(main.at)
    /\ main' = [main EXCEPT !.pc = "join"]
    /\ UNCHANGED <<handlerVars, worker_initialized, shutdown_worker, interpreter, last_result>>

Join ==
    /\ main.pc = "join"
    /\ worker[main.at] = "exited"
    /\ main' = IF main.at + 1 \in Enclaves
               THEN [pc |-> "shutdown", at |-> main.at + 1]
               ELSE [pc |-> "stopped", at |-> main.at]
    /\ UNCHANGED <<handlerVars, enclaveVars>>

-----------------------------------------------------------------------------
HandlerStep(r) ==
    \/ Pop(r) \/ PopWaits(r) \/ Call(r) \/ GetInitializedInterpreter(r) \/ Run(r)
    \/ Save(r) \/ Fetch(r) \/ Push(r) \/ Signal(r)

WorkerStep(e) ==
    \/ CreateContractWorker(e) \/ WorkerLoops(e) \/ InitializeInterpreter(e) \/ WaitForCompletion(e)

ShutdownStep == ShutdownWorker \/ ShutdownMarks \/ Join

Next ==
    \/ \E r \in Requests : RequestArrives(r) \/ HandlerStep(r)
    \/ \E e \in Enclaves : WorkerStep(e)
    \/ Terminate
    \/ ShutdownStep

Spec == Init /\ [][Next]_vars

(* Every thread that can run does, and a contract's run is assumed to end. *)
(* Requests need not come, nor need the service be stopped.                *)
FairSpec ==
    /\ Spec
    /\ \A r \in Requests : WF_vars(HandlerStep(r))
    /\ \A e \in Enclaves : WF_vars(WorkerStep(e))
    /\ WF_vars(ShutdownStep)

-----------------------------------------------------------------------------
HandlerStates == {"new", "pop", "pop_wait", "call", "get", "ready_wait", "run", "save", "fetch",
                  "push", "signal", "end"}
WorkerStates == {"started", "loop", "init", "wait", "done_wait", "exited"}

(* Types: the queue holds indices of enclaves, threads are at one of their *)
(* steps, a response is that of some request.                              *)
TypeOK ==
    /\ queue \in Seq(Enclaves)
    /\ handler \in [Requests -> HandlerStates]
    /\ enclave \in [Requests -> Enclaves \cup {None}]
    /\ response \in [Requests -> Requests \cup {None}]
    /\ worker \in [Enclaves -> WorkerStates]
    /\ worker_initialized \in [Enclaves -> BOOLEAN]
    /\ shutdown_worker \in [Enclaves -> BOOLEAN]
    /\ current_state \in [Enclaves -> {"READY", "BUSY", "DONE"}]
    /\ interpreter \in [Enclaves -> {"none", "initialized", "used", "finalized"}]
    /\ last_result \in [Enclaves -> Requests \cup {None}]
    /\ main \in [pc : {"running", "shutdown", "mark", "join", "stopped"}, at : Enclaves]

Distinct(q) == \A i, j \in 1..Len(q) : q[i] = q[j] => i = j
Elements(q) == {q[i] : i \in 1..Len(q)}

(* An enclave is in the queue once or in the hands of one handler, never   *)
(* both and never neither: errors included, each enclave taken by          *)
(* ReadyEnclave comes back (enclave_queue.cpp).                            *)
EnclavesKept ==
    /\ Distinct(queue)
    /\ \A r \in Requests : enclave[r] \notin Elements(queue)
    /\ \A q, r \in Requests : enclave[q] = enclave[r] /\ enclave[q] # None => q = r
    /\ \A e \in Enclaves : e \in Elements(queue) \/ \E r \in Requests : enclave[r] = e

(* A contract runs in an interpreter that was finalized and initialized    *)
(* after the last contract's run, and nobody else runs in it or finalizes  *)
(* it meanwhile (contract_worker.cpp).                                     *)
InterpreterIsMine ==
    \A r \in Requests : handler[r] = "run" =>
        /\ interpreter[enclave[r]] = "initialized"
        /\ current_state[enclave[r]] = "BUSY"
        /\ \A q \in Requests \ {r} : handler[q] = "run" => enclave[q] # enclave[r]

(* The response a handler fetches with its second call into the enclave is *)
(* that of its own request (last_result, contract_enclave.cpp).            *)
OwnResponse == \A r \in Requests : response[r] \in {None, r}

(* A request that arrived is answered: no wake-up is lost, neither on the  *)
(* queue nor on the interpreter (enclave_queue.cpp, contract_worker.cpp).  *)
EveryRequestEnds == \A r \in Requests : handler[r] = "pop" ~> handler[r] = "end"
=============================================================================
