-------------------------- MODULE EnclavePoolProofs -------------------------
(***************************************************************************)
(* EnclavePool is correct for every number of enclaves and every set of    *)
(* requests: no enclave is lost or shared, a contract has the interpreter  *)
(* for itself, and a handler returns the response to its own request.      *)
(***************************************************************************)
EXTENDS EnclavePool, TLAPS

(* The steps at which a handler has an enclave.                            *)
Holding == {"call", "get", "ready_wait", "run", "save", "fetch", "push"}

(* An interpreter that may be in use is watched by the worker.             *)
Watched(e) == interpreter[e] = "initialized" /\ worker[e] \in {"wait", "done_wait"}

Held == \A r \in Requests : handler[r] \in Holding <=> enclave[r] # None
WatchedUnlessDone == \A e \in Enclaves : current_state[e] = "DONE" \/ Watched(e)
CleanBeforeUse ==
    \A e \in Enclaves : worker[e] \in {"started", "loop", "init"} => interpreter[e] # "used"
BusyWhenRun == \A r \in Requests : handler[r] = "run" => current_state[enclave[r]] = "BUSY"
SavedIsOwn == \A r \in Requests : handler[r] = "fetch" => last_result[enclave[r]] = r
DrainedAtShutdown ==
    main.pc # "running" => \A r \in Requests : handler[r] \in {"new", "end"}

(* The inductive invariant.  An interpreter is used only under the         *)
(* worker's watch, and the response in an enclave is that of the handler   *)
(* about to fetch it, because the enclave is in nobody else's hands.       *)
IInv ==
    /\ TypeOK
    /\ EnclavesKept
    /\ Held
    /\ WatchedUnlessDone
    /\ CleanBeforeUse
    /\ BusyWhenRun
    /\ SavedIsOwn
    /\ OwnResponse
    /\ DrainedAtShutdown

(* Taking the first element out of a queue without repetitions             *)
(* (EnclaveQueue::pop).                                                    *)
LEMMA PopElements ==
    ASSUME NEW S, NEW q \in Seq(S), q # <<>>, Distinct(q)
    PROVE  /\ Head(q) \in S
           /\ Tail(q) \in Seq(S)
           /\ Head(q) \in Elements(q)
           /\ Elements(Tail(q)) = Elements(q) \ {Head(q)}
           /\ Distinct(Tail(q))
<1>1. Len(q) \in Nat \ {0} /\ Head(q) = q[1] /\ Len(Tail(q)) = Len(q) - 1
  OBVIOUS
<1>2. \A i \in 1..(Len(q) - 1) : Tail(q)[i] = q[i + 1]
  OBVIOUS
<1>3. Head(q) \in S /\ Tail(q) \in Seq(S) /\ Head(q) \in Elements(q)
  BY <1>1 DEF Elements
<1>4. Distinct(Tail(q))
  BY <1>1, <1>2 DEF Distinct
<1>5. ASSUME NEW x \in Elements(Tail(q)) PROVE x \in Elements(q) \ {Head(q)}
  <2>1. PICK i \in 1..(Len(q) - 1) : x = q[i + 1]
    BY <1>1, <1>2 DEF Elements
  <2>2. i + 1 \in 1..Len(q) /\ i + 1 # 1 /\ 1 \in 1..Len(q)
    BY <1>1
  <2> QED BY <1>1, <2>1, <2>2 DEF Elements, Distinct
<1>6. ASSUME NEW x \in Elements(q) \ {Head(q)} PROVE x \in Elements(Tail(q))
  <2>1. PICK i \in 1..Len(q) : x = q[i]
    BY DEF Elements
  <2>2. i # 1
    BY <1>1, <2>1
  <2>3. i - 1 \in 1..(Len(q) - 1) /\ (i - 1) + 1 = i
    BY <1>1, <2>2
  <2>4. Tail(q)[i - 1] = x
    BY <1>2, <2>1, <2>3
  <2> QED BY <1>1, <2>3, <2>4 DEF Elements
<1> QED BY <1>3, <1>4, <1>5, <1>6

(* Adding an element that is not in the queue (EnclaveQueue::push).        *)
LEMMA PushElements ==
    ASSUME NEW S, NEW q \in Seq(S), NEW e \in S, e \notin Elements(q), Distinct(q)
    PROVE  /\ Append(q, e) \in Seq(S)
           /\ Elements(Append(q, e)) = Elements(q) \cup {e}
           /\ Distinct(Append(q, e))
<1>1. /\ Len(q) \in Nat
      /\ Append(q, e) \in Seq(S)
      /\ Len(Append(q, e)) = Len(q) + 1
      /\ \A i \in 1..Len(q) : Append(q, e)[i] = q[i]
      /\ Append(q, e)[Len(q) + 1] = e
  OBVIOUS
<1>2. 1..(Len(q) + 1) = 1..Len(q) \cup {Len(q) + 1}
  BY <1>1
<1>3. Elements(Append(q, e)) = Elements(q) \cup {e}
  <2>1. \A x \in Elements(Append(q, e)) : x \in Elements(q) \cup {e}
    BY <1>1, <1>2 DEF Elements
  <2>2. \A x \in Elements(q) \cup {e} : x \in Elements(Append(q, e))
    BY <1>1, <1>2 DEF Elements
  <2> QED BY <2>1, <2>2
<1>4. \A i \in 1..Len(q) : q[i] # e
  BY DEF Elements
<1>5. Distinct(Append(q, e))
  BY <1>1, <1>2, <1>4 DEF Distinct
<1> QED BY <1>1, <1>3, <1>5

(* The queue and the handlers' enclaves decide whether enclaves are kept.  *)
LEMMA KeptUnchanged ==
    ASSUME EnclavesKept, UNCHANGED <<queue, enclave>>
    PROVE  EnclavesKept'
BY DEF EnclavesKept, Distinct, Elements

(* The invariant holds when the enclaves have been created                 *)
(* (base::Initialize).                                                     *)
LEMMA InitInv == Init => IInv
<1> SUFFICES ASSUME Init PROVE IInv
  OBVIOUS
<1>1. NumOfEnclaves \in Nat \ {0} /\ Enclaves = 0..(NumOfEnclaves - 1)
  BY EnclavePoolAssumption DEF Enclaves
<1>2. /\ queue \in Seq(Enclaves) /\ Len(queue) = NumOfEnclaves
      /\ \A i \in 1..NumOfEnclaves : queue[i] = i - 1
  BY <1>1 DEF Init
<1>3. TypeOK
  BY <1>1, <1>2 DEF Init, TypeOK, HandlerStates, WorkerStates
<1>4. Distinct(queue)
  BY <1>1, <1>2 DEF Distinct
<1>5. Elements(queue) = Enclaves
  <2>1. \A e \in Enclaves : e + 1 \in 1..NumOfEnclaves /\ queue[e + 1] = e
    BY <1>1, <1>2
  <2>2. \A i \in 1..NumOfEnclaves : queue[i] \in Enclaves
    BY <1>1, <1>2
  <2> QED BY <1>2, <2>1, <2>2 DEF Elements
<1>6. None \notin Enclaves
  BY <1>1, EnclavePoolAssumption
<1>7. EnclavesKept
  BY <1>4, <1>5, <1>6 DEF EnclavesKept, Init
<1> QED
  BY <1>3, <1>7
  DEF IInv, Init, OwnResponse, Held, Holding, WatchedUnlessDone, CleanBeforeUse, BusyWhenRun,
      SavedIsOwn,
      DrainedAtShutdown

(* Each step of a handler, a worker or the thread that stops the service   *)
(* keeps the invariant.                                                    *)
LEMMA StepInv == IInv /\ [Next]_vars => IInv'
<1> SUFFICES ASSUME IInv, [Next]_vars PROVE IInv'
  OBVIOUS
<1> USE DEF IInv
<1>0. None \notin Enclaves /\ None \notin Requests
  BY EnclavePoolAssumption DEF Enclaves
<1>1. ASSUME NEW r \in Requests, RequestArrives(r) PROVE IInv'
  <2> USE DEF RequestArrives, Goes, handlerVars, enclaveVars
  <2>1. TypeOK'
    BY <1>0, <1>1 DEF TypeOK, HandlerStates, WorkerStates
  <2>2. EnclavesKept'
    BY <1>1, KeptUnchanged
  <2>3. Held'
    BY <1>0, <1>1 DEF TypeOK, Held, Holding
  <2>4. WatchedUnlessDone' /\ CleanBeforeUse'
    BY <1>1 DEF TypeOK, WatchedUnlessDone, Watched, CleanBeforeUse
  <2>5. BusyWhenRun' /\ SavedIsOwn'
    BY <1>0, <1>1 DEF TypeOK, BusyWhenRun, SavedIsOwn, DrainedAtShutdown, Held, Holding, EnclavesKept
  <2>6. OwnResponse' /\ DrainedAtShutdown'
    BY <1>1 DEF TypeOK, OwnResponse, SavedIsOwn, DrainedAtShutdown
  <2> QED BY <2>1, <2>2, <2>3, <2>4, <2>5, <2>6
<1>2. ASSUME NEW r \in Requests, Pop(r) PROVE IInv'
  <2> USE DEF Pop, Goes, handlerVars, enclaveVars
  <2>1. TypeOK'
    BY <1>0, <1>2 DEF TypeOK, HandlerStates, WorkerStates
  <2>2. EnclavesKept'
    <3>1. /\ Head(queue) \in Elements(queue)
          /\ Elements(Tail(queue)) = Elements(queue) \ {Head(queue)}
          /\ Distinct(Tail(queue))
      BY <1>2, PopElements DEF TypeOK, EnclavesKept
    <3>2. queue' = Tail(queue) /\ enclave' = [enclave EXCEPT ![r] = Head(queue)] /\ enclave[r] = None
      BY <1>2 DEF Held, Holding
    <3>3. Head(queue) # None /\ Head(queue) \in Enclaves
      BY <1>0, <1>2, PopElements DEF TypeOK, EnclavesKept
    <3>4. \A q \in Requests : enclave[q] # Head(queue)
      BY <3>1 DEF EnclavesKept
    <3>5. None \notin Elements(queue)
      BY <3>2 DEF EnclavesKept
    <3>6. \A q \in Requests : enclave'[q] = IF q = r THEN Head(queue) ELSE enclave[q]
      BY <3>2 DEF TypeOK
    <3>7. (\A q \in Requests : enclave[q] \notin Elements(queue))'
      <4>1. Elements(queue)' = Elements(Tail(queue))
        BY <3>2 DEF Elements
      <4> QED BY <3>1, <3>6, <4>1 DEF EnclavesKept
    <3>8. (\A p, q \in Requests : enclave[p] = enclave[q] /\ enclave[p] # None => p = q)'
      BY <3>4, <3>6 DEF EnclavesKept
    <3>9. (\A e \in Enclaves : e \in Elements(queue) \/ \E q \in Requests : enclave[q] = e)'
      <4>1. Elements(queue)' = Elements(queue) \ {Head(queue)}
        BY <3>1, <3>2 DEF Elements
      <4>2. ASSUME NEW e \in Enclaves, NEW q \in Requests, enclave[q] = e PROVE enclave'[q] = e
        BY <1>0, <3>2, <3>6, <4>2
      <4> QED BY <3>6, <4>1, <4>2 DEF EnclavesKept
    <3> QED BY <3>1, <3>2, <3>7, <3>8, <3>9 DEF EnclavesKept, Distinct
  <2>3. Held'
    BY <1>0, <1>2 DEF TypeOK, Held, Holding
  <2>4. WatchedUnlessDone' /\ CleanBeforeUse'
    BY <1>2 DEF TypeOK, WatchedUnlessDone, Watched, CleanBeforeUse
  <2>5. BusyWhenRun' /\ SavedIsOwn'
    BY <1>0, <1>2 DEF TypeOK, BusyWhenRun, SavedIsOwn, DrainedAtShutdown, Held, Holding, EnclavesKept
  <2>6. OwnResponse' /\ DrainedAtShutdown'
    BY <1>2 DEF TypeOK, OwnResponse, SavedIsOwn, DrainedAtShutdown
  <2> QED BY <2>1, <2>2, <2>3, <2>4, <2>5, <2>6
<1>3. ASSUME NEW r \in Requests, PopWaits(r) PROVE IInv'
  <2> USE DEF PopWaits, Goes, handlerVars, enclaveVars
  <2>1. TypeOK'
    BY <1>0, <1>3 DEF TypeOK, HandlerStates, WorkerStates
  <2>2. EnclavesKept'
    BY <1>3, KeptUnchanged
  <2>3. Held'
    BY <1>0, <1>3 DEF TypeOK, Held, Holding
  <2>4. WatchedUnlessDone' /\ CleanBeforeUse'
    BY <1>3 DEF TypeOK, WatchedUnlessDone, Watched, CleanBeforeUse
  <2>5. BusyWhenRun' /\ SavedIsOwn'
    BY <1>0, <1>3 DEF TypeOK, BusyWhenRun, SavedIsOwn, DrainedAtShutdown, Held, Holding, EnclavesKept
  <2>6. OwnResponse' /\ DrainedAtShutdown'
    BY <1>3 DEF TypeOK, OwnResponse, SavedIsOwn, DrainedAtShutdown
  <2> QED BY <2>1, <2>2, <2>3, <2>4, <2>5, <2>6
<1>4. ASSUME NEW r \in Requests, Call(r) PROVE IInv'
  <2> USE DEF Call, Goes, handlerVars, enclaveVars
  <2>1. TypeOK'
    BY <1>0, <1>4 DEF TypeOK, HandlerStates, WorkerStates
  <2>2. EnclavesKept'
    BY <1>4, KeptUnchanged
  <2>3. Held'
    BY <1>0, <1>4 DEF TypeOK, Held, Holding
  <2>4. WatchedUnlessDone' /\ CleanBeforeUse'
    BY <1>4 DEF TypeOK, WatchedUnlessDone, Watched, CleanBeforeUse
  <2>5. BusyWhenRun' /\ SavedIsOwn'
    BY <1>0, <1>4 DEF TypeOK, BusyWhenRun, SavedIsOwn, DrainedAtShutdown, Held, Holding, EnclavesKept
  <2>6. OwnResponse' /\ DrainedAtShutdown'
    BY <1>4 DEF TypeOK, OwnResponse, SavedIsOwn, DrainedAtShutdown
  <2> QED BY <2>1, <2>2, <2>3, <2>4, <2>5, <2>6
<1>5. ASSUME NEW r \in Requests, GetInitializedInterpreter(r) PROVE IInv'
  <2> USE DEF GetInitializedInterpreter, handlerVars, enclaveVars
  <2>1. TypeOK'
    BY <1>0, <1>5 DEF TypeOK, HandlerStates, WorkerStates
  <2>2. EnclavesKept'
    BY <1>5, KeptUnchanged
  <2>3. Held'
    <3>1. \A q \in Requests : handler'[q] = handler[q] \/ (q = r /\ handler'[q] \in {"run", "ready_wait"})
      BY <1>5 DEF TypeOK
    <3> QED BY <1>5, <3>1 DEF Held, Holding
  <2>4. WatchedUnlessDone' /\ CleanBeforeUse'
    BY <1>5 DEF TypeOK, WatchedUnlessDone, Watched, CleanBeforeUse
  <2>5. BusyWhenRun' /\ SavedIsOwn'
    BY <1>0, <1>5 DEF TypeOK, BusyWhenRun, SavedIsOwn, DrainedAtShutdown, Held, Holding, EnclavesKept
  <2>6. OwnResponse' /\ DrainedAtShutdown'
    BY <1>5 DEF TypeOK, OwnResponse, SavedIsOwn, DrainedAtShutdown
  <2> QED BY <2>1, <2>2, <2>3, <2>4, <2>5, <2>6
<1>6. ASSUME NEW r \in Requests, Run(r) PROVE IInv'
  <2> USE DEF Run, MarkInterpreterDone, SignalDone, Goes, handlerVars, enclaveVars
  <2>1. TypeOK'
    <3>1. worker' \in [Enclaves -> WorkerStates] /\ handler' \in [Requests -> HandlerStates]
      BY <1>6 DEF TypeOK, HandlerStates, WorkerStates
    <3> QED BY <1>6, <3>1 DEF TypeOK
  <2>2. EnclavesKept'
    BY <1>6, KeptUnchanged
  <2>3. Held'
    BY <1>0, <1>6 DEF TypeOK, Held, Holding
  <2>w. enclave[r] \in Enclaves /\ worker[enclave[r]] \in {"wait", "done_wait"}
    BY <1>6 DEF TypeOK, Held, Holding, BusyWhenRun, WatchedUnlessDone, Watched
  <2>4. WatchedUnlessDone' /\ CleanBeforeUse'
    <3>1. \A e \in Enclaves \ {enclave[r]} :
            /\ current_state'[e] = current_state[e]
            /\ worker'[e] = worker[e]
            /\ interpreter'[e] = interpreter[e]
      BY <1>6, <2>w DEF TypeOK
    <3>2. current_state'[enclave[r]] = "DONE" /\ worker'[enclave[r]] = "wait"
      BY <1>6, <2>w DEF TypeOK
    <3> QED BY <3>1, <3>2 DEF WatchedUnlessDone, Watched, CleanBeforeUse
  <2>5. BusyWhenRun' /\ SavedIsOwn'
    BY <1>0, <1>6 DEF TypeOK, BusyWhenRun, SavedIsOwn, DrainedAtShutdown, Held, Holding, EnclavesKept
  <2>6. OwnResponse' /\ DrainedAtShutdown'
    BY <1>6 DEF TypeOK, OwnResponse, SavedIsOwn, DrainedAtShutdown
  <2> QED BY <2>1, <2>2, <2>3, <2>4, <2>5, <2>6
<1>7. ASSUME NEW r \in Requests, Save(r) PROVE IInv'
  <2> USE DEF Save, Goes, handlerVars, enclaveVars
  <2>0. enclave[r] \in Enclaves
    BY <1>7 DEF TypeOK, Held, Holding
  <2>1. TypeOK'
    BY <1>7, <2>0 DEF TypeOK, HandlerStates
  <2>2. EnclavesKept'
    BY <1>7, KeptUnchanged
  <2>3. Held'
    BY <1>0, <1>7 DEF TypeOK, Held, Holding
  <2>4. WatchedUnlessDone' /\ CleanBeforeUse'
    BY <1>7 DEF TypeOK, WatchedUnlessDone, Watched, CleanBeforeUse
  <2>5. BusyWhenRun' /\ SavedIsOwn'
    BY <1>0, <1>7 DEF TypeOK, BusyWhenRun, SavedIsOwn, DrainedAtShutdown, Held, Holding, EnclavesKept
  <2>6. OwnResponse' /\ DrainedAtShutdown'
    BY <1>7 DEF TypeOK, OwnResponse, SavedIsOwn, DrainedAtShutdown
  <2> QED BY <2>1, <2>2, <2>3, <2>4, <2>5, <2>6
<1>8. ASSUME NEW r \in Requests, Fetch(r) PROVE IInv'
  <2> USE DEF Fetch, Goes, handlerVars, enclaveVars
  <2>0. enclave[r] \in Enclaves
    BY <1>8 DEF TypeOK, Held, Holding
  <2>1. TypeOK'
    BY <1>8, <2>0 DEF TypeOK, HandlerStates
  <2>2. EnclavesKept'
    BY <1>8, KeptUnchanged
  <2>3. Held'
    BY <1>0, <1>8 DEF TypeOK, Held, Holding
  <2>4. WatchedUnlessDone' /\ CleanBeforeUse'
    BY <1>8 DEF TypeOK, WatchedUnlessDone, Watched, CleanBeforeUse
  <2>5. BusyWhenRun' /\ SavedIsOwn'
    BY <1>0, <1>8 DEF TypeOK, BusyWhenRun, SavedIsOwn, DrainedAtShutdown, Held, Holding, EnclavesKept
  <2>6. OwnResponse' /\ DrainedAtShutdown'
    BY <1>8 DEF TypeOK, OwnResponse, SavedIsOwn, DrainedAtShutdown
  <2> QED BY <2>1, <2>2, <2>3, <2>4, <2>5, <2>6
<1>9. ASSUME NEW r \in Requests, Push(r) PROVE IInv'
  <2> USE DEF Push, Goes, handlerVars, enclaveVars
  <2>0. enclave[r] \in Enclaves /\ enclave[r] # None
    BY <1>9 DEF Held, Holding, TypeOK
  <2>p. /\ Append(queue, enclave[r]) \in Seq(Enclaves)
        /\ Elements(Append(queue, enclave[r])) = Elements(queue) \cup {enclave[r]}
        /\ Distinct(Append(queue, enclave[r]))
    BY <2>0, PushElements DEF TypeOK, EnclavesKept
  <2>1. TypeOK'
    BY <1>9, <2>p DEF TypeOK, HandlerStates
  <2>2. EnclavesKept'
    <3>1. queue' = Append(queue, enclave[r]) /\ enclave' = [enclave EXCEPT ![r] = None]
      BY <1>9
    <3>2. None \notin Elements(queue)
      <4>1. \A i \in 1..Len(queue) : queue[i] \in Enclaves
        BY DEF TypeOK
      <4> QED BY <1>0, <4>1 DEF Elements
    <3> QED BY <2>0, <2>p, <3>1, <3>2 DEF EnclavesKept, TypeOK
  <2>3. Held'
    BY <1>0, <1>9 DEF TypeOK, Held, Holding
  <2>4. WatchedUnlessDone' /\ CleanBeforeUse'
    BY <1>9 DEF TypeOK, WatchedUnlessDone, Watched, CleanBeforeUse
  <2>5. BusyWhenRun' /\ SavedIsOwn'
    BY <1>0, <1>9 DEF TypeOK, BusyWhenRun, SavedIsOwn, DrainedAtShutdown, Held, Holding, EnclavesKept
  <2>6. OwnResponse' /\ DrainedAtShutdown'
    BY <1>9 DEF TypeOK, OwnResponse, SavedIsOwn, DrainedAtShutdown
  <2> QED BY <2>1, <2>2, <2>3, <2>4, <2>5, <2>6
<1>10. ASSUME NEW r \in Requests, Signal(r) PROVE IInv'
  <2> USE DEF Signal, handlerVars, enclaveVars
  <2>0. \A q \in Requests : \/ handler'[q] = handler[q]
                           \/ (handler'[q] = "end" /\ handler[q] = "signal")
                           \/ (handler'[q] = "pop" /\ handler[q] = "pop_wait")
    <3>1. CASE handler' = [handler EXCEPT ![r] = "end"]
      BY <1>10, <3>1 DEF TypeOK
    <3>2. ASSUME NEW p \in Requests, handler[p] = "pop_wait",
                 handler' = [handler EXCEPT ![r] = "end", ![p] = "pop"]
          PROVE  \A q \in Requests : handler'[q] = IF q = p THEN "pop" ELSE IF q = r THEN "end"
                                                                           ELSE handler[q]
      BY <3>2 DEF TypeOK
    <3> QED BY <1>10, <3>1, <3>2
  <2>1. TypeOK'
    BY <1>10 DEF TypeOK, HandlerStates
  <2>2. EnclavesKept'
    BY <1>10, KeptUnchanged
  <2>3. Held'
    BY <1>10, <2>0 DEF Held, Holding
  <2>4. WatchedUnlessDone' /\ CleanBeforeUse'
    BY <1>10 DEF TypeOK, WatchedUnlessDone, Watched, CleanBeforeUse
  <2>5. BusyWhenRun' /\ SavedIsOwn'
    BY <1>0, <1>10 DEF TypeOK, BusyWhenRun, SavedIsOwn, DrainedAtShutdown, Held, Holding, EnclavesKept
  <2>6. OwnResponse' /\ DrainedAtShutdown'
    BY <1>10 DEF TypeOK, OwnResponse, SavedIsOwn, DrainedAtShutdown
  <2> QED BY <2>1, <2>2, <2>3, <2>4, <2>5, <2>6
<1>11. ASSUME NEW e \in Enclaves, CreateContractWorker(e) PROVE IInv'
  <2> USE DEF CreateContractWorker, handlerVars, enclaveVars
  <2>1. TypeOK'
    BY <1>0, <1>11 DEF TypeOK, HandlerStates, WorkerStates
  <2>2. EnclavesKept'
    BY <1>11, KeptUnchanged
  <2>3. Held'
    BY <1>0, <1>11 DEF TypeOK, Held, Holding
  <2>4. WatchedUnlessDone' /\ CleanBeforeUse'
    BY <1>11 DEF TypeOK, WatchedUnlessDone, Watched, CleanBeforeUse
  <2>5. BusyWhenRun' /\ SavedIsOwn'
    BY <1>0, <1>11 DEF TypeOK, BusyWhenRun, SavedIsOwn, DrainedAtShutdown, Held, Holding, EnclavesKept
  <2>6. OwnResponse' /\ DrainedAtShutdown'
    BY <1>11 DEF TypeOK, OwnResponse, SavedIsOwn, DrainedAtShutdown
  <2> QED BY <2>1, <2>2, <2>3, <2>4, <2>5, <2>6
<1>12. ASSUME NEW e \in Enclaves, WorkerLoops(e) PROVE IInv'
  <2> USE DEF WorkerLoops, handlerVars, enclaveVars
  <2>1. TypeOK'
    BY <1>0, <1>12 DEF TypeOK, HandlerStates, WorkerStates
  <2>2. EnclavesKept'
    BY <1>12, KeptUnchanged
  <2>3. Held'
    BY <1>0, <1>12 DEF TypeOK, Held, Holding
  <2>4. WatchedUnlessDone' /\ CleanBeforeUse'
    BY <1>12 DEF TypeOK, WatchedUnlessDone, Watched, CleanBeforeUse
  <2>5. BusyWhenRun' /\ SavedIsOwn'
    BY <1>0, <1>12 DEF TypeOK, BusyWhenRun, SavedIsOwn, DrainedAtShutdown, Held, Holding, EnclavesKept
  <2>6. OwnResponse' /\ DrainedAtShutdown'
    BY <1>12 DEF TypeOK, OwnResponse, SavedIsOwn, DrainedAtShutdown
  <2> QED BY <2>1, <2>2, <2>3, <2>4, <2>5, <2>6
<1>13. ASSUME NEW e \in Enclaves, InitializeInterpreter(e) PROVE IInv'
  <2> USE DEF InitializeInterpreter, SignalReady, handlerVars, enclaveVars
  <2>0. handler' \in [Requests -> HandlerStates]
    BY <1>13 DEF TypeOK, HandlerStates
  <2>1. TypeOK'
    BY <1>13, <2>0 DEF TypeOK, WorkerStates
  <2>2. EnclavesKept'
    BY <1>13, KeptUnchanged
  <2>3. Held'
    BY <1>0, <1>13 DEF TypeOK, Held, Holding
  <2>4. WatchedUnlessDone' /\ CleanBeforeUse'
    BY <1>13 DEF TypeOK, WatchedUnlessDone, Watched, CleanBeforeUse
  <2>5. BusyWhenRun' /\ SavedIsOwn'
    BY <1>0, <1>13 DEF TypeOK, BusyWhenRun, SavedIsOwn, DrainedAtShutdown, Held, Holding, EnclavesKept
  <2>6. OwnResponse' /\ DrainedAtShutdown'
    BY <1>13 DEF TypeOK, OwnResponse, SavedIsOwn, DrainedAtShutdown
  <2> QED BY <2>1, <2>2, <2>3, <2>4, <2>5, <2>6
<1>14. ASSUME NEW e \in Enclaves, WaitForCompletion(e) PROVE IInv'
  <2> USE DEF WaitForCompletion, handlerVars, enclaveVars
  <2>1. TypeOK'
    BY <1>0, <1>14 DEF TypeOK, HandlerStates, WorkerStates
  <2>2. EnclavesKept'
    BY <1>14, KeptUnchanged
  <2>3. Held'
    BY <1>0, <1>14 DEF TypeOK, Held, Holding
  <2>4. WatchedUnlessDone' /\ CleanBeforeUse'
    <3>1. /\ \A d \in Enclaves \ {e} : worker'[d] = worker[d] /\ interpreter'[d] = interpreter[d]
          /\ current_state' = current_state
      BY <1>14 DEF TypeOK
    <3>2. CASE current_state[e] = "DONE"
      <4>1. interpreter'[e] = "finalized"
        BY <1>14, <3>2 DEF TypeOK
      <4> QED BY <3>1, <3>2, <4>1 DEF WatchedUnlessDone, Watched, CleanBeforeUse
    <3>3. CASE current_state[e] # "DONE"
      <4>1. interpreter'[e] = interpreter[e] /\ worker'[e] = "done_wait"
        BY <1>14, <3>3 DEF TypeOK
      <4> QED BY <3>1, <3>3, <4>1 DEF WatchedUnlessDone, Watched, CleanBeforeUse
    <3> QED BY <3>2, <3>3
  <2>5. BusyWhenRun' /\ SavedIsOwn'
    BY <1>0, <1>14 DEF TypeOK, BusyWhenRun, SavedIsOwn, DrainedAtShutdown, Held, Holding, EnclavesKept
  <2>6. OwnResponse' /\ DrainedAtShutdown'
    BY <1>14 DEF TypeOK, OwnResponse, SavedIsOwn, DrainedAtShutdown
  <2> QED BY <2>1, <2>2, <2>3, <2>4, <2>5, <2>6
<1>15. ASSUME Terminate PROVE IInv'
  <2> USE DEF Terminate, handlerVars, enclaveVars
  <2>1. TypeOK'
    <3>1. main' \in [pc : {"running", "shutdown", "mark", "join", "stopped"}, at : Enclaves]
      BY <1>15 DEF TypeOK
    <3> QED BY <1>15, <3>1 DEF TypeOK
  <2>2. EnclavesKept'
    BY <1>15, KeptUnchanged
  <2>3. Held'
    BY <1>0, <1>15 DEF TypeOK, Held, Holding
  <2>4. WatchedUnlessDone' /\ CleanBeforeUse'
    BY <1>15 DEF TypeOK, WatchedUnlessDone, Watched, CleanBeforeUse
  <2>5. BusyWhenRun' /\ SavedIsOwn'
    BY <1>0, <1>15 DEF TypeOK, BusyWhenRun, SavedIsOwn, DrainedAtShutdown, Held, Holding, EnclavesKept
  <2>6. OwnResponse' /\ DrainedAtShutdown'
    BY <1>15 DEF TypeOK, OwnResponse, SavedIsOwn, DrainedAtShutdown
  <2> QED BY <2>1, <2>2, <2>3, <2>4, <2>5, <2>6
<1>16. ASSUME ShutdownWorker PROVE IInv'
  <2> USE DEF ShutdownWorker, handlerVars, enclaveVars
  <2>1. TypeOK'
    <3>1. main' \in [pc : {"running", "shutdown", "mark", "join", "stopped"}, at : Enclaves]
      BY <1>16 DEF TypeOK
    <3>2. shutdown_worker' \in [Enclaves -> BOOLEAN]
      BY <1>16 DEF TypeOK
    <3> QED BY <1>16, <3>1, <3>2 DEF TypeOK
  <2>2. EnclavesKept'
    BY <1>16, KeptUnchanged
  <2>3. Held'
    BY <1>0, <1>16 DEF TypeOK, Held, Holding
  <2>4. WatchedUnlessDone' /\ CleanBeforeUse'
    BY <1>16 DEF TypeOK, WatchedUnlessDone, Watched, CleanBeforeUse
  <2>5. BusyWhenRun' /\ SavedIsOwn'
    BY <1>0, <1>16 DEF TypeOK, BusyWhenRun, SavedIsOwn, DrainedAtShutdown, Held, Holding, EnclavesKept
  <2>6. OwnResponse' /\ DrainedAtShutdown'
    BY <1>16 DEF TypeOK, OwnResponse, SavedIsOwn, DrainedAtShutdown
  <2> QED BY <2>1, <2>2, <2>3, <2>4, <2>5, <2>6
<1>17. ASSUME ShutdownMarks PROVE IInv'
  <2> USE DEF ShutdownMarks, MarkInterpreterDone, SignalDone, handlerVars, enclaveVars
  <2>1. TypeOK'
    <3>1. main' \in [pc : {"running", "shutdown", "mark", "join", "stopped"}, at : Enclaves]
      BY <1>17 DEF TypeOK
    <3>2. worker' \in [Enclaves -> WorkerStates]
      BY <1>17 DEF TypeOK, WorkerStates
    <3> QED BY <1>17, <3>1, <3>2 DEF TypeOK
  <2>2. EnclavesKept'
    BY <1>17, KeptUnchanged
  <2>3. Held'
    BY <1>0, <1>17 DEF TypeOK, Held, Holding
  <2>4. WatchedUnlessDone' /\ CleanBeforeUse'
    BY <1>17 DEF TypeOK, WatchedUnlessDone, Watched, CleanBeforeUse
  <2>5. BusyWhenRun' /\ SavedIsOwn'
    BY <1>0, <1>17 DEF TypeOK, BusyWhenRun, SavedIsOwn, DrainedAtShutdown, Held, Holding, EnclavesKept
  <2>6. OwnResponse' /\ DrainedAtShutdown'
    BY <1>17 DEF TypeOK, OwnResponse, SavedIsOwn, DrainedAtShutdown
  <2> QED BY <2>1, <2>2, <2>3, <2>4, <2>5, <2>6
<1>18. ASSUME Join PROVE IInv'
  <2> USE DEF Join, handlerVars, enclaveVars
  <2>1. TypeOK'
    <3>1. main' \in [pc : {"running", "shutdown", "mark", "join", "stopped"}, at : Enclaves]
      BY <1>18 DEF TypeOK
    <3> QED BY <1>18, <3>1 DEF TypeOK
  <2>2. EnclavesKept'
    BY <1>18, KeptUnchanged
  <2>3. Held'
    BY <1>0, <1>18 DEF TypeOK, Held, Holding
  <2>4. WatchedUnlessDone' /\ CleanBeforeUse'
    BY <1>18 DEF TypeOK, WatchedUnlessDone, Watched, CleanBeforeUse
  <2>5. BusyWhenRun' /\ SavedIsOwn'
    BY <1>0, <1>18 DEF TypeOK, BusyWhenRun, SavedIsOwn, DrainedAtShutdown, Held, Holding, EnclavesKept
  <2>6. OwnResponse' /\ DrainedAtShutdown'
    BY <1>18 DEF TypeOK, OwnResponse, SavedIsOwn, DrainedAtShutdown
  <2> QED BY <2>1, <2>2, <2>3, <2>4, <2>5, <2>6
<1>19. CASE UNCHANGED vars
  <2> USE DEF vars, handlerVars, enclaveVars
  <2>1. EnclavesKept'
    BY <1>19, KeptUnchanged
  <2>2. TypeOK' /\ Held' /\ OwnResponse' /\ DrainedAtShutdown'
    BY <1>19 DEF TypeOK, Held, OwnResponse, DrainedAtShutdown
  <2>3. WatchedUnlessDone' /\ CleanBeforeUse' /\ BusyWhenRun' /\ SavedIsOwn'
    BY <1>19 DEF WatchedUnlessDone, Watched, CleanBeforeUse, BusyWhenRun, SavedIsOwn
  <2> QED BY <2>1, <2>2, <2>3
<1> QED
  BY <1>1, <1>2, <1>3, <1>4, <1>5, <1>6, <1>7, <1>8, <1>9,
     <1>10, <1>11, <1>12, <1>13, <1>14, <1>15, <1>16, <1>17, <1>18, <1>19
  DEF Next, HandlerStep, WorkerStep, ShutdownStep

(* In every reachable state the invariant holds.                           *)
THEOREM Invariance == Spec => []IInv
BY InitInv, StepInv, PTL DEF Spec

(* No enclave is lost, queued twice or in the hands of two handlers, with  *)
(* any number of enclaves and requests, errors and the stop included.      *)
THEOREM EnclavesAreKept == Spec => []EnclavesKept
<1>1. IInv => EnclavesKept
  BY DEF IInv
<1> QED BY <1>1, Invariance, PTL

(* A contract has an initialized interpreter to itself while it runs.      *)
THEOREM InterpretersAreExclusive == Spec => []InterpreterIsMine
<1>1. IInv => InterpreterIsMine
  <2> SUFFICES ASSUME IInv, NEW r \in Requests, handler[r] = "run"
               PROVE  /\ interpreter[enclave[r]] = "initialized"
                      /\ current_state[enclave[r]] = "BUSY"
                      /\ \A q \in Requests \ {r} : handler[q] = "run" => enclave[q] # enclave[r]
    BY DEF InterpreterIsMine
  <2>1. enclave[r] \in Enclaves /\ enclave[r] # None
    BY DEF IInv, TypeOK, Held, Holding
  <2> QED BY <2>1 DEF IInv, BusyWhenRun, WatchedUnlessDone, Watched, CleanBeforeUse, EnclavesKept
<1> QED BY <1>1, Invariance, PTL

(* A handler returns the response to its own request, although it fetches  *)
(* it from the enclave in a call of its own.                               *)
THEOREM ResponsesAreOwn == Spec => []OwnResponse
<1>1. IInv => OwnResponse
  BY DEF IInv
<1> QED BY <1>1, Invariance, PTL
=============================================================================
