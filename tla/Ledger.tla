------------------------------- MODULE Ledger -------------------------------
(***************************************************************************)
(* The PDO transaction processor: the CCF application that registers       *)
(* enclaves and contracts and records the state of every contract          *)
(* (ledgers/ccf/transaction_processor).                                    *)
(*                                                                         *)
(* CCF executes a write handler against the latest executed version of the *)
(* tables (view->get, view->put) and commits versions globally later, in   *)
(* order; read handlers answer from the globally committed version         *)
(* (get_globally_committed).  kv[0] is the globally committed version,     *)
(* kv[1] .. kv[last] are the executed ones that a change of primary may    *)
(* still roll back.  A handler that returns an error changes nothing, so   *)
(* only the accepting path of each handler is an action.                   *)
(***************************************************************************)
EXTENDS Naturals, Sequences, FiniteSets, Tables, Nothing

CONSTANTS
    Nodes,          \* CCF nodes
    Keys,           \* ledger signing keys that can be generated
    FlagValues,     \* values an operator may give the attestation-check flag
    Measurements,   \* expected SGX measurements an operator may set
    Enclaves,       \* contract enclaves (their verifying keys)
    Measurement,    \* [Enclaves -> Measurements]: what an enclave's quote reports
    Creators,       \* contract creators (their verifying keys)
    Contracts,
    Hashes,         \* hashes of contract states
    Metadata,       \* hashes of a contract's metadata
    MaxUncommitted, \* bound on the versions that wait for global commit
    MaxEvaluations, \* bound on the evaluations the enclaves sign
    MaxInfos        \* bound on the enclaves added by one transaction

ASSUME LedgerAssumption ==
    /\ MaxUncommitted \in Nat
    /\ MaxInfos \in Nat
    /\ FlagValues \subseteq BOOLEAN
    /\ None \notin Hashes \cup Keys \cup Measurements \cup Metadata
    /\ Measurement \in [Enclaves -> Measurements]

VARIABLES
    kv,                     \* versions of the tables, see above
    last,
    primary,                \* the node that executes write transactions
    ledger_signer_local,    \* memory of each node: cached ledger signing key
    enclave_pubk_verifier,  \* memory of each node: enclaves with a cached verifier
    signed,                 \* evaluations signed by contract enclaves
    reply                   \* latest answer of a read handler

vars == <<kv, last, primary, ledger_signer_local, enclave_pubk_verifier, signed, reply>>
nodeMemory == <<ledger_signer_local, enclave_pubk_verifier>>

Elements(s) == {s[i] : i \in 1..Len(s)}

Global == kv[0]
Local == kv[last]

(***************************************************************************)
(* State.                                                                  *)
(***************************************************************************)
ContractInfo ==
    [creator : Creators,
     is_active : BOOLEAN,
     enclave_info : Seq(Enclaves),
     contract_metadata_hash : Metadata \cup {None},
     current_state_hash : Hashes \cup {None}]

StateKey == Contracts \X Hashes

(* An element of a dependency list names a state twice: the hash the       *)
(* ledger looks up, and the text of it that the enclave's signature        *)
(* covers.                                                                 *)
ContractStateDependecy ==
    [contract : Contracts, state_hash : Hashes, state_hash_for_sign : Hashes]

LookedUp(list) == {<<d.contract, d.state_hash>> : d \in list}
SignedFor(list) == {<<d.contract, d.state_hash_for_sign>> : d \in list}

ContractStateInfo ==
    [prev : Hashes \cup {None}, deps : SUBSET ContractStateDependecy]

(* Signed by the enclave after it evaluated a request.  An initialization  *)
(* names the creator and the metadata; an update names the state it was    *)
(* evaluated on and the states of other contracts it depends on.           *)
Evaluation ==
    [kind : {"initialize", "update"},
     contract : Contracts,
     creator : Creators \cup {None},
     enclave : Enclaves,
     metadata : Metadata \cup {None},
     prev : Hashes \cup {None},
     state : Hashes,
     deps : SUBSET StateKey]

ContractEnclaveInfo == [contract : Contracts, enclave : Enclaves, signer : Enclaves]
EnclaveInfoArrays == UNION {[1..k -> ContractEnclaveInfo] : k \in 0..MaxInfos}

EmptyTables ==
    [flag |-> None, measurements |-> None, signer |-> None, enclaves |-> {},
     contracts |-> EmptyTable, ccl |-> EmptyTable]

NoReply == [kind |-> "none", by |-> None, fact |-> None]

Init ==
    /\ kv = [i \in {0} |-> EmptyTables]
    /\ last = 0
    /\ primary \in Nodes
    /\ ledger_signer_local = [n \in Nodes |-> None]
    /\ enclave_pubk_verifier = [n \in Nodes |-> {}]
    /\ signed = {}
    /\ reply = NoReply

(* An accepted write transaction: the tables it leaves are a new version.  *)
Write(tables) ==
    /\ last < MaxUncommitted
    /\ last' = last + 1
    /\ kv' = [i \in 0..last + 1 |-> IF i = last + 1 THEN tables ELSE kv[i]]
    /\ UNCHANGED <<primary, signed, reply>>

(***************************************************************************)
(* Operator transactions.                                                  *)
(***************************************************************************)

(* The flag can be set only once; the check looks at executed versions.    *)
SetContractEnclaveAttestationCheckFlag(b) ==
    /\ Local.flag = None
    /\ Write([Local EXCEPT !.flag = b])
    /\ UNCHANGED nodeMemory

(* Needs the flag to be committed and true; replaces earlier measurements. *)
SetContractEnclaveExpectedSgxMeasurements(m) ==
    /\ Global.flag = TRUE
    /\ Write([Local EXCEPT !.measurements = m])
    /\ UNCHANGED nodeMemory

(* Mutant: only the committed signer table is looked at.                   *)
NoCommittedSigner == Global.signer = None

NoSigner == Global.signer = None /\ Local.signer = None

GenSigningKey(k) ==
    /\ NoSigner
    /\ Write([Local EXCEPT !.signer = k])
    /\ UNCHANGED nodeMemory

(***************************************************************************)
(* Enclave and contract transactions.                                      *)
(***************************************************************************)

(* Mutant: the policy is read from executed versions.                      *)
AttestedLocally(e) ==
    /\ Local.flag # None
    /\ Local.flag = TRUE => Local.measurements # None /\ Measurement[e] = Local.measurements

(* The flag must be committed.  When it is true the quote is compared with *)
(* the committed measurements; expected_sgx_measurements_global.value()    *)
(* throws when there are none.                                             *)
Attested(e) ==
    /\ Global.flag # None
    /\ Global.flag = TRUE => Global.measurements # None /\ Measurement[e] = Global.measurements

CacheVerifier(e) ==
    enclave_pubk_verifier' = [enclave_pubk_verifier EXCEPT ![primary] = @ \cup {e}]

RegisterEnclave(e) ==
    /\ e \notin Local.enclaves
    /\ Attested(e)
    /\ Write([Local EXCEPT !.enclaves = @ \cup {e}])
    /\ CacheVerifier(e)
    /\ UNCHANGED ledger_signer_local

NewContract(v, c, p) ==
    [v EXCEPT !.contracts = Put(@, c,
        [creator |-> p, is_active |-> TRUE, enclave_info |-> <<>>,
         contract_metadata_hash |-> None, current_state_hash |-> None])]

(* Mutant: a registered contract may be registered again.                  *)
MayReregister(c) == TRUE

Unregistered(c) == c \notin DOMAIN Local.contracts

RegisterContract(c, p) ==
    /\ Unregistered(c)
    /\ Write(NewContract(Local, c, p))
    /\ UNCHANGED nodeMemory

(* The signature of enclave e is checked with the verifier the executing   *)
(* node cached when it executed the registration; without one the handler  *)
(* dereferences a null pointer and the node stops (see Failover).          *)
VerifiedBy(e, signer) == e \in enclave_pubk_verifier[primary] /\ signer = e

EnclavesAdded(v, c, list) == [v EXCEPT !.contracts[c].enclave_info = @ \o list]

(* Mutant: enclaves earlier in infos are not looked at.                    *)
AbsentFromContract(c, infos, i) ==
    infos[i].enclave \notin Elements(Local.contracts[c].enclave_info)

NewToContract(c, infos, i) ==
    /\ infos[i].enclave \notin Elements(Local.contracts[c].enclave_info)
    /\ \A j \in 1..i - 1 : infos[j].enclave # infos[i].enclave

(* All of infos or none: each element must name this contract, a           *)
(* registered enclave that is neither in the contract nor earlier in       *)
(* infos, and carry that enclave's signature.                              *)
AddEnclave(c, p, infos) ==
    /\ c \in DOMAIN Local.contracts
    /\ p = Local.contracts[c].creator
    /\ Len(infos) > 0
    /\ \A i \in 1..Len(infos) :
        /\ infos[i].contract = c
        /\ infos[i].enclave \in Local.enclaves
        /\ NewToContract(c, infos, i)
        /\ VerifiedBy(infos[i].enclave, infos[i].signer)
    /\ Write(EnclavesAdded(Local, c, [i \in 1..Len(infos) |-> infos[i].enclave]))
    /\ UNCHANGED nodeMemory

(* A member of signed stands for a transaction with a valid enclave        *)
(* signature.  The enclave signs the fields one after the other, without   *)
(* lengths and without a tag for the kind of message; the model assumes    *)
(* that they are read back as they were written, which the handlers leave  *)
(* to the submitter (ccf_submitter.py sends the fields of one response).   *)
EnclaveSigned(r, kind) ==
    /\ r \in signed
    /\ r.kind = kind
    /\ VerifiedBy(r.enclave, r.enclave)

(* The tables v after state r of its contract is recorded.                 *)
Recorded(v, r, prev, list, metadata) ==
    [v EXCEPT
        !.ccl = Put(@, <<r.contract, r.state>>, [prev |-> prev, deps |-> list]),
        !.contracts[r.contract] =
            [@ EXCEPT !.current_state_hash = r.state, !.contract_metadata_hash = metadata]]

(* Mutants: a check of initialize_contract_state or update_contract_state  *)
(* is missing.                                                             *)
MayReinitialize(info) == TRUE
AnyEnclave(r, info) == TRUE
AnyBase(r, info) == TRUE
AnyDependencies(list) == TRUE
MayStay(r, info) == TRUE

Uninitialized(info) == info.current_state_hash = None
ByContractEnclave(r, info) == r.enclave \in Elements(info.enclave_info)
OnLatestState(r, info) == r.prev = info.current_state_hash
ChangesState(r, info) == r.state # info.current_state_hash
DependenciesRecorded(list) == LookedUp(list) \subseteq DOMAIN Local.ccl

InitializeContractState(r, p) ==
    /\ r.contract \in DOMAIN Local.contracts
    /\ LET info == Local.contracts[r.contract] IN
        /\ info.is_active
        /\ Uninitialized(info)
        /\ ByContractEnclave(r, info)
        /\ p = info.creator
        /\ r.creator = info.creator
    /\ EnclaveSigned(r, "initialize")
    /\ Write(Recorded(Local, r, None, {}, r.metadata))
    /\ UNCHANGED nodeMemory

(* The dependency lists with which a transaction carries the enclave's     *)
(* signature of r: state_hash is not signed, so it is whatever the         *)
(* submitter put there (ccf_submitter.py puts the state that is signed).   *)
DependencyLists(r) ==
    {{[contract |-> d[1], state_hash |-> f[d], state_hash_for_sign |-> d[2]] : d \in r.deps} :
        f \in [r.deps -> Hashes]}

UpdateContractState(r, list) ==
    /\ r.contract \in DOMAIN Local.contracts
    /\ LET info == Local.contracts[r.contract] IN
        /\ info.is_active
        /\ ByContractEnclave(r, info)
        /\ OnLatestState(r, info)
        /\ DependenciesRecorded(list)
        /\ ChangesState(r, info)
    /\ EnclaveSigned(r, "update")
    /\ Write(Recorded(Local, r, r.prev, list, Local.contracts[r.contract].contract_metadata_hash))
    /\ UNCHANGED nodeMemory

(***************************************************************************)
(* Read transactions, answered by any node from the committed tables and   *)
(* signed with the node's cached copy of the ledger key, which is loaded   *)
(* from the committed signer table when it is first needed.                *)
(***************************************************************************)
SignedReply(n, kind, fact) ==
    /\ ledger_signer_local[n] # None \/ Global.signer # None
    /\ LET key == IF ledger_signer_local[n] = None THEN Global.signer
                                                   ELSE ledger_signer_local[n] IN
        /\ ledger_signer_local' = [ledger_signer_local EXCEPT ![n] = key]
        /\ reply' = [kind |-> kind, by |-> key, fact |-> fact]
    /\ UNCHANGED <<kv, last, primary, enclave_pubk_verifier, signed>>

(* The answer carries the committed key and is not signed.                 *)
GetLedgerKey(n) ==
    /\ Global.signer # None
    /\ ledger_signer_local' =
        [ledger_signer_local EXCEPT ![n] = IF @ = None THEN Global.signer ELSE @]
    /\ reply' = [kind |-> "key", by |-> Global.signer, fact |-> None]
    /\ UNCHANGED <<kv, last, primary, enclave_pubk_verifier, signed>>

VerifyEnclave(n, e) ==
    /\ e \in Global.enclaves
    /\ SignedReply(n, "enclave", e)

GetContractProvisioningInfo(n, c) ==
    /\ c \in DOMAIN Global.contracts
    /\ SignedReply(n, "provisioning",
            <<c, Global.contracts[c].creator, Global.contracts[c].enclave_info>>)

(* Before the initialization there is no metadata hash to encode, which    *)
(* some releases of CCF refuse; then there is no answer.                   *)
GetContractInfo(n, c) ==
    /\ c \in DOMAIN Global.contracts
    /\ SignedReply(n, "info", <<c, Global.contracts[c].creator,
                               Global.contracts[c].contract_metadata_hash>>)

(* Mutant: the answer comes from the executed tables.                      *)
GetExecutedStateInfo(n, c) ==
    /\ c \in DOMAIN Local.contracts
    /\ Local.contracts[c].current_state_hash # None
    /\ SignedReply(n, "state", <<c, Local.contracts[c].current_state_hash>>)

GetCurrentStateInfoForContract(n, c) ==
    /\ c \in DOMAIN Global.contracts
    /\ ~(Global.contracts[c].is_active /\ Global.contracts[c].current_state_hash = None)
    /\ SignedReply(n, "state", <<c, Global.contracts[c].current_state_hash>>)

GetDetailsAboutState(n, key) ==
    /\ key \in DOMAIN Global.ccl
    /\ SignedReply(n, "details", <<key, Global.ccl[key]>>)

(***************************************************************************)
(* Contract enclaves (eservice).  The hash of a state is the hash of its   *)
(* root block, which is encrypted under a fresh initialization vector, so  *)
(* no two evaluations that write something produce the same hash.  One     *)
(* that wrote nothing keeps the root block it started from, although the   *)
(* contract may report a change.                                           *)
(***************************************************************************)
Produced == {<<r.contract, r.state>> : r \in signed}
Fresh(s) == \A r \in signed : r.state # s
MayEvaluate == Cardinality(signed) < MaxEvaluations

EnclaveInitialize(e, c, p, m, s) ==
    /\ Fresh(s) /\ MayEvaluate
    /\ signed' = signed \cup
        {[kind |-> "initialize", contract |-> c, creator |-> p, enclave |-> e, metadata |-> m,
          prev |-> None, state |-> s, deps |-> {}]}
    /\ UNCHANGED <<kv, last, primary, nodeMemory, reply>>

(* The enclave evaluates on any state that was produced for the contract,  *)
(* committed or not: it is the client that provides it.                    *)
EnclaveUpdate(e, base, s, deps) ==
    /\ base \in signed
    /\ MayEvaluate
    /\ Fresh(s) \/ s = base.state
    /\ deps \subseteq Produced
    /\ signed' = signed \cup
        {[kind |-> "update", contract |-> base.contract, creator |-> None, enclave |-> e,
          metadata |-> None, prev |-> base.state, state |-> s, deps |-> deps]}
    /\ UNCHANGED <<kv, last, primary, nodeMemory, reply>>

(***************************************************************************)
(* CCF.                                                                    *)
(***************************************************************************)

(* The oldest executed version becomes globally committed.                 *)
GlobalCommit ==
    /\ last > 0
    /\ kv' = [i \in 0..last - 1 |-> kv[i + 1]]
    /\ last' = last - 1
    /\ UNCHANGED <<primary, nodeMemory, signed, reply>>

(* Another node becomes the primary; versions after r were not replicated  *)
(* and are lost.  The old primary may have stopped, in which case its      *)
(* memory is that of a new process.                                        *)
Failover(n, r, stopped) ==
    /\ n # primary
    /\ r <= last
    /\ primary' = n
    /\ last' = r
    /\ kv' = [i \in 0..r |-> kv[i]]
    /\ ledger_signer_local' =
        IF stopped THEN [ledger_signer_local EXCEPT ![primary] = None] ELSE ledger_signer_local
    /\ enclave_pubk_verifier' =
        IF stopped THEN [enclave_pubk_verifier EXCEPT ![primary] = {}] ELSE enclave_pubk_verifier
    /\ UNCHANGED <<signed, reply>>

Next ==
    \/ \E b \in FlagValues : SetContractEnclaveAttestationCheckFlag(b)
    \/ \E m \in Measurements : SetContractEnclaveExpectedSgxMeasurements(m)
    \/ \E k \in Keys : GenSigningKey(k)
    \/ \E e \in Enclaves : RegisterEnclave(e)
    \/ \E c \in Contracts, p \in Creators : RegisterContract(c, p)
    \/ \E c \in Contracts, p \in Creators, infos \in EnclaveInfoArrays : AddEnclave(c, p, infos)
    \/ \E r \in signed, p \in Creators : InitializeContractState(r, p)
    \/ \E r \in signed : \E list \in DependencyLists(r) : UpdateContractState(r, list)
    \/ \E n \in Nodes : GetLedgerKey(n)
    \/ \E n \in Nodes, e \in Enclaves : VerifyEnclave(n, e)
    \/ \E n \in Nodes, c \in Contracts : GetContractProvisioningInfo(n, c)
    \/ \E n \in Nodes, c \in Contracts : GetContractInfo(n, c)
    \/ \E n \in Nodes, c \in Contracts : GetCurrentStateInfoForContract(n, c)
    \/ \E n \in Nodes, key \in StateKey : GetDetailsAboutState(n, key)
    \/ \E e \in Enclaves, c \in Contracts, p \in Creators, m \in Metadata, s \in Hashes :
            EnclaveInitialize(e, c, p, m, s)
    \/ \E e \in Enclaves, base \in signed, s \in Hashes, deps \in SUBSET Produced :
            EnclaveUpdate(e, base, s, deps)
    \/ GlobalCommit
    \/ \E n \in Nodes, r \in 0..last, stopped \in BOOLEAN : Failover(n, r, stopped)

Spec == Init /\ [][Next]_vars

(***************************************************************************)
(* Properties.                                                             *)
(***************************************************************************)
TablesOK(v) ==
    /\ DOMAIN v = {"flag", "measurements", "signer", "enclaves", "contracts", "ccl"}
    /\ v.flag \in FlagValues \cup {None}
    /\ v.measurements \in Measurements \cup {None}
    /\ v.signer \in Keys \cup {None}
    /\ v.enclaves \subseteq Enclaves
    /\ DOMAIN v.contracts \subseteq Contracts
    /\ v.contracts \in [DOMAIN v.contracts -> ContractInfo]
    /\ DOMAIN v.ccl \subseteq StateKey
    /\ v.ccl \in [DOMAIN v.ccl -> ContractStateInfo]

(* Every version of the tables, the memory of every node and every         *)
(* enclave-signed message has the shape the handlers' schemas give it.     *)
TypeOK ==
    /\ last \in 0..MaxUncommitted
    /\ DOMAIN kv = 0..last
    /\ \A i \in 0..last : TablesOK(kv[i])
    /\ primary \in Nodes
    /\ ledger_signer_local \in [Nodes -> Keys \cup {None}]
    /\ enclave_pubk_verifier \in [Nodes -> SUBSET Enclaves]
    /\ signed \subseteq Evaluation
    /\ DOMAIN reply = {"kind", "by", "fact"}

StatesOf(v, c) == {s \in Hashes : <<c, s>> \in DOMAIN v.ccl}
PrevOf(v, c) == [s \in StatesOf(v, c) |-> v.ccl[<<c, s>>].prev]
HeadOf(v, c) == IF c \in DOMAIN v.contracts THEN v.contracts[c].current_state_hash ELSE None

(* In every version, executed or committed, the recorded states of a       *)
(* contract form one unforked line: there is a current state exactly when  *)
(* something is recorded, the current state is recorded and nothing        *)
(* follows it, every state follows a recorded one or is the initial one,   *)
(* and no two states follow the same one (so there is one initialization). *)
(* update_contract_state relies on the comparison with current_state_hash  *)
(* for all of this, whatever clients submit, replay or reorder.            *)
OneLine(S, cur, prev) ==
    /\ cur = None <=> S = {}
    /\ cur # None => cur \in S
    /\ \A s \in S : prev[s] \in S \cup {None}
    /\ \A s \in S : cur # None => prev[s] # cur
    /\ \A s, t \in S : prev[s] = prev[t] => s = t

Unforked(v, c) == OneLine(StatesOf(v, c), HeadOf(v, c), PrevOf(v, c))

UnforkedHistories == \A i \in 0..last, c \in Contracts : Unforked(kv[i], c)

(* Walking back from current_state_hash through previous_state_hash, as a  *)
(* reader of get_details_about_state does, visits every recorded state of  *)
(* the contract and ends at its initialization.                            *)
HistoryComplete ==
    \A i \in 0..last : \A c \in DOMAIN kv[i].contracts :
        LET ccl == kv[i].ccl
            Walk[n \in 0..Cardinality(Hashes) + 1] ==
                IF n = 0 THEN {kv[i].contracts[c].current_state_hash}
                ELSE Walk[n - 1] \cup {ccl[<<c, s>>].prev : s \in Walk[n - 1] \ {None}}
        IN StatesOf(kv[i], c) \cup {None} = Walk[Cardinality(Hashes) + 1]

(* Every recorded state was produced by an enclave of the contract, on the *)
(* state that is recorded before it, and with the dependencies that are    *)
(* recorded as signed (state_hash_for_sign); and the first one is an       *)
(* initialization requested by the contract's creator, with the metadata   *)
(* the contract has.  The comment on the comparison with the latest state  *)
(* hash claims that there is a first one: "this also ensures that there    *)
(* was an init".                                                           *)
StatesAuthorised ==
    \A i \in 0..last : \A key \in DOMAIN kv[i].ccl :
        LET info == kv[i].contracts[key[1]] IN
        \E r \in signed :
            /\ r.contract = key[1] /\ r.state = key[2]
            /\ r.enclave \in Elements(info.enclave_info)
            /\ kv[i].ccl[key].prev = r.prev /\ SignedFor(kv[i].ccl[key].deps) = r.deps
            /\ r.prev = None =>
                /\ r.kind = "initialize" /\ r.creator = info.creator
                /\ r.metadata = info.contract_metadata_hash

(* Every state_hash in a recorded dependency list is that of a state       *)
(* recorded in the same version: in particular none is globally committed  *)
(* before what it names, although update_contract_state looks it up among  *)
(* executed transactions that may never be committed.  The list is the     *)
(* submitter's: that it names what the enclave signed is up to             *)
(* ccf_submitter.py, which copies the one into the other.                  *)
CausallyClosed ==
    \A i \in 0..last : \A key \in DOMAIN kv[i].ccl :
        LookedUp(kv[i].ccl[key].deps) \subseteq DOMAIN kv[i].ccl

IsPrefixOf(s, t) == Len(s) <= Len(t) /\ \A i \in 1..Len(s) : s[i] = t[i]

(* Version w keeps what version v records: it may only add states,         *)
(* contracts, enclaves and enclaves of a contract.                         *)
Keeps(v, w) ==
    /\ v.flag # None => w.flag = v.flag
    /\ v.measurements # None => w.measurements # None
    /\ v.signer # None => w.signer = v.signer
    /\ v.enclaves \subseteq w.enclaves
    /\ \A c \in DOMAIN v.contracts :
        /\ c \in DOMAIN w.contracts
        /\ w.contracts[c].creator = v.contracts[c].creator
        /\ v.contracts[c].contract_metadata_hash # None =>
            w.contracts[c].contract_metadata_hash = v.contracts[c].contract_metadata_hash
        /\ IsPrefixOf(v.contracts[c].enclave_info, w.contracts[c].enclave_info)
    /\ \A key \in DOMAIN v.ccl : key \in DOMAIN w.ccl /\ w.ccl[key] = v.ccl[key]

(* What is globally committed is never retracted or changed, across        *)
(* commits, rollbacks and changes of primary.                              *)
CommittedKept == [][Keeps(kv[0], kv'[0])]_vars

(* Whatever a read handler answered was signed with the globally committed *)
(* key clients verify with (get_ledger_key), although a node signs with    *)
(* its own copy of it, and stays true: a client that acts on it later is   *)
(* not contradicted by a rollback.                                         *)
ReplyHolds ==
    LET f == reply.fact IN
    /\ reply.kind # "none" => reply.by = Global.signer
    /\ reply.kind = "enclave" => f \in Global.enclaves
    /\ reply.kind = "provisioning" =>
        /\ f[1] \in DOMAIN Global.contracts
        /\ f[2] = Global.contracts[f[1]].creator
        /\ IsPrefixOf(f[3], Global.contracts[f[1]].enclave_info)
    /\ reply.kind = "info" =>
        /\ f[1] \in DOMAIN Global.contracts /\ f[2] = Global.contracts[f[1]].creator
        /\ f[3] # None => f[3] = Global.contracts[f[1]].contract_metadata_hash
    /\ reply.kind = "state" => f \in DOMAIN Global.ccl
    /\ reply.kind = "details" => f[1] \in DOMAIN Global.ccl /\ f[2] = Global.ccl[f[1]]

(* There is one ledger key: the copy a node signs with and the key that    *)
(* signed the latest answer are the globally committed key clients verify  *)
(* with (get_ledger_key), so no cached copy is ever stale.                 *)
OneLedgerKey ==
    /\ \A n \in Nodes : ledger_signer_local[n] \in {None, Global.signer}
    /\ reply.kind # "none" => reply.by = Global.signer

(* No enclave is registered in any version unless the attestation policy   *)
(* it was registered under is globally committed: a rollback cannot take   *)
(* the policy away and keep the enclave.                                   *)
RegisteredUnderPolicy ==
    \A i \in 0..last : kv[i].enclaves # {} =>
        /\ Global.flag # None
        /\ Global.flag = TRUE => Global.measurements # None

(* add_enclave: the enclaves of a contract are registered, and none is     *)
(* listed twice.                                                           *)
ContractEnclaves ==
    \A i \in 0..last : \A c \in DOMAIN kv[i].contracts :
        LET list == kv[i].contracts[c].enclave_info IN
        /\ Elements(list) \subseteq kv[i].enclaves
        /\ \A j, k \in 1..Len(list) : list[j] = list[k] => j = k

(* A contract's enclaves are registered, once each, under an attestation   *)
(* policy that no rollback takes away.                                     *)
EnclavesAreVetted == RegisteredUnderPolicy /\ ContractEnclaves

(* The globally committed tables implement StateChain.                     *)
Chain == INSTANCE StateChain WITH
    head <- [c \in Contracts |-> HeadOf(Global, c)],
    entry <- [key \in DOMAIN Global.ccl |->
                [prev |-> Global.ccl[key].prev, deps |-> LookedUp(Global.ccl[key].deps)]]

(* Commit by commit, the globally committed states are an append-only,     *)
(* causally closed, linear history per contract.                           *)
ImplementsStateChain == Chain!Spec
=============================================================================
