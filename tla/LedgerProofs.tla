---------------------------- MODULE LedgerProofs ----------------------------
(***************************************************************************)
(* Proofs about Ledger, for any number of nodes, enclaves, contracts and   *)
(* states.                                                                 *)
(***************************************************************************)
EXTENDS Ledger, TLAPS

(***************************************************************************)
(* The inductive invariant.  Unforked is not inductive by itself: that a   *)
(* replayed update cannot be recorded twice follows from what is recorded  *)
(* being what an enclave signed, and from no two evaluations that change   *)
(* the state naming the same new one.                                      *)
(***************************************************************************)
SignedOnce(sg) ==
    /\ sg \subseteq Evaluation
    /\ \A r, q \in sg : r.state = q.state /\ r.state # r.prev /\ q.state # q.prev => r = q
    /\ \A r \in sg : r.kind = "initialize" => r.prev = None /\ r.deps = {} /\ r.metadata # None

RecordedAsSigned(v, sg) ==
    \A key \in DOMAIN v.ccl :
        /\ key[1] \in DOMAIN v.contracts
        /\ \E r \in sg :
            /\ r.contract = key[1]
            /\ r.state = key[2]
            /\ r.state # r.prev
            /\ v.ccl[key].prev = r.prev

DepsRecorded(v) == \A key \in DOMAIN v.ccl : LookedUp(v.ccl[key].deps) \subseteq DOMAIN v.ccl

(* Only an initialized contract has metadata.                              *)
MetadataOK(v) ==
    \A c \in DOMAIN v.contracts :
        v.contracts[c].contract_metadata_hash # None => v.contracts[c].current_state_hash # None

VersionOK(v, sg) ==
    /\ TablesOK(v)
    /\ RecordedAsSigned(v, sg)
    /\ DepsRecorded(v)
    /\ MetadataOK(v)
    /\ \A c \in Contracts : Unforked(v, c)

(* One executed transaction turned version v into w.                       *)
SameStates(v, w) == w.ccl = v.ccl /\ \A c \in Contracts : HeadOf(w, c) = HeadOf(v, c)

ChainStep(v, w, c, s, list) ==
    /\ <<c, s>> \notin DOMAIN v.ccl
    /\ LookedUp(list) \subseteq DOMAIN v.ccl
    /\ w.ccl = Put(v.ccl, <<c, s>>, [prev |-> HeadOf(v, c), deps |-> list])
    /\ HeadOf(w, c) = s
    /\ \A d \in Contracts \ {c} : HeadOf(w, d) = HeadOf(v, d)

Follows(v, w) ==
    /\ Keeps(v, w)
    /\ \/ SameStates(v, w)
       \/ \E c \in Contracts, s \in Hashes, list \in SUBSET ContractStateDependecy :
            ChainStep(v, w, c, s, list)

IInv ==
    /\ TypeOK
    /\ SignedOnce(signed)
    /\ \A i \in 0..last : VersionOK(kv[i], signed)
    /\ \A i \in 1..last : Follows(kv[i - 1], kv[i])

-----------------------------------------------------------------------------
(* Tables that differ from well-formed ones only in the fields that do not *)
(* hold states.                                                            *)
LEMMA SameTables ==
    ASSUME NEW sg, NEW v, VersionOK(v, sg), NEW w, TablesOK(w), MetadataOK(w),
           w.ccl = v.ccl,
           DOMAIN v.contracts \subseteq DOMAIN w.contracts,
           \A c \in Contracts : HeadOf(w, c) = HeadOf(v, c)
    PROVE  VersionOK(w, sg)
<1>1. RecordedAsSigned(w, sg)
    BY Zenon DEF VersionOK, RecordedAsSigned
<1>2. DepsRecorded(w)
    BY Zenon DEF VersionOK, DepsRecorded
<1>3. ASSUME NEW c \in Contracts PROVE Unforked(w, c)
  <2>1. StatesOf(w, c) = StatesOf(v, c) /\ PrevOf(w, c) = PrevOf(v, c)
    BY Zenon DEF StatesOf, PrevOf
  <2> QED BY <2>1, <1>3, Zenon DEF VersionOK, Unforked
<1> QED BY <1>1, <1>2, <1>3, Zenon DEF VersionOK

(* The operator's transactions and the registration of an enclave.         *)
LEMMA SetupStep ==
    ASSUME NEW sg, NEW v, VersionOK(v, sg), NEW w,
           \/ \E b \in FlagValues : v.flag = None /\ w = [v EXCEPT !.flag = b]
           \/ \E m \in Measurements : m # None /\ w = [v EXCEPT !.measurements = m]
           \/ \E k \in Keys : v.signer = None /\ w = [v EXCEPT !.signer = k]
           \/ \E e \in Enclaves : w = [v EXCEPT !.enclaves = @ \cup {e}]
    PROVE  VersionOK(w, sg) /\ Follows(v, w)
<1>1. TablesOK(w) /\ w.ccl = v.ccl /\ w.contracts = v.contracts
    BY ZenonT(40) DEF VersionOK, TablesOK
<1>2. Keeps(v, w)
    BY <1>1 DEF Keeps, VersionOK, TablesOK, IsPrefixOf, ContractInfo
<1>3. MetadataOK(w)
    BY <1>1, Zenon DEF VersionOK, MetadataOK
<1> QED BY <1>1, <1>2, <1>3, SameTables, Zenon DEF Follows, SameStates, HeadOf

(* A list of enclaves is a prefix of itself.                               *)
LEMMA PrefixRefl ==
    ASSUME NEW l \in Seq(Enclaves) PROVE IsPrefixOf(l, l)
BY DEF IsPrefixOf

(* add_enclave appends: the old list of enclaves is a prefix of the new    *)
(* one.                                                                    *)
LEMMA PrefixConcat ==
    ASSUME NEW l \in Seq(Enclaves), NEW m \in Seq(Enclaves)
    PROVE  l \o m \in Seq(Enclaves) /\ IsPrefixOf(l, l \o m)
BY DEF IsPrefixOf

(* An entry of a well-formed contract table.                               *)
LEMMA EnclaveInfoType ==
    ASSUME NEW v, TablesOK(v), NEW c \in DOMAIN v.contracts
    PROVE  v.contracts[c] \in ContractInfo /\ v.contracts[c].enclave_info \in Seq(Enclaves)
BY Zenon DEF TablesOK, ContractInfo

(* register_contract adds a contract without states and keeps everything   *)
(* else.                                                                   *)
LEMMA RegisterContractStep ==
    ASSUME NEW sg, NEW v, VersionOK(v, sg), NEW c \in Contracts, NEW p \in Creators,
           c \notin DOMAIN v.contracts,
           NEW w, w = NewContract(v, c, p)
    PROVE  VersionOK(w, sg) /\ Follows(v, w)
<1> DEFINE info == [creator |-> p, is_active |-> TRUE, enclave_info |-> <<>>,
                    contract_metadata_hash |-> None, current_state_hash |-> None]
<1>1. info \in ContractInfo /\ info.current_state_hash = None /\ info.contract_metadata_hash = None
    BY DEF ContractInfo
<1>2. /\ w.ccl = v.ccl /\ w.flag = v.flag /\ w.measurements = v.measurements
      /\ w.signer = v.signer /\ w.enclaves = v.enclaves
      /\ DOMAIN w = DOMAIN v
      /\ w.contracts = Put(v.contracts, c, info)
    BY Zenon DEF VersionOK, TablesOK, NewContract
<1> HIDE DEF info
<1>3. /\ DOMAIN w.contracts = DOMAIN v.contracts \cup {c}
      /\ w.contracts \in [DOMAIN w.contracts -> ContractInfo]
      /\ \A d \in DOMAIN v.contracts : w.contracts[d] = v.contracts[d]
      /\ w.contracts[c] = info
    BY <1>1, <1>2 DEF Put, VersionOK, TablesOK
<1>4. TablesOK(w)
    BY <1>2, <1>3, Zenon DEF VersionOK, TablesOK
<1>5. \A d \in Contracts : HeadOf(w, d) = HeadOf(v, d)
    BY <1>1, <1>3, Zenon DEF HeadOf
<1>6. Keeps(v, w)
  <2>1. \A d \in DOMAIN v.contracts : IsPrefixOf(v.contracts[d].enclave_info, w.contracts[d].enclave_info)
    BY <1>3 DEF VersionOK, TablesOK, IsPrefixOf, ContractInfo
  <2> QED BY <2>1, <1>2, <1>3, Zenon DEF Keeps
<1>7. MetadataOK(w)
    BY <1>1, <1>3, Zenon DEF VersionOK, MetadataOK
<1> QED BY <1>2, <1>3, <1>4, <1>5, <1>6, <1>7, SameTables, Zenon DEF Follows, SameStates

(* add_enclave changes only the list of enclaves of one contract.          *)
LEMMA AddEnclaveStep ==
    ASSUME NEW sg, NEW v, VersionOK(v, sg), NEW c \in DOMAIN v.contracts, NEW list \in Seq(Enclaves),
           NEW w, w = EnclavesAdded(v, c, list)
    PROVE  VersionOK(w, sg) /\ Follows(v, w)
<1>1. /\ w.ccl = v.ccl /\ w.flag = v.flag /\ w.measurements = v.measurements
      /\ w.signer = v.signer /\ w.enclaves = v.enclaves
      /\ DOMAIN w = DOMAIN v
      /\ w.contracts = [v.contracts EXCEPT ![c].enclave_info = @ \o list]
    BY Zenon DEF VersionOK, TablesOK, EnclavesAdded
<1> DEFINE old == v.contracts[c]
           new == [old EXCEPT !.enclave_info = @ \o list]
<1>2. /\ old \in ContractInfo
      /\ old.enclave_info \o list \in Seq(Enclaves)
      /\ IsPrefixOf(old.enclave_info, old.enclave_info \o list)
    BY EnclaveInfoType, PrefixConcat, Zenon DEF VersionOK
<1>3. /\ new \in ContractInfo
      /\ new.creator = old.creator
      /\ new.current_state_hash = old.current_state_hash
      /\ new.contract_metadata_hash = old.contract_metadata_hash
      /\ new.enclave_info = old.enclave_info \o list
    BY <1>2, Zenon DEF ContractInfo
<1>4. /\ DOMAIN w.contracts = DOMAIN v.contracts
      /\ \A d \in DOMAIN v.contracts : w.contracts[d] = IF d = c THEN new ELSE v.contracts[d]
      /\ w.contracts = [d \in DOMAIN v.contracts |-> w.contracts[d]]
    BY <1>1, Zenon DEF VersionOK, TablesOK
<1> HIDE DEF new, old
<1>5. TablesOK(w)
    BY <1>1, <1>3, <1>4, ZenonT(40) DEF VersionOK, TablesOK
<1>6. \A d \in Contracts : HeadOf(w, d) = HeadOf(v, d)
    BY <1>3, <1>4, Zenon DEF HeadOf, old
<1>7. Keeps(v, w)
  <2>1. \A d \in DOMAIN v.contracts :
            /\ w.contracts[d].creator = v.contracts[d].creator
            /\ w.contracts[d].contract_metadata_hash = v.contracts[d].contract_metadata_hash
            /\ IsPrefixOf(v.contracts[d].enclave_info, w.contracts[d].enclave_info)
    <3> SUFFICES ASSUME NEW d \in DOMAIN v.contracts
                 PROVE  /\ w.contracts[d].creator = v.contracts[d].creator
                        /\ w.contracts[d].contract_metadata_hash = v.contracts[d].contract_metadata_hash
                        /\ IsPrefixOf(v.contracts[d].enclave_info, w.contracts[d].enclave_info)
      BY Zenon
    <3>1. CASE d = c
      BY <3>1, <1>2, <1>3, <1>4, Zenon DEF old
    <3>2. CASE d # c
      <4>1. w.contracts[d] = v.contracts[d]
        BY <3>2, <1>4, Zenon
      <4>2. v.contracts[d].enclave_info \in Seq(Enclaves)
        BY EnclaveInfoType, Zenon DEF VersionOK
      <4> QED BY <4>1, <4>2, PrefixRefl, Zenon
    <3> QED BY <3>1, <3>2, Zenon
  <2> QED BY <2>1, <1>1, <1>4, Zenon DEF Keeps
<1>8. MetadataOK(w)
  <2> SUFFICES ASSUME NEW d \in DOMAIN v.contracts
               PROVE  w.contracts[d].contract_metadata_hash # None => w.contracts[d].current_state_hash # None
    BY <1>4, Zenon DEF MetadataOK
  <2> QED BY <1>3, <1>4, Zenon DEF VersionOK, MetadataOK, old
<1> QED BY <1>1, <1>4, <1>5, <1>6, <1>7, <1>8, SameTables, Zenon DEF Follows, SameStates

(* Recording a state an enclave signed, on top of the current one: the     *)
(* common part of initialize_contract_state and update_contract_state.     *)
LEMMA RecordStep ==
    ASSUME NEW sg, NEW v, VersionOK(v, sg), SignedOnce(sg),
           NEW r \in sg, r.state # r.prev,
           r.contract \in DOMAIN v.contracts,
           r.prev = v.contracts[r.contract].current_state_hash,
           NEW list \in SUBSET ContractStateDependecy, LookedUp(list) \subseteq DOMAIN v.ccl,
           NEW m \in Metadata \cup {None},
           v.contracts[r.contract].contract_metadata_hash # None
                => m = v.contracts[r.contract].contract_metadata_hash,
           NEW w, w = Recorded(v, r, r.prev, list, m)
    PROVE  VersionOK(w, sg) /\ Follows(v, w)
<1> DEFINE c == r.contract
           s == r.state
           old == v.contracts[c]
           new == [old EXCEPT !.current_state_hash = s, !.contract_metadata_hash = m]
           rec == [prev |-> r.prev, deps |-> list]
<1>1. /\ c \in Contracts /\ s \in Hashes
      /\ r.prev \in Hashes \cup {None}
      /\ None \notin Hashes
    BY LedgerAssumption, Zenon DEF SignedOnce, Evaluation
<1>2. /\ w.flag = v.flag /\ w.measurements = v.measurements
      /\ w.signer = v.signer /\ w.enclaves = v.enclaves
      /\ DOMAIN w = DOMAIN v
      /\ w.ccl = Put(v.ccl, <<c, s>>, rec)
      /\ w.contracts = [v.contracts EXCEPT ![c] = new]
    BY Zenon DEF VersionOK, TablesOK, Recorded
<1>3. /\ new \in ContractInfo
      /\ new.creator = old.creator
      /\ new.enclave_info = old.enclave_info
      /\ new.current_state_hash = s
      /\ new.contract_metadata_hash = m
    BY <1>1, ZenonT(40) DEF VersionOK, TablesOK, ContractInfo
<1>4. rec \in ContractStateInfo /\ rec.prev = r.prev /\ rec.deps = list
    BY <1>1, Zenon DEF ContractStateInfo
<1>5. /\ DOMAIN w.contracts = DOMAIN v.contracts
      /\ \A d \in DOMAIN v.contracts : w.contracts[d] = IF d = c THEN new ELSE v.contracts[d]
      /\ w.contracts = [d \in DOMAIN v.contracts |-> w.contracts[d]]
    BY <1>2, Zenon DEF VersionOK, TablesOK
<1>6. /\ DOMAIN w.ccl = DOMAIN v.ccl \cup {<<c, s>>}
      /\ \A key \in DOMAIN w.ccl : w.ccl[key] = IF key = <<c, s>> THEN rec ELSE v.ccl[key]
      /\ w.ccl = [key \in DOMAIN w.ccl |-> w.ccl[key]]
    BY <1>2, Zenon DEF Put
<1>7. old.current_state_hash = HeadOf(v, c)
    BY Zenon DEF HeadOf
<1> HIDE DEF c, s, old, new, rec
<1>8. TablesOK(w)
  <2>1. w.contracts \in [DOMAIN w.contracts -> ContractInfo]
    BY <1>3, <1>5, EnclaveInfoType, Zenon DEF VersionOK
  <2>2. DOMAIN w.ccl \subseteq StateKey
    BY <1>1, <1>6 DEF VersionOK, TablesOK, StateKey
  <2>3. \A key \in DOMAIN w.ccl : w.ccl[key] \in ContractStateInfo
    BY <1>4, <1>6, Zenon DEF VersionOK, TablesOK
  <2>4. w.ccl \in [DOMAIN w.ccl -> ContractStateInfo]
    BY <2>3, <1>6, Zenon
  <2> QED BY <1>2, <1>5, <2>1, <2>2, <2>4, Zenon DEF VersionOK, TablesOK
<1>9. <<c, s>> \notin DOMAIN v.ccl
  <2> SUFFICES ASSUME <<c, s>> \in DOMAIN v.ccl PROVE FALSE
    BY Zenon
  <2>1. PICK q \in sg : /\ q.contract = c /\ q.state = s /\ q.state # q.prev
                         /\ v.ccl[<<c, s>>].prev = q.prev
    BY Zenon DEF VersionOK, RecordedAsSigned
  <2>2. q = r
    BY <2>1, Zenon DEF SignedOnce, s
  <2>3. v.ccl[<<c, s>>].prev = HeadOf(v, c)
    BY <2>1, <2>2, <1>7, Zenon DEF old, c
  <2>4. s \in StatesOf(v, c)
    BY <1>1, Zenon DEF StatesOf
  <2> QED BY <1>1, <2>3, <2>4, Zenon DEF VersionOK, Unforked, OneLine, PrevOf
<1>10. RecordedAsSigned(w, sg)
  <2> SUFFICES ASSUME NEW key \in DOMAIN w.ccl
               PROVE  /\ key[1] \in DOMAIN w.contracts
                      /\ \E q \in sg : /\ q.contract = key[1] /\ q.state = key[2] /\ q.state # q.prev
                                         /\ w.ccl[key].prev = q.prev
    BY Zenon DEF RecordedAsSigned
  <2>1. CASE key = <<c, s>>
    BY <2>1, <1>4, <1>5, <1>6, Zenon DEF c, s
  <2>2. CASE key # <<c, s>>
    <3>1. key \in DOMAIN v.ccl /\ w.ccl[key] = v.ccl[key]
      BY <2>2, <1>6, Zenon
    <3>2. DOMAIN w.contracts = DOMAIN v.contracts
      BY <1>5, Zenon
    <3> QED BY <3>1, <3>2, ZenonT(40) DEF VersionOK, RecordedAsSigned
  <2> QED BY <2>1, <2>2, Zenon
<1>11. DepsRecorded(w)
    BY <1>4, <1>6, Zenon DEF VersionOK, DepsRecorded
<1>12. ASSUME NEW d \in Contracts, d # c PROVE Unforked(w, d)
  <2>1. StatesOf(w, d) = StatesOf(v, d)
    BY <1>6, <1>12, Zenon DEF StatesOf
  <2>2. PrevOf(w, d) = PrevOf(v, d)
    BY <1>6, <1>12, <2>1, Zenon DEF PrevOf, StatesOf
  <2>3. HeadOf(w, d) = HeadOf(v, d)
    BY <1>5, <1>12, Zenon DEF HeadOf
  <2>4. Unforked(v, d)
    BY Zenon DEF VersionOK
  <2> QED BY <2>1, <2>2, <2>3, <2>4, Zenon DEF Unforked
<1>13. HeadOf(w, c) = s
    BY <1>3, <1>5, Zenon DEF HeadOf, c
<1>14. Unforked(w, c)
  <2> DEFINE S == StatesOf(v, c)
             T == StatesOf(w, c)
             P == PrevOf(v, c)
             Q == PrevOf(w, c)
             h == HeadOf(v, c)
  <2>1. T = S \cup {s} /\ s \notin S
    BY <1>1, <1>6, <1>9, Zenon DEF StatesOf
  <2>2. \A t \in S : Q[t] = P[t]
    BY <1>6, <1>9, <2>1, Zenon DEF StatesOf, PrevOf
  <2>3. Q[s] = h
    BY <1>4, <1>6, <1>7, <2>1, Zenon DEF PrevOf, old, c
  <2>4. OneLine(S, h, P)
    BY <1>1, Zenon DEF VersionOK, Unforked
  <2> HIDE DEF P, Q, S, T, h
  <2>5. \A t \in S : P[t] # h
    BY <2>4, Zenon DEF OneLine
  <2>6. /\ \A t \in T : Q[t] \in T \cup {None}
        /\ \A t \in T : Q[t] # s
        /\ \A t, u \in T : Q[t] = Q[u] => t = u
    BY <1>1, <2>1, <2>2, <2>3, <2>4, <2>5 DEF OneLine
  <2>7. OneLine(T, s, Q)
    BY <1>1, <2>1, <2>6, Zenon DEF OneLine
  <2> QED BY <1>13, <2>7, Zenon DEF Unforked, T, Q
<1>15. ChainStep(v, w, c, s, list)
    BY <1>2, <1>5, <1>7, <1>9, <1>13, Zenon DEF ChainStep, HeadOf, rec, old, c
<1>16. Keeps(v, w)
  <2>1. \A d \in DOMAIN v.contracts :
            /\ w.contracts[d].creator = v.contracts[d].creator
            /\ v.contracts[d].contract_metadata_hash # None =>
                w.contracts[d].contract_metadata_hash = v.contracts[d].contract_metadata_hash
            /\ IsPrefixOf(v.contracts[d].enclave_info, w.contracts[d].enclave_info)
    <3>1. ASSUME NEW d \in DOMAIN v.contracts
          PROVE  IsPrefixOf(v.contracts[d].enclave_info, v.contracts[d].enclave_info)
      BY EnclaveInfoType, PrefixRefl, Zenon DEF VersionOK
    <3>2. w.contracts[c] = new /\ c \in DOMAIN v.contracts
      BY <1>5, Zenon DEF c
    <3>3. \A d \in DOMAIN v.contracts : d # c => w.contracts[d] = v.contracts[d]
      BY <1>5, Zenon
    <3>4. old.contract_metadata_hash # None => m = old.contract_metadata_hash
      BY Zenon DEF old, c
    <3> QED BY <1>3, <3>1, <3>2, <3>3, <3>4, Zenon DEF old
  <2>2. \A key \in DOMAIN v.ccl : key \in DOMAIN w.ccl /\ w.ccl[key] = v.ccl[key]
    BY <1>6, <1>9, Zenon
  <2> QED BY <2>1, <2>2, <1>2, <1>5, Zenon DEF Keeps
<1>17. MetadataOK(w)
  <2>0. w.contracts[c] = new
    BY <1>5, Zenon DEF c
  <2>1. w.contracts[c].current_state_hash # None
    BY <1>1, <1>3, <2>0, Zenon
  <2>2. \A d \in DOMAIN v.contracts : d # c => w.contracts[d] = v.contracts[d]
    BY <1>5, Zenon
  <2>3. DOMAIN w.contracts = DOMAIN v.contracts
    BY <1>5, Zenon
  <2> QED BY <2>1, <2>2, <2>3, Zenon DEF VersionOK, MetadataOK
<1> QED BY <1>1, <1>8, <1>10, <1>11, <1>12, <1>14, <1>15, <1>16, <1>17, Zenon DEF VersionOK, Follows

-----------------------------------------------------------------------------
(* A new version that follows the local one.                               *)
LEMMA WriteStep ==
    ASSUME IInv, NEW t, VersionOK(t, signed), Follows(Local, t), Write(t),
           ledger_signer_local' \in [Nodes -> Keys \cup {None}],
           enclave_pubk_verifier' \in [Nodes -> SUBSET Enclaves]
    PROVE  IInv'
<1>1. /\ last \in Nat /\ last' = last + 1 /\ last < MaxUncommitted /\ MaxUncommitted \in Nat
      /\ DOMAIN kv' = 0..last'
      /\ \A i \in 0..last : kv'[i] = kv[i]
      /\ kv'[last + 1] = t
      /\ signed' = signed /\ primary' = primary /\ reply' = reply
    BY LedgerAssumption DEF IInv, TypeOK, Write
<1>2. \A i \in 0..last' : VersionOK(kv'[i], signed')
    BY <1>1 DEF IInv
<1>3. \A i \in 1..last' : Follows(kv'[i - 1], kv'[i])
    BY <1>1 DEF IInv, Local
<1>4. TypeOK'
    BY <1>1, <1>2 DEF IInv, TypeOK, VersionOK
<1> QED BY <1>1, <1>2, <1>3, <1>4, Zenon DEF IInv

(* A further enclave signature invalidates nothing.                        *)
LEMMA SignedStep ==
    ASSUME IInv, NEW r \in Evaluation, Fresh(r.state) \/ r.state = r.prev,
           r.kind = "initialize" => r.prev = None /\ r.deps = {} /\ r.metadata # None,
           signed' = signed \cup {r},
           UNCHANGED <<kv, last, primary, nodeMemory, reply>>
    PROVE  IInv'
<1>1. SignedOnce(signed')
    BY Zenon DEF IInv, SignedOnce, Fresh
<1>2. ASSUME NEW v, VersionOK(v, signed) PROVE VersionOK(v, signed')
    BY <1>2, Zenon DEF VersionOK, RecordedAsSigned
<1>3. TypeOK'
  <2>1. signed' \subseteq Evaluation
    BY Zenon DEF IInv, TypeOK
  <2> QED BY <2>1, Zenon DEF IInv, TypeOK, nodeMemory
<1>4. \A i \in 0..last' : VersionOK(kv'[i], signed')
    BY <1>2, Zenon DEF IInv
<1> QED BY <1>1, <1>3, <1>4, Zenon DEF IInv

(* What the checks of initialize_contract_state leave: the first state of  *)
(* a contract that has none.                                               *)
InitializesOnce(r) ==
    /\ r.kind = "initialize" /\ r.state # r.prev /\ r.prev = None /\ r.deps = {}
    /\ r.contract \in DOMAIN Local.contracts
    /\ r.prev = Local.contracts[r.contract].current_state_hash
    /\ r.metadata \in Metadata
    /\ Local.contracts[r.contract].contract_metadata_hash = None
    /\ r.enclave \in Elements(Local.contracts[r.contract].enclave_info)
    /\ r.creator = Local.contracts[r.contract].creator

(* What the checks of update_contract_state leave: a new state on top of   *)
(* the latest one, with a dependency list that names recorded states.      *)
ExtendsHistory(r, list) ==
    /\ r.kind = "update" /\ r.state # r.prev
    /\ r.contract \in DOMAIN Local.contracts
    /\ r.prev = Local.contracts[r.contract].current_state_hash
    /\ r.enclave \in Elements(Local.contracts[r.contract].enclave_info)
    /\ list \in SUBSET ContractStateDependecy
    /\ LookedUp(list) \subseteq DOMAIN Local.ccl
    /\ SignedFor(list) = r.deps

(* An empty dependency list names nothing.                                 *)
LEMMA NoDependencies ==
    {} \in SUBSET ContractStateDependecy /\ LookedUp({}) = {} /\ SignedFor({}) = {}
BY DEF LookedUp, SignedFor

(* A transaction initialize_contract_state accepts is the first of its     *)
(* contract.                                                               *)
LEMMA InitializeChecks ==
    ASSUME VersionOK(Local, signed), SignedOnce(signed),
           NEW r \in signed, NEW p \in Creators, InitializeContractState(r, p)
    PROVE  /\ InitializesOnce(r)
           /\ Write(Recorded(Local, r, r.prev, {}, r.metadata)) /\ UNCHANGED nodeMemory
<1>1. /\ r.kind = "initialize" /\ r.prev = None /\ r.deps = {} /\ r.metadata # None
      /\ r.state \in Hashes /\ r.metadata \in Metadata \cup {None}
    BY Zenon DEF InitializeContractState, EnclaveSigned, SignedOnce, Evaluation
<1>2. /\ r.contract \in DOMAIN Local.contracts
      /\ Local.contracts[r.contract].current_state_hash = None
      /\ r.enclave \in Elements(Local.contracts[r.contract].enclave_info)
      /\ r.creator = Local.contracts[r.contract].creator
      /\ Write(Recorded(Local, r, None, {}, r.metadata)) /\ UNCHANGED nodeMemory
    BY Zenon DEF InitializeContractState, Uninitialized, ByContractEnclave
<1>3. Local.contracts[r.contract].contract_metadata_hash = None
    BY <1>2, Zenon DEF VersionOK, MetadataOK
<1> QED BY <1>1, <1>2, <1>3, LedgerAssumption, Zenon DEF InitializesOnce

(* The lists with which an evaluation is submitted say of the signed part  *)
(* what the enclave signed.                                                *)
LEMMA ListsSigned ==
    ASSUME NEW r \in Evaluation, NEW list \in DependencyLists(r)
    PROVE  list \in SUBSET ContractStateDependecy /\ SignedFor(list) = r.deps
<1>1. PICK f \in [r.deps -> Hashes] :
        list = {[contract |-> d[1], state_hash |-> f[d], state_hash_for_sign |-> d[2]] : d \in r.deps}
    BY Zenon DEF DependencyLists
<1>2. \A d \in r.deps : d[1] \in Contracts /\ d[2] \in Hashes /\ d = <<d[1], d[2]>>
    BY DEF Evaluation, StateKey
<1>3. list \in SUBSET ContractStateDependecy
  <2> SUFFICES ASSUME NEW x \in list PROVE x \in ContractStateDependecy
    OBVIOUS
  <2>1. PICK d \in r.deps : x = [contract |-> d[1], state_hash |-> f[d], state_hash_for_sign |-> d[2]]
    BY <1>1
  <2> QED BY <1>2, <2>1 DEF ContractStateDependecy
<1>4. SignedFor(list) \subseteq r.deps
  <2> SUFFICES ASSUME NEW x \in list PROVE <<x.contract, x.state_hash_for_sign>> \in r.deps
    BY DEF SignedFor
  <2>1. PICK d \in r.deps : x = [contract |-> d[1], state_hash |-> f[d], state_hash_for_sign |-> d[2]]
    BY <1>1
  <2>2. x.contract = d[1] /\ x.state_hash_for_sign = d[2]
    BY <2>1
  <2> QED BY <1>2, <2>2
<1>5. r.deps \subseteq SignedFor(list)
  <2> SUFFICES ASSUME NEW d \in r.deps PROVE d \in SignedFor(list)
    OBVIOUS
  <2> DEFINE x == [contract |-> d[1], state_hash |-> f[d], state_hash_for_sign |-> d[2]]
  <2>1. x \in list /\ x.contract = d[1] /\ x.state_hash_for_sign = d[2]
    BY <1>1
  <2> HIDE DEF x
  <2>2. d = <<x.contract, x.state_hash_for_sign>>
    BY <1>2, <2>1
  <2> QED BY <2>1, <2>2 DEF SignedFor
<1> QED BY <1>3, <1>4, <1>5

(* A transaction update_contract_state accepts extends its contract's      *)
(* history.                                                                *)
LEMMA UpdateChecks ==
    ASSUME SignedOnce(signed),
           NEW r \in signed, NEW list \in DependencyLists(r), UpdateContractState(r, list)
    PROVE  /\ ExtendsHistory(r, list)
           /\ Write(Recorded(Local, r, r.prev, list, Local.contracts[r.contract].contract_metadata_hash))
           /\ UNCHANGED nodeMemory
<1>1. list \in SUBSET ContractStateDependecy /\ SignedFor(list) = r.deps
    BY ListsSigned, Zenon DEF SignedOnce
<1>2. /\ r.contract \in DOMAIN Local.contracts
      /\ r.prev = Local.contracts[r.contract].current_state_hash
      /\ r.state # Local.contracts[r.contract].current_state_hash
      /\ r.enclave \in Elements(Local.contracts[r.contract].enclave_info)
      /\ LookedUp(list) \subseteq DOMAIN Local.ccl
      /\ r.kind = "update"
      /\ Write(Recorded(Local, r, r.prev, list, Local.contracts[r.contract].contract_metadata_hash))
      /\ UNCHANGED nodeMemory
    BY Zenon DEF UpdateContractState, OnLatestState, ChangesState, ByContractEnclave, DependenciesRecorded,
                 EnclaveSigned
<1> QED BY <1>1, <1>2, Zenon DEF ExtendsHistory

(* The empty tables satisfy the inductive invariant.                       *)
LEMMA InitIInv == Init => IInv
<1> SUFFICES ASSUME Init PROVE IInv
    BY Zenon
<1>1. /\ last = 0 /\ DOMAIN kv = {0} /\ kv[0] = EmptyTables /\ signed = {}
      /\ 0..0 = {0} /\ 1..0 = {}
    BY DEF Init
<1>2. VersionOK(EmptyTables, {})
  <2>1. DOMAIN EmptyTables.ccl = {} /\ DOMAIN EmptyTables.contracts = {}
    BY Zenon DEF EmptyTables, EmptyTable
  <2>2. TablesOK(EmptyTables)
    BY <2>1, Zenon DEF TablesOK, EmptyTables, EmptyTable
  <2>3. RecordedAsSigned(EmptyTables, {}) /\ DepsRecorded(EmptyTables) /\ MetadataOK(EmptyTables)
    BY <2>1, Zenon DEF RecordedAsSigned, DepsRecorded, MetadataOK
  <2>4. ASSUME NEW c \in Contracts PROVE Unforked(EmptyTables, c)
    <3>1. StatesOf(EmptyTables, c) = {} /\ HeadOf(EmptyTables, c) = None
      BY <2>1, Zenon DEF StatesOf, HeadOf
    <3> QED BY <3>1, Zenon DEF Unforked, OneLine
  <2> QED BY <2>2, <2>3, <2>4, Zenon DEF VersionOK
<1>3. TypeOK
    BY <1>1, <1>2, LedgerAssumption DEF Init, TypeOK, VersionOK, NoReply
<1> QED BY <1>1, <1>2, <1>3, Zenon DEF IInv, SignedOnce

(* Every step of the ledger preserves the inductive invariant.             *)
LEMMA NextIInv == IInv /\ [Next]_vars => IInv'
<1> SUFFICES ASSUME IInv, [Next]_vars PROVE IInv'
    BY Zenon
<1>1. /\ VersionOK(Local, signed) /\ TablesOK(Local)
      /\ SignedOnce(signed)
      /\ ledger_signer_local \in [Nodes -> Keys \cup {None}]
      /\ enclave_pubk_verifier \in [Nodes -> SUBSET Enclaves]
      /\ primary \in Nodes /\ last \in Nat /\ last <= MaxUncommitted /\ MaxUncommitted \in Nat
    BY LedgerAssumption DEF IInv, TypeOK, Local, VersionOK
<1>2. ASSUME NEW b \in FlagValues, SetContractEnclaveAttestationCheckFlag(b) PROVE IInv'
    BY <1>1, <1>2, SetupStep, WriteStep, Zenon
       DEF SetContractEnclaveAttestationCheckFlag, nodeMemory
<1>3. ASSUME NEW m \in Measurements, SetContractEnclaveExpectedSgxMeasurements(m) PROVE IInv'
    BY <1>1, <1>3, SetupStep, WriteStep, LedgerAssumption, Zenon
       DEF SetContractEnclaveExpectedSgxMeasurements, nodeMemory
<1>4. ASSUME NEW k \in Keys, GenSigningKey(k) PROVE IInv'
    BY <1>1, <1>4, SetupStep, WriteStep, Zenon DEF GenSigningKey, NoSigner, nodeMemory
<1>5. ASSUME NEW e \in Enclaves, RegisterEnclave(e) PROVE IInv'
  <2>1. enclave_pubk_verifier' \in [Nodes -> SUBSET Enclaves]
    BY <1>1, <1>5, Zenon DEF RegisterEnclave, CacheVerifier
  <2> QED BY <1>1, <1>5, <2>1, SetupStep, WriteStep, Zenon DEF RegisterEnclave
<1>6. ASSUME NEW c \in Contracts, NEW p \in Creators, RegisterContract(c, p) PROVE IInv'
    BY <1>1, <1>6, RegisterContractStep, WriteStep, Zenon DEF RegisterContract, Unregistered, nodeMemory
<1>7. ASSUME NEW c \in Contracts, NEW p \in Creators, NEW infos \in EnclaveInfoArrays,
             AddEnclave(c, p, infos)
      PROVE  IInv'
  <2> DEFINE list == [i \in 1..Len(infos) |-> infos[i].enclave]
  <2>1. list \in Seq(Enclaves)
    <3>1. infos \in Seq(ContractEnclaveInfo)
      BY LedgerAssumption DEF EnclaveInfoArrays
    <3>2. Len(infos) \in Nat /\ \A i \in 1..Len(infos) : infos[i].enclave \in Enclaves
      <4>1. Len(infos) \in Nat /\ \A i \in 1..Len(infos) : infos[i] \in ContractEnclaveInfo
        BY <3>1
      <4>2. \A x \in ContractEnclaveInfo : x.enclave \in Enclaves
        BY Zenon DEF ContractEnclaveInfo
      <4> QED BY <4>1, <4>2, Zenon
    <3>3. list \in [1..Len(infos) -> Enclaves]
      BY <3>2, Zenon
    <3> QED BY <3>2, <3>3
  <2> HIDE DEF list
  <2>2. c \in DOMAIN Local.contracts /\ Write(EnclavesAdded(Local, c, list)) /\ UNCHANGED nodeMemory
    BY <1>7, Zenon DEF AddEnclave, list
  <2>3. VersionOK(EnclavesAdded(Local, c, list), signed) /\ Follows(Local, EnclavesAdded(Local, c, list))
    BY <1>1, <2>1, <2>2, AddEnclaveStep, Zenon
  <2> QED BY <1>1, <2>2, <2>3, WriteStep, Zenon DEF nodeMemory
<1>8. ASSUME NEW r \in signed, NEW p \in Creators, InitializeContractState(r, p) PROVE IInv'
  <2> DEFINE t == Recorded(Local, r, r.prev, {}, r.metadata)
  <2>1. /\ InitializesOnce(r) /\ Write(t) /\ UNCHANGED nodeMemory
    BY <1>1, <1>8, InitializeChecks, Zenon
  <2>2. VersionOK(t, signed) /\ Follows(Local, t)
    BY <1>1, <2>1, RecordStep, NoDependencies, Zenon DEF InitializesOnce
  <2> HIDE DEF t
  <2> QED BY <1>1, <2>1, <2>2, WriteStep, Zenon DEF nodeMemory
<1>9. ASSUME NEW r \in signed, NEW list \in DependencyLists(r), UpdateContractState(r, list) PROVE IInv'
  <2> DEFINE m == Local.contracts[r.contract].contract_metadata_hash
             t == Recorded(Local, r, r.prev, list, m)
  <2>1. /\ ExtendsHistory(r, list) /\ Write(t) /\ UNCHANGED nodeMemory
    BY <1>1, <1>9, UpdateChecks, Zenon
  <2>2. m \in Metadata \cup {None}
    BY <1>1, <2>1, EnclaveInfoType, Zenon DEF ExtendsHistory, ContractInfo
  <2>3. VersionOK(t, signed) /\ Follows(Local, t)
    BY <1>1, <2>1, <2>2, RecordStep, Zenon DEF ExtendsHistory
  <2> HIDE DEF t
  <2> QED BY <1>1, <2>1, <2>3, WriteStep, Zenon DEF nodeMemory
<1>10. ASSUME NEW e \in Enclaves, NEW c \in Contracts, NEW p \in Creators, NEW m \in Metadata,
              NEW s \in Hashes, EnclaveInitialize(e, c, p, m, s)
       PROVE  IInv'
  <2> DEFINE r == [kind |-> "initialize", contract |-> c, creator |-> p, enclave |-> e,
                   metadata |-> m, prev |-> None, state |-> s, deps |-> {}]
  <2>1. r \in Evaluation /\ r.state = s /\ r.prev = None /\ r.deps = {} /\ r.metadata # None
    BY LedgerAssumption, Zenon DEF Evaluation
  <2>2. Fresh(s) /\ signed' = signed \cup {r} /\ UNCHANGED <<kv, last, primary, nodeMemory, reply>>
    BY <1>10, Zenon DEF EnclaveInitialize
  <2> HIDE DEF r
  <2> QED BY <2>1, <2>2, SignedStep, Zenon
<1>11. ASSUME NEW e \in Enclaves, NEW base \in signed, NEW s \in Hashes,
              NEW deps \in SUBSET Produced, EnclaveUpdate(e, base, s, deps)
       PROVE  IInv'
  <2>1. base \in Evaluation /\ deps \in SUBSET StateKey
    BY <1>1 DEF SignedOnce, Produced, StateKey, Evaluation
  <2> DEFINE r == [kind |-> "update", contract |-> base.contract, creator |-> None, enclave |-> e,
                   metadata |-> None, prev |-> base.state, state |-> s, deps |-> deps]
  <2>2. r \in Evaluation /\ r.state = s /\ r.prev = base.state /\ r.kind = "update"
    BY <2>1, Zenon DEF Evaluation
  <2>3. /\ Fresh(s) \/ s = base.state
        /\ signed' = signed \cup {r} /\ UNCHANGED <<kv, last, primary, nodeMemory, reply>>
    BY <1>11, Zenon DEF EnclaveUpdate
  <2> HIDE DEF r
  <2> QED BY <2>2, <2>3, SignedStep, Zenon
<1>12. CASE GlobalCommit
  <2>1. /\ last' = last - 1 /\ last' \in 0..MaxUncommitted /\ DOMAIN kv' = 0..last'
        /\ \A i \in 0..last' : kv'[i] = kv[i + 1] /\ i + 1 \in 0..last
        /\ signed' = signed /\ UNCHANGED <<primary, nodeMemory, reply>>
    BY <1>1, <1>12 DEF GlobalCommit, IInv, TypeOK
  <2>2. \A i \in 0..last' : VersionOK(kv'[i], signed')
    BY <2>1, Zenon DEF IInv
  <2>3. \A i \in 1..last' : Follows(kv'[i - 1], kv'[i])
    BY <1>1, <2>1 DEF IInv
  <2>4. TypeOK'
    BY <2>1, <2>2, Zenon DEF IInv, TypeOK, VersionOK, nodeMemory
  <2> QED BY <2>1, <2>2, <2>3, <2>4, Zenon DEF IInv
<1>13. ASSUME NEW n \in Nodes, NEW r \in 0..last, NEW stopped \in BOOLEAN, Failover(n, r, stopped)
       PROVE  IInv'
  <2>1. /\ last' = r /\ last' \in 0..MaxUncommitted /\ DOMAIN kv' = 0..last'
        /\ \A i \in 0..last' : kv'[i] = kv[i] /\ i \in 0..last
        /\ signed' = signed /\ reply' = reply /\ primary' \in Nodes
    BY <1>1, <1>13 DEF Failover, IInv, TypeOK
  <2>2. \A i \in 0..last' : VersionOK(kv'[i], signed')
    BY <2>1, Zenon DEF IInv
  <2>3. \A i \in 1..last' : Follows(kv'[i - 1], kv'[i])
    <3>1. \A i \in 1..last' : i \in 0..last' /\ i - 1 \in 0..last' /\ i \in 1..last
      BY <1>1, <2>1
    <3> QED BY <2>1, <3>1, Zenon DEF IInv
  <2>4. /\ ledger_signer_local' \in [Nodes -> Keys \cup {None}]
        /\ enclave_pubk_verifier' \in [Nodes -> SUBSET Enclaves]
    BY <1>1, <1>13, Zenon DEF Failover
  <2>5. TypeOK'
    BY <2>1, <2>2, <2>4, Zenon DEF IInv, TypeOK, VersionOK
  <2> QED BY <2>1, <2>2, <2>3, <2>5, Zenon DEF IInv
<1>14. ASSUME NEW n \in Nodes,
              \/ GetLedgerKey(n)
              \/ \E kind, fact : SignedReply(n, kind, fact)
       PROVE  IInv'
  <2>0. VersionOK(kv[0], signed)
    <3>1. 0 \in 0..last
      BY <1>1
    <3> QED BY <3>1, Zenon DEF IInv
  <2>1. Global.signer \in Keys \cup {None}
    BY <2>0, Zenon DEF VersionOK, TablesOK, Global
  <2>2. /\ UNCHANGED <<kv, last, primary, enclave_pubk_verifier, signed>>
        /\ ledger_signer_local' \in [Nodes -> Keys \cup {None}]
        /\ DOMAIN reply' = {"kind", "by", "fact"}
    BY <1>1, <1>14, <2>1, Zenon DEF GetLedgerKey, SignedReply
  <2>3. TypeOK'
    BY <2>2, Zenon DEF IInv, TypeOK
  <2> QED BY <2>2, <2>3, Zenon DEF IInv
<1>15. CASE UNCHANGED vars
    BY <1>15, Zenon DEF vars, IInv, TypeOK
<1> QED
    BY <1>2, <1>3, <1>4, <1>5, <1>6, <1>7, <1>8, <1>9, <1>10, <1>11, <1>12, <1>13, <1>14, <1>15, Zenon
       DEF Next, VerifyEnclave, GetContractProvisioningInfo, GetContractInfo,
           GetCurrentStateInfoForContract, GetDetailsAboutState

-----------------------------------------------------------------------------
(* What a step does to the committed version: nothing, or it becomes the   *)
(* next executed version.                                                  *)
LEMMA GlobalStep ==
    ASSUME IInv, [Next]_vars
    PROVE  kv'[0] = kv[0] \/ Follows(kv[0], kv'[0])
<1>1. last \in Nat /\ 0 \in 0..last
    BY DEF IInv, TypeOK
<1>2. ASSUME NEW t, Write(t) PROVE kv'[0] = kv[0]
    BY <1>1, <1>2 DEF Write
<1>3. CASE GlobalCommit
  <2>1. kv'[0] = kv[1] /\ 1 \in 1..last
    BY <1>1, <1>3 DEF GlobalCommit
  <2> QED BY <2>1 DEF IInv
<1>4. ASSUME NEW n \in Nodes, NEW r \in 0..last, NEW stopped \in BOOLEAN, Failover(n, r, stopped)
      PROVE  kv'[0] = kv[0]
    BY <1>1, <1>4 DEF Failover
<1> QED
    BY <1>2, <1>3, <1>4, Zenon
       DEF Next, vars, SetContractEnclaveAttestationCheckFlag,
           SetContractEnclaveExpectedSgxMeasurements, GenSigningKey, RegisterEnclave,
           RegisterContract, AddEnclave, InitializeContractState, UpdateContractState,
           GetLedgerKey, VerifyEnclave, GetContractProvisioningInfo, GetContractInfo,
           GetCurrentStateInfoForContract, GetDetailsAboutState, SignedReply,
           EnclaveInitialize, EnclaveUpdate

(* Well-formed tables keep what they record.                               *)
LEMMA KeepsRefl ==
    ASSUME NEW v, TablesOK(v) PROVE Keeps(v, v)
<1>1. \A c \in DOMAIN v.contracts : IsPrefixOf(v.contracts[c].enclave_info, v.contracts[c].enclave_info)
    BY EnclaveInfoType, PrefixRefl, Zenon
<1> QED BY <1>1, Zenon DEF Keeps

(* The inductive invariant holds in every reachable state.                 *)
THEOREM Invariance == Spec => []IInv
<1> QED BY InitIInv, NextIInv, PTL DEF Spec

(* The tables, the nodes' memory and the signed messages are well formed   *)
(* in every reachable state of the transaction processor.                  *)
THEOREM TypeCorrect == Spec => []TypeOK
<1>1. IInv => TypeOK
    BY Zenon DEF IInv
<1> QED BY <1>1, Invariance, PTL

(* No contract's history ever forks, in any executed or committed version, *)
(* whatever transactions are submitted, replayed, rolled back or reordered.*)
THEOREM NoForks == Spec => []UnforkedHistories
<1>1. IInv => UnforkedHistories
    BY Zenon DEF IInv, VersionOK, UnforkedHistories
<1> QED BY <1>1, Invariance, PTL

(* update_contract_state never leaves a state recorded without the states  *)
(* its dependency list names by state_hash, committed or not.              *)
THEOREM Causality == Spec => []CausallyClosed
<1>1. IInv => CausallyClosed
    BY Zenon DEF IInv, VersionOK, DepsRecorded, CausallyClosed
<1> QED BY <1>1, Invariance, PTL

(* Nothing globally committed is retracted or changed.                     *)
THEOREM Durability == Spec => CommittedKept
<1>1. IInv /\ [Next]_vars => [Keeps(kv[0], kv'[0])]_vars
  <2> SUFFICES ASSUME IInv, [Next]_vars PROVE Keeps(kv[0], kv'[0])
    BY Zenon
  <2>1. TablesOK(kv[0])
    BY DEF IInv, TypeOK
  <2> QED BY <2>1, GlobalStep, KeepsRefl, Zenon DEF Follows
<1> QED BY <1>1, Invariance, PTL DEF Spec, CommittedKept

(* The globally committed tables implement the abstract StateChain.        *)
THEOREM Refinement == Spec => ImplementsStateChain
<1> DEFINE hd(v) == [c \in Contracts |-> HeadOf(v, c)]
           en(v) == [key \in DOMAIN v.ccl |->
                        [prev |-> v.ccl[key].prev, deps |-> LookedUp(v.ccl[key].deps)]]
<1>1. Init => Chain!Init
    BY DEF Init, Chain!Init, HeadOf, Global, EmptyTables, EmptyTable, Chain!EmptyTable
<1>2. IInv /\ [Next]_vars => [Chain!Next]_(Chain!vars)
  <2> SUFFICES ASSUME IInv, [Next]_vars PROVE [Chain!Next]_(Chain!vars)
    BY Zenon
  <2>1. CASE kv'[0] = kv[0]
    BY <2>1, Zenon DEF Chain!vars, Global
  <2>2. CASE SameStates(kv[0], kv'[0])
    BY <2>2, Zenon DEF Chain!vars, Global, SameStates, HeadOf
  <2>3. CASE \E c \in Contracts, s \in Hashes, list \in SUBSET ContractStateDependecy :
                ChainStep(kv[0], kv'[0], c, s, list)
    <3>1. PICK c \in Contracts, s \in Hashes, list \in SUBSET ContractStateDependecy :
                ChainStep(kv[0], kv'[0], c, s, list)
      BY <2>3, Zenon
    <3> DEFINE deps == LookedUp(list)
               new == [prev |-> HeadOf(kv[0], c), deps |-> list]
    <3>2. /\ <<c, s>> \notin DOMAIN kv[0].ccl
          /\ deps \in SUBSET (DOMAIN kv[0].ccl)
          /\ hd(kv'[0]) = [hd(kv[0]) EXCEPT ![c] = s]
          /\ kv'[0].ccl = Put(kv[0].ccl, <<c, s>>, new)
      BY <3>1, Zenon DEF ChainStep
    <3>3. new.prev = hd(kv[0])[c] /\ new.deps = list
      BY Zenon
    <3> HIDE DEF new
    <3>4. /\ DOMAIN kv'[0].ccl = DOMAIN kv[0].ccl \cup {<<c, s>>}
          /\ kv'[0].ccl[<<c, s>>] = new
          /\ \A key \in DOMAIN kv[0].ccl : kv'[0].ccl[key] = kv[0].ccl[key]
      BY <3>2, Zenon DEF Put
    <3>5. en(kv'[0]) = Put(en(kv[0]), <<c, s>>, [prev |-> hd(kv[0])[c], deps |-> deps])
      BY <3>2, <3>3, <3>4, ZenonT(40) DEF Put
    <3>6. DOMAIN en(kv[0]) = DOMAIN kv[0].ccl
      BY Zenon
    <3>7. Chain!Commit(c, s, deps)
      BY <3>2, <3>5, <3>6, Zenon DEF Chain!Commit, Chain!Put, Put, Global
    <3> QED BY <3>2, <3>6, <3>7, Zenon DEF Chain!Next, Global
  <2> QED BY <2>1, <2>2, <2>3, GlobalStep, Zenon DEF Follows
<1> QED BY <1>1, <1>2, Invariance, PTL DEF Spec, ImplementsStateChain, Chain!Spec

-----------------------------------------------------------------------------
(***************************************************************************)
(* What the tables say of enclaves and states, and what the nodes answer.  *)
(* These facts do not take part in the argument above and rest on it: the  *)
(* invariant JInv is inductive together with IInv.                         *)
(***************************************************************************)
Authorises(v, key, r) ==
    /\ r.contract = key[1] /\ r.state = key[2]
    /\ r.enclave \in Elements(v.contracts[key[1]].enclave_info)
    /\ v.ccl[key].prev = r.prev /\ SignedFor(v.ccl[key].deps) = r.deps
    /\ r.prev = None =>
        /\ r.kind = "initialize" /\ r.creator = v.contracts[key[1]].creator
        /\ r.metadata = v.contracts[key[1]].contract_metadata_hash /\ r.metadata # None

Authorised(v, sg) == \A key \in DOMAIN v.ccl : \E r \in sg : Authorises(v, key, r)

ListOK(list, enclaves) ==
    /\ Elements(list) \subseteq enclaves
    /\ \A j, k \in 1..Len(list) : list[j] = list[k] => j = k

ListsOK(v) == \A c \in DOMAIN v.contracts : ListOK(v.contracts[c].enclave_info, v.enclaves)
Active(v) == \A c \in DOMAIN v.contracts : v.contracts[c].is_active

VersionGood(v, sg) == Authorised(v, sg) /\ ListsOK(v) /\ Active(v)

Policy(v) == v.flag # None /\ (v.flag = TRUE => v.measurements # None)

(* What the answer a says is in the tables v.                              *)
AnswerIn(a, v) ==
    LET f == a.fact IN
    /\ a.kind # "none" => a.by = v.signer /\ a.by # None
    /\ a.kind = "enclave" => f \in v.enclaves
    /\ a.kind = "provisioning" =>
        /\ f[1] \in DOMAIN v.contracts /\ f[2] = v.contracts[f[1]].creator
        /\ f[3] \in Seq(Enclaves) /\ IsPrefixOf(f[3], v.contracts[f[1]].enclave_info)
    /\ a.kind = "info" =>
        /\ f[1] \in DOMAIN v.contracts /\ f[2] = v.contracts[f[1]].creator
        /\ f[3] # None => f[3] = v.contracts[f[1]].contract_metadata_hash
    /\ a.kind = "state" => f \in DOMAIN v.ccl
    /\ a.kind = "details" => f[1] \in DOMAIN v.ccl /\ f[2] = v.ccl[f[1]]

(* A node that has a copy of the signing key has the one in the tables v.  *)
KeysCommitted(local, v) == \A n \in Nodes : local[n] # None => local[n] = v.signer

JInv ==
    /\ \A r \in signed : r.kind = "update" => r.prev # None
    /\ \A i \in 0..last : VersionGood(kv[i], signed)
    /\ \A i \in 0..last : kv[i].enclaves # {} => Policy(kv[0])
    /\ KeysCommitted(ledger_signer_local, kv[0])
    /\ AnswerIn(reply, kv[0])

(* A list that another one extends has its elements.                       *)
LEMMA PrefixElements ==
    ASSUME NEW l \in Seq(Enclaves), NEW m \in Seq(Enclaves), IsPrefixOf(l, m)
    PROVE  Elements(l) \subseteq Elements(m)
BY DEF IsPrefixOf, Elements

(* Extending twice is extending.                                           *)
LEMMA PrefixTrans ==
    ASSUME NEW l \in Seq(Enclaves), NEW m \in Seq(Enclaves), NEW o \in Seq(Enclaves),
           IsPrefixOf(l, m), IsPrefixOf(m, o)
    PROVE  IsPrefixOf(l, o)
BY DEF IsPrefixOf

(* A state stays authorised when its contract gains enclaves.              *)
LEMMA AuthorisesKept ==
    ASSUME NEW sg, NEW v, VersionOK(v, sg), NEW w, TablesOK(w), Keeps(v, w),
           NEW key \in DOMAIN v.ccl, NEW r, Authorises(v, key, r)
    PROVE  Authorises(w, key, r)
<1>1. key[1] \in DOMAIN v.contracts
  BY Zenon DEF VersionOK, RecordedAsSigned
<1>2. /\ key \in DOMAIN w.ccl /\ w.ccl[key] = v.ccl[key]
      /\ key[1] \in DOMAIN w.contracts
      /\ w.contracts[key[1]].creator = v.contracts[key[1]].creator
      /\ v.contracts[key[1]].contract_metadata_hash # None =>
            w.contracts[key[1]].contract_metadata_hash = v.contracts[key[1]].contract_metadata_hash
      /\ IsPrefixOf(v.contracts[key[1]].enclave_info, w.contracts[key[1]].enclave_info)
  BY <1>1, Zenon DEF Keeps
<1>3. /\ v.contracts[key[1]].enclave_info \in Seq(Enclaves)
      /\ w.contracts[key[1]].enclave_info \in Seq(Enclaves)
  BY <1>1, <1>2, EnclaveInfoType, Zenon DEF VersionOK
<1>4. Elements(v.contracts[key[1]].enclave_info) \subseteq Elements(w.contracts[key[1]].enclave_info)
  BY <1>2, <1>3, PrefixElements, ZenonT(40)
<1> QED BY <1>2, <1>4, Zenon DEF Authorises

(* Tables that record no further state.                                    *)
LEMMA AuthorisedKept ==
    ASSUME NEW sg, NEW v, VersionOK(v, sg), Authorised(v, sg),
           NEW w, TablesOK(w), Keeps(v, w), w.ccl = v.ccl
    PROVE  Authorised(w, sg)
BY AuthorisesKept, Zenon DEF Authorised

(* The operator's transactions and the registration of an enclave.         *)
LEMMA SetupGood ==
    ASSUME NEW sg, NEW v, VersionOK(v, sg), VersionGood(v, sg), NEW w, VersionOK(w, sg), Follows(v, w),
           w.contracts = v.contracts, w.ccl = v.ccl
    PROVE  VersionGood(w, sg)
<1>1. Authorised(w, sg)
  BY AuthorisedKept, Zenon DEF VersionOK, VersionGood, Follows
<1>2. v.enclaves \subseteq w.enclaves
  BY Zenon DEF Follows, Keeps
<1> QED BY <1>1, <1>2, ZenonT(40) DEF VersionGood, ListsOK, ListOK, Active

(* register_contract: the new contract is active and has no enclaves.      *)
LEMMA RegisterContractGood ==
    ASSUME NEW sg, NEW v, VersionOK(v, sg), VersionGood(v, sg), NEW c \in Contracts, NEW p \in Creators,
           c \notin DOMAIN v.contracts,
           NEW w, w = NewContract(v, c, p), VersionOK(w, sg), Follows(v, w)
    PROVE  VersionGood(w, sg)
<1> DEFINE info == [creator |-> p, is_active |-> TRUE, enclave_info |-> <<>>,
                    contract_metadata_hash |-> None, current_state_hash |-> None]
<1>1. /\ w.ccl = v.ccl /\ w.enclaves = v.enclaves
      /\ w.contracts = Put(v.contracts, c, info)
  BY Zenon DEF VersionOK, TablesOK, NewContract
<1>2. info.is_active /\ info.enclave_info = <<>>
  BY Zenon
<1> HIDE DEF info
<1>3. /\ DOMAIN w.contracts = DOMAIN v.contracts \cup {c}
      /\ \A d \in DOMAIN v.contracts : w.contracts[d] = v.contracts[d]
      /\ w.contracts[c] = info
  BY <1>1, Zenon DEF Put
<1>4. Authorised(w, sg)
  BY <1>1, AuthorisedKept, Zenon DEF VersionOK, VersionGood, Follows
<1>5. ListOK(<<>>, w.enclaves)
  BY DEF ListOK, Elements
<1> QED BY <1>1, <1>2, <1>3, <1>4, <1>5, Zenon DEF VersionGood, ListsOK, Active

(* Lists without common elements, each without repetitions.                *)
LEMMA ListConcat ==
    ASSUME NEW l \in Seq(Enclaves), NEW m \in Seq(Enclaves), NEW E,
           ListOK(l, E), ListOK(m, E),
           \A i \in 1..Len(m) : m[i] \notin Elements(l)
    PROVE  ListOK(l \o m, E)
<1>1. /\ l \o m \in Seq(Enclaves) /\ Len(l \o m) = Len(l) + Len(m)
      /\ Len(l) \in Nat /\ Len(m) \in Nat
      /\ \A i \in 1..Len(l) : (l \o m)[i] = l[i]
      /\ \A i \in Len(l) + 1..Len(l) + Len(m) : (l \o m)[i] = m[i - Len(l)]
  OBVIOUS
<1>2. \A i \in 1..Len(l) : l[i] \in Elements(l)
  BY Zenon DEF Elements
<1> DEFINE n == l \o m
<1>3. \A i \in 1..Len(n) :
         \/ i \in 1..Len(l) /\ n[i] = l[i] /\ n[i] \in Elements(l)
         \/ i - Len(l) \in 1..Len(m) /\ n[i] = m[i - Len(l)] /\ n[i] \notin Elements(l)
  BY <1>1, <1>2
<1>4. \A i \in 1..Len(m) : m[i] \in E
  BY Zenon DEF ListOK, Elements
<1>5. \A i \in 1..Len(n) : n[i] \in E
  BY <1>3, <1>4, Zenon DEF ListOK
<1> HIDE DEF n
<1>6. \A j, k \in 1..Len(n) : n[j] = n[k] => j = k
  <2> SUFFICES ASSUME NEW j \in 1..Len(n), NEW k \in 1..Len(n), n[j] = n[k] PROVE j = k
    BY Zenon
  <2>1. CASE n[j] \in Elements(l)
    BY <1>1, <1>3, <2>1 DEF ListOK
  <2>2. CASE n[j] \notin Elements(l)
    <3>1. /\ j - Len(l) \in 1..Len(m) /\ n[j] = m[j - Len(l)]
          /\ k - Len(l) \in 1..Len(m) /\ n[k] = m[k - Len(l)]
      BY <1>3, <2>2, Zenon
    <3>2. j - Len(l) = k - Len(l)
      BY <3>1, Zenon DEF ListOK
    <3> QED BY <1>1, <3>2
  <2> QED BY <2>1, <2>2, Zenon
<1>7. Elements(n) \subseteq E
  BY <1>5, Zenon DEF Elements
<1>8. ListOK(n, E)
  BY <1>6, <1>7, Zenon DEF ListOK
<1> QED BY <1>8, Zenon DEF n

(* add_enclave: the new enclaves are registered, and neither in the        *)
(* contract nor twice in the request.                                      *)
LEMMA AddEnclaveGood ==
    ASSUME NEW sg, NEW v, VersionOK(v, sg), VersionGood(v, sg), NEW c \in DOMAIN v.contracts,
           NEW list \in Seq(Enclaves), ListOK(list, v.enclaves),
           \A i \in 1..Len(list) : list[i] \notin Elements(v.contracts[c].enclave_info),
           NEW w, w = EnclavesAdded(v, c, list), VersionOK(w, sg), Follows(v, w)
    PROVE  VersionGood(w, sg)
<1>1. /\ w.ccl = v.ccl /\ w.enclaves = v.enclaves
      /\ w.contracts = [v.contracts EXCEPT ![c].enclave_info = @ \o list]
  BY Zenon DEF VersionOK, TablesOK, EnclavesAdded
<1> DEFINE old == v.contracts[c]
           new == [old EXCEPT !.enclave_info = @ \o list]
<1>2. old \in ContractInfo /\ old.enclave_info \in Seq(Enclaves)
  BY EnclaveInfoType, Zenon DEF VersionOK
<1>3. new.enclave_info = old.enclave_info \o list /\ new.is_active = old.is_active
  BY <1>2, Zenon DEF ContractInfo
<1>4. /\ DOMAIN w.contracts = DOMAIN v.contracts
      /\ \A d \in DOMAIN v.contracts : w.contracts[d] = IF d = c THEN new ELSE v.contracts[d]
  BY <1>1, Zenon DEF VersionOK, TablesOK
<1> HIDE DEF new
<1>5. ListOK(old.enclave_info, v.enclaves)
  BY Zenon DEF VersionGood, ListsOK
<1>6. ListOK(new.enclave_info, w.enclaves)
  BY <1>1, <1>2, <1>3, <1>5, ListConcat, ZenonT(40)
<1>7. Authorised(w, sg)
  BY <1>1, AuthorisedKept, Zenon DEF VersionOK, VersionGood, Follows
<1>8. ListsOK(w)
  BY <1>1, <1>4, <1>6, Zenon DEF VersionGood, ListsOK
<1>9. Active(w)
  BY <1>3, <1>4, Zenon DEF VersionGood, Active
<1> QED BY <1>7, <1>8, <1>9, Zenon DEF VersionGood

(* A state signed by an enclave of the contract, which the creator asked   *)
(* for if it is the first.                                                 *)
LEMMA RecordGood ==
    ASSUME NEW sg, NEW v, VersionOK(v, sg), VersionGood(v, sg), NEW r \in sg,
           r.contract \in DOMAIN v.contracts,
           r.enclave \in Elements(v.contracts[r.contract].enclave_info),
           NEW list, SignedFor(list) = r.deps, NEW m,
           r.prev = None =>
                /\ r.kind = "initialize" /\ r.creator = v.contracts[r.contract].creator
                /\ r.metadata = m /\ m # None,
           NEW w, w = Recorded(v, r, r.prev, list, m), VersionOK(w, sg), Follows(v, w)
    PROVE  VersionGood(w, sg)
<1> DEFINE c == r.contract
           key == <<r.contract, r.state>>
           old == v.contracts[c]
           new == [old EXCEPT !.current_state_hash = r.state, !.contract_metadata_hash = m]
           rec == [prev |-> r.prev, deps |-> list]
<1>1. /\ w.enclaves = v.enclaves
      /\ w.ccl = Put(v.ccl, key, rec)
      /\ w.contracts = [v.contracts EXCEPT ![c] = new]
  BY Zenon DEF VersionOK, TablesOK, Recorded
<1>2. /\ new.creator = old.creator
      /\ new.enclave_info = old.enclave_info
      /\ new.is_active = old.is_active
      /\ new.contract_metadata_hash = m
  BY EnclaveInfoType, ZenonT(40) DEF VersionOK, ContractInfo
<1>3. /\ DOMAIN w.contracts = DOMAIN v.contracts
      /\ \A d \in DOMAIN v.contracts : w.contracts[d] = IF d = c THEN new ELSE v.contracts[d]
  BY <1>1, Zenon DEF VersionOK, TablesOK
<1>4. /\ DOMAIN w.ccl = DOMAIN v.ccl \cup {key}
      /\ w.ccl[key] = rec
  BY <1>1, Zenon DEF Put
<1>5. key[1] = c /\ key[2] = r.state /\ rec.prev = r.prev /\ rec.deps = list
  BY Zenon
<1> HIDE DEF new, key, rec
<1>6. Authorises(w, key, r)
  BY <1>2, <1>3, <1>4, <1>5, Zenon DEF Authorises
<1>7. ASSUME NEW k \in DOMAIN v.ccl PROVE \E q \in sg : Authorises(w, k, q)
  BY AuthorisesKept, Zenon DEF VersionOK, VersionGood, Authorised, Follows
<1>8. Authorised(w, sg)
  BY <1>4, <1>6, <1>7, Zenon DEF Authorised
<1>9. ListsOK(w) /\ Active(w)
  <2>1. ASSUME NEW d \in DOMAIN v.contracts
        PROVE  /\ w.contracts[d].enclave_info = v.contracts[d].enclave_info
               /\ w.contracts[d].is_active = v.contracts[d].is_active
    BY <1>2, <1>3, Zenon
  <2> QED BY <1>1, <1>3, <2>1, Zenon DEF VersionGood, ListsOK, Active
<1> QED BY <1>8, <1>9, Zenon DEF VersionGood

(* What was answered is still so in tables that keep what these record.    *)
LEMMA AnswerKept ==
    ASSUME NEW a, NEW v, TablesOK(v), NEW w, TablesOK(w), Keeps(v, w), AnswerIn(a, v)
    PROVE  AnswerIn(a, w)
<1> DEFINE f == a.fact
<1>1. ASSUME a.kind = "provisioning"
      PROVE  IsPrefixOf(f[3], w.contracts[f[1]].enclave_info)
  <2>1. /\ f[1] \in DOMAIN v.contracts /\ f[1] \in DOMAIN w.contracts
        /\ f[3] \in Seq(Enclaves) /\ IsPrefixOf(f[3], v.contracts[f[1]].enclave_info)
        /\ IsPrefixOf(v.contracts[f[1]].enclave_info, w.contracts[f[1]].enclave_info)
    BY <1>1, Zenon DEF AnswerIn, Keeps
  <2>2. /\ v.contracts[f[1]].enclave_info \in Seq(Enclaves)
        /\ w.contracts[f[1]].enclave_info \in Seq(Enclaves)
    BY <2>1, EnclaveInfoType, Zenon
  <2> QED BY <2>1, <2>2, PrefixTrans, Zenon
<1> QED BY <1>1, Zenon DEF AnswerIn, Keeps

(* A new version with nothing wrong in it.                                 *)
LEMMA WriteGood ==
    ASSUME IInv, JInv, NEW t, Write(t), VersionGood(t, signed), t.enclaves # {} => Policy(kv[0]),
           UNCHANGED ledger_signer_local
    PROVE  JInv'
<1>1. /\ last \in Nat /\ last' = last + 1 /\ 0 \in 0..last
      /\ \A i \in 0..last : kv'[i] = kv[i]
      /\ kv'[last + 1] = t
      /\ signed' = signed /\ reply' = reply
  BY DEF IInv, TypeOK, Write
<1>2. kv'[0] = kv[0]
  BY <1>1, Zenon
<1>3. \A i \in 0..last' : i \in 0..last \/ i = last + 1
  BY <1>1
<1>4. /\ \A i \in 0..last' : VersionGood(kv'[i], signed')
      /\ \A i \in 0..last' : kv'[i].enclaves # {} => Policy(kv'[0])
  BY <1>1, <1>2, <1>3, Zenon DEF JInv
<1> QED BY <1>1, <1>2, <1>4, Zenon DEF JInv

(* A further enclave signature.                                            *)
LEMMA SignedGood ==
    ASSUME JInv, NEW r, r.kind = "update" => r.prev # None,
           signed' = signed \cup {r}, UNCHANGED <<kv, last, ledger_signer_local, reply>>
    PROVE  JInv'
<1>1. ASSUME NEW v, VersionGood(v, signed) PROVE VersionGood(v, signed')
  BY <1>1, Zenon DEF VersionGood, Authorised
<1>2. \A i \in 0..last' : VersionGood(kv'[i], signed')
  BY <1>1, Zenon DEF JInv
<1> QED BY <1>2, Zenon DEF JInv

(* A signed answer that the committed tables bear out.                     *)
LEMMA ReplyGood ==
    ASSUME IInv, JInv, NEW n \in Nodes, NEW kind, NEW fact, SignedReply(n, kind, fact),
           \A a : a.kind = kind /\ a.fact = fact /\ a.by = kv[0].signer /\ a.by # None
                    => AnswerIn(a, kv[0])
    PROVE  JInv'
<1>1. ledger_signer_local \in [Nodes -> Keys \cup {None}]
  BY Zenon DEF IInv, TypeOK
<1>2. PICK key : /\ key = kv[0].signer /\ key # None
                 /\ ledger_signer_local' = [ledger_signer_local EXCEPT ![n] = key]
                 /\ reply' = [kind |-> kind, by |-> key, fact |-> fact]
                 /\ UNCHANGED <<kv, last, signed>>
  <2>1. ledger_signer_local[n] # None => ledger_signer_local[n] = kv[0].signer
    BY Zenon DEF JInv, KeysCommitted
  <2> QED BY <2>1, Zenon DEF SignedReply, Global
<1>3. AnswerIn(reply', kv'[0])
  BY <1>2, Zenon
<1>4. KeysCommitted(ledger_signer_local', kv'[0])
  BY <1>1, <1>2, Zenon DEF JInv, KeysCommitted
<1> QED BY <1>2, <1>3, <1>4, Zenon DEF JInv

(* Every step of the ledger preserves the second invariant.                *)
LEMMA NextJInv == IInv /\ JInv /\ [Next]_vars => JInv'
<1> SUFFICES ASSUME IInv, JInv, [Next]_vars PROVE JInv'
  BY Zenon
<1>1. /\ VersionOK(Local, signed) /\ VersionGood(Local, signed) /\ TablesOK(Local)
      /\ SignedOnce(signed)
      /\ Local.enclaves # {} => Policy(kv[0])
      /\ VersionOK(kv[0], signed) /\ VersionGood(kv[0], signed) /\ TablesOK(kv[0])
      /\ last \in Nat /\ 0 \in 0..last
  <2>1. last \in Nat /\ 0 \in 0..last /\ last \in 0..last
    BY DEF IInv, TypeOK
  <2> QED BY <2>1, Zenon DEF IInv, JInv, Local, VersionOK
<1>2. ASSUME NEW b \in FlagValues, SetContractEnclaveAttestationCheckFlag(b) PROVE JInv'
  <2> DEFINE t == [Local EXCEPT !.flag = b]
  <2>1. VersionOK(t, signed) /\ Follows(Local, t)
    BY <1>1, <1>2, SetupStep, Zenon DEF SetContractEnclaveAttestationCheckFlag
  <2>2. t.contracts = Local.contracts /\ t.ccl = Local.ccl /\ t.enclaves = Local.enclaves
    BY <1>1, Zenon DEF TablesOK
  <2>3. Write(t) /\ UNCHANGED ledger_signer_local
    BY <1>2, Zenon DEF SetContractEnclaveAttestationCheckFlag, nodeMemory
  <2> HIDE DEF t
  <2> QED BY <1>1, <2>1, <2>2, <2>3, SetupGood, WriteGood, Zenon
<1>3. ASSUME NEW m \in Measurements, SetContractEnclaveExpectedSgxMeasurements(m) PROVE JInv'
  <2> DEFINE t == [Local EXCEPT !.measurements = m]
  <2>1. VersionOK(t, signed) /\ Follows(Local, t)
    BY <1>1, <1>3, SetupStep, LedgerAssumption, Zenon
  <2>2. t.contracts = Local.contracts /\ t.ccl = Local.ccl /\ t.enclaves = Local.enclaves
    BY <1>1, Zenon DEF TablesOK
  <2>3. Write(t) /\ UNCHANGED ledger_signer_local
    BY <1>3, Zenon DEF SetContractEnclaveExpectedSgxMeasurements, nodeMemory
  <2> HIDE DEF t
  <2> QED BY <1>1, <2>1, <2>2, <2>3, SetupGood, WriteGood
<1>4. ASSUME NEW k \in Keys, GenSigningKey(k) PROVE JInv'
  <2> DEFINE t == [Local EXCEPT !.signer = k]
  <2>1. VersionOK(t, signed) /\ Follows(Local, t)
    BY <1>1, <1>4, SetupStep, Zenon DEF GenSigningKey, NoSigner
  <2>2. t.contracts = Local.contracts /\ t.ccl = Local.ccl /\ t.enclaves = Local.enclaves
    BY <1>1, Zenon DEF TablesOK
  <2>3. Write(t) /\ UNCHANGED ledger_signer_local
    BY <1>4, Zenon DEF GenSigningKey, nodeMemory
  <2> HIDE DEF t
  <2> QED BY <1>1, <2>1, <2>2, <2>3, SetupGood, WriteGood
<1>5. ASSUME NEW e \in Enclaves, RegisterEnclave(e) PROVE JInv'
  <2> DEFINE t == [Local EXCEPT !.enclaves = @ \cup {e}]
  <2>1. VersionOK(t, signed) /\ Follows(Local, t)
    BY <1>1, SetupStep, Zenon
  <2>2. t.contracts = Local.contracts /\ t.ccl = Local.ccl
    BY <1>1, Zenon DEF TablesOK
  <2>3. Write(t) /\ UNCHANGED ledger_signer_local
    BY <1>5, Zenon DEF RegisterEnclave
  <2>4. Policy(kv[0])
    BY <1>5, Zenon DEF RegisterEnclave, Attested, Policy, Global
  <2> HIDE DEF t
  <2> QED BY <1>1, <2>1, <2>2, <2>3, <2>4, SetupGood, WriteGood, Zenon
<1>6. ASSUME NEW c \in Contracts, NEW p \in Creators, RegisterContract(c, p) PROVE JInv'
  <2> DEFINE t == NewContract(Local, c, p)
  <2>1. c \notin DOMAIN Local.contracts /\ Write(t) /\ UNCHANGED ledger_signer_local
    BY <1>6, Zenon DEF RegisterContract, Unregistered, nodeMemory
  <2>2. VersionOK(t, signed) /\ Follows(Local, t)
    BY <1>1, <2>1, RegisterContractStep, Zenon
  <2>3. t.enclaves = Local.enclaves
    BY <1>1, Zenon DEF TablesOK, NewContract
  <2>4. VersionGood(t, signed)
    BY <1>1, <2>1, <2>2, RegisterContractGood, Zenon
  <2> HIDE DEF t
  <2> QED BY <1>1, <2>1, <2>3, <2>4, WriteGood, Zenon
<1>7. ASSUME NEW c \in Contracts, NEW p \in Creators, NEW infos \in EnclaveInfoArrays,
             AddEnclave(c, p, infos)
      PROVE  JInv'
  <2> DEFINE list == [i \in 1..Len(infos) |-> infos[i].enclave]
             t == EnclavesAdded(Local, c, list)
  <2>1. list \in Seq(Enclaves) /\ Len(list) = Len(infos) /\ Len(infos) \in Nat
    <3>1. Len(infos) \in Nat /\ \A i \in 1..Len(infos) : infos[i].enclave \in Enclaves
      BY LedgerAssumption DEF EnclaveInfoArrays, ContractEnclaveInfo
    <3>2. list \in [1..Len(infos) -> Enclaves]
      BY <3>1, Zenon
    <3> QED BY <3>1, <3>2
  <2>2. \A i \in 1..Len(list) : list[i] = infos[i].enclave
    BY <2>1, Zenon
  <2>3. /\ c \in DOMAIN Local.contracts /\ Write(t) /\ UNCHANGED ledger_signer_local
        /\ \A i \in 1..Len(infos) :
            /\ infos[i].enclave \in Local.enclaves
            /\ infos[i].enclave \notin Elements(Local.contracts[c].enclave_info)
            /\ \A j \in 1..i - 1 : infos[j].enclave # infos[i].enclave
    BY <1>7, Zenon DEF AddEnclave, NewToContract, nodeMemory
  <2> HIDE DEF list
  <2>4. ListOK(list, Local.enclaves)
    <3>1. Elements(list) \subseteq Local.enclaves
      BY <2>1, <2>2, <2>3, ZenonT(40) DEF Elements
    <3>2. ASSUME NEW j \in 1..Len(list), NEW k \in 1..Len(list), list[j] = list[k] PROVE j = k
      <4>1. j < k => j \in 1..k - 1
        BY <2>1
      <4>2. k < j => k \in 1..j - 1
        BY <2>1
      <4> QED BY <2>1, <2>2, <2>3, <3>2, <4>1, <4>2
    <3> QED BY <3>1, <3>2, Zenon DEF ListOK
  <2>5. \A i \in 1..Len(list) : list[i] \notin Elements(Local.contracts[c].enclave_info)
    BY <2>1, <2>2, <2>3, Zenon
  <2>6. VersionOK(t, signed) /\ Follows(Local, t)
    BY <1>1, <2>1, <2>3, AddEnclaveStep, Zenon
  <2>7. VersionGood(t, signed)
    BY <1>1, <2>1, <2>3, <2>4, <2>5, <2>6, AddEnclaveGood, Zenon
  <2>8. t.enclaves = Local.enclaves
    BY <1>1, Zenon DEF TablesOK, EnclavesAdded
  <2> HIDE DEF t
  <2> QED BY <1>1, <2>3, <2>7, <2>8, WriteGood, Zenon
<1>8. ASSUME NEW r \in signed, NEW p \in Creators, InitializeContractState(r, p) PROVE JInv'
  <2> DEFINE t == Recorded(Local, r, r.prev, {}, r.metadata)
  <2>1. InitializesOnce(r) /\ Write(t) /\ UNCHANGED ledger_signer_local
    BY <1>1, <1>8, InitializeChecks, Zenon DEF nodeMemory
  <2>2. VersionOK(t, signed) /\ Follows(Local, t)
    BY <1>1, <2>1, RecordStep, NoDependencies, Zenon DEF InitializesOnce
  <2>3. r.metadata # None
    BY <2>1, LedgerAssumption, Zenon DEF InitializesOnce
  <2>4. VersionGood(t, signed)
    BY <1>1, <2>1, <2>2, <2>3, RecordGood, NoDependencies, Zenon DEF InitializesOnce
  <2>5. t.enclaves = Local.enclaves
    BY <1>1, Zenon DEF TablesOK, Recorded
  <2> HIDE DEF t
  <2> QED BY <1>1, <2>1, <2>4, <2>5, WriteGood, Zenon
<1>20. ASSUME NEW r \in signed, NEW list \in DependencyLists(r), UpdateContractState(r, list) PROVE JInv'
  <2> DEFINE m == Local.contracts[r.contract].contract_metadata_hash
             t == Recorded(Local, r, r.prev, list, m)
  <2>1. ExtendsHistory(r, list) /\ Write(t) /\ UNCHANGED ledger_signer_local
    BY <1>1, <1>20, UpdateChecks, Zenon DEF nodeMemory
  <2>2. m \in Metadata \cup {None}
    BY <1>1, <2>1, EnclaveInfoType, Zenon DEF ExtendsHistory, ContractInfo
  <2>3. VersionOK(t, signed) /\ Follows(Local, t)
    BY <1>1, <2>1, <2>2, RecordStep, Zenon DEF ExtendsHistory
  <2>4. r.prev # None
    BY <2>1, Zenon DEF JInv, ExtendsHistory
  <2>5. VersionGood(t, signed)
    BY <1>1, <2>1, <2>3, <2>4, RecordGood, Zenon DEF ExtendsHistory
  <2>6. t.enclaves = Local.enclaves
    BY <1>1, Zenon DEF TablesOK, Recorded
  <2> HIDE DEF t
  <2> QED BY <1>1, <2>1, <2>5, <2>6, WriteGood, Zenon
<1>9. ASSUME NEW e \in Enclaves, NEW c \in Contracts, NEW p \in Creators, NEW m \in Metadata,
             NEW s \in Hashes, EnclaveInitialize(e, c, p, m, s)
      PROVE  JInv'
  <2> DEFINE r == [kind |-> "initialize", contract |-> c, creator |-> p, enclave |-> e,
                   metadata |-> m, prev |-> None, state |-> s, deps |-> {}]
  <2>1. /\ signed' = signed \cup {r} /\ UNCHANGED <<kv, last, ledger_signer_local, reply>>
        /\ r.kind # "update"
    BY <1>9, Zenon DEF EnclaveInitialize, nodeMemory
  <2> HIDE DEF r
  <2> QED BY <2>1, SignedGood, Zenon
<1>10. ASSUME NEW e \in Enclaves, NEW base \in signed, NEW s \in Hashes,
              NEW deps \in SUBSET Produced, EnclaveUpdate(e, base, s, deps)
       PROVE  JInv'
  <2> DEFINE r == [kind |-> "update", contract |-> base.contract, creator |-> None, enclave |-> e,
                   metadata |-> None, prev |-> base.state, state |-> s, deps |-> deps]
  <2>1. base.state # None
    BY <1>1, LedgerAssumption, Zenon DEF SignedOnce, Evaluation
  <2>2. /\ signed' = signed \cup {r} /\ UNCHANGED <<kv, last, ledger_signer_local, reply>>
        /\ r.prev # None
    BY <1>10, <2>1, Zenon DEF EnclaveUpdate, nodeMemory
  <2> HIDE DEF r
  <2> QED BY <2>2, SignedGood, Zenon
<1>11. ASSUME NEW n \in Nodes, GetLedgerKey(n) PROVE JInv'
  <2>1. /\ kv[0].signer # None
        /\ UNCHANGED <<kv, last, signed>>
        /\ reply' = [kind |-> "key", by |-> kv[0].signer, fact |-> None]
    BY <1>11, Zenon DEF GetLedgerKey, Global
  <2>2. AnswerIn(reply', kv'[0])
    BY <2>1, Zenon DEF AnswerIn
  <2>3. ledger_signer_local \in [Nodes -> Keys \cup {None}]
    BY Zenon DEF IInv, TypeOK
  <2>4. KeysCommitted(ledger_signer_local', kv'[0])
    BY <1>11, <2>1, <2>3, Zenon DEF GetLedgerKey, Global, JInv, KeysCommitted
  <2> QED BY <2>1, <2>2, <2>4, Zenon DEF JInv
<1>12. ASSUME NEW n \in Nodes, NEW e \in Enclaves, VerifyEnclave(n, e) PROVE JInv'
  <2>1. e \in kv[0].enclaves /\ SignedReply(n, "enclave", e)
    BY <1>12, Zenon DEF VerifyEnclave, Global
  <2>2. \A a : a.kind = "enclave" /\ a.fact = e /\ a.by = kv[0].signer /\ a.by # None
                 => AnswerIn(a, kv[0])
    BY <2>1, Zenon DEF AnswerIn
  <2> QED BY <2>1, <2>2, ReplyGood, Zenon
<1>13. ASSUME NEW n \in Nodes, NEW c \in Contracts, GetContractProvisioningInfo(n, c) PROVE JInv'
  <2> DEFINE info == kv[0].contracts[c]
             fact == <<c, info.creator, info.enclave_info>>
  <2>1. c \in DOMAIN kv[0].contracts /\ SignedReply(n, "provisioning", fact)
    BY <1>13, Zenon DEF GetContractProvisioningInfo, Global
  <2>2. info.enclave_info \in Seq(Enclaves) /\ IsPrefixOf(info.enclave_info, info.enclave_info)
    BY <1>1, <2>1, EnclaveInfoType, PrefixRefl, Zenon
  <2>3. fact[1] = c /\ fact[2] = info.creator /\ fact[3] = info.enclave_info
    BY Zenon
  <2> HIDE DEF fact
  <2>4. \A a : a.kind = "provisioning" /\ a.fact = fact /\ a.by = kv[0].signer /\ a.by # None
                 => AnswerIn(a, kv[0])
    BY <2>1, <2>2, <2>3, Zenon DEF AnswerIn
  <2> QED BY <2>1, <2>4, ReplyGood, Zenon
<1>14. ASSUME NEW n \in Nodes, NEW c \in Contracts, GetContractInfo(n, c) PROVE JInv'
  <2> DEFINE fact == <<c, kv[0].contracts[c].creator, kv[0].contracts[c].contract_metadata_hash>>
  <2>1. c \in DOMAIN kv[0].contracts /\ SignedReply(n, "info", fact)
    BY <1>14, Zenon DEF GetContractInfo, Global
  <2>2. /\ fact[1] = c /\ fact[2] = kv[0].contracts[c].creator
        /\ fact[3] = kv[0].contracts[c].contract_metadata_hash
    BY Zenon
  <2> HIDE DEF fact
  <2>3. \A a : a.kind = "info" /\ a.fact = fact /\ a.by = kv[0].signer /\ a.by # None
                 => AnswerIn(a, kv[0])
    BY <2>1, <2>2, Zenon DEF AnswerIn
  <2> QED BY <2>1, <2>3, ReplyGood, Zenon
<1>15. ASSUME NEW n \in Nodes, NEW c \in Contracts, GetCurrentStateInfoForContract(n, c) PROVE JInv'
  <2> DEFINE cur == kv[0].contracts[c].current_state_hash
             fact == <<c, cur>>
  <2>1. c \in DOMAIN kv[0].contracts /\ SignedReply(n, "state", fact)
    BY <1>15, Zenon DEF GetCurrentStateInfoForContract, Global
  <2>2. cur # None /\ cur = HeadOf(kv[0], c)
    BY <1>1, <1>15, <2>1, Zenon DEF GetCurrentStateInfoForContract, Global, VersionGood, Active, HeadOf
  <2>3. cur \in StatesOf(kv[0], c)
    BY <1>1, <2>2, Zenon DEF VersionOK, Unforked, OneLine
  <2>4. fact \in DOMAIN kv[0].ccl
    BY <2>3, Zenon DEF StatesOf
  <2> HIDE DEF fact
  <2>5. \A a : a.kind = "state" /\ a.fact = fact /\ a.by = kv[0].signer /\ a.by # None
                 => AnswerIn(a, kv[0])
    BY <2>4, Zenon DEF AnswerIn
  <2> QED BY <2>1, <2>5, ReplyGood, Zenon
<1>16. ASSUME NEW n \in Nodes, NEW key \in StateKey, GetDetailsAboutState(n, key) PROVE JInv'
  <2> DEFINE fact == <<key, kv[0].ccl[key]>>
  <2>1. key \in DOMAIN kv[0].ccl /\ SignedReply(n, "details", fact)
    BY <1>16, Zenon DEF GetDetailsAboutState, Global
  <2>2. fact[1] = key /\ fact[2] = kv[0].ccl[key]
    BY Zenon
  <2> HIDE DEF fact
  <2>3. \A a : a.kind = "details" /\ a.fact = fact /\ a.by = kv[0].signer /\ a.by # None
                 => AnswerIn(a, kv[0])
    BY <2>1, <2>2, Zenon DEF AnswerIn
  <2> QED BY <2>1, <2>3, ReplyGood, Zenon
<1>17. CASE GlobalCommit
  <2>1. /\ 1 \in 1..last /\ 1 \in 0..last /\ kv'[0] = kv[1]
        /\ \A i \in 0..last' : kv'[i] = kv[i + 1] /\ i + 1 \in 0..last
        /\ UNCHANGED <<signed, ledger_signer_local, reply>>
    BY <1>1, <1>17 DEF GlobalCommit, nodeMemory
  <2>2. Keeps(kv[0], kv[1]) /\ TablesOK(kv[1])
    BY <2>1 DEF IInv, Follows, VersionOK
  <2>3. Policy(kv[0]) => Policy(kv[1])
    BY <2>2, Zenon DEF Keeps, Policy
  <2>4. KeysCommitted(ledger_signer_local, kv[1])
    BY <2>2, Zenon DEF JInv, KeysCommitted, Keeps
  <2>5. AnswerIn(reply, kv[1])
    BY <1>1, <2>2, AnswerKept, Zenon DEF JInv
  <2> QED BY <2>1, <2>3, <2>4, <2>5, Zenon DEF JInv
<1>18. ASSUME NEW n \in Nodes, NEW r \in 0..last, NEW stopped \in BOOLEAN, Failover(n, r, stopped)
       PROVE  JInv'
  <2>1. /\ \A i \in 0..last' : kv'[i] = kv[i] /\ i \in 0..last
        /\ kv'[0] = kv[0]
        /\ UNCHANGED <<signed, reply>>
    BY <1>1, <1>18 DEF Failover
  <2>2. ledger_signer_local \in [Nodes -> Keys \cup {None}]
    BY Zenon DEF IInv, TypeOK
  <2>3. KeysCommitted(ledger_signer_local', kv'[0])
    BY <1>18, <2>1, <2>2, Zenon DEF Failover, JInv, KeysCommitted
  <2> QED BY <2>1, <2>3, Zenon DEF JInv
<1>19. CASE UNCHANGED vars
  BY <1>19, Zenon DEF vars, JInv
<1> QED
  BY <1>2, <1>3, <1>4, <1>5, <1>6, <1>7, <1>8, <1>9, <1>10, <1>11, <1>12, <1>13, <1>14, <1>15, <1>16, Zenon,
     <1>17, <1>18, <1>19, <1>20
     DEF Next

(* The empty ledger satisfies the second invariant.                        *)
LEMMA InitJInv == Init => JInv
<1> SUFFICES ASSUME Init PROVE JInv
  OBVIOUS
<1>1. /\ last = 0 /\ kv[0] = EmptyTables /\ signed = {} /\ reply = NoReply
      /\ 0..last = {0} /\ \A n \in Nodes : ledger_signer_local[n] = None
  BY DEF Init
<1>2. /\ DOMAIN EmptyTables.ccl = {} /\ DOMAIN EmptyTables.contracts = {}
      /\ EmptyTables.enclaves = {}
  BY Zenon DEF EmptyTables, EmptyTable
<1>3. VersionGood(EmptyTables, {})
  BY <1>2, Zenon DEF VersionGood, Authorised, ListsOK, Active
<1>4. AnswerIn(NoReply, EmptyTables)
  BY Zenon DEF AnswerIn, NoReply
<1> QED BY <1>1, <1>2, <1>3, <1>4, Zenon DEF JInv, KeysCommitted

(* Both invariants hold in every reachable state.                          *)
LEMMA BothInvariants == Spec => [](IInv /\ JInv)
<1>1. Init => IInv /\ JInv
  BY InitIInv, InitJInv, Zenon
<1>2. (IInv /\ JInv) /\ [Next]_vars => (IInv /\ JInv)'
  BY NextIInv, NextJInv, Zenon
<1> QED BY <1>1, <1>2, PTL DEF Spec

(* Whatever is submitted in whatever order, and whichever node executes    *)
(* it, update_contract_state and initialize_contract_state record only     *)
(* states that an enclave of the contract signed, with what it signed of   *)
(* the dependencies, from an initialization by its creator on, whose       *)
(* metadata the contract keeps.                                            *)
THEOREM Authorisation == Spec => []StatesAuthorised
<1>1. JInv => StatesAuthorised
  BY Zenon DEF JInv, VersionGood, Authorised, Authorises, StatesAuthorised
<1> QED BY <1>1, BothInvariants, PTL

(* register_enclave lets no enclave in before the operator's policy is     *)
(* committed, and add_enclave lets each into a contract once: for any      *)
(* number of enclaves per request, and with policy and registrations       *)
(* rolled back at any time.                                                *)
THEOREM Vetting == Spec => []EnclavesAreVetted
<1>1. IInv /\ JInv => EnclavesAreVetted
  BY Zenon DEF JInv, VersionGood, ListsOK, ListOK, Policy, Global, EnclavesAreVetted, RegisteredUnderPolicy,
         ContractEnclaves
<1> QED BY <1>1, BothInvariants, PTL

(* What a read handler has answered, from the committed tables and with    *)
(* the node's own copy of the key, holds from then on, whatever is         *)
(* committed, rolled back or restarted afterwards.                         *)
THEOREM Answers == Spec => []ReplyHolds
<1>1. JInv => ReplyHolds
  BY Zenon DEF JInv, AnswerIn, ReplyHolds, Global
<1> QED BY <1>1, BothInvariants, PTL
=============================================================================
