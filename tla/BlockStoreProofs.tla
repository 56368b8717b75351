-------------------------- MODULE BlockStoreProofs --------------------------
(***************************************************************************)
(* BlockStore is correct for all sets of blocks and requests and all       *)
(* durations: data and metadata agree, an acknowledged lease is never cut, *)
(* and a synced state stays for as long as the sync vouches for it.        *)
(***************************************************************************)
EXTENDS BlockStore, TLAPS

(* A block that is not stored has no lease.                                *)
NoLease == \A b \in Blocks : ~Present(b) => promised[b] = 0

(* What a sync found in the store is safe for MinimumDuration after the    *)
(* check; the rest is still to be pushed.                                  *)
Safe(c, b) ==
    \/ b \in lost
    \/ now > client[c].since + MinimumDuration
    \/ Present(b) /\ meta_data[b] >= client[c].since + MinimumDuration

SyncInv ==
    \A c \in Clients : client[c].pc \in {"checked", "push", "synced"} =>
        /\ client[c].duration = SyncDuration
        /\ client[c].pc = "push" => client[c].time >= client[c].since
        /\ client[c].since <= now
        /\ \A b \in client[c].state :
                Safe(c, b) \/ (client[c].pc # "synced" /\ b \in client[c].blocks)

(* The inductive invariant.                                                *)
IInv ==
    /\ TypeOK
    /\ DatabasesAgree
    /\ NoLease
    /\ LeaseKept
    /\ SyncInv

(* Leases are natural numbers, and what is granted is at most the lease.   *)
LEMMA LeaseType ==
    ASSUME NEW d \in Nat
    PROVE  Granted(d) \in Nat /\ Lease(d) \in Nat /\ Granted(d) <= Lease(d)
BY BlockStoreAssumption DEF Granted, Lease

(* A write transaction never makes a block's lease shorter                 *)
(* (store_blocks).                                                         *)
LEMMA LaterType ==
    ASSUME NEW old \in Nat \cup {None}, NEW new \in Nat
    PROVE  /\ Later(old, new) \in Nat
           /\ Later(old, new) # None
           /\ Later(old, new) >= new
           /\ old # None => Later(old, new) >= old
           /\ Later(old, new) = new \/ Later(old, new) = old
BY BlockStoreAssumption DEF Later

(* The empty store.                                                        *)
LEMMA InitInv == Init => IInv
BY BlockStoreAssumption
   DEF Init, IInv, TypeOK, DatabasesAgree, NoLease, LeaseKept, SyncInv, Present, IdleClient

(* Every step keeps the invariant: the clock, the requests, the enclave's  *)
(* puts and the collector.                                                 *)
LEMMA StepInv == IInv /\ [Next]_vars => IInv'
<1> SUFFICES ASSUME IInv, [Next]_vars PROVE IInv'
  OBVIOUS
<1> USE DEF IInv
<1>0. /\ now \in Nat /\ MinimumDuration \in Nat /\ MinimumTime \in Nat /\ SyncDuration \in Nat
      /\ MaxTime \in Nat /\ Durations \subseteq Nat /\ None \notin Nat
  BY BlockStoreAssumption DEF TypeOK
<1>1. ASSUME Tick PROVE IInv'
  <2> USE DEF Tick, storeVars
  <2>1. TypeOK'
    BY <1>0, <1>1 DEF TypeOK
  <2>2. DatabasesAgree'
    BY <1>0, <1>1 DEF TypeOK, DatabasesAgree, Present
  <2>3. NoLease' /\ LeaseKept'
    BY <1>0, <1>1 DEF TypeOK, NoLease, LeaseKept, Present
  <2>4. SyncInv'
    BY <1>0, <1>1 DEF TypeOK, SyncInv, Safe, Present
  <2> QED BY <2>1, <2>2, <2>3, <2>4
<1>2. ASSUME NEW c \in Clients, NEW bs \in SUBSET Blocks, NEW d \in Durations, StoreBlocks(c, bs, d) PROVE IInv'
  <2> USE DEF StoreBlocks, IdleClient, storeVars
  <2>1. TypeOK'
    BY <1>0, <1>2 DEF TypeOK
  <2>2. DatabasesAgree'
    BY <1>0, <1>2 DEF TypeOK, DatabasesAgree, Present
  <2>3. NoLease' /\ LeaseKept'
    BY <1>0, <1>2 DEF TypeOK, NoLease, LeaseKept, Present
  <2>4. SyncInv'
    BY <1>0, <1>2 DEF TypeOK, SyncInv, Safe, Present
  <2> QED BY <2>1, <2>2, <2>3, <2>4
<1>3. ASSUME NEW c \in Clients, CommitStore(c) PROVE IInv'
  <2> DEFINE bs == client[c].blocks
             d == client[c].duration
             t == client[c].time
  <2>0. /\ bs \subseteq Blocks /\ d \in Nat /\ t \in Nat
        /\ t + Lease(d) \in Nat /\ t + Granted(d) \in Nat /\ t + Granted(d) <= t + Lease(d)
    <3>1. bs \subseteq Blocks /\ d \in Nat /\ t \in Nat
      BY DEF TypeOK
    <3> QED BY <3>1, LeaseType
  <2>1. /\ meta_data' = [b \in Blocks |->
                IF b \in bs THEN Later(meta_data[b], t + Lease(d)) ELSE meta_data[b]]
        /\ block_data' = block_data \cup {b \in bs : ~Present(b)}
        /\ promised' = [b \in Blocks |->
                IF b \in bs THEN Later(promised[b], t + Granted(d)) ELSE promised[b]]
        /\ client' = [client EXCEPT ![c] = IF client[c].pc = "store" THEN IdleClient
                                           ELSE [client[c] EXCEPT !.pc = "synced"]]
        /\ now' = now /\ collector' = collector /\ lost' = lost
    BY <1>3 DEF CommitStore, Extended
  <2>2. \A b \in bs : /\ meta_data'[b] \in Nat
                      /\ meta_data'[b] >= t + Lease(d)
                      /\ meta_data[b] # None => meta_data'[b] >= meta_data[b]
                      /\ promised'[b] \in Nat
                      /\ \/ promised'[b] = promised[b]
                         \/ promised'[b] = t + Granted(d)
    <3> SUFFICES ASSUME NEW b \in bs
                 PROVE  /\ meta_data'[b] \in Nat
                        /\ meta_data'[b] >= t + Lease(d)
                        /\ meta_data[b] # None => meta_data'[b] >= meta_data[b]
                        /\ promised'[b] \in Nat
                        /\ \/ promised'[b] = promised[b]
                           \/ promised'[b] = t + Granted(d)
      OBVIOUS
    <3>1. b \in Blocks /\ meta_data[b] \in Nat \cup {None} /\ promised[b] \in Nat \cup {None}
      BY <2>0 DEF TypeOK
    <3>2. /\ meta_data'[b] = Later(meta_data[b], t + Lease(d))
          /\ promised'[b] = Later(promised[b], t + Granted(d))
      BY <2>1, <3>1
    <3> HIDE DEF bs, d, t
    <3>3. /\ meta_data'[b] \in Nat
          /\ meta_data'[b] >= t + Lease(d)
          /\ meta_data[b] # None => meta_data'[b] >= meta_data[b]
      <4>1. t + Lease(d) \in Nat
        BY <2>0
      <4>2. /\ Later(meta_data[b], t + Lease(d)) \in Nat
            /\ Later(meta_data[b], t + Lease(d)) >= t + Lease(d)
            /\ meta_data[b] # None => Later(meta_data[b], t + Lease(d)) >= meta_data[b]
        BY <3>1, <4>1, LaterType
      <4> QED BY <3>2, <4>2
    <3>4. promised'[b] \in Nat /\ (promised'[b] = promised[b] \/ promised'[b] = t + Granted(d))
      BY <2>0, <3>1, <3>2, LaterType
    <3> QED BY <3>3, <3>4
  <2>3. \A b \in Blocks \ bs : meta_data'[b] = meta_data[b] /\ promised'[b] = promised[b]
    BY <2>1
  <2>4. TypeOK'
    <3>1. /\ meta_data' \in [Blocks -> Nat \cup {None}]
          /\ promised' \in [Blocks -> Nat]
      <4>1. \A b \in Blocks : meta_data'[b] \in Nat \cup {None} /\ promised'[b] \in Nat
        BY <2>2, <2>3 DEF TypeOK
      <4>2. /\ meta_data' = [b \in Blocks |-> meta_data'[b]]
            /\ promised' = [b \in Blocks |-> promised'[b]]
        BY <2>1
      <4> QED BY <4>1, <4>2
    <3>2. block_data' \subseteq Blocks
      BY <2>0, <2>1 DEF TypeOK
    <3>3. client'\in [Clients -> [pc : {"idle", "store", "checked", "push", "synced"},
                               blocks : SUBSET Blocks, time : Nat, duration : Nat,
                               state : SUBSET Blocks, since : Nat]]
      BY <2>1 DEF TypeOK, IdleClient
    <3> QED BY <2>1, <3>1, <3>2, <3>3 DEF TypeOK
  <2>5. \A b \in Blocks : Present(b)' <=> (Present(b) \/ b \in bs)
    BY <1>0, <2>2, <2>3 DEF Present
  <2>6. DatabasesAgree'
    <3>1. block_data' = {b \in Blocks : Present(b)}'
      BY <2>0, <2>1, <2>5 DEF DatabasesAgree
    <3> QED BY <2>1, <3>1 DEF DatabasesAgree
  <2>7. NoLease'
    BY <2>3, <2>5 DEF NoLease
  <2>8. LeaseKept'
    <3> SUFFICES ASSUME NEW b \in Blocks, Present(b)' PROVE meta_data'[b] >= promised'[b]
      BY DEF LeaseKept
    <3>1. CASE b \notin bs
      BY <2>3, <2>5, <3>1 DEF LeaseKept
    <3>2. CASE b \in bs /\ promised'[b] = t + Granted(d)
      BY <2>0, <2>2, <3>2
    <3>3. CASE b \in bs /\ promised'[b] = promised[b] /\ Present(b)
      <4>1. /\ meta_data[b] \in Nat /\ meta_data'[b] \in Nat /\ promised[b] \in Nat
            /\ meta_data'[b] >= meta_data[b] /\ meta_data[b] >= promised[b]
        BY <2>2, <3>3 DEF LeaseKept, Present, TypeOK
      <4> QED BY <3>3, <4>1
    <3>4. CASE b \in bs /\ promised'[b] = promised[b] /\ ~Present(b)
      BY <2>2, <3>4 DEF NoLease
    <3> QED BY <2>2, <3>1, <3>2, <3>3, <3>4
  <2>9. SyncInv'
    <3> SUFFICES ASSUME NEW x \in Clients, client'[x].pc \in {"checked", "push", "synced"}
                 PROVE  /\ client'[x].duration = SyncDuration
                        /\ client'[x].pc = "push" => client'[x].time >= client'[x].since
                        /\ client'[x].since <= now'
                        /\ \A b \in client'[x].state :
                             Safe(x, b)' \/ (client'[x].pc # "synced" /\ b \in client'[x].blocks)
      BY DEF SyncInv
    <3>1. /\ client[x].pc \in {"checked", "push", "synced"}
          /\ client'[x].since = client[x].since /\ client'[x].state = client[x].state
          /\ client'[x].duration = client[x].duration /\ client'[x].time = client[x].time
          /\ client'[x].blocks = client[x].blocks
          /\ x # c => client'[x].pc = client[x].pc
          /\ x = c => client[x].pc = "push" /\ client'[x].pc = "synced"
      BY <1>3, <2>1 DEF TypeOK, IdleClient, CommitStore
    <3>2. /\ client[x].since \in Nat /\ client[x].state \subseteq Blocks
      BY DEF TypeOK
    <3>3. ASSUME NEW b \in client[x].state, Safe(x, b) PROVE Safe(x, b)'
      <4>1. b \in Blocks /\ meta_data[b] \in Nat \cup {None}
        BY <3>2 DEF TypeOK
      <4>2. CASE Present(b) /\ meta_data[b] >= client[x].since + MinimumDuration
        <5>1. Present(b)' /\ meta_data'[b] \in Nat /\ meta_data[b] \in Nat /\ meta_data'[b] >= meta_data[b]
          BY <2>2, <2>3, <2>5, <4>1, <4>2 DEF Present
        <5> QED BY <1>0, <3>1, <3>2, <4>2, <5>1 DEF Safe
      <4> QED BY <2>1, <3>1, <3>3, <4>2 DEF Safe
    <3>4. ASSUME x = c, NEW b \in client[x].state, b \in bs PROVE Safe(x, b)'
      <4>1. t >= client[x].since /\ d = SyncDuration
        BY <3>1, <3>4 DEF SyncInv
      <4>2. Present(b)' /\ meta_data'[b] \in Nat /\ meta_data'[b] >= t + Lease(SyncDuration)
        BY <2>0, <2>2, <2>5, <3>4, <4>1
      <4>3. Lease(SyncDuration) \in Nat /\ Lease(SyncDuration) >= MinimumDuration
        BY <1>0, LeaseType, SyncAssumption
      <4>4. meta_data'[b] >= client[x].since + MinimumDuration
        <5> HIDE DEF bs, d, t
        <5> QED BY <1>0, <2>0, <3>2, <4>1, <4>2, <4>3
      <4> QED BY <3>1, <4>2, <4>4 DEF Safe
    <3>5. \A b \in client[x].state : Safe(x, b) \/ (client[x].pc # "synced" /\ b \in client[x].blocks)
      BY <3>1 DEF SyncInv
    <3>6. CASE x = c
      BY <2>1, <3>1, <3>3, <3>4, <3>5, <3>6 DEF SyncInv
    <3>7. CASE x # c
      BY <2>1, <3>1, <3>3, <3>5, <3>7 DEF SyncInv
    <3> QED BY <3>6, <3>7
  <2> QED BY <2>4, <2>6, <2>7, <2>8, <2>9
<1>4. ASSUME NEW b \in Blocks, FreshlyEncrypted(b), BlockStorePut(b) PROVE IInv'
  <2> USE DEF FreshlyEncrypted, BlockStorePut, storeVars
  <2>1. TypeOK'
    BY <1>0, <1>4 DEF TypeOK
  <2>2. DatabasesAgree'
    BY <1>0, <1>4 DEF TypeOK, DatabasesAgree, Present
  <2>3. NoLease' /\ LeaseKept'
    BY <1>0, <1>4 DEF TypeOK, NoLease, LeaseKept, Present
  <2>4. SyncInv'
    BY <1>0, <1>4 DEF TypeOK, SyncInv, Safe, Present
  <2> QED BY <2>1, <2>2, <2>3, <2>4
<1>5. ASSUME NEW c \in Clients, NEW state \in SUBSET Blocks, SyncChecks(c, state) PROVE IInv'
  <2> USE DEF SyncChecks, storeVars
  <2>1. TypeOK'
    BY <1>0, <1>5 DEF TypeOK
  <2>2. DatabasesAgree'
    BY <1>0, <1>5 DEF TypeOK, DatabasesAgree, Present
  <2>3. NoLease' /\ LeaseKept'
    BY <1>0, <1>5 DEF TypeOK, NoLease, LeaseKept, Present
  <2>4. SyncInv'
    <3> DEFINE bs == {b \in state : ToPush(b)}
    <3>1. /\ client'[c] = [pc |-> IF bs = {} THEN "synced" ELSE "checked", blocks |-> bs, time |-> 0,
                          duration |-> SyncDuration, state |-> state, since |-> now]
          /\ \A x \in Clients \ {c} : client'[x] = client[x]
      BY <1>5 DEF TypeOK
    <3>2. /\ client'[c].duration = SyncDuration /\ client'[c].pc # "push"
          /\ client'[c].since = now /\ client'[c].state = state /\ client'[c].blocks = bs
          /\ bs # {} => client'[c].pc # "synced"
      BY <3>1
    <3>3. \A b \in state \ bs : Present(b) /\ meta_data[b] >= now + MinimumDuration
      BY <1>0 DEF ToPush, TypeOK, Present
    <3>4. \A b \in state \ bs : Safe(c, b)'
      BY <1>5, <3>2, <3>3 DEF Safe, Present
    <3>5. \A x \in Clients \ {c}, b \in Blocks : Safe(x, b)' <=> Safe(x, b)
      BY <1>5, <3>1 DEF Safe, Present
    <3>6. ASSUME NEW x \in Clients \ {c} PROVE client[x].state \subseteq Blocks
      BY DEF TypeOK
    <3> HIDE DEF bs
    <3> QED BY <1>0, <1>5, <3>1, <3>2, <3>4, <3>5, <3>6 DEF SyncInv
  <2> QED BY <2>1, <2>2, <2>3, <2>4
<1>6. ASSUME NEW c \in Clients, SyncPushes(c) PROVE IInv'
  <2> USE DEF SyncPushes, storeVars
  <2>1. TypeOK'
    <3>1. client[c] \in [pc : {"idle", "store", "checked", "push", "synced"},
                         blocks : SUBSET Blocks, time : Nat, duration : Nat,
                         state : SUBSET Blocks, since : Nat]
      BY DEF TypeOK
    <3>2. client' = [client EXCEPT ![c] = [client[c] EXCEPT !.pc = "push", !.time = now]]
      BY <1>6 DEF TypeOK
    <3> QED BY <1>0, <1>6, <3>1, <3>2 DEF TypeOK
  <2>2. DatabasesAgree'
    BY <1>0, <1>6 DEF TypeOK, DatabasesAgree, Present
  <2>3. NoLease' /\ LeaseKept'
    BY <1>0, <1>6 DEF TypeOK, NoLease, LeaseKept, Present
  <2>4. SyncInv'
    BY <1>0, <1>6 DEF TypeOK, SyncInv, Safe, Present
  <2> QED BY <2>1, <2>2, <2>3, <2>4
<1>7. ASSUME NEW c \in Clients, SyncEnds(c) PROVE IInv'
  <2> USE DEF SyncEnds, IdleClient, storeVars
  <2>1. TypeOK'
    BY <1>0, <1>7 DEF TypeOK
  <2>2. DatabasesAgree'
    BY <1>0, <1>7 DEF TypeOK, DatabasesAgree, Present
  <2>3. NoLease' /\ LeaseKept'
    BY <1>0, <1>7 DEF TypeOK, NoLease, LeaseKept, Present
  <2>4. SyncInv'
    BY <1>0, <1>7 DEF TypeOK, SyncInv, Safe, Present
  <2> QED BY <2>1, <2>2, <2>3, <2>4
<1>8. ASSUME CollectorStarts PROVE IInv'
  <2> USE DEF CollectorStarts, storeVars
  <2>1. TypeOK'
    BY <1>0, <1>8 DEF TypeOK
  <2>2. DatabasesAgree'
    BY <1>0, <1>8 DEF TypeOK, DatabasesAgree, Present
  <2>3. NoLease' /\ LeaseKept'
    BY <1>0, <1>8 DEF TypeOK, NoLease, LeaseKept, Present
  <2>4. SyncInv'
    BY <1>0, <1>8 DEF TypeOK, SyncInv, Safe, Present
  <2> QED BY <2>1, <2>2, <2>3, <2>4
<1>9. ASSUME CollectorSnapshots PROVE IInv'
  <2> USE DEF CollectorSnapshots, Expired, storeVars
  <2>1. TypeOK'
    BY <1>0, <1>9 DEF TypeOK
  <2>2. DatabasesAgree'
    BY <1>0, <1>9 DEF TypeOK, DatabasesAgree, Present
  <2>3. NoLease' /\ LeaseKept'
    BY <1>0, <1>9 DEF TypeOK, NoLease, LeaseKept, Present
  <2>4. SyncInv'
    BY <1>0, <1>9 DEF TypeOK, SyncInv, Safe, Present
  <2> QED BY <2>1, <2>2, <2>3, <2>4
<1>10. ASSUME NEW b \in Blocks, CollectorDeletes(b) PROVE IInv'
  <2> USE DEF CollectorDeletes, storeVars
  <2>1. TypeOK'
    BY <1>0, <1>10 DEF TypeOK
  <2>2. DatabasesAgree'
    BY <1>0, <1>10 DEF TypeOK, DatabasesAgree, Present
  <2>3. NoLease' /\ LeaseKept'
    BY <1>0, <1>10 DEF TypeOK, NoLease, LeaseKept, Present
  <2>4. SyncInv'
    BY <1>0, <1>10 DEF TypeOK, SyncInv, Safe, Present
  <2> QED BY <2>1, <2>2, <2>3, <2>4
<1>11. ASSUME CollectorEnds PROVE IInv'
  <2> USE DEF CollectorEnds, storeVars
  <2>1. TypeOK'
    BY <1>0, <1>11 DEF TypeOK
  <2>2. DatabasesAgree'
    BY <1>0, <1>11 DEF TypeOK, DatabasesAgree, Present
  <2>3. NoLease' /\ LeaseKept'
    BY <1>0, <1>11 DEF TypeOK, NoLease, LeaseKept, Present
  <2>4. SyncInv'
    BY <1>0, <1>11 DEF TypeOK, SyncInv, Safe, Present
  <2> QED BY <2>1, <2>2, <2>3, <2>4
<1>12. ASSUME UNCHANGED vars PROVE IInv'
  <2> USE DEF vars, storeVars
  <2>1. TypeOK'
    BY <1>0, <1>12 DEF TypeOK
  <2>2. DatabasesAgree'
    BY <1>0, <1>12 DEF TypeOK, DatabasesAgree, Present
  <2>3. NoLease' /\ LeaseKept'
    BY <1>0, <1>12 DEF TypeOK, NoLease, LeaseKept, Present
  <2>4. SyncInv'
    BY <1>0, <1>12 DEF TypeOK, SyncInv, Safe, Present
  <2> QED BY <2>1, <2>2, <2>3, <2>4
<1> QED
  BY <1>1, <1>2, <1>3, <1>4, <1>5, <1>6, <1>7, <1>8, <1>9, <1>10, <1>11, <1>12
  DEF Next, ClientStep, CollectorStep

(* The invariant holds in every reachable state.                           *)
THEOREM Invariance == Spec => []IInv
BY InitInv, StepInv, PTL DEF Spec

(* Data and metadata of the store agree at all times, and the collector's  *)
(* assertions never fail.                                                  *)
THEOREM DatabasesAlwaysAgree == Spec => []DatabasesAgree
<1>1. IInv => DatabasesAgree
  BY DEF IInv
<1> QED BY <1>1, Invariance, PTL

(* No acknowledged lease is ever cut, for any durations and any number of  *)
(* concurrent requests.                                                    *)
THEOREM LeasesAreKept == Spec => []LeaseKept
<1>1. IInv => LeaseKept
  BY DEF IInv
<1> QED BY <1>1, Invariance, PTL

(* A synced state is in the store while the sync vouches for it, but for   *)
(* blocks the collector has removed during a lease.                        *)
THEOREM SyncsAreComplete == Spec => []SyncComplete
<1>1. IInv => SyncComplete
  <2> SUFFICES ASSUME IInv, NEW c \in Clients, client[c].pc = "synced",
                      now <= client[c].since + MinimumDuration, NEW b \in client[c].state
               PROVE  b \in block_data \cup lost
    BY DEF SyncComplete
  <2>1. b \in Blocks /\ now \in Nat /\ client[c].since + MinimumDuration \in Nat
    BY BlockStoreAssumption DEF IInv, TypeOK
  <2>2. Safe(c, b)
    BY DEF IInv, SyncInv
  <2> QED BY <2>1, <2>2 DEF Safe, IInv, DatabasesAgree
<1> QED BY <1>1, Invariance, PTL
=============================================================================
