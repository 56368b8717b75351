----------------------------- MODULE BlockStore -----------------------------
(***************************************************************************)
(* A storage service's block store (python/pdo/common/block_store_manager, *)
(* sservice), an LMDB file with two databases: the blocks and their        *)
(* metadata, of which the expiration time matters.  Handler threads store  *)
(* and check blocks, the enclave service puts new ones into the same file, *)
(* and a garbage collector removes blocks whose lease is over.  A client   *)
(* makes a contract state available for evaluation with sync_block_store.  *)
(*                                                                         *)
(* LMDB runs write transactions one at a time and gives a reader a         *)
(* snapshot.  A block is its identifier, the hash of its content.          *)
(***************************************************************************)
EXTENDS Integers, FiniteSets

CONSTANTS
    Blocks,
    Clients,            \* requests being handled at the same time
    Durations,          \* leases that clients ask for
    MaxDuration,        \* longest lease the service grants; 0: any
    MinimumTime,        \* BlockMetadata.minimum_duration_time
    MinimumDuration,    \* leases shorter than this are extended by a sync
    SyncDuration,       \* lease a sync asks for
    MaxTime,            \* bound on the clock
    None

ASSUME BlockStoreAssumption ==
    /\ Durations \cup {MaxDuration, MinimumTime, MinimumDuration, SyncDuration, MaxTime} \subseteq Nat
    /\ None \notin Nat

VARIABLES
    now,        \* int(time.time())
    meta_data,  \* [Blocks -> expiration time, or None]
    block_data, \* SUBSET Blocks
    client,     \* [Clients -> what the request has read so far]
    collector,  \* the garbage collector: its clock, and what is left to delete
    promised,   \* [Blocks -> the latest end of a lease that was acknowledged]
    lost        \* blocks the collector has removed before their lease was over

storeVars == <<meta_data, block_data, promised, lost>>
vars == <<now, storeVars, client, collector>>

Present(b) == meta_data[b] # None
IdleClient == [pc |-> "idle", blocks |-> {}, time |-> 0, duration |-> 0, state |-> {}, since |-> 0]

Init ==
    /\ now = 0
    /\ meta_data = [b \in Blocks |-> None]
    /\ block_data = {}
    /\ client = [c \in Clients |-> IdleClient]
    /\ collector = [pc |-> "idle", time |-> 0, todo |-> {}]
    /\ promised = [b \in Blocks |-> 0]
    /\ lost = {}

Tick ==
    /\ now < MaxTime
    /\ now' = now + 1
    /\ UNCHANGED <<storeVars, client, collector>>

(***************************************************************************)
(* StoreBlocksApp and store_blocks: the lease is limited, the clock is     *)
(* read, and the write transaction waits for its turn.                     *)
(***************************************************************************)
Granted(d) == IF MaxDuration > 0 /\ d > MaxDuration THEN MaxDuration ELSE d

(* Mutant: the minimum is taken off the lease.                             *)
LeaseBeyondMinimum(d) == Granted(d) - MinimumTime

Lease(d) == IF Granted(d) < MinimumTime THEN MinimumTime ELSE Granted(d)

(* The lease a sync gets is not itself about to expire (60 and 5 seconds). *)
ASSUME SyncAssumption == MinimumDuration <= Lease(SyncDuration)

StoreBlocks(c, bs, d) ==
    /\ client[c].pc = "idle"
    /\ client' = [client EXCEPT ![c] = [IdleClient EXCEPT !.pc = "store", !.blocks = bs,
                                                         !.time = now, !.duration = d]]
    /\ UNCHANGED <<now, storeVars, collector>>

Later(old, new) == IF old = None \/ new > old THEN new ELSE old

(* Mutant: the lease of a block that is there already is overwritten.      *)
Overwritten(old, new) == new

(* What the write transaction makes of a block's expiration time.          *)
Extended(old, new) == Later(old, new)

CommitStore(c) ==
    /\ client[c].pc \in {"store", "push"}
    /\ LET bs == client[c].blocks
           d == client[c].duration
       IN /\ meta_data' = [b \in Blocks |->
                IF b \in bs THEN Extended(meta_data[b], client[c].time + Lease(d)) ELSE meta_data[b]]
          /\ block_data' = block_data \cup {b \in bs : ~Present(b)}
          /\ promised' = [b \in Blocks |->
                IF b \in bs THEN Later(promised[b], client[c].time + Granted(d)) ELSE promised[b]]
    /\ client' = [client EXCEPT ![c] = IF @.pc = "store" THEN IdleClient
                                       ELSE [@ EXCEPT !.pc = "synced"]]
    /\ UNCHANGED <<now, collector, lost>>

(* What the enclave writes is encrypted with a random IV, so that the      *)
(* identifier is a new one.                                                *)
FreshlyEncrypted(b) == ~Present(b)

(* BlockStorePut: metadata that are there, lease included, are overwritten *)
(* without a look, which LeaseKept would not survive.  The blocks that it  *)
(* gets are FreshlyEncrypted.                                              *)
BlockStorePut(b) ==
    /\ meta_data' = [meta_data EXCEPT ![b] = now + MinimumTime]
    /\ block_data' = block_data \cup {b}
    /\ UNCHANGED <<now, client, collector, promised, lost>>

(***************************************************************************)
(* sync_block_store: check_blocks, then store_blocks with what is missing  *)
(* or about to expire.  The client holds all blocks of the state.          *)
(***************************************************************************)
(* Mutant: blocks that are about to expire are not pushed.                 *)
OnlyMissing(b) == ~Present(b)

ToPush(b) == ~Present(b) \/ meta_data[b] - now < MinimumDuration

SyncChecks(c, state) ==
    /\ client[c].pc = "idle"
    /\ LET bs == {b \in state : ToPush(b)} IN
        client' = [client EXCEPT ![c] =
            [pc |-> IF bs = {} THEN "synced" ELSE "checked", blocks |-> bs, time |-> 0,
             duration |-> SyncDuration, state |-> state, since |-> now]]
    /\ UNCHANGED <<now, storeVars, collector>>

(* The service's handler reads its clock.                                  *)
SyncPushes(c) ==
    /\ client[c].pc = "checked"
    /\ client' = [client EXCEPT ![c].pc = "push", ![c].time = now]
    /\ UNCHANGED <<now, storeVars, collector>>

SyncEnds(c) ==
    /\ client[c].pc = "synced"
    /\ client' = [client EXCEPT ![c] = IdleClient]
    /\ UNCHANGED <<now, storeVars, collector>>

(***************************************************************************)
(* expire_blocks, run again and again by the service: the clock, a         *)
(* snapshot of the metadata, then one write transaction for each expired   *)
(* block of the snapshot, which does not look at the metadata again.       *)
(***************************************************************************)
CollectorStarts ==
    /\ collector.pc = "idle"
    /\ collector' = [pc |-> "snapshot", time |-> now, todo |-> {}]
    /\ UNCHANGED <<now, storeVars, client>>

(* Mutant: the block with the largest identifier is not looked at.         *)
ExpiredButOne(time) ==
    {b \in Blocks \ {CHOOSE x \in Blocks : TRUE} : Present(b) /\ meta_data[b] < time}

Expired(time) == {b \in Blocks : Present(b) /\ meta_data[b] < time}

CollectorSnapshots ==
    /\ collector.pc = "snapshot"
    /\ collector' = [pc |-> "delete", time |-> 0, todo |-> Expired(collector.time)]
    /\ UNCHANGED <<now, storeVars, client>>

(* Mutant: the block's data are left behind.                               *)
ForgetBlock(b) ==
    /\ collector.pc = "delete"
    /\ b \in collector.todo
    /\ meta_data' = [meta_data EXCEPT ![b] = None]
    /\ promised' = [promised EXCEPT ![b] = 0]
    /\ lost' = IF meta_data[b] < now THEN lost ELSE lost \cup {b}
    /\ collector' = [collector EXCEPT !.todo = @ \ {b}]
    /\ UNCHANGED <<now, block_data, client>>

CollectorDeletes(b) ==
    /\ collector.pc = "delete"
    /\ b \in collector.todo
    /\ block_data' = block_data \ {b}
    /\ meta_data' = [meta_data EXCEPT ![b] = None]
    /\ promised' = [promised EXCEPT ![b] = 0]
    /\ lost' = IF meta_data[b] < now THEN lost ELSE lost \cup {b}
    /\ collector' = [collector EXCEPT !.todo = @ \ {b}]
    /\ UNCHANGED <<now, client>>

CollectorEnds ==
    /\ collector.pc = "delete"
    /\ collector.todo = {}
    /\ collector' = [collector EXCEPT !.pc = "idle"]
    /\ UNCHANGED <<now, storeVars, client>>

-----------------------------------------------------------------------------
CollectorStep ==
    \/ CollectorStarts
    \/ CollectorSnapshots
    \/ \E b \in Blocks : CollectorDeletes(b)
    \/ CollectorEnds

ClientStep(c) ==
    \/ \E bs \in SUBSET Blocks \ {{}}, d \in Durations : StoreBlocks(c, bs, d)
    \/ CommitStore(c)
    \/ \E state \in SUBSET Blocks \ {{}} : SyncChecks(c, state)
    \/ SyncPushes(c)
    \/ SyncEnds(c)

Next ==
    \/ Tick
    \/ \E c \in Clients : ClientStep(c)
    \/ \E b \in Blocks : FreshlyEncrypted(b) /\ BlockStorePut(b)
    \/ CollectorStep

(* Time passes, and the service runs the collector every few seconds.      *)
Spec == Init /\ [][Next]_vars /\ WF_vars(Tick) /\ WF_vars(CollectorStep)

(* Types: times are natural numbers, what is kept of a request are blocks. *)
TypeOK ==
    /\ now \in 0..MaxTime
    /\ meta_data \in [Blocks -> Nat \cup {None}]
    /\ block_data \subseteq Blocks
    /\ client \in [Clients -> [pc : {"idle", "store", "checked", "push", "synced"},
                               blocks : SUBSET Blocks, time : Nat, duration : Nat,
                               state : SUBSET Blocks, since : Nat]]
    /\ collector \in [pc : {"idle", "snapshot", "delete"}, time : Nat, todo : SUBSET Blocks]
    /\ promised \in [Blocks -> Nat]
    /\ lost \subseteq Blocks

(* A block is stored exactly when its metadata are: check_blocks, which    *)
(* reads only the metadata, never vouches for a block that is not there,   *)
(* and the collector, which finds blocks by their metadata, leaves none    *)
(* behind.  Its assertions that both deletions succeed hold as well.       *)
DatabasesAgree ==
    /\ block_data = {b \in Blocks : Present(b)}
    /\ collector.todo \subseteq block_data

(* A stored block's lease is at least as long as every lease that was      *)
(* acknowledged for it since it was stored, in whatever order the write    *)
(* transactions of concurrent requests run (provided that the enclave puts *)
(* new blocks only).                                                       *)
LeaseKept == \A b \in Blocks : Present(b) => meta_data[b] >= promised[b]

(* When a sync of a contract state has returned, and no more than          *)
(* MinimumDuration has passed since it checked, every block of the state   *)
(* is in the store, except one that the collector removed during a lease   *)
(* (see ExpiredOnly).                                                      *)
SyncComplete ==
    \A c \in Clients :
        client[c].pc = "synced" /\ now <= client[c].since + MinimumDuration =>
            client[c].state \subseteq block_data \cup lost

(* The store does not fill up with dead blocks: one whose lease is over is *)
(* removed or its lease is extended.                                       *)
ExpiredAreCollected ==
    \A b \in Blocks : (Present(b) /\ meta_data[b] < now) ~> ~(Present(b) /\ meta_data[b] < now)

(* "Delete data and metadata for blocks that have expired": no block is    *)
(* deleted during its lease.                                               *)
ExpiredOnly == lost = {}
=============================================================================
