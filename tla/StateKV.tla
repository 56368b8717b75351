------------------------------- MODULE StateKV ------------------------------
(***************************************************************************)
(* The key-value store that holds a contract's state (common/state:        *)
(* state_kv, trie, data_node_io).  Keys are found in a trie whose nodes    *)
(* and values lie across data nodes of fixed size; freed space is reused.  *)
(* Finalize saves the store under a new root block, from which it can be   *)
(* opened; when an evaluation fails the open store is thrown away.         *)
(*                                                                         *)
(* The bytes of a trie node are two cells (its header; its offsets and its *)
(* key chunk), those of a value two (header; length) and one for each      *)
(* element.  One operation of the store is one action: a store belongs to  *)
(* one evaluation, which runs in one thread.  Get changes nothing and is   *)
(* the operator Get.                                                       *)
(***************************************************************************)
EXTENDS FreeSpace, FiniteSets

CONSTANTS
    Keys,           \* sequences, with the prefix of Interpreter_KV
    Values,         \* sequences (Get gives <<>> for an absent key, too)
    MaxKeyChunk,    \* MAX_KEY_CHUNK_BYTE_SIZE
    TableSize,      \* items of the collector that fit into a data node
    MaxBlocks,      \* bound on the number of data nodes
    MaxOperations   \* bound on the puts and deletes of a behaviour

ASSUME StateKVAssumption ==
    /\ {BlockSize, MaxKeyChunk, MaxBlocks} \subseteq Nat \ {0}
    /\ {TableSize, MaxOperations} \subseteq Nat
    /\ <<>> \notin Keys

VARIABLES
    kv,         \* the open store, or None
    root,       \* the store saved last, or None
    contents,   \* [Keys -> Values \cup {<<>>}]: what was put into kv
    saved,      \* the contents when root was saved
    operations  \* number of puts and deletes so far

vars == <<kv, root, contents, saved, operations>>

(***************************************************************************)
(* data_node_io: cells is the content of all data nodes, top the number of *)
(* cells in use of the last one, which is the one that is appended to.     *)
(***************************************************************************)
Blank == "blank"
Blocks(m) == Len(m.cells) \div BlockSize
BlankNode == [i \in 1..BlockSize |-> Blank]
Free(m) == BlockSize - m.top
BlockOffsetForAppending(m) == <<Blocks(m) - 1, m.top>>

AddAppendDataNode(m) == [m EXCEPT !.cells = @ \o BlankNode, !.top = 0]

(* What is left of the last data node is given to the collector.           *)
ConsumeAppendDataNode(m) ==
    AddAppendDataNode([m EXCEPT !.fsc = Collect(@, BlockOffsetForAppending(m), Free(m))])

(* write_across_data_nodes: data nodes are added when the end is reached.  *)
RECURSIVE WriteCells(_, _, _)
WriteCells(m, from, buffer) ==
    IF from + Len(buffer) > Len(m.cells)
    THEN WriteCells(AddAppendDataNode(m), from, buffer)
    ELSE [m EXCEPT
         !.cells = SubSeq(@, 1, from) \o buffer \o SubSeq(@, from + Len(buffer) + 1, Len(@)),
         !.top = Max({@, from + Len(buffer) - (Blocks(m) - 1) * BlockSize})]

WriteAcross(m, bo, buffer) == WriteCells(m, Linear(bo), buffer)

Cell(m, bo, i) == m.cells[Linear(bo) + i]

(* A place for length cells: free space, else the append position.         *)
Placed(m, a) ==
    [m |-> [m EXCEPT !.fsc = a.c],
     bo |-> IF a.bo = None THEN BlockOffsetForAppending(m) ELSE a.bo]

Place(m, length) == Placed(m, Allocate(m.fsc, length))

WriteAt(p, buffer) == [m |-> WriteAcross(p.m, p.bo, buffer), bo |-> p.bo]

(***************************************************************************)
(* Values.                                                                 *)
(***************************************************************************)
Header(isDeleted, isValue, keyChunkSize) ==
    [isDeleted |-> isDeleted, isValue |-> isValue, keyChunkSize |-> keyChunkSize]

ValueSize(m, bo) == Cell(m, bo, 2)
ReadValue(m, bo) == [i \in 1..ValueSize(m, bo) |-> Cell(m, bo, i + 2)]

(* Mutant: the space of the value is not given back.                       *)
FreeNothing(m, bo) ==
    WriteAcross(m, Advance(Advance(bo, 1), 1), <<Header(TRUE, TRUE, 0)>>)

(* do_delete_value.  The header that marks the value as deleted goes where *)
(* the cursor is after the header and the length were read, which is the   *)
(* first cell of the value; of an empty value, the cell after it, which is *)
(* not the value's.                                                        *)
DeleteValue(m, bo) ==
    [WriteAcross(m, Advance(Advance(bo, 1), 1), <<Header(TRUE, TRUE, 0)>>)
        EXCEPT !.fsc = Collect(@, bo, 2 + ValueSize(m, bo))]

(* do_write_value; child is the offset of the value that is overwritten.   *)
WriteValue(m, child, v) ==
    WriteAt(Place(IF child = None THEN m ELSE DeleteValue(m, child), 2 + Len(v)),
            <<Header(FALSE, TRUE, 0), Len(v)>> \o v)

(***************************************************************************)
(* Trie nodes.                                                             *)
(***************************************************************************)
NodeSize == 2
RootOffset == <<0, 0>>
Prefix(s, n) == SubSeq(s, 1, n)
Suffix(s, n) == SubSeq(s, n + 1, Len(s))

CreateNode(key) ==
    [next |-> None, child |-> None,
     chunk |-> Prefix(key, Min({Len(key), MaxKeyChunk}))]

NodeCells(node, isDeleted) ==
    <<Header(isDeleted, FALSE, Len(node.chunk)), node>>

(* The header says how much of the key chunk counts.                       *)
ReadNode(m, bo) ==
    [Cell(m, bo, 2) EXCEPT !.chunk = Prefix(@, Cell(m, bo, 1).keyChunkSize)]

WriteNode(m, bo, node) ==
    WriteAt(IF bo = None THEN Place(m, NodeSize) ELSE [m |-> m, bo |-> bo],
            NodeCells(node, FALSE))

(* A node on the stack is written when it is new or was modified.          *)
WriteBack(m, bo, old, new) ==
    IF bo # None /\ new = old THEN [m |-> m, bo |-> bo] ELSE WriteNode(m, bo, new)

SharedPrefixLength(s, t) ==
    CHOOSE n \in 0..Len(s) :
        /\ n <= Len(t) /\ Prefix(s, n) = Prefix(t, n)
        /\ n < Len(s) /\ n < Len(t) => s[n + 1] # t[n + 1]

(* do_split_trie_node: the second part of the chunk moves to a new node.   *)
(* The result is the first part, with the new node as its child.           *)
FirstPart(w, node, spl) ==
    [m |-> w.m, node |-> [node EXCEPT !.chunk = Prefix(@, spl), !.child = w.bo]]

Split(m, node, spl) ==
    FirstPart(WriteNode(IF NodeSize > Free(m) THEN ConsumeAppendDataNode(m) ELSE m, None,
                        [CreateNode(Suffix(node.chunk, spl)) EXCEPT !.child = node.child]),
              node, spl)

(***************************************************************************)
(* operate_trie_non_recursive.  Its stack of trie nodes is the recursion   *)
(* here: a node is read or created on the way down and written, with the   *)
(* changed offset of the node below or after it, on the way up.            *)
(***************************************************************************)

(* No match at all: the key, if present, is in a node further on.          *)
GoesNext(node, rest) ==
    SharedPrefixLength(node.chunk, rest) = 0 /\ (rest # <<>> \/ node.chunk # <<>>)
EndOfKey(node, rest) == rest = <<>> /\ node.chunk = <<>>
PartialMatch(node, rest) == SharedPrefixLength(node.chunk, rest) < Len(node.chunk)

(* What is done to a node when the one after or below it is at r.bo.       *)
WithNext(r, node) == [node EXCEPT !.next = r.bo]
WithChild(r, node) == [node EXCEPT !.child = r.bo]

RECURSIVE PutAt(_, _, _, _)
PutBelow(s, bo, old, rest, v) ==
    LET r == PutAt(s.m, s.node.child, Suffix(rest, Len(s.node.chunk)), v) IN
    WriteBack(r.m, bo, old, WithChild(r, s.node))

PutNode(m, bo, node, rest, v) ==
    CASE GoesNext(node, rest) ->
            LET r == PutAt(m, node.next, rest, v) IN
            WriteBack(r.m, bo, node, WithNext(r, node))
      [] EndOfKey(node, rest) ->
            LET r == WriteValue(m, node.child, v) IN
            WriteNode(r.m, bo, WithChild(r, node))
      [] OTHER ->
            PutBelow(IF PartialMatch(node, rest)
                     THEN Split(m, node, SharedPrefixLength(node.chunk, rest))
                     ELSE [m |-> m, node |-> node], bo, node, rest, v)

PutAt(m, bo, rest, v) ==
    PutNode(m, bo, IF bo = None THEN CreateNode(rest) ELSE ReadNode(m, bo), rest, v)

RemoveNode(m, bo, node) ==
    WriteAcross([m EXCEPT !.fsc = Collect(@, bo, NodeSize)], bo, NodeCells(node, TRUE))

(* Mutant: a removed node's successor is forgotten.                        *)
PruneTail(m, bo, old, new, first) ==
    IF first \/ new.child # None THEN WriteBack(m, bo, old, new)
    ELSE [m |-> RemoveNode(m, bo, new), bo |-> None]

(* On the way up from a deleted value: delete_trie_node_childless, except  *)
(* for the root and the node next to it.                                   *)
Prune(m, bo, old, new, first) ==
    IF first \/ new.child # None THEN WriteBack(m, bo, old, new)
    ELSE [m |-> RemoveNode(m, bo, new), bo |-> new.next]

(* None when the key is not there and nothing is changed.                  *)
RECURSIVE DeleteAt(_, _, _, _)
DeleteNode(m, bo, node, rest, first) ==
    IF EndOfKey(node, rest)
    THEN Prune(DeleteValue(m, node.child), bo, node, [node EXCEPT !.child = None], first)
    ELSE LET next == GoesNext(node, rest)
             r == CASE next -> DeleteAt(m, node.next, rest, FALSE)
                    [] ~next /\ PartialMatch(node, rest) -> None
                    [] OTHER -> DeleteAt(m, node.child, Suffix(rest, Len(node.chunk)), FALSE)
         IN IF r = None THEN None
            ELSE Prune(r.m, bo, node, IF next THEN WithNext(r, node) ELSE WithChild(r, node), first)

DeleteAt(m, bo, rest, first) ==
    IF bo = None THEN None ELSE DeleteNode(m, bo, ReadNode(m, bo), rest, first)

RECURSIVE GetAt(_, _, _)
GetNode(m, node, rest) ==
    CASE GoesNext(node, rest) -> GetAt(m, node.next, rest)
      [] EndOfKey(node, rest) -> ReadValue(m, node.child)
      [] OTHER -> IF PartialMatch(node, rest) THEN <<>>
                  ELSE GetAt(m, node.child, Suffix(rest, Len(node.chunk)))

GetAt(m, bo, rest) == IF bo = None THEN <<>> ELSE GetNode(m, ReadNode(m, bo), rest)

(* The root is written when the first node of the trie has moved; r is     *)
(* None when there was nothing to delete.                                  *)
WithFirst(m, r) ==
    IF r = None THEN m
    ELSE WriteBack(r.m, RootOffset, ReadNode(m, RootOffset), WithNext(r, ReadNode(m, RootOffset))).m

First(m) == ReadNode(m, RootOffset).next
Get(m, k) == GetAt(m, First(m), k)

-----------------------------------------------------------------------------
(* State_KV for a new contract: one data node with the root of the trie.   *)
NewStore ==
    WriteNode([cells |-> BlankNode, top |-> 0, fsc |-> NewCollector(<<>>), create |-> TRUE],
              RootOffset, CreateNode(<<>>)).m

Opened(s) ==
    [cells |-> s.cells, top |-> s.top, fsc |-> NewCollector(s.table), create |-> FALSE]

Nothing == [k \in Keys |-> <<>>]

Init ==
    /\ kv = NewStore
    /\ root = None
    /\ contents = Nothing
    /\ saved = Nothing
    /\ operations = 0

Operate(m, k, v) ==
    /\ operations < MaxOperations
    /\ Blocks(m) <= MaxBlocks
    /\ kv' = m
    /\ contents' = [contents EXCEPT ![k] = v]
    /\ operations' = operations + 1
    /\ UNCHANGED <<root, saved>>

Put(k, v) ==
    /\ kv # None
    /\ Operate(WithFirst(kv, PutAt(kv, First(kv), k, v)), k, v)

Delete(k) ==
    /\ kv # None
    /\ Operate(WithFirst(kv, DeleteAt(kv, First(kv), k, TRUE)), k, <<>>)

(* Mutant: the table is stored only for a new store.                       *)
StoreTableOfNew(m) == m.create

StoreTable(m) == m.create \/ m.fsc.modified

(* add_and_init_append_data_node refuses to add a data node, here the one  *)
(* for the collector's table, after an empty one.                          *)
CanFinalize(m) == StoreTable(m) => m.top > 0

(* Mutant: the table is not cut off at the end of its data node.           *)
WholeTable(c) == Undefer(c).table

SerializeInDataNode(c) ==
    LET all == Undefer(c).table IN Prefix(all, Min({Len(all), TableSize}))

(* The table is stored when it was modified; otherwise the one the store   *)
(* was opened with is kept.                                                *)
Finalize ==
    /\ kv # None
    /\ CanFinalize(kv)
    /\ root' = [cells |-> kv.cells, top |-> kv.top,
                 table |-> IF StoreTable(kv) THEN SerializeInDataNode(kv.fsc) ELSE root.table]
    /\ saved' = contents
    /\ kv' = None
    /\ UNCHANGED <<contents, operations>>

(* The evaluation fails, or Finalize does.                                 *)
Abandon ==
    /\ kv # None
    /\ kv' = None
    /\ UNCHANGED <<root, contents, saved, operations>>

Open ==
    /\ kv = None
    /\ kv' = IF root = None THEN NewStore ELSE Opened(root)
    /\ contents' = saved
    /\ UNCHANGED <<root, saved, operations>>

Next ==
    \/ \E k \in Keys, v \in Values : Put(k, v)
    \/ \E k \in Keys : Delete(k)
    \/ Finalize
    \/ Abandon
    \/ Open

Spec == Init /\ [][Next]_vars

(***************************************************************************)
(* Properties.                                                             *)
(***************************************************************************)
TypeOK ==
    /\ kv # None =>
        /\ Len(kv.cells) = Blocks(kv) * BlockSize /\ Blocks(kv) \in 1..MaxBlocks
        /\ kv.top \in 0..BlockSize
    /\ root # None => root.top \in 0..BlockSize /\ Len(root.table) <= TableSize
    /\ contents \in [Keys -> Values \cup {<<>>}]
    /\ saved \in [Keys -> Values \cup {<<>>}]
    /\ operations \in 0..MaxOperations

(* A contract may put an empty value; the properties are about stores in   *)
(* which there is none, see DeleteValue.                                   *)
NoEmptyValue == <<>> \notin Values

(* Get gives what was put last: as long as no value is empty, no put,      *)
(* split, delete, reuse of space or reopening changes the value of another *)
(* key.                                                                    *)
GetsWhatWasPut == NoEmptyValue /\ kv # None => \A k \in Keys : Get(kv, k) = contents[k]

(* The extents of all nodes and values of the trie from a node on.         *)
RECURSIVE Extents(_, _)
Extents(m, bo) ==
    IF bo = None THEN <<>>
    ELSE LET node == ReadNode(m, bo) IN
         <<Item(bo, NodeSize)>> \o Extents(m, node.next)
         \o (IF node.chunk # <<>> \/ bo = RootOffset THEN Extents(m, node.child)
             ELSE <<Item(node.child, 2 + ValueSize(m, node.child))>>)

Space(m) ==
    Extents(m, RootOffset) \o m.fsc.table
    \o (IF m.fsc.deferred = None THEN <<>> ELSE <<m.fsc.deferred>>)
    \o <<Item(BlockOffsetForAppending(m), Free(m))>>

CellsOf(i) == {Linear(i.bo) + n : n \in 0..i.length - 1}

CellsIn(m) == UNION {CellsOf(i) : i \in ToSet(Space(m))}

(* Nothing that is in use is in use twice, or free: as long as no value is *)
(* empty, the nodes and values of the trie, the free items and the append  *)
(* space never overlap.                                                    *)
NoOverlap ==
    NoEmptyValue /\ kv # None => LET s == Space(kv) IN
        \A i \in DOMAIN s : \A j \in 1..i - 1 :
            \/ Linear(s[i].bo) + s[i].length <= Linear(s[j].bo)
            \/ Linear(s[j].bo) + s[j].length <= Linear(s[i].bo)

(* No cell is forgotten while the store is open and no value is empty:     *)
(* whatever was in use, free or still to be appended to is one of them     *)
(* after a put or a delete, too.  (Space that does not fit into the table  *)
(* is lost when the store is saved.)                                       *)
NothingLost ==
    [][NoEmptyValue /\ kv # None /\ kv' # None => CellsIn(kv) \subseteq CellsIn(kv')]_vars

(* The data node for the table is never added after an empty one, so that  *)
(* whatever was put and deleted can be saved: the check at the head of     *)
(* add_and_init_append_data_node is an assertion.                          *)
NeverAfterEmpty == kv # None => CanFinalize(kv)
=============================================================================
