------------------------------ MODULE FreeSpace -----------------------------
(***************************************************************************)
(* Where the contract key-value store keeps things (common/state:          *)
(* data_node, block_offset, free_space_collector).  Data nodes of          *)
(* BlockSize cells are numbered from 0; an offset is <<data node, cell>>.  *)
(* The cell of an offset may be BlockSize, one past the end of its node:   *)
(* that is where the append position of a full node points.                *)
(*                                                                         *)
(* The free space collector is a table of free items in the order of their *)
(* offsets, plus at most one item whose insertion is deferred.             *)
(***************************************************************************)
EXTENDS Integers, Sequences, SequencesExt

CONSTANTS
    BlockSize,      \* cells of a data node
    None            \* the empty offset; no deferred item

Linear(bo) == bo[1] * BlockSize + bo[2]

Advance(bo, length) ==
    LET bytes == bo[2] + (length % BlockSize) IN
    IF bytes >= BlockSize THEN <<bo[1] + (length \div BlockSize) + 1, bytes - BlockSize>>
                          ELSE <<bo[1] + (length \div BlockSize), bytes>>

Before(bo1, bo2) == bo1[1] < bo2[1] \/ (bo1[1] = bo2[1] /\ bo1[2] < bo2[2])

-----------------------------------------------------------------------------
Item(bo, length) == [bo |-> bo, length |-> length]

NewCollector(table) == [table |-> table, deferred |-> None, modified |-> FALSE]

AreAdjacent(i, j) == Advance(i.bo, i.length) = j.bo
Merge(i, j) == Item(i.bo, i.length + j.length)

MergeRight(before, item, after) ==
    IF after # <<>> /\ AreAdjacent(item, Head(after))
    THEN before \o <<Merge(item, Head(after))>> \o Tail(after)
    ELSE before \o <<item>> \o after

(* The item goes between two parts of the table and is merged with its     *)
(* neighbours where they touch.                                            *)
InsertFreeSpaceItem(before, item, after) ==
    IF before # <<>> /\ AreAdjacent(Last(before), item)
    THEN MergeRight(Front(before), Merge(Last(before), item), after)
    ELSE MergeRight(before, item, after)

InsertBefore(table, i, item) ==
    InsertFreeSpaceItem(SubSeq(table, 1, i - 1), item, SubSeq(table, i, Len(table)))

FirstBehind(table, bo) == SelectInSeq(table, LAMBDA j : Before(bo, j.bo))

(* The table is marked as modified only when the item goes to its end.     *)
DoCollect(c, item) ==
    IF FirstBehind(c.table, item.bo) = 0
    THEN [c EXCEPT !.table = InsertBefore(@, Len(@) + 1, item), !.modified = TRUE]
    ELSE [c EXCEPT !.table = InsertBefore(@, FirstBehind(@, item.bo), item)]

(* The deferred item, if any, is put into the table.                       *)
Undefer(c) == IF c.deferred = None THEN c
              ELSE [DoCollect(c, c.deferred) EXCEPT !.deferred = None]

Collect(c, bo, length) ==
    IF length = 0 THEN c ELSE [Undefer(c) EXCEPT !.deferred = Item(bo, length)]

(* What is left of an item after its first cells are taken.                *)
Rest(item, length) == Item(Advance(item.bo, length), item.length - length)

(* The first cells of item i of the table are taken; 0: no item was found. *)
Take(c, i, length) ==
    IF i = 0 THEN [c |-> c, bo |-> None]
    ELSE [c |-> [c EXCEPT !.table = IF @[i].length = length THEN RemoveAt(@, i)
                                    ELSE [@ EXCEPT ![i] = Rest(@, length)],
                          !.modified = TRUE],
          bo |-> c.table[i].bo]

FirstFit(c, length) ==
    Take(c, SelectInSeq(c.table, LAMBDA j : j.length >= length), length)

(* The deferred item when it has the length wanted, else the first item of *)
(* the table that is long enough; bo is None when there is none.           *)
Allocate(c, length) ==
    IF c.deferred # None /\ c.deferred.length = length
    THEN [c |-> [c EXCEPT !.deferred = None], bo |-> c.deferred.bo]
    ELSE FirstFit(Undefer(c), length)
=============================================================================
