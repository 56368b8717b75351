------------------------------- MODULE Tables -------------------------------
(***************************************************************************)
(* Key-value tables: a table is a function whose domain is the set of keys *)
(* that are present.                                                       *)
(***************************************************************************)

(* The table f with k mapped to x (kv::Map::put).                          *)
Put(f, k, x) == [y \in DOMAIN f \cup {k} |-> IF y = k THEN x ELSE f[y]]

EmptyTable == [y \in {} |-> y]
=============================================================================
