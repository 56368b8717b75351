------------------------------ MODULE MCStateKV -----------------------------
(***************************************************************************)
(* Keys that share prefixes of different lengths, one that is a prefix of  *)
(* another and one under the other prefix of Interpreter_KV; values that   *)
(* fit into a data node and that do not.  No value is empty.               *)
(***************************************************************************)
EXTENDS StateKV

MCKeys == {<<"p", "a">>, <<"p", "b">>, <<"p", "b", "b">>, <<"P", "a">>}
MCValues == {<<1>>, <<2, 2, 2, 2>>}
=============================================================================
