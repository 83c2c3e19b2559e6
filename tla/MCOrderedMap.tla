---------------------------- MODULE MCOrderedMap ----------------------------
(***************************************************************************)
(* OrderedMap with three keys: enough for a node with two neighbours, for  *)
(* a free stack of several slots and for a slot reused by another key.     *)
(***************************************************************************)
EXTENDS OrderedMap
=============================================================================
