-------------------------------- MODULE MCRpc --------------------------------
(***************************************************************************)
(* Rpc on two blocks, fetched at once, or the first of them again while    *)
(* the orphan of its failed fetch goes on.  The two traces are alike: one  *)
(* stands for both.                                                        *)
(***************************************************************************)
EXTENDS Rpc
=============================================================================
