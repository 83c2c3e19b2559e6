-------------------------------- MODULE Model --------------------------------
(***************************************************************************)
(* caching_strategies/src/model.rs: the names of accounts and slots as     *)
(* they come from outside, [id, len] with their length in bytes.           *)
(***************************************************************************)
EXTENDS Naturals

ADDR_LEN == 20
SLOT_LEN == 32

ToHex(addr) == [id |-> addr, len |-> ADDR_LEN]

(* The address, or nothing for a string of another length. *)
FromHex(h) == IF h.len = ADDR_LEN THEN {h.id} ELSE {}
=============================================================================
