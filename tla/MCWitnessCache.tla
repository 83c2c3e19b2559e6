--------------------------- MODULE MCWitnessCache ---------------------------
(***************************************************************************)
(* WitnessCache on three keys: the header and a low slot of one account,   *)
(* which share a stem, and the header of another account.                  *)
(***************************************************************************)
EXTENDS WitnessCache

CONSTANTS a1, a2

MCAddresses == {a1, a2}
MCKeys == {[addr |-> a1, slot |-> NoSlot], [addr |-> a1, slot |-> 0],
           [addr |-> a2, slot |-> NoSlot]}

(* The stratum "all" takes every block, "defi" the even ones and           *)
(* "transfer" the odd ones.                                                *)
MCSinks == {"all", "defi", "transfer"}
MCInStratum(s, b) ==
  CASE s = "all" -> TRUE
    [] s = "defi" -> b % 2 = 0
    [] s = "transfer" -> b % 2 = 1
=============================================================================
