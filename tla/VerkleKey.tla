----------------------------- MODULE VerkleKey -----------------------------
(***************************************************************************)
(* caching_strategies/src/witness.rs, key_to_leaf: the place of a state    *)
(* key in the Verkle tree, the stem it hangs from and its suffix there.    *)
(* Slots are numbers; the chunk of a slot is its leading 31 bytes and the  *)
(* suffix its last byte, the division by the node width.                   *)
(***************************************************************************)
EXTENDS Naturals

CONSTANTS
  Addresses,
  NodeWidth,      \* VERKLE_NODE_WIDTH, 256: values of one byte
  HeaderOffset,   \* HEADER_STORAGE_OFFSET, 64
  NoSlot          \* the slot of an account header (None)

ASSUME GeometryAssumption ==
  /\ NodeWidth \in Nat \ {0}
  /\ HeaderOffset \in Nat \ {0}
  /\ 2 * HeaderOffset <= NodeWidth
  /\ NoSlot \notin Nat

StateKeys == [addr : Addresses, slot : Nat \cup {NoSlot}]

HeaderStem(addr) == [addr |-> addr, storage |-> FALSE, chunk |-> 0]
StorageStem(addr, chunk) == [addr |-> addr, storage |-> TRUE, chunk |-> chunk]

SlotBelowHeaderOffset(slot) ==
  slot \div NodeWidth = 0 /\ slot % NodeWidth < HeaderOffset

(* Mutant: the low slots are not moved past the header. *)
UnshiftedLeaf(k) ==
  IF k.slot = NoSlot THEN <<HeaderStem(k.addr), 0>>
  ELSE IF SlotBelowHeaderOffset(k.slot)
  THEN <<HeaderStem(k.addr), k.slot % NodeWidth>>
  ELSE <<StorageStem(k.addr, k.slot \div NodeWidth), k.slot % NodeWidth>>

(* The addition of the two bytes wraps at the node width. *)
KeyToLeaf(k) ==
  IF k.slot = NoSlot THEN <<HeaderStem(k.addr), 0>>
  ELSE IF SlotBelowHeaderOffset(k.slot)
  THEN <<HeaderStem(k.addr), (HeaderOffset + (k.slot % NodeWidth)) % NodeWidth>>
  ELSE <<StorageStem(k.addr, k.slot \div NodeWidth), k.slot % NodeWidth>>

StemOf(k) == KeyToLeaf(k)[1]
=============================================================================
