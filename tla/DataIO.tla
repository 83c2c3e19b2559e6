-------------------------------- MODULE DataIO --------------------------------
(***************************************************************************)
(* analytics/analytics_lib/dataio.py, key_to_stem and key_to_leaf: the     *)
(* analytics derive the leaf of a state key a second time, in Python, and  *)
(* must agree with the simulator to the bit.  The integers of Python do    *)
(* not wrap.                                                               *)
(***************************************************************************)
EXTENDS VerkleKey

(* Mutant: the header test looks at the low byte alone. *)
LowByteStem(k) ==
  IF k.slot = NoSlot \/ k.slot % NodeWidth < HeaderOffset
  THEN HeaderStem(k.addr)
  ELSE StorageStem(k.addr, k.slot \div NodeWidth)

(* dataio.key_to_stem *)
MirrorStem(k) ==
  IF k.slot = NoSlot \/ (k.slot \div NodeWidth = 0 /\ k.slot % NodeWidth < HeaderOffset)
  THEN HeaderStem(k.addr)
  ELSE StorageStem(k.addr, k.slot \div NodeWidth)

(* dataio.key_to_leaf *)
MirrorLeaf(k) ==
  <<MirrorStem(k),
    IF k.slot = NoSlot THEN 0
    ELSE IF ~MirrorStem(k).storage THEN HeaderOffset + (k.slot % NodeWidth)
    ELSE k.slot % NodeWidth>>
=============================================================================
