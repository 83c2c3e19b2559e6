------------------------ MODULE MCReplacementPolicy ------------------------
(***************************************************************************)
(* The three policies with room for three keys of seven, one more than the *)
(* directory of ARC holds: its target moves by steps of one and of two and *)
(* meets its cap.  The keys are interchangeable.                           *)
(***************************************************************************)
EXTENDS ReplacementPolicy

KeySymmetry == Permutations(Keys)
=============================================================================
