----------------------------- MODULE MCExperiment -----------------------------
(***************************************************************************)
(* Experiment on ranges of up to five stored blocks in shards of two, with *)
(* the key geometry of the code and slots at its borders: the first and    *)
(* the last one of the header, the one after it, and the last one and the  *)
(* first one of two storage stems.                                         *)
(***************************************************************************)
EXTENDS Experiment

MCStarts == {{}, {2}, {9}}
MCEnds == {{}, {4}}
MCWindows == <<1, 2>>
MCPcts == <<10, 50, 100>>

Header(a) == [addr |-> a, slot |-> NoSlot]
Slot(a, i) == [addr |-> a, slot |-> i]

(* Reads and writes of a block. *)
None == [reads |-> {}, writes |-> {}]
Pay == [reads |-> {Header("a"), Header("b")}, writes |-> {Header("a")}]
Swap == [reads |-> {Slot("a", 0), Slot("b", 64), Slot("b", 256)}, writes |-> {Slot("a", 63)}]
Trade == [reads |-> {Header("b"), Slot("b", 64), Slot("b", 255)}, writes |-> {Slot("b", 255)}]

MCPlainChain == [b \in 0..7 |-> IF b % 2 = 0 THEN Swap ELSE Pay]
MCChains ==
  {MCPlainChain} \cup
    {[b \in 0..7 |-> IF b \in 2..6 THEN chain[b] ELSE None] : chain \in [2..6 -> {None, Swap, Trade}]}
=============================================================================
