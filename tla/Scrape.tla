-------------------------------- MODULE Scrape --------------------------------
(***************************************************************************)
(* What a scrape promises to whoever reads its directory, whatever fails   *)
(* and however often it is killed: blocks become safe for good, the number *)
(* it reports is the last one up to which all are, and it ends when all    *)
(* are.  Scraper is shown to implement it.                                 *)
(***************************************************************************)
EXTENDS Integers

CONSTANTS StartBlock, EndBlock

Blocks == StartBlock..EndBlock

VARIABLES
  safe,     \* the blocks no kill can take away
  highest,  \* the block reported as the last of a contiguous prefix
  done

vars == <<safe, highest, done>>

Prefix(S) == CHOOSE h \in StartBlock - 1..EndBlock :
               StartBlock..h \subseteq S /\ h + 1 \notin S

Init == safe = {} /\ highest = StartBlock - 1 /\ done = FALSE

(* Blocks are made safe together with the number that is reported. *)
Store ==
  /\ ~done
  /\ \E new \in SUBSET (Blocks \ safe) :
       /\ new # {}
       /\ safe' = safe \cup new
  /\ highest' = Prefix(safe')
  /\ UNCHANGED done

Finish ==
  /\ ~done /\ safe = Blocks
  /\ done' = TRUE
  /\ UNCHANGED <<safe, highest>>

Next == Store \/ Finish

Spec == Init /\ [][Next]_vars /\ <>done
=============================================================================
