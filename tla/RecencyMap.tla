----------------------------- MODULE RecencyMap -----------------------------
(***************************************************************************)
(* What an OrderedMap promises to its users (the replacement policies and  *)
(* the retention window): a map whose keys are kept from the least to the  *)
(* most recently pushed or touched.  `ret` is the answer of the last call. *)
(***************************************************************************)
EXTENDS Naturals, SequencesExt

CONSTANTS Keys, Vals, Absent

VARIABLES order,  \* the keys, front (oldest) first
          val,    \* the value of each key present
          ret     \* what the last call returned

vars == <<order, val, ret>>

Init == order = <<>> /\ val = <<>> /\ ret = <<"new", Absent>>

PushBack(k, v) ==
  /\ k \notin DOMAIN val
  /\ order' = Append(order, k)
  /\ val' = [x \in DOMAIN val \cup {k} |-> IF x = k THEN v ELSE val[x]]
  /\ ret' = <<"push_back", Absent>>

TouchBack(k, v) ==
  /\ ret' = <<"touch_back", k \in DOMAIN val>>
  /\ IF k \in DOMAIN val
     THEN /\ order' = Append(RemoveFirst(order, k), k)
          /\ val' = [val EXCEPT ![k] = v]
     ELSE UNCHANGED <<order, val>>

RemoveKey(k) ==
  IF k \in DOMAIN val
  THEN /\ order' = RemoveFirst(order, k)
       /\ val' = [x \in DOMAIN val \ {k} |-> val[x]]
       /\ ret' = <<"remove", val[k]>>
  ELSE ret' = <<"remove", Absent>> /\ UNCHANGED <<order, val>>

FrontOf == IF order = <<>> THEN Absent ELSE <<Head(order), val[Head(order)]>>

PeekFront ==
  /\ ret' = <<"front", FrontOf>>
  /\ UNCHANGED <<order, val>>

PopFront ==
  IF order = <<>>
  THEN ret' = <<"pop_front", Absent>> /\ UNCHANGED <<order, val>>
  ELSE /\ order' = Tail(order)
       /\ val' = [x \in DOMAIN val \ {Head(order)} |-> val[x]]
       /\ ret' = <<"pop_front", FrontOf>>

Next ==
  \/ \E k \in Keys, v \in Vals : PushBack(k, v) \/ TouchBack(k, v)
  \/ \E k \in Keys : RemoveKey(k)
  \/ PeekFront
  \/ PopFront

Spec == Init /\ [][Next]_vars
=============================================================================
