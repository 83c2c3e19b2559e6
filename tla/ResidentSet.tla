---------------------------- MODULE ResidentSet ----------------------------
(***************************************************************************)
(* What the trait ReplacementPolicy promises whatever the policy: a set of *)
(* resident keys; an access makes its key resident, reports a hit exactly  *)
(* when it already was, and evicts at most one key, another one, that was  *)
(* resident, and only from a full cache; a remove takes its key out and    *)
(* reports whether it was there.  How many keys stay is not promised here. *)
(***************************************************************************)
EXTENDS Naturals, FiniteSets

CONSTANTS Keys, Capacity

VARIABLES resident,
          out       \* the last call and its outcome

vars == <<resident, out>>

Init ==
  /\ resident = {}
  /\ out = [op |-> "new"]

Victims(k) ==
  {{}} \cup IF k \in resident \/ Cardinality(resident) < Capacity
            THEN {} ELSE {{v} : v \in resident}

Access(k) ==
  \E evicted \in Victims(k) :
    /\ resident' = (resident \ evicted) \cup {k}
    /\ out' = [op |-> "access", key |-> k, hit |-> k \in resident,
               evicted |-> evicted]

Remove(k) ==
  /\ resident' = resident \ {k}
  /\ out' = [op |-> "remove", key |-> k, removed |-> k \in resident]

Next == \E k \in Keys : Access(k) \/ Remove(k)

Spec == Init /\ [][Next]_vars
=============================================================================
