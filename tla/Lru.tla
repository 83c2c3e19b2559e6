-------------------------------- MODULE Lru --------------------------------
(***************************************************************************)
(* caching_strategies/src/policy/lru.rs.  The state of the policy is its   *)
(* OrderedMap, seen as the sequence of its keys, least recent first.       *)
(*                                                                         *)
(* Here, in Lfu and in Arc, the outcome of an access is a record: `st` is  *)
(* the policy afterwards, `hit` tells whether the key was resident, and    *)
(* `evicted` is the Option of the code, a set of at most one key.          *)
(***************************************************************************)
EXTENDS Naturals, SequencesExt

(* OrderedMap::touch_back of a key that is there. *)
MoveToBack(s, k) == Append(RemoveFirst(s, k), k)

LruNew == <<>>

(* Mutant: the limit is off by one. *)
LruEvictsLate(s, c, k) ==
  IF k \in ToSet(s)
  THEN [st |-> MoveToBack(s, k), hit |-> TRUE, evicted |-> {}]
  ELSE IF Len(s) > c
  THEN [st |-> Append(Tail(s), k), hit |-> FALSE, evicted |-> {Head(s)}]
  ELSE [st |-> Append(s, k), hit |-> FALSE, evicted |-> {}]

LruAccess(s, c, k) ==
  IF k \in ToSet(s)
  THEN [st |-> MoveToBack(s, k), hit |-> TRUE, evicted |-> {}]
  ELSE IF Len(s) >= c
  THEN [st |-> Append(Tail(s), k), hit |-> FALSE, evicted |-> {Head(s)}]
  ELSE [st |-> Append(s, k), hit |-> FALSE, evicted |-> {}]

LruRemove(s, k) == RemoveFirst(s, k)
=============================================================================
