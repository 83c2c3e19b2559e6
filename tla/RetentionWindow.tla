-------------------------- MODULE RetentionWindow --------------------------
(***************************************************************************)
(* caching_strategies/src/window.rs: which block each key was last seen    *)
(* in, in order of last sight, so that the expired keys are at the front.  *)
(***************************************************************************)
EXTENDS Naturals, SequencesExt

WindowNew == [order |-> <<>>, seen |-> <<>>]

(* Mutants: the refreshed key keeps its place in the order; the key is     *)
(* stamped with the block to come.                                         *)
TouchStampsNext(w, k, now) ==
  [order |-> Append(RemoveFirst(w.order, k), k),
   seen |-> [x \in DOMAIN w.seen \cup {k} |->
               IF x = k THEN now + 1 ELSE w.seen[x]]]
TouchKeepsPlace(w, k, now) ==
  [order |-> IF k \in DOMAIN w.seen THEN w.order ELSE Append(w.order, k),
   seen |-> [x \in DOMAIN w.seen \cup {k} |-> IF x = k THEN now ELSE w.seen[x]]]

(* touch_back, or push_back when the key is not there. *)
WindowTouch(w, k, now) ==
  [order |-> Append(RemoveFirst(w.order, k), k),
   seen |-> [x \in DOMAIN w.seen \cup {k} |-> IF x = k THEN now ELSE w.seen[x]]]

WindowRemove(w, k) ==
  [order |-> RemoveFirst(w.order, k),
   seen |-> [x \in DOMAIN w.seen \ {k} |-> w.seen[x]]]

(* Whether drain_expired pops its next key: it looks at the front alone. *)
FrontExpired(w, n, now) ==
  /\ w.order # <<>>
  /\ w.seen[Head(w.order)] + n <= now
=============================================================================
