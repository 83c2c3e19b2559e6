-------------------------------- MODULE Arc --------------------------------
(***************************************************************************)
(* caching_strategies/src/policy/arc.rs: adaptive replacement.  t1 and t2  *)
(* hold the resident keys (seen once, seen again), b1 and b2 the keys last *)
(* evicted from each, and p is the length aimed at for t1.                 *)
(***************************************************************************)
EXTENDS Naturals, SequencesExt

AtLeastOne(n) == IF n < 1 THEN 1 ELSE n
AtMost(n, bound) == IF n > bound THEN bound ELSE n
Minus(a, b) == IF a < b THEN 0 ELSE a - b    \* saturating_sub

DropFront(s, n) == SubSeq(s, n + 1, Len(s))

ArcNew == [p |-> 0, t1 |-> <<>>, t2 |-> <<>>, b1 |-> <<>>, b2 |-> <<>>]

ArcResident(a) == ToSet(a.t1) \cup ToSet(a.t2)
ArcLen(a) == Len(a.t1) + Len(a.t2)

(* The keys in any of the four lists. *)
ArcKnown(a) == ArcResident(a) \cup ToSet(a.b1) \cup ToSet(a.b2)

(* Mutant: remove looks in t1 and the ghost lists only. *)
ArcRemoveFromT1(a, k) ==
  [a EXCEPT !.t1 = RemoveFirst(@, k), !.b1 = RemoveFirst(@, k),
            !.b2 = RemoveFirst(@, k)]

ArcRemove(a, k) ==
  [a EXCEPT !.t1 = RemoveFirst(@, k),
            !.t2 = IF k \in ToSet(a.t1) THEN @ ELSE RemoveFirst(@, k),
            !.b1 = RemoveFirst(@, k),
            !.b2 = RemoveFirst(@, k)]

ArcHit(a, k) ==
  [a EXCEPT !.t1 = RemoveFirst(@, k),
            !.t2 = Append(IF k \in ToSet(a.t1) THEN @ ELSE RemoveFirst(@, k), k)]

(* Mutant: the target is not capped by the capacity. *)
ArcTargetUncapped(a, c, k) ==
  IF k \in ToSet(a.b1)
  THEN a.p + AtLeastOne(Len(a.b2) \div AtLeastOne(Len(a.b1)))
  ELSE IF k \in ToSet(a.b2)
  THEN Minus(a.p, AtLeastOne(Len(a.b1) \div AtLeastOne(Len(a.b2))))
  ELSE a.p

(* The target after a miss: it grows on a ghost hit in b1, shrinks in b2. *)
ArcTarget(a, c, k) ==
  IF k \in ToSet(a.b1)
  THEN AtMost(a.p + AtLeastOne(Len(a.b2) \div AtLeastOne(Len(a.b1))), c)
  ELSE IF k \in ToSet(a.b2)
  THEN Minus(a.p, AtLeastOne(Len(a.b1) \div AtLeastOne(Len(a.b2))))
  ELSE a.p

(* replace: nothing is evicted when t2 is chosen and is empty. *)
ArcReplace(a, inB2) ==
  LET n == Len(a.t1)
  IN IF n > 0 /\ (n > a.p \/ (inB2 /\ n = a.p))
     THEN [a EXCEPT !.t1 = Tail(@), !.b1 = Append(@, Head(a.t1))]
     ELSE IF a.t2 # <<>>
     THEN [a EXCEPT !.t2 = Tail(@), !.b2 = Append(@, Head(a.t2))]
     ELSE a

(* Mutant: the key admitted from b2 is still remembered there. *)
ArcAdmitKeepsGhost(a, k) ==
  IF k \in ToSet(a.b1)
  THEN [a EXCEPT !.b1 = RemoveFirst(@, k), !.t2 = Append(@, k)]
  ELSE IF k \in ToSet(a.b2)
  THEN [a EXCEPT !.t2 = Append(@, k)]
  ELSE [a EXCEPT !.t1 = Append(@, k)]

(* The key enters t2 when a ghost list remembers it, t1 otherwise. *)
ArcAdmit(a, k) ==
  IF k \in ToSet(a.b1)
  THEN [a EXCEPT !.b1 = RemoveFirst(@, k), !.t2 = Append(@, k)]
  ELSE IF k \in ToSet(a.b2)
  THEN [a EXCEPT !.b2 = RemoveFirst(@, k), !.t2 = Append(@, k)]
  ELSE [a EXCEPT !.t1 = Append(@, k)]

(* The two trimming loops at the end of a miss. *)
ArcTrimB1(a, c) ==
  LET n == AtMost(Minus(Len(a.t1) + Len(a.b1), c), Len(a.b1))
  IN [a EXCEPT !.b1 = DropFront(@, n)]

(* Mutant: b2 is trimmed by the length of the ghost lists alone. *)
ArcTrimB2Ghosts(a, c) ==
  LET n == AtMost(Minus(Len(a.b1) + Len(a.b2), 2 * c), Len(a.b2))
  IN [a EXCEPT !.b2 = DropFront(@, n)]

ArcTrimB2(a, c) ==
  LET n == AtMost(Minus(ArcLen(a) + Len(a.b1) + Len(a.b2), 2 * c), Len(a.b2))
  IN [a EXCEPT !.b2 = DropFront(@, n)]

ArcMiss(a, c, k) ==
  LET aimed == [a EXCEPT !.p = ArcTarget(a, c, k)]
      spared == IF ArcLen(a) >= c THEN ArcReplace(aimed, k \in ToSet(a.b2))
                                  ELSE aimed
  IN [st |-> ArcTrimB2(ArcTrimB1(ArcAdmit(spared, k), c), c),
      hit |-> FALSE,
      evicted |-> ArcResident(a) \ ArcResident(spared)]

ArcAccess(a, c, k) ==
  IF k \in ArcResident(a)
  THEN [st |-> ArcHit(a, k), hit |-> TRUE, evicted |-> {}]
  ELSE ArcMiss(a, c, k)
=============================================================================
