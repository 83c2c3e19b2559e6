-------------------------- MODULE OrderedMapProofs --------------------------
(***************************************************************************)
(* The linked list of OrderedMap, whatever is called on it, is the list of *)
(* the slots the index owns, forwards and backwards; and so the map keeps  *)
(* the promises of RecencyMap.                                             *)
(***************************************************************************)
EXTENDS OrderedMap, CollectionProofs

(* A slot, or none. *)
Ends(n) == 1..n \cup {NONE}

Nodes(n) == [1..n -> [key : Keys, val : Vals, prev : Ends(n), next : Ends(n)]]

Lists(n) == [nodes : Nodes(n), head : Ends(n), tail : Ends(n)]

(* The fields of all the nodes. *)
KeysIn(l) == [i \in DOMAIN l.nodes |-> l.nodes[i].key]
ValsIn(l) == [i \in DOMAIN l.nodes |-> l.nodes[i].val]
NextIn(l) == [i \in DOMAIN l.nodes |-> l.nodes[i].next]
PrevIn(l) == [i \in DOMAIN l.nodes |-> l.nodes[i].prev]

(* r is l with these links, and no other difference. *)
Relinked(l, r, n, nx, pv, h, t) ==
  /\ r \in Lists(n) /\ KeysIn(r) = KeysIn(l) /\ ValsIn(r) = ValsIn(l)
  /\ NextIn(r) = nx /\ PrevIn(r) = pv /\ r.head = h /\ r.tail = t

-----------------------------------------------------------------------------
(* What one assignment of unlink and of link_back does. *)
LEMMA SetNext ==
  ASSUME NEW n \in Nat, NEW l \in Lists(n), NEW i \in 1..n, NEW x \in Ends(n)
  PROVE  Relinked(l, [l EXCEPT !.nodes[i].next = x], n,
                  [NextIn(l) EXCEPT ![i] = x], PrevIn(l), l.head, l.tail)
<1> DEFINE m == l.nodes
           y == [m[i] EXCEPT !.next = x]
           w == [m EXCEPT ![i] = y]
           r == [l EXCEPT !.nodes = w]
<1>1. m \in Nodes(n) /\ DOMAIN m = 1..n /\ l.head \in Ends(n) /\ l.tail \in Ends(n)
  BY DEF Lists, Nodes
<1>2. [l EXCEPT !.nodes[i].next = x] = r
  OBVIOUS
<1>3. y \in [key : Keys, val : Vals, prev : Ends(n), next : Ends(n)]
      /\ y.next = x /\ y.key = m[i].key /\ y.val = m[i].val /\ y.prev = m[i].prev
  BY <1>1 DEF Nodes
<1>4. r.nodes = w /\ r.head = l.head /\ r.tail = l.tail /\ r = [nodes |-> w, head |-> l.head, tail |-> l.tail]
  BY DEF Lists
<1> HIDE DEF y, m
<1>5. w \in Nodes(n) /\ DOMAIN w = 1..n /\ w[i] = y /\ \A j \in 1..n : j # i => w[j] = m[j]
  BY <1>1, <1>3 DEF Nodes
<1> HIDE DEF w, r
<1>6. r \in Lists(n)
  BY <1>1, <1>4, <1>5 DEF Lists
<1>7. KeysIn(r) = KeysIn(l) /\ ValsIn(r) = ValsIn(l) /\ PrevIn(r) = PrevIn(l)
  BY <1>1, <1>3, <1>4, <1>5 DEF KeysIn, ValsIn, PrevIn, m
<1>8. NextIn(r) = [NextIn(l) EXCEPT ![i] = x]
  BY <1>1, <1>3, <1>4, <1>5 DEF NextIn, m
<1> QED BY <1>2, <1>4, <1>6, <1>7, <1>8 DEF Relinked

(* The same, of prev. *)
LEMMA SetPrev ==
  ASSUME NEW n \in Nat, NEW l \in Lists(n), NEW i \in 1..n, NEW x \in Ends(n)
  PROVE  Relinked(l, [l EXCEPT !.nodes[i].prev = x], n,
                  NextIn(l), [PrevIn(l) EXCEPT ![i] = x], l.head, l.tail)
<1> DEFINE m == l.nodes
           y == [m[i] EXCEPT !.prev = x]
           w == [m EXCEPT ![i] = y]
           r == [l EXCEPT !.nodes = w]
<1>1. m \in Nodes(n) /\ DOMAIN m = 1..n /\ l.head \in Ends(n) /\ l.tail \in Ends(n)
  BY DEF Lists, Nodes
<1>2. [l EXCEPT !.nodes[i].prev = x] = r
  OBVIOUS
<1>3. y \in [key : Keys, val : Vals, prev : Ends(n), next : Ends(n)]
      /\ y.prev = x /\ y.key = m[i].key /\ y.val = m[i].val /\ y.next = m[i].next
  BY <1>1 DEF Nodes
<1>4. r.nodes = w /\ r.head = l.head /\ r.tail = l.tail /\ r = [nodes |-> w, head |-> l.head, tail |-> l.tail]
  BY DEF Lists
<1> HIDE DEF y, m
<1>5. w \in Nodes(n) /\ DOMAIN w = 1..n /\ w[i] = y /\ \A j \in 1..n : j # i => w[j] = m[j]
  BY <1>1, <1>3 DEF Nodes
<1> HIDE DEF w, r
<1>6. r \in Lists(n)
  BY <1>1, <1>4, <1>5 DEF Lists
<1>7. KeysIn(r) = KeysIn(l) /\ ValsIn(r) = ValsIn(l) /\ NextIn(r) = NextIn(l)
  BY <1>1, <1>3, <1>4, <1>5 DEF KeysIn, ValsIn, NextIn, m
<1>8. PrevIn(r) = [PrevIn(l) EXCEPT ![i] = x]
  BY <1>1, <1>3, <1>4, <1>5 DEF PrevIn, m
<1> QED BY <1>2, <1>4, <1>6, <1>7, <1>8 DEF Relinked

(* And of the two ends of the list. *)
LEMMA SetEnds ==
  ASSUME NEW n \in Nat, NEW l \in Lists(n), NEW x \in Ends(n)
  PROVE  /\ Relinked(l, [l EXCEPT !.head = x], n, NextIn(l), PrevIn(l), x, l.tail)
         /\ Relinked(l, [l EXCEPT !.tail = x], n, NextIn(l), PrevIn(l), l.head, x)
BY DEF Relinked, Lists, KeysIn, ValsIn, NextIn, PrevIn

(* Slot i is taken out: its neighbours, or the ends of the list where it   *)
(* has none, are joined.                                                   *)
LEMMA UnlinkEffect ==
  ASSUME NEW n \in Nat, NEW l \in Lists(n), NEW i \in 1..n
  PROVE  LET p == PrevIn(l)[i]
             x == NextIn(l)[i]
         IN Relinked(l, Unlink(l, i), n,
              [(IF p = NONE THEN NextIn(l) ELSE [NextIn(l) EXCEPT ![p] = x]) EXCEPT ![i] = NONE],
              [(IF x = NONE THEN PrevIn(l) ELSE [PrevIn(l) EXCEPT ![x] = p]) EXCEPT ![i] = NONE],
              IF p = NONE THEN x ELSE l.head, IF x = NONE THEN p ELSE l.tail)
<1> DEFINE p == l.nodes[i].prev
           x == l.nodes[i].next
           nx == IF p = NONE THEN NextIn(l) ELSE [NextIn(l) EXCEPT ![p] = x]
           pv == IF x = NONE THEN PrevIn(l) ELSE [PrevIn(l) EXCEPT ![x] = p]
           h == IF p = NONE THEN x ELSE l.head
           t == IF x = NONE THEN p ELSE l.tail
           fwd == IF p # NONE THEN [l EXCEPT !.nodes[p].next = x] ELSE [l EXCEPT !.head = x]
           bwd == IF x # NONE THEN [fwd EXCEPT !.nodes[x].prev = p] ELSE [fwd EXCEPT !.tail = p]
           cut == [bwd EXCEPT !.nodes[i].prev = NONE]
           r == [cut EXCEPT !.nodes[i].next = NONE]
<1>1. /\ p \in Ends(n) /\ x \in Ends(n) /\ NONE \in Ends(n)
      /\ PrevIn(l)[i] = p /\ NextIn(l)[i] = x
  BY DEF Lists, Nodes, Ends, PrevIn, NextIn
<1>2. Unlink(l, i) = r
  BY DEF Unlink
<1> HIDE DEF p, x
<1>3. Relinked(l, fwd, n, nx, PrevIn(l), h, l.tail)
  <2>1. CASE p = NONE
    BY <1>1, <2>1, SetEnds
  <2>2. CASE p # NONE
    <3>1. p \in 1..n
      BY <1>1, <2>2 DEF Ends
    <3> QED BY <1>1, <2>2, <3>1, SetNext
  <2> QED BY <2>1, <2>2
<1> HIDE DEF fwd, nx, h
<1>4. /\ fwd \in Lists(n) /\ fwd.tail = l.tail /\ fwd.head = h
      /\ NextIn(fwd) = nx /\ PrevIn(fwd) = PrevIn(l)
  BY <1>3 DEF Relinked
<1>5. Relinked(fwd, bwd, n, nx, pv, h, t)
  <2>1. CASE x = NONE
    BY <1>1, <1>4, <2>1, SetEnds
  <2>2. CASE x # NONE
    <3>1. x \in 1..n
      BY <1>1, <2>2 DEF Ends
    <3>2. Relinked(fwd, [fwd EXCEPT !.nodes[x].prev = p], n,
                   NextIn(fwd), [PrevIn(fwd) EXCEPT ![x] = p], fwd.head, fwd.tail)
      BY <1>1, <1>4, <3>1, SetPrev
    <3> QED BY <1>4, <2>2, <3>2
  <2> QED BY <2>1, <2>2
<1> HIDE DEF bwd, pv, t
<1>6. /\ bwd \in Lists(n) /\ NextIn(bwd) = nx /\ PrevIn(bwd) = pv /\ bwd.head = h /\ bwd.tail = t
  BY <1>5 DEF Relinked
<1>7. Relinked(bwd, cut, n, nx, [pv EXCEPT ![i] = NONE], h, t)
  <2>1. Relinked(bwd, cut, n, NextIn(bwd), [PrevIn(bwd) EXCEPT ![i] = NONE], bwd.head, bwd.tail)
    BY <1>1, <1>6, SetPrev
  <2> QED BY <1>6, <2>1
<1> HIDE DEF cut
<1>8. /\ cut \in Lists(n) /\ NextIn(cut) = nx /\ PrevIn(cut) = [pv EXCEPT ![i] = NONE]
      /\ cut.head = h /\ cut.tail = t
  BY <1>7 DEF Relinked
<1>9. Relinked(cut, r, n, [nx EXCEPT ![i] = NONE], [pv EXCEPT ![i] = NONE], h, t)
  <2>1. Relinked(cut, r, n, [NextIn(cut) EXCEPT ![i] = NONE], PrevIn(cut), cut.head, cut.tail)
    BY <1>1, <1>8, SetNext
  <2> QED BY <1>8, <2>1
<1> HIDE DEF r
<1>10. KeysIn(r) = KeysIn(l) /\ ValsIn(r) = ValsIn(l)
  BY <1>3, <1>5, <1>7, <1>9 DEF Relinked
<1>11. Relinked(l, r, n, [nx EXCEPT ![i] = NONE], [pv EXCEPT ![i] = NONE], h, t)
  BY <1>9, <1>10 DEF Relinked
<1> QED BY <1>1, <1>2, <1>11 DEF nx, pv, h, t

(* Slot i is put after the last one. *)
LEMMA LinkBackEffect ==
  ASSUME NEW n \in Nat, NEW l \in Lists(n), NEW i \in 1..n
  PROVE  LET t == l.tail
             nx == [NextIn(l) EXCEPT ![i] = NONE]
         IN Relinked(l, LinkBack(l, i), n,
              IF t = NONE THEN nx ELSE [nx EXCEPT ![t] = i],
              [PrevIn(l) EXCEPT ![i] = t],
              IF t = NONE THEN i ELSE l.head, i)
<1> DEFINE t == l.tail
           nx == [NextIn(l) EXCEPT ![i] = NONE]
           pv == [PrevIn(l) EXCEPT ![i] = t]
           nxt == IF t = NONE THEN nx ELSE [nx EXCEPT ![t] = i]
           h == IF t = NONE THEN i ELSE l.head
           half == [l EXCEPT !.nodes[i].prev = t]
           placed == [half EXCEPT !.nodes[i].next = NONE]
           joined == IF t # NONE THEN [placed EXCEPT !.nodes[t].next = i]
                                 ELSE [placed EXCEPT !.head = i]
           r == [joined EXCEPT !.tail = i]
<1>1. t \in Ends(n) /\ NONE \in Ends(n) /\ i \in Ends(n)
  BY DEF Lists, Ends
<1>2. LinkBack(l, i) = r
  BY DEF LinkBack
<1> HIDE DEF t
<1>3. Relinked(l, half, n, NextIn(l), pv, l.head, l.tail)
  BY <1>1, SetPrev
<1> HIDE DEF half, pv
<1>4. half \in Lists(n) /\ NextIn(half) = NextIn(l) /\ PrevIn(half) = pv /\ half.head = l.head
  BY <1>3 DEF Relinked
<1>5. Relinked(half, placed, n, nx, pv, l.head, half.tail)
  <2>1. Relinked(half, placed, n, [NextIn(half) EXCEPT ![i] = NONE], PrevIn(half), half.head, half.tail)
    BY <1>1, <1>4, SetNext
  <2> QED BY <1>4, <2>1
<1> HIDE DEF placed, nx
<1>6. placed \in Lists(n) /\ NextIn(placed) = nx /\ PrevIn(placed) = pv /\ placed.head = l.head
  BY <1>5 DEF Relinked
<1>7. Relinked(placed, joined, n, nxt, pv, h, placed.tail)
  <2>1. CASE t = NONE
    BY <1>1, <1>6, <2>1, SetEnds
  <2>2. CASE t # NONE
    <3>1. t \in 1..n
      BY <1>1, <2>2 DEF Ends
    <3>2. Relinked(placed, [placed EXCEPT !.nodes[t].next = i], n,
                   [NextIn(placed) EXCEPT ![t] = i], PrevIn(placed), placed.head, placed.tail)
      BY <1>1, <1>6, <3>1, SetNext
    <3> QED BY <1>6, <2>2, <3>2
  <2> QED BY <2>1, <2>2
<1> HIDE DEF joined, nxt, h
<1>8. joined \in Lists(n) /\ NextIn(joined) = nxt /\ PrevIn(joined) = pv /\ joined.head = h
  BY <1>7 DEF Relinked
<1>9. Relinked(joined, r, n, nxt, pv, h, i)
  <2>1. Relinked(joined, r, n, NextIn(joined), PrevIn(joined), joined.head, i)
    BY <1>1, <1>8, SetEnds
  <2> QED BY <1>8, <2>1
<1> HIDE DEF r
<1>10. KeysIn(r) = KeysIn(l) /\ ValsIn(r) = ValsIn(l)
  BY <1>3, <1>5, <1>7, <1>9 DEF Relinked
<1>11. Relinked(l, r, n, nxt, pv, h, i)
  BY <1>9, <1>10 DEF Relinked
<1> QED BY <1>2, <1>11 DEF nx, nxt, pv, h, t

-----------------------------------------------------------------------------
(* The slot at place j of a list, none before its first and after its last *)
(* place.                                                                  *)
At(q, j) == IF j \in 1..Len(q) THEN q[j] ELSE NONE

(* The links run through the slots of q, in both directions. *)
Chain(nx, pv, h, t, q) ==
  /\ h = At(q, 1) /\ t = At(q, Len(q))
  /\ \A j \in 1..Len(q) : nx[q[j]] = At(q, j + 1) /\ pv[q[j]] = At(q, j - 1)

(* Places of a list of slots. *)
LEMMA PlacesApart ==
  ASSUME NEW n \in Nat, NEW q \in Recency(1..n)
  PROVE  /\ Len(q) \in Nat /\ DOMAIN q = 1..Len(q)
         /\ \A j : At(q, j) \in Ends(n)
         /\ \A j \in 1..Len(q) : q[j] \in 1..n /\ q[j] # NONE /\ At(q, j) = q[j]
         /\ \A j, k \in 1..Len(q) : q[j] = q[k] => j = k
<1>1. Len(q) \in Nat /\ DOMAIN q = 1..Len(q) /\ q \in Seq(1..n)
  BY DEF Recency
<1>2. \A j \in 1..Len(q) : q[j] \in 1..n
  BY <1>1, ElementOfSeq
<1>3. \A j, k \in 1..Len(q) : q[j] = q[k] => j = k
  BY <1>1 DEF Recency, IsInjective
<1> QED BY <1>1, <1>2, <1>3 DEF At, Ends, NONE

(* Its slot at place a taken out, and the neighbours joined, the rest is   *)
(* linked.                                                                 *)
LEMMA ChainWithout ==
  ASSUME NEW n \in Nat, NEW q \in Recency(1..n), NEW nx, NEW pv, NEW h, NEW t,
         nx \in [1..n -> Ends(n)], pv \in [1..n -> Ends(n)],
         Chain(nx, pv, h, t, q), NEW i \in ToSet(q)
  PROVE  LET p == pv[i]
             x == nx[i]
         IN Chain([(IF p = NONE THEN nx ELSE [nx EXCEPT ![p] = x]) EXCEPT ![i] = NONE],
                  [(IF x = NONE THEN pv ELSE [pv EXCEPT ![x] = p]) EXCEPT ![i] = NONE],
                  IF p = NONE THEN x ELSE h, IF x = NONE THEN p ELSE t,
                  RemoveFirst(q, i))
<1> DEFINE m == Len(q)
           r == RemoveFirst(q, i)
<1>1. /\ m \in Nat /\ DOMAIN q = 1..m
      /\ \A j : At(q, j) \in Ends(n)
      /\ \A j \in 1..m : q[j] \in 1..n /\ q[j] # NONE /\ At(q, j) = q[j]
      /\ \A j, k \in 1..m : q[j] = q[k] => j = k
  BY PlacesApart
<1>2. PICK a \in 1..m : q[a] = i
  BY <1>1 DEF ToSet
<1>3. /\ Len(r) = m - 1
      /\ \A j \in 1..m - 1 : r[j] = IF j < a THEN q[j] ELSE q[j + 1]
  BY <1>2, RemoveFirstAt DEF Recency
<1> HIDE DEF r
<1> DEFINE p == At(q, a - 1)
           x == At(q, a + 1)
           nx2 == [(IF p = NONE THEN nx ELSE [nx EXCEPT ![p] = x]) EXCEPT ![i] = NONE]
           pv2 == [(IF x = NONE THEN pv ELSE [pv EXCEPT ![x] = p]) EXCEPT ![i] = NONE]
           h2 == IF p = NONE THEN x ELSE h
           t2 == IF x = NONE THEN p ELSE t
<1>4. /\ pv[i] = p /\ nx[i] = x /\ h = At(q, 1) /\ t = At(q, m)
      /\ \A j \in 1..m : nx[q[j]] = At(q, j + 1) /\ pv[q[j]] = At(q, j - 1)
  BY <1>2 DEF Chain
<1>5. p \in Ends(n) /\ x \in Ends(n) /\ i \in 1..n /\ m # 0
  <2>1. p \in Ends(n) /\ x \in Ends(n)
    BY <1>1
  <2>2. i \in 1..n
    BY <1>1, <1>2
  <2>3. m # 0
    <3> HIDE DEF m
    <3> QED BY <1>1, <1>2
  <2> QED BY <2>1, <2>2, <2>3
<1>6. /\ p # i /\ x # i
      /\ a > 1 => p = q[a - 1] /\ p # NONE
      /\ a = 1 => p = NONE
      /\ a < m => x = q[a + 1] /\ x # NONE
      /\ a = m => x = NONE
  <2>1. a > 1 => a - 1 \in 1..m /\ a - 1 # a
    BY <1>1, <1>2
  <2>2. a < m => a + 1 \in 1..m /\ a + 1 # a
    BY <1>1, <1>2
  <2>3. a = 1 => a - 1 \notin 1..m
    OBVIOUS
  <2>4. a = m => a + 1 \notin 1..m
    BY <1>1, <1>2
  <2>5. (a > 1 \/ a = 1) /\ (a < m \/ a = m)
    <3>1. m \in Nat /\ a \in Nat /\ 1 <= a /\ a <= m
      BY <1>1, <1>2
    <3> HIDE DEF m
    <3> QED BY <3>1
  <2>6. i # NONE
    BY <1>1, <1>2
  <2> QED BY <1>1, <1>2, <2>1, <2>2, <2>3, <2>4, <2>5, <2>6 DEF At
<1>7. /\ \A s \in 1..n : s # i /\ s # p => nx2[s] = nx[s]
      /\ p # NONE => nx2[p] = x
      /\ \A s \in 1..n : s # i /\ s # x => pv2[s] = pv[s]
      /\ x # NONE => pv2[x] = p
  BY <1>5, <1>6 DEF Ends
<1> HIDE DEF nx2, pv2, p, x, m
<1>8. ASSUME NEW j \in 0..m PROVE At(r, j) = IF j < a THEN At(q, j) ELSE At(q, j + 1)
  <2>1. CASE j = 0
    BY <1>2, <2>1 DEF At, m
  <2>2. CASE j \in 1..m - 1
    <3>1. j \in 1..Len(r) /\ j \in 1..m /\ j + 1 \in 1..m
      BY <1>1, <1>3, <2>2
    <3> QED BY <1>1, <1>3, <2>2, <3>1 DEF At
  <2>3. CASE j = m
    <3>1. j \notin 1..Len(r) /\ j + 1 \notin 1..m /\ ~(j < a)
      BY <1>1, <1>2, <1>3, <2>3
    <3> QED BY <3>1 DEF At, m
  <2> QED BY <1>1, <2>1, <2>2, <2>3
<1>9. h2 = At(r, 1)
  <2>1. 1 \in 0..m
    BY <1>1, <1>5
  <2>2. CASE a = 1
    BY <1>6, <1>8, <2>1, <2>2 DEF x
  <2>3. CASE a > 1
    BY <1>4, <1>6, <1>8, <2>1, <2>3
  <2> QED BY <1>2, <2>2, <2>3
<1>10. t2 = At(r, m - 1)
  <2>1. m - 1 \in 0..m
    BY <1>1, <1>5
  <2>2. CASE a = m
    BY <1>1, <1>6, <1>8, <2>1, <2>2 DEF p
  <2>3. CASE a < m
    <3>1. ~(m - 1 < a) /\ m - 1 + 1 = m
      BY <1>1, <1>2, <2>3
    <3> QED BY <1>4, <1>6, <1>8, <2>1, <2>3, <3>1
  <2> QED BY <1>1, <1>2, <2>2, <2>3
<1>11. ASSUME NEW j \in 1..m - 1
       PROVE  nx2[r[j]] = At(r, j + 1) /\ pv2[r[j]] = At(r, j - 1)
  <2>0. /\ j \in Int /\ j - 1 \in 0..m /\ j + 1 \in 0..m /\ j \in 1..m /\ j + 1 \in 1..m
        /\ j + 1 - 1 = j /\ j - 1 + 1 = j /\ a \in Int
    BY <1>1, <1>2
  <2>1. CASE j < a
    <3>1. r[j] = q[j] /\ q[j] \in 1..n /\ q[j] # i
      BY <1>1, <1>2, <1>3, <2>0, <2>1
    <3>2. pv2[q[j]] = At(q, j - 1)
      <4>1. q[j] # x
        <5>1. CASE a = m
          BY <1>1, <1>6, <2>0, <5>1
        <5>2. CASE a < m
          <6>1. a + 1 \in 1..m /\ a + 1 # j
            BY <1>1, <1>2, <2>0, <2>1, <5>2
          <6> QED BY <1>1, <1>6, <2>0, <5>2, <6>1
        <5> QED BY <1>1, <1>2, <5>1, <5>2
      <4> QED BY <1>4, <1>7, <2>0, <3>1, <4>1
    <3>3. At(r, j - 1) = At(q, j - 1)
      <4>1. j - 1 < a
        BY <2>0, <2>1
      <4> QED BY <1>8, <2>0, <4>1
    <3>4. nx2[q[j]] = At(r, j + 1)
      <4>1. CASE j + 1 = a
        <5>1. a > 1 /\ q[j] = p /\ p # NONE
          <6>1. a > 1 /\ a - 1 = j
            BY <2>0, <4>1
          <6> QED BY <1>6, <6>1
        <5>2. At(r, j + 1) = At(q, a + 1)
          <6>1. ~(j + 1 < a)
            BY <4>1, <2>0
          <6> QED BY <1>8, <2>0, <4>1, <6>1
        <5> QED BY <1>7, <5>1, <5>2 DEF x
      <4>2. CASE j + 1 < a
        <5>1. q[j] # p
          <6>1. a > 1 /\ a - 1 \in 1..m /\ a - 1 # j
            BY <1>1, <1>2, <2>0, <4>2
          <6> QED BY <1>1, <1>6, <2>0, <6>1
        <5>2. At(r, j + 1) = At(q, j + 1)
          BY <1>8, <2>0, <4>2
        <5> QED BY <1>4, <1>7, <2>0, <3>1, <5>1, <5>2
      <4> QED BY <2>0, <2>1, <4>1, <4>2
    <3> QED BY <3>1, <3>2, <3>3, <3>4
  <2>2. CASE ~(j < a)
    <3>1. r[j] = q[j + 1] /\ q[j + 1] \in 1..n /\ q[j + 1] # i
      <4>1. j + 1 # a
        BY <2>0, <2>2
      <4> QED BY <1>1, <1>2, <1>3, <2>0, <2>2, <4>1
    <3>2. nx2[q[j + 1]] = At(q, j + 1 + 1)
      <4>1. q[j + 1] # p
        <5>1. CASE a = 1
          BY <1>1, <1>6, <2>0, <5>1
        <5>2. CASE a > 1
          <6>1. a - 1 \in 1..m /\ a - 1 # j + 1
            BY <1>1, <1>2, <2>0, <2>2, <5>2
          <6> QED BY <1>1, <1>6, <2>0, <5>2, <6>1
        <5> QED BY <1>2, <5>1, <5>2
      <4> QED BY <1>4, <1>7, <2>0, <3>1, <4>1
    <3>3. At(r, j + 1) = At(q, j + 1 + 1)
      <4>1. ~(j + 1 < a)
        BY <2>0, <2>2
      <4> QED BY <1>8, <2>0, <4>1
    <3>4. pv2[q[j + 1]] = At(r, j - 1)
      <4>1. CASE j = a
        <5>1. a < m /\ q[j + 1] = x /\ x # NONE
          <6>1. a < m
            BY <1>1, <2>0, <4>1
          <6> QED BY <1>6, <4>1, <6>1
        <5>2. At(r, j - 1) = At(q, a - 1)
          <6>1. j - 1 < a
            BY <4>1, <2>0
          <6> QED BY <1>8, <2>0, <4>1, <6>1
        <5> QED BY <1>7, <5>1, <5>2 DEF p
      <4>2. CASE j > a
        <5>1. q[j + 1] # x
          <6>1. a < m /\ a + 1 \in 1..m /\ a + 1 # j + 1
            BY <1>1, <1>2, <2>0, <4>2
          <6> QED BY <1>1, <1>6, <2>0, <6>1
        <5>2. At(r, j - 1) = At(q, j)
          <6>1. ~(j - 1 < a)
            BY <2>0, <4>2
          <6> QED BY <1>8, <2>0, <6>1
        <5> QED BY <1>4, <1>7, <2>0, <3>1, <5>1, <5>2
      <4> QED BY <2>0, <2>2, <4>1, <4>2
    <3> QED BY <3>1, <3>2, <3>3, <3>4
  <2> QED BY <2>1, <2>2
<1>12. Chain(nx2, pv2, h2, t2, r)
  BY <1>3, <1>9, <1>10, <1>11 DEF Chain
<1> QED BY <1>4, <1>12 DEF nx2, pv2, r

(* One more slot after the last. *)
LEMMA ChainWith ==
  ASSUME NEW n \in Nat, NEW q \in Recency(1..n), NEW nx, NEW pv, NEW h, NEW t,
         nx \in [1..n -> Ends(n)], pv \in [1..n -> Ends(n)],
         Chain(nx, pv, h, t, q), NEW i \in 1..n, i \notin ToSet(q)
  PROVE  Chain(IF t = NONE THEN [nx EXCEPT ![i] = NONE] ELSE [[nx EXCEPT ![i] = NONE] EXCEPT ![t] = i],
               [pv EXCEPT ![i] = t], IF t = NONE THEN i ELSE h, i, Append(q, i))
<1> DEFINE m == Len(q)
           r == Append(q, i)
           nx2 == IF t = NONE THEN [nx EXCEPT ![i] = NONE] ELSE [[nx EXCEPT ![i] = NONE] EXCEPT ![t] = i]
           pv2 == [pv EXCEPT ![i] = t]
           h2 == IF t = NONE THEN i ELSE h
<1>1. /\ m \in Nat /\ DOMAIN q = 1..m
      /\ \A j : At(q, j) \in Ends(n)
      /\ \A j \in 1..m : q[j] \in 1..n /\ q[j] # NONE /\ At(q, j) = q[j]
      /\ \A j, k \in 1..m : q[j] = q[k] => j = k
  BY PlacesApart
<1>2. \A j \in 1..m : q[j] # i
  BY <1>1 DEF ToSet
<1>3. Len(r) = m + 1 /\ r[m + 1] = i /\ \A j \in 1..m : r[j] = q[j]
  BY <1>1, AppendProperties DEF Recency
<1>4. /\ h = At(q, 1) /\ t = At(q, m)
      /\ \A j \in 1..m : nx[q[j]] = At(q, j + 1) /\ pv[q[j]] = At(q, j - 1)
  BY DEF Chain
<1>5. /\ t \in Ends(n) /\ t # i
      /\ m = 0 => t = NONE
      /\ m # 0 => t = q[m] /\ t # NONE
  <2>1. m # 0 => m \in 1..m
    BY <1>1
  <2>2. m = 0 => m \notin 1..m
    OBVIOUS
  <2>3. i # NONE
    BY DEF NONE
  <2> QED BY <1>1, <1>2, <1>4, <2>1, <2>2, <2>3 DEF At
<1>6. /\ nx2[i] = NONE /\ pv2[i] = t
      /\ t # NONE => nx2[t] = i
      /\ \A s \in 1..n : s # i => pv2[s] = pv[s] /\ (s # t => nx2[s] = nx[s])
  BY <1>5 DEF Ends
<1> HIDE DEF r, nx2, pv2, m
<1>7. \A j \in 0..m : At(r, j) = At(q, j)
  BY <1>1, <1>3 DEF At, m
<1>8. At(r, m + 1) = i /\ At(r, m + 2) = NONE
  BY <1>1, <1>3 DEF At
<1>9. h2 = At(r, 1)
  <2>1. CASE m = 0
    BY <1>5, <1>8, <2>1
  <2>2. CASE m # 0
    BY <1>1, <1>4, <1>5, <1>7, <2>2
  <2> QED BY <2>1, <2>2
<1>10. ASSUME NEW j \in 1..m + 1
       PROVE  nx2[r[j]] = At(r, j + 1) /\ pv2[r[j]] = At(r, j - 1)
  <2>1. CASE j = m + 1
    <3>1. j + 1 = m + 2 /\ j - 1 = m /\ m \in 0..m
      BY <1>1, <2>1
    <3> QED BY <1>3, <1>4, <1>6, <1>7, <1>8, <2>1, <3>1
  <2>2. CASE j \in 1..m
    <3>0. r[j] = q[j] /\ q[j] \in 1..n /\ q[j] # i
      BY <1>1, <1>2, <1>3, <2>2
    <3>1. pv2[q[j]] = At(r, j - 1)
      <4>1. j - 1 \in 0..m
        BY <1>1, <2>2
      <4> QED BY <1>4, <1>6, <1>7, <2>2, <3>0, <4>1
    <3>2. CASE j = m
      <4>1. m # 0
        BY <2>2, <3>2
      <4>2. q[j] = t /\ t # NONE
        BY <1>5, <3>2, <4>1
      <4> QED BY <1>6, <1>8, <3>0, <3>1, <3>2, <4>2
    <3>3. CASE j # m
      <4>1. m \in 1..m /\ m # 0 /\ j + 1 \in 0..m
        BY <1>1, <2>2, <3>3
      <4>2. q[j] # t
        BY <1>1, <1>5, <2>2, <3>3, <4>1
      <4> QED BY <1>4, <1>6, <1>7, <2>2, <3>0, <3>1, <4>1, <4>2
    <3> QED BY <3>2, <3>3
  <2> QED BY <1>1, <2>1, <2>2
<1>11. Chain(nx2, pv2, h2, i, r)
  BY <1>3, <1>8, <1>9, <1>10 DEF Chain
<1> QED BY <1>11 DEF nx2, pv2, r

-----------------------------------------------------------------------------
(* The walk from the head, as Walk defines it. *)
Stepped(nd, h, f, j) ==
  IF j = 0 THEN NONE
  ELSE IF j = 1 THEN h
  ELSE IF f[j - 1] = NONE THEN NONE ELSE nd[f[j - 1]].next

Walked(nd, h, m) ==
  LET slot == CHOOSE f : f = [j \in 0..m |-> Stepped(nd, h, f, j)]
  IN [j \in 1..m |-> slot[j]]

(* Walk is that walk, over the current nodes. *)
LEMMA WalkIsWalked ==
  Walk = Walked(nodes, head, Cardinality(DOMAIN index))
BY DEF Walk, Walked, Stepped

(* It meets the slots the links run through. *)
LEMMA WalkMeets ==
  ASSUME NEW n \in Nat, NEW l \in Lists(n), NEW q \in Recency(1..n),
         Chain(NextIn(l), PrevIn(l), l.head, l.tail, q)
  PROVE  Walked(l.nodes, l.head, Len(q)) = q
<1> DEFINE m == Len(q)
           nd == l.nodes
           h == l.head
           Fits(f) == f = [j \in 0..m |-> Stepped(nd, h, f, j)]
           g == [j \in 0..m |-> At(q, j)]
           slot == CHOOSE f : Fits(f)
<1>1. /\ m \in Nat /\ DOMAIN q = 1..m
      /\ \A j \in 1..m : q[j] \in 1..n /\ q[j] # NONE /\ At(q, j) = q[j]
  BY PlacesApart
<1>2. h = At(q, 1) /\ \A j \in 1..m : nd[q[j]].next = At(q, j + 1)
  <2>1. DOMAIN nd = 1..n
    BY DEF Lists, Nodes
  <2> QED BY <1>1, <2>1 DEF Chain, NextIn
<1>3. At(q, 0) = NONE
  BY DEF At
<1> HIDE DEF m, nd, h
<1>4. ASSUME NEW j \in 0..m PROVE Stepped(nd, h, g, j) = g[j]
  <2>1. CASE j = 0
    BY <1>3, <2>1 DEF Stepped
  <2>2. CASE j = 1
    BY <1>2, <2>2 DEF Stepped
  <2>3. CASE j > 1
    <3>1. j - 1 \in 0..m /\ j - 1 \in 1..m /\ j - 1 + 1 = j /\ j # 0 /\ j # 1
      BY <1>1, <2>3
    <3>2. g[j - 1] = q[j - 1] /\ g[j - 1] # NONE
      BY <1>1, <3>1
    <3> QED BY <1>2, <3>1, <3>2 DEF Stepped
  <2> QED BY <1>1, <2>1, <2>2, <2>3
<1>5. Fits(g)
  BY <1>4
<1> HIDE DEF g
<1>6. Fits(slot)
  <2> HIDE DEF Fits
  <2> QED BY <1>5
<1>7. \A j \in 0..m : g[j] = At(q, j)
  BY DEF g
<1> DEFINE u == slot
<1>8. \A j \in 0..m : u[j] = Stepped(nd, h, u, j)
  BY <1>6
<1> HIDE DEF Fits, slot, u
<1>9. \A j \in 0..m : u[j] = At(q, j)
  <2> DEFINE Off == {j \in 0..m : u[j] # At(q, j)}
  <2> SUFFICES ASSUME Off # {} PROVE FALSE
    OBVIOUS
  <2>1. Off \in SUBSET Nat
    BY <1>1
  <2>2. PICK j \in Off : \A k \in Off : j <= k
    <3> HIDE DEF Off
    <3> QED BY <2>1, LeastNumber
  <2>3. j \in 0..m /\ u[j] # At(q, j) /\ u[j] = Stepped(nd, h, u, j)
    BY <1>8
  <2>4. j # 0
    BY <1>3, <2>3 DEF Stepped
  <2>5. j # 1
    BY <1>2, <2>3 DEF Stepped
  <2>6. j - 1 \in 0..m /\ j - 1 \in 1..m /\ j - 1 + 1 = j /\ ~(j <= j - 1)
    BY <1>1, <2>3, <2>4, <2>5
  <2>7. u[j - 1] = At(q, j - 1)
    BY <2>2, <2>6
  <2>8. u[j - 1] = q[j - 1] /\ u[j - 1] # NONE
    BY <1>1, <2>6, <2>7
  <2> QED BY <1>2, <2>3, <2>4, <2>5, <2>6, <2>8 DEF Stepped
<1>10. [j \in 1..m |-> u[j]] = q
  <2>1. \A j \in 1..m : u[j] = q[j]
    BY <1>1, <1>9
  <2>2. q = [j \in 1..m |-> q[j]]
    BY <1>1 DEF Recency
  <2> QED BY <2>1, <2>2
<1> QED BY <1>10 DEF Walked, u, slot, Fits, m, nd, h

-----------------------------------------------------------------------------
(* The slots the index owns. *)
Owned(ix) == {ix[k] : k \in DOMAIN ix}

(* Every slot of l is owned by one key, which it names, or free, once.     *)
Held(l, fr, ix, n) ==
  /\ n \in Nat /\ l \in Lists(n)
  /\ fr \in Recency(1..n)
  /\ DOMAIN ix \subseteq Keys /\ ix \in [DOMAIN ix -> 1..n]
  /\ \A k \in DOMAIN ix : KeysIn(l)[ix[k]] = k
  /\ Owned(ix) \cap ToSet(fr) = {} /\ Owned(ix) \cup ToSet(fr) = 1..n

(* The links run through the owned slots, in the order of q. *)
LinkedAs(l, ix, q) ==
  /\ q \in Recency(DOMAIN l.nodes) /\ ToSet(q) = Owned(ix)
  /\ Chain(NextIn(l), PrevIn(l), l.head, l.tail, q)

(* The invariant. *)
IInv == Held(links, free, index, Len(nodes)) /\ LinkedAs(links, index, Walk)

(* What the last call left is described by q, if q is what is linked. *)
LEMMA WalkIs ==
  ASSUME NEW n, NEW l, NEW fr, NEW ix, NEW q, Held(l, fr, ix, n), LinkedAs(l, ix, q)
  PROVE  /\ IsFiniteSet(DOMAIN ix) /\ Cardinality(DOMAIN ix) = Len(q)
         /\ Walked(l.nodes, l.head, Cardinality(DOMAIN ix)) = q
<1>1. /\ n \in Nat /\ l \in Lists(n) /\ DOMAIN l.nodes = 1..n
      /\ ix \in [DOMAIN ix -> 1..n] /\ \A k \in DOMAIN ix : KeysIn(l)[ix[k]] = k
  BY DEF Held, Lists, Nodes
<1>2. q \in Recency(1..n) /\ ToSet(q) = Owned(ix) /\ Chain(NextIn(l), PrevIn(l), l.head, l.tail, q)
  BY <1>1 DEF LinkedAs
<1>3. IsFiniteSet(Owned(ix)) /\ Cardinality(Owned(ix)) = Len(q)
  BY <1>2, RecencyCardinality DEF Size
<1>4. ExistsBijection(Owned(ix), DOMAIN ix)
  <2> DEFINE g == [x \in Owned(ix) |-> KeysIn(l)[x]]
  <2>1. \A k \in DOMAIN ix : ix[k] \in Owned(ix) /\ g[ix[k]] = k
    BY <1>1 DEF Owned
  <2>2. \A x \in Owned(ix) : \E k \in DOMAIN ix : x = ix[k]
    BY DEF Owned
  <2>3. DOMAIN g = Owned(ix) /\ g = [x \in Owned(ix) |-> g[x]]
    OBVIOUS
  <2> HIDE DEF g
  <2>4. g \in [Owned(ix) -> DOMAIN ix]
    BY <2>1, <2>2, <2>3
  <2>5. \A x, y \in Owned(ix) : g[x] = g[y] => x = y
    BY <2>1, <2>2
  <2>6. g \in Bijection(Owned(ix), DOMAIN ix)
    BY <2>1, <2>4, <2>5 DEF Bijection, Injection, Surjection, IsInjective
  <2> QED BY <2>6 DEF ExistsBijection
<1>5. IsFiniteSet(DOMAIN ix) /\ Cardinality(DOMAIN ix) = Len(q)
  BY <1>3, <1>4, FS_Bijection
<1>6. Walked(l.nodes, l.head, Len(q)) = q
  BY <1>1, <1>2, WalkMeets
<1> QED BY <1>5, <1>6

(* The last slot taken from the free stack. *)
LEMMA RecencyFront ==
  ASSUME NEW S, NEW s \in Recency(S), s # <<>>
  PROVE  /\ Last(s) \in S /\ Last(s) \in ToSet(s)
         /\ Front(s) \in Recency(S) /\ ToSet(Front(s)) = ToSet(s) \ {Last(s)}
<1> DEFINE m == Len(s)
           r == Front(s)
<1>1. m \in Nat /\ m # 0 /\ s \in Seq(S) /\ DOMAIN s = 1..m /\ m \in 1..m
  BY EmptySeq DEF Recency
<1>2. Last(s) = s[m] /\ s[m] \in S
  BY <1>1, ElementOfSeq DEF Last
<1>3. \A j, k \in 1..m : s[j] = s[k] => j = k
  BY <1>1 DEF Recency, IsInjective
<1>4. /\ r \in Seq(S) /\ Len(r) = m - 1 /\ \A j \in 1..m - 1 : r[j] = s[j]
  <2>1. \A j \in 1..m - 1 : s[j] \in S
    BY <1>1, ElementOfSeq
  <2>2. m - 1 \in Nat
    BY <1>1
  <2>3. /\ SubSeq(s, 1, m - 1) \in Seq(S) /\ Len(SubSeq(s, 1, m - 1)) = m - 1
        /\ \A j \in 1..m - 1 : SubSeq(s, 1, m - 1)[j] = s[j]
    <3> HIDE DEF m
    <3>1. 1 \in Int /\ m - 1 \in Int /\ (IF 1 <= m - 1 + 1 THEN m - 1 - 1 + 1 ELSE 0) = m - 1
      BY <1>1
    <3>2. \A j \in 1..m - 1 : 1 + j - 1 = j
      OBVIOUS
    <3> QED BY <1>1, <2>1, <2>2, <3>1, <3>2, SubSeqProperties
  <2> QED BY <2>3 DEF Front
<1> HIDE DEF r, m
<1>5. DOMAIN r = 1..m - 1 /\ \A j \in 1..m - 1 : j \in 1..m /\ j # m
  BY <1>1, <1>4
<1>6. IsInjective(r)
  BY <1>3, <1>4, <1>5 DEF IsInjective
<1>7. \A x : x \in ToSet(r) <=> x \in ToSet(s) /\ x # s[m]
  <2>1. \A j \in 1..m : j = m \/ j \in 1..m - 1
    BY <1>1
  <2>2. \A x : x \in ToSet(r) <=> \E j \in 1..m - 1 : s[j] = x
    BY <1>4, <1>5 DEF ToSet
  <2>3. \A x : x \in ToSet(s) <=> \E j \in 1..m : s[j] = x
    BY <1>1 DEF ToSet
  <2> QED BY <1>1, <1>3, <1>5, <2>1, <2>2, <2>3
<1>8. s[m] \in ToSet(s)
  BY <1>1 DEF ToSet
<1> QED BY <1>2, <1>4, <1>6, <1>7, <1>8 DEF r, Recency

-----------------------------------------------------------------------------
(* What the list says of the map: the keys in the order of q, and the      *)
(* value of each.                                                          *)
Order(l, q) == [j \in 1..Len(q) |-> KeysIn(l)[q[j]]]
Values(l, ix) == [k \in DOMAIN ix |-> ValsIn(l)[ix[k]]]

(* r is l with another value in slot i. *)
Revalued(l, r, n, i, v) ==
  /\ r \in Lists(n) /\ KeysIn(r) = KeysIn(l) /\ ValsIn(r) = [ValsIn(l) EXCEPT ![i] = v]
  /\ NextIn(r) = NextIn(l) /\ PrevIn(r) = PrevIn(l) /\ r.head = l.head /\ r.tail = l.tail

(* Storing a value leaves the links alone. *)
LEMMA SetVal ==
  ASSUME NEW n \in Nat, NEW l \in Lists(n), NEW i \in 1..n, NEW v \in Vals
  PROVE  Revalued(l, [l EXCEPT !.nodes[i].val = v], n, i, v)
<1> DEFINE m == l.nodes
           y == [m[i] EXCEPT !.val = v]
           w == [m EXCEPT ![i] = y]
           r == [l EXCEPT !.nodes = w]
<1>1. m \in Nodes(n) /\ DOMAIN m = 1..n /\ l.head \in Ends(n) /\ l.tail \in Ends(n)
  BY DEF Lists, Nodes
<1>2. [l EXCEPT !.nodes[i].val = v] = r
  OBVIOUS
<1>3. y \in [key : Keys, val : Vals, prev : Ends(n), next : Ends(n)]
      /\ y.val = v /\ y.key = m[i].key /\ y.prev = m[i].prev /\ y.next = m[i].next
  BY <1>1 DEF Nodes
<1>4. r.nodes = w /\ r.head = l.head /\ r.tail = l.tail /\ r = [nodes |-> w, head |-> l.head, tail |-> l.tail]
  BY DEF Lists
<1> HIDE DEF y, m
<1>5. w \in Nodes(n) /\ DOMAIN w = 1..n /\ w[i] = y /\ \A j \in 1..n : j # i => w[j] = m[j]
  BY <1>1, <1>3 DEF Nodes
<1> HIDE DEF w, r
<1>6. r \in Lists(n)
  BY <1>1, <1>4, <1>5 DEF Lists
<1>7. KeysIn(r) = KeysIn(l) /\ PrevIn(r) = PrevIn(l) /\ NextIn(r) = NextIn(l)
  BY <1>1, <1>3, <1>4, <1>5 DEF KeysIn, PrevIn, NextIn, m
<1>8. ValsIn(r) = [ValsIn(l) EXCEPT ![i] = v]
  BY <1>1, <1>3, <1>4, <1>5 DEF ValsIn, m
<1> QED BY <1>2, <1>4, <1>6, <1>7, <1>8 DEF Revalued

(* The fields of a list are functions on its slots. *)
LEMMA FieldTypes ==
  ASSUME NEW n \in Nat, NEW l \in Lists(n)
  PROVE  /\ DOMAIN l.nodes = 1..n
         /\ KeysIn(l) \in [1..n -> Keys] /\ ValsIn(l) \in [1..n -> Vals]
         /\ NextIn(l) \in [1..n -> Ends(n)] /\ PrevIn(l) \in [1..n -> Ends(n)]
BY DEF Lists, Nodes, KeysIn, ValsIn, NextIn, PrevIn

(* No two keys own the same slot. *)
LEMMA OwnersApart ==
  ASSUME NEW n, NEW l, NEW fr, NEW ix, Held(l, fr, ix, n), NEW k \in DOMAIN ix
  PROVE  /\ ix[k] \in 1..n /\ ix[k] \in Owned(ix) /\ k \in Keys /\ KeysIn(l)[ix[k]] = k
         /\ \A j \in DOMAIN ix : ix[j] = ix[k] => j = k
BY DEF Held, Owned

(* The list without slot i, as unlink leaves it. *)
Cut(l, r, n, q, i) ==
  /\ r \in Lists(n) /\ KeysIn(r) = KeysIn(l) /\ ValsIn(r) = ValsIn(l)
  /\ RemoveFirst(q, i) \in Recency(1..n) /\ ToSet(RemoveFirst(q, i)) = ToSet(q) \ {i}
  /\ Chain(NextIn(r), PrevIn(r), r.head, r.tail, RemoveFirst(q, i))

(* unlink leaves such a list. *)
LEMMA UnlinkCuts ==
  ASSUME NEW n \in Nat, NEW l \in Lists(n), NEW q \in Recency(1..n),
         Chain(NextIn(l), PrevIn(l), l.head, l.tail, q), NEW i \in ToSet(q)
  PROVE  i \in 1..n /\ Cut(l, Unlink(l, i), n, q, i)
<1>1. i \in 1..n
  BY ElementOfSeq DEF Recency, ToSet
<1> DEFINE r == Unlink(l, i)
           p == PrevIn(l)[i]
           x == NextIn(l)[i]
           nx == [(IF p = NONE THEN NextIn(l) ELSE [NextIn(l) EXCEPT ![p] = x]) EXCEPT ![i] = NONE]
           pv == [(IF x = NONE THEN PrevIn(l) ELSE [PrevIn(l) EXCEPT ![x] = p]) EXCEPT ![i] = NONE]
           h == IF p = NONE THEN x ELSE l.head
           t == IF x = NONE THEN p ELSE l.tail
<1>2. Relinked(l, r, n, nx, pv, h, t)
  BY <1>1, UnlinkEffect
<1>3. Chain(nx, pv, h, t, RemoveFirst(q, i))
  <2>1. NextIn(l) \in [1..n -> Ends(n)] /\ PrevIn(l) \in [1..n -> Ends(n)]
    BY FieldTypes
  <2> QED BY <2>1, ChainWithout
<1>4. RemoveFirst(q, i) \in Recency(1..n) /\ ToSet(RemoveFirst(q, i)) = ToSet(q) \ {i}
  BY RecencyRemove
<1> HIDE DEF r, nx, pv, h, t
<1>5. Cut(l, r, n, q, i)
  BY <1>2, <1>3, <1>4 DEF Cut, Relinked
<1> QED BY <1>1, <1>5 DEF r

(* The list with slot i at its end, as link_back leaves it. *)
Joint(l, r, n, q, i) ==
  /\ r \in Lists(n) /\ KeysIn(r) = KeysIn(l) /\ ValsIn(r) = ValsIn(l)
  /\ Append(q, i) \in Recency(1..n) /\ ToSet(Append(q, i)) = ToSet(q) \cup {i}
  /\ Chain(NextIn(r), PrevIn(r), r.head, r.tail, Append(q, i))

(* link_back leaves such a list. *)
LEMMA LinkBackJoins ==
  ASSUME NEW n \in Nat, NEW l \in Lists(n), NEW q \in Recency(1..n),
         Chain(NextIn(l), PrevIn(l), l.head, l.tail, q), NEW i \in 1..n, i \notin ToSet(q)
  PROVE  Joint(l, LinkBack(l, i), n, q, i)
<1> DEFINE r == LinkBack(l, i)
           t == l.tail
           nx == IF t = NONE THEN [NextIn(l) EXCEPT ![i] = NONE]
                 ELSE [[NextIn(l) EXCEPT ![i] = NONE] EXCEPT ![t] = i]
           pv == [PrevIn(l) EXCEPT ![i] = t]
           h == IF t = NONE THEN i ELSE l.head
<1>1. Relinked(l, r, n, nx, pv, h, i)
  BY LinkBackEffect
<1>2. Chain(nx, pv, h, i, Append(q, i))
  <2>1. NextIn(l) \in [1..n -> Ends(n)] /\ PrevIn(l) \in [1..n -> Ends(n)]
    BY FieldTypes
  <2> QED BY <2>1, ChainWith
<1>3. Append(q, i) \in Recency(1..n) /\ ToSet(Append(q, i)) = ToSet(q) \cup {i}
  BY RecencyAppend
<1> HIDE DEF r, nx, pv, h
<1>4. Joint(l, r, n, q, i)
  BY <1>1, <1>2, <1>3 DEF Joint, Relinked
<1> QED BY <1>4 DEF r

(* The keys in order, with one of them taken out or put at the end. *)
LEMMA OrderIs ==
  ASSUME NEW n, NEW l, NEW fr, NEW ix, NEW q, Held(l, fr, ix, n), LinkedAs(l, ix, q)
  PROVE  /\ Order(l, q) \in Recency(Keys) /\ ToSet(Order(l, q)) = DOMAIN ix
         /\ Len(Order(l, q)) = Len(q)
<1> DEFINE o == Order(l, q)
<1>1. /\ n \in Nat /\ l \in Lists(n) /\ DOMAIN l.nodes = 1..n
      /\ \A k \in DOMAIN ix : KeysIn(l)[ix[k]] = k
      /\ DOMAIN ix \subseteq Keys
  BY FieldTypes DEF Held
<1>2. q \in Recency(1..n) /\ ToSet(q) = Owned(ix)
  BY <1>1 DEF LinkedAs
<1>3. /\ Len(q) \in Nat /\ DOMAIN q = 1..Len(q)
      /\ \A j, k \in 1..Len(q) : q[j] = q[k] => j = k
  BY <1>1, <1>2, PlacesApart
<1>4. \A j \in 1..Len(q) : \E k \in DOMAIN ix : q[j] = ix[k] /\ o[j] = k
  <2> TAKE j \in 1..Len(q)
  <2>1. q[j] \in Owned(ix)
    BY <1>2, <1>3 DEF ToSet
  <2>2. PICK k \in DOMAIN ix : q[j] = ix[k]
    BY <2>1 DEF Owned
  <2> QED BY <1>1, <2>2 DEF Order
<1>5. \A k \in DOMAIN ix : \E j \in 1..Len(q) : o[j] = k
  <2> TAKE k \in DOMAIN ix
  <2>1. ix[k] \in ToSet(q)
    BY <1>2 DEF Owned
  <2>2. PICK j \in 1..Len(q) : q[j] = ix[k]
    BY <1>3, <2>1 DEF ToSet
  <2> QED BY <1>1, <2>2 DEF Order
<1>6. DOMAIN o = 1..Len(q) /\ o = [j \in 1..Len(q) |-> o[j]]
  BY DEF Order
<1> HIDE DEF o
<1>7. o \in Seq(Keys) /\ Len(o) = Len(q)
  <2>1. \A j \in 1..Len(q) : o[j] \in Keys
    BY <1>1, <1>4
  <2> QED BY <1>3, <1>6, <2>1
<1>8. IsInjective(o)
  <2> SUFFICES ASSUME NEW j1 \in 1..Len(q), NEW j2 \in 1..Len(q), o[j1] = o[j2]
               PROVE  j1 = j2
    BY <1>6 DEF IsInjective
  <2>1. PICK k1 \in DOMAIN ix : q[j1] = ix[k1] /\ o[j1] = k1
    BY <1>4
  <2>2. PICK k2 \in DOMAIN ix : q[j2] = ix[k2] /\ o[j2] = k2
    BY <1>4
  <2> QED BY <1>3, <2>1, <2>2
<1>9. ToSet(o) = DOMAIN ix
  <2>1. \A x : x \in ToSet(o) <=> \E j \in 1..Len(q) : o[j] = x
    BY <1>6 DEF ToSet
  <2>2. \A x : x \in ToSet(o) => x \in DOMAIN ix
    BY <1>4, <2>1
  <2> QED BY <1>5, <2>1, <2>2
<1> QED BY <1>7, <1>8, <1>9 DEF Recency, o

(* Taking a slot out of the list is taking its key out of the order. *)
LEMMA OrderWithout ==
  ASSUME NEW n, NEW l, NEW fr, NEW ix, NEW q, Held(l, fr, ix, n), LinkedAs(l, ix, q),
         NEW k \in DOMAIN ix, NEW r, KeysIn(r) = KeysIn(l)
  PROVE  Order(r, RemoveFirst(q, ix[k])) = RemoveFirst(Order(l, q), k)
<1> DEFINE o == Order(l, q)
           i == ix[k]
           new == RemoveFirst(q, i)
<1>1. n \in Nat /\ l \in Lists(n) /\ DOMAIN l.nodes = 1..n /\ KeysIn(l)[i] = k
  BY FieldTypes, OwnersApart DEF Held
<1>2. q \in Recency(1..n) /\ ToSet(q) = Owned(ix)
  BY <1>1 DEF LinkedAs
<1>3. Len(q) \in Nat /\ DOMAIN q = 1..Len(q) /\ q \in Seq(1..n) /\ IsInjective(q)
  BY <1>2 DEF Recency
<1>4. PICK a \in 1..Len(q) : q[a] = i
  BY <1>2, <1>3 DEF ToSet, Owned
<1>5. /\ o \in Seq(Keys) /\ IsInjective(o) /\ Len(o) = Len(q)
      /\ \A j \in 1..Len(q) : o[j] = KeysIn(l)[q[j]]
  BY OrderIs DEF Recency, Order
<1> HIDE DEF o
<1>6. o[a] = k
  BY <1>1, <1>4, <1>5
<1>7. /\ new \in Seq(1..n) /\ Len(new) = Len(q) - 1
      /\ \A j \in 1..Len(q) - 1 : new[j] = IF j < a THEN q[j] ELSE q[j + 1]
  <2>1. q \in Seq(1..n) /\ IsInjective(q)
    BY <1>3
  <2> HIDE DEF i
  <2> QED BY <1>4, <2>1, RemoveFirstAt
<1>8. /\ RemoveFirst(o, k) \in Seq(Keys) /\ Len(RemoveFirst(o, k)) = Len(q) - 1
      /\ \A j \in 1..Len(q) - 1 : RemoveFirst(o, k)[j] = IF j < a THEN o[j] ELSE o[j + 1]
  <2>1. o \in Seq(Keys) /\ IsInjective(o) /\ Len(o) = Len(q)
    BY <1>5
  <2>2. a \in 1..Len(o) /\ o[a] = k
    BY <1>6, <2>1
  <2> QED BY <2>1, <2>2, RemoveFirstAt
<1> HIDE DEF new
<1>9. \A j \in 1..Len(q) - 1 : KeysIn(l)[new[j]] = RemoveFirst(o, k)[j]
  <2> TAKE j \in 1..Len(q) - 1
  <2>1. j \in 1..Len(q) /\ j + 1 \in 1..Len(q)
    BY <1>3
  <2> QED BY <1>5, <1>7, <1>8, <2>1
<1>10. Order(r, new) = [j \in 1..Len(q) - 1 |-> KeysIn(l)[new[j]]]
  BY <1>7 DEF Order
<1>11. RemoveFirst(o, k) = [j \in 1..Len(q) - 1 |-> RemoveFirst(o, k)[j]]
  BY <1>8
<1>12. Order(r, new) = RemoveFirst(o, k)
  BY <1>9, <1>10, <1>11
<1> QED BY <1>12 DEF o, new

(* Putting a slot at the end of the list is putting its key there. *)
LEMMA OrderWith ==
  ASSUME NEW S, NEW q \in Seq(S), NEW i \in S, NEW l, NEW T,
         Order(l, q) \in Seq(T), KeysIn(l)[i] \in T
  PROVE  Order(l, Append(q, i)) = Append(Order(l, q), KeysIn(l)[i])
<1> DEFINE o == Order(l, q)
           k == KeysIn(l)[i]
<1>0. /\ o \in Seq(T) /\ k \in T /\ Len(o) = Len(q)
      /\ \A j \in 1..Len(q) : KeysIn(l)[q[j]] = o[j]
  BY DEF Order
<1> HIDE DEF o
<1>1. /\ Len(q) \in Nat /\ Len(Append(q, i)) = Len(q) + 1
      /\ Append(q, i)[Len(q) + 1] = i /\ \A j \in 1..Len(q) : Append(q, i)[j] = q[j]
  BY AppendProperties
<1>2. /\ Append(o, k) \in Seq(T) /\ Len(Append(o, k)) = Len(q) + 1
      /\ Append(o, k)[Len(q) + 1] = k /\ \A j \in 1..Len(q) : Append(o, k)[j] = o[j]
  BY <1>0, AppendProperties
<1> DEFINE u == Append(q, i)
           w == Append(o, k)
<1> HIDE DEF u, w
<1>3. Order(l, u) = [j \in 1..Len(q) + 1 |-> KeysIn(l)[u[j]]]
  BY <1>1 DEF Order, u
<1>4. w = [j \in 1..Len(q) + 1 |-> w[j]]
  <2>1. w \in Seq(T) /\ Len(w) = Len(q) + 1
    BY <1>2 DEF w
  <2> QED BY <2>1
<1>5. \A j \in 1..Len(q) + 1 : KeysIn(l)[u[j]] = w[j]
  <2> TAKE j \in 1..Len(q) + 1
  <2>1. CASE j = Len(q) + 1
    BY <1>1, <1>2, <2>1 DEF u, w
  <2>2. CASE j \in 1..Len(q)
    BY <1>0, <1>1, <1>2, <2>2 DEF u, w
  <2> QED BY <1>1, <2>1, <2>2
<1> QED BY <1>3, <1>4, <1>5 DEF u, w, o

-----------------------------------------------------------------------------
(* What a call leaves: lists, slots and index agree, q being linked.       *)
Settled(l, fr, ix, n, q) == Held(l, fr, ix, n) /\ LinkedAs(l, ix, q)

(* From l and ix a call made r and ix2, in which the keys are o and their  *)
(* values m.                                                               *)
Leaves(r, fr, ix, n, q, o, m) ==
  Settled(r, fr, ix, n, q) /\ Order(r, q) = o /\ Values(r, ix) = m

(* The index without key k. *)
Less(ix, k) == [x \in DOMAIN ix \ {k} |-> ix[x]]

(* The facts of a settled map the calls start from. *)
LEMMA Start ==
  ASSUME NEW n, NEW l, NEW fr, NEW ix, NEW q, Settled(l, fr, ix, n, q)
  PROVE  /\ n \in Nat /\ l \in Lists(n) /\ DOMAIN l.nodes = 1..n
         /\ fr \in Recency(1..n) /\ q \in Recency(1..n) /\ ToSet(q) = Owned(ix)
         /\ DOMAIN ix \subseteq Keys
         /\ Owned(ix) \cap ToSet(fr) = {} /\ Owned(ix) \cup ToSet(fr) = 1..n
         /\ Chain(NextIn(l), PrevIn(l), l.head, l.tail, q)
<1>1. n \in Nat /\ l \in Lists(n)
  BY DEF Settled, Held
<1>2. DOMAIN l.nodes = 1..n
  BY <1>1, FieldTypes
<1> QED BY <1>1, <1>2 DEF Settled, Held, LinkedAs

(* remove and pop_front: the key is gone, its slot is free and holds the   *)
(* default.                                                                *)
LEMMA ReleaseLeaves ==
  ASSUME NEW n, NEW l, NEW fr, NEW ix, NEW q, Settled(l, fr, ix, n, q),
         NEW k \in DOMAIN ix
  PROVE  Leaves([Unlink(l, ix[k]) EXCEPT !.nodes[ix[k]].val = Default],
                Append(fr, ix[k]), Less(ix, k), n, RemoveFirst(q, ix[k]),
                RemoveFirst(Order(l, q), k), Less(Values(l, ix), k))
<1> DEFINE i == ix[k]
           c == Unlink(l, i)
           r == [c EXCEPT !.nodes[i].val = Default]
           ix2 == Less(ix, k)
           fr2 == Append(fr, i)
           q2 == RemoveFirst(q, i)
<1>1. /\ n \in Nat /\ l \in Lists(n) /\ DOMAIN l.nodes = 1..n
      /\ fr \in Recency(1..n) /\ q \in Recency(1..n) /\ ToSet(q) = Owned(ix)
      /\ DOMAIN ix \subseteq Keys
      /\ Owned(ix) \cap ToSet(fr) = {} /\ Owned(ix) \cup ToSet(fr) = 1..n
      /\ Chain(NextIn(l), PrevIn(l), l.head, l.tail, q)
  BY Start
<1>2. Held(l, fr, ix, n) /\ LinkedAs(l, ix, q)
  BY DEF Settled
<1>3. /\ i \in 1..n /\ i \in Owned(ix) /\ i \in ToSet(q) /\ i \notin ToSet(fr)
      /\ \A x \in DOMAIN ix : /\ ix[x] \in 1..n /\ KeysIn(l)[ix[x]] = x
                              /\ ix[x] = i => x = k
  BY <1>1, <1>2, OwnersApart
<1>4. Cut(l, c, n, q, i)
  BY <1>1, <1>3, UnlinkCuts
<1> HIDE DEF c, i
<1>5. c \in Lists(n) /\ Default \in Vals
  BY <1>4, ValsAssumption DEF Cut
<1>6. Revalued(c, r, n, i, Default)
  BY <1>1, <1>3, <1>5, SetVal
<1> HIDE DEF r, q2, fr2
<1>7. /\ r \in Lists(n) /\ KeysIn(r) = KeysIn(l) /\ ValsIn(r) = [ValsIn(l) EXCEPT ![i] = Default]
      /\ q2 \in Recency(1..n) /\ ToSet(q2) = Owned(ix) \ {i}
      /\ Chain(NextIn(r), PrevIn(r), r.head, r.tail, q2)
  BY <1>1, <1>4, <1>6 DEF Cut, Revalued, q2
<1>8. /\ DOMAIN ix2 = DOMAIN ix \ {k} /\ \A x \in DOMAIN ix2 : ix2[x] = ix[x]
      /\ Owned(ix2) = Owned(ix) \ {i}
      /\ ix2 \in [DOMAIN ix2 -> 1..n]
  BY <1>3 DEF Less, Owned, i
<1> HIDE DEF ix2
<1>9. fr2 \in Recency(1..n) /\ ToSet(fr2) = ToSet(fr) \cup {i}
  BY <1>1, <1>3, RecencyAppend DEF fr2
<1>10. Held(r, fr2, ix2, n)
  BY <1>1, <1>3, <1>7, <1>8, <1>9 DEF Held
<1>11. LinkedAs(r, ix2, q2)
  BY <1>1, <1>7, <1>8, FieldTypes DEF LinkedAs
<1>12. Order(r, q2) = RemoveFirst(Order(l, q), k)
  BY <1>2, <1>7, OrderWithout DEF q2, i
<1>13. Values(r, ix2) = Less(Values(l, ix), k)
  <2>1. DOMAIN ValsIn(l) = 1..n
    BY <1>1, FieldTypes
  <2>2. \A x \in DOMAIN ix2 : ValsIn(r)[ix2[x]] = ValsIn(l)[ix[x]]
    BY <1>3, <1>7, <1>8, <2>1
  <2> QED BY <1>8, <2>2 DEF Values, Less
<1>14. Leaves(r, fr2, ix2, n, q2, RemoveFirst(Order(l, q), k), Less(Values(l, ix), k))
  BY <1>10, <1>11, <1>12, <1>13 DEF Leaves, Settled
<1> QED BY <1>14 DEF r, c, fr2, ix2, q2, i

(* touch_back: the key has the new value and is the last one. *)
LEMMA TouchLeaves ==
  ASSUME NEW n, NEW l, NEW fr, NEW ix, NEW q, Settled(l, fr, ix, n, q),
         NEW k \in DOMAIN ix, NEW v \in Vals
  PROVE  Leaves(LinkBack([Unlink(l, ix[k]) EXCEPT !.nodes[ix[k]].val = v], ix[k]),
                fr, ix, n, Append(RemoveFirst(q, ix[k]), ix[k]),
                Append(RemoveFirst(Order(l, q), k), k), [Values(l, ix) EXCEPT ![k] = v])
<1> DEFINE i == ix[k]
           c == Unlink(l, i)
           w == [c EXCEPT !.nodes[i].val = v]
           r == LinkBack(w, i)
           q1 == RemoveFirst(q, i)
           q2 == Append(q1, i)
           o1 == RemoveFirst(Order(l, q), k)
<1>1. /\ n \in Nat /\ l \in Lists(n) /\ DOMAIN l.nodes = 1..n
      /\ fr \in Recency(1..n) /\ q \in Recency(1..n) /\ ToSet(q) = Owned(ix)
      /\ DOMAIN ix \subseteq Keys
      /\ Owned(ix) \cap ToSet(fr) = {} /\ Owned(ix) \cup ToSet(fr) = 1..n
      /\ Chain(NextIn(l), PrevIn(l), l.head, l.tail, q)
  BY Start
<1>2. Held(l, fr, ix, n) /\ LinkedAs(l, ix, q)
  BY DEF Settled
<1>3. /\ i \in 1..n /\ i \in Owned(ix) /\ i \in ToSet(q)
      /\ \A x \in DOMAIN ix : /\ ix[x] \in 1..n /\ KeysIn(l)[ix[x]] = x
                              /\ ix[x] = i => x = k
  BY <1>1, <1>2, OwnersApart
<1>4. Cut(l, c, n, q, i)
  BY <1>1, <1>3, UnlinkCuts
<1> HIDE DEF c, i
<1>5. c \in Lists(n)
  BY <1>4 DEF Cut
<1>6. Revalued(c, w, n, i, v)
  BY <1>1, <1>3, <1>5, SetVal
<1> HIDE DEF w, q1
<1>7. /\ w \in Lists(n) /\ KeysIn(w) = KeysIn(l) /\ ValsIn(w) = [ValsIn(l) EXCEPT ![i] = v]
      /\ q1 \in Recency(1..n) /\ ToSet(q1) = Owned(ix) \ {i}
      /\ Chain(NextIn(w), PrevIn(w), w.head, w.tail, q1)
  BY <1>1, <1>4, <1>6 DEF Cut, Revalued, q1
<1>8. Joint(w, r, n, q1, i)
  BY <1>1, <1>3, <1>7, LinkBackJoins
<1> HIDE DEF r, q2
<1>9. /\ r \in Lists(n) /\ KeysIn(r) = KeysIn(l) /\ ValsIn(r) = [ValsIn(l) EXCEPT ![i] = v]
      /\ q2 \in Recency(1..n) /\ ToSet(q2) = Owned(ix)
      /\ Chain(NextIn(r), PrevIn(r), r.head, r.tail, q2)
  BY <1>3, <1>7, <1>8 DEF Joint, q2
<1>10. Held(r, fr, ix, n)
  BY <1>1, <1>2, <1>9 DEF Held
<1>11. LinkedAs(r, ix, q2)
  BY <1>1, <1>9, FieldTypes DEF LinkedAs
<1>12. Order(r, q2) = Append(o1, k)
  <2>1. Order(r, q1) = o1
    BY <1>2, <1>9, OrderWithout DEF q1, i
  <2>2. o1 \in Seq(Keys) /\ q1 \in Seq(1..n) /\ k \in Keys
    <3>1. Order(l, q) \in Recency(Keys)
      BY <1>2, OrderIs
    <3> QED BY <1>1, <1>7, <3>1, RecencyRemove DEF Recency
  <2> HIDE DEF o1
  <2>3. KeysIn(r)[i] = k
    BY <1>3, <1>9 DEF i
  <2>4. Order(r, q1) \in Seq(Keys) /\ KeysIn(r)[i] \in Keys
    BY <2>1, <2>2, <2>3
  <2>5. Order(r, Append(q1, i)) = Append(Order(r, q1), KeysIn(r)[i])
    BY <1>3, <2>2, <2>4, OrderWith
  <2> QED BY <2>1, <2>3, <2>5 DEF q2
<1>13. Values(r, ix) = [Values(l, ix) EXCEPT ![k] = v]
  <2>1. DOMAIN ValsIn(l) = 1..n
    BY <1>1, FieldTypes
  <2>2. \A x \in DOMAIN ix : ValsIn(r)[ix[x]] = IF x = k THEN v ELSE ValsIn(l)[ix[x]]
    BY <1>3, <1>9, <2>1 DEF i
  <2> QED BY <2>2 DEF Values
<1>14. Leaves(r, fr, ix, n, q2, Append(o1, k), [Values(l, ix) EXCEPT ![k] = v])
  BY <1>10, <1>11, <1>12, <1>13 DEF Leaves, Settled
<1> QED BY <1>14 DEF r, w, c, q2, q1, o1, i

(* alloc: slot i of r holds the new pair, the other slots are those of l.  *)
Renewed(l, r, i, k, v) ==
  /\ i \in DOMAIN r.nodes /\ DOMAIN l.nodes \subseteq DOMAIN r.nodes
  /\ KeysIn(r)[i] = k /\ ValsIn(r)[i] = v
  /\ \A j \in DOMAIN l.nodes \ {i} :
       /\ KeysIn(r)[j] = KeysIn(l)[j] /\ ValsIn(r)[j] = ValsIn(l)[j]
       /\ NextIn(r)[j] = NextIn(l)[j] /\ PrevIn(r)[j] = PrevIn(l)[j]
  /\ r.head = l.head /\ r.tail = l.tail

(* The index with key k in slot i. *)
More(ix, k, i) == [x \in DOMAIN ix \cup {k} |-> IF x = k THEN i ELSE ix[x]]

(* A list of slots of a short vector is one of a longer. *)
LEMMA RecencyWiden ==
  ASSUME NEW S, NEW T, S \subseteq T, NEW q \in Recency(S)
  PROVE  q \in Recency(T)
<1>1. q \in Seq(S) /\ Len(q) \in Nat /\ IsInjective(q)
  BY DEF Recency
<1>2. \A j \in 1..Len(q) : q[j] \in T
  BY <1>1, ElementOfSeq
<1>3. q \in Seq(T)
  BY <1>1, <1>2
<1> QED BY <1>1, <1>3 DEF Recency

(* Links that agree on the slots of q run through it as well. *)
LEMMA ChainElsewhere ==
  ASSUME NEW n, NEW q \in Recency(1..n), NEW nx, NEW pv, NEW h, NEW t,
         Chain(nx, pv, h, t, q), NEW nx2, NEW pv2,
         \A s \in ToSet(q) : nx2[s] = nx[s] /\ pv2[s] = pv[s]
  PROVE  Chain(nx2, pv2, h, t, q)
<1>1. \A j \in 1..Len(q) : q[j] \in ToSet(q)
  BY DEF ToSet, Recency
<1> QED BY <1>1 DEF Chain

(* push_back into a slot no key owns: the key is the last one. *)
LEMMA PushLeaves ==
  ASSUME NEW n, NEW l, NEW fr, NEW ix, NEW q, Settled(l, fr, ix, n, q),
         NEW k \in Keys, k \notin DOMAIN ix, NEW v \in Vals,
         NEW m \in Nat, NEW r, r \in Lists(m), NEW i, i \notin Owned(ix), Renewed(l, r, i, k, v),
         NEW fr2, fr2 \in Recency(1..m), ToSet(fr2) = 1..m \ (Owned(ix) \cup {i})
  PROVE  Leaves(LinkBack(r, i), fr2, More(ix, k, i), m, Append(q, i),
                Append(Order(l, q), k), More(Values(l, ix), k, v))
<1> DEFINE w == LinkBack(r, i)
           ix2 == More(ix, k, i)
           q2 == Append(q, i)
<1>1. /\ n \in Nat /\ l \in Lists(n) /\ DOMAIN l.nodes = 1..n
      /\ fr \in Recency(1..n) /\ q \in Recency(1..n) /\ ToSet(q) = Owned(ix)
      /\ DOMAIN ix \subseteq Keys
      /\ Owned(ix) \cap ToSet(fr) = {} /\ Owned(ix) \cup ToSet(fr) = 1..n
      /\ Chain(NextIn(l), PrevIn(l), l.head, l.tail, q)
  BY Start
<1>2. Held(l, fr, ix, n) /\ LinkedAs(l, ix, q)
  BY DEF Settled
<1>3. \A x \in DOMAIN ix : ix[x] \in 1..n /\ ix[x] \in Owned(ix) /\ KeysIn(l)[ix[x]] = x
  BY <1>2, OwnersApart
<1>4. DOMAIN r.nodes = 1..m
  BY FieldTypes
<1>5. /\ i \in 1..m /\ 1..n \subseteq 1..m /\ KeysIn(r)[i] = k /\ ValsIn(r)[i] = v
      /\ r.head = l.head /\ r.tail = l.tail
  BY <1>1, <1>4 DEF Renewed
<1>6. \A j \in 1..n : j # i => /\ KeysIn(r)[j] = KeysIn(l)[j] /\ ValsIn(r)[j] = ValsIn(l)[j]
                               /\ NextIn(r)[j] = NextIn(l)[j] /\ PrevIn(r)[j] = PrevIn(l)[j]
  BY <1>1 DEF Renewed
<1>7. q \in Recency(1..m) /\ i \notin ToSet(q)
  BY <1>1, <1>5, RecencyWiden
<1>8. Chain(NextIn(r), PrevIn(r), r.head, r.tail, q)
  <2>1. \A s \in ToSet(q) : NextIn(r)[s] = NextIn(l)[s] /\ PrevIn(r)[s] = PrevIn(l)[s]
    BY <1>1, <1>6, <1>7
  <2> QED BY <1>1, <1>5, <2>1, ChainElsewhere
<1>9. Joint(r, w, m, q, i)
  BY <1>5, <1>7, <1>8, LinkBackJoins
<1> HIDE DEF w, q2
<1>10. /\ w \in Lists(m) /\ KeysIn(w) = KeysIn(r) /\ ValsIn(w) = ValsIn(r)
       /\ q2 \in Recency(1..m) /\ ToSet(q2) = Owned(ix) \cup {i}
       /\ Chain(NextIn(w), PrevIn(w), w.head, w.tail, q2)
  BY <1>1, <1>9 DEF Joint, q2
<1>11. /\ DOMAIN ix2 = DOMAIN ix \cup {k} /\ ix2[k] = i
       /\ \A x \in DOMAIN ix : ix2[x] = ix[x]
  BY DEF More
<1>12. Owned(ix2) = Owned(ix) \cup {i}
  BY <1>11 DEF Owned
<1>13. ix2 \in [DOMAIN ix2 -> 1..m]
  <2>1. \A x \in DOMAIN ix2 : ix2[x] \in 1..m
    BY <1>3, <1>5, <1>11
  <2>2. ix2 = [x \in DOMAIN ix2 |-> ix2[x]]
    BY DEF More
  <2> QED BY <2>1, <2>2
<1> HIDE DEF ix2
<1>14. \A x \in DOMAIN ix2 : KeysIn(w)[ix2[x]] = x
  BY <1>3, <1>5, <1>6, <1>10, <1>11
<1>15. Held(w, fr2, ix2, m)
  <2>1. DOMAIN ix2 \subseteq Keys
    BY <1>1, <1>11
  <2>2. Owned(ix2) \cap ToSet(fr2) = {} /\ Owned(ix2) \cup ToSet(fr2) = 1..m
    BY <1>1, <1>5, <1>12
  <2> QED BY <1>10, <1>13, <1>14, <2>1, <2>2 DEF Held
<1>16. LinkedAs(w, ix2, q2)
  BY <1>10, <1>12, FieldTypes DEF LinkedAs
<1>17. Order(w, q2) = Append(Order(l, q), k)
  <2>1. Order(l, q) \in Seq(Keys)
    BY <1>2, OrderIs DEF Recency
  <2>2. Order(w, q) = Order(l, q)
    <3>1. \A j \in 1..Len(q) : q[j] \in 1..n /\ q[j] # i
      BY <1>1, <1>7, PlacesApart DEF ToSet
    <3>2. \A j \in 1..Len(q) : KeysIn(w)[q[j]] = KeysIn(l)[q[j]]
      BY <1>6, <1>10, <3>1
    <3> QED BY <3>2 DEF Order
  <2>3. KeysIn(w)[i] = k /\ q \in Seq(1..m)
    BY <1>5, <1>7, <1>10 DEF Recency
  <2>4. Order(w, Append(q, i)) = Append(Order(w, q), KeysIn(w)[i])
    BY <1>5, <2>1, <2>2, <2>3, OrderWith
  <2> QED BY <2>2, <2>3, <2>4 DEF q2
<1>18. Values(w, ix2) = More(Values(l, ix), k, v)
  <2>1. \A x \in DOMAIN ix : ValsIn(w)[ix2[x]] = ValsIn(l)[ix[x]]
    BY <1>3, <1>6, <1>10, <1>11
  <2>2. ValsIn(w)[ix2[k]] = v
    BY <1>5, <1>10, <1>11
  <2> QED BY <1>11, <2>1, <2>2 DEF Values, More
<1>19. Leaves(w, fr2, ix2, m, q2, Append(Order(l, q), k), More(Values(l, ix), k, v))
  BY <1>15, <1>16, <1>17, <1>18 DEF Leaves, Settled
<1> QED BY <1>19 DEF w, ix2, q2

-----------------------------------------------------------------------------
(* A node vector nd with the node of k and v in slot i. *)
LEMMA Renews ==
  ASSUME NEW n \in Nat, NEW l \in Lists(n), NEW m \in Nat, n <= m,
         NEW nd, NEW k \in Keys, NEW v \in Vals, NEW i \in 1..m,
         DOMAIN nd = 1..m, nd = [j \in 1..m |-> nd[j]], nd[i] = Node(k, v),
         \A j \in 1..m : j # i => j \in 1..n /\ nd[j] = l.nodes[j]
  PROVE  [l EXCEPT !.nodes = nd] \in Lists(m) /\ Renewed(l, [l EXCEPT !.nodes = nd], i, k, v)
<1> DEFINE r == [l EXCEPT !.nodes = nd]
<1>1. /\ DOMAIN l.nodes = 1..n /\ l.head \in Ends(n) /\ l.tail \in Ends(n)
      /\ \A j \in 1..n : l.nodes[j] \in [key : Keys, val : Vals, prev : Ends(n), next : Ends(n)]
  BY DEF Lists, Nodes
<1>2. 1..n \subseteq 1..m /\ Ends(n) \subseteq Ends(m) /\ NONE \in Ends(m)
  BY DEF Ends
<1>3. /\ r.nodes = nd /\ r.head = l.head /\ r.tail = l.tail
      /\ r = [nodes |-> nd, head |-> l.head, tail |-> l.tail]
  <2>1. l = [nodes |-> l.nodes, head |-> l.head, tail |-> l.tail]
    BY DEF Lists
  <2> QED BY <2>1
<1>4. /\ nd[i].key = k /\ nd[i].val = v
      /\ nd[i] \in [key : Keys, val : Vals, prev : Ends(m), next : Ends(m)]
  BY <1>2 DEF Node
<1>5. \A j \in 1..m : nd[j] \in [key : Keys, val : Vals, prev : Ends(m), next : Ends(m)]
  <2> TAKE j \in 1..m
  <2>1. CASE j = i
    BY <1>4, <2>1
  <2>2. CASE j # i
    <3>1. nd[j] \in [key : Keys, val : Vals, prev : Ends(n), next : Ends(n)]
      BY <1>1, <2>2
    <3> HIDE DEF Ends
    <3> QED BY <1>2, <3>1
  <2> QED BY <2>1, <2>2
<1> HIDE DEF r
<1>6. nd \in Nodes(m)
  BY <1>5 DEF Nodes
<1>7. r \in Lists(m)
  BY <1>1, <1>2, <1>3, <1>6 DEF Lists
<1>8. KeysIn(r)[i] = k /\ ValsIn(r)[i] = v
  BY <1>3, <1>4 DEF KeysIn, ValsIn
<1>9. ASSUME NEW j \in 1..n, j # i
      PROVE  /\ KeysIn(r)[j] = KeysIn(l)[j] /\ ValsIn(r)[j] = ValsIn(l)[j]
             /\ NextIn(r)[j] = NextIn(l)[j] /\ PrevIn(r)[j] = PrevIn(l)[j]
  <2>1. j \in DOMAIN l.nodes
    BY <1>1
  <2>2. j \in 1..m /\ j # i
    BY <1>2, <1>9
  <2>3. j \in DOMAIN r.nodes
    BY <1>3, <2>2
  <2>4. r.nodes[j] = l.nodes[j]
    BY <1>3, <2>2
  <2> QED BY <2>1, <2>3, <2>4 DEF KeysIn, ValsIn, NextIn, PrevIn
<1>10. Renewed(l, r, i, k, v)
  BY <1>1, <1>2, <1>3, <1>8, <1>9 DEF Renewed
<1> QED BY <1>7, <1>10 DEF r

(* alloc takes a slot no key owns, and takes it off the stack it was on. *)
LEMMA AllocRenews ==
  ASSUME IInv, NEW k \in Keys, NEW v \in Vals
  PROVE  LET m == Len(AllocNodes(k, v))
             r == [links EXCEPT !.nodes = AllocNodes(k, v)]
         IN /\ m \in Nat /\ r \in Lists(m) /\ AllocSlot \notin Owned(index)
            /\ Renewed(links, r, AllocSlot, k, v)
            /\ AllocFree \in Recency(1..m)
            /\ ToSet(AllocFree) = 1..m \ (Owned(index) \cup {AllocSlot})
<1> DEFINE n == Len(nodes)
           l == links
           nd == AllocNodes(k, v)
           m == Len(nd)
           i == AllocSlot
<1>1. /\ n \in Nat /\ l \in Lists(n) /\ DOMAIN l.nodes = 1..n
      /\ free \in Recency(1..n)
      /\ Owned(index) \cap ToSet(free) = {} /\ Owned(index) \cup ToSet(free) = 1..n
  <2>1. Settled(links, free, index, Len(nodes), Walk)
    BY DEF IInv, Settled
  <2> QED BY <2>1, Start
<1>2. l.nodes = nodes /\ nodes = [j \in 1..n |-> nodes[j]] /\ DOMAIN nodes = 1..n
  <2>1. l.nodes = nodes
    BY DEF links
  <2>2. nodes \in Nodes(n)
    BY <1>1, <2>1 DEF Lists
  <2> QED BY <2>1, <2>2 DEF Nodes
<1>3. CASE free # <<>>
  <2>1. /\ i \in 1..n /\ i \in ToSet(free)
        /\ AllocFree \in Recency(1..n) /\ ToSet(AllocFree) = ToSet(free) \ {i}
    BY <1>1, <1>3, RecencyFront DEF AllocSlot, AllocFree
  <2>2. nd = [nodes EXCEPT ![i] = Node(k, v)]
    BY <1>3 DEF AllocNodes, AllocSlot
  <2> HIDE DEF i
  <2>3. /\ DOMAIN nd = 1..n /\ nd = [j \in 1..n |-> nd[j]] /\ nd[i] = Node(k, v)
        /\ \A j \in 1..n : j # i => nd[j] = nodes[j]
    BY <1>2, <2>1, <2>2
  <2>4. m = n
    <3> HIDE DEF n, nd
    <3> QED BY <1>1, <2>3
  <2> HIDE DEF n, m, nd, l
  <2>5. \A j \in 1..m : j # i => j \in 1..n /\ nd[j] = l.nodes[j]
    BY <1>2, <2>3, <2>4
  <2>6. [l EXCEPT !.nodes = nd] \in Lists(m) /\ Renewed(l, [l EXCEPT !.nodes = nd], i, k, v)
    <3>1. m \in Nat /\ n \in Nat /\ n <= m /\ i \in 1..m
      BY <1>1, <2>1, <2>4
    <3>2. DOMAIN nd = 1..m /\ nd = [j \in 1..m |-> nd[j]] /\ nd[i] = Node(k, v)
      BY <2>3, <2>4
    <3> QED BY <1>1, <2>5, <3>1, <3>2, Renews
  <2>7. i \notin Owned(index) /\ ToSet(AllocFree) = 1..m \ (Owned(index) \cup {i})
    BY <1>1, <2>1, <2>4
  <2> QED BY <1>1, <2>1, <2>4, <2>6, <2>7 DEF i, l, m, nd
<1>4. CASE free = <<>>
  <2>1. i = n + 1 /\ AllocFree = <<>> /\ nd = Append(nodes, Node(k, v))
    BY <1>4 DEF AllocSlot, AllocFree, AllocNodes
  <2>2. nodes \in Seq({nodes[j] : j \in 1..n} \cup {Node(k, v)})
    <3> HIDE DEF n
    <3> QED BY <1>1, <1>2
  <2>3. /\ m = n + 1 /\ nd[n + 1] = Node(k, v) /\ \A j \in 1..n : nd[j] = nodes[j]
        /\ nd \in Seq({nodes[j] : j \in 1..n} \cup {Node(k, v)})
    BY <2>1, <2>2, AppendProperties
  <2>4. ToSet(free) = {} /\ Owned(index) = 1..n
    <3>1. ToSet(free) = {}
      BY <1>4, RecencyNew
    <3> QED BY <1>1, <3>1
  <2>5. DOMAIN nd = 1..m /\ nd = [j \in 1..m |-> nd[j]]
    <3> HIDE DEF n, nd
    <3> QED BY <1>1, <2>3
  <2> HIDE DEF n, m, nd, l, i
  <2>6. \A j \in 1..m : j # i => j \in 1..n /\ nd[j] = l.nodes[j]
    BY <1>1, <1>2, <2>1, <2>3
  <2>7. m \in Nat /\ n <= m /\ i \in 1..m /\ nd[i] = Node(k, v)
    BY <1>1, <2>1, <2>3
  <2>8. [l EXCEPT !.nodes = nd] \in Lists(m) /\ Renewed(l, [l EXCEPT !.nodes = nd], i, k, v)
    BY <1>1, <2>5, <2>6, <2>7, Renews
  <2>9. i \notin Owned(index) /\ 1..m \ (Owned(index) \cup {i}) = {}
    BY <1>1, <2>1, <2>3, <2>4
  <2>10. AllocFree \in Recency(1..m) /\ ToSet(AllocFree) = {}
    BY <2>1, RecencyNew
  <2> QED BY <2>7, <2>8, <2>9, <2>10 DEF i, l, m, nd
<1> QED BY <1>3, <1>4

-----------------------------------------------------------------------------
(* The map that is read off the nodes, as Abstract reads it.               *)
Shown(nd, q) == [j \in 1..Len(q) |-> IF q[j] = NONE THEN Absent ELSE nd[q[j]].key]
ShownVals(nd, ix) == [k \in DOMAIN ix |-> nd[ix[k]].val]

MapOrder == Shown(nodes, Walk)
MapVal == ShownVals(nodes, index)

(* That map is the one the links describe. *)
LEMMA ShownIs ==
  ASSUME NEW n, NEW l, NEW fr, NEW ix, NEW q, Settled(l, fr, ix, n, q)
  PROVE  Shown(l.nodes, q) = Order(l, q) /\ ShownVals(l.nodes, ix) = Values(l, ix)
<1>1. n \in Nat /\ DOMAIN l.nodes = 1..n /\ q \in Recency(1..n)
  BY Start
<1>2. \A j \in 1..Len(q) : q[j] \in 1..n /\ q[j] # NONE
  BY <1>1, PlacesApart
<1>3. \A k \in DOMAIN ix : ix[k] \in 1..n
  BY OwnersApart DEF Settled
<1>4. Shown(l.nodes, q) = Order(l, q)
  BY <1>1, <1>2 DEF Shown, Order, KeysIn
<1>5. ShownVals(l.nodes, ix) = Values(l, ix)
  BY <1>1, <1>3 DEF ShownVals, Values, ValsIn
<1> QED BY <1>4, <1>5

(* A state whose parts are what a call left satisfies the invariant, and   *)
(* shows the map the call left.                                            *)
LEMMA Arrival ==
  ASSUME NEW n, NEW r, NEW fr, NEW ix, NEW q, NEW o, NEW m, Leaves(r, fr, ix, n, q, o, m),
         nodes' = r.nodes, head' = r.head, tail' = r.tail, free' = fr, index' = ix
  PROVE  IInv' /\ MapOrder' = o /\ MapVal' = m
<1>1. Settled(r, fr, ix, n, q) /\ Order(r, q) = o /\ Values(r, ix) = m
  BY DEF Leaves
<1>2. n \in Nat /\ r \in Lists(n) /\ DOMAIN r.nodes = 1..n /\ r.nodes \in Nodes(n)
  BY <1>1, Start DEF Lists
<1>3. links' = r
  BY <1>2 DEF links, Lists
<1>4. Len(nodes') = n
  <2>1. nodes' \in [1..n -> [key : Keys, val : Vals, prev : Ends(n), next : Ends(n)]]
    BY <1>2 DEF Nodes
  <2> QED BY <1>2, <2>1
<1>5. Walk' = Walked(nodes', head', Cardinality(DOMAIN index'))
  BY DEF Walk, Walked, Stepped
<1>6. Walk' = q
  BY <1>1, <1>5, WalkIs DEF Settled
<1>7. IInv'
  BY <1>1, <1>3, <1>4, <1>6 DEF IInv, Settled
<1>8. MapOrder' = o /\ MapVal' = m
  BY <1>1, <1>6, ShownIs DEF MapOrder, MapVal
<1> QED BY <1>7, <1>8

(* The map a state shows, by its links. *)
LEMMA Reading ==
  ASSUME IInv
  PROVE  /\ Settled(links, free, index, Len(nodes), Walk)
         /\ MapOrder = Order(links, Walk) /\ MapVal = Values(links, index)
         /\ DOMAIN MapVal = DOMAIN index
<1>1. Settled(links, free, index, Len(nodes), Walk)
  BY DEF IInv, Settled
<1>2. links.nodes = nodes
  BY DEF links
<1>3. MapOrder = Order(links, Walk) /\ MapVal = Values(links, index)
  BY <1>1, <1>2, ShownIs DEF MapOrder, MapVal
<1> QED BY <1>1, <1>3 DEF MapVal, ShownVals

(* The list without its first element. *)
LEMMA HeadRemoved ==
  ASSUME NEW S, NEW q \in Recency(S), q # <<>>
  PROVE  RemoveFirst(q, Head(q)) = Tail(q)
<1>1. q \in Seq(S) /\ IsInjective(q) /\ Len(q) \in Nat /\ Len(q) # 0
  BY EmptySeq DEF Recency
<1>2. 1 \in 1..Len(q) /\ Head(q) = q[1]
  BY <1>1
<1>3. /\ RemoveFirst(q, q[1]) \in Seq(S) /\ Len(RemoveFirst(q, q[1])) = Len(q) - 1
      /\ \A j \in 1..Len(q) - 1 : RemoveFirst(q, q[1])[j] = IF j < 1 THEN q[j] ELSE q[j + 1]
  BY <1>1, <1>2, RemoveFirstAt
<1> DEFINE w == Tail(q)
<1>4. w \in Seq(S) /\ Len(w) = Len(q) - 1 /\ \A j \in 1..Len(q) - 1 : w[j] = q[j + 1]
  <2>1. q \in Seq(S) /\ q # <<>>
    BY <1>1
  <2>2. w \in Seq(S) /\ Len(w) = Len(q) - 1
    BY <2>1, HeadTailProperties
  <2>3. \A j \in 1..Len(w) : w[j] = q[j + 1]
    BY <2>1, HeadTailProperties
  <2> HIDE DEF w
  <2> QED BY <2>2, <2>3
<1> DEFINE u == RemoveFirst(q, q[1])
           m == Len(q)
<1>5. /\ u \in Seq(S) /\ w \in Seq(S) /\ Len(u) = m - 1 /\ Len(w) = m - 1
      /\ \A j \in 1..m - 1 : u[j] = IF j < 1 THEN q[j] ELSE q[j + 1]
      /\ \A j \in 1..m - 1 : w[j] = q[j + 1]
  BY <1>3, <1>4
<1>6. m \in Nat
  BY <1>1
<1> HIDE DEF u, w, m
<1>7. u = w
  <2>1. \A j \in 1..m - 1 : u[j] = w[j]
    BY <1>5, <1>6
  <2> QED BY <1>5, <2>1
<1> QED BY <1>2, <1>7 DEF u, w

(* RecencyMap takes a key out of a list as SequencesExt does. *)
LEMMA SameRemoval ==
  ASSUME NEW s, NEW e
  PROVE  Abstract!RemoveFirst(s, e) = RemoveFirst(s, e)
BY DEF Abstract!RemoveFirst, RemoveFirst, Abstract!RemoveAt, RemoveAt,
       Abstract!SelectInSeq, SelectInSeq, Abstract!Min, Min

(* The front of the list is the least recent pair. *)
LEMMA FrontIs ==
  ASSUME IInv
  PROVE  /\ head = NONE <=> MapOrder = <<>>
         /\ head # NONE => /\ nodes[head].key \in DOMAIN index
                           /\ index[nodes[head].key] = head
                           /\ Head(MapOrder) = nodes[head].key
                           /\ MapVal[nodes[head].key] = nodes[head].val
<1> DEFINE q == Walk
           n == Len(nodes)
<1>1. Settled(links, free, index, n, q) /\ MapOrder = Order(links, q)
  BY Reading
<1>2. /\ n \in Nat /\ DOMAIN links.nodes = 1..n /\ q \in Recency(1..n)
      /\ ToSet(q) = Owned(index) /\ links.nodes = nodes /\ links.head = head
      /\ Chain(NextIn(links), PrevIn(links), links.head, links.tail, q)
  BY <1>1, Start DEF links
<1>3. Len(q) \in Nat /\ DOMAIN q = 1..Len(q) /\ \A j \in 1..Len(q) : q[j] \in 1..n /\ q[j] # NONE
  BY <1>2, PlacesApart
<1>4. head = At(q, 1)
  BY <1>2 DEF Chain
<1> HIDE DEF q, n
<1>5. Len(MapOrder) = Len(q) /\ \A j \in 1..Len(q) : MapOrder[j] = KeysIn(links)[q[j]]
  BY <1>1, <1>3 DEF Order
<1>6. MapOrder \in Seq(Keys)
  BY <1>1, OrderIs DEF Settled, Recency
<1>7. CASE Len(q) = 0
  <2>1. head = NONE
    BY <1>4, <1>7 DEF At
  <2>2. MapOrder = <<>>
    BY <1>5, <1>6, <1>7
  <2> QED BY <2>1, <2>2
<1>8. CASE Len(q) # 0
  <2>1. 1 \in 1..Len(q) /\ head = q[1] /\ head # NONE /\ head \in 1..n
    BY <1>3, <1>4, <1>8 DEF At
  <2>2. MapOrder # <<>> /\ Head(MapOrder) = KeysIn(links)[head]
    BY <1>5, <1>6, <1>8, <2>1
  <2>3. KeysIn(links)[head] = nodes[head].key
    BY <1>2, <2>1 DEF KeysIn
  <2>4. head \in Owned(index)
    BY <1>2, <1>3, <2>1 DEF ToSet
  <2>5. PICK k \in DOMAIN index : index[k] = head
    BY <2>4 DEF Owned
  <2>6. KeysIn(links)[head] = k
    BY <1>1, <2>5, OwnersApart DEF Settled
  <2>7. MapVal[k] = nodes[head].val
    BY <2>5 DEF MapVal, ShownVals
  <2> QED BY <2>1, <2>2, <2>3, <2>5, <2>6, <2>7
<1> QED BY <1>7, <1>8

-----------------------------------------------------------------------------
(* Every call keeps the invariant, and acts on the map shown as the same   *)
(* call of RecencyMap.                                                     *)
LEMMA ReleaseStep ==
  ASSUME IInv, NEW k \in DOMAIN index, Release(k, index[k])
  PROVE  IInv' /\ MapOrder' = RemoveFirst(MapOrder, k) /\ MapVal' = Less(MapVal, k)
<1> DEFINE r == [Unlink(links, index[k]) EXCEPT !.nodes[index[k]].val = Default]
<1>1. Settled(links, free, index, Len(nodes), Walk)
      /\ MapOrder = Order(links, Walk) /\ MapVal = Values(links, index)
  BY Reading
<1>2. Leaves(r, Append(free, index[k]), Less(index, k), Len(nodes), RemoveFirst(Walk, index[k]),
             RemoveFirst(MapOrder, k), Less(MapVal, k))
  BY <1>1, ReleaseLeaves
<1>3. /\ nodes' = r.nodes /\ head' = r.head /\ tail' = r.tail
      /\ free' = Append(free, index[k]) /\ index' = Less(index, k)
  BY DEF Release, SetLinks, Less
<1> HIDE DEF r
<1> QED BY <1>2, <1>3, Arrival

(* remove answers and acts as its namesake. *)
LEMMA RemoveStep ==
  ASSUME IInv, NEW k \in Keys, RemoveKey(k)
  PROVE  IInv' /\ Abstract!RemoveKey(k)
<1>1. DOMAIN MapVal = DOMAIN index
  BY Reading
<1>2. CASE k \in DOMAIN index
  <2>1. Release(k, index[k]) /\ ret' = <<"remove", nodes[index[k]].val>>
    BY <1>2 DEF RemoveKey
  <2>2. IInv' /\ MapOrder' = RemoveFirst(MapOrder, k) /\ MapVal' = Less(MapVal, k)
    BY <1>2, <2>1, ReleaseStep
  <2>3. ret' = <<"remove", MapVal[k]>>
    BY <1>2, <2>1 DEF MapVal, ShownVals
  <2>4. MapVal' = [x \in DOMAIN MapVal \ {k} |-> MapVal[x]]
    BY <2>2 DEF Less
  <2>5. k \in DOMAIN MapVal
    BY <1>1, <1>2
  <2>6. Abstract!RemoveKey(k)
    BY <2>2, <2>3, <2>4, <2>5, SameRemoval DEF Abstract!RemoveKey, MapOrder, MapVal, Shown, ShownVals
  <2> QED BY <2>2, <2>6
<1>3. CASE k \notin DOMAIN index
  <2>1. ret' = <<"remove", Absent>> /\ UNCHANGED <<nodes, free, index, head, tail>>
    BY <1>3 DEF RemoveKey
  <2>2. IInv' /\ MapOrder' = MapOrder /\ MapVal' = MapVal
    BY <2>1 DEF IInv, links, Walk, MapOrder, MapVal
  <2> QED BY <1>1, <1>3, <2>1, <2>2
          DEF Abstract!RemoveKey, MapOrder, MapVal, Shown, ShownVals
<1> QED BY <1>2, <1>3

(* So does pop_front, *)
LEMMA PopStep ==
  ASSUME IInv, PopFront
  PROVE  IInv' /\ Abstract!PopFront
<1> DEFINE k == nodes[head].key
<1>1. CASE head = NONE
  <2>1. ret' = <<"pop_front", Absent>> /\ UNCHANGED <<nodes, free, index, head, tail>>
    BY <1>1 DEF PopFront, FrontOf
  <2>2. IInv' /\ MapOrder' = MapOrder /\ MapVal' = MapVal
    BY <2>1 DEF IInv, links, Walk, MapOrder, MapVal
  <2>3. MapOrder = <<>>
    BY <1>1, FrontIs
  <2> QED BY <2>1, <2>2, <2>3 DEF Abstract!PopFront, MapOrder, MapVal, Shown, ShownVals
<1>2. CASE head # NONE
  <2>1. /\ MapOrder # <<>> /\ k \in DOMAIN index /\ index[k] = head
        /\ Head(MapOrder) = k /\ MapVal[k] = nodes[head].val
    BY <1>2, FrontIs
  <2>2. ret' = <<"pop_front", <<k, MapVal[k]>>>> /\ Release(k, index[k])
    BY <1>2, <2>1 DEF PopFront, FrontOf
  <2>3. IInv' /\ MapOrder' = RemoveFirst(MapOrder, k) /\ MapVal' = Less(MapVal, k)
    BY <2>1, <2>2, ReleaseStep
  <2>4. MapOrder' = Tail(MapOrder)
    <3>1. MapOrder \in Recency(Keys)
      BY Reading, OrderIs DEF Settled
    <3> QED BY <2>1, <2>3, <3>1, HeadRemoved
  <2>5. MapVal' = [x \in DOMAIN MapVal \ {Head(MapOrder)} |-> MapVal[x]]
    BY <2>1, <2>3 DEF Less
  <2>6. ret' = <<"pop_front", <<Head(MapOrder), MapVal[Head(MapOrder)]>>>>
    <3>1. Head(MapOrder) = k
      BY <2>1
    <3>2. ret' = <<"pop_front", <<k, MapVal[k]>>>>
      BY <2>2
    <3> HIDE DEF k
    <3> QED BY <3>1, <3>2
  <2>7. Abstract!PopFront
    BY <2>1, <2>4, <2>5, <2>6
       DEF Abstract!PopFront, Abstract!FrontOf, MapOrder, MapVal, Shown, ShownVals
  <2> QED BY <2>3, <2>7
<1> QED BY <1>1, <1>2

(* front, *)
LEMMA PeekStep ==
  ASSUME IInv, PeekFront
  PROVE  IInv' /\ Abstract!PeekFront
<1>1. ret' = <<"front", FrontOf>> /\ UNCHANGED <<nodes, free, index, head, tail>>
  BY DEF PeekFront
<1>2. IInv' /\ MapOrder' = MapOrder /\ MapVal' = MapVal
  BY <1>1 DEF IInv, links, Walk, MapOrder, MapVal
<1>3. FrontOf = IF MapOrder = <<>> THEN Absent ELSE <<Head(MapOrder), MapVal[Head(MapOrder)]>>
  BY FrontIs DEF FrontOf
<1> QED BY <1>1, <1>2, <1>3
        DEF Abstract!PeekFront, Abstract!FrontOf, MapOrder, MapVal, Shown, ShownVals

(* touch_back *)
LEMMA TouchStep ==
  ASSUME IInv, NEW k \in Keys, NEW v \in Vals, TouchBack(k, v)
  PROVE  IInv' /\ Abstract!TouchBack(k, v)
<1> DEFINE r == LinkBack([Unlink(links, index[k]) EXCEPT !.nodes[index[k]].val = v], index[k])
<1>1. /\ Settled(links, free, index, Len(nodes), Walk)
      /\ MapOrder = Order(links, Walk) /\ MapVal = Values(links, index)
      /\ DOMAIN MapVal = DOMAIN index
  BY Reading
<1>2. CASE k \in DOMAIN index
  <2>1. Leaves(r, free, index, Len(nodes), Append(RemoveFirst(Walk, index[k]), index[k]),
               Append(RemoveFirst(MapOrder, k), k), [MapVal EXCEPT ![k] = v])
    BY <1>1, <1>2, TouchLeaves
  <2>2. /\ nodes' = r.nodes /\ head' = r.head /\ tail' = r.tail /\ free' = free /\ index' = index
        /\ ret' = <<"touch_back", k \in DOMAIN index>>
    BY <1>2 DEF TouchBack, SetLinks
  <2> HIDE DEF r
  <2>3. /\ IInv' /\ MapOrder' = Append(RemoveFirst(MapOrder, k), k)
        /\ MapVal' = [MapVal EXCEPT ![k] = v]
    BY <2>1, <2>2, Arrival
  <2>4. k \in DOMAIN MapVal /\ ret' = <<"touch_back", k \in DOMAIN MapVal>>
    BY <1>1, <1>2, <2>2
  <2>5. Abstract!TouchBack(k, v)
    BY <2>3, <2>4, SameRemoval DEF Abstract!TouchBack, MapOrder, MapVal, Shown, ShownVals
  <2> QED BY <2>3, <2>5
<1>3. CASE k \notin DOMAIN index
  <2>1. /\ ret' = <<"touch_back", k \in DOMAIN index>>
        /\ UNCHANGED <<nodes, free, index, head, tail>>
    BY <1>3 DEF TouchBack
  <2>2. IInv' /\ MapOrder' = MapOrder /\ MapVal' = MapVal
    BY <2>1 DEF IInv, links, Walk, MapOrder, MapVal
  <2> QED BY <1>1, <1>3, <2>1, <2>2
          DEF Abstract!TouchBack, MapOrder, MapVal, Shown, ShownVals
<1> QED BY <1>2, <1>3

(* and push_back, whichever slot alloc takes. *)
LEMMA PushStep ==
  ASSUME IInv, NEW k \in Keys, NEW v \in Vals, PushBack(k, v)
  PROVE  IInv' /\ Abstract!PushBack(k, v)
<1> DEFINE r == [links EXCEPT !.nodes = AllocNodes(k, v)]
           m == Len(AllocNodes(k, v))
           w == LinkBack(r, AllocSlot)
<1>1. /\ Settled(links, free, index, Len(nodes), Walk)
      /\ MapOrder = Order(links, Walk) /\ MapVal = Values(links, index)
      /\ DOMAIN MapVal = DOMAIN index
  BY Reading
<1>2. /\ m \in Nat /\ r \in Lists(m) /\ AllocSlot \notin Owned(index)
      /\ Renewed(links, r, AllocSlot, k, v)
      /\ AllocFree \in Recency(1..m)
      /\ ToSet(AllocFree) = 1..m \ (Owned(index) \cup {AllocSlot})
  BY AllocRenews
<1>3. k \notin DOMAIN index
  BY DEF PushBack
<1>4. /\ nodes' = w.nodes /\ head' = w.head /\ tail' = w.tail /\ free' = AllocFree
      /\ index' = More(index, k, AllocSlot) /\ ret' = <<"push_back", Absent>>
  BY DEF PushBack, SetLinks, More
<1> HIDE DEF r, m
<1>5. Leaves(w, AllocFree, More(index, k, AllocSlot), m, Append(Walk, AllocSlot),
             Append(MapOrder, k), More(MapVal, k, v))
  BY <1>1, <1>2, <1>3, PushLeaves
<1> HIDE DEF w
<1>6. IInv' /\ MapOrder' = Append(MapOrder, k) /\ MapVal' = More(MapVal, k, v)
  BY <1>4, <1>5, Arrival
<1> QED BY <1>1, <1>3, <1>4, <1>6
        DEF Abstract!PushBack, MapOrder, MapVal, Shown, ShownVals, More

(* The empty map. *)
LEMMA EmptyMap ==
  ASSUME Init
  PROVE  IInv /\ Abstract!Init
<1> DEFINE r == [nodes |-> <<>>, head |-> NONE, tail |-> NONE]
<1>1. /\ nodes = <<>> /\ free = <<>> /\ index = <<>> /\ links = r
      /\ ret = <<"new", Absent>> /\ DOMAIN index = {} /\ Len(nodes) = 0
  BY DEF Init, links
<1>2. <<>> \in Recency(1..0) /\ ToSet(<<>>) = {}
  BY RecencyNew
<1>3. r \in Lists(0)
  BY DEF Lists, Nodes, Ends
<1>4. Owned(index) = {}
  BY <1>1 DEF Owned
<1>5. Held(r, <<>>, index, 0)
  BY <1>1, <1>2, <1>3, <1>4 DEF Held
<1>6. LinkedAs(r, index, <<>>)
  <2>1. DOMAIN r.nodes = 1..0
    BY <1>3, FieldTypes
  <2>2. Chain(NextIn(r), PrevIn(r), r.head, r.tail, <<>>)
    BY DEF Chain, At
  <2> QED BY <1>2, <1>4, <2>1, <2>2 DEF LinkedAs
<1>7. Walk = Walked(r.nodes, r.head, Cardinality(DOMAIN index))
  BY <1>1, WalkIsWalked DEF links
<1>8. Walk = <<>>
  BY <1>5, <1>6, <1>7, WalkIs
<1>9. IInv
  BY <1>1, <1>5, <1>6, <1>8 DEF IInv
<1>10. MapOrder = <<>> /\ MapVal = <<>>
  BY <1>1, <1>8 DEF MapOrder, MapVal, Shown, ShownVals
<1> QED BY <1>1, <1>9, <1>10 DEF Abstract!Init, MapOrder, MapVal, Shown, ShownVals

(* Every step keeps the invariant and is a step, or none, of RecencyMap. *)
LEMMA EveryStep ==
  ASSUME IInv, [Next]_vars
  PROVE  IInv' /\ [Abstract!Next]_(Abstract!vars)
<1>1. CASE UNCHANGED vars
  <2>1. IInv' /\ MapOrder' = MapOrder /\ MapVal' = MapVal /\ ret' = ret
    BY <1>1 DEF vars, IInv, links, Walk, MapOrder, MapVal
  <2> QED BY <2>1 DEF Abstract!vars, MapOrder, MapVal, Shown, ShownVals
<1>2. CASE \E k \in Keys, v \in Vals : PushBack(k, v)
  BY <1>2, PushStep DEF Abstract!Next
<1>3. CASE \E k \in Keys, v \in Vals : TouchBack(k, v)
  BY <1>3, TouchStep DEF Abstract!Next
<1>4. CASE \E k \in Keys : RemoveKey(k)
  BY <1>4, RemoveStep DEF Abstract!Next
<1>5. CASE PeekFront
  BY <1>5, PeekStep DEF Abstract!Next
<1>6. CASE PopFront
  BY <1>6, PopStep DEF Abstract!Next
<1> QED BY <1>1, <1>2, <1>3, <1>4, <1>5, <1>6 DEF Next

-----------------------------------------------------------------------------
(* In every reachable state each slot is owned by one key or free once,    *)
(* and the links run through the owned slots in the order of the walk,     *)
(* forwards and backwards (ordered.rs 38-158, all of its operations).      *)
THEOREM OrderedMapInvariant == Spec => []IInv
<1>1. Init => IInv
  BY EmptyMap
<1>2. IInv /\ [Next]_vars => IInv'
  BY EveryStep
<1> QED BY <1>1, <1>2, PTL DEF Spec

(* Slots, keys and links keep their types, whatever the keys and values. *)
THEOREM TypesAreKept == Spec => []TypeOK
<1>1. IInv => TypeOK
  <2> SUFFICES ASSUME IInv PROVE TypeOK
    OBVIOUS
  <2> DEFINE n == Len(nodes)
  <2>1. /\ n \in Nat /\ links \in Lists(n) /\ free \in Seq(1..n)
        /\ DOMAIN index \subseteq Keys
    BY Reading, Start DEF Recency
  <2>2. \A k \in DOMAIN index : index[k] \in 1..n
    BY Reading, OwnersApart DEF Settled
  <2>3. nodes \in Nodes(n) /\ head \in Ends(n) /\ tail \in Ends(n)
    BY <2>1 DEF links, Lists
  <2>4. nodes \in Seq([key : Keys, val : Vals, prev : Ends(n), next : Ends(n)])
    <3> DEFINE T == [key : Keys, val : Vals, prev : Ends(n), next : Ends(n)]
    <3>1. nodes \in [1..n -> T]
      BY <2>3 DEF Nodes
    <3> HIDE DEF n, T
    <3>2. nodes \in Seq(T)
      BY <2>1, <3>1
    <3> QED BY <3>2 DEF T
  <2> QED BY <2>1, <2>2, <2>3, <2>4 DEF TypeOK, Ends
<1> QED BY <1>1, OrderedMapInvariant, PTL

(* Following `next` from the head meets every indexed slot once, `prev`    *)
(* leads back from the tail, and no slot is lost or handed out twice,      *)
(* however many keys there are and however long the run (ordered.rs        *)
(* 51-87).                                                                 *)
THEOREM ListAndSlotsAlwaysAgree == Spec => []ListAndSlotsAgree
<1>1. IInv => ListAndSlotsAgree
  <2> SUFFICES ASSUME IInv PROVE ListMatchesIndex /\ SlotsPartitioned
    BY DEF ListAndSlotsAgree
  <2> DEFINE q == Walk
             n == Len(nodes)
             m == Len(q)
  <2>1. Settled(links, free, index, n, q)
    BY Reading
  <2>2. /\ n \in Nat /\ DOMAIN links.nodes = 1..n /\ q \in Recency(1..n)
        /\ free \in Recency(1..n)
        /\ ToSet(q) = Owned(index) /\ links.nodes = nodes /\ links.head = head /\ links.tail = tail
        /\ Owned(index) \cap ToSet(free) = {} /\ Owned(index) \cup ToSet(free) = 1..n
        /\ Chain(NextIn(links), PrevIn(links), head, tail, q)
    BY <2>1, Start DEF links
  <2>3. /\ m \in Nat /\ DOMAIN q = 1..m
        /\ \A j \in 1..m : q[j] \in 1..n /\ q[j] # NONE /\ At(q, j) = q[j]
    BY <2>2, PlacesApart
  <2>4. Owned(index) = {index[k] : k \in DOMAIN index}
    BY DEF Owned
  <2> HIDE DEF q, n, m
  <2>5. \A j \in 1..m : index[nodes[q[j]].key] = q[j]
    <3> TAKE j \in 1..m
    <3>1. q[j] \in Owned(index)
      BY <2>2, <2>3 DEF ToSet
    <3>2. PICK k \in DOMAIN index : index[k] = q[j]
      BY <3>1 DEF Owned
    <3>3. KeysIn(links)[q[j]] = k
      BY <2>1, <3>2, OwnersApart DEF Settled
    <3>4. nodes[q[j]].key = k
      BY <2>2, <2>3, <3>3 DEF KeysIn
    <3> QED BY <3>2, <3>4
  <2>6. \A j \in 1..m : /\ nodes[q[j]].next = At(q, j + 1)
                        /\ nodes[q[j]].prev = At(q, j - 1)
    BY <2>2, <2>3 DEF Chain, NextIn, PrevIn, m
  <2>7. head = At(q, 1) /\ tail = At(q, m)
    BY <2>2 DEF Chain, m
  <2>8. \A j \in 1..m : nodes[q[j]].prev = IF j = 1 THEN NONE ELSE q[j - 1]
    <3> TAKE j \in 1..m
    <3>1. CASE j = 1
      BY <2>6, <3>1 DEF At
    <3>2. CASE j # 1
      <4>1. j - 1 \in 1..m
        BY <2>3, <3>2
      <4> QED BY <2>3, <2>6, <3>2, <4>1
    <3> QED BY <3>1, <3>2
  <2>9. /\ head = IF m = 0 THEN NONE ELSE q[1]
        /\ tail = IF m = 0 THEN NONE ELSE q[m]
        /\ m > 0 => nodes[tail].next = NONE
    <3>1. CASE m = 0
      BY <2>7, <3>1 DEF At, m
    <3>2. CASE m # 0
      <4>1. 1 \in 1..m /\ m \in 1..m /\ m + 1 \notin 1..m
        BY <2>3, <3>2
      <4>2. head = q[1] /\ tail = q[m] /\ At(q, m + 1) = NONE
        BY <2>3, <2>7, <4>1 DEF At, m
      <4> QED BY <2>6, <3>2, <4>1, <4>2
    <3> QED BY <3>1, <3>2
  <2>10. ListMatchesIndex
    BY <2>2, <2>4, <2>5, <2>8, <2>9 DEF ListMatchesIndex, q, m
  <2>11. Cardinality(Owned(index)) = Cardinality(DOMAIN index)
    <3>1. Cardinality(DOMAIN index) = Len(q)
      BY <2>1, WalkIs DEF Settled
    <3> QED BY <2>2, <3>1, RecencyCardinality DEF Size
  <2>12. Cardinality(ToSet(free)) = Len(free)
    BY <2>2, RecencyCardinality DEF Size
  <2>13. SlotsPartitioned
    BY <2>2, <2>4, <2>11, <2>12 DEF SlotsPartitioned, n
  <2> QED BY <2>10, <2>13
<1> QED BY <1>1, OrderedMapInvariant, PTL

(* The list keeps the promise of RecencyMap: every call acts on the order  *)
(* and the values, and answers, as the same call of the abstract map.      *)
THEOREM RecencyMapImplemented == Spec => ImplementsRecencyMap
<1>1. Init => IInv /\ Abstract!Init
  BY EmptyMap
<1>2. IInv /\ [Next]_vars => IInv' /\ [Abstract!Next]_(Abstract!vars)
  BY EveryStep
<1> QED BY <1>1, <1>2, PTL DEF Spec, ImplementsRecencyMap, Abstract!Spec
=============================================================================
