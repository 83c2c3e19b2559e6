-------------------------------- MODULE Lfu --------------------------------
(***************************************************************************)
(* caching_strategies/src/policy/lfu.rs: a bucket of keys per access       *)
(* count, each bucket in recency order, and `min`, a hint of the lowest    *)
(* count in use that only fix_min_freq brings up to date.                  *)
(***************************************************************************)
EXTENDS Naturals, SequencesExt, FiniteSetsExt

LfuNew == [freq |-> <<>>, buckets |-> <<>>, min |-> 0]

(* Mutant: an emptied bucket stays in the map. *)
DetachKeepsEmpty(buckets, k, f) ==
  IF f \notin DOMAIN buckets THEN buckets
  ELSE [buckets EXCEPT ![f] = RemoveFirst(@, k)]

(* detach: an emptied bucket leaves the map. *)
Detach(buckets, k, f) ==
  IF f \notin DOMAIN buckets THEN buckets
  ELSE IF RemoveFirst(buckets[f], k) = <<>>
  THEN [x \in DOMAIN buckets \ {f} |-> buckets[x]]
  ELSE [buckets EXCEPT ![f] = RemoveFirst(@, k)]

(* entry(f).or_default().push_back(k) *)
Attach(buckets, k, f) ==
  [x \in DOMAIN buckets \cup {f} |->
     IF x # f THEN buckets[x]
     ELSE IF f \in DOMAIN buckets THEN Append(buckets[f], k) ELSE <<k>>]

SetFreq(freq, k, f) ==
  [x \in DOMAIN freq \cup {k} |-> IF x = k THEN f ELSE freq[x]]

DropKey(freq, k) == [x \in DOMAIN freq \ {k} |-> freq[x]]

(* The loop of fix_min_freq climbs from `min` to the first bucket there is: *)
(* it ends only if there is one (see LfuMinReachesBucket).                  *)
FixMinFreq(l) ==
  IF DOMAIN l.freq = {} THEN l.min
  ELSE Min({f \in DOMAIN l.buckets : f >= l.min})

LfuHit(l, k) ==
  LET f == l.freq[k]
      left == Detach(l.buckets, k, f)
      buckets == Attach(left, k, f + 1)
  IN [freq |-> SetFreq(l.freq, k, f + 1),
      buckets |-> buckets,
      min |-> IF l.min = f /\ f \notin DOMAIN buckets THEN f + 1 ELSE l.min]

(* Mutants: the victim is taken from the back of its bucket; a fresh key    *)
(* leaves the hint alone.                                                   *)
LfuVictimLast(l) == Last(l.buckets[FixMinFreq(l)])
LfuInsertKeepsMin(l, k) ==
  [freq |-> SetFreq(l.freq, k, 1), buckets |-> Attach(l.buckets, k, 1),
   min |-> IF l.min = 0 THEN 1 ELSE l.min]

LfuVictim(l) == Head(l.buckets[FixMinFreq(l)])

LfuInsert(l, k) ==
  [freq |-> SetFreq(l.freq, k, 1), buckets |-> Attach(l.buckets, k, 1), min |-> 1]

LfuRemove(l, k) ==
  IF k \notin DOMAIN l.freq THEN l
  ELSE [freq |-> DropKey(l.freq, k),
        buckets |-> Detach(l.buckets, k, l.freq[k]),
        min |-> l.min]

LfuAccess(l, c, k) ==
  IF k \in DOMAIN l.freq
  THEN [st |-> LfuHit(l, k), hit |-> TRUE, evicted |-> {}]
  ELSE IF Cardinality(DOMAIN l.freq) >= c
  THEN [st |-> LfuInsert(LfuRemove(l, LfuVictim(l)), k),
        hit |-> FALSE, evicted |-> {LfuVictim(l)}]
  ELSE [st |-> LfuInsert(l, k), hit |-> FALSE, evicted |-> {}]
=============================================================================
