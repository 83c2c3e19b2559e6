---------------------------- MODULE SweepProofs ----------------------------
(***************************************************************************)
(* The sweep, for any grid, shards, strata and number of threads: each     *)
(* cell is given the stream in order however the threads interleave, and   *)
(* what the analytics find under the id they compute for a run is what     *)
(* this sweep wrote for it.  Then what one run gathers and its result      *)
(* files, for any outcomes, ages and contracts: a reader of the files      *)
(* finds the sums, peaks and tallies of what the cache reported.           *)
(***************************************************************************)
EXTENDS Sweep, Metrics, CollectionProofs

-----------------------------------------------------------------------------
(* The sinks.  g lists what a sink keeps of each prefix of the blocks.     *)
KeptOf(g, idx, blocks, n) ==
  \A i \in 0..Len(blocks) : i <= n =>
    g[i] = IF i = 0 THEN <<>>
           ELSE IF InStratum(StrataFile, Strata[idx], blocks[i]) THEN Append(g[i - 1], blocks[i])
           ELSE g[i - 1]

(* OfStratum is the last of them. *)
LEMMA OfStratumUnfolds ==
  ASSUME NEW idx, NEW blocks, Len(blocks) \in Nat
  PROVE  \E g : KeptOf(g, idx, blocks, Len(blocks)) /\ OfStratum(idx, blocks) = g[Len(blocks)]
<1> DEFINE n == Len(blocks)
           In(b) == InStratum(StrataFile, Strata[idx], b)
           Is(g) == g = [i \in 0..n |->
                           IF i = 0 THEN <<>>
                           ELSE IF In(blocks[i]) THEN Append(g[i - 1], blocks[i])
                           ELSE g[i - 1]]
           G == {m \in Nat : \E g : KeptOf(g, idx, blocks, m)}
<1>1. 0 \in G
  <2> DEFINE z == [i \in 0..n |-> <<>>]
  <2>1. KeptOf(z, idx, blocks, 0)
    BY DEF KeptOf
  <2> QED BY <2>1
<1>2. ASSUME NEW m \in G PROVE m + 1 \in G
  <2>1. PICK g : KeptOf(g, idx, blocks, m)
    OBVIOUS
  <2> DEFINE h == [i \in 0..n |-> IF i <= m THEN g[i]
                                  ELSE IF In(blocks[i]) THEN Append(g[i - 1], blocks[i])
                                  ELSE g[i - 1]]
  <2>2. ASSUME NEW i \in 0..n, i <= m + 1
        PROVE  h[i] = IF i = 0 THEN <<>>
                      ELSE IF In(blocks[i]) THEN Append(h[i - 1], blocks[i])
                      ELSE h[i - 1]
    <3> HIDE DEF In
    <3>1. i # 0 => i - 1 \in 0..n /\ i - 1 <= m
      BY <2>2
    <3>2. i # 0 => h[i - 1] = g[i - 1]
      BY <3>1
    <3>3. i <= m => g[i] = IF i = 0 THEN <<>>
                           ELSE IF In(blocks[i]) THEN Append(g[i - 1], blocks[i])
                           ELSE g[i - 1]
      BY <2>1 DEF KeptOf, In
    <3>4. i = 0 => i <= m
      OBVIOUS
    <3> QED BY <2>2, <3>2, <3>3, <3>4
  <2> HIDE DEF h
  <2>3. KeptOf(h, idx, blocks, m + 1)
    BY <2>2 DEF KeptOf
  <2> QED BY <2>3
<1>3. PICK g : KeptOf(g, idx, blocks, n)
  <2> HIDE DEF G
  <2>1. G \in SUBSET Nat
    BY DEF G
  <2>2. n \in G
    BY <1>1, <1>2, <2>1, NumberInduction
  <2> QED BY <2>2 DEF G
<1> DEFINE h == [i \in 0..n |-> g[i]]
<1>4. Is(h)
  <2>1. ASSUME NEW i \in 0..n
        PROVE  h[i] = IF i = 0 THEN <<>>
                      ELSE IF In(blocks[i]) THEN Append(h[i - 1], blocks[i])
                      ELSE h[i - 1]
    <3> HIDE DEF In
    <3>1. i <= n /\ (i # 0 => i - 1 \in 0..n)
      OBVIOUS
    <3>2. g[i] = IF i = 0 THEN <<>>
                 ELSE IF In(blocks[i]) THEN Append(g[i - 1], blocks[i])
                 ELSE g[i - 1]
      BY <1>3, <3>1 DEF KeptOf, In
    <3> QED BY <3>1, <3>2
  <2> HIDE DEF In
  <2> QED BY <2>1
<1> DEFINE f == CHOOSE x : Is(x)
<1>5. Is(f)
  BY <1>4
<1>6. OfStratum(idx, blocks) = f[n]
  BY DEF OfStratum
<1>7. KeptOf(f, idx, blocks, n)
  <2> HIDE DEF f
  <2> QED BY <1>5 DEF KeptOf
<1> QED BY <1>6, <1>7

(* What a sink keeps of nothing, and of one block more. *)
LEMMA OfStratumGrows ==
  ASSUME NEW idx
  PROVE  /\ OfStratum(idx, <<>>) = <<>>
         /\ \A s \in Seq(Nat), b \in Nat :
              OfStratum(idx, Append(s, b)) =
                IF InStratum(StrataFile, Strata[idx], b) THEN Append(OfStratum(idx, s), b)
                                                         ELSE OfStratum(idx, s)
<1>1. OfStratum(idx, <<>>) = <<>>
  <2>1. Len(<<>>) = 0 /\ 0 \in Nat
    OBVIOUS
  <2>2. PICK g : KeptOf(g, idx, <<>>, 0) /\ OfStratum(idx, <<>>) = g[0]
    BY <2>1, OfStratumUnfolds
  <2> QED BY <2>1, <2>2 DEF KeptOf
<1>2. ASSUME NEW s \in Seq(Nat), NEW b \in Nat
      PROVE  OfStratum(idx, Append(s, b)) =
                IF InStratum(StrataFile, Strata[idx], b) THEN Append(OfStratum(idx, s), b)
                                                         ELSE OfStratum(idx, s)
  <2> DEFINE t == Append(s, b)
             n == Len(s)
  <2>1. /\ n \in Nat /\ Len(t) = n + 1 /\ t[n + 1] = b
        /\ \A i \in 1..n : t[i] = s[i]
    BY AppendProperties, LenProperties
  <2> HIDE DEF t, n
  <2>2. PICK g : KeptOf(g, idx, s, n) /\ OfStratum(idx, s) = g[n]
    BY <2>1, OfStratumUnfolds DEF n
  <2>3. PICK h : KeptOf(h, idx, t, n + 1) /\ OfStratum(idx, t) = h[n + 1]
    <3>1. Len(t) \in Nat
      BY <2>1
    <3>2. \E h : KeptOf(h, idx, t, Len(t)) /\ OfStratum(idx, t) = h[Len(t)]
      BY <3>1, OfStratumUnfolds
    <3> QED BY <2>1, <3>2
  <2> DEFINE G == {m \in Nat : m <= n => g[m] = h[m]}
  <2>4. 0 \in G
    <3>1. g[0] = <<>>
      BY <2>1, <2>2 DEF KeptOf, n
    <3>2. h[0] = <<>>
      BY <2>1, <2>3 DEF KeptOf
    <3> QED BY <3>1, <3>2
  <2>5. ASSUME NEW m \in G PROVE m + 1 \in G
    <3> SUFFICES ASSUME m + 1 <= n PROVE g[m + 1] = h[m + 1]
      OBVIOUS
    <3> DEFINE k == m + 1
    <3>1. m \in Nat /\ k # 0 /\ k - 1 = m /\ g[m] = h[m] /\ k \in 1..n
      BY <2>1
    <3> HIDE DEF k
    <3>2. k \in 0..n /\ k <= n /\ k \in 0..n + 1 /\ k <= n + 1
      BY <2>1, <3>1
    <3>3. g[k] = IF InStratum(StrataFile, Strata[idx], s[k]) THEN Append(g[k - 1], s[k])
                 ELSE g[k - 1]
      BY <2>2, <3>1, <3>2 DEF KeptOf, n
    <3>4. h[k] = IF InStratum(StrataFile, Strata[idx], t[k]) THEN Append(h[k - 1], t[k])
                 ELSE h[k - 1]
      BY <2>1, <2>3, <3>1, <3>2 DEF KeptOf
    <3>5. t[k] = s[k]
      BY <2>1, <3>1
    <3>6. g[k] = h[k]
      BY <3>1, <3>3, <3>4, <3>5
    <3> QED BY <3>6 DEF k
  <2>6. g[n] = h[n]
    <3> HIDE DEF G
    <3>1. G \in SUBSET Nat
      BY DEF G
    <3>2. n \in G
      BY <2>1, <2>4, <2>5, <3>1, NumberInduction
    <3>3. n <= n
      BY <2>1
    <3> QED BY <3>2, <3>3 DEF G
  <2>7. h[n + 1] = IF InStratum(StrataFile, Strata[idx], b) THEN Append(h[n], b) ELSE h[n]
    <3>1. n + 1 \in 0..n + 1 /\ n + 1 <= n + 1 /\ n + 1 # 0 /\ (n + 1) - 1 = n
      BY <2>1
    <3> QED BY <2>1, <2>3, <3>1 DEF KeptOf
  <2> QED BY <2>2, <2>3, <2>6, <2>7 DEF t
<1> QED BY <1>1, <1>2

-----------------------------------------------------------------------------
(* The stream.  Ahead(i) has the blocks of the shards before shard i.      *)
Ahead(i) ==
  LET g == CHOOSE x : JoinsOf(x, Shards, Len(Shards)) /\ FlattenSeq(Shards) = x[Len(Shards)]
  IN IF i <= 1 THEN <<>> ELSE g[i - 1]

(* Lists may be joined in any grouping. *)
LEMMA Regroup ==
  \A a, b, c \in Seq(Nat) : (a \o b) \o c = a \o (b \o c)
<1> TAKE a, b, c \in Seq(Nat)
<1> QED BY ConcatAssociative

(* Shard by shard it becomes the stream. *)
LEMMA AheadGrows ==
  /\ Len(Shards) \in Nat
  /\ Ahead(0) = <<>> /\ Ahead(1) = <<>> /\ Ahead(Len(Shards) + 1) = Stream
  /\ \A i \in 1..Len(Shards) :
       /\ Shards[i] \in Seq(Nat)
       /\ Ahead(i) \in Seq(Nat)
       /\ Ahead(i + 1) = Ahead(i) \o Shards[i]
  /\ Stream \in Seq(Nat)
<1> DEFINE n == Len(Shards)
           Is(x) == JoinsOf(x, Shards, n) /\ FlattenSeq(Shards) = x[n]
           g == CHOOSE x : Is(x)
<1>1. n \in Nat /\ \A i \in 1..n : Shards[i] \in Seq(Nat)
  BY SweepAssumption
<1>2. Ahead(0) = <<>> /\ Ahead(1) = <<>> /\ \A i \in Nat : i > 1 => Ahead(i) = g[i - 1]
  BY DEF Ahead
<1>3. CASE n = 0
  <2>1. Shards = <<>>
    BY <1>3, SweepAssumption, EmptySeq
  <2>2. Stream = <<>>
    BY <1>3, <2>1 DEF Stream, FlattenSeq
  <2>3. n + 1 = 1 /\ 1..n = {} /\ <<>> \in Seq(Nat)
    BY <1>3
  <2> QED BY <1>1, <1>2, <2>2, <2>3
<1>4. CASE n # 0
  <2>1. Is(g)
    <3>1. n \in Nat \ {0}
      BY <1>1, <1>4
    <3>2. \E x : Is(x)
      BY <3>1, FlattenUnfolds
    <3> QED BY <3>2
  <2> HIDE DEF g
  <2>2. n \in 1..n /\ n + 1 > 1 /\ (n + 1) - 1 = n /\ n + 1 \in Nat
    BY <1>1, <1>4
  <2> HIDE DEF n
  <2>3. Ahead(n + 1) = Stream
    BY <1>2, <2>1, <2>2 DEF Stream
  <2>4. ASSUME NEW i \in 1..n PROVE g[i] = IF i = 1 THEN Shards[i] ELSE g[i - 1] \o Shards[i]
    BY <2>1, <1>1 DEF JoinsOf, n
  <2>5. ASSUME NEW i \in 1..n, Ahead(i) \in Seq(Nat)
        PROVE  Ahead(i + 1) = Ahead(i) \o Shards[i] /\ Ahead(i + 1) \in Seq(Nat)
    <3>0. i \in Nat /\ i + 1 \in Nat /\ i + 1 > 1 /\ (i + 1) - 1 = i
      BY <1>1
    <3>1. Ahead(i + 1) = g[i]
      BY <1>2, <3>0
    <3>2. Ahead(i + 1) = Ahead(i) \o Shards[i]
      <4>1. CASE i = 1
        <5>1. g[i] = Shards[i] /\ Ahead(i) = <<>> /\ Shards[i] \in Seq(Nat)
          BY <1>1, <1>2, <2>4, <4>1
        <5> QED BY <3>1, <5>1, ConcatEmptySeq
      <4>2. CASE i # 1
        <5>1. i > 1
          BY <1>1, <4>2
        <5>2. Ahead(i) = g[i - 1]
          BY <1>2, <3>0, <5>1
        <5> QED BY <2>4, <3>1, <4>2, <5>2
      <4> QED BY <4>1, <4>2
    <3>3. Shards[i] \in Seq(Nat)
      BY <1>1
    <3> QED BY <2>5, <3>2, <3>3, ConcatProperties
  <2> DEFINE G == {m \in Nat : m <= n => Ahead(m + 1) \in Seq(Nat)}
  <2>6. 0 \in G
    <3>1. <<>> \in Seq(Nat) /\ 0 + 1 = 1
      OBVIOUS
    <3> QED BY <1>2, <3>1
  <2>7. ASSUME NEW m \in G PROVE m + 1 \in G
    <3>1. m + 1 <= n => m + 1 \in 1..n /\ m <= n
      BY <1>1
    <3>2. m \in Nat /\ m + 1 \in Nat
      OBVIOUS
    <3> QED BY <2>5, <3>1, <3>2
  <2>8. \A m \in 0..n : Ahead(m + 1) \in Seq(Nat)
    <3> HIDE DEF G
    <3>1. G \in SUBSET Nat
      BY DEF G
    <3>2. G = Nat
      BY <2>6, <2>7, <3>1, NumberInduction
    <3>3. \A m \in 0..n : m \in G /\ m <= n
      BY <1>1, <3>2
    <3> QED BY <3>3 DEF G
  <2>9. \A i \in 1..n : Ahead(i) \in Seq(Nat)
    <3> TAKE i \in 1..n
    <3>1. i - 1 \in 0..n /\ (i - 1) + 1 = i
      BY <1>1
    <3> QED BY <2>8, <3>1
  <2>10. \A i \in 1..n : Ahead(i + 1) = Ahead(i) \o Shards[i]
    BY <2>5, <2>9
  <2>11. Stream \in Seq(Nat)
    <3>1. n \in 0..n
      BY <1>1
    <3> QED BY <2>3, <2>8, <3>1
  <2> QED BY <1>1, <1>2, <2>3, <2>9, <2>10, <2>11 DEF n
<1> QED BY <1>3, <1>4

(* Something is left of the stream after the shards before any.            *)
LEMMA AheadOfStream ==
  ASSUME NEW i \in 1..Len(Shards) + 1
  PROVE  \E rest \in Seq(Nat) : Stream = Ahead(i) \o rest
<1> DEFINE n == Len(Shards)
           Rests(k) == \E rest \in Seq(Nat) : Stream = Ahead(k) \o rest
           G == {m \in Nat : m <= n => Rests(n + 1 - m)}
<1>1. n \in Nat /\ Stream \in Seq(Nat) /\ Ahead(n + 1) = Stream
  BY AheadGrows
<1>2. ASSUME NEW k \in 1..n, Rests(k + 1) PROVE Rests(k)
  <2>1. PICK rest \in Seq(Nat) : Stream = Ahead(k + 1) \o rest
    BY <1>2
  <2>2. /\ Shards[k] \in Seq(Nat) /\ Ahead(k) \in Seq(Nat)
        /\ Ahead(k + 1) = Ahead(k) \o Shards[k]
    BY AheadGrows
  <2>3. Stream = Ahead(k) \o (Shards[k] \o rest)
    <3>0. Shards[k] \in Seq(Nat) /\ Ahead(k) \in Seq(Nat) /\ rest \in Seq(Nat)
      BY <2>1, <2>2
    <3>1. (Ahead(k) \o Shards[k]) \o rest = Ahead(k) \o (Shards[k] \o rest)
      BY <3>0, Regroup
    <3> QED BY <2>1, <2>2, <3>1
  <2>4. Shards[k] \o rest \in Seq(Nat)
    BY <2>2, ConcatProperties
  <2> QED BY <2>3, <2>4
<1>3. 0 \in G
  <2>1. n + 1 - 0 = n + 1
    BY <1>1
  <2>2. <<>> \in Seq(Nat) /\ Stream = Stream \o <<>>
    BY <1>1, ConcatEmptySeq
  <2> QED BY <1>1, <2>1, <2>2
<1> HIDE DEF Rests
<1>4. ASSUME NEW m \in G PROVE m + 1 \in G
  <2>1. m + 1 <= n => m <= n /\ n + 1 - (m + 1) \in 1..n /\ n + 1 - m = (n + 1 - (m + 1)) + 1
    BY <1>1
  <2>2. m + 1 \in Nat
    OBVIOUS
  <2> QED BY <1>2, <2>1, <2>2
<1>5. Rests(i)
  <2> HIDE DEF G
  <2>1. G \in SUBSET Nat
    BY DEF G
  <2>2. G = Nat
    BY <1>3, <1>4, <2>1, NumberInduction
  <2>3. n + 1 - i \in Nat /\ n + 1 - i <= n /\ n + 1 - (n + 1 - i) = i
    BY <1>1
  <2>4. n + 1 - i \in G
    BY <2>2, <2>3
  <2> QED BY <2>3, <2>4 DEF G
<1> QED BY <1>5 DEF Rests

(* A list begins with any list that it continues. *)
LEMMA PrefixOfConcat ==
  ASSUME NEW s \in Seq(Nat), NEW t \in Seq(Nat)
  PROVE  IsPrefix(s, s \o t)
<1>1. /\ s \o t \in Seq(Nat) /\ Len(s \o t) = Len(s) + Len(t)
      /\ \A i \in 1..Len(s) + Len(t) : (s \o t)[i] = IF i <= Len(s) THEN s[i] ELSE t[i - Len(s)]
  BY ConcatProperties
<1>2. Len(s) \in Nat /\ Len(t) \in Nat
  BY LenProperties
<1>3. CASE Len(s) = 0
  <2>1. SubSeq(s, 1, Len(s)) = <<>> /\ SubSeq(s \o t, 1, Len(s)) = <<>>
    BY <1>3, SubSeqEmpty
  <2> QED BY <1>1, <1>2, <2>1 DEF IsPrefix
<1>4. CASE Len(s) # 0
  <2>1. 1 \in 1..Len(s) /\ Len(s) \in 1..Len(s)
    BY <1>2, <1>4
  <2>2. SubSeq(s \o t, 1, Len(s)) = SubSeq(s, 1, Len(s))
    BY <2>1, SubSeqOfConcat1
  <2> QED BY <1>1, <1>2, <2>2 DEF IsPrefix
<1> QED BY <1>3, <1>4

(* Something is left of a shard after a part of it.                        *)
LEMMA RestOfShard ==
  ASSUME NEW s \in Seq(Nat), NEW n \in 0..Len(s)
  PROVE  \E rest \in Seq(Nat) : s = SubSeq(s, 1, n) \o rest
<1>0. Len(s) \in Nat /\ n \in Int /\ 1 \in Int /\ \A i \in 1..Len(s) : s[i] \in Nat
  BY LenProperties, ElementOfSeq
<1>1. /\ 1 \in 1..Len(s) + 1 /\ n \in 1 - 1..Len(s) /\ Len(s) \in n..Len(s)
  BY <1>0
<1>2. SubSeq(s, 1, n) \o SubSeq(s, n + 1, Len(s)) = SubSeq(s, 1, Len(s))
  BY <1>1, ConcatAdjacentSubSeq
<1>3. SubSeq(s, n + 1, Len(s)) \in Seq(Nat)
  <2>1. n + 1 \in Int /\ Len(s) \in Int /\ \A i \in n + 1..Len(s) : s[i] \in Nat
    BY <1>0
  <2> QED BY <2>1, SubSeqProperties
<1> QED BY <1>2, <1>3, SubSeqFull

(* A part of a shard, and what comes with one block more.                  *)
LEMMA PartOfShard ==
  ASSUME NEW s \in Seq(Nat), NEW a \in Seq(Nat), NEW n \in 0..Len(s)
  PROVE  /\ SubSeq(s, 1, n) \in Seq(Nat)
         /\ n < Len(s) => /\ s[n + 1] \in Nat
                          /\ a \o SubSeq(s, 1, n + 1) = Append(a \o SubSeq(s, 1, n), s[n + 1])
<1>1. Len(s) \in Nat /\ n \in Int /\ 1 \in Int /\ \A i \in 1..Len(s) : s[i] \in Nat
  BY LenProperties, ElementOfSeq
<1>2. \A k \in 0..Len(s) : SubSeq(s, 1, k) \in Seq(Nat)
  <2> TAKE k \in 0..Len(s)
  <2>1. k \in Int /\ \A i \in 1..k : s[i] \in Nat
    BY <1>1
  <2> QED BY <2>1, SubSeqProperties
<1>4. ASSUME n < Len(s)
      PROVE  /\ s[n + 1] \in Nat
             /\ a \o SubSeq(s, 1, n + 1) = Append(a \o SubSeq(s, 1, n), s[n + 1])
  <2> DEFINE t == SubSeq(s, 1, n)
             e == s[n + 1]
  <2>1. /\ 1 \in 1..Len(s) /\ n + 1 \in 1..Len(s) /\ (n + 1) - 1 = n
    BY <1>1, <1>4
  <2>2. SubSeq(s, 1, n + 1) = SubSeq(s, 1, (n + 1) - 1) \o <<s[n + 1]>>
    BY <2>1, SubSeqRecursiveSecond
  <2>3. t \in Seq(Nat) /\ e \in Nat
    BY <1>1, <1>2, <2>1
  <2>4. SubSeq(s, 1, n + 1) = t \o <<e>>
    BY <2>1, <2>2
  <2> HIDE DEF t, e
  <2>5. <<e>> \in Seq(Nat) /\ a \o t \in Seq(Nat)
    BY <2>3, ConcatProperties
  <2>6. a \o (t \o <<e>>) = (a \o t) \o <<e>>
    BY <2>3, <2>5, ConcatAssociative
  <2>7. Append(a \o t, e) = (a \o t) \o <<e>>
    BY <2>3, <2>5, AppendIsConcat
  <2>8. a \o SubSeq(s, 1, n + 1) = Append(a \o t, e)
    BY <2>4, <2>6, <2>7
  <2> QED BY <2>3, <2>8 DEF t, e
<1> QED BY <1>2, <1>4

-----------------------------------------------------------------------------
(* The ids of the runs. *)

(* There are so many cells. *)
LEMMA CellCount ==
  /\ NCells \in Nat
  /\ Len(Policies) \in Nat /\ Len(WINDOWS) \in Nat /\ Len(CAPACITY_PCTS) \in Nat
<1>1. Len(Policies) \in Nat /\ Len(WINDOWS) \in Nat /\ Len(CAPACITY_PCTS) \in Nat
  BY SweepAssumption, GridAssumption
<1>2. Len(Policies) * Len(WINDOWS) \in Nat
  BY <1>1
<1>3. (Len(Policies) * Len(WINDOWS)) * Len(CAPACITY_PCTS) \in Nat
  BY <1>1, <1>2
<1> QED BY <1>1, <1>3 DEF NCells

(* No two runs of a sweep share an id. *)
LEMMA IdsApart ==
  ASSUME NEW c \in Cells, NEW i \in 1..3
  PROVE  /\ RunIds(c)[i] = 3 * (c - 1) + i - 1
         /\ RunIds(c)[i] \in Ids
         /\ \A d \in Cells : \A j \in 1..3 : RunIds(d)[j] = RunIds(c)[i] => d = c /\ j = i
<1>1. NCells \in Nat /\ c \in 1..NCells
  BY CellCount DEF Cells
<1>2. \A d \in Cells : \A j \in 1..3 : RunIds(d)[j] = 3 * (d - 1) + j - 1
  BY DEF RunIds
<1>3. 3 * (c - 1) + i - 1 \in 0..3 * NCells - 1
  BY <1>1
<1>4. ASSUME NEW d \in Cells, NEW j \in 1..3, 3 * (d - 1) + j - 1 = 3 * (c - 1) + i - 1
      PROVE  d = c /\ j = i
  <2>1. d \in 1..NCells
    BY DEF Cells
  <2> QED BY <1>1, <1>4, <2>1
<1>5. RunIds(c)[i] = 3 * (c - 1) + i - 1
  BY <1>2
<1>6. RunIds(c)[i] \in Ids
  BY <1>3, <1>5 DEF Ids
<1>7. ASSUME NEW d \in Cells, NEW j \in 1..3, RunIds(d)[j] = RunIds(c)[i]
      PROVE  d = c /\ j = i
  <2>1. RunIds(d)[j] = 3 * (d - 1) + j - 1
    BY <1>2
  <2> QED BY <1>4, <1>5, <1>7, <2>1
<1> QED BY <1>5, <1>6, <1>7

(* The place of an element in a list without repetitions. *)
LEMMA PlaceInList ==
  ASSUME NEW S, NEW s \in Seq(S), IsInjective(s), NEW i \in 1..Len(s)
  PROVE  IndexOf(s, s[i]) = i - 1
<1>1. DOMAIN s = 1..Len(s) /\ Len(s) \in Nat
  BY LenProperties
<1>2. \A j \in DOMAIN s : s[j] = s[i] <=> j = i
  BY <1>1 DEF IsInjective
<1>3. (CHOOSE j \in DOMAIN s : s[j] = s[i]) = i
  BY <1>1, <1>2
<1> QED BY <1>3 DEF IndexOf

(* A quotient and its remainder stay within a product. *)
LEMMA Parts ==
  ASSUME NEW n \in Nat, NEW a \in Nat, NEW d \in Nat \ {0}, n < a * d
  PROVE  /\ n \div d \in 0..a - 1 /\ n % d \in 0..d - 1
         /\ n = (n \div d) * d + (n % d)
<1> DEFINE q == n \div d
           r == n % d
<1>1. q \in Nat /\ r \in 0..d - 1 /\ n = d * q + r
  OBVIOUS
<1> HIDE DEF q, r
<1>2. d * q = q * d
  BY <1>1
<1>3. q < a
  <2> SUFFICES ASSUME q >= a PROVE FALSE
    BY <1>1
  <2>1. PICK k \in Nat : q = a + k
    <3>1. q - a \in Nat /\ q = a + (q - a)
      BY <1>1
    <3> QED BY <3>1
  <2>2. q * d = a * d + k * d
    BY <2>1
  <2>3. k * d \in Nat /\ a * d \in Nat /\ q * d \in Nat
    BY <1>1, <2>1
  <2> QED BY <1>1, <1>2, <2>2, <2>3
<1>4. q \in 0..a - 1
  BY <1>1, <1>3
<1> QED BY <1>1, <1>2, <1>4 DEF q, r

(* The analytics compute the id that build_grid handed out. *)
LEMMA IdIsFound ==
  ASSUME NEW c \in Cells, NEW idx \in 1..3
  PROVE  RunIdFor(BuildGrid[c].policy, BuildGrid[c].window, BuildGrid[c].capacity_pct,
                  Strata[idx]) = RunIds(c)[idx]
<1> DEFINE P == Len(Policies)
           W == Len(WINDOWS)
           K == Len(CAPACITY_PCTS)
           i == (c - 1) \div K
           k == (c - 1) % K
           p == i \div W
           w == i % W
<1>1. P \in Nat /\ W \in Nat /\ K \in Nat /\ c \in 1..(P * W) * K
  BY CellCount DEF Cells, NCells
<1>2. K # 0 /\ W # 0
  <2> HIDE DEF P, W, K
  <2>1. CASE K = 0
    <3>1. P * W \in Nat
      BY <1>1
    <3>2. (P * W) * K = 0
      BY <2>1, <3>1
    <3> QED BY <1>1, <3>2
  <2>2. CASE W = 0
    <3>1. P * W = 0
      BY <1>1, <2>2
    <3>2. (P * W) * K = 0
      BY <1>1, <3>1
    <3> QED BY <1>1, <3>2
  <2> QED BY <2>1, <2>2
<1>3. i \in 0..P * W - 1 /\ k \in 0..K - 1 /\ c - 1 = i * K + k
  <2>1. P * W \in Nat /\ K \in Nat \ {0} /\ c - 1 \in Nat /\ c - 1 < (P * W) * K
    <3>1. P * W \in Nat
      BY <1>1
    <3>2. (P * W) * K \in Nat
      BY <1>1, <3>1
    <3> HIDE DEF P, W, K
    <3> QED BY <1>1, <1>2, <3>1, <3>2
  <2> HIDE DEF P, W, K
  <2> QED BY <2>1, Parts
<1>4. p \in 0..P - 1 /\ w \in 0..W - 1 /\ i = p * W + w
  <2>1. i \in Nat /\ W \in Nat \ {0} /\ i < P * W
    <3>1. P * W \in Nat
      BY <1>1
    <3> HIDE DEF P, W, K, i
    <3> QED BY <1>1, <1>2, <1>3, <3>1
  <2> HIDE DEF P, W, K, i
  <2> QED BY <1>1, <2>1, Parts
<1>5. /\ BuildGrid[c].policy = Policies[p + 1]
      /\ BuildGrid[c].window = WINDOWS[w + 1]
      /\ BuildGrid[c].capacity_pct = CAPACITY_PCTS[k + 1]
  BY DEF BuildGrid
<1> HIDE DEF P, W, K, i, k, p, w
<1>6. IndexOf(Policies, Policies[p + 1]) = p
  <2>1. p + 1 \in 1..Len(Policies) /\ (p + 1) - 1 = p
    BY <1>1, <1>4 DEF P
  <2> QED BY <2>1, SweepAssumption, PlaceInList
<1>7. IndexOf(WINDOWS, WINDOWS[w + 1]) = w
  <2>1. w + 1 \in 1..Len(WINDOWS) /\ (w + 1) - 1 = w
    BY <1>1, <1>4 DEF W
  <2> QED BY <2>1, GridAssumption, PlaceInList
<1>8. IndexOf(CAPACITY_PCTS, CAPACITY_PCTS[k + 1]) = k
  <2>1. k + 1 \in 1..Len(CAPACITY_PCTS) /\ (k + 1) - 1 = k
    BY <1>1, <1>3 DEF K
  <2> QED BY <2>1, GridAssumption, PlaceInList
<1>9. Len(Strata) = 3 /\ IndexOf(Strata, Strata[idx]) = idx - 1
  <2>1. Strata \in Seq({"all", "defi", "transfer"}) /\ Len(Strata) = 3 /\ IsInjective(Strata)
    BY DEF Strata, IsInjective
  <2>2. idx \in 1..Len(Strata)
    BY <2>1
  <2> QED BY <2>1, <2>2, PlaceInList
<1>10. RunIdFor(BuildGrid[c].policy, BuildGrid[c].window, BuildGrid[c].capacity_pct, Strata[idx])
         = ((p * W + w) * K + k) * 3 + (idx - 1)
  BY <1>5, <1>6, <1>7, <1>8, <1>9 DEF RunIdFor, W, K
<1>11. ((p * W + w) * K + k) * 3 + (idx - 1) = (c - 1) * 3 + (idx - 1)
  BY <1>3, <1>4
<1>12. RunIds(c)[idx] = 3 * (c - 1) + idx - 1
  BY IdsApart
<1>13. (c - 1) * 3 + (idx - 1) = 3 * (c - 1) + idx - 1
  BY <1>1 DEF Cells
<1> QED BY <1>10, <1>11, <1>12, <1>13

-----------------------------------------------------------------------------
(* The table of the runs. *)

(* Lists of three, joined: each keeps its order and its turn. *)
Threes(ls, n, S) ==
  /\ n \in Nat /\ ls \in Seq(Seq(S)) /\ Len(ls) = n
  /\ \A c \in 1..n : ls[c] \in Seq(S) /\ Len(ls[c]) = 3
JoinedThrees(q, ls, n, S) ==
  /\ q \in Seq(S) /\ Len(q) = 3 * n
  /\ \A c \in 1..n : \A i \in 1..3 : q[3 * (c - 1) + i] = ls[c][i]

(* One more list of three after those joined. *)
LEMMA JoinThree ==
  ASSUME NEW S, NEW n \in Nat, NEW N, NEW ls, Threes(ls, N, S), n + 1 \in 1..N,
         NEW q, JoinedThrees(q, ls, n, S)
  PROVE  JoinedThrees(q \o ls[n + 1], ls, n + 1, S)
<1> DEFINE t == ls[n + 1]
           r == q \o t
<1>1. q \in Seq(S) /\ Len(q) = 3 * n /\ t \in Seq(S) /\ Len(t) = 3
  BY DEF JoinedThrees, Threes
<1>2. /\ r \in Seq(S) /\ Len(r) = Len(q) + Len(t)
      /\ \A i \in 1..Len(q) + Len(t) : r[i] = IF i <= Len(q) THEN q[i] ELSE t[i - Len(q)]
  BY <1>1, ConcatProperties
<1> HIDE DEF r
<1>3. Len(r) = 3 * (n + 1)
  BY <1>1, <1>2
<1>4. ASSUME NEW c \in 1..n + 1, NEW i \in 1..3 PROVE r[3 * (c - 1) + i] = ls[c][i]
  <2> DEFINE m == 3 * (c - 1) + i
  <2>1. m \in 1..Len(q) + Len(t)
    BY <1>1
  <2>2. CASE c \in 1..n
    <3>1. m <= Len(q)
      BY <1>1, <2>2
    <3>2. q[m] = ls[c][i]
      BY <2>2 DEF JoinedThrees
    <3> HIDE DEF m
    <3>3. r[m] = q[m]
      BY <1>2, <2>1, <3>1
    <3> QED BY <3>2, <3>3 DEF m
  <2>3. CASE c = n + 1
    <3>1. ~(m <= Len(q)) /\ m - Len(q) = i
      BY <1>1, <2>3
    <3> HIDE DEF m
    <3>2. r[m] = t[i]
      BY <1>2, <2>1, <3>1
    <3> QED BY <2>3, <3>2 DEF m
  <2>4. c \in 1..n \/ c = n + 1
    OBVIOUS
  <2> QED BY <2>2, <2>3, <2>4
<1> QED BY <1>2, <1>3, <1>4 DEF JoinedThrees, r

(* FlattenSeq of lists of three. *)
LEMMA FlattenThrees ==
  ASSUME NEW S, NEW n, NEW ls, Threes(ls, n, S)
  PROVE  JoinedThrees(FlattenSeq(ls), ls, n, S)
<1>0. n \in Nat /\ ls \in Seq(Seq(S)) /\ Len(ls) = n
  BY DEF Threes
<1>1. CASE n = 0
  <2>1. FlattenSeq(ls) = <<>>
    BY <1>0, <1>1, EmptySeq DEF FlattenSeq
  <2>2. <<>> \in Seq(S) /\ Len(<<>>) = 3 * n /\ 1..n = {}
    BY <1>1
  <2> QED BY <2>1, <2>2 DEF JoinedThrees
<1>2. CASE n # 0
  <2>1. PICK g : JoinsOf(g, ls, n) /\ FlattenSeq(ls) = g[n]
    BY <1>0, <1>2, FlattenUnfolds
  <2>2. ASSUME NEW i \in 1..n PROVE g[i] = IF i = 1 THEN ls[i] ELSE g[i - 1] \o ls[i]
    <3>1. i \in 1..Len(ls) /\ i <= n
      BY <1>0
    <3> QED BY <2>1, <3>1 DEF JoinsOf
  <2> DEFINE G == {m \in Nat : m \in 1..n => JoinedThrees(g[m], ls, m, S)}
  <2>3. 0 \in G
    OBVIOUS
  <2>4. ASSUME NEW m \in G PROVE m + 1 \in G
    <3> SUFFICES ASSUME m + 1 \in 1..n PROVE JoinedThrees(g[m + 1], ls, m + 1, S)
      OBVIOUS
    <3>1. CASE m = 0
      <4>1. g[m + 1] = ls[1] /\ m + 1 = 1 /\ 1 \in 1..n
        BY <2>2, <3>1
      <4>2. ls[1] \in Seq(S) /\ Len(ls[1]) = 3
        BY <4>1 DEF Threes
      <4>3. \A c \in 1..1 : c = 1 /\ \A i \in 1..3 : 3 * (c - 1) + i = i
        OBVIOUS
      <4>4. JoinedThrees(ls[1], ls, 1, S)
        BY <4>2, <4>3 DEF JoinedThrees
      <4> QED BY <4>1, <4>4
    <3>2. CASE m # 0
      <4>1. m + 1 # 1 /\ (m + 1) - 1 = m /\ m \in 1..n
        BY <1>0, <3>2
      <4>2. g[m + 1] = g[m] \o ls[m + 1]
        BY <2>2, <4>1
      <4>3. JoinedThrees(g[m], ls, m, S)
        BY <4>1
      <4> QED BY <4>2, <4>3, JoinThree
    <3> QED BY <3>1, <3>2
  <2>5. JoinedThrees(g[n], ls, n, S)
    <3> HIDE DEF G
    <3>1. G \in SUBSET Nat
      BY DEF G
    <3>2. G = Nat
      BY <2>3, <2>4, <3>1, NumberInduction
    <3>3. n \in G /\ n \in 1..n
      BY <1>0, <1>2, <3>2
    <3> QED BY <3>3 DEF G
  <2> QED BY <2>1, <2>5
<1> QED BY <1>1, <1>2

(* A table whose rows have their ids in order is left as it is. *)
LEMMA SortedByRunId ==
  ASSUME NEW S, NEW rows \in Seq(S), \A n \in 1..Len(rows) : rows[n].run_id = n - 1
  PROVE  ByRunId(rows) = rows
<1> DEFINE D == 1..Len(rows)
           Earlier(i, j) == rows[i].run_id < rows[j].run_id
                             \/ (rows[i].run_id = rows[j].run_id /\ i < j)
<1>1. Len(rows) \in Nat /\ DOMAIN rows = D /\ rows = [i \in D |-> rows[i]]
  BY LenProperties
<1>2. \A i, j \in D : Earlier(i, j) <=> i < j
  <2> TAKE i, j \in D
  <2>1. rows[i].run_id = i - 1 /\ rows[j].run_id = j - 1 /\ i \in Int /\ j \in Int
    BY <1>1
  <2> QED BY <2>1
<1> HIDE DEF Earlier
<1>3. \A j \in D : Cardinality({i \in D : Earlier(i, j)}) = j - 1
  <2> TAKE j \in D
  <2>1. {i \in D : Earlier(i, j)} = 1..j - 1
    BY <1>1, <1>2
  <2>2. 1 \in Int /\ j - 1 \in Int
    OBVIOUS
  <2>3. Cardinality(1..j - 1) = IF 1 > j - 1 THEN 0 ELSE j - 1 - 1 + 1
    BY <2>2, FS_Interval
  <2>4. (IF 1 > j - 1 THEN 0 ELSE j - 1 - 1 + 1) = j - 1
    OBVIOUS
  <2> QED BY <2>1, <2>3, <2>4
<1>4. \A r \in D : (CHOOSE j \in D : Cardinality({i \in D : Earlier(i, j)}) = r - 1) = r
  <2> TAKE r \in D
  <2>1. \A j \in D : Cardinality({i \in D : Earlier(i, j)}) = r - 1 <=> j = r
    <3> TAKE j \in D
    <3>1. Cardinality({i \in D : Earlier(i, j)}) = j - 1
      BY <1>3
    <3> QED BY <3>1
  <2> HIDE DEF D
  <2> QED BY <2>1
<1>5. ByRunId(rows) =
        [r \in D |-> rows[CHOOSE j \in D : Cardinality({i \in D : Earlier(i, j)}) = r - 1]]
  BY <1>1 DEF ByRunId, Earlier
<1> HIDE DEF D
<1>6. ByRunId(rows) = [r \in D |-> rows[r]]
  BY <1>4, <1>5
<1> QED BY <1>1, <1>6

-----------------------------------------------------------------------------
(* The inductive invariant. *)

(* Where the sweep is, and what it holds there. *)
PlaceInv ==
  /\ phase \in {"start", "shards", "files", "done", "failed"}
  /\ si \in 0..Len(Shards)
  /\ pos \in [Cells -> Nat] /\ \A c \in Cells : pos[c] <= Len(Shard)
  /\ cache \in [Cells -> Seq(Nat)] /\ DOMAIN metrics = Cells
  /\ wrote \in [Cells -> 0..3] /\ DOMAIN series = Ids /\ DOMAIN contracts = Ids

(* A cell was given the shards before this one, and of this one as many    *)
(* blocks as it is done with; its sinks were given the same.               *)
StreamInv ==
  /\ \A c \in Cells : cache[c] = Ahead(si) \o SubSeq(Shard, 1, pos[c])
  /\ \A c \in Cells : \A idx \in 1..3 : metrics[c][idx] = OfStratum(idx, cache[c])
  /\ phase \in {"files", "done"} => \A c \in Cells : cache[c] = Stream

(* The files of the runs that a cell has written out are of this sweep:    *)
(* no cell writes before the shards are over, and none writes the files of *)
(* another.                                                                *)
FilesInv ==
  /\ phase \in {"start", "shards"} => \A c \in Cells : wrote[c] = 0
  /\ \A c \in Cells : \A idx \in 1..3 :
       idx <= wrote[c] =>
         /\ series[RunIds(c)[idx]] = [sweep |-> sweep, blocks |-> metrics[c][idx]]
         /\ contracts[RunIds(c)[idx]] = [sweep |-> sweep, cell |-> c, idx |-> idx]

(* The table has the row of each run at the place of its id. *)
TableInv ==
  phase = "done" =>
    /\ \A c \in Cells : wrote[c] = 3
    /\ Len(runs) = 3 * NCells
    /\ \A c \in Cells : \A idx \in 1..3 : runs[3 * (c - 1) + idx] = RunSummary(c, idx)

IInv == PlaceInv /\ StreamInv /\ FilesInv /\ TableInv

-----------------------------------------------------------------------------
(* The shard in memory, with those before it. *)
LEMMA ShardInMemory ==
  ASSUME si \in 0..Len(Shards)
  PROVE  /\ Shard \in Seq(Nat) /\ Len(Shard) \in Nat
         /\ Ahead(si) \in Seq(Nat)
         /\ Ahead(si + 1) = Ahead(si) \o Shard /\ Ahead(si + 1) \in Seq(Nat)
<1>1. CASE si = 0
  <2>1. Shard = <<>> /\ Ahead(si) = <<>> /\ Ahead(si + 1) = <<>>
    <3>1. si + 1 = 1
      BY <1>1
    <3> QED BY <1>1, <3>1, AheadGrows DEF Shard
  <2>2. <<>> \in Seq(Nat) /\ Len(<<>>) \in Nat /\ <<>> \o <<>> = <<>>
    BY EmptySeq, ConcatEmptySeq
  <2> QED BY <2>1, <2>2
<1>2. CASE si # 0
  <2>1. Shard = Shards[si] /\ si \in 1..Len(Shards)
    BY <1>2 DEF Shard
  <2>2. /\ Shards[si] \in Seq(Nat) /\ Ahead(si) \in Seq(Nat)
        /\ Ahead(si + 1) = Ahead(si) \o Shards[si]
    BY <2>1, AheadGrows
  <2>3. Len(Shards[si]) \in Nat /\ Ahead(si) \o Shards[si] \in Seq(Nat)
    BY <2>2, ConcatProperties, LenProperties
  <2> QED BY <2>1, <2>2, <2>3
<1> QED BY <1>1, <1>2

(* When all cells are through it, they were given all of it.               *)
LEMMA ThroughShard ==
  ASSUME PlaceInv, StreamInv, AllThrough, NEW c \in Cells
  PROVE  cache[c] = Ahead(si + 1)
<1>1. pos[c] = Len(Shard)
  BY DEF AllThrough
<1>2. Shard \in Seq(Nat) /\ Ahead(si + 1) = Ahead(si) \o Shard
  BY ShardInMemory DEF PlaceInv
<1>3. SubSeq(Shard, 1, pos[c]) = Shard
  BY <1>1, <1>2, SubSeqFull
<1>4. cache[c] = Ahead(si) \o SubSeq(Shard, 1, pos[c])
  BY DEF StreamInv
<1> QED BY <1>2, <1>3, <1>4

(* Nothing of the simulation or the files changes in the other steps.      *)
LEMMA PhaseStep ==
  ASSUME IInv, UNCHANGED <<sweep, sim, wrote, files, runs>>,
         phase' \in {"start", "shards", "files", "done", "failed"},
         phase' \in {"files", "done"} => \A c \in Cells : cache[c] = Stream,
         phase' \in {"start", "shards"} => phase \in {"start", "shards"},
         phase' = "done" => phase = "done"
  PROVE  IInv'
<1>1. /\ UNCHANGED <<sweep, si, pos, cache, metrics, wrote, series, contracts, runs>>
      /\ UNCHANGED Shard
  BY DEF sim, files, Shard
<1>2. PlaceInv'
  BY <1>1 DEF IInv, PlaceInv
<1>3. StreamInv'
  BY <1>1 DEF IInv, StreamInv
<1>4. FilesInv'
  <2>1. phase' \in {"start", "shards"} => \A c \in Cells : wrote'[c] = 0
    BY <1>1 DEF IInv, FilesInv
  <2>2. ASSUME NEW c \in Cells, NEW idx \in 1..3, idx <= wrote'[c]
        PROVE  /\ series'[RunIds(c)[idx]] = [sweep |-> sweep', blocks |-> metrics'[c][idx]]
               /\ contracts'[RunIds(c)[idx]] = [sweep |-> sweep', cell |-> c, idx |-> idx]
    <3>1. idx <= wrote[c]
      BY <1>1, <2>2
    <3>2. /\ series[RunIds(c)[idx]] = [sweep |-> sweep, blocks |-> metrics[c][idx]]
          /\ contracts[RunIds(c)[idx]] = [sweep |-> sweep, cell |-> c, idx |-> idx]
      BY <3>1 DEF IInv, FilesInv
    <3> QED BY <1>1, <3>2
  <2> QED BY <2>1, <2>2 DEF FilesInv
<1>5. TableInv'
  <2>1. \A c \in Cells : \A idx \in 1..3 : UNCHANGED RunSummary(c, idx)
    BY <1>1 DEF RunSummary
  <2> QED BY <1>1, <2>1 DEF IInv, TableInv
<1> QED BY <1>2, <1>3, <1>4, <1>5 DEF IInv

(* A shard is loaded. *)
LEMMA LoadShardStep == ASSUME IInv, LoadShard PROVE IInv'
<1>1. /\ phase = "shards" /\ AllThrough /\ si < Len(Shards)
      /\ si' = si + 1 /\ pos' = [c \in Cells |-> 0]
      /\ UNCHANGED <<phase, sweep, cache, metrics, wrote, failed, files, runs>>
  BY DEF LoadShard, Between
<1>2. si' \in 0..Len(Shards)
  BY <1>1, AheadGrows DEF IInv, PlaceInv
<1>3. Shard' \in Seq(Nat) /\ Len(Shard') \in Nat
  <2>1. Shard' = Shards[si'] /\ si' \in 1..Len(Shards)
    BY <1>1, <1>2, AheadGrows DEF Shard, IInv, PlaceInv
  <2>2. Shards[si'] \in Seq(Nat)
    BY <2>1, AheadGrows
  <2> QED BY <2>1, <2>2, LenProperties
<1>4. PlaceInv'
  <2>1. \A c \in Cells : pos'[c] <= Len(Shard')
    BY <1>1, <1>3
  <2> QED BY <1>1, <1>2, <2>1 DEF IInv, PlaceInv, files
<1>5. ASSUME NEW c \in Cells PROVE cache'[c] = Ahead(si') \o SubSeq(Shard', 1, pos'[c])
  <2>1. cache[c] = Ahead(si + 1)
    BY <1>1, ThroughShard DEF IInv
  <2>2. Ahead(si + 1) \in Seq(Nat)
    BY ShardInMemory DEF IInv, PlaceInv
  <2>3. SubSeq(Shard', 1, pos'[c]) = <<>>
    <3>1. pos'[c] = 0
      BY <1>1
    <3> QED BY <3>1, SubSeqEmpty
  <2>4. Ahead(si + 1) \o <<>> = Ahead(si + 1)
    BY <2>2, ConcatEmptySeq
  <2> QED BY <1>1, <2>1, <2>3, <2>4
<1>6. StreamInv'
  BY <1>1, <1>5 DEF IInv, StreamInv
<1>7. FilesInv'
  BY <1>1 DEF IInv, FilesInv, files
<1>8. TableInv'
  BY <1>1 DEF TableInv
<1> QED BY <1>4, <1>6, <1>7, <1>8 DEF IInv

(* A cell is given a block. *)
LEMMA ProcessBlockStep == ASSUME IInv, NEW c \in Cells, ProcessBlock(c) PROVE IInv'
<1> DEFINE block == Shard[pos[c] + 1]
<1>1. /\ phase = "shards" /\ pos[c] < Len(Shard)
      /\ cache' = [cache EXCEPT ![c] = Append(@, block)]
      /\ metrics' = [metrics EXCEPT ![c] =
             [idx \in 1..3 |-> IF InStratum(StrataFile, Strata[idx], block)
                               THEN Append(@[idx], block) ELSE @[idx]]]
      /\ pos' = [pos EXCEPT ![c] = @ + 1]
      /\ UNCHANGED <<phase, sweep, si, wrote, failed, files, runs>>
  BY DEF ProcessBlock
<1>2. Shard \in Seq(Nat) /\ Len(Shard) \in Nat /\ Ahead(si) \in Seq(Nat) /\ Shard' = Shard
  <2>1. Shard' = Shard
    BY <1>1 DEF Shard
  <2> QED BY <2>1, ShardInMemory DEF IInv, PlaceInv
<1>3. /\ block \in Nat
      /\ Ahead(si) \o SubSeq(Shard, 1, pos[c] + 1)
           = Append(Ahead(si) \o SubSeq(Shard, 1, pos[c]), block)
  <2>1. pos[c] \in 0..Len(Shard)
    BY <1>1, <1>2 DEF IInv, PlaceInv
  <2> QED BY <1>1, <1>2, <2>1, PartOfShard
<1> HIDE DEF block
<1>4. /\ cache[c] \in Seq(Nat) /\ cache'[c] = Append(cache[c], block)
      /\ \A d \in Cells : d # c => cache'[d] = cache[d] /\ pos'[d] = pos[d] /\ metrics'[d] = metrics[d]
      /\ pos'[c] = pos[c] + 1
      /\ \A idx \in 1..3 : metrics'[c][idx] = IF InStratum(StrataFile, Strata[idx], block)
                                              THEN Append(metrics[c][idx], block)
                                              ELSE metrics[c][idx]
  BY <1>1 DEF IInv, PlaceInv
<1>5. PlaceInv'
  <2>1. cache' \in [Cells -> Seq(Nat)]
    <3>1. Append(cache[c], block) \in Seq(Nat)
      BY <1>3, <1>4, AppendProperties
    <3> QED BY <1>1, <3>1 DEF IInv, PlaceInv
  <2>2. pos' \in [Cells -> Nat]
    BY <1>1 DEF IInv, PlaceInv
  <2>3. \A d \in Cells : pos'[d] <= Len(Shard')
    <3> TAKE d \in Cells
    <3>1. pos[d] \in Nat /\ pos[d] <= Len(Shard)
      BY DEF IInv, PlaceInv
    <3> QED BY <1>1, <1>2, <1>4, <3>1
  <2>4. DOMAIN metrics' = Cells
    BY <1>1 DEF IInv, PlaceInv
  <2> QED BY <1>1, <2>1, <2>2, <2>3, <2>4 DEF IInv, PlaceInv, files
<1>6. \A d \in Cells : cache'[d] = Ahead(si') \o SubSeq(Shard', 1, pos'[d])
  <2> TAKE d \in Cells
  <2>1. cache[d] = Ahead(si) \o SubSeq(Shard, 1, pos[d])
    BY DEF IInv, StreamInv
  <2>2. CASE d = c
    BY <1>1, <1>2, <1>3, <1>4, <2>1, <2>2
  <2>3. CASE d # c
    BY <1>1, <1>2, <1>4, <2>1, <2>3
  <2> QED BY <2>2, <2>3
<1>7. \A d \in Cells : \A idx \in 1..3 : metrics'[d][idx] = OfStratum(idx, cache'[d])
  <2> TAKE d \in Cells
  <2> TAKE idx \in 1..3
  <2>1. metrics[d][idx] = OfStratum(idx, cache[d])
    BY DEF IInv, StreamInv
  <2>2. CASE d = c
    <3>1. OfStratum(idx, Append(cache[c], block)) =
            IF InStratum(StrataFile, Strata[idx], block) THEN Append(OfStratum(idx, cache[c]), block)
                                                         ELSE OfStratum(idx, cache[c])
      BY <1>3, <1>4, OfStratumGrows
    <3>2. metrics'[c][idx] = IF InStratum(StrataFile, Strata[idx], block)
                             THEN Append(metrics[c][idx], block) ELSE metrics[c][idx]
      BY <1>4
    <3>3. cache'[c] = Append(cache[c], block)
      BY <1>4
    <3> QED BY <2>1, <2>2, <3>1, <3>2, <3>3
  <2>3. CASE d # c
    BY <1>4, <2>1, <2>3
  <2> QED BY <2>2, <2>3
<1>8. StreamInv'
  BY <1>1, <1>6, <1>7 DEF StreamInv
<1>9. FilesInv'
  <2>1. \A d \in Cells : wrote'[d] = 0
    BY <1>1 DEF IInv, FilesInv
  <2>2. \A d \in Cells : \A idx \in 1..3 : ~(idx <= wrote'[d])
    BY <2>1
  <2> QED BY <2>1, <2>2 DEF FilesInv
<1>10. TableInv'
  BY <1>1 DEF TableInv
<1> QED BY <1>5, <1>8, <1>9, <1>10 DEF IInv

(* Only files of one run change, if any, and it is one that its cell had   *)
(* not written out.                                                        *)
LEMMA FilesKept ==
  ASSUME IInv, NEW c \in Cells, wrote[c] < 3,
         \A id \in Ids : id # RunIds(c)[wrote[c] + 1] =>
           series'[id] = series[id] /\ contracts'[id] = contracts[id],
         UNCHANGED <<sweep, metrics>>
  PROVE  \A d \in Cells : \A idx \in 1..3 :
           idx <= wrote[d] =>
             /\ series'[RunIds(d)[idx]] = [sweep |-> sweep', blocks |-> metrics'[d][idx]]
             /\ contracts'[RunIds(d)[idx]] = [sweep |-> sweep', cell |-> d, idx |-> idx]
<1> TAKE d \in Cells
<1> TAKE idx \in 1..3
<1> HAVE idx <= wrote[d]
<1>1. wrote[c] \in 0..3 /\ wrote[d] \in 0..3
  BY DEF IInv, PlaceInv
<1>2. wrote[c] + 1 \in 1..3
  BY <1>1
<1>3. RunIds(d)[idx] \in Ids
  BY IdsApart
<1>4. RunIds(d)[idx] # RunIds(c)[wrote[c] + 1]
  <2> SUFFICES ASSUME RunIds(d)[idx] = RunIds(c)[wrote[c] + 1] PROVE FALSE
    OBVIOUS
  <2>1. d = c /\ idx = wrote[c] + 1
    BY <1>2, IdsApart
  <2> QED BY <1>1, <2>1
<1>5. /\ series[RunIds(d)[idx]] = [sweep |-> sweep, blocks |-> metrics[d][idx]]
      /\ contracts[RunIds(d)[idx]] = [sweep |-> sweep, cell |-> d, idx |-> idx]
  BY DEF IInv, FilesInv
<1> QED BY <1>3, <1>4, <1>5

(* A cell writes the files of its next run. *)
LEMMA WriteFilesStep == ASSUME IInv, NEW c \in Cells, WriteFiles(c) PROVE IInv'
<1> DEFINE k == wrote[c] + 1
           id == RunIds(c)[k]
<1>1. /\ phase = "files" /\ wrote[c] < 3
      /\ series' = [series EXCEPT ![id] = [sweep |-> sweep, blocks |-> metrics[c][k]]]
      /\ contracts' = [contracts EXCEPT ![id] = [sweep |-> sweep, cell |-> c, idx |-> k]]
      /\ wrote' = [wrote EXCEPT ![c] = @ + 1]
      /\ UNCHANGED <<phase, sweep, sim, failed, runs>>
  BY DEF WriteFiles, Writing
<1>2. /\ DOMAIN series = Ids /\ DOMAIN contracts = Ids
      /\ wrote \in [Cells -> 0..3] /\ wrote[c] \in 0..3 /\ k \in 1..3
  BY <1>1 DEF IInv, PlaceInv
<1>3. id \in Ids
  BY <1>2, IdsApart
<1> HIDE DEF id
<1>4. /\ series'[id] = [sweep |-> sweep, blocks |-> metrics[c][k]]
      /\ contracts'[id] = [sweep |-> sweep, cell |-> c, idx |-> k]
      /\ \A x \in Ids : x # id => series'[x] = series[x] /\ contracts'[x] = contracts[x]
      /\ DOMAIN series' = Ids /\ DOMAIN contracts' = Ids
  BY <1>1, <1>2, <1>3
<1>5. UNCHANGED <<phase, sweep, si, pos, cache, metrics, runs>> /\ UNCHANGED Shard
  BY <1>1 DEF sim, Shard
<1>6. /\ wrote' \in [Cells -> 0..3] /\ wrote'[c] = k
      /\ \A d \in Cells : d # c => wrote'[d] = wrote[d]
  BY <1>1, <1>2
<1>7. PlaceInv'
  BY <1>4, <1>5, <1>6 DEF IInv, PlaceInv
<1>8. StreamInv'
  BY <1>5 DEF IInv, StreamInv
<1>9. FilesInv'
  <2>1. ASSUME NEW d \in Cells, NEW idx \in 1..3, idx <= wrote'[d]
        PROVE  /\ series'[RunIds(d)[idx]] = [sweep |-> sweep', blocks |-> metrics'[d][idx]]
               /\ contracts'[RunIds(d)[idx]] = [sweep |-> sweep', cell |-> d, idx |-> idx]
    <3>1. CASE d = c /\ idx = k
      BY <1>4, <1>5, <3>1 DEF id
    <3>2. CASE ~(d = c /\ idx = k)
      <4>1. idx <= wrote[d]
        BY <1>2, <1>6, <2>1, <3>2
      <4>2. \A x \in Ids : x # RunIds(c)[wrote[c] + 1] =>
              series'[x] = series[x] /\ contracts'[x] = contracts[x]
        BY <1>4 DEF id
      <4>3. UNCHANGED <<sweep, metrics>>
        BY <1>5
      <4> QED BY <1>1, <4>1, <4>2, <4>3, FilesKept
    <3> QED BY <3>1, <3>2
  <2>2. phase' \notin {"start", "shards"}
    BY <1>1, <1>5
  <2> QED BY <2>1, <2>2 DEF FilesInv
<1>10. TableInv'
  BY <1>1, <1>5 DEF TableInv
<1> QED BY <1>7, <1>8, <1>9, <1>10 DEF IInv

(* A file cannot be written. *)
LEMMA WriteFailsStep == ASSUME IInv, NEW c \in Cells, WriteFails(c) PROVE IInv'
<1> DEFINE id == RunIds(c)[wrote[c] + 1]
<1>1. /\ phase = "files" /\ wrote[c] < 3
      /\ \/ UNCHANGED series
         \/ \E x : series' = [series EXCEPT ![id] = x]
      /\ UNCHANGED <<phase, sweep, sim, wrote, contracts, runs>>
  BY DEF WriteFails, Writing
<1>2. DOMAIN series' = Ids /\ \A x \in Ids : x # id => series'[x] = series[x]
  BY <1>1 DEF IInv, PlaceInv
<1>3. UNCHANGED <<phase, sweep, si, pos, cache, metrics, wrote, contracts, runs>> /\ UNCHANGED Shard
  BY <1>1 DEF sim, Shard
<1>4. PlaceInv'
  BY <1>2, <1>3 DEF IInv, PlaceInv
<1>5. StreamInv'
  BY <1>3 DEF IInv, StreamInv
<1>6. FilesInv'
  <2>1. ASSUME NEW d \in Cells, NEW idx \in 1..3, idx <= wrote'[d]
        PROVE  /\ series'[RunIds(d)[idx]] = [sweep |-> sweep', blocks |-> metrics'[d][idx]]
               /\ contracts'[RunIds(d)[idx]] = [sweep |-> sweep', cell |-> d, idx |-> idx]
    <3>1. idx <= wrote[d] /\ UNCHANGED <<sweep, metrics>>
      BY <1>3, <2>1
    <3>2. \A x \in Ids : x # RunIds(c)[wrote[c] + 1] =>
            series'[x] = series[x] /\ contracts'[x] = contracts[x]
      BY <1>2, <1>3
    <3> QED BY <1>1, <3>1, <3>2, FilesKept
  <2>2. phase' \notin {"start", "shards"}
    BY <1>1, <1>3
  <2> QED BY <2>1, <2>2 DEF FilesInv
<1>7. TableInv'
  BY <1>1, <1>3 DEF TableInv
<1> QED BY <1>4, <1>5, <1>6, <1>7 DEF IInv

(* The table of the runs is written. *)
LEMMA WriteRunsStep == ASSUME IInv, WriteRuns PROVE IInv'
<1>1. /\ phase = "files" /\ \A c \in Cells : wrote[c] = 3
      /\ UNCHANGED <<sweep, sim, wrote, failed, files>>
  BY DEF WriteRuns
<1>2. CASE phase' = "failed" /\ UNCHANGED runs
  BY <1>1, <1>2, PhaseStep
<1>3. CASE /\ runs' = ByRunId(FlattenSeq([c \in Cells |-> [idx \in 1..3 |-> RunSummary(c, idx)]]))
           /\ phase' = "done"
  <2> DEFINE ls == [c \in Cells |-> [idx \in 1..3 |-> RunSummary(c, idx)]]
             S == {RunSummary(c, idx) : c \in Cells, idx \in 1..3}
             q == FlattenSeq(ls)
  <2>1. Threes(ls, NCells, S)
    <3>1. NCells \in Nat /\ Cells = 1..NCells
      BY CellCount DEF Cells
    <3>2. ASSUME NEW c \in Cells PROVE ls[c] \in Seq(S) /\ Len(ls[c]) = 3
      <4>1. ls[c] = [idx \in 1..3 |-> RunSummary(c, idx)]
        OBVIOUS
      <4>2. \A idx \in 1..3 : RunSummary(c, idx) \in S
        OBVIOUS
      <4> HIDE DEF S
      <4>3. ls[c] \in [1..3 -> S]
        BY <4>1, <4>2
      <4> DEFINE row == ls[c]
      <4> HIDE DEF ls, row
      <4>4. row \in [1..3 -> S]
        BY <4>3 DEF row
      <4>5. row \in Seq(S) /\ DOMAIN row = 1..3
        <5>1. 3 \in Nat
          OBVIOUS
        <5> QED BY <4>4, <5>1, SeqDef
      <4>6. Len(row) = 3
        BY <4>5, LenProperties
      <4> QED BY <4>5, <4>6 DEF row
    <3> HIDE DEF S
    <3>3. ls \in [1..NCells -> Seq(S)]
      BY <3>1, <3>2
    <3> HIDE DEF ls
    <3>4. ls \in Seq(Seq(S)) /\ Len(ls) = NCells
      BY <3>1, <3>3
    <3> QED BY <3>1, <3>2, <3>4 DEF Threes
  <2>2. JoinedThrees(q, ls, NCells, S)
    <3> HIDE DEF ls, S
    <3> QED BY <2>1, FlattenThrees
  <2>3. /\ q \in Seq(S) /\ Len(q) = 3 * NCells
        /\ \A c \in Cells : \A idx \in 1..3 : q[3 * (c - 1) + idx] = RunSummary(c, idx)
    BY <2>2 DEF JoinedThrees, Cells
  <2> HIDE DEF q, S, ls
  <2>4. \A n \in 1..Len(q) : q[n].run_id = n - 1
    <3> TAKE n \in 1..Len(q)
    <3>1. NCells \in Nat /\ n \in 1..3 * NCells
      BY <2>3, CellCount
    <3>2. n - 1 \in Nat /\ NCells * 3 = 3 * NCells /\ n - 1 < NCells * 3 /\ 3 \in Nat \ {0}
      BY <3>1
    <3> DEFINE c == ((n - 1) \div 3) + 1
               idx == ((n - 1) % 3) + 1
    <3>3. /\ (n - 1) \div 3 \in 0..NCells - 1 /\ (n - 1) % 3 \in 0..3 - 1
          /\ n - 1 = ((n - 1) \div 3) * 3 + ((n - 1) % 3)
      BY <3>1, <3>2, Parts
    <3>4. c \in Cells /\ idx \in 1..3 /\ 3 * (c - 1) + idx = n
      BY <3>1, <3>3 DEF Cells
    <3> HIDE DEF c, idx
    <3>5. q[n] = RunSummary(c, idx)
      BY <2>3, <3>4
    <3>6. RunIds(c)[idx] = 3 * (c - 1) + idx - 1
      BY <3>4, IdsApart
    <3>7. 3 * (c - 1) + idx - 1 = n - 1
      BY <3>1, <3>4 DEF Cells
    <3> QED BY <3>5, <3>6, <3>7 DEF RunSummary
  <2>5. runs' = q
    <3>1. ByRunId(q) = q
      BY <2>3, <2>4, SortedByRunId
    <3> QED BY <1>3, <3>1 DEF q, ls
  <2>6. UNCHANGED <<sweep, si, pos, cache, metrics, wrote, series, contracts>> /\ UNCHANGED Shard
    BY <1>1 DEF sim, files, Shard
  <2>7. PlaceInv'
    BY <1>3, <2>6 DEF IInv, PlaceInv
  <2>8. StreamInv'
    BY <1>1, <2>6 DEF IInv, StreamInv
  <2>9. FilesInv'
    BY <1>3, <2>6 DEF IInv, FilesInv
  <2>10. TableInv'
    <3>1. \A c \in Cells : \A idx \in 1..3 : RunSummary(c, idx)' = RunSummary(c, idx)
      BY <2>6 DEF RunSummary
    <3> QED BY <1>1, <2>3, <2>5, <2>6, <3>1 DEF TableInv
  <2> QED BY <2>7, <2>8, <2>9, <2>10 DEF IInv
<1> QED BY <1>2, <1>3 DEF WriteRuns

(* What a sweep begins with is in order, whatever files it finds.          *)
Begun ==
  /\ phase = "start" /\ si = Fresh.si /\ pos = Fresh.pos /\ cache = Fresh.cache
  /\ metrics = Fresh.metrics /\ wrote = Fresh.wrote
  /\ DOMAIN series = Ids /\ DOMAIN contracts = Ids

(* The invariant holds of that. *)
LEMMA FreshStart == Begun => IInv
<1> SUFFICES ASSUME Begun PROVE IInv
  OBVIOUS
<1> USE DEF Begun
<1>1. /\ si = 0 /\ pos = [c \in Cells |-> 0] /\ cache = [c \in Cells |-> <<>>]
      /\ metrics = [c \in Cells |-> [idx \in 1..3 |-> <<>>]] /\ wrote = [c \in Cells |-> 0]
  BY DEF Fresh
<1>2. Shard = <<>> /\ Len(<<>>) = 0 /\ <<>> \in Seq(Nat)
  BY <1>1 DEF Shard
<1>3. 0 \in 0..Len(Shards) /\ Ahead(0) = <<>>
  BY AheadGrows
<1>4. PlaceInv
  BY <1>1, <1>2, <1>3 DEF PlaceInv
<1>5. StreamInv
  <2>1. <<>> \o SubSeq(<<>>, 1, 0) = <<>>
    BY <1>2, SubSeqEmpty, ConcatEmptySeq
  <2>2. \A c \in Cells : cache[c] = Ahead(si) \o SubSeq(Shard, 1, pos[c])
    BY <1>1, <1>2, <1>3, <2>1
  <2>3. \A c \in Cells : \A idx \in 1..3 : metrics[c][idx] = OfStratum(idx, cache[c])
    BY <1>1, OfStratumGrows
  <2> QED BY <2>2, <2>3 DEF StreamInv
<1>6. FilesInv
  <2>1. \A c \in Cells : wrote[c] = 0 /\ \A idx \in 1..3 : ~(idx <= wrote[c])
    BY <1>1
  <2> QED BY <2>1 DEF FilesInv
<1>7. TableInv
  BY DEF TableInv
<1> QED BY <1>4, <1>5, <1>6, <1>7 DEF IInv

(* The program is run again. *)
LEMMA AgainStep == ASSUME IInv, Again PROVE IInv'
<1>1. /\ phase' = "start" /\ si' = Fresh.si /\ pos' = Fresh.pos /\ cache' = Fresh.cache
      /\ metrics' = Fresh.metrics /\ wrote' = Fresh.wrote
      /\ DOMAIN series' = Ids /\ DOMAIN contracts' = Ids
  BY DEF Again, files, IInv, PlaceInv
<1>2. Begun'
  BY <1>1 DEF Begun, Fresh
<1>3. Begun' => IInv'
  BY FreshStart, PTL
<1> QED BY <1>2, <1>3

(* The invariant of the sweep, over any number of sweeps into one          *)
(* directory, some of which fail.                                          *)
THEOREM SweepInvariant == Spec => []IInv
<1>1. Init => IInv
  BY FreshStart DEF Init, Begun
<1>2. IInv /\ [Next]_vars => IInv'
  <2> SUFFICES ASSUME IInv, [Next]_vars PROVE IInv'
    OBVIOUS
  <2>1. CASE Load
    <3>1. phase = "start" /\ phase' \in {"shards", "failed"} /\ UNCHANGED <<sweep, sim, wrote, files, runs>>
      BY <2>1 DEF Load
    <3> QED BY <3>1, PhaseStep
  <2>2. CASE LoadShardFails \/ CollectFails
    <3>1. phase' = "failed" /\ UNCHANGED <<sweep, sim, wrote, files, runs>>
      BY <2>2 DEF LoadShardFails, CollectFails
    <3> QED BY <3>1, PhaseStep
  <2>3. CASE EndShards
    <3>1. /\ AllThrough /\ si = Len(Shards) /\ phase' = "files"
          /\ UNCHANGED <<sweep, sim, wrote, files, runs>>
      BY <2>3 DEF EndShards, Between
    <3>2. \A c \in Cells : cache[c] = Stream
      BY <3>1, ThroughShard, AheadGrows DEF IInv
    <3> QED BY <3>1, <3>2, PhaseStep
  <2>4. CASE UNCHANGED vars
    <3>1. UNCHANGED <<phase, sweep, sim, wrote, files, runs>>
      BY <2>4 DEF vars
    <3> QED BY <3>1, PhaseStep DEF IInv, PlaceInv, StreamInv
  <2> QED BY <2>1, <2>2, <2>3, <2>4, LoadShardStep, ProcessBlockStep, WriteFilesStep,
             WriteFailsStep, WriteRunsStep, AgainStep DEF Next
<1> QED BY <1>1, <1>2, PTL DEF Spec

(* CellsFollowTheStream, for any shards, cells and threads (sweep.rs       *)
(* 112-133).                                                               *)
THEOREM CellsAlwaysFollow == Spec => []CellsFollowTheStream
<1>1. IInv => CellsFollowTheStream
  <2> SUFFICES ASSUME IInv, NEW c \in Cells PROVE IsPrefix(cache[c], Stream)
    BY DEF IInv, StreamInv, CellsFollowTheStream
  <2> DEFINE n == pos[c]
             t == SubSeq(Shard, 1, n)
  <2>1. /\ cache[c] = Ahead(si) \o t /\ cache[c] \in Seq(Nat)
        /\ si \in 0..Len(Shards) /\ n \in Nat /\ n <= Len(Shard)
    BY DEF IInv, PlaceInv, StreamInv
  <2>2. /\ Shard \in Seq(Nat) /\ Len(Shard) \in Nat /\ Ahead(si) \in Seq(Nat)
        /\ Ahead(si + 1) = Ahead(si) \o Shard
    BY <2>1, ShardInMemory
  <2>3. t \in Seq(Nat) /\ \E rest \in Seq(Nat) : Shard = t \o rest
    <3>1. n \in 0..Len(Shard)
      BY <2>1, <2>2
    <3> HIDE DEF n
    <3>2. SubSeq(Shard, 1, n) \in Seq(Nat)
      BY <2>2, <3>1, PartOfShard
    <3>3. \E rest \in Seq(Nat) : Shard = SubSeq(Shard, 1, n) \o rest
      BY <2>2, <3>1, RestOfShard
    <3> QED BY <3>2, <3>3
  <2> HIDE DEF n, t
  <2>4. PICK here \in Seq(Nat) : Shard = t \o here
    BY <2>3
  <2>5. PICK rest \in Seq(Nat) : Stream = Ahead(si + 1) \o rest
    <3>1. si + 1 \in 1..Len(Shards) + 1
      BY <2>1, AheadGrows
    <3> QED BY <3>1, AheadOfStream
  <2>6. Stream = cache[c] \o (here \o rest)
    <3>1. Ahead(si + 1) = cache[c] \o here
      <4>1. (Ahead(si) \o t) \o here = Ahead(si) \o (t \o here)
        BY <2>2, <2>3, Regroup
      <4> QED BY <2>1, <2>2, <2>4, <4>1
    <3>2. (cache[c] \o here) \o rest = cache[c] \o (here \o rest)
      BY <2>1, Regroup
    <3> QED BY <2>5, <3>1, <3>2
  <2>7. here \o rest \in Seq(Nat)
    BY ConcatProperties
  <2> QED BY <2>1, <2>6, <2>7, PrefixOfConcat
<1> QED BY <1>1, SweepInvariant, PTL

(* RunsAreBacked, for any grid, whatever earlier sweeps left in the        *)
(* directory (sweep.rs 144-184, resultio.py 67-91).                        *)
THEOREM RunsAlwaysBacked == Spec => []RunsAreBacked
<1>1. IInv => RunsAreBacked
  <2> SUFFICES ASSUME IInv, phase = "done" PROVE RunsAreBacked
    BY DEF RunsAreBacked
  <2>1. Len(runs) = 3 * NCells
    BY DEF IInv, TableInv
  <2>2. ASSUME NEW c \in Cells, NEW idx \in 1..3
        PROVE  LET spec == BuildGrid[c]
                   id == RunIdFor(spec.policy, spec.window, spec.capacity_pct, Strata[idx])
                   row == runs[id + 1]
               IN /\ row.run_id = id /\ row.spec = spec /\ row.stratum = Strata[idx]
                  /\ series[id] = [sweep |-> sweep, blocks |-> OfStratum(idx, Stream)]
                  /\ contracts[id] = [sweep |-> sweep, cell |-> c, idx |-> idx]
                  /\ row.blocks_counted = Len(series[id].blocks)
    <3> DEFINE spec == BuildGrid[c]
               id == RunIdFor(spec.policy, spec.window, spec.capacity_pct, Strata[idx])
               row == runs[id + 1]
    <3>1. id = RunIds(c)[idx] /\ id + 1 = 3 * (c - 1) + idx
      <4>1. id = RunIds(c)[idx]
        BY IdIsFound
      <4>2. RunIds(c)[idx] = 3 * (c - 1) + idx - 1
        BY IdsApart
      <4> HIDE DEF id
      <4>3. c \in Nat
        BY CellCount DEF Cells
      <4> QED BY <4>1, <4>2, <4>3
    <3> HIDE DEF id, spec
    <3>2. row = RunSummary(c, idx)
      <4>1. runs[3 * (c - 1) + idx] = RunSummary(c, idx)
        BY DEF IInv, TableInv
      <4> QED BY <3>1, <4>1
    <3>3. /\ row.run_id = id /\ row.spec = spec /\ row.stratum = Strata[idx]
          /\ row.blocks_counted = Len(metrics[c][idx])
      BY <3>1, <3>2 DEF RunSummary, spec
    <3>4. metrics[c][idx] = OfStratum(idx, Stream)
      <4>1. metrics[c][idx] = OfStratum(idx, cache[c])
        BY DEF IInv, StreamInv
      <4>2. cache[c] = Stream
        BY DEF IInv, StreamInv
      <4> QED BY <4>1, <4>2
    <3>5. /\ series[id] = [sweep |-> sweep, blocks |-> metrics[c][idx]]
          /\ contracts[id] = [sweep |-> sweep, cell |-> c, idx |-> idx]
      <4>1. idx <= wrote[c]
        BY DEF IInv, TableInv
      <4> QED BY <3>1, <4>1 DEF IInv, FilesInv
    <3>6. series[id].blocks = metrics[c][idx]
      BY <3>5
    <3> HIDE DEF row
    <3>7. /\ row.run_id = id /\ row.spec = spec /\ row.stratum = Strata[idx]
          /\ series[id] = [sweep |-> sweep, blocks |-> OfStratum(idx, Stream)]
          /\ contracts[id] = [sweep |-> sweep, cell |-> c, idx |-> idx]
          /\ row.blocks_counted = Len(series[id].blocks)
      BY <3>3, <3>4, <3>5, <3>6
    <3> QED BY <3>7 DEF row, id, spec
  <2> QED BY <2>1, <2>2 DEF RunsAreBacked
<1> QED BY <1>1, SweepInvariant, PTL

-----------------------------------------------------------------------------
(* The helpers of the record: buckets, sums, occurrences and maxima. *)

(* Halves of the numbers from 2 on are below them. *)
LEMMA HalfBelow ==
  ASSUME NEW a \in Nat, ~(a < 2)
  PROVE  a \div 2 \in Nat /\ a \div 2 < a /\ a \in Nat \ {0}
OBVIOUS

(* The function FloorLog2 defines, up to n. *)
Halvings(g, n) ==
  \A a \in 0..n : g[a] = IF a < 2 THEN 0 ELSE 1 + g[a \div 2]

(* Two of them agree as far as both go. *)
LEMMA HalvingsAgree ==
  ASSUME NEW n \in Nat, NEW k \in Nat, NEW g, NEW h, Halvings(g, n), Halvings(h, k),
         NEW a \in Nat, a <= n, a <= k
  PROVE  g[a] = h[a]
<1> DEFINE Apart == {x \in Nat : x <= n /\ x <= k /\ g[x] # h[x]}
<1> SUFFICES ASSUME Apart # {} PROVE FALSE
  OBVIOUS
<1>1. PICK x \in Apart : \A y \in Apart : x <= y
  <2>1. Apart \in SUBSET Nat
    OBVIOUS
  <2> HIDE DEF Apart
  <2> QED BY <2>1, LeastNumber
<1>2. x \in Nat /\ x \in 0..n /\ x \in 0..k /\ g[x] # h[x]
  OBVIOUS
<1>3. g[x] = IF x < 2 THEN 0 ELSE 1 + g[x \div 2]
  BY <1>2 DEF Halvings
<1>4. h[x] = IF x < 2 THEN 0 ELSE 1 + h[x \div 2]
  BY <1>2 DEF Halvings
<1>5. ~(x < 2)
  BY <1>2, <1>3, <1>4
<1>6. x \div 2 \in Nat /\ x \div 2 < x
  BY <1>2, <1>5, HalfBelow
<1>7. x \div 2 \notin Apart
  <2>1. ~(x <= x \div 2)
    BY <1>2, <1>6
  <2> HIDE DEF Apart
  <2> QED BY <1>1, <2>1
<1>8. x \div 2 <= n /\ x \div 2 <= k
  BY <1>2, <1>6
<1>9. g[x \div 2] = h[x \div 2]
  BY <1>6, <1>7, <1>8
<1> QED BY <1>2, <1>3, <1>4, <1>5, <1>9

(* There is one up to each number. *)
LEMMA HalvingsReach ==
  ASSUME NEW n \in Nat
  PROVE  \E g : Halvings(g, n)
<1> DEFINE G == {k \in Nat : \E g : Halvings(g, k)}
<1>1. 0 \in G
  <2>1. Halvings([a \in Nat |-> 0], 0)
    BY DEF Halvings
  <2> QED BY <2>1
<1>2. ASSUME NEW k \in G PROVE k + 1 \in G
  <2>1. PICK g : Halvings(g, k)
    OBVIOUS
  <2> DEFINE h == [a \in Nat |-> IF a <= k THEN g[a] ELSE IF a < 2 THEN 0 ELSE 1 + g[a \div 2]]
  <2>2. ASSUME NEW a \in 0..k + 1 PROVE h[a] = IF a < 2 THEN 0 ELSE 1 + h[a \div 2]
    <3>0. a \in Nat /\ k \in Nat /\ a <= k + 1
      OBVIOUS
    <3>1. h[a] = IF a < 2 THEN 0 ELSE 1 + g[a \div 2]
      <4>1. CASE a <= k
        <5>1. a \in 0..k
          BY <3>0, <4>1
        <5>2. g[a] = IF a < 2 THEN 0 ELSE 1 + g[a \div 2]
          BY <2>1, <5>1 DEF Halvings
        <5> QED BY <3>0, <4>1, <5>2
      <4>2. CASE ~(a <= k)
        BY <3>0, <4>2
      <4> QED BY <4>1, <4>2
    <3>2. ASSUME ~(a < 2) PROVE h[a \div 2] = g[a \div 2]
      <4>1. a \div 2 \in Nat /\ a \div 2 < a
        BY <3>0, <3>2, HalfBelow
      <4>2. a \div 2 <= k
        BY <3>0, <4>1
      <4> QED BY <4>1, <4>2
    <3> HIDE DEF h
    <3> QED BY <3>1, <3>2
  <2> HIDE DEF h
  <2>3. Halvings(h, k + 1)
    BY <2>2 DEF Halvings
  <2> QED BY <2>3
<1>3. G = Nat
  <2> HIDE DEF G
  <2>1. G \in SUBSET Nat
    BY DEF G
  <2> QED BY <1>1, <1>2, <2>1, NumberInduction
<1> QED BY <1>3

(* FloorLog2 is the function its definition describes. *)
LEMMA FloorLog2Unfolds ==
  FloorLog2 = [a \in Nat |-> IF a < 2 THEN 0 ELSE 1 + FloorLog2[a \div 2]]
<1> DEFINE Upto(n) == CHOOSE g : Halvings(g, n)
           f == [a \in Nat |-> Upto(a)[a]]
<1>1. ASSUME NEW n \in Nat PROVE Halvings(Upto(n), n)
  <2>1. \E g : Halvings(g, n)
    BY HalvingsReach
  <2> QED BY <2>1
<1> HIDE DEF Upto
<1>2. ASSUME NEW a \in Nat PROVE f[a] = IF a < 2 THEN 0 ELSE 1 + f[a \div 2]
  <2>1. a \in 0..a
    OBVIOUS
  <2>2. Upto(a)[a] = IF a < 2 THEN 0 ELSE 1 + Upto(a)[a \div 2]
    BY <1>1, <2>1 DEF Halvings
  <2>3. ASSUME ~(a < 2) PROVE f[a \div 2] = Upto(a)[a \div 2]
    <3> DEFINE half == a \div 2
    <3>1. half \in Nat /\ half <= a /\ half <= half
      BY <2>3, HalfBelow
    <3> HIDE DEF half
    <3>2. Halvings(Upto(half), half) /\ Halvings(Upto(a), a)
      BY <1>1, <3>1
    <3>3. Upto(half)[half] = Upto(a)[half]
      BY <3>1, <3>2, HalvingsAgree
    <3>4. f[half] = Upto(half)[half]
      BY <3>1
    <3>5. f[half] = Upto(a)[half]
      BY <3>3, <3>4
    <3> QED BY <3>5 DEF half
  <2> QED BY <2>2, <2>3
<1> HIDE DEF f
<1>3. DOMAIN f = Nat /\ f = [a \in DOMAIN f |-> f[a]]
  BY DEF f
<1>4. f = [a \in Nat |-> IF a < 2 THEN 0 ELSE 1 + f[a \div 2]]
  BY <1>2, <1>3
<1>5. \E g : g = [a \in Nat |-> IF a < 2 THEN 0 ELSE 1 + g[a \div 2]]
  BY <1>4
<1> QED BY <1>5 DEF FloorLog2

(* A logarithm is a number, ... *)
LEMMA FloorLog2Typed == \A a \in Nat : FloorLog2[a] \in Nat
<1> DEFINE Odd == {a \in Nat : FloorLog2[a] \notin Nat}
<1> SUFFICES ASSUME Odd # {} PROVE FALSE
  OBVIOUS
<1>1. PICK x \in Odd : \A y \in Odd : x <= y
  <2>1. Odd \in SUBSET Nat
    OBVIOUS
  <2> HIDE DEF Odd
  <2> QED BY <2>1, LeastNumber
<1>2. x \in Nat /\ FloorLog2[x] \notin Nat
  OBVIOUS
<1>3. FloorLog2[x] = IF x < 2 THEN 0 ELSE 1 + FloorLog2[x \div 2]
  BY <1>2, FloorLog2Unfolds
<1>4. ~(x < 2)
  BY <1>2, <1>3
<1>5. x \div 2 \in Nat /\ ~(x <= x \div 2)
  BY <1>2, <1>4
<1>6. x \div 2 \notin Odd
  <2> HIDE DEF Odd
  <2> QED BY <1>1, <1>5
<1> QED BY <1>2, <1>3, <1>4, <1>5, <1>6

(* ... at least n + 1 where that of the half is at least n. *)
LEMMA LogBorder ==
  ASSUME NEW n \in Nat, NEW p \in Nat \ {0},
         \A a \in Nat : n <= FloorLog2[a] <=> p <= a
  PROVE  \A a \in Nat : n + 1 <= FloorLog2[a] <=> 2 * p <= a
<1> TAKE a \in Nat
<1>1. FloorLog2[a] = IF a < 2 THEN 0 ELSE 1 + FloorLog2[a \div 2]
  BY FloorLog2Unfolds
<1>2. CASE a < 2
  BY <1>1, <1>2
<1>3. CASE ~(a < 2)
  <2>1. a \div 2 \in Nat /\ FloorLog2[a \div 2] \in Nat
    BY <1>3, FloorLog2Typed
  <2>2. n <= FloorLog2[a \div 2] <=> p <= a \div 2
    BY <2>1
  <2>3. p <= a \div 2 <=> 2 * p <= a
    OBVIOUS
  <2>4. n + 1 <= 1 + FloorLog2[a \div 2] <=> n <= FloorLog2[a \div 2]
    BY <2>1
  <2> QED BY <1>1, <1>3, <2>2, <2>3, <2>4
<1> QED BY <1>2, <1>3
(* Where the logarithm reaches each of the numbers a bucket tells apart.   *)
LEMMA LogBorders ==
  ASSUME NEW a \in Nat
  PROVE  /\ 3 <= FloorLog2[a] <=> 8 <= a
         /\ 4 <= FloorLog2[a] <=> 16 <= a
         /\ 5 <= FloorLog2[a] <=> 32 <= a
         /\ 6 <= FloorLog2[a] <=> 64 <= a
         /\ 7 <= FloorLog2[a] <=> 128 <= a
         /\ 8 <= FloorLog2[a] <=> 256 <= a
<1> DEFINE Border(n, p) == \A x \in Nat : n <= FloorLog2[x] <=> p <= x
<1>1. Border(1, 2)
  <2> SUFFICES ASSUME NEW x \in Nat PROVE 1 <= FloorLog2[x] <=> 2 <= x
    OBVIOUS
  <2>1. FloorLog2[x] = IF x < 2 THEN 0 ELSE 1 + FloorLog2[x \div 2]
    BY FloorLog2Unfolds
  <2>2. ~(x < 2) => FloorLog2[x \div 2] \in Nat
    BY HalfBelow, FloorLog2Typed
  <2> QED BY <2>1, <2>2
<1>2. ASSUME NEW n \in Nat, NEW p \in Nat \ {0}, Border(n, p) PROVE Border(n + 1, 2 * p)
  BY <1>2, LogBorder
<1> HIDE DEF Border
<1>3. Border(1 + 1, 2 * 2)
  BY <1>1, <1>2
<1>4. Border(2 + 1, 2 * 4)
  BY <1>2, <1>3
<1>5. Border(3 + 1, 2 * 8)
  BY <1>2, <1>4
<1>6. Border(4 + 1, 2 * 16)
  BY <1>2, <1>5
<1>7. Border(5 + 1, 2 * 32)
  BY <1>2, <1>6
<1>8. Border(6 + 1, 2 * 64)
  BY <1>2, <1>7
<1>9. Border(7 + 1, 2 * 128)
  BY <1>2, <1>8
<1> QED BY <1>4, <1>5, <1>6, <1>7, <1>8, <1>9 DEF Border

(* The ranges of the buckets, written out. *)
LEMMA RangesOfBuckets ==
  ASSUME NEW b \in 0..SURVIVAL_BUCKETS - 1, NEW age \in Nat
  PROVE  age \in AgesOf(b) <=>
           \/ b < 8 /\ age = b
           \/ b = 8 /\ 8 <= age /\ age < 16
           \/ b = 9 /\ 16 <= age /\ age < 32
           \/ b = 10 /\ 32 <= age /\ age < 64
           \/ b = 11 /\ 64 <= age /\ age < 128
           \/ b = 12 /\ 128 <= age /\ age < 256
           \/ b = 13 /\ 256 <= age
<1>1. b \in 0..7 \/ b = 8 \/ b = 9 \/ b = 10 \/ b = 11 \/ b = 12 \/ b = 13
  BY DEF SURVIVAL_BUCKETS
<1>2. CASE b \in 0..7
  BY <1>2 DEF AgesOf
<1>3. CASE b = 8
  <2>1. AgesOf(8) = 8..15
    BY DEF AgesOf, SURVIVAL_BUCKETS
  <2> QED BY <1>3, <2>1
<1>4. CASE b = 9
  <2>1. AgesOf(9) = 16..31
    BY DEF AgesOf, SURVIVAL_BUCKETS
  <2> QED BY <1>4, <2>1
<1>5. CASE b = 10
  <2>1. AgesOf(10) = 32..63
    BY DEF AgesOf, SURVIVAL_BUCKETS
  <2> QED BY <1>5, <2>1
<1>6. CASE b = 11
  <2>1. AgesOf(11) = 64..127
    BY DEF AgesOf, SURVIVAL_BUCKETS
  <2> QED BY <1>6, <2>1
<1>7. CASE b = 12
  <2>1. AgesOf(12) = 128..255
    BY DEF AgesOf, SURVIVAL_BUCKETS
  <2> QED BY <1>7, <2>1
<1>8. CASE b = 13
  <2>1. AgesOf(13) = {x \in Nat : 256 <= x}
    BY DEF AgesOf, SURVIVAL_BUCKETS
  <2> QED BY <1>8, <2>1
<1> QED BY <1>1, <1>2, <1>3, <1>4, <1>5, <1>6, <1>7, <1>8

(* An age is put into the one bucket whose range it is in. *)
LEMMA BucketOfRange ==
  ASSUME NEW age \in Nat
  PROVE  /\ BucketOf(age) \in 0..SURVIVAL_BUCKETS - 1
         /\ \A b \in 0..SURVIVAL_BUCKETS - 1 : age \in AgesOf(b) <=> b = BucketOf(age)
<1> DEFINE log == FloorLog2[age]
<1>1. log \in Nat
  BY FloorLog2Typed
<1>2. /\ 3 <= log <=> 8 <= age
      /\ 4 <= log <=> 16 <= age
      /\ 5 <= log <=> 32 <= age
      /\ 6 <= log <=> 64 <= age
      /\ 7 <= log <=> 128 <= age
      /\ 8 <= log <=> 256 <= age
  BY LogBorders
<1>3. BucketOf(age) = IF age < 8 THEN age
                      ELSE IF 5 + log < SURVIVAL_BUCKETS THEN 5 + log ELSE SURVIVAL_BUCKETS - 1
  BY DEF BucketOf
<1> HIDE DEF log
<1>4. BucketOf(age) \in 0..SURVIVAL_BUCKETS - 1
  BY <1>1, <1>2, <1>3 DEF SURVIVAL_BUCKETS
<1>5. ASSUME NEW b \in 0..SURVIVAL_BUCKETS - 1 PROVE age \in AgesOf(b) <=> b = BucketOf(age)
  <2>1. b \in 0..13
    BY DEF SURVIVAL_BUCKETS
  <2>2. BucketOf(age) = IF age < 8 THEN age ELSE IF log < 9 THEN 5 + log ELSE 13
    BY <1>1, <1>3 DEF SURVIVAL_BUCKETS
  <2> QED BY <1>1, <1>2, <2>1, <2>2, RangesOfBuckets
<1> QED BY <1>4, <1>5

-----------------------------------------------------------------------------
(* The sum of a column. *)

(* The columns of a list are numbers. *)
ColumnTyped(s, column) == \A i \in DOMAIN s : s[i][column] \in Nat

(* One more line adds its entry to the sum of a column. *)
LEMMA SumOverLonger ==
  ASSUME NEW T, NEW s \in Seq(T), NEW e \in T, NEW column,
         ColumnTyped(s, column), e[column] \in Nat
  PROVE  /\ SumOver(Append(s, e), column) = SumOver(s, column) + e[column]
         /\ ColumnTyped(Append(s, e), column)
<1> DEFINE n == Len(s)
           t == Append(s, e)
           f == [i \in DOMAIN t |-> t[i][column]]
           h == [i \in DOMAIN s |-> s[i][column]]
<1>1. n \in Nat /\ DOMAIN t = 1..n + 1 /\ DOMAIN s = 1..n /\ t[n + 1] = e
  OBVIOUS
<1>2. \A i \in 1..n : t[i] = s[i]
  OBVIOUS
<1>3. \A i \in 1..n : s[i][column] \in Nat
  BY <1>1 DEF ColumnTyped
<1> HIDE DEF n, t
<1>4. ASSUME NEW i \in 1..n + 1 PROVE t[i][column] \in Nat
  <2>1. i \in 1..n \/ i = n + 1
    BY <1>1
  <2> QED BY <1>1, <1>2, <1>3, <2>1
<1>5. f \in [1..n + 1 -> Nat] /\ h \in [1..n -> Nat]
  BY <1>1, <1>3, <1>4
<1>6. n + 1 \in 1..n + 1 /\ \A i \in 1..n : i \in 1..n + 1
  BY <1>1
<1>7. f[n + 1] = e[column] /\ \A i \in 1..n : h[i] = f[i]
  BY <1>1, <1>2, <1>6
<1>8. SumOver(t, column) = SumFunction(f) /\ SumOver(s, column) = SumFunction(h)
  BY DEF SumOver
<1> HIDE DEF f, h
<1>9. SumFunction(f) = SumFunction(h) + f[n + 1]
  BY <1>1, <1>5, <1>7, SumOfAppended
<1>10. ColumnTyped(t, column)
  BY <1>1, <1>4 DEF ColumnTyped
<1> QED BY <1>7, <1>8, <1>9, <1>10 DEF t

(* A sum over a column is a number, 0 over no entries. *)
LEMMA SumOverTyped ==
  ASSUME NEW T, NEW s \in Seq(T), NEW column, ColumnTyped(s, column)
  PROVE  SumOver(s, column) \in Nat
<1> DEFINE h == [i \in DOMAIN s |-> s[i][column]]
<1>1. IsFiniteSet(DOMAIN s)
  <2>1. DOMAIN s = 1..Len(s) /\ 1 \in Int /\ Len(s) \in Int
    OBVIOUS
  <2> QED BY <2>1, FS_Interval
<1>2. h \in [DOMAIN s -> Nat]
  BY DEF ColumnTyped
<1> HIDE DEF h
<1>3. SumFunction(h) \in Nat
  BY <1>1, <1>2, SumIsNatural
<1> QED BY <1>3 DEF SumOver, h

(* No lines sum to nothing. *)
LEMMA SumOverNone == ASSUME NEW column PROVE SumOver(<<>>, column) = 0
<1>1. [i \in DOMAIN <<>> |-> <<>>[i][column]] = [x \in {} |-> 0]
  OBVIOUS
<1>2. SumFunction([x \in {} |-> 0]) = 0
  BY SumOfNone
<1> QED BY <1>1, <1>2 DEF SumOver

-----------------------------------------------------------------------------
(* How often a list has a member of X. *)
LEMMA OccurrencesAppend ==
  ASSUME NEW T, NEW s \in Seq(T), NEW e \in T, NEW X
  PROVE  /\ Occurrences(s, X) \in Nat
         /\ Occurrences(Append(s, e), X) = Occurrences(s, X) + (IF e \in X THEN 1 ELSE 0)
<1> DEFINE n == Len(s)
           t == Append(s, e)
           P == {i \in DOMAIN s : s[i] \in X}
           Q == {i \in DOMAIN t : t[i] \in X}
<1>1. n \in Nat /\ DOMAIN t = 1..n + 1 /\ DOMAIN s = 1..n /\ t[n + 1] = e
  OBVIOUS
<1>2. \A i \in 1..n : t[i] = s[i]
  OBVIOUS
<1>3. IsFiniteSet(P)
  <2>1. 1 \in Int /\ n \in Int
    BY <1>1
  <2>2. IsFiniteSet(1..n) /\ P \in SUBSET (1..n)
    BY <1>1, <2>1, FS_Interval
  <2> QED BY <2>2, FS_Subset
<1>4. Q = P \cup (IF e \in X THEN {n + 1} ELSE {}) /\ n + 1 \notin P
  <2> HIDE DEF t
  <2> QED BY <1>1, <1>2
<1>5. Occurrences(s, X) = Cardinality(P) /\ Occurrences(t, X) = Cardinality(Q)
  BY DEF Occurrences
<1> HIDE DEF P, Q, n, t
<1>6. Cardinality(P) \in Nat
  BY <1>3, FS_CardinalityType
<1>7. CASE e \in X
  <2>1. Q = P \cup {n + 1}
    BY <1>4, <1>7
  <2>2. Cardinality(Q) = Cardinality(P) + 1
    BY <1>3, <1>4, <2>1, FS_AddElement
  <2> QED BY <1>5, <1>6, <1>7, <2>2 DEF t
<1>8. CASE e \notin X
  <2>1. Q = P
    BY <1>4, <1>8
  <2> QED BY <1>5, <1>6, <1>8, <2>1 DEF t
<1> QED BY <1>7, <1>8

(* Nothing occurs in an empty list. *)
LEMMA OccurrencesNone == ASSUME NEW X PROVE Occurrences(<<>>, X) = 0
<1>1. {i \in DOMAIN <<>> : <<>>[i] \in X} = {}
  OBVIOUS
<1> QED BY <1>1, FS_EmptySet DEF Occurrences

-----------------------------------------------------------------------------
(* The highest of some numbers. *)
IsHighest(p, S) == p \in S /\ S \in SUBSET Nat /\ \A x \in S : x <= p

(* It is their maximum. *)
LEMMA HighestIsMax ==
  ASSUME NEW p, NEW S, IsHighest(p, S)
  PROVE  p = Max(S)
<1>1. \A x \in S : x \in Nat
  BY DEF IsHighest
<1>2. p \in S /\ \A x \in S : p >= x
  BY <1>1 DEF IsHighest
<1>3. \A q \in S : (\A x \in S : q >= x) => q = p
  BY <1>1, <1>2
<1> QED BY <1>2, <1>3 DEF Max

(* The higher of it and a further number is the highest of them all. *)
LEMMA HighestOfMore ==
  ASSUME NEW p, NEW S, IsHighest(p, S), NEW x \in Nat
  PROVE  IsHighest(Higher(p, x), S \cup {x})
<1>1. p \in Nat /\ \A y \in S : y \in Nat /\ y <= p
  BY DEF IsHighest
<1>2. p \in S
  BY DEF IsHighest
<1> QED BY <1>1, <1>2 DEF IsHighest, Higher

-----------------------------------------------------------------------------
(* The result files, read back by the names of their columns. *)

(* A list of names without repetitions. *)
Distinct(fields) == \A i, j \in DOMAIN fields : fields[i] = fields[j] => i = j

(* A column is read back by its name. *)
LEMMA ReadBackColumn ==
  ASSUME NEW fields, NEW cols, Distinct(fields), DOMAIN fields = 1..Len(fields),
         NEW k \in DOMAIN fields
  PROVE  ReadBack(Position(fields), cols)[fields[k]] = cols[k]
<1>1. fields[k] \in ToSet(fields)
  BY DEF ToSet
<1>2. \A i \in 1..Len(fields) : fields[i] = fields[k] => i = k
  BY DEF Distinct
<1>3. Position(fields)[fields[k]] = CHOOSE i \in 1..Len(fields) : fields[i] = fields[k]
  BY <1>1 DEF Position
<1>4. Position(fields)[fields[k]] = k
  BY <1>2, <1>3
<1>5. fields[k] \in DOMAIN Position(fields)
  BY <1>1 DEF Position
<1> QED BY <1>4, <1>5 DEF ReadBack

(* A list is given by its entries. *)
Listing(s, n) == n \in Nat /\ s = [i \in 1..n |-> s[i]]

(* s has the a entries of h and then the b entries of t. *)
Joins(s, h, a, t, b) ==
  /\ Listing(s, a + b)
  /\ \A i \in 1..a : s[i] = h[i]
  /\ \A i \in 1..b : s[a + i] = t[i]

(* A concatenation joins its parts. *)
LEMMA JoinOfTwo ==
  ASSUME NEW h, NEW t, NEW a, NEW b, Listing(h, a), Listing(t, b)
  PROVE  Joins(h \o t, h, a, t, b)
<1> DEFINE S == {h[i] : i \in 1..a} \cup {t[i] : i \in 1..b}
<1>1. a \in Nat /\ b \in Nat
  BY DEF Listing
<1>2. h \in [1..a -> S] /\ t \in [1..b -> S]
  BY DEF Listing
<1> HIDE DEF S
<1>3. h \in Seq(S) /\ t \in Seq(S) /\ Len(h) = a /\ Len(t) = b
  BY <1>1, <1>2
<1>4. h \o t \in Seq(S) /\ Len(h \o t) = a + b
  BY <1>3
<1>5. Listing(h \o t, a + b)
  BY <1>1, <1>4 DEF Listing
<1>6. \A i \in 1..a : (h \o t)[i] = h[i]
  BY <1>1, <1>3
<1>7. ASSUME NEW i \in 1..b PROVE (h \o t)[a + i] = t[i]
  BY <1>1, <1>3
<1> QED BY <1>5, <1>6, <1>7 DEF Joins

RunHead ==
  <<"run_id", "policy", "window", "capacity_pct", "capacity_entries", "stratum",
    "blocks_counted", "total_reads", "total_hits", "total_misses", "overall_hit_rate",
    "overall_compression_ratio", "total_invalidations", "peak_occupancy", "mean_survival">>
RunTail ==
  <<"bytes_sent", "bytes_saved", "bytes_naive", "floor_bytes", "cacheable_fraction",
    "peak_cache_bytes", "mean_cache_bytes", "peak_leaf_bytes", "peak_stem_bytes",
    "bytes_sent_stem", "bytes_sent_stem_opt", "compression_stem", "stem_capacity_entries",
    "stem_peak_occupancy", "stem_mean_survival", "total_stem_invalidations">>

(* The run row's names in their three parts. *)
LEMMA RunFieldsParts ==
  /\ Listing(RunFields, 45)
  /\ \A i \in 1..15 : RunFields[i] = RunHead[i]
  /\ \A i \in 1..14 : RunFields[15 + i] = BucketNames[i]
  /\ \A i \in 1..16 : RunFields[29 + i] = RunTail[i]
<1> DEFINE M == [i \in 1..SURVIVAL_BUCKETS |-> BucketName(i - 1)]
<1>1. Listing(M, 14)
  BY DEF Listing, SURVIVAL_BUCKETS
<1>2. \A i \in 1..14 : M[i] = BucketNames[i]
  BY DEF SURVIVAL_BUCKETS, BucketName
<1>3. Listing(RunHead, 15)
  BY DEF Listing, RunHead
<1>4. Listing(RunTail, 16)
  BY DEF Listing, RunTail
<1>5. RunFields = (RunHead \o M) \o RunTail
  BY DEF RunFields, RunHead, RunTail
<1> HIDE DEF M
<1> DEFINE H == RunHead \o M
<1>6. Joins(H, RunHead, 15, M, 14)
  BY <1>1, <1>3, JoinOfTwo
<1>7. RunFields = H \o RunTail
  BY <1>5
<1> HIDE DEF H
<1>8. Listing(H, 29)
  BY <1>6 DEF Joins
<1>9. Joins(RunFields, H, 29, RunTail, 16)
  BY <1>4, <1>7, <1>8, JoinOfTwo
<1>10. Listing(RunFields, 45) /\ \A i \in 1..16 : RunFields[29 + i] = RunTail[i]
  BY <1>9 DEF Joins
<1>11. \A i \in 1..29 : RunFields[i] = H[i]
  BY <1>9 DEF Joins
<1>12. \A i \in 1..15 : H[i] = RunHead[i]
  BY <1>6 DEF Joins
<1>13. \A i \in 1..14 : H[15 + i] = M[i]
  BY <1>6 DEF Joins
<1> QED BY <1>2, <1>10, <1>11, <1>12, <1>13

RunHeadColumns(r) ==
  <<r.run_id, r.policy, r.window, r.capacity_pct, r.capacity_entries, r.stratum,
    r.blocks_counted, r.total_reads, r.total_hits, r.total_misses, r.overall_hit_rate,
    r.overall_compression_ratio, r.total_invalidations, r.peak_occupancy, r.mean_survival>>
RunTailColumns(r) ==
  <<r.bytes_sent, r.bytes_saved, r.bytes_naive, r.floor_bytes, r.cacheable_fraction,
    r.peak_cache_bytes, r.mean_cache_bytes, r.peak_leaf_bytes, r.peak_stem_bytes,
    r.bytes_sent_stem, r.bytes_sent_stem_opt, r.compression_stem, r.stem_capacity_entries,
    r.stem_peak_occupancy, r.stem_mean_survival, r.total_stem_invalidations>>

(* Its columns in the same parts. *)
LEMMA RunColumnsParts ==
  ASSUME NEW r
  PROVE  /\ \A i \in 1..15 : RunColumns(r)[i] = RunHeadColumns(r)[i]
         /\ \A i \in 1..14 : RunColumns(r)[15 + i] = r.survival_buckets[i - 1]
         /\ \A i \in 1..16 : RunColumns(r)[29 + i] = RunTailColumns(r)[i]
<1> DEFINE M == [i \in 1..SURVIVAL_BUCKETS |-> r.survival_buckets[i - 1]]
           A == RunHeadColumns(r)
           Z == RunTailColumns(r)
<1>1. Listing(M, 14)
  BY DEF Listing, SURVIVAL_BUCKETS
<1>2. \A i \in 1..14 : M[i] = r.survival_buckets[i - 1]
  BY DEF SURVIVAL_BUCKETS
<1>3. Listing(A, 15)
  BY DEF Listing, RunHeadColumns
<1>4. Listing(Z, 16)
  BY DEF Listing, RunTailColumns
<1>5. RunColumns(r) = (A \o M) \o Z
  BY DEF RunColumns, RunHeadColumns, RunTailColumns
<1> HIDE DEF M, A, Z
<1> DEFINE H == A \o M
<1>6. Joins(H, A, 15, M, 14)
  BY <1>1, <1>3, JoinOfTwo
<1>7. RunColumns(r) = H \o Z
  BY <1>5
<1> HIDE DEF H
<1>8. Listing(H, 29)
  BY <1>6 DEF Joins
<1>9. Joins(RunColumns(r), H, 29, Z, 16)
  BY <1>4, <1>7, <1>8, JoinOfTwo
<1>10. \A i \in 1..16 : RunColumns(r)[29 + i] = Z[i]
  BY <1>9 DEF Joins
<1>11. \A i \in 1..29 : RunColumns(r)[i] = H[i]
  BY <1>9 DEF Joins
<1>12. \A i \in 1..15 : H[i] = A[i]
  BY <1>6 DEF Joins
<1>13. \A i \in 1..14 : H[15 + i] = M[i]
  BY <1>6 DEF Joins
<1>14. \A i \in 1..15 : RunColumns(r)[i] = A[i]
  BY <1>11, <1>12
<1>15. \A i \in 1..14 : RunColumns(r)[15 + i] = M[i]
  BY <1>11, <1>13
<1> QED BY <1>2, <1>10, <1>14, <1>15 DEF A, Z

(* No two columns of the runs have a name in common. *)
LEMMA RunFieldsDistinct == Distinct(RunFields)
<1>1. /\ \A i, j \in 1..15 : RunHead[i] = RunHead[j] => i = j
      /\ \A i, j \in 1..14 : BucketNames[i] = BucketNames[j] => i = j
      /\ \A i, j \in 1..16 : RunTail[i] = RunTail[j] => i = j
  <2>1. \A i, j \in 1..15 : RunHead[i] = RunHead[j] => i = j
    BY DEF RunHead
  <2>2. \A i, j \in 1..14 : BucketNames[i] = BucketNames[j] => i = j
    BY DEF BucketNames
  <2>3. \A i, j \in 1..16 : RunTail[i] = RunTail[j] => i = j
    BY DEF RunTail
  <2> QED BY <2>1, <2>2, <2>3
<1>2. \A i \in 1..15, j \in 1..14 : RunHead[i] # BucketNames[j]
  BY DEF RunHead, BucketNames
<1>3. \A i \in 1..15, j \in 1..16 : RunHead[i] # RunTail[j]
  BY DEF RunHead, RunTail
<1>4. \A i \in 1..14, j \in 1..16 : BucketNames[i] # RunTail[j]
  BY DEF BucketNames, RunTail
<1>5. /\ DOMAIN RunFields = 1..45
      /\ \A i \in 1..15 : RunFields[i] = RunHead[i]
      /\ \A i \in 1..14 : RunFields[15 + i] = BucketNames[i]
      /\ \A i \in 1..16 : RunFields[29 + i] = RunTail[i]
  BY RunFieldsParts DEF Listing
<1>6. \A i \in 1..45 :
        i \in 1..15 \/ (\E k \in 1..14 : i = 15 + k) \/ (\E k \in 1..16 : i = 29 + k)
  <2> TAKE i \in 1..45
  <2>1. CASE i \in 16..29
    <3>1. i - 15 \in 1..14 /\ i = 15 + (i - 15)
      BY <2>1
    <3> QED BY <3>1
  <2>2. CASE i \in 30..45
    <3>1. i - 29 \in 1..16 /\ i = 29 + (i - 29)
      BY <2>2
    <3> QED BY <3>1
  <2> QED BY <2>1, <2>2
<1> SUFFICES ASSUME NEW i \in 1..45, NEW j \in 1..45, RunFields[i] = RunFields[j] PROVE i = j
  BY <1>5 DEF Distinct
<1>7. CASE i \in 1..15
  <2>1. CASE j \in 1..15
    BY <1>1, <1>5, <1>7, <2>1
  <2>2. ASSUME NEW k \in 1..14, j = 15 + k PROVE FALSE
    BY <1>2, <1>5, <1>7, <2>2
  <2>3. ASSUME NEW k \in 1..16, j = 29 + k PROVE FALSE
    BY <1>3, <1>5, <1>7, <2>3
  <2> QED BY <1>6, <2>1, <2>2, <2>3
<1>8. ASSUME NEW k \in 1..14, i = 15 + k PROVE i = j
  <2>1. CASE j \in 1..15
    BY <1>2, <1>5, <1>8, <2>1
  <2>2. ASSUME NEW l \in 1..14, j = 15 + l PROVE i = j
    BY <1>1, <1>5, <1>8, <2>2
  <2>3. ASSUME NEW l \in 1..16, j = 29 + l PROVE FALSE
    BY <1>4, <1>5, <1>8, <2>3
  <2> QED BY <1>6, <2>1, <2>2, <2>3
<1>9. ASSUME NEW k \in 1..16, i = 29 + k PROVE i = j
  <2>1. CASE j \in 1..15
    BY <1>3, <1>5, <1>9, <2>1
  <2>2. ASSUME NEW l \in 1..14, j = 15 + l PROVE FALSE
    BY <1>4, <1>5, <1>9, <2>2
  <2>3. ASSUME NEW l \in 1..16, j = 29 + l PROVE i = j
    BY <1>1, <1>5, <1>9, <2>3
  <2> QED BY <1>6, <2>1, <2>2, <2>3
<1> QED BY <1>6, <1>7, <1>8, <1>9

(* A row of the runs is read back column by column. *)
LEMMA RunRead ==
  ASSUME NEW r
  PROVE  /\ \A i \in 1..15 : ReadBack(RunPosition, RunColumns(r))[RunHead[i]] = RunHeadColumns(r)[i]
         /\ \A i \in 1..14 :
              ReadBack(RunPosition, RunColumns(r))[BucketNames[i]] = r.survival_buckets[i - 1]
         /\ \A i \in 1..16 : ReadBack(RunPosition, RunColumns(r))[RunTail[i]] = RunTailColumns(r)[i]
<1> DEFINE cols == RunColumns(r)
           row == ReadBack(RunPosition, cols)
<1>1. Len(RunFields) = 45 /\ DOMAIN RunFields = 1..45 /\ 45 \in Nat
  BY RunFieldsParts DEF Listing
<1>2. ASSUME NEW k \in 1..45 PROVE row[RunFields[k]] = cols[k]
  <2> HIDE DEF cols
  <2>0. DOMAIN RunFields = 1..Len(RunFields) /\ k \in DOMAIN RunFields
    BY <1>1
  <2>1. ReadBack(Position(RunFields), cols)[RunFields[k]] = cols[k]
    BY <2>0, RunFieldsDistinct, ReadBackColumn
  <2> QED BY <2>1 DEF RunPosition
<1> HIDE DEF cols, row
<1>3. \A i \in 1..15 : row[RunHead[i]] = RunHeadColumns(r)[i]
  <2> TAKE i \in 1..15
  <2>1. i \in 1..45
    OBVIOUS
  <2>2. RunFields[i] = RunHead[i]
    BY RunFieldsParts
  <2>3. cols[i] = RunHeadColumns(r)[i]
    BY RunColumnsParts DEF cols
  <2> QED BY <1>2, <2>1, <2>2, <2>3
<1>4. \A i \in 1..14 : row[BucketNames[i]] = r.survival_buckets[i - 1]
  <2> TAKE i \in 1..14
  <2>1. 15 + i \in 1..45
    OBVIOUS
  <2>2. RunFields[15 + i] = BucketNames[i]
    BY RunFieldsParts
  <2>3. cols[15 + i] = r.survival_buckets[i - 1]
    BY RunColumnsParts DEF cols
  <2> QED BY <1>2, <2>1, <2>2, <2>3
<1>5. \A i \in 1..16 : row[RunTail[i]] = RunTailColumns(r)[i]
  <2> TAKE i \in 1..16
  <2>1. 29 + i \in 1..45
    OBVIOUS
  <2>2. RunFields[29 + i] = RunTail[i]
    BY RunFieldsParts
  <2>3. cols[29 + i] = RunTailColumns(r)[i]
    BY RunColumnsParts DEF cols
  <2> QED BY <1>2, <2>1, <2>2, <2>3
<1> QED BY <1>3, <1>4, <1>5 DEF row, cols

(* What the row says, column by column. *)
LEMMA RowReads ==
  LET m == gathered
      naive == m.total_witness_bytes_naive
  IN /\ Row.run_id = Label.run_id /\ Row.policy = Label.policy /\ Row.window = Label.window
     /\ Row.capacity_pct = Label.capacity_pct /\ Row.capacity_entries = Label.capacity_entries
     /\ Row.stem_capacity_entries = Label.stem_capacity_entries /\ Row.stratum = Label.stratum
     /\ Row.blocks_counted = m.blocks_counted
     /\ Row.total_reads = m.total_reads /\ Row.total_hits = m.total_hits
     /\ Row.total_misses = m.total_misses
     /\ Row.overall_hit_rate = Ratio(m.total_hits, m.total_reads)
     /\ Row.overall_compression_ratio = Ratio(m.total_bytes_saved, naive)
     /\ Row.total_invalidations = m.total_invalidations
     /\ Row.total_stem_invalidations = m.total_stem_invalidations
     /\ Row.peak_occupancy = m.peak_occupancy /\ Row.stem_peak_occupancy = m.peak_stem_occupancy
     /\ Row.mean_survival = Ratio(m.survival.sum_age, m.survival.n)
     /\ Row.stem_mean_survival = Ratio(m.stem_survival.sum_age, m.stem_survival.n)
     /\ \A b \in 0..SURVIVAL_BUCKETS - 1 : Row[BucketName(b)] = m.survival.buckets[b]
     /\ Row.bytes_naive = naive /\ Row.bytes_sent = m.total_witness_bytes_sent
     /\ Row.bytes_saved = m.total_bytes_saved
     /\ Row.floor_bytes = m.total_noncacheable_floor_bytes
     /\ Row.cacheable_fraction = Ratio(naive - m.total_noncacheable_floor_bytes, naive)
     /\ Row.peak_cache_bytes = m.peak_cache_bytes
     /\ Row.peak_leaf_bytes = m.peak_leaf_bytes /\ Row.peak_stem_bytes = m.peak_stem_bytes
     /\ Row.mean_cache_bytes = Ratio(m.sum_cache_bytes, m.blocks_counted)
     /\ Row.bytes_sent_stem = m.total_witness_bytes_sent_stem
     /\ Row.bytes_sent_stem_opt = m.total_witness_bytes_sent_stem_opt
     /\ Row.compression_stem = Ratio(naive - m.total_witness_bytes_sent_stem, naive)
<1> DEFINE r == FromMetrics(Label, gathered)
           head == RunHeadColumns(r)
           tail == RunTailColumns(r)
<1>1. Row = ReadBack(RunPosition, RunColumns(r))
  BY DEF Row
<1> HIDE DEF r, head, tail
<1>2. \A i \in 1..15 : Row[RunHead[i]] = head[i]
  BY <1>1, RunRead DEF head
<1>3. \A i \in 1..14 : Row[BucketNames[i]] = r.survival_buckets[i - 1]
  BY <1>1, RunRead
<1>4. \A i \in 1..16 : Row[RunTail[i]] = tail[i]
  BY <1>1, RunRead DEF tail
<1>5. /\ Row[RunHead[1]] = head[1] /\ Row[RunHead[2]] = head[2] /\ Row[RunHead[3]] = head[3]
      /\ Row[RunHead[4]] = head[4] /\ Row[RunHead[5]] = head[5] /\ Row[RunHead[6]] = head[6]
      /\ Row[RunHead[7]] = head[7] /\ Row[RunHead[8]] = head[8] /\ Row[RunHead[9]] = head[9]
      /\ Row[RunHead[10]] = head[10] /\ Row[RunHead[11]] = head[11]
      /\ Row[RunHead[12]] = head[12] /\ Row[RunHead[13]] = head[13]
      /\ Row[RunHead[14]] = head[14] /\ Row[RunHead[15]] = head[15]
  BY <1>2
<1>6. /\ Row[RunTail[1]] = tail[1] /\ Row[RunTail[2]] = tail[2] /\ Row[RunTail[3]] = tail[3]
      /\ Row[RunTail[4]] = tail[4] /\ Row[RunTail[5]] = tail[5] /\ Row[RunTail[6]] = tail[6]
      /\ Row[RunTail[7]] = tail[7] /\ Row[RunTail[8]] = tail[8] /\ Row[RunTail[9]] = tail[9]
      /\ Row[RunTail[10]] = tail[10] /\ Row[RunTail[11]] = tail[11]
      /\ Row[RunTail[12]] = tail[12] /\ Row[RunTail[13]] = tail[13]
      /\ Row[RunTail[14]] = tail[14] /\ Row[RunTail[15]] = tail[15]
      /\ Row[RunTail[16]] = tail[16]
  BY <1>4
<1>7. \A b \in 0..SURVIVAL_BUCKETS - 1 : Row[BucketName(b)] = gathered.survival.buckets[b]
  <2> TAKE b \in 0..SURVIVAL_BUCKETS - 1
  <2>1. b + 1 \in 1..14 /\ (b + 1) - 1 = b
    BY DEF SURVIVAL_BUCKETS
  <2>2. Row[BucketNames[b + 1]] = r.survival_buckets[b]
    BY <1>3, <2>1
  <2>3. r.survival_buckets = gathered.survival.buckets
    BY DEF r, FromMetrics
  <2> QED BY <2>2, <2>3 DEF BucketName
<1>8. /\ Row.run_id = r.run_id /\ Row.policy = r.policy /\ Row.window = r.window
      /\ Row.capacity_pct = r.capacity_pct /\ Row.capacity_entries = r.capacity_entries
      /\ Row.stratum = r.stratum /\ Row.blocks_counted = r.blocks_counted
      /\ Row.total_reads = r.total_reads /\ Row.total_hits = r.total_hits
      /\ Row.total_misses = r.total_misses /\ Row.overall_hit_rate = r.overall_hit_rate
      /\ Row.overall_compression_ratio = r.overall_compression_ratio
      /\ Row.total_invalidations = r.total_invalidations
      /\ Row.peak_occupancy = r.peak_occupancy /\ Row.mean_survival = r.mean_survival
  BY <1>5 DEF RunHead, head, RunHeadColumns
<1>9. /\ Row.bytes_sent = r.bytes_sent /\ Row.bytes_saved = r.bytes_saved
      /\ Row.bytes_naive = r.bytes_naive /\ Row.floor_bytes = r.floor_bytes
      /\ Row.cacheable_fraction = r.cacheable_fraction
      /\ Row.peak_cache_bytes = r.peak_cache_bytes /\ Row.mean_cache_bytes = r.mean_cache_bytes
      /\ Row.peak_leaf_bytes = r.peak_leaf_bytes /\ Row.peak_stem_bytes = r.peak_stem_bytes
      /\ Row.bytes_sent_stem = r.bytes_sent_stem
      /\ Row.bytes_sent_stem_opt = r.bytes_sent_stem_opt
      /\ Row.compression_stem = r.compression_stem
      /\ Row.stem_capacity_entries = r.stem_capacity_entries
      /\ Row.stem_peak_occupancy = r.stem_peak_occupancy
      /\ Row.stem_mean_survival = r.stem_mean_survival
      /\ Row.total_stem_invalidations = r.total_stem_invalidations
  BY <1>6 DEF RunTail, tail, RunTailColumns
<1> QED BY <1>7, <1>8, <1>9 DEF r, FromMetrics

(* What a line of the series says. *)
LEMMA LineReads ==
  ASSUME NEW s
  PROVE  LET b == ReadBack(SeriesPosition, SeriesColumns(s))
         IN /\ b.block_number = s.block_number /\ b.reads = s.reads /\ b.hits = s.hits
            /\ b.misses = s.misses /\ b.block_hit_rate = Ratio(s.hits, s.reads)
            /\ b.bytes_sent = s.witness_sent /\ b.bytes_saved = s.bytes_saved
            /\ b.bytes_naive = s.witness_naive /\ b.floor_bytes = s.floor
            /\ b.invalidations = s.invalidations /\ b.occupancy = s.occupancy
            /\ b.cache_bytes = s.cache_bytes /\ b.bytes_sent_stem = s.bytes_sent_stem
<1> DEFINE cols == SeriesColumns(s)
           b == ReadBack(SeriesPosition, cols)
<1>1. Len(SeriesFields) = 13 /\ DOMAIN SeriesFields = 1..13 /\ 13 \in Nat
  BY DEF SeriesFields
<1>2. Distinct(SeriesFields)
  BY DEF Distinct, SeriesFields
<1>3. ASSUME NEW k \in 1..13 PROVE b[SeriesFields[k]] = cols[k]
  <2> HIDE DEF cols
  <2>0. DOMAIN SeriesFields = 1..Len(SeriesFields) /\ k \in DOMAIN SeriesFields
    BY <1>1
  <2>1. ReadBack(Position(SeriesFields), cols)[SeriesFields[k]] = cols[k]
    BY <1>2, <2>0, ReadBackColumn
  <2> QED BY <2>1 DEF SeriesPosition
<1> HIDE DEF b, cols
<1>4. /\ b[SeriesFields[1]] = cols[1] /\ b[SeriesFields[2]] = cols[2]
      /\ b[SeriesFields[3]] = cols[3] /\ b[SeriesFields[4]] = cols[4]
      /\ b[SeriesFields[5]] = cols[5] /\ b[SeriesFields[6]] = cols[6]
      /\ b[SeriesFields[7]] = cols[7] /\ b[SeriesFields[8]] = cols[8]
      /\ b[SeriesFields[9]] = cols[9] /\ b[SeriesFields[10]] = cols[10]
      /\ b[SeriesFields[11]] = cols[11] /\ b[SeriesFields[12]] = cols[12]
      /\ b[SeriesFields[13]] = cols[13]
  BY <1>3
<1>5. /\ b.block_number = s.block_number /\ b.reads = s.reads /\ b.hits = s.hits
      /\ b.misses = s.misses /\ b.block_hit_rate = Ratio(s.hits, s.reads)
      /\ b.bytes_sent = s.witness_sent /\ b.bytes_saved = s.bytes_saved
      /\ b.bytes_naive = s.witness_naive /\ b.floor_bytes = s.floor
      /\ b.invalidations = s.invalidations /\ b.occupancy = s.occupancy
      /\ b.cache_bytes = s.cache_bytes /\ b.bytes_sent_stem = s.bytes_sent_stem
  BY <1>4 DEF SeriesFields, cols, SeriesColumns
<1> QED BY <1>5 DEF b, cols

(* What an entry of the list of contracts says. *)
LEMMA ContractReads ==
  ASSUME NEW a, NEW n
  PROVE  /\ ReadBack(ContractPosition, ContractColumns(a, n)).address = a
         /\ ReadBack(ContractPosition, ContractColumns(a, n)).invalidations = n
<1>1. Len(ContractFields) = 2 /\ DOMAIN ContractFields = 1..2 /\ 2 \in Nat
  BY DEF ContractFields
<1>2. Distinct(ContractFields)
  BY DEF Distinct, ContractFields
<1>3. ASSUME NEW k \in 1..2
      PROVE  ReadBack(ContractPosition, ContractColumns(a, n))[ContractFields[k]]
               = ContractColumns(a, n)[k]
  <2>0. DOMAIN ContractFields = 1..Len(ContractFields) /\ k \in DOMAIN ContractFields
    BY <1>1
  <2>1. ReadBack(Position(ContractFields), ContractColumns(a, n))[ContractFields[k]]
          = ContractColumns(a, n)[k]
    BY <1>2, <2>0, ReadBackColumn
  <2> QED BY <2>1 DEF ContractPosition
<1> QED BY <1>3 DEF ContractFields, ContractColumns

-----------------------------------------------------------------------------
(* The invariant. *)

Histograms == [buckets : [0..SURVIVAL_BUCKETS - 1 -> Nat], sum_age : Nat, n : Nat]

Samples ==
  [block_number : Nat, reads : Nat, hits : Nat, misses : Nat, invalidations : Nat,
   occupancy : Nat, witness_naive : Nat, witness_sent : Nat, bytes_saved : Nat,
   floor : Nat, cache_bytes : Nat, bytes_sent_stem : Nat]

RunMetrics(met) ==
  [blocks_counted : Nat, total_reads : Nat, total_hits : Nat, total_misses : Nat,
   total_invalidations : Nat, total_stem_invalidations : Nat,
   peak_occupancy : Nat, peak_stem_occupancy : Nat,
   survival : Histograms, stem_survival : Histograms,
   counts : [met -> Nat], series : Seq(Samples),
   total_witness_bytes_naive : Nat, total_witness_bytes_sent : Nat, total_bytes_saved : Nat,
   total_noncacheable_floor_bytes : Nat, total_witness_bytes_sent_stem : Nat,
   total_witness_bytes_sent_stem_opt : Nat,
   sum_cache_bytes : Nat, peak_cache_bytes : Nat, peak_leaf_bytes : Nat, peak_stem_bytes : Nat]

(* What may be reported of a block. *)
Reports ==
  {o \in BlockOutcome :
     /\ o.hits <= o.reads
     /\ o.sent <= o.naive /\ o.sent_stem <= o.naive /\ o.floor <= o.naive}

MetricsTyped ==
  /\ gathered \in RunMetrics(ToSet(inv)) /\ pending \in Nat
  /\ ages \in [leaf : Seq(Nat), stem : Seq(Nat)] /\ inv \in Seq(Contracts)
  /\ outcomes \in Seq(Reports)

(* The series samples the outcomes, ... *)
Sampled ==
  /\ gathered.blocks_counted = Len(outcomes) /\ Len(gathered.series) = Len(outcomes)
  /\ \A i \in 1..Len(outcomes) : gathered.series[i] = Sample(outcomes[i])

(* ... the totals are the sums of its columns, ... *)
TotalOf ==
  [total_reads |-> "reads", total_hits |-> "hits", total_misses |-> "misses",
   total_witness_bytes_naive |-> "witness_naive", total_witness_bytes_sent |-> "witness_sent",
   total_bytes_saved |-> "bytes_saved", total_noncacheable_floor_bytes |-> "floor",
   total_witness_bytes_sent_stem |-> "bytes_sent_stem", sum_cache_bytes |-> "cache_bytes"]

Totalled ==
  /\ \A c \in DOMAIN TotalOf : gathered[c] = SumOver(gathered.series, TotalOf[c])
  /\ gathered.total_invalidations = SumOver(gathered.series, "invalidations") + pending
  /\ gathered.total_stem_invalidations = SumOver(outcomes, "stem_invalidations")
  /\ gathered.total_witness_bytes_sent_stem_opt = SumOver(outcomes, "sent_stem_opt")

(* ... the peaks are the highest of them, those of bytes of one block, ... *)
Leaves(s) == {0} \cup {s[i].leaf_entries : i \in DOMAIN s}
Stems(s) == {0} \cup {s[i].stem_entries : i \in DOMAIN s}
CacheBytes(s) == {0} \cup {TotalBytes(s[i]) : i \in DOMAIN s}

PeaksAt(m, fp) ==
  /\ m.peak_cache_bytes = TotalBytes(fp)
  /\ m.peak_leaf_bytes = LeafBytes(fp) /\ m.peak_stem_bytes = StemBytes(fp)

Peaked ==
  /\ IsHighest(gathered.peak_occupancy, Leaves(outcomes))
  /\ IsHighest(gathered.peak_stem_occupancy, Stems(outcomes))
  /\ IsHighest(gathered.peak_cache_bytes, CacheBytes(outcomes))
  /\ \/ outcomes = <<>> /\ gathered.peak_leaf_bytes = 0 /\ gathered.peak_stem_bytes = 0
     \/ \E i \in DOMAIN outcomes : PeaksAt(gathered, outcomes[i])

(* ... and the tallies count what was recorded. *)
Tallies(h, s) ==
  /\ \A b \in 0..SURVIVAL_BUCKETS - 1 : h.buckets[b] = Occurrences(s, AgesOf(b))
  /\ h.sum_age = SumFunction(s) /\ h.n = Len(s)

CountsOf(counts, s) == \A a \in ToSet(s) : counts[a] = Occurrences(s, {a})

Tallied ==
  /\ Tallies(gathered.survival, ages.leaf) /\ Tallies(gathered.stem_survival, ages.stem)
  /\ CountsOf(gathered.counts, inv)

MetricsInv == MetricsTyped /\ Sampled /\ Totalled /\ Peaked /\ Tallied

-----------------------------------------------------------------------------
(* A survival goes into one bucket. *)
LEMMA RecordAgeTallies ==
  ASSUME NEW h \in Histograms, NEW s \in Seq(Nat), NEW age \in Nat, Tallies(h, s)
  PROVE  RecordAge(h, age) \in Histograms /\ Tallies(RecordAge(h, age), Append(s, age))
<1> DEFINE k == BucketOf(age)
           B == 0..SURVIVAL_BUCKETS - 1
           g == RecordAge(h, age)
<1>1. k \in B /\ \A b \in B : age \in AgesOf(b) <=> b = k
  BY BucketOfRange
<1>2. h.buckets \in [B -> Nat] /\ h.sum_age \in Nat /\ h.n \in Nat
  BY DEF Histograms
<1>3. g = [buckets |-> [h.buckets EXCEPT ![k] = @ + 1], sum_age |-> h.sum_age + age, n |-> h.n + 1]
  BY DEF RecordAge
<1> HIDE DEF k, B, g
<1>4. /\ g.buckets \in [B -> Nat]
      /\ \A b \in B : g.buckets[b] = h.buckets[b] + (IF b = k THEN 1 ELSE 0)
  <2>1. g.buckets = [h.buckets EXCEPT ![k] = @ + 1]
    BY <1>3
  <2> QED BY <1>1, <1>2, <2>1
<1>5. g \in Histograms
  BY <1>2, <1>3, <1>4 DEF Histograms, B
<1>6. ASSUME NEW b \in B PROVE g.buckets[b] = Occurrences(Append(s, age), AgesOf(b))
  <2>1. h.buckets[b] = Occurrences(s, AgesOf(b))
    BY DEF Tallies, B
  <2>2. Occurrences(Append(s, age), AgesOf(b)) =
          Occurrences(s, AgesOf(b)) + (IF age \in AgesOf(b) THEN 1 ELSE 0)
    BY OccurrencesAppend
  <2>3. age \in AgesOf(b) <=> b = k
    BY <1>1
  <2> QED BY <1>4, <2>1, <2>2, <2>3
<1>7. g.sum_age = SumFunction(Append(s, age)) /\ g.n = Len(Append(s, age))
  <2>1. SumFunction(Append(s, age)) = SumFunction(s) + age
    BY SumOfLonger
  <2>2. Len(Append(s, age)) = Len(s) + 1
    OBVIOUS
  <2> QED BY <1>3, <2>1, <2>2 DEF Tallies
<1> QED BY <1>5, <1>6, <1>7 DEF Tallies, g, B

(* A list of one more contract. *)
LEMMA MetMore ==
  ASSUME NEW T, NEW s \in Seq(T), NEW a \in T
  PROVE  ToSet(Append(s, a)) = ToSet(s) \cup {a}
<1>1. \A t : ToSet(t) = {t[i] : i \in DOMAIN t}
  BY DEF ToSet
<1>2. DOMAIN Append(s, a) = 1..Len(s) + 1 /\ DOMAIN s = 1..Len(s) /\ Len(s) \in Nat
  OBVIOUS
<1>3. Append(s, a)[Len(s) + 1] = a /\ \A i \in 1..Len(s) : Append(s, a)[i] = s[i]
  OBVIOUS
<1> DEFINE n == Len(s)
           t == Append(s, a)
<1>4. ToSet(t) = {t[i] : i \in 1..n + 1} /\ ToSet(s) = {s[i] : i \in 1..n}
  BY <1>1, <1>2
<1>5. n \in Nat /\ t[n + 1] = a /\ \A i \in 1..n : t[i] = s[i]
  BY <1>2, <1>3
<1> HIDE DEF n, t
<1>6. ToSet(t) = ToSet(s) \cup {a}
  <2>1. ASSUME NEW x \in ToSet(t) PROVE x \in ToSet(s) \cup {a}
    <3>1. PICK i \in 1..n + 1 : x = t[i]
      BY <1>4
    <3>2. i \in 1..n \/ i = n + 1
      BY <1>5
    <3> QED BY <1>4, <1>5, <3>1, <3>2
  <2>2. ASSUME NEW x \in ToSet(s) PROVE x \in ToSet(t)
    <3>1. PICK i \in 1..n : x = s[i]
      BY <1>4
    <3>2. i \in 1..n + 1 /\ x = t[i]
      BY <1>5, <3>1
    <3> QED BY <1>4, <3>2
  <2>3. a \in ToSet(t)
    <3>1. n + 1 \in 1..n + 1
      BY <1>5
    <3> QED BY <1>4, <1>5, <3>1
  <2> QED BY <2>1, <2>2, <2>3
<1> QED BY <1>6 DEF t

(* Counting one more invalidation keeps the counts those of the list. *)
LEMMA CountedCounts ==
  ASSUME NEW s \in Seq(Contracts), NEW counts \in [ToSet(s) -> Nat], NEW addr \in Contracts,
         CountsOf(counts, s)
  PROVE  /\ Counted(counts, addr) \in [ToSet(Append(s, addr)) -> Nat]
         /\ CountsOf(Counted(counts, addr), Append(s, addr))
<1> DEFINE met == ToSet(s)
           c == Counted(counts, addr)
<1>1. ToSet(Append(s, addr)) = met \cup {addr}
  BY MetMore
<1>2. c = [a \in met \cup {addr} |->
             (IF a \in met THEN counts[a] ELSE 0) + IF a = addr THEN 1 ELSE 0]
  BY DEF Counted
<1>3. c \in [met \cup {addr} -> Nat]
  BY <1>2
<1>4. ASSUME NEW a \in met \cup {addr} PROVE c[a] = Occurrences(Append(s, addr), {a})
  <2>1. Occurrences(Append(s, addr), {a}) = Occurrences(s, {a}) + (IF addr \in {a} THEN 1 ELSE 0)
    BY OccurrencesAppend
  <2>2. c[a] = (IF a \in met THEN counts[a] ELSE 0) + IF a = addr THEN 1 ELSE 0
    BY <1>2
  <2>3. CASE a \in met
    <3>1. counts[a] = Occurrences(s, {a})
      BY <2>3 DEF CountsOf
    <3> QED BY <2>1, <2>2, <2>3, <3>1
  <2>4. CASE a \notin met
    <3>1. {i \in DOMAIN s : s[i] \in {a}} = {}
      BY <2>4 DEF ToSet
    <3>2. Occurrences(s, {a}) = 0
      BY <3>1, FS_EmptySet DEF Occurrences
    <3> QED BY <2>1, <2>2, <2>4, <3>2
  <2> QED BY <2>3, <2>4
<1> HIDE DEF c, met
<1> QED BY <1>1, <1>3, <1>4 DEF CountsOf, c

-----------------------------------------------------------------------------
(* The steps. *)

(* The columns of the series and of the outcomes are numbers. *)
LEMMA SamplesTyped ==
  ASSUME NEW s \in Seq(Samples),
         NEW c \in {"block_number", "reads", "hits", "misses", "invalidations", "occupancy",
                    "witness_naive", "witness_sent", "bytes_saved", "floor", "cache_bytes",
                    "bytes_sent_stem"}
  PROVE  ColumnTyped(s, c)
<1>1. \A i \in DOMAIN s : s[i] \in Samples
  OBVIOUS
<1>2. \A x \in Samples : x[c] \in Nat
  BY DEF Samples
<1> QED BY <1>1, <1>2 DEF ColumnTyped

(* Survival::record keeps the invariant, for the leaves. *)
LEMMA RecordSurvivalStep ==
  ASSUME MetricsInv, NEW age \in Nat, RecordSurvival(age)
  PROVE  MetricsInv'
<1> DEFINE h == RecordAge(gathered.survival, age)
<1>1. /\ gathered \in RunMetrics(ToSet(inv)) /\ ages \in [leaf : Seq(Nat), stem : Seq(Nat)]
      /\ gathered.survival \in Histograms /\ ages.leaf \in Seq(Nat)
  BY DEF MetricsInv, MetricsTyped, RunMetrics
<1>2. Tallies(gathered.survival, ages.leaf)
  BY DEF MetricsInv, Tallied
<1>3. h \in Histograms /\ Tallies(h, Append(ages.leaf, age))
  BY <1>1, <1>2, RecordAgeTallies
<1>4. /\ gathered' = [gathered EXCEPT !.survival = h]
      /\ ages' = [ages EXCEPT !.leaf = Append(@, age)]
      /\ UNCHANGED <<pending, inv, outcomes>>
  BY DEF RecordSurvival
<1> HIDE DEF h
<1>5. MetricsTyped'
  <2>1. gathered' \in RunMetrics(ToSet(inv))
    BY <1>1, <1>3, <1>4 DEF RunMetrics
  <2>2. ages' \in [leaf : Seq(Nat), stem : Seq(Nat)]
    <3>1. Append(ages.leaf, age) \in Seq(Nat)
      BY <1>1
    <3> QED BY <1>1, <1>4, <3>1
  <2> QED BY <1>4, <2>1, <2>2 DEF MetricsInv, MetricsTyped
<1>6. Sampled'
  BY <1>1, <1>4 DEF MetricsInv, Sampled, RunMetrics
<1>7. Totalled'
  BY <1>1, <1>4 DEF MetricsInv, Totalled, RunMetrics, TotalOf
<1>8. Peaked'
  BY <1>1, <1>4 DEF MetricsInv, Peaked, PeaksAt, RunMetrics
<1>9. Tallied'
  <2>1. gathered'.survival = h /\ ages'.leaf = Append(ages.leaf, age)
    BY <1>1, <1>4 DEF RunMetrics
  <2>2. /\ gathered'.stem_survival = gathered.stem_survival /\ ages'.stem = ages.stem
        /\ gathered'.counts = gathered.counts
    BY <1>1, <1>4 DEF RunMetrics
  <2> QED BY <1>3, <1>4, <2>1, <2>2 DEF MetricsInv, Tallied
<1> QED BY <1>5, <1>6, <1>7, <1>8, <1>9 DEF MetricsInv

(* Survival::record keeps the invariant, for the stems. *)
LEMMA RecordStemSurvivalStep ==
  ASSUME MetricsInv, NEW age \in Nat, RecordStemSurvival(age)
  PROVE  MetricsInv'
<1> DEFINE h == RecordAge(gathered.stem_survival, age)
<1>1. /\ gathered \in RunMetrics(ToSet(inv)) /\ ages \in [leaf : Seq(Nat), stem : Seq(Nat)]
      /\ gathered.stem_survival \in Histograms /\ ages.stem \in Seq(Nat)
  BY DEF MetricsInv, MetricsTyped, RunMetrics
<1>2. Tallies(gathered.stem_survival, ages.stem)
  BY DEF MetricsInv, Tallied
<1>3. h \in Histograms /\ Tallies(h, Append(ages.stem, age))
  BY <1>1, <1>2, RecordAgeTallies
<1>4. /\ gathered' = [gathered EXCEPT !.stem_survival = h]
      /\ ages' = [ages EXCEPT !.stem = Append(@, age)]
      /\ UNCHANGED <<pending, inv, outcomes>>
  BY DEF RecordStemSurvival
<1> HIDE DEF h
<1>5. MetricsTyped'
  <2>1. gathered' \in RunMetrics(ToSet(inv))
    BY <1>1, <1>3, <1>4 DEF RunMetrics
  <2>2. ages' \in [leaf : Seq(Nat), stem : Seq(Nat)]
    <3>1. Append(ages.stem, age) \in Seq(Nat)
      BY <1>1
    <3> QED BY <1>1, <1>4, <3>1
  <2> QED BY <1>4, <2>1, <2>2 DEF MetricsInv, MetricsTyped
<1>6. Sampled'
  BY <1>1, <1>4 DEF MetricsInv, Sampled, RunMetrics
<1>7. Totalled'
  BY <1>1, <1>4 DEF MetricsInv, Totalled, RunMetrics, TotalOf
<1>8. Peaked'
  BY <1>1, <1>4 DEF MetricsInv, Peaked, PeaksAt, RunMetrics
<1>9. Tallied'
  <2>1. gathered'.stem_survival = h /\ ages'.stem = Append(ages.stem, age)
    BY <1>1, <1>4 DEF RunMetrics
  <2>2. /\ gathered'.survival = gathered.survival /\ ages'.leaf = ages.leaf
        /\ gathered'.counts = gathered.counts
    BY <1>1, <1>4 DEF RunMetrics
  <2> QED BY <1>3, <1>4, <2>1, <2>2 DEF MetricsInv, Tallied
<1> QED BY <1>5, <1>6, <1>7, <1>8, <1>9 DEF MetricsInv

(* ContractInvalidations::record keeps the invariant. *)
LEMMA RecordInvalidationStep ==
  ASSUME MetricsInv, NEW addr \in Contracts, RecordInvalidation(addr)
  PROVE  MetricsInv'
<1> DEFINE c == Counted(gathered.counts, addr)
<1>1. /\ gathered \in RunMetrics(ToSet(inv)) /\ inv \in Seq(Contracts)
      /\ gathered.counts \in [ToSet(inv) -> Nat] /\ gathered.total_invalidations \in Nat
      /\ pending \in Nat
  BY DEF MetricsInv, MetricsTyped, RunMetrics
<1>2. CountsOf(gathered.counts, inv)
  BY DEF MetricsInv, Tallied
<1>3. c \in [ToSet(Append(inv, addr)) -> Nat] /\ CountsOf(c, Append(inv, addr))
  BY <1>1, <1>2, CountedCounts
<1>4. /\ gathered' = [gathered EXCEPT !.counts = c, !.total_invalidations = @ + 1]
      /\ pending' = pending + 1 /\ inv' = Append(inv, addr)
      /\ UNCHANGED <<ages, outcomes>>
  BY DEF RecordInvalidation
<1> HIDE DEF c
<1>5. MetricsTyped'
  <2>1. gathered' \in RunMetrics(ToSet(Append(inv, addr)))
    <3> DEFINE met == ToSet(Append(inv, addr))
    <3>1. c \in [met -> Nat] /\ gathered.total_invalidations + 1 \in Nat
      BY <1>1, <1>3
    <3> HIDE DEF met
    <3>2. gathered' \in RunMetrics(met)
      BY <1>1, <1>4, <3>1 DEF RunMetrics
    <3> QED BY <3>2 DEF met
  <2> QED BY <1>1, <1>4, <2>1 DEF MetricsInv, MetricsTyped
<1>6. Sampled'
  BY <1>1, <1>4 DEF MetricsInv, Sampled, RunMetrics
<1>7. Totalled'
  <2>1. /\ gathered'.total_invalidations = gathered.total_invalidations + 1
        /\ gathered'.series = gathered.series
    BY <1>1, <1>4 DEF RunMetrics
  <2>2. gathered'.total_invalidations = SumOver(gathered'.series, "invalidations") + pending'
    <3>1. gathered.total_invalidations = SumOver(gathered.series, "invalidations") + pending
      BY DEF MetricsInv, Totalled
    <3>2. SumOver(gathered.series, "invalidations") \in Nat
      <4>1. gathered.series \in Seq(Samples)
        BY <1>1 DEF RunMetrics
      <4>2. ColumnTyped(gathered.series, "invalidations")
        BY <4>1, SamplesTyped
      <4> QED BY <4>1, <4>2, SumOverTyped
    <3> QED BY <1>1, <1>4, <2>1, <3>1, <3>2
  <2>3. \A t \in DOMAIN TotalOf : gathered'[t] = gathered[t]
    BY <1>1, <1>4 DEF RunMetrics, TotalOf
  <2>4. /\ gathered'.total_stem_invalidations = gathered.total_stem_invalidations
        /\ gathered'.total_witness_bytes_sent_stem_opt = gathered.total_witness_bytes_sent_stem_opt
    BY <1>1, <1>4 DEF RunMetrics
  <2> QED BY <1>4, <2>1, <2>2, <2>3, <2>4 DEF MetricsInv, Totalled
<1>8. Peaked'
  BY <1>1, <1>4 DEF MetricsInv, Peaked, PeaksAt, RunMetrics
<1>9. Tallied'
  <2>1. /\ gathered'.counts = c /\ gathered'.survival = gathered.survival
        /\ gathered'.stem_survival = gathered.stem_survival
    BY <1>1, <1>4 DEF RunMetrics
  <2> QED BY <1>3, <1>4, <2>1 DEF MetricsInv, Tallied
<1> QED BY <1>5, <1>6, <1>7, <1>8, <1>9 DEF MetricsInv

(* What a report adds. *)
LEMMA ReportTyped ==
  ASSUME NEW o \in Reports
  PROVE  /\ Sample(o) \in Samples /\ TotalBytes(o) \in Nat
         /\ LeafBytes(o) \in Nat /\ StemBytes(o) \in Nat
         /\ o.leaf_entries \in Nat /\ o.stem_entries \in Nat
         /\ o.stem_invalidations \in Nat /\ o.sent_stem_opt \in Nat
<1>1. /\ o.block_number \in Nat /\ o.reads \in Nat /\ o.hits \in Nat /\ o.misses \in Nat
      /\ o.invalidations \in Nat /\ o.leaf_entries \in Nat /\ o.stem_entries \in Nat
      /\ o.naive \in Nat /\ o.sent \in Nat /\ o.sent_stem \in Nat /\ o.floor \in Nat
      /\ o.sent <= o.naive /\ o.stem_invalidations \in Nat /\ o.sent_stem_opt \in Nat
  BY DEF Reports, BlockOutcome
<1>2. TotalBytes(o) \in Nat /\ LeafBytes(o) \in Nat /\ StemBytes(o) \in Nat
  BY <1>1 DEF TotalBytes, LeafBytes, StemBytes, LEAF_ENTRY_BYTES, STEM_ENTRY_BYTES
<1>3. o.naive - o.sent \in Nat
  BY <1>1
<1> QED BY <1>1, <1>2, <1>3 DEF Sample, Samples

(* What a block reports is in range, and carries what was pending. *)
LEMMA ReportedTyped ==
  ASSUME MetricsInv, NEW o \in Outcomes
  PROVE  Reported(o) \in Reports /\ Reported(o).invalidations = pending
<1> DEFINE r == Reported(o)
<1>1. o \in BlockOutcome /\ o.hits <= o.reads /\ {o.sent, o.sent_stem, o.floor} \subseteq 0..o.naive
  BY MetricsAssumption
<1>2. gathered.blocks_counted \in Nat /\ pending \in Nat
  BY DEF MetricsInv, MetricsTyped, RunMetrics
<1>3. 2 * gathered.blocks_counted + 1 \in Nat /\ o.reads - o.hits \in Nat
  BY <1>1, <1>2 DEF BlockOutcome
<1>4. r \in BlockOutcome
  BY <1>1, <1>2, <1>3 DEF Reported, BlockOutcome
<1>5. /\ r.hits = o.hits /\ r.reads = o.reads /\ r.sent = o.sent /\ r.sent_stem = o.sent_stem
      /\ r.floor = o.floor /\ r.naive = o.naive /\ r.invalidations = pending
  BY <1>1 DEF Reported, BlockOutcome
<1> HIDE DEF r
<1>6. r.sent <= r.naive /\ r.sent_stem <= r.naive /\ r.floor <= r.naive
  BY <1>1, <1>5 DEF BlockOutcome
<1>7. r \in Reports
  BY <1>1, <1>4, <1>5, <1>6 DEF Reports
<1> QED BY <1>5, <1>7 DEF r

(* The fields a block adds to, and those it leaves. *)
LEMMA BlockAdds ==
  ASSUME MetricsTyped, NEW o \in Reports, RecordBlock(o)
  PROVE  /\ gathered'.series = Append(gathered.series, Sample(o))
         /\ gathered'.blocks_counted = gathered.blocks_counted + 1
         /\ \A c \in DOMAIN TotalOf : gathered'[c] = gathered[c] + Sample(o)[TotalOf[c]]
         /\ gathered'.total_invalidations = gathered.total_invalidations
         /\ gathered'.total_stem_invalidations = gathered.total_stem_invalidations + o.stem_invalidations
         /\ gathered'.total_witness_bytes_sent_stem_opt =
              gathered.total_witness_bytes_sent_stem_opt + o.sent_stem_opt
         /\ gathered'.peak_occupancy = Higher(gathered.peak_occupancy, o.leaf_entries)
         /\ gathered'.peak_stem_occupancy = Higher(gathered.peak_stem_occupancy, o.stem_entries)
         /\ gathered'.survival = gathered.survival /\ gathered'.stem_survival = gathered.stem_survival
         /\ gathered'.counts = gathered.counts
<1>1. /\ gathered'.series = Append(gathered.series, Sample(o))
      /\ gathered'.blocks_counted = gathered.blocks_counted + 1
      /\ gathered'.total_invalidations = gathered.total_invalidations
      /\ gathered'.total_stem_invalidations = gathered.total_stem_invalidations + o.stem_invalidations
      /\ gathered'.total_witness_bytes_sent_stem_opt =
           gathered.total_witness_bytes_sent_stem_opt + o.sent_stem_opt
      /\ gathered'.peak_occupancy = Higher(gathered.peak_occupancy, o.leaf_entries)
      /\ gathered'.peak_stem_occupancy = Higher(gathered.peak_stem_occupancy, o.stem_entries)
      /\ gathered'.survival = gathered.survival /\ gathered'.stem_survival = gathered.stem_survival
      /\ gathered'.counts = gathered.counts
  BY DEF RecordBlock, MetricsTyped, RunMetrics, Peaks
<1>2. /\ gathered'.total_reads = gathered.total_reads + o.reads
      /\ gathered'.total_hits = gathered.total_hits + o.hits
      /\ gathered'.total_misses = gathered.total_misses + o.misses
      /\ gathered'.total_witness_bytes_naive = gathered.total_witness_bytes_naive + o.naive
      /\ gathered'.total_witness_bytes_sent = gathered.total_witness_bytes_sent + o.sent
      /\ gathered'.total_bytes_saved = gathered.total_bytes_saved + (o.naive - o.sent)
      /\ gathered'.total_noncacheable_floor_bytes =
           gathered.total_noncacheable_floor_bytes + o.floor
      /\ gathered'.total_witness_bytes_sent_stem =
           gathered.total_witness_bytes_sent_stem + o.sent_stem
      /\ gathered'.sum_cache_bytes = gathered.sum_cache_bytes + TotalBytes(o)
  BY DEF RecordBlock, MetricsTyped, RunMetrics, Peaks
<1>3. ASSUME NEW c \in DOMAIN TotalOf PROVE gathered'[c] = gathered[c] + Sample(o)[TotalOf[c]]
  BY <1>2 DEF TotalOf, Sample
<1> QED BY <1>1, <1>3

(* The three peaks move together, on a new highest total only. *)
LEMMA BlockPeaks ==
  ASSUME MetricsTyped, NEW o \in Reports, RecordBlock(o)
  PROVE  /\ TotalBytes(o) > gathered.peak_cache_bytes => PeaksAt(gathered', o)
         /\ ~(TotalBytes(o) > gathered.peak_cache_bytes) =>
              /\ gathered'.peak_cache_bytes = gathered.peak_cache_bytes
              /\ gathered'.peak_leaf_bytes = gathered.peak_leaf_bytes
              /\ gathered'.peak_stem_bytes = gathered.peak_stem_bytes
BY DEF RecordBlock, MetricsTyped, RunMetrics, Peaks, PeaksAt

(* record_block keeps the record's types. *)
LEMMA BlockTyped ==
  ASSUME MetricsTyped, NEW o \in Reports, RecordBlock(o)
  PROVE  MetricsTyped'
<1> DEFINE M == RunMetrics(ToSet(inv))
           x == [gathered EXCEPT
                   !.blocks_counted = @ + 1,
                   !.total_reads = @ + o.reads, !.total_hits = @ + o.hits,
                   !.total_misses = @ + o.misses,
                   !.total_stem_invalidations = @ + o.stem_invalidations,
                   !.peak_occupancy = Higher(@, o.leaf_entries),
                   !.peak_stem_occupancy = Higher(@, o.stem_entries),
                   !.total_witness_bytes_naive = @ + o.naive,
                   !.total_witness_bytes_sent = @ + o.sent,
                   !.total_bytes_saved = @ + (o.naive - o.sent),
                   !.total_noncacheable_floor_bytes = @ + o.floor,
                   !.total_witness_bytes_sent_stem = @ + o.sent_stem,
                   !.total_witness_bytes_sent_stem_opt = @ + o.sent_stem_opt,
                   !.sum_cache_bytes = @ + TotalBytes(o),
                   !.series = Append(@, Sample(o))]
<1>1. gathered \in M /\ gathered.series \in Seq(Samples)
  BY DEF MetricsTyped, RunMetrics
<1>2. Sample(o) \in Samples /\ TotalBytes(o) \in Nat /\ LeafBytes(o) \in Nat /\ StemBytes(o) \in Nat
  BY ReportTyped
<1>3. /\ o.reads \in Nat /\ o.hits \in Nat /\ o.misses \in Nat
      /\ o.leaf_entries \in Nat /\ o.stem_entries \in Nat /\ o.stem_invalidations \in Nat
      /\ o.naive \in Nat /\ o.sent \in Nat /\ o.sent_stem \in Nat /\ o.floor \in Nat
      /\ o.sent_stem_opt \in Nat /\ o.naive - o.sent \in Nat
  BY DEF Reports, BlockOutcome
<1>4. Append(gathered.series, Sample(o)) \in Seq(Samples)
  BY <1>1, <1>2
<1>5. x \in M
  <2>1. /\ Higher(gathered.peak_occupancy, o.leaf_entries) \in Nat
        /\ Higher(gathered.peak_stem_occupancy, o.stem_entries) \in Nat
    BY <1>1, <1>3 DEF RunMetrics, Higher
  <2>2. /\ gathered.blocks_counted + 1 \in Nat /\ gathered.total_reads + o.reads \in Nat
        /\ gathered.total_hits + o.hits \in Nat /\ gathered.total_misses + o.misses \in Nat
        /\ gathered.total_stem_invalidations + o.stem_invalidations \in Nat
        /\ gathered.total_witness_bytes_naive + o.naive \in Nat
        /\ gathered.total_witness_bytes_sent + o.sent \in Nat
        /\ gathered.total_bytes_saved + (o.naive - o.sent) \in Nat
        /\ gathered.total_noncacheable_floor_bytes + o.floor \in Nat
        /\ gathered.total_witness_bytes_sent_stem + o.sent_stem \in Nat
        /\ gathered.total_witness_bytes_sent_stem_opt + o.sent_stem_opt \in Nat
        /\ gathered.sum_cache_bytes + TotalBytes(o) \in Nat
    <3>1. /\ gathered.blocks_counted \in Nat /\ gathered.total_reads \in Nat
          /\ gathered.total_hits \in Nat /\ gathered.total_misses \in Nat
          /\ gathered.total_stem_invalidations \in Nat
          /\ gathered.total_witness_bytes_naive \in Nat
          /\ gathered.total_witness_bytes_sent \in Nat
          /\ gathered.total_bytes_saved \in Nat
          /\ gathered.total_noncacheable_floor_bytes \in Nat
          /\ gathered.total_witness_bytes_sent_stem \in Nat
          /\ gathered.total_witness_bytes_sent_stem_opt \in Nat
          /\ gathered.sum_cache_bytes \in Nat
      BY <1>1 DEF RunMetrics
    <3> HIDE DEF M, x
    <3> QED BY <1>2, <1>3, <3>1
  <2> DEFINE y == [gathered EXCEPT
                     !.blocks_counted = gathered.blocks_counted + 1,
                     !.total_reads = gathered.total_reads + o.reads,
                     !.total_hits = gathered.total_hits + o.hits,
                     !.total_misses = gathered.total_misses + o.misses,
                     !.total_stem_invalidations =
                        gathered.total_stem_invalidations + o.stem_invalidations,
                     !.peak_occupancy = Higher(gathered.peak_occupancy, o.leaf_entries),
                     !.peak_stem_occupancy = Higher(gathered.peak_stem_occupancy, o.stem_entries)]
             z == [y EXCEPT
                     !.total_witness_bytes_naive = gathered.total_witness_bytes_naive + o.naive,
                     !.total_witness_bytes_sent = gathered.total_witness_bytes_sent + o.sent,
                     !.total_bytes_saved = gathered.total_bytes_saved + (o.naive - o.sent),
                     !.total_noncacheable_floor_bytes =
                        gathered.total_noncacheable_floor_bytes + o.floor,
                     !.total_witness_bytes_sent_stem =
                        gathered.total_witness_bytes_sent_stem + o.sent_stem,
                     !.total_witness_bytes_sent_stem_opt =
                        gathered.total_witness_bytes_sent_stem_opt + o.sent_stem_opt,
                     !.sum_cache_bytes = gathered.sum_cache_bytes + TotalBytes(o),
                     !.series = Append(gathered.series, Sample(o))]
  <2>3. y \in M
    BY <1>1, <2>1, <2>2 DEF RunMetrics
  <2>4. z \in M
    <3> HIDE DEF y
    <3> QED BY <1>4, <2>2, <2>3 DEF RunMetrics
  <2>5. x = z
    BY <1>1 DEF RunMetrics
  <2> QED BY <2>4, <2>5
<1>6. gathered' = Peaks(x, o) /\ pending' = 0 /\ outcomes' = Append(outcomes, o)
      /\ ages' = ages /\ inv' = inv
  BY DEF RecordBlock
<1> HIDE DEF x
<1>7. Peaks(x, o) \in M
  BY <1>2, <1>5 DEF Peaks, RunMetrics
<1> HIDE DEF M
<1>8. Append(outcomes, o) \in Seq(Reports)
  BY DEF MetricsTyped
<1> QED BY <1>6, <1>7, <1>8 DEF MetricsTyped, M

(* The heights of a list of one more report. *)
LEMMA HeightsMore ==
  ASSUME NEW s \in Seq(Reports), NEW o \in Reports
  PROVE  /\ Leaves(Append(s, o)) = Leaves(s) \cup {o.leaf_entries}
         /\ Stems(Append(s, o)) = Stems(s) \cup {o.stem_entries}
         /\ CacheBytes(Append(s, o)) = CacheBytes(s) \cup {TotalBytes(o)}
<1> DEFINE n == Len(s)
           t == Append(s, o)
<1>1. n \in Nat /\ DOMAIN s = 1..n /\ DOMAIN t = 1..n + 1 /\ t[n + 1] = o
  OBVIOUS
<1>2. \A i \in 1..n : t[i] = s[i]
  OBVIOUS
<1> HIDE DEF n, t
<1>3. DOMAIN t = DOMAIN s \cup {n + 1} /\ \A i \in DOMAIN s : t[i] = s[i]
  BY <1>1, <1>2
<1>4. Leaves(t) = Leaves(s) \cup {o.leaf_entries}
  BY <1>1, <1>3 DEF Leaves
<1>5. Stems(t) = Stems(s) \cup {o.stem_entries}
  BY <1>1, <1>3 DEF Stems
<1>6. CacheBytes(t) = CacheBytes(s) \cup {TotalBytes(o)}
  BY <1>1, <1>3 DEF CacheBytes
<1> QED BY <1>4, <1>5, <1>6 DEF t

(* record_block keeps the invariant. *)
LEMMA RecordBlockStep ==
  ASSUME MetricsInv, NEW o \in Reports, o.invalidations = pending, RecordBlock(o)
  PROVE  MetricsInv'
<1> DEFINE b == Sample(o)
           s == gathered.series
           n == Len(outcomes)
<1>1. /\ MetricsTyped /\ s \in Seq(Samples) /\ outcomes \in Seq(Reports) /\ pending \in Nat
      /\ b \in Samples /\ n \in Nat
  <2>1. b \in Samples
    BY ReportTyped
  <2>2. MetricsTyped /\ s \in Seq(Samples) /\ outcomes \in Seq(Reports) /\ pending \in Nat
    BY DEF MetricsInv, MetricsTyped, RunMetrics
  <2> QED BY <2>1, <2>2
<1>2. pending' = 0 /\ outcomes' = Append(outcomes, o) /\ ages' = ages /\ inv' = inv
  BY DEF RecordBlock
<1>3. MetricsTyped'
  BY <1>1, BlockTyped
<1>4. gathered'.series = Append(s, b) /\ gathered'.blocks_counted = gathered.blocks_counted + 1
  BY <1>1, BlockAdds
<1>5. Sampled'
  <2>1. gathered.blocks_counted = n /\ Len(s) = n /\ \A i \in 1..n : s[i] = Sample(outcomes[i])
    BY DEF MetricsInv, Sampled
  <2>2. Len(outcomes') = n + 1 /\ Len(gathered'.series) = n + 1 /\ gathered'.blocks_counted = n + 1
    BY <1>1, <1>2, <1>4, <2>1
  <2>3. ASSUME NEW i \in 1..n + 1 PROVE gathered'.series[i] = Sample(outcomes'[i])
    <3>1. CASE i \in 1..n
      <4>1. Append(s, b)[i] = s[i] /\ Append(outcomes, o)[i] = outcomes[i]
        BY <1>1, <2>1, <3>1
      <4> QED BY <1>2, <1>4, <2>1, <3>1, <4>1
    <3>2. CASE i = n + 1
      <4>1. Append(s, b)[i] = b /\ Append(outcomes, o)[i] = o
        BY <1>1, <2>1, <3>2
      <4> QED BY <1>2, <1>4, <4>1
    <3>3. i \in 1..n \/ i = n + 1
      BY <1>1
    <3> QED BY <3>1, <3>2, <3>3
  <2> QED BY <2>2, <2>3 DEF Sampled
<1>6. Totalled'
  <2>1. ASSUME NEW c \in DOMAIN TotalOf
        PROVE  gathered'[c] = SumOver(gathered'.series, TotalOf[c])
    <3> DEFINE k == TotalOf[c]
    <3>1. gathered[c] = SumOver(s, k)
      BY DEF MetricsInv, Totalled
    <3>2. gathered'[c] = gathered[c] + b[k]
      BY <1>1, BlockAdds
    <3>3. k \in {"reads", "hits", "misses", "witness_naive", "witness_sent", "bytes_saved",
                 "floor", "cache_bytes", "bytes_sent_stem"}
      BY DEF TotalOf
    <3> HIDE DEF k, b, s
    <3>4. ColumnTyped(s, k)
      BY <1>1, <3>3, SamplesTyped
    <3>5. b[k] \in Nat
      BY <1>1, <3>3 DEF Samples
    <3>6. SumOver(Append(s, b), k) = SumOver(s, k) + b[k]
      BY <1>1, <3>4, <3>5, SumOverLonger
    <3>7. gathered'[c] = SumOver(gathered'.series, k)
      BY <1>4, <3>1, <3>2, <3>6
    <3> QED BY <3>7 DEF k
  <2>2. gathered'.total_invalidations = SumOver(gathered'.series, "invalidations") + pending'
    <3>1. gathered.total_invalidations = SumOver(s, "invalidations") + pending
      BY DEF MetricsInv, Totalled
    <3>2. gathered'.total_invalidations = gathered.total_invalidations
      BY <1>1, BlockAdds
    <3>3. b.invalidations = pending
      BY DEF Sample
    <3> HIDE DEF s, b
    <3>4. ColumnTyped(s, "invalidations")
      BY <1>1, SamplesTyped
    <3>5. SumOver(Append(s, b), "invalidations") = SumOver(s, "invalidations") + pending
      BY <1>1, <3>3, <3>4, SumOverLonger
    <3>6. SumOver(s, "invalidations") \in Nat
      BY <1>1, <3>4, SumOverTyped
    <3> QED BY <1>1, <1>2, <1>4, <3>1, <3>2, <3>5, <3>6
  <2>3. \A i \in DOMAIN outcomes : outcomes[i] \in Reports
    BY <1>1
  <2>4. o.stem_invalidations \in Nat /\ o.sent_stem_opt \in Nat
    BY ReportTyped
  <2>5. gathered'.total_stem_invalidations = SumOver(outcomes', "stem_invalidations")
    <3>1. ColumnTyped(outcomes, "stem_invalidations")
      BY <2>3, ReportTyped DEF ColumnTyped
    <3>2. SumOver(outcomes', "stem_invalidations") =
            SumOver(outcomes, "stem_invalidations") + o.stem_invalidations
      BY <1>1, <1>2, <2>4, <3>1, SumOverLonger
    <3>3. gathered'.total_stem_invalidations = gathered.total_stem_invalidations + o.stem_invalidations
      BY <1>1, BlockAdds
    <3> QED BY <3>2, <3>3 DEF MetricsInv, Totalled
  <2>6. gathered'.total_witness_bytes_sent_stem_opt = SumOver(outcomes', "sent_stem_opt")
    <3>1. ColumnTyped(outcomes, "sent_stem_opt")
      BY <2>3, ReportTyped DEF ColumnTyped
    <3>2. SumOver(outcomes', "sent_stem_opt") = SumOver(outcomes, "sent_stem_opt") + o.sent_stem_opt
      BY <1>1, <1>2, <2>4, <3>1, SumOverLonger
    <3>3. gathered'.total_witness_bytes_sent_stem_opt =
            gathered.total_witness_bytes_sent_stem_opt + o.sent_stem_opt
      BY <1>1, BlockAdds
    <3> QED BY <3>2, <3>3 DEF MetricsInv, Totalled
  <2> QED BY <2>1, <2>2, <2>5, <2>6 DEF Totalled
<1>7. Peaked'
  <2>1. /\ Leaves(outcomes') = Leaves(outcomes) \cup {o.leaf_entries}
        /\ Stems(outcomes') = Stems(outcomes) \cup {o.stem_entries}
        /\ CacheBytes(outcomes') = CacheBytes(outcomes) \cup {TotalBytes(o)}
    BY <1>1, <1>2, HeightsMore
  <2>2. /\ IsHighest(gathered.peak_occupancy, Leaves(outcomes))
        /\ IsHighest(gathered.peak_stem_occupancy, Stems(outcomes))
        /\ IsHighest(gathered.peak_cache_bytes, CacheBytes(outcomes))
    BY DEF MetricsInv, Peaked
  <2>3. o.leaf_entries \in Nat /\ o.stem_entries \in Nat /\ TotalBytes(o) \in Nat
    BY ReportTyped
  <2>4. /\ gathered'.peak_occupancy = Higher(gathered.peak_occupancy, o.leaf_entries)
        /\ gathered'.peak_stem_occupancy = Higher(gathered.peak_stem_occupancy, o.stem_entries)
    BY <1>1, BlockAdds
  <2>5. gathered'.peak_cache_bytes = Higher(gathered.peak_cache_bytes, TotalBytes(o))
    <3>1. gathered.peak_cache_bytes \in Nat
      BY <1>1 DEF MetricsTyped, RunMetrics
    <3>2. CASE TotalBytes(o) > gathered.peak_cache_bytes
      <4>1. PeaksAt(gathered', o)
        BY <1>1, <3>2, BlockPeaks
      <4> QED BY <2>3, <3>1, <3>2, <4>1 DEF Higher, PeaksAt
    <3>3. CASE ~(TotalBytes(o) > gathered.peak_cache_bytes)
      <4>1. gathered'.peak_cache_bytes = gathered.peak_cache_bytes
        BY <1>1, <3>3, BlockPeaks
      <4> QED BY <2>3, <3>1, <3>3, <4>1 DEF Higher
    <3> QED BY <3>2, <3>3
  <2>6. IsHighest(gathered'.peak_occupancy, Leaves(outcomes'))
    BY <2>1, <2>2, <2>3, <2>4, HighestOfMore
  <2>7. IsHighest(gathered'.peak_stem_occupancy, Stems(outcomes'))
    BY <2>1, <2>2, <2>3, <2>4, HighestOfMore
  <2>8. IsHighest(gathered'.peak_cache_bytes, CacheBytes(outcomes'))
    BY <2>1, <2>2, <2>3, <2>5, HighestOfMore
  <2>9. \E i \in DOMAIN outcomes' : PeaksAt(gathered', outcomes'[i])
    <3>0. /\ n + 1 \in DOMAIN outcomes' /\ outcomes'[n + 1] = o
          /\ \A i \in DOMAIN outcomes : i \in DOMAIN outcomes' /\ outcomes'[i] = outcomes[i]
      BY <1>1, <1>2
    <3>1. CASE TotalBytes(o) > gathered.peak_cache_bytes
      <4>1. PeaksAt(gathered', o)
        BY <1>1, <3>1, BlockPeaks
      <4> QED BY <3>0, <4>1
    <3>2. CASE ~(TotalBytes(o) > gathered.peak_cache_bytes)
      <4>1. /\ gathered'.peak_cache_bytes = gathered.peak_cache_bytes
            /\ gathered'.peak_leaf_bytes = gathered.peak_leaf_bytes
            /\ gathered'.peak_stem_bytes = gathered.peak_stem_bytes
        BY <1>1, <3>2, BlockPeaks
      <4>2. CASE outcomes = <<>> /\ gathered.peak_leaf_bytes = 0 /\ gathered.peak_stem_bytes = 0
        <5>1. CacheBytes(outcomes) = {0}
          BY <4>2 DEF CacheBytes
        <5>2. gathered.peak_cache_bytes = 0
          BY <2>2, <5>1 DEF IsHighest
        <5>3. TotalBytes(o) = 0 /\ LeafBytes(o) = 0 /\ StemBytes(o) = 0
          <6>1. LeafBytes(o) \in Nat /\ StemBytes(o) \in Nat
            BY ReportTyped
          <6> QED BY <2>3, <3>2, <5>2, <6>1 DEF TotalBytes
        <5>4. PeaksAt(gathered', o)
          BY <4>1, <4>2, <5>2, <5>3 DEF PeaksAt
        <5> QED BY <3>0, <5>4
      <4>3. ASSUME NEW i \in DOMAIN outcomes, PeaksAt(gathered, outcomes[i])
            PROVE  PeaksAt(gathered', outcomes'[i]) /\ i \in DOMAIN outcomes'
        BY <3>0, <4>1, <4>3 DEF PeaksAt
      <4>4. \/ outcomes = <<>> /\ gathered.peak_leaf_bytes = 0 /\ gathered.peak_stem_bytes = 0
            \/ \E i \in DOMAIN outcomes : PeaksAt(gathered, outcomes[i])
        BY DEF MetricsInv, Peaked
      <4> QED BY <4>2, <4>3, <4>4
    <3> QED BY <3>1, <3>2
  <2> QED BY <2>6, <2>7, <2>8, <2>9 DEF Peaked
<1>8. Tallied'
  <2>1. /\ gathered'.survival = gathered.survival /\ gathered'.stem_survival = gathered.stem_survival
        /\ gathered'.counts = gathered.counts
    BY <1>1, BlockAdds
  <2> QED BY <1>2, <2>1 DEF MetricsInv, Tallied
<1> QED BY <1>3, <1>5, <1>6, <1>7, <1>8 DEF MetricsInv

(* The run begins with nothing recorded. *)
LEMMA MetricsStart == MetricsInit => MetricsInv
<1> SUFFICES ASSUME MetricsInit PROVE MetricsInv
  OBVIOUS
<1>1. /\ gathered = RunMetricsNew /\ pending = 0 /\ ages = [leaf |-> <<>>, stem |-> <<>>]
      /\ inv = <<>> /\ outcomes = <<>>
  BY DEF MetricsInit
<1>2. ToSet(inv) = {}
  BY <1>1 DEF ToSet
<1>3. HistogramNew \in Histograms /\ Tallies(HistogramNew, <<>>)
  <2>1. SumFunction(<<>>) = 0
    BY SumOfNone
  <2> QED BY <2>1, OccurrencesNone DEF HistogramNew, Histograms, Tallies
<1>4. MetricsTyped
  BY <1>1, <1>2, <1>3 DEF MetricsTyped, RunMetrics, RunMetricsNew
<1>5. Sampled
  BY <1>1 DEF Sampled, RunMetricsNew
<1>6. Totalled
  <2>1. gathered.series = <<>>
    BY <1>1 DEF RunMetricsNew
  <2>2. \A c \in DOMAIN TotalOf : gathered[c] = 0
    BY <1>1 DEF TotalOf, RunMetricsNew
  <2>3. /\ gathered.total_invalidations = 0 /\ gathered.total_stem_invalidations = 0
        /\ gathered.total_witness_bytes_sent_stem_opt = 0
    BY <1>1 DEF RunMetricsNew
  <2> QED BY <1>1, <2>1, <2>2, <2>3, SumOverNone DEF Totalled
<1>7. Peaked
  <2>1. Leaves(<<>>) = {0} /\ Stems(<<>>) = {0} /\ CacheBytes(<<>>) = {0}
    BY DEF Leaves, Stems, CacheBytes
  <2>2. IsHighest(0, {0})
    BY DEF IsHighest
  <2>3. /\ gathered.peak_occupancy = 0 /\ gathered.peak_stem_occupancy = 0
        /\ gathered.peak_cache_bytes = 0
        /\ gathered.peak_leaf_bytes = 0 /\ gathered.peak_stem_bytes = 0
    BY <1>1 DEF RunMetricsNew
  <2> QED BY <1>1, <2>1, <2>2, <2>3 DEF Peaked
<1>8. Tallied
  <2>1. /\ gathered.survival = HistogramNew /\ gathered.stem_survival = HistogramNew
        /\ gathered.counts = <<>>
    BY <1>1 DEF RunMetricsNew
  <2>2. CountsOf(<<>>, <<>>)
    BY <1>1, <1>2 DEF CountsOf
  <2> QED BY <1>1, <1>3, <2>1, <2>2 DEF Tallied
<1> QED BY <1>4, <1>5, <1>6, <1>7, <1>8 DEF MetricsInv

(* The run's record is at all times what was recorded: the inductive       *)
(* invariant of metrics.rs 57-217.                                         *)
THEOREM MetricsInvariant == MetricsSpec => []MetricsInv
<1>1. MetricsInit => MetricsInv
  BY MetricsStart
<1>2. MetricsInv /\ [MetricsNext]_metricsVars => MetricsInv'
  <2> SUFFICES ASSUME MetricsInv, [MetricsNext]_metricsVars PROVE MetricsInv'
    OBVIOUS
  <2>1. ASSUME NEW age \in Ages, RecordSurvival(age) PROVE MetricsInv'
    <3>1. age \in Nat
      BY MetricsAssumption
    <3> QED BY <2>1, <3>1, RecordSurvivalStep
  <2>2. ASSUME NEW age \in Ages, RecordStemSurvival(age) PROVE MetricsInv'
    <3>1. age \in Nat
      BY MetricsAssumption
    <3> QED BY <2>2, <3>1, RecordStemSurvivalStep
  <2>3. ASSUME NEW addr \in Contracts, RecordInvalidation(addr) PROVE MetricsInv'
    BY <2>3, RecordInvalidationStep
  <2>4. ASSUME NEW o \in Outcomes, RecordBlock(Reported(o)) PROVE MetricsInv'
    <3> DEFINE r == Reported(o)
    <3>1. r \in Reports /\ r.invalidations = pending
      BY ReportedTyped
    <3>2. RecordBlock(r)
      BY <2>4
    <3> HIDE DEF r
    <3> QED BY <3>1, <3>2, RecordBlockStep
  <2>5. ASSUME UNCHANGED metricsVars PROVE MetricsInv'
    <3>1. /\ gathered' = gathered /\ pending' = pending /\ ages' = ages /\ inv' = inv
          /\ outcomes' = outcomes
      BY <2>5 DEF metricsVars
    <3> QED BY <3>1 DEF MetricsInv, MetricsTyped, Sampled, Totalled, Peaked, Tallied
  <2> QED BY <2>1, <2>2, <2>3, <2>4, <2>5 DEF MetricsNext
<1> QED BY <1>1, <1>2, PTL DEF MetricsSpec

-----------------------------------------------------------------------------
(* The row and the series of a run. *)

(* A column nowhere above another has no larger sum. *)
LEMMA SumOverMonotone ==
  ASSUME NEW T, NEW s \in Seq(T), NEW c, NEW d, ColumnTyped(s, c), ColumnTyped(s, d),
         \A i \in DOMAIN s : s[i][c] <= s[i][d]
  PROVE  SumOver(s, c) <= SumOver(s, d)
<1> DEFINE S == DOMAIN s
           f == [i \in S |-> s[i][c]]
           h == [i \in S |-> s[i][d]]
<1>1. IsFiniteSet(S)
  <2>1. S = 1..Len(s) /\ 1 \in Int /\ Len(s) \in Int
    OBVIOUS
  <2> QED BY <2>1, FS_Interval
<1>2. f \in [S -> Nat] /\ h \in [S -> Nat] /\ \A i \in S : f[i] <= h[i]
  BY DEF ColumnTyped
<1>3. SumOver(s, c) = SumFunction(f) /\ SumOver(s, d) = SumFunction(h)
  BY DEF SumOver
<1> HIDE DEF S, f, h
<1>4. SumFunction(f) <= SumFunction(h)
  BY <1>1, <1>2, SumMonotone
<1> QED BY <1>3, <1>4

(* A column under another name has the same sum. *)
LEMMA SumOverRenamed ==
  ASSUME NEW s, NEW t, NEW c, NEW d, DOMAIN s = DOMAIN t, \A i \in DOMAIN s : s[i][c] = t[i][d]
  PROVE  SumOver(s, c) = SumOver(t, d)
<1>1. [i \in DOMAIN s |-> s[i][c]] = [i \in DOMAIN t |-> t[i][d]]
  OBVIOUS
<1> QED BY <1>1 DEF SumOver

(* A part over the whole is a fraction. *)
LEMMA Fraction ==
  ASSUME NEW num \in Nat, NEW den \in Nat, num <= den
  PROVE  Ratio(num, den)[1] \in 0..Ratio(num, den)[2]
BY DEF Ratio

(* The lines of the series, read back. *)
LEMMA SeriesReads ==
  ASSUME MetricsInv
  PROVE  /\ Len(Series) = Len(outcomes) /\ DOMAIN Series = DOMAIN gathered.series
         /\ DOMAIN Series = DOMAIN outcomes
         /\ \A i \in DOMAIN Series :
              /\ outcomes[i] \in Reports
              /\ gathered.series[i] \in Samples /\ gathered.series[i] = Sample(outcomes[i])
              /\ Series[i] = ReadBack(SeriesPosition, SeriesColumns(gathered.series[i]))
<1>1. gathered.series \in Seq(Samples) /\ outcomes \in Seq(Reports)
  BY DEF MetricsInv, MetricsTyped, RunMetrics
<1>2. /\ Len(gathered.series) = Len(outcomes)
      /\ \A i \in 1..Len(outcomes) : gathered.series[i] = Sample(outcomes[i])
  BY DEF MetricsInv, Sampled
<1> DEFINE n == Len(outcomes)
<1>3. n \in Nat /\ DOMAIN gathered.series = 1..n /\ DOMAIN outcomes = 1..n
  BY <1>1, <1>2
<1>4. Series = [i \in 1..n |-> ReadBack(SeriesPosition, SeriesColumns(gathered.series[i]))]
  BY <1>3 DEF Series
<1>5. Len(Series) = n /\ DOMAIN Series = 1..n
  BY <1>3, <1>4
<1>6. \A i \in 1..n : outcomes[i] \in Reports /\ gathered.series[i] \in Samples
  BY <1>1, <1>2
<1> QED BY <1>2, <1>3, <1>4, <1>5, <1>6

(* Each line of the series, read back, is the outcome of its block. *)
LEMMA LinesAreOutcomes ==
  ASSUME MetricsInv, NEW i \in DOMAIN Series
  PROVE  IsOutcome(Series[i], outcomes[i])
<1> DEFINE s == gathered.series[i]
           o == outcomes[i]
           b == Series[i]
<1>1. o \in Reports /\ s = Sample(o) /\ b = ReadBack(SeriesPosition, SeriesColumns(s))
  BY SeriesReads
<1> HIDE DEF s, o, b
<1>2. /\ b.block_number = s.block_number /\ b.reads = s.reads /\ b.hits = s.hits
      /\ b.misses = s.misses /\ b.block_hit_rate = Ratio(s.hits, s.reads)
      /\ b.bytes_sent = s.witness_sent /\ b.bytes_saved = s.bytes_saved
      /\ b.bytes_naive = s.witness_naive /\ b.floor_bytes = s.floor
      /\ b.invalidations = s.invalidations /\ b.occupancy = s.occupancy
      /\ b.bytes_sent_stem = s.bytes_sent_stem
  BY <1>1, LineReads
<1>3. /\ s.block_number = o.block_number /\ s.reads = o.reads /\ s.hits = o.hits
      /\ s.misses = o.misses /\ s.witness_sent = o.sent /\ s.bytes_saved = o.naive - o.sent
      /\ s.witness_naive = o.naive /\ s.floor = o.floor /\ s.invalidations = o.invalidations
      /\ s.occupancy = o.leaf_entries /\ s.bytes_sent_stem = o.sent_stem
  BY <1>1 DEF Sample
<1>4. o.naive \in Nat /\ o.sent \in Nat
  BY <1>1 DEF Reports, BlockOutcome
<1>5. b.bytes_saved + b.bytes_sent = b.bytes_naive
  BY <1>2, <1>3, <1>4
<1>6. IsOutcome(b, o)
  BY <1>2, <1>3, <1>5 DEF IsOutcome
<1> QED BY <1>6 DEF b, o

(* The sums of the columns that are read back. *)
LEMMA SeriesSums ==
  ASSUME MetricsInv
  PROVE  /\ SumOver(Series, "reads") = gathered.total_reads
         /\ SumOver(Series, "hits") = gathered.total_hits
         /\ SumOver(Series, "misses") = gathered.total_misses
         /\ SumOver(Series, "bytes_naive") = gathered.total_witness_bytes_naive
         /\ SumOver(Series, "bytes_sent") = gathered.total_witness_bytes_sent
         /\ SumOver(Series, "bytes_saved") = gathered.total_bytes_saved
         /\ SumOver(Series, "floor_bytes") = gathered.total_noncacheable_floor_bytes
         /\ SumOver(Series, "bytes_sent_stem") = gathered.total_witness_bytes_sent_stem
         /\ SumOver(Series, "cache_bytes") = gathered.sum_cache_bytes
         /\ SumOver(Series, "invalidations") + pending = gathered.total_invalidations
<1> DEFINE s == gathered.series
<1>1. DOMAIN Series = DOMAIN s
  BY SeriesReads
<1>2. ASSUME NEW i \in DOMAIN Series
      PROVE  /\ Series[i].reads = s[i].reads /\ Series[i].hits = s[i].hits
             /\ Series[i].misses = s[i].misses /\ Series[i].bytes_naive = s[i].witness_naive
             /\ Series[i].bytes_sent = s[i].witness_sent
             /\ Series[i].bytes_saved = s[i].bytes_saved /\ Series[i].floor_bytes = s[i].floor
             /\ Series[i].bytes_sent_stem = s[i].bytes_sent_stem
             /\ Series[i].cache_bytes = s[i].cache_bytes
             /\ Series[i].invalidations = s[i].invalidations
  <2>1. Series[i] = ReadBack(SeriesPosition, SeriesColumns(s[i]))
    BY SeriesReads
  <2> HIDE DEF s
  <2> QED BY <2>1, LineReads
<1> HIDE DEF s
<1>3. /\ SumOver(Series, "reads") = SumOver(s, "reads")
      /\ SumOver(Series, "hits") = SumOver(s, "hits")
      /\ SumOver(Series, "misses") = SumOver(s, "misses")
      /\ SumOver(Series, "bytes_naive") = SumOver(s, "witness_naive")
      /\ SumOver(Series, "bytes_sent") = SumOver(s, "witness_sent")
      /\ SumOver(Series, "bytes_saved") = SumOver(s, "bytes_saved")
      /\ SumOver(Series, "floor_bytes") = SumOver(s, "floor")
      /\ SumOver(Series, "bytes_sent_stem") = SumOver(s, "bytes_sent_stem")
      /\ SumOver(Series, "cache_bytes") = SumOver(s, "cache_bytes")
      /\ SumOver(Series, "invalidations") = SumOver(s, "invalidations")
  BY <1>1, <1>2, SumOverRenamed
<1>4. \A c \in DOMAIN TotalOf : gathered[c] = SumOver(s, TotalOf[c])
  BY DEF MetricsInv, Totalled, s
<1>5. /\ gathered.total_reads = SumOver(s, "reads") /\ gathered.total_hits = SumOver(s, "hits")
      /\ gathered.total_misses = SumOver(s, "misses")
      /\ gathered.total_witness_bytes_naive = SumOver(s, "witness_naive")
      /\ gathered.total_witness_bytes_sent = SumOver(s, "witness_sent")
      /\ gathered.total_bytes_saved = SumOver(s, "bytes_saved")
      /\ gathered.total_noncacheable_floor_bytes = SumOver(s, "floor")
      /\ gathered.total_witness_bytes_sent_stem = SumOver(s, "bytes_sent_stem")
      /\ gathered.sum_cache_bytes = SumOver(s, "cache_bytes")
  BY <1>4 DEF TotalOf
<1>6. gathered.total_invalidations = SumOver(s, "invalidations") + pending
  BY DEF MetricsInv, Totalled, s
<1> QED BY <1>3, <1>5, <1>6

(* No part of a total is larger than the whole. *)
LEMMA TotalsBounded ==
  ASSUME MetricsInv
  PROVE  /\ gathered.total_hits <= gathered.total_reads
         /\ gathered.total_bytes_saved <= gathered.total_witness_bytes_naive
         /\ gathered.total_witness_bytes_sent_stem <= gathered.total_witness_bytes_naive
         /\ gathered.total_noncacheable_floor_bytes <= gathered.total_witness_bytes_naive
<1> DEFINE s == gathered.series
<1>1. s \in Seq(Samples)
  BY DEF MetricsInv, MetricsTyped, RunMetrics
<1>2. ASSUME NEW i \in DOMAIN s
      PROVE  /\ s[i].hits <= s[i].reads /\ s[i].bytes_saved <= s[i].witness_naive
             /\ s[i].bytes_sent_stem <= s[i].witness_naive /\ s[i].floor <= s[i].witness_naive
  <2>1. outcomes[i] \in Reports /\ s[i] = Sample(outcomes[i])
    BY SeriesReads
  <2> HIDE DEF s
  <2> QED BY <2>1 DEF Sample, Reports, BlockOutcome
<1>3. \A c \in DOMAIN TotalOf : gathered[c] = SumOver(s, TotalOf[c])
  BY DEF MetricsInv, Totalled
<1> HIDE DEF s
<1>4. /\ gathered.total_reads = SumOver(s, "reads") /\ gathered.total_hits = SumOver(s, "hits")
      /\ gathered.total_witness_bytes_naive = SumOver(s, "witness_naive")
      /\ gathered.total_bytes_saved = SumOver(s, "bytes_saved")
      /\ gathered.total_noncacheable_floor_bytes = SumOver(s, "floor")
      /\ gathered.total_witness_bytes_sent_stem = SumOver(s, "bytes_sent_stem")
  BY <1>3 DEF TotalOf
<1>5. /\ ColumnTyped(s, "reads") /\ ColumnTyped(s, "hits") /\ ColumnTyped(s, "witness_naive")
      /\ ColumnTyped(s, "bytes_saved") /\ ColumnTyped(s, "floor")
      /\ ColumnTyped(s, "bytes_sent_stem")
  BY <1>1, SamplesTyped
<1>6. SumOver(s, "hits") <= SumOver(s, "reads")
  BY <1>1, <1>2, <1>5, SumOverMonotone
<1>7. SumOver(s, "bytes_saved") <= SumOver(s, "witness_naive")
  BY <1>1, <1>2, <1>5, SumOverMonotone
<1>8. SumOver(s, "bytes_sent_stem") <= SumOver(s, "witness_naive")
  BY <1>1, <1>2, <1>5, SumOverMonotone
<1>9. SumOver(s, "floor") <= SumOver(s, "witness_naive")
  BY <1>1, <1>2, <1>5, SumOverMonotone
<1> QED BY <1>4, <1>6, <1>7, <1>8, <1>9

(* The fractions of the row are between 0 and 1. *)
LEMMA FractionsBounded ==
  ASSUME MetricsInv
  PROVE  \A c \in Fractions : Row[c][1] \in 0..Row[c][2]
<1> DEFINE hits == gathered.total_hits
           reads == gathered.total_reads
           naive == gathered.total_witness_bytes_naive
           saved == gathered.total_bytes_saved
           stem == gathered.total_witness_bytes_sent_stem
           floor == gathered.total_noncacheable_floor_bytes
<1>1. hits \in Nat /\ reads \in Nat /\ naive \in Nat /\ saved \in Nat /\ stem \in Nat /\ floor \in Nat
  BY DEF MetricsInv, MetricsTyped, RunMetrics
<1>2. hits <= reads /\ saved <= naive /\ stem <= naive /\ floor <= naive
  BY TotalsBounded
<1>3. /\ Row.overall_hit_rate = Ratio(hits, reads)
      /\ Row.overall_compression_ratio = Ratio(saved, naive)
      /\ Row.compression_stem = Ratio(naive - stem, naive)
      /\ Row.cacheable_fraction = Ratio(naive - floor, naive)
  BY RowReads
<1> HIDE DEF hits, reads, naive, saved, stem, floor
<1>4. /\ naive - stem \in Nat /\ naive - stem <= naive
      /\ naive - floor \in Nat /\ naive - floor <= naive
  BY <1>1, <1>2
<1>5. Row.overall_hit_rate[1] \in 0..Row.overall_hit_rate[2]
  BY <1>1, <1>2, <1>3, Fraction
<1>6. Row.overall_compression_ratio[1] \in 0..Row.overall_compression_ratio[2]
  BY <1>1, <1>2, <1>3, Fraction
<1>7. Row.compression_stem[1] \in 0..Row.compression_stem[2]
  BY <1>1, <1>3, <1>4, Fraction
<1>8. Row.cacheable_fraction[1] \in 0..Row.cacheable_fraction[2]
  BY <1>1, <1>3, <1>4, Fraction
<1> QED BY <1>5, <1>6, <1>7, <1>8 DEF Fractions

(* The peaks, read back. *)
LEMMA PeaksRead ==
  ASSUME MetricsInv
  PROVE  /\ Row.peak_occupancy = Max({0} \cup {Series[i].occupancy : i \in DOMAIN Series})
         /\ Row.stem_peak_occupancy = Max({0} \cup {outcomes[i].stem_entries : i \in DOMAIN outcomes})
         /\ PeaksOfOneBlock(Row, Series)
<1>1. ASSUME NEW i \in DOMAIN Series
      PROVE  /\ Series[i].occupancy = outcomes[i].leaf_entries
             /\ Series[i].cache_bytes = TotalBytes(outcomes[i])
  <2> DEFINE s == gathered.series[i]
  <2>1. s = Sample(outcomes[i]) /\ Series[i] = ReadBack(SeriesPosition, SeriesColumns(s))
    BY SeriesReads
  <2>2. s.occupancy = outcomes[i].leaf_entries /\ s.cache_bytes = TotalBytes(outcomes[i])
    BY <2>1 DEF Sample
  <2> HIDE DEF s
  <2>3. Series[i].occupancy = s.occupancy /\ Series[i].cache_bytes = s.cache_bytes
    BY <2>1, LineReads
  <2> QED BY <2>2, <2>3
<1>2. DOMAIN Series = DOMAIN outcomes
  BY SeriesReads
<1>3. /\ IsHighest(gathered.peak_occupancy, Leaves(outcomes))
      /\ IsHighest(gathered.peak_stem_occupancy, Stems(outcomes))
      /\ IsHighest(gathered.peak_cache_bytes, CacheBytes(outcomes))
  BY DEF MetricsInv, Peaked
<1>4. /\ Leaves(outcomes) = {0} \cup {Series[i].occupancy : i \in DOMAIN Series}
      /\ CacheBytes(outcomes) = {0} \cup {Series[i].cache_bytes : i \in DOMAIN Series}
  BY <1>1, <1>2 DEF Leaves, CacheBytes
<1>5. /\ gathered.peak_occupancy = Max(Leaves(outcomes))
      /\ gathered.peak_stem_occupancy = Max(Stems(outcomes))
      /\ gathered.peak_cache_bytes = Max(CacheBytes(outcomes))
  BY <1>3, HighestIsMax
<1>6. /\ Row.peak_occupancy = gathered.peak_occupancy
      /\ Row.stem_peak_occupancy = gathered.peak_stem_occupancy
      /\ Row.peak_cache_bytes = gathered.peak_cache_bytes
      /\ Row.peak_leaf_bytes = gathered.peak_leaf_bytes
      /\ Row.peak_stem_bytes = gathered.peak_stem_bytes
  BY RowReads
<1>7. ASSUME Series # <<>>
      PROVE  \E i \in DOMAIN Series :
               /\ Series[i].cache_bytes = Row.peak_cache_bytes
               /\ Row.peak_leaf_bytes = LEAF_ENTRY_BYTES * outcomes[i].leaf_entries
               /\ Row.peak_stem_bytes = STEM_ENTRY_BYTES * outcomes[i].stem_entries
  <2>1. outcomes # <<>>
    <3>1. Series = [i \in DOMAIN gathered.series |-> Series[i]]
      BY DEF Series
    <3>2. outcomes = <<>> => DOMAIN gathered.series = {}
      BY SeriesReads
    <3>3. outcomes = <<>> => Series = <<>>
      BY <3>1, <3>2
    <3> QED BY <1>7, <3>3
  <2>2. PICK i \in DOMAIN outcomes : PeaksAt(gathered, outcomes[i])
    BY <2>1 DEF MetricsInv, Peaked
  <2>3. i \in DOMAIN Series /\ outcomes[i] \in Reports
    BY <1>2, SeriesReads
  <2>4. Series[i].cache_bytes = Row.peak_cache_bytes
    BY <1>1, <1>6, <2>2, <2>3 DEF PeaksAt
  <2>5. outcomes[i].leaf_entries \in Nat /\ outcomes[i].stem_entries \in Nat
    BY <2>3, ReportTyped
  <2>6. /\ gathered.peak_leaf_bytes = outcomes[i].leaf_entries * 33
        /\ gathered.peak_stem_bytes = outcomes[i].stem_entries * 128
    BY <2>2 DEF PeaksAt, LeafBytes, StemBytes, LEAF_ENTRY_BYTES, STEM_ENTRY_BYTES
  <2>7. /\ Row.peak_leaf_bytes = 33 * outcomes[i].leaf_entries
        /\ Row.peak_stem_bytes = 128 * outcomes[i].stem_entries
    BY <1>6, <2>5, <2>6
  <2> QED BY <2>3, <2>4, <2>7 DEF LEAF_ENTRY_BYTES, STEM_ENTRY_BYTES
<1>8. Row.stem_peak_occupancy = Max({0} \cup {outcomes[i].stem_entries : i \in DOMAIN outcomes})
  BY <1>5, <1>6 DEF Stems
<1> QED BY <1>4, <1>5, <1>6, <1>7, <1>8 DEF PeaksOfOneBlock

(* The row and the series of the invariant's states. *)
LEMMA RowRead ==
  ASSUME MetricsInv
  PROVE  RowMatchesSeries
<1>1. Len(Series) = Len(outcomes) /\ DOMAIN Series = DOMAIN outcomes
  BY SeriesReads
<1>2. \A i \in DOMAIN Series : IsOutcome(Series[i], outcomes[i])
  BY LinesAreOutcomes
<1>3. Row.blocks_counted = Len(Series)
  BY <1>1, RowReads DEF MetricsInv, Sampled
<1>4. /\ Row.total_reads = gathered.total_reads /\ Row.total_hits = gathered.total_hits
      /\ Row.total_misses = gathered.total_misses
      /\ Row.bytes_naive = gathered.total_witness_bytes_naive
      /\ Row.bytes_sent = gathered.total_witness_bytes_sent
      /\ Row.bytes_saved = gathered.total_bytes_saved
      /\ Row.floor_bytes = gathered.total_noncacheable_floor_bytes
      /\ Row.bytes_sent_stem = gathered.total_witness_bytes_sent_stem
      /\ Row.bytes_sent_stem_opt = gathered.total_witness_bytes_sent_stem_opt
      /\ Row.total_invalidations = gathered.total_invalidations
      /\ Row.total_stem_invalidations = gathered.total_stem_invalidations
      /\ Row.overall_hit_rate = Ratio(gathered.total_hits, gathered.total_reads)
      /\ Row.overall_compression_ratio =
           Ratio(gathered.total_bytes_saved, gathered.total_witness_bytes_naive)
      /\ Row.mean_cache_bytes = Ratio(gathered.sum_cache_bytes, gathered.blocks_counted)
      /\ Row.blocks_counted = gathered.blocks_counted
  BY RowReads
<1>5. \A c \in DOMAIN SumOf : Row[c] = SumOver(Series, SumOf[c])
  BY <1>4, SeriesSums DEF SumOf
<1>6. Row.total_invalidations = SumOver(Series, "invalidations") + pending
  BY <1>4, SeriesSums
<1>7. /\ Row.total_stem_invalidations = SumOver(outcomes, "stem_invalidations")
      /\ Row.bytes_sent_stem_opt = SumOver(outcomes, "sent_stem_opt")
  BY <1>4 DEF MetricsInv, Totalled
<1>8. /\ Row.overall_hit_rate = Ratio(Row.total_hits, Row.total_reads)
      /\ Row.overall_compression_ratio = Ratio(Row.bytes_saved, Row.bytes_naive)
  BY <1>4
<1>9. \A c \in Fractions : Row[c][1] \in 0..Row[c][2]
  BY FractionsBounded
<1>10. Row.mean_cache_bytes = Ratio(SumOver(Series, "cache_bytes"), Len(Series))
  BY <1>3, <1>4, SeriesSums
<1>11. /\ Row.peak_occupancy = Max({0} \cup {Series[i].occupancy : i \in DOMAIN Series})
       /\ Row.stem_peak_occupancy = Max({0} \cup {outcomes[i].stem_entries : i \in DOMAIN outcomes})
       /\ PeaksOfOneBlock(Row, Series)
  BY PeaksRead
<1>12. \A c \in DOMAIN Label : Row[c] = Label[c]
  BY MetricsAssumption, RowReads
<1> QED BY <1>1, <1>2, <1>3, <1>5, <1>6, <1>7, <1>8, <1>9, <1>10, <1>11, <1>12
        DEF RowMatchesSeries

(* A reader finds in the row of a run the sum of its series, its labels,   *)
(* fractions between 0 and 1 and the peaks of one block (metrics.rs        *)
(* 127-217, output.rs 54-241).                                             *)
THEOREM RowAlwaysMatchesSeries == MetricsSpec => []RowMatchesSeries
<1>1. MetricsInv => RowMatchesSeries
  BY RowRead
<1> QED BY <1>1, MetricsInvariant, PTL

-----------------------------------------------------------------------------
(* The tallies of a run. *)

(* The lesser of two numbers. *)
LEMMA LesserOfTwo ==
  ASSUME NEW k \in Nat, NEW n \in Nat
  PROVE  Min({k, n}) = IF k <= n THEN k ELSE n
<1> DEFINE m == IF k <= n THEN k ELSE n
<1>1. m \in {k, n} /\ \A y \in {k, n} : m <= y
  OBVIOUS
<1>2. \A x \in {k, n} : (\A y \in {k, n} : x <= y) => x = m
  OBVIOUS
<1> HIDE DEF m
<1>3. Min({k, n}) = m
  BY <1>1, <1>2 DEF Min
<1> QED BY <1>3 DEF m

(* There are finitely many contracts in a list. *)
LEMMA MetFinite ==
  ASSUME NEW T, NEW s \in Seq(T)
  PROVE  IsFiniteSet(ToSet(s))
<1> DEFINE n == Len(s)
<1>1. n \in Nat /\ DOMAIN s = 1..n
  OBVIOUS
<1>2. IsFiniteSet(1..n)
  <2>1. 1 \in Int /\ n \in Int
    BY <1>1
  <2> HIDE DEF n
  <2> QED BY <2>1, FS_Interval
<1>3. s \in Surjection(1..n, ToSet(s))
  BY <1>1 DEF Surjection, ToSet
<1> HIDE DEF n
<1> QED BY <1>2, <1>3, FS_Surjection

(* Before orders the contracts. *)
BeforeIn(counts, S) == {ab \in S \X S : Before(counts, ab[1], ab[2])}

(* It is a strict total order: ties are settled by the address. *)
LEMMA BeforeOrders ==
  ASSUME NEW S \in SUBSET Nat, NEW counts \in [S -> Nat]
  PROVE  Orders(BeforeIn(counts, S), S)
<1>1. \A a, b \in S : <<a, b>> \in BeforeIn(counts, S) <=> Before(counts, a, b)
  BY DEF BeforeIn
<1>2. \A a \in S : a \in Nat /\ counts[a] \in Nat
  OBVIOUS
<1>3. \A a \in S : ~Before(counts, a, a)
  BY <1>2 DEF Before
<1>4. \A a, b, c \in S : Before(counts, a, b) /\ Before(counts, b, c) => Before(counts, a, c)
  BY <1>2 DEF Before
<1>5. \A a, b \in S : a = b \/ Before(counts, a, b) \/ Before(counts, b, a)
  BY <1>2 DEF Before
<1> QED BY <1>1, <1>3, <1>4, <1>5 DEF Orders

(* The list of contracts is in that order. *)
LEMMA TopInOrder ==
  ASSUME NEW S \in SUBSET Nat, IsFiniteSet(S), NEW counts \in [S -> Nat], NEW k \in Nat
  PROVE  /\ DOMAIN TopKContracts(counts, k) = 1..Min({k, Cardinality(S)})
         /\ RankOrdered(TopKContracts(counts, k), Min({k, Cardinality(S)}), BeforeIn(counts, S), S)
<1> DEFINE R == BeforeIn(counts, S)
           n == Cardinality(S)
           m == Min({k, n})
           q == TopKContracts(counts, k)
<1>1. n \in Nat
  BY FS_CardinalityType
<1>2. m \in 0..n
  BY <1>1, LesserOfTwo
<1>3. q = [i \in 1..m |-> CHOOSE a \in S : Cardinality({b \in S : Before(counts, b, a)}) = i - 1]
  BY DEF TopKContracts
<1>4. \A a \in S : {b \in S : <<b, a>> \in R} = {b \in S : Before(counts, b, a)}
  BY DEF BeforeIn
<1> HIDE DEF R, n, m, q
<1>5. ByRank(q, m, R, S)
  <2> SUFFICES ASSUME NEW i \in 1..m, NEW b \in S, RankIn(R, S, b) = i - 1
               PROVE  q[i] \in S /\ RankIn(R, S, q[i]) = i - 1
    BY DEF ByRank
  <2>1. Cardinality({c \in S : Before(counts, c, b)}) = i - 1
    BY <1>4 DEF RankIn
  <2>2. q[i] = CHOOSE a \in S : Cardinality({c \in S : Before(counts, c, a)}) = i - 1
    BY <1>3
  <2>3. q[i] \in S /\ Cardinality({c \in S : Before(counts, c, q[i])}) = i - 1
    BY <2>1, <2>2
  <2> QED BY <1>4, <2>3 DEF RankIn
<1>6. Orders(R, S) /\ m \in 0..Cardinality(S)
  BY <1>2, BeforeOrders DEF R, n
<1>7. RankOrdered(q, m, R, S)
  BY <1>5, <1>6, RankedInOrder
<1> QED BY <1>3, <1>7 DEF R, n, m, q

(* The tallies of the invariant's states. *)
LEMMA TalliesRead ==
  ASSUME MetricsInv
  PROVE  TalliesAreExact
<1> DEFINE met == ToSet(inv)
           count == [a \in met |-> Occurrences(inv, {a})]
           R == BeforeIn(count, met)
           n == Cardinality(met)
           m == Min({TopK, n})
           top == TopKContracts(count, TopK)
           listed == TopContracts
           tops == {listed[i].address : i \in DOMAIN listed}
<1>1. inv \in Seq(Contracts) /\ gathered.counts \in [met -> Nat]
  BY DEF MetricsInv, MetricsTyped, RunMetrics
<1>2. gathered.counts = count
  <2>1. \A a \in met : gathered.counts[a] = Occurrences(inv, {a})
    BY DEF MetricsInv, Tallied, CountsOf
  <2> QED BY <1>1, <2>1
<1>3. met \in SUBSET Nat /\ IsFiniteSet(met)
  <2>1. met \in SUBSET Contracts
    BY <1>1 DEF ToSet
  <2>2. IsFiniteSet(met)
    BY <1>1, MetFinite
  <2> QED BY <2>1, <2>2, MetricsAssumption
<1>4. count \in [met -> Nat]
  BY <1>1, <1>2
<1>5. n \in Nat
  BY <1>3, FS_CardinalityType
<1>6. TopK \in Nat \ {0}
  BY MetricsAssumption
<1>7. m \in Nat /\ (m = TopK \/ m = n)
  BY <1>5, <1>6, LesserOfTwo
<1>8. \A b \in 0..SURVIVAL_BUCKETS - 1 : Row[BucketName(b)] = Occurrences(ages.leaf, AgesOf(b))
  BY RowReads DEF MetricsInv, Tallied, Tallies
<1>9. /\ Row.mean_survival = Ratio(SumFunction(ages.leaf), Len(ages.leaf))
      /\ Row.stem_mean_survival = Ratio(SumFunction(ages.stem), Len(ages.stem))
  BY RowReads DEF MetricsInv, Tallied, Tallies
<1>10. listed = [i \in DOMAIN top |->
                   ReadBack(ContractPosition, ContractColumns(top[i], count[top[i]]))]
  BY <1>2 DEF TopContracts
<1> HIDE DEF met, count, listed
<1>11. DOMAIN top = 1..m /\ RankOrdered(top, m, R, met)
  BY <1>3, <1>4, <1>6, TopInOrder
<1> HIDE DEF top, m, n
<1>12. DOMAIN listed = 1..m /\ Len(listed) = m
  BY <1>7, <1>10, <1>11
<1>13. \A i \in 1..m : listed[i].address = top[i] /\ listed[i].invalidations = count[top[i]]
  BY <1>10, <1>11, ContractReads
<1>14. \A i \in DOMAIN listed : listed[i].invalidations = count[listed[i].address]
  BY <1>12, <1>13
<1>15. \A a, b \in met : <<a, b>> \in R => Before(count, a, b)
  BY DEF BeforeIn
<1> HIDE DEF R
<1>16. ASSUME NEW i \in 1..m - 1
       PROVE  Before(count, listed[i].address, listed[i + 1].address)
  <2>1. i \in 1..m /\ i + 1 \in 1..m /\ i < i + 1
    BY <1>7
  <2>2. top[i] \in met /\ top[i + 1] \in met /\ <<top[i], top[i + 1]>> \in R
    BY <1>11, <2>1 DEF RankOrdered
  <2> QED BY <1>13, <1>15, <2>1, <2>2
<1>17. ASSUME NEW a \in met \ tops PROVE count[a] <= count[Last(listed).address]
  <2>1. \A i \in 1..m : top[i] # a
    BY <1>12, <1>13
  <2>2. m < n /\ \A i \in 1..m : <<top[i], a>> \in R
    BY <1>11, <2>1 DEF RankOrdered, n
  <2>3. m \in 1..m
    BY <1>5, <1>6, <1>7, <2>2
  <2>4. Last(listed).address = top[m]
    <3>1. Last(listed) = listed[m]
      BY <1>12 DEF Last
    <3> QED BY <1>13, <2>3, <3>1
  <2>5. top[m] \in met /\ Before(count, top[m], a)
    <3>1. top[m] \in met
      BY <1>11, <2>3 DEF RankOrdered
    <3> QED BY <1>15, <2>2, <2>3, <3>1
  <2>6. count[top[m]] \in Nat /\ count[a] \in Nat
    BY <1>4, <2>5
  <2> QED BY <2>4, <2>5, <2>6 DEF Before
<1>18. Len(listed) = Min({TopK, Cardinality(met)})
  BY <1>12 DEF m, n
<1>19. \A i \in 1..Len(listed) - 1 : Before(count, listed[i].address, listed[i + 1].address)
  BY <1>12, <1>16
<1> QED BY <1>8, <1>9, <1>14, <1>17, <1>18, <1>19 DEF TalliesAreExact, met, count, listed

(* The histogram counts each survival in the one bucket of its age, and    *)
(* the list of contracts holds those with the most invalidations, in order *)
(* (metrics.rs 14-54, output.rs 137-139 and 243-254).                      *)
THEOREM TalliesAlwaysExact == MetricsSpec => []TalliesAreExact
<1>1. MetricsInv => TalliesAreExact
  BY TalliesRead
<1> QED BY <1>1, MetricsInvariant, PTL

=============================================================================
