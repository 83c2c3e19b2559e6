--------------------------- MODULE ScraperProofs ---------------------------
(***************************************************************************)
(* Proofs about the scraper, for every range of blocks, every size of a    *)
(* shard, every number of workers and every bound of the results queue.    *)
(***************************************************************************)
EXTENDS Scraper, CollectionProofs

(* Dataset's InOrder lists a finite set, each of its members once. *)
LEMMA InOrderLists ==
  ASSUME NEW S \in SUBSET Int, IsFiniteSet(S)
  PROVE  Enumerates(InOrder(S), S) /\ Len(InOrder(S)) = Cardinality(S)
<1>1. InOrder(S) = Ranked(S)
  BY DEF InOrder, Ranked
<1> QED BY <1>1, RankedLists

-----------------------------------------------------------------------------
(* q is ascending and lists what the first n lists of ls do. *)
Joined(q, ls, n) ==
  /\ q \in Seq(Int) /\ AscendingList(q)
  /\ \A k \in 1..Len(q) : \E i \in 1..n : \E j \in 1..Len(ls[i]) : q[k] = ls[i][j]
  /\ \A i \in 1..n : \A j \in 1..Len(ls[i]) : \E k \in 1..Len(q) : q[k] = ls[i][j]

(* Ascending lists, each above those before it. *)
Stacked(ls) ==
  /\ Len(ls) \in Nat
  /\ \A i \in 1..Len(ls) : ls[i] \in Seq(Int) /\ AscendingList(ls[i])
  /\ \A i, j \in 1..Len(ls) : i < j =>
       \A k \in 1..Len(ls[i]), m \in 1..Len(ls[j]) : ls[i][k] < ls[j][m]

(* One more list on top of those joined. *)
LEMMA JoinOne ==
  ASSUME NEW ls, Stacked(ls), NEW n \in Nat, n + 1 \in 1..Len(ls), n # 0,
         NEW q, Joined(q, ls, n)
  PROVE  Joined(q \o ls[n + 1], ls, n + 1)
<1> DEFINE top == ls[n + 1]
           r == q \o top
<1>1. q \in Seq(Int) /\ top \in Seq(Int) /\ AscendingList(q) /\ AscendingList(top)
  BY DEF Joined, Stacked
<1>2. /\ r \in Seq(Int) /\ Len(r) = Len(q) + Len(top)
      /\ \A i \in 1..Len(q) + Len(top) :
           r[i] = IF i <= Len(q) THEN q[i] ELSE top[i - Len(q)]
  BY <1>1, ConcatProperties
<1>3. Len(q) \in Nat /\ Len(top) \in Nat
  BY <1>1
<1>4. \A i \in 1..Len(q) : \A j \in 1..Len(top) : q[i] < top[j]
  <2> TAKE i \in 1..Len(q)
  <2> TAKE j \in 1..Len(top)
  <2>1. PICK a \in 1..n : \E b \in 1..Len(ls[a]) : q[i] = ls[a][b]
    BY DEF Joined
  <2>2. a \in 1..Len(ls) /\ a < n + 1
    BY DEF Stacked
  <2> QED BY <2>1, <2>2 DEF Stacked
<1>5. AscendingList(r)
  <2> SUFFICES ASSUME NEW i \in 1..Len(r), NEW j \in 1..Len(r), i < j PROVE r[i] < r[j]
    BY DEF AscendingList
  <2>1. CASE j <= Len(q)
    <3>1. i \in 1..Len(q) /\ j \in 1..Len(q) /\ r[i] = q[i] /\ r[j] = q[j]
      BY <1>2, <1>3, <2>1
    <3> QED BY <1>1, <3>1 DEF AscendingList
  <2>2. CASE i <= Len(q) /\ ~(j <= Len(q))
    <3>1. /\ i \in 1..Len(q) /\ j - Len(q) \in 1..Len(top)
          /\ r[i] = q[i] /\ r[j] = top[j - Len(q)]
      BY <1>2, <1>3, <2>2
    <3> QED BY <1>4, <3>1
  <2>3. CASE ~(i <= Len(q))
    <3>1. /\ i - Len(q) \in 1..Len(top) /\ j - Len(q) \in 1..Len(top)
          /\ i - Len(q) < j - Len(q) /\ ~(j <= Len(q))
          /\ i \in 1..Len(q) + Len(top) /\ j \in 1..Len(q) + Len(top)
      <4> DEFINE m == Len(q)
                 k == Len(top)
      <4>1. m \in Nat /\ k \in Nat /\ i \in 1..m + k /\ j \in 1..m + k /\ i < j /\ ~(i <= m)
        BY <1>2, <1>3, <2>3
      <4> HIDE DEF m, k
      <4>2. i - m \in 1..k /\ j - m \in 1..k /\ i - m < j - m /\ ~(j <= m)
        BY <4>1
      <4> QED BY <4>1, <4>2 DEF m, k
    <3>2. r[i] = top[i - Len(q)] /\ r[j] = top[j - Len(q)]
      BY <1>2, <2>3, <3>1
    <3> QED BY <1>1, <3>1, <3>2 DEF AscendingList
  <2> QED BY <1>3, <2>1, <2>2, <2>3
<1>6. ASSUME NEW k \in 1..Len(r)
      PROVE  \E i \in 1..n + 1 : \E j \in 1..Len(ls[i]) : r[k] = ls[i][j]
  <2>1. CASE k <= Len(q)
    <3>1. k \in 1..Len(q) /\ r[k] = q[k]
      BY <1>2, <1>3, <2>1
    <3>2. PICK i \in 1..n : \E j \in 1..Len(ls[i]) : q[k] = ls[i][j]
      BY <3>1 DEF Joined
    <3>3. i \in 1..n + 1
      OBVIOUS
    <3> QED BY <3>1, <3>2, <3>3
  <2>2. CASE ~(k <= Len(q))
    <3>1. k - Len(q) \in 1..Len(top) /\ r[k] = top[k - Len(q)] /\ n + 1 \in 1..n + 1
      BY <1>2, <1>3, <2>2
    <3> QED BY <3>1
  <2> QED BY <2>1, <2>2
<1>7. ASSUME NEW i \in 1..n + 1, NEW j \in 1..Len(ls[i])
      PROVE  \E k \in 1..Len(r) : r[k] = ls[i][j]
  <2>1. CASE i \in 1..n
    <3>1. PICK k \in 1..Len(q) : q[k] = ls[i][j]
      BY <2>1 DEF Joined
    <3>2. k \in 1..Len(r) /\ r[k] = q[k]
      BY <1>2, <1>3
    <3> QED BY <3>1, <3>2
  <2>2. CASE i = n + 1
    <3>1. Len(q) + j \in 1..Len(r) /\ ~(Len(q) + j <= Len(q)) /\ (Len(q) + j) - Len(q) = j
      BY <1>2, <1>3, <2>2
    <3>2. r[Len(q) + j] = top[j]
      BY <1>2, <3>1
    <3> QED BY <2>2, <3>1, <3>2
  <2> QED BY <2>1, <2>2
<1> HIDE DEF r
<1>8. Joined(r, ls, n + 1)
  BY <1>2, <1>5, <1>6, <1>7 DEF Joined
<1> QED BY <1>8 DEF r

(* FlattenSeq of stacked lists ascends, and lists what they list. *)
LEMMA FlattenAscends ==
  ASSUME NEW ls, ls \in Seq(Seq(Int)), Stacked(ls)
  PROVE  Joined(FlattenSeq(ls), ls, Len(ls))
<1>1. CASE Len(ls) = 0
  <2>1. ls = <<>> /\ FlattenSeq(ls) = ls
    BY <1>1, EmptySeq DEF FlattenSeq
  <2>2. <<>> \in Seq(Int) /\ Len(<<>>) = 0 /\ \A n : n \notin 1..0
    OBVIOUS
  <2>3. AscendingList(<<>>)
    BY <2>2 DEF AscendingList
  <2>4. Joined(<<>>, ls, 0)
    BY <2>2, <2>3 DEF Joined
  <2> QED BY <1>1, <2>1, <2>4
<1>2. CASE Len(ls) # 0
  <2>0. Len(ls) \in Nat \ {0}
    BY <1>2
  <2>1. PICK g : JoinsOf(g, ls, Len(ls)) /\ FlattenSeq(ls) = g[Len(ls)]
    BY <2>0, FlattenUnfolds
  <2> DEFINE G == {m \in Nat : m \in 1..Len(ls) => Joined(g[m], ls, m)}
  <2>2. 0 \in G
    OBVIOUS
  <2>3. ASSUME NEW m \in G PROVE m + 1 \in G
    <3> SUFFICES ASSUME m + 1 \in 1..Len(ls) PROVE Joined(g[m + 1], ls, m + 1)
      OBVIOUS
    <3>1. g[m + 1] = IF m + 1 = 1 THEN ls[m + 1] ELSE g[(m + 1) - 1] \o ls[m + 1]
      BY <2>0, <2>1 DEF JoinsOf
    <3>2. CASE m = 0
      <4>1. g[m + 1] = ls[1] /\ m + 1 = 1 /\ 1 \in 1..Len(ls)
        BY <3>1, <3>2
      <4>2. ls[1] \in Seq(Int) /\ AscendingList(ls[1])
        BY <4>1 DEF Stacked
      <4>3. Joined(ls[1], ls, 1)
        BY <4>2 DEF Joined
      <4> QED BY <4>1, <4>3
    <3>3. CASE m # 0
      <4>1. g[m + 1] = g[m] \o ls[m + 1]
        <5>1. m + 1 # 1 /\ (m + 1) - 1 = m
          BY <3>3
        <5> QED BY <3>1, <5>1
      <4>2. m \in 1..Len(ls)
        BY <2>0, <3>3
      <4>3. Joined(g[m], ls, m)
        BY <4>2
      <4> QED BY <3>3, <4>1, <4>3, JoinOne
    <3> QED BY <3>2, <3>3
  <2>4. G = Nat
    <3> HIDE DEF G
    <3>1. G \in SUBSET Nat
      BY DEF G
    <3> QED BY <2>2, <2>3, <3>1, NumberInduction
  <2>5. Len(ls) \in Nat /\ Len(ls) \in 1..Len(ls)
    BY <2>0
  <2>6. Joined(g[Len(ls)], ls, Len(ls))
    <3>1. Len(ls) \in G
      <4> HIDE DEF G
      <4> QED BY <2>4, <2>5
    <3> QED BY <2>5, <3>1
  <2> QED BY <2>1, <2>6
<1> QED BY <1>1, <1>2

-----------------------------------------------------------------------------
(* What a shard's first and last blocks are. *)
Bounded(s) ==
  /\ FirstBlock(s) \in Int /\ LastBlock(s) \in Int
  /\ StartBlock <= FirstBlock(s) /\ FirstBlock(s) <= LastBlock(s) /\ LastBlock(s) <= EndBlock

(* The number of shards is the one whose ranges reach the last block. *)
LEMMA ShardCount ==
  /\ NShards \in Nat \ {0}
  /\ (NShards - 1) * ShardSize <= EndBlock - StartBlock
  /\ EndBlock - StartBlock + 1 <= NShards * ShardSize
<1> DEFINE x == EndBlock - StartBlock + ShardSize
           n == NShards
<1>1. x \in Int /\ ShardSize \in Nat \ {0} /\ n = x \div ShardSize /\ ShardSize <= x
  BY DatasetAssumption, ScraperAssumption DEF NShards
<1>2. n \in Int
  BY <1>1
<1>3. n * ShardSize <= x /\ x <= n * ShardSize + ShardSize - 1
  BY <1>1, <1>2, Quotient
<1> HIDE DEF n
<1>4. (n - 1) * ShardSize = n * ShardSize - ShardSize /\ n * ShardSize \in Int
  BY <1>1, <1>2
<1>5. n > 0
  <2>1. 0 < n * ShardSize
    BY <1>1, <1>3, <1>4
  <2> QED BY <1>1, <1>2, <2>1
<1>6. (n - 1) * ShardSize <= EndBlock - StartBlock /\ EndBlock - StartBlock + 1 <= n * ShardSize
  <2>1. EndBlock \in Int /\ StartBlock \in Int
    BY DatasetAssumption
  <2> QED BY <1>1, <1>3, <1>4, <2>1
<1> QED BY <1>2, <1>5, <1>6 DEF n

(* There are finitely many shards. *)
LEMMA ShardsFinite ==
  IsFiniteSet(Shards) /\ 0 \in Shards
BY ShardCount, FS_Interval DEF Shards

(* Every shard has a first and a last block, within the run's. *)
LEMMA ShardBounds ==
  ASSUME NEW s \in Shards
  PROVE  Bounded(s)
<1> DEFINE a == s * ShardSize
<1>1. NShards \in Int /\ s \in Int /\ 0 <= s /\ s <= NShards - 1 /\ ShardSize \in Nat \ {0}
  BY ShardCount, DatasetAssumption DEF Shards
<1>2. a \in Int /\ 0 <= a
  BY <1>1
<1>3. a <= (NShards - 1) * ShardSize
  <2>1. CASE s = NShards - 1
    BY <1>2, <2>1
  <2>2. CASE s < NShards - 1
    <3>1. /\ (NShards - 1) * ShardSize \in Int
          /\ s * ShardSize + ShardSize <= (NShards - 1) * ShardSize
      BY <1>1, <2>2, Multiples
    <3> QED BY <1>1, <1>2, <3>1
  <2> QED BY <1>1, <2>1, <2>2
<1>4. a <= EndBlock - StartBlock
  <2>1. (NShards - 1) * ShardSize \in Int /\ EndBlock \in Int /\ StartBlock \in Int
    BY <1>1, DatasetAssumption
  <2> QED BY <1>2, <1>3, <2>1, ShardCount
<1>5. FirstBlock(s) = StartBlock + a
  BY DEF FirstBlock
<1> HIDE DEF a
<1> QED BY <1>1, <1>2, <1>4, <1>5, DatasetAssumption DEF Bounded, LastBlock

(* A shard ends before a later one begins. *)
LEMMA ShardOrder ==
  ASSUME NEW s \in Shards, NEW t \in Shards, s < t
  PROVE  LastBlock(s) < FirstBlock(t)
<1>1. s \in Int /\ t \in Int /\ ShardSize \in Nat \ {0} /\ StartBlock \in Int /\ EndBlock \in Int
  BY ShardCount, DatasetAssumption DEF Shards
<1>2. /\ s * ShardSize \in Int /\ t * ShardSize \in Int
      /\ s * ShardSize + ShardSize <= t * ShardSize
  BY <1>1, Multiples
<1>3. LastBlock(s) <= FirstBlock(s) + ShardSize - 1
  BY <1>1, <1>2 DEF LastBlock, FirstBlock
<1>4. LastBlock(s) \in Int
  BY ShardBounds DEF Bounded
<1> QED BY <1>1, <1>2, <1>3, <1>4 DEF FirstBlock

(* The next shard begins where a shard ends. *)
LEMMA ShardNext ==
  ASSUME NEW s \in Shards, s + 1 \in Shards
  PROVE  LastBlock(s) + 1 = FirstBlock(s + 1)
<1>1. s \in Int /\ ShardSize \in Nat \ {0} /\ StartBlock \in Int /\ EndBlock \in Int
  BY ShardCount, DatasetAssumption DEF Shards
<1>2. (s + 1) * ShardSize = s * ShardSize + ShardSize /\ s * ShardSize \in Int
  BY <1>1
<1>3. FirstBlock(s + 1) = FirstBlock(s) + ShardSize
  BY <1>1, <1>2 DEF FirstBlock
<1>4. FirstBlock(s + 1) <= EndBlock /\ FirstBlock(s) \in Int
  <2>1. Bounded(s) /\ Bounded(s + 1)
    BY ShardBounds
  <2>2. FirstBlock(s + 1) <= LastBlock(s + 1) /\ LastBlock(s + 1) <= EndBlock
        /\ FirstBlock(s + 1) \in Int /\ LastBlock(s + 1) \in Int /\ FirstBlock(s) \in Int
    BY <2>1 DEF Bounded
  <2> HIDE DEF FirstBlock, LastBlock
  <2> QED BY <1>1, <2>2
<1> QED BY <1>1, <1>3, <1>4 DEF LastBlock

(* The first shard begins the run, and the last one, alone, ends it. *)
LEMMA FirstAndLast ==
  /\ 0 \in Shards /\ FirstBlock(0) = StartBlock
  /\ NShards - 1 \in Shards
  /\ \A s \in Shards : LastBlock(s) = EndBlock <=> s = NShards - 1
<1>1. 0 \in Shards /\ NShards - 1 \in Shards
  BY ShardCount DEF Shards
<1>2. FirstBlock(0) = StartBlock
  <2>1. 0 * ShardSize = 0
    BY DatasetAssumption
  <2> QED BY <2>1, DatasetAssumption DEF FirstBlock
<1>3. LastBlock(NShards - 1) = EndBlock
  <2> DEFINE n == NShards
  <2>1. n \in Int /\ ShardSize \in Nat \ {0} /\ StartBlock \in Int /\ EndBlock \in Int
    BY ShardCount, DatasetAssumption
  <2>2. (n - 1) * ShardSize = n * ShardSize - ShardSize /\ n * ShardSize \in Int
    BY <2>1
  <2>3. FirstBlock(n - 1) = StartBlock + n * ShardSize - ShardSize
    BY <2>1, <2>2 DEF FirstBlock
  <2>4. EndBlock - StartBlock + 1 <= n * ShardSize
    BY ShardCount
  <2> HIDE DEF n
  <2>5. LastBlock(n - 1) = EndBlock
    BY <2>1, <2>2, <2>3, <2>4 DEF LastBlock
  <2> QED BY <2>5 DEF n
<1>4. ASSUME NEW s \in Shards, LastBlock(s) = EndBlock PROVE s = NShards - 1
  <2>1. s \in Int /\ s <= NShards - 1 /\ NShards \in Int
    BY ShardCount DEF Shards
  <2>2. CASE s < NShards - 1
    <3>1. LastBlock(s) < FirstBlock(NShards - 1)
      BY <1>1, <2>2, ShardOrder
    <3>2. FirstBlock(NShards - 1) \in Int /\ FirstBlock(NShards - 1) <= EndBlock
      <4>1. Bounded(NShards - 1)
        BY <1>1, ShardBounds
      <4> QED BY <4>1, DatasetAssumption DEF Bounded
    <3> QED BY <1>4, <3>1, <3>2, DatasetAssumption
  <2> QED BY <2>1, <2>2
<1> QED BY <1>1, <1>2, <1>3, <1>4

(* A block is in the range of its own shard, and of no other. *)
LEMMA ShardOfBlock ==
  ASSUME NEW bn \in Blocks
  PROVE  /\ ShardIndex(bn) \in Shards
         /\ \A s \in Shards : bn \in ShardRange(s) <=> ShardIndex(bn) = s
<1> DEFINE q == ShardIndex(bn)
<1>0. /\ bn \in Int /\ StartBlock <= bn /\ bn <= EndBlock
      /\ StartBlock \in Int /\ EndBlock \in Int /\ ShardSize \in Nat \ {0}
  BY DatasetAssumption DEF Blocks
<1>1. q = (bn - StartBlock) \div ShardSize /\ bn - StartBlock \in Int
  BY <1>0 DEF ShardIndex
<1>2. q \in Int
  BY <1>0, <1>1
<1>3. q * ShardSize <= bn - StartBlock /\ bn - StartBlock <= q * ShardSize + ShardSize - 1
  BY <1>0, <1>1, <1>2, Quotient
<1>4. NShards \in Int /\ EndBlock - StartBlock + 1 <= NShards * ShardSize
  BY ShardCount
<1> HIDE DEF q
<1>5. q \in Shards
  <2>1. q * ShardSize \in Int /\ NShards * ShardSize \in Int
    BY <1>0, <1>2, <1>4
  <2>2. ~(q < 0)
    <3>1. q < 0 => q * ShardSize + ShardSize <= 0 * ShardSize
      BY <1>0, <1>2, Multiples
    <3>2. 0 * ShardSize = 0
      BY <1>0
    <3> QED BY <1>0, <1>3, <2>1, <3>1, <3>2
  <2>3. ~(NShards < q) /\ q # NShards
    <3>1. NShards < q => NShards * ShardSize + ShardSize <= q * ShardSize
      BY <1>0, <1>2, <1>4, Multiples
    <3>2. ~(NShards * ShardSize <= q * ShardSize)
      BY <1>0, <1>3, <1>4, <2>1
    <3> QED BY <1>0, <2>1, <3>1, <3>2
  <2> QED BY <1>2, <1>4, <2>2, <2>3 DEF Shards
<1>6. ASSUME NEW s \in Shards
      PROVE  bn \in ShardRange(s) <=> q = s
  <2>1. s \in Int /\ s * ShardSize \in Int
    BY <1>0, <1>4 DEF Shards
  <2>2. q = s <=> s * ShardSize <= bn - StartBlock /\ bn - StartBlock <= s * ShardSize + ShardSize - 1
    BY <1>0, <1>1, <2>1, Quotient
  <2>3. bn \in ShardRange(s) <=> FirstBlock(s) <= bn /\ bn <= LastBlock(s)
    BY <1>0, ShardBounds DEF ShardRange, Bounded
  <2>4. bn <= LastBlock(s) <=> bn <= FirstBlock(s) + ShardSize - 1
    BY <1>0, <2>1 DEF LastBlock, FirstBlock
  <2> QED BY <1>0, <2>1, <2>2, <2>3, <2>4 DEF FirstBlock
<1> QED BY <1>5, <1>6 DEF q

(* The blocks of a shard. *)
LEMMA ShardBlocks ==
  ASSUME NEW s \in Shards
  PROVE  /\ ShardRange(s) \subseteq Blocks /\ IsFiniteSet(ShardRange(s))
         /\ FirstBlock(s) \in ShardRange(s) /\ LastBlock(s) \in ShardRange(s)
         /\ Min(ShardRange(s)) = FirstBlock(s) /\ Max(ShardRange(s)) = LastBlock(s)
         /\ Cardinality(ShardRange(s)) = LastBlock(s) - FirstBlock(s) + 1
<1> DEFINE a == FirstBlock(s)
           b == LastBlock(s)
<1>1. /\ a \in Int /\ b \in Int /\ StartBlock <= a /\ a <= b /\ b <= EndBlock
      /\ StartBlock \in Int /\ EndBlock \in Int
  BY ShardBounds, DatasetAssumption DEF Bounded
<1>2. ShardRange(s) = a..b
  BY DEF ShardRange
<1> HIDE DEF a, b
<1>3. a..b \subseteq Blocks /\ a \in a..b /\ b \in a..b
  BY <1>1 DEF Blocks
<1>4. Min(a..b) = a
  <2>1. a \in a..b /\ \A y \in a..b : a =< y
    BY <1>1
  <2>2. \A x \in a..b : (\A y \in a..b : x =< y) => x = a
    BY <1>1
  <2> QED BY <2>1, <2>2 DEF Min
<1>5. Max(a..b) = b
  <2>1. b \in a..b /\ \A y \in a..b : b >= y
    BY <1>1
  <2>2. \A x \in a..b : (\A y \in a..b : x >= y) => x = b
    BY <1>1
  <2> QED BY <2>1, <2>2 DEF Max
<1>6. IsFiniteSet(a..b) /\ Cardinality(a..b) = b - a + 1
  <2>1. IsFiniteSet(a..b) /\ Cardinality(a..b) = IF a > b THEN 0 ELSE b - a + 1
    BY <1>1, FS_Interval
  <2> QED BY <1>1, <2>1
<1> QED BY <1>2, <1>3, <1>4, <1>5, <1>6 DEF a, b

-----------------------------------------------------------------------------
(* What the scraper writes of shard s in run e, whole: its file, and the   *)
(* entry of that file.                                                     *)
FileOf(s, e) == Blob(ShardRange(s), e)
Entry(s, e) == EntryOf(s, ShardRange(s), FileOf(s, e))

(* What n runs may leave on disk: whole files, and a manifest of entries   *)
(* of such files, in the order of their shards, each shard once.           *)
FilesOK(f, n) ==
  f \in [Shards -> {NoFile} \cup {FileOf(t, e) : t \in Shards, e \in 1..n}]
    /\ \A s \in Shards : f[s] = NoFile \/ \E e \in 1..n : f[s] = FileOf(s, e)

Entries(n) == {Entry(s, e) : s \in Shards, e \in 1..n}

ManifestOK(m, n) ==
  /\ m \in Seq(Entries(n))
  /\ \A i, j \in 1..Len(m) : i < j => m[i].file < m[j].file

(* The fields of an entry. *)
LEMMA EntryFields ==
  ASSUME NEW s \in Shards, NEW e
  PROVE  /\ Entry(s, e).file = s
         /\ Entry(s, e).first = FirstBlock(s) /\ Entry(s, e).last = LastBlock(s)
         /\ Entry(s, e).count = LastBlock(s) - FirstBlock(s) + 1
         /\ Entry(s, e).sha = FileOf(s, e)
BY ShardBlocks DEF Entry, EntryOf

(* The same, of the entries of a manifest. *)
ProperEntry(x) ==
  /\ x.file \in Shards
  /\ x.first = FirstBlock(x.file) /\ x.last = LastBlock(x.file)
  /\ x.count = LastBlock(x.file) - FirstBlock(x.file) + 1

(* The entries of a manifest are proper, and each names a file that existed. *)
LEMMA ManifestEntries ==
  ASSUME NEW n \in Nat, NEW m, ManifestOK(m, n), NEW i \in 1..Len(m)
  PROVE  /\ ProperEntry(m[i])
         /\ \E e \in 1..n : m[i] = Entry(m[i].file, e) /\ m[i].sha = FileOf(m[i].file, e)
<1>1. m[i] \in Entries(n)
  BY ElementOfSeq DEF ManifestOK
<1>2. PICK s \in Shards, e \in 1..n : m[i] = Entry(s, e)
  BY <1>1 DEF Entries
<1>3. m[i].file = s /\ m[i].first = FirstBlock(s) /\ m[i].last = LastBlock(s)
      /\ m[i].count = LastBlock(s) - FirstBlock(s) + 1 /\ m[i].sha = FileOf(s, e)
  BY <1>2, EntryFields
<1> QED BY <1>2, <1>3 DEF ProperEntry

(* A shard is listed once at most. *)
LEMMA ListedOnce ==
  ASSUME NEW n \in Nat, NEW m, ManifestOK(m, n),
         NEW i \in 1..Len(m), NEW j \in 1..Len(m), m[i].file = m[j].file
  PROVE  i = j
<1>1. m[i].file \in Int /\ m[j].file \in Int
  <2>1. m[i].file \in Shards /\ m[j].file \in Shards
    BY ManifestEntries DEF ProperEntry
  <2> QED BY <2>1, ShardCount DEF Shards
<1>2. (i < j => m[i].file < m[j].file) /\ (j < i => m[j].file < m[i].file)
  BY DEF ManifestOK
<1> QED BY <1>1, <1>2

(* The order of the entries is that of their first blocks. *)
LEMMA FirstsAscend ==
  ASSUME NEW s \in Shards, NEW t \in Shards
  PROVE  FirstBlock(s) <= FirstBlock(t) <=> s <= t
<1>1. s \in Int /\ t \in Int
  BY ShardCount DEF Shards
<1>2. /\ FirstBlock(s) \in Int /\ LastBlock(s) \in Int /\ FirstBlock(s) <= LastBlock(s)
      /\ FirstBlock(t) \in Int /\ LastBlock(t) \in Int /\ FirstBlock(t) <= LastBlock(t)
  BY ShardBounds DEF Bounded
<1>3. (s < t => LastBlock(s) < FirstBlock(t)) /\ (t < s => LastBlock(t) < FirstBlock(s))
  BY ShardOrder
<1> HIDE DEF FirstBlock, LastBlock
<1>4. s < t \/ s = t \/ t < s
  BY <1>1
<1> QED BY <1>1, <1>2, <1>3, <1>4

(* A set of places with those before each of its members is a prefix. *)
LEMMA PrefixOfPlaces ==
  ASSUME NEW n \in Nat, NEW P \in SUBSET (1..n), \A i \in P : \A j \in 1..n : j < i => j \in P
  PROVE  Cardinality(P) \in 0..n /\ P = 1..Cardinality(P)
<1>1. CASE P = {}
  <2>1. Cardinality(P) = 0
    BY <1>1, FS_EmptySet
  <2> QED BY <1>1, <2>1
<1>2. CASE P # {}
  <2> DEFINE Q == {n - i : i \in P}
  <2>0. \A i \in P : i \in 1..n
    OBVIOUS
  <2>1. Q \in SUBSET Nat /\ Q # {}
    <3>1. \A i \in P : n - i \in Nat
      BY <2>0
    <3> QED BY <1>2, <3>1
  <2>2. PICK q \in Q : \A r \in Q : q <= r
    BY <2>1, LeastNumber
  <2>3. PICK k \in P : q = n - k
    BY <2>2
  <2>4. \A i \in P : i <= k
    <3> TAKE i \in P
    <3>1. n - i \in Q
      OBVIOUS
    <3>2. n - k <= n - i
      BY <2>2, <2>3, <3>1
    <3> QED BY <2>0, <3>2
  <2>5. P = 1..k
    <3>1. \A j \in 1..n : j \in P <=> j <= k
      <4> TAKE j \in 1..n
      <4>1. k \in 1..n /\ (j < k => j \in P)
        BY <2>0, <2>3
      <4>2. j \in P => j <= k
        BY <2>4
      <4>3. j <= k => j < k \/ j = k
        BY <4>1
      <4> QED BY <2>3, <4>1, <4>2, <4>3
    <3>2. k \in 1..n
      BY <2>0
    <3>3. \A x : x \in P => x \in 1..k
      BY <2>0, <3>1, <3>2
    <3>4. \A x : x \in 1..k => x \in P
      BY <3>1, <3>2
    <3> QED BY <3>3, <3>4
  <2>6. Cardinality(1..k) = k
    <3>1. k \in Int /\ 1 \in Int /\ 1 <= k
      BY <2>3
    <3>2. Cardinality(1..k) = IF 1 > k THEN 0 ELSE k - 1 + 1
      BY <3>1, FS_Interval
    <3> QED BY <3>1, <3>2
  <2> QED BY <2>3, <2>5, <2>6
<1> QED BY <1>1, <1>2

(* A manifest in order is its own sorted list. *)
LEMMA CoveredIsManifest ==
  ASSUME NEW n \in Nat, NEW m, ManifestOK(m, n)
  PROVE  Covered(m) = m
<1>1. Len(m) \in Nat /\ DOMAIN m = 1..Len(m) /\ m = [i \in 1..Len(m) |-> m[i]]
  BY DEF ManifestOK
<1> DEFINE D == 1..Len(m)
<1>2. \A i, j \in D : Before(m, i, j) <=> i < j
  <2> TAKE i, j \in D
  <2>1. /\ m[i].file \in Shards /\ m[j].file \in Shards
        /\ m[i].first = FirstBlock(m[i].file) /\ m[j].first = FirstBlock(m[j].file)
    BY ManifestEntries DEF ProperEntry
  <2>2. (i < j => m[i].file < m[j].file) /\ (j < i => m[j].file < m[i].file)
    BY DEF ManifestOK
  <2>3. /\ m[i].first \in Int /\ m[j].first \in Int
        /\ m[i].file \in Int /\ m[j].file \in Int
    <3>1. \A s \in Shards : FirstBlock(s) \in Int
      BY ShardBounds DEF Bounded
    <3>2. Shards \subseteq Int
      BY ShardCount DEF Shards
    <3> QED BY <2>1, <3>1, <3>2
  <2>4. /\ m[i].first <= m[j].first <=> m[i].file <= m[j].file
        /\ m[j].first <= m[i].first <=> m[j].file <= m[i].file
    BY <2>1, FirstsAscend
  <2>5. i < j \/ i = j \/ j < i
    OBVIOUS
  <2> QED BY <2>2, <2>3, <2>4, <2>5 DEF Before
<1>3. \A j \in D : Cardinality({i \in D : Before(m, i, j)}) = j - 1
  <2> TAKE j \in D
  <2>1. {i \in D : Before(m, i, j)} = 1..j - 1
    BY <1>1, <1>2
  <2>2. 1 \in Int /\ j - 1 \in Int
    OBVIOUS
  <2>3. Cardinality(1..j - 1) = IF 1 > j - 1 THEN 0 ELSE j - 1 - 1 + 1
    BY <2>2, FS_Interval
  <2>4. (IF 1 > j - 1 THEN 0 ELSE j - 1 - 1 + 1) = j - 1
    OBVIOUS
  <2> QED BY <2>1, <2>3, <2>4
<1>4. \A r \in D : (CHOOSE j \in D : Cardinality({i \in D : Before(m, i, j)}) = r - 1) = r
  <2> TAKE r \in D
  <2>1. \A j \in D : Cardinality({i \in D : Before(m, i, j)}) = r - 1 <=> j = r
    <3> TAKE j \in D
    <3>1. Cardinality({i \in D : Before(m, i, j)}) = j - 1
      BY <1>3
    <3> QED BY <3>1
  <2> HIDE DEF D
  <2> QED BY <2>1
<1>5. Covered(m) = [r \in D |-> m[CHOOSE j \in D : Cardinality({i \in D : Before(m, i, j)}) = r - 1]]
  BY <1>1 DEF Covered
<1> HIDE DEF D
<1>6. Covered(m) = [r \in D |-> m[r]]
  BY <1>4, <1>5
<1> QED BY <1>1, <1>6 DEF D

-----------------------------------------------------------------------------
(* The entry y is in the manifest. *)
Has(m, y) == \E i \in 1..Len(m) : m[i] = y

(* Upserting keeps the manifest in order; the entry replaces the one of    *)
(* its shard, and every other entry stays.                                 *)
Upserted(m, new, s, x) ==
  \A y : Has(new, y) <=> (y = x \/ (Has(m, y) /\ y.file # s))

(* An entry of a listed shard is replaced. *)
LEMMA UpsertReplaces ==
  ASSUME NEW n \in Nat, NEW m, ManifestOK(m, n), NEW s \in Shards, NEW e \in 1..n,
         Listed(m, s) # {}
  PROVE  /\ ManifestOK(UpsertShard(m, Entry(s, e)), n)
         /\ Upserted(m, UpsertShard(m, Entry(s, e)), s, Entry(s, e))
<1> DEFINE x == Entry(s, e)
           u == [i \in 1..Len(m) |-> IF m[i].file = s THEN x ELSE m[i]]
<1>1. x.file = s /\ x \in Entries(n)
  BY EntryFields DEF Entries
<1>2. Len(m) \in Nat /\ DOMAIN m = 1..Len(m) /\ \A i \in 1..Len(m) : m[i] \in Entries(n)
  BY ElementOfSeq DEF ManifestOK
<1>3. UpsertShard(m, x) = u
  BY <1>1, <1>2 DEF UpsertShard
<1> HIDE DEF x
<1>4. \A i \in 1..Len(m) : u[i] \in Entries(n) /\ u[i].file = m[i].file
  BY <1>1, <1>2
<1>5. u \in Seq(Entries(n)) /\ Len(u) = Len(m)
  <2>1. u \in [1..Len(m) -> Entries(n)]
    BY <1>4
  <2> QED BY <1>2, <2>1
<1>6. \A i \in 1..Len(m) : u[i] = IF m[i].file = s THEN x ELSE m[i]
  OBVIOUS
<1> HIDE DEF u
<1>7. ManifestOK(u, n)
  <2>1. \A i, j \in 1..Len(m) : i < j => m[i].file < m[j].file
    BY DEF ManifestOK
  <2> QED BY <1>4, <1>5, <2>1 DEF ManifestOK
<1>8. PICK k \in 1..Len(m) : m[k].file = s
  BY <1>2 DEF Listed
<1>9. ASSUME NEW y PROVE Has(u, y) <=> (y = x \/ (Has(m, y) /\ y.file # s))
  <2>1. Has(u, x)
    BY <1>5, <1>6, <1>8 DEF Has
  <2>2. ASSUME Has(m, y), y.file # s PROVE Has(u, y)
    BY <1>5, <1>6, <2>2 DEF Has
  <2>3. ASSUME Has(u, y), y # x PROVE Has(m, y) /\ y.file # s
    BY <1>5, <1>6, <2>3 DEF Has
  <2> QED BY <2>1, <2>2, <2>3
<1> QED BY <1>3, <1>7, <1>9 DEF Upserted, x

(* An entry of a shard that is not listed is inserted in its place. *)
LEMMA UpsertInserts ==
  ASSUME NEW n \in Nat, NEW m, ManifestOK(m, n), NEW s \in Shards, NEW e \in 1..n,
         Listed(m, s) = {}
  PROVE  /\ ManifestOK(UpsertShard(m, Entry(s, e)), n)
         /\ Upserted(m, UpsertShard(m, Entry(s, e)), s, Entry(s, e))
<1> DEFINE x == Entry(s, e)
           P == {i \in DOMAIN m : m[i].first <= x.first}
           p == Cardinality(P)
           before == SubSeq(m, 1, p)
           after == SubSeq(m, p + 1, Len(m))
           u == before \o <<x>> \o after
<1>1. x.file = s /\ x.first = FirstBlock(s) /\ x \in Entries(n)
  BY EntryFields DEF Entries
<1>2. /\ Len(m) \in Nat /\ DOMAIN m = 1..Len(m)
      /\ \A i \in 1..Len(m) : m[i] \in Entries(n) /\ m[i].file # s
  <2>1. /\ Len(m) \in Nat /\ DOMAIN m = 1..Len(m) /\ \A i \in 1..Len(m) : m[i] \in Entries(n)
    BY ElementOfSeq DEF ManifestOK
  <2> QED BY <2>1 DEF Listed
<1>3. \A i \in 1..Len(m) : /\ m[i].file \in Int /\ s \in Int
                           /\ i \in P <=> m[i].file < s
  <2> TAKE i \in 1..Len(m)
  <2>1. m[i].file \in Shards /\ m[i].first = FirstBlock(m[i].file)
    BY ManifestEntries DEF ProperEntry
  <2>2. m[i].file \in Int /\ s \in Int
    BY <2>1, ShardCount DEF Shards
  <2>3. m[i].first <= x.first <=> m[i].file <= s
    BY <1>1, <2>1, FirstsAscend
  <2>4. i \in P <=> m[i].first <= x.first
    BY <1>2
  <2>5. m[i].file # s
    BY <1>2
  <2> HIDE DEF P
  <2> QED BY <2>2, <2>3, <2>4, <2>5
<1>4. \A i, j \in 1..Len(m) : i < j => m[i].file < m[j].file
  BY DEF ManifestOK
<1>5. p \in 0..Len(m) /\ P = 1..p
  <2>1. P \in SUBSET (1..Len(m))
    BY <1>2
  <2> HIDE DEF P
  <2>2. ASSUME NEW i \in P, NEW j \in 1..Len(m), j < i PROVE j \in P
    <3>1. i \in 1..Len(m)
      BY <2>1
    <3> QED BY <1>3, <1>4, <2>2, <3>1
  <2> QED BY <1>2, <2>1, <2>2, PrefixOfPlaces
<1>6. \A i \in 1..Len(m) : (i <= p => m[i].file < s) /\ (p < i => s < m[i].file)
  <2> TAKE i \in 1..Len(m)
  <2> HIDE DEF P, p
  <2>1. i \in P <=> i <= p
    BY <1>2, <1>5
  <2>2. m[i].file # s
    BY <1>2
  <2> QED BY <1>3, <1>5, <2>1, <2>2
<1>7. UpsertShard(m, x) = u
  <2>1. UpsertShard(m, x) = InsertAt(m, 1 + p, x)
    BY <1>1 DEF UpsertShard
  <2>2. 1 + p = p + 1 /\ (1 + p) - 1 = p
    <3> HIDE DEF P, p
    <3> QED BY <1>5
  <2>3. InsertAt(m, 1 + p, x) = SubSeq(m, 1, (1 + p) - 1) \o <<x>> \o SubSeq(m, 1 + p, Len(m))
    BY DEF InsertAt
  <2> HIDE DEF p
  <2> QED BY <2>1, <2>2, <2>3
<1> HIDE DEF x, P, p
<1>8. /\ before \in Seq(Entries(n)) /\ Len(before) = p
      /\ \A i \in 1..p : before[i] = m[i]
  <2>1. \A i \in 1..p : m[i] \in Entries(n)
    BY <1>2, <1>5
  <2> QED BY <1>5, <2>1, SubSeqProperties
<1>9. /\ after \in Seq(Entries(n)) /\ Len(after) = Len(m) - p
      /\ \A i \in 1..Len(m) - p : after[i] = m[p + i]
  <2>1. \A i \in p + 1..Len(m) : m[i] \in Entries(n)
    BY <1>2, <1>5
  <2>2. p + 1 \in Int /\ Len(m) \in Int
    BY <1>2, <1>5
  <2>3. /\ after \in Seq(Entries(n))
        /\ Len(after) = IF p + 1 <= Len(m) THEN Len(m) - (p + 1) + 1 ELSE 0
        /\ \A i \in 1..Len(m) - (p + 1) + 1 : after[i] = m[(p + 1) + i - 1]
    BY <2>1, <2>2, SubSeqProperties
  <2> HIDE DEF after
  <2>4. Len(m) - (p + 1) + 1 = Len(m) - p /\ (~(p + 1 <= Len(m)) => Len(m) - p = 0)
    <3>1. p \in Int /\ Len(m) \in Int /\ p <= Len(m)
      BY <1>2, <1>5
    <3> QED BY <3>1
  <2>5. \A i \in 1..Len(m) - p : (p + 1) + i - 1 = p + i
    BY <1>5
  <2> QED BY <2>3, <2>4, <2>5
<1> HIDE DEF before, after
<1> DEFINE b == before \o <<x>>
<1>10. /\ b \in Seq(Entries(n)) /\ Len(b) = p + 1
       /\ \A i \in 1..p : b[i] = m[i]
       /\ b[p + 1] = x
  <2>1. <<x>> \in Seq(Entries(n)) /\ Len(<<x>>) = 1 /\ <<x>>[1] = x
    BY <1>1
  <2>2. /\ b \in Seq(Entries(n)) /\ Len(b) = Len(before) + Len(<<x>>)
        /\ \A i \in 1..Len(before) + Len(<<x>>) :
             b[i] = IF i <= Len(before) THEN before[i] ELSE <<x>>[i - Len(before)]
    BY <1>8, <2>1, ConcatProperties
  <2>3. \A i \in 1..p + 1 : b[i] = IF i <= p THEN before[i] ELSE <<x>>[i - p]
    BY <1>8, <2>1, <2>2
  <2>4. p + 1 \in 1..p + 1 /\ ~(p + 1 <= p) /\ (p + 1) - p = 1 /\ \A i \in 1..p : i \in 1..p + 1 /\ i <= p
    BY <1>5
  <2> HIDE DEF b
  <2> QED BY <1>8, <2>1, <2>2, <2>3, <2>4
<1> HIDE DEF b
<1>11. /\ u \in Seq(Entries(n)) /\ Len(u) = Len(m) + 1
       /\ \A i \in 1..Len(m) + 1 : u[i] = IF i <= p THEN m[i] ELSE IF i = p + 1 THEN x ELSE m[i - 1]
  <2>1. u = b \o after
    BY DEF b
  <2>2. /\ b \o after \in Seq(Entries(n)) /\ Len(b \o after) = Len(b) + Len(after)
        /\ \A i \in 1..Len(b) + Len(after) :
             (b \o after)[i] = IF i <= Len(b) THEN b[i] ELSE after[i - Len(b)]
    BY <1>9, <1>10, ConcatProperties
  <2> HIDE DEF u
  <2>3. Len(b) + Len(after) = Len(m) + 1
    BY <1>2, <1>5, <1>9, <1>10
  <2>4. ASSUME NEW i \in 1..Len(m) + 1
        PROVE  u[i] = IF i <= p THEN m[i] ELSE IF i = p + 1 THEN x ELSE m[i - 1]
    <3>1. u[i] = IF i <= p + 1 THEN b[i] ELSE after[i - (p + 1)]
      BY <1>10, <2>1, <2>2, <2>3
    <3>2. CASE i <= p
      <4>1. i \in 1..p /\ i <= p + 1
        BY <1>5, <3>2
      <4> QED BY <1>10, <3>1, <3>2, <4>1
    <3>3. CASE i = p + 1
      <4>1. ~(i <= p) /\ i <= p + 1
        BY <1>5, <3>3
      <4> QED BY <1>10, <3>1, <3>3, <4>1
    <3>4. CASE p + 1 < i
      <4>1. ~(i <= p) /\ ~(i <= p + 1) /\ i # p + 1
        BY <1>5, <3>4
      <4>2. i - (p + 1) \in 1..Len(m) - p /\ p + (i - (p + 1)) = i - 1
        BY <1>2, <1>5, <3>4
      <4> QED BY <1>9, <3>1, <4>1, <4>2
    <3> QED BY <1>5, <3>2, <3>3, <3>4
  <2> QED BY <2>1, <2>2, <2>3, <2>4
<1> HIDE DEF u
<1>12. ASSUME NEW i \in 1..Len(m) + 1
       PROVE  /\ i <= p => u[i] = m[i] /\ i \in 1..Len(m)
              /\ i = p + 1 => u[i] = x
              /\ p + 1 < i => u[i] = m[i - 1] /\ i - 1 \in 1..Len(m) /\ p < i - 1
  BY <1>2, <1>5, <1>11
<1>13. ManifestOK(u, n)
  <2> SUFFICES ASSUME NEW i \in 1..Len(m) + 1, NEW j \in 1..Len(m) + 1, i < j
               PROVE  u[i].file < u[j].file
    BY <1>11 DEF ManifestOK
  <2>1. CASE j <= p
    <3>1. i <= p
      BY <1>5, <2>1
    <3> QED BY <1>4, <1>12, <2>1, <3>1
  <2>2. CASE j = p + 1
    <3>1. i <= p
      BY <1>5, <2>2
    <3> QED BY <1>1, <1>6, <1>12, <2>2, <3>1
  <2>3. CASE p + 1 < j /\ i <= p
    <3>1. u[i] = m[i] /\ u[j] = m[j - 1] /\ i \in 1..Len(m) /\ j - 1 \in 1..Len(m) /\ i < j - 1
      BY <1>5, <1>12, <2>3
    <3> QED BY <1>4, <3>1
  <2>4. CASE p + 1 < j /\ i = p + 1
    BY <1>1, <1>6, <1>12, <2>4
  <2>5. CASE p + 1 < j /\ p + 1 < i
    <3>1. /\ u[i] = m[i - 1] /\ u[j] = m[j - 1] /\ i - 1 \in 1..Len(m) /\ j - 1 \in 1..Len(m)
          /\ i - 1 < j - 1
      BY <1>12, <2>5
    <3> QED BY <1>4, <3>1
  <2> QED BY <1>5, <2>1, <2>2, <2>3, <2>4, <2>5
<1>14. ASSUME NEW y PROVE Has(u, y) <=> (y = x \/ (Has(m, y) /\ y.file # s))
  <2>1. Has(u, x)
    <3>1. p + 1 \in 1..Len(m) + 1
      BY <1>2, <1>5
    <3> QED BY <1>11, <1>12, <3>1 DEF Has
  <2>2. ASSUME Has(m, y) PROVE Has(u, y)
    <3>1. PICK i \in 1..Len(m) : m[i] = y
      BY <2>2 DEF Has
    <3>2. CASE i <= p
      <4>1. i \in 1..Len(m) + 1
        BY <1>2
      <4> QED BY <1>11, <1>12, <3>1, <3>2, <4>1 DEF Has
    <3>3. CASE p < i
      <4>1. i + 1 \in 1..Len(m) + 1 /\ p + 1 < i + 1 /\ (i + 1) - 1 = i
        BY <1>2, <1>5, <3>3
      <4>2. u[i + 1] = m[(i + 1) - 1]
        BY <1>12, <4>1
      <4> QED BY <1>11, <3>1, <4>1, <4>2 DEF Has
    <3> QED BY <1>5, <3>2, <3>3
  <2>3. ASSUME Has(u, y), y # x PROVE Has(m, y)
    <3>1. PICK i \in 1..Len(m) + 1 : u[i] = y
      BY <1>11, <2>3 DEF Has
    <3>2. i # p + 1
      BY <1>12, <2>3, <3>1
    <3>3. i <= p \/ p + 1 < i
      BY <1>5, <3>2
    <3> QED BY <1>12, <3>1, <3>3 DEF Has
  <2>4. Has(m, y) => y.file # s
    BY <1>2 DEF Has
  <2> QED BY <2>1, <2>2, <2>3, <2>4
<1> QED BY <1>7, <1>13, <1>14 DEF Upserted, x

-----------------------------------------------------------------------------
(* Every file the manifest lists is the one it lists. *)
UpToDate(m, f) == \A i \in 1..Len(m) : f[m[i].file] = m[i].sha

(* It lists every shard. *)
AllListed(m) == \A s \in Shards : \E i \in 1..Len(m) : m[i].file = s

(* Every file the manifest lists is there and, if hashes are compared, is  *)
(* the one it lists.                                                       *)
Readable(m, f, v) ==
  \A i \in 1..Len(m) : f[m[i].file] # NoFile /\ (v => f[m[i].file] = m[i].sha)

(* A listed shard loads if its file is there and, on request, the listed   *)
(* one: whichever run wrote it, it is whole.                               *)
LEMMA LoadsIff ==
  ASSUME NEW n \in Nat, NEW m, ManifestOK(m, n), NEW f, FilesOK(f, n),
         NEW i \in 1..Len(m), NEW v \in BOOLEAN
  PROVE  /\ Loads(m[i], f, v) <=> f[m[i].file] # NoFile /\ (v => f[m[i].file] = m[i].sha)
         /\ Loads(m[i], f, v) => RecordsOf(m[i], f) = InOrder(ShardRange(m[i].file))
<1> DEFINE s == m[i].file
<1>1. s \in Shards /\ m[i].count = LastBlock(s) - FirstBlock(s) + 1
  BY ManifestEntries DEF ProperEntry
<1> HIDE DEF s
<1>2. ASSUME f[s] # NoFile
      PROVE  /\ \A g \in f[s] : Cardinality(g.blocks) = m[i].count
             /\ UNION {g.blocks : g \in f[s]} = ShardRange(s)
  <2>1. PICK e \in 1..n : f[s] = FileOf(s, e)
    BY <1>1, <1>2 DEF FilesOK
  <2>2. f[s] = {[blocks |-> ShardRange(s), epoch |-> e]}
    BY <2>1 DEF FileOf, Blob
  <2>3. {g.blocks : g \in f[s]} = {ShardRange(s)}
    BY <2>2
  <2>4. Cardinality(ShardRange(s)) = m[i].count
    BY <1>1, ShardBlocks
  <2> QED BY <2>2, <2>3, <2>4
<1> QED BY <1>2 DEF Loads, RecordsOf, s

(* A file that is the listed one is there. *)
LEMMA ReadableIff ==
  ASSUME NEW n \in Nat, NEW m, ManifestOK(m, n), NEW f
  PROVE  Readable(m, f, TRUE) <=> UpToDate(m, f)
<1>1. \A i \in 1..Len(m) : m[i].sha # NoFile
  <2> TAKE i \in 1..Len(m)
  <2>1. PICK e \in 1..n : m[i].sha = FileOf(m[i].file, e)
    BY ManifestEntries
  <2> QED BY <2>1 DEF FileOf, Blob, NoFile
<1> QED BY <1>1 DEF Readable, UpToDate

(* q is the blocks of the first k shards listed, ascending. *)
StreamIs(q, m, k) ==
  /\ q \in Seq(Blocks) /\ AscendingList(q)
  /\ \A bn \in Blocks :
       (\E j \in 1..Len(q) : q[j] = bn) <=> \E i \in 1..k : m[i].file = ShardIndex(bn)

(* What is streamed is the blocks of the shards listed before the first    *)
(* that does not load.                                                     *)
LEMMA StreamOf ==
  ASSUME NEW n \in Nat, NEW m, ManifestOK(m, n), NEW f, FilesOK(f, n), NEW v \in BOOLEAN
  PROVE  \E k \in 0..Len(m) : /\ StreamIs(Streamed(m, f, v), m, k)
                              /\ Readable(m, f, v) => k = Len(m)
<1>0. Len(m) \in Nat /\ DOMAIN m = 1..Len(m)
  BY DEF ManifestOK
<1> DEFINE fails == {i \in DOMAIN m : ~Loads(m[i], f, v)}
           k == IF fails = {} THEN Len(m) ELSE Min(fails) - 1
           ls == [i \in 1..k |-> RecordsOf(m[i], f)]
<1>1. k \in 0..Len(m) /\ \A i \in 1..k : i \in 1..Len(m) /\ Loads(m[i], f, v)
  <2>1. CASE fails = {}
    BY <1>0, <2>1
  <2>2. CASE fails # {}
    <3>1. fails \in SUBSET Nat /\ fails \subseteq 1..Len(m)
      BY <1>0
    <3>2. /\ \A i \in 1..Len(m) : ~Loads(m[i], f, v) => i \in fails
          /\ k = Min(fails) - 1
      BY <1>0, <2>2
    <3> HIDE DEF fails, k
    <3>3. \E x \in fails : \A y \in fails : x <= y
      BY <2>2, <3>1, LeastNumber
    <3>4. Min(fails) \in fails /\ \A y \in fails : Min(fails) <= y
      BY <3>3 DEF Min
    <3>5. Min(fails) \in 1..Len(m)
      BY <3>1, <3>4
    <3>6. k \in 0..Len(m)
      BY <1>0, <3>2, <3>5
    <3>7. ASSUME NEW i \in 1..k PROVE i \in 1..Len(m) /\ Loads(m[i], f, v)
      <4>1. i \in 1..Len(m) /\ ~(Min(fails) <= i)
        BY <1>0, <3>2, <3>5
      <4>2. i \notin fails
        BY <3>4, <4>1
      <4> QED BY <3>2, <4>1, <4>2
    <3> QED BY <3>6, <3>7
  <2> QED BY <2>1, <2>2
<1>2. Readable(m, f, v) => k = Len(m)
  <2> SUFFICES ASSUME Readable(m, f, v) PROVE fails = {}
    OBVIOUS
  <2>1. \A i \in 1..Len(m) : Loads(m[i], f, v)
    BY LoadsIff DEF Readable
  <2> QED BY <1>0, <2>1
<1>3. Streamed(m, f, v) = FlattenSeq(ls)
  BY DEF Streamed
<1> HIDE DEF fails, k
<1>4. ASSUME NEW i \in 1..k
      PROVE  /\ m[i].file \in Shards /\ Enumerates(ls[i], ShardRange(m[i].file))
             /\ ls[i] \in Seq(ShardRange(m[i].file)) /\ ls[i] \in Seq(Int) /\ AscendingList(ls[i])
  <2>1. i \in 1..Len(m) /\ Loads(m[i], f, v)
    BY <1>1
  <2>2. m[i].file \in Shards
    BY <2>1, ManifestEntries DEF ProperEntry
  <2>3. ls[i] = InOrder(ShardRange(m[i].file))
    BY <2>1, LoadsIff
  <2>4. ShardRange(m[i].file) \in SUBSET Int /\ IsFiniteSet(ShardRange(m[i].file))
    BY <2>2, ShardBlocks DEF Blocks
  <2>5. Enumerates(ls[i], ShardRange(m[i].file))
    BY <2>3, <2>4, InOrderLists
  <2> HIDE DEF ls
  <2>6. ls[i] \in Seq(ShardRange(m[i].file)) /\ AscendingList(ls[i])
    BY <2>5 DEF Enumerates
  <2>7. ls[i] \in Seq(Int)
    BY <2>4, <2>6, SeqMonotonic
  <2> QED BY <2>2, <2>5, <2>6, <2>7
<1>5. Len(ls) = k /\ k \in Nat
  BY <1>1
<1>6. ls \in Seq(Seq(Int))
  <2>1. ls \in [1..k -> Seq(Int)]
    <3>1. \A i \in 1..k : ls[i] \in Seq(Int)
      BY <1>4
    <3> QED BY <3>1
  <2> QED BY <1>5, <2>1
<1> HIDE DEF ls
<1>7. Stacked(ls)
  <2> SUFFICES ASSUME NEW i \in 1..k, NEW j \in 1..k, i < j,
                      NEW a \in 1..Len(ls[i]), NEW b \in 1..Len(ls[j])
               PROVE  ls[i][a] < ls[j][b]
    BY <1>4, <1>5 DEF Stacked
  <2>1. ls[i][a] \in ShardRange(m[i].file) /\ ls[j][b] \in ShardRange(m[j].file)
    <3>1. ls[i] \in Seq(ShardRange(m[i].file)) /\ ls[j] \in Seq(ShardRange(m[j].file))
      BY <1>4
    <3> QED BY <3>1, ElementOfSeq
  <2>2. m[i].file < m[j].file /\ m[i].file \in Shards /\ m[j].file \in Shards
    BY <1>1, <1>4 DEF ManifestOK
  <2>3. LastBlock(m[i].file) < FirstBlock(m[j].file)
    BY <2>2, ShardOrder
  <2>4. /\ LastBlock(m[i].file) \in Int /\ FirstBlock(m[j].file) \in Int
        /\ FirstBlock(m[i].file) \in Int /\ LastBlock(m[j].file) \in Int
    BY <2>2, ShardBounds DEF Bounded
  <2> HIDE DEF FirstBlock, LastBlock
  <2>5. ls[i][a] \in Int /\ ls[i][a] <= LastBlock(m[i].file)
    BY <2>1, <2>4 DEF ShardRange
  <2>6. ls[j][b] \in Int /\ FirstBlock(m[j].file) <= ls[j][b]
    BY <2>1, <2>4 DEF ShardRange
  <2> DEFINE u == ls[i][a]
             w == ls[j][b]
             above == LastBlock(m[i].file)
             below == FirstBlock(m[j].file)
  <2>7. /\ u \in Int /\ above \in Int /\ below \in Int /\ w \in Int
        /\ u <= above /\ above < below /\ below <= w
    BY <2>3, <2>4, <2>5, <2>6
  <2> HIDE DEF u, w, above, below
  <2>8. u < w
    BY <2>7
  <2> QED BY <2>8 DEF u, w
<1> DEFINE q == FlattenSeq(ls)
<1>8. Joined(q, ls, k)
  BY <1>5, <1>6, <1>7, FlattenAscends
<1> HIDE DEF q
<1>9. q \in Seq(Int) /\ AscendingList(q)
  BY <1>8 DEF Joined
<1>10. ASSUME NEW j \in 1..Len(q)
       PROVE  \E i \in 1..k : q[j] \in Blocks /\ m[i].file = ShardIndex(q[j])
  <2>1. PICK i \in 1..k : \E a \in 1..Len(ls[i]) : q[j] = ls[i][a]
    BY <1>8 DEF Joined
  <2>2. m[i].file \in Shards /\ ls[i] \in Seq(ShardRange(m[i].file))
    BY <1>4
  <2>3. q[j] \in ShardRange(m[i].file)
    BY <2>1, <2>2, ElementOfSeq
  <2>4. q[j] \in Blocks
    BY <2>2, <2>3, ShardBlocks
  <2>5. ShardIndex(q[j]) = m[i].file
    BY <2>2, <2>3, <2>4, ShardOfBlock
  <2> QED BY <2>4, <2>5
<1>11. ASSUME NEW bn \in Blocks, NEW i \in 1..k, m[i].file = ShardIndex(bn)
       PROVE  \E j \in 1..Len(q) : q[j] = bn
  <2>1. bn \in ShardRange(m[i].file)
    BY <1>11, ShardOfBlock
  <2>2. Enumerates(ls[i], ShardRange(m[i].file))
    BY <1>4
  <2>3. PICK a \in 1..Len(ls[i]) : ls[i][a] = bn
    BY <2>1, <2>2 DEF Enumerates
  <2> QED BY <1>8, <2>3 DEF Joined
<1>12. q \in Seq(Blocks)
  <2>1. \A j \in 1..Len(q) : q[j] \in Blocks
    BY <1>10
  <2>2. q \in [1..Len(q) -> Blocks] /\ Len(q) \in Nat
    BY <1>9, <2>1
  <2> QED BY <2>2
<1>13. StreamIs(q, m, k)
  <2>1. ASSUME NEW bn \in Blocks
        PROVE  (\E j \in 1..Len(q) : q[j] = bn) <=> \E i \in 1..k : m[i].file = ShardIndex(bn)
    BY <1>10, <1>11
  <2> QED BY <1>9, <1>12, <2>1 DEF StreamIs
<1> QED BY <1>1, <1>2, <1>3, <1>13 DEF q

(* All the blocks of the run, in one ascending list, count through it. *)
LEMMA WholeStream ==
  ASSUME NEW q, q \in Seq(Blocks), AscendingList(q)
  PROVE  (\A bn \in Blocks : \E j \in 1..Len(q) : q[j] = bn)
           <=> Len(q) = EndBlock - StartBlock + 1
<1>1. IsFiniteSet(Blocks) /\ Cardinality(Blocks) = EndBlock - StartBlock + 1
  <2>1. /\ IsFiniteSet(StartBlock..EndBlock)
        /\ Cardinality(StartBlock..EndBlock) = IF StartBlock > EndBlock THEN 0 ELSE EndBlock - StartBlock + 1
    BY DatasetAssumption, FS_Interval
  <2> QED BY <2>1, DatasetAssumption, ScraperAssumption DEF Blocks
<1>2. Blocks \in SUBSET Int
  BY DatasetAssumption DEF Blocks
<1>3. q \in Recency(Blocks)
  BY <1>2, AscendingRecency
<1>4. Cardinality(ToSet(q)) = Len(q)
  BY <1>3, RecencyCardinality DEF Size
<1>5. ToSet(q) \in SUBSET Blocks
  BY <1>3, RecencyEmpty
<1>6. ToSet(q) = Blocks <=> Len(q) = EndBlock - StartBlock + 1
  <2>1. Cardinality(Blocks) = Cardinality(ToSet(q)) => Blocks = ToSet(q)
    BY <1>1, <1>5, FS_Subset
  <2> QED BY <1>1, <1>4, <2>1
<1>7. ToSet(q) = {q[j] : j \in 1..Len(q)}
  BY DEF ToSet
<1>8. Blocks \subseteq ToSet(q) <=> \A bn \in Blocks : \E j \in 1..Len(q) : q[j] = bn
  BY <1>7
<1>9. Blocks \subseteq ToSet(q) <=> ToSet(q) = Blocks
  BY <1>5
<1> QED BY <1>6, <1>8, <1>9

(* The shards are those of the blocks. *)
LEMMA ShardHasBlock ==
  ASSUME NEW s \in Shards
  PROVE  FirstBlock(s) \in Blocks /\ ShardIndex(FirstBlock(s)) = s
<1>1. FirstBlock(s) \in ShardRange(s) /\ FirstBlock(s) \in Blocks
  BY ShardBlocks
<1> QED BY <1>1, ShardOfBlock

(* No two begin with the same one. *)
LEMMA FirstsDiffer ==
  ASSUME NEW s \in Shards, NEW t \in Shards, FirstBlock(s) = FirstBlock(t)
  PROVE  s = t
<1>1. ShardIndex(FirstBlock(s)) = s /\ ShardIndex(FirstBlock(t)) = t
  BY ShardHasBlock
<1> QED BY <1>1

(* The simulator accepts a directory that lists every shard, and whose     *)
(* files are there and, on request, the ones listed.                       *)
LEMMA VerifyLoadIff ==
  ASSUME NEW n \in Nat, NEW m, ManifestOK(m, n), NEW f, FilesOK(f, n), NEW v \in BOOLEAN
  PROVE  VerifyLoad(m, f, v) <=> Readable(m, f, v) /\ AllListed(m)
<1> DEFINE q == Streamed(m, f, v)
<1>1. PICK k \in 0..Len(m) : StreamIs(q, m, k) /\ (Readable(m, f, v) => k = Len(m))
  BY StreamOf
<1>2. VerifyLoad(m, f, v) <=> /\ \A i \in DOMAIN m : Loads(m[i], f, v)
                              /\ Len(q) = EndBlock - StartBlock + 1
                              /\ \A i \in 1..Len(q) - 1 : q[i + 1] = q[i] + 1
  BY DEF VerifyLoad
<1> HIDE DEF q
<1>3. q \in Seq(Blocks) /\ AscendingList(q)
  BY <1>1 DEF StreamIs
<1>4. DOMAIN m = 1..Len(m)
  BY DEF ManifestOK
<1>5. (\A i \in DOMAIN m : Loads(m[i], f, v)) <=> Readable(m, f, v)
  BY <1>4, LoadsIff DEF Readable
<1>6. Readable(m, f, v) =>
        ((\A bn \in Blocks : \E j \in 1..Len(q) : q[j] = bn) <=> AllListed(m))
  <2> SUFFICES ASSUME Readable(m, f, v)
               PROVE  (\A bn \in Blocks : \E j \in 1..Len(q) : q[j] = bn) <=> AllListed(m)
    OBVIOUS
  <2>1. \A bn \in Blocks : (\E j \in 1..Len(q) : q[j] = bn)
                              <=> \E i \in 1..Len(m) : m[i].file = ShardIndex(bn)
    BY <1>1 DEF StreamIs
  <2>2. ASSUME AllListed(m), NEW bn \in Blocks PROVE \E i \in 1..Len(m) : m[i].file = ShardIndex(bn)
    BY <2>2, ShardOfBlock DEF AllListed
  <2>3. ASSUME \A bn \in Blocks : \E i \in 1..Len(m) : m[i].file = ShardIndex(bn), NEW s \in Shards
        PROVE  \E i \in 1..Len(m) : m[i].file = s
    BY <2>3, ShardHasBlock
  <2> QED BY <2>1, <2>2, <2>3 DEF AllListed
<1>7. Len(q) = EndBlock - StartBlock + 1 => \A i \in 1..Len(q) - 1 : q[i + 1] = q[i] + 1
  <2> SUFFICES ASSUME Len(q) = EndBlock - StartBlock + 1
               PROVE  \A i \in 1..Len(q) - 1 : q[i + 1] = q[i] + 1
    OBVIOUS
  <2>1. Enumerates(q, Blocks)
    BY <1>3, WholeStream DEF Enumerates
  <2>2. Enumerates(q, StartBlock..EndBlock)
    BY <2>1 DEF Blocks
  <2> QED BY <2>2, AscendingInterval, DatasetAssumption, ScraperAssumption
<1>8. (\A bn \in Blocks : \E j \in 1..Len(q) : q[j] = bn) <=> Len(q) = EndBlock - StartBlock + 1
  BY <1>3, WholeStream
<1> QED BY <1>2, <1>5, <1>6, <1>7, <1>8

(* A manifest without a gap lists every shard... *)
LEMMA GaplessListsAll ==
  ASSUME NEW n \in Nat, NEW m, ManifestOK(m, n), m # <<>>,
         \A i \in 1..Len(m) : m[i].first = IF i = 1 THEN StartBlock ELSE m[i - 1].last + 1,
         m[Len(m)].last = EndBlock
  PROVE  AllListed(m)
<1> SUFFICES ASSUME ~AllListed(m) PROVE FALSE
  OBVIOUS
<1>0. Len(m) \in Nat \ {0} /\ 1 \in 1..Len(m) /\ Len(m) \in 1..Len(m)
  BY EmptySeq DEF ManifestOK
<1> DEFINE missing == {s \in Shards : \A i \in 1..Len(m) : m[i].file # s}
<1>1. missing \in SUBSET Nat /\ missing # {}
  <2>1. \A s \in Shards : s \in Nat
    BY ShardCount DEF Shards
  <2>2. PICK s \in Shards : ~\E i \in 1..Len(m) : m[i].file = s
    BY DEF AllListed
  <2> QED BY <2>1, <2>2
<1>2. PICK s \in missing : \A t \in missing : s <= t
  BY <1>1, LeastNumber
<1>3. s \in Shards /\ s \in Nat /\ \A i \in 1..Len(m) : m[i].file # s
  BY <1>1, <1>2
<1>4. s # 0
  <2>1. m[1].file \in Shards /\ m[1].first = FirstBlock(m[1].file)
    BY <1>0, ManifestEntries DEF ProperEntry
  <2>2. m[1].first = StartBlock
    BY <1>0
  <2>3. m[1].file = 0
    <3>1. 0 \in Shards /\ FirstBlock(0) = StartBlock
      BY FirstAndLast
    <3>2. FirstBlock(m[1].file) = FirstBlock(0)
      BY <2>1, <2>2, <3>1
    <3> QED BY <2>1, <3>1, <3>2, FirstsDiffer
  <2> QED BY <1>0, <1>3, <2>3
<1>5. s - 1 \in Shards /\ s - 1 \notin missing
  <2>1. s - 1 \in Shards
    BY <1>3, <1>4, ShardCount DEF Shards
  <2>2. ~(s <= s - 1)
    BY <1>3
  <2> HIDE DEF missing
  <2> QED BY <1>2, <2>1, <2>2
<1>6. PICK i \in 1..Len(m) : m[i].file = s - 1
  BY <1>5
<1>7. m[i].last = LastBlock(s - 1)
  BY <1>6, ManifestEntries DEF ProperEntry
<1>8. i # Len(m)
  <2>1. i = Len(m) => s - 1 = NShards - 1
    BY <1>5, <1>7, FirstAndLast
  <2>2. s <= NShards - 1 /\ NShards \in Int
    BY <1>3, ShardCount DEF Shards
  <2> QED BY <1>3, <2>1, <2>2
<1>9. i + 1 \in 1..Len(m) /\ i + 1 # 1 /\ (i + 1) - 1 = i
  BY <1>0, <1>8
<1>10. m[i + 1].first = LastBlock(s - 1) + 1
  BY <1>7, <1>9
<1>11. LastBlock(s - 1) + 1 = FirstBlock(s)
  <2>1. (s - 1) + 1 = s
    BY <1>3
  <2> QED BY <1>3, <1>5, <2>1, ShardNext
<1>12. m[i + 1].file \in Shards /\ m[i + 1].first = FirstBlock(m[i + 1].file)
  BY <1>9, ManifestEntries DEF ProperEntry
<1>13. m[i + 1].file = s
  BY <1>3, <1>10, <1>11, <1>12, FirstsDiffer
<1> QED BY <1>3, <1>9, <1>13

(* ... and one that lists every shard has no gap. *)
LEMMA AllListedGapless ==
  ASSUME NEW n \in Nat, NEW m, ManifestOK(m, n), AllListed(m)
  PROVE  /\ m # <<>>
         /\ \A i \in 1..Len(m) : m[i].first = IF i = 1 THEN StartBlock ELSE m[i - 1].last + 1
         /\ m[Len(m)].last = EndBlock
<1> DEFINE q == [i \in 1..Len(m) |-> m[i].file]
           b == NShards - 1
<1>0. Len(m) \in Nat /\ b \in Int /\ 0 <= b /\ Shards = 0..b
  BY ShardCount DEF ManifestOK, Shards
<1>1. \A i \in 1..Len(m) : m[i].file \in Shards /\ ProperEntry(m[i])
  BY ManifestEntries DEF ProperEntry
<1>2. Len(q) = Len(m) /\ q \in Seq(0..b)
  <2>1. q \in [1..Len(m) -> Shards]
    BY <1>1
  <2> HIDE DEF b
  <2> QED BY <1>0, <2>1
<1>3. AscendingList(q)
  BY <1>2 DEF ManifestOK, AscendingList
<1>4. Enumerates(q, 0..b)
  <2>1. \A s \in Shards : \E i \in 1..Len(q) : q[i] = s
    BY <1>2 DEF AllListed
  <2> HIDE DEF q, b
  <2> QED BY <1>0, <1>2, <1>3, <2>1 DEF Enumerates
<1>5. /\ Len(q) \in Nat \ {0} /\ q[1] = 0 /\ q[Len(q)] = b
      /\ \A i \in 1..Len(q) - 1 : q[i + 1] = q[i] + 1
  <2> HIDE DEF q, b
  <2> QED BY <1>0, <1>4, AscendingInterval
<1>6. 1 \in 1..Len(m) /\ Len(m) \in 1..Len(m) /\ m[1].file = 0 /\ m[Len(m)].file = b
  BY <1>2, <1>5
<1>7. m # <<>>
  BY <1>6
<1>8. ASSUME NEW i \in 1..Len(m)
      PROVE  m[i].first = IF i = 1 THEN StartBlock ELSE m[i - 1].last + 1
  <2>1. CASE i = 1
    BY <1>1, <1>6, <2>1, FirstAndLast DEF ProperEntry
  <2>2. CASE i # 1
    <3>1. i - 1 \in 1..Len(m) /\ i - 1 \in 1..Len(q) - 1 /\ (i - 1) + 1 = i
      BY <1>2, <2>2
    <3>2. q[i] = q[i - 1] + 1
      <4> HIDE DEF q
      <4> QED BY <1>5, <3>1
    <3>3. m[i].file = m[i - 1].file + 1
      BY <3>1, <3>2
    <3>4. LastBlock(m[i - 1].file) + 1 = FirstBlock(m[i].file)
      BY <1>1, <3>1, <3>3, ShardNext
    <3> QED BY <1>1, <2>2, <3>1, <3>4 DEF ProperEntry
  <2> QED BY <2>1, <2>2
<1>9. m[Len(m)].last = EndBlock
  BY <1>1, <1>6, FirstAndLast DEF ProperEntry
<1> QED BY <1>7, <1>8, <1>9

(* The scraper's own verify accepts the same directories. *)
LEMMA VerifyIff ==
  ASSUME NEW n \in Nat, NEW m, ManifestOK(m, n), NEW f
  PROVE  Verify(m, f) <=> UpToDate(m, f) /\ AllListed(m)
<1>1. DOMAIN m = 1..Len(m) /\ Covered(m) = m
  BY CoveredIsManifest DEF ManifestOK
<1>2. \A i \in 1..Len(m) : /\ m[i].last - m[i].first + 1 = m[i].count
                           /\ f[m[i].file] = m[i].sha => f[m[i].file] # NoFile
  <2> TAKE i \in 1..Len(m)
  <2>1. ProperEntry(m[i])
    BY ManifestEntries
  <2>2. PICK e \in 1..n : m[i].sha = FileOf(m[i].file, e)
    BY ManifestEntries
  <2> QED BY <2>1, <2>2 DEF ProperEntry, FileOf, Blob, NoFile
<1>3. Verify(m, f) <=>
        /\ UpToDate(m, f)
        /\ m # <<>>
        /\ \A i \in 1..Len(m) : m[i].first = IF i = 1 THEN StartBlock ELSE m[i - 1].last + 1
        /\ m[Len(m)].last = EndBlock
  BY <1>1, <1>2 DEF Verify, UpToDate
<1> QED BY <1>3, GaplessListsAll, AllListedGapless

-----------------------------------------------------------------------------
(* Two sets that differ on d at most. *)
LEMMA OneApart ==
  ASSUME NEW P, NEW Q, IsFiniteSet(P), NEW d, P \ {d} = Q \ {d}
  PROVE  /\ IsFiniteSet(Q) /\ Cardinality(P) \in Nat /\ Cardinality(Q) \in Nat
         /\ (d \in P /\ d \in Q) \/ (d \notin P /\ d \notin Q) => Cardinality(Q) = Cardinality(P)
         /\ d \in P /\ d \notin Q => Cardinality(Q) = Cardinality(P) - 1
         /\ d \notin P /\ d \in Q => Cardinality(Q) = Cardinality(P) + 1
<1> DEFINE R == P \ {d}
<1>1. IsFiniteSet(R) /\ d \notin R
  BY FS_RemoveElement
<1> HIDE DEF R
<1>2. IsFiniteSet(R \cup {d}) /\ Cardinality(R \cup {d}) = Cardinality(R) + 1
  BY <1>1, FS_AddElement
<1>3. /\ d \in P => P = R \cup {d}
      /\ d \notin P => P = R
      /\ d \in Q => Q = R \cup {d}
      /\ d \notin Q => Q = R
  BY DEF R
<1>4. Cardinality(R) \in Nat
  BY <1>1, FS_CardinalityType
<1>5. /\ d \in P => Cardinality(P) = Cardinality(R) + 1
      /\ d \notin P => Cardinality(P) = Cardinality(R)
  BY <1>2, <1>3
<1>6. /\ d \in Q => Cardinality(Q) = Cardinality(R) + 1
      /\ d \notin Q => Cardinality(Q) = Cardinality(R)
  BY <1>2, <1>3
<1>7. IsFiniteSet(Q)
  BY <1>1, <1>2, <1>3
<1> DEFINE p == Cardinality(P)
           q == Cardinality(Q)
           k == Cardinality(R)
<1> HIDE DEF p, q, k
<1>8. /\ k \in Nat
      /\ d \in P => p = k + 1
      /\ d \notin P => p = k
      /\ d \in Q => q = k + 1
      /\ d \notin Q => q = k
  BY <1>4, <1>5, <1>6 DEF p, q, k
<1>9. /\ p \in Nat /\ q \in Nat
      /\ (d \in P /\ d \in Q) \/ (d \notin P /\ d \notin Q) => q = p
      /\ d \in P /\ d \notin Q => q = p - 1
      /\ d \notin P /\ d \in Q => q = p + 1
  BY <1>8
<1> QED BY <1>7, <1>9 DEF p, q

(* Places one lower: the first place is dropped. *)
LEMMA OneLower ==
  ASSUME NEW n \in Nat, n # 0, NEW P \in SUBSET (1..n), NEW Q \in SUBSET (1..n - 1),
         \A j \in 1..n - 1 : j \in Q <=> j + 1 \in P
  PROVE  /\ Cardinality(P) \in Nat /\ Cardinality(Q) \in Nat
         /\ Cardinality(Q) = IF 1 \in P THEN Cardinality(P) - 1 ELSE Cardinality(P)
<1> DEFINE R == P \ {1}
           f == [j \in Q |-> j + 1]
<1>0. /\ \A i \in P : i \in Int /\ 1 <= i /\ i <= n
      /\ \A j \in Q : j \in Int /\ 1 <= j /\ j <= n - 1 /\ j + 1 \in P
  BY DEF R
<1>1. IsFiniteSet(P) /\ IsFiniteSet(Q)
  <2>1. IsFiniteSet(1..n) /\ IsFiniteSet(1..n - 1)
    BY FS_Interval
  <2> QED BY <2>1, FS_Subset
<1>2. f \in Bijection(Q, R)
  <2>1. f \in [Q -> R]
    BY <1>0
  <2>2. \A a, b \in Q : f[a] = f[b] => a = b
    BY <1>0
  <2>3. \A i \in R : i - 1 \in Q /\ f[i - 1] = i
    <3> TAKE i \in R
    <3>1. i - 1 \in 1..n - 1 /\ (i - 1) + 1 = i
      BY <1>0
    <3>2. i - 1 \in Q
      BY <3>1
    <3> QED BY <3>1, <3>2
  <2> HIDE DEF f, R
  <2>4. f \in Injection(Q, R)
    BY <2>1, <2>2 DEF Injection, IsInjective
  <2>5. f \in Surjection(Q, R)
    BY <2>1, <2>3 DEF Surjection
  <2> QED BY <2>4, <2>5 DEF Bijection
<1>3. Cardinality(R) = Cardinality(Q)
  <2> HIDE DEF f, R
  <2>1. ExistsBijection(Q, R)
    BY <1>2 DEF ExistsBijection
  <2> QED BY <1>1, <2>1, FS_Bijection
<1>4. Cardinality(R) = IF 1 \in P THEN Cardinality(P) - 1 ELSE Cardinality(P)
  BY <1>1, FS_RemoveElement
<1>5. Cardinality(P) \in Nat /\ Cardinality(Q) \in Nat
  BY <1>1, FS_CardinalityType
<1> QED BY <1>3, <1>4, <1>5

-----------------------------------------------------------------------------
(* How many places of the list q hold a member of H. *)
Count(q, H) == Cardinality({i \in DOMAIN q : q[i] \in H})

(* How many members of D hold bn. *)
Holders(D, f, bn) == Cardinality({d \in D : bn \in f[d]})

(* A finite set has a member if it has one at least. *)
LEMMA CountIsZero ==
  ASSUME NEW P, IsFiniteSet(P)
  PROVE  Cardinality(P) \in Nat /\ (Cardinality(P) = 0 <=> P = {})
BY FS_CardinalityType, FS_EmptySet

(* The count is a number, and 0 where nothing is counted. *)
LEMMA CountNone ==
  ASSUME NEW S, NEW q \in Seq(S), NEW H
  PROVE  /\ Count(q, H) \in Nat
         /\ Count(q, H) = 0 <=> \A i \in 1..Len(q) : q[i] \notin H
<1> DEFINE P == {i \in DOMAIN q : q[i] \in H}
<1>1. DOMAIN q = 1..Len(q) /\ Len(q) \in Nat
  OBVIOUS
<1>2. IsFiniteSet(1..Len(q)) /\ P \in SUBSET (1..Len(q))
  BY <1>1, FS_Interval
<1>3. P = {} <=> \A i \in 1..Len(q) : q[i] \notin H
  BY <1>1
<1> HIDE DEF P
<1>4. IsFiniteSet(P)
  BY <1>2, FS_Subset
<1>5. Count(q, H) = Cardinality(P)
  BY DEF Count, P
<1> QED BY <1>3, <1>4, <1>5, CountIsZero

(* Nothing is in the empty list. *)
LEMMA CountEmpty ==
  \A H : Count(<<>>, H) = 0
<1> SUFFICES ASSUME NEW H PROVE Count(<<>>, H) = 0
  OBVIOUS
<1>1. {i \in DOMAIN <<>> : <<>>[i] \in H} = {}
  OBVIOUS
<1> QED BY <1>1, FS_EmptySet DEF Count

(* One more place. *)
LEMMA CountAppend ==
  ASSUME NEW S, NEW q \in Seq(S), NEW x \in S, NEW H
  PROVE  /\ x \in H => Count(Append(q, x), H) = Count(q, H) + 1
         /\ x \notin H => Count(Append(q, x), H) = Count(q, H)
<1> DEFINE r == Append(q, x)
           P == {i \in DOMAIN q : q[i] \in H}
           Q == {i \in DOMAIN r : r[i] \in H}
           d == Len(q) + 1
<1>1. /\ DOMAIN q = 1..Len(q) /\ Len(q) \in Nat /\ DOMAIN r = 1..d
      /\ r[d] = x /\ \A i \in 1..Len(q) : r[i] = q[i]
  BY AppendProperties
<1> HIDE DEF r
<1>2. d \notin P /\ P \in SUBSET (1..Len(q))
  BY <1>1
<1>3. d \in Q <=> x \in H
  BY <1>1
<1>4. \A i : i # d => (i \in P <=> i \in Q)
  BY <1>1
<1> HIDE DEF P, Q, d
<1>5. P \ {d} = Q \ {d}
  BY <1>4
<1>6. IsFiniteSet(P)
  <2>1. IsFiniteSet(1..Len(q))
    BY <1>1, FS_Interval
  <2> QED BY <1>2, <2>1, FS_Subset
<1>7. Count(q, H) = Cardinality(P) /\ Count(r, H) = Cardinality(Q)
  BY DEF Count, P, Q
<1>8. /\ d \notin P /\ d \notin Q => Cardinality(Q) = Cardinality(P)
      /\ d \notin P /\ d \in Q => Cardinality(Q) = Cardinality(P) + 1
  BY <1>5, <1>6, OneApart
<1>9. /\ x \in H => Count(r, H) = Count(q, H) + 1
      /\ x \notin H => Count(r, H) = Count(q, H)
  BY <1>2, <1>3, <1>7, <1>8
<1> QED BY <1>9 DEF r

(* One place less. *)
LEMMA CountTail ==
  ASSUME NEW S, NEW q \in Seq(S), q # <<>>, NEW H
  PROVE  /\ Head(q) \in H => Count(Tail(q), H) = Count(q, H) - 1
         /\ Head(q) \notin H => Count(Tail(q), H) = Count(q, H)
<1> DEFINE r == Tail(q)
           n == Len(q)
           P == {i \in DOMAIN q : q[i] \in H}
           Q == {i \in DOMAIN r : r[i] \in H}
<1>1. /\ n \in Nat /\ n # 0 /\ DOMAIN q = 1..n /\ DOMAIN r = 1..n - 1
      /\ Head(q) = q[1] /\ \A i \in 1..n - 1 : r[i] = q[i + 1]
  BY HeadTailProperties, EmptySeq
<1> HIDE DEF r, n
<1>2. P \in SUBSET (1..n) /\ Q \in SUBSET (1..n - 1)
  BY <1>1
<1>3. \A j \in 1..n - 1 : j \in Q <=> j + 1 \in P
  <2> TAKE j \in 1..n - 1
  <2>1. j + 1 \in 1..n
    BY <1>1
  <2> QED BY <1>1, <2>1
<1>4. 1 \in P <=> Head(q) \in H
  BY <1>1
<1>5. Count(q, H) = Cardinality(P) /\ Count(r, H) = Cardinality(Q)
  BY DEF Count
<1> HIDE DEF P, Q
<1>6. Cardinality(Q) = IF 1 \in P THEN Cardinality(P) - 1 ELSE Cardinality(P)
  <2>1. n \in Nat /\ n # 0
    BY <1>1
  <2> HIDE DEF n
  <2> QED BY <1>2, <1>3, <2>1, OneLower
<1>7. /\ Head(q) \in H => Count(r, H) = Count(q, H) - 1
      /\ Head(q) \notin H => Count(r, H) = Count(q, H)
  BY <1>4, <1>5, <1>6
<1> QED BY <1>7 DEF r

(* The number of holders, and what changes it when one of them changes. *)
LEMMA HoldersNone ==
  ASSUME NEW D, IsFiniteSet(D), NEW f, NEW bn
  PROVE  /\ Holders(D, f, bn) \in Nat
         /\ Holders(D, f, bn) = 0 <=> \A d \in D : bn \notin f[d]
<1> DEFINE P == {d \in D : bn \in f[d]}
<1>1. IsFiniteSet(P)
  <2>1. P \in SUBSET D
    OBVIOUS
  <2> QED BY <2>1, FS_Subset
<1>2. P = {} <=> \A d \in D : bn \notin f[d]
  OBVIOUS
<1>3. Holders(D, f, bn) = Cardinality(P)
  BY DEF Holders
<1> HIDE DEF P
<1> QED BY <1>1, <1>2, <1>3, CountIsZero

HolderChange(D, f, g, bn, d) ==
  /\ (bn \in f[d] <=> bn \in g[d]) => Holders(D, g, bn) = Holders(D, f, bn)
  /\ bn \in f[d] /\ bn \notin g[d] => Holders(D, g, bn) = Holders(D, f, bn) - 1
  /\ bn \notin f[d] /\ bn \in g[d] => Holders(D, g, bn) = Holders(D, f, bn) + 1

(* One place that gains or loses a block is one holder more or less. *)
LEMMA HoldersExcept ==
  ASSUME NEW D, IsFiniteSet(D), NEW f, NEW g, NEW bn, NEW d \in D,
         \A c \in D : c # d => g[c] = f[c]
  PROVE  HolderChange(D, f, g, bn, d)
<1> DEFINE P == {c \in D : bn \in f[c]}
           Q == {c \in D : bn \in g[c]}
<1>1. IsFiniteSet(P)
  <2>1. P \in SUBSET D
    OBVIOUS
  <2> QED BY <2>1, FS_Subset
<1>2. P \ {d} = Q \ {d}
  OBVIOUS
<1>3. (d \in P <=> bn \in f[d]) /\ (d \in Q <=> bn \in g[d])
  OBVIOUS
<1>4. Holders(D, f, bn) = Cardinality(P) /\ Holders(D, g, bn) = Cardinality(Q)
  BY DEF Holders
<1> HIDE DEF P, Q
<1>5. /\ (d \in P /\ d \in Q) \/ (d \notin P /\ d \notin Q) => Cardinality(Q) = Cardinality(P)
      /\ d \in P /\ d \notin Q => Cardinality(Q) = Cardinality(P) - 1
      /\ d \notin P /\ d \in Q => Cardinality(Q) = Cardinality(P) + 1
  BY <1>1, <1>2, OneApart
<1> QED BY <1>3, <1>4, <1>5 DEF HolderChange

(* An ascending list of S has each member of S once. *)
LEMMA CountInOrder ==
  ASSUME NEW S \in SUBSET Int, NEW q, Enumerates(q, S), NEW bn
  PROVE  Count(q, {bn}) = IF bn \in S THEN 1 ELSE 0
<1>1. q \in Seq(S) /\ AscendingList(q) /\ DOMAIN q = 1..Len(q)
  BY DEF Enumerates
<1>2. q \in Recency(S)
  BY <1>1, AscendingRecency
<1>3. CASE bn \notin S
  <2>1. \A i \in 1..Len(q) : q[i] \notin {bn}
    BY <1>1, <1>3, ElementOfSeq
  <2> QED BY <1>1, <1>3, <2>1, CountNone
<1>4. CASE bn \in S
  <2>1. PICK i \in 1..Len(q) : q[i] = bn
    BY <1>4 DEF Enumerates
  <2>2. {j \in DOMAIN q : q[j] \in {bn}} = {i}
    BY <1>1, <1>2, <2>1 DEF Recency, IsInjective
  <2> QED BY <1>4, <2>2, FS_Singleton DEF Count
<1> QED BY <1>3, <1>4

-----------------------------------------------------------------------------
(* The invariant. *)
Items == {DONE} \cup {{bn} : bn \in Blocks}

Shapes ==
  /\ phase \in {"down", "run", "done"}
  /\ work \in Seq(Blocks)
  /\ results \in Seq(Items) /\ Len(results) <= QueueSize
  /\ pc \in [Workers -> {"take", "fetch", "put", "sleep", "leave", "exited"}]
  /\ held \in [Workers -> Items]
  /\ \A w \in Workers : held[w] # {} <=> pc[w] \in {"fetch", "put"}
  /\ doneWorkers \in Nat
  /\ buffer \in [Shards -> SUBSET Blocks]
  /\ \A s \in Shards : buffer[s] \subseteq ShardRange(s)

ListedAs(s) ==
  files[s] # NoFile /\ \E i \in 1..Len(manifest) : manifest[i].file = s /\ manifest[i].sha = files[s]

DiskInv ==
  /\ epoch \in Nat /\ (phase # "down" => epoch # 0)
  /\ FilesOK(files, epoch)
  /\ ManifestOK(manifest, epoch)
  /\ checkpoint.completed \subseteq Shards
  /\ \A s \in checkpoint.completed : ListedAs(s)

FlushInv ==
  /\ flush \in [next : {"none", "file", "manifest", "checkpoint"}, shard : Shards]
  /\ flush.next = "none" => flush = NoFlush
  /\ flush.next # "none" =>
       /\ phase = "run" /\ flush.shard \notin checkpoint.completed
       /\ buffer[flush.shard] = ShardRange(flush.shard)
  /\ flush.next \in {"manifest", "checkpoint"} => files[flush.shard] = FileOf(flush.shard, epoch)
  /\ flush.next = "checkpoint" => ListedAs(flush.shard)

(* The records of block bn, and the places it is in. *)
With(bn) == {S \in SUBSET Blocks : bn \in S}

Tally(wk, h, r, b, bn) ==
  Count(wk, {bn}) + Holders(Workers, h, bn) + Count(r, With(bn)) + Holders(Shards, b, bn)

Balanced(wk, h, r, b, P) ==
  \A bn \in Blocks : Tally(wk, h, r, b, bn) = IF bn \in P THEN 1 ELSE 0

PlacesInv == phase = "run" => Balanced(work, held, results, buffer, PendingBlocks)

Exited == {w \in Workers : pc[w] = "exited"}

(* Whoever left has left a mark, and nobody leaves before the work is      *)
(* done: a run that ends has nothing left anywhere.                        *)
RunEnd ==
  /\ (\A w \in Workers : pc[w] \in {"leave", "exited"}) => work = <<>>
  /\ Count(results, {DONE}) + doneWorkers = Cardinality(Exited)
  /\ (Exited = Workers /\ results # <<>>) => results[Len(results)] = DONE

EndInv ==
  /\ phase = "down" => Idle
  /\ phase = "run" => RunEnd
  /\ phase = "done" =>
       /\ PendingBlocks = {} /\ work = <<>> /\ results = <<>>
       /\ buffer = [s \in Shards |-> {}] /\ doneWorkers <= Cardinality(Workers)

IInv == Shapes /\ DiskInv /\ FlushInv /\ PlacesInv /\ EndInv

-----------------------------------------------------------------------------
(* The counts of a state are numbers. *)
LEMMA TallyTypes ==
  ASSUME NEW wk \in Seq(Blocks), NEW h, NEW r \in Seq(Items), NEW b, NEW bn
  PROVE  /\ Count(wk, {bn}) \in Nat /\ Holders(Workers, h, bn) \in Nat
         /\ Count(r, With(bn)) \in Nat /\ Holders(Shards, b, bn) \in Nat
<1>1. IsFiniteSet(Workers) /\ IsFiniteSet(Shards)
  BY ShardsFinite, ScraperAssumption
<1> QED BY <1>1, CountNone, HoldersNone

(* A record is of one block, a mark of none. *)
LEMMA WithRecord ==
  ASSUME NEW bn \in Blocks
  PROVE  /\ DONE \notin With(bn)
         /\ \A x \in Blocks : {x} \in With(bn) <=> x = bn
         /\ \A S \in Items : S \in With(bn) <=> bn \in S
BY DEF With, DONE, Items

(* What no step of a worker touches. *)
LEMMA DiskUntouched ==
  ASSUME DiskInv, FlushInv, UNCHANGED <<phase, buffer, flush, disk, epoch>>
  PROVE  DiskInv' /\ FlushInv'
<1>1. /\ phase' = phase /\ buffer' = buffer /\ flush' = flush /\ epoch' = epoch
      /\ files' = files /\ manifest' = manifest /\ checkpoint' = checkpoint
  BY DEF disk
<1>2. DiskInv'
  BY <1>1 DEF DiskInv, ListedAs
<1>3. FlushInv'
  BY <1>1 DEF FlushInv, ListedAs
<1> QED BY <1>2, <1>3

(* A worker takes a block: it is in its hand instead of the queue. *)
LEMMA TakeStep ==
  ASSUME IInv, NEW w \in Workers, Take(w)
  PROVE  IInv'
<1>0. Shapes /\ DiskInv /\ FlushInv /\ PlacesInv /\ EndInv
  BY DEF IInv
<1>1. DiskInv' /\ FlushInv'
  BY <1>0, DiskUntouched DEF Take
<1>2. /\ phase = "run" /\ phase' = "run" /\ pc[w] = "take" /\ held[w] = {}
      /\ results' = results /\ doneWorkers' = doneWorkers /\ buffer' = buffer
      /\ checkpoint' = checkpoint
      /\ work \in Seq(Blocks) /\ results \in Seq(Items) /\ RunEnd
      /\ pc \in [Workers -> {"take", "fetch", "put", "sleep", "leave", "exited"}]
  BY <1>0 DEF Take, Awaiting, Shapes, EndInv, disk
<1>3. CASE work = <<>>
  <2>1. pc' = [pc EXCEPT ![w] = "leave"] /\ work' = work /\ held' = held
    BY <1>3 DEF Take
  <2>2. Shapes'
    BY <1>0, <1>2, <2>1 DEF Shapes
  <2>3. PlacesInv'
    BY <1>0, <1>2, <2>1 DEF PlacesInv, Balanced, PendingBlocks
  <2>4. Exited' = Exited
    BY <1>2, <2>1 DEF Exited
  <2>5. EndInv'
    BY <1>2, <1>3, <2>1, <2>4 DEF EndInv, RunEnd
  <2> QED BY <1>1, <2>2, <2>3, <2>5 DEF IInv
<1>4. CASE work # <<>>
  <2> DEFINE x == Head(work)
  <2>1. /\ pc' = [pc EXCEPT ![w] = "fetch"] /\ held' = [held EXCEPT ![w] = {x}]
        /\ work' = Tail(work)
    BY <1>4 DEF Take
  <2>2. x \in Blocks /\ Tail(work) \in Seq(Blocks)
    BY <1>2, <1>4, HeadTailProperties
  <2>3. Shapes'
    BY <1>0, <1>2, <2>1, <2>2 DEF Shapes, Items
  <2>4. ASSUME NEW bn \in Blocks
        PROVE  Tally(work, held, results, buffer, bn)' = Tally(work, held, results, buffer, bn)
    <3>1. /\ x = bn => Count(Tail(work), {bn}) = Count(work, {bn}) - 1
          /\ x # bn => Count(Tail(work), {bn}) = Count(work, {bn})
      BY <1>2, <1>4, CountTail
    <3>2. HolderChange(Workers, held, held', bn, w)
      BY <1>0, <2>1, ScraperAssumption, HoldersExcept DEF Shapes
    <3>3. held'[w] = {x}
      BY <1>0, <2>1 DEF Shapes
    <3>4. /\ x = bn => Holders(Workers, held', bn) = Holders(Workers, held, bn) + 1
          /\ x # bn => Holders(Workers, held', bn) = Holders(Workers, held, bn)
      BY <1>2, <3>2, <3>3 DEF HolderChange
    <3>5. /\ Count(work, {bn}) \in Nat /\ Holders(Workers, held, bn) \in Nat
          /\ Count(results, With(bn)) \in Nat /\ Holders(Shards, buffer, bn) \in Nat
      BY <1>2, TallyTypes
    <3> HIDE DEF x
    <3> QED BY <1>2, <2>1, <3>1, <3>4, <3>5 DEF Tally
  <2>5. PlacesInv'
    BY <1>0, <1>2, <2>4 DEF PlacesInv, Balanced, PendingBlocks
  <2>6. Exited' = Exited
    BY <1>2, <2>1 DEF Exited
  <2>7. pc'[w] = "fetch"
    BY <1>2, <2>1
  <2>8. EndInv'
    BY <1>2, <2>6, <2>7 DEF EndInv, RunEnd
  <2> QED BY <1>1, <2>3, <2>5, <2>8 DEF IInv
<1> QED BY <1>3, <1>4

(* A fetch that is answered, and a worker that wakes, move nothing. *)
LEMMA FetchedStep ==
  ASSUME IInv, NEW w \in Workers, Fetched(w) \/ Wake(w)
  PROVE  IInv'
<1>0. Shapes /\ DiskInv /\ FlushInv /\ PlacesInv /\ EndInv
  BY DEF IInv
<1>1. DiskInv' /\ FlushInv'
  BY <1>0, DiskUntouched DEF Fetched, Wake
<1>2. /\ phase = "run" /\ phase' = "run"
      /\ work' = work /\ held' = held /\ results' = results /\ doneWorkers' = doneWorkers
      /\ buffer' = buffer /\ checkpoint' = checkpoint /\ RunEnd
      /\ pc \in [Workers -> {"take", "fetch", "put", "sleep", "leave", "exited"}]
  BY <1>0 DEF Fetched, Wake, Awaiting, Shapes, EndInv, disk
<1>3. \/ pc[w] = "fetch" /\ pc' = [pc EXCEPT ![w] = "put"]
      \/ pc[w] = "sleep" /\ pc' = [pc EXCEPT ![w] = "take"]
  BY DEF Fetched, Wake
<1>4. Shapes'
  BY <1>0, <1>2, <1>3 DEF Shapes
<1>5. PlacesInv'
  BY <1>0, <1>2 DEF PlacesInv, Balanced, PendingBlocks
<1>6. Exited' = Exited /\ pc'[w] \in {"put", "take"}
  BY <1>2, <1>3 DEF Exited
<1>7. EndInv'
  BY <1>2, <1>6 DEF EndInv, RunEnd
<1> QED BY <1>1, <1>4, <1>5, <1>7 DEF IInv

(* What a worker has in hand. *)
LEMMA InHand ==
  ASSUME Shapes, NEW w \in Workers, pc[w] \in {"fetch", "put"}
  PROVE  \E x \in Blocks : held[w] = {x}
BY DEF Shapes, Items, DONE

(* A fetch fails: the block in hand is at the end of the queue again. *)
LEMMA FetchFailsStep ==
  ASSUME IInv, NEW w \in Workers, FetchFails(w)
  PROVE  IInv'
<1>0. Shapes /\ DiskInv /\ FlushInv /\ PlacesInv /\ EndInv
  BY DEF IInv
<1>1. DiskInv' /\ FlushInv'
  BY <1>0, DiskUntouched DEF FetchFails
<1>2. /\ phase = "run" /\ phase' = "run" /\ pc[w] = "fetch"
      /\ results' = results /\ doneWorkers' = doneWorkers /\ buffer' = buffer
      /\ checkpoint' = checkpoint
      /\ work \in Seq(Blocks) /\ results \in Seq(Items) /\ RunEnd
      /\ pc \in [Workers -> {"take", "fetch", "put", "sleep", "leave", "exited"}]
      /\ pc' = [pc EXCEPT ![w] = "sleep"] /\ held' = [held EXCEPT ![w] = {}]
  BY <1>0 DEF FetchFails, Awaiting, Shapes, EndInv, disk
<1>3. PICK x \in Blocks : held[w] = {x}
  BY <1>0, <1>2, InHand
<1>4. work' = Append(work, x)
  BY <1>3 DEF FetchFails, Requeue
<1>5. Append(work, x) \in Seq(Blocks)
  BY <1>2
<1>6. Shapes'
  BY <1>0, <1>2, <1>4, <1>5 DEF Shapes, Items, DONE
<1>7. ASSUME NEW bn \in Blocks
      PROVE  Tally(work, held, results, buffer, bn)' = Tally(work, held, results, buffer, bn)
  <2>1. /\ x = bn => Count(Append(work, x), {bn}) = Count(work, {bn}) + 1
        /\ x # bn => Count(Append(work, x), {bn}) = Count(work, {bn})
    BY <1>2, CountAppend
  <2>2. HolderChange(Workers, held, held', bn, w)
    BY <1>0, <1>2, ScraperAssumption, HoldersExcept DEF Shapes
  <2>3. held'[w] = {}
    BY <1>0, <1>2 DEF Shapes
  <2>4. /\ x = bn => Holders(Workers, held', bn) = Holders(Workers, held, bn) - 1
        /\ x # bn => Holders(Workers, held', bn) = Holders(Workers, held, bn)
    BY <1>3, <2>2, <2>3 DEF HolderChange
  <2>5. /\ Count(work, {bn}) \in Nat /\ Holders(Workers, held, bn) \in Nat
        /\ Count(results, With(bn)) \in Nat /\ Holders(Shards, buffer, bn) \in Nat
    BY <1>2, TallyTypes
  <2> QED BY <1>2, <1>4, <2>1, <2>4, <2>5 DEF Tally
<1>8. PlacesInv'
  BY <1>0, <1>2, <1>7 DEF PlacesInv, Balanced, PendingBlocks
<1>9. Exited' = Exited /\ pc'[w] = "sleep"
  BY <1>2 DEF Exited
<1>10. EndInv'
  BY <1>2, <1>9 DEF EndInv, RunEnd
<1> QED BY <1>1, <1>6, <1>8, <1>10 DEF IInv

(* A worker puts the record it has in hand on the queue. *)
LEMMA PutStep ==
  ASSUME IInv, NEW w \in Workers, Put(w)
  PROVE  IInv'
<1>0. Shapes /\ DiskInv /\ FlushInv /\ PlacesInv /\ EndInv
  BY DEF IInv
<1>1. DiskInv' /\ FlushInv'
  BY <1>0, DiskUntouched DEF Put
<1>2. /\ phase = "run" /\ phase' = "run" /\ pc[w] = "put"
      /\ work' = work /\ doneWorkers' = doneWorkers /\ buffer' = buffer
      /\ checkpoint' = checkpoint
      /\ work \in Seq(Blocks) /\ results \in Seq(Items) /\ RunEnd
      /\ pc \in [Workers -> {"take", "fetch", "put", "sleep", "leave", "exited"}]
      /\ pc' = [pc EXCEPT ![w] = "take"] /\ held' = [held EXCEPT ![w] = {}]
      /\ Len(results) < QueueSize /\ QueueSize \in Nat
  BY <1>0, ScraperAssumption DEF Put, PutResult, Awaiting, Shapes, EndInv, disk
<1>3. PICK x \in Blocks : held[w] = {x}
  BY <1>0, <1>2, InHand
<1>4. results' = Append(results, {x})
  BY <1>3 DEF Put, PutResult
<1>5. {x} \in Items /\ {x} # DONE
  BY DEF Items, DONE
<1>6. Append(results, {x}) \in Seq(Items) /\ Len(Append(results, {x})) <= QueueSize
  BY <1>2, <1>5
<1>7. Shapes'
  BY <1>0, <1>2, <1>4, <1>6 DEF Shapes, Items, DONE
<1>8. ASSUME NEW bn \in Blocks
      PROVE  Tally(work, held, results, buffer, bn)' = Tally(work, held, results, buffer, bn)
  <2>1. {x} \in With(bn) <=> x = bn
    BY WithRecord
  <2>2. /\ x = bn => Count(Append(results, {x}), With(bn)) = Count(results, With(bn)) + 1
        /\ x # bn => Count(Append(results, {x}), With(bn)) = Count(results, With(bn))
    BY <1>2, <1>5, <2>1, CountAppend
  <2>3. HolderChange(Workers, held, held', bn, w)
    BY <1>0, <1>2, ScraperAssumption, HoldersExcept DEF Shapes
  <2>4. held'[w] = {}
    BY <1>0, <1>2 DEF Shapes
  <2>5. /\ x = bn => Holders(Workers, held', bn) = Holders(Workers, held, bn) - 1
        /\ x # bn => Holders(Workers, held', bn) = Holders(Workers, held, bn)
    BY <1>3, <2>3, <2>4 DEF HolderChange
  <2>6. /\ Count(work, {bn}) \in Nat /\ Holders(Workers, held, bn) \in Nat
        /\ Count(results, With(bn)) \in Nat /\ Holders(Shards, buffer, bn) \in Nat
    BY <1>2, TallyTypes
  <2> QED BY <1>2, <1>4, <2>2, <2>5, <2>6 DEF Tally
<1>9. PlacesInv'
  BY <1>0, <1>2, <1>8 DEF PlacesInv, Balanced, PendingBlocks
<1>10. Exited' = Exited /\ pc'[w] = "take" /\ w \notin Exited
  BY <1>2 DEF Exited
<1>11. Count(results', {DONE}) = Count(results, {DONE})
  BY <1>2, <1>4, <1>5, CountAppend
<1>12. EndInv'
  BY <1>2, <1>10, <1>11 DEF EndInv, RunEnd
<1> QED BY <1>1, <1>7, <1>9, <1>12 DEF IInv

(* A worker leaves, and says so. *)
LEMMA LeaveStep ==
  ASSUME IInv, NEW w \in Workers, Leave(w)
  PROVE  IInv'
<1>0. Shapes /\ DiskInv /\ FlushInv /\ PlacesInv /\ EndInv
  BY DEF IInv
<1>1. DiskInv' /\ FlushInv'
  BY <1>0, DiskUntouched DEF Leave
<1>2. /\ phase = "run" /\ phase' = "run" /\ pc[w] = "leave"
      /\ work' = work /\ doneWorkers' = doneWorkers /\ buffer' = buffer
      /\ checkpoint' = checkpoint /\ held' = held
      /\ work \in Seq(Blocks) /\ results \in Seq(Items) /\ RunEnd
      /\ pc \in [Workers -> {"take", "fetch", "put", "sleep", "leave", "exited"}]
      /\ pc' = [pc EXCEPT ![w] = "exited"]
      /\ Len(results) < QueueSize /\ QueueSize \in Nat
      /\ doneWorkers \in Nat
      /\ results' = Append(results, DONE) /\ DONE \in Items
  BY <1>0, ScraperAssumption DEF Leave, PutResult, Awaiting, Shapes, EndInv, disk, Items
<1>6. /\ Append(results, DONE) \in Seq(Items) /\ Len(Append(results, DONE)) = Len(results) + 1
      /\ Append(results, DONE)[Len(results) + 1] = DONE /\ Len(results) \in Nat
  BY <1>2, AppendProperties
<1>6a. Len(Append(results, DONE)) <= QueueSize
  BY <1>2, <1>6
<1>7. Shapes'
  BY <1>0, <1>2, <1>6, <1>6a DEF Shapes
<1>8. ASSUME NEW bn \in Blocks
      PROVE  Tally(work, held, results, buffer, bn)' = Tally(work, held, results, buffer, bn)
  <2>1. DONE \notin With(bn)
    BY WithRecord
  <2>2. Count(Append(results, DONE), With(bn)) = Count(results, With(bn))
    BY <1>2, <2>1, CountAppend
  <2> QED BY <1>2, <2>2 DEF Tally
<1>9. PlacesInv'
  BY <1>0, <1>2, <1>8 DEF PlacesInv, Balanced, PendingBlocks
<1>10. Cardinality(Exited') = Cardinality(Exited) + 1 /\ Cardinality(Exited) \in Nat
  <2>1. Exited' \ {w} = Exited \ {w} /\ w \notin Exited /\ w \in Exited'
    BY <1>2 DEF Exited
  <2>2. IsFiniteSet(Exited)
    <3>1. Exited \in SUBSET Workers
      BY DEF Exited
    <3> QED BY <3>1, ScraperAssumption, FS_Subset
  <2> QED BY <2>1, <2>2, OneApart
<1>11. Count(results', {DONE}) = Count(results, {DONE}) + 1 /\ Count(results, {DONE}) \in Nat
  BY <1>2, CountAppend, CountNone
<1>12. RunEnd'
  <2>1. (\A v \in Workers : pc'[v] \in {"leave", "exited"}) => work' = <<>>
    <3>1. (\A v \in Workers : pc'[v] \in {"leave", "exited"})
            => \A v \in Workers : pc[v] \in {"leave", "exited"}
      BY <1>2
    <3> QED BY <1>2, <3>1 DEF RunEnd
  <2>2. Count(results', {DONE}) + doneWorkers' = Cardinality(Exited')
    BY <1>2, <1>10, <1>11 DEF RunEnd
  <2>3. results'[Len(results')] = DONE
    BY <1>2, <1>6
  <2> QED BY <2>1, <2>2, <2>3 DEF RunEnd
<1>13. EndInv'
  BY <1>2, <1>12 DEF EndInv
<1> QED BY <1>1, <1>7, <1>9, <1>13 DEF IInv

(* What earlier runs left is what a later one may find. *)
LEMMA DiskGrows ==
  ASSUME NEW n \in Nat, NEW f, NEW m, FilesOK(f, n), ManifestOK(m, n)
  PROVE  FilesOK(f, n + 1) /\ ManifestOK(m, n + 1)
<1>1. 1..n \subseteq 1..n + 1
  OBVIOUS
<1>2. FilesOK(f, n + 1)
  <2>1. /\ f \in [Shards -> {NoFile} \cup {FileOf(t, e) : t \in Shards, e \in 1..n}]
        /\ \A s \in Shards : f[s] = NoFile \/ \E e \in 1..n : f[s] = FileOf(s, e)
    BY DEF FilesOK
  <2>2. \A s \in Shards : f[s] = NoFile \/ \E e \in 1..n + 1 : f[s] = FileOf(s, e)
    BY <1>1, <2>1
  <2>3. f \in [Shards -> {NoFile} \cup {FileOf(t, e) : t \in Shards, e \in 1..n + 1}]
    BY <2>1, <2>2
  <2> QED BY <2>2, <2>3 DEF FilesOK
<1>3. ManifestOK(m, n + 1)
  <2>1. Entries(n) \subseteq Entries(n + 1)
    BY <1>1 DEF Entries
  <2>2. m \in Seq(Entries(n + 1))
    BY <2>1, SeqMonotonic DEF ManifestOK
  <2> QED BY <2>2 DEF ManifestOK
<1> QED BY <1>2, <1>3

(* The blocks to do. *)
LEMMA PendingFinite ==
  /\ PendingBlocks \in SUBSET Blocks /\ PendingBlocks \in SUBSET Int
  /\ IsFiniteSet(PendingBlocks)
<1>1. IsFiniteSet(Blocks) /\ Blocks \in SUBSET Int
  BY DatasetAssumption, FS_Interval DEF Blocks
<1>2. PendingBlocks \in SUBSET Blocks
  BY DEF PendingBlocks
<1> QED BY <1>1, <1>2, FS_Subset

(* The list of the blocks to do has each of them once. *)
LEMMA WorkList ==
  ASSUME NEW P \in SUBSET Blocks, P \in SUBSET Int, IsFiniteSet(P)
  PROVE  /\ InOrder(P) \in Seq(Blocks)
         /\ P = {} => InOrder(P) = <<>>
         /\ \A bn : Count(InOrder(P), {bn}) = IF bn \in P THEN 1 ELSE 0
<1> DEFINE q == InOrder(P)
<1>1. Enumerates(q, P) /\ Len(q) = Cardinality(P)
  BY InOrderLists
<1> HIDE DEF q
<1>2. q \in Seq(P)
  BY <1>1 DEF Enumerates
<1>3. q \in Seq(Blocks)
  BY <1>2, SeqMonotonic
<1>4. P = {} => q = <<>>
  <2>1. P = {} => Len(q) = 0
    BY <1>1, FS_EmptySet
  <2> QED BY <1>2, <2>1, EmptySeq
<1>5. \A bn : Count(q, {bn}) = IF bn \in P THEN 1 ELSE 0
  BY <1>1, CountInOrder
<1> QED BY <1>3, <1>4, <1>5 DEF q

(* The process starts: the blocks of shards not completed are all on the   *)
(* work queue, and nowhere else.                                           *)
LEMMA StartStep ==
  ASSUME IInv, Start
  PROVE  IInv'
<1>0. Shapes /\ DiskInv /\ FlushInv /\ Idle
  BY DEF IInv, EndInv, Start
<1>1. /\ epoch' = epoch + 1 /\ phase' = IF PendingBlocks = {} THEN "done" ELSE "run"
      /\ work' = InOrder(PendingBlocks) /\ pc' = [w \in Workers |-> "take"]
      /\ doneWorkers' = 0
      /\ results' = <<>> /\ results = <<>> /\ held' = held /\ held = [w \in Workers |-> {}]
      /\ buffer' = buffer /\ buffer = [s \in Shards |-> {}]
      /\ flush' = flush /\ flush = NoFlush
      /\ files' = files /\ manifest' = manifest /\ checkpoint' = checkpoint
  BY <1>0 DEF Start, Idle, disk
<1>2. /\ work' \in Seq(Blocks)
      /\ PendingBlocks = {} => work' = <<>>
      /\ \A bn : Count(work', {bn}) = IF bn \in PendingBlocks THEN 1 ELSE 0
  BY <1>1, WorkList, PendingFinite
<1>3. Shapes'
  BY <1>0, <1>1, <1>2 DEF Shapes, Items
<1>4. DiskInv'
  <2>1. epoch \in Nat /\ FilesOK(files, epoch) /\ ManifestOK(manifest, epoch)
    BY <1>0 DEF DiskInv
  <2>2. FilesOK(files, epoch + 1) /\ ManifestOK(manifest, epoch + 1)
    BY <2>1, DiskGrows
  <2>3. epoch' \in Nat /\ epoch' # 0 /\ FilesOK(files, epoch)' /\ ManifestOK(manifest, epoch)'
    BY <1>1, <2>1, <2>2
  <2> QED BY <1>0, <1>1, <2>3 DEF DiskInv, ListedAs
<1>5. FlushInv'
  BY <1>0, <1>1 DEF FlushInv, NoFlush, ListedAs
<1>6. PendingBlocks' = PendingBlocks
  BY <1>1 DEF PendingBlocks
<1>7. PlacesInv'
  <2> SUFFICES ASSUME NEW bn \in Blocks
               PROVE  Tally(work, held, results, buffer, bn)' = IF bn \in PendingBlocks THEN 1 ELSE 0
    BY <1>6 DEF PlacesInv, Balanced
  <2>1. Count(results', With(bn)) = 0
    BY <1>1, CountEmpty
  <2>2. Holders(Workers, held', bn) = 0
    BY <1>1, ScraperAssumption, HoldersNone
  <2>3. Holders(Shards, buffer', bn) = 0
    BY <1>1, ShardsFinite, HoldersNone
  <2>4. Count(work', {bn}) = IF bn \in PendingBlocks THEN 1 ELSE 0
    BY <1>2
  <2> QED BY <2>1, <2>2, <2>3, <2>4 DEF Tally
<1>8. Exited' = {}
  BY <1>1 DEF Exited
<1>9. RunEnd'
  <2>1. Count(results', {DONE}) = 0
    BY <1>1, CountEmpty
  <2>2. Cardinality(Exited') = 0
    BY <1>8, FS_EmptySet
  <2>3. \E w \in Workers : pc'[w] \notin {"leave", "exited"}
    BY <1>1, ScraperAssumption
  <2> QED BY <1>1, <2>1, <2>2, <2>3 DEF RunEnd
<1>10. EndInv'
  <2>1. 0 <= Cardinality(Workers)
    BY ScraperAssumption, FS_CardinalityType
  <2> QED BY <1>1, <1>2, <1>6, <1>9, <2>1 DEF EndInv
<1> QED BY <1>3, <1>4, <1>5, <1>7, <1>10 DEF IInv

(* The last item of a queue stays the last while it is there. *)
LEMMA TailLast ==
  ASSUME NEW S, NEW q \in Seq(S), q # <<>>, Tail(q) # <<>>
  PROVE  Tail(q)[Len(Tail(q))] = q[Len(q)]
<1>1. /\ Tail(q) \in Seq(S) /\ Len(Tail(q)) = Len(q) - 1 /\ Len(q) \in Nat
      /\ \A i \in 1..Len(Tail(q)) : Tail(q)[i] = q[i + 1]
  BY HeadTailProperties
<1>2. Len(Tail(q)) # 0 /\ Len(Tail(q)) \in Nat
  BY <1>1, EmptySeq
<1>3. Len(Tail(q)) \in 1..Len(Tail(q)) /\ Len(Tail(q)) + 1 = Len(q)
  BY <1>1, <1>2
<1> QED BY <1>1, <1>3

(* The writer gets the mark of a worker that left. *)
LEMMA ReceiveDoneStep ==
  ASSUME IInv, ReceiveDone
  PROVE  IInv'
<1>0. Shapes /\ DiskInv /\ FlushInv /\ PlacesInv /\ EndInv
  BY DEF IInv
<1>1. DiskInv' /\ FlushInv'
  BY <1>0, DiskUntouched DEF ReceiveDone
<1>2. /\ phase = "run" /\ phase' = "run" /\ results # <<>> /\ Head(results) = DONE
      /\ results' = Tail(results) /\ doneWorkers' = doneWorkers + 1
      /\ work' = work /\ pc' = pc /\ held' = held /\ buffer' = buffer /\ checkpoint' = checkpoint
      /\ work \in Seq(Blocks) /\ results \in Seq(Items) /\ RunEnd /\ doneWorkers \in Nat
      /\ Len(results) <= QueueSize /\ QueueSize \in Nat
  BY <1>0, ScraperAssumption DEF ReceiveDone, Awaiting, Shapes, EndInv, disk
<1>3. Tail(results) \in Seq(Items) /\ Len(Tail(results)) <= QueueSize
  <2>1. Tail(results) \in Seq(Items) /\ Len(Tail(results)) = Len(results) - 1 /\ Len(results) \in Nat
    BY <1>2, HeadTailProperties
  <2> QED BY <1>2, <2>1
<1>4. Shapes'
  BY <1>0, <1>2, <1>3 DEF Shapes
<1>5. ASSUME NEW bn \in Blocks
      PROVE  Tally(work, held, results, buffer, bn)' = Tally(work, held, results, buffer, bn)
  <2>1. DONE \notin With(bn)
    BY WithRecord
  <2>2. Count(Tail(results), With(bn)) = Count(results, With(bn))
    BY <1>2, <2>1, CountTail
  <2> QED BY <1>2, <2>2 DEF Tally
<1>6. PlacesInv'
  BY <1>0, <1>2, <1>5 DEF PlacesInv, Balanced, PendingBlocks
<1>7. Exited' = Exited
  BY <1>2 DEF Exited
<1>8. Count(results', {DONE}) = Count(results, {DONE}) - 1 /\ Count(results, {DONE}) \in Nat
  BY <1>2, CountTail, CountNone
<1>9. Count(results', {DONE}) + doneWorkers' = Cardinality(Exited')
  BY <1>2, <1>7, <1>8 DEF RunEnd
<1>10. (Exited' = Workers /\ results' # <<>>) => results'[Len(results')] = DONE
  BY <1>2, <1>7, TailLast DEF RunEnd
<1>11. EndInv'
  BY <1>2, <1>9, <1>10 DEF EndInv, RunEnd
<1> QED BY <1>1, <1>4, <1>6, <1>11 DEF IInv

(* A shard is whole when it has every block of its range. *)
LEMMA WholeIs ==
  ASSUME NEW s \in Shards, NEW B \in SUBSET ShardRange(s)
  PROVE  Whole(B, s) <=> B = ShardRange(s)
<1>1. IsFiniteSet(ShardRange(s))
  BY ShardBlocks
<1>2. /\ IsFiniteSet(B) /\ Cardinality(B) <= Cardinality(ShardRange(s))
      /\ Cardinality(ShardRange(s)) = Cardinality(B) => ShardRange(s) = B
  BY <1>1, FS_Subset
<1>3. Cardinality(B) \in Nat /\ Cardinality(ShardRange(s)) \in Nat
  BY <1>1, <1>2, FS_CardinalityType
<1> QED BY <1>2, <1>3 DEF Whole

(* The writer gets a record, buffers it, and starts to flush its shard     *)
(* when that is whole.                                                     *)
LEMMA ReceiveStep ==
  ASSUME IInv, Receive
  PROVE  IInv'
<1>0. Shapes /\ DiskInv /\ FlushInv /\ PlacesInv /\ EndInv
  BY DEF IInv
<1>1. /\ phase = "run" /\ phase' = "run" /\ results # <<>> /\ results' = Tail(results)
      /\ work' = work /\ pc' = pc /\ held' = held /\ doneWorkers' = doneWorkers
      /\ files' = files /\ manifest' = manifest /\ checkpoint' = checkpoint /\ epoch' = epoch
      /\ flush = NoFlush
      /\ work \in Seq(Blocks) /\ results \in Seq(Items) /\ RunEnd
      /\ Len(results) <= QueueSize /\ QueueSize \in Nat
      /\ buffer \in [Shards -> SUBSET Blocks] /\ \A t \in Shards : buffer[t] \subseteq ShardRange(t)
  BY <1>0, ScraperAssumption DEF Receive, Awaiting, Shapes, EndInv, disk
<1>2. PICK bn \in Head(results) :
        LET s == ShardIndex(bn)
            blocks == buffer[s] \cup {bn}
        IN IF s \in checkpoint.completed
           THEN UNCHANGED <<buffer, flush>>
           ELSE /\ buffer' = [buffer EXCEPT ![s] = blocks]
                /\ flush' = IF Whole(blocks, s) THEN [next |-> "file", shard |-> s]
                                                ELSE flush
  BY DEF Receive
<1> DEFINE s == ShardIndex(bn)
           blocks == buffer[s] \cup {bn}
<1>3. /\ Tail(results) \in Seq(Items) /\ Len(Tail(results)) = Len(results) - 1
      /\ Len(results) \in Nat \ {0} /\ Head(results) \in Items /\ Head(results) = results[1]
  BY <1>1, HeadTailProperties, EmptySeq
<1>4. bn \in Blocks /\ Head(results) = {bn} /\ Head(results) # DONE
  BY <1>2, <1>3 DEF Items, DONE
<1>5. s \in Shards /\ bn \in ShardRange(s)
  BY <1>4, ShardOfBlock
<1>6. Count(results, With(bn)) # 0
  <2>1. results[1] \in With(bn) /\ 1 \in 1..Len(results)
    BY <1>3, <1>4, WithRecord
  <2> QED BY <1>1, <2>1, CountNone
<1>7. bn \in PendingBlocks /\ Holders(Shards, buffer, bn) = 0
  <2>1. Tally(work, held, results, buffer, bn) = IF bn \in PendingBlocks THEN 1 ELSE 0
    BY <1>0, <1>1, <1>4 DEF PlacesInv, Balanced
  <2>2. /\ Count(work, {bn}) \in Nat /\ Holders(Workers, held, bn) \in Nat
        /\ Count(results, With(bn)) \in Nat /\ Holders(Shards, buffer, bn) \in Nat
    BY <1>1, TallyTypes
  <2> QED BY <1>6, <2>1, <2>2 DEF Tally
<1>8. s \notin checkpoint.completed
  BY <1>7 DEF PendingBlocks
<1>9. /\ buffer' = [buffer EXCEPT ![s] = blocks]
      /\ flush' = IF Whole(blocks, s) THEN [next |-> "file", shard |-> s] ELSE flush
  BY <1>2, <1>8
<1>10. bn \notin buffer[s] /\ \A t \in Shards : bn \notin buffer[t]
  <2>1. IsFiniteSet(Shards)
    BY ShardsFinite
  <2>2. \A t \in Shards : bn \notin buffer[t]
    BY <1>7, <2>1, HoldersNone
  <2> QED BY <1>5, <2>2
<1> HIDE DEF s
<1>11. blocks \subseteq ShardRange(s) /\ blocks \subseteq Blocks
  BY <1>1, <1>4, <1>5
<1> HIDE DEF blocks
<1>12. /\ buffer' \in [Shards -> SUBSET Blocks] /\ buffer'[s] = blocks
       /\ \A t \in Shards : t # s => buffer'[t] = buffer[t]
       /\ \A t \in Shards : buffer'[t] \subseteq ShardRange(t)
  BY <1>1, <1>5, <1>9, <1>11
<1>13. Shapes'
  <2>1. Len(Tail(results)) <= QueueSize
    BY <1>1, <1>3
  <2> QED BY <1>0, <1>1, <1>3, <1>12, <2>1 DEF Shapes
<1>14. DiskInv'
  BY <1>0, <1>1 DEF DiskInv, ListedAs
<1>15. FlushInv'
  <2>1. CASE Whole(blocks, s)
    <3>1. blocks = ShardRange(s)
      BY <1>5, <1>11, <2>1, WholeIs
    <3>2. flush' = [next |-> "file", shard |-> s]
      BY <1>9, <2>1
    <3>3. flush'.next = "file" /\ flush'.shard = s
      BY <3>2
    <3>4. flush' \in [next : {"none", "file", "manifest", "checkpoint"}, shard : Shards]
      BY <1>5, <3>2
    <3> QED BY <1>1, <1>8, <1>12, <3>1, <3>3, <3>4 DEF FlushInv
  <2>2. CASE ~Whole(blocks, s)
    <3>1. flush' = NoFlush
      BY <1>1, <1>9, <2>2
    <3> QED BY <1>0, <1>1, <3>1 DEF FlushInv, NoFlush
  <2> QED BY <2>1, <2>2
<1>16. ASSUME NEW b \in Blocks
       PROVE  Tally(work, held, results, buffer, b)' = Tally(work, held, results, buffer, b)
  <2>1. Head(results) \in With(b) <=> bn = b
    BY <1>4, WithRecord
  <2>2. /\ bn = b => Count(Tail(results), With(b)) = Count(results, With(b)) - 1
        /\ bn # b => Count(Tail(results), With(b)) = Count(results, With(b))
    BY <1>1, <2>1, CountTail
  <2>3. HolderChange(Shards, buffer, buffer', b, s)
    <3>1. IsFiniteSet(Shards)
      BY ShardsFinite
    <3> QED BY <1>5, <1>12, <3>1, HoldersExcept
  <2>4. /\ bn = b => b \notin buffer[s] /\ b \in buffer'[s]
        /\ bn # b => (b \in buffer[s] <=> b \in buffer'[s])
    BY <1>10, <1>12 DEF blocks
  <2>5. /\ bn = b => Holders(Shards, buffer', b) = Holders(Shards, buffer, b) + 1
        /\ bn # b => Holders(Shards, buffer', b) = Holders(Shards, buffer, b)
    BY <2>3, <2>4 DEF HolderChange
  <2>6. /\ Count(work, {b}) \in Nat /\ Holders(Workers, held, b) \in Nat
        /\ Count(results, With(b)) \in Nat /\ Holders(Shards, buffer, b) \in Nat
    BY <1>1, TallyTypes
  <2> QED BY <1>1, <2>2, <2>5, <2>6 DEF Tally
<1>17. PlacesInv'
  BY <1>0, <1>1, <1>16 DEF PlacesInv, Balanced, PendingBlocks
<1>18. Exited' = Exited
  BY <1>1 DEF Exited
<1>19. Count(results', {DONE}) = Count(results, {DONE})
  BY <1>1, <1>4, CountTail
<1>20. (Exited' = Workers /\ results' # <<>>) => results'[Len(results')] = DONE
  BY <1>1, <1>18, TailLast DEF RunEnd
<1>21. EndInv'
  BY <1>1, <1>18, <1>19, <1>20 DEF EndInv, RunEnd
<1> QED BY <1>13, <1>14, <1>15, <1>17, <1>21 DEF IInv

(* What the three writes of a flush leave alone. *)
LEMMA FlushUntouched ==
  ASSUME IInv, NEW step \in {"file", "manifest", "checkpoint"}, FlushStep(step),
         step # "checkpoint", checkpoint' = checkpoint
  PROVE  /\ Shapes' /\ PlacesInv' /\ EndInv'
         /\ phase = "run" /\ phase' = "run" /\ epoch' = epoch /\ buffer' = buffer
         /\ flush.shard \in Shards \ checkpoint.completed
         /\ buffer[flush.shard] = ShardRange(flush.shard)
         /\ flush'.next = After(step) /\ flush'.shard = flush.shard
         /\ flush' \in [next : {"none", "file", "manifest", "checkpoint"}, shard : Shards]
<1>0. Shapes /\ DiskInv /\ FlushInv /\ PlacesInv /\ EndInv
  BY DEF IInv
<1>1. /\ phase = "run" /\ phase' = "run" /\ flush.next = step /\ epoch' = epoch
      /\ work' = work /\ results' = results /\ pc' = pc /\ held' = held
      /\ doneWorkers' = doneWorkers
  BY DEF FlushStep
<1>2. After(step) \in {"manifest", "checkpoint"}
  BY DEF After
<1>3. buffer' = buffer /\ flush' = [flush EXCEPT !.next = After(step)]
  BY <1>2 DEF FlushStep
<1>4. flush \in [next : {"none", "file", "manifest", "checkpoint"}, shard : Shards]
  BY <1>0 DEF FlushInv
<1>5. /\ flush'.next = After(step) /\ flush'.shard = flush.shard
      /\ flush' \in [next : {"none", "file", "manifest", "checkpoint"}, shard : Shards]
  BY <1>2, <1>3, <1>4
<1>6. /\ flush.shard \in Shards \ checkpoint.completed
      /\ buffer[flush.shard] = ShardRange(flush.shard)
  BY <1>0, <1>1, <1>4 DEF FlushInv
<1>7. Shapes'
  BY <1>0, <1>1, <1>3 DEF Shapes
<1>8. PlacesInv'
  BY <1>0, <1>1, <1>3 DEF PlacesInv, Balanced, PendingBlocks
<1>9. EndInv'
  BY <1>0, <1>1, <1>3 DEF EndInv, RunEnd, Exited
<1> QED BY <1>1, <1>3, <1>5, <1>6, <1>7, <1>8, <1>9

(* The shard file is on disk. *)
LEMMA WriteFileStep ==
  ASSUME IInv, WriteFile
  PROVE  IInv'
<1>0. DiskInv /\ FlushInv
  BY DEF IInv
<1>1. FlushStep("file") /\ manifest' = manifest /\ checkpoint' = checkpoint
  BY DEF WriteFile
<1> DEFINE s == flush.shard
<1>2. /\ Shapes' /\ PlacesInv' /\ EndInv'
      /\ phase = "run" /\ phase' = "run" /\ epoch' = epoch /\ buffer' = buffer
      /\ s \in Shards \ checkpoint.completed /\ buffer[s] = ShardRange(s)
      /\ flush'.next = "manifest" /\ flush'.shard = s
      /\ flush' \in [next : {"none", "file", "manifest", "checkpoint"}, shard : Shards]
  BY <1>1, FlushUntouched DEF After
<1>3. files' = [files EXCEPT ![s] = FileOf(s, epoch)]
  BY <1>2 DEF WriteFile, FileOf
<1> HIDE DEF s
<1>4. epoch \in Nat /\ epoch # 0 /\ epoch \in 1..epoch
  BY <1>0, <1>2 DEF DiskInv
<1>5. /\ files' \in [Shards -> {NoFile} \cup {FileOf(t, e) : t \in Shards, e \in 1..epoch}]
      /\ files'[s] = FileOf(s, epoch) /\ \A t \in Shards : t # s => files'[t] = files[t]
  BY <1>0, <1>2, <1>3, <1>4 DEF DiskInv, FilesOK
<1>6. FilesOK(files', epoch)
  BY <1>0, <1>4, <1>5 DEF DiskInv, FilesOK
<1>7. \A t \in checkpoint.completed : ListedAs(t)'
  <2> TAKE t \in checkpoint.completed
  <2>1. t \in Shards /\ t # s /\ ListedAs(t)
    BY <1>0, <1>2 DEF DiskInv
  <2> QED BY <1>1, <1>5, <2>1 DEF ListedAs
<1>8. DiskInv'
  BY <1>0, <1>1, <1>2, <1>6, <1>7 DEF DiskInv
<1>9. FlushInv'
  BY <1>1, <1>2, <1>5 DEF FlushInv
<1> QED BY <1>2, <1>8, <1>9 DEF IInv

(* The manifest lists it. *)
LEMMA SaveManifestStep ==
  ASSUME IInv, SaveManifest
  PROVE  IInv'
<1>0. DiskInv /\ FlushInv
  BY DEF IInv
<1>1. FlushStep("manifest") /\ files' = files /\ checkpoint' = checkpoint
  BY DEF SaveManifest
<1> DEFINE s == flush.shard
           x == Entry(s, epoch)
<1>2. /\ Shapes' /\ PlacesInv' /\ EndInv'
      /\ phase = "run" /\ phase' = "run" /\ epoch' = epoch /\ buffer' = buffer
      /\ s \in Shards \ checkpoint.completed /\ buffer[s] = ShardRange(s)
      /\ flush'.next = "checkpoint" /\ flush'.shard = s
      /\ flush' \in [next : {"none", "file", "manifest", "checkpoint"}, shard : Shards]
  BY <1>1, FlushUntouched DEF After
<1>3. manifest' = UpsertShard(manifest, x) /\ files[s] = FileOf(s, epoch)
  <2>1. flush.next = "manifest"
    BY <1>1 DEF FlushStep
  <2> QED BY <1>0, <1>2, <2>1 DEF SaveManifest, Entry, FileOf, FlushInv
<1> HIDE DEF s
<1>4. epoch \in Nat /\ epoch \in 1..epoch /\ ManifestOK(manifest, epoch)
  BY <1>0, <1>2 DEF DiskInv
<1>5. ManifestOK(manifest', epoch) /\ Upserted(manifest, manifest', s, x)
  <2>1. CASE Listed(manifest, s) = {}
    BY <1>2, <1>3, <1>4, <2>1, UpsertInserts
  <2>2. CASE Listed(manifest, s) # {}
    BY <1>2, <1>3, <1>4, <2>2, UpsertReplaces
  <2> QED BY <2>1, <2>2
<1>6. x.file = s /\ x.sha = FileOf(s, epoch)
  BY <1>2, EntryFields
<1> HIDE DEF x
<1>7. \A t \in checkpoint.completed : ListedAs(t)'
  <2> TAKE t \in checkpoint.completed
  <2>1. t # s /\ ListedAs(t)
    BY <1>0, <1>2 DEF DiskInv
  <2>2. PICK i \in 1..Len(manifest) : manifest[i].file = t /\ manifest[i].sha = files[t]
    BY <2>1 DEF ListedAs
  <2>3. Has(manifest, manifest[i])
    BY DEF Has
  <2>4. Has(manifest', manifest[i])
    BY <1>5, <2>1, <2>2, <2>3 DEF Upserted
  <2>5. PICK j \in 1..Len(manifest') : manifest'[j] = manifest[i]
    BY <2>4 DEF Has
  <2> QED BY <1>1, <2>1, <2>2, <2>5 DEF ListedAs
<1>8. files'[s] # NoFile /\ \E i \in 1..Len(manifest') : manifest'[i].file = s /\ manifest'[i].sha = files'[s]
  <2>1. Has(manifest', x)
    BY <1>5 DEF Upserted
  <2>2. PICK i \in 1..Len(manifest') : manifest'[i] = x
    BY <2>1 DEF Has
  <2>3. files[s] # NoFile
    BY <1>3 DEF FileOf, Blob, NoFile
  <2> QED BY <1>1, <1>3, <1>6, <2>2, <2>3
<1>9. DiskInv'
  BY <1>0, <1>1, <1>2, <1>5, <1>7 DEF DiskInv
<1>10. FlushInv'
  BY <1>1, <1>2, <1>3, <1>8 DEF FlushInv, ListedAs
<1> QED BY <1>2, <1>9, <1>10 DEF IInv

(* The checkpoint says that the shard is completed: its blocks leave the   *)
(* buffer, and are not to do any more.                                     *)
LEMMA SaveCheckpointStep ==
  ASSUME IInv, SaveCheckpoint
  PROVE  IInv'
<1>0. Shapes /\ DiskInv /\ FlushInv /\ PlacesInv /\ EndInv
  BY DEF IInv
<1>1. /\ FlushStep("checkpoint") /\ files' = files /\ manifest' = manifest
      /\ checkpoint'.completed = checkpoint.completed \cup {flush.shard}
  BY DEF SaveCheckpoint
<1>2. /\ phase = "run" /\ phase' = "run" /\ flush.next = "checkpoint" /\ epoch' = epoch
      /\ work' = work /\ results' = results /\ pc' = pc /\ held' = held
      /\ doneWorkers' = doneWorkers
      /\ flush' = NoFlush /\ buffer' = [buffer EXCEPT ![flush.shard] = {}]
  BY <1>1 DEF FlushStep, After
<1>3. PICK s \in Shards \ checkpoint.completed : /\ s = flush.shard /\ buffer[s] = ShardRange(s)
                                                /\ ListedAs(s)
  BY <1>0, <1>2 DEF FlushInv
<1>4. /\ work \in Seq(Blocks) /\ results \in Seq(Items) /\ RunEnd
      /\ buffer \in [Shards -> SUBSET Blocks] /\ \A t \in Shards : buffer[t] \subseteq ShardRange(t)
  BY <1>0, <1>2 DEF Shapes, EndInv
<1>5. /\ buffer' \in [Shards -> SUBSET Blocks] /\ buffer'[s] = {}
      /\ \A t \in Shards : t # s => buffer'[t] = buffer[t]
      /\ \A t \in Shards : buffer'[t] \subseteq ShardRange(t)
  BY <1>2, <1>3, <1>4
<1>6. Shapes'
  BY <1>0, <1>2, <1>5 DEF Shapes
<1>7. DiskInv'
  <2>1. checkpoint'.completed = checkpoint.completed \cup {s}
    BY <1>1, <1>3
  <2>2. \A t \in checkpoint.completed \cup {s} : ListedAs(t)'
    BY <1>0, <1>1, <1>3 DEF DiskInv, ListedAs
  <2> QED BY <1>0, <1>1, <1>2, <1>3, <2>1, <2>2 DEF DiskInv
<1>8. FlushInv'
  BY <1>2, ShardsFinite DEF FlushInv, NoFlush
<1>9. \A bn \in Blocks : /\ bn \in PendingBlocks' <=> bn \in PendingBlocks /\ ShardIndex(bn) # s
                         /\ ShardIndex(bn) = s => bn \in PendingBlocks
  BY <1>1, <1>3 DEF PendingBlocks
<1>10. PlacesInv'
  <2> SUFFICES ASSUME NEW bn \in Blocks
               PROVE  Tally(work, held, results, buffer, bn)' = IF bn \in PendingBlocks' THEN 1 ELSE 0
    BY DEF PlacesInv, Balanced
  <2>1. Tally(work, held, results, buffer, bn) = IF bn \in PendingBlocks THEN 1 ELSE 0
    BY <1>0, <1>2 DEF PlacesInv, Balanced
  <2>2. HolderChange(Shards, buffer, buffer', bn, s)
    <3>1. IsFiniteSet(Shards)
      BY ShardsFinite
    <3> QED BY <1>3, <1>5, <3>1, HoldersExcept
  <2>3. bn \in buffer[s] <=> ShardIndex(bn) = s
    BY <1>3, ShardOfBlock
  <2>4. /\ ShardIndex(bn) = s => Holders(Shards, buffer', bn) = Holders(Shards, buffer, bn) - 1
        /\ ShardIndex(bn) # s => Holders(Shards, buffer', bn) = Holders(Shards, buffer, bn)
    BY <1>5, <2>2, <2>3 DEF HolderChange
  <2>5. /\ Count(work, {bn}) \in Nat /\ Holders(Workers, held, bn) \in Nat
        /\ Count(results, With(bn)) \in Nat /\ Holders(Shards, buffer, bn) \in Nat
    BY <1>4, TallyTypes
  <2>6. Tally(work, held, results, buffer, bn)' =
          Count(work, {bn}) + Holders(Workers, held, bn) + Count(results, With(bn)) + Holders(Shards, buffer', bn)
    BY <1>2 DEF Tally
  <2>7. CASE ShardIndex(bn) = s
    <3>1. bn \in PendingBlocks /\ bn \notin PendingBlocks'
      BY <1>9, <2>7
    <3> QED BY <2>1, <2>4, <2>5, <2>6, <2>7, <3>1 DEF Tally
  <2>8. CASE ShardIndex(bn) # s
    <3>1. bn \in PendingBlocks <=> bn \in PendingBlocks'
      BY <1>9, <2>8
    <3> QED BY <2>1, <2>4, <2>5, <2>6, <2>8, <3>1 DEF Tally
  <2> QED BY <2>7, <2>8
<1>11. EndInv'
  BY <1>0, <1>2 DEF EndInv, RunEnd, Exited
<1> QED BY <1>6, <1>7, <1>8, <1>10, <1>11 DEF IInv

(* The writer returns: either a whole shard is still buffered, and is      *)
(* flushed, or nothing is left to do.                                      *)
LEMMA FinishStep ==
  ASSUME IInv, Finish
  PROVE  IInv'
<1>0. Shapes /\ DiskInv /\ FlushInv /\ PlacesInv /\ EndInv
  BY DEF IInv
<1>1. /\ phase = "run" /\ flush = NoFlush
      /\ work' = work /\ results' = results /\ pc' = pc /\ held' = held
      /\ doneWorkers' = doneWorkers /\ buffer' = buffer /\ epoch' = epoch
      /\ files' = files /\ manifest' = manifest /\ checkpoint' = checkpoint
      /\ ~(doneWorkers < Cardinality(Workers)) /\ \A w \in Workers : pc[w] = "exited"
      /\ work \in Seq(Blocks) /\ results \in Seq(Items) /\ RunEnd /\ doneWorkers \in Nat
      /\ buffer \in [Shards -> SUBSET Blocks] /\ \A t \in Shards : buffer[t] \subseteq ShardRange(t)
  BY <1>0 DEF Finish, Awaiting, Writing, Shapes, EndInv, disk
<1> DEFINE whole == {s \in Shards : buffer[s] # {} /\ Whole(buffer[s], s)}
<1>2. IF whole = {}
      THEN phase' = "done" /\ flush' = flush
      ELSE (\E s \in whole : flush' = [next |-> "file", shard |-> s]) /\ phase' = phase
  BY DEF Finish
<1>3. Shapes'
  BY <1>0, <1>1, <1>2 DEF Shapes
<1>4. DiskInv'
  BY <1>0, <1>1, <1>2 DEF DiskInv, ListedAs
<1>5. ASSUME NEW bn \in Blocks, NEW s \in Shards, bn \in buffer[s]
      PROVE  bn \in PendingBlocks /\ ShardIndex(bn) = s
  <2>1. Tally(work, held, results, buffer, bn) = IF bn \in PendingBlocks THEN 1 ELSE 0
    BY <1>0, <1>1 DEF PlacesInv, Balanced
  <2>2. /\ Count(work, {bn}) \in Nat /\ Holders(Workers, held, bn) \in Nat
        /\ Count(results, With(bn)) \in Nat /\ Holders(Shards, buffer, bn) \in Nat
    BY <1>1, TallyTypes
  <2>3. IsFiniteSet(Shards)
    BY ShardsFinite
  <2>4. Holders(Shards, buffer, bn) # 0
    BY <1>5, <2>3, HoldersNone
  <2>5. bn \in PendingBlocks
    BY <2>1, <2>2, <2>4 DEF Tally
  <2>6. bn \in ShardRange(s)
    BY <1>1, <1>5
  <2> QED BY <2>5, <2>6, ShardOfBlock
<1>6. CASE whole # {}
  <2>1. PICK s \in whole : flush' = [next |-> "file", shard |-> s]
    BY <1>2, <1>6
  <2>2. phase' = "run"
    BY <1>1, <1>2, <1>6
  <2>3. s \in Shards /\ buffer[s] = ShardRange(s) /\ s \notin checkpoint.completed
    <3>1. s \in Shards /\ buffer[s] = ShardRange(s)
      BY <1>1, WholeIs
    <3>2. FirstBlock(s) \in buffer[s] /\ FirstBlock(s) \in Blocks
      BY <3>1, ShardBlocks
    <3>3. FirstBlock(s) \in PendingBlocks /\ ShardIndex(FirstBlock(s)) = s
      BY <1>5, <3>1, <3>2
    <3> QED BY <3>1, <3>3 DEF PendingBlocks
  <2>4. FlushInv'
    <3>1. flush'.next = "file" /\ flush'.shard = s
      BY <2>1
    <3>2. flush' \in [next : {"none", "file", "manifest", "checkpoint"}, shard : Shards]
      BY <2>1, <2>3
    <3> QED BY <1>1, <2>2, <2>3, <3>1, <3>2 DEF FlushInv
  <2>5. PlacesInv'
    BY <1>0, <1>1 DEF PlacesInv, Balanced, PendingBlocks
  <2>6. EndInv'
    BY <1>1, <2>2 DEF EndInv, RunEnd, Exited
  <2> QED BY <1>3, <1>4, <2>4, <2>5, <2>6 DEF IInv
<1>7. CASE whole = {}
  <2>1. phase' = "done" /\ flush' = flush
    BY <1>2, <1>7
  <2>2. FlushInv'
    BY <1>0, <1>1, <2>1 DEF FlushInv, NoFlush
  <2>3. PlacesInv'
    BY <2>1 DEF PlacesInv
  <2>4. Exited = Workers /\ Cardinality(Workers) \in Nat
    BY <1>1, ScraperAssumption, FS_CardinalityType DEF Exited
  <2>5. Count(results, {DONE}) = 0 /\ doneWorkers = Cardinality(Workers)
    <3>1. Count(results, {DONE}) \in Nat
      BY <1>1, CountNone
    <3>2. Count(results, {DONE}) + doneWorkers = Cardinality(Workers)
      BY <1>1, <2>4 DEF RunEnd
    <3> QED BY <1>1, <2>4, <3>1, <3>2
  <2>6. results = <<>>
    <3>1. \A i \in 1..Len(results) : results[i] # DONE
      BY <1>1, <2>5, CountNone
    <3>2. results # <<>> => Len(results) \in 1..Len(results)
      BY <1>1, EmptySeq
    <3> QED BY <1>1, <2>4, <3>1, <3>2 DEF RunEnd
  <2>7. work = <<>>
    BY <1>1 DEF RunEnd
  <2>8. ASSUME NEW bn \in PendingBlocks PROVE bn \in buffer[ShardIndex(bn)]
    <3>1. bn \in Blocks
      BY DEF PendingBlocks
    <3>2. Tally(work, held, results, buffer, bn) = 1
      BY <1>0, <1>1, <3>1 DEF PlacesInv, Balanced
    <3>3. Count(work, {bn}) = 0 /\ Count(results, With(bn)) = 0
      BY <2>6, <2>7, CountEmpty
    <3>4. Holders(Workers, held, bn) = 0
      <4>1. \A w \in Workers : held[w] = {}
        BY <1>0, <1>1 DEF Shapes
      <4> QED BY <4>1, ScraperAssumption, HoldersNone
    <3>5. IsFiniteSet(Shards)
      BY ShardsFinite
    <3>6. Holders(Shards, buffer, bn) # 0
      <4>1. Holders(Shards, buffer, bn) \in Nat
        BY <3>5, HoldersNone
      <4> QED BY <3>2, <3>3, <3>4, <4>1 DEF Tally
    <3>7. PICK s \in Shards : bn \in buffer[s]
      BY <3>5, <3>6, HoldersNone
    <3>8. ShardIndex(bn) = s
      BY <1>5, <3>1, <3>7
    <3> QED BY <3>7, <3>8
  <2>9. PendingBlocks = {}
    <3> SUFFICES ASSUME NEW bn \in PendingBlocks PROVE FALSE
      OBVIOUS
    <3> DEFINE s == ShardIndex(bn)
    <3>1. bn \in Blocks /\ s \notin checkpoint.completed
      BY DEF PendingBlocks
    <3>2. s \in Shards
      BY <3>1, ShardOfBlock
    <3> HIDE DEF s
    <3>3. \A b \in ShardRange(s) : b \in Blocks /\ ShardIndex(b) = s
      BY <3>2, ShardBlocks, ShardOfBlock
    <3>4. \A b \in ShardRange(s) : b \in PendingBlocks
      BY <3>1, <3>3 DEF PendingBlocks
    <3>5. \A b \in ShardRange(s) : b \in buffer[s]
      BY <2>8, <3>3, <3>4
    <3>6. buffer[s] = ShardRange(s)
      BY <1>1, <3>2, <3>5
    <3>7. s \in whole
      BY <2>8, <3>2, <3>6, WholeIs DEF s
    <3> QED BY <1>7, <3>7
  <2>10. buffer = [s \in Shards |-> {}]
    <3>1. \A s \in Shards : buffer[s] = {}
      BY <1>1, <1>5, <2>9
    <3> QED BY <1>1, <3>1
  <2>11. PendingBlocks' = {}
    BY <1>1, <2>9 DEF PendingBlocks
  <2>12. EndInv'
    BY <1>1, <2>1, <2>4, <2>5, <2>6, <2>7, <2>10, <2>11 DEF EndInv
  <2> QED BY <1>3, <1>4, <2>2, <2>3, <2>12 DEF IInv
<1> QED BY <1>6, <1>7

(* The first run finds an empty directory. *)
LEMMA FirstState ==
  ASSUME Init
  PROVE  IInv
<1>1. /\ phase = "down" /\ Idle /\ epoch = 0 /\ manifest = <<>>
      /\ files = [s \in Shards |-> NoFile] /\ checkpoint.completed = {}
  BY DEF Init
<1>2. Shapes
  <2>1. work = <<>> /\ results = <<>> /\ Len(<<>>) <= QueueSize
    BY <1>1, ScraperAssumption DEF Idle
  <2>2. /\ pc \in [Workers -> {"take", "fetch", "put", "sleep", "leave", "exited"}]
        /\ held \in [Workers -> Items]
        /\ \A w \in Workers : held[w] # {} <=> pc[w] \in {"fetch", "put"}
    BY <1>1 DEF Idle, Items, DONE
  <2>3. buffer \in [Shards -> SUBSET Blocks] /\ \A s \in Shards : buffer[s] \subseteq ShardRange(s)
    BY <1>1 DEF Idle
  <2>4. doneWorkers \in Nat
    BY <1>1 DEF Idle
  <2> QED BY <1>1, <2>1, <2>2, <2>3, <2>4 DEF Shapes
<1>3. DiskInv
  <2>1. FilesOK(files, 0)
    BY <1>1 DEF FilesOK
  <2>2. ManifestOK(manifest, 0)
    BY <1>1 DEF ManifestOK
  <2> QED BY <1>1, <2>1, <2>2 DEF DiskInv
<1>4. FlushInv
  BY <1>1, ShardsFinite DEF FlushInv, Idle, NoFlush
<1> QED BY <1>1, <1>2, <1>3, <1>4 DEF IInv, PlacesInv, EndInv

(* A kill leaves the disk and an idle process. *)
LEMMA KillStep ==
  ASSUME IInv, Kill
  PROVE  IInv'
<1>0. DiskInv
  BY DEF IInv
<1>1. /\ phase' = "down" /\ Idle' /\ epoch' = epoch
      /\ files' = files /\ manifest' = manifest /\ checkpoint' = checkpoint
  BY DEF Kill, Idle, disk
<1>2. Shapes'
  <2>1. work' = <<>> /\ results' = <<>> /\ Len(<<>>) <= QueueSize
    BY <1>1, ScraperAssumption DEF Idle
  <2>2. /\ pc' \in [Workers -> {"take", "fetch", "put", "sleep", "leave", "exited"}]
        /\ held' \in [Workers -> Items]
        /\ \A w \in Workers : held'[w] # {} <=> pc'[w] \in {"fetch", "put"}
    BY <1>1 DEF Idle, Items, DONE
  <2>3. buffer' \in [Shards -> SUBSET Blocks] /\ \A s \in Shards : buffer'[s] \subseteq ShardRange(s)
    BY <1>1 DEF Idle
  <2>4. doneWorkers' \in Nat
    BY <1>1 DEF Idle
  <2> QED BY <1>1, <2>1, <2>2, <2>3, <2>4 DEF Shapes
<1>3. DiskInv'
  BY <1>0, <1>1 DEF DiskInv, ListedAs
<1>4. FlushInv'
  BY <1>1, ShardsFinite DEF FlushInv, Idle, NoFlush
<1> QED BY <1>1, <1>2, <1>3, <1>4 DEF IInv, PlacesInv, EndInv

(* A step that changes nothing keeps the invariant. *)
LEMMA NoStep ==
  ASSUME IInv, UNCHANGED vars
  PROVE  IInv'
<1>1. /\ phase' = phase /\ work' = work /\ results' = results /\ pc' = pc /\ held' = held
      /\ doneWorkers' = doneWorkers /\ buffer' = buffer /\ flush' = flush
      /\ files' = files /\ manifest' = manifest /\ checkpoint' = checkpoint /\ epoch' = epoch
  BY DEF vars, memory, disk
<1>2. Shapes'
  BY <1>1 DEF IInv, Shapes
<1>3. DiskInv'
  BY <1>1 DEF IInv, DiskInv, ListedAs
<1>4. FlushInv'
  BY <1>1 DEF IInv, FlushInv, ListedAs
<1>5. PlacesInv'
  BY <1>1 DEF IInv, PlacesInv, PendingBlocks
<1>6. EndInv'
  BY <1>1 DEF IInv, EndInv, Idle, RunEnd, Exited, PendingBlocks
<1> QED BY <1>2, <1>3, <1>4, <1>5, <1>6 DEF IInv

(* The invariant holds of every state of the scraper, whatever fails and   *)
(* whatever is killed (pipeline.py, writer.py and checkpoint.py together). *)
THEOREM ScraperInvariant == Spec => []IInv
<1>1. Init => IInv
  BY FirstState
<1>2. IInv /\ [Next]_vars => IInv'
  <2> SUFFICES ASSUME IInv, [Next]_vars PROVE IInv'
    OBVIOUS
  <2>1. CASE Start
    BY <2>1, StartStep
  <2>2. ASSUME NEW w \in Workers, Work(w) PROVE IInv'
    <3>1. CASE Take(w)
      BY <3>1, TakeStep
    <3>2. CASE Fetched(w) \/ Wake(w)
      BY <3>2, FetchedStep
    <3>3. CASE Put(w)
      BY <3>3, PutStep
    <3>4. CASE Leave(w)
      BY <3>4, LeaveStep
    <3> QED BY <2>2, <3>1, <3>2, <3>3, <3>4 DEF Work
  <2>3. ASSUME NEW w \in Workers, FetchFails(w) PROVE IInv'
    BY <2>3, FetchFailsStep
  <2>4. CASE Write
    BY <2>4, ReceiveDoneStep, ReceiveStep, WriteFileStep, SaveManifestStep, SaveCheckpointStep,
       FinishStep DEF Write
  <2>5. CASE Kill
    BY <2>5, KillStep
  <2>6. CASE UNCHANGED vars
    BY <2>6, NoStep
  <2> QED BY <2>1, <2>2, <2>3, <2>4, <2>5, <2>6 DEF Next, Rest
<1> QED BY <1>1, <1>2, PTL DEF Spec

-----------------------------------------------------------------------------
(* Every variable keeps its type, and the results queue its bound          *)
(* (pipeline.py 76-85).                                                    *)
THEOREM TypesAreKept == Spec => []TypeOK
<1>1. IInv => TypeOK
  <2> SUFFICES ASSUME IInv PROVE TypeOK
    OBVIOUS
  <2>0. Shapes /\ DiskInv /\ FlushInv /\ EndInv
    BY DEF IInv
  <2>1. doneWorkers \in 0..Cardinality(Workers)
    <3>1. doneWorkers \in Nat /\ results \in Seq(Items) /\ Cardinality(Workers) \in Nat
      BY <2>0, ScraperAssumption, FS_CardinalityType DEF Shapes
    <3>2. CASE phase = "run"
      <4>1. Count(results, {DONE}) + doneWorkers = Cardinality(Exited)
        BY <2>0, <3>2 DEF EndInv, RunEnd
      <4>2. Count(results, {DONE}) \in Nat
        BY <3>1, CountNone
      <4>3. Exited \in SUBSET Workers
        BY DEF Exited
      <4>4. Cardinality(Exited) \in Nat /\ Cardinality(Exited) <= Cardinality(Workers)
        BY <4>3, ScraperAssumption, FS_Subset, FS_CardinalityType
      <4> QED BY <3>1, <4>1, <4>2, <4>4
    <3>3. CASE phase = "down"
      BY <2>0, <3>1, <3>3 DEF EndInv, Idle
    <3>4. CASE phase = "done"
      BY <2>0, <3>1, <3>4 DEF EndInv
    <3> QED BY <2>0, <3>2, <3>3, <3>4 DEF Shapes
  <2>2. ASSUME NEW s \in Shards, files[s] # NoFile
        PROVE  \E e \in 1..epoch, B \in SUBSET ShardRange(s) : files[s] = Blob(B, e)
    BY <2>0, <2>2 DEF DiskInv, FilesOK, FileOf
  <2>3. \A i \in DOMAIN manifest : manifest[i].file \in Shards
    <3>1. epoch \in Nat /\ ManifestOK(manifest, epoch)
      BY <2>0 DEF DiskInv
    <3>2. DOMAIN manifest = 1..Len(manifest)
      BY <3>1 DEF ManifestOK
    <3> QED BY <3>1, <3>2, ManifestEntries DEF ProperEntry
  <2>4. flush \in [next : {"none", "file", "manifest", "checkpoint"}, shard : Shards]
    BY <2>0 DEF FlushInv
  <2>5. checkpoint.completed \subseteq Shards
    BY <2>0 DEF DiskInv
  <2>6. /\ phase \in {"down", "run", "done"}
        /\ work \in Seq(Blocks)
        /\ results \in Seq(Items) /\ Len(results) <= QueueSize
        /\ pc \in [Workers -> {"take", "fetch", "put", "sleep", "leave", "exited"}]
        /\ held \in [Workers -> Items]
        /\ buffer \in [Shards -> SUBSET Blocks]
    BY <2>0 DEF Shapes
  <2>7. held \in [Workers -> {{}} \cup {{bn} : bn \in Blocks}]
    BY <2>6 DEF Items, DONE
  <2> QED BY <2>1, <2>2, <2>3, <2>4, <2>5, <2>6, <2>7 DEF TypeOK, Items
<1> QED BY <1>1, ScraperInvariant, PTL

(* While the process runs, every block still to do is in exactly one       *)
(* place, and no other block is anywhere (pipeline.py 93-120).             *)
THEOREM BlocksAlwaysAccountedFor == Spec => []BlocksAccountedFor
<1>1. IInv => BlocksAccountedFor
  <2> SUFFICES ASSUME IInv, phase = "run", NEW bn \in Blocks
               PROVE  PlacesOf(bn) = IF bn \in PendingBlocks THEN 1 ELSE 0
    BY DEF BlocksAccountedFor
  <2>1. Tally(work, held, results, buffer, bn) = IF bn \in PendingBlocks THEN 1 ELSE 0
    BY DEF IInv, PlacesInv, Balanced
  <2>2. results \in Seq(Items)
    BY DEF IInv, Shapes
  <2>3. {i \in DOMAIN work : work[i] \in {bn}} = {i \in DOMAIN work : work[i] = bn}
    OBVIOUS
  <2>4. {i \in DOMAIN results : results[i] \in With(bn)} = {i \in DOMAIN results : bn \in results[i]}
    <3>1. \A i \in DOMAIN results : results[i] \in Items
      BY <2>2
    <3>2. \A S \in Items : S \in With(bn) <=> bn \in S
      BY WithRecord
    <3> QED BY <3>1, <3>2
  <2> QED BY <2>1, <2>3, <2>4 DEF Tally, Count, Holders, PlacesOf
<1> QED BY <1>1, ScraperInvariant, PTL

(* A completed shard is on disk, whole, and the manifest lists it once     *)
(* with the hash of that file: a kill can no longer hurt it (writer.py     *)
(* 73-101).                                                                *)
THEOREM CheckpointAlwaysDurable == Spec => []CheckpointIsDurable
<1>1. IInv => CheckpointIsDurable
  <2> SUFFICES ASSUME IInv, NEW s \in checkpoint.completed
               PROVE  /\ \E f \in files[s] : f.blocks = ShardRange(s)
                      /\ \E i \in DOMAIN manifest :
                           /\ Listed(manifest, s) = {i}
                           /\ manifest[i] = EntryOf(s, ShardRange(s), files[s])
    BY DEF CheckpointIsDurable
  <2>1. epoch \in Nat /\ ManifestOK(manifest, epoch) /\ ListedAs(s)
    BY DEF IInv, DiskInv
  <2>2. DOMAIN manifest = 1..Len(manifest)
    BY <2>1 DEF ManifestOK
  <2>3. PICK i \in 1..Len(manifest) : manifest[i].file = s /\ manifest[i].sha = files[s]
    BY <2>1 DEF ListedAs
  <2>4. \E e \in 1..epoch : manifest[i] = Entry(manifest[i].file, e) /\ manifest[i].sha = FileOf(manifest[i].file, e)
    BY <2>1, ManifestEntries
  <2>5. PICK e \in 1..epoch : manifest[i] = Entry(s, e) /\ files[s] = FileOf(s, e)
    BY <2>3, <2>4
  <2>6. \A j \in 1..Len(manifest) : manifest[j].file = s => j = i
    BY <2>1, <2>3, ListedOnce
  <2>7. Listed(manifest, s) = {i}
    BY <2>2, <2>3, <2>6 DEF Listed
  <2>8. \E f \in files[s] : f.blocks = ShardRange(s)
    BY <2>5 DEF FileOf, Blob
  <2> QED BY <2>2, <2>5, <2>7, <2>8 DEF Entry
<1> QED BY <1>1, ScraperInvariant, PTL

(* A run with no work left has listed every shard, with its present file. *)
LEMMA NothingPending ==
  ASSUME IInv, PendingBlocks = {}
  PROVE  UpToDate(manifest, files) /\ AllListed(manifest)
<1>1. /\ epoch \in Nat /\ ManifestOK(manifest, epoch)
      /\ \A s \in checkpoint.completed : ListedAs(s)
  BY DEF IInv, DiskInv
<1>2. ASSUME NEW s \in Shards PROVE ListedAs(s)
  <2>1. FirstBlock(s) \in Blocks /\ ShardIndex(FirstBlock(s)) = s
    BY ShardHasBlock
  <2>2. s \in checkpoint.completed
    BY <2>1 DEF PendingBlocks
  <2> QED BY <1>1, <2>2
<1>3. AllListed(manifest)
  BY <1>2 DEF AllListed, ListedAs
<1>4. UpToDate(manifest, files)
  <2> SUFFICES ASSUME NEW i \in 1..Len(manifest) PROVE files[manifest[i].file] = manifest[i].sha
    BY DEF UpToDate
  <2>1. manifest[i].file \in Shards
    BY <1>1, ManifestEntries DEF ProperEntry
  <2>2. PICK j \in 1..Len(manifest) : /\ manifest[j].file = manifest[i].file
                                      /\ manifest[j].sha = files[manifest[i].file]
    BY <1>2, <2>1 DEF ListedAs
  <2>3. i = j
    BY <1>1, <2>2, ListedOnce
  <2> QED BY <2>2, <2>3
<1> QED BY <1>3, <1>4

(* The simulator that streams the directory, after whatever kills and with *)
(* or without hashes compared, meets block numbers that only ascend        *)
(* (loader.rs 106-140).                                                    *)
THEOREM StreamAlwaysAscends == Spec => []StreamAscends
<1>1. IInv => StreamAscends
  <2> SUFFICES ASSUME IInv, NEW v \in BOOLEAN
               PROVE  LET stream == Streamed(manifest, files, v)
                      IN \A i \in 1..Len(stream) - 1 : stream[i] < stream[i + 1]
    BY DEF StreamAscends
  <2>1. epoch \in Nat /\ ManifestOK(manifest, epoch) /\ FilesOK(files, epoch)
    BY DEF IInv, DiskInv
  <2> DEFINE q == Streamed(manifest, files, v)
  <2>2. \E k \in 0..Len(manifest) : StreamIs(q, manifest, k)
    BY <2>1, StreamOf
  <2>3. q \in Seq(Blocks) /\ AscendingList(q)
    BY <2>2 DEF StreamIs
  <2> HIDE DEF q
  <2>4. \A i \in 1..Len(q) - 1 : q[i] < q[i + 1]
    <3> TAKE i \in 1..Len(q) - 1
    <3>1. i \in 1..Len(q) /\ i + 1 \in 1..Len(q) /\ i < i + 1
      BY <2>3
    <3> QED BY <2>3, <3>1 DEF AscendingList
  <2> QED BY <2>4 DEF q
<1> QED BY <1>1, ScraperInvariant, PTL

(* The scraper's verify accepts what the simulator's does with hashes      *)
(* compared, at every moment; without, the simulator accepts more, but     *)
(* only directories that hold every block and that the scraper still owes  *)
(* work on (__main__.py 70-121, main.rs 58-107, loader.rs 54-71).          *)
THEOREM VerifiersAlwaysAgree == Spec => []VerifiersAgree
<1>1. IInv => VerifiersAgree
  <2> SUFFICES ASSUME IInv PROVE VerifiersAgree
    OBVIOUS
  <2>1. epoch \in Nat /\ ManifestOK(manifest, epoch) /\ FilesOK(files, epoch)
    BY DEF IInv, DiskInv
  <2>2. Verify(manifest, files) <=> UpToDate(manifest, files) /\ AllListed(manifest)
    BY <2>1, VerifyIff
  <2>3. \A v \in BOOLEAN :
          VerifyLoad(manifest, files, v) <=> Readable(manifest, files, v) /\ AllListed(manifest)
    BY <2>1, VerifyLoadIff
  <2>4. Readable(manifest, files, TRUE) <=> UpToDate(manifest, files)
    BY <2>1, ReadableIff
  <2>5. Readable(manifest, files, TRUE) => Readable(manifest, files, FALSE)
    BY DEF Readable
  <2>6. ASSUME Readable(manifest, files, FALSE), AllListed(manifest), NEW bn \in Blocks
        PROVE  \E f \in files[ShardIndex(bn)] : bn \in f.blocks
    <3> DEFINE s == ShardIndex(bn)
    <3>1. s \in Shards /\ bn \in ShardRange(s)
      BY ShardOfBlock
    <3> HIDE DEF s
    <3>2. files[s] # NoFile
      BY <2>6, <3>1 DEF AllListed, Readable
    <3>3. PICK e \in 1..epoch : files[s] = FileOf(s, e)
      BY <2>1, <3>1, <3>2 DEF FilesOK
    <3> QED BY <3>1, <3>3 DEF FileOf, Blob, s
  <2>7. PendingBlocks = {} => Verify(manifest, files)
    BY <2>2, NothingPending
  <2>8. /\ VerifyLoad(manifest, files, TRUE) <=> Verify(manifest, files)
        /\ VerifyLoad(manifest, files, FALSE)
             <=> Readable(manifest, files, FALSE) /\ AllListed(manifest)
    BY <2>2, <2>3, <2>4
  <2> QED BY <2>2, <2>4, <2>5, <2>6, <2>7, <2>8 DEF VerifiersAgree
<1> QED BY <1>1, ScraperInvariant, PTL

(* A run that ends has written a directory that verifies, and leaves no    *)
(* record behind in memory (pipeline.py 134-146).                          *)
THEOREM DoneAlwaysVerified == Spec => []DoneIsVerified
<1>1. IInv => DoneIsVerified
  <2> SUFFICES ASSUME IInv, phase = "done"
               PROVE  /\ Verify(manifest, files)
                      /\ \A s \in Shards : buffer[s] = {}
                      /\ work = <<>> /\ results = <<>>
    BY DEF DoneIsVerified
  <2>1. /\ epoch \in Nat /\ ManifestOK(manifest, epoch)
        /\ \A s \in checkpoint.completed : ListedAs(s)
    BY DEF IInv, DiskInv
  <2>2. /\ PendingBlocks = {} /\ work = <<>> /\ results = <<>>
        /\ buffer = [s \in Shards |-> {}]
    BY DEF IInv, EndInv
  <2>3. UpToDate(manifest, files) /\ AllListed(manifest)
    BY <2>2, NothingPending
  <2>4. Verify(manifest, files)
    BY <2>1, <2>3, VerifyIff
  <2> QED BY <2>2, <2>4
<1> QED BY <1>1, ScraperInvariant, PTL

-----------------------------------------------------------------------------
(* The scraper keeps the promises of a Scrape.  The blocks that are safe   *)
(* are those of the completed shards.                                      *)
SafeIn(C, f) == {bn \in Blocks : \E s \in C : \E g \in f[s] : bn \in g.blocks}
Safe == SafeIn(checkpoint.completed, files)
Reported == IF checkpoint.completed = {} THEN StartBlock - 1 ELSE checkpoint.highest

BlocksOf(C) == {bn \in Blocks : ShardIndex(bn) \in C}

(* The checkpoint reports the number that its own shards come to. *)
Reports == checkpoint.completed # {} => checkpoint.highest = HighestContiguous(checkpoint.completed)

(* Whatever is on disk of the other shards, it does not count. *)
LEMMA SafeBlocks ==
  ASSUME NEW C \in SUBSET Shards, NEW f, NEW n, FilesOK(f, n), \A s \in C : f[s] # NoFile
  PROVE  SafeIn(C, f) = BlocksOf(C)
<1>1. ASSUME NEW s \in C, NEW bn \in Blocks
      PROVE  (\E g \in f[s] : bn \in g.blocks) <=> ShardIndex(bn) = s
  <2>1. s \in Shards
    OBVIOUS
  <2>2. PICK e \in 1..n : f[s] = FileOf(s, e)
    BY <2>1 DEF FilesOK
  <2>3. (\E g \in f[s] : bn \in g.blocks) <=> bn \in ShardRange(s)
    BY <2>2 DEF FileOf, Blob
  <2> QED BY <2>1, <2>3, ShardOfBlock
<1> QED BY <1>1 DEF SafeIn, BlocksOf

(* Shards that there are have a last one. *)
LEMMA LargestShard ==
  ASSUME NEW P \in SUBSET Shards, P # {}
  PROVE  Max(P) \in P /\ \A r \in P : Max(P) >= r
<1> DEFINE U == {u \in Nat : \A r \in P : r <= u}
<1>1. P \in SUBSET Nat
  BY ShardCount DEF Shards
<1>2. U # {} /\ U \in SUBSET Nat
  <2>1. NShards \in Nat /\ \A r \in Shards : r <= NShards
    BY ShardCount DEF Shards
  <2> QED BY <2>1
<1>3. PICK u \in U : \A v \in U : u <= v
  <2> HIDE DEF U
  <2> QED BY <1>2, LeastNumber
<1>4. u \in Nat /\ \A r \in P : r <= u
  OBVIOUS
<1>5. u \in P
  <2> SUFFICES ASSUME u \notin P PROVE FALSE
    OBVIOUS
  <2>1. \A r \in P : r <= u - 1
    BY <1>1, <1>4
  <2>2. u - 1 \in Nat
    <3>1. PICK r \in P : TRUE
      OBVIOUS
    <3>2. r \in Nat /\ r <= u - 1
      BY <1>1, <2>1
    <3> QED BY <1>4, <3>2
  <2>3. u - 1 \in U
    BY <2>1, <2>2
  <2> QED BY <1>3, <1>4, <2>3
<1>6. \E x \in P : \A r \in P : x >= r
  BY <1>1, <1>4, <1>5
<1> QED BY <1>6 DEF Max

(* A block is in a shard up to s if it is not after the last block of s.   *)
LEMMA ShardsUpTo ==
  ASSUME NEW s \in Shards, NEW bn \in Blocks
  PROVE  bn <= LastBlock(s) <=> ShardIndex(bn) <= s
<1> DEFINE t == ShardIndex(bn)
<1>1. t \in Shards /\ bn \in ShardRange(t)
  BY ShardOfBlock
<1> HIDE DEF t
<1>2. s \in Int /\ t \in Int
  BY <1>1, ShardCount DEF Shards
<1>3. /\ FirstBlock(s) \in Int /\ LastBlock(s) \in Int /\ FirstBlock(s) <= LastBlock(s)
      /\ FirstBlock(t) \in Int /\ LastBlock(t) \in Int
  BY <1>1, ShardBounds DEF Bounded
<1>4. bn \in Int /\ FirstBlock(t) <= bn /\ bn <= LastBlock(t)
  BY <1>1, <1>3 DEF ShardRange
<1> HIDE DEF FirstBlock, LastBlock
<1>5. CASE t < s
  <2>1. LastBlock(t) < FirstBlock(s)
    BY <1>1, <1>5, ShardOrder
  <2> QED BY <1>2, <1>3, <1>4, <1>5, <2>1 DEF t
<1>6. CASE t = s
  BY <1>2, <1>3, <1>4, <1>6 DEF t
<1>7. CASE s < t
  <2>1. LastBlock(s) < FirstBlock(t)
    BY <1>1, <1>7, ShardOrder
  <2> QED BY <1>2, <1>3, <1>4, <1>7, <2>1 DEF t
<1> QED BY <1>2, <1>5, <1>6, <1>7

(* A number up to which S has every block, and not the next one. *)
Contiguous(h, S) == /\ h \in StartBlock - 1..EndBlock
                    /\ StartBlock..h \subseteq S /\ h + 1 \notin S

(* There is one such number at most. *)
LEMMA ContiguousOnce ==
  ASSUME NEW S, NEW h, NEW k, Contiguous(h, S), Contiguous(k, S)
  PROVE  h = k
<1>1. h \in Int /\ k \in Int /\ StartBlock \in Int /\ StartBlock <= h + 1 /\ StartBlock <= k + 1
  BY DatasetAssumption DEF Contiguous
<1>2. ~(h < k)
  <2> SUFFICES ASSUME h < k PROVE FALSE
    OBVIOUS
  <2>1. h + 1 \in StartBlock..k
    BY <1>1
  <2> QED BY <2>1 DEF Contiguous
<1>3. ~(k < h)
  <2> SUFFICES ASSUME k < h PROVE FALSE
    OBVIOUS
  <2>1. k + 1 \in StartBlock..h
    BY <1>1
  <2> QED BY <2>1 DEF Contiguous
<1> QED BY <1>1, <1>2, <1>3

(* What checkpoint.py computes from the completed shards is that number,   *)
(* of their blocks.                                                        *)
LEMMA HighestIsContiguous ==
  ASSUME NEW C \in SUBSET Shards
  PROVE  Contiguous(HighestContiguous(C), BlocksOf(C))
<1> DEFINE P == {s \in Shards : \A r \in 0..s : r \in C}
<1>0. StartBlock \in Int /\ EndBlock \in Int /\ StartBlock <= EndBlock
  BY DatasetAssumption, ScraperAssumption
<1>1. CASE P = {}
  <2>1. HighestContiguous(C) = StartBlock - 1
    BY <1>1 DEF HighestContiguous
  <2>2. 0 \notin C
    <3>1. 0 \notin P
      BY <1>1
    <3>2. \A r \in 0..0 : r = 0
      OBVIOUS
    <3> QED BY <3>1, <3>2, ShardsFinite
  <2>3. StartBlock \notin BlocksOf(C)
    <3>1. 0 \in Shards /\ StartBlock \in Blocks /\ ShardIndex(StartBlock) = 0
      BY FirstAndLast, ShardHasBlock
    <3> QED BY <2>2, <3>1 DEF BlocksOf
  <2>4. /\ StartBlock - 1 \in StartBlock - 1..EndBlock /\ StartBlock..StartBlock - 1 = {}
        /\ StartBlock - 1 + 1 = StartBlock
    BY <1>0
  <2> QED BY <2>1, <2>3, <2>4 DEF Contiguous
<1>2. CASE P # {}
  <2> DEFINE m == Max(P)
  <2>1. P \in SUBSET Shards
    OBVIOUS
  <2>2. m \in P /\ \A r \in P : m >= r
    <3> HIDE DEF P
    <3> QED BY <1>2, <2>1, LargestShard
  <2>3. HighestContiguous(C) = LastBlock(m)
    BY <1>2 DEF HighestContiguous
  <2>4. m \in Shards /\ \A r \in 0..m : r \in C
    BY <2>2
  <2>5. m \in Int /\ 0 <= m /\ m + 1 \notin P
    <3>1. m \in Int /\ 0 <= m
      BY <2>4, ShardCount DEF Shards
    <3>2. ~(m >= m + 1)
      BY <3>1
    <3> QED BY <2>2, <3>1, <3>2
  <2>6. m + 1 \notin C
    <3> SUFFICES ASSUME m + 1 \in C PROVE FALSE
      OBVIOUS
    <3>1. m + 1 \in Shards
      OBVIOUS
    <3>2. \A r \in 0..m + 1 : r \in 0..m \/ r = m + 1
      BY <2>5
    <3>3. \A r \in 0..m + 1 : r \in C
      BY <2>4, <3>2
    <3> QED BY <2>5, <3>1, <3>3
  <2> HIDE DEF m, P
  <2> DEFINE h == LastBlock(m)
  <2>7. h \in Int /\ StartBlock <= h /\ h <= EndBlock
    BY <1>0, <2>4, ShardBounds DEF Bounded
  <2>8. \A bn \in Blocks : bn <= h <=> ShardIndex(bn) <= m
    BY <2>4, ShardsUpTo
  <2> HIDE DEF h
  <2>9. ASSUME NEW bn \in StartBlock..h PROVE bn \in BlocksOf(C)
    <3>1. bn \in Blocks /\ bn <= h
      BY <1>0, <2>7 DEF Blocks
    <3>2. ShardIndex(bn) <= m /\ ShardIndex(bn) \in Shards
      BY <2>8, <3>1, ShardOfBlock
    <3>3. ShardIndex(bn) \in 0..m
      <4> DEFINE t == ShardIndex(bn)
      <4>1. t <= m /\ t \in Shards
        BY <3>2
      <4> HIDE DEF t
      <4>2. t \in 0..m
        BY <2>5, <4>1, ShardCount DEF Shards
      <4> QED BY <4>2 DEF t
    <3> QED BY <2>4, <3>1, <3>3 DEF BlocksOf
  <2>10. h + 1 \notin BlocksOf(C)
    <3> SUFFICES ASSUME h + 1 \in Blocks, ShardIndex(h + 1) \in C PROVE FALSE
      BY DEF BlocksOf
    <3> DEFINE t == ShardIndex(h + 1)
    <3>1. t \in Shards /\ ~(t <= m)
      <4>1. ~(h + 1 <= h)
        BY <2>7
      <4> QED BY <2>8, <4>1, ShardOfBlock
    <3> HIDE DEF t
    <3>2. t \in Int /\ m + 1 \in Shards
      BY <2>5, <3>1, ShardCount DEF Shards
    <3>3. h + 1 = FirstBlock(m + 1)
      BY <2>4, <3>2, ShardNext DEF h
    <3>4. t = m + 1
      BY <3>2, <3>3, ShardHasBlock DEF t
    <3> QED BY <2>6, <3>4 DEF t
  <2>11. Contiguous(h, BlocksOf(C))
    <3>1. h \in StartBlock - 1..EndBlock
      BY <1>0, <2>7
    <3> QED BY <2>9, <2>10, <3>1 DEF Contiguous
  <2> QED BY <2>3, <2>11 DEF h
<1> QED BY <1>1, <1>2

(* It is the prefix that a Scrape reports. *)
LEMMA PrefixIsHighest ==
  ASSUME NEW C \in SUBSET Shards
  PROVE  Abstract!Prefix(BlocksOf(C)) = HighestContiguous(C)
<1> DEFINE S == BlocksOf(C)
           k == HighestContiguous(C)
<1>1. Contiguous(k, S)
  BY HighestIsContiguous
<1> HIDE DEF S, k
<1>2. Abstract!Prefix(S) = CHOOSE h \in StartBlock - 1..EndBlock : StartBlock..h \subseteq S /\ h + 1 \notin S
  BY DEF Abstract!Prefix
<1>3. k \in StartBlock - 1..EndBlock /\ StartBlock..k \subseteq S /\ k + 1 \notin S
  BY <1>1 DEF Contiguous
<1>4. Contiguous(Abstract!Prefix(S), S)
  BY <1>2, <1>3 DEF Contiguous
<1>5. Abstract!Prefix(S) = k
  BY <1>1, <1>4, ContiguousOnce
<1> QED BY <1>5 DEF S, k

(* Only the third write of a flush changes the checkpoint. *)
LEMMA CheckpointStays ==
  ASSUME [Next]_vars, ~SaveCheckpoint
  PROVE  checkpoint' = checkpoint
BY DEF Next, vars, disk, Start, Work, Take, Fetched, Wake, Put, Leave, FetchFails, Write,
       ReceiveDone, Receive, WriteFile, SaveManifest, Finish, Kill, Rest

(* A run that is done stays done, and its blocks are all safe. *)
LEMMA DoneStays ==
  ASSUME IInv, IInv', [Next]_vars
  PROVE  /\ phase = "done" => phase' = "done"
         /\ SaveCheckpoint => phase = "run" /\ phase' = "run"
         /\ phase' = "done" => PendingBlocks' = {}
<1>1. phase = "done" => phase' = "done"
  <2>1. phase \in {"down", "run", "done"}
    BY DEF IInv, Shapes
  <2>2. phase = "done" => flush.next = "none"
    BY DEF IInv, FlushInv
  <2> QED BY <2>1, <2>2 DEF Next, vars, Start, Work, Take, Fetched, Wake, Put, Leave, FetchFails,
             Write, ReceiveDone, Receive, WriteFile, SaveManifest, SaveCheckpoint, Finish, Kill, Rest,
             Awaiting, FlushStep
<1>2. SaveCheckpoint => phase = "run" /\ phase' = "run"
  BY DEF SaveCheckpoint, FlushStep
<1>3. phase' = "done" => PendingBlocks' = {}
  BY DEF IInv, EndInv
<1> QED BY <1>1, <1>2, <1>3

(* A step of the scraper is a step of a Scrape, or none. *)
LEMMA ScrapeStep ==
  ASSUME IInv, IInv', Reports', [Next]_vars
  PROVE  [Abstract!Next]_(Abstract!vars)
<1> DEFINE C == checkpoint.completed
<1>0. /\ C \in SUBSET Shards /\ FilesOK(files, epoch) /\ \A s \in C : files[s] # NoFile
      /\ C' \in SUBSET Shards /\ FilesOK(files', epoch') /\ \A s \in C' : files'[s] # NoFile
  BY DEF IInv, DiskInv, ListedAs
<1>1. Safe = BlocksOf(C) /\ Safe' = BlocksOf(C')
  <2>1. SafeIn(C, files) = BlocksOf(C)
    BY <1>0, SafeBlocks
  <2>2. SafeIn(C', files') = BlocksOf(C')
    BY <1>0, SafeBlocks
  <2> QED BY <2>1, <2>2 DEF Safe
<1>2. CASE SaveCheckpoint
  <2> DEFINE s == flush.shard
             new == {bn \in Blocks : ShardIndex(bn) = s}
  <2>1. phase = "run" /\ phase' = "run"
    BY <1>2, DoneStays
  <2>2. C' = C \cup {s}
    BY <1>2 DEF SaveCheckpoint
  <2>3. s \in Shards /\ s \notin C
    BY <1>2 DEF SaveCheckpoint, FlushStep, IInv, FlushInv
  <2> HIDE DEF s
  <2>4. new \in SUBSET (Blocks \ Safe) /\ Safe' = Safe \cup new
    BY <1>1, <2>2, <2>3 DEF BlocksOf
  <2>5. new # {}
    BY <2>3, ShardHasBlock
  <2>6. Reported' = HighestContiguous(C')
    BY <2>2 DEF Reports, Reported
  <2>7. Reported' = Abstract!Prefix(Safe')
    BY <1>0, <1>1, <2>6, PrefixIsHighest
  <2> HIDE DEF new, C
  <2>8. Abstract!Store
    BY <2>1, <2>4, <2>5, <2>7 DEF Abstract!Store, Abstract!Blocks, Blocks, Safe, SafeIn, Reported
  <2> QED BY <2>8 DEF Abstract!Next
<1>3. CASE ~SaveCheckpoint
  <2>1. C' = C /\ Reported' = Reported /\ Safe' = Safe
    BY <1>1, <1>3, CheckpointStays DEF Reported
  <2>2. CASE phase' = "done" /\ phase # "done"
    <3>1. PendingBlocks' = {}
      BY <2>2, DoneStays
    <3>2. Safe = Blocks
      BY <1>1, <2>1, <3>1 DEF PendingBlocks, BlocksOf
    <3>3. Abstract!Finish
      BY <2>1, <2>2, <3>2 DEF Abstract!Finish, Abstract!Blocks, Blocks, Safe, SafeIn, Reported
    <3> QED BY <3>3 DEF Abstract!Next
  <2>3. CASE ~(phase' = "done" /\ phase # "done")
    <3>1. (phase = "done")' = (phase = "done")
      BY <2>3, DoneStays
    <3>2. UNCHANGED Abstract!vars
      BY <2>1, <3>1 DEF Abstract!vars, Abstract!Blocks, Blocks, Safe, SafeIn, Reported
    <3> QED BY <3>2
  <2> QED BY <2>2, <2>3
<1> QED BY <1>2, <1>3

(* The scraper keeps the promises of a Scrape, but for the one that it     *)
(* ends: blocks become safe for good, together with the number reported,   *)
(* which is at every moment the last one up to which all are safe, and it  *)
(* is done only when all are (writer.py 95-111, pipeline.py 85-146).       *)
THEOREM ScrapeImplemented == Spec => Abstract!Init /\ [][Abstract!Next]_(Abstract!vars)
<1>1. Init => Abstract!Init
  BY DEF Init, Abstract!Init, Abstract!Blocks
<1>2. Init => Reports
  BY DEF Init, Reports
<1>3. Reports /\ [Next]_vars => Reports'
  <2> SUFFICES ASSUME Reports, [Next]_vars PROVE Reports'
    OBVIOUS
  <2>1. CASE SaveCheckpoint
    BY <2>1 DEF SaveCheckpoint, Reports
  <2>2. CASE ~SaveCheckpoint
    BY <2>2, CheckpointStays DEF Reports
  <2> QED BY <2>1, <2>2
<1>4. IInv /\ IInv' /\ Reports' /\ [Next]_vars => [Abstract!Next]_(Abstract!vars)
  BY ScrapeStep
<1> QED BY <1>1, <1>2, <1>3, <1>4, ScraperInvariant, PTL DEF Spec
=============================================================================
