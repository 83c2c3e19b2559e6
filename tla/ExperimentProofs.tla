--------------------------- MODULE ExperimentProofs ---------------------------
(***************************************************************************)
(* What the two verifiers say of a data directory, for every range, shard  *)
(* size, set of stored shards, content and damage; and what the analytics  *)
(* then measure of it for the simulator, for all windows and capacities.   *)
(***************************************************************************)
EXTENDS Experiment, CollectionProofs

-----------------------------------------------------------------------------
(* Ranges one above the other, from F[j] to T[j], and L[j], how many       *)
(* numbers the first j of them have.                                       *)
Spans(F, T, L, n) ==
  /\ n \in Nat
  /\ \A j \in 1..n : F[j] \in Int /\ T[j] \in Int /\ F[j] <= T[j]
  /\ \A i, j \in 1..n : i < j => T[i] < F[j]
  /\ L[0] = 0
  /\ \A j \in 1..n : L[j] = L[j - 1] + (T[j] - F[j] + 1)

(* They are the range from s to e, end to end. *)
EndToEnd(F, T, n, s, e) ==
  /\ n # 0
  /\ \A j \in 1..n : F[j] = IF j = 1 THEN s ELSE T[j - 1] + 1
  /\ T[n] = e

(* They are in the range from s to e. *)
Within(F, T, n, s, e) == \A j \in 1..n : s <= F[j] /\ T[j] <= e

(* Each begins where those before it have brought it from s. *)
Placed(F, L, n, s) == \A j \in 1..n : L[j - 1] = F[j] - s

(* From the beginning of range j to the end of range k there is room for   *)
(* the numbers of those between.                                           *)
LEMMA SpansFit ==
  ASSUME NEW F, NEW T, NEW L, NEW n, Spans(F, T, L, n), NEW j \in 1..n, NEW k \in j..n
  PROVE  L[j - 1] \in Int /\ L[k] \in Int /\ L[k] - L[j - 1] <= T[k] - F[j] + 1
<1>0. /\ n \in Nat /\ L[0] = 0
      /\ \A i \in 1..n : F[i] \in Int /\ T[i] \in Int /\ F[i] <= T[i]
      /\ \A i \in 1..n : L[i] = L[i - 1] + (T[i] - F[i] + 1)
  BY DEF Spans
<1>1. \A i \in 0..n : L[i] \in Int
  <2> DEFINE G == {i \in Nat : i <= n => L[i] \in Int}
  <2>1. 0 \in G
    BY <1>0
  <2>2. ASSUME NEW i \in G PROVE i + 1 \in G
    <3> SUFFICES ASSUME i + 1 <= n PROVE L[i + 1] \in Int
      OBVIOUS
    <3>1. i + 1 \in 1..n /\ (i + 1) - 1 = i /\ i <= n
      BY <1>0
    <3>2. L[i + 1] = L[i] + (T[i + 1] - F[i + 1] + 1) /\ L[i] \in Int
      BY <1>0, <3>1
    <3>3. F[i + 1] \in Int /\ T[i + 1] \in Int
      BY <1>0, <3>1
    <3> QED BY <3>2, <3>3
  <2> HIDE DEF G
  <2>3. G \in SUBSET Nat
    BY DEF G
  <2>4. G = Nat
    BY <2>1, <2>2, <2>3, NumberInduction
  <2>5. ASSUME NEW i \in 0..n PROVE L[i] \in Int
    <3>1. i \in G /\ i <= n
      BY <1>0, <2>4
    <3> QED BY <3>1 DEF G
  <2> QED BY <2>5
<1>2. L[j - 1] \in Int /\ L[k] \in Int
  <2>1. j - 1 \in 0..n /\ k \in 0..n
    BY <1>0
  <2> QED BY <1>1, <2>1
<1> DEFINE Fits(i) == L[i] - L[j - 1] <= T[i] - F[j] + 1
           G == {d \in Nat : j + d <= n => Fits(j + d)}
<1>3. 0 \in G
  <2>1. L[j] = L[j - 1] + (T[j] - F[j] + 1) /\ F[j] \in Int /\ T[j] \in Int
    BY <1>0
  <2>2. Fits(j)
    BY <1>2, <2>1
  <2>3. j + 0 = j
    OBVIOUS
  <2> HIDE DEF Fits
  <2> QED BY <2>2, <2>3
<1>4. ASSUME NEW d \in G PROVE d + 1 \in G
  <2> SUFFICES ASSUME j + (d + 1) <= n PROVE Fits(j + (d + 1))
    BY DEF G
  <2> DEFINE i == j + d
  <2>0. /\ i \in 1..n /\ i + 1 \in 1..n /\ (i + 1) - 1 = i /\ i < i + 1
        /\ j + (d + 1) = i + 1 /\ i <= n
    BY <1>0
  <2>1. Fits(i)
    <3> HIDE DEF Fits
    <3> QED BY <2>0
  <2> HIDE DEF i
  <2>2. L[i + 1] = L[i] + (T[i + 1] - F[i + 1] + 1)
    BY <1>0, <2>0
  <2>3. T[i] < F[i + 1]
    BY <2>0 DEF Spans
  <2>4. /\ F[i + 1] \in Int /\ T[i + 1] \in Int /\ T[i] \in Int /\ F[j] \in Int
    BY <1>0, <2>0
  <2>5. L[i] \in Int
    <3>1. i \in 0..n
      BY <1>0, <2>0
    <3> QED BY <1>1, <3>1
  <2>6. Fits(i + 1)
    BY <1>2, <2>1, <2>2, <2>3, <2>4, <2>5
  <2> HIDE DEF Fits
  <2> QED BY <2>0, <2>6
<1>5. Fits(k)
  <2> HIDE DEF G
  <2>1. G \in SUBSET Nat
    BY DEF G
  <2>2. G = Nat
    BY <1>3, <1>4, <2>1, NumberInduction
  <2>3. k - j \in Nat /\ j + (k - j) = k /\ k <= n
    BY <1>0
  <2>4. k - j \in G
    BY <2>2, <2>3
  <2> HIDE DEF Fits
  <2>5. j + (k - j) <= n => Fits(j + (k - j))
    BY <2>4 DEF G
  <2> QED BY <2>3, <2>5
<1> QED BY <1>2, <1>5

(* If they have all the numbers of a range that they are in, each begins   *)
(* where those before it have brought it.                                  *)
LEMMA SpansCover ==
  ASSUME NEW F, NEW T, NEW L, NEW n, Spans(F, T, L, n), n # 0, NEW s \in Int, NEW e \in Int,
         Within(F, T, n, s, e), L[n] = e - s + 1
  PROVE  EndToEnd(F, T, n, s, e) /\ Placed(F, L, n, s)
<1>0. /\ n \in Nat \ {0} /\ L[0] = 0 /\ 1 \in 1..n /\ n \in 1..n
      /\ \A i \in 1..n : F[i] \in Int /\ T[i] \in Int /\ F[i] <= T[i]
      /\ \A i \in 1..n : L[i] = L[i - 1] + (T[i] - F[i] + 1)
      /\ \A i, j \in 1..n : i < j => T[i] < F[j]
      /\ \A i \in 1..n : s <= F[i] /\ T[i] <= e
  BY DEF Spans, Within
<1>1. ASSUME NEW j \in 1..n PROVE L[j - 1] = F[j] - s
  <2>1. /\ L[j - 1] \in Int /\ L[n] \in Int
        /\ L[n] - L[j - 1] <= T[n] - F[j] + 1
    <3>1. n \in j..n
      BY <1>0
    <3> QED BY <3>1, SpansFit
  <2>2. L[j - 1] <= F[j] - s
    <3>1. CASE j = 1
      <4>1. L[j - 1] = 0 /\ s <= F[j] /\ F[j] \in Int
        BY <1>0, <3>1
      <4> QED BY <4>1
    <3>2. CASE j # 1
      <4>0. j - 1 \in 1..n /\ j - 1 \in 1..j - 1 /\ 1 <= j - 1 /\ j - 1 < j /\ j - 1 \in 1..n
            /\ 1 - 1 = 0
        BY <1>0, <3>2
      <4>1. L[j - 1] - L[1 - 1] <= T[j - 1] - F[1] + 1
        BY <1>0, <4>0, SpansFit
      <4>2. T[j - 1] < F[j] /\ T[j - 1] \in Int /\ F[1] \in Int /\ F[j] \in Int /\ s <= F[1]
        BY <1>0, <4>0
      <4>3. L[1 - 1] = 0
        BY <1>0
      <4> QED BY <2>1, <4>1, <4>2, <4>3
    <3> QED BY <3>1, <3>2
  <2>3. T[n] \in Int /\ F[j] \in Int /\ T[n] <= e
    BY <1>0
  <2> QED BY <2>1, <2>2, <2>3
<1>2. ASSUME NEW j \in 1..n PROVE F[j] = IF j = 1 THEN s ELSE T[j - 1] + 1
  <2>0. F[j] \in Int /\ L[j - 1] = F[j] - s
    BY <1>0, <1>1
  <2>1. CASE j = 1
    <3>1. L[j - 1] = 0
      BY <1>0, <2>1
    <3> QED BY <2>0, <2>1, <3>1
  <2>2. CASE j # 1
    <3> DEFINE i == j - 1
    <3>1. i \in 1..n
      BY <1>0, <2>2
    <3> HIDE DEF i
    <3>2. L[i] = L[i - 1] + (T[i] - F[i] + 1) /\ L[i - 1] = F[i] - s
      BY <1>0, <1>1, <3>1
    <3>3. F[i] \in Int /\ T[i] \in Int
      BY <1>0, <3>1
    <3>4. L[i] = F[j] - s
      BY <2>0 DEF i
    <3>5. F[j] = T[i] + 1
      BY <2>0, <3>2, <3>3, <3>4
    <3> QED BY <2>2, <3>5 DEF i
  <2> QED BY <2>1, <2>2
<1>3. T[n] = e
  <2>1. L[n] = L[n - 1] + (T[n] - F[n] + 1) /\ L[n - 1] = F[n] - s
    BY <1>0, <1>1
  <2>2. F[n] \in Int /\ T[n] \in Int
    BY <1>0
  <2> QED BY <2>1, <2>2
<1> QED BY <1>1, <1>2, <1>3 DEF EndToEnd, Placed

(* Ranges that are end to end have all the numbers. *)
LEMMA EndToEndSpans ==
  ASSUME NEW F, NEW T, NEW L, NEW n, Spans(F, T, L, n), NEW s \in Int, NEW e,
         EndToEnd(F, T, n, s, e)
  PROVE  e \in Int /\ s <= e /\ L[n] = e - s + 1 /\ Placed(F, L, n, s)
<1>0. /\ n \in Nat \ {0} /\ L[0] = 0 /\ 1 \in 1..n /\ n \in 1..n
      /\ \A i \in 1..n : F[i] \in Int /\ T[i] \in Int /\ F[i] <= T[i]
      /\ \A i \in 1..n : L[i] = L[i - 1] + (T[i] - F[i] + 1)
      /\ \A j \in 1..n : F[j] = IF j = 1 THEN s ELSE T[j - 1] + 1
      /\ T[n] = e
  BY DEF Spans, EndToEnd
<1> DEFINE G == {i \in Nat : i + 1 <= n => L[i] = F[i + 1] - s}
<1>1. 0 \in G
  <2>1. F[0 + 1] = s
    BY <1>0
  <2> QED BY <1>0, <2>1
<1>2. ASSUME NEW i \in G PROVE i + 1 \in G
  <2> DEFINE j == i + 1
  <2> SUFFICES ASSUME j + 1 <= n PROVE L[j] = F[j + 1] - s
    BY DEF G
  <2>0. i \in Nat /\ j \in 1..n /\ j + 1 \in 1..n /\ j + 1 # 1 /\ (j + 1) - 1 = j /\ j - 1 = i
        /\ i + 1 <= n
    BY <1>0
  <2>1. L[i] = F[j] - s
    BY <2>0
  <2> HIDE DEF j
  <2>2. L[j] = L[i] + (T[j] - F[j] + 1) /\ F[j + 1] = T[j] + 1
    BY <1>0, <2>0
  <2>3. F[j] \in Int /\ T[j] \in Int /\ F[j + 1] \in Int
    BY <1>0, <2>0
  <2> QED BY <2>1, <2>2, <2>3
<1>3. ASSUME NEW j \in 1..n PROVE L[j - 1] = F[j] - s
  <2> HIDE DEF G
  <2>1. G \in SUBSET Nat
    BY DEF G
  <2>2. G = Nat
    BY <1>1, <1>2, <2>1, NumberInduction
  <2>3. j - 1 \in Nat /\ (j - 1) + 1 = j /\ j <= n
    BY <1>0
  <2>4. j - 1 \in G
    BY <2>2, <2>3
  <2>5. (j - 1) + 1 <= n => L[j - 1] = F[(j - 1) + 1] - s
    BY <2>4 DEF G
  <2> QED BY <2>3, <2>5
<1>4. L[n] = e - s + 1 /\ e \in Int
  <2>1. L[n] = L[n - 1] + (T[n] - F[n] + 1) /\ L[n - 1] = F[n] - s
    BY <1>0, <1>3
  <2>2. F[n] \in Int /\ T[n] \in Int /\ T[n] = e
    BY <1>0
  <2> QED BY <2>1, <2>2
<1>5. s <= e
  <2>1. L[1 - 1] - 0 = 0 /\ F[1] = s
    BY <1>0
  <2>2. /\ L[n] - L[n - 1] = T[n] - F[n] + 1 /\ F[n] <= T[n] /\ F[n] \in Int /\ T[n] \in Int
        /\ L[n - 1] = F[n] - s
    <3>1. F[n] \in Int /\ T[n] \in Int /\ F[n] <= T[n] /\ L[n - 1] = F[n] - s
      BY <1>0, <1>3
    <3>2. L[n] = L[n - 1] + (T[n] - F[n] + 1)
      BY <1>0
    <3> QED BY <3>1, <3>2
  <2>3. s <= F[n]
    <3>1. CASE n = 1
      BY <2>1, <3>1, <2>2
    <3>2. CASE n # 1
      <4>1. 0 <= L[n - 1]
        <5> DEFINE H == {i \in Nat : i <= n => L[i] \in Int /\ 0 <= L[i]}
        <5>1. 0 \in H
          BY <1>0
        <5>2. ASSUME NEW i \in H PROVE i + 1 \in H
          <6> SUFFICES ASSUME i + 1 <= n PROVE L[i + 1] \in Int /\ 0 <= L[i + 1]
            OBVIOUS
          <6>1. i + 1 \in 1..n /\ (i + 1) - 1 = i /\ L[i] \in Int /\ 0 <= L[i]
            BY <1>0
          <6>2. L[i + 1] = L[i] + (T[i + 1] - F[i + 1] + 1)
            BY <1>0, <6>1
          <6>3. F[i + 1] \in Int /\ T[i + 1] \in Int /\ F[i + 1] <= T[i + 1]
            BY <1>0, <6>1
          <6> QED BY <6>1, <6>2, <6>3
        <5> HIDE DEF H
        <5>3. H \in SUBSET Nat
          BY DEF H
        <5>4. H = Nat
          BY <5>1, <5>2, <5>3, NumberInduction
        <5>5. n - 1 \in H /\ n - 1 <= n
          BY <1>0, <5>4
        <5> QED BY <5>5 DEF H
      <4> QED BY <2>2, <4>1
    <3> QED BY <3>1, <3>2
  <2> QED BY <1>4, <2>2, <2>3, <1>0
<1> QED BY <1>3, <1>4, <1>5 DEF Placed

(* Numbers that go up by one. *)
LEMMA Counting ==
  ASSUME NEW q, NEW n \in Nat, \A i \in 1..n : q[i] \in Int,
         \A i \in 1..n - 1 : q[i + 1] = q[i] + 1
  PROVE  \A i \in 1..n : q[i] = q[1] + i - 1
<1> DEFINE G == {d \in Nat : d + 1 <= n => q[d + 1] = q[1] + d}
<1>1. 0 \in G
  <2>1. 0 + 1 = 1 /\ (1 <= n => q[1] \in Int)
    OBVIOUS
  <2>2. 1 <= n => q[1] = q[1] + 0
    BY <2>1
  <2> QED BY <2>1, <2>2
<1>2. ASSUME NEW d \in G PROVE d + 1 \in G
  <2> SUFFICES ASSUME (d + 1) + 1 <= n PROVE q[(d + 1) + 1] = q[1] + (d + 1)
    BY DEF G
  <2>1. d \in Nat /\ d + 1 <= n /\ d + 1 \in 1..n - 1 /\ 1 \in 1..n
    OBVIOUS
  <2>2. q[d + 1] = q[1] + d /\ q[1] \in Int
    BY <2>1
  <2>3. q[(d + 1) + 1] = q[d + 1] + 1
    BY <2>1
  <2> QED BY <2>1, <2>2, <2>3
<1>3. G = Nat
  <2> HIDE DEF G
  <2>1. G \in SUBSET Nat
    BY DEF G
  <2> QED BY <1>1, <1>2, <2>1, NumberInduction
<1>4. ASSUME NEW i \in 1..n PROVE q[i] = q[1] + i - 1
  <2> HIDE DEF G
  <2>1. i - 1 \in G /\ (i - 1) + 1 = i /\ i <= n
    BY <1>3
  <2>2. (i - 1) + 1 <= n => q[(i - 1) + 1] = q[1] + (i - 1)
    BY <2>1 DEF G
  <2>3. q[i] = q[1] + (i - 1) /\ q[1] \in Int
    <3>1. 1 \in 1..n
      OBVIOUS
    <3> QED BY <2>1, <2>2, <3>1
  <2> QED BY <2>3
<1> QED BY <1>4

(* The numbers from a to b. *)
LEMMA RangeLists ==
  ASSUME NEW a \in Int, NEW b \in Int, a <= b
  PROVE  /\ Ranked(a..b) \in Seq(Int) /\ Len(Ranked(a..b)) = b - a + 1
         /\ \A k \in 1..b - a + 1 : Ranked(a..b)[k] = a + k - 1
<1> DEFINE q == Ranked(a..b)
<1>1. a..b \in SUBSET Int /\ IsFiniteSet(a..b) /\ Cardinality(a..b) = b - a + 1
  BY FS_Interval
<1>2. Enumerates(q, a..b) /\ Len(q) = b - a + 1
  BY <1>1, RankedLists
<1> HIDE DEF q
<1>3. q \in Seq(Int)
  <2>1. q \in Seq(a..b)
    BY <1>2 DEF Enumerates
  <2> QED BY <2>1
<1>4. q[1] = a /\ \A i \in 1..Len(q) - 1 : q[i + 1] = q[i] + 1
  BY <1>2, AscendingInterval
<1>5. \A i \in 1..Len(q) : q[i] \in Int
  BY <1>3, ElementOfSeq
<1>6. \A i \in 1..Len(q) : q[i] = q[1] + i - 1
  <2>1. Len(q) \in Nat
    BY <1>3
  <2> QED BY <1>4, <1>5, <2>1, Counting
<1> QED BY <1>2, <1>3, <1>4, <1>6 DEF q

(* Its ends. *)
LEMMA RangeEnds ==
  ASSUME NEW a \in Int, NEW b \in Int, a <= b
  PROVE  Min(a..b) = a /\ Max(a..b) = b /\ Cardinality(a..b) = b - a + 1
<1>1. Min(a..b) = a
  <2>1. a \in a..b /\ \A y \in a..b : a =< y
    OBVIOUS
  <2>2. \A x \in a..b : (\A y \in a..b : x =< y) => x = a
    OBVIOUS
  <2> QED BY <2>1, <2>2 DEF Min
<1>2. Max(a..b) = b
  <2>1. b \in a..b /\ \A y \in a..b : b >= y
    OBVIOUS
  <2>2. \A x \in a..b : (\A y \in a..b : x >= y) => x = b
    OBVIOUS
  <2> QED BY <2>1, <2>2 DEF Max
<1> QED BY <1>1, <1>2, FS_Interval

(* A list whose elements have the numbers from s on. *)
Runs(f, num, s) == \A x \in 1..Len(f) : num[f[x]] = s + x - 1

(* Two of them, the second where the first ends, join to one. *)
LEMMA RunsJoin ==
  ASSUME NEW X, NEW f \in Seq(X), NEW g \in Seq(X), NEW num, NEW s \in Int,
         Runs(f, num, s), Runs(g, num, s + Len(f))
  PROVE  Runs(f \o g, num, s)
<1>1. /\ Len(f) \in Nat /\ Len(g) \in Nat /\ Len(f \o g) = Len(f) + Len(g)
      /\ \A x \in 1..Len(f) + Len(g) :
           (f \o g)[x] = IF x <= Len(f) THEN f[x] ELSE g[x - Len(f)]
  OBVIOUS
<1> SUFFICES ASSUME NEW x \in 1..Len(f) + Len(g) PROVE num[(f \o g)[x]] = s + x - 1
  BY <1>1 DEF Runs
<1>2. CASE x <= Len(f)
  <2>1. x \in 1..Len(f) /\ (f \o g)[x] = f[x]
    BY <1>1, <1>2
  <2> QED BY <2>1 DEF Runs
<1>3. CASE ~(x <= Len(f))
  <2> DEFINE k == x - Len(f)
  <2>1. k \in 1..Len(g) /\ (f \o g)[x] = g[k]
    BY <1>1, <1>3
  <2>2. num[g[k]] = (s + Len(f)) + k - 1
    BY <2>1 DEF Runs
  <2>3. (s + Len(f)) + k - 1 = s + x - 1
    BY <1>1
  <2> QED BY <2>1, <2>2, <2>3
<1> QED BY <1>2, <1>3

(* How many elements the first j lists have. *)
Lengths(ls, n) == [j \in 0..n |-> Len(Flat(ls, j))]

(* They add up. *)
LEMMA LengthsAre ==
  ASSUME NEW X, NEW ls, NEW n \in Nat, \A j \in 1..n : ls[j] \in Seq(X)
  PROVE  /\ \A j \in 0..n : Flat(ls, j) \in Seq(X) /\ Lengths(ls, n)[j] = Len(Flat(ls, j))
         /\ Lengths(ls, n)[0] = 0
         /\ \A j \in 1..n : Lengths(ls, n)[j] = Lengths(ls, n)[j - 1] + Len(ls[j])
<1>1. ASSUME NEW j \in 0..n PROVE Flat(ls, j) \in Seq(X)
  <2>1. j \in Nat /\ \A i \in 1..j : ls[i] \in Seq(X)
    OBVIOUS
  <2> QED BY <2>1, FlatTyped
<1>2. \A j \in 0..n : Lengths(ls, n)[j] = Len(Flat(ls, j))
  BY DEF Lengths
<1>3. Lengths(ls, n)[0] = 0
  <2>1. Flat(ls, 0) = <<>>
    BY FlatTyped
  <2> QED BY <1>2, <2>1
<1>4. ASSUME NEW j \in 1..n
      PROVE  Lengths(ls, n)[j] = Lengths(ls, n)[j - 1] + Len(ls[j])
  <2> DEFINE i == j - 1
  <2>1. i \in Nat /\ i \in 0..n /\ j \in 0..n /\ j = i + 1 /\ ls[i + 1] \in Seq(X)
    OBVIOUS
  <2> HIDE DEF i
  <2>2. Flat(ls, j) = Flat(ls, i) \o ls[j]
    BY <2>1, FlatGrows
  <2>3. Len(Flat(ls, j)) = Len(Flat(ls, i)) + Len(ls[j])
    BY <1>1, <2>1, <2>2
  <2> QED BY <1>2, <2>1, <2>3 DEF i
<1> QED BY <1>1, <1>2, <1>3, <1>4

(* A list for each range, with the numbers of the range. *)
Numbering(ls, X, num, F, T, n) ==
  \A j \in 1..n : /\ ls[j] \in Seq(X)
                  /\ Len(ls[j]) = T[j] - F[j] + 1
                  /\ Runs(ls[j], num, F[j])

(* Where the ranges are end to end, the lists join to one that runs on. *)
LEMMA ListsRun ==
  ASSUME NEW X, NEW num, NEW ls, NEW F, NEW T, NEW n, Spans(F, T, Lengths(ls, n), n),
         Numbering(ls, X, num, F, T, n), NEW s \in Int, NEW e, EndToEnd(F, T, n, s, e)
  PROVE  Runs(Flat(ls, n), num, s)
<1>0. n \in Nat /\ \A j \in 1..n : ls[j] \in Seq(X) /\ Runs(ls[j], num, F[j]) /\ F[j] \in Int
  BY DEF Spans, Numbering
<1>1. \A j \in 1..n : Lengths(ls, n)[j - 1] = F[j] - s
  BY EndToEndSpans DEF Placed
<1>2. \A j \in 0..n : Flat(ls, j) \in Seq(X) /\ Lengths(ls, n)[j] = Len(Flat(ls, j))
  BY <1>0, LengthsAre
<1> DEFINE G == {i \in Nat : i <= n => Runs(Flat(ls, i), num, s)}
<1>3. 0 \in G
  <2>1. Flat(ls, 0) = <<>>
    BY <1>0, FlatTyped
  <2>2. Runs(<<>>, num, s)
    BY DEF Runs
  <2> QED BY <2>1, <2>2
<1>4. ASSUME NEW i \in G PROVE i + 1 \in G
  <2> SUFFICES ASSUME i + 1 <= n PROVE Runs(Flat(ls, i + 1), num, s)
    OBVIOUS
  <2>1. /\ i \in Nat /\ i \in 0..n /\ i + 1 \in 1..n /\ (i + 1) - 1 = i
        /\ Runs(Flat(ls, i), num, s)
    BY <1>0
  <2> HIDE DEF G
  <2>2. ls[i + 1] \in Seq(X) /\ Runs(ls[i + 1], num, F[i + 1]) /\ F[i + 1] \in Int
    BY <1>0, <2>1
  <2>3. Flat(ls, i) \in Seq(X) /\ Len(Flat(ls, i)) = F[i + 1] - s /\ Len(Flat(ls, i)) \in Nat
    BY <1>1, <1>2, <2>1
  <2>4. F[i + 1] = s + Len(Flat(ls, i))
    BY <2>2, <2>3
  <2>5. Flat(ls, i + 1) = Flat(ls, i) \o ls[i + 1]
    BY <2>1, <2>2, FlatGrows
  <2>6. Runs(ls[i + 1], num, s + Len(Flat(ls, i)))
    BY <2>2, <2>4
  <2> QED BY <2>1, <2>2, <2>3, <2>5, <2>6, RunsJoin
<1>5. G = Nat
  <2> HIDE DEF G
  <2>1. G \in SUBSET Nat
    BY DEF G
  <2> QED BY <1>3, <1>4, <2>1, NumberInduction
<1> QED BY <1>0, <1>5

-----------------------------------------------------------------------------
(* What stays true of the files and of verify-load.                        *)

(* The records of blocks a to b, one by one, and nothing that is refused. *)
Holds(c, a, b) ==
  /\ c.decodes
  /\ Len(c.records) = b - a + 1
  /\ \A k \in 1..b - a + 1 :
       /\ c.records[k].number = a + k - 1
       /\ \A x \in c.records[k].reads \cup c.records[k].writes : Converts(x)

(* A manifest lists a shard as it was stored. *)
Faithful(entry) ==
  /\ entry \in [file : D!Shards, first : Int, last : Int, count : Int, sha : {entry.sha}]
  /\ entry.first <= entry.last
  /\ range[1] <= entry.first /\ entry.last <= range[2]
  /\ 0 <= entry.first /\ entry.last <= Latest
  /\ entry.count = entry.last - entry.first + 1
  /\ \E c \in entry.sha : entry.sha = {c} /\ Holds(c, entry.first, entry.last)

RangeInv ==
  /\ range[1] \in Int /\ range[2] \in Int /\ range[2] < 2 ^ Width - 1
  /\ manifest.start = range[1] /\ manifest.end = range[2]

ManifestInv ==
  LET m == manifest.shards
  IN /\ Len(m) \in Nat /\ DOMAIN m = 1..Len(m)
     /\ \A i \in 1..Len(m) : Faithful(m[i])
     /\ \A i, j \in 1..Len(m) : i < j => m[i].last < m[j].first

(* A key on the wire names one of the state, whatever the lengths.         *)
Names(x) == x.addr.id \in Addresses /\ (x.slot # NoSlot => x.slot.id \in Nat)

(* A record has a number, finitely many such reads, and such writes. *)
Sound(r) ==
  /\ r.number \in Int /\ IsFiniteSet(r.reads)
  /\ \A x \in r.reads : Names(x)
  /\ \A x \in r.writes : Names(x)

(* Whatever has become of it, a file has records with numbers. *)
Numbered(c) ==
  /\ Len(c.records) \in Nat /\ DOMAIN c.records = 1..Len(c.records)
  /\ \A k \in 1..Len(c.records) : Sound(c.records[k])

DiskInv ==
  /\ DOMAIN disk = D!Shards
  /\ \A i \in D!Shards : \A c \in disk[i] :
       disk[i] = {c} /\ Numbered(c) /\ (stage = "stored" => Len(c.records) # 0)

(* What verify-load makes of a directory, at once: the shards that load,   *)
(* and the stream of them.                                                 *)
Loading(entry) == {rs \in Read(entry) : Len(rs) = entry.count}
Loads(n) == \A i \in 1..n : Loading(manifest.shards[i]) # {}

Lists == [i \in DOMAIN manifest.shards |-> CHOOSE rs \in SweepReads[i] : TRUE]
Stream(n) == Flat(Lists, n)
Whole == Stream(Len(manifest.shards))

Gapless(s) == \A i \in 1..Len(s) - 1 : s[i + 1].number = s[i].number + 1

Opens == ManifestLoads /\ AssertSchemaV1 /\ (debug => SpanFits)
Accepts ==
  /\ Opens
  /\ Loads(Len(manifest.shards))
  /\ Len(Whole) = BlockSpan /\ Gapless(Whole)

(* Any record that it may read. *)
Records == UNION {UNION {Range(rs) : rs \in SweepReads[i]} : i \in DOMAIN SweepReads}

(* How far it has come: `yielded` and `buffer` are what the shards so far  *)
(* have, and no gap is counted exactly where there is none.                *)
Streaming ==
  /\ next_shard \in 1..Len(manifest.shards) + 1
  /\ Loads(next_shard - 1)
  /\ yielded \in Seq(Records) /\ buffer \in Seq(Records)
  /\ yielded \o buffer = Stream(next_shard - 1)
  /\ prev = IF yielded = <<>> THEN {} ELSE {yielded[Len(yielded)].number}
  /\ gaps \in Nat /\ (gaps = 0 <=> Gapless(yielded))

LoaderInv ==
  /\ stage = "stored" => verdict = "open"
  /\ verdict \in {"open", "streaming", "ok", "failed"}
  /\ verdict = "open" => LoaderInit
  /\ verdict = "streaming" => Streaming /\ Opens
  /\ verdict = "ok" => Accepts /\ yielded = Whole
  /\ verdict = "failed" => ~Accepts /\ yielded \in Seq(Records)

IInv == RangeInv /\ ManifestInv /\ DiskInv /\ LoaderInv

-----------------------------------------------------------------------------
(* The shards of a run over the range.                                     *)

(* A shard begins and ends in the range. *)
ShardFits(i) ==
  /\ D!FirstBlock(i) \in Int /\ D!LastBlock(i) \in Int
  /\ range[1] <= D!FirstBlock(i) /\ D!FirstBlock(i) <= D!LastBlock(i)
  /\ D!LastBlock(i) <= range[2]

(* Shards are numbered from 0, and there are no more than the range needs. *)
LEMMA ShardsAreNumbers ==
  ASSUME range[1] \in Int, range[2] \in Int
  PROVE  /\ D!NShards \in Int /\ D!NShards * ShardSize <= range[2] - range[1] + ShardSize
         /\ D!Shards \in SUBSET Int /\ IsFiniteSet(D!Shards)
         /\ \A i \in D!Shards : 0 <= i /\ i <= D!NShards - 1
<1> DEFINE x == range[2] - range[1] + ShardSize
           n == D!NShards
<1>1. x \in Int /\ ShardSize \in Nat \ {0} /\ n = x \div ShardSize
  BY ExperimentAssumption DEF D!NShards
<1>2. n \in Int
  BY <1>1
<1>3. n * ShardSize <= x
  BY <1>1, <1>2, Quotient
<1>4. D!Shards = 0..n - 1
  BY DEF D!Shards
<1> HIDE DEF n
<1>5. 0..n - 1 \in SUBSET Int /\ IsFiniteSet(0..n - 1)
  BY <1>2, FS_Interval
<1> QED BY <1>2, <1>3, <1>4, <1>5 DEF n

(* Each of them does, the short last one too. *)
LEMMA ShardsFit ==
  ASSUME range[1] \in Int, range[2] \in Int, NEW i \in D!Shards
  PROVE  ShardFits(i)
<1>1. /\ i \in Int /\ 0 <= i /\ i <= D!NShards - 1 /\ D!NShards \in Int
      /\ D!NShards * ShardSize <= range[2] - range[1] + ShardSize
      /\ ShardSize \in Nat \ {0}
  BY ShardsAreNumbers, ExperimentAssumption
<1>2. /\ i * ShardSize \in Int /\ D!NShards * ShardSize \in Int
      /\ i * ShardSize + ShardSize <= D!NShards * ShardSize
  BY <1>1, Multiples
<1>3. 0 <= i * ShardSize
  BY <1>1
<1>4. D!FirstBlock(i) = range[1] + i * ShardSize
  BY DEF D!FirstBlock
<1>5. D!LastBlock(i) = IF D!FirstBlock(i) + ShardSize - 1 > range[2] THEN range[2]
                       ELSE D!FirstBlock(i) + ShardSize - 1
  BY DEF D!LastBlock
<1> DEFINE a == i * ShardSize
           m == D!NShards * ShardSize
           f == D!FirstBlock(i)
           l == D!LastBlock(i)
<1>6. /\ a \in Int /\ m \in Int /\ a + ShardSize <= m /\ 0 <= a
      /\ m <= range[2] - range[1] + ShardSize /\ f = range[1] + a
      /\ l = IF f + ShardSize - 1 > range[2] THEN range[2] ELSE f + ShardSize - 1
  BY <1>1, <1>2, <1>3, <1>4, <1>5
<1> HIDE DEF a, m, f, l
<1>7. f \in Int /\ l \in Int /\ range[1] <= f /\ f <= l /\ l <= range[2]
  BY <1>1, <1>6
<1> QED BY <1>7 DEF ShardFits, f, l

(* A shard ends before a later one begins. *)
LEMMA ShardsApart ==
  ASSUME range[1] \in Int, range[2] \in Int, NEW i \in D!Shards, NEW j \in D!Shards, i < j
  PROVE  D!LastBlock(i) < D!FirstBlock(j)
<1>1. i \in Int /\ j \in Int /\ ShardSize \in Nat \ {0}
  BY ShardsAreNumbers, ExperimentAssumption
<1>2. /\ i * ShardSize \in Int /\ j * ShardSize \in Int
      /\ i * ShardSize + ShardSize <= j * ShardSize
  BY <1>1, Multiples
<1>3. D!LastBlock(i) <= D!FirstBlock(i) + ShardSize - 1
  BY <1>1, <1>2 DEF D!LastBlock, D!FirstBlock
<1>4. D!LastBlock(i) \in Int
  BY ShardsFit DEF ShardFits
<1> QED BY <1>1, <1>2, <1>3, <1>4 DEF D!FirstBlock

(* Dataset's use of the library is this module's. *)
LEMMA SameLibrary ==
  /\ \A S : D!Cardinality(S) = Cardinality(S) /\ D!Min(S) = Min(S) /\ D!Max(S) = Max(S)
  /\ \A S : D!InOrder(S) = Ranked(S)
  /\ \A ls : D!FlattenSeq(ls) = FlattenSeq(ls)
<1>1. \A S : D!Cardinality(S) = Cardinality(S)
  BY DEF D!Cardinality, Cardinality
<1>2. \A S : D!Min(S) = Min(S)
  BY DEF D!Min, Min
<1>3. \A S : D!Max(S) = Max(S)
  BY DEF D!Max, Max
<1>4. \A S : D!InOrder(S) = Ranked(S)
  BY DEF D!InOrder, Ranked, D!Cardinality, Cardinality
<1>5. \A ls : D!FlattenSeq(ls) = FlattenSeq(ls)
  BY DEF D!FlattenSeq, FlattenSeq
<1> QED BY <1>1, <1>2, <1>3, <1>4, <1>5

(* The entry of a shard, whatever its bytes. *)
LEMMA EntryOfShard ==
  ASSUME range[1] \in Int, range[2] \in Int, NEW i \in D!Shards, NEW bytes
  PROVE  D!EntryOf(i, D!ShardRange(i), bytes)
           = [file |-> i, first |-> D!FirstBlock(i), last |-> D!LastBlock(i),
              count |-> D!LastBlock(i) - D!FirstBlock(i) + 1, sha |-> bytes]
<1> DEFINE a == D!FirstBlock(i)
           b == D!LastBlock(i)
           S == D!ShardRange(i)
<1>1. a \in Int /\ b \in Int /\ a <= b
  BY ShardsFit DEF ShardFits
<1>2. S = a..b
  BY DEF D!ShardRange
<1> HIDE DEF a, b
<1>3. Min(a..b) = a /\ Max(a..b) = b /\ Cardinality(a..b) = b - a + 1
  BY <1>1, RangeEnds
<1>4. D!Min(S) = a /\ D!Max(S) = b /\ D!Cardinality(S) = b - a + 1
  BY <1>2, <1>3, SameLibrary
<1>5. D!EntryOf(i, S, bytes)
        = [file |-> i, first |-> D!Min(S), last |-> D!Max(S), count |-> D!Cardinality(S),
           sha |-> bytes]
  BY DEF D!EntryOf
<1> QED BY <1>4, <1>5 DEF a, b

-----------------------------------------------------------------------------
(* The directory as it is stored.                                          *)

(* The arguments resolve to numbers, and the range ends below the last     *)
(* number there is.                                                        *)
LEMMA ResolvedRange ==
  ASSUME NEW n \in NBlocks, NEW start \in Starts, NEW end \in Ends,
         range = ResolveRange(n, start, end)
  PROVE  range[1] \in Int /\ range[2] \in Int /\ range[2] < 2 ^ Width - 1
<1> DEFINE top == 2 ^ Width
           last == IF end = {} THEN Latest - Margin ELSE Max(end)
           first == IF start = {} THEN last - n + 1 ELSE Max(start)
<1>1. \A arg \in Starts \cup Ends : arg # {} => Max(arg) \in arg
  <2> SUFFICES ASSUME NEW arg \in Starts \cup Ends, arg # {} PROVE Max(arg) \in arg
    OBVIOUS
  <2>1. arg \subseteq Int /\ \A b, c \in arg : b = c
    BY ExperimentAssumption
  <2>2. PICK b \in arg : TRUE
    OBVIOUS
  <2>3. \A c \in arg : c = b /\ b \in Int
    BY <2>1
  <2>4. \A c \in arg : b >= c
    BY <2>3
  <2> QED BY <2>4 DEF Max
<1>2. Latest \in Int /\ Latest <= top - 2 /\ Margin \in Nat /\ top \in Int /\ n \in Int
  BY ExperimentAssumption, WidthAssumption
<1>3. end # {} => Max(end) \in Int /\ Max(end) < top - 1
  BY <1>1, ExperimentAssumption
<1>4. start # {} => Max(start) \in Int
  BY <1>1, ExperimentAssumption
<1>5. range = <<first, last>>
  BY DEF ResolveRange
<1> HIDE DEF top
<1>6. last \in Int /\ last < top - 1
  BY <1>2, <1>3
<1> HIDE DEF last
<1>7. first \in Int
  BY <1>2, <1>4, <1>6
<1> HIDE DEF first
<1>8. range[1] = first /\ range[2] = last
  BY <1>5
<1> QED BY <1>6, <1>7, <1>8 DEF top

(* A function of finitely many arguments has finitely many values, and as  *)
(* many as arguments if no two have the same.                              *)
LEMMA ValuesOf ==
  ASSUME NEW S, IsFiniteSet(S), NEW f, DOMAIN f = S
  PROVE  /\ IsFiniteSet({f[x] : x \in S})
         /\ (\A x, y \in S : f[x] = f[y] => x = y) =>
              Cardinality({f[x] : x \in S}) = Cardinality(S)
<1> DEFINE T == {f[x] : x \in S}
           g == [x \in S |-> f[x]]
<1>1. g \in Surjection(S, T)
  BY DEF Surjection
<1>2. (\A x, y \in S : f[x] = f[y] => x = y) => g \in Injection(S, T)
  BY DEF Injection, IsInjective
<1> HIDE DEF T, g
<1>3. IsFiniteSet(T) /\ (Cardinality(T) = Cardinality(S) <=> g \in Injection(S, T))
  BY <1>1, FS_Surjection
<1> QED BY <1>2, <1>3 DEF T

(* A block as the node has it makes a record of keys of the state. *)
LEMMA FetchSound ==
  ASSUME NEW chain \in Chains, NEW b \in 0..Latest
  PROVE  Sound(Fetch(chain, b))
<1> DEFINE K == chain[b].reads
           W == chain[b].writes
           f == [x \in K |-> Wire(x)]
<1>1. K \subseteq StateKeys /\ W \subseteq StateKeys /\ IsFiniteSet(K)
  BY ExperimentAssumption
<1>2. /\ Fetch(chain, b).number = b /\ Fetch(chain, b).reads = {Wire(x) : x \in K}
      /\ Fetch(chain, b).writes = {Wire(x) : x \in W} /\ b \in Int
  <2>1. b \in Int
    OBVIOUS
  <2> QED BY <2>1 DEF Fetch
<1> HIDE DEF K, W
<1>3. ASSUME NEW x \in K \cup W PROVE Names(Wire(x))
  <2>1. x.addr \in Addresses /\ (x.slot # NoSlot => x.slot \in Nat)
    BY <1>1 DEF StateKeys
  <2> QED BY <2>1 DEF Names, Wire
<1>4. IsFiniteSet({Wire(x) : x \in K})
  <2>1. DOMAIN f = K /\ {f[x] : x \in K} = {Wire(x) : x \in K}
    OBVIOUS
  <2> HIDE DEF f
  <2>2. IsFiniteSet({f[x] : x \in K})
    BY <1>1, <2>1, ValuesOf
  <2> QED BY <2>1, <2>2
<1> QED BY <1>2, <1>3, <1>4 DEF Sound

(* The file of a shard. *)
LEMMA StoredFile ==
  ASSUME NEW a \in Int, NEW b \in Int, a <= b, 0 <= a, b <= Latest, NEW chain \in Chains
  PROVE  \E c : /\ FileOf(chain, Ranked(a..b)) = {c} /\ Holds(c, a, b) /\ Numbered(c)
                /\ Len(c.records) # 0
<1> DEFINE q == Ranked(a..b)
           records == [k \in DOMAIN q |-> Fetch(chain, q[k])]
           c == [records |-> records, decodes |-> TRUE, copy |-> 0]
<1>1. q \in Seq(Int) /\ Len(q) = b - a + 1 /\ \A k \in 1..b - a + 1 : q[k] = a + k - 1
  BY RangeLists
<1> HIDE DEF q
<1>2. DOMAIN q = 1..b - a + 1 /\ b - a + 1 \in Nat /\ b - a + 1 # 0
  BY <1>1
<1>3. Len(records) = b - a + 1 /\ DOMAIN records = 1..b - a + 1
  BY <1>2
<1>4. ASSUME NEW k \in 1..b - a + 1
      PROVE  /\ records[k].number = a + k - 1 /\ Sound(records[k])
             /\ \A x \in records[k].reads \cup records[k].writes : Converts(x)
  <2>1. records[k] = Fetch(chain, q[k]) /\ q[k] = a + k - 1
    BY <1>1, <1>2
  <2> HIDE DEF records
  <2>2. /\ records[k].number = a + k - 1
        /\ records[k].reads = {Wire(x) : x \in chain[q[k]].reads}
        /\ records[k].writes = {Wire(x) : x \in chain[q[k]].writes}
    BY <2>1 DEF Fetch
  <2>3. \A x : Converts(Wire(x))
    BY DEF Wire, Converts
  <2>4. a + k - 1 \in 0..Latest
    BY <1>2, ExperimentAssumption
  <2>5. Sound(records[k])
    BY <2>1, <2>4, FetchSound
  <2> QED BY <2>2, <2>3, <2>5
<1>5. c.records = records /\ c.decodes
  OBVIOUS
<1>6. FileOf(chain, q) = {c}
  BY DEF FileOf
<1> HIDE DEF records, c
<1>7. Holds(c, a, b)
  BY <1>3, <1>4, <1>5 DEF Holds
<1>8. Numbered(c) /\ Len(c.records) # 0
  BY <1>2, <1>3, <1>4, <1>5 DEF Numbered
<1> QED BY <1>6, <1>7, <1>8 DEF q

(* A run over the range stores whole shards, in order. *)
LEMMA InitInv == Init => IInv
<1> SUFFICES ASSUME Init PROVE IInv
  OBVIOUS
<1>1. PICK n \in NBlocks, start \in Starts, end \in Ends, version \in Versions, chain \in Chains :
        range = ResolveRange(n, start, end) /\ Stored(version, chain)
  BY DEF Init
<1>2. range[1] \in Int /\ range[2] \in Int /\ range[2] < 2 ^ Width - 1
  BY <1>1, ResolvedRange
<1> DEFINE File(i) == FileOf(chain, D!InOrder(D!ShardRange(i)))
<1>3. PICK kept \in SUBSET {i \in D!Shards : D!ShardRange(i) \subseteq 0..Latest} :
        /\ disk = [i \in D!Shards |-> IF i \in kept THEN File(i) ELSE {}]
        /\ manifest = [start |-> range[1], end |-> range[2], schema |-> version,
                       shards |-> [j \in DOMAIN D!InOrder(kept) |->
                         D!EntryOf(D!InOrder(kept)[j], D!ShardRange(D!InOrder(kept)[j]),
                                   File(D!InOrder(kept)[j]))]]
  BY <1>1 DEF Stored
<1> DEFINE q == D!InOrder(kept)
           Entry(i) == [file |-> i, first |-> D!FirstBlock(i), last |-> D!LastBlock(i),
                        count |-> D!LastBlock(i) - D!FirstBlock(i) + 1, sha |-> File(i)]
           m == manifest.shards
<1> HIDE DEF File
<1>4. kept \in SUBSET Int /\ IsFiniteSet(kept) /\ kept \subseteq D!Shards
  <2>1. kept \subseteq D!Shards
    OBVIOUS
  <2> QED BY <1>2, <2>1, ShardsAreNumbers, FS_Subset
<1>5. q \in Seq(kept) /\ AscendingList(q)
  <2>1. q = Ranked(kept)
    BY SameLibrary
  <2> QED BY <1>4, <2>1, RankedLists DEF Enumerates
<1>6. manifest.start = range[1] /\ manifest.end = range[2]
      /\ m = [j \in DOMAIN q |-> D!EntryOf(q[j], D!ShardRange(q[j]), File(q[j]))]
  BY <1>3
<1> HIDE DEF q, m
<1>7. /\ Len(q) \in Nat /\ DOMAIN q = 1..Len(q) /\ Len(m) = Len(q) /\ DOMAIN m = 1..Len(m)
      /\ \A j \in 1..Len(m) : q[j] \in kept
  <2>1. Len(q) \in Nat /\ DOMAIN q = 1..Len(q)
    BY <1>5
  <2>2. \A j \in 1..Len(q) : q[j] \in kept
    BY <1>5, ElementOfSeq
  <2>3. Len(m) = Len(q) /\ DOMAIN m = 1..Len(m)
    BY <1>6, <2>1
  <2> QED BY <2>1, <2>2, <2>3
<1>8. \A j \in 1..Len(m) : m[j] = Entry(q[j])
  <2> TAKE j \in 1..Len(m)
  <2>1. q[j] \in D!Shards /\ m[j] = D!EntryOf(q[j], D!ShardRange(q[j]), File(q[j]))
    BY <1>4, <1>6, <1>7
  <2> QED BY <1>2, <2>1, EntryOfShard
<1>9. ASSUME NEW i \in kept
      PROVE  /\ ShardFits(i) /\ 0 <= D!FirstBlock(i) /\ D!LastBlock(i) <= Latest
             /\ \E c : /\ File(i) = {c} /\ Holds(c, D!FirstBlock(i), D!LastBlock(i))
                       /\ Numbered(c) /\ Len(c.records) # 0
  <2>1. ShardFits(i)
    BY <1>2, <1>4, ShardsFit
  <2> DEFINE a == D!FirstBlock(i)
             b == D!LastBlock(i)
  <2>2. a \in Int /\ b \in Int /\ a <= b
    BY <2>1 DEF ShardFits
  <2>3. D!ShardRange(i) = a..b /\ D!ShardRange(i) \subseteq 0..Latest
    BY <1>3 DEF D!ShardRange
  <2>4. File(i) = FileOf(chain, Ranked(a..b))
    BY <2>3, SameLibrary DEF File
  <2> HIDE DEF a, b
  <2>6. 0 <= a /\ b <= Latest
    <3>1. a \in a..b /\ b \in a..b
      BY <2>2
    <3>2. a \in 0..Latest /\ b \in 0..Latest /\ Latest \in Int
      BY <2>3, <3>1, ExperimentAssumption
    <3> QED BY <3>2
  <2>5. \E c : /\ FileOf(chain, Ranked(a..b)) = {c} /\ Holds(c, a, b) /\ Numbered(c)
               /\ Len(c.records) # 0
    BY <2>2, <2>6, StoredFile
  <2> QED BY <2>1, <2>4, <2>5, <2>6 DEF a, b
<1>10. RangeInv
  BY <1>2, <1>6 DEF RangeInv
<1>11. ManifestInv
  <2>1. ASSUME NEW j \in 1..Len(m) PROVE Faithful(m[j])
    <3> DEFINE i == q[j]
    <3>1. i \in kept /\ i \in D!Shards /\ m[j] = Entry(i)
      BY <1>4, <1>7, <1>8
    <3> HIDE DEF i
    <3>2. /\ D!FirstBlock(i) \in Int /\ D!LastBlock(i) \in Int
          /\ range[1] <= D!FirstBlock(i) /\ D!FirstBlock(i) <= D!LastBlock(i)
          /\ D!LastBlock(i) <= range[2]
          /\ 0 <= D!FirstBlock(i) /\ D!LastBlock(i) <= Latest
      BY <1>9, <3>1 DEF ShardFits
    <3>3. \E c \in File(i) : File(i) = {c} /\ Holds(c, D!FirstBlock(i), D!LastBlock(i))
      BY <1>9, <3>1
    <3>4. /\ m[j].file = i /\ m[j].first = D!FirstBlock(i) /\ m[j].last = D!LastBlock(i)
          /\ m[j].count = D!LastBlock(i) - D!FirstBlock(i) + 1 /\ m[j].sha = File(i)
      BY <3>1
    <3>5. m[j] \in [file : D!Shards, first : Int, last : Int, count : Int, sha : {m[j].sha}]
      <4>1. D!LastBlock(i) - D!FirstBlock(i) + 1 \in Int
        BY <3>2
      <4> QED BY <3>1, <3>2, <3>4, <4>1
    <3> QED BY <3>2, <3>3, <3>4, <3>5 DEF Faithful
  <2>2. ASSUME NEW i \in 1..Len(m), NEW j \in 1..Len(m), i < j PROVE m[i].last < m[j].first
    <3>1. q[i] \in D!Shards /\ q[j] \in D!Shards
      BY <1>4, <1>7
    <3>2. q[i] < q[j]
      BY <1>5, <1>7, <2>2 DEF AscendingList
    <3>3. D!LastBlock(q[i]) < D!FirstBlock(q[j])
      BY <1>2, <3>1, <3>2, ShardsApart
    <3>4. m[i] = Entry(q[i]) /\ m[j] = Entry(q[j])
      BY <1>8
    <3>5. m[i].last = D!LastBlock(q[i]) /\ m[j].first = D!FirstBlock(q[j])
      BY <3>4
    <3> QED BY <3>3, <3>5
  <2>3. Len(m) \in Nat
    BY <1>7
  <2> QED BY <1>7, <2>1, <2>2, <2>3 DEF ManifestInv, m
<1>12. DiskInv
  <2>1. DOMAIN disk = D!Shards
    BY <1>3
  <2>2. ASSUME NEW i \in D!Shards, NEW c \in disk[i]
        PROVE  disk[i] = {c} /\ Numbered(c) /\ Len(c.records) # 0
    <3>1. disk[i] = IF i \in kept THEN File(i) ELSE {}
      BY <1>3
    <3>2. i \in kept /\ disk[i] = File(i)
      BY <2>2, <3>1
    <3>3. PICK d : File(i) = {d} /\ Numbered(d) /\ Len(d.records) # 0
      BY <1>9, <3>2
    <3>4. c = d
      BY <2>2, <3>2, <3>3
    <3> QED BY <3>2, <3>3, <3>4
  <2> QED BY <2>1, <2>2 DEF DiskInv
<1>13. LoaderInv
  BY DEF Init, LoaderInv, LoaderInit
<1> QED BY <1>10, <1>11, <1>12, <1>13 DEF IInv

-----------------------------------------------------------------------------
(* What is read of the directory.                                          *)

Entry(i) == manifest.shards[i]
NEntries == Len(manifest.shards)

(* The manifest, entry by entry. *)
LEMMA EntriesAre ==
  ASSUME ManifestInv
  PROVE  /\ NEntries \in Nat /\ DOMAIN manifest.shards = 1..NEntries
         /\ \A i \in 1..NEntries : Faithful(Entry(i))
         /\ \A i, j \in 1..NEntries : i < j => Entry(i).last < Entry(j).first
         /\ \A i \in 1..NEntries : SweepReads[i] = Read(Entry(i))
         /\ DOMAIN SweepReads = 1..NEntries
BY DEF ManifestInv, Entry, NEntries, SweepReads

(* The list of records of some bytes. *)
Converted(c) == [k \in 1..Len(c.records) |-> ConvertRecord(c.records[k])]

(* A record keeps its number. *)
LEMMA NumberKept ==
  \A r : ConvertRecord(r).number = r.number
BY DEF ConvertRecord

(* A file is read as one list, if at all, and with the hashes looked at    *)
(* only if it is the one that was stored.                                  *)
LEMMA ReadsAre ==
  ASSUME ManifestInv, DiskInv, NEW i \in 1..NEntries, NEW rs \in Read(Entry(i))
  PROVE  /\ \E c : disk[Entry(i).file] = {c} /\ Numbered(c) /\ rs = Converted(c)
         /\ Read(Entry(i)) = {rs} /\ Lists[i] = rs
         /\ verify_sha => Intact(Entry(i))
<1> DEFINE e == Entry(i)
           passes(x) ==
             /\ Expected(e) # {} => Expected(e) = disk[e.file]
             /\ x.decodes
             /\ \A r \in ToSet(x.records) : \A k \in r.reads \cup r.writes : Converts(k)
           Convert(c) == [k \in DOMAIN c.records |-> ConvertRecord(c.records[k])]
<1>1. Read(e) = {Convert(c) : c \in {x \in disk[e.file] : passes(x)}}
  BY DEF Read, LoadShard
<1> HIDE DEF Convert
<1>2. PICK c \in disk[e.file] : passes(c) /\ rs = Convert(c)
  BY <1>1
<1>3. e.file \in D!Shards /\ e.sha # {}
  BY EntriesAre DEF Faithful
<1>4. disk[e.file] = {c} /\ Numbered(c)
  BY <1>2, <1>3 DEF DiskInv
<1>5. DOMAIN c.records = 1..Len(c.records)
  BY <1>4 DEF Numbered
<1>6. rs = Converted(c)
  BY <1>2, <1>5 DEF Converted, Convert
<1>7. Read(e) = {rs}
  BY <1>1, <1>2, <1>4
<1>8. Lists[i] = rs
  <2>1. i \in DOMAIN manifest.shards /\ SweepReads[i] = {rs}
    BY <1>7, EntriesAre
  <2>2. Lists[i] = CHOOSE r \in SweepReads[i] : TRUE
    BY <2>1 DEF Lists
  <2> QED BY <2>1, <2>2
<1>9. verify_sha => Intact(e)
  BY <1>2, <1>3 DEF Expected, Intact
<1> QED BY <1>4, <1>6, <1>7, <1>8, <1>9

(* What is read is numbered. *)
LEMMA RecordsNumbered ==
  ASSUME ManifestInv, DiskInv
  PROVE  /\ \A r \in Records : r.number \in Int
         /\ \A i \in 1..NEntries : \A rs \in Read(Entry(i)) : rs \in Seq(Records)
<1>1. ASSUME NEW i \in 1..NEntries, NEW rs \in Read(Entry(i))
      PROVE  /\ Len(rs) \in Nat /\ DOMAIN rs = 1..Len(rs) /\ rs = [k \in 1..Len(rs) |-> rs[k]]
             /\ \A k \in 1..Len(rs) : rs[k].number \in Int
  <2>1. PICK c : Numbered(c) /\ rs = Converted(c)
    BY ReadsAre
  <2>2. Len(c.records) \in Nat /\ \A k \in 1..Len(c.records) : c.records[k].number \in Int
    BY <2>1 DEF Numbered, Sound
  <2>3. Len(rs) = Len(c.records) /\ DOMAIN rs = 1..Len(rs)
    BY <2>1, <2>2 DEF Converted
  <2>4. \A k \in 1..Len(rs) : rs[k] = ConvertRecord(c.records[k])
    BY <2>1, <2>3 DEF Converted
  <2>5. \A k \in 1..Len(rs) : rs[k].number = c.records[k].number
    BY <2>4, NumberKept
  <2>6. rs = [k \in 1..Len(rs) |-> rs[k]]
    BY <2>1, <2>3 DEF Converted
  <2> QED BY <2>2, <2>3, <2>5, <2>6
<1>2. ASSUME NEW i \in 1..NEntries, NEW rs \in Read(Entry(i)) PROVE rs \in Seq(Records)
  <2>1. Range(rs) \subseteq Records
    BY EntriesAre, <1>2 DEF Records
  <2>2. \A k \in 1..Len(rs) : rs[k] \in Records
    BY <1>1, <2>1 DEF Range
  <2>3. Len(rs) \in Nat /\ rs = [k \in 1..Len(rs) |-> rs[k]]
    BY <1>1
  <2> QED BY <2>2, <2>3
<1>3. ASSUME NEW r \in Records PROVE r.number \in Int
  <2>1. PICK i \in 1..NEntries : \E rs \in Read(Entry(i)) : r \in Range(rs)
    BY EntriesAre DEF Records
  <2>2. PICK rs \in Read(Entry(i)) : r \in Range(rs)
    BY <2>1
  <2>3. \E k \in 1..Len(rs) : r = rs[k]
    BY <1>1, <2>2 DEF Range
  <2> QED BY <1>1, <2>3
<1> QED BY <1>2, <1>3

NumberOf == [r \in Records |-> r.number]

(* A file that is as it was stored is read, and has the blocks of its      *)
(* shard.                                                                  *)
LEMMA IntactReads ==
  ASSUME ManifestInv, DiskInv, NEW i \in 1..NEntries, Intact(Entry(i))
  PROVE  \E rs \in Read(Entry(i)) :
           Len(rs) = Entry(i).count /\ Runs(rs, NumberOf, Entry(i).first)
<1> DEFINE e == Entry(i)
           a == e.first
           b == e.last
<1>1. PICK c : e.sha = {c} /\ Holds(c, a, b)
  BY EntriesAre DEF Faithful
<1>2. e.file \in D!Shards /\ a \in Int /\ b \in Int /\ a <= b /\ e.count = b - a + 1
  BY EntriesAre DEF Faithful
<1>3. disk[e.file] = {c}
  BY <1>1 DEF Intact
<1>4. Numbered(c)
  BY <1>2, <1>3 DEF DiskInv
<1> DEFINE rs == Converted(c)
<1>5. Len(c.records) = b - a + 1 /\ DOMAIN c.records = 1..b - a + 1 /\ b - a + 1 \in Nat
  BY <1>1, <1>2, <1>4 DEF Holds, Numbered
<1>6. \A r \in ToSet(c.records) : \A k \in r.reads \cup r.writes : Converts(k)
  BY <1>1, <1>5 DEF Holds, ToSet
<1>7. rs \in Read(e)
  <2>1. Expected(e) # {} => Expected(e) = disk[e.file]
    BY <1>1, <1>3 DEF Expected
  <2>2. c.decodes
    BY <1>1 DEF Holds
  <2>3. rs = [k \in DOMAIN c.records |-> ConvertRecord(c.records[k])]
    BY <1>5 DEF Converted
  <2> HIDE DEF rs, e
  <2> QED BY <1>3, <1>6, <2>1, <2>2, <2>3 DEF Read, LoadShard
<1>8. Len(rs) = e.count /\ \A k \in 1..Len(rs) : rs[k].number = a + k - 1
  <2>1. Len(rs) = b - a + 1
    BY <1>5 DEF Converted
  <2>2. \A k \in 1..b - a + 1 : rs[k] = ConvertRecord(c.records[k])
    BY <1>5 DEF Converted
  <2> HIDE DEF rs, a, b
  <2>3. \A k \in 1..b - a + 1 : rs[k].number = c.records[k].number
    BY <2>2, NumberKept
  <2>4. \A k \in 1..b - a + 1 : c.records[k].number = a + k - 1
    BY <1>1 DEF Holds
  <2> QED BY <1>2, <2>1, <2>3, <2>4
<1> HIDE DEF rs
<1>9. Runs(rs, NumberOf, a)
  <2>1. rs \in Seq(Records)
    BY <1>7, RecordsNumbered
  <2>2. \A k \in 1..Len(rs) : rs[k] \in Records
    BY <2>1, ElementOfSeq
  <2>3. \A k \in 1..Len(rs) : NumberOf[rs[k]] = rs[k].number
    BY <2>2 DEF NumberOf
  <2> HIDE DEF a
  <2> QED BY <1>8, <2>3 DEF Runs
<1> QED BY <1>7, <1>8, <1>9

-----------------------------------------------------------------------------
(* verify-load, step by step.                                              *)

(* The shards that load are read as the lists of the stream. *)
LEMMA LoadedLists ==
  ASSUME ManifestInv, DiskInv, NEW n \in 0..NEntries, Loads(n), NEW i \in 1..n
  PROVE  /\ Read(Entry(i)) = {Lists[i]} /\ Lists[i] \in Seq(Records)
         /\ Len(Lists[i]) = Entry(i).count
         /\ verify_sha => Intact(Entry(i))
<1>1. NEntries \in Nat /\ i \in 1..NEntries
  BY EntriesAre
<1>2. PICK rs \in Loading(Entry(i)) : TRUE
  BY DEF Loads, Entry
<1>3. rs \in Read(Entry(i)) /\ Len(rs) = Entry(i).count
  BY <1>2 DEF Loading
<1>4. Read(Entry(i)) = {rs} /\ Lists[i] = rs /\ (verify_sha => Intact(Entry(i)))
  BY <1>1, <1>3, ReadsAre
<1>5. rs \in Seq(Records)
  BY <1>1, <1>3, RecordsNumbered
<1> QED BY <1>3, <1>4, <1>5

(* Nothing that is said of the directory changes with the loader. *)
LEMMA DirectoryFrame ==
  ASSUME UNCHANGED <<range, directory>>
  PROVE  /\ RangeInv => RangeInv'
         /\ ManifestInv => ManifestInv'
         /\ Records' = Records /\ NEntries' = NEntries
         /\ \A n : (Loads(n)' <=> Loads(n)) /\ Stream(n)' = Stream(n)
         /\ (Opens' <=> Opens) /\ (Accepts' <=> Accepts) /\ Whole' = Whole
<1>0. range' = range /\ manifest' = manifest /\ disk' = disk /\ verify_sha' = verify_sha
      /\ debug' = debug
  BY DEF directory
<1>1. RangeInv => RangeInv'
  BY <1>0 DEF RangeInv
<1>2. ManifestInv => ManifestInv'
  BY <1>0 DEF ManifestInv, Faithful, D!Shards, D!NShards
<1>3. \A e : Read(e)' = Read(e)
  BY <1>0 DEF Read, Expected
<1>4. SweepReads' = SweepReads
  BY <1>0, <1>3 DEF SweepReads
<1>5. Records' = Records /\ NEntries' = NEntries /\ Lists' = Lists
  BY <1>0, <1>4 DEF Records, NEntries, Lists
<1>6. \A n : Stream(n)' = Stream(n)
  BY <1>5 DEF Stream
<1>7. \A n : Loads(n)' <=> Loads(n)
  BY <1>0, <1>3 DEF Loads, Loading
<1>8. Opens' <=> Opens
  BY <1>0 DEF Opens, ManifestLoads, AssertSchemaV1, SpanFits
<1>9. Whole' = Whole
  BY <1>0, <1>6 DEF Whole
<1>10. Accepts' <=> Accepts
  <2>1. BlockSpan' = BlockSpan
    BY <1>0 DEF BlockSpan
  <2>2. Loads(Len(manifest.shards))' <=> Loads(Len(manifest.shards))
    BY <1>0, <1>7
  <2> QED BY <1>8, <1>9, <2>1, <2>2 DEF Accepts, Gapless
<1> QED BY <1>1, <1>2, <1>5, <1>6, <1>7, <1>8, <1>9, <1>10

(* The next record goes from the buffer to what is yielded. *)
LEMMA MovesOver ==
  ASSUME NEW X, NEW s \in Seq(X), NEW b \in Seq(X), b # <<>>
  PROVE  /\ Append(s, Head(b)) \in Seq(X) /\ Tail(b) \in Seq(X) /\ Head(b) \in X
         /\ Append(s, Head(b)) \o Tail(b) = s \o b
         /\ Append(s, Head(b)) # <<>>
         /\ Append(s, Head(b))[Len(Append(s, Head(b)))] = Head(b)
<1>1. Len(b) \in Nat \ {0} /\ Head(b) = b[1] /\ b[1] \in X /\ Tail(b) \in Seq(X)
      /\ Len(Tail(b)) = Len(b) - 1 /\ \A k \in 1..Len(b) - 1 : Tail(b)[k] = b[k + 1]
  OBVIOUS
<1> DEFINE h == Head(b)
           t == Tail(b)
           a == Append(s, h)
<1>2. a \in Seq(X) /\ Len(a) = Len(s) + 1 /\ Len(s) \in Nat /\ a[Len(s) + 1] = h
      /\ \A k \in 1..Len(s) : a[k] = s[k]
  BY <1>1
<1>3. h = b[1] /\ t \in Seq(X) /\ Len(t) = Len(b) - 1 /\ \A k \in 1..Len(b) - 1 : t[k] = b[k + 1]
  BY <1>1
<1> HIDE DEF h, t, a
<1>4. a \o t \in Seq(X) /\ s \o b \in Seq(X) /\ Len(a \o t) = Len(s \o b)
      /\ Len(s \o b) = Len(s) + Len(b)
  <2>1. s \o b \in Seq(X) /\ Len(s \o b) = Len(s) + Len(b)
    OBVIOUS
  <2>2. a \in Seq(X) /\ t \in Seq(X) /\ Len(a) + Len(t) = Len(s) + Len(b)
    <3>1. Len(a) = Len(s) + 1 /\ Len(t) = Len(b) - 1 /\ Len(s) \in Nat /\ Len(b) \in Nat
      BY <1>1, <1>2, <1>3
    <3> QED BY <1>2, <1>3, <3>1
  <2>3. a \o t \in Seq(X) /\ Len(a \o t) = Len(a) + Len(t)
    BY <2>2
  <2> QED BY <2>1, <2>2, <2>3
<1>5. ASSUME NEW k \in 1..Len(s) + Len(b) PROVE (a \o t)[k] = (s \o b)[k]
  <2>1. CASE k <= Len(s)
    BY <1>1, <1>2, <1>3, <2>1
  <2>2. CASE k = Len(s) + 1
    BY <1>1, <1>2, <1>3, <2>2
  <2>3. CASE k > Len(s) + 1
    <3>1. (a \o t)[k] = t[k - (Len(s) + 1)] /\ (s \o b)[k] = b[k - Len(s)]
      BY <1>1, <1>2, <1>3, <2>3
    <3>2. k - (Len(s) + 1) \in 1..Len(b) - 1 /\ (k - (Len(s) + 1)) + 1 = k - Len(s)
      BY <1>1, <1>2, <2>3
    <3> QED BY <1>3, <3>1, <3>2
  <2>4. k <= Len(s) \/ k = Len(s) + 1 \/ k > Len(s) + 1
    <3>1. k \in Int /\ Len(s) \in Int
      BY <1>1, <1>2
    <3> QED BY <3>1
  <2> QED BY <2>1, <2>2, <2>3, <2>4
<1>6. a \o t = s \o b
  BY <1>4, <1>5
<1>7. a # <<>> /\ a[Len(a)] = h
  BY <1>2
<1> QED BY <1>1, <1>2, <1>6, <1>7 DEF a, h, t

(* A gap more, or none. *)
LEMMA GaplessGrows ==
  ASSUME NEW X, NEW s \in Seq(X), NEW r \in X
  PROVE  Gapless(Append(s, r)) <=>
           Gapless(s) /\ (s # <<>> => r.number = s[Len(s)].number + 1)
<1> DEFINE a == Append(s, r)
           n == Len(s)
<1>1. n \in Nat /\ Len(a) = n + 1 /\ a[n + 1] = r /\ \A k \in 1..n : a[k] = s[k]
  OBVIOUS
<1>2. s # <<>> <=> n # 0
  OBVIOUS
<1> HIDE DEF a
<1>3. ASSUME Gapless(a) PROVE Gapless(s) /\ (n # 0 => r.number = s[n].number + 1)
  <2>1. \A i \in 1..n : a[i + 1].number = a[i].number + 1
    BY <1>1, <1>3 DEF Gapless
  <2>2. ASSUME NEW i \in 1..n - 1 PROVE s[i + 1].number = s[i].number + 1
    <3>1. i \in 1..n /\ i + 1 \in 1..n
      BY <1>1
    <3>2. a[i + 1] = s[i + 1] /\ a[i] = s[i] /\ a[i + 1].number = a[i].number + 1
      BY <1>1, <2>1, <3>1
    <3> QED BY <3>2
  <2>3. n # 0 => r.number = s[n].number + 1
    <3>1. n # 0 => n \in 1..n
      BY <1>1
    <3>2. n # 0 => a[n + 1].number = a[n].number + 1 /\ a[n] = s[n]
      BY <1>1, <2>1, <3>1
    <3> QED BY <1>1, <3>2
  <2> QED BY <2>2, <2>3 DEF Gapless
<1>4. ASSUME Gapless(s), n # 0 => r.number = s[n].number + 1 PROVE Gapless(a)
  <2> SUFFICES ASSUME NEW i \in 1..n PROVE a[i + 1].number = a[i].number + 1
    BY <1>1 DEF Gapless
  <2>1. CASE i = n
    BY <1>1, <1>4, <2>1
  <2>2. CASE i # n
    <3>1. i \in 1..n - 1 /\ i + 1 \in 1..n
      BY <1>1, <2>2
    <3>2. s[i + 1].number = s[i].number + 1
      BY <1>4, <3>1 DEF Gapless
    <3>3. a[i + 1] = s[i + 1] /\ a[i] = s[i]
      BY <1>1, <3>1
    <3> QED BY <3>2, <3>3
  <2> QED BY <2>1, <2>2
<1> QED BY <1>2, <1>3, <1>4 DEF a

(* Before the first shard nothing is streamed, and no gap is met. *)
LEMMA StartStreams ==
  ASSUME ManifestInv, LoaderInit
  PROVE  Streaming
<1>1. Stream(0) = <<>>
  BY FlatTyped DEF Stream
<1>2. Loads(1 - 1)
  <2>1. 1..(1 - 1) = {}
    OBVIOUS
  <2> QED BY <2>1 DEF Loads
<1>3. Gapless(<<>>)
  BY DEF Gapless
<1>4. <<>> \in Seq(Records) /\ <<>> \o <<>> = <<>>
  OBVIOUS
<1>5. 1 \in 1..NEntries + 1 /\ 1 - 1 = 0
  BY EntriesAre
<1> QED BY <1>1, <1>2, <1>3, <1>4, <1>5 DEF LoaderInit, Streaming, NEntries

(* One shard more. *)
LEMMA FillStreams ==
  ASSUME ManifestInv, DiskInv, Streaming, buffer = <<>>, next_shard <= NEntries
  PROVE  /\ next_shard \in 1..NEntries
         /\ Loading(Entry(next_shard)) = {} => ~Accepts
         /\ \A rs \in Loading(Entry(next_shard)) :
              /\ Loads((next_shard + 1) - 1) /\ rs \in Seq(Records)
              /\ yielded \o rs = Stream((next_shard + 1) - 1)
<1> DEFINE n == next_shard
<1>1. n \in 1..NEntries /\ NEntries \in Nat /\ n - 1 \in Nat /\ (n - 1) + 1 = n /\ (n + 1) - 1 = n
  BY EntriesAre DEF Streaming, NEntries
<1>2. Loads(n - 1) /\ yielded = Stream(n - 1)
  BY DEF Streaming
<1> HIDE DEF n
<1>3. Loading(Entry(n)) = {} => ~Accepts
  BY <1>1 DEF Accepts, Loads, Entry, NEntries
<1>4. ASSUME NEW rs \in Loading(Entry(n))
      PROVE  Loads(n) /\ rs \in Seq(Records) /\ yielded \o rs = Stream(n)
  <2>1. Loads(n)
    <3> SUFFICES ASSUME NEW i \in 1..n PROVE Loading(Entry(i)) # {}
      BY DEF Loads, Entry
    <3>1. i # n => i \in 1..n - 1
      BY <1>1
    <3>2. CASE i = n
      BY <1>4, <3>2
    <3>3. CASE i # n
      BY <1>2, <3>1, <3>3 DEF Loads, Entry
    <3> QED BY <3>2, <3>3
  <2>2. rs \in Read(Entry(n))
    BY <1>4 DEF Loading
  <2>3. Lists[n] = rs /\ rs \in Seq(Records)
    BY <1>1, <2>2, ReadsAre, RecordsNumbered
  <2>4. Lists[(n - 1) + 1] \in Seq(Records)
    BY <1>1, <2>3
  <2>5. Stream((n - 1) + 1) = Stream(n - 1) \o Lists[(n - 1) + 1]
    BY <1>1, <2>4, FlatGrows DEF Stream
  <2> QED BY <1>1, <1>2, <2>1, <2>3, <2>5
<1> QED BY <1>1, <1>3, <1>4 DEF n

(* One record more. *)
LEMMA NextStreams ==
  ASSUME ManifestInv, DiskInv, Streaming, NextRecord, UNCHANGED range
  PROVE  Streaming'
<1>0. /\ buffer # <<>> /\ yielded' = Append(yielded, Head(buffer)) /\ buffer' = Tail(buffer)
      /\ gaps' = IF IsGap(Head(buffer).number) THEN gaps + 1 ELSE gaps
      /\ prev' = {Head(buffer).number}
      /\ UNCHANGED <<range, directory>> /\ next_shard' = next_shard
  BY DEF NextRecord
<1>1. /\ yielded \in Seq(Records) /\ buffer \in Seq(Records)
      /\ yielded \o buffer = Stream(next_shard - 1)
      /\ prev = IF yielded = <<>> THEN {} ELSE {yielded[Len(yielded)].number}
      /\ gaps \in Nat /\ (gaps = 0 <=> Gapless(yielded))
  BY DEF Streaming
<1>2. /\ yielded' \in Seq(Records) /\ buffer' \in Seq(Records) /\ Head(buffer) \in Records
      /\ yielded' \o buffer' = yielded \o buffer
      /\ yielded' # <<>> /\ yielded'[Len(yielded')] = Head(buffer)
  <2> DEFINE a == Append(yielded, Head(buffer))
  <2>1. /\ a \in Seq(Records) /\ Tail(buffer) \in Seq(Records) /\ Head(buffer) \in Records
        /\ a \o Tail(buffer) = yielded \o buffer
        /\ a # <<>> /\ a[Len(a)] = Head(buffer)
    BY <1>0, <1>1, MovesOver
  <2> HIDE DEF a
  <2>2. yielded' = a /\ buffer' = Tail(buffer)
    BY <1>0 DEF a
  <2> QED BY <2>1, <2>2
<1>3. Gapless(yielded') <=> Gapless(yielded) /\ ~IsGap(Head(buffer).number)
  <2>1. Gapless(yielded') <=>
          Gapless(yielded)
            /\ (yielded # <<>> => Head(buffer).number = yielded[Len(yielded)].number + 1)
    BY <1>0, <1>1, <1>2, GaplessGrows
  <2>2. IsGap(Head(buffer).number) <=>
          yielded # <<>> /\ Head(buffer).number # yielded[Len(yielded)].number + 1
    BY <1>1 DEF IsGap
  <2> QED BY <2>1, <2>2
<1>4. gaps' \in Nat /\ (gaps' = 0 <=> gaps = 0 /\ ~IsGap(Head(buffer).number))
  <2>1. gaps + 1 \in Nat /\ gaps + 1 # 0
    BY <1>1
  <2> QED BY <1>0, <1>1, <2>1
<1>5. gaps' = 0 <=> Gapless(yielded)'
  <2>1. Gapless(yielded)' <=> Gapless(yielded')
    BY DEF Gapless
  <2> QED BY <1>1, <1>3, <1>4, <2>1
<1>6. /\ Records' = Records
      /\ \A n : (Loads(n)' <=> Loads(n)) /\ Stream(n)' = Stream(n)
  BY <1>0, DirectoryFrame
<1>7. manifest' = manifest
  BY <1>0 DEF directory
<1>8. Loads(next_shard - 1)' /\ Stream(next_shard - 1)' = Stream(next_shard - 1)
  <2>1. Loads(next_shard - 1)' <=> Loads(next_shard - 1)
    BY <1>0, <1>6 DEF Loads, Loading
  <2> QED BY <1>0, <1>6, <2>1 DEF Streaming
<1>9. next_shard' \in 1..Len(manifest'.shards) + 1
  BY <1>0, <1>7 DEF Streaming
<1>10. prev' = IF yielded' = <<>> THEN {} ELSE {yielded'[Len(yielded')].number}
  BY <1>0, <1>2
<1> QED BY <1>1, <1>2, <1>4, <1>5, <1>6, <1>8, <1>9, <1>10 DEF Streaming

(* A step of verify-load keeps to what the whole directory comes to. *)
LEMMA LoaderStep ==
  ASSUME IInv, VerifyLoad
  PROVE  LoaderInv'
<1>0. /\ ManifestInv /\ DiskInv /\ LoaderInv /\ LoaderNext
      /\ stage = "verify" /\ stage' = stage /\ range' = range
  BY DEF IInv, VerifyLoad
<1>1. UNCHANGED directory
  BY <1>0 DEF LoaderNext, Open, Fill, NextRecord, Conclude
<1>2. /\ Records' = Records /\ NEntries' = NEntries /\ Whole' = Whole
      /\ (Opens' <=> Opens) /\ (Accepts' <=> Accepts)
      /\ \A n : (Loads(n)' <=> Loads(n)) /\ Stream(n)' = Stream(n)
  BY <1>0, <1>1, DirectoryFrame
<1>3. manifest' = manifest
  BY <1>1 DEF directory
<1>4. CASE Open
  <2>1. LoaderInit
    BY <1>0, <1>4 DEF Open, LoaderInv
  <2>2. Streaming
    BY <1>0, <2>1, StartStreams
  <2>3. verdict' = IF Opens THEN "streaming" ELSE "failed"
    BY <1>4 DEF Open, Opens
  <2>4. UNCHANGED <<next_shard, buffer, prev, gaps, yielded>>
    BY <1>4 DEF Open
  <2>5. Streaming'
    <3>1. Loads(next_shard - 1)' <=> Loads(next_shard - 1)
      BY <1>2, <2>4 DEF Loads, Loading
    <3>2. Stream(next_shard - 1)' = Stream(next_shard - 1)
      BY <1>2, <2>4
    <3> QED BY <1>2, <1>3, <2>2, <2>4, <3>1, <3>2 DEF Streaming, Gapless
  <2>6. ~Opens => ~Accepts
    BY DEF Accepts
  <2>7. yielded' \in Seq(Records')
    BY <1>2, <2>2, <2>4 DEF Streaming
  <2> QED BY <1>0, <1>2, <2>3, <2>5, <2>6, <2>7 DEF LoaderInv
<1>5. CASE Fill
  <2>1. /\ verdict = "streaming" /\ buffer = <<>> /\ next_shard <= NEntries
        /\ next_shard' = next_shard + 1 /\ UNCHANGED <<prev, gaps, yielded>>
    BY <1>5 DEF Fill, NEntries
  <2>2. IF Loading(Entry(next_shard)) = {}
        THEN verdict' = "failed"
        ELSE buffer' \in Loading(Entry(next_shard)) /\ verdict' = verdict
    BY <1>5 DEF Fill, Loading, Entry
  <2>3. Streaming /\ Opens
    BY <1>0, <2>1 DEF LoaderInv
  <2>4. /\ next_shard \in 1..NEntries
        /\ Loading(Entry(next_shard)) = {} => ~Accepts
        /\ \A rs \in Loading(Entry(next_shard)) :
             /\ Loads((next_shard + 1) - 1) /\ rs \in Seq(Records)
             /\ yielded \o rs = Stream((next_shard + 1) - 1)
    BY <1>0, <2>1, <2>3, FillStreams
  <2>5. CASE Loading(Entry(next_shard)) = {}
    <3>1. yielded' \in Seq(Records')
      BY <1>2, <2>1, <2>3 DEF Streaming
    <3> QED BY <1>0, <1>2, <2>2, <2>4, <2>5, <3>1 DEF LoaderInv
  <2>6. CASE Loading(Entry(next_shard)) # {}
    <3> DEFINE n == next_shard + 1
    <3>1. /\ verdict' = "streaming" /\ next_shard' = n
          /\ Loads(n - 1) /\ buffer' \in Seq(Records) /\ yielded \o buffer' = Stream(n - 1)
      BY <2>1, <2>2, <2>4, <2>6
    <3>2. n \in 1..NEntries + 1
      BY <2>4, EntriesAre, <1>0
    <3> HIDE DEF n
    <3>3. Loads(next_shard - 1)' /\ Stream(next_shard - 1)' = Stream(n - 1)
      BY <1>2, <3>1 DEF Loads, Loading, Stream
    <3>4. next_shard' \in 1..Len(manifest'.shards) + 1
      BY <1>3, <3>1, <3>2 DEF NEntries
    <3>5. Streaming'
      BY <1>2, <2>1, <2>3, <3>1, <3>3, <3>4 DEF Streaming, Gapless
    <3> QED BY <1>0, <1>2, <2>3, <3>1, <3>5 DEF LoaderInv
  <2> QED BY <2>5, <2>6
<1>6. CASE NextRecord
  <2>1. verdict = "streaming" /\ verdict' = verdict
    BY <1>6 DEF NextRecord
  <2>2. Streaming /\ Opens
    BY <1>0, <2>1 DEF LoaderInv
  <2>3. Streaming'
    BY <1>0, <1>6, <2>2, NextStreams
  <2> QED BY <1>0, <1>2, <2>1, <2>2, <2>3 DEF LoaderInv
<1>7. CASE Conclude
  <2>1. /\ verdict = "streaming" /\ buffer = <<>> /\ next_shard > NEntries
        /\ verdict' = IF Len(yielded) = BlockSpan /\ gaps = 0 THEN "ok" ELSE "failed"
        /\ yielded' = yielded
    BY <1>7 DEF Conclude, NEntries
  <2>2. Streaming /\ Opens
    BY <1>0, <2>1 DEF LoaderInv
  <2>3. next_shard - 1 = NEntries /\ NEntries \in Nat
    BY <1>0, <2>1, <2>2, EntriesAre DEF Streaming, NEntries
  <2>4. Loads(NEntries) /\ yielded \o buffer = Stream(NEntries) /\ yielded \in Seq(Records)
    BY <2>2, <2>3 DEF Streaming
  <2>5. yielded = Whole
    BY <2>1, <2>4 DEF Whole, NEntries
  <2>6. Accepts <=> Len(yielded) = BlockSpan /\ gaps = 0
    BY <2>2, <2>4, <2>5 DEF Accepts, NEntries, Streaming
  <2>7. yielded' \in Seq(Records')
    BY <1>2, <2>1, <2>4
  <2> QED BY <1>0, <1>2, <2>1, <2>5, <2>6, <2>7 DEF LoaderInv
<1> QED BY <1>0, <1>4, <1>5, <1>6, <1>7 DEF LoaderNext

(* Bytes are Numbered for what their records are.                          *)
LEMMA NumberedBy ==
  ASSUME NEW d, NEW r, d.records = r, Len(r) \in Nat, DOMAIN r = 1..Len(r),
         \A k \in 1..Len(r) : Sound(r[k])
  PROVE  Numbered(d)
BY DEF Numbered

(* A record with another number is one still. *)
LEMMA RenumberedSound ==
  ASSUME NEW b, NEW r, r = Fetch(PlainChain, b), Sound(r)
  PROVE  Sound([r EXCEPT !.number = @ + 1])
<1>1. r \in [number : Int, reads : {r.reads}, writes : {r.writes}]
  BY DEF Fetch, Sound
<1>2. /\ [r EXCEPT !.number = @ + 1].number = r.number + 1
      /\ [r EXCEPT !.number = @ + 1].reads = r.reads
      /\ [r EXCEPT !.number = @ + 1].writes = r.writes
  BY <1>1
<1>3. r.number + 1 \in Int
  BY DEF Sound
<1> QED BY <1>2, <1>3 DEF Sound

(* The reads of a record, the addresses or the slots cut short. *)
ShortAddresses(r) == {[k EXCEPT !.addr = Shorten(@)] : k \in r.reads}
ShortSlots(r) ==
  {IF k.slot = NoSlot THEN k ELSE [k EXCEPT !.slot = Shorten(@)] : k \in r.reads}

(* A key cut short still names one of the state. *)
LEMMA ShortNames ==
  ASSUME NEW x, Names(Wire(x))
  PROVE  /\ Names([Wire(x) EXCEPT !.addr = Shorten(@)])
         /\ Names(IF Wire(x).slot = NoSlot THEN Wire(x) ELSE [Wire(x) EXCEPT !.slot = Shorten(@)])
<1> DEFINE k == Wire(x)
           a == Shorten(k.addr)
           t == Shorten(k.slot)
<1>1. k \in [addr : {k.addr}, slot : {k.slot}]
  BY DEF Wire
<1>2. a.id = k.addr.id
  BY DEF Wire, Shorten
<1>3. k.slot # NoSlot => t.id = k.slot.id
  BY DEF Wire, Shorten
<1>4. Names(k)
  OBVIOUS
<1> HIDE DEF k, a, t
<1>5. [k EXCEPT !.addr = a].addr = a /\ [k EXCEPT !.addr = a].slot = k.slot
  BY <1>1
<1>6. [k EXCEPT !.slot = t].addr = k.addr /\ [k EXCEPT !.slot = t].slot = t
  BY <1>1
<1>7. Names([k EXCEPT !.addr = a])
  BY <1>2, <1>4, <1>5 DEF Names
<1>8. k.slot # NoSlot => Names([k EXCEPT !.slot = t])
  BY <1>3, <1>4, <1>6 DEF Names
<1> QED BY <1>4, <1>7, <1>8 DEF a, t, k

(* A record with names cut short is one still. *)
LEMMA RenamedSound ==
  ASSUME NEW b, NEW r, r = Fetch(PlainChain, b), Sound(r),
         NEW keys \in {ShortAddresses(r), ShortSlots(r)}
  PROVE  Sound([r EXCEPT !.reads = keys])
<1> DEFINE X == PlainChain[b].reads
           A(k) == [k EXCEPT !.addr = Shorten(@)]
           S(k) == IF k.slot = NoSlot THEN k ELSE [k EXCEPT !.slot = Shorten(@)]
           f == [k \in r.reads |-> A(k)]
           g == [k \in r.reads |-> S(k)]
<1>1. r \in [number : {r.number}, reads : {r.reads}, writes : {r.writes}]
      /\ r.reads = {Wire(x) : x \in X}
  BY DEF Fetch
<1>2. \A k \in r.reads : \E x \in X : k = Wire(x)
  BY <1>1
<1>3. ASSUME NEW k \in r.reads PROVE Names(A(k)) /\ Names(S(k))
  <2>1. PICK x \in X : k = Wire(x)
    BY <1>2
  <2>2. Names(Wire(x))
    BY <2>1 DEF Sound
  <2>3. Names(A(Wire(x))) /\ Names(S(Wire(x)))
    BY <2>2, ShortNames
  <2> HIDE DEF A, S
  <2> QED BY <2>1, <2>3
<1>4. ShortAddresses(r) = {f[k] : k \in r.reads} /\ ShortSlots(r) = {g[k] : k \in r.reads}
  BY DEF ShortAddresses, ShortSlots
<1>5. DOMAIN f = r.reads /\ DOMAIN g = r.reads
  OBVIOUS
<1>6. \A k \in r.reads : Names(f[k]) /\ Names(g[k])
  BY <1>3
<1> HIDE DEF f, g, X, A, S
<1>7. IsFiniteSet({f[k] : k \in r.reads}) /\ IsFiniteSet({g[k] : k \in r.reads})
  BY <1>5, ValuesOf DEF Sound
<1>8. IsFiniteSet(keys) /\ \A k \in keys : Names(k)
  BY <1>4, <1>6, <1>7
<1>9. /\ [r EXCEPT !.reads = keys].number = r.number /\ [r EXCEPT !.reads = keys].reads = keys
      /\ [r EXCEPT !.reads = keys].writes = r.writes
  BY <1>1
<1> QED BY <1>8, <1>9 DEF Sound

(* Damage to a file leaves it records with numbers, and no file becomes    *)
(* two.                                                                    *)
LEMMA DamagedFile ==
  ASSUME NEW c, Numbered(c), Len(c.records) # 0, NEW q, DOMAIN q = DOMAIN c.records,
         c = [records |-> [k \in DOMAIN q |-> Fetch(PlainChain, q[k])],
              decodes |-> TRUE, copy |-> 0],
         NEW bytes \in Damaged(c), NEW d \in bytes
  PROVE  bytes = {d} /\ Numbered(d)
<1> DEFINE records == c.records
           n == Len(records)
           Renamed(keys) == [c EXCEPT !.records[1].reads = keys]
           Numbers1 == [k \in DOMAIN records |-> [records[k] EXCEPT !.number = @ + 1]]
           Numbers2 == [c EXCEPT !.records[1].number = @ + 1]
<1>1. /\ n \in Nat \ {0} /\ DOMAIN records = 1..n /\ 1 \in 1..n
      /\ \A k \in 1..n : records[k] = Fetch(PlainChain, q[k])
  BY DEF Numbered
<1>0. \A k \in 1..n : Sound(records[k])
  BY DEF Numbered
<1>2. \A k \in 1..n : records[k] \in [number : Int, reads : {records[k].reads},
                                      writes : {records[k].writes}]
  BY <1>0, <1>1 DEF Fetch, Sound
<1> DEFINE fetched == [k \in DOMAIN q |-> Fetch(PlainChain, q[k])]
<1>3. c \in [records : {records}, decodes : BOOLEAN, copy : Int] /\ records = fetched
  <2>1. c = [records |-> [k \in DOMAIN q |-> Fetch(PlainChain, q[k])], decodes |-> TRUE, copy |-> 0]
    OBVIOUS
  <2>2. c.records = [k \in DOMAIN q |-> Fetch(PlainChain, q[k])]
    BY <2>1
  <2> QED BY <2>1, <2>2
<1> HIDE DEF fetched
<1>4. \/ bytes = {} \/ bytes = {[c EXCEPT !.decodes = FALSE]} \/ bytes = {[c EXCEPT !.copy = 1]}
      \/ bytes = {[c EXCEPT !.records = Tail(records)]}
      \/ bytes = {[c EXCEPT !.records = Numbers1]}
      \/ bytes = {Numbers2}
      \/ bytes = {Renamed(ShortAddresses(records[1]))}
      \/ bytes = {Renamed(ShortSlots(records[1]))}
  BY ZenonT(60) DEF Damaged, ShortAddresses, ShortSlots
<1>5. /\ Len(records) \in Nat /\ DOMAIN records = 1..Len(records)
      /\ \A k \in 1..Len(records) : Sound(records[k])
  BY DEF Numbered
<1>6. records \in Seq({records[k] : k \in 1..n})
  <2>1. records = [k \in 1..n |-> records[k]]
    BY <1>1, <1>3 DEF fetched
  <2> HIDE DEF records
  <2> QED BY <1>1, <2>1
<1> HIDE DEF records, n
<1>7. bytes = {d}
  BY <1>4
<1> SUFFICES Numbered(d)
  BY <1>7
<1>8. CASE d = [c EXCEPT !.decodes = FALSE]
  <2>1. d.records = records
    BY <1>3, <1>8
  <2> QED BY <1>5, <2>1, NumberedBy
<1>9. CASE d = [c EXCEPT !.copy = 1]
  <2>1. d.records = records
    BY <1>3, <1>9
  <2> QED BY <1>5, <2>1, NumberedBy
<1>10. CASE d = [c EXCEPT !.records = Tail(records)]
  <2> DEFINE t == Tail(records)
  <2>1. n = Len(records)
    BY DEF n
  <2>2. Len(t) = n - 1 /\ DOMAIN t = 1..n - 1 /\ \A k \in 1..n - 1 : t[k] = records[k + 1]
    BY <1>1, <1>6, <2>1
  <2>3. n - 1 \in Nat
    BY <1>1
  <2>4. \A k \in 1..n - 1 : Sound(t[k])
    <3> TAKE k \in 1..n - 1
    <3>1. k + 1 \in 1..n /\ t[k] = records[k + 1]
      BY <1>1, <2>2
    <3> QED BY <1>5, <2>1, <3>1
  <2> HIDE DEF t
  <2>5. d = [c EXCEPT !.records = t]
    BY <1>10 DEF t
  <2>6. d.records = t
    BY <1>3, <2>5
  <2> QED BY <2>2, <2>3, <2>4, <2>6, NumberedBy
<1>11. CASE d = [c EXCEPT !.records = Numbers1]
  <2>1. Len(Numbers1) = n /\ DOMAIN Numbers1 = 1..n
    BY <1>1
  <2>2. \A k \in 1..n : Sound(Numbers1[k])
    <3> TAKE k \in 1..n
    <3>1. Numbers1[k] = [records[k] EXCEPT !.number = @ + 1]
      BY <1>1
    <3>2. n = Len(records)
      BY DEF n
    <3>3. Sound(records[k])
      BY <1>5, <3>2
    <3> HIDE DEF Numbers1
    <3> QED BY <1>1, <3>1, <3>3, RenumberedSound
  <2> HIDE DEF Numbers1
  <2>3. d = [c EXCEPT !.records = Numbers1]
    BY <1>11
  <2>4. d.records = Numbers1
    BY <1>3, <2>3
  <2> QED BY <1>1, <2>1, <2>2, <2>4, NumberedBy
<1>12. ASSUME NEW x, Sound(x), d.records = [records EXCEPT ![1] = x]
       PROVE  Numbered(d)
  <2> DEFINE r == [records EXCEPT ![1] = x]
  <2>1. DOMAIN r = 1..n /\ Len(r) = n /\ \A k \in 1..n : r[k] = IF k = 1 THEN x ELSE records[k]
    BY <1>1
  <2>2. n = Len(records)
    BY DEF n
  <2> HIDE DEF r
  <2>3. \A k \in 1..n : Sound(r[k])
    <3> TAKE k \in 1..n
    <3>1. r[k] = IF k = 1 THEN x ELSE records[k]
      BY <2>1
    <3> QED BY <1>5, <1>12, <2>2, <3>1
  <2>4. d.records = r
    BY <1>12 DEF r
  <2> QED BY <1>1, <2>1, <2>3, <2>4, NumberedBy
<1>13. Sound(records[1]) /\ records[1] = Fetch(PlainChain, q[1])
  <2>1. n = Len(records)
    BY DEF n
  <2> QED BY <1>1, <1>5, <2>1
<1>14. CASE d = Numbers2
  <2>1. Sound([records[1] EXCEPT !.number = @ + 1])
    BY <1>13, RenumberedSound
  <2>2. d.records = [records EXCEPT ![1] = [records[1] EXCEPT !.number = @ + 1]]
    BY <1>3, <1>14, Zenon
  <2> QED BY <1>12, <2>1, <2>2
<1>15. ASSUME NEW keys \in {ShortAddresses(records[1]), ShortSlots(records[1])},
              d = Renamed(keys)
       PROVE  Numbered(d)
  <2>1. Sound([records[1] EXCEPT !.reads = keys])
    BY <1>13, RenamedSound
  <2>2. d.records = [records EXCEPT ![1] = [records[1] EXCEPT !.reads = keys]]
    BY <1>3, <1>15, Zenon
  <2> QED BY <1>12, <2>1, <2>2
<1> HIDE DEF Renamed
<1> QED BY <1>4, <1>7, <1>8, <1>9, <1>10, <1>11, <1>14, <1>15

(* No damage makes two files of one. *)
LEMMA SpoilStep ==
  ASSUME IInv, Spoil
  PROVE  DiskInv'
<1>0. /\ DiskInv /\ stage = "stored" /\ stage' = "verify" /\ range' = range
      /\ \A i \in Held : disk[i] = FileOf(PlainChain, Numbers(Contents(i).records))
  BY DEF IInv, Spoil
<1>1. DOMAIN disk = D!Shards /\ D!Shards' = D!Shards
  BY <1>0 DEF DiskInv, D!Shards, D!NShards
<1>2. \A i \in D!Shards : \A c \in disk[i] : disk[i] = {c} /\ Numbered(c) /\ Len(c.records) # 0
  BY <1>0 DEF DiskInv
<1> SUFFICES /\ DOMAIN disk' = D!Shards
             /\ \A i \in D!Shards : \A c \in disk'[i] : disk'[i] = {c} /\ Numbered(c)
  BY <1>0, <1>1 DEF DiskInv
<1>3. CASE \E i \in Held : \E bytes \in Damaged(Contents(i)) : disk' = [disk EXCEPT ![i] = bytes]
  <2>0. PICK i \in Held : \E bytes \in Damaged(Contents(i)) : disk' = [disk EXCEPT ![i] = bytes]
    BY <1>3
  <2>1. PICK bytes \in Damaged(Contents(i)) : disk' = [disk EXCEPT ![i] = bytes]
    BY <2>0
  <2> DEFINE c == Contents(i)
             q == Numbers(c.records)
  <2>2. i \in D!Shards /\ c \in disk[i]
    BY <1>1, <2>1 DEF Held, Contents
  <2>3. Numbered(c) /\ Len(c.records) # 0 /\ disk[i] = {c}
    BY <1>2, <2>2
  <2>4. disk[i] = FileOf(PlainChain, q)
    BY <1>0
  <2> HIDE DEF c
  <2>5. DOMAIN q = DOMAIN c.records
    BY DEF Numbers
  <2> HIDE DEF q
  <2>6. c = [records |-> [k \in DOMAIN q |-> Fetch(PlainChain, q[k])],
             decodes |-> TRUE, copy |-> 0]
    BY <2>3, <2>4 DEF FileOf
  <2>7. bytes \in Damaged(c)
    BY DEF c
  <2>8. \A d \in bytes : bytes = {d} /\ Numbered(d)
    BY <2>3, <2>5, <2>6, <2>7, DamagedFile
  <2>9. /\ DOMAIN disk' = D!Shards /\ disk'[i] = bytes
        /\ \A j \in D!Shards : j # i => disk'[j] = disk[j]
    BY <1>1, <2>1, <2>2
  <2> QED BY <1>2, <2>8, <2>9
<1>4. CASE \E i, j \in Held :
             i < j /\ disk' = [disk EXCEPT ![i] = disk[j], ![j] = disk[i]]
  <2>1. PICK i \in Held, j \in Held :
          i < j /\ disk' = [disk EXCEPT ![i] = disk[j], ![j] = disk[i]]
    BY <1>4
  <2>2. i \in D!Shards /\ j \in D!Shards
    BY <1>1 DEF Held
  <2>3. DOMAIN disk' = D!Shards /\ \A k \in D!Shards : \E l \in D!Shards : disk'[k] = disk[l]
    BY <1>1, <2>1, <2>2
  <2> QED BY <1>2, <2>3
<1> QED BY <1>3, <1>4 DEF Spoil

(* Every step keeps the invariant. *)
LEMMA NextInv == IInv /\ [Next]_vars => IInv'
<1> SUFFICES ASSUME IInv, [Next]_vars PROVE IInv'
  OBVIOUS
<1>0. RangeInv /\ ManifestInv /\ DiskInv /\ LoaderInv
  BY DEF IInv
<1>1. range' = range /\ manifest' = manifest
  BY DEF Next, Keep, Spoil, VerifyLoad, LoaderNext, Open, Fill, NextRecord, Conclude, Proceed,
         Measure, Conclusions, vars, directory
<1>2. RangeInv'
  BY <1>0, <1>1 DEF RangeInv
<1>3. ManifestInv'
  BY <1>0, <1>1 DEF ManifestInv, Faithful, D!Shards, D!NShards
<1>4. ASSUME UNCHANGED <<range, directory>>, stage' = "stored" => stage = "stored" PROVE DiskInv'
  <2>1. disk' = disk /\ D!Shards' = D!Shards
    BY <1>4 DEF directory, D!Shards, D!NShards
  <2> QED BY <1>0, <1>4, <2>1 DEF DiskInv
<1>5. ASSUME UNCHANGED <<range, directory, loader>>, stage' = "stored" => stage = "stored"
      PROVE  LoaderInv'
  <2>1. /\ Records' = Records /\ Whole' = Whole
        /\ (Opens' <=> Opens) /\ (Accepts' <=> Accepts)
        /\ \A n : (Loads(n)' <=> Loads(n)) /\ Stream(n)' = Stream(n)
    BY <1>5, DirectoryFrame
  <2>2. UNCHANGED <<verdict, next_shard, buffer, prev, gaps, yielded>>
    BY <1>5 DEF loader
  <2>3. LoaderInit => LoaderInit'
    BY <2>2 DEF LoaderInit
  <2>4. Streaming => Streaming'
    <3> SUFFICES ASSUME Streaming PROVE Streaming'
      OBVIOUS
    <3>1. Loads(next_shard - 1)' /\ Stream(next_shard - 1)' = Stream(next_shard - 1)
      BY <2>1, <2>2 DEF Streaming, Loads, Loading
    <3> QED BY <1>1, <2>1, <2>2, <3>1 DEF Streaming, Gapless
  <2> QED BY <1>0, <1>5, <2>1, <2>2, <2>3, <2>4 DEF LoaderInv
<1>6. CASE Keep
  BY <1>0, <1>2, <1>3, <1>4, <1>5, <1>6 DEF Keep, IInv
<1>7. CASE Spoil
  <2>1. DiskInv'
    BY <1>7, SpoilStep
  <2>2. verdict = "open" /\ LoaderInit /\ stage' = "verify"
    BY <1>0, <1>7 DEF Spoil, LoaderInv
  <2>3. LoaderInv'
    BY <1>7, <2>2 DEF Spoil, LoaderInv, loader, LoaderInit
  <2> QED BY <1>2, <1>3, <2>1, <2>3 DEF IInv
<1>8. CASE VerifyLoad
  <2>1. UNCHANGED <<range, directory>> /\ stage' = stage
    BY <1>8 DEF VerifyLoad, LoaderNext, Open, Fill, NextRecord, Conclude
  <2>2. LoaderInv'
    BY <1>8, LoaderStep
  <2> QED BY <1>2, <1>3, <1>4, <2>1, <2>2 DEF IInv
<1>9. CASE Proceed \/ Measure \/ Conclusions
  <2>1. UNCHANGED <<range, directory, loader>> /\ (stage' = "stored" => stage = "stored")
    BY <1>9 DEF Proceed, Measure, Conclusions
  <2> QED BY <1>2, <1>3, <1>4, <1>5, <2>1 DEF IInv
<1>10. CASE UNCHANGED vars
  <2>1. UNCHANGED <<range, directory, loader>> /\ stage' = stage
    BY <1>10 DEF vars
  <2> QED BY <1>2, <1>3, <1>4, <1>5, <2>1 DEF IInv
<1> QED BY <1>6, <1>7, <1>8, <1>9, <1>10 DEF Next

(* The files that the manifest lists are in order and were whole when it   *)
(* was written; verify-load has streamed what the shards so far hold, says *)
(* OK to no directory but one that it accepts as a whole, and fails no     *)
(* other (loader.rs 106-141, main.rs 72-107).                              *)
THEOREM ExperimentInvariant == Spec => []IInv
<1>1. Init => IInv
  BY InitInv
<1>2. IInv /\ [Next]_vars => IInv'
  BY NextInv
<1> QED BY <1>1, <1>2, PTL DEF Spec

-----------------------------------------------------------------------------
(* What is accepted.                                                       *)

Firsts == [j \in 1..NEntries |-> Entry(j).first]
Lasts == [j \in 1..NEntries |-> Entry(j).last]

(* Lists as long as the entries say are as long as the ranges. *)
LEMMA EntriesSpan ==
  ASSUME ManifestInv, NEW X, NEW ls,
         \A j \in 1..NEntries : ls[j] \in Seq(X) /\ Len(ls[j]) = Entry(j).count
  PROVE  /\ Spans(Firsts, Lasts, Lengths(ls, NEntries), NEntries)
         /\ Flat(ls, NEntries) \in Seq(X)
         /\ \A j \in 0..NEntries : Lengths(ls, NEntries)[j] = Len(Flat(ls, j))
         /\ \A j \in 1..NEntries : Len(ls[j]) = Lasts[j] - Firsts[j] + 1
<1> DEFINE n == NEntries
           L == Lengths(ls, n)
<1>1. /\ n \in Nat /\ \A i \in 1..n : Faithful(Entry(i))
      /\ \A i, j \in 1..n : i < j => Entry(i).last < Entry(j).first
  BY EntriesAre
<1>2. \A j \in 1..n : /\ Entry(j).first \in Int /\ Entry(j).last \in Int
                      /\ Entry(j).first <= Entry(j).last
                      /\ Entry(j).count = Entry(j).last - Entry(j).first + 1
  BY <1>1 DEF Faithful
<1>3. \A j \in 1..n : Firsts[j] = Entry(j).first /\ Lasts[j] = Entry(j).last
  BY DEF Firsts, Lasts
<1> HIDE DEF n
<1>4. /\ \A j \in 0..n : Flat(ls, j) \in Seq(X) /\ L[j] = Len(Flat(ls, j))
      /\ L[0] = 0
      /\ \A j \in 1..n : L[j] = L[j - 1] + Len(ls[j])
  <2>1. \A j \in 1..n : ls[j] \in Seq(X)
    BY DEF n
  <2> QED BY <1>1, <2>1, LengthsAre
<1> HIDE DEF L
<1>5. \A j \in 1..n : Len(ls[j]) = Lasts[j] - Firsts[j] + 1
  <2> TAKE j \in 1..n
  <2>1. Len(ls[j]) = Entry(j).count
    BY DEF n
  <2> QED BY <1>2, <1>3, <2>1
<1>6. \A j \in 1..n : Firsts[j] \in Int /\ Lasts[j] \in Int /\ Firsts[j] <= Lasts[j]
  BY <1>2, <1>3
<1>7. \A i, j \in 1..n : i < j => Lasts[i] < Firsts[j]
  BY <1>1, <1>3
<1>8. \A j \in 1..n : L[j] = L[j - 1] + (Lasts[j] - Firsts[j] + 1)
  BY <1>4, <1>5
<1>9. Spans(Firsts, Lasts, L, n)
  BY <1>1, <1>4, <1>6, <1>7, <1>8 DEF Spans
<1>10. n \in 0..n
  BY <1>1
<1> QED BY <1>4, <1>5, <1>9, <1>10 DEF n, L

(* The entries are in the range. *)
LEMMA EntriesInside ==
  ASSUME RangeInv, ManifestInv
  PROVE  /\ \A j \in 1..NEntries : range[1] <= Firsts[j] /\ Lasts[j] <= range[2]
         /\ NEntries # 0 => range[1] <= range[2]
<1>1. \A j \in 1..NEntries :
        /\ range[1] <= Firsts[j] /\ Lasts[j] <= range[2] /\ Firsts[j] <= Lasts[j]
        /\ Firsts[j] \in Int /\ Lasts[j] \in Int
  BY EntriesAre DEF Faithful, Firsts, Lasts
<1>2. ASSUME NEntries # 0 PROVE range[1] <= range[2]
  <2>1. 1 \in 1..NEntries
    BY <1>2, EntriesAre
  <2>2. /\ range[1] <= Firsts[1] /\ Lasts[1] <= range[2] /\ Firsts[1] <= Lasts[1]
        /\ Firsts[1] \in Int /\ Lasts[1] \in Int /\ range[1] \in Int /\ range[2] \in Int
    BY <1>1, <2>1 DEF RangeInv
  <2> QED BY <2>2
<1> QED BY <1>1, <1>2

(* Lists that join to as many elements as the range has blocks leave no    *)
(* room: the entries are the range, end to end.                            *)
LEMMA EntriesCover ==
  ASSUME RangeInv, ManifestInv, NEW X, NEW ls,
         \A j \in 1..NEntries : ls[j] \in Seq(X) /\ Len(ls[j]) = Entry(j).count,
         NEntries # 0, Len(Flat(ls, NEntries)) = range[2] - range[1] + 1
  PROVE  /\ EndToEnd(Firsts, Lasts, NEntries, range[1], range[2])
         /\ \A j \in 1..NEntries : Len(Flat(ls, j - 1)) = Firsts[j] - range[1]
<1> DEFINE n == NEntries
           L == Lengths(ls, n)
<1>1. Spans(Firsts, Lasts, L, n) /\ \A j \in 0..n : L[j] = Len(Flat(ls, j))
  BY EntriesSpan
<1>2. \A j \in 1..n : range[1] <= Firsts[j] /\ Lasts[j] <= range[2]
  BY EntriesInside
<1>3. n \in Nat /\ n # 0 /\ range[1] \in Int /\ range[2] \in Int
  BY EntriesAre DEF RangeInv
<1>4. L[n] = range[2] - range[1] + 1
  <2>1. n \in 0..n
    BY <1>3
  <2>2. L[n] = Len(Flat(ls, n))
    BY <1>1, <2>1
  <2> QED BY <2>2
<1> HIDE DEF n, L
<1>5. /\ EndToEnd(Firsts, Lasts, n, range[1], range[2])
      /\ \A j \in 1..n : L[j - 1] = Firsts[j] - range[1]
  <2>1. Spans(Firsts, Lasts, L, n)
    BY <1>1
  <2>2. Within(Firsts, Lasts, n, range[1], range[2])
    BY <1>2 DEF Within
  <2>3. EndToEnd(Firsts, Lasts, n, range[1], range[2]) /\ Placed(Firsts, L, n, range[1])
    BY <1>3, <1>4, <2>1, <2>2, SpansCover
  <2> QED BY <2>3 DEF Placed
<1>6. \A j \in 1..n : Len(Flat(ls, j - 1)) = L[j - 1]
  <2> TAKE j \in 1..n
  <2>1. j - 1 \in 0..n
    BY <1>3
  <2> QED BY <1>1, <2>1
<1> QED BY <1>5, <1>6 DEF n

(* The remainder of the length of a range that is short enough. *)
LEMMA Remainder ==
  ASSUME NEW x \in Int, NEW d \in Nat \ {0}
  PROVE  /\ 0 <= x /\ x < d => x % d = x
         /\ x % d = 0 /\ -d < x /\ x <= 0 => x = 0
OBVIOUS

(* The stream of a directory that is accepted. *)
LEMMA AcceptedLists ==
  ASSUME ManifestInv, DiskInv, Accepts
  PROVE  /\ \A j \in 1..NEntries : /\ Lists[j] \in Seq(Records)
                                   /\ Len(Lists[j]) = Entry(j).count
                                   /\ Read(Entry(j)) = {Lists[j]}
                                   /\ verify_sha => Intact(Entry(j))
         /\ Whole \in Seq(Records) /\ Whole = Flat(Lists, NEntries)
<1>1. NEntries \in Nat /\ Loads(NEntries) /\ NEntries \in 0..NEntries
  BY EntriesAre DEF Accepts, NEntries
<1>2. \A j \in 1..NEntries : /\ Lists[j] \in Seq(Records)
                             /\ Len(Lists[j]) = Entry(j).count
                             /\ Read(Entry(j)) = {Lists[j]}
                             /\ verify_sha => Intact(Entry(j))
  BY <1>1, LoadedLists
<1>3. Whole = Flat(Lists, NEntries)
  BY DEF Whole, Stream, NEntries
<1>4. Flat(Lists, NEntries) \in Seq(Records)
  BY <1>1, <1>2, FlatTyped
<1> QED BY <1>2, <1>3, <1>4

(* It has as many blocks as the range, though their number wraps. *)
LEMMA AcceptedLength ==
  ASSUME RangeInv, ManifestInv, DiskInv, Accepts
  PROVE  /\ range[1] <= range[2] => /\ Len(Whole) = range[2] - range[1] + 1
                                    /\ NEntries # 0
         /\ range[2] < range[1] => /\ Whole = <<>> /\ NEntries = 0
                                   /\ range[2] = range[1] - 1
<1> DEFINE d == 2 ^ Width
           s == range[1]
           e == range[2]
<1>1. /\ s \in Int /\ e \in Int /\ e < d - 1 /\ d \in Nat \ {0}
      /\ manifest.start = s /\ manifest.end = e
  BY WidthAssumption DEF RangeInv
<1>2. s \in 0..d - 1 /\ e \in 0..d - 1
  BY <1>1 DEF Accepts, Opens, ManifestLoads
<1>3. Len(Whole) = (e - s + 1) % d
  BY <1>1 DEF Accepts, BlockSpan
<1>4. NEntries \in Nat /\ Whole = Flat(Lists, NEntries) /\ Whole \in Seq(Records)
  BY EntriesAre, AcceptedLists
<1>5. NEntries = 0 => Whole = <<>> /\ Len(Whole) = 0
  BY <1>4, FlatTyped
<1> HIDE DEF d, s, e
<1>6. CASE s <= e
  <2>1. e - s + 1 \in Int /\ 0 <= e - s + 1 /\ e - s + 1 < d /\ e - s + 1 # 0
    BY <1>1, <1>2, <1>6
  <2>2. (e - s + 1) % d = e - s + 1
    BY <1>1, <2>1, Remainder
  <2>3. ~(e < s)
    BY <1>1, <1>6
  <2> QED BY <1>3, <1>5, <2>1, <2>2, <2>3 DEF s, e
<1>7. CASE ~(s <= e)
  <2>1. NEntries = 0
    BY <1>7, EntriesInside DEF s, e
  <2>2. e - s + 1 \in Int /\ -d < e - s + 1 /\ e - s + 1 <= 0
    BY <1>1, <1>2, <1>7
  <2>3. e - s + 1 = 0
    BY <1>1, <1>3, <1>5, <2>1, <2>2, Remainder
  <2>4. e = s - 1
    BY <1>1, <2>3
  <2> QED BY <1>5, <1>7, <2>1, <2>4 DEF s, e
<1> QED BY <1>6, <1>7

(* One file that is as it was stored fixes the numbers of all. *)
LEMMA AcceptedNumbers ==
  ASSUME RangeInv, ManifestInv, DiskInv, Accepts, range[1] <= range[2],
         NEW j \in 1..NEntries, Intact(Entry(j))
  PROVE  \A i \in 1..Len(Whole) : Whole[i].number = range[1] + i - 1
<1> DEFINE n == NEntries
           s == range[1]
           p == Firsts[j] - s + 1
           q == [i \in 1..Len(Whole) |-> Whole[i].number]
<1>1. n \in Nat /\ n # 0 /\ Len(Whole) = range[2] - s + 1 /\ s \in Int
  BY EntriesAre, AcceptedLength DEF RangeInv
<1>2. /\ \A i \in 1..n : Lists[i] \in Seq(Records) /\ Len(Lists[i]) = Entry(i).count
      /\ Whole \in Seq(Records) /\ Whole = Flat(Lists, n)
  BY AcceptedLists
<1>3. Len(Flat(Lists, j - 1)) = Firsts[j] - s
  BY <1>1, <1>2, EntriesCover
<1>4. /\ Firsts[j] = Entry(j).first /\ Firsts[j] \in Int /\ s <= Firsts[j]
      /\ Entry(j).count \in Nat \ {0}
  <2>1. Faithful(Entry(j))
    BY EntriesAre
  <2>2. /\ Entry(j).first \in Int /\ Entry(j).last \in Int /\ Entry(j).first <= Entry(j).last
        /\ Entry(j).count = Entry(j).last - Entry(j).first + 1 /\ range[1] <= Entry(j).first
    BY <2>1 DEF Faithful
  <2>3. Firsts[j] = Entry(j).first
    BY DEF Firsts
  <2> QED BY <2>2, <2>3
<1>5. Lists[j][1].number = Firsts[j] /\ 1 \in 1..Len(Lists[j])
  <2>1. Read(Entry(j)) = {Lists[j]}
    BY AcceptedLists
  <2>2. Len(Lists[j]) = Entry(j).count /\ Runs(Lists[j], NumberOf, Entry(j).first)
    BY <2>1, IntactReads
  <2>3. 1 \in 1..Len(Lists[j])
    BY <1>4, <2>2
  <2>4. NumberOf[Lists[j][1]] = Entry(j).first + 1 - 1
    BY <2>2, <2>3 DEF Runs
  <2>5. Lists[j][1] \in Records
    BY <1>2, <2>3, ElementOfSeq
  <2> QED BY <1>4, <2>3, <2>4, <2>5 DEF NumberOf
<1> HIDE DEF n, q
<1>6. p \in 1..Len(Whole) /\ Whole[p] = Lists[j][1]
  <2> DEFINE o == Len(Flat(Lists, j - 1)) + 1
  <2>1. j \in 1..n /\ \A i \in 1..n : Lists[i] \in Seq(Records)
    BY <1>2 DEF n
  <2>2. o \in 1..Len(Flat(Lists, n)) /\ Flat(Lists, n)[o] = Lists[j][1]
    <3> DEFINE ls == Lists
    <3>1. n \in Nat /\ j \in 1..n /\ 1 \in 1..Len(ls[j])
      BY <1>1, <1>5, <2>1
    <3>2. \A i \in 1..n : ls[i] \in Seq(Records)
      BY <2>1
    <3> HIDE DEF ls
    <3>3. /\ Len(Flat(ls, j - 1)) + 1 \in 1..Len(Flat(ls, n))
          /\ Flat(ls, n)[Len(Flat(ls, j - 1)) + 1] = ls[j][1]
      BY <3>1, <3>2, FlatPlace
    <3> QED BY <3>3 DEF ls
  <2>3. o = p
    BY <1>3
  <2> HIDE DEF o, p
  <2> QED BY <1>2, <2>2, <2>3
<1>7. Len(Whole) \in Nat /\ \A i \in 1..Len(Whole) : q[i] \in Int /\ q[i] = Whole[i].number
  <2>1. \A i \in 1..Len(Whole) : Whole[i] \in Records
    BY <1>2, ElementOfSeq
  <2>2. \A i \in 1..Len(Whole) : q[i] = Whole[i].number
    BY DEF q
  <2> QED BY <1>2, <2>1, <2>2, RecordsNumbered
<1>8. \A i \in 1..Len(Whole) - 1 : q[i + 1] = q[i] + 1
  <2> TAKE i \in 1..Len(Whole) - 1
  <2>1. i \in 1..Len(Whole) /\ i + 1 \in 1..Len(Whole)
    BY <1>7
  <2>2. Whole[i + 1].number = Whole[i].number + 1
    BY DEF Accepts, Gapless
  <2> QED BY <1>7, <2>1, <2>2
<1>9. \A i \in 1..Len(Whole) : q[i] = q[1] + i - 1
  BY <1>7, <1>8, Counting
<1>10. q[1] = s
  <2>1. q[p] = Firsts[j]
    BY <1>5, <1>6, <1>7
  <2>2. q[p] = q[1] + p - 1
    BY <1>6, <1>9
  <2>3. q[1] \in Int
    <3>1. 1 \in 1..Len(Whole)
      BY <1>6, <1>7
    <3> QED BY <1>7, <3>1
  <2> QED BY <1>1, <1>4, <2>1, <2>2, <2>3
<1> QED BY <1>7, <1>9, <1>10

(* The blocks of a stream are a range if they have its numbers in turn. *)
LEMMA BlocksOfRun ==
  ASSUME NEW f, NEW s \in Int, NEW e \in Int, Len(f) = e - s + 1, s <= e, DOMAIN f = 1..Len(f),
         \A i \in 1..Len(f) : f[i].number = s + i - 1
  PROVE  ToSet(Numbers(f)) = s..e
<1>1. ToSet(Numbers(f)) = {f[i].number : i \in 1..Len(f)}
  BY DEF ToSet, Numbers
<1>2. ASSUME NEW i \in 1..Len(f) PROVE f[i].number \in s..e
  BY <1>2
<1>3. ASSUME NEW b \in s..e PROVE \E i \in 1..Len(f) : f[i].number = b
  <2>1. b - s + 1 \in 1..Len(f) /\ s + (b - s + 1) - 1 = b
    OBVIOUS
  <2> QED BY <2>1
<1> QED BY <1>1, <1>2, <1>3

(* The four parts of AcceptedIsTheRange follow. *)
LEMMA AcceptedProperty == IInv => AcceptedIsTheRange
<1> SUFFICES ASSUME IInv, verdict = "ok"
             PROVE  /\ Len(yielded) = Cardinality(BlockRange)
                    /\ \A i \in 1..Len(yielded) - 1 :
                         yielded[i + 1].number = yielded[i].number + 1
                    /\ verify_sha \/ (\E entry \in ToSet(manifest.shards) : Intact(entry)) =>
                         ToSet(Numbers(yielded)) = BlockRange
                    /\ FlattenSeq([i \in DOMAIN manifest.shards |->
                                     CHOOSE records \in SweepReads[i] : TRUE]) = yielded
  BY DEF AcceptedIsTheRange
<1>0. RangeInv /\ ManifestInv /\ DiskInv /\ Accepts /\ yielded = Whole
  BY DEF IInv, LoaderInv
<1>1. range[1] \in Int /\ range[2] \in Int /\ BlockRange = range[1]..range[2]
  BY <1>0 DEF RangeInv, BlockRange
<1>2. /\ range[1] <= range[2] => Len(Whole) = range[2] - range[1] + 1 /\ NEntries # 0
      /\ range[2] < range[1] => Whole = <<>>
  BY <1>0, AcceptedLength
<1>3. Whole \in Seq(Records) /\ Whole = Flat(Lists, NEntries) /\ NEntries \in Nat
  BY <1>0, AcceptedLists, EntriesAre
<1>4. Len(Whole) = Cardinality(BlockRange)
  <2>1. CASE range[1] <= range[2]
    BY <1>1, <1>2, <2>1, RangeEnds
  <2>2. CASE ~(range[1] <= range[2])
    <3>1. BlockRange = {} /\ Len(Whole) = 0
      BY <1>1, <1>2, <2>2
    <3> QED BY <3>1, FS_EmptySet
  <2> QED BY <2>1, <2>2
<1>5. \A i \in 1..Len(Whole) - 1 : Whole[i + 1].number = Whole[i].number + 1
  BY <1>0 DEF Accepts, Gapless
<1>6. ASSUME verify_sha \/ (\E entry \in ToSet(manifest.shards) : Intact(entry))
      PROVE  ToSet(Numbers(Whole)) = BlockRange
  <2>1. CASE range[1] <= range[2]
    <3>1. PICK j \in 1..NEntries : Intact(Entry(j))
      <4>1. CASE verify_sha
        <5>1. 1 \in 1..NEntries
          BY <1>2, <1>3, <2>1
        <5> QED BY <1>0, <4>1, <5>1, AcceptedLists
      <4>2. CASE \E entry \in ToSet(manifest.shards) : Intact(entry)
        <5>1. DOMAIN manifest.shards = 1..NEntries
          BY <1>0, EntriesAre
        <5> QED BY <4>2, <5>1 DEF ToSet, Entry
      <4> QED BY <1>6, <4>1, <4>2
    <3>2. \A i \in 1..Len(Whole) : Whole[i].number = range[1] + i - 1
      BY <1>0, <2>1, <3>1, AcceptedNumbers
    <3>3. DOMAIN Whole = 1..Len(Whole)
      BY <1>3
    <3> QED BY <1>1, <1>2, <2>1, <3>2, <3>3, BlocksOfRun
  <2>2. CASE ~(range[1] <= range[2])
    <3>1. BlockRange = {} /\ Whole = <<>>
      BY <1>1, <1>2, <2>2
    <3>2. ToSet(Numbers(<<>>)) = {}
      BY DEF ToSet, Numbers
    <3> QED BY <3>1, <3>2
  <2> QED BY <2>1, <2>2
<1>7. FlattenSeq([i \in DOMAIN manifest.shards |->
                    CHOOSE records \in SweepReads[i] : TRUE]) = Whole
  <2>1. FlattenSeq(Lists) = Whole
    <3>1. Lists = [i \in 1..NEntries |-> Lists[i]]
      BY <1>0, EntriesAre DEF Lists
    <3> QED BY <1>3, <3>1, FlatAll
  <2>2. Lists = [i \in DOMAIN manifest.shards |-> CHOOSE records \in SweepReads[i] : TRUE]
    BY DEF Lists
  <2> QED BY <2>1, <2>2
<1> QED BY <1>0, <1>4, <1>5, <1>6, <1>7

-----------------------------------------------------------------------------
(* What the scraper's verify passes.                                       *)

AllIntact == \A i \in 1..NEntries : Intact(Entry(i))
CoversRange == EndToEnd(Firsts, Lasts, NEntries, range[1], range[2])

(* A list of entries in order is its own sorted list. *)
LEMMA CoveredIsListed ==
  ASSUME ManifestInv
  PROVE  D!Covered(manifest.shards) = [r \in 1..NEntries |-> Entry(r)]
<1> DEFINE m == manifest.shards
           I == 1..NEntries
           Below(j) == {i \in I : D!Before(m, i, j)}
<1>1. /\ NEntries \in Nat /\ DOMAIN m = I /\ \A i \in I : m[i] = Entry(i)
      /\ \A i, j \in I : i < j => m[i].last < m[j].first
      /\ \A i \in I : m[i].first \in Int /\ m[i].last \in Int /\ m[i].first <= m[i].last
  BY EntriesAre DEF Entry, Faithful
<1>2. \A i, j \in I : D!Before(m, i, j) <=> i < j
  <2> TAKE i, j \in I
  <2>1. /\ m[i].first \in Int /\ m[j].first \in Int /\ m[i].last \in Int /\ m[j].last \in Int
        /\ m[i].first <= m[i].last /\ m[j].first <= m[j].last
        /\ (i < j => m[i].last < m[j].first) /\ (j < i => m[j].last < m[i].first)
    BY <1>1
  <2>2. i < j \/ i = j \/ j < i
    OBVIOUS
  <2> QED BY <2>1, <2>2 DEF D!Before
<1>3. \A j \in I : Cardinality(Below(j)) = j - 1
  <2> TAKE j \in I
  <2>1. Below(j) = 1..j - 1
    BY <1>1, <1>2
  <2>2. 1 \in Int /\ j - 1 \in Int
    OBVIOUS
  <2>3. Cardinality(1..j - 1) = IF 1 > j - 1 THEN 0 ELSE j - 1 - 1 + 1
    BY <2>2, FS_Interval
  <2>4. (IF 1 > j - 1 THEN 0 ELSE j - 1 - 1 + 1) = j - 1
    OBVIOUS
  <2> QED BY <2>1, <2>3, <2>4
<1>4. \A j \in I : D!Cardinality(Below(j)) = j - 1
  BY <1>3, SameLibrary
<1>5. \A r \in I : (CHOOSE j \in I : D!Cardinality(Below(j)) = r - 1) = r
  <2> TAKE r \in I
  <2>1. \A j \in I : D!Cardinality(Below(j)) = r - 1 <=> j = r
    <3> TAKE j \in I
    <3>1. D!Cardinality(Below(j)) = j - 1
      BY <1>4
    <3> HIDE DEF Below
    <3> QED BY <3>1
  <2> HIDE DEF I, Below
  <2> QED BY <2>1
<1>6. D!Covered(m) = [r \in I |-> m[CHOOSE j \in I : D!Cardinality(Below(j)) = r - 1]]
  BY <1>1 DEF D!Covered
<1> HIDE DEF Below, I
<1>7. D!Covered(m) = [r \in I |-> m[r]]
  BY <1>5, <1>6
<1> QED BY <1>1, <1>7 DEF I

(* A directory passes if every file is as it was stored and the shards are *)
(* the range, end to end.                                                  *)
LEMMA PassedIs ==
  ASSUME RangeInv, ManifestInv
  PROVE  D!Verify(manifest.shards, disk) <=> AllIntact /\ CoversRange
<1> DEFINE m == manifest.shards
           n == NEntries
           covered == D!Covered(m)
           Complete(c) ==
             /\ c # <<>>
             /\ \A i \in DOMAIN c :
                  c[i].first = IF i = 1 THEN range[1] ELSE c[i - 1].last + 1
             /\ c[Len(c)].last = range[2]
<1>1. n \in Nat /\ DOMAIN m = 1..n /\ \A i \in 1..n : Faithful(m[i]) /\ m[i] = Entry(i)
  BY EntriesAre DEF Entry
<1>2. covered = [r \in 1..n |-> Entry(r)]
  BY CoveredIsListed
<1>3. D!Verify(m, disk) <=>
        /\ \A i \in DOMAIN m : /\ disk[m[i].file] # D!NoFile
                               /\ disk[m[i].file] = m[i].sha
                               /\ m[i].last - m[i].first + 1 = m[i].count
        /\ Complete(covered)
  BY DEF D!Verify
<1>4. ASSUME NEW i \in 1..n
      PROVE  (/\ disk[m[i].file] # D!NoFile
              /\ disk[m[i].file] = m[i].sha
              /\ m[i].last - m[i].first + 1 = m[i].count) <=> Intact(Entry(i))
  BY <1>1 DEF Faithful, Intact, D!NoFile
<1> HIDE DEF covered
<1>5. DOMAIN covered = 1..n /\ Len(covered) = n /\ \A r \in 1..n : covered[r] = Entry(r)
      /\ (covered # <<>> <=> n # 0)
  BY <1>1, <1>2
<1>6. \A r \in 1..n : Firsts[r] = covered[r].first /\ Lasts[r] = covered[r].last
  BY <1>5 DEF Firsts, Lasts
<1>7. Complete(covered) <=> CoversRange
  <2>1. ASSUME n # 0 PROVE covered[Len(covered)].last = Lasts[n]
    <3>1. n \in 1..n
      BY <1>1, <2>1
    <3> QED BY <1>5, <1>6, <3>1
  <2>2. \A i \in 1..n : (IF i = 1 THEN range[1] ELSE covered[i - 1].last + 1)
                          = IF i = 1 THEN range[1] ELSE Lasts[i - 1] + 1
    <3> TAKE i \in 1..n
    <3>1. i # 1 => i - 1 \in 1..n
      BY <1>1
    <3> QED BY <1>6, <3>1
  <2>3. (\A i \in 1..n : covered[i].first = IF i = 1 THEN range[1] ELSE covered[i - 1].last + 1)
          <=> (\A i \in 1..n : Firsts[i] = IF i = 1 THEN range[1] ELSE Lasts[i - 1] + 1)
    BY <1>6, <2>2
  <2>4. CASE n = 0
    BY <1>5, <2>4 DEF CoversRange, EndToEnd
  <2>5. CASE n # 0
    <3> DEFINE A == \A i \in 1..n :
                      covered[i].first = IF i = 1 THEN range[1] ELSE covered[i - 1].last + 1
               B == \A i \in 1..n : Firsts[i] = IF i = 1 THEN range[1] ELSE Lasts[i - 1] + 1
    <3>1. Complete(covered) <=> A /\ covered[Len(covered)].last = range[2]
      BY <1>5, <2>5
    <3>2. CoversRange <=> B /\ Lasts[n] = range[2]
      BY <2>5 DEF CoversRange, EndToEnd
    <3>3. A <=> B
      BY <2>3
    <3> HIDE DEF A, B, Complete
    <3> QED BY <2>1, <2>5, <3>1, <3>2, <3>3
  <2> QED BY <2>4, <2>5
<1> HIDE DEF Complete
<1>8. (\A i \in DOMAIN m : /\ disk[m[i].file] # D!NoFile
                           /\ disk[m[i].file] = m[i].sha
                           /\ m[i].last - m[i].first + 1 = m[i].count) <=> AllIntact
  BY <1>1, <1>4 DEF AllIntact
<1> QED BY <1>3, <1>7, <1>8

(* A list of records that runs on has no gap. *)
LEMMA RunIsGapless ==
  ASSUME ManifestInv, DiskInv, NEW f \in Seq(Records), NEW s \in Int, Runs(f, NumberOf, s)
  PROVE  Gapless(f)
<1> SUFFICES ASSUME NEW i \in 1..Len(f) - 1 PROVE f[i + 1].number = f[i].number + 1
  BY DEF Gapless
<1>1. i \in 1..Len(f) /\ i + 1 \in 1..Len(f)
  OBVIOUS
<1>2. NumberOf[f[i]] = s + i - 1 /\ NumberOf[f[i + 1]] = s + (i + 1) - 1
  BY <1>1 DEF Runs
<1>3. f[i] \in Records /\ f[i + 1] \in Records
  BY <1>1, ElementOfSeq
<1>4. f[i].number = s + i - 1 /\ f[i + 1].number = s + (i + 1) - 1
  BY <1>2, <1>3 DEF NumberOf
<1> QED BY <1>4

(* What passes is accepted. *)
LEMMA PassedIsAccepted ==
  ASSUME RangeInv, ManifestInv, DiskInv, AllIntact, CoversRange, AssertSchemaV1
  PROVE  Accepts
<1> DEFINE n == NEntries
           s == range[1]
           e == range[2]
           d == 2 ^ Width
<1>1. n \in Nat \ {0} /\ s \in Int /\ e \in Int
  BY EntriesAre DEF CoversRange, EndToEnd, RangeInv
<1>2. ASSUME NEW j \in 1..n
      PROVE  /\ Loading(Entry(j)) # {} /\ Lists[j] \in Seq(Records)
             /\ Len(Lists[j]) = Entry(j).count /\ Runs(Lists[j], NumberOf, Firsts[j])
  <2>1. PICK rs \in Read(Entry(j)) :
          Len(rs) = Entry(j).count /\ Runs(rs, NumberOf, Entry(j).first)
    BY IntactReads DEF AllIntact
  <2>2. Lists[j] = rs /\ rs \in Seq(Records)
    BY <2>1, ReadsAre, RecordsNumbered
  <2>3. Firsts[j] = Entry(j).first
    BY DEF Firsts
  <2> QED BY <2>1, <2>2, <2>3 DEF Loading
<1>3. Loads(n)
  BY <1>2 DEF Loads, Entry
<1>4. /\ Spans(Firsts, Lasts, Lengths(Lists, n), n)
      /\ Flat(Lists, n) \in Seq(Records)
      /\ \A j \in 0..n : Lengths(Lists, n)[j] = Len(Flat(Lists, j))
      /\ \A j \in 1..n : Len(Lists[j]) = Lasts[j] - Firsts[j] + 1
  BY <1>2, EntriesSpan
<1>5. EndToEnd(Firsts, Lasts, n, s, e)
  BY DEF CoversRange
<1>6. s <= e /\ Lengths(Lists, n)[n] = e - s + 1
  BY <1>1, <1>4, <1>5, EndToEndSpans
<1>7. Len(Flat(Lists, n)) = e - s + 1
  <2>1. n \in 0..n
    BY <1>1
  <2>2. Lengths(Lists, n)[n] = Len(Flat(Lists, n))
    BY <1>4, <2>1
  <2> QED BY <1>6, <2>2
<1>8. Runs(Flat(Lists, n), NumberOf, s)
  <2>1. Numbering(Lists, Records, NumberOf, Firsts, Lasts, n)
    BY <1>2, <1>4 DEF Numbering
  <2> QED BY <1>1, <1>4, <1>5, <2>1, ListsRun
<1>9. 0 <= s /\ e <= d - 2 /\ d \in Nat \ {0}
  <2>1. Firsts[1] = s /\ Lasts[n] = e /\ 1 \in 1..n /\ n \in 1..n
    BY <1>1, <1>5 DEF EndToEnd
  <2>2. \A j \in 1..n : 0 <= Firsts[j] /\ Lasts[j] <= Latest
    BY EntriesAre DEF Faithful, Firsts, Lasts
  <2>3. Latest \in Int /\ Latest <= d - 2 /\ d \in Nat \ {0}
    BY ExperimentAssumption, WidthAssumption
  <2>4. 0 <= s /\ e <= Latest
    BY <2>1, <2>2
  <2> HIDE DEF s, e, d
  <2> QED BY <1>1, <2>3, <2>4
<1>10. manifest.start = s /\ manifest.end = e
  BY DEF RangeInv
<1> HIDE DEF n, s, e, d
<1>11. Opens
  <2>1. ManifestLoads
    <3>1. s \in 0..d - 1 /\ e \in 0..d - 1
      BY <1>1, <1>6, <1>9
    <3> QED BY <1>10, <3>1 DEF ManifestLoads, d
  <2>2. SpanFits
    <3>1. s <= e /\ e - s < d - 1
      BY <1>1, <1>6, <1>9
    <3> QED BY <1>10, <3>1 DEF SpanFits, d
  <2> QED BY <2>1, <2>2 DEF Opens
<1>12. BlockSpan = e - s + 1
  <2>1. e - s + 1 \in Int /\ 0 <= e - s + 1 /\ e - s + 1 < d
    BY <1>1, <1>6, <1>9
  <2>2. (e - s + 1) % d = e - s + 1
    BY <1>9, <2>1, Remainder
  <2> QED BY <1>10, <2>2 DEF BlockSpan, d
<1>13. Whole = Flat(Lists, n)
  BY DEF Whole, Stream, NEntries, n
<1>14. Gapless(Whole)
  BY <1>1, <1>4, <1>8, <1>13, RunIsGapless
<1>15. Loads(Len(manifest.shards))
  BY <1>3 DEF NEntries, n
<1> QED BY <1>7, <1>11, <1>12, <1>13, <1>14, <1>15 DEF Accepts

(* What is accepted with its hashes passes, but for an empty range. *)
LEMMA AcceptedPasses ==
  ASSUME RangeInv, ManifestInv, DiskInv, Accepts, verify_sha, range[2] # range[1] - 1
  PROVE  AllIntact /\ CoversRange
<1>1. range[1] \in Int /\ range[2] \in Int
  BY DEF RangeInv
<1>2. range[1] <= range[2] /\ Len(Whole) = range[2] - range[1] + 1 /\ NEntries # 0
  <2>1. ~(range[2] < range[1])
    BY AcceptedLength
  <2>2. range[1] <= range[2]
    BY <1>1, <2>1
  <2> QED BY <2>2, AcceptedLength
<1>3. /\ \A j \in 1..NEntries : /\ Lists[j] \in Seq(Records)
                                /\ Len(Lists[j]) = Entry(j).count
                                /\ Intact(Entry(j))
      /\ Whole = Flat(Lists, NEntries)
  BY AcceptedLists
<1>4. CoversRange
  BY <1>2, <1>3, EntriesCover DEF CoversRange
<1> QED BY <1>3, <1>4 DEF AllIntact

(* Dataset's view of the files. *)
View == [i \in DOMAIN disk |-> Blobs(disk[i])]

(* The blocks of an entry. *)
Span(i) == Ranked(Entry(i).first..Entry(i).last)

(* Different bytes are different blobs. *)
LEMMA BlobsTell ==
  ASSUME NEW a, NEW b, Blobs(a) = Blobs(b)
  PROVE  a = b
<1>1. ASSUME NEW bytes PROVE bytes = {x.epoch : x \in Blobs(bytes)}
  <2>1. \A c \in bytes :
          [blocks |-> {r.number : r \in ToSet(c.records)}, epoch |-> c] \in Blobs(bytes)
    BY DEF Blobs
  <2>2. \A x \in Blobs(bytes) : x.epoch \in bytes
    BY DEF Blobs
  <2>3. \A c \in bytes :
          [blocks |-> {r.number : r \in ToSet(c.records)}, epoch |-> c].epoch = c
    OBVIOUS
  <2> QED BY <2>1, <2>2, <2>3
<1> QED BY <1>1

(* A file that is as it was stored holds the blocks of its entry. *)
LEMMA IntactView ==
  ASSUME ManifestInv, DiskInv, NEW i \in 1..NEntries, Intact(Entry(i))
  PROVE  \E c : View[Entry(i).file]
                  = {[blocks |-> Entry(i).first..Entry(i).last, epoch |-> c]}
<1> DEFINE entry == Entry(i)
           a == entry.first
           b == entry.last
<1>1. /\ entry.file \in D!Shards /\ a \in Int /\ b \in Int /\ a <= b
      /\ \E c \in entry.sha : entry.sha = {c} /\ Holds(c, a, b)
  BY EntriesAre DEF Faithful
<1>2. PICK c : disk[entry.file] = {c} /\ Holds(c, a, b)
  BY <1>1 DEF Intact
<1>3. Numbered(c) /\ entry.file \in DOMAIN disk
  BY <1>1, <1>2 DEF DiskInv
<1>4. View[entry.file] = Blobs({c})
  BY <1>2, <1>3 DEF View
<1> HIDE DEF a, b
<1>5. ToSet(c.records) = {c.records[k] : k \in 1..b - a + 1}
  BY <1>2, <1>3 DEF Holds, Numbered, ToSet
<1>6. {r.number : r \in ToSet(c.records)} = {c.records[k].number : k \in 1..b - a + 1}
  BY <1>5
<1>7. \A k \in 1..b - a + 1 : c.records[k].number = a + k - 1
  BY <1>2 DEF Holds
<1>8. {c.records[k].number : k \in 1..b - a + 1} = a..b
  <2>1. ASSUME NEW k \in 1..b - a + 1 PROVE c.records[k].number \in a..b
    BY <1>1, <1>7
  <2>2. ASSUME NEW x \in a..b PROVE \E k \in 1..b - a + 1 : c.records[k].number = x
    <3>1. x - a + 1 \in 1..b - a + 1 /\ a + (x - a + 1) - 1 = x
      BY <1>1
    <3> QED BY <1>7, <3>1
  <2> QED BY <2>1, <2>2
<1>9. Blobs({c}) = {[blocks |-> {r.number : r \in ToSet(c.records)}, epoch |-> c]}
  BY DEF Blobs
<1> QED BY <1>4, <1>6, <1>8, <1>9 DEF a, b

(* In that view just the files load that are as they were stored. *)
LEMMA LoadsIs ==
  ASSUME ManifestInv, DiskInv, NEW i \in 1..NEntries
  PROVE  D!Loads(Listing[i], View, TRUE) <=> Intact(Entry(i))
<1> DEFINE entry == Entry(i)
           e == Listing[i]
<1>1. Faithful(entry) /\ i \in DOMAIN manifest.shards
  BY EntriesAre
<1>2. e.file = entry.file /\ e.sha = Blobs(entry.sha) /\ e.count = entry.count
  <2>1. e = [entry EXCEPT !.sha = Blobs(@)]
    BY <1>1 DEF Listing, Entry
  <2>2. entry \in [file : D!Shards, first : Int, last : Int, count : Int, sha : {entry.sha}]
    BY <1>1 DEF Faithful
  <2> HIDE DEF entry, e
  <2> QED BY <2>1, <2>2
<1>3. /\ entry.file \in D!Shards /\ entry.first \in Int /\ entry.last \in Int
      /\ entry.first <= entry.last /\ entry.count = entry.last - entry.first + 1
  BY <1>1 DEF Faithful
<1>4. View[entry.file] = Blobs(disk[entry.file])
  BY <1>3 DEF View, DiskInv
<1>5. D!Loads(e, View, TRUE) <=> /\ View[entry.file] # {}
                           /\ View[entry.file] = Blobs(entry.sha)
                           /\ \A f \in View[entry.file] : Cardinality(f.blocks) = entry.count
  BY <1>2, SameLibrary DEF D!Loads, D!NoFile
<1>6. Intact(entry) <=> disk[entry.file] = entry.sha
  BY DEF Intact
<1>7. ASSUME D!Loads(e, View, TRUE) PROVE Intact(entry)
  BY <1>4, <1>5, <1>6, <1>7, BlobsTell
<1>8. ASSUME Intact(entry) PROVE D!Loads(e, View, TRUE)
  <2>1. PICK c : View[entry.file] = {[blocks |-> entry.first..entry.last, epoch |-> c]}
    BY <1>8, IntactView
  <2>2. Cardinality(entry.first..entry.last) = entry.count
    BY <1>3, RangeEnds
  <2>3. \A f \in View[entry.file] : Cardinality(f.blocks) = entry.count
    BY <2>1, <2>2
  <2>4. View[entry.file] = Blobs(entry.sha)
    BY <1>4, <1>6, <1>8
  <2>5. View[entry.file] # {}
    BY <2>1
  <2> QED BY <1>5, <2>3, <2>4, <2>5
<1> QED BY <1>7, <1>8 DEF entry, e

(* The blocks of the entries, as lists. *)
Same == [x \in Int |-> x]
SpanLists == [i \in 1..NEntries |-> Span(i)]

(* Each has the numbers of its entry. *)
LEMMA SpanListsAre ==
  ASSUME ManifestInv
  PROVE  /\ \A i \in 1..NEntries : SpanLists[i] \in Seq(Int) /\ Len(SpanLists[i]) = Entry(i).count
         /\ \A i \in 1..NEntries : Runs(SpanLists[i], Same, Firsts[i])
<1> SUFFICES ASSUME NEW i \in 1..NEntries
             PROVE  /\ SpanLists[i] \in Seq(Int) /\ Len(SpanLists[i]) = Entry(i).count
                    /\ Runs(SpanLists[i], Same, Firsts[i])
  OBVIOUS
<1> DEFINE a == Entry(i).first
           b == Entry(i).last
           q == Ranked(a..b)
<1>1. a \in Int /\ b \in Int /\ a <= b /\ Entry(i).count = b - a + 1
  BY EntriesAre DEF Faithful
<1>2. SpanLists[i] = q /\ Firsts[i] = a
  BY DEF SpanLists, Span, Firsts
<1> HIDE DEF a, b
<1>3. q \in Seq(Int) /\ Len(q) = b - a + 1 /\ \A k \in 1..b - a + 1 : q[k] = a + k - 1
  BY <1>1, RangeLists
<1> HIDE DEF q
<1>4. Runs(q, Same, a)
  <2> SUFFICES ASSUME NEW x \in 1..Len(q) PROVE Same[q[x]] = a + x - 1
    BY DEF Runs
  <2>1. q[x] = a + x - 1 /\ q[x] \in Int
    BY <1>1, <1>3
  <2> QED BY <2>1 DEF Same
<1> QED BY <1>1, <1>2, <1>3, <1>4

(* Where every file loads, the stream is the blocks of the entries. *)
LEMMA StreamIs ==
  ASSUME ManifestInv, DiskInv, AllIntact
  PROVE  D!Streamed(Listing, View, TRUE) = Flat(SpanLists, NEntries)
<1> DEFINE n == NEntries
           fails == {i \in DOMAIN Listing : ~D!Loads(Listing[i], View, TRUE)}
           rs == [i \in 1..n |-> D!RecordsOf(Listing[i], View)]
<1>1. n \in Nat /\ DOMAIN manifest.shards = 1..n /\ DOMAIN Listing = 1..n /\ Len(Listing) = n
  <2>1. n \in Nat /\ DOMAIN manifest.shards = 1..n
    BY EntriesAre
  <2> HIDE DEF n
  <2>2. Listing = [i \in 1..n |-> [manifest.shards[i] EXCEPT !.sha = Blobs(@)]]
    BY <2>1 DEF Listing
  <2> QED BY <2>1, <2>2
<1>2. fails = {}
  BY <1>1, LoadsIs DEF AllIntact
<1>3. D!Streamed(Listing, View, TRUE)
        = D!FlattenSeq([i \in 1..(IF fails = {} THEN Len(Listing) ELSE D!Min(fails) - 1)
                          |-> D!RecordsOf(Listing[i], View)])
  BY DEF D!Streamed
<1>4. D!Streamed(Listing, View, TRUE) = FlattenSeq(rs)
  <2> HIDE DEF fails
  <2>1. (IF fails = {} THEN Len(Listing) ELSE D!Min(fails) - 1) = n
    BY <1>1, <1>2
  <2>2. D!Streamed(Listing, View, TRUE) = D!FlattenSeq(rs)
    BY <1>3, <2>1
  <2> QED BY <2>2, SameLibrary
<1>5. ASSUME NEW i \in 1..n PROVE D!RecordsOf(Listing[i], View) = Span(i)
  <2> DEFINE file == Entry(i).file
             S == Entry(i).first..Entry(i).last
             U == UNION {f.blocks : f \in View[file]}
  <2>1. PICK c : View[file] = {[blocks |-> S, epoch |-> c]}
    BY <1>5, IntactView DEF AllIntact
  <2>2. Listing[i].file = file
    <3> DEFINE entry == Entry(i)
    <3>1. Listing[i] = [entry EXCEPT !.sha = Blobs(@)]
      BY <1>1 DEF Listing, Entry
    <3>2. entry \in [file : D!Shards, first : Int, last : Int, count : Int, sha : {entry.sha}]
      BY EntriesAre DEF Faithful
    <3> HIDE DEF entry
    <3>3. Listing[i].file = entry.file
      BY <3>1, <3>2
    <3> QED BY <3>3 DEF entry
  <2>3. {f.blocks : f \in View[file]} = {S}
    <3> HIDE DEF S, file
    <3> QED BY <2>1
  <2>4. U = S
    <3> HIDE DEF S, file
    <3> QED BY <2>3
  <2>5. D!RecordsOf(Listing[i], View) = D!InOrder(U)
    <3>1. D!RecordsOf(Listing[i], View)
            = D!InOrder(UNION {f.blocks : f \in View[Listing[i].file]})
      BY DEF D!RecordsOf
    <3> QED BY <2>2, <3>1
  <2>6. D!InOrder(S) = Ranked(S)
    BY SameLibrary
  <2> HIDE DEF U
  <2> QED BY <2>4, <2>5, <2>6 DEF Span
<1>6. rs = SpanLists
  BY <1>5 DEF SpanLists
<1>7. SpanLists = [i \in 1..n |-> SpanLists[i]]
  BY DEF SpanLists
<1>8. FlattenSeq(SpanLists) = Flat(SpanLists, n)
  <2> HIDE DEF n
  <2> QED BY <1>1, <1>7, FlatAll
<1> QED BY <1>4, <1>6, <1>8

(* So Dataset's view of verify-load passes what the scraper passes, but    *)
(* for an empty range.                                                     *)
LEMMA ViewPasses ==
  ASSUME RangeInv, ManifestInv, DiskInv, range[2] # range[1] - 1
  PROVE  D!VerifyLoad(Listing, View, TRUE) <=> AllIntact /\ CoversRange
<1> DEFINE n == NEntries
           s == range[1]
           e == range[2]
           f == Flat(SpanLists, n)
           Continuous(q) == \A i \in 1..Len(q) - 1 : q[i + 1] = q[i] + 1
<1>1. /\ n \in Nat /\ DOMAIN manifest.shards = 1..n /\ s \in Int /\ e \in Int
      /\ e # s - 1
  BY EntriesAre DEF RangeInv
<1>2. DOMAIN Listing = 1..n
  BY <1>1 DEF Listing
<1>3. D!VerifyLoad(Listing, View, TRUE) <=>
        /\ \A i \in 1..n : D!Loads(Listing[i], View, TRUE)
        /\ Len(D!Streamed(Listing, View, TRUE)) = e - s + 1
        /\ Continuous(D!Streamed(Listing, View, TRUE))
  BY <1>2 DEF D!VerifyLoad
<1>4. (\A i \in 1..n : D!Loads(Listing[i], View, TRUE)) <=> AllIntact
  BY LoadsIs DEF AllIntact
<1>5. AllIntact => D!Streamed(Listing, View, TRUE) = f
  BY StreamIs
<1>6. /\ \A i \in 1..n : SpanLists[i] \in Seq(Int) /\ Len(SpanLists[i]) = Entry(i).count
      /\ \A i \in 1..n : Runs(SpanLists[i], Same, Firsts[i])
  BY SpanListsAre
<1>7. /\ Spans(Firsts, Lasts, Lengths(SpanLists, n), n) /\ f \in Seq(Int)
      /\ \A j \in 0..n : Lengths(SpanLists, n)[j] = Len(Flat(SpanLists, j))
      /\ \A j \in 1..n : Len(SpanLists[j]) = Lasts[j] - Firsts[j] + 1
  BY <1>6, EntriesSpan
<1>8. Len(f) = e - s + 1 => CoversRange
  <2> SUFFICES ASSUME Len(f) = e - s + 1 PROVE CoversRange
    OBVIOUS
  <2>1. n # 0
    <3> SUFFICES ASSUME n = 0 PROVE FALSE
      OBVIOUS
    <3>1. Flat(SpanLists, 0) = <<>>
      BY <1>1, <1>6, FlatTyped
    <3>2. Len(f) = 0
      BY <3>1
    <3> HIDE DEF s, e, f
    <3> QED BY <1>1, <3>2
  <2>2. EndToEnd(Firsts, Lasts, n, s, e)
    BY <1>6, <2>1, EntriesCover
  <2> QED BY <2>2 DEF CoversRange
<1>9. CoversRange => Len(f) = e - s + 1 /\ Continuous(f)
  <2> SUFFICES ASSUME CoversRange PROVE Len(f) = e - s + 1 /\ Continuous(f)
    OBVIOUS
  <2>1. EndToEnd(Firsts, Lasts, n, s, e)
    BY DEF CoversRange
  <2>2. Lengths(SpanLists, n)[n] = e - s + 1
    BY <1>1, <1>7, <2>1, EndToEndSpans
  <2>3. Len(f) = e - s + 1
    <3>1. n \in 0..n
      BY <1>1
    <3>2. Lengths(SpanLists, n)[n] = Len(Flat(SpanLists, n))
      BY <1>7, <3>1
    <3> QED BY <2>2, <3>2
  <2>4. Runs(f, Same, s)
    <3>1. Numbering(SpanLists, Int, Same, Firsts, Lasts, n)
      BY <1>6, <1>7 DEF Numbering
    <3> QED BY <1>1, <1>7, <2>1, <3>1, ListsRun
  <2> HIDE DEF f, s, e
  <2>5. ASSUME NEW i \in 1..Len(f) - 1 PROVE f[i + 1] = f[i] + 1
    <3>0. Len(f) \in Nat
      BY <1>7
    <3>1. i \in 1..Len(f) /\ i + 1 \in 1..Len(f)
      BY <3>0
    <3>2. Same[f[i]] = s + i - 1 /\ Same[f[i + 1]] = s + (i + 1) - 1
      BY <2>4, <3>1 DEF Runs
    <3>3. f[i] \in Int /\ f[i + 1] \in Int
      BY <1>7, <3>1, ElementOfSeq
    <3>4. f[i] = s + i - 1 /\ f[i + 1] = s + (i + 1) - 1
      BY <3>2, <3>3 DEF Same
    <3> QED BY <1>1, <3>4
  <2> QED BY <2>3, <2>5
<1> HIDE DEF f, s, e, Continuous, n
<1> QED BY <1>3, <1>4, <1>5, <1>8, <1>9

(* The three parts of VerdictsDivideOnNothing follow. *)
LEMMA VerdictsProperty == IInv => VerdictsDivideOnNothing
<1> SUFFICES ASSUME IInv, verdict \in {"ok", "failed"},
                    manifest.schema = SUPPORTED_SCHEMA_VERSION
             PROVE  /\ D!Verify(manifest.shards, disk) => verdict = "ok"
                    /\ verify_sha /\ verdict = "ok" =>
                         D!Verify(manifest.shards, disk) \/ manifest.end = manifest.start - 1
                    /\ verify_sha /\ ~(manifest.end = manifest.start - 1) =>
                         (verdict = "ok" <=> D!VerifyLoad(Listing, View, TRUE))
  BY DEF VerdictsDivideOnNothing, View
<1>1. RangeInv /\ ManifestInv /\ DiskInv /\ AssertSchemaV1
  BY DEF IInv, AssertSchemaV1
<1>2. manifest.start = range[1] /\ manifest.end = range[2]
  BY <1>1 DEF RangeInv
<1>3. verdict = "ok" <=> Accepts
  <2>1. (verdict = "ok" => Accepts) /\ (verdict = "failed" => ~Accepts)
    BY DEF IInv, LoaderInv
  <2> QED BY <2>1
<1>4. D!Verify(manifest.shards, disk) <=> AllIntact /\ CoversRange
  BY <1>1, PassedIs
<1>5. AllIntact /\ CoversRange => Accepts
  BY <1>1, PassedIsAccepted
<1>6. Accepts /\ verify_sha /\ range[2] # range[1] - 1 => AllIntact /\ CoversRange
  BY <1>1, AcceptedPasses
<1>7. range[2] # range[1] - 1 => (D!VerifyLoad(Listing, View, TRUE) <=> AllIntact /\ CoversRange)
  BY <1>1, ViewPasses
<1> QED BY <1>2, <1>3, <1>4, <1>5, <1>6, <1>7

-----------------------------------------------------------------------------
(* A directory that verify-load says OK to is the range of its manifest:   *)
(* as many records as the range has blocks, each the next of the one       *)
(* before, those blocks and no others if one file at least is as it was    *)
(* stored, and the very records that run_sweep then reads (main.rs 72-107, *)
(* loader.rs 91-130, manifest.rs 49-51, sweep.rs 112).                     *)
THEOREM AcceptedAlwaysTheRange == Spec => []AcceptedIsTheRange
<1>1. IInv => AcceptedIsTheRange
  BY AcceptedProperty
<1> QED BY <1>1, ExperimentInvariant, PTL

(* `scraper verify` and verify-load agree: what the first passes the       *)
(* second passes, with the hashes looked at it passes nothing else but an  *)
(* empty range, and it is what Dataset, on which the scraper's guarantees  *)
(* rest, takes it for (__main__.py _verify, main.rs 72-107).               *)
THEOREM VerdictsNeverDivide == Spec => []VerdictsDivideOnNothing
<1>1. IInv => VerdictsDivideOnNothing
  BY VerdictsProperty
<1> QED BY <1>1, ExperimentInvariant, PTL

-----------------------------------------------------------------------------
(* Lists of numbers that are sorted, and percentiles of them.              *)

(* The places in the order of their numbers, the earlier first of equals. *)
AheadIn(nums, n) ==
  {ij \in (1..n) \X (1..n) :
     nums[ij[1]] < nums[ij[2]] \/ (nums[ij[1]] = nums[ij[2]] /\ ij[1] < ij[2])}

(* It is a strict total order. *)
LEMMA AheadOrders ==
  ASSUME NEW n \in Nat, NEW nums \in [1..n -> Int]
  PROVE  Orders(AheadIn(nums, n), 1..n)
<1>1. \A i, j \in 1..n : <<i, j>> \in AheadIn(nums, n)
                          <=> nums[i] < nums[j] \/ (nums[i] = nums[j] /\ i < j)
  BY DEF AheadIn
<1>2. \A i \in 1..n : i \in Int /\ nums[i] \in Int
  OBVIOUS
<1>3. \A i \in 1..n : <<i, i>> \notin AheadIn(nums, n)
  BY <1>1, <1>2
<1>4. ASSUME NEW i \in 1..n, NEW j \in 1..n, NEW k \in 1..n,
             <<i, j>> \in AheadIn(nums, n), <<j, k>> \in AheadIn(nums, n)
      PROVE  <<i, k>> \in AheadIn(nums, n)
  <2>1. /\ i \in Int /\ j \in Int /\ k \in Int
        /\ nums[i] \in Int /\ nums[j] \in Int /\ nums[k] \in Int
    BY <1>2
  <2>2. nums[i] < nums[j] \/ (nums[i] = nums[j] /\ i < j)
    BY <1>1, <1>4
  <2>3. nums[j] < nums[k] \/ (nums[j] = nums[k] /\ j < k)
    BY <1>1, <1>4
  <2>4. nums[i] < nums[k] \/ (nums[i] = nums[k] /\ i < k)
    BY <2>1, <2>2, <2>3
  <2> QED BY <1>1, <2>4
<1>5. ASSUME NEW i \in 1..n, NEW j \in 1..n
      PROVE  i = j \/ <<i, j>> \in AheadIn(nums, n) \/ <<j, i>> \in AheadIn(nums, n)
  <2>1. i \in Int /\ j \in Int /\ nums[i] \in Int /\ nums[j] \in Int
    BY <1>2
  <2>2. \/ nums[i] < nums[j] \/ nums[j] < nums[i]
        \/ nums[i] = nums[j] /\ (i < j \/ j < i \/ i = j)
    BY <2>1
  <2> QED BY <1>1, <2>2
<1> QED BY <1>3, <1>4, <1>5 DEF Orders

(* What a sort does: it lists every place once, and the numbers ascend. *)
Sorts(o, nums, n) ==
  /\ o \in [1..n -> 1..n]
  /\ \A r, s \in 1..n : r < s => o[r] # o[s] /\ nums[o[r]] <= nums[o[s]]

(* Sorted sorts. *)
LEMMA SortedSorts ==
  ASSUME NEW n \in Nat, NEW nums \in [1..n -> Int]
  PROVE  Sorts(Sorted(nums), nums, n)
<1> DEFINE R == AheadIn(nums, n)
           S == 1..n
           o == Sorted(nums)
           Rank(j) == Cardinality({i \in S : nums[i] < nums[j] \/ (nums[i] = nums[j] /\ i < j)})
<1>1. DOMAIN nums = S
  OBVIOUS
<1>2. IsFiniteSet(S) /\ Cardinality(S) = n
  <2>1. 1 \in Int /\ n \in Int /\ (IF 1 > n THEN 0 ELSE n - 1 + 1) = n
    OBVIOUS
  <2> QED BY <2>1, FS_Interval
<1>3. Orders(R, S)
  BY AheadOrders
<1>4. o = [r \in S |-> CHOOSE j \in S : Rank(j) = r - 1]
  BY <1>1 DEF Sorted
<1>5. \A j \in S : Rank(j) = RankIn(R, S, j)
  <2> TAKE j \in S
  <2>1. {i \in S : nums[i] < nums[j] \/ (nums[i] = nums[j] /\ i < j)}
          = {c \in S : <<c, j>> \in R}
    BY DEF AheadIn
  <2> QED BY <2>1 DEF RankIn
<1> HIDE DEF Rank, R, S, o
<1>6. ByRank(o, n, R, S)
  <2> SUFFICES ASSUME NEW i \in 1..n, NEW b \in S, RankIn(R, S, b) = i - 1
               PROVE  o[i] \in S /\ RankIn(R, S, o[i]) = i - 1
    BY DEF ByRank
  <2>1. i \in S
    BY DEF S
  <2>2. Rank(b) = i - 1
    BY <1>5
  <2>3. o[i] = CHOOSE j \in S : Rank(j) = i - 1
    BY <1>4, <2>1
  <2>4. o[i] \in S /\ Rank(o[i]) = i - 1
    BY <2>2, <2>3
  <2> QED BY <1>5, <2>4
<1>7. n \in 0..Cardinality(S)
  BY <1>2
<1>8. RankOrdered(o, n, R, S)
  BY <1>2, <1>3, <1>6, <1>7, RankedInOrder
<1>9. \A r \in S : o[r] \in S
  BY <1>8 DEF RankOrdered, S
<1>10. \A r, s \in S : r < s => o[r] # o[s] /\ nums[o[r]] <= nums[o[s]]
  <2> SUFFICES ASSUME NEW r \in S, NEW s \in S, r < s
               PROVE  o[r] # o[s] /\ nums[o[r]] <= nums[o[s]]
    OBVIOUS
  <2>1. <<o[r], o[s]>> \in R
    BY <1>8 DEF RankOrdered, S
  <2>2. o[r] \in 1..n /\ o[s] \in 1..n /\ o[r] # o[s]
    BY <1>3, <1>9, <2>1 DEF Orders, S
  <2>3. nums[o[r]] \in Int /\ nums[o[s]] \in Int
    BY <2>2
  <2>4. nums[o[r]] < nums[o[s]] \/ nums[o[r]] = nums[o[s]]
    BY <2>1 DEF R, AheadIn
  <2> QED BY <2>2, <2>3, <2>4
<1>11. o = [r \in S |-> o[r]]
  BY <1>4
<1> QED BY <1>9, <1>10, <1>11 DEF Sorts, S, o

(* A sort leaves ascending numbers where they are. *)
LEMMA SortedStays ==
  ASSUME NEW n \in Nat, NEW nums \in [1..n -> Int],
         \A i, j \in 1..n : i < j => nums[i] < nums[j]
  PROVE  Sorted(nums) = [r \in 1..n |-> r]
<1> DEFINE S == 1..n
           Rank(j) == Cardinality({i \in S : nums[i] < nums[j] \/ (nums[i] = nums[j] /\ i < j)})
<1>1. ASSUME NEW j \in S PROVE Rank(j) = j - 1
  <2>1. {i \in S : nums[i] < nums[j] \/ (nums[i] = nums[j] /\ i < j)} = 1..j - 1
    <3>1. \A i \in S : nums[i] \in Int /\ i \in Int
      OBVIOUS
    <3>2. \A i \in S : nums[i] < nums[j] \/ (nums[i] = nums[j] /\ i < j) <=> i < j
      BY <3>1
    <3> QED BY <3>2
  <2>2. Cardinality(1..j - 1) = j - 1
    <3>1. 1 \in Int /\ j - 1 \in Int /\ (IF 1 > j - 1 THEN 0 ELSE j - 1 - 1 + 1) = j - 1
      OBVIOUS
    <3> QED BY <3>1, FS_Interval
  <2> QED BY <2>1, <2>2
<1>2. Sorted(nums) = [r \in S |-> CHOOSE j \in S : Rank(j) = r - 1]
  <2>1. DOMAIN nums = S
    OBVIOUS
  <2> QED BY <2>1 DEF Sorted
<1> HIDE DEF Rank
<1>3. ASSUME NEW r \in S PROVE (CHOOSE j \in S : Rank(j) = r - 1) = r
  <2>1. \A j \in S : Rank(j) = r - 1 <=> j = r
    BY <1>1
  <2> QED BY <2>1
<1> QED BY <1>2, <1>3

-----------------------------------------------------------------------------
(* The percentiles. *)

(* Cutting to an int what lies between two numbers stays between them. *)
LEMMA Between ==
  ASSUME NEW b \in Int, NEW c \in Int, b <= c, NEW f \in 0..99
  PROVE  /\ 100 * b + f * (c - b) \in Int
         /\ 100 * b <= 100 * b + f * (c - b) /\ 100 * b + f * (c - b) <= 100 * c
<1> DEFINE d == c - b
<1>1. d \in Nat /\ c = b + d
  OBVIOUS
<1> HIDE DEF d
<1>2. f * d \in Int /\ 0 <= f * d /\ f * d <= 100 * d
  BY <1>1
<1> QED BY <1>1, <1>2 DEF d

(* A list of numbers in order. *)
Rises(a, n) ==
  /\ \A r \in 1..n : a[r] \in Int
  /\ \A r, s \in 1..n : r <= s => a[r] <= a[s]

(* What Percentile cuts to an int, over 100. *)
Interpolated(a, rank) ==
  LET below == a[rank \div 100 + 1]
      above == IF rank % 100 = 0 THEN below ELSE a[rank \div 100 + 2]
  IN 100 * below + (rank % 100) * (above - below)

(* The number x lies between those of the ranks next to it. *)
Bracketed(x, a, rank) ==
  /\ x \in Int /\ 100 * a[rank \div 100 + 1] <= x
  /\ IF rank % 100 = 0 THEN x = 100 * a[rank \div 100 + 1]
                       ELSE x <= 100 * a[rank \div 100 + 2]

(* So it is interpolated. *)
LEMMA InterpolatedBetween ==
  ASSUME NEW n \in Nat, NEW a, Rises(a, n), NEW rank \in Nat, rank \div 100 + 1 \in 1..n,
         rank % 100 # 0 => rank \div 100 + 2 \in 1..n
  PROVE  Bracketed(Interpolated(a, rank), a, rank)
<1> DEFINE k == rank \div 100 + 1
           f == rank % 100
           b == a[k]
           c == IF f = 0 THEN b ELSE a[rank \div 100 + 2]
<1>1. f \in 0..99 /\ rank \div 100 + 2 = k + 1 /\ k \in Int
  OBVIOUS
<1>2. b \in Int /\ c \in Int /\ b <= c
  BY <1>1 DEF Rises
<1>3. Interpolated(a, rank) = 100 * b + f * (c - b)
  BY DEF Interpolated
<1>4. f # 0 => c = a[rank \div 100 + 2]
  OBVIOUS
<1> HIDE DEF f, b, c
<1>5. /\ 100 * b + f * (c - b) \in Int
      /\ 100 * b <= 100 * b + f * (c - b) /\ 100 * b + f * (c - b) <= 100 * c
  BY <1>1, <1>2, Between
<1>6. f = 0 => 100 * b + f * (c - b) = 100 * b
  BY <1>2
<1>7. /\ Interpolated(a, rank) \in Int /\ 100 * b <= Interpolated(a, rank)
      /\ IF f = 0 THEN Interpolated(a, rank) = 100 * b ELSE Interpolated(a, rank) <= 100 * c
  BY <1>3, <1>5, <1>6
<1> QED BY <1>4, <1>7 DEF f, b, Bracketed

(* The first quartile of a list in order is not above its median, and not  *)
(* below a quarter of the list.                                            *)
LEMMA QuartileAndMedian ==
  ASSUME NEW n \in Nat \ {0}, NEW a, Rises(a, n)
  PROVE  /\ Interpolated(a, 25 * (n - 1)) \in Int /\ Interpolated(a, 50 * (n - 1)) \in Int
         /\ Interpolated(a, 25 * (n - 1)) <= Interpolated(a, 50 * (n - 1))
         /\ (n - 1) \div 4 + 1 \in 1..n
         /\ 100 * a[(n - 1) \div 4 + 1] <= Interpolated(a, 25 * (n - 1))
<1> DEFINE m == n - 1
           q == 25 * m
           h == 50 * m
<1>1. /\ m \in Nat /\ n = m + 1 /\ q \in Nat /\ h \in Nat
      /\ q \div 100 = m \div 4 /\ h \div 100 = m \div 2
      /\ q % 100 = 25 * (m % 4) /\ h % 100 = 50 * (m % 2)
  OBVIOUS
<1>2. /\ q \div 100 + 1 \in 1..n /\ h \div 100 + 1 \in 1..n
      /\ q % 100 # 0 => q \div 100 + 2 \in 1..n
      /\ h % 100 # 0 => h \div 100 + 2 \in 1..n
  BY <1>1
<1> DEFINE Q == Interpolated(a, q)
           H == Interpolated(a, h)
<1>3. /\ Q \in Int /\ 100 * a[q \div 100 + 1] <= Q
      /\ IF q % 100 = 0 THEN Q = 100 * a[q \div 100 + 1] ELSE Q <= 100 * a[q \div 100 + 2]
  <2> HIDE DEF q
  <2>1. Bracketed(Q, a, q)
    BY <1>1, <1>2, InterpolatedBetween
  <2> HIDE DEF Q
  <2> QED BY <2>1 DEF Bracketed
<1>4. H \in Int /\ 100 * a[h \div 100 + 1] <= H
  <2> HIDE DEF h
  <2>1. Bracketed(H, a, h)
    BY <1>1, <1>2, InterpolatedBetween
  <2> HIDE DEF H
  <2> QED BY <2>1 DEF Bracketed
<1>5. Q <= H
  <2>1. CASE m = 0
    <3>1. q = h
      BY <2>1
    <3> QED BY <1>3, <3>1
  <2>2. CASE m = 1
    <3>1. /\ q \div 100 + 1 = 1 /\ h \div 100 + 1 = 1 /\ q % 100 = 25 /\ h % 100 = 50
          /\ q \div 100 + 2 = 2 /\ h \div 100 + 2 = 2
      BY <1>1, <2>2
    <3>2. a[1] \in Int /\ a[2] \in Int /\ a[1] <= a[2]
      BY <1>1, <2>2 DEF Rises
    <3>3. Q = 100 * a[1] + 25 * (a[2] - a[1]) /\ H = 100 * a[1] + 50 * (a[2] - a[1])
      BY <3>1 DEF Interpolated
    <3> HIDE DEF Q, H
    <3> QED BY <3>2, <3>3
  <2>3. CASE m >= 2
    <3>1. IF q % 100 = 0 THEN q \div 100 + 1 <= h \div 100 + 1
                         ELSE q \div 100 + 2 <= h \div 100 + 1
      BY <1>1, <2>3
    <3>2. CASE q % 100 = 0
      <4> DEFINE i == q \div 100 + 1
                 j == h \div 100 + 1
      <4>1. a[i] <= a[j] /\ a[i] \in Int /\ a[j] \in Int
        BY <1>2, <3>1, <3>2 DEF Rises
      <4>2. Q = 100 * a[i] /\ 100 * a[j] <= H
        BY <1>3, <1>4, <3>2
      <4> HIDE DEF Q, H, i, j
      <4> QED BY <1>3, <1>4, <4>1, <4>2
    <3>3. CASE q % 100 # 0
      <4> DEFINE i == q \div 100 + 2
                 j == h \div 100 + 1
      <4>1. a[i] <= a[j] /\ a[i] \in Int /\ a[j] \in Int
        BY <1>2, <3>1, <3>3 DEF Rises
      <4>2. Q <= 100 * a[i] /\ 100 * a[j] <= H
        BY <1>3, <1>4, <3>3
      <4> HIDE DEF Q, H, i, j
      <4> QED BY <1>3, <1>4, <4>1, <4>2
    <3> QED BY <3>2, <3>3
  <2> QED BY <1>1, <2>1, <2>2, <2>3
<1> QED BY <1>1, <1>2, <1>3, <1>4, <1>5

(* The quarter that is not above the first quartile, and the median above  *)
(* it.                                                                     *)
ThresholdsOf(t, sizes, n) ==
  /\ t.transfer_storage_max \in Int /\ t.defi_storage_min \in Int
  /\ t.transfer_storage_max <= t.defi_storage_min
  /\ 4 * Cardinality({i \in 1..n : sizes[i] <= t.transfer_storage_max}) >= n

(* The two thresholds of the strata do not cross. *)
LEMMA ThresholdsAre ==
  ASSUME NEW n \in Nat \ {0}, NEW sizes \in [1..n -> Nat], Len(sizes) = n
  PROVE  ThresholdsOf(Thresholds(sizes), sizes, n)
<1> DEFINE o == Sorted(sizes)
           a == [r \in 1..n |-> sizes[o[r]]]
           Q == Interpolated(a, 25 * (n - 1))
           H == Interpolated(a, 50 * (n - 1))
           t == Thresholds(sizes)
           T == t.transfer_storage_max
           P == {i \in 1..n : sizes[i] <= T}
           k == (n - 1) \div 4 + 1
<1>1. n \in Nat /\ sizes \in [1..n -> Int] /\ DOMAIN sizes = 1..n
  OBVIOUS
<1>2. Sorts(o, sizes, n)
  BY <1>1, SortedSorts
<1>3. T = Q \div 100 /\ t.defi_storage_min = H \div 100
  <2>1. a = [r \in DOMAIN sizes |-> sizes[Sorted(sizes)[r]]]
    BY <1>1
  <2> HIDE DEF a
  <2> QED BY <2>1 DEF Thresholds, Percentile, Interpolated
<1> HIDE DEF o
<1>4. \A r \in 1..n : o[r] \in 1..n /\ a[r] = sizes[o[r]] /\ a[r] \in Int
  BY <1>1, <1>2 DEF Sorts
<1>5. Rises(a, n)
  <2>1. ASSUME NEW r \in 1..n, NEW s \in 1..n, r <= s PROVE a[r] <= a[s]
    <3>1. CASE r = s
      BY <1>4, <3>1
    <3>2. CASE r < s
      BY <1>2, <1>4, <3>2 DEF Sorts
    <3> QED BY <2>1, <3>1, <3>2
  <2> HIDE DEF a
  <2> QED BY <1>4, <2>1 DEF Rises
<1> HIDE DEF a
<1>6. Q \in Int /\ H \in Int /\ Q <= H /\ k \in 1..n /\ 100 * a[k] <= Q
  BY <1>5, QuartileAndMedian
<1> HIDE DEF Q, H, t
<1>7. T \in Int /\ t.defi_storage_min \in Int /\ T <= t.defi_storage_min
  BY <1>3, <1>6
<1>8. a[k] \in Int /\ a[k] <= T
  BY <1>3, <1>4, <1>6
<1> HIDE DEF T
<1>9. 4 * Cardinality(P) >= n
  <2>1. \A r \in 1..k : r \in 1..n /\ o[r] \in P
    <3> TAKE r \in 1..k
    <3>1. r \in 1..n /\ a[r] <= a[k]
      BY <1>5, <1>6 DEF Rises
    <3> QED BY <1>4, <1>7, <1>8, <3>1
  <2>2. IsFiniteSet(1..n) /\ P \in SUBSET (1..n)
    <3>1. 1 \in Int /\ n \in Int
      OBVIOUS
    <3> QED BY <3>1, FS_Interval
  <2>3. IsFiniteSet(P) /\ Cardinality(P) \in Nat
    BY <2>2, FS_Subset, FS_CardinalityType
  <2>4. IsFiniteSet(1..k) /\ Cardinality(1..k) = k
    <3>1. 1 \in Int /\ k \in Int /\ (IF 1 > k THEN 0 ELSE k - 1 + 1) = k
      BY <1>6
    <3> HIDE DEF k
    <3> QED BY <3>1, FS_Interval
  <2> DEFINE f == [r \in 1..k |-> o[r]]
  <2> HIDE DEF k, P
  <2>5. f \in [1..k -> P]
    BY <2>1
  <2>6. \A r, s \in 1..k : f[r] = f[s] => r = s
    <3> SUFFICES ASSUME NEW r \in 1..k, NEW s \in 1..k, o[r] = o[s] PROVE r = s
      OBVIOUS
    <3>1. r \in 1..n /\ s \in 1..n
      BY <2>1
    <3>2. ~(r < s) /\ ~(s < r)
      BY <1>2, <3>1 DEF Sorts
    <3> QED BY <3>1, <3>2
  <2>7. f \in Injection(1..k, P)
    BY <2>5, <2>6 DEF Injection, IsInjective
  <2>8. k <= Cardinality(P)
    BY <2>3, <2>4, <2>7, FS_Injection
  <2> QED BY <2>3, <2>8 DEF k
<1> QED BY <1>7, <1>9 DEF ThresholdsOf, T, P, t

(* The numbers at some places. *)
NumberSet(blocks, P) == {blocks[i].number : i \in P}

(* NumbersAt lists them. *)
LEMMA NumbersAtAre ==
  ASSUME NEW n \in Nat, NEW blocks, NEW P \in SUBSET (1..n)
  PROVE  /\ Len(NumbersAt(blocks, P)) = Cardinality(P)
         /\ ToSet(NumbersAt(blocks, P)) = NumberSet(blocks, P)
<1> DEFINE q == Ranked(P)
           m == Cardinality(P)
           s == NumbersAt(blocks, P)
<1>1. IsFiniteSet(P) /\ P \in SUBSET Int
  <2>1. 1 \in Int /\ n \in Int
    OBVIOUS
  <2>2. IsFiniteSet(1..n)
    BY <2>1, FS_Interval
  <2>3. P \in SUBSET Int
    OBVIOUS
  <2> QED BY <2>2, <2>3, FS_Subset
<1>2. Enumerates(q, P) /\ Len(q) = m
  BY <1>1, RankedLists
<1>3. m \in Nat
  BY <1>1, FS_CardinalityType
<1>4. s = [k \in 1..m |-> blocks[q[k]].number]
  BY DEF NumbersAt, Ranked
<1> HIDE DEF s, q, m
<1>5. Len(s) = m /\ DOMAIN s = 1..m /\ \A k \in 1..m : s[k] = blocks[q[k]].number
  BY <1>3, <1>4
<1>6. \A k \in 1..m : q[k] \in P
  <2>1. q \in Seq(P) /\ Len(q) = m
    BY <1>2 DEF Enumerates
  <2> QED BY <2>1
<1>7. \A i \in P : \E k \in 1..m : q[k] = i
  BY <1>2 DEF Enumerates
<1>8. ToSet(s) = NumberSet(blocks, P)
  <2>1. ToSet(s) = {s[k] : k \in 1..m}
    BY <1>5 DEF ToSet
  <2>2. \A k \in 1..m : s[k] \in NumberSet(blocks, P)
    BY <1>5, <1>6 DEF NumberSet
  <2>3. ASSUME NEW i \in P PROVE blocks[i].number \in {s[k] : k \in 1..m}
    <3>1. PICK k \in 1..m : q[k] = i
      BY <1>7
    <3> QED BY <1>5, <3>1
  <2>4. NumberSet(blocks, P) \subseteq {s[k] : k \in 1..m}
    BY <2>3 DEF NumberSet
  <2> QED BY <2>1, <2>2, <2>4
<1> QED BY <1>5, <1>8 DEF s, m

(* What the second pass makes of blocks of some storage reads. *)
Stratified(pass2, blocks, sizes, n, H, L) ==
  /\ H \in SUBSET (1..n) /\ L \in SUBSET (1..n)
  /\ ToSet(pass2.defi_heavy) = NumberSet(blocks, H)
  /\ ToSet(pass2.transfer_only) = NumberSet(blocks, L)
  /\ \A i \in L, j \in H : sizes[i] <= sizes[j]
  /\ \E size \in Int : \A i \in L \cap H : sizes[i] = size
  /\ 4 * Len(pass2.transfer_only) >= n

(* The storage that the blocks read. *)
StorageOf(sizes, blocks, n) ==
  /\ sizes \in [1..n -> Nat] /\ Len(sizes) = n /\ DOMAIN blocks = 1..n
  /\ \A i \in 1..n : sizes[i] = Cardinality(Slots(blocks[i].reads))

(* The second pass tells the strata apart by it. *)
LEMMA PassStratifies ==
  ASSUME NEW n \in Nat \ {0}, NEW blocks, NEW sizes, StorageOf(sizes, blocks, n), NEW defi_set
  PROVE  \E H, L : Stratified(RunPass2(blocks, defi_set, Thresholds(sizes)), blocks, sizes, n, H, L)
<1> DEFINE t == Thresholds(sizes)
           H == {i \in DOMAIN blocks : DefiHeavy(blocks[i], defi_set, t)}
           L == {i \in DOMAIN blocks : TransferOnly(blocks[i], t)}
           p == RunPass2(blocks, defi_set, t)
<1>1. /\ DOMAIN blocks = 1..n /\ sizes \in [1..n -> Nat] /\ Len(sizes) = n /\ n \in Nat
      /\ \A i \in 1..n : sizes[i] \in Nat /\ sizes[i] = Cardinality(Slots(blocks[i].reads))
  BY DEF StorageOf
<1>2. ThresholdsOf(t, sizes, n)
  BY <1>1, ThresholdsAre
<1> HIDE DEF t
<1>3. p.defi_heavy = NumbersAt(blocks, H) /\ p.transfer_only = NumbersAt(blocks, L)
  BY DEF RunPass2
<1>4. \A i \in H : i \in 1..n /\ sizes[i] >= t.defi_storage_min
  BY <1>1 DEF DefiHeavy
<1>5. L = {i \in 1..n : sizes[i] <= t.transfer_storage_max}
  BY <1>1 DEF TransferOnly
<1> HIDE DEF H, p
<1>6. H \in SUBSET (1..n) /\ L \in SUBSET (1..n)
  BY <1>4, <1>5
<1>7. /\ ToSet(p.defi_heavy) = NumberSet(blocks, H)
      /\ ToSet(p.transfer_only) = NumberSet(blocks, L)
      /\ Len(p.transfer_only) = Cardinality(L)
  <2> HIDE DEF L
  <2>1. ToSet(NumbersAt(blocks, H)) = NumberSet(blocks, H)
    BY <1>1, <1>6, NumbersAtAre
  <2>2. /\ ToSet(NumbersAt(blocks, L)) = NumberSet(blocks, L)
        /\ Len(NumbersAt(blocks, L)) = Cardinality(L)
    BY <1>1, <1>6, NumbersAtAre
  <2> QED BY <1>3, <2>1, <2>2
<1>8. 4 * Len(p.transfer_only) >= n
  BY <1>2, <1>5, <1>7 DEF ThresholdsOf
<1>9. \A i \in L : i \in 1..n /\ sizes[i] <= t.transfer_storage_max
  BY <1>5
<1> HIDE DEF L
<1>10. ASSUME NEW i \in L, NEW j \in H
       PROVE  sizes[i] <= sizes[j]
  BY <1>1, <1>2, <1>4, <1>9 DEF ThresholdsOf
<1>11. \A i \in L \cap H : sizes[i] = t.defi_storage_min
  BY <1>1, <1>2, <1>4, <1>9 DEF ThresholdsOf
<1>12. t.defi_storage_min \in Int
  BY <1>2 DEF ThresholdsOf
<1>13. Stratified(p, blocks, sizes, n, H, L)
  BY <1>6, <1>7, <1>8, <1>10, <1>11, <1>12 DEF Stratified
<1> QED BY <1>13 DEF p, t

-----------------------------------------------------------------------------
(* Groups of blocks, and the windows that the first pass keeps of them.    *)

(* The parts of a division. *)
LEMMA Division ==
  ASSUME NEW n \in Nat, NEW w \in Nat \ {0}
  PROVE  n \div w \in Nat /\ n % w \in 0..w - 1 /\ n = w * (n \div w) + (n % w)
OBVIOUS

(* They are known from the sum. *)
LEMMA DivisionIs ==
  ASSUME NEW n \in Nat, NEW w \in Nat \ {0}, NEW q \in Nat, NEW r \in 0..w - 1, n = w * q + r
  PROVE  n \div w = q /\ n % w = r
<1> DEFINE p == n \div w
           s == n % w
<1>1. p \in Nat /\ s \in 0..w - 1 /\ n = w * p + s
  BY Division
<1> HIDE DEF p, s
<1>2. CASE p < q
  <2>1. PICK d \in Nat \ {0} : q = p + d
    <3>1. q - p \in Nat \ {0} /\ q = p + (q - p)
      BY <1>1, <1>2
    <3> QED BY <3>1
  <2>2. w * q = w * p + w * d /\ w * d >= w
    BY <1>1, <2>1
  <2>3. w * q \in Int /\ w * p \in Int /\ w * d \in Int
    BY <1>1, <2>1
  <2> QED BY <1>1, <2>2, <2>3
<1>3. CASE q < p
  <2>1. PICK d \in Nat \ {0} : p = q + d
    <3>1. p - q \in Nat \ {0} /\ p = q + (p - q)
      BY <1>1, <1>3
    <3> QED BY <3>1
  <2>2. w * p = w * q + w * d /\ w * d >= w
    BY <1>1, <2>1
  <2>3. w * q \in Int /\ w * p \in Int /\ w * d \in Int
    BY <1>1, <2>1
  <2> QED BY <1>1, <2>2, <2>3
<1>4. CASE p = q
  BY <1>1, <1>4
<1>5. p = q
  BY <1>1, <1>2, <1>3
<1>6. s = r
  BY <1>1, <1>5
<1> QED BY <1>5, <1>6 DEF p, s

(* One more. *)
LEMMA DivisionOfNext ==
  ASSUME NEW n \in Nat, NEW w \in Nat \ {0}
  PROVE  IF (n % w) + 1 = w THEN (n + 1) \div w = (n \div w) + 1 /\ (n + 1) % w = 0
                            ELSE (n + 1) \div w = n \div w /\ (n + 1) % w = (n % w) + 1
<1> DEFINE q == n \div w
           r == n % w
<1>1. q \in Nat /\ r \in 0..w - 1 /\ n = w * q + r
  BY Division
<1> HIDE DEF q, r
<1>2. n + 1 \in Nat /\ q + 1 \in Nat /\ 0 \in 0..w - 1
  BY <1>1
<1>3. CASE r + 1 = w
  <2>1. n + 1 = w * (q + 1) + 0
    BY <1>1, <1>3
  <2>2. (n + 1) \div w = q + 1 /\ (n + 1) % w = 0
    BY <1>2, <2>1, DivisionIs
  <2> QED BY <1>3, <2>2 DEF q, r
<1>4. CASE r + 1 # w
  <2>1. n + 1 = w * q + (r + 1) /\ r + 1 \in 0..w - 1
    BY <1>1, <1>4
  <2>2. (n + 1) \div w = q /\ (n + 1) % w = r + 1
    BY <1>1, <1>2, <2>1, DivisionIs
  <2> QED BY <1>4, <2>2 DEF q, r
<1> QED BY <1>3, <1>4

(* A smaller number has no larger quotient. *)
LEMMA DivisionGrows ==
  ASSUME NEW m \in Nat, NEW n \in Nat, m <= n, NEW w \in Nat \ {0}
  PROVE  m \div w <= n \div w
<1> DEFINE p == m \div w
           q == n \div w
           r == n % w
           s == m % w
<1>1. q \in Nat /\ r \in 0..w - 1 /\ n = w * q + r
  BY Division
<1>2. p \in Nat /\ s \in 0..w - 1 /\ m = w * p + s
  BY Division
<1> HIDE DEF p, q, r, s
<1>3. CASE p > q
  <2>1. PICK d \in Nat \ {0} : p = q + d
    <3>1. p - q \in Nat \ {0} /\ p = q + (p - q)
      BY <1>1, <1>2, <1>3
    <3> QED BY <3>1
  <2>2. w * p = w * q + w * d /\ w * d >= w
    BY <1>1, <2>1
  <2>3. w * q \in Int /\ w * p \in Int /\ w * d \in Int
    BY <1>1, <2>1
  <2> QED BY <1>1, <1>2, <2>2, <2>3
<1> QED BY <1>1, <1>2, <1>3 DEF p, q

(* The union of the g-th (from 0) of the groups of w of the first n of     *)
(* some sets.                                                              *)
GroupOf(items, n, w, g) == UNION {items[i] : i \in {j \in 1..n : (j - 1) \div w = g}}

(* A group gets the next of the sets if it is its own. *)
LEMMA GroupGrows ==
  ASSUME NEW items, NEW n \in Nat, NEW w \in Nat \ {0}
  PROVE  GroupOf(items, n + 1, w, n \div w) = GroupOf(items, n, w, n \div w) \cup items[n + 1]
<1> DEFINE g == n \div w
           J(m) == {j \in 1..m : (j - 1) \div w = g}
<1>1. J(n + 1) = J(n) \cup {n + 1}
  <2>1. 1..n + 1 = 1..n \cup {n + 1} /\ (n + 1) - 1 = n
    OBVIOUS
  <2> QED BY <2>1
<1>2. /\ GroupOf(items, n, w, g) = UNION {items[i] : i \in J(n)}
      /\ GroupOf(items, n + 1, w, g) = UNION {items[i] : i \in J(n + 1)}
  BY DEF GroupOf
<1> HIDE DEF g, J
<1>3. {items[i] : i \in J(n + 1)} = {items[i] : i \in J(n)} \cup {items[n + 1]}
  BY <1>1
<1>4. \A A, b : UNION (A \cup {b}) = (UNION A) \cup b
  OBVIOUS
<1>5. UNION {items[i] : i \in J(n + 1)} = (UNION {items[i] : i \in J(n)}) \cup items[n + 1]
  BY <1>3, <1>4
<1> QED BY <1>2, <1>5 DEF g

(* It stays as it is if it is not. *)
LEMMA GroupStays ==
  ASSUME NEW items, NEW n \in Nat, NEW w \in Nat \ {0}, NEW g, n \div w # g
  PROVE  GroupOf(items, n + 1, w, g) = GroupOf(items, n, w, g)
<1> DEFINE J(m) == {j \in 1..m : (j - 1) \div w = g}
<1>1. J(n + 1) = J(n)
  <2>1. 1..n + 1 = 1..n \cup {n + 1} /\ (n + 1) - 1 = n
    OBVIOUS
  <2> QED BY <2>1
<1> HIDE DEF J
<1> QED BY <1>1 DEF GroupOf, J

(* No set is of a group yet to come. *)
LEMMA GroupToCome ==
  ASSUME NEW items, NEW n \in Nat, NEW w \in Nat \ {0}, NEW g \in Nat, n <= w * g
  PROVE  GroupOf(items, n, w, g) = {}
<1>1. ASSUME NEW j \in 1..n PROVE (j - 1) \div w # g
  <2>1. j - 1 \in Nat
    OBVIOUS
  <2>2. j - 1 = w * ((j - 1) \div w) + ((j - 1) % w) /\ (j - 1) % w \in 0..w - 1
    BY <2>1, Division
  <2>3. w * g \in Int
    OBVIOUS
  <2> QED BY <2>2, <2>3
<1> QED BY <1>1 DEF GroupOf

(* The list so far, and its next element. *)
LEMMA ListGrows ==
  ASSUME NEW n \in Nat, NEW f
  PROVE  Append([i \in 1..n |-> f[i]], f[n + 1]) = [i \in 1..n + 1 |-> f[i]]
<1> DEFINE T == {f[i] : i \in 1..n + 1}
           s == [i \in 1..n |-> f[i]]
           t == [i \in 1..n + 1 |-> f[i]]
           a == Append(s, f[n + 1])
<1>1. \A i \in 1..n + 1 : f[i] \in T
  OBVIOUS
<1>2. s \in [1..n -> T] /\ t \in [1..n + 1 -> T] /\ f[n + 1] \in T
  <2> HIDE DEF T
  <2> QED BY <1>1
<1>3. (\A i \in 1..n : s[i] = f[i]) /\ \A i \in 1..n + 1 : t[i] = f[i]
  OBVIOUS
<1> HIDE DEF T, s, t
<1>4. s \in Seq(T) /\ Len(s) = n
  BY <1>2
<1>5. /\ a \in Seq(T) /\ Len(a) = n + 1 /\ a[n + 1] = f[n + 1]
      /\ \A i \in 1..n : a[i] = s[i]
  BY <1>2, <1>4
<1> HIDE DEF a
<1>6. a \in [1..n + 1 -> T]
  BY <1>5
<1>7. \A i \in 1..n + 1 : a[i] = t[i]
  BY <1>3, <1>5
<1>8. a = t
  BY <1>2, <1>6, <1>7
<1> QED BY <1>8 DEF a, s, t

(* The sizes of the first m groups. *)
SizesOf(items, n, w, m) == [g \in 1..m |-> Cardinality(GroupOf(items, n, w, g - 1))]

(* The sizes of the groups so far stay, and the next is appended. *)
LEMMA SizesAppend ==
  ASSUME NEW items, NEW n \in Nat, NEW w \in Nat \ {0}, NEW m \in Nat
  PROVE  Append(SizesOf(items, n, w, m), Cardinality(GroupOf(items, n, w, m)))
           = SizesOf(items, n, w, m + 1)
<1> DEFINE f == [g \in 1..m + 1 |-> Cardinality(GroupOf(items, n, w, g - 1))]
<1>1. /\ SizesOf(items, n, w, m) = [i \in 1..m |-> f[i]]
      /\ SizesOf(items, n, w, m + 1) = [i \in 1..m + 1 |-> f[i]]
  BY DEF SizesOf
<1>2. f[m + 1] = Cardinality(GroupOf(items, n, w, m))
  <2>1. m + 1 \in 1..m + 1 /\ (m + 1) - 1 = m
    OBVIOUS
  <2> QED BY <2>1
<1> HIDE DEF f
<1>3. Append([i \in 1..m |-> f[i]], f[m + 1]) = [i \in 1..m + 1 |-> f[i]]
  BY ListGrows
<1> QED BY <1>1, <1>2, <1>3

(* The groups before that of the next block are complete. *)
LEMMA SizesStay ==
  ASSUME NEW items, NEW n \in Nat, NEW w \in Nat \ {0}
  PROVE  SizesOf(items, n + 1, w, n \div w) = SizesOf(items, n, w, n \div w)
<1> DEFINE q == n \div w
<1>1. q \in Nat
  BY Division
<1>2. ASSUME NEW g \in 1..q PROVE GroupOf(items, n + 1, w, g - 1) = GroupOf(items, n, w, g - 1)
  <2>1. n \div w # g - 1
    BY <1>1
  <2> QED BY <2>1, GroupStays
<1> QED BY <1>2 DEF SizesOf

(* A window's keys, stems, blocks, and sizes. *)
Window(a, b, c, s, t) ==
  [acc |-> a, stem_acc |-> b, cnt |-> c, sizes |-> s, stem_sizes |-> t]

(* A window of other keys, stems and blocks. *)
Refilled(w, x, y, z) == [w EXCEPT !.acc = x, !.stem_acc = y, !.cnt = z]

(* It is one. *)
LEMMA FedWindow ==
  ASSUME NEW a, NEW b, NEW c, NEW s, NEW t, NEW x, NEW y, NEW z
  PROVE  Refilled(Window(a, b, c, s, t), x, y, z) = Window(x, y, z, s, t)
<1> DEFINE w == Window(a, b, c, s, t)
           v == [w EXCEPT !.acc = x]
           u == [v EXCEPT !.stem_acc = y]
<1>1. v = Window(x, b, c, s, t)
  BY DEF Window
<1> HIDE DEF v
<1>2. u = Window(x, y, c, s, t)
  BY <1>1 DEF Window
<1> HIDE DEF u
<1>3. [u EXCEPT !.cnt = z] = Window(x, y, z, s, t)
  BY <1>2 DEF Window
<1>4. Refilled(w, x, y, z) = [u EXCEPT !.cnt = z]
  <2> HIDE DEF w
  <2> QED BY DEF u, v, Refilled
<1> QED BY <1>3, <1>4

(* A window at its end. *)
LEMMA ClosedWindow ==
  ASSUME NEW a, NEW b, NEW c, NEW s, NEW t
  PROVE  Close(Window(a, b, c, s, t))
           = Window({}, {}, 0, Append(s, Cardinality(a)), Append(t, Cardinality(b)))
<1> DEFINE w == Window(a, b, c, s, t)
           x == Append(s, Cardinality(a))
           y == Append(t, Cardinality(b))
           v == [w EXCEPT !.sizes = x]
           u == [v EXCEPT !.stem_sizes = y]
<1>1. w.acc = a /\ w.stem_acc = b /\ w.sizes = s /\ w.stem_sizes = t
  BY DEF Window
<1>2. Close(w) = [w EXCEPT !.sizes = x, !.stem_sizes = y, !.acc = {}, !.stem_acc = {}, !.cnt = 0]
  <2> HIDE DEF w
  <2> QED BY <1>1 DEF Close
<1> HIDE DEF x, y
<1>3. v = Window(a, b, c, x, t)
  BY DEF Window
<1> HIDE DEF v
<1>4. u = Window(a, b, c, x, y)
  BY <1>3 DEF Window
<1> HIDE DEF u
<1>5. Refilled(u, {}, {}, 0) = Window({}, {}, 0, x, y)
  BY <1>4, FedWindow
<1>6. [w EXCEPT !.sizes = x, !.stem_sizes = y, !.acc = {}, !.stem_acc = {}, !.cnt = 0]
        = Refilled(u, {}, {}, 0)
  <2> HIDE DEF w
  <2> QED BY DEF u, v, Refilled
<1> QED BY <1>2, <1>5, <1>6 DEF x, y

(* What Pass1 keeps for the windows of w blocks, after n blocks. *)
WindowAt(win, reads, stems, n, w) ==
  win = Window(GroupOf(reads, n, w, n \div w), GroupOf(stems, n, w, n \div w), n % w,
               SizesOf(reads, n, w, n \div w), SizesOf(stems, n, w, n \div w))

(* Before the first block. *)
LEMMA WindowStart ==
  ASSUME NEW reads, NEW stems, NEW w \in Nat \ {0}
  PROVE  WindowAt(EmptyWindow, reads, stems, 0, w)
<1>1. 0 = w * 0 + 0 /\ 0 \in Nat /\ 0 \in 0..w - 1
  OBVIOUS
<1>2. 0 \div w = 0 /\ 0 % w = 0
  BY <1>1, DivisionIs
<1>3. \A items : GroupOf(items, 0, w, 0) = {}
  <2>1. \A j : j \notin 1..0
    OBVIOUS
  <2> QED BY <2>1 DEF GroupOf
<1>4. \A items : SizesOf(items, 0, w, 0) = <<>>
  BY DEF SizesOf
<1> QED BY <1>2, <1>3, <1>4 DEF WindowAt, EmptyWindow, Window

(* One block more. *)
LEMMA WindowStep ==
  ASSUME NEW reads, NEW stems, NEW n \in Nat, NEW w \in Nat \ {0}, NEW win,
         WindowAt(win, reads, stems, n, w),
         stems[n + 1] = {MirrorStem(k) : k \in reads[n + 1]}
  PROVE  WindowAt(FeedWindow(win, w, reads[n + 1]), reads, stems, n + 1, w)
<1> DEFINE q == n \div w
           A == GroupOf(reads, n + 1, w, q)
           B == GroupOf(stems, n + 1, w, q)
           s == SizesOf(reads, n, w, q)
           t == SizesOf(stems, n, w, q)
           fed == Window(A, B, (n % w) + 1, s, t)
<1>1. q \in Nat /\ n % w \in Nat
  <2>1. n \div w \in Nat /\ n % w \in 0..w - 1
    BY Division
  <2> QED BY <2>1
<1>2. A = GroupOf(reads, n, w, q) \cup reads[n + 1] /\ B = GroupOf(stems, n, w, q) \cup stems[n + 1]
  BY GroupGrows
<1>3. [win EXCEPT !.acc = @ \cup reads[n + 1],
                  !.stem_acc = @ \cup {MirrorStem(k) : k \in reads[n + 1]},
                  !.cnt = @ + 1] = fed
  <2> DEFINE A0 == GroupOf(reads, n, w, q)
             B0 == GroupOf(stems, n, w, q)
             c == n % w
             R == reads[n + 1]
             M == {MirrorStem(k) : k \in R}
  <2>1. win = Window(A0, B0, c, s, t)
    BY DEF WindowAt
  <2>2. A = A0 \cup R /\ B = B0 \cup M
    BY <1>2
  <2>3. win.acc = A0 /\ win.stem_acc = B0 /\ win.cnt = c
    BY <2>1 DEF Window
  <2> HIDE DEF A, B, s, t, A0, B0, c, R, M
  <2>4. Refilled(win, A, B, c + 1) = Window(A, B, c + 1, s, t)
    BY <2>1, FedWindow
  <2>5. [win EXCEPT !.acc = @ \cup R, !.stem_acc = @ \cup M, !.cnt = @ + 1]
          = Refilled(win, A, B, c + 1)
    BY <2>2, <2>3 DEF Refilled
  <2> QED BY <2>4, <2>5 DEF R, M, c
<1>4. FeedWindow(win, w, reads[n + 1]) = IF (n % w) + 1 = w THEN Close(fed) ELSE fed
  <2>1. fed.cnt = (n % w) + 1
    BY DEF Window
  <2> HIDE DEF fed
  <2> QED BY <1>3, <2>1 DEF FeedWindow
<1>5. SizesOf(reads, n + 1, w, q) = s /\ SizesOf(stems, n + 1, w, q) = t
  BY SizesStay
<1>6. CASE (n % w) + 1 = w
  <2>1. (n + 1) \div w = q + 1 /\ (n + 1) % w = 0
    BY <1>6, DivisionOfNext
  <2>2. GroupOf(reads, n + 1, w, q + 1) = {} /\ GroupOf(stems, n + 1, w, q + 1) = {}
    <3>1. n + 1 <= w * (q + 1)
      <4>1. n = w * q + (n % w) /\ w * q \in Int
        BY <1>1, Division
      <4>2. w * (q + 1) = w * q + w
        BY <1>1
      <4> HIDE DEF q
      <4> QED BY <1>1, <1>6, <4>1, <4>2
    <3> QED BY <1>1, <3>1, GroupToCome
  <2>3. /\ SizesOf(reads, n + 1, w, q + 1) = Append(s, Cardinality(A))
        /\ SizesOf(stems, n + 1, w, q + 1) = Append(t, Cardinality(B))
    <3>1. n + 1 \in Nat
      OBVIOUS
    <3>2. /\ Append(SizesOf(reads, n + 1, w, q), Cardinality(A)) = SizesOf(reads, n + 1, w, q + 1)
          /\ Append(SizesOf(stems, n + 1, w, q), Cardinality(B)) = SizesOf(stems, n + 1, w, q + 1)
      BY <1>1, <3>1, SizesAppend
    <3> QED BY <1>5, <3>2
  <2>4. Close(fed) = Window({}, {}, 0, Append(s, Cardinality(A)), Append(t, Cardinality(B)))
    BY ClosedWindow
  <2> HIDE DEF q, A, B, s, t, fed
  <2> QED BY <1>4, <1>6, <2>1, <2>2, <2>3, <2>4 DEF WindowAt
<1>7. CASE (n % w) + 1 # w
  <2>1. (n + 1) \div w = q /\ (n + 1) % w = (n % w) + 1
    BY <1>7, DivisionOfNext
  <2>2. FeedWindow(win, w, reads[n + 1]) = fed
    BY <1>4, <1>7
  <2> QED BY <1>5, <2>1, <2>2 DEF WindowAt
<1> QED BY <1>6, <1>7

(* What is left at the end is a group of its own. *)
LEMMA WindowEnd ==
  ASSUME NEW reads, NEW stems, NEW n \in Nat, NEW w \in Nat \ {0}, NEW win,
         WindowAt(win, reads, stems, n, w)
  PROVE  /\ Finalize(win).sizes = SizesOf(reads, n, w, (n + w - 1) \div w)
         /\ Finalize(win).stem_sizes = SizesOf(stems, n, w, (n + w - 1) \div w)
<1> DEFINE q == n \div w
           r == n % w
           A == GroupOf(reads, n, w, q)
           B == GroupOf(stems, n, w, q)
           s == SizesOf(reads, n, w, q)
           t == SizesOf(stems, n, w, q)
<1>1. q \in Nat /\ r \in 0..w - 1 /\ n = w * q + r
  BY Division
<1>2. win = Window(A, B, r, s, t)
  BY DEF WindowAt
<1>3. Append(s, Cardinality(A)) = SizesOf(reads, n, w, q + 1)
      /\ Append(t, Cardinality(B)) = SizesOf(stems, n, w, q + 1)
  BY <1>1, SizesAppend
<1>4. (n + w - 1) \div w = IF r = 0 THEN q ELSE q + 1
  <2> HIDE DEF q, r
  <2>1. n + w - 1 \in Nat /\ q + 1 \in Nat
    BY <1>1
  <2>2. CASE r = 0
    <3>1. n + w - 1 = w * q + (w - 1) /\ w - 1 \in 0..w - 1
      BY <1>1, <2>2
    <3>2. (n + w - 1) \div w = q
      BY <1>1, <2>1, <3>1, DivisionIs
    <3> QED BY <2>2, <3>2
  <2>3. CASE r # 0
    <3>1. n + w - 1 = w * (q + 1) + (r - 1) /\ r - 1 \in 0..w - 1
      BY <1>1, <2>3
    <3>2. (n + w - 1) \div w = q + 1
      BY <1>1, <2>1, <3>1, DivisionIs
    <3> QED BY <2>3, <3>2
  <2> QED BY <2>2, <2>3
<1> HIDE DEF A, B, s, t
<1>5. CASE r = 0
  <2>1. Finalize(win) = win
    BY <1>2, <1>5 DEF Finalize, Window
  <2> QED BY <1>2, <1>4, <1>5, <2>1 DEF s, t, Window
<1>6. CASE r # 0
  <2>1. Finalize(win) = Close(win)
    BY <1>1, <1>2, <1>6 DEF Finalize, Window
  <2>2. /\ Close(win).sizes = Append(s, Cardinality(A))
        /\ Close(win).stem_sizes = Append(t, Cardinality(B))
    <3>1. Close(win) = Window({}, {}, 0, Append(s, Cardinality(A)), Append(t, Cardinality(B)))
      BY <1>2, ClosedWindow
    <3> QED BY <3>1 DEF Window
  <2> QED BY <1>3, <1>4, <1>6, <2>1, <2>2
<1> QED BY <1>5, <1>6

-----------------------------------------------------------------------------
(* Leaves and stems of the keys of the state. *)

(* Both derivations have one stem for a key. *)
LEMMA StemsAgree ==
  \A k : MirrorStem(k) = StemOf(k)
BY DEF MirrorStem, StemOf, KeyToLeaf, SlotBelowHeaderOffset

(* A slot of the header stem, and what its suffix is. *)
LEMMA HeaderSlot ==
  ASSUME NEW n \in Nat, SlotBelowHeaderOffset(n)
  PROVE  /\ (HeaderOffset + (n % NodeWidth)) % NodeWidth = HeaderOffset + n
         /\ HeaderOffset \in Nat \ {0}
<1>1. n \div NodeWidth = 0 /\ n % NodeWidth < HeaderOffset
  BY DEF SlotBelowHeaderOffset
<1>2. n = NodeWidth * (n \div NodeWidth) + (n % NodeWidth) /\ n % NodeWidth \in 0..NodeWidth - 1
  BY Division, GeometryAssumption
<1>3. n % NodeWidth = n
  <2>1. NodeWidth * 0 = 0
    BY GeometryAssumption
  <2> QED BY <1>1, <1>2, <2>1
<1>4. HeaderOffset + n \in 0..NodeWidth - 1
  BY <1>1, <1>3, GeometryAssumption
<1> QED BY <1>3, <1>4, GeometryAssumption

(* The place of a key, told by its parts. *)
PartsOfLeaf(l, k) ==
  IF k.slot = NoSlot THEN l[1] = HeaderStem(k.addr) /\ l[2] = 0
  ELSE IF SlotBelowHeaderOffset(k.slot)
  THEN l[1] = HeaderStem(k.addr) /\ l[2] = HeaderOffset + k.slot
  ELSE l[1] = StorageStem(k.addr, k.slot \div NodeWidth) /\ l[2] = k.slot % NodeWidth

(* Keys that share a leaf are one key. *)
LEMMA LeafOfOneKey ==
  ASSUME NEW j \in StateKeys, NEW k \in StateKeys, KeyToLeaf(j) = KeyToLeaf(k)
  PROVE  j = k
<1>1. \A x \in StateKeys : PartsOfLeaf(KeyToLeaf(x), x)
  <2> TAKE x \in StateKeys
  <2>1. x.slot # NoSlot => x.slot \in Nat
    BY DEF StateKeys
  <2> QED BY <2>1, HeaderSlot DEF KeyToLeaf, PartsOfLeaf
<1>2. \A a, b : HeaderStem(a).addr = a /\ ~HeaderStem(a).storage
  BY DEF HeaderStem
<1>3. \A a, b : StorageStem(a, b).addr = a /\ StorageStem(a, b).storage /\ StorageStem(a, b).chunk = b
  BY DEF StorageStem
<1> DEFINE l == KeyToLeaf(j)
<1>4. PartsOfLeaf(l, j) /\ PartsOfLeaf(l, k)
  BY <1>1
<1> HIDE DEF l
<1>5. /\ j.slot \in Nat \cup {NoSlot} /\ k.slot \in Nat \cup {NoSlot} /\ NoSlot \notin Nat
      /\ HeaderOffset \in Nat \ {0}
  BY GeometryAssumption DEF StateKeys
<1>6. j.addr = k.addr
  BY <1>2, <1>3, <1>4 DEF PartsOfLeaf
<1>7. j.slot = k.slot
  <2>1. CASE ~l[1].storage
    <3>1. ASSUME NEW x, PartsOfLeaf(l, x), x.slot \in Nat \cup {NoSlot}
          PROVE  IF x.slot = NoSlot THEN l[2] = 0 ELSE x.slot \in Nat /\ l[2] = HeaderOffset + x.slot
      <4>1. ~(l[1] = StorageStem(x.addr, x.slot \div NodeWidth))
        BY <1>3, <2>1
      <4> QED BY <3>1, <4>1 DEF PartsOfLeaf
    <3>2. /\ IF j.slot = NoSlot THEN l[2] = 0 ELSE j.slot \in Nat /\ l[2] = HeaderOffset + j.slot
          /\ IF k.slot = NoSlot THEN l[2] = 0 ELSE k.slot \in Nat /\ l[2] = HeaderOffset + k.slot
      BY <1>4, <1>5, <3>1
    <3> QED BY <1>5, <3>2
  <2>2. CASE l[1].storage
    <3>1. /\ j.slot \in Nat /\ j.slot \div NodeWidth = l[1].chunk /\ j.slot % NodeWidth = l[2]
          /\ k.slot \in Nat /\ k.slot \div NodeWidth = l[1].chunk /\ k.slot % NodeWidth = l[2]
      BY <1>2, <1>3, <1>4, <1>5, <2>2 DEF PartsOfLeaf
    <3>2. /\ j.slot = NodeWidth * (j.slot \div NodeWidth) + (j.slot % NodeWidth)
          /\ k.slot = NodeWidth * (k.slot \div NodeWidth) + (k.slot % NodeWidth)
      BY <3>1, Division, GeometryAssumption
    <3> QED BY <3>1, <3>2
  <2> QED BY <2>1, <2>2
<1>8. j = [addr |-> j.addr, slot |-> j.slot] /\ k = [addr |-> k.addr, slot |-> k.slot]
  BY DEF StateKeys
<1> QED BY <1>6, <1>7, <1>8

(* As many leaves as keys, and finitely many stems. *)
LEMMA LeavesOfKeys ==
  ASSUME NEW K \in SUBSET StateKeys, IsFiniteSet(K)
  PROVE  /\ Cardinality({KeyToLeaf(k) : k \in K}) = Cardinality(K)
         /\ IsFiniteSet({StemOf(k) : k \in K})
<1> DEFINE f == [k \in K |-> KeyToLeaf(k)]
           g == [k \in K |-> StemOf(k)]
<1>1. \A j, k \in K : f[j] = f[k] => j = k
  BY LeafOfOneKey
<1>2. {KeyToLeaf(k) : k \in K} = {f[k] : k \in K} /\ {StemOf(k) : k \in K} = {g[k] : k \in K}
  OBVIOUS
<1>3. DOMAIN f = K /\ DOMAIN g = K
  OBVIOUS
<1> HIDE DEF f, g
<1>4. Cardinality({f[k] : k \in K}) = Cardinality(K)
  BY <1>1, <1>3, ValuesOf
<1>5. IsFiniteSet({g[k] : k \in K})
  BY <1>3, ValuesOf
<1> QED BY <1>2, <1>4, <1>5

-----------------------------------------------------------------------------
(* How large groups are. *)

FiniteItems(items, n) == \A i \in 1..n : IsFiniteSet(items[i])

(* Finite sets have finite groups. *)
LEMMA GroupFinite ==
  ASSUME NEW n \in Nat, NEW items, FiniteItems(items, n), NEW w, NEW g
  PROVE  IsFiniteSet(GroupOf(items, n, w, g)) /\ Cardinality(GroupOf(items, n, w, g)) \in Nat
<1> DEFINE J == {j \in 1..n : (j - 1) \div w = g}
           f == [j \in J |-> items[j]]
<1>1. IsFiniteSet(J)
  <2>1. 1 \in Int /\ n \in Int
    OBVIOUS
  <2>2. IsFiniteSet(1..n)
    BY <2>1, FS_Interval
  <2> QED BY <2>2, FS_Subset
<1>2. DOMAIN f = J /\ {f[j] : j \in J} = {items[j] : j \in J}
  OBVIOUS
<1>3. \A T \in {items[j] : j \in J} : IsFiniteSet(T)
  BY DEF FiniteItems
<1>4. GroupOf(items, n, w, g) = UNION {items[j] : j \in J}
  BY DEF GroupOf
<1> HIDE DEF J, f
<1>5. IsFiniteSet({f[j] : j \in J})
  BY <1>1, <1>2, ValuesOf
<1>6. IsFiniteSet(UNION {items[j] : j \in J})
  BY <1>2, <1>3, <1>5, FS_UNION
<1> QED BY <1>4, <1>6, FS_CardinalityType

(* A window of m shorter ones has all that one of them has. *)
LEMMA GroupInside ==
  ASSUME NEW items, NEW n \in Nat, NEW v \in Nat \ {0}, NEW m \in Nat \ {0},
         NEW g \in Nat, NEW i \in 0..m - 1
  PROVE  GroupOf(items, n, v, m * g + i) \subseteq GroupOf(items, n, v * m, g)
<1> DEFINE h == m * g + i
           w == v * m
<1>1. h \in Nat /\ w \in Nat \ {0}
  OBVIOUS
<1>2. ASSUME NEW j \in 1..n, (j - 1) \div v = h PROVE (j - 1) \div w = g
  <2> DEFINE r == (j - 1) % v
             s == v * i + r
  <2>1. j - 1 \in Nat /\ r \in 0..v - 1 /\ j - 1 = v * h + r
    <3>1. j - 1 \in Nat
      OBVIOUS
    <3>2. (j - 1) % v \in 0..v - 1 /\ j - 1 = v * ((j - 1) \div v) + ((j - 1) % v)
      BY <3>1, Division
    <3> QED BY <1>2, <3>1, <3>2
  <2> HIDE DEF r
  <2>2. v * h = w * g + v * i
    <3>1. v * (m * g + i) = v * (m * g) + v * i
      OBVIOUS
    <3>2. v * (m * g) = (v * m) * g
      OBVIOUS
    <3> QED BY <3>1, <3>2
  <2>3. v * i + v <= w /\ v * i \in Nat
    <3>1. i \in Int /\ m \in Int /\ i < m
      OBVIOUS
    <3>2. i * v + v <= m * v
      BY <3>1, Multiples
    <3>3. v * i = i * v /\ v * m = m * v
      OBVIOUS
    <3> QED BY <3>2, <3>3
  <2>4. w * g \in Nat
    OBVIOUS
  <2>5. j - 1 = w * g + s /\ s \in 0..w - 1
    <3> DEFINE a == w * g
               b == v * i
               c == v * h
    <3>1. /\ c = a + b /\ b + v <= w /\ a \in Nat /\ b \in Nat /\ j - 1 = c + r
          /\ s = b + r
      BY <2>1, <2>2, <2>3, <2>4
    <3> HIDE DEF a, b, c, w, s, h
    <3>2. j - 1 = a + s /\ s \in 0..w - 1
      BY <1>1, <2>1, <3>1
    <3> QED BY <3>2 DEF a
  <2> HIDE DEF w, s, h
  <2> QED BY <1>1, <2>1, <2>5, DivisionIs
<1> HIDE DEF h, w
<1>3. {items[j] : j \in {x \in 1..n : (x - 1) \div v = h}}
        \subseteq {items[j] : j \in {x \in 1..n : (x - 1) \div w = g}}
  BY <1>2
<1> QED BY <1>3 DEF GroupOf, h, w

-----------------------------------------------------------------------------
(* The sizes of the first m groups of w of n sets, added up. *)
SumTo(items, n, w, m) == SumFunction(SizesOf(items, n, w, m))

(* Group by group. *)
LEMMA SumToNext ==
  ASSUME NEW n \in Nat, NEW items, FiniteItems(items, n), NEW w, NEW m \in Nat
  PROVE  /\ SumTo(items, n, w, 0) = 0
         /\ SizesOf(items, n, w, m) \in [1..m -> Nat]
         /\ SumTo(items, n, w, m) \in Nat
         /\ SumTo(items, n, w, m + 1)
              = SumTo(items, n, w, m) + Cardinality(GroupOf(items, n, w, m))
<1> DEFINE size(g) == Cardinality(GroupOf(items, n, w, g))
           s == SizesOf(items, n, w, m)
           t == SizesOf(items, n, w, m + 1)
<1>1. \A g : size(g) \in Nat
  BY GroupFinite
<1>2. s = [g \in 1..m |-> size(g - 1)] /\ t = [g \in 1..m + 1 |-> size(g - 1)]
  BY DEF SizesOf
<1>3. SizesOf(items, n, w, 0) = [x \in {} |-> 0]
  BY DEF SizesOf
<1> HIDE DEF size, s, t
<1>4. s \in [1..m -> Nat] /\ t \in [1..m + 1 -> Nat] /\ \A i \in 1..m : s[i] = t[i]
  BY <1>1, <1>2
<1>5. t[m + 1] = size(m)
  <2>1. m + 1 \in 1..m + 1 /\ (m + 1) - 1 = m
    OBVIOUS
  <2> QED BY <1>2, <2>1
<1>6. SumFunction(t) = SumFunction(s) + t[m + 1]
  BY <1>4, SumOfAppended
<1>7. SumFunction(s) \in Nat
  <2>1. 1 \in Int /\ m \in Int
    OBVIOUS
  <2>2. IsFiniteSet(1..m)
    BY <2>1, FS_Interval
  <2> QED BY <1>4, <2>2, SumIsNatural
<1>8. SumFunction(SizesOf(items, n, w, 0)) = 0
  BY <1>3, SumOfNone
<1> QED BY <1>4, <1>5, <1>6, <1>7, <1>8 DEF SumTo, s, t, size

(* The sizes of m shorter windows are together m times that of the one     *)
(* they make up, at most.                                                  *)
LEMMA SumWithin ==
  ASSUME NEW n \in Nat, NEW items, FiniteItems(items, n), NEW v \in Nat \ {0},
         NEW m \in Nat \ {0}, NEW g \in Nat
  PROVE  SumTo(items, n, v, m * g + m)
           <= SumTo(items, n, v, m * g) + m * Cardinality(GroupOf(items, n, v * m, g))
<1> DEFINE c == Cardinality(GroupOf(items, n, v * m, g))
           a == m * g
           S(k) == SumTo(items, n, v, k)
           G == {i \in Nat : i <= m => S(a + i) <= S(a) + i * c}
<1>1. a \in Nat /\ c \in Nat
  BY GroupFinite
<1>2. \A k \in Nat : S(k) \in Nat
  BY SumToNext
<1>3. 0 \in G
  <2>1. a + 0 = a /\ 0 * c = 0
    BY <1>1
  <2>2. S(a) \in Nat
    BY <1>1, <1>2
  <2> HIDE DEF S, a, c
  <2> QED BY <2>1, <2>2
<1>4. ASSUME NEW i \in G PROVE i + 1 \in G
  <2> SUFFICES ASSUME i + 1 <= m PROVE S(a + (i + 1)) <= S(a) + (i + 1) * c
    BY DEF G
  <2>0. i \in Nat /\ i \in 0..m - 1 /\ S(a + i) <= S(a) + i * c
    OBVIOUS
  <2>1. GroupOf(items, n, v, a + i) \subseteq GroupOf(items, n, v * m, g)
    BY <2>0, GroupInside
  <2>2. Cardinality(GroupOf(items, n, v, a + i)) <= c
    <3>1. IsFiniteSet(GroupOf(items, n, v * m, g))
      BY GroupFinite
    <3> QED BY <2>1, <3>1, FS_Subset
  <2>3. Cardinality(GroupOf(items, n, v, a + i)) \in Nat
    BY GroupFinite
  <2>4. S((a + i) + 1) = S(a + i) + Cardinality(GroupOf(items, n, v, a + i))
    <3>1. a + i \in Nat
      BY <1>1, <2>0
    <3> HIDE DEF a
    <3> QED BY <3>1, SumToNext
  <2>5. (a + i) + 1 = a + (i + 1) /\ (i + 1) * c = i * c + c /\ i * c \in Nat
    BY <1>1, <2>0
  <2>6. S(a) \in Nat /\ S(a + i) \in Nat /\ S(a + (i + 1)) \in Nat
    <3>1. a + i \in Nat /\ a + (i + 1) \in Nat
      BY <1>1, <2>0
    <3> HIDE DEF a, S
    <3> QED BY <1>1, <1>2, <3>1
  <2> DEFINE d == Cardinality(GroupOf(items, n, v, a + i))
             x == S(a)
             y == S(a + i)
             z == S(a + (i + 1))
             p == i * c
             q == (i + 1) * c
  <2>7. d <= c /\ d \in Nat /\ z = y + d /\ q = p + c /\ y <= x + p /\ p \in Nat
        /\ x \in Nat /\ y \in Nat /\ z \in Nat
    BY <2>0, <2>2, <2>3, <2>4, <2>5, <2>6
  <2> HIDE DEF d, x, y, z, p, q, c, a, S, G
  <2>8. z <= x + q
    BY <1>1, <2>7
  <2> QED BY <2>8 DEF z, x, q
<1>5. G = Nat
  <2>1. G \in SUBSET Nat
    OBVIOUS
  <2> HIDE DEF G
  <2> QED BY <1>3, <1>4, <2>1, NumberInduction
<1>6. m \in G
  BY <1>5
<1> QED BY <1>6

(* So it is for all of the longer ones. *)
LEMMA SumOfShorter ==
  ASSUME NEW n \in Nat, NEW items, FiniteItems(items, n), NEW v \in Nat \ {0},
         NEW m \in Nat \ {0}, NEW l \in Nat
  PROVE  SumTo(items, n, v, m * l) <= m * SumTo(items, n, v * m, l)
<1> DEFINE w == v * m
           S(k) == SumTo(items, n, v, k)
           T(k) == SumTo(items, n, w, k)
           G == {g \in Nat : S(m * g) <= m * T(g)}
<1>1. \A k \in Nat : S(k) \in Nat /\ T(k) \in Nat
  BY SumToNext
<1>2. 0 \in G
  <2>1. S(0) = 0 /\ T(0) = 0 /\ m * 0 = 0
    BY SumToNext
  <2> HIDE DEF S, T
  <2> QED BY <2>1
<1>3. ASSUME NEW g \in G PROVE g + 1 \in G
  <2> DEFINE c == Cardinality(GroupOf(items, n, w, g))
             a == m * g
  <2>1. g \in Nat /\ S(a) <= m * T(g)
    OBVIOUS
  <2>2. a \in Nat /\ c \in Nat /\ m * (g + 1) = a + m
    <3>1. c \in Nat
      BY GroupFinite
    <3> QED BY <2>1, <3>1
  <2>3. S(a + m) <= S(a) + m * c
    BY <2>1, SumWithin
  <2>4. T(g + 1) = T(g) + c
    BY <2>1, SumToNext
  <2>5. S(a + m) \in Nat /\ S(a) \in Nat /\ T(g) \in Nat /\ T(g + 1) \in Nat
    <3>1. a + m \in Nat /\ g + 1 \in Nat
      BY <2>1, <2>2
    <3> HIDE DEF S, T, a
    <3> QED BY <1>1, <2>1, <2>2, <3>1
  <2> DEFINE t == T(g)
             u == T(g + 1)
             x == S(a)
             y == S(a + m)
  <2>6. /\ t \in Nat /\ u = t + c /\ x \in Nat /\ y \in Nat /\ x <= m * t /\ y <= x + m * c
    BY <2>1, <2>3, <2>4, <2>5
  <2> HIDE DEF S, T, G, c, a, t, u, x, y
  <2>7. y <= m * u
    <3>1. m * u = m * t + m * c /\ m * t \in Nat /\ m * c \in Nat
      BY <2>2, <2>6
    <3> QED BY <2>6, <3>1
  <2>8. S(m * (g + 1)) <= m * T(g + 1)
    BY <2>2, <2>7 DEF y, u
  <2> QED BY <2>1, <2>8 DEF G
<1>4. G = Nat
  <2>1. G \in SUBSET Nat
    OBVIOUS
  <2> HIDE DEF G
  <2> QED BY <1>2, <1>3, <2>1, NumberInduction
<1>5. l \in G
  BY <1>4
<1> QED BY <1>5

-----------------------------------------------------------------------------
(* Capacities, as the simulator takes them from a mean.                    *)

(* A mean of l numbers that add up to s. *)
MeanOf(s, l) == <<s, l>>

(* What is rounded down. *)
Rounded(s, l, p) == (2 * s * p + 100 * l) \div (200 * l)

(* The number q is it. *)
IsRounded(q, s, l, p) ==
  /\ q \in Nat /\ 2 * s * p \in Nat
  /\ q * (200 * l) <= 2 * s * p + 100 * l
  /\ 2 * s * p + 100 * l <= q * (200 * l) + 200 * l - 1

(* The entries are that, or one. *)
LEMMA EntriesOf ==
  ASSUME NEW s \in Nat, NEW l \in Nat \ {0}, NEW p \in Nat
  PROVE  /\ IsRounded(Rounded(s, l, p), s, l, p)
         /\ Entries(MeanOf(s, l), p) = IF Rounded(s, l, p) < 1 THEN 1 ELSE Rounded(s, l, p)
         /\ Entries(MeanOf(s, l), p) \in Nat \ {0}
<1> DEFINE x == 2 * s * p
           d == 200 * l
           q == Rounded(s, l, p)
<1>1. x \in Nat /\ d \in Nat \ {0} /\ 100 * l \in Nat
  OBVIOUS
<1>2. q = (x + 100 * l) \div d
  BY DEF Rounded
<1>3. Entries(MeanOf(s, l), p) = IF q < 1 THEN 1 ELSE q
  <2>1. MeanOf(s, l)[1] = s /\ MeanOf(s, l)[2] = l /\ l * 200 = 200 * l
    BY DEF MeanOf
  <2> HIDE DEF q
  <2> QED BY <2>1 DEF Entries, Rounded, q
<1> HIDE DEF q, x, d
<1>4. x + 100 * l \in Int /\ 0 <= x + 100 * l
  BY <1>1
<1>5. q \in Nat
  BY <1>1, <1>2, <1>4
<1>6. q * d <= x + 100 * l /\ x + 100 * l <= q * d + d - 1
  BY <1>1, <1>2, <1>4, <1>5, Quotient
<1> QED BY <1>1, <1>3, <1>5, <1>6 DEF q, x, d, IsRounded

(* They are the share of the mean to the nearest entry. *)
LEMMA EntriesNear ==
  ASSUME NEW s \in Nat, NEW l \in Nat \ {0}, NEW p \in Nat, NEW e,
         e = Entries(MeanOf(s, l), p)
  PROVE  \/ -100 * l <= 2 * (100 * l * e - p * s) /\ 2 * (100 * l * e - p * s) <= 100 * l
         \/ e = 1 /\ 2 * (100 * l * e - p * s) > 0
<1> DEFINE x == 2 * s * p
           h == 100 * l
           q == Rounded(s, l, p)
           r == q * (200 * l)
           off == 2 * (100 * l * e - p * s)
<1>1. /\ q \in Nat /\ x \in Nat /\ h \in Nat \ {0}
      /\ r <= x + h /\ x + h <= r + 200 * l - 1
      /\ e = IF q < 1 THEN 1 ELSE q
  <2>1. h \in Nat \ {0}
    OBVIOUS
  <2>2. IsRounded(q, s, l, p) /\ e = IF q < 1 THEN 1 ELSE q
    BY EntriesOf
  <2> HIDE DEF q
  <2> QED BY <2>1, <2>2 DEF IsRounded
<1>2. 200 * l = 2 * h /\ r \in Nat
  BY <1>1
<1>3. -100 * l = -h
  OBVIOUS
<1>4. CASE q >= 1
  <2>1. e = q
    BY <1>1, <1>4
  <2>2. off = r - x
    <3>1. 2 * (100 * l * q - p * s) = q * (200 * l) - 2 * s * p
      BY <1>1
    <3> HIDE DEF q
    <3> QED BY <2>1, <3>1
  <2> HIDE DEF x, h, r, off, q
  <2>3. -h <= off /\ off <= h
    BY <1>1, <1>2, <2>2
  <2> QED BY <1>3, <2>3 DEF off, h
<1>5. CASE q < 1
  <2>1. e = 1 /\ q = 0
    BY <1>1, <1>5
  <2>2. r = 0
    <3> HIDE DEF q
    <3> QED BY <2>1
  <2>3. off = 2 * h - x
    BY <2>1
  <2> HIDE DEF x, h, r, off, q
  <2>4. off > 0
    BY <1>1, <1>2, <2>2, <2>3
  <2> QED BY <2>1, <2>4 DEF off
<1> QED BY <1>1, <1>4, <1>5

(* A mean that is not larger has no more entries: m * l numbers that add   *)
(* up to s, and l that add up to t.                                        *)
LEMMA EntriesGrow ==
  ASSUME NEW s \in Nat, NEW t \in Nat, NEW l \in Nat \ {0}, NEW m \in Nat \ {0}, s <= m * t,
         NEW p \in Nat
  PROVE  Entries(MeanOf(s, m * l), p) <= Entries(MeanOf(t, l), p)
<1> DEFINE k == m * l
           a == Rounded(s, k, p)
           b == Rounded(t, l, p)
           d == 200 * l
           x == 2 * s * p
           y == 2 * t * p
<1>1. k \in Nat \ {0}
  OBVIOUS
<1>2. /\ a \in Nat /\ x \in Nat /\ a * (200 * k) <= x + 100 * k
      /\ Entries(MeanOf(s, k), p) = IF a < 1 THEN 1 ELSE a
  <2> HIDE DEF k
  <2>1. IsRounded(a, s, k, p) /\ Entries(MeanOf(s, k), p) = IF a < 1 THEN 1 ELSE a
    BY <1>1, EntriesOf
  <2> HIDE DEF a
  <2> QED BY <2>1 DEF IsRounded
<1>3. /\ b \in Nat /\ y \in Nat /\ d \in Nat \ {0} /\ y + 100 * l <= b * d + d - 1
      /\ Entries(MeanOf(t, l), p) = IF b < 1 THEN 1 ELSE b
  <2>1. IsRounded(b, t, l, p) /\ Entries(MeanOf(t, l), p) = IF b < 1 THEN 1 ELSE b
    BY EntriesOf
  <2>2. d \in Nat \ {0}
    OBVIOUS
  <2> HIDE DEF b
  <2> QED BY <2>1, <2>2 DEF IsRounded
<1>4. x <= m * y
  <2>1. x = (2 * p) * s /\ m * y = (2 * p) * (m * t)
    OBVIOUS
  <2>2. m * t \in Nat /\ 2 * p \in Nat
    OBVIOUS
  <2> DEFINE u == m * t
             z == 2 * p
  <2> HIDE DEF u, z
  <2>3. z * s <= z * u
    BY <2>2 DEF u, z
  <2> QED BY <2>1, <2>3 DEF u, z
<1>5. a * (200 * k) = m * (a * d) /\ x + 100 * k = x + m * (100 * l)
  <2>1. \A c \in Nat : c * (200 * (m * l)) = m * (c * (200 * l))
    OBVIOUS
  <2>2. 100 * (m * l) = m * (100 * l)
    OBVIOUS
  <2> HIDE DEF a
  <2> QED BY <1>2, <2>1, <2>2
<1> HIDE DEF a, b, x, y, k
<1>6. a * d <= y + 100 * l
  <2> DEFINE A == a * d
             B == y + 100 * l
  <2>1. A \in Nat /\ B \in Nat /\ m * B = m * y + m * (100 * l)
    BY <1>2, <1>3
  <2>2. m * A <= m * B
    <3>1. m * y \in Nat /\ m * (100 * l) \in Nat /\ m * A \in Nat
      BY <1>3, <2>1
    <3> HIDE DEF A, B, d
    <3> QED BY <1>2, <1>4, <1>5, <2>1, <3>1 DEF A
  <2> HIDE DEF A, B, d
  <2>3. A <= B
    <3> SUFFICES ASSUME B < A PROVE FALSE
      BY <2>1
    <3>1. B * m + m <= A * m
      BY <2>1, Multiples
    <3>2. B * m = m * B /\ A * m = m * A /\ m * B \in Nat /\ m * A \in Nat
      BY <2>1
    <3> QED BY <2>2, <3>1, <3>2
  <2> QED BY <2>3 DEF A, B
<1>7. a <= b
  <2> HIDE DEF d
  <2> SUFFICES ASSUME b < a PROVE FALSE
    BY <1>2, <1>3
  <2>1. b * d + d <= a * d /\ b * d \in Int /\ a * d \in Int
    BY <1>2, <1>3, Multiples
  <2>2. 100 * l \in Nat
    OBVIOUS
  <2> DEFINE A == a * d
             B == b * d
             C == y + 100 * l
  <2>3. C \in Nat /\ A \in Int /\ B \in Int /\ B + d <= A /\ A <= C /\ C <= B + d - 1
    BY <1>3, <1>6, <2>1, <2>2
  <2> HIDE DEF A, B, C
  <2> QED BY <1>3, <2>3
<1> QED BY <1>2, <1>3, <1>7 DEF k

-----------------------------------------------------------------------------
(* What characterize.py reads.                                             *)

(* The reads of a record, as they are decoded, are finitely many keys of   *)
(* the state.                                                              *)
LEMMA DecodedReads ==
  ASSUME NEW r, Sound(r)
  PROVE  /\ ConvertRecord(r).reads \subseteq StateKeys /\ IsFiniteSet(ConvertRecord(r).reads)
         /\ ConvertRecord(r).writes \subseteq StateKeys
<1> DEFINE f == [x \in r.reads |-> Key(x)]
<1>1. /\ ConvertRecord(r).reads = {Key(x) : x \in r.reads}
      /\ ConvertRecord(r).writes = {Key(x) : x \in r.writes}
  BY DEF ConvertRecord
<1>2. \A x \in r.reads \cup r.writes : Key(x) \in StateKeys
  <2> TAKE x \in r.reads \cup r.writes
  <2>1. x.addr.id \in Addresses /\ (x.slot # NoSlot => x.slot.id \in Nat)
    BY DEF Sound, Names
  <2> QED BY <2>1 DEF Key, StateKeys
<1>3. DOMAIN f = r.reads /\ {f[x] : x \in r.reads} = {Key(x) : x \in r.reads}
  OBVIOUS
<1> HIDE DEF f
<1>4. IsFiniteSet({f[x] : x \in r.reads})
  BY <1>3, ValuesOf DEF Sound
<1> QED BY <1>1, <1>2, <1>3, <1>4

(* So it is with all that is read. *)
LEMMA RecordsRead ==
  ASSUME ManifestInv, DiskInv
  PROVE  \A r \in Records : /\ r.reads \subseteq StateKeys /\ IsFiniteSet(r.reads)
                            /\ r.writes \subseteq StateKeys
<1> SUFFICES ASSUME NEW r \in Records
             PROVE  /\ r.reads \subseteq StateKeys /\ IsFiniteSet(r.reads)
                    /\ r.writes \subseteq StateKeys
  OBVIOUS
<1>1. PICK i \in 1..NEntries : \E rs \in Read(Entry(i)) : r \in Range(rs)
  BY EntriesAre DEF Records
<1>2. PICK rs \in Read(Entry(i)) : r \in Range(rs)
  BY <1>1
<1>3. PICK c : Numbered(c) /\ rs = Converted(c)
  BY ReadsAre
<1>4. PICK k \in 1..Len(c.records) : r = ConvertRecord(c.records[k])
  BY <1>2, <1>3 DEF Converted, Range
<1>5. Sound(c.records[k])
  BY <1>3 DEF Numbered
<1> QED BY <1>4, <1>5, DecodedReads

(* dataio.py decodes a file as the simulator does. *)
LEMMA DecodedIs ==
  ASSUME ManifestInv, DiskInv, Accepts, NEW i \in 1..NEntries
  PROVE  Decoded[Entry(i).file] = Lists[i]
<1> DEFINE f == Entry(i).file
<1>1. f \in D!Shards /\ DOMAIN disk = D!Shards
  <2>1. Faithful(Entry(i))
    BY EntriesAre
  <2> QED BY <2>1 DEF Faithful, DiskInv
<1>2. Read(Entry(i)) = {Lists[i]}
  BY AcceptedLists
<1>3. PICK c : disk[f] = {c} /\ Numbered(c) /\ Lists[i] = Converted(c)
  BY <1>2, ReadsAre
<1>4. Contents(f) = c /\ disk[f] # {}
  BY <1>3 DEF Contents
<1>5. DOMAIN c.records = 1..Len(c.records)
  BY <1>3 DEF Numbered
<1>6. Decoded[f] = [j \in DOMAIN c.records |-> ConvertRecord(c.records[j])]
  BY <1>1, <1>4 DEF Decoded
<1> QED BY <1>3, <1>5, <1>6 DEF Converted

(* The blocks that it measures are those that verify-load streamed, and    *)
(* there are some if the manifest counts any.                              *)
LEMMA MeasuredIs ==
  ASSUME IInv, verdict = "ok"
  PROVE  /\ Measured = yielded /\ yielded \in Seq(Records)
         /\ TotalBlocks > 0 => yielded # <<>>
<1>0. RangeInv /\ ManifestInv /\ DiskInv /\ Accepts /\ yielded = Whole
  BY DEF IInv, LoaderInv
<1>1. /\ NEntries \in Nat /\ DOMAIN manifest.shards = 1..NEntries
      /\ \A i \in 1..NEntries : Faithful(Entry(i))
      /\ \A i, j \in 1..NEntries : i < j => Entry(i).last < Entry(j).first
  BY <1>0, EntriesAre
<1>2. Whole \in Seq(Records) /\ Whole = Flat(Lists, NEntries)
  BY <1>0, AcceptedLists
<1> DEFINE firsts == [i \in DOMAIN manifest.shards |-> manifest.shards[i].first]
           n == NEntries
<1>3. firsts \in [1..n -> Int] /\ \A i \in 1..n : firsts[i] = Entry(i).first
  <2>1. \A i \in 1..n : Entry(i).first \in Int
    BY <1>1 DEF Faithful
  <2> QED BY <1>1, <2>1 DEF Entry
<1>4. \A i, j \in 1..n : i < j => firsts[i] < firsts[j]
  <2> SUFFICES ASSUME NEW i \in 1..n, NEW j \in 1..n, i < j PROVE firsts[i] < firsts[j]
    OBVIOUS
  <2>1. /\ Entry(i).first \in Int /\ Entry(i).last \in Int /\ Entry(i).first <= Entry(i).last
        /\ Entry(i).last < Entry(j).first /\ Entry(j).first \in Int
    BY <1>1 DEF Faithful
  <2> HIDE DEF firsts
  <2> QED BY <1>3, <2>1
<1> HIDE DEF firsts
<1>5. Sorted(firsts) = [r \in 1..n |-> r]
  BY <1>1, <1>3, <1>4, SortedStays
<1>6. [r \in DOMAIN Sorted(firsts) |-> Decoded[manifest.shards[Sorted(firsts)[r]].file]] = Lists
  <2>1. \A r \in 1..n : Decoded[manifest.shards[r].file] = Lists[r]
    BY <1>0, DecodedIs DEF Entry
  <2>2. DOMAIN Lists = 1..n /\ Lists = [r \in 1..n |-> Lists[r]]
    BY <1>1 DEF Lists
  <2> QED BY <1>5, <2>1, <2>2
<1>7. Measured = FlattenSeq(Lists)
  BY <1>6 DEF Measured, IterBlocks, firsts
<1>8. FlattenSeq(Lists) = Whole
  <2>1. Lists = [r \in 1..n |-> Lists[r]]
    BY <1>1 DEF Lists
  <2> QED BY <1>1, <1>2, <2>1, FlatAll
<1>9. ASSUME Whole = <<>> PROVE ~(TotalBlocks > 0)
  <2>1. range[1] \in Int /\ range[2] \in Int
    BY <1>0 DEF RangeInv
  <2>2. Len(Whole) = 0
    BY <1>9
  <2>3. ~(range[1] <= range[2])
    BY <1>0, <2>1, <2>2, AcceptedLength
  <2>4. NEntries = 0
    BY <1>0, <2>1, <2>3, AcceptedLength
  <2>5. [i \in DOMAIN manifest.shards |-> manifest.shards[i].count] = [x \in {} |-> 0]
    BY <1>1, <2>4
  <2>6. TotalBlocks = 0
    BY <2>5, SumOfNone DEF TotalBlocks
  <2> QED BY <2>6
<1> QED BY <1>0, <1>2, <1>7, <1>8, <1>9

-----------------------------------------------------------------------------
(* What stays true of the characterisation.                                *)

(* The keys that each of the blocks reads, and how many are slots. *)
Reads == [i \in DOMAIN yielded |-> yielded[i].reads]
StorageList == [i \in DOMAIN yielded |-> Cardinality(Slots(yielded[i].reads))]

(* The first pass after n blocks. *)
PassAt(n) ==
  /\ n \in 0..Len(yielded)
  /\ DOMAIN p1.window = StatWindows
  /\ \A w \in StatWindows : WindowAt(p1.window[w], Reads, Stems, n, w)
  /\ p1.read_storage = [i \in 1..n |-> StorageList[i]]

(* The blocks that were accepted: some, of finitely many keys of the       *)
(* state, and numbered in turn.                                            *)
BlocksInv ==
  /\ Len(yielded) \in Nat \ {0} /\ DOMAIN yielded = 1..Len(yielded)
  /\ \A i \in 1..Len(yielded) :
       yielded[i].reads \subseteq StateKeys /\ IsFiniteSet(yielded[i].reads)
  /\ \A i, j \in 1..Len(yielded) : yielded[i].number = yielded[j].number => i = j

(* They are. *)
LEMMA BlocksAre ==
  ASSUME IInv, verdict = "ok", yielded # <<>>
  PROVE  BlocksInv
<1>0. ManifestInv /\ DiskInv /\ Accepts /\ yielded = Whole
  BY DEF IInv, LoaderInv
<1>1. yielded \in Seq(Records)
  BY MeasuredIs
<1> DEFINE n == Len(yielded)
           q == [i \in 1..n |-> yielded[i].number]
<1>2. n \in Nat \ {0} /\ DOMAIN yielded = 1..n
  BY <1>1
<1>3. \A i \in 1..n : yielded[i] \in Records
  BY <1>1, ElementOfSeq
<1>4. \A i \in 1..n : yielded[i].reads \subseteq StateKeys /\ IsFiniteSet(yielded[i].reads)
  BY <1>0, <1>3, RecordsRead
<1>5. \A i \in 1..n : q[i] \in Int /\ q[i] = yielded[i].number
  BY <1>0, <1>3, RecordsNumbered
<1>6. \A i \in 1..n - 1 : q[i + 1] = q[i] + 1
  <2> TAKE i \in 1..n - 1
  <2>1. i \in 1..n /\ i + 1 \in 1..n
    BY <1>2
  <2>2. yielded[i + 1].number = yielded[i].number + 1
    BY <1>0 DEF Accepts, Gapless
  <2> HIDE DEF q, n
  <2> QED BY <1>5, <2>1, <2>2
<1> HIDE DEF q
<1>7. \A i \in 1..n : q[i] = q[1] + i - 1
  <2>1. n \in Nat
    BY <1>2
  <2> QED BY <2>1, <1>5, <1>6, Counting
<1>8. \A i, j \in 1..n : yielded[i].number = yielded[j].number => i = j
  <2>1. q[1] \in Int
    <3>1. 1 \in 1..n
      BY <1>2
    <3> QED BY <1>5, <3>1
  <2> QED BY <1>2, <1>5, <1>7, <2>1
<1> QED BY <1>2, <1>4, <1>8 DEF BlocksInv

-----------------------------------------------------------------------------
(* The strata.                                                             *)

(* The storage that the blocks read is counted. *)
LEMMA StorageListIs ==
  ASSUME BlocksInv
  PROVE  /\ StorageOf(StorageList, yielded, Len(yielded))
         /\ StorageList = [i \in 1..Len(yielded) |-> StorageList[i]]
<1> DEFINE n == Len(yielded)
<1>1. n \in Nat /\ DOMAIN yielded = 1..n
  BY DEF BlocksInv
<1>2. ASSUME NEW i \in 1..n PROVE Cardinality(Slots(yielded[i].reads)) \in Nat
  <2>1. IsFiniteSet(yielded[i].reads)
    BY DEF BlocksInv
  <2>2. Slots(yielded[i].reads) \subseteq yielded[i].reads
    BY DEF Slots
  <2> QED BY <2>1, <2>2, FS_Subset, FS_CardinalityType
<1>3. StorageList = [i \in 1..n |-> Cardinality(Slots(yielded[i].reads))]
  BY <1>1 DEF StorageList
<1>4. StorageList \in [1..n -> Nat] /\ Len(StorageList) = n
  BY <1>1, <1>2, <1>3
<1> QED BY <1>1, <1>3, <1>4 DEF StorageOf

(* What is counted by number is what was counted by place. *)
LEMMA StorageReadsAre ==
  ASSUME BlocksInv, NEW i \in 1..Len(yielded)
  PROVE  StorageReads(yielded[i].number) = StorageList[i]
<1> DEFINE b == yielded[i]
<1>1. DOMAIN yielded = 1..Len(yielded)
      /\ \A j \in 1..Len(yielded) : yielded[j].number = b.number => j = i
  BY DEF BlocksInv
<1>2. {x \in ToSet(yielded) : x.number = b.number} = {b}
  BY <1>1 DEF ToSet
<1>3. UNION {Slots(r.reads) : r \in {b}} = Slots(b.reads)
  OBVIOUS
<1>4. StorageReads(b.number) = Cardinality(Slots(b.reads))
  <2> HIDE DEF b
  <2> QED BY <1>2, <1>3 DEF StorageReads
<1> QED BY <1>1, <1>4 DEF StorageList

(* The strata that the second pass writes are told apart. *)
LEMMA StrataAreSeparate ==
  ASSUME BlocksInv, NEW defi_set, NEW contracts, NEW pass2,
         pass2 = RunPass2(yielded, defi_set, Thresholds(StorageList)),
         strata = {[defi_contracts |-> contracts, defi_heavy |-> pass2.defi_heavy,
                    transfer_only |-> pass2.transfer_only]}
  PROVE  StrataSeparate
<1> DEFINE n == Len(yielded)
           s == StorageList
           f == [defi_contracts |-> contracts, defi_heavy |-> pass2.defi_heavy,
                 transfer_only |-> pass2.transfer_only]
           Of(kind) == {b \in BlockRange : InStratum(f, kind, b)}
<1>1. n \in Nat \ {0} /\ DOMAIN yielded = 1..n
  BY DEF BlocksInv
<1>2. StorageOf(s, yielded, n)
  BY StorageListIs
<1>3. PICK H, L : Stratified(pass2, yielded, s, n, H, L)
  BY <1>1, <1>2, PassStratifies
<1>4. f.defi_heavy = pass2.defi_heavy /\ f.transfer_only = pass2.transfer_only
  OBVIOUS
<1> HIDE DEF s, f
<1>5. /\ H \subseteq 1..n /\ L \subseteq 1..n
      /\ ToSet(f.defi_heavy) = NumberSet(yielded, H)
      /\ ToSet(f.transfer_only) = NumberSet(yielded, L)
      /\ \A i \in L, j \in H : s[i] <= s[j]
      /\ 4 * Len(f.transfer_only) >= n
  BY <1>3, <1>4 DEF Stratified
<1>6. \A i \in 1..n : StorageReads(yielded[i].number) = s[i]
  BY StorageReadsAre DEF s
<1>7. ToSet(Numbers(yielded)) = NumberSet(yielded, 1..n)
  BY <1>1 DEF ToSet, Numbers, NumberSet
<1>8. ToSet(f.defi_heavy) \cup ToSet(f.transfer_only) \subseteq ToSet(Numbers(yielded))
  BY <1>5, <1>7 DEF NumberSet
<1>9. ASSUME NEW t \in ToSet(f.transfer_only), NEW d \in ToSet(f.defi_heavy)
      PROVE  StorageReads(t) <= StorageReads(d)
  <2>1. PICK i \in L : t = yielded[i].number
    BY <1>5 DEF NumberSet
  <2>2. PICK j \in H : d = yielded[j].number
    BY <1>5 DEF NumberSet
  <2>3. i \in 1..n /\ j \in 1..n
    BY <1>5
  <2> QED BY <1>5, <1>6, <2>1, <2>2, <2>3
<1>10. Cardinality({StorageReads(b) : b \in Of("defi") \cap Of("transfer")}) <= 1
  <2>1. PICK size \in Int : \A i \in L \cap H : s[i] = size
    BY <1>3 DEF Stratified
  <2>2. ASSUME NEW b \in Of("defi") \cap Of("transfer") PROVE StorageReads(b) = size
    <3>1. b \in ToSet(f.defi_heavy) /\ b \in ToSet(f.transfer_only)
      BY DEF InStratum
    <3>2. PICK i \in L : b = yielded[i].number
      BY <1>5, <3>1 DEF NumberSet
    <3>3. PICK j \in H : b = yielded[j].number
      BY <1>5, <3>1 DEF NumberSet
    <3>4. i \in 1..n /\ j \in 1..n /\ yielded[i].number = yielded[j].number
      BY <1>5, <3>2, <3>3
    <3>5. i = j
      BY <3>4 DEF BlocksInv
    <3> QED BY <1>6, <2>1, <3>2, <3>3, <3>4, <3>5
  <2> HIDE DEF Of
  <2>3. {StorageReads(b) : b \in Of("defi") \cap Of("transfer")} \subseteq {size}
    BY <2>2
  <2>4. IsFiniteSet({size}) /\ Cardinality({size}) = 1
    BY FS_Singleton
  <2>5. Cardinality({StorageReads(b) : b \in Of("defi") \cap Of("transfer")}) <= Cardinality({size})
    BY <2>3, <2>4, FS_Subset
  <2> QED BY <2>4, <2>5
<1>11. strata = {f}
  BY DEF f
<1> QED BY <1>5, <1>8, <1>9, <1>10, <1>11 DEF StrataSeparate

-----------------------------------------------------------------------------
(* The capacities.                                                         *)

(* How many groups of w blocks there are, and their mean size. *)
Groups(w) == (Len(yielded) + w - 1) \div w
MeanIn(items, w) == MeanOf(SumTo(items, Len(yielded), w, Groups(w)), Groups(w))

(* One set of items for every block. *)
ItemsInv(items) ==
  /\ DOMAIN items = 1..Len(yielded) /\ Len(items) = Len(yielded)
  /\ FiniteItems(items, Len(yielded))

(* There are some groups. *)
LEMMA GroupsAre ==
  ASSUME BlocksInv, NEW w \in Nat \ {0}
  PROVE  Groups(w) \in Nat \ {0}
<1> DEFINE n == Len(yielded)
           q == n \div w
           r == n % w
<1>1. n \in Nat \ {0}
  BY DEF BlocksInv
<1> HIDE DEF n
<1>2. n + w - 1 \in Nat /\ w <= n + w - 1 /\ w \in Nat
  BY <1>1
<1>3. w = w * 1 + 0 /\ 0 \in 0..w - 1
  OBVIOUS
<1>4. w \div w = 1
  BY <1>3, DivisionIs
<1>5. w \div w <= (n + w - 1) \div w
  BY <1>2, DivisionGrows
<1>6. (n + w - 1) \div w \in Nat
  BY <1>2, Division
<1> QED BY <1>4, <1>5, <1>6 DEF Groups, n

(* The reads and the stems of the blocks. *)
LEMMA ItemsAre ==
  ASSUME BlocksInv
  PROVE  ItemsInv(Reads) /\ ItemsInv(Stems) /\ DOMAIN Leaves = 1..Len(yielded)
         /\ Len(Leaves) = Len(yielded)
<1> DEFINE n == Len(yielded)
<1>1. n \in Nat /\ DOMAIN yielded = 1..n
  BY DEF BlocksInv
<1>2. \A i \in 1..n : yielded[i].reads \in SUBSET StateKeys /\ IsFiniteSet(yielded[i].reads)
  BY DEF BlocksInv
<1>3. Reads = [i \in 1..n |-> yielded[i].reads]
  BY <1>1 DEF Reads
<1>4. Stems = [i \in 1..n |-> {StemOf(k) : k \in yielded[i].reads}]
  BY <1>1 DEF Stems
<1>5. Leaves = [i \in 1..n |-> {KeyToLeaf(k) : k \in yielded[i].reads}]
  BY <1>1 DEF Leaves
<1>6. \A i \in 1..n : IsFiniteSet({StemOf(k) : k \in yielded[i].reads})
  BY <1>2, LeavesOfKeys
<1> HIDE DEF n
<1>7. \A f : f = [i \in 1..n |-> f[i]] => Len(f) = n
  <2> TAKE f
  <2> HAVE f = [i \in 1..n |-> f[i]]
  <2>1. f \in [1..n -> {f[i] : i \in 1..n}]
    OBVIOUS
  <2> QED BY <1>1, <2>1
<1>8. Reads = [i \in 1..n |-> Reads[i]] /\ Stems = [i \in 1..n |-> Stems[i]]
      /\ Leaves = [i \in 1..n |-> Leaves[i]]
  BY <1>3, <1>4, <1>5
<1>9. Len(Reads) = n /\ Len(Stems) = n /\ Len(Leaves) = n
  BY <1>7, <1>8
<1>10. FiniteItems(Reads, n) /\ FiniteItems(Stems, n)
  BY <1>2, <1>3, <1>4, <1>6 DEF FiniteItems
<1>11. DOMAIN Reads = 1..n /\ DOMAIN Stems = 1..n /\ DOMAIN Leaves = 1..n
  BY <1>3, <1>4, <1>5
<1> QED BY <1>9, <1>10, <1>11 DEF ItemsInv, n

(* The sizes of all groups. *)
LEMMA GroupSizesAre ==
  ASSUME NEW items, DOMAIN items = 1..Len(yielded), Len(items) = Len(yielded), NEW w
  PROVE  GroupSizes(w, items) = SizesOf(items, Len(yielded), w, Groups(w))
BY DEF GroupSizes, SizesOf, GroupOf, Groups

(* A group has as many leaves as keys. *)
LEMMA LeafGroups ==
  ASSUME BlocksInv, NEW w
  PROVE  /\ GroupSizes(w, Leaves) = SizesOf(Reads, Len(yielded), w, Groups(w))
         /\ GroupSizes(w, Stems) = SizesOf(Stems, Len(yielded), w, Groups(w))
<1> DEFINE n == Len(yielded)
           R(g) == GroupOf(Reads, n, w, g)
<1>1. n \in Nat /\ DOMAIN yielded = 1..n
  BY DEF BlocksInv
<1>2. ItemsInv(Reads) /\ ItemsInv(Stems) /\ DOMAIN Leaves = 1..n /\ Len(Leaves) = n
  BY ItemsAre
<1>3. GroupSizes(w, Leaves) = SizesOf(Leaves, n, w, Groups(w))
      /\ GroupSizes(w, Stems) = SizesOf(Stems, n, w, Groups(w))
  BY <1>2, GroupSizesAre DEF ItemsInv
<1>4. ASSUME NEW g PROVE Cardinality(GroupOf(Leaves, n, w, g)) = Cardinality(R(g))
  <2>1. GroupOf(Leaves, n, w, g) = {KeyToLeaf(k) : k \in R(g)}
    <3>1. \A i \in 1..n : Leaves[i] = {KeyToLeaf(k) : k \in Reads[i]}
      BY <1>1 DEF Leaves, Reads
    <3> DEFINE J == {j \in 1..n : (j - 1) \div w = g}
    <3>2. J \subseteq 1..n
      OBVIOUS
    <3>3. GroupOf(Leaves, n, w, g) = UNION {Leaves[i] : i \in J} /\ R(g) = UNION {Reads[i] : i \in J}
      BY DEF GroupOf
    <3> HIDE DEF J, R
    <3> QED BY <3>1, <3>2, <3>3
  <2>2. R(g) \in SUBSET StateKeys
    <3>1. \A i \in 1..n : Reads[i] \subseteq StateKeys
      BY <1>1 DEF Reads, BlocksInv
    <3> QED BY <3>1 DEF GroupOf
  <2>3. IsFiniteSet(R(g))
    BY <1>1, <1>2, GroupFinite DEF ItemsInv
  <2> HIDE DEF R
  <2> QED BY <2>1, <2>2, <2>3, LeavesOfKeys
<1>5. SizesOf(Leaves, n, w, Groups(w)) = SizesOf(Reads, n, w, Groups(w))
  BY <1>4 DEF SizesOf
<1> QED BY <1>3, <1>5

(* The statistics of them. *)
LEMMA StatsOfGroups ==
  ASSUME BlocksInv, NEW items, ItemsInv(items), NEW w \in Nat \ {0}
  PROVE  LET s == SizesOf(items, Len(yielded), w, Groups(w))
         IN /\ Stats(s).mean = {MeanIn(items, w)}
            /\ Len(s) = Groups(w) /\ SumFunction(s) = SumTo(items, Len(yielded), w, Groups(w))
            /\ SumFunction(s) \in Nat
<1> DEFINE n == Len(yielded)
           l == Groups(w)
           s == SizesOf(items, n, w, l)
<1>1. n \in Nat /\ l \in Nat \ {0} /\ l \in Nat
  BY GroupsAre DEF BlocksInv
<1>2. s \in [1..l -> Nat] /\ SumTo(items, n, w, l) \in Nat
  BY <1>1, SumToNext DEF ItemsInv
<1>3. SumTo(items, n, w, l) = SumFunction(s)
  BY DEF SumTo
<1> HIDE DEF l, s, n
<1>4. Len(s) = l /\ s # <<>>
  BY <1>1, <1>2
<1>5. Stats(s).mean = {<<SumFunction(s), Len(s)>>}
  BY <1>4 DEF Stats
<1> QED BY <1>2, <1>3, <1>4, <1>5 DEF l, s, n, MeanIn, MeanOf

-----------------------------------------------------------------------------
(* A file whose means are those of the blocks. *)
MeansOf(file) ==
  /\ DOMAIN file.window_working_set = StatWindows
  /\ \A w \in StatWindows : file.window_working_set[w].mean = {MeanIn(Reads, w)}
  /\ \E raw \in file.window_working_set_stems :
       /\ file.window_working_set_stems = {raw} /\ DOMAIN raw = StatWindows
       /\ \A w \in StatWindows : raw[w].mean = {MeanIn(Stems, w)}

(* Its capacities. *)
LEMMA CapacitiesOf ==
  ASSUME NEW file, MeansOf(file), NEW w \in StatWindows, NEW pct
  PROVE  /\ CapacityEntries(file, w, pct) = {Entries(MeanIn(Reads, w), pct)}
         /\ StemCapacityEntries(file, w, pct) = {Entries(MeanIn(Stems, w), pct)}
<1>1. WorkingSet(file.window_working_set, w) = {MeanIn(Reads, w)}
  BY DEF MeansOf, WorkingSet
<1>2. PICK raw : /\ file.window_working_set_stems = {raw} /\ DOMAIN raw = StatWindows
                 /\ \A x \in StatWindows : raw[x].mean = {MeanIn(Stems, x)}
  BY DEF MeansOf
<1>3. WorkingSet(raw, w) = {MeanIn(Stems, w)}
  BY <1>2 DEF WorkingSet
<1>4. CapacityEntries(file, w, pct) = {Entries(MeanIn(Reads, w), pct)}
  BY <1>1 DEF CapacityEntries
<1>5. StemCapacityEntries(file, w, pct) = {Entries(mean, pct) : mean \in WorkingSet(raw, w)}
  BY <1>2 DEF StemCapacityEntries
<1> QED BY <1>3, <1>4, <1>5

(* The number of groups, if no short one is last. *)
LEMMA WholeGroups ==
  ASSUME BlocksInv, NEW w \in Nat \ {0}, NEW l \in Nat, Len(yielded) = w * l
  PROVE  Groups(w) = l
<1>1. Len(yielded) \in Nat
  BY DEF BlocksInv
<1>2. Len(yielded) + w - 1 \in Nat /\ Len(yielded) + w - 1 = w * l + (w - 1) /\ w - 1 \in 0..w - 1
  BY <1>1
<1> DEFINE k == Len(yielded) + w - 1
           r == w - 1
<1>3. k \in Nat /\ k = w * l + r /\ r \in 0..w - 1
  BY <1>2
<1> HIDE DEF k, r
<1>4. k \div w = l
  BY <1>3, DivisionIs
<1> QED BY <1>4 DEF Groups, k

(* The share of a mean, to the nearest entry. *)
LEMMA EntriesNearest ==
  ASSUME BlocksInv, NEW items, ItemsInv(items), NEW w \in Nat \ {0}, NEW pct \in Nat,
         NEW c, c = Entries(MeanIn(items, w), pct)
  PROVE  c \in Nat \ {0} /\ Nearest(c, pct, SizesOf(items, Len(yielded), w, Groups(w)))
<1> DEFINE l == Groups(w)
           sizes == SizesOf(items, Len(yielded), w, l)
           s == SumFunction(sizes)
<1>1. l \in Nat \ {0}
  BY GroupsAre
<1>2. Len(sizes) = l /\ s = SumTo(items, Len(yielded), w, l) /\ s \in Nat
  BY StatsOfGroups
<1>3. c = Entries(MeanOf(s, l), pct)
  BY <1>2 DEF MeanIn
<1> HIDE DEF l, sizes, s
<1>4. c \in Nat \ {0}
  BY <1>1, <1>2, <1>3, EntriesOf
<1>5. \/ -100 * l <= 2 * (100 * l * c - pct * s) /\ 2 * (100 * l * c - pct * s) <= 100 * l
      \/ c = 1 /\ 2 * (100 * l * c - pct * s) > 0
  BY <1>1, <1>2, <1>3, EntriesNear
<1>6. Nearest(c, pct, sizes)
  BY <1>2, <1>5 DEF Nearest, s
<1> QED BY <1>4, <1>6 DEF sizes, l

(* No smaller cache of a window of whole shorter ones. *)
LEMMA EntriesRise ==
  ASSUME BlocksInv, NEW items, ItemsInv(items), NEW v \in Nat \ {0}, NEW w \in Nat \ {0},
         w % v = 0, Len(yielded) % w = 0, NEW pct \in Nat
  PROVE  Entries(MeanIn(items, v), pct) <= Entries(MeanIn(items, w), pct)
<1> DEFINE n == Len(yielded)
           m == w \div v
           l == n \div w
<1>1. n \in Nat \ {0} /\ n \in Nat
  BY DEF BlocksInv
<1>2. w \in Nat /\ m \in Nat /\ w = v * m + 0
  <2>1. w \in Nat
    OBVIOUS
  <2> QED BY <2>1, Division
<1>3. l \in Nat /\ n = w * l + 0
  BY <1>1, Division
<1> HIDE DEF n, m, l
<1>4. w = v * m /\ n = w * l
  BY <1>2, <1>3
<1>5. m \in Nat \ {0} /\ l \in Nat \ {0}
  <2>1. m # 0
    <3>1. v * 0 = 0
      OBVIOUS
    <3> QED BY <1>4, <3>1
  <2>2. l # 0
    <3>1. w * 0 = 0
      OBVIOUS
    <3> QED BY <1>1, <1>4, <3>1
  <2> QED BY <1>2, <1>3, <2>1, <2>2
<1>6. n = v * (m * l) /\ m * l \in Nat
  <2>1. (v * m) * l = v * (m * l) /\ m * l \in Nat
    BY <1>5
  <2> QED BY <1>4, <2>1
<1>7. Groups(w) = l /\ Groups(v) = m * l
  <2>1. Groups(w) = l
    BY <1>4, <1>5, WholeGroups DEF n
  <2> DEFINE k == m * l
  <2>2. k \in Nat /\ n = v * k
    BY <1>6
  <2> HIDE DEF k
  <2>3. Groups(v) = k
    BY <2>2, WholeGroups DEF n
  <2> QED BY <2>1, <2>3 DEF k
<1> DEFINE s == SumTo(items, n, v, m * l)
           t == SumTo(items, n, w, l)
<1>8. FiniteItems(items, n)
  BY DEF ItemsInv, n
<1>9. s <= m * t
  <2>1. SumTo(items, n, v, m * l) <= m * SumTo(items, n, v * m, l)
    BY <1>1, <1>5, <1>8, SumOfShorter
  <2> QED BY <1>4, <2>1
<1>10. s \in Nat /\ t \in Nat
  <2> DEFINE k == m * l
  <2>1. k \in Nat /\ l \in Nat
    BY <1>5, <1>6
  <2> HIDE DEF k
  <2>2. SumTo(items, n, v, k) \in Nat /\ SumTo(items, n, w, l) \in Nat
    BY <1>1, <1>8, <2>1, SumToNext
  <2> QED BY <2>2 DEF k
<1>11. MeanIn(items, v) = MeanOf(s, m * l) /\ MeanIn(items, w) = MeanOf(t, l)
  BY <1>7 DEF MeanIn, n
<1> HIDE DEF s, t
<1>12. Entries(MeanOf(s, m * l), pct) <= Entries(MeanOf(t, l), pct)
  BY <1>5, <1>9, <1>10, EntriesGrow
<1> QED BY <1>11, <1>12

(* The larger of one number. *)
LEMMA MaxOfOne ==
  ASSUME NEW x \in Int
  PROVE  Max({x}) = x
BY DEF Max

(* So the capacities measure the data. *)
LEMMA CapacitiesMeasure ==
  ASSUME BlocksInv, \A file \in stats : MeansOf(file), \A f \in strata : LoadsStrata(f)
  PROVE  CapacitiesMeasureTheData
<1>1. \A w \in ToSet(WINDOWS) : w \in StatWindows /\ w \in Nat \ {0}
  BY ExperimentAssumption
<1>2. \A pct \in ToSet(CAPACITY_PCTS) : pct \in Nat
  <2>1. CAPACITY_PCTS \in Seq(1..100)
    BY GridAssumption
  <2>2. DOMAIN CAPACITY_PCTS = 1..Len(CAPACITY_PCTS)
    BY <2>1
  <2>3. \A i \in 1..Len(CAPACITY_PCTS) : CAPACITY_PCTS[i] \in 1..100
    BY <2>1, ElementOfSeq
  <2> TAKE pct \in ToSet(CAPACITY_PCTS)
  <2>4. PICK i \in 1..Len(CAPACITY_PCTS) : pct = CAPACITY_PCTS[i]
    BY <2>2 DEF ToSet
  <2>5. pct \in 1..100
    BY <2>3, <2>4
  <2> QED BY <2>5
<1>3. ItemsInv(Reads) /\ ItemsInv(Stems)
  BY ItemsAre
<1> SUFFICES ASSUME NEW file \in stats
             PROVE  /\ LoadsParams(file) /\ HasCapacities(file)
                    /\ \A w \in ToSet(WINDOWS), pct \in ToSet(CAPACITY_PCTS) :
                         /\ \A c \in CapacityEntries(file, w, pct) :
                              c >= 1 /\ Nearest(c, pct, GroupSizes(w, Leaves))
                         /\ \A c \in StemCapacityEntries(file, w, pct) :
                              c >= 1 /\ Nearest(c, pct, GroupSizes(w, Stems))
                    /\ \A v, w \in ToSet(WINDOWS), pct \in ToSet(CAPACITY_PCTS) :
                         w % v = 0 /\ Len(yielded) % w = 0 =>
                           /\ Max(CapacityEntries(file, v, pct)) <= Max(CapacityEntries(file, w, pct))
                           /\ Max(StemCapacityEntries(file, v, pct))
                                <= Max(StemCapacityEntries(file, w, pct))
  BY DEF CapacitiesMeasureTheData
<1>4. MeansOf(file)
  OBVIOUS
<1>5. LoadsParams(file)
  <2>1. HasMeans(file.window_working_set)
    BY <1>4 DEF MeansOf, HasMeans
  <2>2. \A raw \in file.window_working_set_stems : HasMeans(raw)
    BY <1>4 DEF MeansOf, HasMeans
  <2> QED BY <2>1, <2>2 DEF LoadsParams
<1>6. \A w \in ToSet(WINDOWS), pct \in ToSet(CAPACITY_PCTS) :
        /\ CapacityEntries(file, w, pct) = {Entries(MeanIn(Reads, w), pct)}
        /\ StemCapacityEntries(file, w, pct) = {Entries(MeanIn(Stems, w), pct)}
  BY <1>1, <1>4, CapacitiesOf
<1>7. HasCapacities(file)
  BY <1>6 DEF HasCapacities
<1>8. ASSUME NEW w \in ToSet(WINDOWS), NEW pct \in ToSet(CAPACITY_PCTS)
      PROVE  /\ \A c \in CapacityEntries(file, w, pct) :
                  c >= 1 /\ Nearest(c, pct, GroupSizes(w, Leaves))
             /\ \A c \in StemCapacityEntries(file, w, pct) :
                  c >= 1 /\ Nearest(c, pct, GroupSizes(w, Stems))
  <2>1. w \in Nat \ {0} /\ pct \in Nat
    BY <1>1, <1>2
  <2>2. /\ GroupSizes(w, Leaves) = SizesOf(Reads, Len(yielded), w, Groups(w))
        /\ GroupSizes(w, Stems) = SizesOf(Stems, Len(yielded), w, Groups(w))
    BY LeafGroups
  <2>3. ASSUME NEW items, ItemsInv(items), NEW c, c = Entries(MeanIn(items, w), pct)
        PROVE  c >= 1 /\ Nearest(c, pct, SizesOf(items, Len(yielded), w, Groups(w)))
    <3>1. c \in Nat \ {0} /\ Nearest(c, pct, SizesOf(items, Len(yielded), w, Groups(w)))
      BY <2>1, <2>3, EntriesNearest
    <3> QED BY <3>1
  <2> QED BY <1>3, <1>6, <2>2, <2>3
<1>9. ASSUME NEW v \in ToSet(WINDOWS), NEW w \in ToSet(WINDOWS),
             NEW pct \in ToSet(CAPACITY_PCTS), w % v = 0, Len(yielded) % w = 0
      PROVE  /\ Max(CapacityEntries(file, v, pct)) <= Max(CapacityEntries(file, w, pct))
             /\ Max(StemCapacityEntries(file, v, pct)) <= Max(StemCapacityEntries(file, w, pct))
  <2>1. v \in Nat \ {0} /\ w \in Nat \ {0} /\ pct \in Nat
    BY <1>1, <1>2
  <2>2. ASSUME NEW items, ItemsInv(items)
        PROVE  Max({Entries(MeanIn(items, v), pct)}) <= Max({Entries(MeanIn(items, w), pct)})
    <3>1. Entries(MeanIn(items, v), pct) <= Entries(MeanIn(items, w), pct)
      BY <1>9, <2>1, <2>2, EntriesRise
    <3>2. Entries(MeanIn(items, v), pct) \in Nat \ {0} /\ Entries(MeanIn(items, w), pct) \in Nat \ {0}
      BY <2>1, <2>2, EntriesNearest
    <3>3. /\ Max({Entries(MeanIn(items, v), pct)}) = Entries(MeanIn(items, v), pct)
          /\ Max({Entries(MeanIn(items, w), pct)}) = Entries(MeanIn(items, w), pct)
      BY <3>2, MaxOfOne
    <3> QED BY <3>1, <3>3
  <2>3. /\ Max({Entries(MeanIn(Reads, v), pct)}) <= Max({Entries(MeanIn(Reads, w), pct)})
        /\ Max({Entries(MeanIn(Stems, v), pct)}) <= Max({Entries(MeanIn(Stems, w), pct)})
    BY <1>3, <2>2
  <2> QED BY <1>6, <2>3
<1> QED BY <1>5, <1>7, <1>8, <1>9

-----------------------------------------------------------------------------
(* The two files as they are written. *)
Reported ==
  /\ \A file \in stats : MeansOf(file)
  /\ \E defi_set \in MostCommon(p1.accesses) :
       LET pass2 == RunPass2(yielded, defi_set, Thresholds(StorageList))
       IN strata = {[defi_contracts |-> {ToHex(a) : a \in defi_set},
                     defi_heavy |-> pass2.defi_heavy,
                     transfer_only |-> pass2.transfer_only]}

(* The stages of the characterisation. *)
MeasureInv ==
  /\ stage \notin {"measure", "run"} => CharacterizeInit
  /\ stage \in {"measure", "run"} => verdict = "ok" /\ yielded # <<>>
  /\ stage = "measure" => PassAt(Len(p1.read_storage)) /\ stats = {} /\ strata = {}
  /\ stage = "run" => Reported

(* What the blocks read, and the means of it, stay as long as they do. *)
LEMMA BlocksFrame ==
  ASSUME yielded' = yielded
  PROVE  /\ Reads' = Reads /\ Stems' = Stems /\ StorageList' = StorageList
         /\ \A file : MeansOf(file) => MeansOf(file)'
<1>1. Reads' = Reads /\ Stems' = Stems /\ StorageList' = StorageList
  BY DEF Reads, Stems, StorageList
<1>2. \A w, items : MeanIn(items, w)' = MeanIn(items, w)
  BY DEF MeanIn, Groups
<1>3. \A file : MeansOf(file) => MeansOf(file)'
  BY <1>1 DEF MeansOf, MeanIn, Groups
<1> QED BY <1>1, <1>3

(* The first pass begins. *)
LEMMA PassBegins ==
  ASSUME BlocksInv, CharacterizeInit
  PROVE  PassAt(0) /\ Len(p1.read_storage) = 0
<1>1. p1.window = [w \in StatWindows |-> EmptyWindow] /\ p1.read_storage = <<>>
  BY DEF CharacterizeInit, Pass1Init
<1>2. \A w \in StatWindows : WindowAt(p1.window[w], Reads, Stems, 0, w)
  <2> TAKE w \in StatWindows
  <2>1. w \in Nat \ {0}
    BY ExperimentAssumption
  <2>2. WindowAt(EmptyWindow, Reads, Stems, 0, w)
    BY <2>1, WindowStart
  <2> QED BY <1>1, <2>2
<1>3. Len(yielded) \in Nat
  BY DEF BlocksInv
<1>4. [i \in 1..0 |-> StorageList[i]] = <<>>
  OBVIOUS
<1> QED BY <1>1, <1>2, <1>3, <1>4 DEF PassAt

(* It takes a block. *)
LEMMA PassGoesOn ==
  ASSUME BlocksInv, NEW n \in Nat, PassAt(n), n + 1 <= Len(yielded), Feed(yielded[n + 1]),
         yielded' = yielded
  PROVE  PassAt(n + 1)' /\ Len(p1'.read_storage) = n + 1
<1> DEFINE b == yielded[n + 1]
<1>1. DOMAIN yielded = 1..Len(yielded) /\ Len(yielded) \in Nat
  BY DEF BlocksInv
<1>2. n + 1 \in 1..Len(yielded)
  BY <1>1
<1>3. /\ p1'.window = [w \in StatWindows |-> FeedWindow(p1.window[w], w, b.reads)]
      /\ p1'.read_storage = Append(p1.read_storage, Cardinality(Slots(b.reads)))
  BY DEF Feed
<1>4. /\ Reads[n + 1] = b.reads /\ Stems[n + 1] = {StemOf(k) : k \in b.reads}
      /\ StorageList[n + 1] = Cardinality(Slots(b.reads))
  BY <1>1, <1>2 DEF Reads, Stems, StorageList
<1>5. Stems[n + 1] = {MirrorStem(k) : k \in Reads[n + 1]}
  BY <1>4, StemsAgree
<1>6. \A w \in StatWindows : WindowAt(p1'.window[w], Reads, Stems, n + 1, w)
  <2> TAKE w \in StatWindows
  <2>1. w \in Nat \ {0}
    BY ExperimentAssumption
  <2>2. WindowAt(p1.window[w], Reads, Stems, n, w)
    BY DEF PassAt
  <2>3. WindowAt(FeedWindow(p1.window[w], w, Reads[n + 1]), Reads, Stems, n + 1, w)
    BY <1>5, <2>1, <2>2, WindowStep
  <2> QED BY <1>3, <1>4, <2>3
<1>7. p1'.read_storage = [i \in 1..n + 1 |-> StorageList[i]]
  <2>1. p1.read_storage = [i \in 1..n |-> StorageList[i]]
    BY DEF PassAt
  <2> QED BY <1>3, <1>4, <2>1, ListGrows
<1>8. Len(p1'.read_storage) = n + 1
  <2>1. p1'.read_storage \in [1..n + 1 -> {StorageList[i] : i \in 1..n + 1}]
    BY <1>7
  <2> QED BY <2>1
<1>9. DOMAIN p1'.window = StatWindows
  BY <1>3
<1>10. Reads' = Reads /\ Stems' = Stems /\ StorageList' = StorageList
  BY BlocksFrame
<1> HIDE DEF b
<1> QED BY <1>2, <1>6, <1>7, <1>8, <1>9, <1>10 DEF PassAt

(* After the last block the files are written. *)
LEMMA FilesAreReported ==
  ASSUME BlocksInv, PassAt(Len(yielded)), Report(yielded), yielded' = yielded
  PROVE  Reported'
<1> DEFINE n == Len(yielded)
           sizes(w) == Finalize(p1.window[w]).sizes
           stem_sizes(w) == Finalize(p1.window[w]).stem_sizes
           raw == [w \in StatWindows |-> Stats(stem_sizes(w))]
           file == [window_working_set |-> [w \in StatWindows |-> Stats(sizes(w))],
                    window_working_set_stems |-> {raw}]
<1>1. n \in Nat
  BY DEF BlocksInv
<1>2. stats' = {file}
  BY DEF Report
<1>3. ASSUME NEW w \in StatWindows
      PROVE  Stats(sizes(w)).mean = {MeanIn(Reads, w)} /\ Stats(stem_sizes(w)).mean = {MeanIn(Stems, w)}
  <2>1. w \in Nat \ {0}
    BY ExperimentAssumption
  <2>2. WindowAt(p1.window[w], Reads, Stems, n, w)
    BY DEF PassAt
  <2>3. /\ sizes(w) = SizesOf(Reads, n, w, (n + w - 1) \div w)
        /\ stem_sizes(w) = SizesOf(Stems, n, w, (n + w - 1) \div w)
    BY <1>1, <2>1, <2>2, WindowEnd
  <2>4. (n + w - 1) \div w = Groups(w)
    BY DEF Groups
  <2>5. ItemsInv(Reads) /\ ItemsInv(Stems)
    BY ItemsAre
  <2>6. Stats(SizesOf(Reads, n, w, Groups(w))).mean = {MeanIn(Reads, w)}
        /\ Stats(SizesOf(Stems, n, w, Groups(w))).mean = {MeanIn(Stems, w)}
    BY <2>1, <2>5, StatsOfGroups
  <2> HIDE DEF sizes, stem_sizes, n
  <2> QED BY <2>3, <2>4, <2>6
<1>4. MeansOf(file)
  <2> HIDE DEF sizes, stem_sizes
  <2>1. /\ DOMAIN raw = StatWindows
        /\ \A w \in StatWindows : raw[w].mean = {MeanIn(Stems, w)}
    BY <1>3
  <2>2. /\ DOMAIN file.window_working_set = StatWindows
        /\ \A w \in StatWindows : file.window_working_set[w].mean = {MeanIn(Reads, w)}
    BY <1>3
  <2>3. file.window_working_set_stems = {raw}
    OBVIOUS
  <2> HIDE DEF raw, file
  <2> QED BY <2>1, <2>2, <2>3 DEF MeansOf
<1> HIDE DEF file
<1>5. \A f \in stats' : MeansOf(f)'
  <2> TAKE f \in stats'
  <2>1. MeansOf(f)
    BY <1>2, <1>4
  <2>2. MeansOf(f) => MeansOf(f)'
    BY BlocksFrame
  <2> QED BY <2>1, <2>2
<1>6. p1.read_storage = StorageList /\ StorageList' = StorageList /\ p1' = p1
  <2>1. p1.read_storage = [i \in 1..n |-> StorageList[i]]
    BY DEF PassAt
  <2> QED BY <2>1, StorageListIs, BlocksFrame DEF Report
<1>7. \E defi_set \in MostCommon(p1.accesses) :
        LET pass2 == RunPass2(yielded, defi_set, Thresholds(StorageList))
        IN strata' = {[defi_contracts |-> {ToHex(a) : a \in defi_set},
                       defi_heavy |-> pass2.defi_heavy,
                       transfer_only |-> pass2.transfer_only]}
  BY <1>6 DEF Report
<1> QED BY <1>5, <1>6, <1>7 DEF Reported

(* They tell the blocks apart, and measure them. *)
LEMMA ReportedProperty ==
  ASSUME BlocksInv, Reported
  PROVE  CapacitiesMeasureTheData /\ StrataSeparate
<1>1. PICK defi_set \in MostCommon(p1.accesses) :
        LET pass2 == RunPass2(yielded, defi_set, Thresholds(StorageList))
        IN strata = {[defi_contracts |-> {ToHex(a) : a \in defi_set},
                      defi_heavy |-> pass2.defi_heavy,
                      transfer_only |-> pass2.transfer_only]}
  BY DEF Reported
<1> DEFINE contracts == {ToHex(a) : a \in defi_set}
           pass2 == RunPass2(yielded, defi_set, Thresholds(StorageList))
<1>2. strata = {[defi_contracts |-> contracts, defi_heavy |-> pass2.defi_heavy,
                 transfer_only |-> pass2.transfer_only]}
  BY <1>1
<1>3. \A c \in contracts : FromHex(c) # {}
  BY DEF ToHex, FromHex
<1> HIDE DEF contracts
<1>4. StrataSeparate
  <2>1. pass2 = RunPass2(yielded, defi_set, Thresholds(StorageList))
    OBVIOUS
  <2> HIDE DEF pass2
  <2> QED BY <1>2, <2>1, StrataAreSeparate
<1> HIDE DEF pass2
<1>5. \A f \in strata : LoadsStrata(f)
  BY <1>2, <1>3 DEF LoadsStrata
<1>6. CapacitiesMeasureTheData
  BY <1>5, CapacitiesMeasure DEF Reported
<1> QED BY <1>4, <1>6

(* Every step keeps to the stages. *)
LEMMA MeasureStep ==
  ASSUME IInv, MeasureInv, [Next]_vars
  PROVE  MeasureInv'
<1>1. stage \in {"measure", "run"} => BlocksInv /\ Measured = yielded
  BY BlocksAre, MeasuredIs DEF MeasureInv
<1>2. ASSUME stage \notin {"measure", "run"}, stage' \notin {"measure", "run"},
             UNCHANGED <<p1, stats, strata>>
      PROVE  MeasureInv'
  BY <1>2 DEF MeasureInv, CharacterizeInit
<1>3. CASE Keep \/ Spoil \/ VerifyLoad
  BY <1>2, <1>3 DEF Keep, Spoil, VerifyLoad
<1>4. CASE Proceed
  <2>1. UNCHANGED <<p1, stats, strata>> /\ verdict' = verdict /\ yielded' = yielded
        /\ stage \notin {"measure", "run"}
    BY <1>4 DEF Proceed, loader
  <2>2. CASE verdict = "ok" /\ TotalBlocks > 0
    <3>1. stage' = "measure"
      BY <1>4, <2>2 DEF Proceed
    <3>2. yielded # <<>>
      BY <2>2, MeasuredIs
    <3>3. BlocksInv /\ CharacterizeInit
      BY <2>1, <2>2, <3>2, BlocksAre DEF MeasureInv
    <3>4. PassAt(0) /\ Len(p1.read_storage) = 0
      BY <3>3, PassBegins
    <3>5. PassAt(Len(p1.read_storage))'
      BY <2>1, <3>4, BlocksFrame DEF PassAt
    <3>6. stats = {} /\ strata = {}
      BY <3>3 DEF CharacterizeInit
    <3> QED BY <2>1, <2>2, <3>1, <3>2, <3>5, <3>6 DEF MeasureInv
  <2>3. CASE ~(verdict = "ok" /\ TotalBlocks > 0)
    <3>1. stage' = "failed"
      BY <1>4, <2>3 DEF Proceed
    <3> QED BY <1>2, <2>1, <3>1
  <2> QED BY <2>2, <2>3
<1>5. CASE Measure
  <2>1. /\ stage = "measure" /\ stage' = stage /\ verdict' = verdict /\ yielded' = yielded
        /\ Len(p1.read_storage) + 1 <= Len(Measured)
        /\ Feed(Measured[Len(p1.read_storage) + 1])
    BY <1>5 DEF Measure, loader
  <2>2. BlocksInv /\ PassAt(Len(p1.read_storage)) /\ Measured = yielded /\ verdict = "ok"
        /\ yielded # <<>> /\ stats = {} /\ strata = {}
    BY <1>1, <2>1 DEF MeasureInv
  <2>3. PICK n \in Nat : n = Len(p1.read_storage)
    BY <2>2 DEF PassAt
  <2>4. PassAt(n + 1)' /\ Len(p1'.read_storage) = n + 1
    BY <2>1, <2>2, <2>3, PassGoesOn
  <2>5. PassAt(Len(p1.read_storage))'
    BY <2>4 DEF PassAt
  <2>6. stats' = {} /\ strata' = {}
    BY <2>1, <2>2 DEF Feed
  <2> QED BY <2>1, <2>2, <2>5, <2>6 DEF MeasureInv
<1>6. CASE Conclusions
  <2>1. /\ stage = "measure" /\ stage' = "run" /\ verdict' = verdict /\ yielded' = yielded
        /\ Len(p1.read_storage) = Len(Measured) /\ Report(Measured)
    BY <1>6 DEF Conclusions, loader
  <2>2. BlocksInv /\ Measured = yielded /\ PassAt(Len(yielded)) /\ verdict = "ok" /\ yielded # <<>>
    BY <1>1, <2>1 DEF MeasureInv
  <2>3. Reported'
    BY <2>1, <2>2, FilesAreReported
  <2> QED BY <2>1, <2>2, <2>3 DEF MeasureInv
<1>7. CASE UNCHANGED vars
  <2>1. UNCHANGED <<p1, stats, strata, stage, verdict, yielded>>
    BY <1>7 DEF vars, loader
  <2>2. Reads' = Reads /\ Stems' = Stems /\ StorageList' = StorageList
        /\ \A file : MeansOf(file) => MeansOf(file)'
    BY <2>1, BlocksFrame
  <2>3. Reported => Reported'
    BY <2>1, <2>2 DEF Reported
  <2>4. PassAt(Len(p1.read_storage)) => PassAt(Len(p1.read_storage))'
    BY <2>1, <2>2 DEF PassAt
  <2> QED BY <2>1, <2>3, <2>4 DEF MeasureInv, CharacterizeInit
<1> QED BY <1>3, <1>4, <1>5, <1>6, <1>7 DEF Next

(* Along every behaviour, what the analytics have measured is that of the  *)
(* blocks that verify-load streamed, up to the last that they have read    *)
(* (characterize.py 82-130 and 177-199).                                   *)
THEOREM MeasureInvariant == Spec => [](IInv /\ MeasureInv)
<1>1. Init => IInv /\ MeasureInv
  <2>1. Init => MeasureInv
    BY DEF Init, MeasureInv
  <2> QED BY <2>1, InitInv
<1>2. IInv /\ MeasureInv /\ [Next]_vars => (IInv /\ MeasureInv)'
  BY NextInv, MeasureStep
<1> QED BY <1>1, <1>2, PTL DEF Spec

(* Both properties follow. *)
LEMMA MeasureProperty == IInv /\ MeasureInv => CapacitiesMeasureTheData /\ StrataSeparate
<1> SUFFICES ASSUME IInv, MeasureInv PROVE CapacitiesMeasureTheData /\ StrataSeparate
  OBVIOUS
<1>1. CASE stage = "run"
  <2>1. BlocksInv /\ Reported
    BY <1>1, BlocksAre DEF MeasureInv
  <2> QED BY <2>1, ReportedProperty
<1>2. CASE stage # "run"
  BY <1>2 DEF CapacitiesMeasureTheData, StrataSeparate
<1> QED BY <1>1, <1>2

(* The capacity of every cell of the grid is its share, to the nearest     *)
(* entry and one at least, of the mean number of leaves, or of stems, in a *)
(* window of the blocks that the simulator itself streams; and a window of *)
(* whole shorter ones, with no short group last, has never the smaller     *)
(* cache (characterize.py 101-119, config.rs 60-87, sweep.rs 40-54).       *)
THEOREM CapacitiesAlwaysMeasure == Spec => []CapacitiesMeasureTheData
<1>1. IInv /\ MeasureInv => CapacitiesMeasureTheData
  BY MeasureProperty
<1> QED BY <1>1, MeasureInvariant, PTL

(* The strata name blocks that were streamed; no transfer-only block reads *)
(* more storage than a DeFi-heavy one, those that are both read the same,  *)
(* and a quarter of the blocks at least is transfer-only                   *)
(* (characterize.py 145-169 and 261-268, strata.rs 62-68).                 *)
THEOREM StrataAlwaysSeparate == Spec => []StrataSeparate
<1>1. IInv /\ MeasureInv => StrataSeparate
  BY MeasureProperty
<1> QED BY <1>1, MeasureInvariant, PTL

-----------------------------------------------------------------------------
(* The leaves of what is streamed.                                         *)

(* All that verify-load has streamed, whatever it says of it, is of keys   *)
(* of the state.                                                           *)
LEMMA StreamedKeys ==
  ASSUME IInv
  PROVE  KeysStreamed \subseteq StateKeys
<1>0. ManifestInv /\ DiskInv /\ LoaderInv
  BY DEF IInv
<1>1. yielded \in Seq(Records)
  <2>1. CASE verdict = "open"
    BY <1>0, <2>1 DEF LoaderInv, LoaderInit
  <2>2. CASE verdict = "streaming"
    BY <1>0, <2>2 DEF LoaderInv, Streaming
  <2>3. CASE verdict = "ok"
    BY <1>0, <2>3, AcceptedLists DEF LoaderInv
  <2>4. CASE verdict = "failed"
    BY <1>0, <2>4 DEF LoaderInv
  <2> QED BY <1>0, <2>1, <2>2, <2>3, <2>4 DEF LoaderInv
<1>2. \A i \in DOMAIN yielded : yielded[i] \in Records
  BY <1>1, ElementOfSeq
<1>3. \A r \in ToSet(yielded) : r \in Records
  BY <1>2 DEF ToSet
<1>4. \A r \in ToSet(yielded) : r.reads \subseteq StateKeys /\ r.writes \subseteq StateKeys
  BY <1>0, <1>3, RecordsRead
<1> QED BY <1>4 DEF KeysStreamed

(* The two derivations of the leaf of a key agree, and the suffix fits a   *)
(* byte, though nothing in Python wraps.                                   *)
LEMMA LeavesAgree ==
  ASSUME NEW k \in StateKeys
  PROVE  MirrorLeaf(k) = KeyToLeaf(k) /\ MirrorLeaf(k)[2] < NodeWidth
<1>1. MirrorStem(k) = StemOf(k)
  BY StemsAgree
<1>2. CASE k.slot = NoSlot
  BY <1>1, <1>2, GeometryAssumption DEF MirrorLeaf, StemOf, KeyToLeaf
<1>3. CASE k.slot \in Nat /\ SlotBelowHeaderOffset(k.slot)
  <2> DEFINE s == HeaderOffset + (k.slot % NodeWidth)
  <2>1. k.slot # NoSlot
    BY <1>3, GeometryAssumption
  <2>2. s % NodeWidth = s /\ s < NodeWidth
    <3> DEFINE r == k.slot % NodeWidth
    <3>1. r \in 0..NodeWidth - 1
      BY <1>3, Division, GeometryAssumption
    <3>2. r < HeaderOffset
      BY <1>3 DEF SlotBelowHeaderOffset
    <3> HIDE DEF r
    <3>3. s = HeaderOffset + r
      BY DEF r
    <3> HIDE DEF s
    <3>4. s \in 0..NodeWidth - 1
      BY <3>1, <3>2, <3>3, GeometryAssumption
    <3> QED BY <3>4, GeometryAssumption
  <2> HIDE DEF s
  <2>3. KeyToLeaf(k) = <<HeaderStem(k.addr), s>>
    BY <1>3, <2>1, <2>2 DEF KeyToLeaf, s
  <2>4. MirrorStem(k) = HeaderStem(k.addr)
    BY <1>1, <2>3 DEF StemOf
  <2>5. MirrorLeaf(k) = <<HeaderStem(k.addr), s>>
    BY <2>1, <2>4 DEF MirrorLeaf, HeaderStem, s
  <2> QED BY <2>2, <2>3, <2>5
<1>4. CASE k.slot \in Nat /\ ~SlotBelowHeaderOffset(k.slot)
  <2> DEFINE c == k.slot \div NodeWidth
             s == k.slot % NodeWidth
  <2>1. k.slot # NoSlot
    BY <1>4, GeometryAssumption
  <2>2. s < NodeWidth
    BY <1>4, Division, GeometryAssumption
  <2>3. KeyToLeaf(k) = <<StorageStem(k.addr, c), s>>
    BY <1>4, <2>1 DEF KeyToLeaf
  <2>4. MirrorStem(k) = StorageStem(k.addr, c)
    BY <1>1, <2>3 DEF StemOf
  <2>5. MirrorLeaf(k) = <<StorageStem(k.addr, c), s>>
    BY <2>1, <2>4 DEF MirrorLeaf, StorageStem
  <2> QED BY <2>2, <2>3, <2>5
<1> QED BY <1>2, <1>3, <1>4 DEF StateKeys

(* No two keys of a directory have one leaf, for every geometry, every     *)
(* slot and every damage (witness.rs 48-63, cache.rs 94-118).              *)
THEOREM LeavesAreUnique == Spec => []LeafIsUnique
<1>1. IInv => LeafIsUnique
  <2> SUFFICES ASSUME IInv, NEW j \in KeysStreamed, NEW k \in KeysStreamed,
                      KeyToLeaf(j) = KeyToLeaf(k)
               PROVE  j = k
    BY DEF LeafIsUnique
  <2>1. j \in StateKeys /\ k \in StateKeys
    BY StreamedKeys
  <2> QED BY <2>1, LeafOfOneKey
<1> QED BY <1>1, ExperimentInvariant, PTL

(* No key of a directory has one leaf in Rust and another in Python, and   *)
(* the suffix fits a byte, though nothing in Python wraps (dataio.py       *)
(* 57-90).                                                                 *)
THEOREM MirrorAlwaysAgrees == Spec => []MirrorAgrees
<1>1. IInv => MirrorAgrees
  <2> SUFFICES ASSUME IInv, NEW k \in KeysStreamed
               PROVE  MirrorLeaf(k) = KeyToLeaf(k) /\ MirrorLeaf(k)[2] < NodeWidth
    BY DEF MirrorAgrees
  <2>1. k \in StateKeys
    BY StreamedKeys
  <2> QED BY <2>1, LeavesAgree
<1> QED BY <1>1, ExperimentInvariant, PTL
=============================================================================
