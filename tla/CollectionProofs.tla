-------------------------- MODULE CollectionProofs --------------------------
(***************************************************************************)
(* The collections the models are built from.  What the operations of an   *)
(* OrderedMap do to the sequence of its keys: a recency list never repeats *)
(* a key, which is what makes "the place of k" mean something.  And what a *)
(* sum, as SumFunction folds it, becomes when its terms grow: the fold is  *)
(* an inductive definition, and induction is brought down to the fact that *)
(* a set of numbers has a least one.  Then lists that are joined, numbers  *)
(* in order, and what the calls on a policy make of its collections.       *)
(***************************************************************************)
EXTENDS Policy, Functions, TLAPS, SequenceTheorems, FiniteSetTheorems, WellFoundedInduction

(* A recency list over S: a sequence without repetitions. *)
Recency(S) == {s \in Seq(S) : IsInjective(s)}

(* Its length, under a name of its own: a proof about the lengths of       *)
(* several lists is arithmetic, and need not look into the lists.          *)
Size(s) == Len(s)

(* A key of a list without repetitions has exactly one place, and taking   *)
(* it out closes the gap.                                                  *)
LEMMA RemoveFirstAt ==
  ASSUME NEW S, NEW s \in Seq(S), IsInjective(s), NEW i \in 1..Len(s)
  PROVE  /\ RemoveFirst(s, s[i]) \in Seq(S)
         /\ Len(RemoveFirst(s, s[i])) = Len(s) - 1
         /\ \A j \in 1..Len(s) - 1 :
              RemoveFirst(s, s[i])[j] = IF j < i THEN s[j] ELSE s[j + 1]
<1> DEFINE I == {j \in 1..Len(s) : s[j] = s[i]}
           before == SubSeq(s, 1, i - 1)
           after == SubSeq(s, i + 1, Len(s))
<1>0. Len(s) \in Nat /\ i \in Nat
  OBVIOUS
<1>1. I = {i}
  BY DEF IsInjective
<1>2. Min(I) = i
  BY <1>1 DEF Min
<1>3. RemoveFirst(s, s[i]) = RemoveAt(s, Min(I))
  BY <1>1 DEF RemoveFirst, SelectInSeq
<1>4. RemoveFirst(s, s[i]) = before \o after
  BY <1>2, <1>3 DEF RemoveAt
<1>5. /\ before \in Seq(S) /\ Len(before) = i - 1
      /\ \A j \in 1..i - 1 : before[j] = s[j]
  <2>1. \A j \in 1..i - 1 : s[j] \in S
    BY ElementOfSeq
  <2> QED BY <2>1, SubSeqProperties
<1>6. /\ after \in Seq(S) /\ Len(after) = Len(s) - i
      /\ \A j \in 1..Len(s) - i : after[j] = s[i + j]
  <2>1. \A j \in i + 1..Len(s) : s[j] \in S
    BY ElementOfSeq
  <2> QED BY <2>1, SubSeqProperties
<1> HIDE DEF before, after
<1>7. /\ before \o after \in Seq(S)
      /\ Len(before \o after) = Len(s) - 1
  <2>1. /\ before \o after \in Seq(S)
        /\ Len(before \o after) = Len(before) + Len(after)
    BY <1>5, <1>6, ConcatProperties
  <2>2. (i - 1) + (Len(s) - i) = Len(s) - 1
    BY <1>0
  <2> QED BY <1>5, <1>6, <2>1, <2>2
<1>8. ASSUME NEW j \in 1..Len(s) - 1
      PROVE  (before \o after)[j] = IF j < i THEN s[j] ELSE s[j + 1]
  <2>1. j \in 1..Len(before) + Len(after)
    BY <1>5, <1>6
  <2>2. (before \o after)[j] = IF j <= i - 1 THEN before[j] ELSE after[j - (i - 1)]
    BY <1>5, <1>6, <2>1, ConcatProperties
  <2>3. CASE j < i
    BY <1>5, <2>2, <2>3
  <2>4. CASE j >= i
    <3>1. j - (i - 1) \in 1..Len(s) - i
      BY <2>4
    <3>2. i + (j - (i - 1)) = j + 1
      OBVIOUS
    <3> QED BY <1>6, <2>2, <2>4, <3>1, <3>2
  <2>5. j < i \/ j >= i
    BY <1>0
  <2> QED BY <2>3, <2>4, <2>5
<1> QED BY <1>4, <1>7, <1>8

(* Taking a key out of a recency list: the others stay. *)
LEMMA RecencyRemove ==
  ASSUME NEW S, NEW s \in Recency(S), NEW k
  PROVE  /\ RemoveFirst(s, k) \in Recency(S)
         /\ ToSet(RemoveFirst(s, k)) = ToSet(s) \ {k}
         /\ Size(RemoveFirst(s, k)) = IF k \in ToSet(s) THEN Size(s) - 1 ELSE Size(s)
<1> USE DEF Recency, Size
<1>1. CASE k \notin ToSet(s)
  <2>1. RemoveFirst(s, k) = s
    BY <1>1 DEF RemoveFirst, ToSet
  <2> QED BY <1>1, <2>1
<1>2. CASE k \in ToSet(s)
  <2> DEFINE r == RemoveFirst(s, k)
  <2>1. PICK i \in 1..Len(s) : s[i] = k
    BY <1>2 DEF ToSet
  <2>2. /\ r \in Seq(S) /\ Len(r) = Len(s) - 1
        /\ \A j \in 1..Len(s) - 1 : r[j] = IF j < i THEN s[j] ELSE s[j + 1]
    BY <2>1, RemoveFirstAt
  <2> HIDE DEF r
  <2>3. Len(s) \in Nat /\ DOMAIN s = 1..Len(s) /\ DOMAIN r = 1..Len(s) - 1
    BY <2>2
  <2>4. \A a, b \in 1..Len(s) : s[a] = s[b] => a = b
    BY <2>3 DEF IsInjective
  <2>5. IsInjective(r)
    <3>1. ASSUME NEW a \in 1..Len(s) - 1, NEW b \in 1..Len(s) - 1, r[a] = r[b]
          PROVE  a = b
      <4> DEFINE Place(j) == IF j < i THEN j ELSE j + 1
      <4>1. Place(a) \in 1..Len(s) /\ Place(b) \in 1..Len(s)
        BY <2>3
      <4>2. s[Place(a)] = s[Place(b)]
        BY <2>2, <3>1
      <4>3. Place(a) = Place(b)
        BY <2>4, <4>1, <4>2
      <4> QED BY <4>3
    <3> QED BY <2>3, <3>1 DEF IsInjective
  <2>6. ToSet(r) \subseteq ToSet(s) \ {k}
    <3> SUFFICES ASSUME NEW j \in 1..Len(s) - 1 PROVE r[j] \in ToSet(s) \ {k}
      BY <2>3 DEF ToSet
    <3>1. CASE j < i
      <4>1. j \in 1..Len(s) /\ j # i /\ r[j] = s[j]
        BY <2>2, <2>3, <3>1
      <4> QED BY <2>1, <2>3, <2>4, <4>1 DEF ToSet
    <3>2. CASE j >= i
      <4>1. j + 1 \in 1..Len(s) /\ j + 1 # i /\ r[j] = s[j + 1]
        BY <2>2, <2>3, <3>2
      <4> QED BY <2>1, <2>3, <2>4, <4>1 DEF ToSet
    <3> QED BY <3>1, <3>2
  <2>7. ToSet(s) \ {k} \subseteq ToSet(r)
    <3> SUFFICES ASSUME NEW j \in 1..Len(s), s[j] # k PROVE s[j] \in ToSet(r)
      BY <2>3 DEF ToSet
    <3>1. CASE j < i
      <4>1. j \in 1..Len(s) - 1 /\ r[j] = s[j]
        BY <2>2, <3>1
      <4> QED BY <2>3, <4>1 DEF ToSet
    <3>2. CASE j > i
      <4>1. j - 1 \in 1..Len(s) - 1 /\ r[j - 1] = s[(j - 1) + 1]
        BY <2>2, <3>2
      <4> QED BY <2>3, <4>1 DEF ToSet
    <3> QED BY <2>1, <2>3, <3>1, <3>2
  <2> QED BY <1>2, <2>2, <2>5, <2>6, <2>7 DEF r
<1> QED BY <1>1, <1>2

(* push_back of a key that is not in the list. *)
LEMMA RecencyAppend ==
  ASSUME NEW S, NEW s \in Recency(S), NEW k \in S, k \notin ToSet(s)
  PROVE  /\ Append(s, k) \in Recency(S)
         /\ ToSet(Append(s, k)) = ToSet(s) \cup {k}
         /\ Size(Append(s, k)) = Size(s) + 1
<1> DEFINE r == Append(s, k)
<1>1. s \in Seq(S) /\ \A a, b \in 1..Len(s) : s[a] = s[b] => a = b
  BY DEF Recency, IsInjective
<1>2. /\ r \in Seq(S) /\ Len(r) = Len(s) + 1
      /\ \A j \in 1..Len(s) : r[j] = s[j]
      /\ r[Len(s) + 1] = k
  BY <1>1, AppendProperties
<1> HIDE DEF r
<1>3. Len(s) \in Nat /\ DOMAIN s = 1..Len(s) /\ DOMAIN r = 1..Len(s) + 1
  BY <1>1, <1>2
<1>4. \A j \in 1..Len(s) : s[j] # k
  BY <1>3 DEF ToSet
<1>5. ASSUME NEW a \in 1..Len(s) + 1, NEW b \in 1..Len(s) + 1, r[a] = r[b]
      PROVE  a = b
  <2>1. \A j \in 1..Len(s) + 1 : j \in 1..Len(s) \/ j = Len(s) + 1
    BY <1>3
  <2> QED BY <1>1, <1>2, <1>4, <1>5, <2>1
<1>6. ToSet(r) = ToSet(s) \cup {k}
  <2>1. 1..Len(s) + 1 = 1..Len(s) \cup {Len(s) + 1}
    BY <1>3
  <2> QED BY <1>2, <1>3, <2>1 DEF ToSet
<1> QED BY <1>2, <1>3, <1>5, <1>6 DEF r, Recency, Size, IsInjective

(* A part of a recency list, from its n-th key on. *)
LEMMA RecencyDrop ==
  ASSUME NEW S, NEW s \in Recency(S), NEW n \in 0..Size(s)
  PROVE  /\ DropFront(s, n) \in Recency(S)
         /\ ToSet(DropFront(s, n)) \subseteq ToSet(s)
         /\ Size(DropFront(s, n)) = Size(s) - n
<1> DEFINE r == DropFront(s, n)
<1>1. s \in Seq(S) /\ \A a, b \in 1..Len(s) : s[a] = s[b] => a = b
  BY DEF Recency, IsInjective
<1> USE DEF Size
<1>2. /\ r \in Seq(S) /\ Len(r) = Len(s) - n
      /\ \A j \in 1..Len(s) - n : r[j] = s[n + j]
  <2>1. \A j \in n + 1..Len(s) : s[j] \in S
    BY <1>1, ElementOfSeq
  <2>2. n + 1 \in Int /\ Len(s) \in Int
    BY <1>1
  <2>3. /\ r \in Seq(S) /\ Len(r) = IF n + 1 <= Len(s) THEN Len(s) - (n + 1) + 1 ELSE 0
        /\ \A j \in 1..Len(s) - (n + 1) + 1 : r[j] = s[n + 1 + j - 1]
    BY <2>1, <2>2, SubSeqProperties DEF DropFront
  <2> HIDE DEF r
  <2>4. n \in Nat /\ n <= Len(s) /\ Len(s) \in Nat
    BY <1>1
  <2>5. Len(r) = Len(s) - n
    BY <2>3, <2>4
  <2>6. ASSUME NEW j \in 1..Len(s) - n
        PROVE  r[j] = s[n + j]
    <3>1. j \in 1..Len(s) - (n + 1) + 1 /\ n + 1 + j - 1 = n + j
      BY <2>4
    <3> QED BY <2>3, <3>1
  <2> QED BY <2>3, <2>5, <2>6
<1> HIDE DEF r
<1>3. Len(s) \in Nat /\ DOMAIN s = 1..Len(s) /\ DOMAIN r = 1..Len(s) - n
  BY <1>1, <1>2
<1>4. \A j \in 1..Len(s) - n : n + j \in 1..Len(s) /\ r[j] = s[n + j]
  BY <1>2, <1>3
<1>5. ASSUME NEW a \in 1..Len(s) - n, NEW b \in 1..Len(s) - n, r[a] = r[b]
      PROVE  a = b
  <2>1. n + a = n + b
    BY <1>1, <1>4, <1>5
  <2> QED BY <2>1
<1>6. ToSet(r) \subseteq ToSet(s)
  BY <1>3, <1>4 DEF ToSet
<1> QED BY <1>2, <1>3, <1>5, <1>6 DEF r, Recency, Size, IsInjective

(* pop_front. *)
LEMMA RecencyPop ==
  ASSUME NEW S, NEW s \in Recency(S), s # <<>>
  PROVE  /\ Head(s) \in ToSet(s) /\ Head(s) \in S
         /\ Tail(s) \in Recency(S)
         /\ ToSet(Tail(s)) = ToSet(s) \ {Head(s)}
         /\ Size(Tail(s)) = Size(s) - 1
<1> DEFINE r == Tail(s)
<1>1. s \in Seq(S) /\ \A a, b \in 1..Len(s) : s[a] = s[b] => a = b
  BY DEF Recency, IsInjective
<1>2. /\ Head(s) \in S /\ r \in Seq(S) /\ Len(r) = Len(s) - 1
      /\ \A j \in 1..Len(s) - 1 : r[j] = s[j + 1]
  BY <1>1, HeadTailProperties
<1> HIDE DEF r
<1>3. /\ Len(s) \in Nat \ {0} /\ DOMAIN s = 1..Len(s) /\ DOMAIN r = 1..Len(s) - 1
      /\ Head(s) = s[1]
  BY <1>1, <1>2, EmptySeq
<1>4. \A j \in 1..Len(s) - 1 : j + 1 \in 1..Len(s) /\ j + 1 # 1 /\ r[j] = s[j + 1]
  BY <1>2, <1>3
<1>5. ASSUME NEW a \in 1..Len(s) - 1, NEW b \in 1..Len(s) - 1, r[a] = r[b]
      PROVE  a = b
  <2>1. a + 1 = b + 1
    BY <1>1, <1>4, <1>5
  <2> QED BY <2>1
<1>6. ToSet(r) \subseteq ToSet(s) \ {Head(s)}
  <2> SUFFICES ASSUME NEW j \in 1..Len(s) - 1 PROVE r[j] \in ToSet(s) \ {s[1]}
    BY <1>3 DEF ToSet
  <2>1. 1 \in 1..Len(s)
    BY <1>3
  <2> QED BY <1>1, <1>3, <1>4, <2>1 DEF ToSet
<1>7. ToSet(s) \ {Head(s)} \subseteq ToSet(r)
  <2> SUFFICES ASSUME NEW j \in 1..Len(s), s[j] # s[1] PROVE s[j] \in ToSet(r)
    BY <1>3 DEF ToSet
  <2>1. j - 1 \in 1..Len(s) - 1 /\ r[j - 1] = s[(j - 1) + 1]
    BY <1>2, <1>3
  <2> QED BY <1>3, <2>1 DEF ToSet
<1>8. Head(s) \in ToSet(s)
  <2>1. 1 \in 1..Len(s)
    BY <1>3
  <2> QED BY <1>3, <2>1 DEF ToSet
<1> QED BY <1>2, <1>3, <1>5, <1>6, <1>7, <1>8 DEF r, Recency, Size, IsInjective

(* The empty list. *)
LEMMA RecencyNew ==
  ASSUME NEW S
  PROVE  <<>> \in Recency(S) /\ ToSet(<<>>) = {} /\ Size(<<>>) = 0
BY DEF Recency, Size, IsInjective, ToSet

(* A recency list is empty exactly when it holds no key. *)
LEMMA RecencyEmpty ==
  ASSUME NEW S, NEW s \in Recency(S)
  PROVE  /\ Size(s) \in Nat
         /\ s = <<>> <=> Size(s) = 0
         /\ s = <<>> <=> ToSet(s) = {}
         /\ ToSet(s) \subseteq S
<1>1. s \in Seq(S) /\ Len(s) \in Nat /\ DOMAIN s = 1..Len(s)
  BY DEF Recency
<1>2. s = <<>> <=> Len(s) = 0
  BY <1>1, EmptySeq
<1>3. CASE s = <<>>
  BY <1>1, <1>2, <1>3 DEF ToSet, Size
<1>4. CASE s # <<>>
  <2>1. 1 \in 1..Len(s)
    BY <1>1, <1>2, <1>4
  <2>2. \A j \in 1..Len(s) : s[j] \in S
    BY <1>1, ElementOfSeq
  <2> QED BY <1>1, <1>2, <1>4, <2>1, <2>2 DEF ToSet, Size
<1> QED BY <1>3, <1>4

(* What a list holds, in the order in which another does. *)
InOrderOf(r, s) ==
  \A i, j \in 1..Len(r) :
    i <= j => \E a, b \in 1..Len(s) : a <= b /\ r[i] = s[a] /\ r[j] = s[b]

(* Taking a key out of a list keeps the others in their order. *)
LEMMA RemoveKeepsOrder ==
  ASSUME NEW S, NEW s \in Recency(S), NEW k
  PROVE  InOrderOf(RemoveFirst(s, k), s)
<1> SUFFICES ASSUME NEW i \in 1..Len(RemoveFirst(s, k)),
                    NEW j \in 1..Len(RemoveFirst(s, k)), i <= j
             PROVE  \E a, b \in 1..Len(s) : /\ a <= b
                                            /\ RemoveFirst(s, k)[i] = s[a]
                                            /\ RemoveFirst(s, k)[j] = s[b]
  BY DEF InOrderOf
<1>0. s \in Seq(S) /\ IsInjective(s) /\ Len(s) \in Nat /\ DOMAIN s = 1..Len(s)
  BY DEF Recency
<1>1. CASE k \notin ToSet(s)
  <2>1. RemoveFirst(s, k) = s
    BY <1>1 DEF RemoveFirst, ToSet
  <2> QED BY <2>1
<1>2. CASE k \in ToSet(s)
  <2> DEFINE r == RemoveFirst(s, k)
  <2>1. PICK n \in 1..Len(s) : s[n] = k
    BY <1>0, <1>2 DEF ToSet
  <2>2. /\ Len(r) = Len(s) - 1
        /\ \A m \in 1..Len(s) - 1 : r[m] = IF m < n THEN s[m] ELSE s[m + 1]
    BY <1>0, <2>1, RemoveFirstAt
  <2>3. i \in 1..Len(s) - 1 /\ j \in 1..Len(s) - 1
    BY <2>2
  <2> HIDE DEF r
  <2> DEFINE Place(m) == IF m < n THEN m ELSE m + 1
  <2>4. Place(i) \in 1..Len(s) /\ Place(j) \in 1..Len(s) /\ Place(i) <= Place(j)
    BY <1>0, <2>3
  <2>5. r[i] = s[Place(i)] /\ r[j] = s[Place(j)]
    BY <2>2, <2>3
  <2>6. /\ RemoveFirst(s, k)[i] = s[Place(i)]
        /\ RemoveFirst(s, k)[j] = s[Place(j)]
    BY <2>5 DEF r
  <2> HIDE DEF Place, r
  <2> QED BY <2>4, <2>6
<1> QED BY <1>1, <1>2

(* So does leaving out the first of them. *)
LEMMA TailKeepsOrder ==
  ASSUME NEW S, NEW s \in Seq(S), s # <<>>
  PROVE  InOrderOf(Tail(s), s)
<1>1. /\ Len(s) \in Nat /\ Len(Tail(s)) = Len(s) - 1
      /\ \A m \in 1..Len(s) - 1 : Tail(s)[m] = s[m + 1]
  OBVIOUS
<1> SUFFICES ASSUME NEW i \in 1..Len(Tail(s)), NEW j \in 1..Len(Tail(s)), i <= j
             PROVE  \E a, b \in 1..Len(s) : a <= b /\ Tail(s)[i] = s[a] /\ Tail(s)[j] = s[b]
  BY DEF InOrderOf
<1>2. i + 1 \in 1..Len(s) /\ j + 1 \in 1..Len(s) /\ i + 1 <= j + 1
  BY <1>1
<1>3. Tail(s)[i] = s[i + 1] /\ Tail(s)[j] = s[j + 1]
  BY <1>1
<1> QED BY <1>2, <1>3

(* A list is in its own order, the empty list in that of every other, and  *)
(* a list that is in the order of a second is in that of a third.          *)
LEMMA OrderOfLists ==
  ASSUME NEW h
  PROVE  /\ InOrderOf(h, h) /\ InOrderOf(<<>>, h)
         /\ \A r, s : InOrderOf(r, s) /\ InOrderOf(s, h) => InOrderOf(r, h)
<1>1. InOrderOf(h, h) /\ InOrderOf(<<>>, h)
  BY DEF InOrderOf
<1>2. ASSUME NEW r, NEW s, InOrderOf(r, s), InOrderOf(s, h)
      PROVE  InOrderOf(r, h)
  <2> SUFFICES ASSUME NEW i \in 1..Len(r), NEW j \in 1..Len(r), i <= j
               PROVE  \E a, b \in 1..Len(h) : a <= b /\ r[i] = h[a] /\ r[j] = h[b]
    BY DEF InOrderOf
  <2>1. PICK x, y \in 1..Len(s) : x <= y /\ r[i] = s[x] /\ r[j] = s[y]
    BY <1>2 DEF InOrderOf
  <2>2. PICK a, b \in 1..Len(h) : a <= b /\ s[x] = h[a] /\ s[y] = h[b]
    BY <1>2, <2>1 DEF InOrderOf
  <2> QED BY <2>1, <2>2
<1> QED BY <1>1, <1>2

(* A list that lacks a key stays in the order of another without that key. *)
LEMMA OrderAfterRemove ==
  ASSUME NEW S, NEW h \in Recency(S), NEW r \in Seq(S), InOrderOf(r, h), NEW k, k \notin ToSet(r)
  PROVE  InOrderOf(r, RemoveFirst(h, k))
<1> DEFINE g == RemoveFirst(h, k)
<1>0. /\ h \in Seq(S) /\ IsInjective(h) /\ Len(h) \in Nat /\ DOMAIN h = 1..Len(h)
      /\ Len(r) \in Nat /\ DOMAIN r = 1..Len(r)
  BY DEF Recency
<1>1. CASE k \notin ToSet(h)
  <2>1. RemoveFirst(h, k) = h
    BY <1>1 DEF RemoveFirst, ToSet
  <2> QED BY <2>1
<1>2. CASE k \in ToSet(h)
  <2>1. PICK n \in 1..Len(h) : h[n] = k
    BY <1>0, <1>2 DEF ToSet
  <2>2. /\ Len(g) = Len(h) - 1
        /\ \A m \in 1..Len(h) - 1 : g[m] = IF m < n THEN h[m] ELSE h[m + 1]
    BY <1>0, <2>1, RemoveFirstAt
  <2> HIDE DEF g
  <2> DEFINE Place(m) == IF m < n THEN m ELSE m - 1
  <2>3. ASSUME NEW m \in 1..Len(h), m # n
        PROVE  Place(m) \in 1..Len(g) /\ g[Place(m)] = h[m]
    <3>1. CASE m < n
      BY <1>0, <2>2, <3>1
    <3>2. CASE m > n
      <4>1. m - 1 \in 1..Len(h) - 1 /\ ~(m - 1 < n) /\ (m - 1) + 1 = m /\ Place(m) = m - 1
        BY <1>0, <3>2
      <4> QED BY <2>2, <4>1
    <3> QED BY <2>3, <3>1, <3>2
  <2> SUFFICES ASSUME NEW i \in 1..Len(r), NEW j \in 1..Len(r), i <= j
               PROVE  \E a, b \in 1..Len(g) : a <= b /\ r[i] = g[a] /\ r[j] = g[b]
    BY DEF InOrderOf, g
  <2>4. PICK a, b \in 1..Len(h) : a <= b /\ r[i] = h[a] /\ r[j] = h[b]
    BY DEF InOrderOf
  <2>5. r[i] # k /\ r[j] # k
    BY <1>0 DEF ToSet
  <2>6. a # n /\ b # n
    BY <2>1, <2>4, <2>5
  <2>7. /\ Place(a) \in 1..Len(g) /\ g[Place(a)] = r[i]
        /\ Place(b) \in 1..Len(g) /\ g[Place(b)] = r[j]
    BY <2>3, <2>4, <2>6
  <2>8. Place(a) <= Place(b)
    BY <1>0, <2>4, <2>6
  <2> HIDE DEF Place
  <2> QED BY <2>7, <2>8
<1> QED BY <1>1, <1>2

(* A key that both get at the end comes last in both. *)
LEMMA OrderAppend ==
  ASSUME NEW S, NEW h \in Seq(S), NEW r \in Seq(S), InOrderOf(r, h), NEW k \in S
  PROVE  InOrderOf(r, Append(h, k)) /\ InOrderOf(Append(r, k), Append(h, k))
<1> DEFINE g == Append(h, k)
           q == Append(r, k)
           n == Len(h) + 1
<1>1. /\ Len(h) \in Nat /\ Len(g) = n /\ g[n] = k /\ \A m \in 1..Len(h) : g[m] = h[m]
      /\ Len(r) \in Nat /\ Len(q) = Len(r) + 1 /\ q[Len(r) + 1] = k
      /\ \A m \in 1..Len(r) : q[m] = r[m]
  OBVIOUS
<1> HIDE DEF g, q
<1>2. ASSUME NEW i \in 1..Len(r), NEW j \in 1..Len(r), i <= j
      PROVE  \E a, b \in 1..Len(g) : a <= b /\ r[i] = g[a] /\ r[j] = g[b]
  <2>1. PICK a, b \in 1..Len(h) : a <= b /\ r[i] = h[a] /\ r[j] = h[b]
    BY <1>2 DEF InOrderOf
  <2>2. a \in 1..Len(g) /\ b \in 1..Len(g) /\ g[a] = h[a] /\ g[b] = h[b]
    BY <1>1
  <2> QED BY <2>1, <2>2
<1>3. InOrderOf(r, g)
  BY <1>2 DEF InOrderOf
<1>4. ASSUME NEW i \in 1..Len(q), NEW j \in 1..Len(q), i <= j
      PROVE  \E a, b \in 1..Len(g) : a <= b /\ q[i] = g[a] /\ q[j] = g[b]
  <2>1. n \in 1..Len(g)
    BY <1>1
  <2>2. CASE j = Len(r) + 1 /\ i = j
    BY <1>1, <2>1, <2>2
  <2>3. CASE j = Len(r) + 1 /\ i # j
    <3>1. i \in 1..Len(r) /\ i <= i
      BY <1>1, <1>4, <2>3
    <3>2. PICK a \in 1..Len(g) : r[i] = g[a]
      BY <1>2, <3>1
    <3>3. a <= n /\ q[i] = r[i] /\ q[j] = g[n]
      BY <1>1, <2>3, <3>1
    <3> QED BY <2>1, <3>2, <3>3
  <2>4. CASE j # Len(r) + 1
    <3>1. i \in 1..Len(r) /\ j \in 1..Len(r)
      BY <1>1, <1>4, <2>4
    <3>2. q[i] = r[i] /\ q[j] = r[j]
      BY <1>1, <3>1
    <3> QED BY <1>2, <1>4, <3>1, <3>2
  <2> QED BY <2>2, <2>3, <2>4
<1>5. InOrderOf(q, g)
  BY <1>4 DEF InOrderOf
<1> QED BY <1>3, <1>5 DEF g, q

(* The first key of a list comes before its others in every list in whose  *)
(* order it is.                                                            *)
LEMMA FirstIsFirst ==
  ASSUME NEW S, NEW h \in Recency(S), NEW s \in Seq(S), s # <<>>, InOrderOf(s, h),
         NEW i \in 1..Len(h), NEW j \in 1..Len(h), h[i] = Head(s), h[j] \in ToSet(s)
  PROVE  i <= j
<1>1. /\ IsInjective(h) /\ DOMAIN h = 1..Len(h) /\ Len(h) \in Nat
      /\ DOMAIN s = 1..Len(s) /\ Len(s) \in Nat /\ 1 \in 1..Len(s) /\ Head(s) = s[1]
  BY DEF Recency
<1>2. PICK m \in 1..Len(s) : s[m] = h[j]
  BY <1>1 DEF ToSet
<1>3. PICK a, b \in 1..Len(h) : a <= b /\ s[1] = h[a] /\ s[m] = h[b]
  <2>1. 1 <= m
    BY <1>1
  <2> QED BY <1>1, <2>1 DEF InOrderOf
<1>4. a = i /\ b = j
  BY <1>1, <1>2, <1>3 DEF IsInjective
<1> QED BY <1>3, <1>4

(* It holds as many keys as it is long. *)
LEMMA RecencyCardinality ==
  ASSUME NEW S, NEW s \in Recency(S)
  PROVE  IsFiniteSet(ToSet(s)) /\ Cardinality(ToSet(s)) = Size(s)
<1>1. Size(s) \in Nat /\ DOMAIN s = 1..Size(s) /\ s \in [1..Size(s) -> ToSet(s)]
  BY DEF Recency, Size, ToSet
<1>2. \A a, b \in 1..Size(s) : s[a] = s[b] => a = b
  BY <1>1 DEF Recency, IsInjective
<1>3. \A x \in ToSet(s) : \E i \in 1..Size(s) : s[i] = x
  BY <1>1 DEF ToSet
<1>4. s \in Bijection(1..Size(s), ToSet(s))
  BY <1>1, <1>2, <1>3 DEF Bijection, Injection, Surjection, IsInjective
<1>5. ExistsBijection(1..Size(s), ToSet(s))
  BY <1>4 DEF ExistsBijection
<1>6. IsFiniteSet(1..Size(s)) /\ Cardinality(1..Size(s)) = Size(s)
  <2>1. 1 \in Int /\ Size(s) \in Int
    BY <1>1
  <2>2. /\ IsFiniteSet(1..Size(s))
        /\ Cardinality(1..Size(s)) = IF 1 > Size(s) THEN 0 ELSE Size(s) - 1 + 1
    BY <2>1, FS_Interval
  <2> QED BY <1>1, <2>2
<1> QED BY <1>5, <1>6, FS_Bijection

-----------------------------------------------------------------------------
(* Every set of numbers has a least one. *)
LEMMA LeastNumber ==
  ASSUME NEW S \in SUBSET Nat, S # {}
  PROVE  \E m \in S : \A n \in S : m <= n
<1> DEFINE Below == {ss \in Nat \X Nat : ss[1] < ss[2]}
<1>1. OpToRel(<, Nat) = Below
  BY DEF OpToRel
<1>2. IsWellFoundedOn(Below, Nat)
  BY <1>1, NatLessThanWellFounded
<1> HIDE DEF Below
<1>3. PICK m \in S : \A n \in S : <<n, m>> \notin Below
  BY <1>2, WFMin
<1>4. ASSUME NEW n \in S PROVE m <= n
  <2>1. <<n, m>> \in Below <=> n < m
    BY DEF Below
  <2> QED BY <1>3, <2>1
<1> QED BY <1>4

(* A set of numbers with 0 and the successor of each is all of them. *)
LEMMA NumberInduction ==
  ASSUME NEW G \in SUBSET Nat, 0 \in G, \A n \in G : n + 1 \in G
  PROVE  G = Nat
<1> SUFFICES ASSUME Nat \ G # {} PROVE FALSE
  OBVIOUS
<1>1. PICK m \in Nat \ G : \A n \in Nat \ G : m <= n
  BY LeastNumber
<1>2. m # 0 /\ m - 1 \in Nat /\ ~(m <= m - 1)
  BY <1>1
<1>3. m - 1 \in G /\ (m - 1) + 1 = m
  BY <1>1, <1>2
<1> QED BY <1>1, <1>3

(* The element a fold takes out first. *)
Pick(s) == CHOOSE x \in s : TRUE

(* A set of parts of a finite set that has the empty one, and each that    *)
(* becomes one of its own by losing an element, has them all.              *)
LEMMA PartInduction ==
  ASSUME NEW S, IsFiniteSet(S), NEW G \in SUBSET SUBSET S, {} \in G,
         \A s \in SUBSET S : s # {} /\ s \ {Pick(s)} \in G => s \in G
  PROVE  G = SUBSET S
<1> SUFFICES ASSUME (SUBSET S) \ G # {} PROVE FALSE
  OBVIOUS
<1> DEFINE B == (SUBSET S) \ G
           N == {Cardinality(s) : s \in B}
<1>1. \A s \in SUBSET S : IsFiniteSet(s) /\ Cardinality(s) \in Nat
  BY FS_Subset, FS_CardinalityType
<1>2. N \in SUBSET Nat /\ N # {}
  BY <1>1
<1>3. PICK m \in N : \A n \in N : m <= n
  BY <1>2, LeastNumber
<1>4. PICK s \in B : m = Cardinality(s)
  BY <1>3
<1>5. s # {} /\ Pick(s) \in s
  <2>1. s \notin G
    BY <1>4
  <2>2. s # {}
    BY <2>1
  <2>3. \E x \in s : TRUE
    BY <2>2
  <2> QED BY <2>2, <2>3 DEF Pick
<1>6. Cardinality(s \ {Pick(s)}) = Cardinality(s) - 1
  BY <1>1, <1>4, <1>5, FS_RemoveElement
<1>7. s \ {Pick(s)} \notin B
  <2>1. m \in Nat /\ ~(m <= m - 1)
    BY <1>1, <1>4
  <2> QED BY <1>3, <1>4, <1>6, <2>1
<1> QED BY <1>4, <1>5, <1>7

(* The function a fold of f defines: the sum of each part of S. *)
SumsParts(g, f, S) ==
  g = [s \in SUBSET S |-> IF s = {} THEN 0 ELSE f[Pick(s)] + g[s \ {Pick(s)}]]

(* The same for the parts of n elements at most. *)
SumsLevel(g, f, S, n) ==
  \A s \in SUBSET S : Cardinality(s) <= n =>
    g[s] = IF s = {} THEN 0 ELSE f[Pick(s)] + g[s \ {Pick(s)}]

(* There is such a function, built level by level. *)
LEMMA SumsExist ==
  ASSUME NEW S, IsFiniteSet(S), NEW f
  PROVE  \E g : SumsParts(g, f, S)
<1>0. \A s \in SUBSET S : IsFiniteSet(s) /\ Cardinality(s) \in Nat
  BY FS_Subset, FS_CardinalityType
<1>00. \A s \in SUBSET S :
         s # {} => /\ s \ {Pick(s)} \in SUBSET S
                   /\ Cardinality(s \ {Pick(s)}) = Cardinality(s) - 1
  <2> SUFFICES ASSUME NEW s \in SUBSET S, s # {}
               PROVE  Cardinality(s \ {Pick(s)}) = Cardinality(s) - 1
    OBVIOUS
  <2>1. Pick(s) \in s
    BY DEF Pick
  <2> QED BY <1>0, <2>1, FS_RemoveElement
<1> DEFINE G == {n \in Nat : \E g : SumsLevel(g, f, S, n)}
<1>1. 0 \in G
  <2> DEFINE g == [s \in SUBSET S |-> 0]
  <2>1. ASSUME NEW s \in SUBSET S, Cardinality(s) <= 0 PROVE s = {}
    BY <1>0, <2>1, FS_EmptySet
  <2>2. SumsLevel(g, f, S, 0)
    BY <2>1 DEF SumsLevel
  <2> QED BY <2>2
<1>2. ASSUME NEW n \in G PROVE n + 1 \in G
  <2>1. PICK g : SumsLevel(g, f, S, n)
    OBVIOUS
  <2> DEFINE Larger(s) == f[Pick(s)] + g[s \ {Pick(s)}]
             h == [s \in SUBSET S |-> IF Cardinality(s) <= n THEN g[s] ELSE Larger(s)]
  <2>2. ASSUME NEW s \in SUBSET S, Cardinality(s) <= n + 1
        PROVE  h[s] = IF s = {} THEN 0 ELSE f[Pick(s)] + h[s \ {Pick(s)}]
    <3>1. CASE s = {}
      <4>1. Cardinality(s) <= n
        BY <3>1, FS_EmptySet
      <4> QED BY <2>1, <3>1, <4>1 DEF SumsLevel
    <3>2. CASE s # {}
      <4>1. Cardinality(s \ {Pick(s)}) <= n /\ s \ {Pick(s)} \in SUBSET S
        BY <1>0, <1>00, <2>2, <3>2
      <4>2. h[s \ {Pick(s)}] = g[s \ {Pick(s)}]
        BY <4>1
      <4>3. CASE Cardinality(s) <= n
        <5>1. g[s] = f[Pick(s)] + g[s \ {Pick(s)}]
          BY <2>1, <3>2, <4>3 DEF SumsLevel
        <5> QED BY <3>2, <4>2, <4>3, <5>1
      <4>4. CASE ~(Cardinality(s) <= n)
        BY <3>2, <4>2, <4>4
      <4> QED BY <4>3, <4>4
    <3> QED BY <3>1, <3>2
  <2> HIDE DEF h
  <2>3. SumsLevel(h, f, S, n + 1)
    BY <2>2 DEF SumsLevel
  <2> QED BY <2>3
<1>3. G = Nat
  <2> HIDE DEF G
  <2>1. G \in SUBSET Nat
    BY DEF G
  <2> QED BY <1>1, <1>2, <2>1, NumberInduction
<1>4. PICK g : SumsLevel(g, f, S, Cardinality(S))
  BY <1>0, <1>3
<1> DEFINE h == [s \in SUBSET S |-> g[s]]
<1>5. ASSUME NEW s \in SUBSET S
      PROVE  h[s] = IF s = {} THEN 0 ELSE f[Pick(s)] + h[s \ {Pick(s)}]
  <2>1. Cardinality(s) <= Cardinality(S)
    BY FS_Subset
  <2> QED BY <1>4, <2>1 DEF SumsLevel
<1>6. SumsParts(h, f, S)
  <2>1. DOMAIN h = SUBSET S
    OBVIOUS
  <2> QED BY <1>5, <2>1 DEF SumsParts
<1> QED BY <1>6

(* A sum is the value at the whole set of the function its fold defines. *)
LEMMA SumUnfolds ==
  ASSUME NEW f, IsFiniteSet(DOMAIN f)
  PROVE  \E g : SumsParts(g, f, DOMAIN f) /\ SumFunction(f) = g[DOMAIN f]
<1> DEFINE S == DOMAIN f
           iter == CHOOSE g : SumsParts(g, f, S)
<1>1. SumsParts(iter, f, S)
  BY SumsExist
<1>2. SumFunction(f) = iter[S]
  BY DEF SumFunction, SumFunctionOnSet, FoldFunctionOnSet, MapThenFoldSet, SumsParts, Pick
<1> QED BY <1>1, <1>2

-----------------------------------------------------------------------------
(* What sums do.  Terms are numbers and there are finitely many. *)

(* A fold takes an element of the part it is at, and goes on with a part.  *)
LEMMA PickInPart ==
  ASSUME NEW S, NEW s \in SUBSET S, s # {}
  PROVE  Pick(s) \in s /\ Pick(s) \in S /\ s \ {Pick(s)} \in SUBSET S
<1>1. \E x \in s : TRUE
  OBVIOUS
<1> QED BY <1>1 DEF Pick

(* The sum of a part, unfolded once. *)
LEMMA PartSum ==
  ASSUME NEW S, NEW f, NEW g, SumsParts(g, f, S), NEW s \in SUBSET S
  PROVE  g[s] = IF s = {} THEN 0 ELSE f[Pick(s)] + g[s \ {Pick(s)}]
<1> DEFINE Body(t) == IF t = {} THEN 0 ELSE f[Pick(t)] + g[t \ {Pick(t)}]
<1>1. g = [t \in SUBSET S |-> Body(t)]
  BY DEF SumsParts
<1> HIDE DEF Body
<1>2. g[s] = Body(s)
  BY <1>1
<1> QED BY <1>2 DEF Body

(* A sum of numbers is a number. *)
LEMMA SumIsNatural ==
  ASSUME NEW S, IsFiniteSet(S), NEW f \in [S -> Nat]
  PROVE  SumFunction(f) \in Nat
<1>1. PICK g : SumsParts(g, f, S) /\ SumFunction(f) = g[S]
  BY SumUnfolds
<1> DEFINE G == {s \in SUBSET S : g[s] \in Nat}
<1>2. {} \in G
  <2>1. g[{}] = 0
    BY <1>1, PartSum
  <2> QED BY <2>1
<1>3. ASSUME NEW s \in SUBSET S, s # {}, s \ {Pick(s)} \in G PROVE s \in G
  <2>1. g[s] = f[Pick(s)] + g[s \ {Pick(s)}]
    BY <1>1, <1>3, PartSum
  <2>2. f[Pick(s)] \in Nat
    BY <1>3, PickInPart
  <2> QED BY <1>3, <2>1, <2>2
<1>4. S \in G
  <2> HIDE DEF G
  <2>1. G \in SUBSET SUBSET S
    BY DEF G
  <2> QED BY <1>2, <1>3, <2>1, PartInduction
<1> QED BY <1>1, <1>4

(* A sum whose terms are nowhere larger is not larger. *)
LEMMA SumMonotone ==
  ASSUME NEW S, IsFiniteSet(S), NEW f \in [S -> Nat], NEW h \in [S -> Nat],
         \A x \in S : f[x] <= h[x]
  PROVE  SumFunction(f) <= SumFunction(h)
<1>1. PICK g : SumsParts(g, f, S) /\ SumFunction(f) = g[S]
  BY SumUnfolds
<1>2. PICK k : SumsParts(k, h, S) /\ SumFunction(h) = k[S]
  BY SumUnfolds
<1> DEFINE G == {s \in SUBSET S : g[s] \in Nat /\ k[s] \in Nat /\ g[s] <= k[s]}
<1>3. {} \in G
  <2>1. g[{}] = 0
    BY <1>1, PartSum
  <2>2. k[{}] = 0
    BY <1>2, PartSum
  <2> QED BY <2>1, <2>2
<1>4. ASSUME NEW s \in SUBSET S, s # {}, s \ {Pick(s)} \in G PROVE s \in G
  <2>1. g[s] = f[Pick(s)] + g[s \ {Pick(s)}]
    BY <1>1, <1>4, PartSum
  <2>2. k[s] = h[Pick(s)] + k[s \ {Pick(s)}]
    <3>1. SumsParts(k, h, S) /\ s \in SUBSET S /\ s # {}
      BY <1>2, <1>4
    <3> QED BY <3>1, PartSum
  <2>3. Pick(s) \in S
    BY <1>4, PickInPart
  <2>4. f[Pick(s)] \in Nat /\ h[Pick(s)] \in Nat /\ f[Pick(s)] <= h[Pick(s)]
    BY <2>3
  <2> QED BY <1>4, <2>1, <2>2, <2>4
<1>5. S \in G
  <2> HIDE DEF G
  <2>1. G \in SUBSET SUBSET S
    BY DEF G
  <2> QED BY <1>3, <1>4, <2>1, PartInduction
<1> QED BY <1>1, <1>2, <1>5

(* A sum one of whose terms grows by n grows by n. *)
LEMMA SumGrows ==
  ASSUME NEW S, IsFiniteSet(S), NEW f \in [S -> Nat], NEW h \in [S -> Nat],
         NEW a \in S, NEW n \in Nat, h[a] = f[a] + n,
         \A x \in S \ {a} : h[x] = f[x]
  PROVE  SumFunction(h) = SumFunction(f) + n
<1>1. PICK g : SumsParts(g, f, S) /\ SumFunction(f) = g[S]
  BY SumUnfolds
<1>2. PICK k : SumsParts(k, h, S) /\ SumFunction(h) = k[S]
  BY SumUnfolds
<1> DEFINE Gain(s) == IF a \in s THEN n ELSE 0
           G == {s \in SUBSET S : g[s] \in Nat /\ k[s] = g[s] + Gain(s)}
<1>3. {} \in G
  <2>1. g[{}] = 0
    BY <1>1, PartSum
  <2>2. k[{}] = 0
    BY <1>2, PartSum
  <2> QED BY <2>1, <2>2
<1>4. ASSUME NEW s \in SUBSET S, s # {}, s \ {Pick(s)} \in G PROVE s \in G
  <2> DEFINE p == Pick(s)
             t == s \ {p}
  <2>0. g[s] = f[p] + g[t]
    BY <1>1, <1>4, PartSum
  <2>1. k[s] = h[p] + k[t]
    BY <1>2, <1>4, PartSum
  <2>2. p \in s /\ p \in S
    BY <1>4, PickInPart
  <2>3. f[p] \in Nat /\ h[p] \in Nat
    BY <2>2
  <2>4. g[t] \in Nat /\ k[t] = g[t] + Gain(t)
    BY <1>4
  <2> HIDE DEF p
  <2>5. CASE p = a
    <3>1. Gain(t) = 0 /\ Gain(s) = n
      BY <2>2, <2>5
    <3> HIDE DEF t, Gain
    <3>2. g[s] \in Nat /\ k[s] = g[s] + Gain(s)
      BY <2>0, <2>1, <2>3, <2>4, <2>5, <3>1
    <3> QED BY <3>2
  <2>6. CASE p # a
    <3>1. h[p] = f[p] /\ Gain(t) = Gain(s) /\ Gain(s) \in Nat
      BY <2>2, <2>6
    <3> HIDE DEF t, Gain
    <3>2. g[s] \in Nat /\ k[s] = g[s] + Gain(s)
      BY <2>0, <2>1, <2>3, <2>4, <3>1
    <3> QED BY <3>2
  <2> QED BY <2>5, <2>6
<1>5. G = SUBSET S
  <2> HIDE DEF G
  <2>1. G \in SUBSET SUBSET S
    BY DEF G
  <2> QED BY <1>3, <1>4, <2>1, PartInduction
<1>6. k[S] = g[S] + Gain(S)
  BY <1>5
<1> QED BY <1>1, <1>2, <1>6

(* A sum of zeros is zero. *)
LEMMA SumOfZeros ==
  ASSUME NEW S, IsFiniteSet(S), NEW f \in [S -> {0}]
  PROVE  SumFunction(f) = 0
<1>1. PICK g : SumsParts(g, f, S) /\ SumFunction(f) = g[S]
  BY SumUnfolds
<1> DEFINE G == {s \in SUBSET S : g[s] = 0}
<1>2. {} \in G
  <2>1. g[{}] = 0
    BY <1>1, PartSum
  <2> QED BY <2>1
<1>3. ASSUME NEW s \in SUBSET S, s # {}, s \ {Pick(s)} \in G PROVE s \in G
  <2>1. g[s] = f[Pick(s)] + g[s \ {Pick(s)}]
    BY <1>1, <1>3, PartSum
  <2>2. f[Pick(s)] = 0
    BY <1>3, PickInPart
  <2> QED BY <1>3, <2>1, <2>2
<1>4. S \in G
  <2> HIDE DEF G
  <2>1. G \in SUBSET SUBSET S
    BY DEF G
  <2> QED BY <1>2, <1>3, <2>1, PartInduction
<1> QED BY <1>1, <1>4
-----------------------------------------------------------------------------
(* A table with a row for each of A and a column for each of K, in which   *)
(* the entries of a column are alike: the sum of the rows of F.            *)
Rows(A, K, cost, F) == [c \in A \X K |-> IF c[1] \in F THEN cost[c[2]] ELSE 0]

(* The rows of F, and of another row x the columns of L. *)
RowsAnd(A, K, cost, F, x, L) ==
  [c \in A \X K |-> IF c[1] \in F \/ (c[1] = x /\ c[2] \in L) THEN cost[c[2]] ELSE 0]

(* One row, of which the columns of L are counted. *)
Columns(K, cost, L) == [k \in K |-> IF k \in L THEN cost[k] ELSE 0]

(* The entries are numbers. *)
LEMMA RowsTyped ==
  ASSUME NEW A, NEW K, NEW cost \in [K -> Nat], NEW F, NEW x, NEW L
  PROVE  /\ Rows(A, K, cost, F) \in [A \X K -> Nat]
         /\ RowsAnd(A, K, cost, F, x, L) \in [A \X K -> Nat]
         /\ Columns(K, cost, L) \in [K -> Nat]
<1>1. \A c \in A \X K : cost[c[2]] \in Nat
  OBVIOUS
<1>2. Rows(A, K, cost, F) \in [A \X K -> Nat]
  BY <1>1 DEF Rows
<1>3. RowsAnd(A, K, cost, F, x, L) \in [A \X K -> Nat]
  BY <1>1 DEF RowsAnd
<1>4. Columns(K, cost, L) \in [K -> Nat]
  BY DEF Columns
<1> QED BY <1>2, <1>3, <1>4

(* Each entry of the new row adds as much to the table as to the row. *)
LEMMA RowAdds ==
  ASSUME NEW A, NEW K, IsFiniteSet(A \X K), IsFiniteSet(K), NEW cost \in [K -> Nat],
         NEW F, NEW x \in A, x \notin F, NEW L \in SUBSET K
  PROVE  SumFunction(RowsAnd(A, K, cost, F, x, L))
           = SumFunction(Rows(A, K, cost, F)) + SumFunction(Columns(K, cost, L))
<1> DEFINE base == SumFunction(Rows(A, K, cost, F))
           Both(l) == SumFunction(RowsAnd(A, K, cost, F, x, l))
           Row(l) == SumFunction(Columns(K, cost, l))
           G == {l \in SUBSET K : Both(l) = base + Row(l)}
<1>1. base \in Nat
  BY RowsTyped, SumIsNatural
<1>2. \A l \in SUBSET K : Both(l) \in Nat /\ Row(l) \in Nat
  BY RowsTyped, SumIsNatural
<1>3. {} \in G
  <2>1. RowsAnd(A, K, cost, F, x, {}) = Rows(A, K, cost, F)
    BY DEF RowsAnd, Rows
  <2>2. Columns(K, cost, {}) \in [K -> {0}]
    BY DEF Columns
  <2>3. Row({}) = 0
    BY <2>2, SumOfZeros
  <2>4. Both({}) = base
    BY <2>1
  <2> HIDE DEF base, Both, Row
  <2> QED BY <1>1, <2>3, <2>4
<1>4. ASSUME NEW l \in SUBSET K, l # {}, l \ {Pick(l)} \in G PROVE l \in G
  <2> DEFINE p == Pick(l)
             m == l \ {p}
             n == cost[p]
             f == RowsAnd(A, K, cost, F, x, m)
             h == RowsAnd(A, K, cost, F, x, l)
             u == Columns(K, cost, m)
             v == Columns(K, cost, l)
  <2>1. p \in l /\ p \in K
    BY <1>4, PickInPart
  <2>2. Both(m) = base + Row(m) /\ m \in SUBSET K
    BY <1>4
  <2> HIDE DEF p
  <2>3. n \in Nat
    BY <2>1
  <2>4. f \in [A \X K -> Nat] /\ h \in [A \X K -> Nat] /\ u \in [K -> Nat] /\ v \in [K -> Nat]
    BY RowsTyped
  <2>5. /\ <<x, p>> \in A \X K /\ h[<<x, p>>] = n /\ f[<<x, p>>] = 0
        /\ \A c \in A \X K \ {<<x, p>>} : h[c] = f[c]
    <3>1. <<x, p>> \in A \X K
      BY <2>1
    <3>2. h[<<x, p>>] = n /\ f[<<x, p>>] = 0
      BY <2>1, <3>1 DEF RowsAnd
    <3>3. ASSUME NEW c \in A \X K, c # <<x, p>> PROVE h[c] = f[c]
      <4>1. c = <<c[1], c[2]>>
        OBVIOUS
      <4>2. c[1] = x => c[2] # p
        BY <3>3, <4>1
      <4>3. (c[1] = x /\ c[2] \in l) <=> (c[1] = x /\ c[2] \in m)
        BY <4>2
      <4> QED BY <4>3 DEF RowsAnd
    <3> QED BY <3>1, <3>2, <3>3
  <2>6. v[p] = n /\ u[p] = 0 /\ \A k \in K \ {p} : v[k] = u[k]
    BY <2>1 DEF Columns
  <2> HIDE DEF f, h, u, v, n
  <2>7. SumFunction(h) = SumFunction(f) + n
    <3> DEFINE S == A \X K
               e == <<x, p>>
    <3>1. e \in S /\ h[e] = f[e] + n /\ \A c \in S \ {e} : h[c] = f[c]
      BY <2>3, <2>5
    <3>2. IsFiniteSet(S) /\ f \in [S -> Nat] /\ h \in [S -> Nat]
      BY <2>4
    <3> HIDE DEF S, e
    <3> QED BY <2>3, <3>1, <3>2, SumGrows
  <2>8. SumFunction(v) = SumFunction(u) + n
    <3>1. v[p] = u[p] + n
      BY <2>3, <2>6
    <3> QED BY <2>1, <2>3, <2>4, <2>6, <3>1, SumGrows
  <2>9. Both(l) = Both(m) + n /\ Row(l) = Row(m) + n
    BY <2>7, <2>8 DEF f, h, u, v
  <2>10. Row(m) \in Nat
    BY <1>2, <2>2
  <2> HIDE DEF Both, Row, base, m
  <2>11. Both(l) = base + Row(l)
    BY <1>1, <2>2, <2>3, <2>9, <2>10
  <2> QED BY <2>11
<1>5. L \in G
  <2> HIDE DEF G
  <2>1. G \in SUBSET SUBSET K
    BY DEF G
  <2> QED BY <1>3, <1>4, <2>1, PartInduction
<1> QED BY <1>5

(* So many rows, so many times the sum of one. *)
LEMMA SumOfRows ==
  ASSUME NEW A, NEW K, IsFiniteSet(A), IsFiniteSet(K), IsFiniteSet(A \X K),
         NEW cost \in [K -> Nat], NEW F \in SUBSET A
  PROVE  SumFunction(Rows(A, K, cost, F)) = SumFunction(cost) * Cardinality(F)
<1> DEFINE one == SumFunction(cost)
           Table(s) == SumFunction(Rows(A, K, cost, s))
           G == {s \in SUBSET A : Table(s) = one * Cardinality(s)}
<1>1. one \in Nat
  BY SumIsNatural
<1>2. {} \in G
  <2>1. Rows(A, K, cost, {}) \in [A \X K -> {0}]
    BY DEF Rows
  <2>2. Table({}) = 0 /\ Cardinality({}) = 0
    BY <2>1, SumOfZeros, FS_EmptySet
  <2> HIDE DEF one, Table
  <2>3. one * 0 = 0
    BY <1>1
  <2> QED BY <2>2, <2>3
<1>3. ASSUME NEW s \in SUBSET A, s # {}, s \ {Pick(s)} \in G PROVE s \in G
  <2> DEFINE p == Pick(s)
             t == s \ {p}
  <2>1. p \in s /\ p \in A /\ p \notin t /\ t \in SUBSET A
    BY <1>3, PickInPart
  <2>2. Table(t) = one * Cardinality(t)
    BY <1>3
  <2>3. IsFiniteSet(s) /\ IsFiniteSet(t) /\ Cardinality(t) = Cardinality(s) - 1
    BY <2>1, FS_Subset, FS_RemoveElement
  <2>4. Cardinality(s) \in Nat /\ Cardinality(t) \in Nat
    BY <2>3, FS_CardinalityType
  <2> HIDE DEF p
  <2>5. RowsAnd(A, K, cost, t, p, K) = Rows(A, K, cost, s)
    <3>1. \A c \in A \X K : (c[1] \in t \/ (c[1] = p /\ c[2] \in K)) <=> c[1] \in s
      BY <2>1
    <3> QED BY <3>1 DEF RowsAnd, Rows
  <2>6. Columns(K, cost, K) = cost
    BY DEF Columns
  <2>7. Table(s) = Table(t) + one
    <3>1. K \in SUBSET K
      OBVIOUS
    <3>2. SumFunction(RowsAnd(A, K, cost, t, p, K))
            = SumFunction(Rows(A, K, cost, t)) + SumFunction(Columns(K, cost, K))
      <4> HIDE DEF t
      <4> QED BY <2>1, <3>1, RowAdds
    <3> QED BY <2>5, <2>6, <3>2
  <2> DEFINE a == Cardinality(s)
             b == Cardinality(t)
  <2>8. a \in Nat /\ b \in Nat /\ b = a - 1
    BY <2>3, <2>4
  <2> HIDE DEF one, Table, t, a, b
  <2>9. one * a = one * b + one
    BY <1>1, <2>8
  <2>10. Table(s) = one * a
    BY <2>2, <2>7, <2>9 DEF b
  <2> QED BY <2>10 DEF a
<1>4. F \in G
  <2> HIDE DEF G
  <2>1. G \in SUBSET SUBSET A
    BY DEF G
  <2> QED BY <1>2, <1>3, <2>1, PartInduction
<1> QED BY <1>4

(* A fold may take out any element first. *)
LEMMA SumWithoutPart ==
  ASSUME NEW S, IsFiniteSet(S), NEW f \in [S -> Nat], NEW g, SumsParts(g, f, S),
         NEW s \in SUBSET S, NEW x \in s
  PROVE  g[s] = f[x] + g[s \ {x}]
<1> DEFINE AnyFirst(t) == \A y \in t : g[t] = f[y] + g[t \ {y}]
           G == {n \in Nat : \A t \in SUBSET S : Cardinality(t) <= n => AnyFirst(t)}
<1>1. \A t \in SUBSET S : IsFiniteSet(t) /\ Cardinality(t) \in Nat
  BY FS_Subset, FS_CardinalityType
<1>2. \A t \in SUBSET S : g[t] \in Nat
  <2> DEFINE H == {t \in SUBSET S : g[t] \in Nat}
  <2>1. {} \in H
    <3>1. g[{}] = 0
      BY PartSum
    <3> QED BY <3>1
  <2>2. ASSUME NEW t \in SUBSET S, t # {}, t \ {Pick(t)} \in H PROVE t \in H
    <3>1. g[t] = f[Pick(t)] + g[t \ {Pick(t)}]
      BY <2>2, PartSum
    <3>2. f[Pick(t)] \in Nat
      BY <2>2, PickInPart
    <3> QED BY <2>2, <3>1, <3>2
  <2>3. H = SUBSET S
    <3> HIDE DEF H
    <3>1. H \in SUBSET SUBSET S
      BY DEF H
    <3> QED BY <2>1, <2>2, <3>1, PartInduction
  <2> QED BY <2>3
<1>3. 0 \in G
  <2> SUFFICES ASSUME NEW t \in SUBSET S, Cardinality(t) <= 0 PROVE t = {}
    OBVIOUS
  <2> QED BY <1>1, FS_EmptySet
<1>4. ASSUME NEW n \in G PROVE n + 1 \in G
  <2> SUFFICES ASSUME NEW t \in SUBSET S, Cardinality(t) <= n + 1, NEW y \in t
               PROVE  g[t] = f[y] + g[t \ {y}]
    OBVIOUS
  <2> DEFINE p == Pick(t)
             both == (t \ {y}) \ {p}
  <2>1. p \in t /\ p \in S /\ y \in S
    BY PickInPart
  <2>2. g[t] = f[p] + g[t \ {p}]
    <3>1. g[t] = IF t = {} THEN 0 ELSE f[Pick(t)] + g[t \ {Pick(t)}]
      <4>1. SumsParts(g, f, S) /\ t \in SUBSET S
        OBVIOUS
      <4> QED BY <4>1, PartSum
    <3> QED BY <3>1
  <2>3. CASE p = y
    BY <2>2, <2>3
  <2>4. CASE p # y
    <3>1. t \ {p} \in SUBSET S /\ t \ {y} \in SUBSET S /\ both \in SUBSET S
      OBVIOUS
    <3>2. Cardinality(t \ {p}) = Cardinality(t) - 1 /\ Cardinality(t \ {y}) = Cardinality(t) - 1
      <4> HIDE DEF p
      <4> QED BY <1>1, <2>1, FS_RemoveElement
    <3>3. Cardinality(t \ {p}) <= n /\ Cardinality(t \ {y}) <= n
      BY <1>1, <3>2
    <3>4. y \in t \ {p} /\ p \in t \ {y} /\ (t \ {p}) \ {y} = both
      BY <2>1, <2>4
    <3>5. AnyFirst(t \ {p}) /\ AnyFirst(t \ {y})
      <4> HIDE DEF p, AnyFirst
      <4> QED BY <3>1, <3>3
    <3>6. g[t \ {p}] = f[y] + g[both]
      <4> HIDE DEF p, both
      <4> QED BY <3>4, <3>5
    <3>7. g[t \ {y}] = f[p] + g[both]
      <4> HIDE DEF p
      <4> QED BY <3>4, <3>5
    <3>8. f[p] \in Nat /\ f[y] \in Nat /\ g[both] \in Nat
      <4> HIDE DEF p, both
      <4> QED BY <1>2, <2>1, <3>1
    <3> HIDE DEF p, both
    <3> QED BY <2>2, <3>6, <3>7, <3>8
  <2> QED BY <2>3, <2>4
<1>5. G = Nat
  <2> HIDE DEF G
  <2>1. G \in SUBSET Nat
    BY DEF G
  <2> QED BY <1>3, <1>4, <2>1, NumberInduction
<1>6. Cardinality(s) \in Nat /\ Cardinality(s) <= Cardinality(s)
  BY <1>1
<1>7. AnyFirst(s)
  <2> HIDE DEF AnyFirst
  <2> QED BY <1>5, <1>6
<1> QED BY <1>7

(* A sum is that of all terms but one, and that one. *)
LEMMA SumWithout ==
  ASSUME NEW S, IsFiniteSet(S), NEW f \in [S -> Nat], NEW x \in S
  PROVE  SumFunction(f) = SumFunction([y \in S \ {x} |-> f[y]]) + f[x]
<1> DEFINE T == S \ {x}
           h == [y \in T |-> f[y]]
<1>1. IsFiniteSet(T) /\ T \in SUBSET S
  BY FS_Subset
<1>2. PICK g : SumsParts(g, f, S) /\ SumFunction(f) = g[S]
  BY SumUnfolds
<1>3. DOMAIN h = T
  OBVIOUS
<1>4. PICK k : SumsParts(k, h, T) /\ SumFunction(h) = k[T]
  BY <1>1, <1>3, SumUnfolds
<1>5. g[S] = f[x] + g[T]
  BY <1>2, SumWithoutPart
<1>6. h \in [T -> Nat]
  OBVIOUS
<1> DEFINE G == {s \in SUBSET T : g[s] = k[s] /\ g[s] \in Nat}
<1>7. {} \in G
  <2>1. g[{}] = 0
    BY <1>2, PartSum
  <2>2. k[{}] = 0
    BY <1>4, PartSum
  <2> QED BY <2>1, <2>2
<1>8. ASSUME NEW s \in SUBSET T, s # {}, s \ {Pick(s)} \in G PROVE s \in G
  <2>1. Pick(s) \in T /\ s \in SUBSET S
    BY <1>1, <1>8, PickInPart
  <2>2. g[s] = f[Pick(s)] + g[s \ {Pick(s)}]
    <3>1. SumsParts(g, f, S) /\ s \in SUBSET S /\ s # {}
      BY <1>2, <1>8, <2>1
    <3> QED BY <3>1, PartSum
  <2>3. k[s] = h[Pick(s)] + k[s \ {Pick(s)}]
    <3> HIDE DEF h, T
    <3> QED BY <1>4, <1>8, PartSum
  <2>4. h[Pick(s)] = f[Pick(s)] /\ f[Pick(s)] \in Nat
    BY <1>1, <2>1
  <2> QED BY <1>8, <2>2, <2>3, <2>4
<1>9. T \in G
  <2> HIDE DEF G, T
  <2>1. G \in SUBSET SUBSET T
    BY DEF G
  <2> QED BY <1>1, <1>7, <1>8, <2>1, PartInduction
<1>10. g[T] = k[T] /\ g[T] \in Nat /\ f[x] \in Nat
  BY <1>9
<1> HIDE DEF T, h
<1>11. SumFunction(f) = SumFunction(h) + f[x]
  BY <1>2, <1>4, <1>5, <1>10
<1> QED BY <1>11 DEF h, T

(* The sum of a list with one more entry. *)
LEMMA SumOfAppended ==
  ASSUME NEW n \in Nat, NEW f \in [1..n + 1 -> Nat], NEW h \in [1..n -> Nat],
         \A i \in 1..n : h[i] = f[i]
  PROVE  SumFunction(f) = SumFunction(h) + f[n + 1]
<1> DEFINE S == 1..n + 1
<1>1. IsFiniteSet(S) /\ n + 1 \in S /\ f \in [S -> Nat]
  <2>1. 1 \in Int /\ n + 1 \in Int
    OBVIOUS
  <2>2. IsFiniteSet(1..n + 1)
    BY <2>1, FS_Interval
  <2> QED BY <2>2
<1>2. S \ {n + 1} = 1..n
  OBVIOUS
<1>3. h = [i \in 1..n |-> f[i]]
  OBVIOUS
<1> HIDE DEF S
<1>4. SumFunction(f) = SumFunction([i \in S \ {n + 1} |-> f[i]]) + f[n + 1]
  BY <1>1, SumWithout
<1> QED BY <1>2, <1>3, <1>4

(* The sum of no terms. *)
LEMMA SumOfNone ==
  ASSUME NEW f, DOMAIN f = {}, f = [x \in {} |-> 0]
  PROVE  SumFunction(f) = 0
BY FS_EmptySet, SumOfZeros

(* One more number adds itself to the sum of a list. *)
LEMMA SumOfLonger ==
  ASSUME NEW s \in Seq(Nat), NEW e \in Nat
  PROVE  SumFunction(Append(s, e)) = SumFunction(s) + e
<1> DEFINE n == Len(s)
           f == Append(s, e)
<1>1. n \in Nat /\ f \in [1..n + 1 -> Nat] /\ s \in [1..n -> Nat]
  <2>1. f \in Seq(Nat) /\ Len(f) = n + 1
    OBVIOUS
  <2> HIDE DEF f
  <2> QED BY <2>1
<1>2. f[n + 1] = e /\ \A i \in 1..n : s[i] = f[i]
  OBVIOUS
<1> HIDE DEF n, f
<1>3. SumFunction(f) = SumFunction(s) + f[n + 1]
  BY <1>1, <1>2, SumOfAppended
<1> QED BY <1>2, <1>3 DEF f

-----------------------------------------------------------------------------
(* The prefixes of a list of lists, each joined to one list. *)
JoinsOf(g, ls, n) ==
  \A i \in 1..Len(ls) : i <= n => g[i] = IF i = 1 THEN ls[i] ELSE g[i - 1] \o ls[i]

(* FlattenSeq is the last of them. *)
LEMMA FlattenUnfolds ==
  ASSUME NEW ls, Len(ls) \in Nat \ {0}
  PROVE  \E g : JoinsOf(g, ls, Len(ls)) /\ FlattenSeq(ls) = g[Len(ls)]
<1> DEFINE n == Len(ls)
           Is(g) == g = [i \in 1..n |-> IF i = 1 THEN ls[i] ELSE g[i - 1] \o ls[i]]
           G == {m \in Nat : \E g : JoinsOf(g, ls, m)}
<1>1. 0 \in G
  BY DEF JoinsOf
<1>2. ASSUME NEW m \in G PROVE m + 1 \in G
  <2>1. PICK g : JoinsOf(g, ls, m)
    OBVIOUS
  <2> DEFINE h == [i \in 1..n |-> IF i <= m THEN g[i]
                                  ELSE IF i = 1 THEN ls[i] ELSE g[i - 1] \o ls[i]]
  <2>2. ASSUME NEW i \in 1..n, i <= m + 1
        PROVE  h[i] = IF i = 1 THEN ls[i] ELSE h[i - 1] \o ls[i]
    <3>1. i # 1 => i - 1 \in 1..n /\ i - 1 <= m
      BY <2>2
    <3>2. i # 1 => h[i - 1] = g[i - 1]
      BY <3>1
    <3>3. i <= m => g[i] = IF i = 1 THEN ls[i] ELSE g[i - 1] \o ls[i]
      BY <2>1 DEF JoinsOf
    <3> QED BY <2>2, <3>2, <3>3
  <2> HIDE DEF h
  <2>3. JoinsOf(h, ls, m + 1)
    BY <2>2 DEF JoinsOf
  <2> QED BY <2>3
<1>3. PICK g : JoinsOf(g, ls, n)
  <2> HIDE DEF G
  <2>1. G \in SUBSET Nat
    BY DEF G
  <2>2. n \in G
    BY <1>1, <1>2, <2>1, NumberInduction
  <2> QED BY <2>2 DEF G
<1> DEFINE h == [i \in 1..n |-> g[i]]
<1>4. Is(h)
  <2>1. ASSUME NEW i \in 1..n PROVE h[i] = IF i = 1 THEN ls[i] ELSE h[i - 1] \o ls[i]
    <3>1. i <= n /\ (i # 1 => i - 1 \in 1..n)
      OBVIOUS
    <3>2. g[i] = IF i = 1 THEN ls[i] ELSE g[i - 1] \o ls[i]
      BY <1>3, <3>1 DEF JoinsOf
    <3> QED BY <3>1, <3>2
  <2> QED BY <2>1
<1> DEFINE f == CHOOSE x : Is(x)
<1>5. Is(f)
  BY <1>4
<1>6. FlattenSeq(ls) = f[n]
  BY DEF FlattenSeq
<1>7. JoinsOf(f, ls, n)
  <2> HIDE DEF f
  <2> QED BY <1>5 DEF JoinsOf
<1> QED BY <1>6, <1>7

(* The first n lists of a list, and what they join to. *)
FirstLists(ls, n) == [i \in 1..n |-> ls[i]]
Flat(ls, n) == FlattenSeq(FirstLists(ls, n))

(* Their number. *)
LEMMA FirstListsLength ==
  ASSUME NEW ls, NEW n \in Nat
  PROVE  Len(FirstLists(ls, n)) = n /\ \A i \in 1..n : FirstLists(ls, n)[i] = ls[i]
BY DEF FirstLists

(* A list joined with the next one is the join of one more. *)
LEMMA FlatGrows ==
  ASSUME NEW X, NEW ls, NEW n \in Nat, ls[n + 1] \in Seq(X)
  PROVE  Flat(ls, n + 1) = Flat(ls, n) \o ls[n + 1]
<1> DEFINE p == FirstLists(ls, n)
           q == FirstLists(ls, n + 1)
<1>0. n + 1 \in Nat \ {0} /\ n + 1 \in 1..n + 1
  OBVIOUS
<1>1. /\ Len(p) = n /\ \A i \in 1..n : p[i] = ls[i]
      /\ Len(q) = n + 1 /\ \A i \in 1..n + 1 : q[i] = ls[i]
  BY <1>0, FirstListsLength
<1>2. PICK h : JoinsOf(h, q, n + 1) /\ Flat(ls, n + 1) = h[n + 1]
  <2>1. \E h : JoinsOf(h, q, Len(q)) /\ FlattenSeq(q) = h[Len(q)]
    <3> HIDE DEF q
    <3> QED BY <1>0, <1>1, FlattenUnfolds
  <2> QED BY <1>1, <2>1 DEF Flat
<1>3. CASE n = 0
  <2>1. p = <<>>
    BY <1>3 DEF FirstLists
  <2>2. Flat(ls, n) = <<>>
    BY <2>1 DEF Flat, FlattenSeq
  <2>3. h[1] = ls[1]
    BY <1>1, <1>2, <1>3 DEF JoinsOf
  <2> QED BY <1>2, <1>3, <2>2, <2>3, ConcatEmptySeq
<1>4. CASE n # 0
  <2>1. PICK g : JoinsOf(g, p, n) /\ Flat(ls, n) = g[n]
    <3>1. \E g : JoinsOf(g, p, Len(p)) /\ FlattenSeq(p) = g[Len(p)]
      <4> HIDE DEF p
      <4> QED BY <1>1, <1>4, FlattenUnfolds
    <3> QED BY <1>1, <3>1 DEF Flat
  <2> DEFINE G == {i \in Nat : i \in 1..n => g[i] = h[i]}
  <2>2. 0 \in G
    OBVIOUS
  <2>3. ASSUME NEW i \in G PROVE i + 1 \in G
    <3> SUFFICES ASSUME i + 1 \in 1..n PROVE g[i + 1] = h[i + 1]
      OBVIOUS
    <3>1. i + 1 \in 1..n + 1 /\ i + 1 <= n /\ i + 1 <= n + 1 /\ (i + 1) - 1 = i
      OBVIOUS
    <3>2. /\ g[i + 1] = IF i + 1 = 1 THEN ls[i + 1] ELSE g[i] \o ls[i + 1]
          /\ h[i + 1] = IF i + 1 = 1 THEN ls[i + 1] ELSE h[i] \o ls[i + 1]
      <4> HIDE DEF p, q, G
      <4> QED BY <1>1, <1>2, <2>1, <3>1 DEF JoinsOf
    <3>3. i + 1 # 1 => i \in 1..n
      BY <3>1
    <3> QED BY <3>2, <3>3
  <2>4. g[n] = h[n]
    <3> HIDE DEF G
    <3>1. G \in SUBSET Nat
      BY DEF G
    <3>2. G = Nat
      BY <2>2, <2>3, <3>1, NumberInduction
    <3>3. n \in G /\ n \in 1..n
      BY <1>4, <3>2
    <3> QED BY <3>3 DEF G
  <2>5. h[n + 1] = h[n] \o ls[n + 1]
    <3>1. n + 1 # 1 /\ (n + 1) - 1 = n /\ n + 1 <= n + 1
      BY <1>4
    <3> HIDE DEF q
    <3> QED BY <1>0, <1>1, <1>2, <3>1 DEF JoinsOf
  <2> QED BY <1>2, <2>1, <2>4, <2>5
<1> QED BY <1>3, <1>4

(* What the first n lists join to is over what they are over. *)
LEMMA FlatTyped ==
  ASSUME NEW X, NEW ls, NEW n \in Nat, \A i \in 1..n : ls[i] \in Seq(X)
  PROVE  Flat(ls, 0) = <<>> /\ Flat(ls, n) \in Seq(X)
<1> DEFINE G == {m \in Nat : m <= n => Flat(ls, m) \in Seq(X)}
<1>1. Flat(ls, 0) = <<>>
  <2>1. FirstLists(ls, 0) = <<>>
    BY DEF FirstLists
  <2>2. Flat(ls, 0) = FlattenSeq(<<>>)
    BY <2>1 DEF Flat
  <2>3. FlattenSeq(<<>>) = <<>>
    BY DEF FlattenSeq
  <2> QED BY <2>2, <2>3
<1>2. 0 \in G
  <2>1. <<>> \in Seq(X)
    OBVIOUS
  <2> QED BY <1>1, <2>1
<1>3. ASSUME NEW m \in G PROVE m + 1 \in G
  <2> SUFFICES ASSUME m + 1 <= n PROVE Flat(ls, m + 1) \in Seq(X)
    OBVIOUS
  <2>1. m \in Nat /\ Flat(ls, m) \in Seq(X) /\ ls[m + 1] \in Seq(X)
    OBVIOUS
  <2>2. Flat(ls, m + 1) = Flat(ls, m) \o ls[m + 1]
    BY <2>1, FlatGrows
  <2> QED BY <2>1, <2>2, ConcatProperties
<1>4. Flat(ls, n) \in Seq(X)
  <2> HIDE DEF G
  <2>1. G \in SUBSET Nat
    BY DEF G
  <2>2. n \in G
    BY <1>2, <1>3, <2>1, NumberInduction
  <2> QED BY <2>2 DEF G
<1> QED BY <1>1, <1>4

(* All of them join to what the list joins to. *)
LEMMA FlatAll ==
  ASSUME NEW ls, NEW n \in Nat, ls = [i \in 1..n |-> ls[i]]
  PROVE  FlattenSeq(ls) = Flat(ls, n)
<1>1. FirstLists(ls, n) = ls
  BY DEF FirstLists
<1> QED BY <1>1 DEF Flat

(* An element of a list is at its place in what the lists join to.         *)
LEMMA FlatPlace ==
  ASSUME NEW X, NEW ls, NEW n \in Nat, \A i \in 1..n : ls[i] \in Seq(X),
         NEW j \in 1..n, NEW k \in 1..Len(ls[j])
  PROVE  /\ Len(Flat(ls, j - 1)) + k \in 1..Len(Flat(ls, n))
         /\ Flat(ls, n)[Len(Flat(ls, j - 1)) + k] = ls[j][k]
<1> DEFINE x == Len(Flat(ls, j - 1)) + k
           Placed(m) == x \in 1..Len(Flat(ls, m)) /\ Flat(ls, m)[x] = ls[j][k]
           G == {d \in Nat : j + d <= n => Placed(j + d)}
<1>1. ASSUME NEW m \in 0..n PROVE Flat(ls, m) \in Seq(X) /\ Len(Flat(ls, m)) \in Nat
  <2>1. m \in Nat /\ \A i \in 1..m : ls[i] \in Seq(X)
    OBVIOUS
  <2>2. Flat(ls, m) \in Seq(X)
    BY <2>1, FlatTyped
  <2> QED BY <2>2, LenProperties
<1>2. ASSUME NEW m \in 0..n - 1
      PROVE  /\ Flat(ls, m + 1) = Flat(ls, m) \o ls[m + 1]
             /\ ls[m + 1] \in Seq(X) /\ Len(ls[m + 1]) \in Nat
  <2>1. m \in Nat /\ ls[m + 1] \in Seq(X)
    OBVIOUS
  <2> QED BY <2>1, FlatGrows, LenProperties
<1>3. 0 \in G
  <2>1. j - 1 \in 0..n - 1 /\ (j - 1) + 1 = j /\ j - 1 \in 0..n
    OBVIOUS
  <2>2. /\ Flat(ls, j) = Flat(ls, j - 1) \o ls[j] /\ ls[j] \in Seq(X) /\ Len(ls[j]) \in Nat
        /\ Flat(ls, j - 1) \in Seq(X) /\ Len(Flat(ls, j - 1)) \in Nat
    BY <1>1, <1>2, <2>1
  <2>3. Placed(j)
    BY <2>2, ConcatProperties
  <2>4. j + 0 = j
    OBVIOUS
  <2> HIDE DEF Placed
  <2> QED BY <2>3, <2>4
<1>4. ASSUME NEW d \in G PROVE d + 1 \in G
  <2> SUFFICES ASSUME j + (d + 1) <= n PROVE Placed(j + (d + 1))
    BY DEF G
  <2> DEFINE m == j + d
  <2>0. d \in Nat /\ m \in 0..n - 1 /\ m \in 0..n /\ j + (d + 1) = m + 1 /\ m <= n
    OBVIOUS
  <2>1. Placed(m)
    <3> HIDE DEF Placed
    <3> QED BY <2>0
  <2>2. /\ Flat(ls, m + 1) = Flat(ls, m) \o ls[m + 1]
        /\ ls[m + 1] \in Seq(X) /\ Len(ls[m + 1]) \in Nat
        /\ Flat(ls, m) \in Seq(X) /\ Len(Flat(ls, m)) \in Nat
    BY <1>1, <1>2, <2>0
  <2> HIDE DEF m, x
  <2>3. Placed(m + 1)
    BY <2>1, <2>2, ConcatProperties
  <2> HIDE DEF Placed
  <2> QED BY <2>0, <2>3
<1>5. n - j \in G
  <2> HIDE DEF G
  <2>1. G \in SUBSET Nat
    BY DEF G
  <2>2. G = Nat
    BY <1>3, <1>4, <2>1, NumberInduction
  <2>3. n - j \in Nat
    OBVIOUS
  <2> QED BY <2>2, <2>3
<1>6. Placed(n)
  <2>1. j + (n - j) = n /\ n <= n
    OBVIOUS
  <2> HIDE DEF Placed
  <2> QED BY <1>5, <2>1
<1> QED BY <1>6

-----------------------------------------------------------------------------
(* Numbers. *)

(* Multiples of a positive number are ordered as their factors. *)
LEMMA Multiples ==
  ASSUME NEW a \in Int, NEW b \in Int, a < b, NEW d \in Nat \ {0}
  PROVE  a * d \in Int /\ b * d \in Int /\ a * d + d <= b * d
<1>1. (b - a) * d = b * d - a * d
  OBVIOUS
<1>2. (b - a) * d = d + (b - a - 1) * d
  OBVIOUS
<1>3. b - a - 1 \in Nat /\ (b - a - 1) * d >= 0
  OBVIOUS
<1>4. a * d \in Int /\ b * d \in Int /\ (b - a - 1) * d \in Int
  OBVIOUS
<1> QED BY <1>1, <1>2, <1>3, <1>4

(* Where a quotient is s. *)
LEMMA Quotient ==
  ASSUME NEW x \in Int, NEW s \in Int, NEW d \in Nat \ {0}
  PROVE  x \div d = s <=> s * d <= x /\ x <= s * d + d - 1
<1> DEFINE q == x \div d
<1>1. q \in Int /\ q * d <= x /\ x <= q * d + d - 1
  <2>1. q \in Int /\ x = d * q + (x % d) /\ x % d \in 0..d - 1
    OBVIOUS
  <2>2. d * q = q * d
    BY <2>1
  <2> HIDE DEF q
  <2> QED BY <2>1, <2>2
<1> HIDE DEF q
<1>2. ASSUME s * d <= x, x <= s * d + d - 1 PROVE q = s
  <2>1. q < s => q * d + d <= s * d
    BY <1>1, Multiples
  <2>2. s < q => s * d + d <= q * d
    BY <1>1, Multiples
  <2>3. q * d \in Int /\ s * d \in Int
    BY <1>1
  <2> QED BY <1>1, <1>2, <2>1, <2>2, <2>3
<1>3. (x \div d) = q
  BY DEF q
<1> QED BY <1>1, <1>2, <1>3

-----------------------------------------------------------------------------
(* Ordered lists of numbers. *)

(* Ascending lists of numbers. *)
AscendingList(q) == \A i, j \in 1..Len(q) : i < j => q[i] < q[j]

(* R orders the members of S. *)
Orders(R, S) ==
  /\ \A a \in S : <<a, a>> \notin R
  /\ \A a, b, c \in S : <<a, b>> \in R /\ <<b, c>> \in R => <<a, c>> \in R
  /\ \A a, b \in S : a = b \/ <<a, b>> \in R \/ <<b, a>> \in R

(* How many members of S are before b. *)
RankIn(R, S, b) == Cardinality({c \in S : <<c, b>> \in R})

(* A later member has a greater rank, and there are as many ranks as       *)
(* members.                                                                *)
LEMMA RankGrows ==
  ASSUME NEW R, NEW S, IsFiniteSet(S), Orders(R, S), NEW b \in S
  PROVE  /\ RankIn(R, S, b) \in 0..Cardinality(S) - 1
         /\ \A c \in S : <<b, c>> \in R => RankIn(R, S, b) < RankIn(R, S, c)
<1> DEFINE below(x) == {c \in S : <<c, x>> \in R}
<1>1. /\ Cardinality(S) \in Nat
      /\ \A x \in S : IsFiniteSet(below(x)) /\ Cardinality(below(x)) \in Nat
  <2>1. \A x \in S : below(x) \in SUBSET S
    OBVIOUS
  <2> HIDE DEF below
  <2> QED BY <2>1, FS_Subset, FS_CardinalityType
<1>2. b \notin below(b)
  BY DEF Orders
<1>3. /\ IsFiniteSet(below(b) \cup {b})
      /\ Cardinality(below(b) \cup {b}) = Cardinality(below(b)) + 1
  <2> HIDE DEF below
  <2> QED BY <1>1, <1>2, FS_AddElement
<1>4. Cardinality(below(b)) + 1 <= Cardinality(S)
  <2>1. below(b) \cup {b} \in SUBSET S
    OBVIOUS
  <2> HIDE DEF below
  <2> QED BY <1>3, <2>1, FS_Subset
<1>5. ASSUME NEW c \in S, <<b, c>> \in R
      PROVE  Cardinality(below(b)) < Cardinality(below(c))
  <2>1. below(b) \cup {b} \in SUBSET below(c)
    <3>1. ASSUME NEW x \in S, <<x, b>> \in R PROVE <<x, c>> \in R
      BY <1>5, <3>1 DEF Orders
    <3> QED BY <1>5, <3>1
  <2> HIDE DEF below
  <2>2. Cardinality(below(b) \cup {b}) <= Cardinality(below(c))
    BY <1>1, <2>1, FS_Subset
  <2> QED BY <1>1, <1>3, <2>2
<1>6. \A x : RankIn(R, S, x) = Cardinality(below(x))
  BY DEF RankIn
<1> HIDE DEF below
<1> QED BY <1>1, <1>4, <1>5, <1>6

(* Entry i of q is the member of rank i - 1, if there is one. *)
ByRank(q, m, R, S) ==
  \A i \in 1..m : (\E b \in S : RankIn(R, S, b) = i - 1) =>
                  q[i] \in S /\ RankIn(R, S, q[i]) = i - 1

(* q lists the first m members of S in the order of R. *)
RankOrdered(q, m, R, S) ==
  /\ \A i \in 1..m : q[i] \in S
  /\ \A i, j \in 1..m : i < j => <<q[i], q[j]>> \in R
  /\ \A b \in S : \/ \E i \in 1..m : q[i] = b
                  \/ m < Cardinality(S) /\ \A i \in 1..m : <<q[i], b>> \in R

(* The members listed by rank are in order, and those left out are later.  *)
LEMMA RankedInOrder ==
  ASSUME NEW R, NEW S, IsFiniteSet(S), Orders(R, S), NEW m \in 0..Cardinality(S),
         NEW q, ByRank(q, m, R, S)
  PROVE  RankOrdered(q, m, R, S)
<1> DEFINE n == Cardinality(S)
           rank(b) == RankIn(R, S, b)
           r == [b \in S |-> rank(b)]
<1>1. n \in Nat /\ m \in Nat /\ m <= n
  BY FS_CardinalityType
<1>2. \A b, c \in S : <<b, c>> \in R => rank(b) < rank(c)
  BY RankGrows
<1>3. \A b \in S : rank(b) \in 0..n - 1
  BY RankGrows
<1>4. \A i \in 1..m : (\E b \in S : rank(b) = i - 1) => q[i] \in S /\ rank(q[i]) = i - 1
  BY DEF ByRank
<1>5. IsFiniteSet(0..n - 1) /\ Cardinality(0..n - 1) = n
  <2>1. 0 \in Int /\ n - 1 \in Int
    BY <1>1
  <2>2. /\ IsFiniteSet(0..n - 1)
        /\ Cardinality(0..n - 1) = IF 0 > n - 1 THEN 0 ELSE n - 1 - 0 + 1
    BY <2>1, FS_Interval
  <2> HIDE DEF n
  <2> QED BY <1>1, <2>2
<1>6. \A b \in S : rank(b) \in Int
  <2>1. 0..n - 1 \subseteq Int
    BY <1>1
  <2> QED BY <1>3, <2>1
<1>7. n = Cardinality(S) /\ r = [b \in S |-> rank(b)]
  OBVIOUS
<1> HIDE DEF n, r, rank
<1>8. \A b, c \in S : rank(b) = rank(c) => b = c
  <2> SUFFICES ASSUME NEW b \in S, NEW c \in S, b # c PROVE rank(b) # rank(c)
    OBVIOUS
  <2>1. <<b, c>> \in R \/ <<c, b>> \in R
    BY DEF Orders
  <2>2. rank(b) < rank(c) \/ rank(c) < rank(b)
    BY <1>2, <2>1
  <2> QED BY <1>6, <2>2
<1>9. r \in Injection(S, 0..n - 1)
  <2>1. r \in [S -> 0..n - 1]
    BY <1>3, <1>7
  <2>2. IsInjective(r)
    BY <1>7, <1>8 DEF IsInjective
  <2> QED BY <2>1, <2>2 DEF Injection
<1>10. \A k \in 0..n - 1 : \E b \in S : rank(b) = k
  <2>1. r \in Surjection(S, 0..n - 1)
    BY <1>5, <1>7, <1>9, FS_Injection
  <2> QED BY <1>7, <2>1 DEF Surjection
<1>11. \A i \in 1..m : q[i] \in S /\ rank(q[i]) = i - 1
  <2> TAKE i \in 1..m
  <2>1. i - 1 \in 0..n - 1
    BY <1>1
  <2> QED BY <1>4, <1>10, <2>1
<1>12. ASSUME NEW b \in S, NEW i \in 1..m, i - 1 < rank(b) PROVE <<q[i], b>> \in R
  <2>1. q[i] \in S /\ rank(q[i]) = i - 1 /\ i \in Int
    BY <1>1, <1>11
  <2>2. q[i] # b /\ ~(rank(b) < rank(q[i]))
    BY <1>6, <1>12, <2>1
  <2> QED BY <1>2, <2>1, <2>2 DEF Orders
<1>13. ASSUME NEW i \in 1..m, NEW j \in 1..m, i < j PROVE <<q[i], q[j]>> \in R
  <2>1. q[j] \in S /\ rank(q[j]) = j - 1 /\ i \in Int /\ j \in Int
    BY <1>1, <1>11
  <2>2. i - 1 < rank(q[j])
    BY <1>13, <2>1
  <2> QED BY <1>12, <2>1, <2>2
<1>14. ASSUME NEW b \in S
       PROVE  \/ \E i \in 1..m : q[i] = b
              \/ m < n /\ \A i \in 1..m : <<q[i], b>> \in R
  <2>1. rank(b) \in 0..n - 1
    BY <1>3
  <2>2. CASE rank(b) < m
    <3>1. rank(b) + 1 \in 1..m /\ (rank(b) + 1) - 1 = rank(b)
      BY <1>1, <2>1, <2>2
    <3>2. q[rank(b) + 1] \in S /\ rank(q[rank(b) + 1]) = rank(b)
      BY <1>11, <3>1
    <3> QED BY <1>8, <3>1, <3>2
  <2>3. CASE ~(rank(b) < m)
    <3>1. m < n /\ \A i \in 1..m : i - 1 < rank(b)
      BY <1>1, <2>1, <2>3
    <3> QED BY <1>12, <3>1
  <2> QED BY <2>2, <2>3
<1>15. \A i \in 1..m : q[i] \in S
  BY <1>11
<1> QED BY <1>13, <1>14, <1>15 DEF RankOrdered, n

(* q lists the numbers of S, ascending. *)
Enumerates(q, S) ==
  /\ q \in Seq(S) /\ AscendingList(q)
  /\ \A b \in S : \E i \in 1..Len(q) : q[i] = b

(* The members of a finite set of numbers in order of rank. *)
Ranked(S) ==
  [i \in 1..Cardinality(S) |-> CHOOSE b \in S : Cardinality({c \in S : c < b}) = i - 1]

(* Ranked lists a finite set, each of its members once. *)
LEMMA RankedLists ==
  ASSUME NEW S \in SUBSET Int, IsFiniteSet(S)
  PROVE  Enumerates(Ranked(S), S) /\ Len(Ranked(S)) = Cardinality(S)
<1> DEFINE R == {bc \in S \X S : bc[1] < bc[2]}
           n == Cardinality(S)
           q == Ranked(S)
<1>1. n \in Nat
  BY FS_CardinalityType
<1>2. \A b, c \in S : <<b, c>> \in R <=> b < c
  OBVIOUS
<1>3. \A b \in S : b \in Int
  OBVIOUS
<1> HIDE DEF R
<1>4. Orders(R, S)
  BY <1>2, <1>3 DEF Orders
<1>5. \A b \in S : {c \in S : <<c, b>> \in R} = {c \in S : c < b}
  BY <1>2
<1>6. ByRank(q, n, R, S)
  <2> SUFFICES ASSUME NEW i \in 1..n, NEW b \in S, RankIn(R, S, b) = i - 1
               PROVE  q[i] \in S /\ RankIn(R, S, q[i]) = i - 1
    BY DEF ByRank
  <2>1. Cardinality({c \in S : c < b}) = i - 1
    BY <1>5 DEF RankIn
  <2>2. q[i] = CHOOSE x \in S : Cardinality({c \in S : c < x}) = i - 1
    BY DEF Ranked
  <2> HIDE DEF q
  <2>3. q[i] \in S /\ Cardinality({c \in S : c < q[i]}) = i - 1
    BY <2>1, <2>2
  <2> QED BY <1>5, <2>3 DEF RankIn
<1>7. RankOrdered(q, n, R, S)
  <2>1. n \in 0..n /\ n = Cardinality(S)
    BY <1>1
  <2> HIDE DEF n, q
  <2>2. n \in 0..Cardinality(S)
    BY <2>1
  <2> QED BY <1>4, <1>6, <2>2, RankedInOrder
<1>8. q = [i \in 1..n |-> CHOOSE b \in S : Cardinality({c \in S : c < b}) = i - 1]
  BY DEF Ranked
<1> HIDE DEF q, n
<1>9. q \in Seq(S) /\ Len(q) = n
  <2>1. q \in [1..n -> S]
    BY <1>7, <1>8 DEF RankOrdered
  <2> QED BY <1>1, <2>1
<1>10. AscendingList(q)
  BY <1>2, <1>7, <1>9 DEF AscendingList, RankOrdered
<1>11. \A b \in S : \E i \in 1..n : q[i] = b
  <2>1. ~(n < Cardinality(S))
    BY <1>1 DEF n
  <2> QED BY <1>7, <2>1 DEF RankOrdered
<1> QED BY <1>9, <1>10, <1>11 DEF Enumerates, q, n

(* An ascending list does not repeat a number. *)
LEMMA AscendingRecency ==
  ASSUME NEW S \in SUBSET Int, NEW q \in Seq(S), AscendingList(q)
  PROVE  q \in Recency(S)
<1> SUFFICES ASSUME NEW i \in 1..Len(q), NEW j \in 1..Len(q), i # j
             PROVE  q[i] # q[j]
  BY DEF Recency, IsInjective
<1>1. q[i] \in Int /\ q[j] \in Int
  BY ElementOfSeq
<1>2. i < j \/ j < i
  OBVIOUS
<1>3. q[i] < q[j] \/ q[j] < q[i]
  BY <1>2 DEF AscendingList
<1> QED BY <1>1, <1>3

(* An ascending list of an interval counts through it. *)
LEMMA AscendingInterval ==
  ASSUME NEW a \in Int, NEW b \in Int, a <= b, NEW q, Enumerates(q, a..b)
  PROVE  /\ Len(q) \in Nat \ {0} /\ q[1] = a /\ q[Len(q)] = b
         /\ \A i \in 1..Len(q) - 1 : q[i + 1] = q[i] + 1
<1>0. q \in Seq(a..b) /\ AscendingList(q)
  BY DEF Enumerates
<1>1. /\ Len(q) \in Nat
      /\ \A i \in 1..Len(q) : q[i] \in a..b /\ q[i] \in Int /\ a <= q[i] /\ q[i] <= b
  <2>1. ASSUME NEW i \in 1..Len(q) PROVE q[i] \in a..b
    BY <1>0, ElementOfSeq
  <2>2. \A x \in a..b : x \in Int /\ a <= x /\ x <= b
    OBVIOUS
  <2>3. Len(q) \in Nat
    BY <1>0
  <2> QED BY <2>1, <2>2, <2>3
<1>9. a \in a..b /\ b \in a..b
  OBVIOUS
<1>2. PICK i \in 1..Len(q) : q[i] = a
  BY <1>9 DEF Enumerates
<1>3. PICK j \in 1..Len(q) : q[j] = b
  BY <1>9 DEF Enumerates
<1>4. Len(q) \in Nat \ {0} /\ 1 \in 1..Len(q) /\ Len(q) \in 1..Len(q)
  BY <1>1, <1>2
<1>5. q[1] = a
  <2>1. i = 1 \/ 1 < i
    OBVIOUS
  <2>2. q[1] \in Int /\ a <= q[1]
    BY <1>1, <1>4
  <2>3. 1 < i => q[1] < q[i]
    BY <1>0, <1>4 DEF AscendingList
  <2> QED BY <1>2, <2>1, <2>2, <2>3
<1>6. q[Len(q)] = b
  <2>1. j = Len(q) \/ j < Len(q)
    BY <1>1
  <2>2. q[Len(q)] \in Int /\ q[Len(q)] <= b
    BY <1>1, <1>4
  <2>3. j < Len(q) => q[j] < q[Len(q)]
    BY <1>0, <1>4 DEF AscendingList
  <2> QED BY <1>3, <2>1, <2>2, <2>3
<1>7. ASSUME NEW k \in 1..Len(q) - 1 PROVE q[k + 1] = q[k] + 1
  <2>1. k \in 1..Len(q) /\ k + 1 \in 1..Len(q) /\ k < k + 1
    BY <1>1
  <2>2. /\ q[k] \in Int /\ a <= q[k] /\ q[k + 1] \in Int /\ q[k + 1] <= b
        /\ q[k] < q[k + 1]
    BY <1>0, <1>1, <2>1 DEF AscendingList
  <2>3. q[k] + 1 \in a..b
    BY <2>2
  <2>4. PICK m \in 1..Len(q) : q[m] = q[k] + 1
    BY <2>3 DEF Enumerates
  <2>5. ~(k + 1 < m)
    <3>1. k + 1 < m => q[k + 1] < q[m]
      BY <1>0, <2>1 DEF AscendingList
    <3> QED BY <2>2, <2>4, <3>1
  <2>6. ~(m < k) /\ m # k
    <3>1. m < k => q[m] < q[k]
      BY <1>0, <2>1 DEF AscendingList
    <3> QED BY <2>2, <2>4, <3>1
  <2>7. m = k + 1
    BY <2>5, <2>6
  <2> QED BY <2>4, <2>7
<1> QED BY <1>4, <1>5, <1>6, <1>7

-----------------------------------------------------------------------------
(* What one call on a policy does, for every capacity and every set of     *)
(* keys: the invariant each policy keeps and the effect of the call on the *)
(* resident keys.                                                          *)

(* What an access makes of the resident keys: its key is in, at most one   *)
(* other is out, and only if the cache was full.                           *)
AccessEffect(o, before, after, full, k) ==
  /\ after = (before \ o.evicted) \cup {k}
  /\ o.hit = (k \in before)
  /\ \/ o.evicted = {}
     \/ k \notin before /\ full /\ \E v \in before : o.evicted = {v}

-----------------------------------------------------------------------------
(* ARC. *)

ArcShape(a, c, K) ==
  a \in [p : 0..c, t1 : Recency(K), t2 : Recency(K), b1 : Recency(K), b2 : Recency(K)]

(* The four lists share no key. *)
ArcApart(a) ==
  /\ ToSet(a.t1) \cap ToSet(a.t2) = {}
  /\ ToSet(a.b1) \cap ToSet(a.b2) = {}
  /\ ArcResident(a) \cap (ToSet(a.b1) \cup ToSet(a.b2)) = {}

ArcDirectory(a) == ArcLen(a) + Len(a.b1) + Len(a.b2)

ArcInv(a, c, K) ==
  /\ ArcShape(a, c, K)
  /\ ArcApart(a)
  /\ ArcLen(a) <= c + 1
  /\ ArcDirectory(a) <= 2 * c

(* The lengths ARC compares, list by list. *)
LEMMA ArcSizes ==
  \A a : /\ ArcLen(a) = Size(a.t1) + Size(a.t2)
         /\ ArcDirectory(a) = Size(a.t1) + Size(a.t2) + Size(a.b1) + Size(a.b2)
BY DEF ArcLen, ArcDirectory, Size

(* A new ARC is in order and empty. *)
LEMMA ArcNewInv ==
  ASSUME NEW K, NEW c \in Nat \ {0}
  PROVE  ArcInv(ArcNew, c, K) /\ ArcResident(ArcNew) = {} /\ ArcKnown(ArcNew) = {}
<1>1. ArcInv(ArcNew, c, K) /\ ArcResident(ArcNew) = {}
  BY RecencyNew DEF Size, ArcInv, ArcShape, ArcApart, ArcLen, ArcDirectory, ArcResident, ArcNew
<1>2. ArcKnown(ArcNew) = {}
  BY <1>1, RecencyNew DEF ArcKnown, ArcNew
<1> QED BY <1>1, <1>2

(* A remove takes its key, resident or ghost, and nothing else. *)
LEMMA ArcRemoveInv ==
  ASSUME NEW K, NEW c \in Nat \ {0}, NEW a, ArcInv(a, c, K), NEW k
  PROVE  /\ ArcInv(ArcRemove(a, k), c, K)
         /\ ArcResident(ArcRemove(a, k)) = ArcResident(a) \ {k}
         /\ ArcKnown(ArcRemove(a, k)) = ArcKnown(a) \ {k}
<1> DEFINE r == ArcRemove(a, k)
<1>1. /\ a.p \in 0..c /\ a.t1 \in Recency(K) /\ a.t2 \in Recency(K)
      /\ a.b1 \in Recency(K) /\ a.b2 \in Recency(K)
  BY DEF ArcInv, ArcShape
<1>2. /\ r \in [p : {a.p}, t1 : {RemoveFirst(a.t1, k)},
                t2 : {IF k \in ToSet(a.t1) THEN a.t2 ELSE RemoveFirst(a.t2, k)},
                b1 : {RemoveFirst(a.b1, k)}, b2 : {RemoveFirst(a.b2, k)}]
  BY DEF ArcRemove, ArcInv, ArcShape
<1> HIDE DEF r
<1>3. ToSet(a.t1) \cap ToSet(a.t2) = {}
  BY DEF ArcInv, ArcApart
<1>4. /\ r.t1 \in Recency(K) /\ ToSet(r.t1) = ToSet(a.t1) \ {k} /\ Size(r.t1) <= Size(a.t1)
      /\ r.t2 \in Recency(K) /\ ToSet(r.t2) = ToSet(a.t2) \ {k} /\ Size(r.t2) <= Size(a.t2)
      /\ r.b1 \in Recency(K) /\ ToSet(r.b1) = ToSet(a.b1) \ {k} /\ Size(r.b1) <= Size(a.b1)
      /\ r.b2 \in Recency(K) /\ ToSet(r.b2) = ToSet(a.b2) \ {k} /\ Size(r.b2) <= Size(a.b2)
  <2>1. \A s \in Recency(K) : /\ RemoveFirst(s, k) \in Recency(K)
                              /\ ToSet(RemoveFirst(s, k)) = ToSet(s) \ {k}
                              /\ Size(RemoveFirst(s, k)) <= Size(s) /\ Size(s) <= Size(s)
    BY RecencyRemove, RecencyEmpty
  <2> QED BY <1>1, <1>2, <1>3, <2>1
<1>5. ArcShape(r, c, K)
  BY <1>1, <1>2, <1>4 DEF ArcShape
<1>6. ArcApart(r) /\ ArcResident(r) = ArcResident(a) \ {k}
  BY <1>4 DEF ArcInv, ArcApart, ArcResident
<1>7. ArcLen(r) <= c + 1 /\ ArcDirectory(r) <= 2 * c
  <2>1. /\ Size(a.t1) \in Nat /\ Size(a.t2) \in Nat
        /\ Size(a.b1) \in Nat /\ Size(a.b2) \in Nat
        /\ Size(r.t1) \in Nat /\ Size(r.t2) \in Nat
        /\ Size(r.b1) \in Nat /\ Size(r.b2) \in Nat
    BY <1>1, <1>4, RecencyEmpty
  <2> QED BY <1>4, <2>1, ArcSizes DEF ArcInv
<1>8. ArcKnown(r) = ArcKnown(a) \ {k}
  BY <1>4, <1>6 DEF ArcKnown
<1> QED BY <1>5, <1>6, <1>7, <1>8 DEF r, ArcInv

(* A hit moves its key to the back of t2 and changes nothing else. *)
LEMMA ArcHitInv ==
  ASSUME NEW K, NEW c \in Nat \ {0}, NEW a, ArcInv(a, c, K), NEW k \in ArcResident(a)
  PROVE  /\ ArcInv(ArcHit(a, k), c, K)
         /\ ArcResident(ArcHit(a, k)) = ArcResident(a)
         /\ ArcKnown(ArcHit(a, k)) = ArcKnown(a)
<1> DEFINE r == ArcHit(a, k)
           u == IF k \in ToSet(a.t1) THEN a.t2 ELSE RemoveFirst(a.t2, k)
<1>1. /\ a.p \in 0..c /\ a.t1 \in Recency(K) /\ a.t2 \in Recency(K)
      /\ a.b1 \in Recency(K) /\ a.b2 \in Recency(K)
  BY DEF ArcInv, ArcShape
<1>2. /\ r \in [p : {a.p}, t1 : {RemoveFirst(a.t1, k)}, t2 : {Append(u, k)},
                b1 : {a.b1}, b2 : {a.b2}]
  BY DEF ArcHit, ArcInv, ArcShape
<1>3. ToSet(a.t1) \cap ToSet(a.t2) = {}
  BY DEF ArcInv, ArcApart
<1>4. k \in K /\ (k \in ToSet(a.t1) \/ k \in ToSet(a.t2))
  BY <1>1, RecencyEmpty DEF ArcResident
<1>5. /\ u \in Recency(K) /\ ToSet(u) = ToSet(a.t2) \ {k}
      /\ Size(u) = IF k \in ToSet(a.t1) THEN Size(a.t2) ELSE Size(a.t2) - 1
  <2>1. CASE k \in ToSet(a.t1)
    BY <1>1, <1>3, <2>1
  <2>2. CASE k \notin ToSet(a.t1)
    BY <1>1, <1>4, <2>2, RecencyRemove
  <2> QED BY <2>1, <2>2
<1> HIDE DEF r, u
<1>6. /\ r.t2 \in Recency(K) /\ ToSet(r.t2) = ToSet(a.t2) \cup {k}
      /\ Size(r.t2) = Size(u) + 1
  <2>1. /\ Append(u, k) \in Recency(K) /\ ToSet(Append(u, k)) = ToSet(u) \cup {k}
        /\ Size(Append(u, k)) = Size(u) + 1
    BY <1>4, <1>5, RecencyAppend
  <2>2. r.t2 = Append(u, k)
    BY <1>2
  <2> QED BY <1>5, <2>1, <2>2
<1>7. /\ r.t1 \in Recency(K) /\ ToSet(r.t1) = ToSet(a.t1) \ {k}
      /\ Size(r.t1) = IF k \in ToSet(a.t1) THEN Size(a.t1) - 1 ELSE Size(a.t1)
  BY <1>1, <1>2, RecencyRemove
<1>8. ArcShape(r, c, K)
  BY <1>1, <1>2, <1>6, <1>7 DEF ArcShape
<1>9. ArcResident(r) = ArcResident(a) /\ ArcApart(r)
  BY <1>2, <1>4, <1>6, <1>7 DEF ArcInv, ArcApart, ArcResident
<1>10. ArcLen(r) = ArcLen(a) /\ ArcDirectory(r) = ArcDirectory(a)
  <2>1. /\ Size(a.t1) \in Nat /\ Size(a.t2) \in Nat
        /\ Size(a.b1) \in Nat /\ Size(a.b2) \in Nat
    BY <1>1, RecencyEmpty
  <2>2. Size(r.b1) = Size(a.b1) /\ Size(r.b2) = Size(a.b2)
    BY <1>2
  <2>3. Size(r.t1) + Size(r.t2) = Size(a.t1) + Size(a.t2)
    BY <1>5, <1>6, <1>7, <2>1
  <2> QED BY <2>2, <2>3, ArcSizes
<1>11. ArcKnown(r) = ArcKnown(a)
  BY <1>2, <1>9 DEF ArcKnown
<1> QED BY <1>8, <1>9, <1>10, <1>11 DEF r, ArcInv

(* The target stays within the capacity. *)
LEMMA ArcTargetRange ==
  ASSUME NEW K, NEW c \in Nat \ {0}, NEW a, ArcShape(a, c, K), NEW k
  PROVE  ArcTarget(a, c, k) \in 0..c
<1>1. a.p \in 0..c /\ a.b1 \in Recency(K) /\ a.b2 \in Recency(K)
  BY DEF ArcShape
<1>2. Len(a.b1) \in Nat /\ Len(a.b2) \in Nat
  BY <1>1, RecencyEmpty DEF Size
<1>3. \A x, y \in Nat : AtLeastOne(x \div AtLeastOne(y)) \in Nat
  <2>1. \A y \in Nat : AtLeastOne(y) \in Nat \ {0}
    BY DEF AtLeastOne
  <2>2. \A x \in Nat, z \in Nat \ {0} : x \div z \in Nat
    OBVIOUS
  <2> QED BY <2>1, <2>2
<1>4. \A d \in Nat : AtMost(a.p + d, c) \in 0..c /\ Minus(a.p, d) \in 0..c
  BY <1>1 DEF AtMost, Minus
<1> QED BY <1>1, <1>2, <1>3, <1>4 DEF ArcTarget

(* replace moves the oldest key of t1 or t2 to its ghost list; it finds    *)
(* nothing to evict only when t2 is empty and t1 is within the target.     *)
LEMMA ArcReplaceInv ==
  ASSUME NEW K, NEW c \in Nat \ {0}, NEW a, ArcShape(a, c, K), ArcApart(a), NEW inB2
  PROVE  LET r == ArcReplace(a, inB2)
         IN /\ ArcShape(r, c, K) /\ ArcApart(r)
            /\ ArcDirectory(r) = ArcDirectory(a)
            /\ ToSet(a.b1) \subseteq ToSet(r.b1) /\ ToSet(a.b2) \subseteq ToSet(r.b2)
            /\ ArcKnown(r) = ArcKnown(a)
            /\ \/ r = a /\ ArcLen(a) <= c
               \/ \E v \in ArcResident(a) :
                    /\ ArcResident(r) = ArcResident(a) \ {v}
                    /\ ToSet(r.b1) \cup ToSet(r.b2) = ToSet(a.b1) \cup ToSet(a.b2) \cup {v}
                    /\ ArcLen(r) = ArcLen(a) - 1
<1> DEFINE r == ArcReplace(a, inB2)
           fromT1 == Len(a.t1) > 0 /\ (Len(a.t1) > a.p \/ (inB2 /\ Len(a.t1) = a.p))
<1>1. /\ a.p \in 0..c /\ a.t1 \in Recency(K) /\ a.t2 \in Recency(K)
      /\ a.b1 \in Recency(K) /\ a.b2 \in Recency(K)
  BY DEF ArcShape
<1>2. /\ Size(a.t1) \in Nat /\ Size(a.t2) \in Nat
      /\ Size(a.b1) \in Nat /\ Size(a.b2) \in Nat
  BY <1>1, RecencyEmpty
<1>3. CASE fromT1
  <2> DEFINE v == Head(a.t1)
  <2>1. a.t1 # <<>>
    BY <1>1, <1>2, <1>3, RecencyEmpty DEF Size
  <2>2. r \in [p : {a.p}, t1 : {Tail(a.t1)}, t2 : {a.t2},
               b1 : {Append(a.b1, v)}, b2 : {a.b2}]
    BY <1>3 DEF ArcReplace, ArcShape
  <2> HIDE DEF r
  <2>3. /\ v \in ToSet(a.t1) /\ v \in K /\ Tail(a.t1) \in Recency(K)
        /\ ToSet(Tail(a.t1)) = ToSet(a.t1) \ {v}
        /\ Size(Tail(a.t1)) = Size(a.t1) - 1
    BY <1>1, <2>1, RecencyPop
  <2>4. v \notin ToSet(a.t2) /\ v \notin ToSet(a.b1) /\ v \notin ToSet(a.b2)
    BY <2>3 DEF ArcApart, ArcResident
  <2>5. /\ Append(a.b1, v) \in Recency(K)
        /\ ToSet(Append(a.b1, v)) = ToSet(a.b1) \cup {v}
        /\ Size(Append(a.b1, v)) = Size(a.b1) + 1
    BY <1>1, <2>3, <2>4, RecencyAppend
  <2> HIDE DEF v
  <2>6. ArcShape(r, c, K)
    BY <1>1, <2>2, <2>3, <2>5 DEF ArcShape
  <2>7. /\ ToSet(r.t1) = ToSet(a.t1) \ {v} /\ ToSet(r.t2) = ToSet(a.t2)
        /\ ToSet(r.b1) = ToSet(a.b1) \cup {v} /\ ToSet(r.b2) = ToSet(a.b2)
    BY <2>2, <2>3, <2>5
  <2>8. ArcApart(r) /\ ArcResident(r) = ArcResident(a) \ {v} /\ v \in ArcResident(a)
    BY <2>3, <2>4, <2>7 DEF ArcApart, ArcResident
  <2>9. /\ Size(r.t1) = Size(a.t1) - 1 /\ Size(r.t2) = Size(a.t2)
        /\ Size(r.b1) = Size(a.b1) + 1 /\ Size(r.b2) = Size(a.b2)
    BY <2>2, <2>3, <2>5
  <2>10. ArcDirectory(r) = ArcDirectory(a) /\ ArcLen(r) = ArcLen(a) - 1
    BY <1>2, <2>9, ArcSizes
  <2>11. ArcKnown(r) = ArcKnown(a)
    BY <2>7, <2>8 DEF ArcKnown
  <2> QED BY <2>6, <2>7, <2>8, <2>10, <2>11 DEF r
<1>4. CASE ~fromT1 /\ a.t2 # <<>>
  <2> DEFINE v == Head(a.t2)
  <2>2. r \in [p : {a.p}, t1 : {a.t1}, t2 : {Tail(a.t2)},
               b1 : {a.b1}, b2 : {Append(a.b2, v)}]
    BY <1>4 DEF ArcReplace, ArcShape
  <2> HIDE DEF r
  <2>3. /\ v \in ToSet(a.t2) /\ v \in K /\ Tail(a.t2) \in Recency(K)
        /\ ToSet(Tail(a.t2)) = ToSet(a.t2) \ {v}
        /\ Size(Tail(a.t2)) = Size(a.t2) - 1
    BY <1>1, <1>4, RecencyPop
  <2>4. v \notin ToSet(a.t1) /\ v \notin ToSet(a.b1) /\ v \notin ToSet(a.b2)
    BY <2>3 DEF ArcApart, ArcResident
  <2>5. /\ Append(a.b2, v) \in Recency(K)
        /\ ToSet(Append(a.b2, v)) = ToSet(a.b2) \cup {v}
        /\ Size(Append(a.b2, v)) = Size(a.b2) + 1
    BY <1>1, <2>3, <2>4, RecencyAppend
  <2> HIDE DEF v
  <2>6. ArcShape(r, c, K)
    BY <1>1, <2>2, <2>3, <2>5 DEF ArcShape
  <2>7. /\ ToSet(r.t1) = ToSet(a.t1) /\ ToSet(r.t2) = ToSet(a.t2) \ {v}
        /\ ToSet(r.b1) = ToSet(a.b1) /\ ToSet(r.b2) = ToSet(a.b2) \cup {v}
    BY <2>2, <2>3, <2>5
  <2>8. ArcApart(r) /\ ArcResident(r) = ArcResident(a) \ {v} /\ v \in ArcResident(a)
    BY <2>3, <2>4, <2>7 DEF ArcApart, ArcResident
  <2>9. /\ Size(r.t1) = Size(a.t1) /\ Size(r.t2) = Size(a.t2) - 1
        /\ Size(r.b1) = Size(a.b1) /\ Size(r.b2) = Size(a.b2) + 1
    BY <2>2, <2>3, <2>5
  <2>10. ArcDirectory(r) = ArcDirectory(a) /\ ArcLen(r) = ArcLen(a) - 1
    BY <1>2, <2>9, ArcSizes
  <2>11. ArcKnown(r) = ArcKnown(a)
    BY <2>7, <2>8 DEF ArcKnown
  <2> QED BY <2>6, <2>7, <2>8, <2>10, <2>11 DEF r
<1>5. CASE ~fromT1 /\ a.t2 = <<>>
  <2>1. r = a
    BY <1>5 DEF ArcReplace
  <2>2. Size(a.t2) = 0 /\ Size(a.t1) <= a.p
    BY <1>1, <1>2, <1>5, RecencyEmpty DEF Size
  <2>3. ArcLen(a) <= c
    BY <1>1, <1>2, <2>2, ArcSizes
  <2> HIDE DEF r
  <2> QED BY <2>1, <2>3 DEF r
<1> QED BY <1>3, <1>4, <1>5

(* The admitted key leaves its ghost list, if any, and enters t1 or t2. *)
LEMMA ArcAdmitInv ==
  ASSUME NEW K, NEW c \in Nat \ {0}, NEW a, ArcShape(a, c, K), ArcApart(a),
         NEW k \in K, k \notin ArcResident(a)
  PROVE  LET r == ArcAdmit(a, k)
         IN /\ ArcShape(r, c, K) /\ ArcApart(r)
            /\ ArcResident(r) = ArcResident(a) \cup {k}
            /\ ArcKnown(r) = ArcKnown(a) \cup {k}
            /\ ArcLen(r) = ArcLen(a) + 1
            /\ \/ ArcDirectory(r) = ArcDirectory(a)
               \/ Size(r.t1) >= 1
<1> DEFINE r == ArcAdmit(a, k)
<1>1. /\ a.p \in 0..c /\ a.t1 \in Recency(K) /\ a.t2 \in Recency(K)
      /\ a.b1 \in Recency(K) /\ a.b2 \in Recency(K)
      /\ k \notin ToSet(a.t1) /\ k \notin ToSet(a.t2)
  BY DEF ArcShape, ArcResident
<1>2. /\ Size(a.t1) \in Nat /\ Size(a.t2) \in Nat
      /\ Size(a.b1) \in Nat /\ Size(a.b2) \in Nat
  BY <1>1, RecencyEmpty
<1>3. \A s \in Recency(K) : k \notin ToSet(s) =>
        /\ Append(s, k) \in Recency(K)
        /\ ToSet(Append(s, k)) = ToSet(s) \cup {k}
        /\ Size(Append(s, k)) = Size(s) + 1
  BY RecencyAppend
<1>4. \A s \in Recency(K) : k \in ToSet(s) =>
        /\ RemoveFirst(s, k) \in Recency(K)
        /\ ToSet(RemoveFirst(s, k)) = ToSet(s) \ {k}
        /\ Size(RemoveFirst(s, k)) = Size(s) - 1
  BY RecencyRemove
<1>5. CASE k \in ToSet(a.b1)
  <2>1. r \in [p : {a.p}, t1 : {a.t1}, t2 : {Append(a.t2, k)},
               b1 : {RemoveFirst(a.b1, k)}, b2 : {a.b2}]
    BY <1>5 DEF ArcAdmit, ArcShape
  <2> HIDE DEF r
  <2>2. ArcShape(r, c, K)
    BY <1>1, <1>3, <1>4, <1>5, <2>1 DEF ArcShape
  <2>3. /\ ToSet(r.t1) = ToSet(a.t1) /\ ToSet(r.t2) = ToSet(a.t2) \cup {k}
        /\ ToSet(r.b1) = ToSet(a.b1) \ {k} /\ ToSet(r.b2) = ToSet(a.b2)
    BY <1>1, <1>3, <1>4, <1>5, <2>1
  <2>4. ArcApart(r) /\ ArcResident(r) = ArcResident(a) \cup {k}
    BY <1>1, <1>5, <2>3 DEF ArcApart, ArcResident
  <2>5. /\ Size(r.t1) = Size(a.t1) /\ Size(r.t2) = Size(a.t2) + 1
        /\ Size(r.b1) = Size(a.b1) - 1 /\ Size(r.b2) = Size(a.b2)
    BY <1>1, <1>3, <1>4, <1>5, <2>1
  <2>6. ArcLen(r) = ArcLen(a) + 1 /\ ArcDirectory(r) = ArcDirectory(a)
    BY <1>2, <2>5, ArcSizes
  <2>7. ArcKnown(r) = ArcKnown(a) \cup {k}
    BY <2>3, <2>4 DEF ArcKnown
  <2> QED BY <2>2, <2>4, <2>6, <2>7 DEF r
<1>6. CASE k \notin ToSet(a.b1) /\ k \in ToSet(a.b2)
  <2>1. r \in [p : {a.p}, t1 : {a.t1}, t2 : {Append(a.t2, k)},
               b1 : {a.b1}, b2 : {RemoveFirst(a.b2, k)}]
    BY <1>6 DEF ArcAdmit, ArcShape
  <2> HIDE DEF r
  <2>2. ArcShape(r, c, K)
    BY <1>1, <1>3, <1>4, <1>6, <2>1 DEF ArcShape
  <2>3. /\ ToSet(r.t1) = ToSet(a.t1) /\ ToSet(r.t2) = ToSet(a.t2) \cup {k}
        /\ ToSet(r.b1) = ToSet(a.b1) /\ ToSet(r.b2) = ToSet(a.b2) \ {k}
    BY <1>1, <1>3, <1>4, <1>6, <2>1
  <2>4. ArcApart(r) /\ ArcResident(r) = ArcResident(a) \cup {k}
    BY <1>1, <1>6, <2>3 DEF ArcApart, ArcResident
  <2>5. /\ Size(r.t1) = Size(a.t1) /\ Size(r.t2) = Size(a.t2) + 1
        /\ Size(r.b1) = Size(a.b1) /\ Size(r.b2) = Size(a.b2) - 1
    BY <1>1, <1>3, <1>4, <1>6, <2>1
  <2>6. ArcLen(r) = ArcLen(a) + 1 /\ ArcDirectory(r) = ArcDirectory(a)
    BY <1>2, <2>5, ArcSizes
  <2>7. ArcKnown(r) = ArcKnown(a) \cup {k}
    BY <2>3, <2>4 DEF ArcKnown
  <2> QED BY <2>2, <2>4, <2>6, <2>7 DEF r
<1>7. CASE k \notin ToSet(a.b1) /\ k \notin ToSet(a.b2)
  <2>1. r \in [p : {a.p}, t1 : {Append(a.t1, k)}, t2 : {a.t2},
               b1 : {a.b1}, b2 : {a.b2}]
    BY <1>7 DEF ArcAdmit, ArcShape
  <2> HIDE DEF r
  <2>2. ArcShape(r, c, K)
    BY <1>1, <1>3, <2>1 DEF ArcShape
  <2>3. /\ ToSet(r.t1) = ToSet(a.t1) \cup {k} /\ ToSet(r.t2) = ToSet(a.t2)
        /\ ToSet(r.b1) = ToSet(a.b1) /\ ToSet(r.b2) = ToSet(a.b2)
    BY <1>1, <1>3, <2>1
  <2>4. ArcApart(r) /\ ArcResident(r) = ArcResident(a) \cup {k}
    BY <1>1, <1>7, <2>3 DEF ArcApart, ArcResident
  <2>5. Size(r.t1) = Size(a.t1) + 1 /\ Size(r.t2) = Size(a.t2)
    BY <1>1, <1>3, <2>1
  <2>6. ArcLen(r) = ArcLen(a) + 1 /\ Size(r.t1) >= 1
    BY <1>2, <2>5, ArcSizes
  <2>7. ArcKnown(r) = ArcKnown(a) \cup {k}
    BY <2>3, <2>4 DEF ArcKnown
  <2> QED BY <2>2, <2>4, <2>6, <2>7 DEF r
<1> QED BY <1>5, <1>6, <1>7

(* The trimming loops: what is left of the ghost lists fits the directory  *)
(* in twice the capacity, because a key admitted to t1 leaves t2 within    *)
(* the capacity.                                                           *)
LEMMA ArcTrimInv ==
  ASSUME NEW K, NEW c \in Nat \ {0}, NEW a, ArcShape(a, c, K), ArcApart(a),
         ArcLen(a) <= c + 1, ArcDirectory(a) <= 2 * c \/ Size(a.t1) >= 1
  PROVE  LET r == ArcTrimB2(ArcTrimB1(a, c), c)
         IN /\ ArcInv(r, c, K) /\ ArcResident(r) = ArcResident(a)
            /\ ArcKnown(r) \subseteq ArcKnown(a)
<1> DEFINE m == ArcTrimB1(a, c)
           r == ArcTrimB2(m, c)
           n1 == AtMost(Minus(Len(a.t1) + Len(a.b1), c), Len(a.b1))
           n2 == AtMost(Minus(ArcLen(m) + Len(m.b1) + Len(m.b2), 2 * c), Len(m.b2))
<1>1. /\ a.p \in 0..c /\ a.t1 \in Recency(K) /\ a.t2 \in Recency(K)
      /\ a.b1 \in Recency(K) /\ a.b2 \in Recency(K)
  BY DEF ArcShape
<1>2. /\ Size(a.t1) \in Nat /\ Size(a.t2) \in Nat
      /\ Size(a.b1) \in Nat /\ Size(a.b2) \in Nat
  BY <1>1, RecencyEmpty
<1>3. \A s \in Recency(K) : \A n \in 0..Size(s) :
        /\ DropFront(s, n) \in Recency(K)
        /\ ToSet(DropFront(s, n)) \subseteq ToSet(s)
        /\ Size(DropFront(s, n)) = Size(s) - n
  BY RecencyDrop
<1>4. m \in [p : {a.p}, t1 : {a.t1}, t2 : {a.t2}, b1 : {DropFront(a.b1, n1)}, b2 : {a.b2}]
  BY DEF ArcTrimB1, ArcShape
<1>5. /\ n1 \in 0..Size(a.b1)
      /\ Size(a.t1) + (Size(a.b1) - n1) <= c \/ n1 = Size(a.b1)
  <2>1. n1 = AtMost(Minus(Size(a.t1) + Size(a.b1), c), Size(a.b1))
    BY DEF Size
  <2> HIDE DEF n1
  <2> QED BY <1>2, <2>1 DEF AtMost, Minus
<1> HIDE DEF n1, m
<1>6. /\ m.b1 \in Recency(K) /\ ToSet(m.b1) \subseteq ToSet(a.b1)
      /\ Size(m.b1) = Size(a.b1) - n1
  BY <1>1, <1>3, <1>4, <1>5
<1>7. /\ m.t1 = a.t1 /\ m.t2 = a.t2 /\ m.b2 = a.b2
  BY <1>4
<1>8. r \in [p : {a.p}, t1 : {a.t1}, t2 : {a.t2}, b1 : {m.b1}, b2 : {DropFront(a.b2, n2)}]
  BY <1>4, <1>7 DEF ArcTrimB2
<1>9. Size(m.b1) \in Nat
  BY <1>2, <1>5, <1>6
<1>10. LET total == Size(a.t1) + Size(a.t2) + Size(m.b1) + Size(a.b2)
       IN /\ n2 \in 0..Size(a.b2)
          /\ total - n2 <= 2 * c \/ n2 = Size(a.b2)
  <2> DEFINE total == Size(a.t1) + Size(a.t2) + Size(m.b1) + Size(a.b2)
  <2>1. n2 = AtMost(Minus(total, 2 * c), Size(a.b2))
    BY <1>7 DEF ArcLen, Size
  <2>2. total \in Nat /\ 2 * c \in Nat
    BY <1>2, <1>9
  <2> HIDE DEF total, n2
  <2>3. n2 \in 0..Size(a.b2) /\ (total - n2 <= 2 * c \/ n2 = Size(a.b2))
    BY <1>2, <2>1, <2>2 DEF AtMost, Minus
  <2> QED BY <2>3 DEF total
<1> HIDE DEF n2, r
<1>11. /\ r.b2 \in Recency(K) /\ ToSet(r.b2) \subseteq ToSet(a.b2)
       /\ Size(r.b2) = Size(a.b2) - n2
  BY <1>1, <1>3, <1>8, <1>10
<1>12. r.p = a.p /\ r.t1 = a.t1 /\ r.t2 = a.t2 /\ r.b1 = m.b1
  BY <1>8
<1>13. ArcShape(r, c, K)
  BY <1>1, <1>6, <1>8, <1>11 DEF ArcShape
<1>14. ArcApart(r) /\ ArcResident(r) = ArcResident(a)
  BY <1>6, <1>11, <1>12 DEF ArcApart, ArcResident
<1>15. ArcLen(r) <= c + 1
  BY <1>12, ArcSizes
<1>16. ArcDirectory(r) <= 2 * c
  <2>1. ArcDirectory(r) = Size(a.t1) + Size(a.t2) + Size(m.b1) + (Size(a.b2) - n2)
    BY <1>11, <1>12, ArcSizes
  <2>2. Size(a.t1) + Size(a.t2) <= c + 1
    BY ArcSizes
  <2>3. CASE n2 # Size(a.b2)
    BY <1>2, <1>9, <1>10, <2>1, <2>3
  <2>4. CASE n2 = Size(a.b2)
    <3>1. ArcDirectory(r) = Size(a.t1) + Size(a.t2) + Size(m.b1)
      BY <1>2, <1>9, <2>1, <2>4
    <3>2. CASE ArcDirectory(a) <= 2 * c
      <4>1. Size(a.t1) + Size(a.t2) + Size(a.b1) + Size(a.b2) <= 2 * c
        BY <3>2, ArcSizes
      <4> QED BY <1>2, <1>5, <1>6, <3>1, <4>1
    <3>3. CASE Size(a.t1) >= 1
      BY <1>2, <1>5, <1>6, <2>2, <3>1, <3>3
    <3> QED BY <3>2, <3>3
  <2> QED BY <2>3, <2>4
<1>17. ArcKnown(r) \subseteq ArcKnown(a)
  BY <1>6, <1>11, <1>12, <1>14 DEF ArcKnown
<1> QED BY <1>13, <1>14, <1>15, <1>16, <1>17 DEF r, m, ArcInv

(* A miss: the key enters, and at most one other key leaves, from a cache  *)
(* that was full.                                                          *)
LEMMA ArcMissInv ==
  ASSUME NEW K, NEW c \in Nat \ {0}, NEW a, ArcInv(a, c, K),
         NEW k \in K, k \notin ArcResident(a)
  PROVE  LET o == ArcMiss(a, c, k)
         IN /\ ArcInv(o.st, c, K)
            /\ AccessEffect(o, ArcResident(a), ArcResident(o.st), ArcLen(a) >= c, k)
            /\ ArcKnown(o.st) \subseteq ArcKnown(a) \cup {k}
<1> DEFINE o == ArcMiss(a, c, k)
           aimed == [a EXCEPT !.p = ArcTarget(a, c, k)]
           spared == IF ArcLen(a) >= c THEN ArcReplace(aimed, k \in ToSet(a.b2))
                                       ELSE aimed
           grown == ArcAdmit(spared, k)
<1>1. ArcShape(a, c, K) /\ ArcApart(a) /\ ArcLen(a) <= c + 1 /\ ArcDirectory(a) <= 2 * c
  BY DEF ArcInv
<1>2. ArcShape(aimed, c, K) /\ ArcApart(aimed)
      /\ ArcResident(aimed) = ArcResident(a)
      /\ ArcLen(aimed) = ArcLen(a) /\ ArcDirectory(aimed) = ArcDirectory(a)
      /\ ArcKnown(aimed) = ArcKnown(a)
  <2>1. ArcTarget(a, c, k) \in 0..c
    BY <1>1, ArcTargetRange
  <2>2. aimed \in [p : {ArcTarget(a, c, k)}, t1 : {a.t1}, t2 : {a.t2},
                   b1 : {a.b1}, b2 : {a.b2}]
    BY <1>1 DEF ArcShape
  <2> HIDE DEF aimed
  <2>3. ArcShape(aimed, c, K)
    BY <1>1, <2>1, <2>2 DEF ArcShape
  <2>4. aimed.t1 = a.t1 /\ aimed.t2 = a.t2 /\ aimed.b1 = a.b1 /\ aimed.b2 = a.b2
    BY <2>2
  <2> QED BY <1>1, <2>3, <2>4 DEF ArcApart, ArcResident, ArcKnown, ArcLen, ArcDirectory
<1> HIDE DEF aimed
<1>3. ArcLen(a) \in Nat /\ ArcDirectory(a) \in Nat
  <2>1. /\ a.t1 \in Recency(K) /\ a.t2 \in Recency(K)
        /\ a.b1 \in Recency(K) /\ a.b2 \in Recency(K)
    BY <1>1 DEF ArcShape
  <2>2. /\ Size(a.t1) \in Nat /\ Size(a.t2) \in Nat
        /\ Size(a.b1) \in Nat /\ Size(a.b2) \in Nat
    BY <2>1, RecencyEmpty
  <2> QED BY <2>2, ArcSizes
<1>4. /\ ArcShape(spared, c, K) /\ ArcApart(spared)
      /\ ArcDirectory(spared) = ArcDirectory(a) /\ ArcKnown(spared) = ArcKnown(a)
      /\ \/ ArcResident(spared) = ArcResident(a) /\ ArcLen(spared) <= c
         \/ /\ ArcLen(a) >= c
            /\ ArcLen(spared) <= c
            /\ \E v \in ArcResident(a) : ArcResident(spared) = ArcResident(a) \ {v}
  <2>1. CASE ArcLen(a) >= c
    <3>1. spared = ArcReplace(aimed, k \in ToSet(a.b2))
      BY <2>1
    <3> HIDE DEF spared
    <3>2. /\ ArcShape(spared, c, K) /\ ArcApart(spared)
          /\ ArcDirectory(spared) = ArcDirectory(aimed)
          /\ ArcKnown(spared) = ArcKnown(aimed)
          /\ \/ spared = aimed /\ ArcLen(aimed) <= c
             \/ \E v \in ArcResident(aimed) :
                  /\ ArcResident(spared) = ArcResident(aimed) \ {v}
                  /\ ArcLen(spared) = ArcLen(aimed) - 1
      BY <1>2, <3>1, ArcReplaceInv
    <3>3. CASE spared = aimed /\ ArcLen(aimed) <= c
      BY <1>2, <3>2, <3>3
    <3>4. CASE \E v \in ArcResident(aimed) :
                 /\ ArcResident(spared) = ArcResident(aimed) \ {v}
                 /\ ArcLen(spared) = ArcLen(aimed) - 1
      <4>1. ArcLen(spared) <= c
        BY <1>1, <1>2, <1>3, <3>4
      <4> QED BY <1>2, <2>1, <3>2, <3>4, <4>1
    <3> QED BY <3>2, <3>3, <3>4
  <2>2. CASE ~(ArcLen(a) >= c)
    BY <1>2, <1>3, <2>2
  <2> QED BY <2>1, <2>2
<1>5. k \notin ArcResident(spared) /\ ArcResident(spared) \subseteq ArcResident(a)
  BY <1>4
<1> HIDE DEF spared
<1>6. /\ ArcShape(grown, c, K) /\ ArcApart(grown)
      /\ ArcResident(grown) = ArcResident(spared) \cup {k}
      /\ ArcKnown(grown) = ArcKnown(spared) \cup {k}
      /\ ArcLen(grown) = ArcLen(spared) + 1
      /\ ArcDirectory(grown) = ArcDirectory(spared) \/ Size(grown.t1) >= 1
  BY <1>4, <1>5, ArcAdmitInv
<1>7. ArcLen(grown) <= c + 1
  <2>1. spared.t1 \in Recency(K) /\ spared.t2 \in Recency(K)
    BY <1>4 DEF ArcShape
  <2>2. ArcLen(spared) \in Nat
    BY <2>1, RecencyEmpty, ArcSizes
  <2> QED BY <1>4, <1>6, <2>2
<1> HIDE DEF grown
<1>8. LET r == ArcTrimB2(ArcTrimB1(grown, c), c)
      IN /\ ArcInv(r, c, K) /\ ArcResident(r) = ArcResident(grown)
         /\ ArcKnown(r) \subseteq ArcKnown(grown)
  BY <1>1, <1>4, <1>6, <1>7, ArcTrimInv
<1>9. o = [st |-> ArcTrimB2(ArcTrimB1(grown, c), c), hit |-> FALSE,
           evicted |-> ArcResident(a) \ ArcResident(spared)]
  BY DEF ArcMiss, grown, spared, aimed
<1> HIDE DEF o
<1>10. /\ o.st = ArcTrimB2(ArcTrimB1(grown, c), c) /\ o.hit = FALSE
       /\ o.evicted = ArcResident(a) \ ArcResident(spared)
  BY <1>9
<1>11. ArcInv(o.st, c, K) /\ ArcResident(o.st) = (ArcResident(a) \ o.evicted) \cup {k}
  BY <1>5, <1>6, <1>8, <1>10
<1>12. o.evicted = {} \/ (ArcLen(a) >= c /\ \E v \in ArcResident(a) : o.evicted = {v})
  <2>1. CASE ArcResident(spared) = ArcResident(a)
    BY <1>10, <2>1
  <2>2. CASE ArcLen(a) >= c /\ \E v \in ArcResident(a) : ArcResident(spared) = ArcResident(a) \ {v}
    BY <1>10, <2>2
  <2> QED BY <1>4, <2>1, <2>2
<1>13. o.hit = (k \in ArcResident(a))
  <2>1. (k \in ArcResident(a)) = FALSE
    OBVIOUS
  <2> QED BY <1>10, <2>1
<1>14. ArcKnown(o.st) \subseteq ArcKnown(a) \cup {k}
  BY <1>4, <1>6, <1>8, <1>10
<1> QED BY <1>11, <1>12, <1>13, <1>14 DEF o, AccessEffect

(* An access of ARC. *)
LEMMA ArcAccessInv ==
  ASSUME NEW K, NEW c \in Nat \ {0}, NEW a, ArcInv(a, c, K), NEW k \in K
  PROVE  LET o == ArcAccess(a, c, k)
         IN /\ ArcInv(o.st, c, K)
            /\ AccessEffect(o, ArcResident(a), ArcResident(o.st), ArcLen(a) >= c, k)
            /\ ArcKnown(o.st) \subseteq ArcKnown(a) \cup {k}
<1> DEFINE o == ArcAccess(a, c, k)
<1>1. CASE k \in ArcResident(a)
  <2>1. o.st = ArcHit(a, k) /\ o.hit = TRUE /\ o.evicted = {}
    BY <1>1 DEF ArcAccess
  <2>2. /\ ArcInv(o.st, c, K) /\ ArcResident(o.st) = ArcResident(a)
        /\ ArcKnown(o.st) = ArcKnown(a)
    BY <1>1, <2>1, ArcHitInv
  <2> HIDE DEF o
  <2> QED BY <1>1, <2>1, <2>2 DEF o, AccessEffect
<1>2. CASE k \notin ArcResident(a)
  <2>1. o = ArcMiss(a, c, k)
    BY <1>2 DEF ArcAccess
  <2> HIDE DEF o
  <2> QED BY <1>2, <2>1, ArcMissInv DEF o
<1> QED BY <1>1, <1>2

-----------------------------------------------------------------------------
(* LFU. *)

(* Every set of counts has a least one. *)
LEMMA LeastCount ==
  ASSUME NEW S \in SUBSET Nat, S # {}
  PROVE  Min(S) \in S /\ \A n \in S : Min(S) <= n
<1>1. PICK m \in S : \A n \in S : m <= n
  BY LeastNumber
<1> QED BY <1>1 DEF Min

(* The buckets are the counts of freq, turned round. *)
BucketsOf(buckets, freq, K) ==
  /\ buckets \in [DOMAIN buckets -> Recency(K)]
  /\ DOMAIN buckets = {freq[k] : k \in DOMAIN freq}
  /\ \A f \in DOMAIN buckets : ToSet(buckets[f]) = {k \in DOMAIN freq : freq[k] = f}

Counts(freq, K) ==
  /\ freq \in [DOMAIN freq -> Nat \ {0}]
  /\ DOMAIN freq \subseteq K
  /\ IsFiniteSet(DOMAIN freq)

LfuShape(l) == l = [freq |-> l.freq, buckets |-> l.buckets, min |-> l.min]

(* The invariant of LFU but for its length. *)
LfuInv(l, K) ==
  /\ LfuShape(l)
  /\ Counts(l.freq, K)
  /\ BucketsOf(l.buckets, l.freq, K)
  /\ l.min \in Nat
  /\ \A f \in DOMAIN l.buckets : l.min <= f

(* Detaching a key takes it, and a bucket it empties, out of the turned-round counts. *)
LEMMA DetachBuckets ==
  ASSUME NEW K, NEW freq, NEW buckets, Counts(freq, K), BucketsOf(buckets, freq, K),
         NEW k \in DOMAIN freq
  PROVE  BucketsOf(Detach(buckets, k, freq[k]), DropKey(freq, k), K)
<1> DEFINE f == freq[k]
           r == RemoveFirst(buckets[f], k)
           left == DropKey(freq, k)
           b == Detach(buckets, k, f)
<1>1. /\ f \in DOMAIN buckets /\ buckets[f] \in Recency(K)
      /\ ToSet(buckets[f]) = {x \in DOMAIN freq : freq[x] = f}
  BY DEF BucketsOf
<1>2. r \in Recency(K) /\ ToSet(r) = {x \in DOMAIN freq : freq[x] = f} \ {k}
  BY <1>1, RecencyRemove
<1>3. DOMAIN left = DOMAIN freq \ {k} /\ \A x \in DOMAIN left : left[x] = freq[x]
  BY DEF DropKey
<1>4. CASE r = <<>>
  <2>1. b = [x \in DOMAIN buckets \ {f} |-> buckets[x]]
    BY <1>1, <1>4 DEF Detach
  <2>2. \A x \in DOMAIN freq : freq[x] = f => x = k
    BY <1>2, <1>4, RecencyEmpty
  <2>3. DOMAIN b = {left[x] : x \in DOMAIN left}
    BY <1>3, <2>1, <2>2 DEF BucketsOf
  <2>4. \A g \in DOMAIN b : b[g] = buckets[g] /\ g # f /\ g \in DOMAIN buckets
    BY <2>1
  <2> HIDE DEF b, left, f
  <2>5. b \in [DOMAIN b -> Recency(K)]
    BY <2>1, <2>4 DEF BucketsOf
  <2>6. ASSUME NEW g \in DOMAIN b
        PROVE  ToSet(b[g]) = {x \in DOMAIN left : left[x] = g}
    <3>1. ToSet(b[g]) = {x \in DOMAIN freq : freq[x] = g}
      BY <2>4, <2>6 DEF BucketsOf
    <3> QED BY <1>3, <2>4, <2>6, <3>1 DEF f
  <2> QED BY <2>3, <2>5, <2>6 DEF BucketsOf, b, left, f
<1>5. CASE r # <<>>
  <2>1. b = [buckets EXCEPT ![f] = r]
    BY <1>1, <1>5 DEF Detach
  <2>2. PICK y \in DOMAIN freq : freq[y] = f /\ y # k
    BY <1>2, <1>5, RecencyEmpty
  <2>3. DOMAIN b = DOMAIN buckets /\ b[f] = r /\ \A g \in DOMAIN b : g # f => b[g] = buckets[g]
    BY <1>1, <2>1
  <2>4. {left[x] : x \in DOMAIN left} = DOMAIN buckets
    BY <1>3, <2>2 DEF BucketsOf
  <2> HIDE DEF b, left, f, r
  <2>5. b \in [DOMAIN b -> Recency(K)]
    BY <1>2, <2>1, <2>3 DEF BucketsOf
  <2>6. ASSUME NEW g \in DOMAIN b
        PROVE  ToSet(b[g]) = {x \in DOMAIN left : left[x] = g}
    <3>1. CASE g = f
      BY <1>2, <1>3, <2>3, <3>1
    <3>2. CASE g # f
      <4>1. ToSet(b[g]) = {x \in DOMAIN freq : freq[x] = g}
        BY <2>3, <2>6, <3>2 DEF BucketsOf
      <4> QED BY <1>3, <3>2, <4>1 DEF f
    <3> QED BY <3>1, <3>2
  <2> QED BY <2>3, <2>4, <2>5, <2>6 DEF BucketsOf, b, left, f
<1> QED BY <1>4, <1>5

(* Attaching a key puts it in the bucket of its count. *)
LEMMA AttachBuckets ==
  ASSUME NEW K, NEW freq, NEW buckets, BucketsOf(buckets, freq, K),
         NEW k \in K, k \notin DOMAIN freq, NEW f \in Nat
  PROVE  BucketsOf(Attach(buckets, k, f), SetFreq(freq, k, f), K)
<1> DEFINE new == SetFreq(freq, k, f)
           b == Attach(buckets, k, f)
           s == IF f \in DOMAIN buckets THEN buckets[f] ELSE <<>>
<1>1. s \in Recency(K) /\ ToSet(s) = {x \in DOMAIN freq : freq[x] = f}
  <2>1. CASE f \in DOMAIN buckets
    BY <2>1 DEF BucketsOf
  <2>2. CASE f \notin DOMAIN buckets
    BY <2>2, RecencyNew DEF BucketsOf
  <2> QED BY <2>1, <2>2
<1>2. /\ DOMAIN new = DOMAIN freq \cup {k}
      /\ \A x \in DOMAIN new : new[x] = IF x = k THEN f ELSE freq[x]
  BY DEF SetFreq
<1>3. Append(s, k) \in Recency(K) /\ ToSet(Append(s, k)) = ToSet(s) \cup {k}
  BY <1>1, RecencyAppend
<1>4. Append(<<>>, k) = <<k>>
  OBVIOUS
<1>5. /\ DOMAIN b = DOMAIN buckets \cup {f}
      /\ b[f] = Append(s, k) /\ \A g \in DOMAIN b : g # f => b[g] = buckets[g]
  BY <1>4 DEF Attach
<1> HIDE DEF b, new, s
<1>6. DOMAIN b = {new[x] : x \in DOMAIN new}
  BY <1>2, <1>5 DEF BucketsOf
<1>7. b \in [DOMAIN b -> Recency(K)]
  <2>1. \A g \in DOMAIN b : b[g] \in Recency(K)
    BY <1>3, <1>5 DEF BucketsOf
  <2>2. b = [g \in DOMAIN b |-> b[g]]
    BY DEF b, Attach
  <2> QED BY <2>1, <2>2
<1>8. ASSUME NEW g \in DOMAIN b
      PROVE  ToSet(b[g]) = {x \in DOMAIN new : new[x] = g}
  <2>1. CASE g = f
    BY <1>1, <1>2, <1>3, <1>5, <2>1
  <2>2. CASE g # f
    <3>1. ToSet(b[g]) = {x \in DOMAIN freq : freq[x] = g}
      BY <1>5, <1>8, <2>2 DEF BucketsOf
    <3> QED BY <1>2, <2>2, <3>1
  <2> QED BY <2>1, <2>2
<1> QED BY <1>6, <1>7, <1>8 DEF BucketsOf, b, new

(* A new LFU is in order and empty. *)
LEMMA LfuNewInv ==
  ASSUME NEW K
  PROVE  LfuInv(LfuNew, K) /\ DOMAIN LfuNew.freq = {}
<1>1. /\ LfuNew.freq = <<>> /\ LfuNew.buckets = <<>> /\ LfuNew.min = 0
      /\ LfuShape(LfuNew) /\ DOMAIN <<>> = {}
  BY DEF LfuNew, LfuShape
<1>2. Counts(LfuNew.freq, K)
  <2>1. <<>> \in [{} -> Nat \ {0}]
    OBVIOUS
  <2> QED BY <1>1, <2>1, FS_EmptySet DEF Counts
<1>3. BucketsOf(LfuNew.buckets, LfuNew.freq, K)
  <2>1. <<>> \in [{} -> Recency(K)]
    OBVIOUS
  <2> QED BY <1>1, <2>1 DEF BucketsOf
<1> QED BY <1>1, <1>2, <1>3 DEF LfuInv

(* A remove of LFU. *)
LEMMA LfuRemoveInv ==
  ASSUME NEW K, NEW l, LfuInv(l, K), NEW k
  PROVE  /\ LfuInv(LfuRemove(l, k), K)
         /\ DOMAIN LfuRemove(l, k).freq = DOMAIN l.freq \ {k}
<1> DEFINE r == LfuRemove(l, k)
<1>1. CASE k \notin DOMAIN l.freq
  BY <1>1 DEF LfuRemove
<1>2. CASE k \in DOMAIN l.freq
  <2>1. /\ r = [freq |-> DropKey(l.freq, k),
                buckets |-> Detach(l.buckets, k, l.freq[k]), min |-> l.min]
    BY <1>2 DEF LfuRemove
  <2> HIDE DEF r
  <2>2. /\ r.freq = DropKey(l.freq, k) /\ r.min = l.min
        /\ r.buckets = Detach(l.buckets, k, l.freq[k]) /\ LfuShape(r)
    BY <2>1 DEF LfuShape
  <2>3. BucketsOf(r.buckets, r.freq, K)
    BY <1>2, <2>2, DetachBuckets DEF LfuInv
  <2>4. DOMAIN r.freq = DOMAIN l.freq \ {k}
    BY <2>2 DEF DropKey
  <2>5. Counts(r.freq, K)
    <3>1. IsFiniteSet(DOMAIN r.freq)
      BY <2>4, FS_RemoveElement DEF LfuInv, Counts
    <3>2. r.freq \in [DOMAIN l.freq \ {k} -> Nat \ {0}]
      BY <2>2 DEF DropKey, LfuInv, Counts
    <3> QED BY <2>4, <3>1, <3>2 DEF LfuInv, Counts
  <2>6. DOMAIN r.buckets \subseteq DOMAIN l.buckets
    BY <2>2 DEF Detach
  <2> QED BY <2>2, <2>3, <2>4, <2>5, <2>6 DEF LfuInv, r
<1> QED BY <1>1, <1>2

(* A fresh key has been used once, and once is the least there is. *)
LEMMA LfuInsertInv ==
  ASSUME NEW K, NEW l, LfuInv(l, K), NEW k \in K, k \notin DOMAIN l.freq
  PROVE  /\ LfuInv(LfuInsert(l, k), K)
         /\ DOMAIN LfuInsert(l, k).freq = DOMAIN l.freq \cup {k}
<1> DEFINE r == LfuInsert(l, k)
<1>1. /\ r.freq = SetFreq(l.freq, k, 1) /\ r.min = 1
      /\ r.buckets = Attach(l.buckets, k, 1) /\ LfuShape(r)
  BY DEF LfuInsert, LfuShape
<1> HIDE DEF r
<1>2. BucketsOf(r.buckets, r.freq, K)
  BY <1>1, AttachBuckets DEF LfuInv
<1>3. /\ DOMAIN r.freq = DOMAIN l.freq \cup {k}
      /\ r.freq \in [DOMAIN r.freq -> Nat \ {0}]
  BY <1>1 DEF SetFreq, LfuInv, Counts
<1>4. Counts(r.freq, K)
  BY <1>3, FS_AddElement DEF LfuInv, Counts
<1>5. \A f \in DOMAIN r.buckets : r.min <= f
  BY <1>1, <1>2, <1>3 DEF BucketsOf
<1> QED BY <1>1, <1>2, <1>3, <1>4, <1>5 DEF LfuInv, r

(* A hit moves its key one bucket up; the hint follows when the bucket it  *)
(* pointed to is gone.                                                     *)
LEMMA LfuHitInv ==
  ASSUME NEW K, NEW l, LfuInv(l, K), NEW k \in DOMAIN l.freq
  PROVE  /\ LfuInv(LfuHit(l, k), K)
         /\ DOMAIN LfuHit(l, k).freq = DOMAIN l.freq
<1> DEFINE r == LfuHit(l, k)
           f == l.freq[k]
           left == Detach(l.buckets, k, f)
           b == Attach(left, k, f + 1)
<1>1. /\ r.freq = SetFreq(l.freq, k, f + 1) /\ r.buckets = b
      /\ r.min = IF l.min = f /\ f \notin DOMAIN b THEN f + 1 ELSE l.min
      /\ LfuShape(r)
  BY DEF LfuHit, LfuShape
<1>2. /\ f \in Nat \ {0} /\ k \in K /\ l.min \in Nat
      /\ f \in DOMAIN l.buckets
  BY DEF LfuInv, Counts, BucketsOf
<1>3. BucketsOf(left, DropKey(l.freq, k), K)
  BY DetachBuckets DEF LfuInv
<1>4. DOMAIN DropKey(l.freq, k) = DOMAIN l.freq \ {k}
  BY DEF DropKey
<1>5. BucketsOf(b, SetFreq(DropKey(l.freq, k), k, f + 1), K)
  <2> HIDE DEF left, f
  <2> QED BY <1>2, <1>3, <1>4, AttachBuckets
<1>6. SetFreq(DropKey(l.freq, k), k, f + 1) = SetFreq(l.freq, k, f + 1)
  BY DEF SetFreq, DropKey
<1>7. DOMAIN b = DOMAIN left \cup {f + 1} /\ DOMAIN left \subseteq DOMAIN l.buckets
  BY DEF Attach, Detach
<1> HIDE DEF r, b, left
<1>8. BucketsOf(r.buckets, r.freq, K)
  BY <1>1, <1>5, <1>6
<1>9. DOMAIN r.freq = DOMAIN l.freq /\ r.freq \in [DOMAIN r.freq -> Nat \ {0}]
  BY <1>1, <1>2 DEF SetFreq, LfuInv, Counts
<1>10. Counts(r.freq, K)
  BY <1>9 DEF LfuInv, Counts
<1>11. r.min \in Nat /\ \A g \in DOMAIN r.buckets : r.min <= g
  <2>1. \A g \in DOMAIN l.buckets : g \in Nat /\ l.min <= g
    BY DEF LfuInv, BucketsOf, Counts
  <2> HIDE DEF f
  <2> QED BY <1>1, <1>2, <1>7, <2>1
<1> QED BY <1>1, <1>8, <1>9, <1>10, <1>11 DEF LfuInv, r

(* The climb of fix_min_freq ends at a bucket, whose oldest key is resident. *)
LEMMA LfuVictimResident ==
  ASSUME NEW K, NEW l, LfuInv(l, K), DOMAIN l.freq # {}
  PROVE  LfuVictim(l) \in DOMAIN l.freq
<1> DEFINE F == {f \in DOMAIN l.buckets : f >= l.min}
<1>1. F = DOMAIN l.buckets /\ F # {} /\ F \subseteq Nat
  <2>1. \A f \in DOMAIN l.buckets : f \in Nat /\ l.min \in Nat /\ l.min <= f
    BY DEF LfuInv, BucketsOf, Counts
  <2>2. DOMAIN l.buckets # {}
    BY DEF LfuInv, BucketsOf
  <2> QED BY <2>1, <2>2
<1>2. Min(F) \in DOMAIN l.buckets
  <2> HIDE DEF F
  <2> QED BY <1>1, LeastCount
<1>3. FixMinFreq(l) = Min(F)
  BY DEF FixMinFreq
<1> DEFINE s == l.buckets[FixMinFreq(l)]
<1>4. /\ s \in Recency(K)
      /\ ToSet(s) = {k \in DOMAIN l.freq : l.freq[k] = FixMinFreq(l)}
      /\ ToSet(s) # {}
  <2> HIDE DEF F
  <2> QED BY <1>2, <1>3 DEF LfuInv, BucketsOf
<1>5. Head(s) \in ToSet(s)
  <2> HIDE DEF s
  <2> QED BY <1>4, RecencyEmpty, RecencyPop
<1> QED BY <1>4, <1>5 DEF LfuVictim

(* An access of LFU. *)
LEMMA LfuAccessInv ==
  ASSUME NEW K, NEW c \in Nat \ {0}, NEW l, LfuInv(l, K),
         Cardinality(DOMAIN l.freq) <= c, NEW k \in K
  PROVE  LET o == LfuAccess(l, c, k)
         IN /\ LfuInv(o.st, K)
            /\ Cardinality(DOMAIN o.st.freq) <= c
            /\ AccessEffect(o, DOMAIN l.freq, DOMAIN o.st.freq,
                            Cardinality(DOMAIN l.freq) >= c, k)
<1> DEFINE o == LfuAccess(l, c, k)
           D == DOMAIN l.freq
<1>1. IsFiniteSet(D) /\ Cardinality(D) \in Nat
  BY FS_CardinalityType DEF LfuInv, Counts
<1>2. CASE k \in D
  <2>1. o.st = LfuHit(l, k) /\ o.hit = TRUE /\ o.evicted = {}
    BY <1>2 DEF LfuAccess
  <2> HIDE DEF o, AccessEffect
  <2>2. LfuInv(o.st, K) /\ DOMAIN o.st.freq = D
    BY <1>2, <2>1, LfuHitInv
  <2> QED BY <1>2, <2>1, <2>2 DEF o, AccessEffect
<1>3. CASE k \notin D /\ Cardinality(D) >= c
  <2> DEFINE v == LfuVictim(l)
             m == LfuRemove(l, v)
  <2>1. o.st = LfuInsert(m, k) /\ o.hit = FALSE /\ o.evicted = {v}
    BY <1>3 DEF LfuAccess
  <2> HIDE DEF o, AccessEffect
  <2>2. D # {}
    BY <1>3, FS_EmptySet
  <2>3. v \in D
    BY <2>2, LfuVictimResident
  <2> HIDE DEF v
  <2>4. LfuInv(m, K) /\ DOMAIN m.freq = D \ {v}
    BY LfuRemoveInv
  <2> HIDE DEF m
  <2>5. LfuInv(o.st, K) /\ DOMAIN o.st.freq = (D \ {v}) \cup {k}
    BY <1>3, <2>1, <2>4, LfuInsertInv
  <2>6. IsFiniteSet(D \ {v}) /\ Cardinality(D \ {v}) = Cardinality(D) - 1
    BY <1>1, <2>3, FS_RemoveElement
  <2>7. Cardinality((D \ {v}) \cup {k}) = Cardinality(D)
    <3>1. Cardinality((D \ {v}) \cup {k}) = Cardinality(D \ {v}) + 1
      BY <1>3, <2>6, FS_AddElement
    <3> QED BY <1>1, <2>6, <3>1
  <2>8. Cardinality(DOMAIN o.st.freq) <= c
    BY <2>5, <2>7
  <2>9. DOMAIN o.st.freq = (D \ o.evicted) \cup {k}
    BY <2>1, <2>5
  <2>10. o.hit = (k \in D)
    <3>1. (k \in D) = FALSE
      BY <1>3
    <3> QED BY <2>1, <3>1
  <2> QED BY <1>3, <2>1, <2>3, <2>5, <2>8, <2>9, <2>10 DEF o, AccessEffect
<1>4. CASE k \notin D /\ ~(Cardinality(D) >= c)
  <2>1. o.st = LfuInsert(l, k) /\ o.hit = FALSE /\ o.evicted = {}
    BY <1>4 DEF LfuAccess
  <2> HIDE DEF o, AccessEffect
  <2>2. LfuInv(o.st, K) /\ DOMAIN o.st.freq = D \cup {k}
    BY <1>4, <2>1, LfuInsertInv
  <2>3. Cardinality(D \cup {k}) = Cardinality(D) + 1
    BY <1>1, <1>4, FS_AddElement
  <2>4. Cardinality(DOMAIN o.st.freq) <= c
    BY <1>1, <1>4, <2>2, <2>3
  <2>5. DOMAIN o.st.freq = (D \ o.evicted) \cup {k}
    BY <2>1, <2>2
  <2>6. o.hit = (k \in D)
    <3>1. (k \in D) = FALSE
      BY <1>4
    <3> QED BY <2>1, <3>1
  <2> QED BY <2>1, <2>2, <2>4, <2>5, <2>6 DEF o, AccessEffect
<1> QED BY <1>2, <1>3, <1>4

-----------------------------------------------------------------------------
(* LRU. *)

LruInv(s, c, K) == s \in Recency(K) /\ Size(s) <= c

(* An access of LRU. *)
LEMMA LruAccessInv ==
  ASSUME NEW K, NEW c \in Nat \ {0}, NEW s, LruInv(s, c, K), NEW k \in K
  PROVE  LET o == LruAccess(s, c, k)
         IN /\ LruInv(o.st, c, K)
            /\ AccessEffect(o, ToSet(s), ToSet(o.st), Size(s) >= c, k)
<1> DEFINE o == LruAccess(s, c, k)
<1>1. s \in Recency(K) /\ Size(s) \in Nat /\ Size(s) <= c
  BY RecencyEmpty DEF LruInv
<1>2. CASE k \in ToSet(s)
  <2>1. o.st = Append(RemoveFirst(s, k), k) /\ o.hit = TRUE /\ o.evicted = {}
    BY <1>2 DEF LruAccess, MoveToBack
  <2> HIDE DEF o
  <2>2. /\ RemoveFirst(s, k) \in Recency(K)
        /\ ToSet(RemoveFirst(s, k)) = ToSet(s) \ {k}
        /\ Size(RemoveFirst(s, k)) = Size(s) - 1
    BY <1>1, <1>2, RecencyRemove
  <2>3. /\ o.st \in Recency(K) /\ ToSet(o.st) = (ToSet(s) \ {k}) \cup {k}
        /\ Size(o.st) = (Size(s) - 1) + 1
    BY <2>1, <2>2, RecencyAppend
  <2>4. Size(o.st) <= c
    BY <1>1, <2>3
  <2> QED BY <1>2, <2>1, <2>3, <2>4 DEF o, LruInv, AccessEffect
<1>3. CASE k \notin ToSet(s) /\ Size(s) >= c
  <2> DEFINE v == Head(s)
  <2>1. o.st = Append(Tail(s), k) /\ o.hit = FALSE /\ o.evicted = {v}
    BY <1>3 DEF LruAccess, Size
  <2> HIDE DEF o
  <2>2. s # <<>>
    BY <1>1, <1>3, RecencyEmpty
  <2>3. /\ v \in ToSet(s) /\ Tail(s) \in Recency(K)
        /\ ToSet(Tail(s)) = ToSet(s) \ {v} /\ Size(Tail(s)) = Size(s) - 1
    BY <1>1, <2>2, RecencyPop
  <2> HIDE DEF v
  <2>4. /\ o.st \in Recency(K) /\ ToSet(o.st) = (ToSet(s) \ {v}) \cup {k}
        /\ Size(o.st) = (Size(s) - 1) + 1
    BY <1>3, <2>1, <2>3, RecencyAppend
  <2>5. Size(o.st) <= c
    BY <1>1, <2>4
  <2>6. (k \in ToSet(s)) = FALSE
    BY <1>3
  <2>7. o.hit = (k \in ToSet(s))
    BY <2>1, <2>6
  <2> QED BY <1>3, <2>1, <2>3, <2>4, <2>5, <2>7 DEF o, LruInv, AccessEffect
<1>4. CASE k \notin ToSet(s) /\ ~(Size(s) >= c)
  <2>1. o.st = Append(s, k) /\ o.hit = FALSE /\ o.evicted = {}
    BY <1>4 DEF LruAccess, Size
  <2> HIDE DEF o
  <2>2. /\ o.st \in Recency(K) /\ ToSet(o.st) = ToSet(s) \cup {k}
        /\ Size(o.st) = Size(s) + 1
    BY <1>1, <1>4, <2>1, RecencyAppend
  <2>3. Size(o.st) <= c
    BY <1>1, <1>4, <2>2
  <2>4. (k \in ToSet(s)) = FALSE
    BY <1>4
  <2>5. o.hit = (k \in ToSet(s))
    BY <2>1, <2>4
  <2> QED BY <2>1, <2>2, <2>3, <2>5 DEF o, LruInv, AccessEffect
<1> QED BY <1>2, <1>3, <1>4

-----------------------------------------------------------------------------
(* Any policy. *)

PolicyInv(kind, st, c, K) ==
  /\ kind = "lru" => LruInv(st, c, K)
  /\ kind = "lfu" => LfuInv(st, K) /\ Cardinality(DOMAIN st.freq) <= c
  /\ kind = "arc" => ArcInv(st, c, K)

(* A new policy is in order and empty. *)
LEMMA PolicyNewInv ==
  ASSUME NEW K, NEW c \in Nat \ {0}, NEW kind \in PolicyKinds
  PROVE  /\ PolicyInv(kind, PolicyNew(kind), c, K)
         /\ PolicyResident(kind, PolicyNew(kind)) = {}
<1>1. CASE kind = "lru"
  BY <1>1, RecencyNew DEF PolicyInv, PolicyNew, PolicyResident, LruInv, LruNew, Size
<1>2. CASE kind = "lfu"
  <2>1. Cardinality(DOMAIN LfuNew.freq) <= c
    BY LfuNewInv, FS_EmptySet
  <2> QED BY <1>2, <2>1, LfuNewInv DEF PolicyInv, PolicyNew, PolicyResident
<1>3. CASE kind = "arc"
  BY <1>3, ArcNewInv DEF PolicyInv, PolicyNew, PolicyResident
<1> QED BY <1>1, <1>2, <1>3 DEF PolicyKinds

(* The resident keys are finitely many, and as many as len() counts. *)
LEMMA PolicyLenResident ==
  ASSUME NEW K, NEW c \in Nat \ {0}, NEW kind \in PolicyKinds, NEW st,
         PolicyInv(kind, st, c, K)
  PROVE  /\ PolicyResident(kind, st) \subseteq K
         /\ IsFiniteSet(PolicyResident(kind, st))
         /\ Cardinality(PolicyResident(kind, st)) = PolicyLen(kind, st)
<1>1. CASE kind = "lru"
  <2>1. st \in Recency(K)
    BY <1>1 DEF PolicyInv, LruInv
  <2>2. PolicyResident(kind, st) = ToSet(st) /\ PolicyLen(kind, st) = Size(st)
    BY <1>1 DEF PolicyResident, PolicyLen, Size
  <2> QED BY <2>1, <2>2, RecencyEmpty, RecencyCardinality
<1>2. CASE kind = "lfu"
  BY <1>2 DEF PolicyInv, PolicyResident, PolicyLen, LfuInv, Counts
<1>3. CASE kind = "arc"
  <2>1. st.t1 \in Recency(K) /\ st.t2 \in Recency(K) /\ ToSet(st.t1) \cap ToSet(st.t2) = {}
    BY <1>3 DEF PolicyInv, ArcInv, ArcShape, ArcApart
  <2>2. PolicyResident(kind, st) = ToSet(st.t1) \cup ToSet(st.t2)
    BY <1>3 DEF PolicyResident, ArcResident
  <2>3. PolicyLen(kind, st) = Size(st.t1) + Size(st.t2)
    BY <1>3, ArcSizes DEF PolicyLen
  <2>4. /\ IsFiniteSet(ToSet(st.t1)) /\ Cardinality(ToSet(st.t1)) = Size(st.t1)
        /\ IsFiniteSet(ToSet(st.t2)) /\ Cardinality(ToSet(st.t2)) = Size(st.t2)
    BY <2>1, RecencyCardinality
  <2>5. /\ IsFiniteSet(ToSet(st.t1) \cup ToSet(st.t2))
        /\ Cardinality(ToSet(st.t1) \cup ToSet(st.t2)) = Size(st.t1) + Size(st.t2) - 0
    BY <2>1, <2>4, FS_Union, FS_EmptySet
  <2>6. Size(st.t1) + Size(st.t2) - 0 = Size(st.t1) + Size(st.t2)
    BY <2>1, RecencyEmpty
  <2> QED BY <2>1, <2>2, <2>3, <2>5, <2>6, RecencyEmpty
<1> QED BY <1>1, <1>2, <1>3 DEF PolicyKinds

(* What every policy makes of an access. *)
LEMMA PolicyAccessEffect ==
  ASSUME NEW K, NEW c \in Nat \ {0}, NEW kind \in PolicyKinds, NEW st,
         PolicyInv(kind, st, c, K), NEW k \in K
  PROVE  LET o == PolicyAccess(kind, st, c, k)
         IN /\ PolicyInv(kind, o.st, c, K)
            /\ AccessEffect(o, PolicyResident(kind, st), PolicyResident(kind, o.st),
                            PolicyLen(kind, st) >= c, k)
<1> DEFINE o == PolicyAccess(kind, st, c, k)
<1>1. CASE kind = "lru"
  <2>1. LruInv(st, c, K) /\ PolicyLen(kind, st) = Size(st)
    BY <1>1 DEF PolicyInv, PolicyLen, Size
  <2>2. o = LruAccess(st, c, k)
    BY <1>1 DEF PolicyAccess
  <2> HIDE DEF o
  <2>3. LruInv(o.st, c, K) /\ AccessEffect(o, ToSet(st), ToSet(o.st), Size(st) >= c, k)
    BY <2>1, <2>2, LruAccessInv
  <2> QED BY <1>1, <2>1, <2>3 DEF o, PolicyInv, PolicyResident
<1>2. CASE kind = "lfu"
  <2> DEFINE D == DOMAIN st.freq
  <2>1. /\ LfuInv(st, K) /\ Cardinality(D) <= c
        /\ PolicyLen(kind, st) = Cardinality(D)
    BY <1>2 DEF PolicyInv, PolicyLen
  <2>2. o = LfuAccess(st, c, k)
    BY <1>2 DEF PolicyAccess
  <2> HIDE DEF o
  <2>3. /\ LfuInv(o.st, K) /\ Cardinality(DOMAIN o.st.freq) <= c
        /\ AccessEffect(o, D, DOMAIN o.st.freq, Cardinality(D) >= c, k)
    BY <2>1, <2>2, LfuAccessInv
  <2> QED BY <1>2, <2>1, <2>3 DEF o, PolicyInv, PolicyResident
<1>3. CASE kind = "arc"
  <2>1. ArcInv(st, c, K) /\ PolicyLen(kind, st) = ArcLen(st)
    BY <1>3 DEF PolicyInv, PolicyLen
  <2>2. o = ArcAccess(st, c, k)
    BY <1>3 DEF PolicyAccess
  <2> HIDE DEF o
  <2>3. /\ ArcInv(o.st, c, K)
        /\ AccessEffect(o, ArcResident(st), ArcResident(o.st), ArcLen(st) >= c, k)
    BY <2>1, <2>2, ArcAccessInv
  <2> QED BY <1>3, <2>1, <2>3 DEF o, PolicyInv, PolicyResident
<1> QED BY <1>1, <1>2, <1>3 DEF PolicyKinds

(* What every policy makes of a remove. *)
LEMMA PolicyRemoveEffect ==
  ASSUME NEW K, NEW c \in Nat \ {0}, NEW kind \in PolicyKinds, NEW st,
         PolicyInv(kind, st, c, K), NEW k
  PROVE  /\ PolicyInv(kind, PolicyRemove(kind, st, k), c, K)
         /\ PolicyResident(kind, PolicyRemove(kind, st, k)) = PolicyResident(kind, st) \ {k}
<1>1. CASE kind = "lru"
  <2>1. st \in Recency(K) /\ Size(st) <= c /\ Size(st) \in Nat
    BY <1>1, RecencyEmpty DEF PolicyInv, LruInv
  <2>2. /\ RemoveFirst(st, k) \in Recency(K)
        /\ ToSet(RemoveFirst(st, k)) = ToSet(st) \ {k}
        /\ Size(RemoveFirst(st, k)) <= Size(st)
    BY <2>1, RecencyRemove
  <2>3. Size(RemoveFirst(st, k)) <= c
    BY <2>1, <2>2, RecencyEmpty
  <2> QED BY <1>1, <2>2, <2>3 DEF PolicyInv, PolicyRemove, PolicyResident, LruInv, LruRemove
<1>2. CASE kind = "lfu"
  <2> DEFINE D == DOMAIN st.freq
  <2>1. LfuInv(st, K) /\ IsFiniteSet(D) /\ Cardinality(D) <= c
    BY <1>2 DEF PolicyInv, LfuInv, Counts
  <2>2. LfuInv(LfuRemove(st, k), K) /\ DOMAIN LfuRemove(st, k).freq = D \ {k}
    BY <2>1, LfuRemoveInv
  <2>3. Cardinality(D \ {k}) <= c
    <3>1. Cardinality(D \ {k}) = IF k \in D THEN Cardinality(D) - 1 ELSE Cardinality(D)
      BY <2>1, FS_RemoveElement
    <3>2. Cardinality(D) \in Nat
      BY <2>1, FS_CardinalityType
    <3> QED BY <2>1, <3>1, <3>2
  <2> QED BY <1>2, <2>2, <2>3 DEF PolicyInv, PolicyRemove, PolicyResident
<1>3. CASE kind = "arc"
  <2>1. ArcInv(st, c, K)
    BY <1>3 DEF PolicyInv
  <2>2. /\ ArcInv(ArcRemove(st, k), c, K)
        /\ ArcResident(ArcRemove(st, k)) = ArcResident(st) \ {k}
    BY <2>1, ArcRemoveInv
  <2> QED BY <1>3, <2>2 DEF PolicyInv, PolicyRemove, PolicyResident
<1> QED BY <1>1, <1>2, <1>3 DEF PolicyKinds

(* A new policy knows no key. *)
LEMMA PolicyNewKnown ==
  ASSUME NEW kind \in PolicyKinds
  PROVE  PolicyKnown(kind, PolicyNew(kind)) = {}
<1>1. PolicyResident(kind, PolicyNew(kind)) = {}
  <2>1. 1 \in Nat \ {0}
    OBVIOUS
  <2> QED BY <2>1, PolicyNewInv
<1>2. ArcKnown(ArcNew) = {}
  <2>1. 1 \in Nat \ {0}
    OBVIOUS
  <2> QED BY <2>1, ArcNewInv
<1> QED BY <1>1, <1>2 DEF PolicyKnown, PolicyNew

(* An access adds no key but its own to those a policy knows. *)
LEMMA PolicyAccessKnown ==
  ASSUME NEW K, NEW c \in Nat \ {0}, NEW kind \in PolicyKinds, NEW st,
         PolicyInv(kind, st, c, K), NEW k \in K
  PROVE  PolicyKnown(kind, PolicyAccess(kind, st, c, k).st)
           \subseteq PolicyKnown(kind, st) \cup {k}
<1> DEFINE o == PolicyAccess(kind, st, c, k)
<1>1. CASE kind = "arc"
  <2>1. ArcInv(st, c, K)
    BY <1>1 DEF PolicyInv
  <2>2. o = ArcAccess(st, c, k)
    BY <1>1 DEF PolicyAccess
  <2> HIDE DEF o
  <2>3. ArcKnown(o.st) \subseteq ArcKnown(st) \cup {k}
    BY <2>1, <2>2, ArcAccessInv
  <2> QED BY <1>1, <2>3 DEF o, PolicyKnown
<1>2. CASE kind # "arc"
  <2> HIDE DEF o
  <2>1. AccessEffect(o, PolicyResident(kind, st), PolicyResident(kind, o.st),
                     PolicyLen(kind, st) >= c, k)
    BY PolicyAccessEffect DEF o
  <2>2. PolicyResident(kind, o.st) \subseteq PolicyResident(kind, st) \cup {k}
    BY <2>1 DEF AccessEffect
  <2> QED BY <1>2, <2>2 DEF o, PolicyKnown
<1> QED BY <1>1, <1>2

(* A remove takes its key, resident or ghost, from those a policy knows. *)
LEMMA PolicyRemoveKnown ==
  ASSUME NEW K, NEW c \in Nat \ {0}, NEW kind \in PolicyKinds, NEW st,
         PolicyInv(kind, st, c, K), NEW k
  PROVE  PolicyKnown(kind, PolicyRemove(kind, st, k)) = PolicyKnown(kind, st) \ {k}
<1>1. CASE kind = "arc"
  <2>1. ArcInv(st, c, K)
    BY <1>1 DEF PolicyInv
  <2>2. ArcKnown(ArcRemove(st, k)) = ArcKnown(st) \ {k}
    BY <2>1, ArcRemoveInv
  <2> QED BY <1>1, <2>2 DEF PolicyKnown, PolicyRemove
<1>2. CASE kind # "arc"
  BY <1>2, PolicyRemoveEffect DEF PolicyKnown
<1> QED BY <1>1, <1>2
=============================================================================
