---------------------- MODULE ReplacementPolicyProofs ----------------------
(***************************************************************************)
(* The three policies keep their bookkeeping, their capacity (ARC its      *)
(* capacity and one) and the promises of the trait under every sequence of *)
(* accesses and removals, whatever the keys and the capacity.              *)
(***************************************************************************)
EXTENDS ReplacementPolicy, CollectionProofs

(* The inductive invariant: the policy in the box is in order.  For LFU it *)
(* ties the buckets to the counts and the hint to the buckets, or no       *)
(* victim need exist; for ARC it keeps the target within the capacity and  *)
(* the lists apart, or replace might find nothing to evict more than once. *)
IInv == kind \in PolicyKinds /\ PolicyInv(kind, st, c, Keys)

(* build asks for room for at least one key (policy/mod.rs 39-46). *)
LEMMA RoomForOne == c \in Nat \ {0}
BY CapacityAssumption DEF c, BuildCapacity, AtLeastOne

(* A new policy is in order. *)
LEMMA InitIInv == Init => IInv
BY RoomForOne, PolicyNewInv DEF Init, IInv

(* Every call leaves it in order. *)
LEMMA StepIInv == IInv /\ [Next]_vars => IInv'
<1> SUFFICES ASSUME IInv, [Next]_vars PROVE IInv'
  OBVIOUS
<1>1. ASSUME NEW k \in Keys, Access(k) PROVE IInv'
  BY <1>1, RoomForOne, PolicyAccessEffect DEF IInv, Access
<1>2. ASSUME NEW k \in Keys, RemoveKey(k) PROVE IInv'
  BY <1>2, RoomForOne, PolicyRemoveEffect DEF IInv, RemoveKey
<1>3. CASE UNCHANGED vars
  BY <1>3 DEF IInv, vars
<1> QED BY <1>1, <1>2, <1>3 DEF Next

(* The policy in the box is always in order. *)
THEOREM PolicyInOrder == Spec => []IInv
BY InitIInv, StepIInv, PTL DEF Spec

-----------------------------------------------------------------------------
(* The invariant bounds the occupancy, policy by policy. *)
LEMMA IInvOccupancy == IInv => OccupancyBounded
<1> SUFFICES ASSUME IInv PROVE OccupancyBounded
  OBVIOUS
<1>1. CASE kind = "lru"
  BY <1>1 DEF IInv, PolicyInv, LruInv, Size, OccupancyBounded, PolicyLen
<1>2. CASE kind = "lfu"
  BY <1>2 DEF IInv, PolicyInv, OccupancyBounded, PolicyLen
<1>3. CASE kind = "arc"
  BY <1>3 DEF IInv, PolicyInv, ArcInv, OccupancyBounded, PolicyLen
<1> QED BY <1>1, <1>2, <1>3 DEF IInv, PolicyKinds

(* LRU and LFU never hold more keys than build was asked for, and ARC      *)
(* never more than one key above (policy/lru.rs 21, lfu.rs 56, arc.rs 66). *)
THEOREM OccupancyIsBounded == Spec => []OccupancyBounded
BY PolicyInOrder, IInvOccupancy, PTL

(* The invariant bounds the directory. *)
LEMMA IInvDirectory == IInv => ArcDirectoryBounded
BY DEF IInv, PolicyInv, ArcInv, ArcDirectory, ArcDirectoryBounded

(* ARC's directory, ghosts included, never exceeds twice the capacity      *)
(* (arc.rs 82-89).                                                         *)
THEOREM ArcDirectoryIsBounded == Spec => []ArcDirectoryBounded
BY PolicyInOrder, IInvDirectory, PTL

(* The invariant keeps the lists apart. *)
LEMMA IInvDisjoint == IInv => ArcListsDisjoint
<1> SUFFICES ASSUME IInv, kind = "arc" PROVE ArcListsDisjoint
  BY DEF ArcListsDisjoint
<1>1. ArcShape(st, c, Keys) /\ ArcApart(st)
  BY DEF IInv, PolicyInv, ArcInv
<1>2. /\ IsInjective(st.t1) /\ IsInjective(st.t2)
      /\ IsInjective(st.b1) /\ IsInjective(st.b2)
  BY <1>1 DEF ArcShape, Recency
<1>3. \A f, g \in {"t1", "t2", "b1", "b2"} :
        f # g => ToSet(st[f]) \cap ToSet(st[g]) = {}
  BY <1>1 DEF ArcApart, ArcResident
<1> QED BY <1>2, <1>3 DEF ArcListsDisjoint

(* ARC's four lists never share or repeat a key (arc.rs 34-99). *)
THEOREM ArcListsAreDisjoint == Spec => []ArcListsDisjoint
BY PolicyInOrder, IInvDisjoint, PTL

(* The invariant ties LFU's buckets to its counts and its hint to them. *)
LEMMA IInvBuckets == IInv => LfuBucketsMatch /\ LfuMinReachesBucket
<1> SUFFICES ASSUME IInv, kind = "lfu" PROVE LfuBucketsMatch /\ LfuMinReachesBucket
  BY DEF LfuBucketsMatch, LfuMinReachesBucket
<1>1. LfuInv(st, Keys)
  BY DEF IInv, PolicyInv
<1>2. \A f \in DOMAIN st.buckets : IsInjective(st.buckets[f])
  BY <1>1 DEF LfuInv, BucketsOf, Recency
<1> QED BY <1>1, <1>2 DEF LfuInv, BucketsOf, LfuBucketsMatch, LfuMinReachesBucket

(* LFU's buckets are its counts turned round: each holds, once, the        *)
(* resident keys of its count, and none is empty (lfu.rs 23-72).           *)
THEOREM LfuBucketsAlwaysMatch == Spec => []LfuBucketsMatch
BY PolicyInOrder, IInvBuckets, PTL

(* The climb of fix_min_freq always ends: no bucket is below the hint      *)
(* (lfu.rs 32-39).                                                         *)
THEOREM LfuHintReachesABucket == Spec => []LfuMinReachesBucket
BY PolicyInOrder, IInvBuckets, PTL

(* The invariant gives the types. *)
LEMMA IInvType == IInv => TypeOK
<1> SUFFICES ASSUME IInv PROVE TypeOK
  OBVIOUS
<1>1. kind = "lru" => st \in Seq(Keys)
  BY DEF IInv, PolicyInv, LruInv, Recency
<1>2. ASSUME kind = "lfu"
      PROVE  /\ DOMAIN st = {"freq", "buckets", "min"}
             /\ DOMAIN st.freq \subseteq Keys
             /\ \A k \in DOMAIN st.freq : st.freq[k] \in Nat \ {0}
             /\ \A f \in DOMAIN st.buckets : st.buckets[f] \in Seq(Keys)
             /\ st.min \in Nat
  <2>1. LfuInv(st, Keys)
    BY <1>2 DEF IInv, PolicyInv
  <2>2. DOMAIN st = {"freq", "buckets", "min"}
    <3>1. st = [freq |-> st.freq, buckets |-> st.buckets, min |-> st.min]
      BY <2>1 DEF LfuInv, LfuShape
    <3> QED BY <3>1
  <2> QED BY <2>1, <2>2 DEF LfuInv, Counts, BucketsOf, Recency
<1>3. ASSUME kind = "arc"
      PROVE  st \in [p : 0..c, t1 : Seq(Keys), t2 : Seq(Keys), b1 : Seq(Keys), b2 : Seq(Keys)]
  <2>1. ArcShape(st, c, Keys)
    BY <1>3 DEF IInv, PolicyInv, ArcInv
  <2> QED BY <2>1 DEF ArcShape, Recency
<1> QED BY <1>1, <1>2, <1>3 DEF IInv, TypeOK

(* Every policy keeps the type of its bookkeeping. *)
THEOREM TypesAreKept == Spec => []TypeOK
BY PolicyInOrder, IInvType, PTL

-----------------------------------------------------------------------------
(* Trait has a copy of Cardinality of its own. *)
LEMMA CardinalityOfTrait == \A S : Trait!Cardinality(S) = Cardinality(S)
BY DEF Trait!Cardinality, Cardinality

(* A new policy is a new resident set. *)
LEMMA InitTrait == Init => Trait!Init
BY RoomForOne, PolicyNewInv DEF Init, Trait!Init, resident

(* Every call is a call of the trait on the resident set. *)
LEMMA StepTrait == IInv /\ [Next]_vars => [Trait!Next]_(Trait!vars)
<1> SUFFICES ASSUME IInv, [Next]_vars PROVE [Trait!Next]_(Trait!vars)
  OBVIOUS
<1>1. ASSUME NEW k \in Keys, Access(k) PROVE Trait!Access(k)
  <2> DEFINE o == PolicyAccess(kind, st, c, k)
  <2>1. /\ st' = o.st /\ kind' = kind
        /\ out' = [op |-> "access", key |-> k, hit |-> o.hit, evicted |-> o.evicted]
    BY <1>1 DEF Access
  <2>2. /\ kind \in PolicyKinds /\ c \in Nat \ {0}
        /\ PolicyInv(kind, st, c, Keys)
    BY RoomForOne DEF IInv
  <2>3. AccessEffect(o, resident, PolicyResident(kind, o.st), PolicyLen(kind, st) >= c, k)
    BY <2>2, PolicyAccessEffect DEF resident
  <2>4. resident' = PolicyResident(kind, o.st)
    BY <2>1 DEF resident
  <2>5. IsFiniteSet(resident) /\ Cardinality(resident) = PolicyLen(kind, st)
    BY <2>2, PolicyLenResident DEF resident
  <2> HIDE DEF o
  <2>6. o.evicted \in Trait!Victims(k)
    <3>1. CASE o.evicted = {}
      BY <3>1 DEF Trait!Victims
    <3>2. CASE o.evicted # {}
      <4>1. /\ k \notin resident /\ PolicyLen(kind, st) >= c
            /\ \E v \in resident : o.evicted = {v}
        BY <2>3, <3>2 DEF AccessEffect
      <4>2. Cardinality(resident) \in Nat
        BY <2>5, FS_CardinalityType
      <4>3. ~(k \in resident \/ Trait!Cardinality(resident) < c)
        BY <2>2, <2>5, <4>1, <4>2, CardinalityOfTrait
      <4> QED BY <4>1, <4>3 DEF Trait!Victims
    <3> QED BY <3>1, <3>2
  <2>7. resident' = (resident \ o.evicted) \cup {k}
    BY <2>3, <2>4 DEF AccessEffect
  <2>8. o.hit = (k \in resident)
    BY <2>3 DEF AccessEffect
  <2>9. out' = [op |-> "access", key |-> k, hit |-> k \in resident, evicted |-> o.evicted]
    BY <2>1, <2>8
  <2> QED BY <2>6, <2>7, <2>9 DEF Trait!Access
<1>2. ASSUME NEW k \in Keys, RemoveKey(k) PROVE Trait!Remove(k)
  <2>1. resident' = resident \ {k}
    <3>1. resident' = PolicyResident(kind, PolicyRemove(kind, st, k))
      BY <1>2 DEF RemoveKey, resident
    <3> QED BY <3>1, RoomForOne, PolicyRemoveEffect DEF IInv, resident
  <2>2. out' = [op |-> "remove", key |-> k, removed |-> k \in resident]
    BY <1>2 DEF RemoveKey
  <2> QED BY <2>1, <2>2 DEF Trait!Remove
<1>3. CASE UNCHANGED vars
  BY <1>3 DEF vars, Trait!vars, resident
<1> QED BY <1>1, <1>2, <1>3 DEF Next, Trait!Next

(* Whatever the policy, a box keeps the promises of the trait: accessed    *)
(* keys become resident, hits are told truly, and at most one other key is *)
(* evicted, from a full cache only (policy/mod.rs 10-29).                  *)
THEOREM PoliciesKeepTheTrait == Spec => ImplementsResidentSet
<1>1. Init => Trait!Init
  BY InitTrait
<1>2. IInv /\ [Next]_vars => [Trait!Next]_(Trait!vars)
  BY StepTrait
<1> QED BY <1>1, <1>2, PolicyInOrder, PTL DEF Spec, Trait!Spec, ImplementsResidentSet

-----------------------------------------------------------------------------
(* The victims.  The lists of a policy that its victims are taken from.    *)
Aged(box, s, h) ==
  /\ box = "lru" => InOrderOf(s, h)
  /\ box = "lfu" => \A f \in DOMAIN s.buckets : InOrderOf(s.buckets[f], h)
  /\ box = "arc" => InOrderOf(s.t1, h) /\ InOrderOf(s.t2, h)

(* The history runs along with the policy: it lists the resident keys, in  *)
(* its order are all lists that victims come from, and LFU counts as it    *)
(* does.                                                                   *)
HInv ==
  /\ IInv
  /\ recent \in Recency(Keys) /\ ToSet(recent) = resident
  /\ Aged(kind, st, recent)
  /\ kind = "lfu" => uses = [x \in Keys |-> IF x \in DOMAIN st.freq THEN st.freq[x] ELSE 0]

(* What an access of k that evicts the keys of E makes of the order h, and *)
(* what a remove makes of it.                                              *)
Ages(h, g, E, k) ==
  \A r \in Recency(Keys) :
    InOrderOf(r, h) /\ k \notin ToSet(r) /\ ToSet(r) \cap E = {} =>
      InOrderOf(r, g) /\ InOrderOf(Append(r, k), g)
Forgets(h, g, k) ==
  \A r \in Recency(Keys) : InOrderOf(r, h) /\ k \notin ToSet(r) => InOrderOf(r, g)

(* The history after an access. *)
LEMMA HistoryAges ==
  ASSUME NEW h \in Recency(Keys), NEW k \in Keys, NEW E, k \notin E,
         E = {} \/ \E v : E = {v}
  PROVE  LET stay == IF E = {} THEN h ELSE RemoveFirst(h, CHOOSE v \in E : TRUE)
             g == MoveToBack(stay, k)
         IN /\ g \in Recency(Keys) /\ ToSet(g) = (ToSet(h) \ E) \cup {k}
            /\ Ages(h, g, E, k)
<1> DEFINE stay == IF E = {} THEN h ELSE RemoveFirst(h, CHOOSE v \in E : TRUE)
           base == RemoveFirst(stay, k)
           g == Append(base, k)
<1>1. /\ stay \in Recency(Keys) /\ ToSet(stay) = ToSet(h) \ E
      /\ \A r \in Recency(Keys) :
           InOrderOf(r, h) /\ ToSet(r) \cap E = {} => InOrderOf(r, stay)
  <2>1. CASE E = {}
    BY <2>1
  <2>2. CASE E # {}
    <3>1. PICK v : E = {v}
      BY <2>2
    <3>2. stay = RemoveFirst(h, v)
      BY <3>1
    <3>3. RemoveFirst(h, v) \in Recency(Keys) /\ ToSet(RemoveFirst(h, v)) = ToSet(h) \ {v}
      BY RecencyRemove
    <3>4. ASSUME NEW r \in Recency(Keys), InOrderOf(r, h), ToSet(r) \cap E = {}
          PROVE  InOrderOf(r, RemoveFirst(h, v))
      <4>1. r \in Seq(Keys) /\ v \notin ToSet(r)
        BY <3>1, <3>4 DEF Recency
      <4> QED BY <3>4, <4>1, OrderAfterRemove
    <3> QED BY <3>1, <3>2, <3>3, <3>4
  <2> QED BY <2>1, <2>2
<1> HIDE DEF stay
<1>2. base \in Recency(Keys) /\ ToSet(base) = ToSet(stay) \ {k}
  BY <1>1, RecencyRemove
<1>3. g \in Recency(Keys) /\ ToSet(g) = ToSet(base) \cup {k}
  BY <1>2, RecencyAppend
<1>4. Ages(h, g, E, k)
  <2> SUFFICES ASSUME NEW r \in Recency(Keys),
                      InOrderOf(r, h), k \notin ToSet(r), ToSet(r) \cap E = {}
               PROVE  InOrderOf(r, g) /\ InOrderOf(Append(r, k), g)
    BY DEF Ages
  <2>1. r \in Seq(Keys) /\ base \in Seq(Keys)
    BY <1>2 DEF Recency
  <2>2. InOrderOf(r, stay)
    BY <1>1
  <2>3. InOrderOf(r, base)
    BY <1>1, <2>1, <2>2, OrderAfterRemove
  <2> QED BY <2>1, <2>3, OrderAppend
<1>5. g = MoveToBack(stay, k)
  BY DEF MoveToBack
<1>6. ToSet(g) = (ToSet(h) \ E) \cup {k}
  BY <1>1, <1>2, <1>3
<1> HIDE DEF g
<1> QED BY <1>3, <1>4, <1>5, <1>6 DEF stay

(* The history after a remove. *)
LEMMA HistoryForgets ==
  ASSUME NEW h \in Recency(Keys), NEW k
  PROVE  Forgets(h, RemoveFirst(h, k), k)
<1> SUFFICES ASSUME NEW r \in Recency(Keys), InOrderOf(r, h), k \notin ToSet(r)
             PROVE  InOrderOf(r, RemoveFirst(h, k))
  BY DEF Forgets
<1>1. r \in Seq(Keys)
  BY DEF Recency
<1> QED BY <1>1, OrderAfterRemove

(* The parts of a list that the policies go on with: without a key, and    *)
(* without the first.                                                      *)
LEMMA PartsInOrder ==
  ASSUME NEW h, NEW s \in Recency(Keys), InOrderOf(s, h), NEW k
  PROVE  /\ InOrderOf(RemoveFirst(s, k), h)
         /\ RemoveFirst(s, k) \in Recency(Keys)
         /\ ToSet(RemoveFirst(s, k)) = ToSet(s) \ {k}
         /\ s # <<>> => /\ InOrderOf(Tail(s), h)
                        /\ Tail(s) \in Recency(Keys)
                        /\ ToSet(Tail(s)) = ToSet(s) \ {Head(s)}
<1>1. InOrderOf(RemoveFirst(s, k), s)
  BY RemoveKeepsOrder
<1>2. s # <<>> => InOrderOf(Tail(s), s)
  BY TailKeepsOrder DEF Recency
<1>3. InOrderOf(RemoveFirst(s, k), h) /\ (s # <<>> => InOrderOf(Tail(s), h))
  BY <1>1, <1>2, OrderOfLists
<1> QED BY <1>3, RecencyRemove, RecencyPop

(* The list of LRU stays in order. *)
LEMMA LruAges ==
  ASSUME NEW s, LruInv(s, c, Keys), NEW h, InOrderOf(s, h), NEW k \in Keys,
         NEW o, o = LruAccess(s, c, k), NEW g, Ages(h, g, o.evicted, k)
  PROVE  InOrderOf(o.st, g)
<1>1. s \in Recency(Keys) /\ Size(s) \in Nat
  BY RecencyEmpty DEF LruInv
<1>2. CASE k \in ToSet(s)
  <2>1. o.st = Append(RemoveFirst(s, k), k) /\ o.evicted = {}
    BY <1>2 DEF LruAccess, MoveToBack
  <2>2. /\ RemoveFirst(s, k) \in Recency(Keys) /\ InOrderOf(RemoveFirst(s, k), h)
        /\ k \notin ToSet(RemoveFirst(s, k))
    BY <1>1, PartsInOrder
  <2> QED BY <2>1, <2>2 DEF Ages
<1>3. CASE k \notin ToSet(s) /\ Size(s) >= c
  <2>1. o.st = Append(Tail(s), k) /\ o.evicted = {Head(s)}
    BY <1>3 DEF LruAccess, Size
  <2>2. s # <<>>
    BY <1>1, <1>3, RoomForOne, RecencyEmpty
  <2>3. /\ Tail(s) \in Recency(Keys) /\ InOrderOf(Tail(s), h)
        /\ ToSet(Tail(s)) = ToSet(s) \ {Head(s)}
    BY <1>1, <2>2, PartsInOrder
  <2>4. k \notin ToSet(Tail(s)) /\ ToSet(Tail(s)) \cap o.evicted = {}
    BY <1>3, <2>1, <2>3
  <2> QED BY <2>1, <2>3, <2>4 DEF Ages
<1>4. CASE k \notin ToSet(s) /\ ~(Size(s) >= c)
  <2>1. o.st = Append(s, k) /\ o.evicted = {}
    BY <1>4 DEF LruAccess, Size
  <2> QED BY <1>1, <1>4, <2>1 DEF Ages
<1> QED BY <1>2, <1>3, <1>4

(* What ARC's replace does to the lists of resident keys. *)
LEMMA ReplaceFront ==
  ASSUME NEW a, ArcShape(a, c, Keys), NEW inB2
  PROVE  LET r == ArcReplace(a, inB2)
         IN \/ r.t1 = a.t1 /\ r.t2 = a.t2
            \/ a.t1 # <<>> /\ r.t1 = Tail(a.t1) /\ r.t2 = a.t2
            \/ a.t2 # <<>> /\ r.t1 = a.t1 /\ r.t2 = Tail(a.t2)
<1> DEFINE r == ArcReplace(a, inB2)
           fromT1 == Len(a.t1) > 0 /\ (Len(a.t1) > a.p \/ (inB2 /\ Len(a.t1) = a.p))
<1>1. CASE fromT1
  <2>1. a.t1 # <<>>
    BY <1>1
  <2>2. r.t1 = Tail(a.t1) /\ r.t2 = a.t2
    BY <1>1 DEF ArcReplace, ArcShape
  <2> QED BY <2>1, <2>2
<1>2. CASE ~fromT1 /\ a.t2 # <<>>
  <2>1. r.t1 = a.t1 /\ r.t2 = Tail(a.t2)
    BY <1>2 DEF ArcReplace, ArcShape
  <2> QED BY <1>2, <2>1
<1>3. CASE ~fromT1 /\ a.t2 = <<>>
  BY <1>3 DEF ArcReplace
<1> QED BY <1>1, <1>2, <1>3

(* ARC's t1 and t2 when the victim, if there is one, has left the head of  *)
(* either.                                                                 *)
Shortened(u1, u2, a, E) ==
  \/ u1 = a.t1 /\ u2 = a.t2 /\ E = {}
  \/ a.t1 # <<>> /\ u1 = Tail(a.t1) /\ u2 = a.t2 /\ E = {Head(a.t1)}
  \/ a.t2 # <<>> /\ u1 = a.t1 /\ u2 = Tail(a.t2) /\ E = {Head(a.t2)}

(* What ARC's miss does to them: the first of one may go, the key comes    *)
(* last in one.                                                            *)
LEMMA MissLists ==
  ASSUME NEW a, ArcInv(a, c, Keys), NEW k \in Keys,
         NEW o, o = ArcMiss(a, c, k)
  PROVE  \E u1, u2 : /\ Shortened(u1, u2, a, o.evicted)
                     /\ o.st.t1 \in {u1, Append(u1, k)} /\ o.st.t2 \in {u2, Append(u2, k)}
<1> DEFINE aimed == [a EXCEPT !.p = ArcTarget(a, c, k)]
           spared == IF ArcLen(a) >= c THEN ArcReplace(aimed, k \in ToSet(a.b2))
                                       ELSE aimed
           grown == ArcAdmit(spared, k)
<1>1. ArcShape(a, c, Keys) /\ ToSet(a.t1) \cap ToSet(a.t2) = {}
      /\ a.t1 \in Recency(Keys) /\ a.t2 \in Recency(Keys)
  BY DEF ArcInv, ArcApart, ArcShape
<1>2. ArcShape(aimed, c, Keys) /\ aimed.t1 = a.t1 /\ aimed.t2 = a.t2
  <2>1. ArcTarget(a, c, k) \in 0..c
    BY <1>1, RoomForOne, ArcTargetRange
  <2> QED BY <1>1, <2>1 DEF ArcShape
<1> HIDE DEF aimed
<1>3. /\ DOMAIN spared = {"p", "t1", "t2", "b1", "b2"}
      /\ \/ spared.t1 = a.t1 /\ spared.t2 = a.t2
         \/ a.t1 # <<>> /\ spared.t1 = Tail(a.t1) /\ spared.t2 = a.t2
         \/ a.t2 # <<>> /\ spared.t1 = a.t1 /\ spared.t2 = Tail(a.t2)
  <2>1. DOMAIN aimed = {"p", "t1", "t2", "b1", "b2"}
    BY <1>2 DEF ArcShape
  <2>2. DOMAIN ArcReplace(aimed, k \in ToSet(a.b2)) = DOMAIN aimed
    BY DEF ArcReplace
  <2>3. CASE ArcLen(a) >= c
    BY <1>2, <2>1, <2>2, <2>3, ReplaceFront
  <2>4. CASE ~(ArcLen(a) >= c)
    BY <1>2, <2>1, <2>4
  <2> QED BY <2>3, <2>4
<1>4. o = [st |-> ArcTrimB2(ArcTrimB1(grown, c), c), hit |-> FALSE,
           evicted |-> ArcResident(a) \ ArcResident(spared)]
  BY DEF ArcMiss, grown, spared, aimed
<1> HIDE DEF spared
<1>5. /\ DOMAIN grown = {"p", "t1", "t2", "b1", "b2"}
      /\ grown.t1 \in {spared.t1, Append(spared.t1, k)}
      /\ grown.t2 \in {spared.t2, Append(spared.t2, k)}
  BY <1>3 DEF ArcAdmit
<1> HIDE DEF grown
<1>6. \A x \in {grown, ArcTrimB1(grown, c)} :
        /\ ArcTrimB1(x, c).t1 = x.t1 /\ ArcTrimB1(x, c).t2 = x.t2
        /\ ArcTrimB2(x, c).t1 = x.t1 /\ ArcTrimB2(x, c).t2 = x.t2
  <2>1. DOMAIN ArcTrimB1(grown, c) = {"p", "t1", "t2", "b1", "b2"}
    BY <1>5 DEF ArcTrimB1
  <2>2. \A x : DOMAIN x = {"p", "t1", "t2", "b1", "b2"} =>
          /\ ArcTrimB1(x, c).t1 = x.t1 /\ ArcTrimB1(x, c).t2 = x.t2
          /\ ArcTrimB2(x, c).t1 = x.t1 /\ ArcTrimB2(x, c).t2 = x.t2
    BY DEF ArcTrimB1, ArcTrimB2
  <2> QED BY <1>5, <2>1, <2>2
<1>7. o.st.t1 = grown.t1 /\ o.st.t2 = grown.t2
  BY <1>4, <1>6
<1>8. o.evicted = (ToSet(a.t1) \cup ToSet(a.t2)) \ (ToSet(spared.t1) \cup ToSet(spared.t2))
  BY <1>4 DEF ArcResident
<1>9. /\ a.t1 # <<>> => /\ ToSet(Tail(a.t1)) = ToSet(a.t1) \ {Head(a.t1)}
                        /\ Head(a.t1) \in ToSet(a.t1)
      /\ a.t2 # <<>> => /\ ToSet(Tail(a.t2)) = ToSet(a.t2) \ {Head(a.t2)}
                        /\ Head(a.t2) \in ToSet(a.t2)
  BY <1>1, RecencyPop
<1>10. Shortened(spared.t1, spared.t2, a, o.evicted)
  BY <1>1, <1>3, <1>8, <1>9 DEF Shortened
<1> QED BY <1>5, <1>7, <1>10

(* The lists of ARC stay in order, and its victim is the first of one. *)
LEMMA ArcAges ==
  ASSUME NEW a, ArcInv(a, c, Keys), NEW h, InOrderOf(a.t1, h), InOrderOf(a.t2, h),
         NEW k \in Keys, NEW o, o = ArcAccess(a, c, k), NEW g, Ages(h, g, o.evicted, k)
  PROVE  /\ InOrderOf(o.st.t1, g) /\ InOrderOf(o.st.t2, g)
         /\ \/ o.evicted = {}
            \/ a.t1 # <<>> /\ o.evicted = {Head(a.t1)}
            \/ a.t2 # <<>> /\ o.evicted = {Head(a.t2)}
<1>1. /\ ArcShape(a, c, Keys) /\ ToSet(a.t1) \cap ToSet(a.t2) = {}
      /\ a.t1 \in Recency(Keys) /\ a.t2 \in Recency(Keys)
  BY DEF ArcInv, ArcApart, ArcShape
<1>2. CASE k \in ArcResident(a)
  <2> DEFINE u == IF k \in ToSet(a.t1) THEN a.t2 ELSE RemoveFirst(a.t2, k)
  <2>1. o.evicted = {} /\ o.st.t1 = RemoveFirst(a.t1, k) /\ o.st.t2 = Append(u, k)
    BY <1>1, <1>2 DEF ArcAccess, ArcHit, ArcShape
  <2>2. /\ RemoveFirst(a.t1, k) \in Recency(Keys) /\ InOrderOf(RemoveFirst(a.t1, k), h)
        /\ ToSet(RemoveFirst(a.t1, k)) = ToSet(a.t1) \ {k}
    BY <1>1, PartsInOrder
  <2>3. u \in Recency(Keys) /\ InOrderOf(u, h) /\ k \notin ToSet(u)
    BY <1>1, PartsInOrder
  <2> HIDE DEF u
  <2> QED BY <2>1, <2>2, <2>3 DEF Ages
<1>3. CASE k \notin ArcResident(a)
  <2>1. o = ArcMiss(a, c, k)
    BY <1>3 DEF ArcAccess
  <2>2. PICK u1, u2 : /\ Shortened(u1, u2, a, o.evicted)
                      /\ o.st.t1 \in {u1, Append(u1, k)} /\ o.st.t2 \in {u2, Append(u2, k)}
    BY <2>1, MissLists
  <2>3. /\ a.t1 # <<>> => /\ InOrderOf(Tail(a.t1), h) /\ Tail(a.t1) \in Recency(Keys)
                          /\ ToSet(Tail(a.t1)) = ToSet(a.t1) \ {Head(a.t1)}
                          /\ Head(a.t1) \in ToSet(a.t1)
        /\ a.t2 # <<>> => /\ InOrderOf(Tail(a.t2), h) /\ Tail(a.t2) \in Recency(Keys)
                          /\ ToSet(Tail(a.t2)) = ToSet(a.t2) \ {Head(a.t2)}
                          /\ Head(a.t2) \in ToSet(a.t2)
    BY <1>1, PartsInOrder, RecencyPop
  <2>4. k \notin ToSet(a.t1) /\ k \notin ToSet(a.t2)
    BY <1>3 DEF ArcResident
  <2>5. /\ u1 \in Recency(Keys) /\ InOrderOf(u1, h)
        /\ k \notin ToSet(u1) /\ ToSet(u1) \cap o.evicted = {}
    BY <1>1, <2>2, <2>3, <2>4 DEF Shortened
  <2>6. /\ u2 \in Recency(Keys) /\ InOrderOf(u2, h)
        /\ k \notin ToSet(u2) /\ ToSet(u2) \cap o.evicted = {}
    BY <1>1, <2>2, <2>3, <2>4 DEF Shortened
  <2>7. InOrderOf(o.st.t1, g) /\ InOrderOf(o.st.t2, g)
    BY <2>2, <2>5, <2>6 DEF Ages
  <2> QED BY <2>2, <2>7 DEF Shortened
<1> QED BY <1>2, <1>3

(* LFU's counts as the history keeps them. *)
CountsOf(freq) == [x \in Keys |-> IF x \in DOMAIN freq THEN freq[x] ELSE 0]

(* Detaching a key shortens its bucket and leaves the others alone. *)
LEMMA DetachOrder ==
  ASSUME NEW l, LfuInv(l, Keys), NEW k \in DOMAIN l.freq,
         NEW h, \A f \in DOMAIN l.buckets : InOrderOf(l.buckets[f], h)
  PROVE  LET b == Detach(l.buckets, k, l.freq[k])
         IN \A f \in DOMAIN b : /\ b[f] \in Recency(Keys) /\ InOrderOf(b[f], h)
                                /\ k \notin ToSet(b[f]) /\ ToSet(b[f]) \subseteq DOMAIN l.freq
<1> DEFINE n == l.freq[k]
           b == Detach(l.buckets, k, n)
<1>1. /\ \A f \in DOMAIN l.buckets : /\ l.buckets[f] \in Recency(Keys)
                                     /\ ToSet(l.buckets[f]) = {x \in DOMAIN l.freq : l.freq[x] = f}
      /\ n \in DOMAIN l.buckets
  BY DEF LfuInv, BucketsOf
<1>2. ASSUME NEW f \in DOMAIN b
      PROVE  /\ f \in DOMAIN l.buckets
             /\ b[f] = IF f = n THEN RemoveFirst(l.buckets[n], k) ELSE l.buckets[f]
  BY <1>1, <1>2 DEF Detach
<1> HIDE DEF b
<1>3. ASSUME NEW f \in DOMAIN b
      PROVE  /\ b[f] \in Recency(Keys) /\ InOrderOf(b[f], h)
             /\ k \notin ToSet(b[f]) /\ ToSet(b[f]) \subseteq DOMAIN l.freq
  <2>1. CASE f = n
    <3>1. /\ l.buckets[n] \in Recency(Keys) /\ InOrderOf(l.buckets[n], h)
          /\ ToSet(l.buckets[n]) \subseteq DOMAIN l.freq
      BY <1>1
    <3>2. b[f] = RemoveFirst(l.buckets[n], k)
      BY <1>2, <2>1
    <3> HIDE DEF n
    <3> QED BY <3>1, <3>2, PartsInOrder
  <2>2. CASE f # n
    <3>1. b[f] = l.buckets[f] /\ f \in DOMAIN l.buckets
      BY <1>2, <2>2
    <3> QED BY <1>1, <2>2, <3>1
  <2> QED BY <2>1, <2>2
<1> QED BY <1>3 DEF b

(* Attaching the accessed key puts it last. *)
LEMMA AttachOrder ==
  ASSUME NEW b, NEW k \in Keys, NEW n, NEW h, NEW g, NEW E, Ages(h, g, E, k),
         \A f \in DOMAIN b : /\ b[f] \in Recency(Keys) /\ InOrderOf(b[f], h)
                             /\ k \notin ToSet(b[f]) /\ ToSet(b[f]) \cap E = {}
  PROVE  LET d == Attach(b, k, n) IN \A f \in DOMAIN d : InOrderOf(d[f], g)
<1> DEFINE d == Attach(b, k, n)
           s == IF n \in DOMAIN b THEN b[n] ELSE <<>>
<1>1. Append(<<>>, k) = <<k>>
  OBVIOUS
<1>2. /\ DOMAIN d = DOMAIN b \cup {n}
      /\ d[n] = Append(s, k) /\ \A f \in DOMAIN d : f # n => d[f] = b[f]
  BY <1>1 DEF Attach
<1>3. /\ s \in Recency(Keys) /\ InOrderOf(s, h)
      /\ k \notin ToSet(s) /\ ToSet(s) \cap E = {}
  BY RecencyNew, OrderOfLists
<1> HIDE DEF d, s
<1>4. InOrderOf(d[n], g)
  BY <1>2, <1>3 DEF Ages
<1>5. ASSUME NEW f \in DOMAIN d, f # n PROVE InOrderOf(d[f], g)
  <2>1. f \in DOMAIN b /\ d[f] = b[f]
    BY <1>2, <1>5
  <2> QED BY <2>1 DEF Ages
<1> QED BY <1>4, <1>5 DEF d

(* The victim of LFU is the first of the bucket of the least count. *)
LEMMA VictimBucket ==
  ASSUME NEW l, LfuInv(l, Keys), DOMAIN l.freq # {}
  PROVE  LET s == l.buckets[FixMinFreq(l)]
         IN /\ FixMinFreq(l) \in DOMAIN l.buckets
            /\ s \in Recency(Keys) /\ s # <<>> /\ LfuVictim(l) = Head(s)
            /\ ToSet(s) = {x \in DOMAIN l.freq : \A y \in DOMAIN l.freq : l.freq[x] <= l.freq[y]}
<1> DEFINE F == {f \in DOMAIN l.buckets : f >= l.min}
           m == FixMinFreq(l)
           s == l.buckets[m]
<1>1. F = DOMAIN l.buckets /\ F # {} /\ F \subseteq Nat
  <2>1. \A f \in DOMAIN l.buckets : f \in Nat /\ l.min \in Nat /\ l.min <= f
    BY DEF LfuInv, BucketsOf, Counts
  <2>2. DOMAIN l.buckets # {}
    BY DEF LfuInv, BucketsOf
  <2> QED BY <2>1, <2>2
<1>2. m = Min(F)
  BY DEF FixMinFreq
<1> HIDE DEF F, m
<1>3. m \in DOMAIN l.buckets /\ m \in Nat /\ \A f \in DOMAIN l.buckets : m <= f
  BY <1>1, <1>2, LeastCount
<1>4. s \in Recency(Keys) /\ ToSet(s) = {x \in DOMAIN l.freq : l.freq[x] = m}
  BY <1>3 DEF LfuInv, BucketsOf
<1>5. \A x \in DOMAIN l.freq : l.freq[x] \in Nat /\ m <= l.freq[x]
  <2>1. \A x \in DOMAIN l.freq : l.freq[x] \in DOMAIN l.buckets
    BY DEF LfuInv, BucketsOf
  <2> QED BY <1>1, <1>3, <2>1
<1>6. PICK z \in DOMAIN l.freq : l.freq[z] = m
  BY <1>3 DEF LfuInv, BucketsOf
<1>7. \A x \in DOMAIN l.freq :
        l.freq[x] = m <=> \A y \in DOMAIN l.freq : l.freq[x] <= l.freq[y]
  <2> TAKE x \in DOMAIN l.freq
  <2>1. l.freq[x] = m => \A y \in DOMAIN l.freq : l.freq[x] <= l.freq[y]
    BY <1>5
  <2>2. l.freq[x] <= l.freq[z] => l.freq[x] = m
    BY <1>3, <1>5, <1>6
  <2> QED BY <1>6, <2>1, <2>2
<1>8. s # <<>>
  <2>1. z \in ToSet(s)
    BY <1>4, <1>6
  <2> HIDE DEF s
  <2> QED BY <1>4, <2>1, RecencyEmpty
<1>9. LfuVictim(l) = Head(s)
  BY DEF LfuVictim, m
<1>10. ToSet(s) = {x \in DOMAIN l.freq : \A y \in DOMAIN l.freq : l.freq[x] <= l.freq[y]}
  BY <1>4, <1>7
<1> HIDE DEF s
<1> QED BY <1>3, <1>4, <1>8, <1>9, <1>10 DEF m, s

(* What an access of k does to LFU's buckets and counts, o its outcome. *)
LfuFollows(l, o, g, k) ==
  /\ \A f \in DOMAIN o.st.buckets : InOrderOf(o.st.buckets[f], g)
  /\ CountsOf(o.st.freq)
       = [x \in Keys |-> IF x = k THEN CountsOf(l.freq)[k] + 1
                         ELSE IF x \in o.evicted THEN 0 ELSE CountsOf(l.freq)[x]]
  /\ o.evicted = {} \/ (DOMAIN l.freq # {} /\ o.evicted = {LfuVictim(l)})

(* The buckets of LFU stay in order, and its counts are the history's. *)
LEMMA LfuAges ==
  ASSUME NEW l, LfuInv(l, Keys), NEW h, \A f \in DOMAIN l.buckets : InOrderOf(l.buckets[f], h),
         NEW k \in Keys, NEW o, o = LfuAccess(l, c, k), NEW g, Ages(h, g, o.evicted, k)
  PROVE  LfuFollows(l, o, g, k)
<1> DEFINE D == DOMAIN l.freq
           Grown == [x \in Keys |-> IF x = k THEN CountsOf(l.freq)[k] + 1
                                    ELSE IF x \in o.evicted THEN 0 ELSE CountsOf(l.freq)[x]]
<1>0. \A f \in DOMAIN l.buckets : /\ l.buckets[f] \in Recency(Keys)
                                  /\ ToSet(l.buckets[f]) \subseteq D
  BY DEF LfuInv, BucketsOf
<1>1. CASE k \in D
  <2> DEFINE n == l.freq[k]
             b == Detach(l.buckets, k, n)
  <2>1. /\ o.evicted = {} /\ o.st.buckets = Attach(b, k, n + 1)
        /\ o.st.freq = SetFreq(l.freq, k, n + 1)
    BY <1>1 DEF LfuAccess, LfuHit
  <2>2. \A f \in DOMAIN b : /\ b[f] \in Recency(Keys) /\ InOrderOf(b[f], h)
                            /\ k \notin ToSet(b[f])
    BY <1>1, DetachOrder
  <2>3. CountsOf(o.st.freq) = Grown
    BY <1>1, <2>1 DEF CountsOf, SetFreq
  <2> HIDE DEF b
  <2>4. \A f \in DOMAIN o.st.buckets : InOrderOf(o.st.buckets[f], g)
    <3>1. \A f \in DOMAIN b : ToSet(b[f]) \cap o.evicted = {}
      BY <2>1
    <3> QED BY <2>1, <2>2, <3>1, AttachOrder
  <2> QED BY <2>1, <2>3, <2>4 DEF LfuFollows
<1>2. CASE k \notin D /\ Cardinality(D) >= c
  <2> DEFINE v == LfuVictim(l)
             b == Detach(l.buckets, v, l.freq[v])
  <2>1. D # {}
    BY <1>2, RoomForOne, FS_EmptySet
  <2>2. v \in D
    BY <2>1, LfuVictimResident
  <2>3. /\ o.evicted = {v} /\ o.st.buckets = Attach(b, k, 1)
        /\ o.st.freq = SetFreq(DropKey(l.freq, v), k, 1)
    BY <1>2, <2>2 DEF LfuAccess, LfuInsert, LfuRemove
  <2> HIDE DEF v
  <2>4. \A f \in DOMAIN b : /\ b[f] \in Recency(Keys) /\ InOrderOf(b[f], h)
                            /\ v \notin ToSet(b[f]) /\ ToSet(b[f]) \subseteq D
    BY <2>2, DetachOrder
  <2>5. CountsOf(o.st.freq) = Grown
    BY <1>2, <2>3 DEF CountsOf, SetFreq, DropKey
  <2> HIDE DEF b
  <2>6. \A f \in DOMAIN o.st.buckets : InOrderOf(o.st.buckets[f], g)
    <3>1. \A f \in DOMAIN b : k \notin ToSet(b[f]) /\ ToSet(b[f]) \cap o.evicted = {}
      BY <1>2, <2>3, <2>4
    <3> QED BY <2>3, <2>4, <3>1, AttachOrder
  <2> QED BY <2>1, <2>3, <2>5, <2>6 DEF v, LfuFollows
<1>3. CASE k \notin D /\ ~(Cardinality(D) >= c)
  <2>1. /\ o.evicted = {} /\ o.st.buckets = Attach(l.buckets, k, 1)
        /\ o.st.freq = SetFreq(l.freq, k, 1)
    BY <1>3 DEF LfuAccess, LfuInsert
  <2>2. CountsOf(o.st.freq) = Grown
    BY <1>3, <2>1 DEF CountsOf, SetFreq
  <2>3. \A f \in DOMAIN o.st.buckets : InOrderOf(o.st.buckets[f], g)
    <3>1. \A f \in DOMAIN l.buckets : k \notin ToSet(l.buckets[f])
                                      /\ ToSet(l.buckets[f]) \cap o.evicted = {}
      BY <1>0, <1>3, <2>1
    <3> QED BY <1>0, <2>1, <3>1, AttachOrder
  <2> QED BY <2>1, <2>2, <2>3 DEF LfuFollows
<1> QED BY <1>1, <1>2, <1>3

(* What an access keeps of the history, policy by policy. *)
LEMMA AccessKeepsHistory ==
  ASSUME HInv, NEW k \in Keys, Access(k)
  PROVE  HInv'
<1> DEFINE o == PolicyAccess(kind, st, c, k)
           stay == IF o.evicted = {} THEN recent
                   ELSE RemoveFirst(recent, CHOOSE v \in o.evicted : TRUE)
           g == MoveToBack(stay, k)
<1>1. /\ st' = o.st /\ kind' = kind /\ recent' = g
      /\ uses' = [x \in Keys |-> IF x = k THEN uses[k] + 1
                                 ELSE IF x \in o.evicted THEN 0 ELSE uses[x]]
  BY DEF Access
<1>2. /\ kind \in PolicyKinds /\ PolicyInv(kind, st, c, Keys)
      /\ recent \in Recency(Keys) /\ ToSet(recent) = resident /\ Aged(kind, st, recent)
  BY DEF HInv, IInv
<1>3. IInv'
  BY RoomForOne, PolicyAccessEffect DEF HInv, IInv, Access
<1>4. AccessEffect(o, resident, PolicyResident(kind, o.st), PolicyLen(kind, st) >= c, k)
  BY <1>2, RoomForOne, PolicyAccessEffect DEF resident
<1>5. resident' = PolicyResident(kind, o.st)
  BY <1>1 DEF resident
<1>6. /\ k \notin o.evicted /\ (o.evicted = {} \/ \E v : o.evicted = {v})
      /\ resident' = (resident \ o.evicted) \cup {k}
  BY <1>4, <1>5 DEF AccessEffect
<1> HIDE DEF o
<1>7. /\ g \in Recency(Keys) /\ ToSet(g) = (ToSet(recent) \ o.evicted) \cup {k}
      /\ Ages(recent, g, o.evicted, k)
  BY <1>2, <1>6, HistoryAges
<1> HIDE DEF g
<1>8. /\ Aged(kind, o.st, g)
      /\ kind = "lfu" => uses' = CountsOf(o.st.freq)
  <2>1. CASE kind = "lru"
    <3>1. LruInv(st, c, Keys) /\ InOrderOf(st, recent) /\ o = LruAccess(st, c, k)
      BY <1>2, <2>1 DEF PolicyInv, Aged, PolicyAccess, o
    <3>2. InOrderOf(o.st, g)
      BY <1>7, <3>1, LruAges
    <3> QED BY <2>1, <3>2 DEF Aged
  <2>2. CASE kind = "lfu"
    <3>1. /\ LfuInv(st, Keys) /\ o = LfuAccess(st, c, k)
          /\ \A f \in DOMAIN st.buckets : InOrderOf(st.buckets[f], recent)
      BY <1>2, <2>2 DEF PolicyInv, Aged, PolicyAccess, o
    <3>2. LfuFollows(st, o, g, k)
      BY <1>7, <3>1, LfuAges
    <3>3. uses = CountsOf(st.freq)
      BY <2>2 DEF HInv, CountsOf
    <3> QED BY <1>1, <2>2, <3>2, <3>3 DEF Aged, LfuFollows
  <2>3. CASE kind = "arc"
    <3>1. /\ ArcInv(st, c, Keys) /\ o = ArcAccess(st, c, k)
          /\ InOrderOf(st.t1, recent) /\ InOrderOf(st.t2, recent)
      BY <1>2, <2>3 DEF PolicyInv, Aged, PolicyAccess, o
    <3>2. InOrderOf(o.st.t1, g) /\ InOrderOf(o.st.t2, g)
      BY <1>7, <3>1, ArcAges
    <3> QED BY <2>3, <3>2 DEF Aged
  <2> QED BY <1>2, <2>1, <2>2, <2>3 DEF PolicyKinds
<1> QED BY <1>1, <1>2, <1>3, <1>6, <1>7, <1>8 DEF HInv, CountsOf

(* What a remove keeps of it. *)
LEMMA RemoveKeepsHistory ==
  ASSUME HInv, NEW k \in Keys, RemoveKey(k)
  PROVE  HInv'
<1> DEFINE r == PolicyRemove(kind, st, k)
           g == RemoveFirst(recent, k)
<1>1. st' = r /\ kind' = kind /\ recent' = g /\ uses' = [uses EXCEPT ![k] = 0]
  BY DEF RemoveKey
<1>2. /\ kind \in PolicyKinds /\ PolicyInv(kind, st, c, Keys)
      /\ recent \in Recency(Keys) /\ ToSet(recent) = resident /\ Aged(kind, st, recent)
  BY DEF HInv, IInv
<1>3. IInv'
  BY RoomForOne, PolicyRemoveEffect DEF HInv, IInv, RemoveKey
<1>4. resident' = resident \ {k}
  <2>1. resident' = PolicyResident(kind, PolicyRemove(kind, st, k))
    BY <1>1 DEF resident
  <2>2. IInv
    BY DEF HInv
  <2> QED BY <2>1, <2>2, RoomForOne, PolicyRemoveEffect DEF IInv, resident
<1>5. g \in Recency(Keys) /\ ToSet(g) = ToSet(recent) \ {k} /\ Forgets(recent, g, k)
  BY <1>2, RecencyRemove, HistoryForgets
<1> HIDE DEF g
<1>6. Aged(kind, r, g) /\ (kind = "lfu" => uses' = CountsOf(r.freq))
  <2>1. CASE kind = "lru"
    <3>1. st \in Recency(Keys) /\ InOrderOf(st, recent) /\ r = RemoveFirst(st, k)
      BY <1>2, <2>1 DEF PolicyInv, LruInv, Aged, PolicyRemove, LruRemove
    <3>2. /\ InOrderOf(r, recent) /\ r \in Recency(Keys) /\ ToSet(r) = ToSet(st) \ {k}
      BY <3>1, PartsInOrder
    <3> QED BY <1>5, <2>1, <3>2 DEF Aged, Forgets
  <2>2. CASE kind = "lfu"
    <3>1. /\ LfuInv(st, Keys) /\ r = LfuRemove(st, k)
          /\ \A f \in DOMAIN st.buckets : InOrderOf(st.buckets[f], recent)
      BY <1>2, <2>2 DEF PolicyInv, Aged, PolicyRemove
    <3>2. uses = CountsOf(st.freq)
      BY <2>2 DEF HInv, CountsOf
    <3>3. CASE k \notin DOMAIN st.freq
      <4>1. r = st
        BY <3>1, <3>3 DEF LfuRemove
      <4>2. ASSUME NEW f \in DOMAIN st.buckets PROVE InOrderOf(st.buckets[f], g)
        <5>1. st.buckets[f] \in Recency(Keys) /\ ToSet(st.buckets[f]) \subseteq DOMAIN st.freq
          BY <3>1 DEF LfuInv, BucketsOf
        <5> QED BY <1>5, <3>1, <3>3, <5>1 DEF Forgets
      <4>3. uses' = CountsOf(st.freq)
        BY <1>1, <3>2, <3>3 DEF CountsOf
      <4> QED BY <2>2, <4>1, <4>2, <4>3 DEF Aged
    <3>4. CASE k \in DOMAIN st.freq
      <4> DEFINE b == Detach(st.buckets, k, st.freq[k])
      <4>1. r.buckets = b /\ r.freq = DropKey(st.freq, k)
        BY <3>1, <3>4 DEF LfuRemove
      <4>2. \A f \in DOMAIN b : /\ b[f] \in Recency(Keys) /\ InOrderOf(b[f], recent)
                                /\ k \notin ToSet(b[f])
        BY <3>1, <3>4, DetachOrder
      <4> HIDE DEF b, r
      <4>3. \A f \in DOMAIN b : InOrderOf(b[f], g)
        BY <1>5, <4>2 DEF Forgets
      <4>4. uses' = CountsOf(r.freq)
        BY <1>1, <3>2, <4>1 DEF CountsOf, DropKey
      <4> QED BY <2>2, <4>1, <4>3, <4>4 DEF Aged
    <3> QED BY <3>3, <3>4
  <2>3. CASE kind = "arc"
    <3>1. /\ ArcShape(st, c, Keys) /\ ToSet(st.t1) \cap ToSet(st.t2) = {} /\ r = ArcRemove(st, k)
          /\ InOrderOf(st.t1, recent) /\ InOrderOf(st.t2, recent)
          /\ st.t1 \in Recency(Keys) /\ st.t2 \in Recency(Keys)
      BY <1>2, <2>3 DEF PolicyInv, ArcInv, ArcApart, ArcShape, Aged, PolicyRemove
    <3>2. /\ r.t1 = RemoveFirst(st.t1, k)
          /\ r.t2 = IF k \in ToSet(st.t1) THEN st.t2 ELSE RemoveFirst(st.t2, k)
      BY <3>1 DEF ArcRemove, ArcShape
    <3>3. /\ InOrderOf(r.t1, recent) /\ r.t1 \in Recency(Keys)
          /\ ToSet(r.t1) = ToSet(st.t1) \ {k}
      <4>1. /\ InOrderOf(RemoveFirst(st.t1, k), recent)
            /\ RemoveFirst(st.t1, k) \in Recency(Keys)
            /\ ToSet(RemoveFirst(st.t1, k)) = ToSet(st.t1) \ {k}
        BY <3>1, PartsInOrder
      <4> HIDE DEF r
      <4> QED BY <3>2, <4>1
    <3>4. /\ InOrderOf(r.t2, recent) /\ r.t2 \in Recency(Keys)
          /\ ToSet(r.t2) = ToSet(st.t2) \ {k}
      <4>1. CASE k \in ToSet(st.t1)
        BY <3>1, <3>2, <4>1
      <4>2. CASE k \notin ToSet(st.t1)
        BY <3>1, <3>2, <4>2, PartsInOrder
      <4> QED BY <4>1, <4>2
    <3> HIDE DEF r
    <3> QED BY <1>5, <2>3, <3>3, <3>4 DEF Aged, Forgets
  <2> QED BY <1>2, <2>1, <2>2, <2>3 DEF PolicyKinds
<1> QED BY <1>1, <1>2, <1>3, <1>4, <1>5, <1>6 DEF HInv, CountsOf

(* The history of a new policy is empty. *)
LEMMA InitHInv == Init => HInv
<1> SUFFICES ASSUME Init PROVE HInv
  OBVIOUS
<1>1. IInv
  BY InitIInv
<1>2. kind \in PolicyKinds /\ recent = <<>> /\ st = PolicyNew(kind) /\ uses = [k \in Keys |-> 0]
  BY DEF Init
<1>3. recent \in Recency(Keys) /\ ToSet(recent) = {}
  BY <1>2, RecencyNew
<1>4. resident = {}
  BY <1>2, RoomForOne, PolicyNewInv DEF resident
<1>5. Aged(kind, st, recent)
  <2>1. /\ LfuNew.buckets = <<>> /\ ArcNew.t1 = <<>> /\ ArcNew.t2 = <<>> /\ LruNew = <<>>
        /\ DOMAIN <<>> = {}
    BY DEF LfuNew, ArcNew, LruNew
  <2> QED BY <1>2, <2>1, OrderOfLists DEF Aged, PolicyNew
<1>6. kind = "lfu" => uses = [x \in Keys |-> IF x \in DOMAIN st.freq THEN st.freq[x] ELSE 0]
  <2>1. LfuNew.freq = <<>> /\ DOMAIN <<>> = {}
    BY DEF LfuNew
  <2> QED BY <1>2, <2>1 DEF PolicyNew
<1> QED BY <1>1, <1>3, <1>4, <1>5, <1>6 DEF HInv

(* The lists of every policy stay in the order of the accesses, the oldest *)
(* first, and LFU's counts are the accesses since a key entered: removals, *)
(* which cut into the middle of a list, keep both (lru.rs 10-30,           *)
(* lfu.rs 23-81, arc.rs 34-99).                                            *)
THEOREM HistoryFollows == Spec => []HInv
<1>1. HInv /\ [Next]_vars => HInv'
  <2> SUFFICES ASSUME HInv, [Next]_vars PROVE HInv'
    OBVIOUS
  <2>1. CASE Next
    BY <2>1, AccessKeepsHistory, RemoveKeepsHistory DEF Next
  <2>2. CASE UNCHANGED vars
    BY <2>2 DEF vars, HInv, IInv, resident, Aged
  <2> QED BY <2>1, <2>2
<1> QED BY <1>1, InitHInv, PTL DEF Spec

(* The first key of a list in the order of the history is the oldest. *)
LEMMA HeadIsOldest ==
  ASSUME recent \in Recency(Keys), NEW s \in Recency(Keys), s # <<>>, InOrderOf(s, recent)
  PROVE  Head(s) \in OldestOf(ToSet(s))
<1>1. s \in Seq(Keys) /\ Head(s) \in ToSet(s)
  BY RecencyPop DEF Recency
<1>2. \A i, j \in 1..Len(recent) : recent[i] = Head(s) /\ recent[j] \in ToSet(s) => i <= j
  BY <1>1, FirstIsFirst
<1> QED BY <1>1, <1>2 DEF OldestOf

(* An access evicts a key that the history justifies. *)
LEMMA VictimOfAccess ==
  ASSUME HInv, NEW k \in Keys
  PROVE  PolicyAccess(kind, st, c, k).evicted \subseteq JustifiedVictims
<1> DEFINE o == PolicyAccess(kind, st, c, k)
<1>1. /\ kind \in PolicyKinds /\ PolicyInv(kind, st, c, Keys)
      /\ recent \in Recency(Keys) /\ Aged(kind, st, recent)
  BY DEF HInv, IInv
<1>2. AccessEffect(o, resident, PolicyResident(kind, o.st), PolicyLen(kind, st) >= c, k)
  BY <1>1, RoomForOne, PolicyAccessEffect DEF resident
<1>3. k \notin o.evicted /\ (o.evicted = {} \/ \E v : o.evicted = {v})
  BY <1>2 DEF AccessEffect
<1> HIDE DEF o
<1>4. PICK g : Ages(recent, g, o.evicted, k)
  BY <1>1, <1>3, HistoryAges
<1>5. CASE kind = "lru"
  <2>1. LruInv(st, c, Keys) /\ st \in Recency(Keys) /\ InOrderOf(st, recent)
        /\ resident = ToSet(st) /\ o = LruAccess(st, c, k)
    BY <1>1, <1>5 DEF PolicyInv, LruInv, Aged, PolicyAccess, resident, PolicyResident, o
  <2>2. o.evicted = {} \/ (Size(st) >= c /\ o.evicted = {Head(st)})
    BY <2>1 DEF LruAccess, Size
  <2>3. Size(st) >= c => st # <<>>
    BY <2>1, RoomForOne, RecencyEmpty
  <2>4. st # <<>> => Head(st) \in OldestOf(resident)
    BY <1>1, <2>1, HeadIsOldest
  <2>5. JustifiedVictims = OldestOf(resident)
    BY <1>5 DEF JustifiedVictims
  <2> QED BY <2>2, <2>3, <2>4, <2>5 DEF o
<1>6. CASE kind = "lfu"
  <2>1. /\ LfuInv(st, Keys) /\ o = LfuAccess(st, c, k)
        /\ resident = DOMAIN st.freq /\ DOMAIN st.freq \subseteq Keys
        /\ \A f \in DOMAIN st.buckets : InOrderOf(st.buckets[f], recent)
    BY <1>1, <1>6 DEF PolicyInv, Aged, PolicyAccess, resident, PolicyResident, LfuInv, Counts, o
  <2>2. o.evicted = {} \/ (DOMAIN st.freq # {} /\ o.evicted = {LfuVictim(st)})
    <3>1. LfuFollows(st, o, g, k)
      BY <1>4, <2>1, LfuAges
    <3> QED BY <3>1 DEF LfuFollows
  <2>3. ASSUME DOMAIN st.freq # {} PROVE LfuVictim(st) \in OldestOf(LeastUsed(resident))
    <3> DEFINE s == st.buckets[FixMinFreq(st)]
    <3>1. /\ FixMinFreq(st) \in DOMAIN st.buckets
          /\ s \in Recency(Keys) /\ s # <<>> /\ LfuVictim(st) = Head(s)
          /\ ToSet(s) = {x \in DOMAIN st.freq :
                           \A y \in DOMAIN st.freq : st.freq[x] <= st.freq[y]}
      BY <2>1, <2>3, VictimBucket
    <3>2. InOrderOf(s, recent)
      BY <2>1, <3>1
    <3>3. \A x \in DOMAIN st.freq : uses[x] = st.freq[x]
      BY <1>6, <2>1 DEF HInv
    <3> HIDE DEF s
    <3>4. LeastUsed(resident) = ToSet(s)
      BY <2>1, <3>1, <3>3 DEF LeastUsed
    <3> QED BY <1>1, <3>1, <3>2, <3>4, HeadIsOldest
  <2>4. JustifiedVictims = OldestOf(LeastUsed(resident))
    BY <1>6 DEF JustifiedVictims
  <2> QED BY <2>2, <2>3, <2>4 DEF o
<1>7. CASE kind = "arc"
  <2>1. /\ ArcInv(st, c, Keys) /\ o = ArcAccess(st, c, k)
        /\ InOrderOf(st.t1, recent) /\ InOrderOf(st.t2, recent)
        /\ st.t1 \in Recency(Keys) /\ st.t2 \in Recency(Keys)
    BY <1>1, <1>7 DEF PolicyInv, Aged, PolicyAccess, ArcInv, ArcShape, o
  <2>2. \/ o.evicted = {}
        \/ st.t1 # <<>> /\ o.evicted = {Head(st.t1)}
        \/ st.t2 # <<>> /\ o.evicted = {Head(st.t2)}
    BY <1>4, <2>1, ArcAges
  <2>3. /\ st.t1 # <<>> => Head(st.t1) \in OldestOf(ToSet(st.t1))
        /\ st.t2 # <<>> => Head(st.t2) \in OldestOf(ToSet(st.t2))
    BY <1>1, <2>1, HeadIsOldest
  <2>4. JustifiedVictims = OldestOf(ToSet(st.t1)) \cup OldestOf(ToSet(st.t2))
    BY <1>7 DEF JustifiedVictims
  <2> QED BY <2>2, <2>3, <2>4 DEF o
<1> QED BY <1>1, <1>5, <1>6, <1>7 DEF PolicyKinds

(* Every victim is the one its policy is named for: LRU's the oldest       *)
(* resident key, LFU's the oldest of the least used, ARC's the oldest of   *)
(* one of its lists (lru.rs 21-22, lfu.rs 56-66, arc.rs 34-45).            *)
THEOREM VictimsAreJustified == Spec => VictimIsJustified
<1>1. HInv /\ [Next]_vars
        => [out' # out /\ out'.op = "access" => out'.evicted \subseteq JustifiedVictims]_vars
  <2> SUFFICES ASSUME HInv, Next, out' # out, out'.op = "access"
               PROVE  out'.evicted \subseteq JustifiedVictims
    OBVIOUS
  <2>1. ASSUME NEW k \in Keys, Access(k) PROVE out'.evicted \subseteq JustifiedVictims
    <3>1. out'.evicted = PolicyAccess(kind, st, c, k).evicted
      BY <2>1 DEF Access
    <3> QED BY <3>1, VictimOfAccess
  <2>2. ASSUME NEW k \in Keys, RemoveKey(k) PROVE FALSE
    <3>1. out'.op = "remove"
      BY <2>2 DEF RemoveKey
    <3> QED BY <3>1
  <2> QED BY <2>1, <2>2 DEF Next
<1> QED BY <1>1, HistoryFollows, PTL DEF Spec, VictimIsJustified
=============================================================================
