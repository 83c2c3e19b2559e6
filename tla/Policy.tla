------------------------------- MODULE Policy -------------------------------
(***************************************************************************)
(* caching_strategies/src/policy/mod.rs: the trait ReplacementPolicy seen  *)
(* through the boxes PolicyKind::build returns, one of three policies      *)
(* chosen by `kind`.                                                       *)
(***************************************************************************)
EXTENDS Lru, Lfu, Arc

PolicyKinds == {"lru", "lfu", "arc"}

(* build asks for at least one entry. *)
BuildCapacity(capacity) == AtLeastOne(capacity)

PolicyNew(kind) ==
  CASE kind = "lru" -> LruNew
    [] kind = "lfu" -> LfuNew
    [] kind = "arc" -> ArcNew

PolicyAccess(kind, st, c, k) ==
  CASE kind = "lru" -> LruAccess(st, c, k)
    [] kind = "lfu" -> LfuAccess(st, c, k)
    [] kind = "arc" -> ArcAccess(st, c, k)

PolicyRemove(kind, st, k) ==
  CASE kind = "lru" -> LruRemove(st, k)
    [] kind = "lfu" -> LfuRemove(st, k)
    [] kind = "arc" -> ArcRemove(st, k)

(* The keys contains() answers true for. *)
PolicyResident(kind, st) ==
  CASE kind = "lru" -> ToSet(st)
    [] kind = "lfu" -> DOMAIN st.freq
    [] kind = "arc" -> ArcResident(st)

(* The keys remove() takes out: the resident ones and, with ARC, ghosts. *)
PolicyKnown(kind, st) ==
  IF kind = "arc" THEN ArcKnown(st) ELSE PolicyResident(kind, st)

PolicyLen(kind, st) ==
  CASE kind = "lru" -> Len(st)
    [] kind = "lfu" -> Cardinality(DOMAIN st.freq)
    [] kind = "arc" -> ArcLen(st)
=============================================================================
