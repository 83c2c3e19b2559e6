----------------------------- MODULE OrderedMap -----------------------------
(***************************************************************************)
(* caching_strategies/src/ordered.rs: a map with an intrusive doubly       *)
(* linked list threaded through a vector of nodes, freed slots being       *)
(* reused.  Every policy and both retention windows are built on it.       *)
(***************************************************************************)
EXTENDS Naturals, FiniteSets, SequencesExt

CONSTANTS Keys, Vals, Absent,
          Default   \* V::default(), what mem::take leaves behind

ASSUME ValsAssumption == Default \in Vals /\ Absent \notin Vals

NONE == 0

VARIABLES nodes,  \* the node vector, slots 1..Len(nodes)
          free,   \* the stack of freed slots
          index,  \* key -> slot
          head, tail,
          ret     \* what the last call returned

vars == <<nodes, free, index, head, tail, ret>>
links == [nodes |-> nodes, head |-> head, tail |-> tail]

Node(k, v) == [key |-> k, val |-> v, prev |-> NONE, next |-> NONE]

Init ==
  /\ nodes = <<>> /\ free = <<>> /\ index = <<>>
  /\ head = NONE /\ tail = NONE
  /\ ret = <<"new", Absent>>

-----------------------------------------------------------------------------
(* Mutant: the pushed node is looked for one slot too low. *)
AllocSlotLow == IF free # <<>> THEN Last(free) ELSE Len(nodes)

(* alloc: the slot taken, and the node vector with the fresh node in it. *)
AllocSlot == IF free # <<>> THEN Last(free) ELSE Len(nodes) + 1
AllocNodes(k, v) ==
  IF free # <<>> THEN [nodes EXCEPT ![Last(free)] = Node(k, v)]
                 ELSE Append(nodes, Node(k, v))

(* Mutant: alloc reuses a slot and leaves it on the free stack. *)
AllocLeavesFree == free

(* alloc pops the slot it reuses. *)
AllocFree == IF free # <<>> THEN Front(free) ELSE free

(* unlink and link_back work on the three fields that hold the list. *)
Unlink(l, i) ==
  LET p == l.nodes[i].prev
      n == l.nodes[i].next
      fwd == IF p # NONE THEN [l EXCEPT !.nodes[p].next = n]
                         ELSE [l EXCEPT !.head = n]
      bwd == IF n # NONE THEN [fwd EXCEPT !.nodes[n].prev = p]
                         ELSE [fwd EXCEPT !.tail = p]
  IN [bwd EXCEPT !.nodes[i].prev = NONE, !.nodes[i].next = NONE]

LinkBack(l, i) ==
  LET t == l.tail
      placed == [l EXCEPT !.nodes[i].prev = t, !.nodes[i].next = NONE]
      joined == IF t # NONE THEN [placed EXCEPT !.nodes[t].next = i]
                            ELSE [placed EXCEPT !.head = i]
  IN [joined EXCEPT !.tail = i]

SetLinks(l) == nodes' = l.nodes /\ head' = l.head /\ tail' = l.tail

-----------------------------------------------------------------------------
(* push_back; its debug_assert is the caller's duty not to push a key twice. *)
PushBack(k, v) ==
  /\ k \notin DOMAIN index
  /\ index' = [x \in DOMAIN index \cup {k} |->
                 IF x = k THEN AllocSlot ELSE index[x]]
  /\ free' = AllocFree
  /\ SetLinks(LinkBack([links EXCEPT !.nodes = AllocNodes(k, v)], AllocSlot))
  /\ ret' = <<"push_back", Absent>>

(* Mutant: touch_back stores the value and leaves the key where it was. *)
TouchInPlace(k, v) ==
  /\ ret' = <<"touch_back", k \in DOMAIN index>>
  /\ nodes' = IF k \in DOMAIN index THEN [nodes EXCEPT ![index[k]].val = v]
                                    ELSE nodes
  /\ UNCHANGED <<free, index, head, tail>>

TouchBack(k, v) ==
  /\ ret' = <<"touch_back", k \in DOMAIN index>>
  /\ IF k \in DOMAIN index
     THEN LET i == index[k]
          IN SetLinks(LinkBack([Unlink(links, i) EXCEPT !.nodes[i].val = v], i))
     ELSE UNCHANGED <<nodes, head, tail>>
  /\ UNCHANGED <<free, index>>

(* What remove and pop_front share once the slot is known. *)
Release(k, i) ==
  /\ index' = [x \in DOMAIN index \ {k} |-> index[x]]
  /\ SetLinks([Unlink(links, i) EXCEPT !.nodes[i].val = Default])
  /\ free' = Append(free, i)

RemoveKey(k) ==
  IF k \in DOMAIN index
  THEN Release(k, index[k]) /\ ret' = <<"remove", nodes[index[k]].val>>
  ELSE ret' = <<"remove", Absent>> /\ UNCHANGED <<nodes, free, index, head, tail>>

FrontOf == IF head = NONE THEN Absent ELSE <<nodes[head].key, nodes[head].val>>

PeekFront ==
  ret' = <<"front", FrontOf>> /\ UNCHANGED <<nodes, free, index, head, tail>>

PopFront ==
  /\ ret' = <<"pop_front", FrontOf>>
  /\ IF head = NONE
     THEN UNCHANGED <<nodes, free, index, head, tail>>
     ELSE Release(nodes[head].key, head)

Next ==
  \/ \E k \in Keys, v \in Vals : PushBack(k, v) \/ TouchBack(k, v)
  \/ \E k \in Keys : RemoveKey(k)
  \/ PeekFront
  \/ PopFront

Spec == Init /\ [][Next]_vars

-----------------------------------------------------------------------------
(* The slots met when following `next` from the head, as many as there are *)
(* keys; NONE where the walk falls off the list early.                     *)
Walk ==
  LET n == Cardinality(DOMAIN index)
      slot[j \in 0..n] ==
        IF j = 0 THEN NONE
        ELSE IF j = 1 THEN head
        ELSE IF slot[j - 1] = NONE THEN NONE ELSE nodes[slot[j - 1]].next
  IN [j \in 1..n |-> slot[j]]

(* Slots, keys and links keep their types. *)
TypeOK ==
  LET Slots == 1..Len(nodes)
  IN /\ nodes \in Seq([key : Keys, val : Vals,
                       prev : Slots \cup {NONE}, next : Slots \cup {NONE}])
     /\ free \in Seq(Slots)
     /\ DOMAIN index \subseteq Keys /\ \A k \in DOMAIN index : index[k] \in Slots
     /\ {head, tail} \subseteq Slots \cup {NONE}

(* The linked list and the index describe the same keys: following `next`  *)
(* from the head meets every indexed slot once, in an order that `prev`    *)
(* follows backwards from the tail, and ends there.  An unlink or a        *)
(* link_back that forgets one of the four ends breaks it several calls     *)
(* later (ordered.rs 61-87).                                               *)
ListMatchesIndex ==
  LET n == Len(Walk)
  IN /\ ToSet(Walk) = {index[k] : k \in DOMAIN index}
     /\ \A j \in 1..n : index[nodes[Walk[j]].key] = Walk[j]
     /\ \A j \in 1..n : nodes[Walk[j]].prev = IF j = 1 THEN NONE ELSE Walk[j - 1]
     /\ head = (IF n = 0 THEN NONE ELSE Walk[1])
     /\ tail = (IF n = 0 THEN NONE ELSE Walk[n])
     /\ n > 0 => nodes[tail].next = NONE

(* No slot leaks and none is handed out twice: every slot of the vector is *)
(* either owned by exactly one key or on the free stack exactly once       *)
(* (alloc reuses what remove and pop_front push, ordered.rs 51-59).        *)
SlotsPartitioned ==
  LET used == {index[k] : k \in DOMAIN index}
  IN /\ used \cap ToSet(free) = {}
     /\ used \cup ToSet(free) = 1..Len(nodes)
     /\ Cardinality(used) = Cardinality(DOMAIN index)
     /\ Cardinality(ToSet(free)) = Len(free)

(* Neither part is enough alone: a slot can leak while the list is sound.   *)
ListAndSlotsAgree == ListMatchesIndex /\ SlotsPartitioned

(* The list read from the head is the recency order its users rely on:     *)
(* every call acts on it, and answers, as the same call of RecencyMap.     *)
Abstract == INSTANCE RecencyMap WITH
  order <- [j \in 1..Len(Walk) |-> IF Walk[j] = NONE THEN Absent
                                                     ELSE nodes[Walk[j]].key],
  val <- [k \in DOMAIN index |-> nodes[index[k]].val]

ImplementsRecencyMap == Abstract!Spec
=============================================================================
