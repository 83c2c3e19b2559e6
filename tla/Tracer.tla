------------------------------- MODULE Tracer -------------------------------
(***************************************************************************)
(* block_scraper/scraper/tracer.py: from the traces of a block to the keys *)
(* it read and the keys it wrote.  The node's prestate tracer is external: *)
(* Transaction executes one transaction and appends what the tracer says   *)
(* of it, in its default mode to readTrace and in diffMode to writeTrace.  *)
(* Names in a trace are digits that the program pads to a fixed width.     *)
(***************************************************************************)
EXTENDS Integers, Sequences, FiniteSets, SequencesExt

CONSTANTS
  Addresses, Slots,  \* the digits of addresses and slots, in full width
  HeaderFields,      \* _HEADER_FIELDS
  Values,            \* of fields and slots; an unset slot is 0
  NONE, NoSlot, Absent,
  InitialWorld,      \* the accounts before the block
  MaxTxs             \* bound: transactions of the block

ADDR_LEN == 2
SLOT_LEN == 2

ASSUME TracerAssumption ==
  /\ \A a \in Addresses : a \in Seq(Nat) /\ Len(a) = ADDR_LEN
  /\ \A s \in Slots : s \in Seq(Nat) /\ Len(s) = SLOT_LEN
  /\ 0 \in Values /\ NONE \notin Values
  /\ MaxTxs \in Nat

-----------------------------------------------------------------------------
PadLeft(digits, width) == [i \in 1..width - Len(digits) |-> 0] \o digits
AddrToBytes(addr) == PadLeft(addr, ADDR_LEN)

(* Mutant: short slots are padded on the right. *)
SlotPadsRight(slot) == slot \o [i \in 1..SLOT_LEN - Len(slot) |-> 0]

SlotToBytes(slot) == PadLeft(slot, SLOT_LEN)

HeaderKey(addr) == <<AddrToBytes(addr), NoSlot>>
SlotKey(addr, slot) == <<AddrToBytes(addr), SlotToBytes(slot)>>

(* Every account of every prestate is a read of its header and of the      *)
(* slots listed under it.                                                  *)
ReadKeys(prestate) ==
  UNION {{HeaderKey(a)} \cup {SlotKey(a, s) : s \in prestate[a].storage} : a \in DOMAIN prestate}
ParseReadSet(trace) == UNION {ReadKeys(e) : e \in ToSet(trace)}

Lookup(dict, k, default) == IF k \in DOMAIN dict THEN dict[k] ELSE default
NoState == [fields |-> <<>>, storage |-> <<>>]

HeaderChanged(diff, a) ==
  \/ (a \in DOMAIN diff.pre) # (a \in DOMAIN diff.post)
  \/ \E f \in HeaderFields : Lookup(Lookup(diff.pre, a, NoState).fields, f, NONE)
                               # Lookup(Lookup(diff.post, a, NoState).fields, f, NONE)

(* Mutant: only the slots of post are compared. *)
ChangedPostSlots(pre, post) == {s \in DOMAIN post : Lookup(pre, s, NONE) # post[s]}

ChangedSlots(pre, post) ==
  {s \in DOMAIN pre \cup DOMAIN post : Lookup(pre, s, NONE) # Lookup(post, s, NONE)}

WriteKeys(diff) ==
  UNION {(IF HeaderChanged(diff, a) THEN {HeaderKey(a)} ELSE {})
           \cup {SlotKey(a, s) : s \in ChangedSlots(Lookup(diff.pre, a, NoState).storage,
                                                    Lookup(diff.post, a, NoState).storage)}
         : a \in DOMAIN diff.pre \cup DOMAIN diff.post}
ParseWriteSet(trace) == UNION {WriteKeys(e) : e \in ToSet(trace)}

-----------------------------------------------------------------------------
VARIABLES
  world,                 \* the accounts, as of the last transaction
  readTrace, writeTrace, \* what the two calls of trace_block answer
  touched, changed,      \* history: keys touched, and keys some transaction changed
  modified               \* history: accounts of which some key changed

traceVars == <<world, readTrace, writeTrace, touched, changed, modified>>

AccountStates == [fields : [HeaderFields -> Values], storage : [Slots -> Values]] \cup {Absent}
ASSUME WorldAssumption == InitialWorld \in [Addresses -> AccountStates]

Stored(acc, s) == IF acc = Absent THEN 0 ELSE acc.storage[s]

(* The tracer may drop leading zeros from a name. *)
Spelled(digits, short) ==
  IF short /\ digits[1] = 0 THEN Tail(digits) ELSE digits

(* One side of a diff: the fields F, and the slots S that are set, of acc. *)
Side(acc, F, S, short) ==
  LET set == {s \in S : acc.storage[s] # 0}
  IN [fields |-> [f \in F |-> acc.fields[f]],
      storage |-> [n \in {Spelled(s, short) : s \in set} |->
                     acc.storage[CHOOSE s \in set : Spelled(s, short) = n]]]

(* The diff of one account: only accounts that changed are listed.  A      *)
(* brief tracer leaves out of post the fields that did not change, and on  *)
(* both sides the slots that did not.                                      *)
DiffOf(a, old, new, S, brief, short) ==
  LET name == Spelled(a, short)
      slots == IF brief THEN {s \in S : Stored(old, s) # Stored(new, s)} ELSE S
      fields == IF brief /\ old # Absent
                THEN {f \in HeaderFields : old.fields[f] # new.fields[f]} ELSE HeaderFields
      Listed(acc, F) == IF acc = Absent \/ old = new THEN <<>>
                        ELSE [n \in {name} |-> Side(acc, F, slots, short)]
  IN [pre |-> Listed(old, HeaderFields), post |-> Listed(new, fields)]

TraceInit ==
  /\ world = InitialWorld
  /\ readTrace = <<>> /\ writeTrace = <<>>
  /\ touched = {} /\ changed = {} /\ modified = {}

(* A transaction touches the slots S of account a and leaves it as new. A  *)
(* contract that is destroyed or created has all its set slots reported.   *)
Transaction(a, S, new, brief, short) ==
  LET old == world[a]
      differs == {s \in Slots : Stored(old, s) # Stored(new, s)}
      header == (old = Absent) # (new = Absent) \/ (old # Absent /\ old.fields # new.fields)
  IN /\ Len(readTrace) < MaxTxs
     /\ differs \subseteq S
     /\ world' = [world EXCEPT ![a] = new]
     /\ readTrace' = Append(readTrace,
          [n \in {Spelled(a, short)} |-> [storage |-> {Spelled(s, short) : s \in S}]])
     /\ writeTrace' = Append(writeTrace, DiffOf(a, old, new, S, brief, short))
     /\ touched' = touched \cup {<<a, NoSlot>>} \cup {<<a, s>> : s \in S}
     /\ changed' = changed \cup (IF header THEN {<<a, NoSlot>>} ELSE {})
                           \cup {<<a, s>> : s \in differs}
     /\ modified' = IF old = new THEN modified ELSE modified \cup {a}

TraceNext ==
  \E a \in Addresses, S \in SUBSET Slots, new \in AccountStates, brief, short \in BOOLEAN :
    Transaction(a, S, new, brief, short)

TraceSpec == TraceInit /\ [][TraceNext]_traceVars

-----------------------------------------------------------------------------
(* The read set is exactly what the block's transactions touched, each key *)
(* once under its full width, whatever names the tracer used               *)
(* (tracer.py 26-36, models.py 11-24).                                     *)
ReadsAreTheTouched == ParseReadSet(readTrace) = touched

(* No change is missed: a key that some transaction changed is in the      *)
(* write set, also when a slot was cleared and is listed in pre only, when *)
(* an account came or went, or when a later transaction restored the       *)
(* value; and nothing is in excess but headers of modified accounts        *)
(* (tracer.py 39-57).                                                      *)
WritesCoverTheChanges ==
  LET writes == ParseWriteSet(writeTrace)
  IN /\ changed \subseteq writes
     /\ writes \subseteq changed \cup {<<a, NoSlot>> : a \in modified}

(* "only what changed" (block_scraper/README.md 13-14): the write set has  *)
(* no key that no transaction changed.  It does not hold where the node    *)
(* leaves the fields that did not change out of post, for a field that is  *)
(* there on one side only is taken for changed (tracer.py 46-50).          *)
WritesAreOnlyTheChanged == ParseWriteSet(writeTrace) \subseteq changed
=============================================================================
