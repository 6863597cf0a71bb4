------------------------------- MODULE Hashmap -------------------------------
(***************************************************************************)
(* The Robin Hood hash table of src/phon/runtime/hashmap.hpp, the storage  *)
(* of every script Table.  Each loop of the code is a state of its own     *)
(* (pc), so that the invariants speak about the middle of an insertion, of *)
(* a rehash and of a backward shift as well as about finished calls.       *)
(*                                                                         *)
(* A node whose hash is 0 is a free slot: it is the value Free.  An entry  *)
(* destroyed by clear() keeps its hash, hence stays a used node; the model *)
(* keeps its key and value too, which is what the build leaves in memory   *)
(* for unboxed variants (integers, Booleans): ~Variant does not overwrite. *)
(***************************************************************************)
EXTENDS Integers, FiniteSets

CONSTANTS Key,            \* hashable variants
          Value,          \* what scripts store
          HashCode,       \* std::hash<Variant>
          Fresh,          \* mapped_type(): a value not assigned yet
          Absent,         \* no entry, see HashmapAbstract
          Free,           \* a node whose hash is Empty
          Power2          \* the powers of two, as far as capacities may grow

ASSUME Power2IsPositive == Power2 \subseteq Nat \ {0}
ASSUME HashCodeIsHash == HashCode \in [Key -> Nat]
ASSUME FreshIsNoValue == Fresh \notin Value
ASSUME AbsentIsNoValue == Absent \notin Value

VARIABLES data,           \* m_data: a node for each position
          capacity,       \* m_mask + 1
          size,           \* m_size
          pc,             \* the loop control is in
          call,           \* the public call being executed
          probe,          \* locals of lookup and insert_entry
          old,            \* rehash: the nodes not moved yet, or NoWalk
          src,            \* Table(const Table &): the table copied, or NoWalk
          ret             \* the answer of the last find

vars == <<data, capacity, size, pc, call, probe, old, src, ret>>

------------------------------------------------------------------------------
(* Positions and entries. *)

Entry == [hash : Nat \ {0}, key : Key, val : Value \cup {Fresh}]

ASSUME FreeIsNoEntry == Free \notin Entry

used(pos) == data[pos] # Free

UsedSlots(nodes) == {p \in DOMAIN nodes : nodes[p] # Free}

\* Mutation: the hash 0 is not told from that of a free slot.
hash_entry_unreserved(k) == HashCode[k]

\* h | (h == 0): 0 is reserved for free slots
hash_entry(k) == IF HashCode[k] = 0 THEN 1 ELSE HashCode[k]

\* hash & m_mask, the capacity being a power of two
get_position(hash, cap) == hash % cap

succ(pos) == IF pos + 1 = capacity THEN 0 ELSE pos + 1

\* how far from its preferred position the entry at pos sits
probe_distance(hash, pos) ==
    (pos + capacity - get_position(hash, capacity)) % capacity

\* Mutation: all slots may be used.
LoadFactor_full == 100

LoadFactor == 67

max_load(cap) == (cap * LoadFactor) \div 100

\* the first power of two that is not smaller than x
IsNextPower2(p, x) == p \in Power2 /\ p >= x /\ \A q \in Power2 : q >= x => p <= q

allocate(count) == [p \in 0..count - 1 |-> Free]

NewEntry(k, v) == [hash |-> hash_entry(k), key |-> k, val |-> v]

NoWalk == [nodes |-> allocate(0), next |-> 0]

Idle == [op |-> "none", key |-> Absent, val |-> Absent]

\* the locals at the top of insert_entry, for an entry that hashes into cap slots
StartProbe(e, cap) == [entry |-> e, pos |-> get_position(e.hash, cap), dist |-> 0,
                       found |-> FALSE, cached |-> cap]

NoProbe == [entry |-> Free, pos |-> 0, dist |-> 0, found |-> FALSE, cached |-> 0]

\* the next position at or after walk.next that an iterator stops at
IsNextUsed(walk, p) ==
    /\ p \in UsedSlots(walk.nodes)
    /\ p >= walk.next
    /\ \A q \in UsedSlots(walk.nodes) : q >= walk.next => p <= q

AtEnd(walk) == \A q \in UsedSlots(walk.nodes) : q < walk.next

\* the entry a public insert is inserting, while rehash moves other entries
OuterEntry == CASE call.op = "put"    -> NewEntry(call.key, Fresh)
                [] call.op = "insert" -> NewEntry(call.key, call.val)
                [] OTHER              -> src.nodes[src.next]

Init ==
    /\ data = allocate(0)
    /\ capacity = 0
    /\ size = 0
    /\ pc = "idle"
    /\ call = Idle
    /\ probe = NoProbe
    /\ old = NoWalk
    /\ src = NoWalk
    /\ ret = Absent

------------------------------------------------------------------------------
(* find, the calls that start with it, map[k] = v and erase(k), and insert. *)

Lookups == [op : {"put"}, key : Key, val : Value]
             \cup [op : {"erase", "find"}, key : Key, val : {Absent}]

Inserts == [op : {"insert"}, key : Key, val : Value]

Request == Lookups \cup Inserts

BeginInsert(r) ==
    /\ pc = "idle"
    /\ call' = r
    /\ pc' = "enter"
    /\ UNCHANGED <<data, capacity, size, probe, old, src, ret>>

BeginLookup(r) ==
    /\ pc = "idle"
    /\ call' = r
    /\ probe' = [NoProbe EXCEPT !.pos = IF size = 0 THEN 0
                                        ELSE get_position(hash_entry(r.key), capacity)]
    /\ pc' = "lookup"
    /\ UNCHANGED <<data, capacity, size, old, src, ret>>

\* Control goes back to the caller of the public operation.
Return ==
    /\ pc' = "idle"
    /\ call' = Idle
    /\ probe' = NoProbe

\* Mutation: find compares hashes only.
Matches_hash(e) == e.hash = hash_entry(call.key)

Matches(e) == e.hash = hash_entry(call.key) /\ e.key = call.key

\* find answers end() at once if the map is empty, else at a free slot.
LookupFails == IF size = 0 THEN TRUE ELSE ~used(probe.pos)

\* The probe distance of lookup is never incremented, so only a free slot (or
\* an empty table) ends an unsuccessful search.
LookupMiss ==
    /\ pc = "lookup"
    /\ LookupFails
    /\ \/ /\ call.op = "put"
          /\ pc' = "enter"
          /\ UNCHANGED <<call, probe, ret>>
       \/ /\ call.op = "erase"
          /\ Return
          /\ UNCHANGED ret
       \/ /\ call.op = "find"
          /\ ret' = Absent
          /\ Return
    /\ UNCHANGED <<data, capacity, size, old, src>>

LookupHit ==
    /\ pc = "lookup"
    /\ ~LookupFails
    /\ Matches(data[probe.pos])
    /\ \/ /\ call.op = "put"
          /\ pc' = "assign"
          /\ UNCHANGED <<data, call, probe, ret>>
       \/ /\ call.op = "erase"
          /\ data' = [data EXCEPT ![probe.pos] = Free]
          /\ pc' = "shift"
          /\ UNCHANGED <<call, probe, ret>>
       \/ /\ call.op = "find"
          /\ ret' = data[probe.pos].val
          /\ Return
          /\ UNCHANGED data
    /\ UNCHANGED <<capacity, size, old, src>>

LookupNext ==
    /\ pc = "lookup"
    /\ ~LookupFails
    /\ ~Matches(data[probe.pos])
    /\ probe' = [probe EXCEPT !.pos = succ(@)]
    /\ UNCHANGED <<data, capacity, size, pc, call, old, src, ret>>

\* map[k] = v writes through the reference that operator[] returned.
Assign ==
    /\ pc = "assign"
    /\ data' = [data EXCEPT ![probe.pos].val = call.val]
    /\ Return
    /\ UNCHANGED <<capacity, size, old, src, ret>>

------------------------------------------------------------------------------
(* insert_entry: ensure_capacity, then probe for a slot. *)

\* Mutation: the entry to be inserted is not counted, unless there is no slot.
Overfull_late == capacity = 0 \/ size > max_load(capacity)

Overfull == size + 1 > max_load(capacity)

Moving == old # NoWalk

\* Mutation: the least capacity that has a slot for one more entry.
new_capacity_tight == CHOOSE p \in Power2 : IsNextPower2(p, size + 1)

new_capacity == IF size = 0 THEN 8 ELSE capacity * 2

\* ensure_capacity starts a rehash.  The entries that a rehash reinserts go
\* through ensure_capacity again, see NoNestedRehash.
Grow ==
    /\ pc = "enter"
    /\ Overfull /\ ~Moving
    /\ old' = [nodes |-> data, next |-> 0]
    /\ data' = allocate(new_capacity)
    /\ capacity' = new_capacity
    /\ pc' = "rehash"
    /\ UNCHANGED <<size, call, probe, src, ret>>

Enter ==
    /\ pc = "enter"
    /\ ~Overfull
    /\ probe' = StartProbe(IF Moving THEN old.nodes[old.next] ELSE OuterEntry, capacity)
    /\ pc' = "probe"
    /\ UNCHANGED <<data, capacity, size, call, old, src, ret>>

\* insert_entry returns a position and whether the entry is new: to rehash,
\* which ignores both, or to insert, which counts the entry.
Inserted(pos, inserted) ==
    IF Moving
    THEN /\ pc' = "rehash"
         /\ old' = [old EXCEPT !.nodes[old.next] = Free]
         /\ probe' = NoProbe
         /\ UNCHANGED <<size, call, src>>
    ELSE /\ size' = IF inserted THEN size + 1 ELSE size
         /\ UNCHANGED old
         /\ \/ /\ call.op = "put"
               /\ pc' = "assign"
               /\ probe' = [NoProbe EXCEPT !.pos = pos]
               /\ UNCHANGED <<call, src>>
            \/ /\ call.op = "insert"
               /\ Return
               /\ UNCHANGED src
            \/ /\ call.op = "copy"
               /\ pc' = "copy"
               /\ src' = [src EXCEPT !.next = @ + 1]
               /\ probe' = NoProbe
               /\ UNCHANGED call

\* Mutation: insert returns the position it ended at, not that of the new entry.
ProbeFree_last ==
    /\ pc = "probe"
    /\ ~used(probe.pos)
    /\ data' = [data EXCEPT ![probe.pos] = probe.entry]
    /\ Inserted(probe.pos, TRUE)
    /\ UNCHANGED <<capacity, ret>>

ProbeFree ==
    /\ pc = "probe"
    /\ ~used(probe.pos)
    /\ data' = [data EXCEPT ![probe.pos] = probe.entry]
    /\ Inserted(IF probe.found THEN probe.cached ELSE probe.pos, TRUE)
    /\ UNCHANGED <<capacity, ret>>

SameKey(e) == e.hash = probe.entry.hash /\ e.key = probe.entry.key

\* Mutation: an entry that was there already is counted again.
ProbeSame_counted ==
    /\ pc = "probe"
    /\ used(probe.pos) /\ SameKey(data[probe.pos])
    /\ Inserted(IF probe.found THEN probe.cached ELSE probe.pos, TRUE)
    /\ UNCHANGED <<data, capacity, ret>>

ProbeSame ==
    /\ pc = "probe"
    /\ used(probe.pos) /\ SameKey(data[probe.pos])
    /\ Inserted(IF probe.found THEN probe.cached ELSE probe.pos, probe.found)
    /\ UNCHANGED <<data, capacity, ret>>

\* the slot's entry is closer to its preferred position than ours: swap them
Richer == probe_distance(data[probe.pos].hash, probe.pos) < probe.dist

ProbeSteal ==
    /\ pc = "probe"
    /\ used(probe.pos) /\ ~SameKey(data[probe.pos])
    /\ Richer
    /\ data' = [data EXCEPT ![probe.pos] = probe.entry]
    /\ probe' = [entry  |-> data[probe.pos],
                 pos    |-> succ(probe.pos),
                 dist   |-> probe_distance(data[probe.pos].hash, probe.pos) + 1,
                 found  |-> TRUE,
                 cached |-> IF probe.found THEN probe.cached ELSE probe.pos]
    /\ UNCHANGED <<capacity, size, pc, call, old, src, ret>>

ProbeNext ==
    /\ pc = "probe"
    /\ used(probe.pos) /\ ~SameKey(data[probe.pos])
    /\ ~Richer
    /\ probe' = [probe EXCEPT !.pos = succ(@), !.dist = @ + 1]
    /\ UNCHANGED <<data, capacity, size, pc, call, old, src, ret>>

\* rehash hands the next used node of the old storage to insert_entry.
RehashNext ==
    /\ pc = "rehash"
    /\ \E p \in UsedSlots(old.nodes) :
         /\ IsNextUsed(old, p)
         /\ old' = [old EXCEPT !.next = p]
    /\ pc' = "enter"
    /\ UNCHANGED <<data, capacity, size, call, probe, src, ret>>

\* rehash frees the old storage; the insertion that needed room goes on.
RehashDone ==
    /\ pc = "rehash"
    /\ AtEnd(old)
    /\ old' = NoWalk
    /\ probe' = StartProbe(OuterEntry, capacity)
    /\ pc' = "probe"
    /\ UNCHANGED <<data, capacity, size, call, src, ret>>

------------------------------------------------------------------------------
(* Backward-shift deletion. *)

\* the slot before pos, which the erased or shifted entry has left free
Hole == probe.pos

\* Mutation: entries are shifted back past their preferred position.
MustShift_all == used(succ(Hole))

\* Mutation: erase frees the slot and shifts nothing.
MustShift_none == FALSE

MustShift ==
    /\ used(succ(Hole))
    /\ probe_distance(data[succ(Hole)].hash, succ(Hole)) # 0

ShiftBack ==
    /\ pc = "shift"
    /\ MustShift
    /\ data' = [data EXCEPT ![Hole] = data[succ(Hole)], ![succ(Hole)] = Free]
    /\ probe' = [probe EXCEPT !.pos = succ(@)]
    /\ UNCHANGED <<capacity, size, pc, call, old, src, ret>>

ShiftDone ==
    /\ pc = "shift"
    /\ ~MustShift
    /\ size' = size - 1
    /\ Return
    /\ UNCHANGED <<data, capacity, old, src, ret>>

------------------------------------------------------------------------------
(* Table(const Table &): reserve(size), then insert every entry the        *)
(* iteration visits.  The table of the model becomes the copy.             *)
(* An empty table that has storage is left out: its iteration starts at a  *)
(* slot that is free, and the copy of that slot is undefined.              *)

Copy ==
    /\ pc = "idle"
    /\ size > 0
    /\ call' = [Idle EXCEPT !.op = "copy"]
    /\ src' = [nodes |-> data, next |-> 0]
    /\ \E p \in Power2 : IsNextPower2(p, size) /\ capacity' = p
    /\ data' = allocate(capacity')
    /\ size' = 0
    /\ pc' = "copy"
    /\ UNCHANGED <<probe, old, ret>>

\* The copy of a table that never had an entry has one slot: next_power2(0) = 1.
CopyEmpty ==
    /\ pc = "idle"
    /\ size = 0 /\ capacity = 0
    /\ \E p \in Power2 : IsNextPower2(p, 0) /\ capacity' = p
    /\ data' = allocate(capacity')
    /\ UNCHANGED <<size, pc, call, probe, old, src, ret>>

CopyNext ==
    /\ pc = "copy"
    /\ \E p \in UsedSlots(src.nodes) :
         /\ IsNextUsed(src, p)
         /\ src' = [src EXCEPT !.next = p]
    /\ pc' = "enter"
    /\ UNCHANGED <<data, capacity, size, call, probe, old, ret>>

CopyDone ==
    /\ pc = "copy"
    /\ AtEnd(src)
    /\ src' = NoWalk
    /\ Return
    /\ UNCHANGED <<data, capacity, size, old, ret>>

------------------------------------------------------------------------------
(* clear() destroys the entries and resets the size, not the hashes. *)

Clear ==
    /\ pc = "idle"
    /\ size' = 0
    /\ UNCHANGED <<data, capacity, pc, call, probe, old, src, ret>>

------------------------------------------------------------------------------

\* One step of the loops inside a public call.
Internal ==
    \/ LookupMiss \/ LookupHit \/ LookupNext \/ Assign
    \/ Grow \/ Enter \/ ProbeFree \/ ProbeSame \/ ProbeSteal \/ ProbeNext
    \/ RehashNext \/ RehashDone
    \/ ShiftBack \/ ShiftDone
    \/ CopyNext \/ CopyDone

Next ==
    \/ \E r \in Lookups : BeginLookup(r)
    \/ \E r \in Inserts : BeginInsert(r)
    \/ Copy \/ CopyEmpty
    \/ Internal

NextWithClear == Next \/ Clear

Spec == Init /\ [][Next]_vars

SpecWithClear == Init /\ [][NextWithClear]_vars

\* The engine is single-threaded: once called, an operation runs on.
Fairness == WF_vars(Internal)

FairSpec == Spec /\ Fairness

FairSpecWithClear == SpecWithClear /\ Fairness

------------------------------------------------------------------------------
(* Properties. *)

Node == Entry \cup {Free}

Locals == [entry : Node, pos : Nat, dist : Nat, found : BOOLEAN, cached : Nat]

Copying == [Idle EXCEPT !.op = "copy"]

\* The types of the variables.
TypeOK ==
    /\ capacity \in Nat
    /\ data \in [0..capacity - 1 -> Node]
    /\ size \in Nat
    /\ pc \in {"idle", "lookup", "enter", "probe", "assign", "rehash", "shift", "copy"}
    /\ call \in Request \cup {Idle, Copying}
    /\ probe \in Locals
    /\ old.next \in Nat /\ \A p \in DOMAIN old.nodes : old.nodes[p] \in Node
    /\ src.next \in Nat /\ \A p \in DOMAIN src.nodes : src.nodes[p] \in Node
    /\ ret \in Value \cup {Fresh, Absent}

Distance(p) == probe_distance(data[p].hash, p)

pred(p) == IF p = 0 THEN capacity - 1 ELSE p - 1

\* No entry is further from its preferred position than one step more than the
\* entry before it, and none leaves a free slot behind on its way: lookup may
\* stop at the first free slot.  It holds while insert_entry and rehash probe;
\* a backward shift breaks it at the hole only.
ProbeOrder ==
    \A p \in UsedSlots(data) :
       (Distance(p) > 0 /\ ~(pc = "shift" /\ pred(p) = Hole))
          => used(pred(p)) /\ Distance(p) <= Distance(pred(p)) + 1

\* insert_entry holds an entry of the table: one it displaced, or one rehash moves
Carrying == pc = "probe" /\ (probe.found \/ Moving)

\* Where every entry of the table is at this moment: in a slot, in the hands of
\* insert_entry, or still in the storage a rehash moves out of.
Held == {data[p] : p \in UsedSlots(data)}
          \cup (IF Carrying THEN {probe.entry} ELSE {})
          \cup {old.nodes[p] : p \in UsedSlots(old.nodes) \ (IF Carrying THEN {old.next} ELSE {})}

\* A key is in one place only, whatever loop is running: an insertion never
\* places a second entry for a key that the table holds.
UniqueKeys ==
    /\ \A p, q \in UsedSlots(data) : data[p].key = data[q].key => p = q
    /\ Carrying =>
          \A p \in UsedSlots(data) : data[p].key # probe.entry.key

\* The size is the number of entries, wherever they are.
SizeCountsEntries ==
    pc \in {"idle", "lookup", "enter", "assign", "rehash", "copy"} =>
       size = Cardinality(UsedSlots(data)) + Cardinality(UsedSlots(old.nodes))

\* The maximum load factor is kept: no more slots are used than it allows, so
\* that both probing loops meet a free slot.
LoadFactorKept == Cardinality(UsedSlots(data)) <= max_load(capacity)

\* The entries that a rehash reinserts never make the table grow again, which
\* would move them out of a storage that is itself being filled.
NoNestedRehash == (pc = "enter" /\ Moving) => ~Overfull

\* insert returns the position of the entry it was given, also when it displaced
\* others: operator[] writes the value through it.
AssignsTheKey == pc = "assign" => data[probe.pos].key = call.key

\* Every call returns.
CallsReturn == []<>(pc = "idle")

\* Hashmap implements a finite map: every call has the effect on the map that was
\* asked for, in one step, and answers from the map.  The entry of a key counts
\* from the moment it is assigned, wherever it is being moved.
Contents == IF src # NoWalk THEN {src.nodes[p] : p \in UsedSlots(src.nodes)} ELSE Held

Map == INSTANCE HashmapAbstract WITH
         dict <- [k \in Key |->
                   IF \E e \in Contents : e.key = k /\ e.val # Fresh
                   THEN (CHOOSE e \in Contents : e.key = k /\ e.val # Fresh).val
                   ELSE Absent],
         req <- call

ImplementsMap == Map!AbstractSpec

==============================================================================
