---------------------------- MODULE HashmapProofs ----------------------------
(* What holds of Hashmap for all keys, values, hash codes and capacities. *)
EXTENDS Hashmap, FiniteSetTheorems, TLAPS

\* The storage a rehash or a copy walks through.
Walk == UNION {[nodes : [0..n - 1 -> Node], next : Nat] : n \in Nat}

Position == 0..capacity - 1

\* What each loop relies on: its position is one of the table's, and there is an
\* entry where it takes one from.
Control ==
    /\ pc = "lookup" => call.op \in {"put", "erase", "find"}
                        /\ (size > 0 => probe.pos \in Position)
    /\ pc \in {"enter", "probe", "rehash"} => call.op \in {"put", "insert", "copy"}
    /\ pc \in {"enter", "probe", "rehash"} /\ call.op = "copy"
         => src.next \in UsedSlots(src.nodes)
    /\ pc \in {"enter", "probe"} /\ Moving => old.next \in UsedSlots(old.nodes)
    /\ pc = "probe" => /\ probe.entry \in Entry
                       /\ probe.pos \in Position
                       /\ probe.found => probe.cached \in Position /\ used(probe.cached)
    /\ pc = "assign" => call.op = "put" /\ probe.pos \in Position /\ used(probe.pos)
    /\ pc = "shift" => size > 0 /\ probe.pos \in Position
    /\ pc = "copy" => call.op = "copy"
    /\ pc \in {"idle", "lookup", "assign", "shift", "copy"} => ~Moving

\* The load factor leaves room for one more entry wherever one is going to be
\* inserted.  A rehash has to double the capacity for that, and to start from a
\* table that was not loaded beyond the limit.
Room ==
    /\ size <= max_load(capacity)
    /\ pc \in {"rehash", "probe"} \/ (pc = "enter" /\ Moving)
         => size + 1 <= max_load(capacity)

IInv == TypeOK /\ old \in Walk /\ src \in Walk /\ Control /\ Room

------------------------------------------------------------------------------
(* Facts about the operators. *)

\* The remainder is a position.
LEMMA Remainder ==
    ASSUME NEW a \in Nat, NEW b \in Nat \ {0}
    PROVE  a % b \in 0..b - 1
OBVIOUS

\* Hashes are never 0, and each key has an entry.
LEMMA EntryType ==
    ASSUME NEW k \in Key, NEW v \in Value \cup {Fresh}
    PROVE  hash_entry(k) \in Nat \ {0} /\ NewEntry(k, v) \in Entry
BY HashCodeIsHash DEF hash_entry, NewEntry, Entry

\* Where the probing for an entry starts.
LEMMA StartProbeType ==
    ASSUME NEW e \in Entry, NEW cap \in Nat \ {0}
    PROVE  /\ StartProbe(e, cap) \in Locals
           /\ StartProbe(e, cap).entry = e
           /\ StartProbe(e, cap).pos \in 0..cap - 1
           /\ ~StartProbe(e, cap).found
<1>1. get_position(e.hash, cap) \in 0..cap - 1
  BY Remainder DEF Entry, get_position
<1>2. QED
  BY <1>1 DEF StartProbe, Locals, Node

\* The maximal load of a table.
LEMMA MaxLoad ==
    /\ max_load(0) = 0
    /\ \A c \in Nat : max_load(c) \in Nat
    /\ 1 <= max_load(8)
    /\ \A c, n \in Nat : n <= max_load(c) /\ n > 0 => n + 1 <= max_load(c * 2)
BY DEF max_load, LoadFactor

\* A table with entries has positions.
LEMMA Occupied ==
    ASSUME IInv, size > 0
    PROVE  capacity \in Nat \ {0}
BY MaxLoad DEF IInv, Room, TypeOK

\* The next position is one of the table's.
LEMMA NextPosition ==
    ASSUME capacity \in Nat, NEW p \in Position
    PROVE  succ(p) \in Position
BY DEF Position, succ

\* The distance is a natural number.
LEMMA DistanceType ==
    ASSUME capacity \in Nat, NEW p \in Position, NEW e \in Entry
    PROVE  probe_distance(e.hash, p) \in Nat
<1>1. capacity \in Nat \ {0}
  BY DEF Position
<1>2. get_position(e.hash, capacity) \in 0..capacity - 1
  BY <1>1, Remainder DEF Entry, get_position
<1>3. p + capacity - get_position(e.hash, capacity) \in Nat
  BY <1>1, <1>2 DEF Position
<1>4. QED
  BY <1>1, <1>3, Remainder DEF probe_distance

\* The arguments of the call.
LEMMA CallFields ==
    ASSUME TypeOK
    PROVE  /\ call.op \in {"put", "insert"} => call.key \in Key /\ call.val \in Value
           /\ call.op \in {"erase", "find"} => call.key \in Key
BY DEF TypeOK, Request, Lookups, Inserts, Idle, Copying

\* An empty table can be walked through, and so can the table itself.
LEMMA WalkType ==
    ASSUME TypeOK
    PROVE  NoWalk \in Walk /\ [nodes |-> data, next |-> 0] \in Walk
<1>1. NoWalk \in [nodes : [0..0 - 1 -> Node], next : Nat]
  BY DEF NoWalk, allocate
<1>2. [nodes |-> data, next |-> 0] \in [nodes : [0..capacity - 1 -> Node], next : Nat]
  BY DEF TypeOK
<1>3. QED
  BY <1>1, <1>2 DEF Walk, TypeOK

\* Walking and taking entries out keep the type of a walk.
LEMMA WalkStep ==
    ASSUME NEW w \in Walk
    PROVE  /\ w.next \in Nat
           /\ \A p \in DOMAIN w.nodes : p \in Nat /\ w.nodes[p] \in Node
           /\ \A p \in DOMAIN w.nodes : [w EXCEPT !.next = p] \in Walk
           /\ [w EXCEPT !.next = @ + 1] \in Walk
           /\ [w EXCEPT !.nodes[w.next] = Free] \in Walk
<1>1. PICK n \in Nat : w \in [nodes : [0..n - 1 -> Node], next : Nat]
  BY DEF Walk
<1>2. /\ w.next \in Nat
      /\ \A p \in DOMAIN w.nodes : p \in Nat /\ w.nodes[p] \in Node
  BY <1>1
<1>3. \A p \in DOMAIN w.nodes : [w EXCEPT !.next = p] \in Walk
  BY <1>1 DEF Walk
<1>4. [w EXCEPT !.next = @ + 1] \in Walk
  BY <1>1 DEF Walk
<1>5. [w EXCEPT !.nodes[w.next] = Free] \in Walk
  BY <1>1 DEF Walk, Node
<1>6. QED
  BY <1>2, <1>3, <1>4, <1>5

\* A used slot of a walk holds an entry.
LEMMA UsedEntry ==
    ASSUME NEW w \in Walk, NEW p \in UsedSlots(w.nodes)
    PROVE  w.nodes[p] \in Entry
BY WalkStep DEF UsedSlots, Node

\* The entry that is to be inserted into the table exists.
LEMMA OuterEntryType ==
    ASSUME IInv, pc \in {"enter", "rehash"}
    PROVE  OuterEntry \in Entry
<1>1. CASE call.op = "put"
  BY <1>1, CallFields, EntryType DEF IInv, OuterEntry
<1>2. CASE call.op = "insert"
  BY <1>2, CallFields, EntryType DEF IInv, OuterEntry
<1>3. CASE call.op = "copy"
  BY <1>3, UsedEntry DEF IInv, Control, OuterEntry
<1>4. QED
  BY <1>1, <1>2, <1>3 DEF IInv, Control

\* The locals of an operation that has returned.
LEMMA NoProbeType == NoProbe \in Locals
BY DEF NoProbe, Locals, Node

\* Returning to the caller keeps everything that does not depend on the answer.
LEMMA Returned ==
    ASSUME TypeOK, Room, ~Moving, old \in Walk, src \in Walk, Return,
           old' = old, src' = src, size' = size, capacity' = capacity,
           data' \in [0..capacity - 1 -> Node], ret' \in Value \cup {Fresh, Absent}
    PROVE  IInv'
<1>1. pc' = "idle" /\ call' = Idle /\ probe' \in Locals
  BY NoProbeType DEF Return
<1>2. TypeOK'
  BY <1>1 DEF TypeOK
<1>3. Control' /\ Room'
  BY <1>1 DEF Control, Room, Moving
<1>4. QED
  BY <1>2, <1>3 DEF IInv

------------------------------------------------------------------------------
(* The steps. *)

\* find, and the calls that begin with it.
LEMMA LookupStep ==
    ASSUME IInv, LookupMiss \/ LookupHit \/ LookupNext \/ Assign
    PROVE  IInv'
<1> USE DEF IInv
<1>a. ~Moving
  BY DEF LookupMiss, LookupHit, LookupNext, Assign, Control
<1>1. CASE LookupMiss
  <2>1. CASE Return
    <3>1. ret' \in Value \cup {Fresh, Absent}
      BY <1>1 DEF LookupMiss, TypeOK
    <3>2. QED
      BY <1>a, <1>1, <2>1, <3>1, Returned DEF LookupMiss, TypeOK
  <2>2. CASE call.op = "put" /\ pc' = "enter" /\ UNCHANGED <<call, probe, ret>>
    <3>1. TypeOK'
      BY <1>1, <2>2 DEF LookupMiss, TypeOK
    <3>2. Control' /\ Room' /\ old' \in Walk /\ src' \in Walk
      BY <1>a, <1>1, <2>2 DEF LookupMiss, Control, Room, Moving
    <3>3. QED
      BY <3>1, <3>2
  <2>3. QED
    BY <1>1, <2>1, <2>2 DEF LookupMiss
<1>2. CASE LookupHit
  <2>1. size > 0 /\ probe.pos \in Position /\ used(probe.pos)
    BY <1>2 DEF LookupHit, LookupFails, Control, TypeOK
  <2>2. data[probe.pos] \in Entry
    BY <2>1 DEF TypeOK, Position, used, Node
  <2>3. CASE call.op = "put" /\ pc' = "assign" /\ UNCHANGED <<data, call, probe, ret>>
    <3>1. TypeOK'
      BY <1>2, <2>3 DEF LookupHit, TypeOK
    <3>2. Control' /\ Room' /\ old' \in Walk /\ src' \in Walk
      BY <1>a, <1>2, <2>1, <2>3 DEF LookupHit, Control, Room, Moving, Position, used
    <3>3. QED
      BY <3>1, <3>2
  <2>4. CASE /\ data' = [data EXCEPT ![probe.pos] = Free]
             /\ pc' = "shift"
             /\ UNCHANGED <<call, probe, ret>>
    <3>1. data' \in [0..capacity - 1 -> Node]
      BY <2>4 DEF TypeOK, Node
    <3>2. TypeOK'
      BY <1>2, <2>4, <3>1 DEF LookupHit, TypeOK
    <3>3. Control' /\ Room' /\ old' \in Walk /\ src' \in Walk
      BY <1>a, <1>2, <2>1, <2>4 DEF LookupHit, Control, Room, Moving, Position
    <3>4. QED
      BY <3>2, <3>3
  <2>5. CASE ret' = data[probe.pos].val /\ Return /\ UNCHANGED data
    <3>1. ret' \in Value \cup {Fresh, Absent}
      BY <2>2, <2>5 DEF Entry
    <3>2. QED
      BY <1>a, <1>2, <2>5, <3>1, Returned DEF LookupHit, TypeOK
  <2>6. QED
    BY <1>2, <2>3, <2>4, <2>5 DEF LookupHit
<1>3. CASE LookupNext
  <2>1. size > 0 /\ probe.pos \in Position
    BY <1>3 DEF LookupNext, LookupFails, Control, TypeOK
  <2>2. succ(probe.pos) \in Position
    BY <2>1, NextPosition DEF TypeOK
  <2>3. probe' = [probe EXCEPT !.pos = succ(probe.pos)] /\ probe'.pos = succ(probe.pos)
    BY <1>3 DEF LookupNext, TypeOK, Locals
  <2>4. TypeOK'
    BY <1>3, <2>2, <2>3 DEF LookupNext, TypeOK, Locals, Position
  <2>5. Control' /\ Room' /\ old' \in Walk /\ src' \in Walk
    BY <1>a, <1>3, <2>2, <2>3 DEF LookupNext, Control, Room, Moving, Position
  <2>6. QED
    BY <2>4, <2>5
<1>4. CASE Assign
  <2>1. probe.pos \in Position /\ used(probe.pos) /\ call.val \in Value
    BY <1>4, CallFields DEF Assign, Control
  <2>2. data[probe.pos] \in Entry
    BY <2>1 DEF TypeOK, Position, used, Node
  <2>3. [data[probe.pos] EXCEPT !.val = call.val] \in Node
    BY <2>1, <2>2 DEF Entry, Node
  <2>4. data' \in [0..capacity - 1 -> Node]
    BY <1>4, <2>3 DEF Assign, TypeOK
  <2>5. QED
    BY <1>a, <1>4, <2>4, Returned DEF Assign, TypeOK
<1>5. QED
  BY <1>1, <1>2, <1>3, <1>4

\* ensure_capacity, and the loop of rehash.
LEMMA GrowStep ==
    ASSUME IInv, Grow \/ Enter \/ RehashNext \/ RehashDone
    PROVE  IInv'
<1> USE DEF IInv
<1>1. CASE Grow
  <2>1. new_capacity \in Nat \ {0} /\ size + 1 <= max_load(new_capacity)
    <3>1. CASE size = 0
      BY <3>1, MaxLoad DEF new_capacity
    <3>2. CASE size # 0
      <4>1. size > 0 /\ size \in Nat /\ capacity \in Nat \ {0} /\ size <= max_load(capacity)
        BY <3>2, Occupied DEF TypeOK, Room
      <4>2. QED
        BY <3>2, <4>1, MaxLoad DEF new_capacity
    <3>3. QED
      BY <3>1, <3>2
  <2>2. old' \in Walk /\ src' \in Walk
    BY <1>1, WalkType DEF Grow
  <2>3. TypeOK'
    <3>1. data' \in [0..capacity' - 1 -> Node] /\ capacity' \in Nat
      BY <1>1, <2>1 DEF Grow, allocate, Node
    <3>2. old'.next \in Nat /\ \A p \in DOMAIN old'.nodes : old'.nodes[p] \in Node
      BY <2>2, WalkStep
    <3>3. QED
      BY <1>1, <3>1, <3>2 DEF Grow, TypeOK
  <2>4. Control' /\ Room'
    BY <1>1, <2>1, MaxLoad DEF Grow, Control, Room, TypeOK
  <2>5. QED
    BY <2>2, <2>3, <2>4
<1>2. CASE Enter
  <2> DEFINE e == IF Moving THEN old.nodes[old.next] ELSE OuterEntry
  <2>1. e \in Entry
    BY <1>2, OuterEntryType, UsedEntry DEF Enter, Control
  <2>2. capacity \in Nat \ {0} /\ size + 1 <= max_load(capacity)
    <3>1. /\ size \in Nat /\ capacity \in Nat
          /\ ~(size + 1 > max_load(capacity)) /\ max_load(capacity) \in Nat
      BY <1>2, MaxLoad DEF Enter, Overfull, TypeOK
    <3>2. capacity # 0
      BY <3>1, MaxLoad
    <3>3. QED
      BY <3>1, <3>2
  <2>3. probe' = StartProbe(e, capacity) /\ probe' \in Locals
        /\ probe'.entry = e /\ probe'.pos \in Position /\ ~probe'.found
    BY <1>2, <2>1, <2>2, StartProbeType DEF Enter, Position
  <2>4. TypeOK'
    BY <1>2, <2>3 DEF Enter, TypeOK
  <2>5. Control' /\ Room' /\ old' \in Walk /\ src' \in Walk
    BY <1>2, <2>1, <2>2, <2>3 DEF Enter, Control, Room, Moving, Position
  <2>6. QED
    BY <2>4, <2>5
<1>3. CASE RehashNext
  <2>1. PICK p \in UsedSlots(old.nodes) : old' = [old EXCEPT !.next = p]
    BY <1>3 DEF RehashNext
  <2>2. old' \in Walk /\ old'.next = p /\ old'.nodes = old.nodes
    <3>1. p \in DOMAIN old.nodes
      BY DEF UsedSlots
    <3>2. QED
      BY <2>1, <3>1, WalkStep DEF Walk
  <2>3. TypeOK'
    <3>1. old'.next \in Nat /\ \A q \in DOMAIN old'.nodes : old'.nodes[q] \in Node
      BY <2>2, WalkStep
    <3>2. QED
      BY <1>3, <3>1 DEF RehashNext, TypeOK
  <2>4. Control' /\ Room'
    BY <1>3, <2>2 DEF RehashNext, Control, Room, Moving
  <2>5. QED
    BY <1>3, <2>2, <2>3, <2>4 DEF RehashNext
<1>4. CASE RehashDone
  <2>1. OuterEntry \in Entry
    BY <1>4, OuterEntryType DEF RehashDone
  <2>2. capacity \in Nat \ {0} /\ size + 1 <= max_load(capacity)
    BY <1>4, MaxLoad DEF RehashDone, Room, TypeOK
  <2>3. probe' = StartProbe(OuterEntry, capacity) /\ probe' \in Locals
        /\ probe'.entry = OuterEntry /\ probe'.pos \in Position /\ ~probe'.found
    BY <1>4, <2>1, <2>2, StartProbeType DEF RehashDone, Position
  <2>4. old' \in Walk /\ src' \in Walk /\ old' = NoWalk
    BY <1>4, WalkType DEF RehashDone
  <2>5. TypeOK'
    <3>1. old'.next \in Nat /\ \A q \in DOMAIN old'.nodes : old'.nodes[q] \in Node
      BY <2>4, WalkStep
    <3>2. QED
      BY <1>4, <2>3, <3>1 DEF RehashDone, TypeOK
  <2>6. Control' /\ Room'
    BY <1>4, <2>1, <2>2, <2>3, <2>4 DEF RehashDone, Control, Room, Moving, Position
  <2>7. QED
    BY <2>4, <2>5, <2>6
<1>5. QED
  BY <1>1, <1>2, <1>3, <1>4

\* insert_entry: the slots it probes.
LEMMA ProbeStep ==
    ASSUME IInv, ProbeSteal \/ ProbeNext
    PROVE  IInv'
<1> USE DEF IInv
<1>1. /\ probe.pos \in Position /\ probe.entry \in Entry /\ used(probe.pos)
      /\ probe.found => probe.cached \in Position /\ used(probe.cached)
      /\ pc = "probe" /\ probe \in Locals /\ capacity \in Nat
  BY DEF ProbeSteal, ProbeNext, Control, TypeOK
<1>2. data[probe.pos] \in Entry /\ succ(probe.pos) \in Position
  BY <1>1, NextPosition DEF TypeOK, Position, used, Node
<1>3. CASE ProbeSteal
  <2>1. probe_distance(data[probe.pos].hash, probe.pos) \in Nat
    BY <1>1, <1>2, DistanceType
  <2>2. data' = [data EXCEPT ![probe.pos] = probe.entry]
    BY <1>3 DEF ProbeSteal
  <2>3. data' \in [0..capacity - 1 -> Node]
    BY <1>1, <2>2 DEF TypeOK, Node
  <2>4. /\ probe' \in Locals
        /\ probe'.entry = data[probe.pos] /\ probe'.pos = succ(probe.pos)
        /\ probe'.cached = IF probe.found THEN probe.cached ELSE probe.pos
    BY <1>1, <1>2, <1>3, <2>1 DEF ProbeSteal, Locals, Node, Position
  <2>5. TypeOK'
    BY <1>3, <2>3, <2>4 DEF ProbeSteal, TypeOK
  <2>6. probe'.cached \in Position /\ data'[probe'.cached] # Free
    <3>1. data'[probe.pos] # Free
      BY <1>1, <2>2, FreeIsNoEntry DEF TypeOK, Position
    <3>2. \A q \in Position : used(q) => data'[q] # Free
      BY <2>2, <3>1 DEF TypeOK, Position, used
    <3>3. QED
      BY <1>1, <2>4, <3>1, <3>2
  <2>7. Control' /\ Room' /\ old' \in Walk /\ src' \in Walk
    BY <1>1, <1>2, <1>3, <2>4, <2>6 DEF ProbeSteal, Control, Room, Moving, Position, used
  <2>8. QED
    BY <2>5, <2>7
<1>4. CASE ProbeNext
  <2>1. /\ probe' \in Locals
        /\ probe'.entry = probe.entry /\ probe'.pos = succ(probe.pos)
        /\ probe'.found = probe.found /\ probe'.cached = probe.cached
    <3> DEFINE d == probe.dist + 1
               s == succ(probe.pos)
    <3>1. d \in Nat /\ s \in Nat
      BY <1>1, <1>2 DEF Locals, Position
    <3>2. probe' = [probe EXCEPT !.pos = s, !.dist = d]
      BY <1>4 DEF ProbeNext
    <3> HIDE DEF d, s
    <3>3. /\ probe' \in Locals /\ probe'.entry = probe.entry /\ probe'.pos = s
          /\ probe'.found = probe.found /\ probe'.cached = probe.cached
      BY <1>1, <3>1, <3>2, Zenon DEF Locals
    <3>4. QED
      BY <3>3 DEF s
  <2>2. TypeOK'
    BY <1>4, <2>1 DEF ProbeNext, TypeOK
  <2>3. Control' /\ Room' /\ old' \in Walk /\ src' \in Walk
    BY <1>1, <1>2, <1>4, <2>1 DEF ProbeNext, Control, Room, Moving, Position, used
  <2>4. QED
    BY <2>2, <2>3
<1>5. QED
  BY <1>3, <1>4

\* insert_entry returns to rehash, or to the insertion it belongs to.
LEMMA InsertedStep ==
    ASSUME IInv, pc = "probe",
           NEW pos \in Position, NEW inserted \in BOOLEAN, Inserted(pos, inserted),
           data' \in [0..capacity - 1 -> Node], data'[pos] # Free,
           capacity' = capacity, ret' = ret
    PROVE  IInv'
<1> USE DEF IInv
<1>1. /\ size \in Nat /\ size + 1 <= max_load(capacity)
      /\ call.op \in {"put", "insert", "copy"}
  BY DEF TypeOK, Room, Control
<1>2. CASE Moving
  <2>1. /\ pc' = "rehash" /\ old' = [old EXCEPT !.nodes[old.next] = Free]
        /\ probe' = NoProbe /\ UNCHANGED <<size, call, src>>
    BY <1>2 DEF Inserted
  <2>2. old' \in Walk
    BY <2>1, WalkStep
  <2>3. old'.next \in Nat /\ \A p \in DOMAIN old'.nodes : old'.nodes[p] \in Node
    BY <2>2, WalkStep
  <2>4. TypeOK'
    BY <2>1, <2>3, NoProbeType DEF TypeOK
  <2>5. Control' /\ Room' /\ src' \in Walk
    BY <2>1 DEF Control, Room
  <2>6. QED
    BY <2>2, <2>4, <2>5
<1>3. CASE ~Moving
  <2>1. size' \in Nat /\ size' <= max_load(capacity)
    <3>1. size' = IF inserted THEN size + 1 ELSE size
      BY <1>3 DEF Inserted
    <3>2. max_load(capacity) \in Nat
      BY MaxLoad DEF TypeOK
    <3>3. size' \in {size, size + 1}
      BY <3>1
    <3>4. QED
      BY <1>1, <3>2, <3>3
  <2>2. CASE call.op = "put"
    <3>1. /\ pc' = "assign" /\ probe' = [NoProbe EXCEPT !.pos = pos]
          /\ UNCHANGED <<call, src, old>>
      BY <1>3, <2>2 DEF Inserted
    <3>2. probe' \in Locals /\ probe'.pos = pos
      <4>1. pos \in Nat
        BY DEF Position, TypeOK
      <4>2. QED
        BY <3>1, <4>1, NoProbeType DEF Locals
    <3>3. TypeOK'
      BY <2>1, <3>1, <3>2 DEF TypeOK
    <3>4. Control' /\ Room' /\ old' \in Walk /\ src' \in Walk
      BY <1>3, <2>1, <2>2, <3>1, <3>2 DEF Control, Room, Moving, Position, used
    <3>5. QED
      BY <3>3, <3>4
  <2>3. CASE call.op = "insert"
    <3>1. pc' = "idle" /\ call' = Idle /\ probe' = NoProbe /\ UNCHANGED <<src, old>>
      BY <1>3, <2>3 DEF Inserted, Return
    <3>2. TypeOK'
      BY <2>1, <3>1, NoProbeType DEF TypeOK
    <3>3. Control' /\ Room' /\ old' \in Walk /\ src' \in Walk
      BY <1>3, <2>1, <3>1 DEF Control, Room, Moving
    <3>4. QED
      BY <3>2, <3>3
  <2>4. CASE call.op = "copy"
    <3>1. /\ pc' = "copy" /\ src' = [src EXCEPT !.next = @ + 1]
          /\ probe' = NoProbe /\ UNCHANGED <<call, old>>
      BY <1>3, <2>4 DEF Inserted
    <3>2. src' \in Walk
      BY <3>1, WalkStep
    <3>3. src'.next \in Nat /\ \A p \in DOMAIN src'.nodes : src'.nodes[p] \in Node
      BY <3>2, WalkStep
    <3>4. TypeOK'
      BY <2>1, <3>1, <3>3, NoProbeType DEF TypeOK
    <3>5. Control' /\ Room' /\ old' \in Walk
      BY <1>3, <2>1, <2>4, <3>1 DEF Control, Room, Moving
    <3>6. QED
      BY <3>2, <3>4, <3>5
  <2>5. QED
    BY <1>1, <2>2, <2>3, <2>4
<1>4. QED
  BY <1>2, <1>3

\* insert_entry finds a free slot, or the key.
LEMMA PlaceStep ==
    ASSUME IInv, ProbeFree \/ ProbeSame
    PROVE  IInv'
<1> USE DEF IInv
<1> DEFINE pos == IF probe.found THEN probe.cached ELSE probe.pos
<1>1. /\ probe.pos \in Position /\ probe.entry \in Entry /\ probe.found \in BOOLEAN
      /\ probe.found => probe.cached \in Position /\ used(probe.cached)
      /\ pc = "probe" /\ capacity' = capacity /\ ret' = ret
  BY DEF ProbeFree, ProbeSame, Control, TypeOK, Locals
<1>2. pos \in Position
  BY <1>1
<1>3. CASE ProbeFree
  <2>1. data' = [data EXCEPT ![probe.pos] = probe.entry]
    BY <1>3 DEF ProbeFree
  <2>2. data' \in [0..capacity - 1 -> Node]
    BY <1>1, <2>1 DEF TypeOK, Node
  <2>3. data'[pos] # Free
    BY <1>1, <2>1, FreeIsNoEntry DEF TypeOK, Position, used
  <2>4. Inserted(pos, TRUE)
    BY <1>3 DEF ProbeFree
  <2>5. QED
    BY <1>1, <1>2, <2>2, <2>3, <2>4, InsertedStep
<1>4. CASE ProbeSame
  <2>1. data' = data /\ Inserted(pos, probe.found) /\ used(probe.pos)
    BY <1>4 DEF ProbeSame
  <2>2. data' \in [0..capacity - 1 -> Node] /\ data'[pos] # Free
    BY <1>1, <2>1 DEF TypeOK, used
  <2>3. QED
    BY <1>1, <1>2, <2>1, <2>2, InsertedStep
<1>5. QED
  BY <1>3, <1>4

\* Backward-shift deletion.
LEMMA ShiftStep ==
    ASSUME IInv, ShiftBack \/ ShiftDone
    PROVE  IInv'
<1> USE DEF IInv
<1>1. /\ size \in Nat /\ size > 0 /\ probe.pos \in Position /\ ~Moving
      /\ capacity \in Nat /\ size <= max_load(capacity) /\ max_load(capacity) \in Nat
  BY MaxLoad DEF ShiftBack, ShiftDone, Control, TypeOK, Room
<1>2. succ(probe.pos) \in Position
  BY <1>1, NextPosition
<1>3. CASE ShiftBack
  <2>1. data' \in [0..capacity - 1 -> Node]
    BY <1>1, <1>2, <1>3 DEF ShiftBack, Hole, TypeOK, Position, Node
  <2>2. probe' \in Locals /\ probe'.pos = succ(probe.pos)
    BY <1>2, <1>3 DEF ShiftBack, TypeOK, Locals, Position
  <2>3. TypeOK'
    BY <1>3, <2>1, <2>2 DEF ShiftBack, TypeOK
  <2>4. Control' /\ Room' /\ old' \in Walk /\ src' \in Walk
    BY <1>1, <1>2, <1>3, <2>2 DEF ShiftBack, Control, Room, Moving, Position
  <2>5. QED
    BY <2>3, <2>4
<1>4. CASE ShiftDone
  <2>1. size' \in Nat /\ size' <= max_load(capacity)
    BY <1>1, <1>4 DEF ShiftDone
  <2>2. /\ pc' = "idle" /\ call' = Idle /\ probe' = NoProbe
        /\ UNCHANGED <<data, capacity, old, src, ret>>
    BY <1>4 DEF ShiftDone, Return
  <2>3. TypeOK'
    BY <2>1, <2>2, NoProbeType DEF TypeOK
  <2>4. Control' /\ Room' /\ old' \in Walk /\ src' \in Walk
    BY <1>1, <2>1, <2>2 DEF Control, Room, Moving
  <2>5. QED
    BY <2>3, <2>4
<1>5. QED
  BY <1>3, <1>4

\* The calls start, and Table(const Table &) walks through the table it copies.
LEMMA CallStep ==
    ASSUME IInv,
           \/ \E r \in Lookups : BeginLookup(r)
           \/ \E r \in Inserts : BeginInsert(r)
           \/ Copy \/ CopyEmpty \/ CopyNext \/ CopyDone
    PROVE  IInv'
<1> USE DEF IInv
<1>a. /\ ~Moving /\ size \in Nat /\ capacity \in Nat /\ probe \in Locals
      /\ size <= max_load(capacity)
  BY DEF BeginLookup, BeginInsert, Copy, CopyEmpty, CopyNext, CopyDone, Control, TypeOK, Room
<1>1. ASSUME NEW r \in Lookups, BeginLookup(r)
      PROVE  IInv'
  <2>1. r.op \in {"put", "erase", "find"} /\ r.key \in Key /\ r \in Request
    BY DEF Lookups, Request
  <2>2. /\ call' = r /\ pc' = "lookup"
        /\ UNCHANGED <<data, capacity, size, old, src, ret>>
    BY <1>1 DEF BeginLookup
  <2>3. probe' \in Locals /\ (size > 0 => probe'.pos \in Position)
    <3> DEFINE p == IF size = 0 THEN 0 ELSE get_position(hash_entry(r.key), capacity)
    <3>1. size > 0 => capacity \in Nat \ {0}
      BY Occupied
    <3>2. p \in Nat /\ (size > 0 => p \in Position)
      <4>1. CASE size = 0
        BY <4>1
      <4>2. CASE size > 0
        <5>1. hash_entry(r.key) \in Nat
          BY <2>1, HashCodeIsHash DEF hash_entry
        <5>2. hash_entry(r.key) % capacity \in 0..capacity - 1
          BY <3>1, <4>2, <5>1, Remainder
        <5>3. QED
          BY <1>a, <4>2, <5>2 DEF get_position, Position
      <4>3. QED
        BY <1>a, <4>1, <4>2
    <3>3. probe' = [NoProbe EXCEPT !.pos = p]
      BY <1>1 DEF BeginLookup
    <3> HIDE DEF p
    <3>4. probe' \in Locals /\ probe'.pos = p
      BY <3>2, <3>3, NoProbeType DEF Locals
    <3>5. QED
      BY <3>2, <3>4
  <2>4. TypeOK'
    BY <2>1, <2>2, <2>3 DEF TypeOK
  <2>5. Control' /\ Room' /\ old' \in Walk /\ src' \in Walk
    BY <1>a, <2>1, <2>2, <2>3 DEF Control, Room, Moving, Position
  <2>6. QED
    BY <2>4, <2>5
<1>2. ASSUME NEW r \in Inserts, BeginInsert(r)
      PROVE  IInv'
  <2>1. r.op = "insert" /\ r \in Request
    BY DEF Inserts, Request
  <2>2. /\ call' = r /\ pc' = "enter"
        /\ UNCHANGED <<data, capacity, size, probe, old, src, ret>>
    BY <1>2 DEF BeginInsert
  <2>3. TypeOK'
    BY <2>1, <2>2 DEF TypeOK
  <2>4. Control' /\ Room' /\ old' \in Walk /\ src' \in Walk
    BY <1>a, <2>1, <2>2 DEF Control, Room, Moving
  <2>5. QED
    BY <2>3, <2>4
<1>3. CASE Copy
  <2>1. /\ call' = Copying /\ call'.op = "copy" /\ src' = [nodes |-> data, next |-> 0]
        /\ data' = allocate(capacity') /\ size' = 0 /\ pc' = "copy"
        /\ UNCHANGED <<probe, old, ret>>
    BY <1>3 DEF Copy, Copying, Idle
  <2>2. capacity' \in Nat
    BY <1>3, Power2IsPositive DEF Copy, IsNextPower2
  <2>3. src' \in Walk /\ old' \in Walk
    BY <2>1, WalkType
  <2>4. src'.next \in Nat /\ \A p \in DOMAIN src'.nodes : src'.nodes[p] \in Node
    BY <2>3, WalkStep
  <2>5. data' \in [0..capacity' - 1 -> Node]
    BY <2>1, <2>2 DEF allocate, Node
  <2>6. TypeOK'
    BY <2>1, <2>2, <2>4, <2>5 DEF TypeOK
  <2>7. 0 <= max_load(capacity')
    BY <2>2, MaxLoad
  <2>8. Control' /\ Room'
    BY <1>a, <2>1, <2>7 DEF Control, Room, Moving
  <2>9. QED
    BY <2>3, <2>6, <2>8
<1>4. CASE CopyEmpty
  <2>1. data' = allocate(capacity') /\ UNCHANGED <<size, pc, call, probe, old, src, ret>>
        /\ size = 0 /\ pc = "idle"
    BY <1>4 DEF CopyEmpty
  <2>2. capacity' \in Nat
    BY <1>4, Power2IsPositive DEF CopyEmpty, IsNextPower2
  <2>3. data' \in [0..capacity' - 1 -> Node] /\ 0 <= max_load(capacity')
    BY <2>1, <2>2, MaxLoad DEF allocate, Node
  <2>4. TypeOK'
    BY <2>1, <2>2, <2>3 DEF TypeOK
  <2>5. Control' /\ Room' /\ old' \in Walk /\ src' \in Walk
    BY <1>a, <2>1, <2>3 DEF Control, Room, Moving
  <2>6. QED
    BY <2>4, <2>5
<1>5. CASE CopyNext
  <2>1. PICK p \in UsedSlots(src.nodes) : src' = [src EXCEPT !.next = p]
    BY <1>5 DEF CopyNext
  <2>2. pc = "copy" /\ pc' = "enter" /\ UNCHANGED <<data, capacity, size, call, probe, old, ret>>
    BY <1>5 DEF CopyNext
  <2>3. src' \in Walk /\ src'.next = p /\ src'.nodes = src.nodes
    <3>1. p \in DOMAIN src.nodes
      BY DEF UsedSlots
    <3>2. QED
      BY <2>1, <3>1, WalkStep DEF Walk
  <2>4. src'.next \in Nat /\ \A q \in DOMAIN src'.nodes : src'.nodes[q] \in Node
    BY <2>3, WalkStep
  <2>5. TypeOK'
    BY <2>2, <2>4 DEF TypeOK
  <2>6. Control' /\ Room' /\ old' \in Walk
    BY <1>a, <2>1, <2>2, <2>3 DEF Control, Room, Moving
  <2>7. QED
    BY <2>3, <2>5, <2>6
<1>6. CASE CopyDone
  <2>1. /\ src' = NoWalk /\ pc' = "idle" /\ call' = Idle /\ probe' = NoProbe
        /\ UNCHANGED <<data, capacity, size, old, ret>>
    BY <1>6 DEF CopyDone, Return
  <2>2. src' \in Walk /\ old' \in Walk
    BY <2>1, WalkType
  <2>3. src'.next \in Nat /\ \A q \in DOMAIN src'.nodes : src'.nodes[q] \in Node
    BY <2>2, WalkStep
  <2>4. TypeOK'
    BY <2>1, <2>3, NoProbeType DEF TypeOK
  <2>5. Control' /\ Room'
    BY <1>a, <2>1 DEF Control, Room, Moving
  <2>6. QED
    BY <2>2, <2>4, <2>5
<1>7. QED
  BY <1>1, <1>2, <1>3, <1>4, <1>5, <1>6

------------------------------------------------------------------------------
(* The theorems. *)

\* The invariant is inductive.
LEMMA Initially == Init => IInv
<1>1. SUFFICES ASSUME Init PROVE IInv
  OBVIOUS
<1>2. data \in [0..capacity - 1 -> Node] /\ capacity = 0 /\ size = 0
  BY <1>1 DEF Init, allocate
<1>3. old \in Walk /\ src \in Walk
  <2>1. NoWalk \in [nodes : [0..0 - 1 -> Node], next : Nat]
    BY DEF NoWalk, allocate
  <2>2. QED
    BY <1>1, <2>1 DEF Init, Walk
<1>4. /\ old.next \in Nat /\ \A p \in DOMAIN old.nodes : old.nodes[p] \in Node
      /\ src.next \in Nat /\ \A p \in DOMAIN src.nodes : src.nodes[p] \in Node
  BY <1>3, WalkStep
<1>5. TypeOK
  BY <1>1, <1>2, <1>4, NoProbeType DEF Init, TypeOK
<1>6. Control /\ Room
  BY <1>1, <1>2, MaxLoad DEF Init, Control, Room, Moving
<1>7. QED
  BY <1>3, <1>5, <1>6 DEF IInv

\* Whatever a call of the table does keeps the types, the positions in bounds and
\* room for the entry that is being inserted.
THEOREM Invariance == Spec => []IInv
<1>1. Init => IInv
  BY Initially
<1>2. IInv /\ [Next]_vars => IInv'
  <2>1. ASSUME IInv, Next PROVE IInv'
    BY <2>1, LookupStep, GrowStep, ProbeStep, PlaceStep, ShiftStep, CallStep
       DEF Next, Internal
  <2>2. ASSUME IInv, UNCHANGED vars PROVE IInv'
    BY <2>2 DEF vars, IInv, TypeOK, Control, Room, Moving, Position, used
  <2>3. QED
    BY <2>1, <2>2
<1>3. QED
  BY <1>1, <1>2, PTL DEF Spec

\* Type correctness: the table's nodes are entries or free, its positions are those
\* of m_data, and the locals of its loops are what they are declared to be.
THEOREM TypeCorrect == Spec => []TypeOK
<1>1. IInv => TypeOK
  BY DEF IInv
<1>2. QED
  BY <1>1, Invariance, PTL

\* rehash inserts the entries it moves into a storage that has room for all of them:
\* insert_entry, called by rehash, never starts another rehash.
THEOREM RehashNeverNests == Spec => []NoNestedRehash
<1>1. IInv => NoNestedRehash
  <2>1. SUFFICES ASSUME IInv, pc = "enter", Moving PROVE ~Overfull
    BY DEF NoNestedRehash
  <2>2. size \in Nat /\ capacity \in Nat /\ size + 1 <= max_load(capacity)
    BY <2>1 DEF IInv, Room, TypeOK
  <2>3. max_load(capacity) \in Nat
    BY <2>2, MaxLoad
  <2>4. QED
    BY <2>2, <2>3 DEF Overfull
<1>2. QED
  BY <1>1, Invariance, PTL

------------------------------------------------------------------------------
(* The order that Robin Hood hashing keeps the entries in, and what follows  *)
(* from it for all keys, hash codes and capacities: each key has one entry,  *)
(* the size counts the entries, the load factor is kept, and insert returns  *)
(* the position of the entry it was given.                                   *)

(* The inductive invariant. *)

\* What follows says of a storage of c nodes, d, what the invariant says of data.

\* The number of steps forward from a to b, around the end of the storage.
away(c, a, b) == IF b >= a THEN b - a ELSE b + c - a

after(c, p) == IF p + 1 = c THEN 0 ELSE p + 1

\* The preferred position of an entry.
home(c, e) == get_position(e.hash, c)

\* The distance of the entry at p from its preferred position.
far(d, c, p) == away(c, home(c, d[p]), p)

\* Whoever stands on the way from the preferred position of an entry to its slot
\* is at least as far from home as the entry was when it passed; in a hole there
\* need not be anyone.  ProbeOrder says this of the slot just before only, which
\* is not enough to go on from: a steal changes slots in the middle of the ways
\* of others.
InOrder(d, c, holes) ==
    \A p \in UsedSlots(d), r \in 0..c - 1 :
       away(c, home(c, d[p]), r) < far(d, c, p) /\ r \notin holes
       => d[r] # Free /\ far(d, c, r) >= away(c, home(c, d[p]), r)

\* The slots before p are used, as far back as a, and none has the key k.
Passed(d, c, a, p, k) ==
    \A r \in 0..c - 1 : away(c, a, r) < away(c, a, p) => d[r] # Free /\ d[r].key # k

\* Those who stand on the way of the entry e to the slot p are as far from home.
FarEnough(d, c, e, p) ==
    \A r \in 0..c - 1 : away(c, home(c, e), r) < away(c, home(c, e), p)
       => d[r] # Free /\ far(d, c, r) >= away(c, home(c, e), r)

\* Entries store the hash of their key.
Hashed ==
    /\ \A p \in UsedSlots(data) : data[p].hash = hash_entry(data[p].key)
    /\ \A p \in UsedSlots(old.nodes) : old.nodes[p].hash = hash_entry(old.nodes[p].key)
    /\ \A p \in UsedSlots(src.nodes) : src.nodes[p].hash = hash_entry(src.nodes[p].key)
    /\ pc = "probe" => probe.entry.hash = hash_entry(probe.entry.key)

\* A rehash goes through the old storage from its start to its end.
Walking == \A p \in UsedSlots(old.nodes) : p >= old.next

\* The size counts the entries wherever they are.  An erased entry counts until
\* the entries after it have been shifted back.
Counted ==
    size = Cardinality(UsedSlots(data)) + Cardinality(UsedSlots(old.nodes))
             + (IF pc = "shift" THEN 1 ELSE 0)

\* Robin Hood's order.  A backward shift has one hole in it.
Ordered == InOrder(data, capacity, IF pc = "shift" THEN {Hole} ELSE {})

\* The entry of the rehash's old storage that insert_entry has, or has placed, is
\* not in that storage any more.
Left == {p \in UsedSlots(old.nodes) : ~(pc = "probe" /\ p = old.next)}

\* A key is in one place.
Unique ==
    /\ \A p, q \in UsedSlots(data) : data[p].key = data[q].key => p = q
    /\ \A p \in Left, q \in UsedSlots(data) : old.nodes[p].key # data[q].key
    /\ \A p, q \in Left : old.nodes[p].key = old.nodes[q].key => p = q
    /\ Carrying => /\ \A q \in UsedSlots(data) : data[q].key # probe.entry.key
                   /\ \A p \in Left : old.nodes[p].key # probe.entry.key

\* insert_entry has passed slots only whose entries are at least as far from home
\* as its own, and whose keys are others.  What it displaced lies behind it.
Probing ==
    pc = "probe" =>
      /\ probe.dist = away(capacity, home(capacity, probe.entry), probe.pos)
      /\ FarEnough(data, capacity, probe.entry, probe.pos)
      /\ Passed(data, capacity, home(capacity, probe.entry), probe.pos, probe.entry.key)
      /\ probe.found =>
            /\ probe.cached # probe.pos
            /\ \A r \in Position : away(capacity, probe.cached, r) < away(capacity, probe.cached, probe.pos)
                                 => used(r)
      /\ ~Moving => OuterEntry = IF probe.found THEN data[probe.cached] ELSE probe.entry

\* lookup has passed used slots only, with other keys.
Looking ==
    pc = "lookup" /\ size > 0 =>
       Passed(data, capacity, get_position(hash_entry(call.key), capacity), probe.pos, call.key)

\* What the entry is that a call has found, or erased.
Answer ==
    /\ pc = "assign" => data[probe.pos].key = call.key
    /\ pc = "shift" => /\ ~used(Hole)
                       /\ call.op = "erase"
                       /\ \A p \in UsedSlots(data) : data[p].key # call.key

Inv == IInv /\ Hashed /\ Walking /\ Counted /\ Ordered /\ Unique /\ Probing /\ Looking /\ Answer

------------------------------------------------------------------------------
(* Positions. *)

\* The way around the storage is shorter than its capacity.
LEMMA AwayType ==
    ASSUME NEW c \in Nat \ {0}, NEW a \in 0..c - 1, NEW b \in 0..c - 1
    PROVE  away(c, a, b) \in 0..c - 1
BY DEF away

\* No two slots are equally far away.
LEMMA AwayOnce ==
    ASSUME NEW c \in Nat \ {0}, NEW a \in 0..c - 1, NEW b \in 0..c - 1, NEW r \in 0..c - 1,
           away(c, a, r) = away(c, a, b)
    PROVE  r = b
BY DEF away

\* No way is needed to the slot itself.
LEMMA AwayZero ==
    ASSUME NEW c \in Nat \ {0}, NEW a \in 0..c - 1
    PROVE  away(c, a, a) = 0
BY DEF away

\* The slot after one is a step further away, or the start.
LEMMA AwayAfter ==
    ASSUME NEW c \in Nat \ {0}, NEW a \in 0..c - 1, NEW b \in 0..c - 1
    PROVE  /\ after(c, b) \in 0..c - 1
           /\ away(c, a, after(c, b)) = IF away(c, a, b) = c - 1 THEN 0 ELSE away(c, a, b) + 1
BY DEF away, after

\* The slots that a step forward passes: those passed before, and the one it leaves.
LEMMA StepForward ==
    ASSUME NEW c \in Nat \ {0}, NEW a \in 0..c - 1, NEW b \in 0..c - 1, NEW r \in 0..c - 1,
           away(c, a, r) < away(c, a, after(c, b))
    PROVE  r = b \/ away(c, a, r) < away(c, a, b)
<1>1. /\ away(c, a, r) \in 0..c - 1 /\ away(c, a, b) \in 0..c - 1
      /\ away(c, a, r) = away(c, a, b) => r = b
      /\ away(c, a, after(c, b)) = IF away(c, a, b) = c - 1 THEN 0 ELSE away(c, a, b) + 1
  BY AwayType, AwayOnce, AwayAfter
<1>2. QED
  BY <1>1

\* If all that has been passed is used, the way does not lead around the storage.
LEMMA NoWrap ==
    ASSUME NEW c \in Nat \ {0}, NEW a \in 0..c - 1, NEW b \in 0..c - 1, NEW d,
           d[b] # Free, \A r \in 0..c - 1 : away(c, a, r) < away(c, a, b) => d[r] # Free,
           \E r \in 0..c - 1 : d[r] = Free
    PROVE  away(c, a, after(c, b)) = away(c, a, b) + 1
<1>1. PICK r \in 0..c - 1 : d[r] = Free
  OBVIOUS
<1>2. /\ away(c, a, b) \in 0..c - 1
      /\ away(c, a, after(c, b)) = IF away(c, a, b) = c - 1 THEN 0 ELSE away(c, a, b) + 1
  BY AwayType, AwayAfter
<1>3. r # b /\ ~(away(c, a, r) < away(c, a, b))
  BY <1>1
<1>4. away(c, a, r) \in 0..c - 1
  BY AwayType
<1>5. away(c, a, r) # away(c, a, b)
  BY <1>3, AwayOnce
<1>6. QED
  BY <1>2, <1>3, <1>4, <1>5

\* An entry prefers a position of the storage.
LEMMA Home ==
    ASSUME NEW c \in Nat \ {0}, NEW e \in Entry
    PROVE  home(c, e) \in 0..c - 1
BY Remainder DEF home, get_position, Entry

\* The distance of an entry is less than the capacity.
LEMMA Far ==
    ASSUME NEW c \in Nat \ {0}, NEW d, NEW p \in 0..c - 1, d[p] \in Entry
    PROVE  /\ home(c, d[p]) \in 0..c - 1
           /\ far(d, c, p) \in 0..c - 1
BY Home, AwayType DEF far

\* The remainder of a sum of a position and a part of the capacity.
LEMMA Wrap ==
    ASSUME NEW c \in Nat \ {0}, NEW n \in Nat, n < 2 * c
    PROVE  n % c = IF n < c THEN n ELSE n - c
OBVIOUS

\* The probe distance is the number of steps from the preferred position.
LEMMA DistanceIsAway ==
    ASSUME capacity \in Nat, NEW e \in Entry, NEW p \in Position
    PROVE  probe_distance(e.hash, p) = away(capacity, home(capacity, e), p)
<1> DEFINE h == home(capacity, e)
           n == p + capacity - h
<1>1. capacity \in Nat \ {0} /\ p \in 0..capacity - 1 /\ h \in 0..capacity - 1
  BY Home DEF Position
<1> HIDE DEF h
<1>2. n \in Nat /\ n < 2 * capacity
  BY <1>1
<1>3. n % capacity = IF n < capacity THEN n ELSE n - capacity
  BY <1>1, <1>2, Wrap
<1>4. n % capacity = away(capacity, h, p)
  BY <1>1, <1>3 DEF away
<1>5. QED
  BY <1>4 DEF h, home, probe_distance

------------------------------------------------------------------------------
(* Robin Hood's order, kept by what the loops do to a storage. *)

\* An entry that is taken out leaves a hole.
LEMMA OrderRemove ==
    ASSUME NEW c \in Nat \ {0}, NEW d \in [0..c - 1 -> Node], NEW p \in 0..c - 1,
           InOrder(d, c, {})
    PROVE  InOrder([d EXCEPT ![p] = Free], c, {p})
<1> DEFINE t == [d EXCEPT ![p] = Free]
<1>1. \A r \in 0..c - 1 : r # p => t[r] = d[r]
  OBVIOUS
<1>2. \A q \in UsedSlots(t) : q \in UsedSlots(d) /\ q \in 0..c - 1 /\ q # p
  BY DEF UsedSlots
<1> HIDE DEF t
<1>3. SUFFICES ASSUME NEW q \in UsedSlots(t), NEW r \in 0..c - 1, r # p,
                      away(c, home(c, t[q]), r) < far(t, c, q)
               PROVE  t[r] # Free /\ far(t, c, r) >= away(c, home(c, t[q]), r)
  BY DEF InOrder, t
<1>4. t[q] = d[q] /\ t[r] = d[r] /\ far(t, c, q) = far(d, c, q) /\ far(t, c, r) = far(d, c, r)
  BY <1>1, <1>2, <1>3 DEF far
<1>5. QED
  BY <1>2, <1>3, <1>4 DEF InOrder

\* The order is one of the hashes: keys and values do not matter.
LEMMA OrderRevalue ==
    ASSUME NEW c \in Nat \ {0}, NEW d, NEW t, DOMAIN d = 0..c - 1, DOMAIN t = 0..c - 1,
           \A p \in 0..c - 1 : (t[p] = Free <=> d[p] = Free) /\ (d[p] # Free => t[p].hash = d[p].hash),
           InOrder(d, c, {})
    PROVE  InOrder(t, c, {})
<1>1. UsedSlots(t) = UsedSlots(d) /\ UsedSlots(d) \subseteq 0..c - 1
  BY DEF UsedSlots
<1>2. \A p \in 0..c - 1 : d[p] # Free => home(c, t[p]) = home(c, d[p])
  BY DEF home
<1>3. SUFFICES ASSUME NEW q \in UsedSlots(t), NEW r \in 0..c - 1,
                      away(c, home(c, t[q]), r) < far(t, c, q)
               PROVE  t[r] # Free /\ far(t, c, r) >= away(c, home(c, t[q]), r)
  BY DEF InOrder
<1>4. q \in UsedSlots(d) /\ d[q] # Free /\ home(c, t[q]) = home(c, d[q])
  BY <1>1, <1>2 DEF UsedSlots
<1>5. away(c, home(c, d[q]), r) < far(d, c, q)
  BY <1>3, <1>4 DEF far
<1>6. d[r] # Free /\ far(d, c, r) >= away(c, home(c, d[q]), r)
  BY <1>4, <1>5 DEF InOrder
<1>7. QED
  BY <1>2, <1>4, <1>6 DEF far

\* An entry may take a free slot, or that of an entry closer to its home, if all it
\* has passed are as far from theirs.
LEMMA OrderPut ==
    ASSUME NEW c \in Nat \ {0}, NEW d \in [0..c - 1 -> Node], NEW p \in 0..c - 1, NEW e \in Entry,
           InOrder(d, c, {}), FarEnough(d, c, e, p),
           d[p] = Free \/ far(d, c, p) < away(c, home(c, e), p)
    PROVE  InOrder([d EXCEPT ![p] = e], c, {})
<1> DEFINE t == [d EXCEPT ![p] = e]
<1>1. t[p] = e /\ \A r \in 0..c - 1 : r # p => t[r] = d[r]
  OBVIOUS
<1>2. \A q \in UsedSlots(t) : q \in 0..c - 1 /\ (q # p => q \in UsedSlots(d))
  BY DEF UsedSlots
<1> HIDE DEF t
<1>3. SUFFICES ASSUME NEW q \in UsedSlots(t), NEW r \in 0..c - 1,
                      away(c, home(c, t[q]), r) < far(t, c, q)
               PROVE  t[r] # Free /\ far(t, c, r) >= away(c, home(c, t[q]), r)
  BY DEF InOrder, t
<1>4. e # Free /\ far(t, c, p) = away(c, home(c, e), p)
  BY <1>1, FreeIsNoEntry DEF far
<1>5. \A x \in 0..c - 1 : x # p => far(t, c, x) = far(d, c, x)
  BY <1>1 DEF far
<1>6. CASE q = p
  <2>1. r # p
    <3>1. away(c, home(c, e), p) \in 0..c - 1
      BY Home, AwayType
    <3>2. QED
      BY <1>1, <1>3, <1>4, <1>6, <3>1
  <2>2. d[r] # Free /\ far(d, c, r) >= away(c, home(c, e), r)
    BY <1>1, <1>3, <1>4, <1>6 DEF FarEnough
  <2>3. QED
    BY <1>1, <1>5, <1>6, <2>1, <2>2
<1>7. CASE q # p
  <2>1. q \in UsedSlots(d) /\ t[q] = d[q] /\ far(t, c, q) = far(d, c, q)
    BY <1>1, <1>2, <1>5, <1>7
  <2>2. d[r] # Free /\ far(d, c, r) >= away(c, home(c, d[q]), r)
    BY <1>3, <2>1 DEF InOrder
  <2>3. CASE r # p
    BY <1>1, <1>5, <2>1, <2>2, <2>3
  <2>4. CASE r = p
    <3>1. d[p] \in Entry /\ d[q] \in Entry
      BY <1>2, <2>1, <2>2, <2>4 DEF Node, UsedSlots
    <3>2. /\ far(d, c, p) \in Int /\ away(c, home(c, e), p) \in Int
          /\ away(c, home(c, d[q]), p) \in Int
      <4>1. home(c, e) \in 0..c - 1 /\ home(c, d[q]) \in 0..c - 1
        BY <3>1, Home
      <4>2. far(d, c, p) \in 0..c - 1
        BY <3>1, Far
      <4>3. away(c, home(c, e), p) \in 0..c - 1 /\ away(c, home(c, d[q]), p) \in 0..c - 1
        BY <4>1, AwayType
      <4>4. QED
        BY <4>2, <4>3
    <3>3. far(d, c, p) < away(c, home(c, e), p)
      BY <2>2, <2>4
    <3>4. far(t, c, p) >= away(c, home(c, d[q]), p)
      BY <1>4, <2>2, <2>4, <3>2, <3>3
    <3>5. QED
      BY <1>1, <1>4, <2>1, <2>4, <3>4
  <2>5. QED
    BY <2>3, <2>4
<1>8. QED
  BY <1>6, <1>7

\* A hole moves forward, the entry after it back, if this one is not at home.
LEMMA OrderShift ==
    ASSUME NEW c \in Nat \ {0}, NEW d \in [0..c - 1 -> Node], NEW h \in 0..c - 1,
           InOrder(d, c, {h}), d[h] = Free, d[after(c, h)] # Free,
           far(d, c, after(c, h)) # 0
    PROVE  InOrder([d EXCEPT ![h] = d[after(c, h)], ![after(c, h)] = Free], c, {after(c, h)})
<1> DEFINE s == after(c, h)
           g == d[s]
           t == [d EXCEPT ![h] = g, ![s] = Free]
<1>1. s \in 0..c - 1 /\ s # h /\ g \in Entry
  BY AwayAfter DEF Node
<1> HIDE DEF s
<1>2. t[h] = g /\ t[s] = Free /\ \A r \in 0..c - 1 : r # h /\ r # s => t[r] = d[r]
  BY <1>1
<1>3. \A q \in UsedSlots(t) : q \in 0..c - 1 /\ q # s /\ (q # h => q \in UsedSlots(d))
  BY <1>1, <1>2 DEF UsedSlots
<1>4. s \in UsedSlots(d)
  BY <1>1, FreeIsNoEntry DEF UsedSlots
<1> HIDE DEF t
<1>5. \A x \in 0..c - 1 : x # h /\ x # s => far(t, c, x) = far(d, c, x)
  BY <1>2 DEF far
<1>6. home(c, g) \in 0..c - 1 /\ far(d, c, s) \in 1..c - 1
  BY <1>1, Home, Far DEF s
<1>7. far(d, c, s) = away(c, home(c, g), h) + 1 /\ far(t, c, h) = far(d, c, s) - 1
  <2>1. away(c, home(c, g), h) \in 0..c - 1
        /\ far(d, c, s) = IF away(c, home(c, g), h) = c - 1 THEN 0 ELSE away(c, home(c, g), h) + 1
    BY <1>6, AwayType, AwayAfter DEF far, s
  <2>2. far(t, c, h) = away(c, home(c, g), h)
    BY <1>2 DEF far
  <2>3. QED
    BY <1>6, <2>1, <2>2
<1>8. SUFFICES ASSUME NEW q \in UsedSlots(t), NEW r \in 0..c - 1, r # s,
                      away(c, home(c, t[q]), r) < far(t, c, q)
               PROVE  t[r] # Free /\ far(t, c, r) >= away(c, home(c, t[q]), r)
  BY DEF InOrder, t, s
<1>9. CASE q = h
  <2>1. t[q] = g /\ far(t, c, q) < far(d, c, s)
    BY <1>2, <1>6, <1>7, <1>9
  <2>2. r # h
    <3>1. far(t, c, h) = away(c, home(c, g), h) /\ far(t, c, h) \in Int
      BY <1>2, <1>6, <1>7 DEF far
    <3>2. QED
      BY <1>2, <1>8, <1>9, <3>1
  <2>3. away(c, home(c, g), r) \in 0..c - 1 /\ far(t, c, q) \in 0..c - 1
    <3>1. far(t, c, q) \in 0..c - 1
      BY <1>6, <1>7, <1>9
    <3>2. away(c, home(c, g), r) \in 0..c - 1
      BY <1>6, AwayType
    <3>3. QED
      BY <3>1, <3>2
  <2>4. away(c, home(c, d[s]), r) < far(d, c, s)
    BY <1>6, <1>8, <2>1, <2>3
  <2>5. d[r] # Free /\ far(d, c, r) >= away(c, home(c, d[s]), r)
    BY <1>4, <2>2, <2>4 DEF InOrder
  <2>6. QED
    BY <1>2, <1>5, <1>8, <2>1, <2>2, <2>5
<1>10. CASE q # h
  <2>1. q \in UsedSlots(d) /\ q \in 0..c - 1 /\ q # s /\ t[q] = d[q] /\ far(t, c, q) = far(d, c, q)
    BY <1>2, <1>3, <1>5, <1>10
  <2>2. CASE r # h
    <3>1. d[r] # Free /\ far(d, c, r) >= away(c, home(c, d[q]), r)
      BY <1>8, <2>1, <2>2 DEF InOrder
    <3>2. QED
      BY <1>2, <1>5, <1>8, <2>1, <2>2, <3>1
  <2>3. CASE r = h
    <3>1. d[q] \in Entry /\ home(c, d[q]) \in 0..c - 1 /\ far(d, c, q) \in 0..c - 1
      BY <2>1, Far DEF Node, UsedSlots
    <3>2. /\ away(c, home(c, d[q]), h) \in 0..c - 1
          /\ away(c, home(c, d[q]), s) = IF away(c, home(c, d[q]), h) = c - 1 THEN 0
                                         ELSE away(c, home(c, d[q]), h) + 1
          /\ away(c, home(c, d[q]), s) = far(d, c, q) => q = s
      <4>1. \A x \in 0..c - 1 : away(c, home(c, d[q]), x) = away(c, home(c, d[q]), q) => x = q
        BY <2>1, <3>1, AwayOnce
      <4>2. QED
        BY <1>1, <3>1, <4>1, AwayType, AwayAfter DEF far, s
    <3>3. away(c, home(c, d[q]), h) < far(d, c, q)
      BY <1>8, <2>1, <2>3
    <3>4. away(c, home(c, d[q]), s) = away(c, home(c, d[q]), h) + 1
          /\ away(c, home(c, d[q]), s) < far(d, c, q)
      BY <2>1, <3>1, <3>2, <3>3
    <3>5. far(d, c, s) >= away(c, home(c, d[q]), s)
      BY <1>1, <2>1, <3>4 DEF InOrder
    <3>6. far(t, c, h) >= away(c, home(c, d[q]), h)
      BY <1>6, <1>7, <3>2, <3>4, <3>5
    <3>7. QED
      BY <1>2, <1>1, <2>1, <2>3, <3>6, FreeIsNoEntry
  <2>4. QED
    BY <2>2, <2>3
<1>11. QED
  BY <1>9, <1>10

\* A hole is no hole in the order if nobody passed it: the slot after it is free, or
\* its entry is at home.
LEMMA OrderClosed ==
    ASSUME NEW c \in Nat \ {0}, NEW d \in [0..c - 1 -> Node], NEW h \in 0..c - 1,
           InOrder(d, c, {h}), d[h] = Free,
           d[after(c, h)] = Free \/ far(d, c, after(c, h)) = 0
    PROVE  InOrder(d, c, {})
<1> DEFINE s == after(c, h)
<1>1. SUFFICES ASSUME NEW q \in UsedSlots(d), away(c, home(c, d[q]), h) < far(d, c, q)
               PROVE  FALSE
  BY DEF InOrder
<1>2. q \in 0..c - 1 /\ q # h /\ d[q] \in Entry /\ d[q] # Free /\ s \in 0..c - 1
  BY AwayAfter DEF UsedSlots, Node
<1>3. home(c, d[q]) \in 0..c - 1 /\ far(d, c, q) \in 0..c - 1
  BY <1>2, Far
<1>4. /\ away(c, home(c, d[q]), h) \in 0..c - 1
      /\ away(c, home(c, d[q]), s) = IF away(c, home(c, d[q]), h) = c - 1 THEN 0
                                     ELSE away(c, home(c, d[q]), h) + 1
      /\ away(c, home(c, d[q]), s) = far(d, c, q) => q = s
  <2>1. \A x \in 0..c - 1 : away(c, home(c, d[q]), x) = away(c, home(c, d[q]), q) => x = q
    BY <1>2, <1>3, AwayOnce
  <2>2. QED
    BY <1>2, <1>3, <2>1, AwayType, AwayAfter DEF far
<1> HIDE DEF s
<1>5. away(c, home(c, d[q]), s) = away(c, home(c, d[q]), h) + 1
  BY <1>1, <1>3, <1>4
<1>6. CASE q = s
  <2>1. far(d, c, s) = 0
    BY <1>2, <1>6 DEF s
  <2>2. QED
    BY <1>1, <1>4, <1>6, <2>1
<1>7. CASE q # s
  <2>1. away(c, home(c, d[q]), s) < far(d, c, q)
    BY <1>1, <1>3, <1>4, <1>5, <1>7
  <2>2. CASE s = h
    BY <1>4, <1>5, <2>2
  <2>3. CASE s # h
    <3>1. d[s] # Free /\ far(d, c, s) >= away(c, home(c, d[q]), s)
      BY <1>2, <2>1, <2>3 DEF InOrder
    <3>2. far(d, c, s) = 0
      BY <3>1 DEF s
    <3>3. QED
      BY <1>4, <1>5, <3>1, <3>2
  <2>4. QED
    BY <2>2, <2>3
<1>8. QED
  BY <1>6, <1>7

------------------------------------------------------------------------------
(* Counting. *)

\* The used slots of a storage.
LEMMA UsedSlotsCount ==
    ASSUME NEW n \in Nat, NEW d \in [0..n - 1 -> Node]
    PROVE  /\ UsedSlots(d) \subseteq 0..n - 1
           /\ IsFiniteSet(UsedSlots(d)) /\ Cardinality(UsedSlots(d)) \in Nat
           /\ Cardinality(UsedSlots(d)) < n => \E p \in 0..n - 1 : d[p] = Free
<1>1. UsedSlots(d) \subseteq 0..n - 1
  BY DEF UsedSlots
<1>2. IsFiniteSet(0..n - 1) /\ Cardinality(0..n - 1) = n
  BY FS_Interval
<1>3. IsFiniteSet(UsedSlots(d)) /\ Cardinality(UsedSlots(d)) \in Nat
  BY <1>1, <1>2, FS_Subset, FS_CardinalityType
<1>4. ASSUME Cardinality(UsedSlots(d)) < n, \A p \in 0..n - 1 : d[p] # Free
      PROVE  FALSE
  <2>1. UsedSlots(d) = 0..n - 1
    BY <1>4 DEF UsedSlots
  <2>2. QED
    BY <1>2, <1>3, <1>4, <2>1
<1>5. QED
  BY <1>1, <1>3, <1>4

\* A storage that was just allocated has no entries.
LEMMA Allocated ==
    ASSUME NEW n \in Nat
    PROVE  UsedSlots(allocate(n)) = {} /\ Cardinality(UsedSlots(allocate(n))) = 0
<1>1. UsedSlots(allocate(n)) = {}
  BY DEF UsedSlots, allocate
<1>2. QED
  BY <1>1, FS_EmptySet

\* Nothing is left to be moved when no rehash runs.
LEMMA NotMoving ==
    UsedSlots(NoWalk.nodes) = {} /\ Cardinality(UsedSlots(NoWalk.nodes)) = 0
BY Allocated DEF NoWalk

\* The maximal load is less than the capacity.
LEMMA LoadIsLess == \A c \in Nat : max_load(c) \in Nat /\ max_load(c) <= c /\ (c > 0 => max_load(c) < c)
BY DEF max_load, LoadFactor

\* The storage holds finitely many entries.
LEMMA DataCount ==
    ASSUME IInv
    PROVE  IsFiniteSet(UsedSlots(data)) /\ Cardinality(UsedSlots(data)) \in Nat
BY UsedSlotsCount DEF IInv, TypeOK

\* A walk goes through finitely many entries.
LEMMA WalkCount ==
    ASSUME NEW w \in Walk
    PROVE  IsFiniteSet(UsedSlots(w.nodes)) /\ Cardinality(UsedSlots(w.nodes)) \in Nat
<1>1. PICK n \in Nat : w \in [nodes : [0..n - 1 -> Node], next : Nat]
  BY DEF Walk
<1>2. QED
  BY <1>1, UsedSlotsCount

\* There are no more entries in the table than its load factor allows, and hence a
\* free slot.
LEMMA Load ==
    ASSUME Inv
    PROVE  /\ Cardinality(UsedSlots(data)) \in Nat
           /\ Cardinality(UsedSlots(data)) <= max_load(capacity)
           /\ capacity > 0 => \E p \in Position : ~used(p)
<1>1. capacity \in Nat /\ data \in [0..capacity - 1 -> Node]
      /\ size \in Nat /\ size <= max_load(capacity)
  BY DEF Inv, IInv, TypeOK, Room
<1>2. Cardinality(UsedSlots(data)) \in Nat
  BY <1>1, UsedSlotsCount
<1>3. Cardinality(UsedSlots(old.nodes)) \in Nat
  BY WalkCount DEF Inv, IInv
<1>4. size >= Cardinality(UsedSlots(data))
  BY <1>1, <1>2, <1>3 DEF Inv, Counted
<1>5. capacity > 0 => Cardinality(UsedSlots(data)) < capacity
  BY <1>1, <1>2, <1>4, LoadIsLess
<1>6. Cardinality(UsedSlots(data)) <= max_load(capacity)
  <2>1. max_load(capacity) \in Nat
    BY <1>1, LoadIsLess
  <2>2. QED
    BY <1>1, <1>2, <1>4, <2>1
<1>7. ASSUME capacity > 0 PROVE \E p \in Position : ~used(p)
  <2>1. \E p \in 0..capacity - 1 : data[p] = Free
    BY <1>1, <1>5, <1>7, UsedSlotsCount
  <2>2. QED
    BY <2>1 DEF Position, used
<1>8. QED
  BY <1>2, <1>6, <1>7

------------------------------------------------------------------------------
(* The steps of find, and of the calls that start with it. *)

\* Used slots hold entries.
LEMMA UsedIsEntry ==
    ASSUME TypeOK
    PROVE  /\ DOMAIN data = Position
           /\ \A p \in Position : p \in UsedSlots(data) <=> used(p)
           /\ \A p \in UsedSlots(data) :
                p \in Position /\ used(p) /\ data[p] \in Entry /\ data[p].key \in Key
BY DEF TypeOK, UsedSlots, Position, Node, used, Entry

\* The next position is the one after.
LEMMA SuccIsAfter == \A p : succ(p) = after(capacity, p)
BY DEF succ, after

\* Steps outside insert_entry and the backward shift that change no storage.
LEMMA Quiet ==
    ASSUME Inv, IInv', UNCHANGED <<data, capacity, size>>, old'.nodes = old.nodes,
           pc \notin {"probe", "shift"}, pc' \notin {"probe", "shift"},
           Hashed', Walking', Looking', Answer'
    PROVE  Inv'
<1>1. Counted'
  BY DEF Inv, Counted
<1>2. Ordered'
  BY DEF Inv, Ordered
<1>3. Unique' /\ Probing'
  BY DEF Inv, Unique, Left, Carrying, Probing
<1>4. QED
  BY <1>1, <1>2, <1>3 DEF Inv

\* A call begins.
LEMMA BeginOrder ==
    ASSUME Inv, \/ \E r \in Lookups : BeginLookup(r)
                \/ \E r \in Inserts : BeginInsert(r)
    PROVE  Inv'
<1>1. IInv'
  BY CallStep DEF Inv
<1>2. CASE \E r \in Inserts : BeginInsert(r)
  <2>1. /\ pc = "idle" /\ pc' = "enter"
        /\ UNCHANGED <<data, capacity, size, probe, old, src>>
    BY <1>2 DEF BeginInsert
  <2>2. Hashed' /\ Walking' /\ Looking' /\ Answer'
    BY <2>1 DEF Inv, Hashed, Walking, Looking, Answer
  <2>3. QED
    BY <1>1, <2>1, <2>2, Quiet
<1>3. ASSUME NEW r \in Lookups, BeginLookup(r) PROVE Inv'
  <2>1. /\ pc = "idle" /\ pc' = "lookup" /\ call' = r
        /\ UNCHANGED <<data, capacity, size, old, src>>
        /\ probe' = [NoProbe EXCEPT !.pos = IF size = 0 THEN 0
                                       ELSE get_position(hash_entry(r.key), capacity)]
    BY <1>3 DEF BeginLookup
  <2>2. Hashed' /\ Walking' /\ Answer'
    BY <2>1 DEF Inv, Hashed, Walking, Answer
  <2>3. Looking'
    <3> DEFINE start == get_position(hash_entry(r.key), capacity)
    <3>1. SUFFICES ASSUME size > 0
                   PROVE  Passed(data, capacity, start, start, r.key)
      BY <2>1 DEF Looking, NoProbe
    <3>2. start \in 0..capacity - 1 /\ capacity \in Nat
      BY <1>1, <2>1, <3>1 DEF IInv, TypeOK, Control, Position, NoProbe
    <3> HIDE DEF start
    <3>3. \A p \in 0..capacity - 1 : ~(away(capacity, start, p) < away(capacity, start, start))
      <4> TAKE p \in 0..capacity - 1
      <4>1. capacity \in Nat \ {0}
        BY <3>2
      <4>2. away(capacity, start, p) \in 0..capacity - 1 /\ away(capacity, start, start) = 0
        BY <3>2, <4>1, AwayType, AwayZero
      <4>3. QED
        BY <4>2
    <3>4. QED
      BY <3>3 DEF Passed
  <2>4. QED
    BY <1>1, <2>1, <2>2, <2>3, Quiet
<1>4. QED
  BY <1>2, <1>3

\* lookup goes on, ends without an answer, or ends at the key.
LEMMA LookupOrder ==
    ASSUME Inv, LookupMiss \/ LookupHit \/ LookupNext
    PROVE  Inv'
<1>1. IInv'
  BY LookupStep DEF Inv
<1>2. capacity \in Nat /\ TypeOK /\ data \in [0..capacity - 1 -> Node]
  BY DEF Inv, IInv, TypeOK
<1>3. CASE LookupMiss
  <2>1. /\ pc = "lookup" /\ pc' \in {"enter", "idle"}
        /\ UNCHANGED <<data, capacity, size, old, src>>
    BY <1>3 DEF LookupMiss, Return
  <2>2. Hashed' /\ Walking' /\ Looking' /\ Answer'
    BY <2>1 DEF Inv, Hashed, Walking, Looking, Answer
  <2>3. QED
    BY <1>1, <2>1, <2>2, Quiet
<1>4. CASE LookupHit
  <2>1. /\ pc = "lookup" /\ size > 0 /\ probe.pos \in Position /\ used(probe.pos)
        /\ Matches(data[probe.pos])
        /\ UNCHANGED <<capacity, size, old, src>>
    BY <1>4 DEF LookupHit, LookupFails, Inv, IInv, Control, TypeOK
  <2>2. data[probe.pos] \in Entry /\ probe.pos \in UsedSlots(data)
    BY <1>2, <2>1, UsedIsEntry
  <2>3. CASE UNCHANGED data
    <3>1. /\ pc' \in {"assign", "idle"} /\ (pc' = "assign" => UNCHANGED <<call, probe>>)
      BY <1>4, <2>2, <2>3, <1>2, FreeIsNoEntry DEF LookupHit, Return, UsedSlots
    <3>2. Hashed' /\ Walking' /\ Looking'
      BY <2>1, <2>3, <3>1 DEF Inv, Hashed, Walking, Looking
    <3>3. Answer'
      BY <2>1, <2>3, <3>1 DEF Answer, Matches
    <3>4. QED
      BY <1>1, <2>1, <2>3, <3>1, <3>2, <3>3, Quiet
  <2>4. CASE /\ call.op = "erase"
             /\ data' = [data EXCEPT ![probe.pos] = Free]
             /\ pc' = "shift"
             /\ UNCHANGED <<call, probe>>
    <3>1. /\ UsedSlots(data') = UsedSlots(data) \ {probe.pos}
          /\ Cardinality(UsedSlots(data')) = Cardinality(UsedSlots(data)) - 1
      <4>1. UsedSlots(data') = UsedSlots(data) \ {probe.pos}
        BY <1>2, <2>1, <2>4 DEF Position, UsedSlots
      <4>2. QED
        BY <2>2, <4>1, DataCount, FS_RemoveElement DEF Inv
    <3>2. /\ data'[probe.pos] = Free
          /\ \A p \in Position : p # probe.pos => data'[p] = data[p]
      BY <1>2, <2>1, <2>4 DEF Position
    <3>3. \A p \in UsedSlots(data') : p \in UsedSlots(data) /\ p \in Position /\ data'[p] = data[p]
      BY <1>2, <3>1, <3>2, UsedIsEntry
    <3>4. Hashed' /\ Walking' /\ Probing' /\ Looking'
      BY <2>1, <2>4, <3>3 DEF Inv, Hashed, Walking, Probing, Looking
    <3>5. Counted'
      <4>1. Cardinality(UsedSlots(data)) \in Nat
        BY DataCount DEF Inv
      <4>2. Cardinality(UsedSlots(old.nodes)) \in Nat
        BY WalkCount DEF Inv, IInv
      <4>3. size = Cardinality(UsedSlots(data)) + Cardinality(UsedSlots(old.nodes))
        BY <2>1, <4>1, <4>2 DEF Inv, Counted
      <4>4. QED
        BY <2>1, <2>4, <3>1, <4>1, <4>2, <4>3 DEF Counted
    <3>6. Ordered'
      <4>1. InOrder(data, capacity, {})
        BY <2>1 DEF Inv, Ordered
      <4>2. capacity \in Nat \ {0} /\ probe.pos \in 0..capacity - 1
        BY <1>2, <2>1 DEF Position
      <4>3. InOrder(data', capacity, {probe.pos})
        BY <1>2, <2>4, <4>1, <4>2, OrderRemove
      <4>4. QED
        BY <2>1, <2>4, <4>3 DEF Ordered, Hole
    <3>7. Unique'
      <4>1. Left' = Left /\ ~Carrying'
        BY <2>1, <2>4 DEF Left, Carrying
      <4>2. QED
        BY <2>1, <3>3, <4>1 DEF Inv, Unique
    <3>8. Answer'
      <4>1. \A p \in UsedSlots(data') : data'[p].key # call.key
        BY <2>1, <2>2, <3>1, <3>3 DEF Inv, Unique, Matches
      <4>2. QED
        BY <2>4, <3>2, <4>1 DEF Answer, used, Hole
    <3>9. QED
      BY <1>1, <3>4, <3>5, <3>6, <3>7, <3>8 DEF Inv
  <2>5. QED
    BY <1>4, <2>3, <2>4 DEF LookupHit
<1>5. CASE LookupNext
  <2>1. /\ pc = "lookup" /\ size > 0 /\ probe.pos \in Position /\ used(probe.pos)
        /\ ~Matches(data[probe.pos]) /\ pc' = pc /\ probe'.pos = succ(probe.pos)
        /\ UNCHANGED <<data, capacity, size, call, old, src>>
    BY <1>5 DEF LookupNext, LookupFails, Inv, IInv, Control, TypeOK, Locals
  <2>2. Hashed' /\ Walking' /\ Answer'
    BY <2>1 DEF Inv, Hashed, Walking, Answer
  <2>3. Looking'
    <3> DEFINE start == get_position(hash_entry(call.key), capacity)
    <3>1. SUFFICES ASSUME NEW r \in 0..capacity - 1,
                          away(capacity, start, r) < away(capacity, start, after(capacity, probe.pos))
                   PROVE  data[r] # Free /\ data[r].key # call.key
      BY <2>1, SuccIsAfter DEF Looking, Passed
    <3>2. start \in 0..capacity - 1 /\ capacity \in Nat \ {0} /\ probe.pos \in 0..capacity - 1
      <4>1. call.key \in Key
        BY <1>2, <2>1, CallFields DEF Inv, IInv, Control
      <4>2. hash_entry(call.key) \in Nat
        BY <4>1, HashCodeIsHash DEF hash_entry
      <4>3. capacity \in Nat \ {0} /\ probe.pos \in 0..capacity - 1
        BY <2>1, Occupied DEF Inv, Position
      <4>4. QED
        BY <4>2, <4>3, Remainder DEF get_position
    <3>3. Passed(data, capacity, start, probe.pos, call.key)
      BY <2>1 DEF Inv, Looking
    <3> HIDE DEF start
    <3>4. r = probe.pos \/ away(capacity, start, r) < away(capacity, start, probe.pos)
      BY <3>1, <3>2, StepForward
    <3>5. CASE r = probe.pos
      BY <1>2, <2>1, <3>5, UsedIsEntry DEF Inv, Matches, Hashed, used
    <3>6. CASE away(capacity, start, r) < away(capacity, start, probe.pos)
      BY <3>3, <3>6 DEF Passed
    <3>7. QED
      BY <3>4, <3>5, <3>6
  <2>4. QED
    BY <1>1, <2>1, <2>2, <2>3, Quiet
<1>6. QED
  BY <1>3, <1>4, <1>5

\* operator[] writes the value, which changes neither hash nor key.
LEMMA AssignOrder ==
    ASSUME Inv, Assign
    PROVE  Inv'
<1>1. IInv'
  BY LookupStep DEF Inv
<1>2. capacity \in Nat /\ TypeOK
  BY DEF Inv, IInv, TypeOK
<1>3. /\ pc = "assign" /\ pc' = "idle" /\ probe.pos \in Position /\ used(probe.pos)
      /\ data' = [data EXCEPT ![probe.pos].val = call.val]
      /\ UNCHANGED <<capacity, size, old, src>>
  BY DEF Assign, Return, Inv, IInv, Control
<1>4. /\ DOMAIN data' = DOMAIN data
      /\ \A p \in Position : /\ data'[p] = Free <=> data[p] = Free
                             /\ used(p) => /\ data'[p].hash = data[p].hash
                                           /\ data'[p].key = data[p].key
  <2> DEFINE e == [data[probe.pos] EXCEPT !.val = call.val]
  <2>1. data[probe.pos] \in Entry /\ call.val \in Value
    BY <1>2, <1>3, UsedIsEntry, CallFields DEF Inv, IInv, Control
  <2>2. e \in Entry /\ e.hash = data[probe.pos].hash /\ e.key = data[probe.pos].key
    BY <2>1 DEF Entry
  <2>3. data' = [data EXCEPT ![probe.pos] = e]
    BY <1>3
  <2> HIDE DEF e
  <2>4. QED
    BY <1>2, <1>3, <2>2, <2>3, FreeIsNoEntry DEF TypeOK, Position, used
<1>5. UsedSlots(data') = UsedSlots(data)
  BY <1>2, <1>4, UsedIsEntry DEF UsedSlots
<1>6. \A p \in UsedSlots(data) : /\ p \in Position
                                /\ data'[p].hash = data[p].hash /\ data'[p].key = data[p].key
  BY <1>2, <1>4, UsedIsEntry
<1>7. Hashed' /\ Walking' /\ Probing' /\ Looking' /\ Counted' /\ Answer'
  BY <1>3, <1>5, <1>6 DEF Inv, Hashed, Walking, Probing, Looking, Counted, Answer
<1>8. Unique'
  <2>1. Left' = Left /\ ~Carrying'
    BY <1>3 DEF Left, Carrying
  <2>2. \A p, q \in UsedSlots(data') : data'[p].key = data'[q].key => p = q
    BY <1>5, <1>6 DEF Inv, Unique
  <2>3. \A p \in Left, q \in UsedSlots(data') : old.nodes[p].key # data'[q].key
    BY <1>5, <1>6 DEF Inv, Unique
  <2>4. QED
    BY <1>3, <2>1, <2>2, <2>3 DEF Inv, Unique
<1>9. Ordered'
  <2>1. InOrder(data, capacity, {})
    BY <1>3 DEF Inv, Ordered
  <2>2. capacity \in Nat \ {0} /\ DOMAIN data = 0..capacity - 1
    BY <1>2, <1>3 DEF Position, TypeOK
  <2>3. InOrder(data', capacity, {})
    BY <1>4, <2>1, <2>2, OrderRevalue DEF Position, used
  <2>4. QED
    BY <1>3, <2>3 DEF Ordered
<1>10. QED
  BY <1>1, <1>7, <1>8, <1>9 DEF Inv

------------------------------------------------------------------------------
(* Growing, rehashing and copying: entries leave one storage for another. *)

\* A storage in which there is nothing yet: all the entries there are, are where a
\* rehash takes them from.
LEMMA Emptied ==
    ASSUME Inv, IInv', NEW n \in Nat, data' = allocate(n), capacity' = n,
           pc' \notin {"probe", "shift", "lookup", "assign"},
           Hashed', Walking', size' = Cardinality(UsedSlots(old'.nodes)),
           \A p, q \in UsedSlots(old'.nodes) : old'.nodes[p].key = old'.nodes[q].key => p = q
    PROVE  Inv'
<1>1. UsedSlots(data') = {} /\ Cardinality(UsedSlots(data')) = 0
  BY Allocated
<1>2. Counted'
  <2>1. Cardinality(UsedSlots(old'.nodes)) \in Nat
    BY WalkCount DEF IInv
  <2>2. QED
    BY <1>1, <2>1 DEF Counted
<1>3. Ordered'
  BY <1>1 DEF Ordered, InOrder
<1>4. Unique'
  <2>1. Left' = UsedSlots(old'.nodes) /\ ~Carrying'
    BY DEF Left, Carrying
  <2>2. QED
    BY <1>1, <2>1 DEF Unique
<1>5. Probing' /\ Looking' /\ Answer'
  BY DEF Probing, Looking, Answer
<1>6. QED
  BY <1>2, <1>3, <1>4, <1>5 DEF Inv

\* ensure_capacity moves the entries to a larger storage.
LEMMA GrowOrder ==
    ASSUME Inv, Grow
    PROVE  Inv'
<1>1. IInv'
  BY GrowStep DEF Inv
<1>2. /\ pc = "enter" /\ ~Moving /\ pc' = "rehash"
      /\ old' = [nodes |-> data, next |-> 0] /\ data' = allocate(new_capacity)
      /\ capacity' = new_capacity
      /\ UNCHANGED <<size, call, probe, src>>
  BY DEF Grow
<1>3. old'.nodes = data /\ old'.next = 0 /\ old = NoWalk
  BY <1>2 DEF Moving
<1>4. new_capacity \in Nat
  BY <1>1, <1>2 DEF IInv, TypeOK
<1>5. Hashed' /\ Walking'
  <2>1. TypeOK
    BY DEF Inv, IInv
  <2>2. \A p \in UsedSlots(data) : p \in Nat
    BY <2>1, UsedIsEntry DEF Position
  <2>3. UsedSlots(data') = {}
    BY <1>2, <1>4, Allocated
  <2>4. QED
    BY <1>2, <1>3, <2>2, <2>3 DEF Inv, Hashed, Walking
<1>6. size = Cardinality(UsedSlots(data))
  <2>1. Cardinality(UsedSlots(data)) \in Nat /\ Cardinality(UsedSlots(old.nodes)) = 0
    BY <1>3, DataCount, NotMoving DEF Inv
  <2>2. QED
    BY <1>2, <2>1 DEF Inv, Counted
<1>7. \A p, q \in UsedSlots(data) : data[p].key = data[q].key => p = q
  BY DEF Inv, Unique
<1>8. QED
  BY <1>1, <1>2, <1>3, <1>4, <1>5, <1>6, <1>7, Emptied

\* insert_entry starts at the preferred position of its entry.
LEMMA Started ==
    ASSUME Inv, IInv', UNCHANGED <<data, capacity, size, call, src>>,
           UsedSlots(old'.nodes) = UsedSlots(old.nodes),
           \A p \in UsedSlots(old.nodes) : old'.nodes[p] = old.nodes[p],
           pc \in {"enter", "rehash"}, pc' = "probe",
           NEW e \in Entry, e.hash = hash_entry(e.key), probe' = StartProbe(e, capacity),
           Hashed', Walking',
           old' = NoWalk => e = OuterEntry,
           old' # NoWalk => old'.next \in UsedSlots(old.nodes) /\ e = old.nodes[old'.next]
    PROVE  Inv'
<1>1. Counted' /\ Ordered' /\ Looking' /\ Answer'
  BY DEF Inv, Counted, Ordered, Looking, Answer
<1>2. probe'.entry = e /\ probe'.pos = home(capacity, e) /\ probe'.dist = 0 /\ ~probe'.found
  BY DEF StartProbe, home
<1>3. capacity \in Nat \ {0} /\ home(capacity, e) \in 0..capacity - 1
  <2>1. capacity \in Nat \ {0}
    BY <1>1 DEF IInv, TypeOK, Control, Position
  <2>2. QED
    BY <2>1, Home
<1>4. \A r \in 0..capacity - 1 :
        ~(away(capacity, home(capacity, e), r) < away(capacity, home(capacity, e), home(capacity, e)))
  <2> TAKE r \in 0..capacity - 1
  <2>1. away(capacity, home(capacity, e), r) \in 0..capacity - 1
        /\ away(capacity, home(capacity, e), home(capacity, e)) = 0
    BY <1>3, AwayType, AwayZero
  <2>2. QED
    BY <2>1
<1>5. Probing'
  <2>1. FarEnough(data, capacity, e, home(capacity, e))
        /\ Passed(data, capacity, home(capacity, e), home(capacity, e), e.key)
    BY <1>4 DEF FarEnough, Passed
  <2>2. away(capacity, home(capacity, e), home(capacity, e)) = 0
    BY <1>3, AwayZero
  <2>3. OuterEntry' = OuterEntry
    BY DEF OuterEntry
  <2>4. QED
    BY <1>2, <2>1, <2>2, <2>3 DEF Probing, Moving
<1>6. Unique'
  <2>1. Left = UsedSlots(old.nodes)
    BY DEF Left
  <2>2. Left' = {p \in UsedSlots(old.nodes) : p # old'.next}
    BY DEF Left
  <2>3. Carrying' = (old' # NoWalk)
    BY <1>2 DEF Carrying, Moving
  <2>4. ASSUME Carrying'
        PROVE  /\ \A q \in UsedSlots(data) : data[q].key # e.key
               /\ \A p \in Left' : old.nodes[p].key # e.key
    <3>1. old'.next \in Left /\ e = old.nodes[old'.next]
      BY <2>1, <2>3, <2>4
    <3>2. \A q \in UsedSlots(data) : data[q].key # e.key
      BY <3>1 DEF Inv, Unique
    <3>3. \A p \in Left : old.nodes[p].key = e.key => p = old'.next
      BY <3>1 DEF Inv, Unique
    <3>4. QED
      BY <2>1, <2>2, <3>2, <3>3
  <2>5. QED
    BY <1>2, <2>1, <2>2, <2>4 DEF Inv, Unique
<1>7. QED
  BY <1>1, <1>5, <1>6 DEF Inv

\* The entry of a call, or of the table that is copied, stores its hash.
LEMMA OuterIsHashed ==
    ASSUME IInv, Hashed, pc \in {"enter", "rehash"}
    PROVE  OuterEntry \in Entry /\ OuterEntry.hash = hash_entry(OuterEntry.key)
<1>1. OuterEntry \in Entry
  BY OuterEntryType
<1>2. CASE call.op \in {"put", "insert"}
  BY <1>1, <1>2 DEF OuterEntry, NewEntry
<1>3. CASE call.op = "copy"
  BY <1>1, <1>3 DEF OuterEntry, IInv, Control, Hashed
<1>4. QED
  BY <1>1, <1>2, <1>3 DEF IInv, Control

\* insert_entry is called, by a public operation or by rehash.
LEMMA EnterOrder ==
    ASSUME Inv, Enter
    PROVE  Inv'
<1> DEFINE e == IF Moving THEN old.nodes[old.next] ELSE OuterEntry
<1>1. IInv'
  BY GrowStep DEF Inv
<1>2. /\ pc = "enter" /\ pc' = "probe" /\ probe' = StartProbe(e, capacity)
      /\ UNCHANGED <<data, capacity, size, call, old, src>>
  BY DEF Enter
<1>3. e \in Entry /\ e.hash = hash_entry(e.key)
  <2>1. CASE Moving
    <3>1. old \in Walk /\ old.next \in UsedSlots(old.nodes)
      BY <1>2, <2>1 DEF Inv, IInv, Control
    <3>2. old.nodes[old.next] \in Entry
      BY <3>1, UsedEntry
    <3>3. QED
      BY <2>1, <3>1, <3>2 DEF Inv, Hashed
  <2>2. CASE ~Moving
    BY <1>2, <2>2, OuterIsHashed DEF Inv
  <2>3. QED
    BY <2>1, <2>2
<1>4. Walking'
  BY <1>2 DEF Inv, Walking
<1>5. Hashed'
  BY <1>2, <1>3 DEF Inv, Hashed, StartProbe
<1>6. old = NoWalk => e = OuterEntry
  BY DEF Moving
<1>7. old # NoWalk => old.next \in UsedSlots(old.nodes) /\ e = old.nodes[old.next]
  BY <1>2 DEF Moving, Inv, IInv, Control
<1> HIDE DEF e
<1>8. QED
  BY <1>1, <1>2, <1>3, <1>4, <1>5, <1>6, <1>7, Started

\* rehash goes on to the next entry, or is done.
LEMMA RehashOrder ==
    ASSUME Inv, RehashNext \/ RehashDone
    PROVE  Inv'
<1>1. IInv'
  BY GrowStep DEF Inv
<1>2. CASE RehashNext
  <2>1. PICK p \in UsedSlots(old.nodes) : IsNextUsed(old, p) /\ old' = [old EXCEPT !.next = p]
    BY <1>2 DEF RehashNext
  <2>2. /\ pc = "rehash" /\ pc' = "enter"
        /\ UNCHANGED <<data, capacity, size, call, probe, src>>
    BY <1>2 DEF RehashNext
  <2>3. old'.nodes = old.nodes /\ old'.next = p
    BY <2>1 DEF Inv, IInv, Walk
  <2>4. Walking'
    BY <2>1, <2>3 DEF Inv, Walking, IsNextUsed
  <2>5. Hashed' /\ Looking' /\ Answer'
    BY <2>2, <2>3 DEF Inv, Hashed, Looking, Answer
  <2>6. QED
    BY <1>1, <2>2, <2>3, <2>4, <2>5, Quiet
<1>3. CASE RehashDone
  <2>1. /\ pc = "rehash" /\ pc' = "probe" /\ old' = NoWalk /\ AtEnd(old)
        /\ probe' = StartProbe(OuterEntry, capacity)
        /\ UNCHANGED <<data, capacity, size, call, src>>
    BY <1>3 DEF RehashDone
  <2>2. UsedSlots(old.nodes) = {}
    <3>1. \A p \in UsedSlots(old.nodes) : p \in Nat /\ old.next \in Nat
      BY WalkStep DEF Inv, IInv, UsedSlots
    <3>2. QED
      BY <2>1, <3>1 DEF AtEnd, Inv, Walking
  <2>3. UsedSlots(old'.nodes) = UsedSlots(old.nodes)
    BY <2>1, <2>2, NotMoving
  <2>4. OuterEntry \in Entry /\ OuterEntry.hash = hash_entry(OuterEntry.key)
    BY <2>1, OuterIsHashed DEF Inv
  <2>5. Hashed' /\ Walking'
    BY <2>1, <2>2, <2>3, <2>4 DEF Inv, Hashed, Walking, StartProbe
  <2>6. QED
    BY <1>1, <2>1, <2>2, <2>3, <2>4, <2>5, Started
<1>4. QED
  BY <1>2, <1>3

\* Table(const Table &) starts, goes on to the next entry, or is done.
LEMMA CopyOrder ==
    ASSUME Inv, Copy \/ CopyEmpty \/ CopyNext \/ CopyDone
    PROVE  Inv'
<1>1. IInv'
  BY CallStep DEF Inv
<1>2. TypeOK
  BY DEF Inv, IInv
<1>3. CASE Copy
  <2>1. /\ pc = "idle" /\ pc' = "copy" /\ src' = [nodes |-> data, next |-> 0] /\ size' = 0
        /\ data' = allocate(capacity') /\ UNCHANGED <<probe, old>>
    BY <1>3 DEF Copy
  <2>2. capacity' \in Nat
    BY <1>1 DEF IInv, TypeOK
  <2>3. UsedSlots(data') = {}
    BY <2>1, <2>2, Allocated
  <2>4. old = NoWalk
    BY <2>1 DEF Inv, IInv, Control, Moving
  <2>5. Hashed' /\ Walking'
    BY <2>1, <2>3 DEF Inv, Hashed, Walking
  <2>6. UsedSlots(old.nodes) = {} /\ Cardinality(UsedSlots(old.nodes)) = 0
    BY <2>4, NotMoving
  <2>7. QED
    BY <1>1, <2>1, <2>2, <2>5, <2>6, Emptied
<1>4. CASE CopyEmpty
  <2>1. /\ pc = "idle" /\ size = 0 /\ pc' = pc
        /\ data' = allocate(capacity') /\ UNCHANGED <<size, old, src>>
    BY <1>4 DEF CopyEmpty
  <2>2. capacity' \in Nat
    BY <1>1 DEF IInv, TypeOK
  <2>3. UsedSlots(data') = {}
    BY <2>1, <2>2, Allocated
  <2>4. old = NoWalk
    BY <2>1 DEF Inv, IInv, Control, Moving
  <2>5. Hashed' /\ Walking'
    BY <2>1, <2>3 DEF Inv, Hashed, Walking
  <2>6. UsedSlots(old.nodes) = {} /\ Cardinality(UsedSlots(old.nodes)) = 0
    BY <2>4, NotMoving
  <2>7. QED
    BY <1>1, <2>1, <2>2, <2>5, <2>6, Emptied
<1>5. CASE CopyNext
  <2>1. PICK p \in UsedSlots(src.nodes) : src' = [src EXCEPT !.next = p]
    BY <1>5 DEF CopyNext
  <2>2. /\ pc = "copy" /\ pc' = "enter"
        /\ UNCHANGED <<data, capacity, size, call, probe, old>>
    BY <1>5 DEF CopyNext
  <2>3. src'.nodes = src.nodes
    BY <2>1 DEF Inv, IInv, Walk
  <2>4. Hashed' /\ Walking' /\ Looking' /\ Answer'
    BY <2>2, <2>3 DEF Inv, Hashed, Walking, Looking, Answer
  <2>5. QED
    BY <1>1, <2>2, <2>4, Quiet
<1>6. CASE CopyDone
  <2>1. /\ pc = "copy" /\ pc' = "idle" /\ src' = NoWalk
        /\ UNCHANGED <<data, capacity, size, old>>
    BY <1>6 DEF CopyDone, Return
  <2>2. UsedSlots(src'.nodes) = {}
    BY <2>1, NotMoving
  <2>3. Hashed' /\ Walking' /\ Looking' /\ Answer'
    BY <2>1, <2>2 DEF Inv, Hashed, Walking, Looking, Answer
  <2>4. QED
    BY <1>1, <2>1, <2>3, Quiet
<1>7. QED
  BY <1>3, <1>4, <1>5, <1>6

------------------------------------------------------------------------------
(* The backward shift. *)

\* erase moves the entries after the hole back, and stops where nobody missed it.
LEMMA ShiftOrder ==
    ASSUME Inv, ShiftBack \/ ShiftDone
    PROVE  Inv'
<1> DEFINE h == Hole
           s == succ(h)
<1>1. IInv'
  BY ShiftStep DEF Inv
<1>2. /\ TypeOK /\ capacity \in Nat \ {0} /\ data \in [0..capacity - 1 -> Node]
      /\ pc = "shift" /\ h \in 0..capacity - 1 /\ h = probe.pos /\ ~used(h)
      /\ call.op = "erase" /\ \A p \in UsedSlots(data) : data[p].key # call.key
  BY DEF ShiftBack, ShiftDone, Inv, IInv, TypeOK, Control, Position, Answer, Hole
<1>3. s \in 0..capacity - 1 /\ s = after(capacity, h)
  BY <1>2, AwayAfter, SuccIsAfter
<1>4. old = NoWalk /\ UsedSlots(old.nodes) = {} /\ Cardinality(UsedSlots(old.nodes)) = 0
  BY <1>2, NotMoving DEF Inv, IInv, Control, Moving
<1>5. Left = {} /\ ~Carrying /\ InOrder(data, capacity, {h})
  BY <1>2, <1>4 DEF Left, Carrying, Inv, Ordered
<1>6. used(s) => /\ data[s] \in Entry
                 /\ probe_distance(data[s].hash, s) = far(data, capacity, s)
  <2>1. used(s) => data[s] \in Entry
    BY <1>2, <1>3 DEF used, Node
  <2>2. QED
    BY <1>2, <1>3, <2>1, DistanceIsAway DEF far, Position
<1>7. Cardinality(UsedSlots(data)) \in Nat /\ size = Cardinality(UsedSlots(data)) + 1
  <2>1. Cardinality(UsedSlots(data)) \in Nat
    BY DataCount DEF Inv
  <2>2. QED
    BY <1>2, <1>4, <2>1 DEF Inv, Counted
<1>8. CASE ShiftBack
  <2>1. /\ data' = [data EXCEPT ![h] = data[s], ![s] = Free]
        /\ pc' = "shift" /\ Hole' = s /\ used(s)
        /\ probe_distance(data[s].hash, s) # 0
        /\ UNCHANGED <<capacity, size, call, old, src>>
    BY <1>1, <1>2, <1>8 DEF ShiftBack, MustShift, Hole, IInv, TypeOK, Locals
  <2> HIDE DEF s, h
  <2>2. s # h
    BY <1>2, <2>1
  <2>3. /\ data'[h] = data[s] /\ data'[s] = Free
        /\ \A p \in 0..capacity - 1 : p # h /\ p # s => data'[p] = data[p]
    BY <1>2, <1>3, <2>1, <2>2
  <2>4. UsedSlots(data') = (UsedSlots(data) \ {s}) \cup {h} /\ s \in UsedSlots(data)
        /\ h \notin UsedSlots(data)
    <3>1. DOMAIN data' = 0..capacity - 1 /\ DOMAIN data = 0..capacity - 1
      BY <1>2, <2>1
    <3>2. QED
      BY <1>2, <1>3, <2>1, <2>2, <2>3, <3>1 DEF UsedSlots, used
  <2>5. Counted'
    <3>1. IsFiniteSet(UsedSlots(data))
      BY DataCount DEF Inv
    <3>2. /\ IsFiniteSet(UsedSlots(data) \ {s})
          /\ Cardinality(UsedSlots(data) \ {s}) = Cardinality(UsedSlots(data)) - 1
      BY <2>4, <3>1, FS_RemoveElement
    <3>3. Cardinality(UsedSlots(data')) = Cardinality(UsedSlots(data) \ {s}) + 1
      BY <2>4, <3>2, FS_AddElement
    <3>4. Cardinality(UsedSlots(data')) = Cardinality(UsedSlots(data))
      BY <1>7, <3>2, <3>3
    <3>5. size' = size /\ pc' = "shift" /\ old' = old
      BY <2>1
    <3>6. Cardinality(UsedSlots(old'.nodes)) = 0
      BY <1>4, <3>5
    <3>7. size' = Cardinality(UsedSlots(data')) + Cardinality(UsedSlots(old'.nodes)) + 1
      BY <1>7, <3>4, <3>5, <3>6
    <3>8. QED
      BY <3>5, <3>7 DEF Counted
  <2>6. Ordered'
    <3>1. far(data, capacity, s) # 0 /\ data[h] = Free /\ data[s] # Free
      BY <1>2, <1>6, <2>1 DEF used
    <3>2. InOrder(data', capacity, {s})
      BY <1>2, <1>3, <1>5, <2>1, <3>1, OrderShift
    <3>3. QED
      BY <2>1, <3>2 DEF Ordered
  <2>7. \A p \in UsedSlots(data') : \E q \in UsedSlots(data) :
           data'[p] = data[q] /\ q = IF p = h THEN s ELSE p
    BY <1>2, <2>3, <2>4 DEF UsedSlots
  <2>8. Hashed'
    <3>1. \A p \in UsedSlots(data') : data'[p].hash = hash_entry(data'[p].key)
      BY <2>7 DEF Inv, Hashed
    <3>2. QED
      BY <2>1, <3>1 DEF Inv, Hashed
  <2>9. Unique'
    <3>1. \A p, q \in UsedSlots(data') : data'[p].key = data'[q].key => p = q
      <4> TAKE p, q \in UsedSlots(data')
      <4>1. PICK p1 \in UsedSlots(data) : data'[p] = data[p1] /\ p1 = IF p = h THEN s ELSE p
        BY <2>7
      <4>2. PICK q1 \in UsedSlots(data) : data'[q] = data[q1] /\ q1 = IF q = h THEN s ELSE q
        BY <2>7
      <4>3. data[p1].key = data[q1].key => p1 = q1
        BY DEF Inv, Unique
      <4>4. p # s /\ q # s
        BY <2>2, <2>4
      <4>5. QED
        BY <4>1, <4>2, <4>3, <4>4
    <3>2. Left' = {} /\ ~Carrying'
      BY <1>4, <2>1 DEF Left, Carrying
    <3>3. QED
      BY <3>1, <3>2 DEF Unique
  <2>10. Answer'
    <3>1. ~used(Hole)'
      BY <2>1, <2>3 DEF used
    <3>2. \A p \in UsedSlots(data') : data'[p].key # call'.key
      <4>1. call' = call
        BY <2>1
      <4>2. QED
        BY <1>2, <2>7, <4>1
    <3>3. QED
      BY <1>2, <2>1, <3>1, <3>2 DEF Answer
  <2>11. Walking' /\ Probing' /\ Looking'
    BY <1>4, <2>1 DEF Walking, Probing, Looking
  <2>12. QED
    BY <1>1, <2>5, <2>6, <2>8, <2>9, <2>10, <2>11 DEF Inv
<1>9. CASE ShiftDone
  <2>1. /\ pc' = "idle" /\ size' = size - 1 /\ ~MustShift
        /\ UNCHANGED <<data, capacity, old, src>>
    BY <1>9 DEF ShiftDone, Return
  <2>2. Counted'
    BY <1>4, <1>7, <2>1 DEF Counted
  <2>3. Ordered'
    <3>1. data[h] = Free /\ (data[s] = Free \/ far(data, capacity, s) = 0)
      BY <1>2, <1>6, <2>1 DEF MustShift, used
    <3>2. InOrder(data, capacity, {})
      BY <1>2, <1>3, <1>5, <3>1, OrderClosed
    <3>3. QED
      BY <2>1, <3>2 DEF Ordered
  <2>4. Unique'
    <3>1. Left' = {} /\ ~Carrying'
      BY <1>4, <2>1 DEF Left, Carrying
    <3>2. QED
      BY <2>1, <3>1 DEF Inv, Unique
  <2>5. Hashed' /\ Walking' /\ Probing' /\ Looking' /\ Answer'
    BY <2>1 DEF Inv, Hashed, Walking, Probing, Looking, Answer
  <2>6. QED
    BY <1>1, <2>2, <2>3, <2>4, <2>5 DEF Inv
<1>10. QED
  BY <1>8, <1>9

------------------------------------------------------------------------------
(* insert_entry. *)

\* What insert_entry knows of its entry, and of the way it has come.
LEMMA ProbeFacts ==
    ASSUME Inv, pc = "probe"
    PROVE  /\ TypeOK /\ capacity \in Nat \ {0} /\ data \in [0..capacity - 1 -> Node]
           /\ probe.entry \in Entry /\ probe.entry # Free
           /\ probe.entry.hash = hash_entry(probe.entry.key)
           /\ probe.pos \in 0..capacity - 1
           /\ home(capacity, probe.entry) \in 0..capacity - 1
           /\ probe.dist = away(capacity, home(capacity, probe.entry), probe.pos)
           /\ probe.dist \in 0..capacity - 1
           /\ InOrder(data, capacity, {})
           /\ \E r \in 0..capacity - 1 : data[r] = Free
           /\ probe.found => probe.cached \in 0..capacity - 1 /\ data[probe.cached] # Free
<1>1. /\ TypeOK /\ capacity \in Nat \ {0} /\ data \in [0..capacity - 1 -> Node]
      /\ probe.entry \in Entry /\ probe.pos \in 0..capacity - 1
      /\ probe.found => probe.cached \in 0..capacity - 1 /\ data[probe.cached] # Free
  BY DEF Inv, IInv, TypeOK, Control, Position, used
<1>2. probe.entry # Free
  BY <1>1, FreeIsNoEntry
<1>3. probe.entry.hash = hash_entry(probe.entry.key)
  BY DEF Inv, Hashed
<1>4. home(capacity, probe.entry) \in 0..capacity - 1
  BY <1>1, Home
<1>5. probe.dist = away(capacity, home(capacity, probe.entry), probe.pos)
  BY DEF Inv, Probing
<1>6. away(capacity, home(capacity, probe.entry), probe.pos) \in 0..capacity - 1
  BY <1>1, <1>4, AwayType
<1>7. InOrder(data, capacity, {})
  BY DEF Inv, Ordered
<1>8. \E r \in 0..capacity - 1 : data[r] = Free
  BY <1>1, Load DEF Position, used
<1>9. QED
  BY <1>1, <1>2, <1>3, <1>4, <1>5, <1>6, <1>7, <1>8

\* What it finds in a slot that is used.
LEMMA SlotFacts ==
    ASSUME Inv, pc = "probe", used(probe.pos)
    PROVE  /\ probe.pos \in UsedSlots(data) /\ data[probe.pos] \in Entry
           /\ data[probe.pos].hash = hash_entry(data[probe.pos].key)
           /\ probe_distance(data[probe.pos].hash, probe.pos) = far(data, capacity, probe.pos)
           /\ far(data, capacity, probe.pos) \in 0..capacity - 1
           /\ home(capacity, data[probe.pos]) \in 0..capacity - 1
           /\ SameKey(data[probe.pos]) <=> data[probe.pos].key = probe.entry.key
<1>1. /\ TypeOK /\ capacity \in Nat \ {0} /\ data \in [0..capacity - 1 -> Node]
      /\ probe.pos \in 0..capacity - 1 /\ probe.entry.hash = hash_entry(probe.entry.key)
  BY ProbeFacts
<1>2. probe.pos \in UsedSlots(data) /\ data[probe.pos] \in Entry
  BY <1>1, UsedIsEntry DEF Position
<1>3. data[probe.pos].hash = hash_entry(data[probe.pos].key)
  BY <1>2 DEF Inv, Hashed
<1>4. probe_distance(data[probe.pos].hash, probe.pos) = far(data, capacity, probe.pos)
  BY <1>1, <1>2, DistanceIsAway DEF far, Position
<1>5. far(data, capacity, probe.pos) \in 0..capacity - 1 /\ home(capacity, data[probe.pos]) \in 0..capacity - 1
  BY <1>1, <1>2, Far
<1>6. SameKey(data[probe.pos]) <=> data[probe.pos].key = probe.entry.key
  BY <1>1, <1>3 DEF SameKey
<1>7. QED
  BY <1>2, <1>3, <1>4, <1>5, <1>6

\* Where the entry is going to be placed, no slot has its key: those it has passed
\* have others, and an entry with this key further on would have met the slot too.
LEMMA NewKey ==
    ASSUME Inv, pc = "probe",
           used(probe.pos) => /\ data[probe.pos].key # probe.entry.key
                              /\ far(data, capacity, probe.pos) < probe.dist
    PROVE  \A q \in UsedSlots(data) : data[q].key # probe.entry.key
<1> DEFINE h == home(capacity, probe.entry)
<1>1. SUFFICES ASSUME NEW q \in UsedSlots(data), data[q].key = probe.entry.key
               PROVE  FALSE
  OBVIOUS
<1>2. q \in 0..capacity - 1 /\ data[q] \in Entry /\ home(capacity, data[q]) = h
      /\ far(data, capacity, q) = away(capacity, h, q)
  <2>1. q \in 0..capacity - 1 /\ data[q] \in Entry
    BY ProbeFacts, UsedIsEntry DEF Position
  <2>2. data[q].hash = probe.entry.hash
    BY <1>1, ProbeFacts DEF Inv, Hashed
  <2>3. QED
    BY <2>1, <2>2 DEF home, far
<1>3. /\ capacity \in Nat \ {0} /\ h \in 0..capacity - 1 /\ probe.pos \in 0..capacity - 1
      /\ probe.dist = away(capacity, h, probe.pos)
  BY ProbeFacts
<1>4. ~(away(capacity, h, q) < away(capacity, h, probe.pos))
  BY <1>1, <1>2 DEF Inv, Probing, Passed
<1>5. q # probe.pos
  BY <1>1, ProbeFacts, UsedIsEntry
<1> HIDE DEF h
<1>6. away(capacity, h, q) \in 0..capacity - 1 /\ away(capacity, h, probe.pos) \in 0..capacity - 1
  BY <1>2, <1>3, AwayType
<1>7. away(capacity, h, q) # away(capacity, h, probe.pos)
  BY <1>2, <1>3, <1>5, AwayOnce
<1>8. away(capacity, h, probe.pos) < far(data, capacity, q)
  BY <1>2, <1>4, <1>6, <1>7
<1>9. data[probe.pos] # Free /\ far(data, capacity, probe.pos) >= away(capacity, h, probe.pos)
  BY <1>1, <1>2, <1>3, <1>8, ProbeFacts DEF InOrder
<1>10. far(data, capacity, probe.pos) < probe.dist /\ far(data, capacity, probe.pos) \in 0..capacity - 1
  BY <1>9, SlotFacts DEF used
<1>11. QED
  BY <1>3, <1>6, <1>9, <1>10

\* What insert_entry displaced first stays behind it.
LEMMA CachedBehind ==
    ASSUME Inv, pc = "probe", used(probe.pos), probe.found
    PROVE  /\ probe.cached # succ(probe.pos)
           /\ \A r \in Position :
                away(capacity, probe.cached, r) < away(capacity, probe.cached, succ(probe.pos)) => used(r)
<1>1. /\ capacity \in Nat \ {0} /\ probe.pos \in 0..capacity - 1 /\ probe.cached \in 0..capacity - 1
      /\ \E r \in 0..capacity - 1 : data[r] = Free
  BY ProbeFacts
<1>2. \A r \in 0..capacity - 1 :
        away(capacity, probe.cached, r) < away(capacity, probe.cached, probe.pos) => data[r] # Free
  BY DEF Inv, Probing, Position, used
<1>3. away(capacity, probe.cached, succ(probe.pos)) = away(capacity, probe.cached, probe.pos) + 1
  BY <1>1, <1>2, NoWrap, SuccIsAfter DEF used
<1>4. away(capacity, probe.cached, probe.pos) \in Nat /\ away(capacity, probe.cached, probe.cached) = 0
  <2>1. away(capacity, probe.cached, probe.pos) \in 0..capacity - 1
    BY <1>1, AwayType
  <2>2. QED
    BY <1>1, <2>1, AwayZero
<1>5. ASSUME NEW r \in Position,
             away(capacity, probe.cached, r) < away(capacity, probe.cached, succ(probe.pos))
      PROVE  used(r)
  <2>1. r = probe.pos \/ away(capacity, probe.cached, r) < away(capacity, probe.cached, probe.pos)
    BY <1>1, <1>5, StepForward, SuccIsAfter DEF Position
  <2>2. QED
    BY <1>2, <2>1 DEF Position, used
<1>6. QED
  BY <1>3, <1>4, <1>5

\* insert_entry goes on to the next slot.
LEMMA NextOrder ==
    ASSUME Inv, ProbeNext
    PROVE  Inv'
<1> DEFINE P == probe.pos
           E == probe.entry
           h == home(capacity, E)
<1>1. IInv'
  BY ProbeStep DEF Inv
<1>2. /\ pc = "probe" /\ used(P) /\ ~SameKey(data[P]) /\ ~Richer
      /\ probe' = [probe EXCEPT !.pos = succ(@), !.dist = @ + 1]
      /\ UNCHANGED <<data, capacity, size, pc, call, old, src>>
  BY DEF ProbeNext
<1>3. /\ probe'.pos = succ(P) /\ probe'.dist = probe.dist + 1 /\ probe'.entry = E
      /\ probe'.found = probe.found /\ probe'.cached = probe.cached
  BY <1>2, ProbeFacts DEF TypeOK, Locals
<1>4. /\ capacity \in Nat \ {0} /\ P \in 0..capacity - 1 /\ h \in 0..capacity - 1
      /\ probe.dist = away(capacity, h, P)
      /\ \E r \in 0..capacity - 1 : data[r] = Free
      /\ FarEnough(data, capacity, E, P) /\ Passed(data, capacity, h, P, E.key)
  BY <1>2, ProbeFacts DEF Inv, Probing
<1>5. data[P] # Free /\ data[P].key # E.key /\ far(data, capacity, P) >= probe.dist
  <2>1. far(data, capacity, P) \in 0..capacity - 1 /\ ~(far(data, capacity, P) < probe.dist)
        /\ data[P].key # E.key
    BY <1>2, SlotFacts DEF Richer
  <2>2. probe.dist \in 0..capacity - 1
    BY <1>2, ProbeFacts
  <2>3. QED
    BY <1>2, <2>1, <2>2 DEF used
<1> HIDE DEF h
<1>6. away(capacity, h, succ(P)) = probe.dist + 1
  <2>1. \A r \in 0..capacity - 1 : away(capacity, h, r) < away(capacity, h, P) => data[r] # Free
    BY <1>4 DEF Passed
  <2>2. QED
    BY <1>4, <1>5, <2>1, NoWrap, SuccIsAfter
<1>7. \A r \in 0..capacity - 1 : away(capacity, h, r) < away(capacity, h, succ(P))
        => r = P \/ away(capacity, h, r) < away(capacity, h, P)
  BY <1>4, StepForward, SuccIsAfter
<1>8. FarEnough(data, capacity, E, succ(P)) /\ Passed(data, capacity, h, succ(P), E.key)
  BY <1>4, <1>5, <1>7 DEF FarEnough, Passed, h
<1>9. OuterEntry' = OuterEntry
  BY <1>2 DEF OuterEntry
<1>10. Probing'
  <2>1. probe.found =>
           /\ probe.cached # succ(P)
           /\ \A r \in Position :
                away(capacity, probe.cached, r) < away(capacity, probe.cached, succ(P)) => used(r)
    BY <1>2, CachedBehind
  <2>2. ~Moving => OuterEntry = IF probe.found THEN data[probe.cached] ELSE E
    BY <1>2 DEF Inv, Probing
  <2>3. QED
    BY <1>2, <1>3, <1>6, <1>8, <1>9, <2>1, <2>2 DEF Probing, Position, used, Moving, h
<1>11. Hashed' /\ Walking' /\ Counted' /\ Ordered' /\ Looking' /\ Answer'
  BY <1>2, <1>3 DEF Inv, Hashed, Walking, Counted, Ordered, Looking, Answer
<1>12. Unique'
  <2>1. Left' = Left /\ (Carrying' <=> Carrying)
    BY <1>2, <1>3 DEF Left, Carrying, Moving
  <2>2. QED
    BY <1>2, <1>3, <2>1 DEF Inv, Unique
<1>13. QED
  BY <1>1, <1>10, <1>11, <1>12 DEF Inv

\* insert_entry takes the slot of an entry that is closer to its home, and goes on
\* with this one.
LEMMA StealOrder ==
    ASSUME Inv, ProbeSteal
    PROVE  Inv'
<1> DEFINE P == probe.pos
           E == probe.entry
           V == data[P]
           h == home(capacity, V)
<1>1. IInv'
  BY ProbeStep DEF Inv
<1>2. /\ pc = "probe" /\ used(P) /\ ~SameKey(V) /\ Richer
      /\ data' = [data EXCEPT ![P] = E]
      /\ UNCHANGED <<capacity, size, pc, call, old, src>>
      /\ probe'.entry = V /\ probe'.pos = succ(P)
      /\ probe'.dist = probe_distance(V.hash, P) + 1
      /\ probe'.found /\ probe'.cached = IF probe.found THEN probe.cached ELSE P
  BY DEF ProbeSteal
<1>3. /\ TypeOK /\ capacity \in Nat \ {0} /\ data \in [0..capacity - 1 -> Node]
      /\ P \in 0..capacity - 1 /\ E \in Entry /\ E # Free /\ E.hash = hash_entry(E.key)
      /\ probe.dist = away(capacity, home(capacity, E), P) /\ probe.dist \in 0..capacity - 1
      /\ InOrder(data, capacity, {}) /\ FarEnough(data, capacity, E, P)
      /\ \E r \in 0..capacity - 1 : data[r] = Free
  BY <1>2, ProbeFacts DEF Inv, Probing
<1>4. /\ P \in UsedSlots(data) /\ V \in Entry /\ V.hash = hash_entry(V.key) /\ V.key # E.key
      /\ far(data, capacity, P) = away(capacity, h, P) /\ far(data, capacity, P) \in 0..capacity - 1
      /\ h \in 0..capacity - 1 /\ V # Free
      /\ far(data, capacity, P) < probe.dist /\ probe'.dist = far(data, capacity, P) + 1
  BY <1>2, SlotFacts DEF Richer, far, used
<1>5. data'[P] = E /\ \A r \in 0..capacity - 1 : r # P => data'[r] = data[r]
  BY <1>2, <1>3
<1>6. UsedSlots(data') = UsedSlots(data) /\ UsedSlots(data) \subseteq 0..capacity - 1
  BY <1>2, <1>3, <1>4, <1>5 DEF UsedSlots
<1>7. \A q \in UsedSlots(data) : data[q].key # E.key
  BY <1>2, <1>4, NewKey
<1>8. Moving => \A p \in Left : old.nodes[p].key # E.key
  BY <1>2 DEF Inv, Unique, Carrying
<1>9. ~Moving => Left = {}
  BY NotMoving DEF Moving, Left
<1> HIDE DEF h, V
<1>10. Ordered'
  <2>1. InOrder(data', capacity, {})
    BY <1>2, <1>3, <1>4, OrderPut
  <2>2. QED
    BY <1>2, <2>1 DEF Ordered
<1>11. Hashed'
  <2>1. \A q \in UsedSlots(data') : data'[q].hash = hash_entry(data'[q].key)
    BY <1>3, <1>5, <1>6 DEF Inv, Hashed
  <2>2. QED
    BY <1>2, <1>4, <2>1 DEF Inv, Hashed
<1>12. \A q \in UsedSlots(data') : data'[q].key # V.key
  BY <1>4, <1>5, <1>6 DEF Inv, Unique, V
<1>13. Unique'
  <2>1. \A p, q \in UsedSlots(data') : data'[p].key = data'[q].key => p = q
    BY <1>3, <1>5, <1>6, <1>7 DEF Inv, Unique
  <2>2. \A p \in Left, q \in UsedSlots(data') : old.nodes[p].key # data'[q].key
    <3>1. \A p \in Left : old.nodes[p].key # E.key
      BY <1>8, <1>9
    <3>2. QED
      BY <1>3, <1>5, <1>6, <3>1 DEF Inv, Unique
  <2>3. \A p \in Left : old.nodes[p].key # V.key
    BY <1>4 DEF Inv, Unique, V
  <2>4. Left' = Left
    BY <1>2 DEF Left
  <2>5. old' = old /\ probe'.entry = V
    BY <1>2 DEF V
  <2>6. QED
    BY <1>12, <2>1, <2>2, <2>3, <2>4, <2>5 DEF Inv, Unique
<1>14. Counted' /\ Walking' /\ Looking' /\ Answer'
  BY <1>2, <1>6 DEF Inv, Counted, Walking, Looking, Answer
<1>15. Probing'
  <2>1. \A r \in 0..capacity - 1 : away(capacity, h, r) < away(capacity, h, P)
           => data[r] # Free /\ far(data, capacity, r) >= away(capacity, h, r)
    BY <1>3, <1>4 DEF InOrder, h, V
  <2>2. away(capacity, h, succ(P)) = probe'.dist
    BY <1>3, <1>4, <2>1, NoWrap, SuccIsAfter DEF V
  <2>3. \A r \in 0..capacity - 1 : away(capacity, h, r) < away(capacity, h, succ(P))
          => r = P \/ away(capacity, h, r) < away(capacity, h, P)
    BY <1>3, <1>4, StepForward, SuccIsAfter
  <2>4. far(data', capacity, P) = probe.dist
        /\ \A r \in 0..capacity - 1 : r # P => far(data', capacity, r) = far(data, capacity, r)
    BY <1>3, <1>5 DEF far
  <2>5. \A r \in 0..capacity - 1 : away(capacity, h, r) < away(capacity, h, succ(P))
          => data'[r] # Free /\ far(data', capacity, r) >= away(capacity, h, r)
    <3>1. TAKE r \in 0..capacity - 1
    <3>2. HAVE away(capacity, h, r) < away(capacity, h, succ(P))
    <3>3. CASE r = P
      BY <1>3, <1>4, <1>5, <2>4, <3>3
    <3>4. CASE r # P
      BY <1>5, <2>1, <2>3, <2>4, <3>2, <3>4
    <3>5. QED
      BY <3>3, <3>4
  <2>6. FarEnough(data', capacity, V, succ(P))
    BY <2>5 DEF FarEnough, h
  <2>7. Passed(data', capacity, h, succ(P), V.key)
    <3>1. DOMAIN data' = 0..capacity - 1
      BY <1>2, <1>3
    <3>2. QED
      BY <1>12, <2>5, <3>1 DEF Passed, UsedSlots
  <2>8. \A r \in 0..capacity - 1 : data[r] # Free => data'[r] # Free
    BY <1>3, <1>5
  <2>9. CASE probe.found
    <3>1. /\ probe.cached # succ(P) /\ probe.cached # P
          /\ \A r \in 0..capacity - 1 :
               away(capacity, probe.cached, r) < away(capacity, probe.cached, succ(P)) => data'[r] # Free
      BY <1>2, <2>8, <2>9, CachedBehind DEF Position, used, Inv, Probing
    <3>2. ~Moving => OuterEntry = data'[probe.cached]
      BY <1>2, <1>5, <2>9, <3>1, ProbeFacts DEF Inv, Probing
    <3>3. QED
      BY <1>2, <2>2, <2>6, <2>7, <2>9, <3>1, <3>2 DEF Probing, Moving, Position, used, OuterEntry, h, V
  <2>10. CASE ~probe.found
    <3>1. succ(P) # P
      <4>1. PICK r \in 0..capacity - 1 : data[r] = Free
        BY <1>3
      <4>2. r # P
        BY <1>4, <4>1 DEF V
      <4>3. QED
        BY <1>3, <4>2 DEF succ
    <3>2. \A r \in 0..capacity - 1 :
             away(capacity, P, r) < away(capacity, P, succ(P)) => data'[r] # Free
      <4>1. TAKE r \in 0..capacity - 1
      <4>2. HAVE away(capacity, P, r) < away(capacity, P, succ(P))
      <4>3. r = P \/ away(capacity, P, r) < away(capacity, P, P)
        BY <1>3, <4>2, StepForward, SuccIsAfter
      <4>4. away(capacity, P, P) = 0 /\ away(capacity, P, r) \in 0..capacity - 1
        BY <1>3, AwayType, AwayZero
      <4>5. QED
        BY <1>3, <1>5, <4>3, <4>4
    <3>3. ~Moving => OuterEntry = data'[P]
      BY <1>2, <1>5, <2>10 DEF Inv, Probing
    <3>4. QED
      BY <1>2, <2>2, <2>6, <2>7, <2>10, <3>1, <3>2, <3>3 DEF Probing, Moving, Position, used, OuterEntry, h, V
  <2>11. QED
    BY <2>9, <2>10
<1>16. QED
  BY <1>1, <1>10, <1>11, <1>13, <1>14, <1>15 DEF Inv

\* insert_entry returns: a rehash lets go of the entry it has moved.
LEMMA InsertedFrame ==
    ASSUME Inv, IInv', pc = "probe", NEW pos \in Position, NEW inserted \in BOOLEAN,
           Inserted(pos, inserted)
    PROVE  /\ pc' \in {"rehash", "assign", "idle", "copy"}
           /\ pc' = "assign" => ~Moving /\ call.op = "put" /\ probe'.pos = pos /\ call' = call
           /\ src'.nodes = src.nodes
           /\ UsedSlots(old'.nodes) = Left /\ Left' = Left /\ old'.next = old.next
           /\ \A p \in Left : p \in UsedSlots(old.nodes) /\ old'.nodes[p] = old.nodes[p]
           /\ Moving => /\ size' = size
                        /\ Cardinality(Left) = Cardinality(UsedSlots(old.nodes)) - 1
           /\ ~Moving => /\ size' = IF inserted THEN size + 1 ELSE size
                         /\ Left = {} /\ UsedSlots(old.nodes) = {}
<1>1. /\ TypeOK /\ old \in Walk /\ src \in Walk /\ Control
  BY DEF Inv, IInv
<1>2. CASE Moving
  <2>1. /\ pc' = "rehash" /\ size' = size /\ src' = src
        /\ old' = [old EXCEPT !.nodes[old.next] = Free]
    BY <1>2 DEF Inserted
  <2>2. old.next \in UsedSlots(old.nodes)
    BY <1>1, <1>2 DEF Control
  <2>3. Left = UsedSlots(old.nodes) \ {old.next}
    BY DEF Left
  <2>4. /\ DOMAIN old'.nodes = DOMAIN old.nodes /\ old'.nodes[old.next] = Free
        /\ \A p \in DOMAIN old.nodes : p # old.next => old'.nodes[p] = old.nodes[p]
        /\ old'.next = old.next
    <3>1. PICK n \in Nat : old \in [nodes : [0..n - 1 -> Node], next : Nat]
      BY <1>1 DEF Walk
    <3>2. QED
      BY <2>1, <2>2, <3>1 DEF UsedSlots
  <2>5. UsedSlots(old'.nodes) = Left /\ \A p \in Left : old'.nodes[p] = old.nodes[p]
    BY <2>2, <2>3, <2>4 DEF UsedSlots
  <2>6. Left' = UsedSlots(old'.nodes)
    BY <2>1 DEF Left
  <2>7. Cardinality(Left) = Cardinality(UsedSlots(old.nodes)) - 1
    BY <1>1, <2>2, <2>3, WalkCount, FS_RemoveElement
  <2>8. QED
    BY <1>2, <2>1, <2>3, <2>4, <2>5, <2>6, <2>7
<1>3. CASE ~Moving
  <2>1. size' = (IF inserted THEN size + 1 ELSE size) /\ old' = old
    BY <1>3 DEF Inserted
  <2>2. UsedSlots(old.nodes) = {}
    BY <1>3, NotMoving DEF Moving
  <2>3. Left = {} /\ Left' = {}
    BY <2>1, <2>2 DEF Left
  <2>4. CASE call.op = "put"
    <3>1. pc' = "assign" /\ probe' = [NoProbe EXCEPT !.pos = pos] /\ UNCHANGED <<call, src>>
      BY <1>3, <2>4 DEF Inserted
    <3>2. probe'.pos = pos
      BY <3>1 DEF NoProbe
    <3>3. QED
      BY <1>3, <2>1, <2>2, <2>3, <2>4, <3>1, <3>2
  <2>5. CASE call.op = "insert"
    <3>1. pc' = "idle" /\ src' = src
      BY <1>3, <2>5 DEF Inserted, Return
    <3>2. QED
      BY <1>3, <2>1, <2>2, <2>3, <3>1
  <2>6. CASE call.op = "copy"
    <3>1. pc' = "copy" /\ src' = [src EXCEPT !.next = @ + 1]
      BY <1>3, <2>6 DEF Inserted
    <3>2. src'.nodes = src.nodes
      BY <1>1, <3>1 DEF Walk
    <3>3. QED
      BY <1>3, <2>1, <2>2, <2>3, <3>1, <3>2
  <2>7. QED
    BY <1>1, <2>4, <2>5, <2>6 DEF Control
<1>4. QED
  BY <1>2, <1>3

\* insert_entry has found a free slot for its entry.
LEMMA FreeOrder ==
    ASSUME Inv, ProbeFree
    PROVE  Inv'
<1> DEFINE P == probe.pos
           E == probe.entry
           pos == IF probe.found THEN probe.cached ELSE P
<1>1. IInv'
  BY PlaceStep DEF Inv
<1>2. /\ pc = "probe" /\ ~used(P) /\ data' = [data EXCEPT ![P] = E]
      /\ Inserted(pos, TRUE) /\ capacity' = capacity
  BY DEF ProbeFree
<1>3. /\ TypeOK /\ capacity \in Nat \ {0} /\ data \in [0..capacity - 1 -> Node]
      /\ P \in 0..capacity - 1 /\ E \in Entry /\ E # Free /\ E.hash = hash_entry(E.key)
      /\ InOrder(data, capacity, {}) /\ FarEnough(data, capacity, E, P)
      /\ probe.found => probe.cached \in 0..capacity - 1
  BY <1>2, ProbeFacts DEF Inv, Probing
<1>4. pos \in Position
  BY <1>3 DEF Position
<1>5. /\ pc' \in {"rehash", "assign", "idle", "copy"}
      /\ pc' = "assign" => ~Moving /\ call.op = "put" /\ probe'.pos = pos /\ call' = call
      /\ src'.nodes = src.nodes
      /\ UsedSlots(old'.nodes) = Left /\ Left' = Left /\ old'.next = old.next
      /\ \A p \in Left : p \in UsedSlots(old.nodes) /\ old'.nodes[p] = old.nodes[p]
      /\ Moving => /\ size' = size
                   /\ Cardinality(Left) = Cardinality(UsedSlots(old.nodes)) - 1
      /\ ~Moving => /\ size' = size + 1
                    /\ Left = {} /\ UsedSlots(old.nodes) = {}
  BY <1>1, <1>2, <1>4, InsertedFrame
<1>6. data'[P] = E /\ \A r \in 0..capacity - 1 : r # P => data'[r] = data[r]
  BY <1>2, <1>3
<1>7. /\ UsedSlots(data') = UsedSlots(data) \cup {P} /\ P \notin UsedSlots(data)
      /\ UsedSlots(data) \subseteq 0..capacity - 1
  BY <1>2, <1>3, <1>6 DEF UsedSlots, used
<1>8. \A q \in UsedSlots(data) : data[q].key # E.key
  BY <1>2, NewKey
<1>9. Ordered'
  <2>1. data[P] = Free
    BY <1>2 DEF used
  <2>2. InOrder(data', capacity, {})
    BY <1>2, <1>3, <2>1, OrderPut
  <2>3. QED
    BY <1>2, <1>5, <2>2 DEF Ordered
<1>10. Hashed'
  <2>1. \A q \in UsedSlots(data') : data'[q].hash = hash_entry(data'[q].key)
    BY <1>3, <1>6, <1>7 DEF Inv, Hashed
  <2>2. \A p \in UsedSlots(old'.nodes) : old'.nodes[p].hash = hash_entry(old'.nodes[p].key)
    BY <1>5 DEF Inv, Hashed
  <2>3. QED
    BY <1>5, <2>1, <2>2 DEF Inv, Hashed
<1>11. Walking'
  BY <1>5 DEF Inv, Walking
<1>12. Counted'
  <2>1. /\ Cardinality(UsedSlots(data)) \in Nat /\ IsFiniteSet(UsedSlots(data))
        /\ Cardinality(UsedSlots(old.nodes)) \in Nat
    BY DataCount, WalkCount DEF Inv, IInv
  <2>2. Cardinality(UsedSlots(data')) = Cardinality(UsedSlots(data)) + 1
    BY <1>7, <2>1, FS_AddElement
  <2>3. size = Cardinality(UsedSlots(data)) + Cardinality(UsedSlots(old.nodes))
    BY <1>2, <2>1 DEF Inv, Counted
  <2>4. Moving => size' = Cardinality(UsedSlots(data')) + Cardinality(Left)
    BY <1>5, <2>1, <2>2, <2>3
  <2>5. ~Moving => size' = Cardinality(UsedSlots(data')) + Cardinality(Left)
    <3>1. ASSUME ~Moving PROVE size' = Cardinality(UsedSlots(data')) + Cardinality(Left)
      <4>1. size' = size + 1 /\ Left = UsedSlots(old.nodes)
        BY <1>5, <3>1
      <4>2. QED
        BY <2>1, <2>2, <2>3, <4>1
    <3>2. QED
      BY <3>1
  <2>6. Cardinality(Left) \in Nat
    BY <1>1, <1>5, WalkCount DEF IInv
  <2>7. QED
    BY <1>5, <2>1, <2>2, <2>4, <2>5, <2>6 DEF Counted
<1>13. Unique'
  <2>1. \A p, q \in UsedSlots(data') : data'[p].key = data'[q].key => p = q
    BY <1>6, <1>7, <1>8 DEF Inv, Unique
  <2>2. \A p \in Left : old.nodes[p].key # E.key
    BY <1>2, <1>5 DEF Inv, Unique, Carrying
  <2>3. \A p \in Left, q \in UsedSlots(data') : old'.nodes[p].key # data'[q].key
    BY <1>5, <1>6, <1>7, <2>2 DEF Inv, Unique
  <2>4. \A p, q \in Left : old'.nodes[p].key = old'.nodes[q].key => p = q
    BY <1>5 DEF Inv, Unique
  <2>5. ~Carrying'
    BY <1>5 DEF Carrying
  <2>6. QED
    BY <1>5, <2>1, <2>3, <2>4, <2>5 DEF Unique
<1>14. Answer'
  <2>1. ASSUME pc' = "assign" PROVE data'[pos].key = call.key
    <3>1. OuterEntry = IF probe.found THEN data[probe.cached] ELSE E
      BY <1>2, <1>5, <2>1 DEF Inv, Probing
    <3>2. OuterEntry.key = call.key
      BY <1>5, <2>1 DEF OuterEntry, NewEntry
    <3>3. probe.found => probe.cached # P
      BY <1>2 DEF Inv, Probing
    <3>4. QED
      BY <1>3, <1>6, <3>1, <3>2, <3>3
  <2>2. QED
    BY <1>5, <2>1 DEF Answer
<1>15. Probing' /\ Looking'
  BY <1>5 DEF Probing, Looking
<1>16. QED
  BY <1>1, <1>9, <1>10, <1>11, <1>12, <1>13, <1>14, <1>15 DEF Inv

\* insert_entry has found the key of a public insert: an entry it displaced, or that
\* rehash moves, has no other of its key.
LEMMA SameOrder ==
    ASSUME Inv, ProbeSame
    PROVE  Inv'
<1> DEFINE P == probe.pos
           E == probe.entry
<1>1. IInv'
  BY PlaceStep DEF Inv
<1>2. /\ pc = "probe" /\ used(P) /\ SameKey(data[P])
      /\ data' = data /\ capacity' = capacity
  BY DEF ProbeSame
<1>3. P \in UsedSlots(data) /\ data[P].key = E.key /\ P \in Position
  BY <1>2, SlotFacts, ProbeFacts DEF Position
<1>4. ~Moving /\ ~probe.found
  BY <1>2, <1>3 DEF Inv, Unique, Carrying
<1>5. Inserted(P, FALSE)
  BY <1>4 DEF ProbeSame, Inv, IInv, TypeOK, Locals
<1>6. /\ pc' \in {"rehash", "assign", "idle", "copy"}
      /\ pc' = "assign" => ~Moving /\ call.op = "put" /\ probe'.pos = P /\ call' = call
      /\ src'.nodes = src.nodes
      /\ UsedSlots(old'.nodes) = Left /\ Left' = Left /\ Left = {} /\ UsedSlots(old.nodes) = {}
      /\ size' = size
  BY <1>1, <1>2, <1>3, <1>4, <1>5, InsertedFrame
<1>7. Hashed' /\ Walking' /\ Probing' /\ Looking'
  BY <1>2, <1>6 DEF Inv, Hashed, Walking, Probing, Looking
<1>8. Counted' /\ Ordered'
  BY <1>2, <1>6 DEF Inv, Counted, Ordered
<1>9. Unique'
  <2>1. ~Carrying'
    BY <1>6 DEF Carrying
  <2>2. QED
    BY <1>2, <1>6, <2>1 DEF Inv, Unique
<1>10. Answer'
  <2>1. pc' = "assign" => OuterEntry.key = call.key /\ OuterEntry = E
    BY <1>2, <1>4, <1>6 DEF Inv, Probing, OuterEntry, NewEntry
  <2>2. QED
    BY <1>2, <1>3, <1>6, <2>1 DEF Answer
<1>11. QED
  BY <1>1, <1>7, <1>8, <1>9, <1>10 DEF Inv

------------------------------------------------------------------------------
(* The invariant holds. *)

\* It holds of a table that was just created.
LEMMA OrderInitially == Init => Inv
<1>1. SUFFICES ASSUME Init PROVE Inv
  OBVIOUS
<1>2. IInv
  BY <1>1, Initially
<1>3. /\ capacity = 0 /\ size = 0 /\ pc = "idle"
      /\ data = allocate(0) /\ old = NoWalk /\ src = NoWalk
  BY <1>1 DEF Init
<1>4. /\ UsedSlots(data) = {} /\ UsedSlots(old.nodes) = {} /\ UsedSlots(src.nodes) = {}
      /\ Cardinality(UsedSlots(data)) = 0 /\ Cardinality(UsedSlots(old.nodes)) = 0
  BY <1>3, Allocated, NotMoving
<1>5. Hashed /\ Walking /\ Counted /\ Probing /\ Looking /\ Answer
  BY <1>3, <1>4 DEF Hashed, Walking, Counted, Probing, Looking, Answer
<1>6. Ordered /\ Unique
  BY <1>3, <1>4 DEF Ordered, InOrder, Unique, Left, Carrying
<1>7. QED
  BY <1>2, <1>5, <1>6 DEF Inv

\* Every step of every loop keeps it.
LEMMA OrderStep == Inv /\ [Next]_vars => Inv'
<1>1. ASSUME Inv, Next PROVE Inv'
  BY <1>1, BeginOrder, LookupOrder, AssignOrder, GrowOrder, EnterOrder, RehashOrder, CopyOrder,
     ShiftOrder, NextOrder, StealOrder, FreeOrder, SameOrder
     DEF Next, Internal
<1>2. ASSUME Inv, UNCHANGED vars PROVE Inv'
  <2>1. UNCHANGED <<data, capacity, size, pc, call, probe, old, src>>
    BY <1>2 DEF vars
  <2>2. IInv'
    BY <1>2 DEF Inv, vars, IInv, TypeOK, Control, Room, Moving, Position, used
  <2>3. Hashed' /\ Walking' /\ Counted' /\ Looking' /\ Answer'
    BY <1>2, <2>1 DEF Inv, Hashed, Walking, Counted, Looking, Answer, used, Hole
  <2>4. Ordered' /\ Unique'
    BY <1>2, <2>1 DEF Inv, Ordered, Unique, Left, Carrying, Moving, Hole
  <2>5. Probing'
    BY <1>2, <2>1 DEF Inv, Probing, OuterEntry, Moving, Position, used
  <2>6. QED
    BY <2>2, <2>3, <2>4, <2>5 DEF Inv
<1>3. QED
  BY <1>1, <1>2

\* Whatever calls are made, the entries are in Robin Hood's order, each key is in one
\* place, and the size counts the entries, in the middle of each loop too.
THEOREM OrderInvariance == Spec => []Inv
BY OrderInitially, OrderStep, PTL DEF Spec

\* No entry is further from its preferred position than one step more than the entry
\* before it, and none has a free slot before it on its way: a search may stop at the
\* first free slot.
THEOREM RobinHoodOrder == Spec => []ProbeOrder
<1>1. Inv => ProbeOrder
  <2> SUFFICES ASSUME Inv, NEW p \in UsedSlots(data), Distance(p) > 0,
                      ~(pc = "shift" /\ pred(p) = Hole)
               PROVE  used(pred(p)) /\ Distance(p) <= Distance(pred(p)) + 1
    BY DEF ProbeOrder
  <2> DEFINE q == pred(p)
             h == home(capacity, data[p])
  <2>1. TypeOK
    BY DEF Inv, IInv
  <2>2. p \in Position /\ data[p] \in Entry
    BY <2>1, UsedIsEntry
  <2>3. capacity \in Nat \ {0} /\ p \in 0..capacity - 1 /\ q \in 0..capacity - 1
        /\ p = after(capacity, q)
    BY <2>1, <2>2 DEF TypeOK, Position, pred, after
  <2>4. h \in 0..capacity - 1
    BY <2>2, <2>3, Home
  <2>5. Distance(p) = far(data, capacity, p) /\ far(data, capacity, p) = away(capacity, h, p)
    BY <2>2, <2>3, DistanceIsAway DEF Distance, far
  <2> HIDE DEF q, h
  <2>6. Distance(p) = away(capacity, h, q) + 1 /\ away(capacity, h, q) \in Nat
    <3>1. away(capacity, h, q) \in 0..capacity - 1
      BY <2>3, <2>4, AwayType
    <3>2. away(capacity, h, p) = IF away(capacity, h, q) = capacity - 1 THEN 0 ELSE away(capacity, h, q) + 1
      BY <2>3, <2>4, AwayAfter
    <3>3. QED
      BY <2>5, <3>1, <3>2
  <2>7. data[q] # Free /\ far(data, capacity, q) >= away(capacity, h, q)
    <3>1. away(capacity, h, q) < far(data, capacity, p)
      BY <2>5, <2>6
    <3>2. q \notin IF pc = "shift" THEN {Hole} ELSE {}
      BY DEF q
    <3>3. QED
      BY <2>3, <3>1, <3>2 DEF Inv, Ordered, InOrder, h
  <2>8. data[q] \in Entry
    BY <2>1, <2>3, <2>7 DEF TypeOK, Node
  <2>9. Distance(q) = far(data, capacity, q) /\ far(data, capacity, q) \in 0..capacity - 1
    BY <2>1, <2>3, <2>8, DistanceIsAway, Far DEF TypeOK, Position, Distance, far
  <2>10. QED
    BY <2>6, <2>7, <2>9 DEF used, q
<1>2. QED
  BY <1>1, OrderInvariance, PTL

\* An insertion never places a second entry for a key the table holds, also not while
\* entries are displaced or moved to another storage.
THEOREM KeysAreUnique == Spec => []UniqueKeys
<1>1. Inv => UniqueKeys
  BY DEF Inv, Unique, UniqueKeys
<1>2. QED
  BY <1>1, OrderInvariance, PTL

\* The size is the number of entries in the storages, between the loops that insert
\* and erase.
THEOREM SizeIsCount == Spec => []SizeCountsEntries
<1>1. Inv => SizeCountsEntries
  <2> SUFFICES ASSUME Inv, pc # "shift"
               PROVE  size = Cardinality(UsedSlots(data)) + Cardinality(UsedSlots(old.nodes))
    BY DEF SizeCountsEntries
  <2>1. Cardinality(UsedSlots(data)) \in Nat /\ Cardinality(UsedSlots(old.nodes)) \in Nat
    BY DataCount, WalkCount DEF Inv, IInv
  <2>2. QED
    BY <2>1 DEF Inv, Counted
<1>2. QED
  BY <1>1, OrderInvariance, PTL

\* No more slots are used than the load factor allows, so that both probing loops
\* meet a free slot.
THEOREM LoadIsBounded == Spec => []LoadFactorKept
<1>1. Inv => LoadFactorKept
  BY Load DEF LoadFactorKept
<1>2. QED
  BY <1>1, OrderInvariance, PTL

\* The reference that operator[] returns is that of the key's entry, however many
\* entries its insertion displaced.
THEOREM WritesToItsKey == Spec => []AssignsTheKey
<1>1. Inv => AssignsTheKey
  BY DEF Inv, Answer, AssignsTheKey
<1>2. QED
  BY <1>1, OrderInvariance, PTL

------------------------------------------------------------------------------
(* Hashmap implements HashmapAbstract: whatever loop is running, each step of *)
(* the table is a step of a finite map, or none.  What that needs to know     *)
(* besides Inv.                                                              *)

\* The entries of the copied table that the copy has already, or that its
\* insertion has placed while it carries another.
Copied == {p \in UsedSlots(src.nodes) :
             p < src.next \/ (p = src.next /\ pc = "probe" /\ ~Moving /\ probe.found)}

\* Values are missing only for the key that operator[] has just inserted, and a
\* copy has the entries of the table that it has come past.
Meaning ==
    /\ pc = "idle" => call = Idle
    /\ call.op = "copy" => UsedSlots(src.nodes) # {}
    /\ call.op # "copy" => src = NoWalk
    /\ \A p, q \in UsedSlots(src.nodes) : src.nodes[p].key = src.nodes[q].key => p = q
    /\ \A p \in UsedSlots(src.nodes) : src.nodes[p].val # Fresh
    /\ \A e \in Held : e.val = Fresh => call.op = "put" /\ e.key = call.key
    /\ call.op = "copy" => Held = {src.nodes[p] : p \in Copied}

\* The map that the refinement has a set of entries mean.
Mapping(S) == [k \in Key |->
                 IF \E e \in S : e.key = k /\ e.val # Fresh
                 THEN (CHOOSE e \in S : e.key = k /\ e.val # Fresh).val
                 ELSE Absent]

Dict == Mapping(Contents)

OneEach(S) == \A e, f \in S : e.key = f.key => e = f

\* The entries in a storage, in the hands of insert_entry, and in another storage
\* as far as they are left.
Entries(d, hand, n, left) == {d[p] : p \in UsedSlots(d)} \cup hand \cup {n[p] : p \in left}

Hand == IF Carrying THEN {probe.entry} ELSE {}

------------------------------------------------------------------------------
(* What sets of entries mean. *)

\* The value of a key is that of the entry which has one.
LEMMA MappingHas ==
    ASSUME NEW S, OneEach(S), NEW e \in S, e.key \in Key, e.val # Fresh
    PROVE  Mapping(S)[e.key] = e.val
<1>1. Mapping(S)[e.key] = (CHOOSE f \in S : f.key = e.key /\ f.val # Fresh).val
  BY DEF Mapping
<1>2. (CHOOSE f \in S : f.key = e.key /\ f.val # Fresh) = e
  BY DEF OneEach
<1>3. QED
  BY <1>1, <1>2

\* A key that no entry with a value has is not in the map.
LEMMA MappingLacks ==
    ASSUME NEW S, NEW k \in Key, \A e \in S : e.key = k => e.val = Fresh
    PROVE  Mapping(S)[k] = Absent
BY DEF Mapping

\* Two sets mean the same for a key if they have the same entries with values for it.
LEMMA MappingAgrees ==
    ASSUME NEW S, NEW T, OneEach(S), OneEach(T), NEW k \in Key,
           \A e : e.key = k /\ e.val # Fresh => (e \in S <=> e \in T)
    PROVE  Mapping(S)[k] = Mapping(T)[k]
<1>1. CASE \E e \in S : e.key = k /\ e.val # Fresh
  <2>1. PICK e \in S : e.key = k /\ e.val # Fresh
    BY <1>1
  <2>2. e \in T
    BY <2>1
  <2>3. QED
    BY <2>1, <2>2, MappingHas
<1>2. CASE ~\E e \in S : e.key = k /\ e.val # Fresh
  BY <1>2, MappingLacks
<1>3. QED
  BY <1>1, <1>2

\* Maps are functions on the keys.
LEMMA MappingEqual ==
    ASSUME NEW S, NEW d, d = [k \in Key |-> d[k]], \A k \in Key : Mapping(S)[k] = d[k]
    PROVE  Mapping(S) = d
BY DEF Mapping

\* An entry for a new key.
LEMMA MappingAdd ==
    ASSUME NEW S, OneEach(S), NEW e, e.key \in Key, \A f \in S : f.key # e.key
    PROVE  /\ OneEach(S \cup {e})
           /\ Mapping(S)[e.key] = Absent
           /\ Mapping(S \cup {e}) =
                IF e.val = Fresh THEN Mapping(S) ELSE [Mapping(S) EXCEPT ![e.key] = e.val]
<1> DEFINE T == S \cup {e}
           d == IF e.val = Fresh THEN Mapping(S) ELSE [Mapping(S) EXCEPT ![e.key] = e.val]
<1>1. OneEach(T)
  BY DEF OneEach
<1>2. Mapping(S)[e.key] = Absent
  BY MappingLacks
<1>3. d = [k \in Key |-> d[k]]
  BY DEF Mapping
<1>4. \A k \in Key : Mapping(T)[k] = d[k]
  <2> TAKE k \in Key
  <2>1. CASE k # e.key
    <3>1. Mapping(T)[k] = Mapping(S)[k]
      BY <1>1, <2>1, MappingAgrees
    <3>2. QED
      BY <2>1, <3>1 DEF Mapping
  <2>2. CASE k = e.key /\ e.val # Fresh
    <3>1. Mapping(T)[k] = e.val
      BY <1>1, <2>2, MappingHas
    <3>2. QED
      BY <2>2, <3>1 DEF Mapping
  <2>3. CASE k = e.key /\ e.val = Fresh
    <3>1. Mapping(T)[k] = Absent
      BY <2>3, MappingLacks
    <3>2. QED
      BY <1>2, <2>3, <3>1
  <2>4. QED
    BY <2>1, <2>2, <2>3
<1> HIDE DEF T, d
<1>5. Mapping(T) = d
  BY <1>3, <1>4, MappingEqual
<1>6. QED
  BY <1>1, <1>2, <1>5 DEF T, d

\* An entry less.
LEMMA MappingTake ==
    ASSUME NEW S, OneEach(S), NEW e \in S, e.key \in Key
    PROVE  /\ OneEach(S \ {e})
           /\ \A f \in S \ {e} : f.key # e.key
           /\ Mapping(S \ {e}) = [Mapping(S) EXCEPT ![e.key] = Absent]
<1> DEFINE T == S \ {e}
           d == [Mapping(S) EXCEPT ![e.key] = Absent]
<1>1. OneEach(T) /\ \A f \in T : f.key # e.key
  BY DEF OneEach
<1>2. d = [k \in Key |-> d[k]]
  BY DEF Mapping
<1>3. \A k \in Key : Mapping(T)[k] = d[k]
  <2> TAKE k \in Key
  <2>1. CASE k # e.key
    <3>1. Mapping(T)[k] = Mapping(S)[k]
      BY <1>1, <2>1, MappingAgrees
    <3>2. QED
      BY <2>1, <3>1 DEF Mapping
  <2>2. CASE k = e.key
    <3>1. Mapping(T)[k] = Absent
      BY <1>1, <2>2, MappingLacks
    <3>2. QED
      BY <2>2, <3>1 DEF Mapping
  <2>3. QED
    BY <2>1, <2>2
<1> HIDE DEF T, d
<1>4. Mapping(T) = d
  BY <1>2, <1>3, MappingEqual
<1>5. QED
  BY <1>1, <1>4 DEF T, d

\* An entry that gets another value.
LEMMA MappingRevalue ==
    ASSUME NEW S, OneEach(S), NEW e \in S, e.key \in Key, NEW f, f.key = e.key, f.val # Fresh
    PROVE  Mapping((S \ {e}) \cup {f}) = [Mapping(S) EXCEPT ![e.key] = f.val]
<1> DEFINE T == S \ {e}
<1>1. /\ OneEach(T) /\ \A g \in T : g.key # e.key
      /\ Mapping(T) = [Mapping(S) EXCEPT ![e.key] = Absent]
  BY MappingTake
<1> HIDE DEF T
<1>2. Mapping(T \cup {f}) = [Mapping(T) EXCEPT ![e.key] = f.val]
  <2>1. f.key \in Key /\ \A g \in T : g.key # f.key
    BY <1>1
  <2>2. Mapping(T \cup {f}) = [Mapping(T) EXCEPT ![f.key] = f.val]
    BY <1>1, <2>1, MappingAdd
  <2>3. QED
    BY <2>2
<1>3. [Mapping(T) EXCEPT ![e.key] = f.val] = [Mapping(S) EXCEPT ![e.key] = f.val]
  BY <1>1 DEF Mapping
<1>4. QED
  BY <1>2, <1>3 DEF T

------------------------------------------------------------------------------
(* Where the entries are. *)

\* What a rehash has left to move are the entries that insert_entry has not got.
LEMMA HeldIs == Held = Entries(data, Hand, old.nodes, Left)
<1>1. Left = UsedSlots(old.nodes) \ (IF Carrying THEN {old.next} ELSE {})
  <2>1. CASE Moving
    BY <2>1 DEF Left, Carrying
  <2>2. CASE ~Moving
    BY <2>2, NotMoving DEF Moving, Left
  <2>3. QED
    BY <2>1, <2>2
<1>2. QED
  BY <1>1 DEF Held, Entries, Hand

\* The entries have different keys.
LEMMA HeldOnce ==
    ASSUME Inv
    PROVE  OneEach(Held) /\ \A e \in Held : e \in Entry /\ e.key \in Key
<1>1. TypeOK /\ old \in Walk
  BY DEF Inv, IInv
<1>2. \A e \in Held : \/ \E p \in UsedSlots(data) : e = data[p]
                      \/ Carrying /\ e = probe.entry
                      \/ \E p \in Left : e = old.nodes[p]
  BY HeldIs DEF Entries, Hand
<1>3. OneEach(Held)
  <2>1. SUFFICES ASSUME NEW e \in Held, NEW f \in Held, e.key = f.key PROVE e = f
    BY DEF OneEach
  <2>2. CASE \E p \in UsedSlots(data) : e = data[p]
    BY <1>2, <2>1, <2>2 DEF Inv, Unique
  <2>3. CASE Carrying /\ e = probe.entry
    BY <1>2, <2>1, <2>3 DEF Inv, Unique
  <2>4. CASE \E p \in Left : e = old.nodes[p]
    BY <1>2, <2>1, <2>4 DEF Inv, Unique
  <2>5. QED
    BY <1>2, <2>2, <2>3, <2>4
<1>4. \A e \in Held : e \in Entry
  <2>1. \A p \in UsedSlots(data) : data[p] \in Entry
    BY <1>1, UsedIsEntry
  <2>2. Carrying => probe.entry \in Entry
    BY DEF Carrying, Inv, IInv, Control
  <2>3. \A p \in Left : old.nodes[p] \in Entry
    BY <1>1, UsedEntry DEF Left
  <2>4. QED
    BY <1>2, <2>1, <2>2, <2>3
<1>5. QED
  BY <1>3, <1>4 DEF Entry

\* The same entries are somewhere after steps that only move them.
LEMMA HeldKept ==
    ASSUME Inv, Inv',
           \/ \E r \in Lookups : BeginLookup(r)
           \/ \E r \in Inserts : BeginInsert(r)
           \/ LookupMiss \/ LookupNext \/ (LookupHit /\ UNCHANGED data)
           \/ Grow \/ Enter \/ RehashNext \/ RehashDone
           \/ ProbeNext \/ ProbeSame \/ ShiftBack \/ ShiftDone
           \/ CopyNext \/ CopyDone \/ CopyEmpty
    PROVE  Held' = Held
<1>1. TypeOK /\ old \in Walk /\ Control
  BY DEF Inv, IInv
<1>2. (Held = Entries(data, Hand, old.nodes, Left))'
  BY HeldIs, PTL
<1>3. ASSUME UNCHANGED <<data, old>>, pc # "probe", pc' # "probe"
      PROVE  Held' = Held
  BY <1>2, <1>3, HeldIs DEF Hand, Carrying, Left
<1>4. CASE \/ \E r \in Lookups : BeginLookup(r)
           \/ \E r \in Inserts : BeginInsert(r)
           \/ LookupMiss \/ LookupNext \/ (LookupHit /\ UNCHANGED data)
           \/ ShiftDone \/ CopyNext \/ CopyDone
  <2>1. UNCHANGED <<data, old>> /\ pc # "probe" /\ pc' # "probe"
    BY <1>4 DEF BeginLookup, BeginInsert, LookupMiss, LookupNext, LookupHit, ShiftDone, CopyNext,
                CopyDone, Return
  <2>2. QED
    BY <1>3, <2>1
<1>5. CASE Grow
  <2>1. /\ pc = "enter" /\ pc' = "rehash" /\ old = NoWalk
        /\ old' = [nodes |-> data, next |-> 0] /\ data' = allocate(new_capacity)
        /\ new_capacity = capacity'
    BY <1>5 DEF Grow, Moving
  <2>2. capacity' \in Nat
    BY DEF Inv, IInv, TypeOK
  <2>3. UsedSlots(data') = {} /\ Left' = UsedSlots(data) /\ Left = {}
        /\ old'.nodes = data /\ ~Carrying /\ ~Carrying'
    BY <2>1, <2>2, Allocated, NotMoving DEF Left, Carrying
  <2>4. QED
    BY <1>2, <2>3, HeldIs DEF Entries, Hand
<1>6. ASSUME pc # "probe", pc' = "probe", data' = data, old' = old, ~probe'.found,
             Moving => probe'.entry = old.nodes[old.next] /\ old.next \in UsedSlots(old.nodes)
      PROVE  Held' = Held
  <2>1. Left = UsedSlots(old.nodes) /\ Hand = {}
    BY <1>6 DEF Left, Hand, Carrying
  <2>2. Left' = UsedSlots(old.nodes) \ {old.next}
    BY <1>6 DEF Left
  <2>3. CASE Moving
    <3>1. Hand' = {old.nodes[old.next]}
      BY <1>6, <2>3 DEF Hand, Carrying, Moving
    <3>2. {old.nodes[p] : p \in Left} = {old.nodes[old.next]} \cup {old.nodes[p] : p \in Left'}
      BY <1>6, <2>1, <2>2, <2>3
    <3>3. QED
      BY <1>2, <1>6, <2>1, <3>1, <3>2, HeldIs DEF Entries
  <2>4. CASE ~Moving
    <3>1. Hand' = {} /\ Left = {} /\ Left' = {}
      BY <1>6, <2>1, <2>2, <2>4, NotMoving DEF Hand, Carrying, Moving
    <3>2. QED
      BY <1>2, <1>6, <2>1, <3>1, HeldIs DEF Entries
  <2>5. QED
    BY <2>3, <2>4
<1>7. CASE Enter
  BY <1>1, <1>6, <1>7 DEF Enter, StartProbe, Control
<1>8. CASE RehashDone
  <2>1. /\ pc = "rehash" /\ pc' = "probe" /\ data' = data /\ old' = NoWalk /\ ~probe'.found /\ AtEnd(old)
    BY <1>8 DEF RehashDone, StartProbe
  <2>2. UsedSlots(old.nodes) = {}
    <3>1. \A p \in UsedSlots(old.nodes) : p \in Nat /\ old.next \in Nat
      BY <1>1, WalkStep DEF UsedSlots
    <3>2. QED
      BY <2>1, <3>1 DEF AtEnd, Inv, Walking
  <2>3. Left = {} /\ Left' = {} /\ Hand = {} /\ Hand' = {}
    BY <2>1, <2>2, NotMoving DEF Left, Hand, Carrying, Moving
  <2>4. QED
    BY <1>2, <2>1, <2>3, HeldIs DEF Entries
<1>9. CASE RehashNext
  <2>1. /\ pc = "rehash" /\ pc' = "enter" /\ data' = data /\ old'.nodes = old.nodes
    BY <1>1, <1>9 DEF RehashNext, Walk
  <2>2. Left' = Left /\ Hand = {} /\ Hand' = {}
    BY <2>1 DEF Left, Hand, Carrying
  <2>3. QED
    BY <1>2, <2>1, <2>2, HeldIs
<1>10. CASE ProbeNext
  <2>1. data' = data /\ old' = old /\ pc' = pc /\ probe'.entry = probe.entry /\ probe'.found = probe.found
    BY <1>1, <1>10 DEF ProbeNext, TypeOK, Locals
  <2>2. Left' = Left /\ Hand' = Hand
    BY <2>1 DEF Left, Hand, Carrying, Moving
  <2>3. QED
    BY <1>2, <2>1, <2>2, HeldIs
<1>11. CASE ProbeSame
  <2>1. pc = "probe" /\ data' = data /\ ~Moving /\ ~probe.found
    BY <1>11, SlotFacts DEF ProbeSame, Inv, Unique, Carrying
  <2>2. old' = old /\ pc' # "probe"
    BY <1>1, <1>11, <2>1 DEF ProbeSame, Inserted, Return, Control
  <2>3. Left = {} /\ Left' = {} /\ Hand = {} /\ Hand' = {}
    BY <2>1, <2>2, NotMoving DEF Left, Hand, Carrying, Moving
  <2>4. QED
    BY <1>2, <2>1, <2>2, <2>3, HeldIs
<1>12. CASE ShiftBack
  <2> DEFINE h == Hole
             s == succ(h)
  <2>1. /\ pc = "shift" /\ pc' = "shift" /\ old' = old /\ used(s)
        /\ data' = [data EXCEPT ![h] = data[s], ![s] = Free]
        /\ h \in Position /\ ~used(h)
    BY <1>1, <1>12 DEF ShiftBack, MustShift, Control, Inv, Answer, Hole
  <2>2. s \in Position /\ s # h /\ DOMAIN data = Position /\ DOMAIN data' = Position
    BY <1>1, <2>1, NextPosition, UsedIsEntry DEF TypeOK
  <2> HIDE DEF s, h
  <2>3. /\ data'[h] = data[s] /\ data'[s] = Free
        /\ \A p \in Position : p # h /\ p # s => data'[p] = data[p]
    BY <2>1, <2>2
  <2>4. {data'[p] : p \in UsedSlots(data')} = {data[p] : p \in UsedSlots(data)}
    <3>1. \A p \in UsedSlots(data') : \E q \in UsedSlots(data) : data'[p] = data[q]
      BY <2>1, <2>2, <2>3 DEF UsedSlots, used
    <3>2. \A q \in UsedSlots(data) : \E p \in UsedSlots(data') : data'[p] = data[q]
      BY <2>1, <2>2, <2>3 DEF UsedSlots, used
    <3>3. QED
      BY <3>1, <3>2
  <2>5. Left' = Left /\ Hand = {} /\ Hand' = {}
    BY <2>1 DEF Left, Hand, Carrying
  <2>6. QED
    BY <1>2, <2>1, <2>4, <2>5, HeldIs DEF Entries
<1>13. CASE CopyEmpty
  <2>1. pc = "idle" /\ pc' = "idle" /\ capacity = 0 /\ data' = allocate(capacity') /\ old' = old
    BY <1>13 DEF CopyEmpty
  <2>2. UsedSlots(data') = {}
    <3>1. capacity' \in Nat
      BY DEF Inv, IInv, TypeOK
    <3>2. QED
      BY <2>1, <3>1, Allocated
  <2>3. UsedSlots(data) = {}
    BY <1>1, <2>1 DEF TypeOK, UsedSlots
  <2>4. Left' = Left /\ Hand = {} /\ Hand' = {}
    BY <2>1 DEF Left, Hand, Carrying
  <2>5. QED
    BY <1>2, <2>1, <2>2, <2>3, <2>4, HeldIs DEF Entries
<1>14. QED
  BY <1>4, <1>5, <1>7, <1>8, <1>9, <1>10, <1>11, <1>12, <1>13

\* insert_entry places its entry: a new one, or one that it has carried from elsewhere.
LEMMA HeldPlaced ==
    ASSUME Inv, Inv', ProbeFree \/ ProbeSteal
    PROVE  /\ Held' = Held \cup {probe.entry}
           /\ Carrying => probe.entry \in Held
           /\ ~Carrying => \A e \in Held : e.key # probe.entry.key
<1> DEFINE P == probe.pos
           E == probe.entry
<1>1. TypeOK /\ old \in Walk /\ pc = "probe"
  BY DEF Inv, IInv, ProbeFree, ProbeSteal
<1>2. (Held = Entries(data, Hand, old.nodes, Left))'
  BY HeldIs, PTL
<1>3. /\ P \in Position /\ DOMAIN data = Position /\ E # Free
      /\ data' = [data EXCEPT ![P] = E]
  BY <1>1, ProbeFacts DEF ProbeFree, ProbeSteal, Position
<1>4. data'[P] = E /\ \A q \in Position : q # P => data'[q] = data[q]
  BY <1>3
<1>5. Carrying => E \in Held
  BY HeldIs DEF Entries, Hand
<1>6. ASSUME ~Carrying PROVE \A e \in Held : e.key # E.key
  <2>1. \A q \in UsedSlots(data) : data[q].key # E.key
    <3>1. used(P) => data[P].key # E.key /\ far(data, capacity, P) < probe.dist
      BY <1>1, SlotFacts DEF ProbeFree, ProbeSteal, Richer
    <3>2. QED
      BY <1>1, <3>1, NewKey
  <2>2. Left = {}
    BY <1>1, <1>6, NotMoving DEF Carrying, Moving, Left
  <2>3. QED
    BY <1>6, <2>1, <2>2, HeldIs DEF Entries, Hand
<1>7. CASE ProbeFree
  <2>1. /\ ~used(P) /\ Inserted(IF probe.found THEN probe.cached ELSE P, TRUE)
        /\ (IF probe.found THEN probe.cached ELSE P) \in Position
    BY <1>1, <1>3, <1>7, ProbeFacts DEF ProbeFree, Position
  <2>2. /\ pc' # "probe" /\ Left' = Left
        /\ \A p \in Left : old'.nodes[p] = old.nodes[p]
    <3>1. IInv'
      BY DEF Inv
    <3>2. QED
      BY <1>1, <2>1, <3>1, InsertedFrame
  <2>3. {data'[p] : p \in UsedSlots(data')} = {data[p] : p \in UsedSlots(data)} \cup {E}
    <3>1. UsedSlots(data') = UsedSlots(data) \cup {P} /\ P \notin UsedSlots(data)
          /\ UsedSlots(data) \subseteq Position
      BY <1>3, <1>4, <2>1 DEF UsedSlots, used
    <3>2. \A p \in UsedSlots(data) : data'[p] = data[p]
      BY <1>4, <3>1
    <3>3. \A x : x \in {data'[p] : p \in UsedSlots(data')}
                  <=> x \in {data[p] : p \in UsedSlots(data)} \cup {E}
      BY <1>4, <3>1, <3>2
    <3>4. QED
      BY <3>3
  <2>4. {old'.nodes[p] : p \in Left} = {old.nodes[p] : p \in Left}
    BY <2>2
  <2>5. Hand' = {} /\ Hand \subseteq {E}
    BY <2>2 DEF Hand, Carrying
  <2>6. QED
    BY <1>2, <1>5, <1>6, <2>2, <2>3, <2>4, <2>5, HeldIs DEF Entries
<1>8. CASE ProbeSteal
  <2>1. /\ used(P) /\ UNCHANGED <<pc, old>> /\ probe'.entry = data[P] /\ probe'.found
    BY <1>8 DEF ProbeSteal
  <2>2. Left' = Left /\ Hand' = {data[P]} /\ Hand \subseteq {E}
    BY <1>1, <2>1 DEF Left, Hand, Carrying
  <2>3. {data'[p] : p \in UsedSlots(data')} \cup {data[P]} = {data[p] : p \in UsedSlots(data)} \cup {E}
    <3>1. UsedSlots(data') = UsedSlots(data) /\ P \in UsedSlots(data)
          /\ UsedSlots(data) \subseteq Position
      BY <1>3, <1>4, <2>1 DEF UsedSlots, used
    <3>2. \A p \in UsedSlots(data) : data'[p] = E \/ data'[p] = data[p]
      BY <1>4, <3>1
    <3>3. \A p \in UsedSlots(data) : p # P => data'[p] = data[p]
      BY <1>4, <3>1
    <3>4. \A x : x \in {data'[p] : p \in UsedSlots(data')} \cup {data[P]}
                  <=> x \in {data[p] : p \in UsedSlots(data)} \cup {E}
      BY <1>4, <3>1, <3>2, <3>3
    <3>5. QED
      BY <3>4
  <2>4. QED
    BY <1>2, <1>5, <1>6, <2>1, <2>2, <2>3, HeldIs DEF Entries
<1>9. QED
  BY <1>5, <1>6, <1>7, <1>8

\* erase takes the entry of its key out.
LEMMA HeldErased ==
    ASSUME Inv, Inv', LookupHit, pc' = "shift"
    PROVE  /\ data[probe.pos] \in Held /\ data[probe.pos].key = call.key /\ call.op = "erase"
           /\ Held' = Held \ {data[probe.pos]}
<1> DEFINE P == probe.pos
<1>1. TypeOK
  BY DEF Inv, IInv
<1>2. (Held = Entries(data, Hand, old.nodes, Left))'
  BY HeldIs, PTL
<1>3. /\ pc = "lookup" /\ P \in Position /\ used(P) /\ Matches(data[P]) /\ call.op = "erase"
      /\ data' = [data EXCEPT ![P] = Free] /\ old' = old /\ ~Moving
  BY DEF LookupHit, LookupFails, Inv, IInv, Control, TypeOK, Return
<1>4. Left = {} /\ Left' = {} /\ Hand = {} /\ Hand' = {}
  BY <1>3, NotMoving DEF Left, Hand, Carrying, Moving
<1>5. /\ UsedSlots(data') = UsedSlots(data) \ {P} /\ P \in UsedSlots(data)
      /\ \A p \in UsedSlots(data') : data'[p] = data[p]
  BY <1>1, <1>3, UsedIsEntry DEF UsedSlots
<1>6. \A p \in UsedSlots(data') : data[p] # data[P]
  BY <1>5 DEF Inv, Unique
<1>7. \A e \in Held : \E p \in UsedSlots(data) : e = data[p]
  BY <1>4, HeldIs DEF Entries
<1>8. Held' = Held \ {data[P]}
  BY <1>2, <1>4, <1>5, <1>6, HeldIs DEF Entries
<1>9. QED
  BY <1>3, <1>4, <1>5, <1>8, HeldIs DEF Entries, Matches

\* operator[] gives the entry of its key a value.
LEMMA HeldAssigned ==
    ASSUME Inv, Inv', Assign
    PROVE  /\ data[probe.pos] \in Held /\ data[probe.pos].key = call.key
           /\ call.key \in Key /\ call.val \in Value
           /\ Held' = (Held \ {data[probe.pos]}) \cup {[data[probe.pos] EXCEPT !.val = call.val]}
<1> DEFINE P == probe.pos
           e == data[P]
           f == [e EXCEPT !.val = call.val]
<1>1. TypeOK
  BY DEF Inv, IInv
<1>2. (Held = Entries(data, Hand, old.nodes, Left))'
  BY HeldIs, PTL
<1>3. /\ pc = "assign" /\ pc' = "idle" /\ P \in Position /\ used(P) /\ call.op = "put"
      /\ data' = [data EXCEPT ![P].val = call.val] /\ old' = old /\ ~Moving
  BY DEF Assign, Inv, IInv, Control, Return
<1>4. call.key \in Key /\ call.val \in Value /\ e.key = call.key /\ e \in Entry /\ P \in UsedSlots(data)
  BY <1>1, <1>3, CallFields, UsedIsEntry DEF Inv, Answer
<1>5. f \in Entry /\ f # Free
  BY <1>4, FreeIsNoEntry DEF Entry
<1>6. data' = [data EXCEPT ![P] = f]
  BY <1>3
<1> HIDE DEF e, f
<1>7. DOMAIN data = Position
  BY <1>1, UsedIsEntry
<1>8. /\ UsedSlots(data') = UsedSlots(data) /\ data'[P] = f
      /\ \A p \in UsedSlots(data) : p # P => data'[p] = data[p]
  BY <1>3, <1>5, <1>6, <1>7 DEF UsedSlots, used
<1>9. \A p \in UsedSlots(data) : p # P => data[p] # e
  BY <1>4 DEF Inv, Unique, e
<1>10. Left = {} /\ Left' = {} /\ Hand = {} /\ Hand' = {}
  BY <1>3, NotMoving DEF Left, Hand, Carrying, Moving
<1>11. Held = {data[p] : p \in UsedSlots(data)} /\ Held' = {data'[p] : p \in UsedSlots(data')}
  BY <1>2, <1>10, HeldIs DEF Entries
<1>12. e \in Held
  BY <1>4, <1>11 DEF e
<1>13. Held' = (Held \ {e}) \cup {f}
  <2>1. \A x : x \in Held' => x \in (Held \ {e}) \cup {f}
    BY <1>4, <1>8, <1>9, <1>11
  <2>2. \A x : x \in (Held \ {e}) \cup {f} => x \in Held'
    BY <1>4, <1>8, <1>11 DEF e
  <2>3. QED
    BY <2>1, <2>2
<1>14. QED
  BY <1>4, <1>12, <1>13 DEF e, f

\* A copy starts without entries.
LEMMA HeldCopied ==
    ASSUME Inv, Inv', Copy
    PROVE  /\ Held' = {} /\ Held = {data[p] : p \in UsedSlots(data)}
           /\ UsedSlots(data) # {}
<1>1. (Held = Entries(data, Hand, old.nodes, Left))'
  BY HeldIs, PTL
<1>2. /\ pc = "idle" /\ pc' = "copy" /\ size > 0 /\ data' = allocate(capacity') /\ old' = old /\ ~Moving
  BY DEF Copy, Inv, IInv, Control
<1>3. UsedSlots(data') = {}
  <2>1. capacity' \in Nat
    BY DEF Inv, IInv, TypeOK
  <2>2. QED
    BY <1>2, <2>1, Allocated
<1>4. Left = {} /\ Left' = {} /\ Hand = {} /\ Hand' = {}
  BY <1>2, NotMoving DEF Left, Hand, Carrying, Moving
<1>5. UsedSlots(data) # {}
  <2>1. Cardinality(UsedSlots(data)) \in Nat /\ Cardinality(UsedSlots(old.nodes)) = 0
    BY <1>2, DataCount, NotMoving DEF Inv, Moving
  <2>2. Cardinality(UsedSlots(data)) = size
    BY <1>2, <2>1 DEF Inv, Counted
  <2>3. QED
    BY <1>2, <2>2, FS_EmptySet
<1>6. QED
  BY <1>1, <1>3, <1>4, <1>5, HeldIs DEF Entries

------------------------------------------------------------------------------
(* Meaning is an invariant. *)

\* Steps that leave the entries and the copied table alone.
LEMMA MeaningKept ==
    ASSUME Inv, Meaning, UNCHANGED call, pc' # "idle", Held' = Held, src' = src, Copied' = Copied
    PROVE  Meaning'
BY DEF Meaning

\* Calls that return, and are no copies.
LEMMA MeaningReturned ==
    ASSUME Inv, Meaning, call' = Idle, call.op # "copy", src' = src,
           \A e \in Held' : e.val # Fresh
    PROVE  Meaning'
<1>1. call'.op # "copy"
  BY DEF Idle
<1>2. src' = NoWalk /\ UsedSlots(src'.nodes) = {}
  BY NotMoving DEF Meaning
<1>3. QED
  BY <1>1, <1>2 DEF Meaning

\* A call begins.
LEMMA MeaningBegun ==
    ASSUME Inv, Inv', Meaning,
           \/ \E r \in Lookups : BeginLookup(r)
           \/ \E r \in Inserts : BeginInsert(r)
    PROVE  Meaning' /\ call = Idle /\ src' = src /\ src = NoWalk /\ Held' = Held
<1>1. Held' = Held
  BY HeldKept
<1>2. pc = "idle" /\ pc' # "idle" /\ src' = src /\ call'.op # "copy"
  BY DEF BeginLookup, BeginInsert, Lookups, Inserts
<1>3. call = Idle /\ src = NoWalk /\ call.op = "none"
  BY <1>2 DEF Meaning, Idle
<1>4. UsedSlots(src'.nodes) = {}
  BY <1>2, <1>3, NotMoving
<1>5. \A e \in Held' : e.val # Fresh
  BY <1>1, <1>3 DEF Meaning
<1>6. QED
  BY <1>1, <1>2, <1>3, <1>4, <1>5 DEF Meaning

\* lookup.
LEMMA MeaningLooked ==
    ASSUME Inv, Inv', Meaning, LookupMiss \/ LookupHit \/ LookupNext
    PROVE  Meaning' /\ src' = src /\ src = NoWalk
<1>1. pc = "lookup" /\ call.op \in {"put", "erase", "find"} /\ src' = src
  BY DEF LookupMiss, LookupHit, LookupNext, Inv, IInv, Control
<1>2. src = NoWalk /\ UsedSlots(src.nodes) = {}
  BY <1>1, NotMoving DEF Meaning
<1>3. Copied = {} /\ Copied' = {}
  BY <1>1, <1>2 DEF Copied
<1>4. Held' \subseteq Held
  <2>1. LookupMiss \/ LookupNext \/ (LookupHit /\ UNCHANGED data) => Held' = Held
    BY HeldKept
  <2>2. CASE LookupMiss \/ LookupNext \/ (LookupHit /\ UNCHANGED data)
    BY <2>1, <2>2
  <2>3. CASE LookupHit /\ pc' = "shift"
    BY <2>3, HeldErased
  <2>4. LookupHit => UNCHANGED data \/ pc' = "shift"
    BY DEF LookupHit
  <2>5. QED
    BY <2>2, <2>3, <2>4
<1>5. CASE UNCHANGED call /\ pc' # "idle"
  BY <1>1, <1>2, <1>4, <1>5 DEF Meaning
<1>6. CASE call' = Idle /\ pc' = "idle" /\ call.op # "put"
  <2>1. \A e \in Held' : e.val # Fresh
    BY <1>4, <1>6 DEF Meaning
  <2>2. QED
    BY <1>1, <1>2, <1>6, <2>1, MeaningReturned
<1>7. QED
  BY <1>1, <1>2, <1>5, <1>6 DEF LookupMiss, LookupHit, LookupNext, Return

\* operator[] assigns the value, erase is done.
LEMMA MeaningAssigned ==
    ASSUME Inv, Inv', Meaning, Assign
    PROVE  Meaning' /\ src' = src /\ src = NoWalk
<1>1. pc = "assign" /\ call.op = "put" /\ src' = src /\ call' = Idle
  BY DEF Assign, Return, Inv, IInv, Control
<1>2. \A e \in Held' : e.val # Fresh
  <2> DEFINE e == data[probe.pos]
             f == [e EXCEPT !.val = call.val]
  <2>1. /\ e \in Held /\ e.key = call.key /\ call.val \in Value /\ Held' = (Held \ {e}) \cup {f}
    BY HeldAssigned
  <2>2. e \in Entry /\ OneEach(Held)
    BY <2>1, HeldOnce
  <2>3. f.val = call.val
    BY <2>2 DEF Entry
  <2> HIDE DEF e, f
  <2>4. \A g \in Held \ {e} : g.val # Fresh
    BY <2>1, <2>2 DEF Meaning, OneEach
  <2>5. QED
    BY <2>1, <2>3, <2>4, FreshIsNoValue
<1>3. QED
  BY <1>1, <1>2, MeaningReturned DEF Meaning

\* The backward shift.
LEMMA MeaningShifted ==
    ASSUME Inv, Inv', Meaning, ShiftBack \/ ShiftDone
    PROVE  Meaning' /\ src' = src /\ src = NoWalk
<1>1. pc = "shift" /\ call.op = "erase" /\ src' = src
  BY DEF ShiftBack, ShiftDone, Inv, Answer
<1>2. src = NoWalk /\ UsedSlots(src.nodes) = {} /\ Held' = Held
  BY <1>1, NotMoving, HeldKept DEF Meaning
<1>3. CASE ShiftBack
  BY <1>1, <1>2, <1>3 DEF ShiftBack, Meaning
<1>4. CASE ShiftDone
  <2>1. call' = Idle /\ \A e \in Held' : e.val # Fresh
    BY <1>1, <1>2, <1>4 DEF ShiftDone, Return, Meaning
  <2>2. QED
    BY <1>1, <1>2, <2>1, MeaningReturned
<1>5. QED
  BY <1>1, <1>2, <1>3, <1>4

\* Growing, rehashing and probing do not change what the entries mean.
LEMMA MeaningMoved ==
    ASSUME Inv, Inv', Meaning, Grow \/ Enter \/ RehashNext \/ RehashDone \/ ProbeNext
    PROVE  Meaning' /\ src' = src /\ call' = call /\ Held' = Held
<1>1. Held' = Held
  BY HeldKept
<1>2. src' = src /\ call' = call /\ pc' # "idle"
  BY DEF Grow, Enter, RehashNext, RehashDone, ProbeNext
<1>3. Copied' = Copied
  <2>1. CASE Grow \/ RehashNext
    BY <1>2, <2>1 DEF Grow, RehashNext, Copied
  <2>2. CASE Enter \/ RehashDone
    <3>1. pc # "probe" /\ ~probe'.found
      BY <2>2 DEF Enter, RehashDone, StartProbe
    <3>2. QED
      BY <1>2, <3>1 DEF Copied
  <2>3. CASE ProbeNext
    <3>1. probe'.found = probe.found /\ old' = old /\ pc' = pc
      BY <2>3 DEF ProbeNext, Inv, IInv, TypeOK, Locals
    <3>2. QED
      BY <1>2, <3>1 DEF Copied, Moving
  <2>4. QED
    BY <2>1, <2>2, <2>3
<1>4. QED
  BY <1>1, <1>2, <1>3, MeaningKept

\* insert_entry has placed its entry, or found its key.
LEMMA MeaningPlaced ==
    ASSUME Inv, Inv', Meaning, ProbeFree \/ ProbeSteal
    PROVE  Meaning'
<1> DEFINE E == probe.entry
           pos == IF probe.found THEN probe.cached ELSE probe.pos
<1>1. /\ TypeOK /\ Control /\ pc = "probe" /\ src \in Walk
      /\ call.op \in {"put", "insert", "copy"}
  BY DEF Inv, IInv, ProbeFree, ProbeSteal, Control
<1>2. /\ Held' = Held \cup {E}
      /\ Carrying => E \in Held
  BY HeldPlaced
<1>3. ~Carrying => E = OuterEntry
  BY <1>1 DEF Inv, Probing, Carrying
<1>4. \A e \in Held' : e.val = Fresh => call.op = "put" /\ e.key = call.key
  <2>1. ~Carrying => (E.val = Fresh => call.op = "put" /\ E.key = call.key)
    <3>1. CASE call.op \in {"put", "insert"}
      BY <1>1, <1>3, <3>1, CallFields, FreshIsNoValue DEF OuterEntry, NewEntry
    <3>2. CASE call.op = "copy"
      BY <1>1, <1>3, <3>2 DEF OuterEntry, Control, Meaning
    <3>3. QED
      BY <1>1, <3>1, <3>2
  <2>2. \A e \in Held : e.val = Fresh => call.op = "put" /\ e.key = call.key
    BY DEF Meaning
  <2>3. E.val = Fresh => call.op = "put" /\ E.key = call.key
    BY <1>2, <2>1, <2>2
  <2>4. QED
    BY <1>2, <2>2, <2>3
<1>5. CASE call.op # "copy"
  <2>1. src = NoWalk /\ UsedSlots(src.nodes) = {}
    BY <1>5, NotMoving DEF Meaning
  <2>2. src' = src
    BY <1>1, <1>5 DEF ProbeFree, ProbeSteal, Inserted, Control
  <2>3. CASE call' = call /\ pc' # "idle"
    BY <1>4, <1>5, <2>1, <2>2, <2>3 DEF Meaning
  <2>4. CASE call' = Idle /\ pc' = "idle" /\ call.op = "insert"
    <3>1. \A e \in Held' : e.val # Fresh
      BY <1>4, <2>4
    <3>2. QED
      BY <1>5, <2>2, <2>4, <3>1, MeaningReturned
  <2>5. QED
    BY <1>1, <1>5, <2>3, <2>4 DEF ProbeFree, ProbeSteal, Inserted, Return
<1>6. CASE call.op = "copy"
  <2>1. src.next \in UsedSlots(src.nodes) /\ src.next \in Nat
        /\ \A p \in UsedSlots(src.nodes) : p \in Nat
    BY <1>1, <1>6, WalkStep DEF Control, UsedSlots
  <2>2. ~Carrying => E = src.nodes[src.next]
    BY <1>3, <1>6 DEF OuterEntry
  <2>3. Held = {src.nodes[p] : p \in Copied}
    BY <1>6 DEF Meaning
  <2>4. /\ call' = call /\ pc' # "idle" /\ src'.nodes = src.nodes
        /\ Copied' = IF Carrying THEN Copied ELSE Copied \cup {src.next}
    <3>1. CASE ProbeSteal
      <4>1. UNCHANGED <<pc, call, old, src>> /\ probe'.found
        BY <3>1 DEF ProbeSteal
      <4>2. QED
        BY <1>1, <2>1, <4>1 DEF Copied, Carrying, Moving
    <3>2. CASE ProbeFree /\ Moving
      <4>1. UNCHANGED <<call, src>> /\ pc' = "rehash"
        BY <3>2 DEF ProbeFree, Inserted
      <4>2. QED
        BY <1>1, <2>1, <3>2, <4>1 DEF Copied, Carrying
    <3>3. CASE ProbeFree /\ ~Moving
      <4>1. call' = call /\ pc' = "copy" /\ src' = [src EXCEPT !.next = @ + 1]
        BY <1>6, <3>3 DEF ProbeFree, Inserted
      <4>2. src'.nodes = src.nodes /\ src'.next = src.next + 1
        BY <1>1, <4>1 DEF Walk
      <4>3. Copied' = {p \in UsedSlots(src.nodes) : p < src.next + 1}
        BY <4>1, <4>2 DEF Copied
      <4>4. \A p \in UsedSlots(src.nodes) : p < src.next + 1 <=> p < src.next \/ p = src.next
        BY <2>1
      <4>5. QED
        BY <1>1, <2>1, <3>3, <4>1, <4>2, <4>3, <4>4 DEF Copied, Carrying
    <3>4. QED
      BY <3>1, <3>2, <3>3
  <2>5. Held' = {src.nodes[p] : p \in Copied'}
    <3>1. CASE Carrying
      BY <1>2, <2>3, <2>4, <3>1
    <3>2. CASE ~Carrying
      <4>1. Copied' = Copied \cup {src.next} /\ Held' = Held \cup {src.nodes[src.next]}
        BY <1>2, <2>2, <2>4, <3>2
      <4>2. QED
        BY <2>3, <4>1
    <3>3. QED
      BY <3>1, <3>2
  <2>6. QED
    BY <1>4, <1>6, <2>4, <2>5 DEF Meaning
<1>7. QED
  BY <1>5, <1>6

\* The key was there: not if the entry is copied from another table.
LEMMA MeaningSame ==
    ASSUME Inv, Inv', Meaning, ProbeSame
    PROVE  /\ Meaning' /\ Held' = Held /\ src' = src
           /\ \E e \in Held : e.key = call.key
           /\ \/ call.op = "put" /\ call' = call /\ ret' = ret
              \/ call.op = "insert" /\ call' = Idle /\ ret' = ret
<1> DEFINE P == probe.pos
<1>1. /\ TypeOK /\ Control /\ pc = "probe" /\ src \in Walk /\ used(P)
      /\ call.op \in {"put", "insert", "copy"} /\ ret' = ret
  BY DEF Inv, IInv, ProbeSame, Control
<1>2. P \in UsedSlots(data) /\ data[P].key = probe.entry.key
  BY <1>1, SlotFacts DEF ProbeSame
<1>3. ~Moving /\ ~probe.found
  BY <1>1, <1>2 DEF Inv, Unique, Carrying
<1>4. probe.entry = OuterEntry
  BY <1>1, <1>3 DEF Inv, Probing
<1>5. data[P] \in Held /\ Held' = Held
  BY <1>2, HeldIs, HeldKept DEF Entries
<1>6. call.op # "copy"
  <2>1. SUFFICES ASSUME call.op = "copy" PROVE FALSE
    OBVIOUS
  <2>2. probe.entry = src.nodes[src.next] /\ src.next \in UsedSlots(src.nodes) /\ src.next \in Nat
    BY <1>1, <1>4, <2>1, WalkStep DEF OuterEntry, Control
  <2>3. PICK p \in Copied : data[P] = src.nodes[p]
    BY <1>5, <2>1 DEF Meaning
  <2>4. p \in UsedSlots(src.nodes) /\ p < src.next
    BY <1>3 DEF Copied
  <2>5. p = src.next
    BY <1>2, <2>2, <2>3, <2>4 DEF Meaning
  <2>6. QED
    BY <2>2, <2>4, <2>5
<1>7. src' = src /\ data[P].key = call.key
  BY <1>1, <1>2, <1>3, <1>4, <1>6 DEF ProbeSame, Inserted, OuterEntry, NewEntry
<1>8. src = NoWalk /\ UsedSlots(src.nodes) = {}
  BY <1>6, NotMoving DEF Meaning
<1>9. CASE call.op = "put"
  <2>1. call' = call /\ pc' # "idle"
    BY <1>3, <1>9 DEF ProbeSame, Inserted
  <2>2. QED
    BY <1>1, <1>5, <1>6, <1>7, <1>8, <1>9, <2>1 DEF Meaning
<1>10. CASE call.op = "insert"
  <2>1. call' = Idle
    BY <1>3, <1>10 DEF ProbeSame, Inserted, Return
  <2>2. \A e \in Held' : e.val # Fresh
    BY <1>5, <1>10 DEF Meaning
  <2>3. Meaning'
    BY <1>6, <1>7, <2>1, <2>2, MeaningReturned
  <2>4. QED
    BY <1>1, <1>5, <1>7, <1>10, <2>1, <2>3
<1>11. QED
  BY <1>1, <1>6, <1>9, <1>10

\* Table(const Table &).
LEMMA MeaningCopied ==
    ASSUME Inv, Inv', Meaning, Copy \/ CopyNext \/ CopyDone \/ CopyEmpty
    PROVE  Meaning' /\ Contents' = Contents
<1>1. TypeOK /\ Control /\ src \in Walk
  BY DEF Inv, IInv
<1>2. CASE Copy
  <2>1. /\ pc = "idle" /\ pc' = "copy" /\ call'.op = "copy"
        /\ src'.nodes = data /\ src'.next = 0
    BY <1>2 DEF Copy, Idle
  <2>2. Held' = {} /\ Held = {data[p] : p \in UsedSlots(data)} /\ UsedSlots(data) # {}
    BY <1>2, HeldCopied
  <2>3. call.op = "none" /\ src = NoWalk
    BY <2>1 DEF Meaning, Idle
  <2>4. \A p \in UsedSlots(data) : p \in Nat /\ data[p] \in Held
    BY <1>1, <2>2, UsedIsEntry DEF Position, TypeOK
  <2>5. Copied' = {}
    BY <2>1, <2>4 DEF Copied
  <2>6. Meaning'
    BY <2>1, <2>2, <2>3, <2>4, <2>5 DEF Meaning, Inv, Unique
  <2>7. src' # NoWalk
    BY <2>1, <2>2, NotMoving
  <2>8. Contents' = Held /\ Contents = Held
    BY <2>1, <2>2, <2>3, <2>7 DEF Contents
  <2>9. QED
    BY <2>6, <2>8
<1>3. CASE CopyNext
  <2>1. PICK p \in UsedSlots(src.nodes) : IsNextUsed(src, p) /\ src' = [src EXCEPT !.next = p]
    BY <1>3 DEF CopyNext
  <2>2. /\ pc = "copy" /\ pc' = "enter" /\ call' = call /\ call.op = "copy"
    BY <1>1, <1>3 DEF CopyNext, Control
  <2>3. Held' = Held
    BY <1>3, HeldKept
  <2>4. src'.nodes = src.nodes /\ src'.next = p
    BY <1>1, <2>1 DEF Walk
  <2>5. Copied' = Copied
    <3>1. \A q \in UsedSlots(src.nodes) : q \in Nat /\ src.next \in Nat
      BY <1>1, WalkStep DEF UsedSlots
    <3>2. \A q \in UsedSlots(src.nodes) : q < src.next <=> q < p
      BY <2>1, <3>1 DEF IsNextUsed
    <3>3. QED
      BY <2>2, <2>4, <3>2 DEF Copied
  <2>6. Meaning'
    BY <2>2, <2>3, <2>4, <2>5 DEF Meaning
  <2>7. src # NoWalk /\ src' # NoWalk
    BY <2>1, <2>4, NotMoving
  <2>8. QED
    BY <2>4, <2>6, <2>7 DEF Contents
<1>4. CASE CopyDone
  <2>1. /\ pc = "copy" /\ pc' = "idle" /\ call' = Idle /\ src' = NoWalk /\ AtEnd(src)
        /\ call.op = "copy"
    BY <1>1, <1>4 DEF CopyDone, Return, Control
  <2>2. Copied = UsedSlots(src.nodes)
    BY <2>1 DEF Copied, AtEnd
  <2>3. Held' = {src.nodes[p] : p \in UsedSlots(src.nodes)} /\ Held' = Held
    BY <1>4, <2>1, <2>2, HeldKept DEF Meaning
  <2>4. UsedSlots(src'.nodes) = {} /\ call'.op = "none"
    BY <2>1, NotMoving DEF Idle
  <2>5. \A e \in Held' : e.val # Fresh
    BY <2>3 DEF Meaning
  <2>6. Meaning'
    BY <2>1, <2>4, <2>5 DEF Meaning
  <2>7. src # NoWalk
    BY <2>1, NotMoving DEF Meaning
  <2>8. QED
    BY <2>1, <2>3, <2>6, <2>7 DEF Contents
<1>5. CASE CopyEmpty
  <2>1. pc = "idle" /\ pc' = "idle" /\ call' = call /\ src' = src
    BY <1>5 DEF CopyEmpty
  <2>2. Held' = Held
    BY <1>5, HeldKept
  <2>3. call.op = "none"
    BY <2>1 DEF Meaning, Idle
  <2>4. QED
    BY <2>1, <2>2, <2>3 DEF Meaning, Contents
<1>6. QED
  BY <1>2, <1>3, <1>4, <1>5


------------------------------------------------------------------------------
(* The steps of the finite map, said of Dict. *)

\* What the call makes of a map.
Result(d) == CASE call.op = "put"    -> [d EXCEPT ![call.key] = call.val]
               [] call.op = "insert" -> [d EXCEPT ![call.key] = IF @ = Absent THEN call.val ELSE @]
               [] call.op = "erase"  -> [d EXCEPT ![call.key] = Absent]
               [] OTHER              -> d

\* A call begins.
LEMMA MapCall ==
    ASSUME call = Idle, call' \in Request \cup {Copying}, Dict' = Dict, ret' = ret
    PROVE  Map!AbstractNext
BY DEF Map!AbstractNext, Map!AbstractCall, Map!NoRequest, Map!Request, Request, Lookups, Inserts,
       Copying, Idle, Dict, Mapping

\* A call takes effect.
LEMMA MapEffect ==
    ASSUME call # Idle, Dict' = Result(Dict), call' = call, ret' = ret
    PROVE  Map!AbstractNext
BY DEF Map!AbstractNext, Map!AbstractEffect, Map!NoRequest, Map!Effect, Map!Put, Map!Insert, Map!Erase,
       Idle, Dict, Mapping, Result

\* A call returns.
LEMMA MapReturn ==
    ASSUME call # Idle, Dict' = Result(Dict), call' = Idle,
           ret' = IF call.op = "find" THEN Dict[call.key] ELSE ret
    PROVE  Map!AbstractNext
BY DEF Map!AbstractNext, Map!AbstractReturn, Map!NoRequest, Map!Effect, Map!Put, Map!Insert, Map!Erase,
       Idle, Dict, Mapping, Result

\* A step of the map, or nothing that it tells apart.
MapStep == Map!AbstractNext \/ UNCHANGED <<Dict, call, ret>>

\* The map is empty at first.
LEMMA MapInit ==
    ASSUME Dict = [k \in Key |-> Absent], call = Idle, ret = Absent
    PROVE  Map!AbstractInit
BY DEF Map!AbstractInit, Map!NoRequest, Idle, Dict, Mapping

\* The map consists of the entries, or of those of the table that is being copied.
LEMMA DictIs ==
    /\ src = NoWalk => Dict = Mapping(Held)
    /\ src # NoWalk => Dict = Mapping({src.nodes[p] : p \in UsedSlots(src.nodes)})
BY DEF Dict, Contents

\* The map is a function on the keys.
LEMMA DictType == DOMAIN Dict = Key /\ Dict = [k \in Key |-> Dict[k]]
BY DEF Dict, Mapping

\* Erasing what is not there, or inserting what is, has no effect.
LEMMA NoEffect ==
    ASSUME NEW d, d = [k \in Key |-> d[k]], Inv,
           \/ call.op = "erase" /\ d[call.key] = Absent
           \/ call.op = "insert" /\ d[call.key] # Absent
           \/ call.op \in {"find", "copy"}
    PROVE  Result(d) = d
<1>1. call.op \in {"erase", "insert"} => call.key \in Key
  BY CallFields DEF Inv, IInv
<1>2. CASE call.op = "erase" /\ d[call.key] = Absent
  <2>1. Result(d) = [d EXCEPT ![call.key] = Absent]
    BY <1>2 DEF Result
  <2>2. [d EXCEPT ![call.key] = Absent] = d
    BY <1>1, <1>2
  <2>3. QED
    BY <2>1, <2>2
<1>3. CASE call.op = "insert" /\ d[call.key] # Absent
  <2>1. Result(d) = [d EXCEPT ![call.key] = d[call.key]]
    BY <1>3 DEF Result
  <2>2. [d EXCEPT ![call.key] = d[call.key]] = d
    BY <1>1, <1>3
  <2>3. QED
    BY <2>1, <2>2
<1>4. CASE call.op \in {"find", "copy"}
  BY <1>4 DEF Result
<1>5. QED
  BY <1>2, <1>3, <1>4

\* The map has the values of the entries.
LEMMA InMap ==
    ASSUME Inv, src = NoWalk, NEW e \in Held, e.val # Fresh
    PROVE  Dict[e.key] = e.val /\ e.val # Absent /\ e.key \in Key
<1>1. OneEach(Held) /\ e \in Entry /\ e.key \in Key
  BY HeldOnce
<1>2. Dict[e.key] = e.val
  BY <1>1, DictIs, MappingHas
<1>3. e.val \in Value
  BY <1>1 DEF Entry
<1>4. QED
  BY <1>1, <1>2, <1>3, AbsentIsNoValue

\* The map has no other keys.
LEMMA NotInMap ==
    ASSUME src = NoWalk, NEW k \in Key, \A e \in Held : e.key # k
    PROVE  Dict[k] = Absent
BY DictIs, MappingLacks

------------------------------------------------------------------------------
(* Each step of Hashmap is one of the map. *)

\* When lookup gives up, no entry has the key: where its search ends, an entry with
\* the key further on would have been placed.
LEMMA Missing ==
    ASSUME Inv, LookupMiss
    PROVE  \A e \in Held : e.key # call.key
<1> DEFINE a == get_position(hash_entry(call.key), capacity)
<1>1. /\ TypeOK /\ pc = "lookup" /\ ~Moving /\ LookupFails
      /\ size > 0 => probe.pos \in Position
  BY DEF LookupMiss, Inv, IInv, Control
<1>2. Held = {data[p] : p \in UsedSlots(data)}
  <2>1. Left = {} /\ Hand = {}
    BY <1>1, NotMoving DEF Left, Hand, Carrying, Moving
  <2>2. QED
    BY <2>1, HeldIs DEF Entries
<1>3. SUFFICES ASSUME NEW q \in UsedSlots(data), data[q].key = call.key PROVE FALSE
  BY <1>2
<1>4. q \in Position /\ data[q] \in Entry /\ data[q].hash = hash_entry(call.key)
  BY <1>1, <1>3, UsedIsEntry DEF Inv, Hashed
<1>5. size # 0
  <2>1. IsFiniteSet(UsedSlots(data)) /\ Cardinality(UsedSlots(data)) \in Nat
        /\ Cardinality(UsedSlots(old.nodes)) = 0
    BY <1>1, DataCount, NotMoving DEF Inv, Moving
  <2>2. Cardinality(UsedSlots(data)) = size
    BY <1>1, <2>1 DEF Inv, Counted
  <2>3. QED
    BY <2>1, <2>2, FS_EmptySet
<1>6. /\ size > 0 /\ probe.pos \in 0..capacity - 1 /\ ~used(probe.pos) /\ capacity \in Nat \ {0}
      /\ q \in 0..capacity - 1
  BY <1>1, <1>4, <1>5 DEF LookupFails, Position, TypeOK
<1>7. home(capacity, data[q]) = a /\ far(data, capacity, q) = away(capacity, a, q)
      /\ a \in 0..capacity - 1
  BY <1>4, <1>6, Home DEF home, far
<1>8. Passed(data, capacity, a, probe.pos, call.key)
  BY <1>1, <1>6 DEF Inv, Looking
<1> HIDE DEF a
<1>9. ~(away(capacity, a, q) < away(capacity, a, probe.pos))
  BY <1>3, <1>6, <1>8 DEF Passed
<1>10. away(capacity, a, q) \in 0..capacity - 1 /\ away(capacity, a, probe.pos) \in 0..capacity - 1
  BY <1>6, <1>7, AwayType
<1>11. q # probe.pos
  BY <1>3, <1>6 DEF UsedSlots, used
<1>12. away(capacity, a, q) # away(capacity, a, probe.pos)
  BY <1>6, <1>7, <1>11, AwayOnce
<1>13. away(capacity, a, probe.pos) < far(data, capacity, q)
  BY <1>7, <1>9, <1>10, <1>12
<1>14. InOrder(data, capacity, {})
  BY <1>1 DEF Inv, Ordered
<1>15. data[probe.pos] # Free
  BY <1>3, <1>6, <1>7, <1>13, <1>14 DEF InOrder
<1>16. QED
  BY <1>6, <1>15 DEF used

\* A call begins.
LEMMA BegunRefines ==
    ASSUME Inv, Inv', Meaning,
           \/ \E r \in Lookups : BeginLookup(r)
           \/ \E r \in Inserts : BeginInsert(r)
    PROVE  MapStep
<1>1. call = Idle /\ src' = src /\ src = NoWalk /\ Held' = Held
  BY MeaningBegun
<1>2. Dict' = Dict
  BY <1>1 DEF Dict, Contents
<1>3. call' \in Request /\ ret' = ret
  BY DEF BeginLookup, BeginInsert, Request
<1>4. QED
  BY <1>1, <1>2, <1>3, MapCall DEF MapStep

\* A copy is made.
LEMMA CopyRefines ==
    ASSUME Inv, Inv', Meaning, Copy \/ CopyNext \/ CopyDone \/ CopyEmpty
    PROVE  MapStep
<1>1. Dict' = Dict /\ ret' = ret
  BY MeaningCopied DEF Dict, Copy, CopyNext, CopyDone, CopyEmpty
<1>2. CASE Copy
  <2>1. call = Idle /\ call' = Copying
    BY <1>2 DEF Copy, Meaning, Copying
  <2>2. QED
    BY <1>1, <2>1, MapCall DEF MapStep
<1>3. CASE CopyNext \/ CopyEmpty
  BY <1>1, <1>3 DEF CopyNext, CopyEmpty, MapStep
<1>4. CASE CopyDone
  <2>1. call' = Idle /\ call.op = "copy"
    BY <1>4 DEF CopyDone, Return, Inv, IInv, Control
  <2>2. call # Idle
    BY <2>1 DEF Idle
  <2>3. Result(Dict) = Dict
    BY <2>1, DictType, NoEffect
  <2>4. QED
    BY <1>1, <2>1, <2>2, <2>3, MapReturn DEF MapStep
<1>5. QED
  BY <1>2, <1>3, <1>4

\* lookup ends: find returns what it has found, and erase takes the entry out.
LEMMA LookupRefines ==
    ASSUME Inv, Inv', Meaning, LookupMiss \/ LookupHit \/ LookupNext
    PROVE  MapStep
<1> DEFINE e == data[probe.pos]
<1>1. /\ TypeOK /\ src' = src /\ src = NoWalk /\ pc = "lookup" /\ ~Moving
      /\ call.op \in {"put", "erase", "find"} /\ call # Idle
  BY MeaningLooked DEF LookupMiss, LookupHit, LookupNext, Inv, IInv, Control, Idle
<1>2. call.key \in Key
  BY <1>1, CallFields
<1>3. Held' = Held => Dict' = Dict
  BY <1>1 DEF Dict, Contents
<1>4. CASE LookupNext
  <2>1. Dict' = Dict
    BY <1>3, <1>4, HeldKept
  <2>2. QED
    BY <1>4, <2>1 DEF LookupNext, MapStep
<1>5. CASE LookupMiss
  <2>1. Dict' = Dict
    BY <1>3, <1>5, HeldKept
  <2>2. Dict[call.key] = Absent
    BY <1>1, <1>2, <1>5, Missing, NotInMap
  <2>3. CASE call.op = "put"
    BY <1>5, <2>1, <2>3 DEF LookupMiss, MapStep
  <2>4. CASE call.op \in {"erase", "find"}
    <3>1. Result(Dict) = Dict
      BY <2>2, <2>4, DictType, NoEffect
    <3>2. call' = Idle /\ ret' = IF call.op = "find" THEN Dict[call.key] ELSE ret
      BY <1>5, <2>2, <2>4 DEF LookupMiss, Return
    <3>3. QED
      BY <1>1, <2>1, <3>1, <3>2, MapReturn DEF MapStep
  <2>5. QED
    BY <1>1, <2>3, <2>4
<1>6. CASE LookupHit /\ call.op = "put"
  <2>1. UNCHANGED <<data, call, ret>>
    BY <1>6 DEF LookupHit
  <2>2. Dict' = Dict
    BY <1>3, <1>6, <2>1, HeldKept
  <2>3. QED
    BY <2>1, <2>2 DEF MapStep
<1>7. CASE LookupHit /\ call.op = "find"
  <2>1. UNCHANGED data /\ call' = Idle /\ ret' = e.val
    BY <1>7 DEF LookupHit, Return
  <2>2. Dict' = Dict
    BY <1>3, <1>7, <2>1, HeldKept
  <2>3. e \in Held /\ e.key = call.key
    <3>1. size # 0 /\ used(probe.pos) /\ Matches(e)
      BY <1>7 DEF LookupHit, LookupFails
    <3>2. size \in Nat /\ (size > 0 => probe.pos \in Position)
      BY <1>1 DEF TypeOK, Inv, IInv, Control
    <3>3. probe.pos \in UsedSlots(data)
      BY <1>1, <3>1, <3>2, UsedIsEntry
    <3>4. QED
      BY <3>1, <3>3, HeldIs DEF Entries, Matches
  <2>4. e.val # Fresh
    BY <1>7, <2>3 DEF Meaning
  <2>5. ret' = Dict[call.key]
    BY <1>1, <2>1, <2>3, <2>4, InMap
  <2>6. Result(Dict) = Dict
    BY <1>7, DictType, NoEffect
  <2>7. QED
    BY <1>1, <1>7, <2>1, <2>2, <2>5, <2>6, MapReturn DEF MapStep
<1>8. CASE LookupHit /\ call.op = "erase"
  <2>1. pc' = "shift" /\ call' = call /\ ret' = ret
    BY <1>8 DEF LookupHit
  <2>2. e \in Held /\ e.key = call.key /\ Held' = Held \ {e}
    BY <1>8, <2>1, HeldErased
  <2> HIDE DEF e
  <2>3. Mapping(Held') = [Mapping(Held) EXCEPT ![call.key] = Absent]
    BY <1>2, <2>2, HeldOnce, MappingTake
  <2>4. Dict' = Result(Dict)
    BY <1>1, <1>8, <2>3, DictIs DEF Result, Dict, Contents
  <2>5. QED
    BY <1>1, <2>1, <2>4, MapEffect DEF MapStep
<1>9. QED
  BY <1>1, <1>4, <1>5, <1>6, <1>7, <1>8

\* map[k] = v has its effect.
LEMMA AssignRefines ==
    ASSUME Inv, Inv', Meaning, Assign
    PROVE  MapStep
<1> DEFINE e == data[probe.pos]
           f == [e EXCEPT !.val = call.val]
<1>1. /\ src' = src /\ src = NoWalk /\ call.op = "put" /\ call # Idle /\ call' = Idle /\ ret' = ret
  BY MeaningAssigned DEF Assign, Return, Inv, IInv, Control, Idle
<1>2. /\ e \in Held /\ e.key = call.key /\ call.key \in Key /\ call.val \in Value
      /\ Held' = (Held \ {e}) \cup {f}
  BY HeldAssigned
<1>3. e \in Entry /\ OneEach(Held)
  BY <1>2, HeldOnce
<1>4. f.key = e.key /\ f.val = call.val
  BY <1>3 DEF Entry
<1> HIDE DEF e, f
<1>5. Mapping(Held') = [Mapping(Held) EXCEPT ![call.key] = call.val]
  BY <1>2, <1>3, <1>4, FreshIsNoValue, MappingRevalue
<1>6. Dict' = Result(Dict)
  BY <1>1, <1>5, DictIs DEF Result, Dict, Contents
<1>7. QED
  BY <1>1, <1>6, MapReturn DEF MapStep

\* erase returns when the entries after the hole have been shifted back.
LEMMA ShiftRefines ==
    ASSUME Inv, Inv', Meaning, ShiftBack \/ ShiftDone
    PROVE  MapStep
<1>1. /\ src' = src /\ src = NoWalk /\ pc = "shift" /\ call.op = "erase" /\ ~Moving /\ call # Idle
  BY MeaningShifted DEF ShiftBack, ShiftDone, Inv, IInv, Control, Answer, Idle
<1>2. Held' = Held
  BY HeldKept
<1>3. Dict' = Dict
  BY <1>1, <1>2 DEF Dict, Contents
<1>4. CASE ShiftBack
  BY <1>3, <1>4 DEF ShiftBack, MapStep
<1>5. CASE ShiftDone
  <2>1. call' = Idle /\ ret' = ret
    BY <1>5 DEF ShiftDone, Return
  <2>2. \A e \in Held : e.key # call.key
    <3>1. Left = {} /\ Hand = {}
      BY <1>1, NotMoving DEF Left, Hand, Carrying, Moving
    <3>2. QED
      BY <1>1, <3>1, HeldIs DEF Entries, Inv, Answer
  <2>3. Dict[call.key] = Absent
    BY <1>1, <2>2, CallFields, NotInMap DEF Inv, IInv
  <2>4. Result(Dict) = Dict
    BY <1>1, <2>3, DictType, NoEffect
  <2>5. QED
    BY <1>1, <1>3, <2>1, <2>4, MapReturn DEF MapStep
<1>6. QED
  BY <1>4, <1>5

\* Growing, rehashing and probing change nothing.
LEMMA MoveRefines ==
    ASSUME Inv, Inv', Meaning, Grow \/ Enter \/ RehashNext \/ RehashDone \/ ProbeNext
    PROVE  MapStep
<1>1. src' = src /\ call' = call /\ Held' = Held
  BY MeaningMoved
<1>2. Dict' = Dict
  BY <1>1 DEF Dict, Contents
<1>3. ret' = ret
  BY DEF Grow, Enter, RehashNext, RehashDone, ProbeNext
<1>4. QED
  BY <1>1, <1>2, <1>3 DEF MapStep

\* The entry that is placed first is the one that was to be inserted: insert takes
\* effect then, and the entries that have to give way do not matter.  operator[] has
\* inserted an entry without a value, and a copy is not seen until it is complete.
LEMMA PlaceRefines ==
    ASSUME Inv, Inv', Meaning, ProbeFree \/ ProbeSteal
    PROVE  MapStep
<1> DEFINE E == probe.entry
<1>1. /\ TypeOK /\ pc = "probe" /\ src \in Walk /\ ret' = ret
      /\ call.op \in {"put", "insert", "copy"} /\ call # Idle
  <2>1. pc = "probe" /\ ret' = ret
    BY DEF ProbeFree, ProbeSteal
  <2>2. call.op \in {"put", "insert", "copy"}
    BY <2>1 DEF Inv, IInv, Control
  <2>3. QED
    BY <2>1, <2>2 DEF Inv, IInv, Idle
<1>2. /\ Held' = Held \cup {E}
      /\ Carrying => E \in Held
      /\ ~Carrying => \A e \in Held : e.key # E.key
  BY HeldPlaced
<1>3. CASE call.op = "copy"
  <2>1. src # NoWalk
    BY <1>3, NotMoving DEF Meaning
  <2>2. call' = call /\ src'.nodes = src.nodes
    <3>1. CASE ProbeSteal
      BY <3>1 DEF ProbeSteal
    <3>2. CASE ProbeFree /\ Moving
      BY <3>2 DEF ProbeFree, Inserted
    <3>3. CASE ProbeFree /\ ~Moving
      <4>1. call' = call /\ src' = [src EXCEPT !.next = @ + 1]
        BY <1>3, <3>3 DEF ProbeFree, Inserted
      <4>2. QED
        BY <1>1, <4>1 DEF Walk
    <3>4. QED
      BY <3>1, <3>2, <3>3
  <2>3. src' # NoWalk
    BY <1>3, <2>2, NotMoving DEF Meaning
  <2>4. Dict' = Dict
    BY <2>1, <2>2, <2>3 DEF Dict, Contents
  <2>5. QED
    BY <1>1, <2>2, <2>4 DEF MapStep
<1>4. CASE call.op \in {"put", "insert"}
  <2>1. src = NoWalk /\ src' = src /\ call.key \in Key /\ call.val \in Value
    BY <1>1, <1>4, CallFields DEF Meaning, ProbeFree, ProbeSteal, Inserted
  <2>2. \/ call' = call
        \/ ProbeFree /\ ~Moving /\ call.op = "insert" /\ call' = Idle
    BY <1>4 DEF ProbeFree, ProbeSteal, Inserted, Return
  <2>3. Dict = Mapping(Held) /\ Dict' = Mapping(Held')
    BY <2>1 DEF Dict, Contents
  <2>4. OuterEntry.key = call.key
        /\ OuterEntry.val = IF call.op = "put" THEN Fresh ELSE call.val
    BY <1>4 DEF OuterEntry, NewEntry
  <2>5. CASE Carrying
    <3>1. Dict' = Dict
      <4>1. Held' = Held
        BY <1>2, <2>5
      <4>2. QED
        BY <2>3, <4>1
    <3>2. CASE ProbeFree /\ ~Moving /\ call.op = "insert" /\ call' = Idle
      <4> DEFINE o == data[probe.cached]
      <4>1. probe.found /\ probe.cached \in Position /\ used(probe.cached) /\ o = OuterEntry
        BY <1>1, <2>5, <3>2 DEF Carrying, Inv, IInv, Control, Probing
      <4>2. o \in Held
        BY <1>1, <4>1, UsedIsEntry, HeldIs DEF Entries
      <4>3. o.key = call.key /\ o.val = call.val
        BY <2>4, <3>2, <4>1
      <4> HIDE DEF o
      <4>4. Dict[call.key] # Absent
        BY <2>1, <4>2, <4>3, InMap, FreshIsNoValue
      <4>5. Result(Dict) = Dict
        BY <3>2, <4>4, DictType, NoEffect
      <4>6. ret' = IF call.op = "find" THEN Dict[call.key] ELSE ret
        BY <1>1, <3>2
      <4>7. QED
        BY <1>1, <3>1, <3>2, <4>5, <4>6, MapReturn DEF MapStep
    <3>3. QED
      BY <1>1, <2>2, <3>1, <3>2 DEF MapStep
  <2>6. CASE ~Carrying
    <3>1. E = OuterEntry
      BY <1>1, <2>6 DEF Inv, Probing, Carrying
    <3>2. E.key = call.key /\ E.val = IF call.op = "put" THEN Fresh ELSE call.val
      BY <2>4, <3>1
    <3> HIDE DEF E
    <3>3. OneEach(Held) /\ \A e \in Held : e.key # E.key
      BY <1>2, <2>6, HeldOnce
    <3>4. /\ Mapping(Held)[E.key] = Absent
          /\ Mapping(Held \cup {E}) =
               IF E.val = Fresh THEN Mapping(Held) ELSE [Mapping(Held) EXCEPT ![E.key] = E.val]
      BY <2>1, <3>2, <3>3, MappingAdd
    <3>5. CASE call.op = "put"
      <4>1. Dict' = Dict
        BY <1>2, <2>3, <3>2, <3>4, <3>5
      <4>2. QED
        BY <1>1, <2>2, <3>5, <4>1 DEF MapStep
    <3>6. CASE call.op = "insert"
      <4>1. E.val = call.val /\ E.val # Fresh
        BY <2>1, <3>2, <3>6, FreshIsNoValue
      <4>2. Dict' = [Dict EXCEPT ![call.key] = call.val] /\ Dict[call.key] = Absent
        BY <1>2, <2>3, <3>2, <3>4, <4>1
      <4>3. Dict' = Result(Dict)
        <5>1. [Dict EXCEPT ![call.key] = IF @ = Absent THEN call.val ELSE @]
                = [Dict EXCEPT ![call.key] = call.val]
          BY <4>2
        <5>2. Result(Dict) = [Dict EXCEPT ![call.key] = IF @ = Absent THEN call.val ELSE @]
          BY <3>6 DEF Result
        <5>3. QED
          BY <4>2, <5>1, <5>2
      <4>4. ret' = IF call.op = "find" THEN Dict[call.key] ELSE ret
        BY <1>1, <3>6
      <4>5. QED
        BY <1>1, <2>2, <4>3, <4>4, MapEffect, MapReturn DEF MapStep
    <3>7. QED
      BY <1>4, <3>5, <3>6
  <2>7. QED
    BY <2>5, <2>6
<1>5. QED
  BY <1>1, <1>3, <1>4

\* insert_entry finds the key: operator[] goes on to write, insert changes nothing.
LEMMA SameRefines ==
    ASSUME Inv, Inv', Meaning, ProbeSame
    PROVE  MapStep
<1>1. /\ Held' = Held /\ src' = src /\ ret' = ret
      /\ \E e \in Held : e.key = call.key
      /\ \/ call.op = "put" /\ call' = call
         \/ call.op = "insert" /\ call' = Idle
  BY MeaningSame
<1>2. Dict' = Dict /\ src = NoWalk
  BY <1>1 DEF Dict, Contents, Meaning
<1>3. CASE call.op = "put" /\ call' = call
  BY <1>1, <1>2, <1>3 DEF MapStep
<1>4. CASE call.op = "insert" /\ call' = Idle
  <2>1. PICK e \in Held : e.key = call.key
    BY <1>1
  <2>2. e.val # Fresh
    BY <1>4, <2>1 DEF Meaning
  <2>3. Dict[call.key] # Absent
    BY <1>2, <2>1, <2>2, InMap
  <2>4. Result(Dict) = Dict
    BY <1>4, <2>3, DictType, NoEffect
  <2>5. call # Idle /\ ret' = IF call.op = "find" THEN Dict[call.key] ELSE ret
    BY <1>1, <1>4 DEF Idle
  <2>6. QED
    BY <1>2, <1>4, <2>4, <2>5, MapReturn DEF MapStep
<1>5. QED
  BY <1>1, <1>3, <1>4

------------------------------------------------------------------------------
(* The refinement. *)

\* A table starts empty, and its map too.
LEMMA MapInitially == Init => Meaning /\ Map!AbstractInit
<1>1. SUFFICES ASSUME Init PROVE Meaning /\ Map!AbstractInit
  OBVIOUS
<1>2. /\ pc = "idle" /\ call = Idle /\ data = allocate(0) /\ old = NoWalk /\ src = NoWalk /\ ret = Absent
  BY <1>1 DEF Init
<1>3. UsedSlots(data) = {} /\ UsedSlots(src.nodes) = {} /\ Left = {} /\ Hand = {}
  BY <1>2, Allocated, NotMoving DEF Left, Hand, Carrying
<1>4. Held = {}
  BY <1>3, HeldIs DEF Entries
<1>5. Meaning
  BY <1>2, <1>3, <1>4 DEF Meaning, Idle
<1>6. Dict = [k \in Key |-> Absent]
  BY <1>2, <1>4 DEF Dict, Contents, Mapping
<1>7. QED
  BY <1>2, <1>5, <1>6, MapInit

\* Each step keeps Meaning, and is a step of the map or none.
LEMMA MapKept ==
    Inv /\ Inv' /\ Meaning /\ [Next]_vars => Meaning' /\ MapStep
<1>1. ASSUME Inv, Inv', Meaning, Next PROVE Meaning'
  BY <1>1, MeaningBegun, MeaningLooked, MeaningAssigned, MeaningShifted, MeaningMoved, MeaningPlaced,
     MeaningSame, MeaningCopied
     DEF Next, Internal
<1>2. ASSUME Inv, Inv', Meaning, Next PROVE MapStep
  BY <1>2, BegunRefines, CopyRefines, LookupRefines, AssignRefines, ShiftRefines, MoveRefines,
     PlaceRefines, SameRefines
     DEF Next, Internal
<1>3. ASSUME Meaning, UNCHANGED vars PROVE Meaning' /\ MapStep
  <2>1. UNCHANGED <<data, pc, call, probe, old, src, ret>>
    BY <1>3 DEF vars
  <2>2. Held' = Held /\ Copied' = Copied
    BY <2>1 DEF Held, Carrying, Copied, Moving
  <2>3. Meaning'
    BY <1>3, <2>1, <2>2 DEF Meaning
  <2>4. Dict' = Dict
    BY <2>1, <2>2 DEF Dict, Contents
  <2>5. QED
    BY <2>1, <2>3, <2>4 DEF MapStep
<1>4. QED
  BY <1>1, <1>2, <1>3

\* The hash table is a finite map: whatever calls are made, each has the effect on the
\* map that was asked for, in one step before it returns, and find answers from the
\* map.  No step of a rehash, of a displacement or of a backward shift is visible.
THEOREM Refinement == Spec => ImplementsMap
<1>1. Init => Inv /\ Meaning /\ Map!AbstractInit
  BY OrderInitially, MapInitially
<1>2. Inv /\ Meaning /\ [Next]_vars => (Inv /\ Meaning)' /\ MapStep
  BY OrderStep, MapKept
<1>3. MapStep => [Map!AbstractNext]_<<Dict, call, ret>>
  BY DEF MapStep
<1>4. QED
  BY <1>1, <1>2, <1>3, PTL DEF Spec, ImplementsMap, Map!AbstractSpec, Dict, Mapping
==============================================================================
