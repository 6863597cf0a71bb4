------------------------------- MODULE Array -------------------------------
(***************************************************************************)
(* The storage of lists, Array<Variant>, under the functions on lists.     *)
(* A slot is memory: past the size of the array it is zero, or holds what  *)
(* was left there by a value that was destroyed or never was.  Values that *)
(* are counted (objects, and the boxes of references) are retained and     *)
(* released by the moves, assignments, constructions and destructions that *)
(* the array makes, one by one and in the order of the code.               *)
(***************************************************************************)
EXTENDS Integers, Sequences, FiniteSets, SequencesExt

CONSTANTS
    Number,       \* values that can be ordered, a set of integers
    Object,       \* counted values, model values
    Box,          \* aliases that make_alias can allocate, model values
    Null,         \* the null variant: zeroed memory
    Ref, Var,     \* a variable for references to items, one that holds an object
    MinCapacity,  \* smallest capacity ever allocated (8 in the code)
    MaxSize,      \* bound: longest list
    Precaution    \* what scripts take care of, see Careful

VARIABLES
    memory,    \* content of each slot, box and variable
    count,     \* reference count of each object and box
    stale,     \* slots whose content was destroyed but not reset
    size, capacity,  \* m_size and m_dim.d1.capacity
    call       \* history: the last call

vars == <<memory, count, stale, size, capacity, call>>

Counted == Object \cup Box
Value == Number \cup Object
Variant == Value \cup Box \cup {Null}
next_capacity(n) == IF n < 32 THEN 2 * n ELSE n + n \div 2
find_capacity(requested, current) ==
    LET grow[n \in Nat] == IF n < requested THEN grow[next_capacity(n)] ELSE n
    IN  grow[current]
Slot == 0..find_capacity(MaxSize, MinCapacity) - 1
Location == Slot \cup Box \cup {Ref, Var}

\* The operations of the array change memory, counts and stale slots together.
AnyHeap == [memory : [Location -> Variant], count : [Counted -> Int], stale : SUBSET Slot]
Heap == [memory |-> memory, count |-> count, stale |-> stale]
HeapBecomes(h) == memory' = h.memory /\ count' = h.count /\ stale' = h.stale

ASSUME ConstantsAssumption ==
    /\ Number \subseteq Int
    /\ Object \cap (Number \cup Box) = {} /\ Null \notin Number \cup Object \cup Box
    /\ Box \cap Int = {} /\ Ref # Var /\ {Ref, Var} \cap (Box \cup Int) = {}
    /\ MinCapacity \in Nat \ {0}
    /\ MaxSize \in Nat
    /\ Precaution \subseteq {"stale", "last", "alias", "empty", "compare"}

-----------------------------------------------------------------------------
(* Variants: variant.cpp.                                                  *)

resolve(m, l) == LET follow[x \in DOMAIN m] == IF m[x] \in Box THEN follow[m[x]] ELSE x
                 IN  follow[l]
Read(m, l) == m[resolve(m, l)]

retain(h, v) == IF v \in Counted THEN [h EXCEPT !.count[v] = @ + 1] ELSE h

\* A box that is referred to no more releases what it holds.
lose(h, v) == IF v \in Counted THEN [h EXCEPT !.count[v] = @ - 1] ELSE h
release(h, v) ==
    LET drop[x \in [heap : AnyHeap, value : Variant]] ==
            LET b == x.value
                g == lose(x.heap, b)
            IN  IF b \in Box /\ g.count[b] = 0
                THEN drop[[heap |-> [g EXCEPT !.memory[b] = Null], value |-> g.memory[b]]]
                ELSE g
    IN  drop[[heap |-> h, value |-> v]]

\* operator=: swaps with what the variant resolves to, and destroys the rest.
assign(h, l, v) ==
    LET self == resolve(h.memory, l)
    IN  release([h EXCEPT !.memory[self] = v, !.stale = @ \ {self}], h.memory[self])
Move_copied(h, from, to) == assign(h, to, h.memory[from])  \* mutant: the source keeps its value
Move(h, from, to) == assign([h EXCEPT !.memory[from] = Null], to, h.memory[from])
Construct(h, slot, v) ==
    [h EXCEPT !.memory[slot] = v, !.stale = @ \ {slot}]
Destroy_kept(h, slot) == [h EXCEPT !.stale = @ \cup {slot}]  \* mutant: nothing is released
Destroy(h, slot) == [release(h, h.memory[slot]) EXCEPT !.stale = @ \cup {slot}]

\* std::move_backward and std::move by one slot: they assign, they do not construct.
MoveUp(h, first) ==
    LET moved[i \in first..size] == IF i = size THEN h ELSE Move(moved[i + 1], i, i + 1)
    IN  moved[first]
MoveDown(h, pos, n) ==
    LET moved[i \in pos - 1..n - 1] == IF i <= pos THEN h ELSE Move(moved[i - 1], i, i - 1)
    IN  moved[n - 1]

-----------------------------------------------------------------------------
(* The array: array.hpp.  Positions count from 1 or, if negative, from the *)
(* end; slots count from 0.                                                *)

InRange(i) == i \in 1..size \/ i \in -size..-1
to_base0(i) == IF i > 0 THEN i - 1 ELSE size + i

\* What a careful script keeps to.  Without each of them TLC finds a counterexample.
Careful(what, condition) == what \in Precaution => condition

\* The items that fit are moved to new memory, the rest of which is zero.
expand(h, requested) ==
    IF requested <= capacity THEN h
    ELSE [h EXCEPT !.memory = [l \in Location |->
                        IF l \in Slot /\ l >= size THEN Null ELSE h.memory[l]],
                   !.stale = {}]
Capacity_late(requested) ==  \* mutant: the slot for the new item is not counted
    IF requested <= capacity + 1 THEN capacity ELSE find_capacity(requested, MinCapacity)
Capacity(requested) ==
    IF requested <= capacity THEN capacity
    ELSE find_capacity(requested, IF capacity > MinCapacity THEN capacity ELSE MinCapacity)

InsertAtSlot(slot, v) ==
    LET h == expand(Heap, size + 1)
    IN  /\ Careful("stale", slot < size => size \notin h.stale)
        /\ HeapBecomes(Construct(MoveUp(retain(h, v), slot), slot, v))
        /\ size' = size + 1
        /\ capacity' = Capacity(size + 1)

\* remove_at on an array of n items: the items after pos move down by one.
RemoveSlot(h, pos, n) == MoveDown(h, pos, n)
RemoveCarefully(slots) ==
    /\ Careful("last", \A i \in slots : i # size - 1)
    /\ Careful("alias", \A i \in slots : i < size - 1 => memory[i] \notin Box)

Found(v) == {i \in 0..size - 1 : Read(memory, i) = v}
\* Variant::operator== throws for values of different types.
Incomparable(v) == {i \in 0..size - 1 : (Read(memory, i) \in Number) # (v \in Number)}
Ordered == \A i \in 0..size - 1 : Read(memory, i) \in Number
Sorted(p) == \A i, j \in DOMAIN p : i < j => Read(memory, p[i]) <= Read(memory, p[j])

-----------------------------------------------------------------------------
(* The functions on lists: func_list.hpp.  A value that a script has at    *)
(* hand is a number or what Var holds.                                     *)

Init ==
    /\ \E o \in Object : memory = [l \in Location |-> IF l = Var THEN o ELSE Null]
    /\ count = [c \in Counted |-> IF c = memory[Var] THEN 1 ELSE 0]
    /\ stale = {} /\ size = 0 /\ capacity = 0
    /\ call = <<"list">>

AtHand == Number \cup (Object \cap {memory[Var]})

list_append(v) ==
    /\ size < MaxSize /\ call' = <<"append", v>> /\ InsertAtSlot(size, v)

list_prepend(v) ==
    /\ size < MaxSize /\ call' = <<"prepend", v>> /\ InsertAtSlot(0, v)

list_insert(i, v) ==
    /\ size < MaxSize /\ call' = <<"insert", i, v>>
    /\ \/ i > size /\ InsertAtSlot(size, v)
       \/ InRange(i) /\ InsertAtSlot(to_base0(i), v)

\* lower_bound, which says little of a list that is not sorted.
list_sorted_insert(v) ==
    /\ size < MaxSize /\ call' = <<"sorted_insert", v>>
    /\ v \in Number /\ Ordered
    /\ Careful("compare", Sorted([i \in 0..size - 1 |-> i]))
    /\ \E slot \in 0..size :
         /\ Sorted([i \in 0..size - 1 |-> i]) =>
              \A i \in 0..size - 1 : (Read(memory, i) < v) = (i < slot)
         /\ IF slot = size \/ v < Read(memory, slot)
            THEN InsertAtSlot(slot, v)
            ELSE UNCHANGED <<memory, count, stale, size, capacity>>

\* The value is moved out first; neither function looks whether there is one.
TakeSlot(name, slot) ==
    LET v == IF size = 0 THEN Null ELSE memory[slot]
        h == IF size = 0 THEN Heap ELSE [Heap EXCEPT !.memory[slot] = Null]
    IN  /\ Careful("empty", size > 0)
        /\ call' = <<name, IF v \in Box THEN Read(memory, slot) ELSE v>>
        /\ HeapBecomes(release(RemoveSlot(h, slot, size), v))
        /\ size' = size - 1 /\ UNCHANGED capacity
list_pop == TakeSlot("pop", size - 1)
list_shift == TakeSlot("shift", 0)

list_remove_at(i) ==
    /\ InRange(i) /\ call' = <<"remove_at", i>>
    /\ RemoveCarefully({to_base0(i)})
    /\ HeapBecomes(RemoveSlot(Heap, to_base0(i), size))
    /\ size' = size - 1 /\ UNCHANGED capacity

\* From the last item to the first; an item that cannot be compared throws.
list_remove(v) ==
    LET gone == {i \in Found(v) : \A j \in Incomparable(v) : j < i}
        done[i \in 0..size] ==
            IF i = size THEN [heap |-> Heap, size |-> size]
            ELSE LET g == done[i + 1]
                 IN  IF i \notin gone THEN g
                     ELSE [heap |-> RemoveSlot(g.heap, i, g.size), size |-> g.size - 1]
    IN  /\ call' = <<"remove", v>>
        /\ RemoveCarefully(gone)
        /\ Careful("compare", gone = Found(v))
        /\ HeapBecomes(done[0].heap) /\ size' = done[0].size /\ UNCHANGED capacity

RemoveOne(name, v, Before(_, _)) == \E i \in Found(v) :
    /\ \A j \in Found(v) \cup Incomparable(v) : i = j \/ Before(i, j)
    /\ call' = <<name, v>>
    /\ RemoveCarefully({i})
    /\ HeapBecomes(RemoveSlot(Heap, i, size))
    /\ size' = size - 1 /\ UNCHANGED capacity
list_remove_first(v) == RemoveOne("remove_first", v, <)
list_remove_last(v) == RemoveOne("remove_last", v, >)

list_clear ==
    LET cleared[i \in 0..size] == IF i = size THEN Heap ELSE Destroy(cleared[i + 1], i)
    IN  /\ call' = <<"clear">>
        /\ HeapBecomes(cleared[0]) /\ size' = 0 /\ UNCHANGED capacity

\* Swaps and moves into moved-from slots: the variants are permuted, boxes included.
Permute(p) == memory' = [l \in Location |-> IF l \in DOMAIN p THEN memory[p[l]] ELSE memory[l]]

list_reverse ==
    /\ call' = <<"reverse">>
    /\ Permute([i \in 0..size - 1 |-> size - 1 - i])
    /\ UNCHANGED <<count, stale, size, capacity>>

\* A comparison that throws loses the item that the algorithm holds.
list_sort ==
    /\ call' = <<"sort">>
    /\ \E p \in [0..size - 1 -> 0..size - 1] :
         /\ IsInjective(p)
         /\ IF size < 2 \/ Ordered
            THEN Sorted(p) /\ Permute(p) /\ UNCHANGED <<count, stale>>
            ELSE /\ Careful("compare", FALSE)
                 /\ \E i \in 0..size - 1 : HeapBecomes(release(
                        [Heap EXCEPT !.memory = [@ EXCEPT ![i] = Null]], memory[i]))
    /\ UNCHANGED <<size, capacity>>

list_set_item(i, v) ==
    /\ InRange(i) /\ call' = <<"set_item", i, v>>
    /\ HeapBecomes(assign(retain(Heap, v), to_base0(i), v))
    /\ UNCHANGED <<size, capacity>>

\* Ref = ref l[i]: make_alias boxes the item unless it is a reference already.
Refer(i) ==
    LET slot == to_base0(i)
        boxed(b) == [Heap EXCEPT !.memory[b] = memory[slot], !.memory[slot] = b, !.count[b] = 1]
    IN  /\ InRange(i) /\ memory[Ref] = Null /\ call' = <<"refer", i>>
        /\ \/ /\ memory[slot] \in Box
              /\ HeapBecomes(retain([Heap EXCEPT !.memory[Ref] = memory[slot]], memory[slot]))
           \/ /\ memory[slot] \notin Box
              /\ \E b \in Box : /\ count[b] = 0
                                /\ HeapBecomes(retain([boxed(b) EXCEPT !.memory[Ref] = b], b))
        /\ UNCHANGED <<size, capacity>>

\* Assignment to the variable that is the reference; its destruction.
AssignRef(v) ==
    /\ call' = <<"assign", v>>
    /\ memory[Ref] # Null
    /\ HeapBecomes(assign(retain(Heap, v), Ref, v))
    /\ UNCHANGED <<size, capacity>>

Forget(x) ==
    /\ memory[x] # Null
    /\ call' = IF x = Ref THEN <<"forget">> ELSE <<"other">>
    /\ HeapBecomes(release([Heap EXCEPT !.memory[x] = Null], memory[x]))
    /\ UNCHANGED <<size, capacity>>

\* mutant: the copy keeps the boxes of the references
Clone_aliased ==
    /\ call' = <<"clone">> /\ UNCHANGED <<memory, count, stale, size, capacity>>

\* unshare of a list that is then dropped by who shared it: the copy constructor
\* resolves the items, the destructor of the other array destroys its items.
Clone ==
    LET copy == [l \in Location |-> IF l \notin Slot THEN memory[l]
                                    ELSE IF l < size THEN Read(memory, l) ELSE Null]
        copied[i \in 0..size] == IF i = 0 THEN Heap ELSE retain(copied[i - 1], copy[i - 1])
        dropped[i \in 0..size] ==
            IF i = 0 THEN copied[size] ELSE release(dropped[i - 1], memory[i - 1])
    IN  /\ call' = <<"clone">>
        /\ HeapBecomes([dropped[size] EXCEPT !.memory = [l \in Location |->
                            IF l \in Slot THEN copy[l] ELSE @[l]], !.stale = {}])
        /\ UNCHANGED <<size, capacity>>

Next ==
    \/ \E v \in AtHand, i \in (-size..size + 1) \ {0} :
         \/ list_append(v) \/ list_prepend(v) \/ list_insert(i, v) \/ list_sorted_insert(v)
         \/ list_remove(v) \/ list_remove_first(v) \/ list_remove_last(v)
         \/ list_set_item(i, v) \/ AssignRef(v)
         \/ list_remove_at(i) \/ Refer(i)
    \/ list_pop \/ list_shift \/ list_clear \/ list_reverse \/ list_sort
    \/ Forget(Ref) \/ Forget(Var) \/ Clone

Spec == Init /\ [][Next]_vars

-----------------------------------------------------------------------------
TypeOK ==
    /\ memory \in [Location -> Variant]
    /\ count \in [Counted -> Nat]
    /\ stale \subseteq Slot
    /\ size \in 0..MaxSize
    /\ capacity \in {0} \cup Nat /\ size <= capacity

Holders == {l \in Location : l \in Slot => l < size}

\* Every object and every box is counted once for each variant that holds it, so
\* that it is destroyed when the last of them is: not before, and not never.
CountsExact == \A c \in Counted :
    count[c] = Cardinality({l \in Holders : memory[l] = c})

\* Past the last item, memory is zero unless a value was destroyed there: the moves
\* of an insertion assign to the first such slot, which no constructor has seen.
SpareSlotsNull == \A i \in Slot : i >= size /\ i \notin stale => memory[i] = Null

Referred == {i \in 0..size - 1 : memory[i] = memory[Ref] /\ memory[Ref] \in Box}

\* The list is a sequence, whichever slots it moves its items through, and a
\* reference stays with its item.
List == INSTANCE ListAbstract WITH
    items <- [k \in 1..size |-> Read(memory, k - 1)],
    target <- IF Referred = {} THEN 0 ELSE 1 + CHOOSE i \in Referred : TRUE,
    kept <- IF Referred = {} THEN Read(memory, Ref) ELSE Null,
    Nothing <- Null
ImplementsList == List!AbstractSpec
=============================================================================
