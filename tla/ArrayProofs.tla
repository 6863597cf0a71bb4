----------------------------- MODULE ArrayProofs -----------------------------
(* The storage of lists counts what it holds, and the memory behind the last *)
(* item is zero where nothing was destroyed: for all numbers, objects and    *)
(* references, all capacities and sizes.                                     *)
EXTENDS Array, Recursion, FiniteSetTheorems, FunctionTheorems

------------------------------------------------------------------------------
(* The inductive invariant. *)

\* What is counted once more, or once less, than a variant.
Plus(kept, v) == IF v \in Counted THEN [kept EXCEPT ![v] = @ + 1] ELSE kept

Nothing == [c \in Counted |-> 0]

Holds(h, S, c) == {l \in S : h.memory[l] = c}

\* In the middle of a call: the places in S, and besides them what the call keeps
\* for itself, are what the counts count.
Exact(h, S, kept) ==
    \A c \in Counted : /\ IsFiniteSet(Holds(h, S, c))
                       /\ h.count[c] = Cardinality(Holds(h, S, c)) + kept[c]

\* A box is no reference to a box, and a free one is zero.
Plain(h) ==
    \A b \in Box : h.memory[b] \notin Box /\ (h.count[b] = 0 => h.memory[b] = Null)

Sound(h, S, kept) ==
    /\ h \in AnyHeap
    /\ kept \in [Counted -> Nat]
    /\ Exact(h, S, kept)
    /\ Plain(h)

\* The places that hold a variant if the array has n items.
Holding(n) == {l \in Location : l \in Slot => l < n}

\* Memory behind n items that was not left behind.
Spare(h, n) == \A i \in Slot : i >= n /\ i \notin h.stale => h.memory[i] = Null

IInv ==
    /\ size \in 0..MaxSize /\ capacity \in Nat /\ size <= capacity
    /\ Sound(Heap, Holding(size), Nothing)
    /\ Spare(Heap, size)

------------------------------------------------------------------------------
(* The kinds of variants and places, and the recursive functions. *)

LEMMA Capacities ==
    ASSUME NEW requested \in Nat, NEW current \in Nat \ {0}
    PROVE  /\ find_capacity(requested, current) \in Nat
           /\ find_capacity(requested, current) >= requested
<1> DEFINE F == [n \in Nat |-> next_capacity(n)]
           Grow(g) == g = [n \in Nat |-> IF n < requested THEN g[next_capacity(n)] ELSE n]
<1>1. \A n \in Nat : next_capacity(n) \in Nat /\ (n # 0 => next_capacity(n) > n)
  BY DEF next_capacity
<1>2. F \in [Nat -> Nat] /\ \A n \in Nat : F[n] = next_capacity(n)
  BY <1>1
<1> HIDE DEF F
<1>3. \A g : Grow(g) <=> Grown(g, requested, F)
  BY <1>2 DEF Grown
<1> DEFINE c == CHOOSE g : Grow(g)
<1>4. Grow(c)
  <2>1. \E g : Grow(g)
    BY <1>2, <1>3, Growth
  <2> HIDE DEF Grow
  <2>2. QED
    BY <2>1
<1>5. find_capacity(requested, current) = c[current]
  BY DEF find_capacity
<1> HIDE DEF c
<1>6. \A n \in Nat \ {0} : c[n] \in Nat /\ c[n] >= requested /\ c[n] >= n
  <2>1. \A n \in Nat : n # 0 => F[n] > n
    BY <1>1, <1>2
  <2>2. Grown(c, requested, F)
    BY <1>3, <1>4
  <2>3. QED
    BY <1>2, <2>1, <2>2, GrowsEnough
<1>7. QED
  BY <1>5, <1>6

\* There is a slot for each item of the longest list.
LEMMA Slots ==
    /\ Slot \subseteq Nat
    /\ \A i \in Nat : i < MaxSize => i \in Slot
<1>1. /\ find_capacity(MaxSize, MinCapacity) \in Nat
      /\ find_capacity(MaxSize, MinCapacity) >= MaxSize
  BY ConstantsAssumption, Capacities
<1>2. QED
  BY <1>1, ConstantsAssumption DEF Slot

LEMMA Kinds ==
    /\ Null \notin Counted /\ Box \subseteq Counted /\ Box \cap Slot = {}
    /\ Box \subseteq Location /\ Slot \subseteq Location
    /\ Ref \in Location /\ Var \in Location /\ Ref # Var
    /\ Ref \notin Slot \cup Box /\ Var \notin Slot \cup Box
    /\ \A v \in Value : v \in Variant /\ v \notin Box
    /\ Null \in Variant /\ Box \subseteq Variant /\ Counted \subseteq Variant
<1>1. Null \notin Counted /\ Box \subseteq Counted /\ Box \subseteq Variant
  BY ConstantsAssumption DEF Counted, Value, Variant
<1>2. Box \cap Slot = {} /\ Ref \notin Slot \cup Box /\ Var \notin Slot \cup Box
  <2>1. \A i \in Slot : i \in Int
    BY Slots
  <2>2. \A b \in Box : b \notin Int
    BY ConstantsAssumption
  <2>3. Ref \notin Int /\ Ref \notin Box /\ Var \notin Int /\ Var \notin Box
    BY ConstantsAssumption
  <2>4. QED
    BY <2>1, <2>2, <2>3
<1>3. \A v \in Value : v \in Variant /\ v \notin Box
  BY ConstantsAssumption DEF Value, Variant
<1>4. QED
  BY <1>1, <1>2, <1>3, ConstantsAssumption DEF Counted, Location, Value, Variant

\* A place that is no reference to a reference stands for itself or for its box.
LEMMA Resolves ==
    ASSUME NEW m \in [Location -> Variant], \A b \in Box : m[b] \notin Box,
           NEW l \in Location
    PROVE  resolve(m, l) = IF m[l] \in Box THEN m[l] ELSE l
<1> DEFINE Follow(f) == f = [x \in DOMAIN m |-> IF m[x] \in Box THEN f[m[x]] ELSE x]
<1>1. \E f : Follow(f)
  <2> DEFINE f == [x \in Location |-> IF m[x] \in Box THEN m[x] ELSE x]
  <2>1. \A x \in Location : f[x] = IF m[x] \in Box THEN f[m[x]] ELSE x
    BY Kinds
  <2>2. f = [x \in DOMAIN m |-> IF m[x] \in Box THEN f[m[x]] ELSE x]
    BY <2>1
  <2>3. QED
    BY <2>2
<1> DEFINE c == CHOOSE f : Follow(f)
<1>2. Follow(c)
  <2> HIDE DEF Follow
  <2>1. QED
    BY <1>1
<1>3. resolve(m, l) = c[l]
  BY DEF resolve
<1> HIDE DEF c
<1>4. \A x \in Location : c[x] = IF m[x] \in Box THEN c[m[x]] ELSE x
  BY <1>2
<1>5. QED
  BY <1>3, <1>4, Kinds

LEMMA LoseType ==
    ASSUME NEW h \in AnyHeap, NEW v \in Variant
    PROVE  /\ lose(h, v) \in AnyHeap
           /\ lose(h, v).memory = h.memory /\ lose(h, v).stale = h.stale
           /\ v \in Counted => lose(h, v).count = [h.count EXCEPT ![v] = @ - 1]
           /\ v \notin Counted => lose(h, v) = h
BY DEF lose, AnyHeap

\* What release does, for each value.
LEMMA ReleaseIs ==
    ASSUME NEW h \in AnyHeap, NEW v \in Variant
    PROVE  release(h, v) =
             IF v \in Box /\ lose(h, v).count[v] = 0
             THEN release([lose(h, v) EXCEPT !.memory[v] = Null], h.memory[v])
             ELSE lose(h, v)
<1> DEFINE D == [heap : AnyHeap, value : Variant]
           Empties(x) == x.value \in Box /\ lose(x.heap, x.value).count[x.value] = 0
           Next_(x) == [heap  |-> [lose(x.heap, x.value) EXCEPT !.memory[x.value] = Null],
                        value |-> lose(x.heap, x.value).memory[x.value]]
           Drop(f) == f = [x \in D |-> IF Empties(x) THEN f[Next_(x)] ELSE lose(x.heap, x.value)]
<1>1. ASSUME NEW x \in D, x.value \in Box PROVE Next_(x) \in D
  <2>1. x.value \in Variant /\ x.value \in Location /\ Null \in Variant
    BY <1>1, Kinds
  <2>2. lose(x.heap, x.value) \in AnyHeap
    BY <2>1, LoseType
  <2>3. QED
    BY <2>1, <2>2 DEF AnyHeap
<1>2. \A g, x : release(g, x) = (CHOOSE f : Drop(f))[[heap |-> g, value |-> x]]
  BY DEF release
<1>3. Next_([heap |-> h, value |-> v])
        = [heap |-> [lose(h, v) EXCEPT !.memory[v] = Null], value |-> h.memory[v]]
  BY LoseType
<1> DEFINE p == [heap |-> h, value |-> v]
<1>4. p \in D /\ p.heap = h /\ p.value = v
  OBVIOUS
<1> HIDE DEF Next_
<1>5. \E f : Drop(f)
  <2> DEFINE M == {x \in D : Empties(x)}
             F == [x \in M |-> Next_(x)]
             Out == [x \in D |-> lose(x.heap, x.value)]
  <2>1. M \in SUBSET D /\ F \in [M -> D]
    BY <1>1
  <2>2. PICK f : Continues(f, D, M, F, Out)
    <3> HIDE DEF D, M, F, Out
    <3>1. QED
      BY <2>1, TailRecursion
  <2>3. f = [x \in D |-> IF x \in M THEN f[F[x]] ELSE Out[x]]
    BY <2>2 DEF Continues
  <2>4. Drop(f)
    <3> HIDE DEF Empties, D
    <3>1. QED
      BY <2>3
  <2>5. QED
    BY <2>4
<1> DEFINE c == CHOOSE f : Drop(f)
<1>6. Drop(c)
  <2> HIDE DEF Drop
  <2>1. QED
    BY <1>5
<1>7. \A g, x : release(g, x) = c[[heap |-> g, value |-> x]]
  BY <1>2
<1> HIDE DEF c
<1>8. c[p] = IF Empties(p) THEN c[Next_(p)] ELSE lose(p.heap, p.value)
  <2> HIDE DEF Empties, D, p
  <2>1. QED
    BY <1>4, <1>6
<1>9. QED
  BY <1>3, <1>4, <1>7, <1>8

------------------------------------------------------------------------------
(* What one step does to the counts: a variant that is written, retained,     *)
(* released or moved.                                                          *)

LEMMA HeapType ==
    ASSUME NEW h \in AnyHeap
    PROVE  /\ h.memory \in [Location -> Variant] /\ h.count \in [Counted -> Int]
           /\ h.stale \in SUBSET Slot
           /\ h = [memory |-> h.memory, count |-> h.count, stale |-> h.stale]
BY DEF AnyHeap

LEMMA PlusType ==
    ASSUME NEW kept \in [Counted -> Nat], NEW v
    PROVE  /\ Plus(kept, v) \in [Counted -> Nat]
           /\ \A c \in Counted : Plus(kept, v)[c] = IF c = v THEN kept[c] + 1 ELSE kept[c]
           /\ v \notin Counted => Plus(kept, v) = kept
BY DEF Plus

LEMMA PlusTwice ==
    ASSUME NEW kept \in [Counted -> Nat], NEW v, NEW w
    PROVE  Plus(Plus(kept, v), w) = Plus(Plus(kept, w), v)
<1> DEFINE a == Plus(Plus(kept, v), w)
           b == Plus(Plus(kept, w), v)
<1>1. Plus(kept, v) \in [Counted -> Nat] /\ Plus(kept, w) \in [Counted -> Nat]
  BY PlusType
<1>2. a \in [Counted -> Nat] /\ b \in [Counted -> Nat]
  BY <1>1, PlusType
<1>3. ASSUME NEW c \in Counted PROVE a[c] = b[c]
  <2>1. a[c] = IF c = w THEN Plus(kept, v)[c] + 1 ELSE Plus(kept, v)[c]
    BY <1>1, PlusType
  <2>2. b[c] = IF c = v THEN Plus(kept, w)[c] + 1 ELSE Plus(kept, w)[c]
    BY <1>1, PlusType
  <2>3. Plus(kept, v)[c] = IF c = v THEN kept[c] + 1 ELSE kept[c]
    BY PlusType
  <2>4. Plus(kept, w)[c] = IF c = w THEN kept[c] + 1 ELSE kept[c]
    BY PlusType
  <2>5. kept[c] \in Nat
    OBVIOUS
  <2> HIDE DEF a, b
  <2>6. QED
    BY <2>1, <2>2, <2>3, <2>4, <2>5
<1>4. QED
  <2> HIDE DEF a, b
  <2>1. a = b
    BY <1>2, <1>3
  <2>2. QED
    BY <2>1 DEF a, b

\* The counts are natural numbers.
LEMMA SoundCount ==
    ASSUME NEW h, NEW S, NEW kept, Sound(h, S, kept), NEW c \in Counted
    PROVE  /\ IsFiniteSet(Holds(h, S, c)) /\ Cardinality(Holds(h, S, c)) \in Nat
           /\ kept[c] \in Nat /\ h.count[c] \in Nat
           /\ h.count[c] = Cardinality(Holds(h, S, c)) + kept[c]
           /\ kept[c] # 0 => h.count[c] # 0
<1>1. IsFiniteSet(Holds(h, S, c)) /\ h.count[c] = Cardinality(Holds(h, S, c)) + kept[c]
  BY DEF Sound, Exact
<1>2. Cardinality(Holds(h, S, c)) \in Nat
  BY <1>1, FS_CardinalityType
<1>3. kept[c] \in Nat
  BY DEF Sound
<1>4. QED
  BY <1>1, <1>2, <1>3

\* What a place holds is counted.
LEMMA HeldCount ==
    ASSUME NEW h, NEW S, NEW kept, Sound(h, S, kept), NEW l \in S, h.memory[l] \in Counted
    PROVE  h.count[h.memory[l]] # 0
<1> DEFINE c == h.memory[l]
           A == Holds(h, S, c)
<1>1. l \in A
  BY DEF Holds
<1>2. IsFiniteSet(A) /\ Cardinality(A) \in Nat /\ kept[c] \in Nat
      /\ h.count[c] = Cardinality(A) + kept[c]
  BY SoundCount
<1>3. Cardinality(A) # 0
  <2> HIDE DEF A
  <2>1. QED
    BY <1>1, <1>2, FS_EmptySet
<1>4. QED
  BY <1>2, <1>3

\* What is not held in the one place or the other does not matter.
LEMMA SameSound ==
    ASSUME NEW h, NEW S, NEW kept, Sound(h, S, kept),
           NEW g \in AnyHeap, NEW T, g.count = h.count,
           \A l \in T : g.memory[l] \in Counted => l \in S /\ g.memory[l] = h.memory[l],
           \A l \in S : h.memory[l] \in Counted => l \in T /\ g.memory[l] = h.memory[l],
           \A b \in Box : g.memory[b] = h.memory[b]
    PROVE  Sound(g, T, kept)
<1>1. \A c \in Counted : Holds(g, T, c) = Holds(h, S, c)
  BY DEF Holds
<1>2. Exact(g, T, kept)
  BY <1>1 DEF Exact, Sound
<1>3. QED
  BY <1>2 DEF Sound, Plain

\* A kept variant is written: what was there before is kept then.
LEMMA WriteSound ==
    ASSUME NEW h, NEW S \in SUBSET Location, NEW kept \in [Counted -> Nat],
           NEW l \in S, NEW v \in Variant, Sound(h, S, Plus(kept, v)),
           l \in Box => v \notin Box /\ (v = Null \/ h.count[l] # 0),
           NEW g \in AnyHeap, g.count = h.count, g.memory = [h.memory EXCEPT ![l] = v]
    PROVE  Sound(g, S, Plus(kept, h.memory[l]))
<1> DEFINE w == h.memory[l]
<1>0. l \in Location /\ h.memory \in [Location -> Variant]
  BY HeapType DEF Sound
<1>1. \A k \in Location : g.memory[k] = IF k = l THEN v ELSE h.memory[k]
  BY <1>0
<1>2. ASSUME NEW c \in Counted
      PROVE  /\ IsFiniteSet(Holds(g, S, c))
             /\ g.count[c] = Cardinality(Holds(g, S, c)) + Plus(kept, w)[c]
  <2> DEFINE A == Holds(h, S, c)
             B == Holds(g, S, c)
  <2>1. /\ IsFiniteSet(A) /\ Cardinality(A) \in Nat /\ kept[c] \in Nat
        /\ h.count[c] = Cardinality(A) + Plus(kept, v)[c]
    BY SoundCount
  <2>2. /\ Plus(kept, v)[c] = IF c = v THEN kept[c] + 1 ELSE kept[c]
        /\ Plus(kept, w)[c] = IF c = w THEN kept[c] + 1 ELSE kept[c]
    BY PlusType
  <2>3. CASE c = v /\ c # w
    <3>1. B = A \cup {l} /\ l \notin A
      BY <1>1, <2>3 DEF Holds
    <3> HIDE DEF A, B, w
    <3>2. IsFiniteSet(B) /\ Cardinality(B) = Cardinality(A) + 1
      BY <2>1, <3>1, FS_AddElement
    <3>3. QED
      BY <2>1, <2>2, <2>3, <3>2 DEF B
  <2>4. CASE c # v /\ c = w
    <3>1. B = A \ {l} /\ l \in A
      BY <1>1, <2>4 DEF Holds
    <3> HIDE DEF A, B, w
    <3>2. IsFiniteSet(B) /\ Cardinality(B) = Cardinality(A) - 1
      BY <2>1, <3>1, FS_RemoveElement
    <3>3. QED
      BY <2>1, <2>2, <2>4, <3>2 DEF B
  <2>5. CASE (c = v) = (c = w)
    <3>1. B = A
      BY <1>1, <2>5 DEF Holds
    <3> HIDE DEF A, B, w
    <3>2. QED
      BY <2>1, <2>2, <2>5, <3>1 DEF B
  <2>6. QED
    BY <2>3, <2>4, <2>5
<1>3. Plain(g)
  <2>1. \A b \in Box : b \in Location
    BY Kinds
  <2>2. QED
    BY <1>1, <2>1 DEF Plain, Sound
<1>4. Plus(kept, w) \in [Counted -> Nat]
  BY PlusType
<1>5. QED
  BY <1>2, <1>3, <1>4 DEF Sound, Exact

\* A kept variant is written to a place that held nothing.
LEMMA PlaceSound ==
    ASSUME NEW h, NEW S \in SUBSET Location, NEW kept \in [Counted -> Nat],
           NEW l \in Location, l \notin S, l \notin Box,
           NEW v \in Variant, Sound(h, S, Plus(kept, v)),
           NEW g \in AnyHeap, g.count = h.count, g.memory = [h.memory EXCEPT ![l] = v]
    PROVE  Sound(g, S \cup {l}, kept)
<1> DEFINE T == S \cup {l}
<1>0. h.memory \in [Location -> Variant]
  BY HeapType DEF Sound
<1>1. \A k \in Location : g.memory[k] = IF k = l THEN v ELSE h.memory[k]
  BY <1>0
<1>2. ASSUME NEW c \in Counted
      PROVE  /\ IsFiniteSet(Holds(g, T, c))
             /\ g.count[c] = Cardinality(Holds(g, T, c)) + kept[c]
  <2> DEFINE A == Holds(h, S, c)
             B == Holds(g, T, c)
  <2>1. /\ IsFiniteSet(A) /\ Cardinality(A) \in Nat /\ kept[c] \in Nat
        /\ h.count[c] = Cardinality(A) + Plus(kept, v)[c]
    BY SoundCount
  <2>2. Plus(kept, v)[c] = IF c = v THEN kept[c] + 1 ELSE kept[c]
    BY PlusType
  <2>3. CASE c = v
    <3>1. B = A \cup {l} /\ l \notin A
      BY <1>1, <2>3 DEF Holds
    <3> HIDE DEF A, B
    <3>2. IsFiniteSet(B) /\ Cardinality(B) = Cardinality(A) + 1
      BY <2>1, <3>1, FS_AddElement
    <3>3. QED
      BY <2>1, <2>2, <2>3, <3>2 DEF B
  <2>4. CASE c # v
    <3>1. B = A
      BY <1>1, <2>4 DEF Holds
    <3> HIDE DEF A, B
    <3>2. QED
      BY <2>1, <2>2, <2>4, <3>1 DEF B
  <2>5. QED
    BY <2>3, <2>4
<1>3. Plain(g)
  <2>1. \A b \in Box : b \in Location /\ b # l
    BY Kinds
  <2>2. QED
    BY <1>1, <2>1 DEF Plain, Sound
<1>4. QED
  BY <1>2, <1>3 DEF Sound, Exact

\* A place is given up: what it holds is kept then.
LEMMA TakeSound ==
    ASSUME NEW h, NEW S, NEW kept, Sound(h, S, kept), NEW l \in S
    PROVE  Sound(h, S \ {l}, Plus(kept, h.memory[l]))
<1> DEFINE T == S \ {l}
           w == h.memory[l]
<1>1. kept \in [Counted -> Nat]
  BY DEF Sound
<1>2. ASSUME NEW c \in Counted
      PROVE  /\ IsFiniteSet(Holds(h, T, c))
             /\ h.count[c] = Cardinality(Holds(h, T, c)) + Plus(kept, w)[c]
  <2> DEFINE A == Holds(h, S, c)
             B == Holds(h, T, c)
  <2>1. /\ IsFiniteSet(A) /\ Cardinality(A) \in Nat /\ kept[c] \in Nat
        /\ h.count[c] = Cardinality(A) + kept[c]
    BY SoundCount
  <2>2. Plus(kept, w)[c] = IF c = w THEN kept[c] + 1 ELSE kept[c]
    BY <1>1, PlusType
  <2>3. CASE c = w
    <3>1. B = A \ {l} /\ l \in A
      BY <2>3 DEF Holds
    <3> HIDE DEF A, B
    <3>2. IsFiniteSet(B) /\ Cardinality(B) = Cardinality(A) - 1
      BY <2>1, <3>1, FS_RemoveElement
    <3>3. QED
      BY <2>1, <2>2, <2>3, <3>2 DEF B
  <2>4. CASE c # w
    <3>1. B = A
      BY <2>4 DEF Holds
    <3> HIDE DEF A, B, w
    <3>2. QED
      BY <2>1, <2>2, <2>4, <3>1 DEF B
  <2>5. QED
    BY <2>3, <2>4
<1>3. Plus(kept, w) \in [Counted -> Nat]
  BY <1>1, PlusType
<1>4. QED
  BY <1>2, <1>3 DEF Sound, Exact

LEMMA RetainSound ==
    ASSUME NEW h, NEW S, NEW kept, Sound(h, S, kept), NEW v \in Variant
    PROVE  /\ Sound(retain(h, v), S, Plus(kept, v))
           /\ retain(h, v).memory = h.memory /\ retain(h, v).stale = h.stale
<1> DEFINE g == retain(h, v)
<1>1. h \in AnyHeap /\ kept \in [Counted -> Nat]
  BY DEF Sound
<1>2. CASE v \notin Counted
  BY <1>1, <1>2, PlusType DEF retain
<1>3. CASE v \in Counted
  <2>1. /\ g \in AnyHeap /\ g.memory = h.memory /\ g.stale = h.stale
        /\ g.count = [h.count EXCEPT ![v] = @ + 1]
    BY <1>1, <1>3 DEF retain, AnyHeap
  <2> HIDE DEF g
  <2>2. \A c \in Counted : g.count[c] = IF c = v THEN h.count[c] + 1 ELSE h.count[c]
    BY <1>1, <2>1, HeapType
  <2>3. Plus(kept, v) \in [Counted -> Nat]
        /\ \A c \in Counted : Plus(kept, v)[c] = IF c = v THEN kept[c] + 1 ELSE kept[c]
    BY <1>1, PlusType
  <2>4. Exact(g, S, Plus(kept, v))
    <3>1. ASSUME NEW c \in Counted
          PROVE  /\ IsFiniteSet(Holds(g, S, c))
                 /\ g.count[c] = Cardinality(Holds(g, S, c)) + Plus(kept, v)[c]
      <4>1. Holds(g, S, c) = Holds(h, S, c)
        BY <2>1 DEF Holds
      <4>2. /\ IsFiniteSet(Holds(h, S, c)) /\ Cardinality(Holds(h, S, c)) \in Nat
            /\ kept[c] \in Nat /\ h.count[c] = Cardinality(Holds(h, S, c)) + kept[c]
        BY SoundCount
      <4>3. QED
        BY <2>2, <2>3, <4>1, <4>2
    <3>2. QED
      BY <3>1 DEF Exact
  <2>5. Plain(g)
    <3>1. \A b \in Box : b \in Counted /\ h.count[b] \in Nat
      BY Kinds, SoundCount
    <3>2. QED
      BY <2>1, <2>2, <3>1 DEF Plain, Sound
  <2>6. QED
    BY <2>1, <2>3, <2>4, <2>5 DEF Sound, g
<1>4. QED
  BY <1>2, <1>3

\* What is kept is counted no more.
LEMMA LoseSound ==
    ASSUME NEW h, NEW S, NEW kept \in [Counted -> Nat], NEW v \in Variant,
           Sound(h, S, Plus(kept, v)),
           v \in Box => h.count[v] # 1 \/ h.memory[v] = Null
    PROVE  Sound(lose(h, v), S, kept)
<1> DEFINE g == lose(h, v)
<1>1. h \in AnyHeap
  BY DEF Sound
<1>2. CASE v \notin Counted
  BY <1>1, <1>2, PlusType DEF lose
<1>3. CASE v \in Counted
  <2>1. /\ g \in AnyHeap /\ g.memory = h.memory
        /\ g.count = [h.count EXCEPT ![v] = @ - 1]
    BY <1>1, <1>3, LoseType
  <2> HIDE DEF g
  <2>2. \A c \in Counted : g.count[c] = IF c = v THEN h.count[c] - 1 ELSE h.count[c]
    BY <1>1, <2>1, HeapType
  <2>3. \A c \in Counted : Plus(kept, v)[c] = IF c = v THEN kept[c] + 1 ELSE kept[c]
    BY PlusType
  <2>4. Exact(g, S, kept)
    <3>1. ASSUME NEW c \in Counted
          PROVE  /\ IsFiniteSet(Holds(g, S, c))
                 /\ g.count[c] = Cardinality(Holds(g, S, c)) + kept[c]
      <4>1. Holds(g, S, c) = Holds(h, S, c)
        BY <2>1 DEF Holds
      <4>2. /\ IsFiniteSet(Holds(h, S, c)) /\ Cardinality(Holds(h, S, c)) \in Nat
            /\ kept[c] \in Nat
            /\ h.count[c] = Cardinality(Holds(h, S, c)) + Plus(kept, v)[c]
        BY SoundCount
      <4>3. QED
        BY <2>2, <2>3, <4>1, <4>2
    <3>2. QED
      BY <3>1 DEF Exact
  <2>5. Plain(g)
    <3>1. \A b \in Box : b \in Counted /\ h.count[b] \in Nat
      BY Kinds, SoundCount
    <3>2. QED
      BY <2>1, <2>2, <3>1 DEF Plain, Sound
  <2>6. QED
    BY <2>1, <2>4, <2>5 DEF Sound, g
<1>4. QED
  BY <1>2, <1>3

\* A box that is still counted is as it was.
Spared(g, h) == \A b \in Box : g.count[b] # 0 => h.count[b] # 0 /\ g.memory[b] = h.memory[b]

\* What is kept is released, and with a box that nothing refers to what it holds.
LEMMA ReleaseSound ==
    ASSUME NEW h, NEW S \in SUBSET Location, Box \subseteq S,
           NEW kept \in [Counted -> Nat], NEW v \in Variant, Sound(h, S, Plus(kept, v))
    PROVE  /\ Sound(release(h, v), S, kept)
           /\ release(h, v).stale = h.stale
           /\ \A l \in Location : l \notin Box => release(h, v).memory[l] = h.memory[l]
           /\ v \notin Box => release(h, v).memory = h.memory
           /\ Spared(release(h, v), h)
           /\ v \notin Counted => release(h, v) = h
<1>1. h \in AnyHeap
  BY DEF Sound
<1>2. CASE ~(v \in Box /\ lose(h, v).count[v] = 0)
  <2>1. release(h, v) = lose(h, v)
    BY <1>1, <1>2, ReleaseIs
  <2>2. v \in Box => h.count[v] # 1
    <3>1. SUFFICES ASSUME v \in Box PROVE lose(h, v).count[v] = h.count[v] - 1
      BY <1>2
    <3>2. v \in Counted /\ h.count \in [Counted -> Int]
      BY <1>1, <3>1, Kinds, HeapType
    <3>3. lose(h, v).count = [h.count EXCEPT ![v] = @ - 1]
      BY <1>1, <3>2, LoseType
    <3>4. QED
      BY <3>2, <3>3
  <2>3. Sound(lose(h, v), S, kept)
    BY <2>2, LoseSound
  <2>4. /\ lose(h, v).memory = h.memory /\ lose(h, v).stale = h.stale
        /\ v \notin Counted => lose(h, v) = h
    BY <1>1, LoseType
  <2>5. Spared(lose(h, v), h)
    <3>1. ASSUME NEW b \in Box, lose(h, v).count[b] # 0 PROVE h.count[b] # 0
      <4>1. CASE v \in Counted
        <5>1. lose(h, v).count = [h.count EXCEPT ![v] = @ - 1] /\ h.count \in [Counted -> Int]
          BY <1>1, <4>1, LoseType, HeapType
        <5>2. b # v => lose(h, v).count[b] = h.count[b]
          BY <4>1, <5>1, Kinds
        <5>3. Plus(kept, v)[v] # 0
          <6>1. Plus(kept, v)[v] = kept[v] + 1 /\ kept[v] \in Nat
            BY <4>1, PlusType
          <6>2. QED
            BY <6>1
        <5>4. h.count[v] # 0
          <6> DEFINE k == Plus(kept, v)
          <6>1. Sound(h, S, k) /\ k[v] # 0
            BY <5>3
          <6> HIDE DEF k
          <6>2. QED
            BY <4>1, <6>1, SoundCount
        <5>5. QED
          BY <3>1, <5>2, <5>4
      <4>2. CASE v \notin Counted
        BY <2>4, <3>1, <4>2
      <4>3. QED
        BY <4>1, <4>2
    <3>2. QED
      BY <2>4, <3>1 DEF Spared
  <2>6. QED
    BY <2>1, <2>3, <2>4, <2>5
<1>3. CASE v \in Box /\ lose(h, v).count[v] = 0
  <2> DEFINE w == h.memory[v]
             f == [h EXCEPT !.memory[v] = Null]
             g == [lose(h, v) EXCEPT !.memory[v] = Null]
  <2>1. v \in Counted /\ v \in Location /\ Null \in Variant /\ Null \notin Counted
    BY <1>3, Kinds
  <2>2. w \in Variant /\ w \notin Box
    BY <1>1, <1>3, <2>1, HeapType DEF Sound, Plain
  <2>3. release(h, v) = release(g, w)
    BY <1>1, <1>3, ReleaseIs
  <2>4. f \in AnyHeap /\ f.count = h.count /\ f.memory = [h.memory EXCEPT ![v] = Null]
        /\ f.stale = h.stale
    BY <1>1, <2>1 DEF AnyHeap
  <2>5. g = lose(f, v)
    BY <1>1, <2>1 DEF lose, AnyHeap
  <2> HIDE DEF f, g, w
  <2>6. Plus(kept, v) \in [Counted -> Nat] /\ Plus(kept, w) \in [Counted -> Nat]
        /\ Plus(Plus(kept, v), Null) = Plus(kept, v)
        /\ Plus(Plus(kept, v), w) = Plus(Plus(kept, w), v)
    <3>1. Plus(kept, v) \in [Counted -> Nat] /\ Plus(kept, w) \in [Counted -> Nat]
      BY PlusType
    <3>2. QED
      BY <2>1, <3>1, PlusType, PlusTwice
  <2>7. Sound(f, S, Plus(Plus(kept, v), w))
    <3>1. Sound(h, S, Plus(Plus(kept, v), Null)) /\ v \in S
      BY <1>3, <2>6
    <3>2. Sound(f, S, Plus(Plus(kept, v), h.memory[v]))
      BY <1>3, <2>1, <2>4, <2>6, <3>1, WriteSound, Kinds
    <3>3. QED
      BY <3>2 DEF w
  <2>8. Sound(g, S, Plus(kept, w))
    <3>1. f.memory[v] = Null
      BY <1>1, <2>1, <2>4, HeapType
    <3>2. Sound(f, S, Plus(Plus(kept, w), v))
      BY <2>6, <2>7
    <3>3. Sound(lose(f, v), S, Plus(kept, w))
      BY <2>6, <3>1, <3>2, LoseSound
    <3>4. QED
      BY <2>5, <3>3
  <2>9. release(g, w) = lose(g, w) /\ g \in AnyHeap
    <3>1. g \in AnyHeap
      BY <2>8 DEF Sound
    <3>2. QED
      BY <2>2, <3>1, ReleaseIs
  <2>10. Sound(lose(g, w), S, kept)
    BY <2>2, <2>8, LoseSound
  <2>11. g.memory = f.memory /\ g.stale = f.stale
    BY <2>4, <2>5, <1>3, LoseType, Kinds
  <2>12. lose(g, w).memory = g.memory /\ lose(g, w).stale = g.stale
    BY <2>2, <2>9, LoseType
  <2>13. \A l \in Location : l \notin Box => g.memory[l] = h.memory[l]
    BY <1>1, <1>3, <2>4, <2>11, HeapType
  <2>14. Spared(lose(g, w), h)
    <3>1. ASSUME NEW b \in Box, lose(g, w).count[b] # 0
          PROVE  h.count[b] # 0 /\ lose(g, w).memory[b] = h.memory[b]
      <4>1. b \in Counted /\ b \in Location /\ b # w
        BY <2>2, Kinds
      <4>2. lose(g, w).count[b] = g.count[b]
        <5>1. w \in Counted => lose(g, w).count = [g.count EXCEPT ![w] = @ - 1]
          BY <2>2, <2>9, LoseType
        <5>2. w \notin Counted => lose(g, w) = g
          BY <2>2, <2>9, LoseType
        <5>3. g.count \in [Counted -> Int]
          BY <2>9, HeapType
        <5>4. QED
          BY <4>1, <5>1, <5>2, <5>3
      <4>3. g.count = [h.count EXCEPT ![v] = @ - 1]
        <5>1. lose(f, v).count = [f.count EXCEPT ![v] = @ - 1]
          BY <2>1, <2>4, LoseType
        <5>2. QED
          BY <2>4, <2>5, <5>1
      <4>4. g.count[v] = 0
        <5>1. lose(h, v).count = [h.count EXCEPT ![v] = @ - 1]
          BY <1>1, <2>1, LoseType
        <5>2. QED
          BY <1>3, <4>3, <5>1
      <4>5. b # v
        BY <3>1, <4>2, <4>4
      <4>6. h.count[b] = g.count[b]
        BY <1>1, <2>1, <4>1, <4>3, <4>5, HeapType
      <4>7. f.memory[b] = h.memory[b]
        BY <1>1, <2>4, <4>1, <4>5, HeapType
      <4>8. QED
        BY <2>11, <2>12, <3>1, <4>2, <4>6, <4>7
    <3>2. QED
      BY <3>1 DEF Spared
  <2>15. QED
    BY <1>3, <2>1, <2>3, <2>4, <2>9, <2>10, <2>11, <2>12, <2>13, <2>14
<1>4. QED
  BY <1>2, <1>3

\* The memory after a variant is written to one place.
Written(g, h, l, v) ==
    /\ g.stale = h.stale \ {l}
    /\ \A x \in Location : g.memory[x] = IF x = l THEN v ELSE h.memory[x]

\* The memory after a variant is moved from one place to another.
Moved(g, h, from, to) ==
    /\ g.stale = h.stale \ {to}
    /\ \A x \in Location : g.memory[x] = IF x = from THEN Null
                                         ELSE IF x = to THEN h.memory[from]
                                         ELSE h.memory[x]

Target(h, l) == IF h.memory[l] \in Box THEN h.memory[l] ELSE l

\* A kept variant is assigned, to a place or to what the place refers to.
LEMMA AssignSound ==
    ASSUME NEW h, NEW S \in SUBSET Location, Box \subseteq S,
           NEW kept \in [Counted -> Nat], NEW v \in Variant, Sound(h, S, Plus(kept, v)),
           NEW l \in S, l \notin Box, v \notin Box \/ h.memory[l] \notin Box
    PROVE  /\ Sound(assign(h, l, v), S, kept)
           /\ Written(assign(h, l, v), h, Target(h, l), v)
<1> DEFINE self == resolve(h.memory, l)
           w == h.memory[self]
           g == [h EXCEPT !.memory[self] = v, !.stale = @ \ {self}]
<1>1. h \in AnyHeap /\ h.memory \in [Location -> Variant]
      /\ \A b \in Box : h.memory[b] \notin Box
  BY HeapType DEF Sound, Plain
<1>2. self = IF h.memory[l] \in Box THEN h.memory[l] ELSE l
  BY <1>1, Resolves
<1>3. assign(h, l, v) = release(g, w)
  BY DEF assign
<1> HIDE DEF self
<1>4. self \in S /\ self \in Location
  BY <1>2
<1>5. w \in Variant /\ w \notin Box
  BY <1>1, <1>2, <1>4
<1>6. /\ g \in AnyHeap /\ g.count = h.count /\ g.stale = h.stale \ {self}
      /\ g.memory = [h.memory EXCEPT ![self] = v]
  BY <1>1, <1>4 DEF AnyHeap
<1> HIDE DEF g
<1>7. self \in Box => v \notin Box /\ h.count[self] # 0
  <2>1. ASSUME self \in Box PROVE h.count[self] # 0
    BY <1>2, <2>1, HeldCount, Kinds
  <2>2. QED
    BY <1>2, <2>1
<1>8. Sound(g, S, Plus(kept, w))
  BY <1>4, <1>6, <1>7, WriteSound
<1> HIDE DEF w
<1>9. /\ Sound(release(g, w), S, kept)
      /\ release(g, w).stale = g.stale
      /\ release(g, w).memory = g.memory
  <2> HIDE DEF g
  <2>1. w \in Variant /\ w \notin Box /\ Sound(g, S, Plus(kept, w))
    BY <1>5, <1>8
  <2>2. Sound(release(g, w), S, kept)
    BY <2>1, ReleaseSound
  <2>3. release(g, w).stale = g.stale
    BY <2>1, ReleaseSound
  <2>4. release(g, w).memory = g.memory
    BY <2>1, ReleaseSound
  <2>5. QED
    BY <2>2, <2>3, <2>4
<1>10. \A x \in Location : g.memory[x] = IF x = self THEN v ELSE h.memory[x]
  BY <1>1, <1>6
<1>11. Written(assign(h, l, v), h, self, v)
  BY <1>3, <1>6, <1>9, <1>10 DEF Written
<1>12. QED
  BY <1>2, <1>3, <1>9, <1>11 DEF Target

\* A variant is moved to a place that is no reference.
LEMMA MoveSound ==
    ASSUME NEW h, NEW S \in SUBSET Location, Box \subseteq S, NEW kept, Sound(h, S, kept),
           NEW from \in S, NEW to \in S, from # to, from \notin Box, to \notin Box,
           h.memory[to] \notin Box
    PROVE  /\ Sound(Move(h, from, to), S, kept)
           /\ Moved(Move(h, from, to), h, from, to)
<1> DEFINE v == h.memory[from]
           g == [h EXCEPT !.memory[from] = Null]
<1>1. h \in AnyHeap /\ h.memory \in [Location -> Variant] /\ kept \in [Counted -> Nat]
  BY HeapType DEF Sound
<1>2. v \in Variant /\ Null \in Variant /\ Plus(kept, Null) = kept
  BY <1>1, PlusType, Kinds
<1>3. /\ g \in AnyHeap /\ g.count = h.count /\ g.stale = h.stale
      /\ g.memory = [h.memory EXCEPT ![from] = Null]
  BY <1>1, <1>2 DEF AnyHeap
<1>4. Move(h, from, to) = assign(g, to, v)
  BY DEF Move
<1> HIDE DEF g
<1>5. Sound(g, S, Plus(kept, v))
  BY <1>1, <1>2, <1>3, WriteSound
<1>6. \A x \in Location : g.memory[x] = IF x = from THEN Null ELSE h.memory[x]
  BY <1>1, <1>3
<1>7. g.memory[to] \notin Box
  BY <1>6
<1> HIDE DEF v
<1>8. Sound(assign(g, to, v), S, kept) /\ Written(assign(g, to, v), g, Target(g, to), v)
  BY <1>1, <1>2, <1>5, <1>7, AssignSound
<1>9. Target(g, to) = to
  BY <1>7 DEF Target
<1>10. Moved(Move(h, from, to), h, from, to)
  BY <1>3, <1>4, <1>6, <1>8, <1>9 DEF Written, Moved, v
<1>11. QED
  BY <1>4, <1>8, <1>10

------------------------------------------------------------------------------
(* The loops of the array. *)

\* Nothing has changed but in the places A.
Elsewhere(g, h, A) ==
    \A x \in Location \ A :
       g.memory[x] = h.memory[x] /\ (x \in g.stale <=> x \in h.stale)

\* There is the function that MoveUp defines.
LEMMA MoveUpIs ==
    ASSUME size \in Nat, NEW h, NEW first \in 0..size
    PROVE  \E c : /\ MoveUp(h, first) = c[first] /\ c[size] = h
                  /\ \A i \in first..size - 1 : c[i] = Move(c[i + 1], i, i + 1)
<1> DEFINE Is(f, a) == f = [i \in a..size |-> IF i = size THEN h ELSE Move(f[i + 1], i, i + 1)]
           T == {k \in Nat : k <= size - first => \E f : Is(f, size - k)}
<1>1. 0 \in T
  <2> DEFINE f == [i \in size..size |-> h]
  <2>1. \A i \in size..size : f[i] = IF i = size THEN h ELSE Move(f[i + 1], i, i + 1)
    OBVIOUS
  <2>2. Is(f, size)
    <3>1. f = [i \in size..size |-> f[i]]
      OBVIOUS
    <3> HIDE DEF f
    <3>2. QED
      BY <2>1, <3>1
  <2>3. size - 0 = size
    OBVIOUS
  <2> HIDE DEF Is, f
  <2>4. QED
    BY <2>2, <2>3
<1>2. ASSUME NEW k \in Nat, k \in T PROVE k + 1 \in T
  <2>1. SUFFICES ASSUME k + 1 <= size - first PROVE \E f : Is(f, size - (k + 1))
    OBVIOUS
  <2> DEFINE a == size - k
  <2>2. a \in Nat /\ a <= size /\ a # 0 /\ size - (k + 1) = a - 1
    BY <2>1
  <2>3. PICK f : Is(f, a)
    BY <1>2, <2>1
  <2> HIDE DEF a
  <2> DEFINE g == [i \in a - 1..size |-> IF i = a - 1 THEN Move(f[a], a - 1, a) ELSE f[i]]
  <2>4. ASSUME NEW i \in a - 1..size
        PROVE  g[i] = IF i = size THEN h ELSE Move(g[i + 1], i, i + 1)
    <3>1. CASE i = a - 1
      <4>1. g[i] = Move(f[a], i, i + 1) /\ g[i + 1] = f[a] /\ i # size
        BY <2>2, <3>1
      <4>2. QED
        BY <4>1
    <3>2. CASE i # a - 1
      <4>1. i \in a..size /\ g[i] = f[i] /\ (i # size => i + 1 \in a..size /\ g[i + 1] = f[i + 1])
        BY <2>2, <3>2
      <4>2. QED
        BY <2>3, <4>1
    <3>3. QED
      BY <3>1, <3>2
  <2>5. Is(g, a - 1)
    BY <2>4
  <2> HIDE DEF g, Is
  <2>6. QED
    BY <2>2, <2>5
<1>3. \A k \in Nat : k \in T
  <2> HIDE DEF T
  <2>1. QED
    BY <1>1, <1>2, Induction
<1>4. \E f : Is(f, first)
  <2>1. size - first \in T /\ size - (size - first) = first
    <3> HIDE DEF T
    <3>1. size - first \in Nat /\ size - (size - first) = first
      OBVIOUS
    <3>2. QED
      BY <1>3, <3>1
  <2> HIDE DEF Is
  <2>2. QED
    BY <2>1
<1> DEFINE c == CHOOSE f : Is(f, first)
<1>5. Is(c, first)
  <2> HIDE DEF Is
  <2>1. QED
    BY <1>4
<1>6. MoveUp(h, first) = c[first]
  BY DEF MoveUp
<1> HIDE DEF c
<1>7. c[size] = h /\ \A i \in first..size - 1 : c[i] = Move(c[i + 1], i, i + 1)
  BY <1>5
<1>8. QED
  BY <1>6, <1>7

\* The items from first on move up into a slot that is zero.
LEMMA MoveUpSound ==
    ASSUME size \in Nat, size < MaxSize, NEW first \in 0..size,
           NEW h, NEW kept, Sound(h, Holding(size + 1), kept), h.memory[size] = Null
    PROVE  /\ Sound(MoveUp(h, first), Holding(size + 1), kept)
           /\ MoveUp(h, first).memory[first] = Null
           /\ \A j \in first..size - 1 : MoveUp(h, first).memory[j + 1] = h.memory[j]
           /\ Elsewhere(MoveUp(h, first), h, first..size)
<1> DEFINE S == Holding(size + 1)
<1>1. ASSUME NEW i \in 0..size
      PROVE  i \in Slot /\ i \in S /\ i \notin Box /\ i \in Location
  <2>1. i \in Nat /\ i < MaxSize /\ i < size + 1
    BY ConstantsAssumption
  <2>2. i \in Slot
    BY <2>1, Slots
  <2>3. i \notin Box /\ i \in Location
    BY <2>2, Kinds
  <2>4. QED
    BY <2>1, <2>2, <2>3 DEF Holding
<1>2. S \in SUBSET Location /\ Box \subseteq S /\ Null \notin Box
  BY Kinds DEF Holding
<1> HIDE DEF S
<1>3. PICK c : /\ MoveUp(h, first) = c[first] /\ c[size] = h
               /\ \A i \in first..size - 1 : c[i] = Move(c[i + 1], i, i + 1)
  BY MoveUpIs
<1> DEFINE Good(i) == /\ Sound(c[i], S, kept) /\ c[i].memory[i] = Null
                      /\ Elsewhere(c[i], h, first..size)
                      /\ \A j \in first..i - 1 : c[i].memory[j] = h.memory[j]
                      /\ \A j \in i..size - 1 : c[i].memory[j + 1] = h.memory[j]
           T == {k \in Nat : k <= size - first => Good(size - k)}
<1>4. 0 \in T
  BY <1>3 DEF S, Elsewhere
<1>5. ASSUME NEW k \in Nat, k \in T PROVE k + 1 \in T
  <2>1. SUFFICES ASSUME k + 1 <= size - first PROVE Good(size - (k + 1))
    OBVIOUS
  <2> DEFINE i == size - (k + 1)
             g == c[i + 1]
             d == Move(g, i, i + 1)
  <2>2. i \in first..size - 1 /\ i + 1 = size - k /\ i \in 0..size /\ i + 1 \in 0..size
    BY <2>1
  <2>3. Good(i + 1)
    BY <1>5, <2>1, <2>2
  <2> HIDE DEF i
  <2>4. c[i] = d
    BY <1>3, <2>2
  <2>5. /\ Sound(g, S, kept) /\ g.memory[i + 1] = Null /\ Elsewhere(g, h, first..size)
        /\ i \in S /\ i + 1 \in S /\ i # i + 1 /\ i \notin Box /\ i + 1 \notin Box
        /\ i \in Location /\ i + 1 \in Location
        /\ \A j \in first..i : g.memory[j] = h.memory[j]
        /\ \A j \in i + 1..size - 1 : g.memory[j + 1] = h.memory[j]
    <3>1. first..i = first..i + 1 - 1
      BY <2>2
    <3>2. QED
      BY <1>1, <2>2, <2>3, <3>1
  <2> HIDE DEF g
  <2>6. Sound(d, S, kept) /\ Moved(d, g, i, i + 1)
    BY <1>2, <2>5, MoveSound
  <2> HIDE DEF d
  <2>7. d.memory[i] = Null
    BY <2>5, <2>6 DEF Moved
  <2>8. Elsewhere(d, h, first..size)
    <3>1. i \in first..size /\ i + 1 \in first..size
      BY <2>2
    <3> DEFINE A == first..size
    <3> HIDE DEF A
    <3>2. i \in A /\ i + 1 \in A /\ Elsewhere(g, h, A)
      BY <2>5, <3>1 DEF A
    <3>3. Elsewhere(d, h, A)
      BY <2>6, <3>2 DEF Elsewhere, Moved
    <3>4. QED
      BY <3>3 DEF A
  <2>9. ASSUME NEW j \in first..i - 1 PROVE d.memory[j] = h.memory[j]
    <3>1. j \in 0..size /\ j # i /\ j # i + 1 /\ j \in first..i
      BY <2>2
    <3>2. j \in Location /\ g.memory[j] = h.memory[j]
      BY <1>1, <2>5, <3>1
    <3>3. QED
      BY <2>6, <3>1, <3>2 DEF Moved
  <2>10. ASSUME NEW j \in i..size - 1 PROVE d.memory[j + 1] = h.memory[j]
    <3>1. CASE j = i
      <4>1. i \in first..i
        BY <2>2
      <4>2. g.memory[i] = h.memory[i]
        BY <2>5, <4>1
      <4>3. QED
        BY <2>5, <2>6, <3>1, <4>2 DEF Moved
    <3>2. CASE j # i
      <4>1. j \in i + 1..size - 1 /\ j + 1 \in 0..size /\ j + 1 # i /\ j + 1 # i + 1
        BY <2>2, <3>2
      <4>2. g.memory[j + 1] = h.memory[j] /\ j + 1 \in Location
        BY <1>1, <2>5, <4>1
      <4>3. QED
        BY <2>6, <4>1, <4>2 DEF Moved
    <3>3. QED
      BY <3>1, <3>2
  <2>11. QED
    BY <2>4, <2>6, <2>7, <2>8, <2>9, <2>10 DEF i
<1>6. \A k \in Nat : k \in T
  <2> HIDE DEF T
  <2>1. QED
    BY <1>4, <1>5, Induction
<1>7. Good(first)
  <2>1. size - first \in T /\ size - (size - first) = first
    <3> HIDE DEF T
    <3>1. size - first \in Nat /\ size - (size - first) = first
      OBVIOUS
    <3>2. QED
      BY <1>6, <3>1
  <2> HIDE DEF Good
  <2>2. QED
    BY <2>1
<1>8. QED
  BY <1>3, <1>7 DEF S

LEMMA MoveDownIs ==
    ASSUME NEW h, NEW n \in Nat, NEW pos \in 0..n - 1
    PROVE  \E c : /\ MoveDown(h, pos, n) = c[n - 1] /\ c[pos] = h
                  /\ \A i \in pos + 1..n - 1 : c[i] = Move(c[i - 1], i, i - 1)
<1> DEFINE Is(f, a) == f = [i \in pos - 1..a |-> IF i <= pos THEN h ELSE Move(f[i - 1], i, i - 1)]
           T == {k \in Nat : \E f : Is(f, pos + k)}
<1>1. 0 \in T
  <2>1. Is([i \in pos - 1..pos |-> h], pos)
    OBVIOUS
  <2>2. pos + 0 = pos
    OBVIOUS
  <2> HIDE DEF Is
  <2>3. QED
    BY <2>1, <2>2
<1>2. ASSUME NEW k \in Nat, k \in T PROVE k + 1 \in T
  <2> DEFINE a == pos + k
  <2>2. a \in Nat /\ a >= pos /\ pos + (k + 1) = a + 1
    OBVIOUS
  <2>3. PICK f : Is(f, a)
    BY <1>2
  <2> HIDE DEF a
  <2> DEFINE g == [i \in pos - 1..a + 1 |-> IF i = a + 1 THEN Move(f[a], a + 1, a) ELSE f[i]]
  <2>4. ASSUME NEW i \in pos - 1..a + 1
        PROVE  g[i] = IF i <= pos THEN h ELSE Move(g[i - 1], i, i - 1)
    <3>1. CASE i = a + 1
      <4>1. g[i] = Move(f[a], i, i - 1) /\ g[i - 1] = f[a] /\ ~(i <= pos)
        BY <2>2, <3>1
      <4>2. QED
        BY <4>1
    <3>2. CASE i # a + 1
      <4>1. /\ i \in pos - 1..a /\ g[i] = f[i]
            /\ ~(i <= pos) => i - 1 \in pos - 1..a /\ g[i - 1] = f[i - 1]
        BY <2>2, <3>2
      <4>2. QED
        BY <2>3, <4>1
    <3>3. QED
      BY <3>1, <3>2
  <2>5. Is(g, a + 1)
    BY <2>4
  <2> HIDE DEF g, Is
  <2>6. QED
    BY <2>2, <2>5
<1>3. \A k \in Nat : k \in T
  <2> HIDE DEF T
  <2>1. QED
    BY <1>1, <1>2, Induction
<1>4. \E f : Is(f, n - 1)
  <2>1. n - 1 - pos \in T /\ pos + (n - 1 - pos) = n - 1
    <3> HIDE DEF T
    <3>1. n - 1 - pos \in Nat /\ pos + (n - 1 - pos) = n - 1
      OBVIOUS
    <3>2. QED
      BY <1>3, <3>1
  <2> HIDE DEF Is
  <2>2. QED
    BY <2>1
<1> DEFINE c == CHOOSE f : Is(f, n - 1)
<1>5. Is(c, n - 1)
  <2> HIDE DEF Is
  <2>1. QED
    BY <1>4
<1>6. MoveDown(h, pos, n) = c[n - 1]
  BY DEF MoveDown
<1> HIDE DEF c
<1>7. c[pos] = h /\ \A i \in pos + 1..n - 1 : c[i] = Move(c[i - 1], i, i - 1)
  BY <1>5
<1>8. QED
  BY <1>6, <1>7

\* The items after pos have moved down, as far as the slot i.
Shifted(g, h, pos, i, n) ==
    /\ Elsewhere(g, h, pos..n - 1)
    /\ \A j \in pos..n - 1 : g.memory[j] = IF j < i THEN h.memory[j + 1]
                                           ELSE IF j = i THEN g.memory[i]
                                           ELSE h.memory[j]

\* The items after pos move down, the first of them to a place that is no reference.
LEMMA MoveDownSound ==
    ASSUME NEW n \in Nat, n <= MaxSize, NEW pos \in 0..n - 1,
           NEW h, NEW kept, Sound(h, Holding(n), kept), h.memory[pos] \notin Box,
           pos = n - 1 => h.memory[pos] = Null
    PROVE  /\ Sound(MoveDown(h, pos, n), Holding(n), kept)
           /\ MoveDown(h, pos, n).memory[n - 1] = Null
           /\ \A j \in pos..n - 2 : MoveDown(h, pos, n).memory[j] = h.memory[j + 1]
           /\ Elsewhere(MoveDown(h, pos, n), h, pos..n - 1)
<1> DEFINE S == Holding(n)
<1>1. ASSUME NEW i \in 0..n - 1
      PROVE  i \in Slot /\ i \in S /\ i \notin Box /\ i \in Location
  <2>1. i \in Nat /\ i < MaxSize /\ i < n
    BY ConstantsAssumption
  <2>2. i \in Slot
    BY <2>1, Slots
  <2>3. i \notin Box /\ i \in Location
    BY <2>2, Kinds
  <2>4. QED
    BY <2>1, <2>2, <2>3 DEF Holding
<1>2. S \in SUBSET Location /\ Box \subseteq S /\ Null \notin Box
  BY Kinds DEF Holding
<1> HIDE DEF S
<1>3. PICK c : /\ MoveDown(h, pos, n) = c[n - 1] /\ c[pos] = h
               /\ \A i \in pos + 1..n - 1 : c[i] = Move(c[i - 1], i, i - 1)
  BY MoveDownIs
<1> DEFINE Free(i) == /\ Sound(c[i], S, kept) /\ c[i].memory[i] = Null
                      /\ Shifted(c[i], h, pos, i, n)
           T == {k \in Nat : k # 0 /\ k <= n - 1 - pos => Free(pos + k)}
<1>4. 0 \in T
  OBVIOUS
<1>5. ASSUME NEW k \in Nat, k \in T PROVE k + 1 \in T
  <2>1. SUFFICES ASSUME k + 1 <= n - 1 - pos PROVE Free(pos + (k + 1))
    OBVIOUS
  <2> DEFINE i == pos + k
             g == c[i]
             d == Move(g, i + 1, i)
  <2>2. /\ i \in pos..n - 1 /\ i + 1 = pos + (k + 1) /\ i \in 0..n - 1 /\ i + 1 \in 0..n - 1
        /\ i + 1 \in pos + 1..n - 1 /\ i + 1 - 1 = i
    BY <2>1
  <2>3. Sound(g, S, kept) /\ g.memory[i] \notin Box /\ Shifted(g, h, pos, i, n)
    <3>1. CASE k = 0
      <4>1. i = pos
        BY <3>1
      <4>2. Shifted(h, h, pos, pos, n)
        BY DEF Elsewhere, Shifted
      <4>3. QED
        BY <1>3, <4>1, <4>2 DEF S
    <3>2. CASE k # 0
      <4>1. Free(i)
        BY <1>5, <2>1, <3>2
      <4>2. QED
        BY <1>2, <4>1
    <3>3. QED
      BY <3>1, <3>2
  <2> HIDE DEF i
  <2>4. c[i + 1] = d
    BY <1>3, <2>2
  <2>5. /\ i \in S /\ i + 1 \in S /\ i # i + 1 /\ i \notin Box /\ i + 1 \notin Box
        /\ i \in Location /\ i + 1 \in Location
    BY <1>1, <2>2
  <2> HIDE DEF g
  <2>6. Sound(d, S, kept) /\ Moved(d, g, i + 1, i)
    BY <1>2, <2>3, <2>5, MoveSound
  <2> HIDE DEF d
  <2>7. d.memory[i + 1] = Null
    BY <2>5, <2>6 DEF Moved
  <2>8. Elsewhere(d, h, pos..n - 1)
    <3>0. Elsewhere(g, h, pos..n - 1)
      BY <2>3 DEF Shifted
    <3>1. i \in pos..n - 1 /\ i + 1 \in pos..n - 1
      BY <2>2
    <3> DEFINE A == pos..n - 1
    <3> HIDE DEF A
    <3>2. i \in A /\ i + 1 \in A /\ Elsewhere(g, h, A)
      BY <3>0, <3>1 DEF A
    <3>3. Elsewhere(d, h, A)
      BY <2>6, <3>2 DEF Elsewhere, Moved
    <3>4. QED
      BY <3>3 DEF A
  <2>9. ASSUME NEW j \in pos..n - 1
        PROVE  d.memory[j] = IF j < i + 1 THEN h.memory[j + 1]
                             ELSE IF j = i + 1 THEN d.memory[i + 1]
                             ELSE h.memory[j]
    <3>1. \A x \in pos..n - 1 : g.memory[x] = IF x < i THEN h.memory[x + 1]
                                              ELSE IF x = i THEN g.memory[i]
                                              ELSE h.memory[x]
      BY <2>3 DEF Shifted
    <3>2. i \in Nat /\ j \in 0..n - 1 /\ i + 1 \in pos..n - 1
      BY <2>2
    <3>3. j \in Location
      BY <1>1, <3>2
    <3>4. CASE j = i
      <4>1. d.memory[j] = g.memory[i + 1]
        BY <2>5, <2>6, <3>4 DEF Moved
      <4>2. g.memory[i + 1] = h.memory[i + 1]
        BY <3>1, <3>2
      <4>3. QED
        BY <3>2, <3>4, <4>1, <4>2
    <3>5. CASE j # i /\ j # i + 1
      <4>1. d.memory[j] = g.memory[j]
        BY <2>6, <3>3, <3>5 DEF Moved
      <4>2. QED
        BY <3>1, <3>2, <3>5, <4>1
    <3>6. CASE j = i + 1
      BY <3>2, <3>6
    <3>7. QED
      BY <3>4, <3>5, <3>6
  <2>10. Shifted(d, h, pos, i + 1, n)
    BY <2>8, <2>9 DEF Shifted
  <2>11. Free(i + 1)
    BY <2>4, <2>6, <2>7, <2>10
  <2>12. QED
    BY <2>2, <2>11
<1>6. \A k \in Nat : k \in T
  <2> HIDE DEF T
  <2>1. QED
    BY <1>4, <1>5, Induction
<1>7. CASE pos = n - 1
  <2>1. Elsewhere(h, h, pos..n - 1)
    BY DEF Elsewhere
  <2>2. MoveDown(h, pos, n) = h /\ h.memory[n - 1] = Null
    BY <1>3, <1>7
  <2>3. \A j \in pos..n - 2 : FALSE
    BY <1>7
  <2>4. QED
    BY <2>1, <2>2, <2>3
<1>8. CASE pos # n - 1
  <2>1. Free(n - 1)
    <3> DEFINE k == n - 1 - pos
    <3>1. k \in Nat /\ k # 0 /\ k <= n - 1 - pos /\ pos + k = n - 1
      BY <1>8
    <3>2. k \in T
      <4> HIDE DEF T, k
      <4>1. QED
        BY <1>6, <3>1
    <3> HIDE DEF k, Free
    <3>3. QED
      BY <3>1, <3>2
  <2> DEFINE g == c[n - 1]
  <2> HIDE DEF g
  <2>2. Elsewhere(g, h, pos..n - 1) /\ \A j \in pos..n - 2 : g.memory[j] = h.memory[j + 1]
    BY <2>1 DEF Shifted, g
  <2>3. QED
    BY <1>3, <2>1, <2>2 DEF S, g
<1>9. QED
  BY <1>7, <1>8

------------------------------------------------------------------------------
(* The functions on lists. *)

LEMMA HoldingType ==
    ASSUME NEW n
    PROVE  /\ Holding(n) \in SUBSET Location /\ Box \subseteq Holding(n)
           /\ Ref \in Holding(n) /\ Var \in Holding(n)
BY Kinds DEF Holding

\* The slots of the items.
LEMMA ItemPlace ==
    ASSUME NEW n \in Nat, n <= MaxSize, NEW i \in 0..n - 1
    PROVE  /\ i \in Slot /\ i \in Holding(n) /\ i \notin Box /\ i \in Location
           /\ i # Ref /\ i # Var
<1>1. i \in Nat /\ i < MaxSize /\ i < n
  BY ConstantsAssumption
<1>2. i \in Slot
  BY <1>1, Slots
<1>3. QED
  BY <1>1, <1>2, Kinds DEF Holding

\* A last item that is zero may be given up, and a slot that is zero taken.
LEMMA LastSound ==
    ASSUME NEW n \in Nat, NEW h, NEW kept, h.memory[n] = Null
    PROVE  Sound(h, Holding(n + 1), kept) <=> Sound(h, Holding(n), kept)
<1>1. Null \notin Counted
  BY Kinds
<1>2. \A l \in Location : l \in Slot => l \in Nat
  BY Slots
<1>3. \A l \in Location : l # n => (l \in Holding(n + 1) <=> l \in Holding(n))
  BY <1>2 DEF Holding
<1>4. \A l \in Holding(n + 1) \cup Holding(n) : l \in Location
  BY DEF Holding
<1>5. ASSUME Sound(h, Holding(n + 1), kept) PROVE Sound(h, Holding(n), kept)
  <2>1. h \in AnyHeap
    BY <1>5 DEF Sound
  <2>2. QED
    BY <1>1, <1>3, <1>4, <1>5, <2>1, SameSound
<1>6. ASSUME Sound(h, Holding(n), kept) PROVE Sound(h, Holding(n + 1), kept)
  <2>1. h \in AnyHeap
    BY <1>6 DEF Sound
  <2>2. QED
    BY <1>1, <1>3, <1>4, <1>6, <2>1, SameSound
<1>7. QED
  BY <1>5, <1>6

\* The items behind pos move down and the last slot is given up.
LEMMA RemoveSound ==
    ASSUME NEW n \in Nat, n <= MaxSize, NEW pos \in 0..n - 1,
           NEW h, NEW kept, Sound(h, Holding(n), kept), h.memory[pos] \notin Box,
           pos = n - 1 => h.memory[pos] = Null, Spare(h, n)
    PROVE  /\ Sound(RemoveSlot(h, pos, n), Holding(n - 1), kept)
           /\ Spare(RemoveSlot(h, pos, n), n - 1)
           /\ \A j \in pos..n - 2 : RemoveSlot(h, pos, n).memory[j] = h.memory[j + 1]
           /\ Elsewhere(RemoveSlot(h, pos, n), h, pos..n - 1)
<1> DEFINE g == RemoveSlot(h, pos, n)
<1>1. g = MoveDown(h, pos, n)
  BY DEF RemoveSlot
<1>2. /\ Sound(g, Holding(n), kept) /\ g.memory[n - 1] = Null /\ Elsewhere(g, h, pos..n - 1)
      /\ \A j \in pos..n - 2 : g.memory[j] = h.memory[j + 1]
  <2>1. /\ Sound(MoveDown(h, pos, n), Holding(n), kept)
        /\ MoveDown(h, pos, n).memory[n - 1] = Null
        /\ \A j \in pos..n - 2 : MoveDown(h, pos, n).memory[j] = h.memory[j + 1]
        /\ Elsewhere(MoveDown(h, pos, n), h, pos..n - 1)
    BY MoveDownSound, Zenon
  <2>2. QED
    BY <1>1, <2>1, Zenon
<1> HIDE DEF g
<1>3. n - 1 \in Nat /\ n - 1 + 1 = n
  OBVIOUS
<1>4. Sound(g, Holding(n - 1), kept)
  BY <1>2, <1>3, LastSound
<1>5. Spare(g, n - 1)
  <2>1. ASSUME NEW i \in Slot, i >= n - 1, i \notin g.stale, i # n - 1
        PROVE  g.memory[i] = Null
    <3>1. i \in Nat /\ i >= n /\ i \in Location /\ i \notin Box /\ i \notin pos..n - 1
      BY <1>3, <2>1, Slots, Kinds
    <3>2. g.memory[i] = h.memory[i] /\ (i \in g.stale <=> i \in h.stale)
      BY <1>2, <3>1 DEF Elsewhere
    <3>3. QED
      BY <2>1, <3>1, <3>2 DEF Spare
  <2>2. QED
    BY <1>2, <2>1 DEF Spare
<1>6. QED
  BY <1>2, <1>4, <1>5 DEF g

LEMMA NothingType ==
    /\ Nothing \in [Counted -> Nat]
    /\ Plus(Nothing, Null) = Nothing
    /\ \A v : Plus(Nothing, v) \in [Counted -> Nat]
<1>1. Nothing \in [Counted -> Nat]
  BY DEF Nothing
<1>2. QED
  BY <1>1, PlusType, Kinds

\* What the invariant says of the heap is said of what the heap becomes.
LEMMA Becomes ==
    ASSUME NEW h, HeapBecomes(h), Sound(h, Holding(size'), Nothing), Spare(h, size'),
           size' \in 0..MaxSize, capacity' \in Nat, size' <= capacity'
    PROVE  IInv'
<1>1. h \in AnyHeap
  BY DEF Sound
<1>2. Heap' = h
  BY <1>1, HeapType DEF Heap, HeapBecomes
<1>3. QED
  BY <1>2 DEF IInv

LEMMA CapacityType ==
    ASSUME IInv
    PROVE  Capacity(size + 1) \in Nat /\ size + 1 <= Capacity(size + 1)
<1>1. size \in Nat /\ capacity \in Nat /\ size + 1 \in Nat
  BY ConstantsAssumption DEF IInv
<1>2. (IF capacity > MinCapacity THEN capacity ELSE MinCapacity) \in Nat \ {0}
  BY <1>1, ConstantsAssumption
<1>3. QED
  BY <1>1, <1>2, Capacities DEF Capacity

\* New memory keeps the items and is zero behind them.
LEMMA ExpandSound ==
    ASSUME IInv, NEW requested
    PROVE  /\ Sound(expand(Heap, requested), Holding(size), Nothing)
           /\ Spare(expand(Heap, requested), size)
           /\ \A l \in Holding(size) : expand(Heap, requested).memory[l] = memory[l]
<1> DEFINE h == expand(Heap, requested)
           m == [l \in Location |-> IF l \in Slot /\ l >= size THEN Null ELSE Heap.memory[l]]
<1>1. Heap \in AnyHeap /\ Sound(Heap, Holding(size), Nothing) /\ Spare(Heap, size)
  BY DEF IInv, Sound
<1>2. CASE requested <= capacity
  <2>1. h = Heap
    BY <1>2 DEF expand
  <2>2. Heap.memory = memory
    BY DEF Heap
  <2> HIDE DEF h
  <2>3. QED
    BY <1>1, <2>1, <2>2 DEF h
<1>3. CASE ~(requested <= capacity)
  <2>1. h = [Heap EXCEPT !.memory = m, !.stale = {}]
    BY <1>3 DEF expand
  <2>2. m \in [Location -> Variant]
    BY <1>1, HeapType, Kinds
  <2>3. \A l \in Location : m[l] = IF l \in Slot /\ l >= size THEN Null ELSE Heap.memory[l]
    OBVIOUS
  <2> HIDE DEF m
  <2>4. h \in AnyHeap /\ h.count = Heap.count /\ h.memory = m /\ h.stale = {}
    BY <1>1, <2>1, <2>2 DEF AnyHeap
  <2> HIDE DEF h
  <2>5. Sound(h, Holding(size), Nothing) /\ \A l \in Holding(size) : h.memory[l] = memory[l]
    <3>1. \A l \in Holding(size) : l \in Location /\ (l \in Slot => ~(l >= size))
      <4>1. size \in Nat /\ \A l \in Slot : l \in Nat
        BY Slots, ConstantsAssumption DEF IInv
      <4>2. QED
        BY <4>1 DEF Holding
    <3>2. \A l \in Holding(size) : h.memory[l] = Heap.memory[l]
      BY <2>3, <2>4, <3>1
    <3>3. \A b \in Box : b \in Holding(size)
      BY HoldingType
    <3>4. Heap.memory = memory
      BY DEF Heap
    <3>5. QED
      BY <1>1, <2>4, <3>2, <3>3, <3>4, SameSound
  <2>6. Spare(h, size)
    BY <2>3, <2>4, Kinds DEF Spare
  <2>7. QED
    BY <2>5, <2>6 DEF h
<1>4. QED
  BY <1>2, <1>3

\* The memory m of the list with a new item.
Inserted(m, slot, v) ==
    /\ \A k \in 0..size : m[k] = IF k < slot THEN memory[k]
                                 ELSE IF k = slot THEN v ELSE memory[k - 1]
    /\ \A l \in Location \ Slot : m[l] = memory[l]

LEMMA InsertStep ==
    ASSUME "stale" \in Precaution, IInv, size < MaxSize,
           NEW slot \in 0..size, NEW v \in Value, InsertAtSlot(slot, v)
    PROVE  IInv' /\ size' = size + 1 /\ Inserted(memory', slot, v)
<1> DEFINE h == expand(Heap, size + 1)
           h1 == retain(h, v)
           h2 == MoveUp(h1, slot)
           g == Construct(h2, slot, v)
<1>1. size \in Nat /\ MaxSize \in Nat /\ v \in Variant /\ v \notin Box
  BY ConstantsAssumption, Kinds DEF IInv
<1>2. /\ slot < size => size \notin h.stale
      /\ HeapBecomes(g) /\ size' = size + 1 /\ capacity' = Capacity(size + 1)
  BY DEF InsertAtSlot, Careful
<1>3. size' \in 0..MaxSize /\ capacity' \in Nat /\ size' <= capacity'
  BY <1>1, <1>2, CapacityType
<1>4. /\ Sound(h, Holding(size), Nothing) /\ Spare(h, size)
      /\ \A l \in Holding(size) : h.memory[l] = memory[l]
  BY ExpandSound
<1> HIDE DEF h
<1>5. /\ Sound(h1, Holding(size), Plus(Nothing, v))
      /\ h1.memory = h.memory /\ h1.stale = h.stale
  BY <1>1, <1>4, RetainSound
<1> HIDE DEF h1
<1>6. \A i \in 0..size : i \in Slot /\ i \in Location /\ i \notin Box /\ i \in Holding(size + 1)
  <2> DEFINE n == size + 1
  <2>1. n \in Nat /\ n <= MaxSize /\ 0..size = 0..n - 1
    BY <1>1
  <2> HIDE DEF n
  <2>2. \A i \in 0..n - 1 : i \in Slot /\ i \in Location /\ i \notin Box /\ i \in Holding(n)
    BY <2>1, ItemPlace
  <2>3. QED
    BY <2>1, <2>2 DEF n
<1>7. /\ h1 \in AnyHeap
      /\ \A l \in Location \ Slot : l \in Location /\ l \notin 0..size /\ h1.memory[l] = memory[l]
      /\ \A k \in 0..size - 1 : k \in 0..size /\ h1.memory[k] = memory[k]
  <2>1. h1 \in AnyHeap
    BY <1>5 DEF Sound
  <2>2. \A l \in Location \ Slot : l \in Holding(size) /\ l \notin 0..size
    BY <1>6 DEF Holding
  <2>3. \A k \in 0..size - 1 : k \in 0..size /\ k < size
    BY <1>1
  <2>4. \A k \in 0..size - 1 : k \in Holding(size)
    BY <1>6, <2>3 DEF Holding
  <2>5. QED
    BY <1>4, <1>5, <2>1, <2>2, <2>3, <2>4
<1>8. CASE slot = size
  <2>1. h2 = h1
    BY <1>1, <1>8, MoveUpIs
  <2>2. slot \in Slot /\ slot \in Location /\ slot \notin Box
    BY <1>6
  <2>3. /\ g \in AnyHeap /\ g.count = h1.count /\ g.stale = h1.stale \ {slot}
        /\ g.memory = [h1.memory EXCEPT ![slot] = v]
    BY <1>1, <1>7, <2>1, <2>2 DEF Construct, AnyHeap
  <2> HIDE DEF g
  <2>4. slot \notin Holding(size)
    BY <1>1, <1>8, <2>2 DEF Holding
  <2>5. Sound(g, Holding(size) \cup {slot}, Nothing)
    BY <1>1, <1>5, <2>2, <2>3, <2>4, PlaceSound, HoldingType, NothingType
  <2>6. Holding(size + 1) = Holding(size) \cup {slot}
    <3>1. \A l \in Slot : l \in Nat
      BY Slots
    <3>2. \A l \in Slot : l < size + 1 <=> l < size \/ l = slot
      BY <1>1, <1>8, <3>1
    <3>3. QED
      BY <2>2, <3>2 DEF Holding
  <2>7. Spare(g, size + 1)
    <3>1. ASSUME NEW i \in Slot, i >= size + 1, i \notin g.stale PROVE g.memory[i] = Null
      <4>1. i # slot /\ i >= size /\ i \in Location
        BY <1>1, <1>8, <3>1, Slots, Kinds
      <4>2. i \notin h.stale
        BY <1>5, <2>3, <3>1, <4>1
      <4>3. h.memory[i] = Null
        BY <1>4, <4>1, <4>2 DEF Spare
      <4>4. QED
        BY <1>5, <1>7, <2>3, <4>1, <4>3, HeapType
    <3>2. QED
      BY <3>1 DEF Spare
  <2>8. Inserted(g.memory, slot, v)
    <3>1. \A l \in Location : g.memory[l] = IF l = slot THEN v ELSE h1.memory[l]
      BY <1>7, <2>3, HeapType
    <3>2. ASSUME NEW k \in 0..size
          PROVE  g.memory[k] = IF k < slot THEN memory[k] ELSE IF k = slot THEN v ELSE memory[k - 1]
      <4>1. k \in Location /\ (k # slot => k \in 0..size - 1) /\ (k < slot <=> k # slot)
        BY <1>1, <1>6, <1>8
      <4>2. QED
        BY <1>7, <3>1, <4>1
    <3>3. \A l \in Location \ Slot : g.memory[l] = memory[l]
      BY <1>7, <2>2, <3>1
    <3>4. QED
      BY <3>2, <3>3 DEF Inserted
  <2>9. QED
    BY <1>2, <1>3, <2>5, <2>6, <2>7, <2>8, Becomes DEF HeapBecomes
<1>9. CASE slot # size
  <2>1. slot \in Slot /\ slot \in Location /\ slot \notin Box /\ slot \in Holding(size + 1)
    BY <1>6
  <2>2. h1.memory[size] = Null
    <3>1. slot < size
      BY <1>1, <1>9
    <3>2. size \in Slot /\ size \notin h.stale /\ size >= size
      BY <1>1, <1>2, <1>6, <3>1
    <3>3. QED
      BY <1>4, <1>5, <3>2 DEF Spare
  <2>3. Sound(h1, Holding(size + 1), Plus(Nothing, v))
    BY <1>1, <1>5, <2>2, LastSound
  <2>4. /\ Sound(h2, Holding(size + 1), Plus(Nothing, v))
        /\ h2.memory[slot] = Null /\ Elsewhere(h2, h1, slot..size)
        /\ \A j \in slot..size - 1 : h2.memory[j + 1] = h1.memory[j]
    <3> DEFINE k == Plus(Nothing, v)
    <3>1. Sound(h1, Holding(size + 1), k)
      BY <2>3
    <3> HIDE DEF k, g
    <3>2. /\ Sound(MoveUp(h1, slot), Holding(size + 1), k)
          /\ MoveUp(h1, slot).memory[slot] = Null
          /\ \A j \in slot..size - 1 : MoveUp(h1, slot).memory[j + 1] = h1.memory[j]
          /\ Elsewhere(MoveUp(h1, slot), h1, slot..size)
      BY <1>1, <2>2, <3>1, MoveUpSound
    <3>3. QED
      BY <3>2 DEF k
  <2> HIDE DEF h2
  <2>5. h2 \in AnyHeap
    BY <2>4 DEF Sound
  <2>6. /\ g \in AnyHeap /\ g.count = h2.count /\ g.stale = h2.stale \ {slot}
        /\ g.memory = [h2.memory EXCEPT ![slot] = v]
    BY <1>1, <2>1, <2>5 DEF Construct, AnyHeap
  <2> HIDE DEF g
  <2>7. Sound(g, Holding(size + 1), Nothing)
    <3>1. Sound(g, Holding(size + 1), Plus(Nothing, h2.memory[slot]))
      BY <1>1, <2>1, <2>4, <2>6, WriteSound, HoldingType, NothingType
    <3>2. QED
      BY <2>4, <3>1, NothingType
  <2>8. Spare(g, size + 1)
    <3>1. ASSUME NEW i \in Slot, i >= size + 1, i \notin g.stale PROVE g.memory[i] = Null
      <4>1. i # slot /\ i >= size /\ i \in Location /\ i \notin Box /\ i \notin slot..size
        BY <1>1, <3>1, Slots, Kinds
      <4>2. i \notin h2.stale
        BY <2>6, <3>1, <4>1
      <4>3. h2.memory[i] = h1.memory[i] /\ i \notin h1.stale
        BY <2>4, <4>1, <4>2 DEF Elsewhere
      <4>4. h1.memory[i] = Null
        BY <1>4, <1>5, <4>1, <4>3 DEF Spare
      <4>5. QED
        BY <2>5, <2>6, <4>1, <4>3, <4>4, HeapType
    <3>2. QED
      BY <3>1 DEF Spare
  <2>9. Inserted(g.memory, slot, v)
    <3>1. \A l \in Location : g.memory[l] = IF l = slot THEN v ELSE h2.memory[l]
      BY <2>5, <2>6, HeapType
    <3>2. ASSUME NEW k \in 0..size
          PROVE  g.memory[k] = IF k < slot THEN memory[k] ELSE IF k = slot THEN v ELSE memory[k - 1]
      <4>1. k \in Location
        BY <1>6
      <4>2. CASE k < slot
        <5>1. k \in 0..size - 1 /\ k \notin slot..size /\ k # slot
          BY <1>1, <4>2
        <5>2. h2.memory[k] = h1.memory[k]
          BY <2>4, <4>1, <5>1 DEF Elsewhere
        <5>3. QED
          BY <1>7, <3>1, <4>1, <4>2, <5>1, <5>2
      <4>3. CASE k = slot
        BY <1>1, <3>1, <4>1, <4>3
      <4>4. CASE k > slot
        <5>1. k - 1 \in slot..size - 1 /\ k - 1 \in 0..size - 1 /\ k - 1 + 1 = k /\ k # slot /\ ~(k < slot)
          BY <1>1, <4>4
        <5>2. h2.memory[k - 1 + 1] = h1.memory[k - 1]
          BY <2>4, <5>1
        <5>3. QED
          BY <1>7, <3>1, <4>1, <5>1, <5>2
      <4>5. QED
        BY <1>1, <4>2, <4>3, <4>4
    <3>3. ASSUME NEW l \in Location \ Slot PROVE g.memory[l] = memory[l]
      <4>1. l \in Location /\ l \notin slot..size /\ l # slot
        BY <1>1, <1>7, <2>1
      <4>2. h2.memory[l] = h1.memory[l]
        BY <2>4, <4>1 DEF Elsewhere
      <4>3. QED
        BY <1>7, <3>1, <4>1, <4>2
    <3>4. QED
      BY <3>2, <3>3 DEF Inserted
  <2>10. QED
    BY <1>2, <1>3, <2>7, <2>8, <2>9, Becomes DEF HeapBecomes
<1>10. QED
  BY <1>8, <1>9

LEMMA HeapSound ==
    ASSUME IInv
    PROVE  /\ Sound(Heap, Holding(size), Nothing) /\ Spare(Heap, size)
           /\ Heap \in AnyHeap /\ memory \in [Location -> Variant] /\ count \in [Counted -> Nat]
           /\ Heap.memory = memory /\ Heap.count = count /\ Heap.stale = stale
           /\ size \in Nat /\ size <= MaxSize /\ capacity \in Nat /\ size <= capacity
<1>1. Sound(Heap, Holding(size), Nothing) /\ Spare(Heap, size) /\ Heap \in AnyHeap
      /\ size \in Nat /\ size <= MaxSize /\ capacity \in Nat /\ size <= capacity
  BY ConstantsAssumption DEF IInv, Sound
<1>2. Heap.memory = memory /\ Heap.count = count /\ Heap.stale = stale
  BY DEF Heap
<1>3. memory \in [Location -> Variant] /\ count \in [Counted -> Int]
  BY <1>1, <1>2, HeapType
<1>4. \A c \in Counted : count[c] \in Nat
  BY <1>1, <1>2, SoundCount
<1>5. count \in [Counted -> Nat]
  BY <1>3, <1>4
<1>6. QED
  BY <1>1, <1>2, <1>3, <1>5

LEMMA BaseType ==
    ASSUME IInv, NEW i \in Int, InRange(i)
    PROVE  to_base0(i) \in 0..size - 1
BY HeapSound DEF InRange, to_base0

LEMMA ReleaseSpare ==
    ASSUME NEW h, NEW S \in SUBSET Location, Box \subseteq S, NEW n,
           NEW kept \in [Counted -> Nat], NEW v \in Variant, Sound(h, S, Plus(kept, v)),
           Spare(h, n)
    PROVE  Spare(release(h, v), n)
<1>1. /\ release(h, v).stale = h.stale
      /\ \A l \in Location : l \notin Box => release(h, v).memory[l] = h.memory[l]
  BY ReleaseSound
<1>2. \A i \in Slot : i \in Location /\ i \notin Box
  BY Kinds
<1>3. QED
  BY <1>1, <1>2 DEF Spare

\* In a step, boxes that are still counted stay as they are.
BoxesSame == \A b \in Box : count'[b] # 0 => memory'[b] = memory[b]

LEMMA BoxesSpared ==
    ASSUME IInv, NEW g, HeapBecomes(g), Spared(g, Heap)
    PROVE  BoxesSame
BY HeapSound DEF BoxesSame, Spared, HeapBecomes

LEMMA SparedTwice ==
    ASSUME NEW g, NEW f, NEW h, Spared(g, f), Spared(f, h)
    PROVE  Spared(g, h)
BY DEF Spared

\* A step that takes an item off the list.
Removed(slot) ==
    /\ size' = size - 1
    /\ \A k \in 0..size - 2 : memory'[k] = IF k < slot THEN memory[k] ELSE memory[k + 1]
    /\ memory'[Ref] = memory[Ref]
    /\ BoxesSame

\* The items behind the slot pos have moved.
MovedDown(g, h, pos, n) ==
    /\ Elsewhere(g, h, pos..n - 1)
    /\ \A j \in pos..n - 2 : g.memory[j] = h.memory[j + 1]

\* The memory after this.
Shorter(g, h, pos, n) ==
    /\ \A k \in 0..n - 2 : g.memory[k] = IF k < pos THEN h.memory[k] ELSE h.memory[k + 1]
    /\ \A l \in Location \ Slot : g.memory[l] = h.memory[l]

LEMMA RemovedMemory ==
    ASSUME NEW n \in Nat, n <= MaxSize, NEW pos \in 0..n - 1, NEW h, NEW g,
           MovedDown(g, h, pos, n)
    PROVE  Shorter(g, h, pos, n)
<1>1. \A k \in 0..n - 1 : k \in Location /\ k \in Slot
  BY ItemPlace
<1>2. ASSUME NEW k \in 0..pos - 1 PROVE g.memory[k] = h.memory[k]
  <2>1. k \in 0..n - 1 /\ k \notin pos..n - 1
    OBVIOUS
  <2>2. QED
    BY <1>1, <2>1 DEF MovedDown, Elsewhere
<1>3. ASSUME NEW k \in 0..n - 2
      PROVE  g.memory[k] = IF k < pos THEN h.memory[k] ELSE h.memory[k + 1]
  <2>1. k < pos => k \in 0..pos - 1
    OBVIOUS
  <2>2. ~(k < pos) => k \in pos..n - 2
    OBVIOUS
  <2>3. QED
    BY <1>2, <2>1, <2>2 DEF MovedDown
<1>4. ASSUME NEW l \in Location \ Slot PROVE g.memory[l] = h.memory[l]
  <2>1. l \notin pos..n - 1
    <3>1. pos..n - 1 \subseteq 0..n - 1
      OBVIOUS
    <3>2. QED
      BY <1>1, <3>1
  <2>2. QED
    BY <2>1 DEF MovedDown, Elsewhere
<1>5. QED
  BY <1>3, <1>4 DEF Shorter

LEMMA RemoveAtStep ==
    ASSUME {"last", "alias"} \subseteq Precaution, IInv, NEW i \in 0..size - 1,
           RemoveCarefully({i}), HeapBecomes(RemoveSlot(Heap, i, size)),
           size' = size - 1, capacity' = capacity
    PROVE  IInv' /\ Removed(i)
<1>1. i # size - 1 /\ i < size - 1 /\ memory[i] \notin Box
  BY HeapSound DEF RemoveCarefully, Careful
<1> DEFINE g == RemoveSlot(Heap, i, size)
<1>2. /\ Sound(g, Holding(size - 1), Nothing) /\ Spare(g, size - 1)
      /\ Elsewhere(g, Heap, i..size - 1)
      /\ \A j \in i..size - 2 : g.memory[j] = Heap.memory[j + 1]
  BY <1>1, HeapSound, RemoveSound
<1>3. size' \in 0..MaxSize /\ capacity' \in Nat /\ size' <= capacity'
  BY <1>1, HeapSound, ConstantsAssumption
<1>4. HeapBecomes(g)
  OBVIOUS
<1> HIDE DEF g
<1>5. IInv'
  BY <1>2, <1>3, <1>4, Becomes
<1>6. /\ \A k \in 0..size - 2 : g.memory[k] = IF k < i THEN memory[k] ELSE memory[k + 1]
      /\ \A l \in Location \ Slot : g.memory[l] = memory[l]
  <2>1. size \in Nat /\ size <= MaxSize /\ MovedDown(g, Heap, i, size)
    BY <1>2, HeapSound DEF MovedDown
  <2>2. Shorter(g, Heap, i, size)
    BY <2>1, RemovedMemory
  <2>3. Heap.memory = memory
    BY DEF Heap
  <2>4. QED
    BY <2>2, <2>3 DEF Shorter
<1>7. g.memory = memory' /\ \A b \in Box : b \in Location \ Slot
  BY <1>4, Kinds DEF HeapBecomes
<1>8. Ref \in Location \ Slot
  BY Kinds
<1>9. QED
  BY <1>5, <1>6, <1>7, <1>8 DEF Removed, BoxesSame

\* The variant in a place is written over by null.
LEMMA Emptied ==
    ASSUME IInv, NEW l \in Holding(size), l \notin Box
    PROVE  LET h == [Heap EXCEPT !.memory[l] = Null]
           IN  /\ Sound(h, Holding(size), Plus(Nothing, memory[l]))
               /\ h.memory = [memory EXCEPT ![l] = Null] /\ h.memory[l] = Null
               /\ l \notin Slot \/ l < size => Spare(h, size)
<1> DEFINE h == [Heap EXCEPT !.memory[l] = Null]
<1>1. l \in Location /\ Null \in Variant /\ Null \notin Counted
  BY Kinds, HoldingType
<1>2. /\ h \in AnyHeap /\ h.memory = [Heap.memory EXCEPT ![l] = Null]
      /\ h.count = Heap.count /\ h.stale = Heap.stale
  BY <1>1, HeapSound DEF AnyHeap
<1> HIDE DEF h
<1>3. Sound(Heap, Holding(size), Plus(Nothing, Null))
  BY HeapSound, NothingType
<1>4. Sound(h, Holding(size), Plus(Nothing, Heap.memory[l]))
  BY <1>1, <1>2, <1>3, WriteSound, HoldingType, NothingType
<1>5. h.memory = [memory EXCEPT ![l] = Null] /\ Heap.memory[l] = memory[l]
  BY <1>2, HeapSound
<1>6. \A i \in Location : h.memory[i] = IF i = l THEN Null ELSE memory[i]
  BY <1>5, HeapSound
<1>7. Spare(h, size)
  BY <1>2, <1>6, HeapSound, Kinds DEF Spare
<1>8. QED
  BY <1>1, <1>4, <1>5, <1>6, <1>7 DEF h

LEMMA DropStep ==
    ASSUME IInv, NEW l \in Holding(size), l \notin Box,
           HeapBecomes(release([Heap EXCEPT !.memory[l] = Null], memory[l])),
           size' = size, capacity' = capacity, l \notin Slot \/ l < size
    PROVE  /\ IInv' /\ BoxesSame
           /\ \A x \in Location \ Box : memory'[x] = IF x = l THEN Null ELSE memory[x]
<1> DEFINE h == [Heap EXCEPT !.memory[l] = Null]
           g == release(h, memory[l])
<1>1. /\ Sound(h, Holding(size), Plus(Nothing, memory[l])) /\ Spare(h, size)
      /\ h.memory = [memory EXCEPT ![l] = Null] /\ h.count = count
  <2>1. h.count = count
    BY HeapSound DEF Heap
  <2>2. QED
    BY <2>1, Emptied
<1>2. memory[l] \in Variant
  BY HeapSound, HoldingType
<1> HIDE DEF h
<1>3. /\ Sound(g, Holding(size), Nothing) /\ Spared(g, h)
      /\ \A x \in Location : x \notin Box => g.memory[x] = h.memory[x]
  <2> DEFINE v == memory[l]
             S == Holding(size)
  <2>1. /\ Sound(h, S, Plus(Nothing, v)) /\ v \in Variant /\ S \in SUBSET Location
        /\ Box \subseteq S /\ Nothing \in [Counted -> Nat]
    BY <1>1, <1>2, HoldingType, NothingType
  <2> HIDE DEF v, S
  <2>2. /\ Sound(release(h, v), S, Nothing) /\ Spared(release(h, v), h)
        /\ \A x \in Location : x \notin Box => release(h, v).memory[x] = h.memory[x]
    BY <2>1, ReleaseSound
  <2>3. QED
    BY <2>2 DEF v, S
<1>4. Spare(g, size)
  BY <1>1, <1>2, ReleaseSpare, HoldingType, NothingType
<1>5. size' \in 0..MaxSize /\ capacity' \in Nat /\ size' <= capacity'
  BY HeapSound, ConstantsAssumption
<1>6. HeapBecomes(g)
  BY DEF h
<1> HIDE DEF g
<1>7. IInv'
  BY <1>3, <1>4, <1>5, <1>6, Becomes
<1>8. \A x \in Location : h.memory[x] = IF x = l THEN Null ELSE memory[x]
  BY <1>1, HeapSound
<1>9. Spared(g, Heap)
  BY <1>1, <1>3, <1>8, HeapSound, Kinds DEF Spared
<1>10. BoxesSame
  BY <1>6, <1>9, BoxesSpared
<1>11. QED
  BY <1>3, <1>6, <1>7, <1>8, <1>10 DEF HeapBecomes

LEMMA TakeStep ==
    ASSUME "empty" \in Precaution, IInv, NEW name, NEW slot \in {0, size - 1},
           TakeSlot(name, slot)
    PROVE  IInv' /\ Removed(slot) /\ size > 0
<1> DEFINE v == memory[slot]
           h == [Heap EXCEPT !.memory[slot] = Null]
           f == RemoveSlot(h, slot, size)
           g == release(f, v)
<1>1. size > 0
  BY DEF TakeSlot, Careful
<1>2. HeapBecomes(g) /\ size' = size - 1 /\ capacity' = capacity
  BY <1>1, HeapSound DEF TakeSlot
<1>3. /\ slot \in 0..size - 1 /\ slot \in Holding(size) /\ slot \in Location
      /\ slot \notin Box /\ slot < size
  <2>1. slot \in 0..size - 1 /\ slot < size
    BY <1>1, HeapSound
  <2>2. QED
    BY <2>1, HeapSound, ItemPlace
<1>4. /\ Sound(h, Holding(size), Plus(Nothing, v)) /\ h.memory[slot] = Null /\ Spare(h, size)
      /\ h.memory = [memory EXCEPT ![slot] = Null] /\ h.count = count
  <2>1. h.count = count
    BY HeapSound DEF Heap
  <2>2. QED
    BY <1>3, <2>1, Emptied
<1>5. v \in Variant
  BY <1>3, HeapSound
<1>6. Plus(Nothing, v) \in [Counted -> Nat] /\ Null \notin Box
  BY NothingType, Kinds
<1> HIDE DEF h, v
<1>7. /\ Sound(f, Holding(size - 1), Plus(Nothing, v)) /\ Spare(f, size - 1)
      /\ Elsewhere(f, h, slot..size - 1)
      /\ \A j \in slot..size - 2 : f.memory[j] = h.memory[j + 1]
  <2> DEFINE k == Plus(Nothing, v)
  <2>1. /\ size \in Nat /\ size <= MaxSize /\ Sound(h, Holding(size), k) /\ Spare(h, size)
        /\ h.memory[slot] = Null /\ h.memory[slot] \notin Box
    BY <1>4, <1>6, HeapSound
  <2> HIDE DEF k
  <2>2. /\ Sound(f, Holding(size - 1), k) /\ Spare(f, size - 1)
        /\ Elsewhere(f, h, slot..size - 1)
        /\ \A j \in slot..size - 2 : f.memory[j] = h.memory[j + 1]
    BY <1>3, <2>1, RemoveSound
  <2>3. QED
    BY <2>2 DEF k
<1>7a. /\ \A k \in 0..size - 2 : f.memory[k] = IF k < slot THEN h.memory[k] ELSE h.memory[k + 1]
       /\ \A l \in Location \ Slot : f.memory[l] = h.memory[l]
  <2> HIDE DEF f, g
  <2>1. /\ size \in Nat /\ size <= MaxSize /\ slot \in 0..size - 1
        /\ MovedDown(f, h, slot, size)
    BY <1>3, <1>7, HeapSound DEF MovedDown
  <2>2. Shorter(f, h, slot, size)
    BY <2>1, RemovedMemory
  <2>3. QED
    BY <2>2 DEF Shorter
<1> HIDE DEF f
<1>8. /\ Sound(g, Holding(size - 1), Nothing) /\ Spared(g, f)
      /\ \A x \in Location : x \notin Box => g.memory[x] = f.memory[x]
  <2> DEFINE S == Holding(size - 1)
  <2>1. /\ Sound(f, S, Plus(Nothing, v)) /\ S \in SUBSET Location
        /\ Box \subseteq S /\ Nothing \in [Counted -> Nat]
    BY <1>7, HoldingType, NothingType
  <2> HIDE DEF S
  <2>2. /\ Sound(release(f, v), S, Nothing) /\ Spared(release(f, v), f)
        /\ \A x \in Location : x \notin Box => release(f, v).memory[x] = f.memory[x]
    BY <1>5, <2>1, ReleaseSound
  <2>3. QED
    BY <2>2 DEF S
<1>9. Spare(g, size - 1)
  BY <1>5, <1>7, ReleaseSpare, HoldingType, NothingType
<1>10. size' \in 0..MaxSize /\ capacity' \in Nat /\ size' <= capacity'
  BY <1>1, <1>2, HeapSound, ConstantsAssumption
<1> HIDE DEF g
<1>11. IInv'
  BY <1>2, <1>8, <1>9, <1>10, Becomes
<1>12. \A x \in Location : x # slot => h.memory[x] = memory[x]
  BY <1>4, HeapSound
<1>13. ASSUME NEW k \in 0..size - 2
       PROVE  g.memory[k] = IF k < slot THEN memory[k] ELSE memory[k + 1]
  <2>1. k \in 0..size - 1 /\ k + 1 \in 0..size - 1 /\ (k < slot => k # slot)
        /\ (~(k < slot) => k + 1 # slot)
    BY <1>3, HeapSound
  <2>2. k \in Location /\ k \notin Box /\ k + 1 \in Location
    BY <2>1, HeapSound, ItemPlace
  <2>3. QED
    BY <1>7a, <1>8, <1>12, <2>1, <2>2
<1>14. \A l \in Location \ Slot : l # slot /\ f.memory[l] = memory[l]
  <2>1. slot \in Slot
    BY <1>3, HeapSound, ItemPlace
  <2>2. QED
    BY <1>7a, <1>12, <2>1
<1>15. BoxesSame
  <2>1. \A b \in Box : b \in Location \ Slot
    BY Kinds
  <2>2. QED
    BY <1>2, <1>8, <1>14, <2>1 DEF HeapBecomes, BoxesSame, Spared
<1>16. g.memory[Ref] = memory[Ref]
  BY <1>8, <1>14, Kinds
<1>17. g.memory = memory'
  BY <1>2 DEF HeapBecomes
<1>18. QED
  BY <1>1, <1>2, <1>11, <1>13, <1>15, <1>16, <1>17 DEF Removed

LEMMA AssignStep ==
    ASSUME IInv, NEW l \in Holding(size), l \notin Box, l \in Slot => l < size,
           NEW v \in Value, HeapBecomes(assign(retain(Heap, v), l, v)),
           size' = size, capacity' = capacity
    PROVE  IInv' /\ \A x \in Location : memory'[x] = IF x = Target(Heap, l) THEN v ELSE memory[x]
<1> DEFINE h == retain(Heap, v)
           g == assign(h, l, v)
<1>1. v \in Variant /\ v \notin Box
  BY Kinds
<1>2. Sound(h, Holding(size), Plus(Nothing, v)) /\ h.memory = memory /\ h.stale = stale
  BY <1>1, HeapSound, RetainSound
<1>3. HeapBecomes(g)
  OBVIOUS
<1> HIDE DEF h
<1>4. Sound(g, Holding(size), Nothing) /\ Written(g, h, Target(h, l), v)
  BY <1>1, <1>2, AssignSound, HoldingType, NothingType
<1> HIDE DEF g
<1>5. Spare(g, size)
  <2>1. ASSUME NEW i \in Slot, i >= size, i \notin g.stale PROVE g.memory[i] = Null
    <3>1. i # Target(h, l) /\ i \in Location \ Box
      BY <2>1, Slots, Kinds, HeapSound DEF Target
    <3>2. i \notin h.stale /\ g.memory[i] = h.memory[i]
      BY <1>4, <2>1, <3>1 DEF Written
    <3>3. QED
      BY <1>2, <2>1, <3>2, HeapSound DEF Spare
  <2>2. QED
    BY <2>1 DEF Spare
<1>6. size' \in 0..MaxSize /\ capacity' \in Nat /\ size' <= capacity'
  BY HeapSound, ConstantsAssumption
<1>7. Target(h, l) = Target(Heap, l)
  BY <1>2, HeapSound DEF Target
<1>8. \A x \in Location : g.memory[x] = IF x = Target(Heap, l) THEN v ELSE memory[x]
  BY <1>2, <1>4, <1>7 DEF Written
<1>9. memory' = g.memory
  BY <1>3 DEF HeapBecomes
<1>10. QED
  BY <1>3, <1>4, <1>5, <1>6, <1>8, <1>9, Becomes

\* One turn of the loop of list_remove.
RemoveIf(g, i, gone) ==
    IF i \notin gone THEN g
    ELSE [heap |-> RemoveSlot(g.heap, i, g.size), size |-> g.size - 1]

\* There are the functions that list_clear, list_remove and Clone define.
LEMMA ClearedIs ==
    ASSUME size \in Nat
    PROVE  \E c : c = [i \in 0..size |-> IF i = size THEN Heap ELSE Destroy(c[i + 1], i)]
<1> DEFINE Is(f, a) == f = [i \in a..size |-> IF i = size THEN Heap ELSE Destroy(f[i + 1], i)]
           T == {k \in Nat : k <= size => \E f : Is(f, size - k)}
<1>1. 0 \in T
  <2> DEFINE f == [i \in size..size |-> Heap]
  <2>1. \A i \in size..size : f[i] = IF i = size THEN Heap ELSE Destroy(f[i + 1], i)
    OBVIOUS
  <2>2. Is(f, size)
    <3>1. f = [i \in size..size |-> f[i]]
      OBVIOUS
    <3> HIDE DEF f
    <3>2. QED
      BY <2>1, <3>1
  <2>3. size - 0 = size
    OBVIOUS
  <2> HIDE DEF Is, f
  <2>4. QED
    BY <2>2, <2>3
<1>2. ASSUME NEW k \in Nat, k \in T PROVE k + 1 \in T
  <2>1. SUFFICES ASSUME k + 1 <= size PROVE \E f : Is(f, size - (k + 1))
    OBVIOUS
  <2> DEFINE a == size - k
  <2>2. a \in Nat /\ a <= size /\ a # 0 /\ size - (k + 1) = a - 1
    BY <2>1
  <2>3. PICK f : Is(f, a)
    BY <1>2, <2>1
  <2> HIDE DEF a
  <2> DEFINE G(g, i) == Destroy(g, i)
             g == [i \in a - 1..size |-> IF i = a - 1 THEN G(f[a], i) ELSE f[i]]
  <2>4. ASSUME NEW i \in a - 1..size
        PROVE  g[i] = IF i = size THEN Heap ELSE G(g[i + 1], i)
    <3>1. CASE i = a - 1
      <4>1. g[i] = G(f[a], i) /\ g[i + 1] = f[a] /\ i # size
        BY <2>2, <3>1
      <4>2. QED
        BY <4>1
    <3>2. CASE i # a - 1
      <4>1. i \in a..size /\ g[i] = f[i] /\ (i # size => i + 1 \in a..size /\ g[i + 1] = f[i + 1])
        BY <2>2, <3>2
      <4>2. f[i] = IF i = size THEN Heap ELSE G(f[i + 1], i)
        BY <2>3, <4>1
      <4>3. QED
        BY <4>1, <4>2
    <3>3. QED
      BY <3>1, <3>2
  <2>5. Is(g, a - 1)
    BY <2>4
  <2> HIDE DEF g, Is
  <2>6. QED
    BY <2>2, <2>5
<1>3. \A k \in Nat : k \in T
  <2> HIDE DEF T
  <2>1. QED
    BY <1>1, <1>2, Induction
<1>4. \E f : Is(f, 0)
  <2>1. size \in T /\ size - size = 0
    <3> HIDE DEF T
    <3>1. size - size = 0
      OBVIOUS
    <3>2. QED
      BY <1>3, <3>1
  <2> HIDE DEF Is
  <2>2. QED
    BY <2>1
<1>5. QED
  BY <1>4

LEMMA DoneIs ==
    ASSUME size \in Nat, NEW gone
    PROVE  \E c : c = [i \in 0..size |-> IF i = size THEN [heap |-> Heap, size |-> size] ELSE RemoveIf(c[i + 1], i, gone)]
<1> DEFINE Is(f, a) == f = [i \in a..size |-> IF i = size THEN [heap |-> Heap, size |-> size] ELSE RemoveIf(f[i + 1], i, gone)]
           T == {k \in Nat : k <= size => \E f : Is(f, size - k)}
<1>1. 0 \in T
  <2> DEFINE f == [i \in size..size |-> [heap |-> Heap, size |-> size]]
  <2>1. \A i \in size..size : f[i] = IF i = size THEN [heap |-> Heap, size |-> size] ELSE RemoveIf(f[i + 1], i, gone)
    OBVIOUS
  <2>2. Is(f, size)
    <3>1. f = [i \in size..size |-> f[i]]
      OBVIOUS
    <3> HIDE DEF f
    <3>2. QED
      BY <2>1, <3>1
  <2>3. size - 0 = size
    OBVIOUS
  <2> HIDE DEF Is, f
  <2>4. QED
    BY <2>2, <2>3
<1>2. ASSUME NEW k \in Nat, k \in T PROVE k + 1 \in T
  <2>1. SUFFICES ASSUME k + 1 <= size PROVE \E f : Is(f, size - (k + 1))
    OBVIOUS
  <2> DEFINE a == size - k
  <2>2. a \in Nat /\ a <= size /\ a # 0 /\ size - (k + 1) = a - 1
    BY <2>1
  <2>3. PICK f : Is(f, a)
    BY <1>2, <2>1
  <2> HIDE DEF a
  <2> DEFINE G(g, i) == RemoveIf(g, i, gone)
             g == [i \in a - 1..size |-> IF i = a - 1 THEN G(f[a], i) ELSE f[i]]
  <2>4. ASSUME NEW i \in a - 1..size
        PROVE  g[i] = IF i = size THEN [heap |-> Heap, size |-> size] ELSE G(g[i + 1], i)
    <3>1. CASE i = a - 1
      <4>1. g[i] = G(f[a], i) /\ g[i + 1] = f[a] /\ i # size
        BY <2>2, <3>1
      <4>2. QED
        BY <4>1
    <3>2. CASE i # a - 1
      <4>1. i \in a..size /\ g[i] = f[i] /\ (i # size => i + 1 \in a..size /\ g[i + 1] = f[i + 1])
        BY <2>2, <3>2
      <4>2. f[i] = IF i = size THEN [heap |-> Heap, size |-> size] ELSE G(f[i + 1], i)
        BY <2>3, <4>1
      <4>3. QED
        BY <4>1, <4>2
    <3>3. QED
      BY <3>1, <3>2
  <2>5. Is(g, a - 1)
    BY <2>4
  <2> HIDE DEF g, Is
  <2>6. QED
    BY <2>2, <2>5
<1>3. \A k \in Nat : k \in T
  <2> HIDE DEF T
  <2>1. QED
    BY <1>1, <1>2, Induction
<1>4. \E f : Is(f, 0)
  <2>1. size \in T /\ size - size = 0
    <3> HIDE DEF T
    <3>1. size - size = 0
      OBVIOUS
    <3>2. QED
      BY <1>3, <3>1
  <2> HIDE DEF Is
  <2>2. QED
    BY <2>1
<1>5. QED
  BY <1>4

LEMMA CopiedIs ==
    ASSUME size \in Nat, NEW copy
    PROVE  \E c : c = [i \in 0..size |-> IF i = 0 THEN Heap ELSE retain(c[i - 1], copy[i - 1])]
<1> DEFINE Is(f, a) == f = [i \in 0..a |-> IF i = 0 THEN Heap ELSE retain(f[i - 1], copy[i - 1])]
           T == {k \in Nat : \E f : Is(f, k)}
<1>1. 0 \in T
  <2> DEFINE f == [i \in 0..0 |-> Heap]
  <2>1. \A i \in 0..0 : f[i] = IF i = 0 THEN Heap ELSE retain(f[i - 1], copy[i - 1])
    OBVIOUS
  <2>2. Is(f, 0)
    <3>1. f = [i \in 0..0 |-> f[i]]
      OBVIOUS
    <3> HIDE DEF f
    <3>2. QED
      BY <2>1, <3>1
  <2> HIDE DEF Is, f
  <2>3. QED
    BY <2>2
<1>2. ASSUME NEW a \in Nat, a \in T PROVE a + 1 \in T
  <2>1. PICK f : Is(f, a)
    BY <1>2
  <2> DEFINE G(g, i) == retain(g, copy[i - 1])
             g == [i \in 0..a + 1 |-> IF i = a + 1 THEN G(f[a], i) ELSE f[i]]
  <2>2. ASSUME NEW i \in 0..a + 1
        PROVE  g[i] = IF i = 0 THEN Heap ELSE G(g[i - 1], i)
    <3>1. CASE i = a + 1
      <4>1. g[i] = G(f[a], i) /\ g[i - 1] = f[a] /\ i # 0
        BY <3>1
      <4>2. QED
        BY <4>1
    <3>2. CASE i # a + 1
      <4>1. i \in 0..a /\ g[i] = f[i] /\ (i # 0 => i - 1 \in 0..a /\ g[i - 1] = f[i - 1])
        BY <3>2
      <4>2. f[i] = IF i = 0 THEN Heap ELSE G(f[i - 1], i)
        BY <2>1, <4>1
      <4>3. QED
        BY <4>1, <4>2
    <3>3. QED
      BY <3>1, <3>2
  <2>3. Is(g, a + 1)
    BY <2>2
  <2> HIDE DEF g, Is
  <2>4. QED
    BY <2>3
<1>3. \A k \in Nat : k \in T
  <2> HIDE DEF T
  <2>1. QED
    BY <1>1, <1>2, Induction
<1>4. \E f : Is(f, size)
  <2> HIDE DEF Is
  <2>1. QED
    BY <1>3
<1>5. QED
  BY <1>4

LEMMA DroppedIs ==
    ASSUME size \in Nat, NEW h
    PROVE  \E c : c = [i \in 0..size |-> IF i = 0 THEN h ELSE release(c[i - 1], memory[i - 1])]
<1> DEFINE Is(f, a) == f = [i \in 0..a |-> IF i = 0 THEN h ELSE release(f[i - 1], memory[i - 1])]
           T == {k \in Nat : \E f : Is(f, k)}
<1>1. 0 \in T
  <2> DEFINE f == [i \in 0..0 |-> h]
  <2>1. \A i \in 0..0 : f[i] = IF i = 0 THEN h ELSE release(f[i - 1], memory[i - 1])
    OBVIOUS
  <2>2. Is(f, 0)
    <3>1. f = [i \in 0..0 |-> f[i]]
      OBVIOUS
    <3> HIDE DEF f
    <3>2. QED
      BY <2>1, <3>1
  <2> HIDE DEF Is, f
  <2>3. QED
    BY <2>2
<1>2. ASSUME NEW a \in Nat, a \in T PROVE a + 1 \in T
  <2>1. PICK f : Is(f, a)
    BY <1>2
  <2> DEFINE G(g, i) == release(g, memory[i - 1])
             g == [i \in 0..a + 1 |-> IF i = a + 1 THEN G(f[a], i) ELSE f[i]]
  <2>2. ASSUME NEW i \in 0..a + 1
        PROVE  g[i] = IF i = 0 THEN h ELSE G(g[i - 1], i)
    <3>1. CASE i = a + 1
      <4>1. g[i] = G(f[a], i) /\ g[i - 1] = f[a] /\ i # 0
        BY <3>1
      <4>2. QED
        BY <4>1
    <3>2. CASE i # a + 1
      <4>1. i \in 0..a /\ g[i] = f[i] /\ (i # 0 => i - 1 \in 0..a /\ g[i - 1] = f[i - 1])
        BY <3>2
      <4>2. f[i] = IF i = 0 THEN h ELSE G(f[i - 1], i)
        BY <2>1, <4>1
      <4>3. QED
        BY <4>1, <4>2
    <3>3. QED
      BY <3>1, <3>2
  <2>3. Is(g, a + 1)
    BY <2>2
  <2> HIDE DEF g, Is
  <2>4. QED
    BY <2>3
<1>3. \A k \in Nat : k \in T
  <2> HIDE DEF T
  <2>1. QED
    BY <1>1, <1>2, Induction
<1>4. \E f : Is(f, size)
  <2> HIDE DEF Is
  <2>1. QED
    BY <1>3
<1>5. QED
  BY <1>4

\* One slot more.
LEMMA HoldingNext ==
    ASSUME NEW n \in Nat
    PROVE  Holding(n + 1) \ {n} = Holding(n)
<1>1. \A l \in Slot : l \in Nat
  BY Slots
<1>2. \A l \in Slot : l < n + 1 /\ l # n <=> l < n
  BY <1>1
<1>3. \A l \in Location : l \notin Slot => l # n \/ n \notin Slot
  OBVIOUS
<1>4. ASSUME NEW l \in Holding(n) PROVE l \in Holding(n + 1) \ {n}
  <2>1. CASE l \in Slot
    BY <1>2, <1>4, <2>1 DEF Holding
  <2>2. CASE l \notin Slot
    <3>1. l \in Box \cup {Ref, Var}
      BY <1>4, <2>2 DEF Holding, Location
    <3>2. l # n
      BY <3>1, ConstantsAssumption
    <3>3. QED
      BY <1>4, <2>2, <3>2 DEF Holding
  <2>3. QED
    BY <2>1, <2>2
<1>5. ASSUME NEW l \in Holding(n + 1) \ {n} PROVE l \in Holding(n)
  BY <1>2, <1>5 DEF Holding
<1>6. QED
  BY <1>4, <1>5

\* An item is destroyed and its slot left behind.
LEMMA DestroySound ==
    ASSUME NEW n \in Nat, n < MaxSize, NEW h, Sound(h, Holding(n + 1), Nothing), Spare(h, n + 1)
    PROVE  /\ Sound(Destroy(h, n), Holding(n), Nothing) /\ Spare(Destroy(h, n), n)
           /\ Spared(Destroy(h, n), h)
           /\ \A x \in Location : x \notin Box => Destroy(h, n).memory[x] = h.memory[x]
<1> DEFINE v == h.memory[n]
           r == release(h, v)
           d == [r EXCEPT !.stale = @ \cup {n}]
<1>1. n \in Slot /\ n \in Location /\ n \notin Box
  BY Slots, Kinds
<1>2. n \in Holding(n + 1)
  BY <1>1 DEF Holding
<1>3. Sound(h, Holding(n), Plus(Nothing, v))
  BY <1>2, TakeSound, HoldingNext
<1>4. v \in Variant
  BY <1>1, <1>3, HeapType DEF Sound
<1>5. Destroy(h, n) = d
  BY DEF Destroy
<1> HIDE DEF v
<1>6. /\ Sound(r, Holding(n), Nothing) /\ Spared(r, h)
      /\ \A x \in Location : x \notin Box => r.memory[x] = h.memory[x]
  <2> DEFINE S == Holding(n)
  <2>1. /\ Sound(h, S, Plus(Nothing, v)) /\ S \in SUBSET Location
        /\ Box \subseteq S /\ Nothing \in [Counted -> Nat]
    BY <1>3, HoldingType, NothingType
  <2> HIDE DEF S
  <2>2. /\ Sound(release(h, v), S, Nothing) /\ Spared(release(h, v), h)
        /\ \A x \in Location : x \notin Box => release(h, v).memory[x] = h.memory[x]
    BY <1>4, <2>1, ReleaseSound
  <2>3. QED
    BY <2>2 DEF S
<1>7. Spare(r, n + 1)
  BY <1>3, <1>4, ReleaseSpare, HoldingType, NothingType
<1> HIDE DEF r
<1>8. /\ d \in AnyHeap /\ d.memory = r.memory /\ d.count = r.count
      /\ d.stale = r.stale \cup {n}
  BY <1>1, <1>6 DEF Sound, AnyHeap
<1> HIDE DEF d
<1>9. Sound(d, Holding(n), Nothing)
  BY <1>6, <1>8, SameSound
<1>10. Spare(d, n)
  <2>1. ASSUME NEW i \in Slot, i >= n, i \notin d.stale PROVE d.memory[i] = Null
    <3>1. i # n /\ i \notin r.stale
      BY <1>8, <2>1
    <3>2. i >= n + 1
      BY <2>1, <3>1, Slots
    <3>3. QED
      BY <1>7, <1>8, <3>1, <3>2 DEF Spare
  <2>2. QED
    BY <2>1 DEF Spare
<1>11. Spared(d, h) /\ \A x \in Location : x \notin Box => d.memory[x] = h.memory[x]
  BY <1>6, <1>8 DEF Spared
<1>12. QED
  BY <1>5, <1>9, <1>10, <1>11

LEMMA ClearStep ==
    ASSUME IInv, list_clear
    PROVE  IInv' /\ size' = 0 /\ memory'[Ref] = memory[Ref] /\ BoxesSame
<1> DEFINE Is(f) == f = [i \in 0..size |-> IF i = size THEN Heap ELSE Destroy(f[i + 1], i)]
           c == CHOOSE f : Is(f)
<1>1. Is(c)
  <2>1. \E f : Is(f)
    BY HeapSound, ClearedIs
  <2> HIDE DEF Is
  <2>2. QED
    BY <2>1
<1>2. HeapBecomes(c[0]) /\ size' = 0 /\ capacity' = capacity
  BY DEF list_clear
<1> HIDE DEF c
<1>3. c[size] = Heap /\ \A i \in 0..size - 1 : c[i] = Destroy(c[i + 1], i)
  BY <1>1, HeapSound
<1> DEFINE Good(n) == /\ Sound(c[n], Holding(n), Nothing) /\ Spare(c[n], n)
                      /\ Spared(c[n], Heap) /\ c[n].memory[Ref] = memory[Ref]
           T == {k \in Nat : k <= size => Good(size - k)}
<1>4. 0 \in T
  <2>1. size - 0 = size
    BY HeapSound
  <2>2. Good(size)
    BY <1>3, HeapSound DEF Spared
  <2> HIDE DEF Good
  <2>3. QED
    BY <2>1, <2>2
<1>5. ASSUME NEW k \in Nat, k \in T PROVE k + 1 \in T
  <2>1. SUFFICES ASSUME k + 1 <= size PROVE Good(size - (k + 1))
    OBVIOUS
  <2> DEFINE i == size - (k + 1)
  <2>2. i \in Nat /\ i < MaxSize /\ i \in 0..size - 1 /\ i + 1 = size - k /\ k <= size
    BY <2>1, HeapSound, ConstantsAssumption
  <2>3. Good(i + 1)
    <3> HIDE DEF i, Good
    <3>1. QED
      BY <1>5, <2>2
  <2> HIDE DEF i
  <2>4. c[i] = Destroy(c[i + 1], i)
    BY <1>3, <2>2
  <2> DEFINE h == c[i + 1]
             g == Destroy(h, i)
  <2>4a. Sound(h, Holding(i + 1), Nothing) /\ Spare(h, i + 1)
    BY <2>3
  <2>4b. Spared(h, Heap) /\ h.memory[Ref] = memory[Ref]
    BY <2>3
  <2> HIDE DEF h
  <2>4c. /\ Sound(g, Holding(i), Nothing) /\ Spare(g, i) /\ Spared(g, h)
         /\ \A x \in Location : x \notin Box => g.memory[x] = h.memory[x]
    BY <2>2, <2>4a, DestroySound
  <2>4d. c[i] = g
    BY <2>4 DEF h
  <2> HIDE DEF g
  <2>5. Good(i)
    BY <2>4b, <2>4c, <2>4d, SparedTwice, Kinds
  <2>6. QED
    BY <2>5 DEF i
<1>6. \A k \in Nat : k \in T
  <2> HIDE DEF T
  <2>1. QED
    BY <1>4, <1>5, Induction
<1>7. Good(0)
  <2>1. size \in T /\ size - size = 0 /\ size <= size
    <3> HIDE DEF T
    <3>1. QED
      BY <1>6, HeapSound
  <2> HIDE DEF Good
  <2>2. QED
    BY <2>1
<1>8. size' \in 0..MaxSize /\ capacity' \in Nat /\ size' <= capacity'
  BY <1>2, HeapSound, ConstantsAssumption
<1>9. Sound(c[0], Holding(size'), Nothing) /\ Spare(c[0], size')
  BY <1>2, <1>7
<1>10. IInv'
  BY <1>2, <1>8, <1>9, Becomes
<1>11. BoxesSame
  BY <1>2, <1>7, BoxesSpared
<1>12. QED
  BY <1>2, <1>7, <1>10, <1>11 DEF HeapBecomes

\* The first n places of m hold the items that are not in gone, in their order.
Picks(f, n, m, gone) ==
    /\ f \in [0..n - 1 -> 0..size - 1]
    /\ \A k \in 0..n - 1 : f[k] \notin gone /\ m[k] = memory[f[k]]
    /\ \A x \in 0..size - 1 : x \notin gone => \E k \in 0..n - 1 : f[k] = x
    /\ \A j, k \in 0..n - 1 : j < k => f[j] < f[k]

\* One more of them goes.
LEMMA PicksFewer ==
    ASSUME size \in Nat, NEW n \in Nat, n <= size, NEW i \in 0..n - 1,
           NEW f, NEW m, NEW gone, Picks(f, n, m, gone), f[i] = i,
           NEW m1, \A k \in 0..n - 2 : m1[k] = IF k < i THEN m[k] ELSE m[k + 1]
    PROVE  Picks([k \in 0..n - 2 |-> IF k < i THEN f[k] ELSE f[k + 1]], n - 1, m1,
                 gone \cup {i})
<1> DEFINE e == [k \in 0..n - 2 |-> IF k < i THEN f[k] ELSE f[k + 1]]
<1>1. /\ f \in [0..n - 1 -> 0..size - 1]
      /\ \A k \in 0..n - 1 : f[k] \notin gone /\ m[k] = memory[f[k]]
      /\ \A x \in 0..size - 1 : x \notin gone => \E k \in 0..n - 1 : f[k] = x
      /\ \A j, k \in 0..n - 1 : j < k => f[j] < f[k]
  BY DEF Picks
<1>2. \A k \in 0..n - 2 : k \in 0..n - 1 /\ k + 1 \in 0..n - 1
  OBVIOUS
<1>3. \A k \in 0..n - 2 : e[k] = IF k < i THEN f[k] ELSE f[k + 1]
  OBVIOUS
<1>4. \A k \in 0..n - 1 : f[k] \in Int /\ f[k] \in 0..size - 1
  BY <1>1
<1>5. e \in [0..n - 2 -> 0..size - 1]
  BY <1>2, <1>4
<1> HIDE DEF e
<1>6. ASSUME NEW k \in 0..n - 2
      PROVE  e[k] \notin gone \cup {i} /\ m1[k] = memory[e[k]]
  <2>1. CASE k < i
    <3>1. e[k] = f[k] /\ m1[k] = m[k] /\ f[k] < i
      BY <1>1, <1>2, <1>3, <2>1
    <3>2. QED
      BY <1>1, <1>2, <1>4, <3>1
  <2>2. CASE ~(k < i)
    <3>0. i < k + 1 /\ k + 1 \in 0..n - 1
      BY <2>2
    <3>1. e[k] = f[k + 1] /\ m1[k] = m[k + 1] /\ f[i] < f[k + 1]
      BY <1>1, <1>3, <2>2, <3>0
    <3>2. QED
      BY <1>1, <1>2, <1>4, <3>1
  <2>3. QED
    BY <2>1, <2>2
<1>7. ASSUME NEW x \in 0..size - 1, x \notin gone \cup {i}
      PROVE  \E k \in 0..n - 2 : e[k] = x
  <2>1. PICK k \in 0..n - 1 : f[k] = x
    BY <1>1, <1>7
  <2>2. CASE k < i
    <3>1. k \in 0..n - 2 /\ e[k] = x
      BY <1>3, <2>1, <2>2
    <3>2. QED
      BY <3>1
  <2>3. CASE ~(k < i)
    <3>1. k # i
      BY <1>7, <2>1
    <3>2. k - 1 \in 0..n - 2 /\ ~(k - 1 < i) /\ k - 1 + 1 = k
      BY <2>3, <3>1
    <3>3. e[k - 1] = x
      BY <1>3, <2>1, <3>2
    <3>4. QED
      BY <3>2, <3>3
  <2>4. QED
    BY <2>2, <2>3
<1>8. ASSUME NEW j \in 0..n - 2, NEW k \in 0..n - 2, j < k PROVE e[j] < e[k]
  <2>1. \A u, w \in 0..n - 1 : u < w => f[u] < f[w]
    BY <1>1
  <2>2. QED
    BY <1>2, <1>3, <1>8, <2>1
<1>9. QED
  <2>1. n - 1 - 1 = n - 2
    OBVIOUS
  <2>2. Picks(e, n - 1, m1, gone \cup {i})
    BY <1>5, <1>6, <1>7, <1>8, <2>1 DEF Picks
  <2>3. QED
    BY <2>2 DEF e

\* The same after the turns of the loop from the end of the list to the slot i.
PicksFrom(i, n, m, gone) ==
    \E f : Picks(f, n, m, {x \in gone : x >= i}) /\ \A j \in 0..i - 1 : f[j] = j

LEMMA PicksAll ==
    ASSUME size \in Nat, NEW gone, gone \subseteq 0..size - 1
    PROVE  PicksFrom(size, size, memory, gone)
<1> DEFINE f == [k \in 0..size - 1 |-> k]
<1>1. {x \in gone : x >= size} = {}
  <2>1. \A x \in gone : x \in 0..size - 1
    OBVIOUS
  <2>2. \A x \in gone : ~(x >= size)
    BY <2>1
  <2>3. QED
    BY <2>2
<1>2. Picks(f, size, memory, {})
  BY DEF Picks
<1>3. \A j \in 0..size - 1 : f[j] = j
  OBVIOUS
<1> HIDE DEF f
<1>4. QED
  BY <1>1, <1>2, <1>3 DEF PicksFrom

LEMMA PicksOn ==
    ASSUME size \in Nat, NEW gone, gone \subseteq 0..size - 1, NEW i \in 0..size - 1,
           NEW n, NEW m, PicksFrom(i + 1, n, m, gone)
    PROVE  /\ i \notin gone => PicksFrom(i, n, m, gone)
           /\ \A m1 : n \in Nat /\ n <= size /\ i < n /\ i \in gone
                      /\ (\A k \in 0..n - 2 : m1[k] = IF k < i THEN m[k] ELSE m[k + 1])
                        => PicksFrom(i, n - 1, m1, gone)
<1> DEFINE G == {x \in gone : x >= i + 1}
           H == {x \in gone : x >= i}
<1>1. PICK f : Picks(f, n, m, G) /\ \A j \in 0..i + 1 - 1 : f[j] = j
  BY DEF PicksFrom
<1>2. \A j \in 0..i - 1 : f[j] = j
  BY <1>1
<1>3. f[i] = i
  BY <1>1
<1>0. \A x \in gone : x \in Int
  OBVIOUS
<1>4. ASSUME i \notin gone PROVE PicksFrom(i, n, m, gone)
  <2>1. G = H
    <3>1. \A x \in gone : x # i => (x >= i + 1 <=> x >= i)
      BY <1>0
    <3>2. QED
      BY <1>4, <3>1
  <2>2. QED
    BY <1>1, <1>2, <2>1 DEF PicksFrom
<1>5. ASSUME NEW m1, n \in Nat, n <= size, i < n, i \in gone,
             \A k \in 0..n - 2 : m1[k] = IF k < i THEN m[k] ELSE m[k + 1]
      PROVE  PicksFrom(i, n - 1, m1, gone)
  <2> DEFINE e == [k \in 0..n - 2 |-> IF k < i THEN f[k] ELSE f[k + 1]]
  <2>1. H = G \cup {i}
    <3>1. \A x \in gone : x # i => (x >= i + 1 <=> x >= i)
      BY <1>0
    <3>2. i >= i /\ i \in gone
      BY <1>5
    <3>3. QED
      BY <3>1, <3>2
  <2>2. i \in 0..n - 1 /\ Picks(f, n, m, G)
    BY <1>1, <1>5
  <2> HIDE DEF G, H
  <2>3. Picks(e, n - 1, m1, G \cup {i})
    <3> HIDE DEF e
    <3>1. Picks([k \in 0..n - 2 |-> IF k < i THEN f[k] ELSE f[k + 1]], n - 1, m1,
                G \cup {i})
      BY <1>3, <1>5, <2>2, PicksFewer
    <3>2. QED
      BY <3>1 DEF e
  <2>4. \A j \in 0..i - 1 : e[j] = j
    BY <1>2, <1>5
  <2> HIDE DEF e
  <2>5. QED
    BY <2>1, <2>3, <2>4 DEF PicksFrom, H
<1>6. QED
  BY <1>4, <1>5

LEMMA RemoveStep ==
    ASSUME {"last", "alias"} \subseteq Precaution, IInv, NEW v, list_remove(v)
    PROVE  /\ IInv' /\ BoxesSame /\ memory'[Ref] = memory[Ref] /\ size' <= size
           /\ "compare" \in Precaution =>
                \E f : Picks(f, size', memory', Found(v))
<1> DEFINE gone == {i \in Found(v) : \A j \in Incomparable(v) : j < i}
           Is(f) == f = [i \in 0..size |-> IF i = size THEN [heap |-> Heap, size |-> size]
                                           ELSE RemoveIf(f[i + 1], i, gone)]
           c == CHOOSE f : Is(f)
<1>1. /\ RemoveCarefully(gone) /\ HeapBecomes(c[0].heap)
      /\ size' = c[0].size /\ capacity' = capacity
  BY DEF list_remove, RemoveIf
<1>2. \A i \in gone : i \in 0..size - 1 /\ i # size - 1 /\ memory[i] \notin Box
  <2>1. gone \subseteq 0..size - 1
    BY DEF Found
  <2>2. \A i \in gone : i # size - 1 /\ (i < size - 1 => memory[i] \notin Box)
    BY <1>1 DEF RemoveCarefully, Careful
  <2> HIDE DEF gone
  <2>3. QED
    BY <2>1, <2>2, HeapSound
<1> HIDE DEF gone
<1>3. Is(c)
  <2>1. \E f : Is(f)
    BY HeapSound, DoneIs
  <2> HIDE DEF Is
  <2>2. QED
    BY <2>1
<1> HIDE DEF c
<1>4. /\ c[size] = [heap |-> Heap, size |-> size]
      /\ \A i \in 0..size - 1 : c[i] = RemoveIf(c[i + 1], i, gone)
  BY <1>3, HeapSound
<1> DEFINE Good(i) == /\ c[i].size \in Nat /\ c[i].size <= size
                      /\ IF i = size THEN c[i].size = size ELSE c[i].size >= i + 1
                      /\ Sound(c[i].heap, Holding(c[i].size), Nothing)
                      /\ Spare(c[i].heap, c[i].size)
                      /\ \A j \in 0..i - 1 : c[i].heap.memory[j] = memory[j]
                      /\ \A l \in Location \ Slot : c[i].heap.memory[l] = memory[l]
                      /\ PicksFrom(i, c[i].size, c[i].heap.memory, gone)
           T == {k \in Nat : k <= size => Good(size - k)}
<1>5. 0 \in T
  <2>1. size - 0 = size
    BY HeapSound
  <2>2. gone \subseteq 0..size - 1 /\ size \in Nat
    BY <1>2, HeapSound
  <2>3. /\ c[size].heap = Heap /\ c[size].size = size /\ Heap.memory = memory
        /\ Sound(Heap, Holding(size), Nothing) /\ Spare(Heap, size)
    BY <1>4, HeapSound
  <2>4. PicksFrom(size, size, memory, gone)
    BY <2>2, PicksAll
  <2>5. Good(size)
    BY <2>2, <2>3, <2>4
  <2> HIDE DEF Good
  <2>6. QED
    BY <2>1, <2>5
<1>6. ASSUME NEW k \in Nat, k \in T PROVE k + 1 \in T
  <2>1. SUFFICES ASSUME k + 1 <= size PROVE Good(size - (k + 1))
    OBVIOUS
  <2> DEFINE i == size - (k + 1)
  <2>2. i \in Nat /\ i < MaxSize /\ i \in 0..size - 1 /\ i + 1 = size - k /\ k <= size
    BY <2>1, HeapSound, ConstantsAssumption
  <2>3. Good(i + 1)
    <3> HIDE DEF i, Good
    <3>1. QED
      BY <1>6, <2>2
  <2> HIDE DEF i
  <2>4. c[i] = RemoveIf(c[i + 1], i, gone)
    BY <1>4, <2>2
  <2>5. i # size /\ size \in Nat
    BY <2>2, HeapSound
  <2>6. CASE i \notin gone
    <3>1. c[i] = c[i + 1]
      BY <2>4, <2>6 DEF RemoveIf
    <3>2. c[i].size >= i + 1
      BY <2>2, <2>3, <2>5, <3>1
    <3>3. PicksFrom(i, c[i].size, c[i].heap.memory, gone)
      <4>1. PicksFrom(i + 1, c[i + 1].size, c[i + 1].heap.memory, gone)
        BY <2>3
      <4>2. gone \subseteq 0..size - 1
        BY <1>2
      <4> HIDE DEF Good
      <4>3. QED
        BY <2>2, <2>5, <2>6, <3>1, <4>1, <4>2, PicksOn
    <3>4. /\ c[i].size \in Nat /\ c[i].size <= size
          /\ Sound(c[i].heap, Holding(c[i].size), Nothing)
          /\ Spare(c[i].heap, c[i].size)
          /\ \A l \in Location \ Slot : c[i].heap.memory[l] = memory[l]
      <4> DEFINE h == c[i + 1].heap
                 n == c[i + 1].size
      <4>1. /\ n \in Nat /\ n <= size /\ Sound(h, Holding(n), Nothing) /\ Spare(h, n)
            /\ \A l \in Location \ Slot : h.memory[l] = memory[l]
        BY <2>3
      <4>2. c[i].heap = h /\ c[i].size = n
        BY <3>1
      <4> HIDE DEF h, n, Good
      <4>3. QED
        BY <4>1, <4>2, Zenon
    <3>5. \A j \in 0..i - 1 : c[i].heap.memory[j] = memory[j]
      <4> DEFINE h == c[i + 1].heap
      <4>1. \A j \in 0..i : h.memory[j] = memory[j]
        BY <2>2, <2>3
      <4>2. c[i].heap = h
        BY <3>1
      <4> HIDE DEF h, Good
      <4>3. \A j \in 0..i - 1 : h.memory[j] = memory[j]
        BY <2>2, <4>1
      <4>4. QED
        BY <4>2, <4>3, Zenon
    <3>6. Good(i)
      BY <2>5, <3>2, <3>3, <3>4, <3>5
    <3> HIDE DEF Good
    <3>7. QED
      BY <3>6 DEF i
  <2>7. CASE i \in gone
    <3> DEFINE h == c[i + 1].heap
               n == c[i + 1].size
               g == RemoveSlot(h, i, n)
    <3>1. c[i].heap = g /\ c[i].size = n - 1
      BY <2>4, <2>7 DEF RemoveIf
    <3>2. i + 1 # size /\ memory[i] \notin Box
      BY <1>2, <2>2, <2>5, <2>7
    <3>3. /\ n \in Nat /\ n <= size /\ n >= i + 2 /\ Sound(h, Holding(n), Nothing)
          /\ Spare(h, n) /\ \A j \in 0..i : h.memory[j] = memory[j]
      BY <2>2, <2>3, <3>2
    <3> HIDE DEF h, n
    <3>4. /\ n <= MaxSize /\ i \in 0..n - 1 /\ i # n - 1
          /\ n - 1 \in Nat /\ n - 1 <= size /\ n - 1 >= i + 1
      BY <2>2, <3>3, HeapSound, ConstantsAssumption
    <3>5. h.memory[i] \notin Box
      BY <2>2, <3>2, <3>3
    <3>6. /\ Sound(g, Holding(n - 1), Nothing) /\ Spare(g, n - 1)
          /\ Elsewhere(g, h, i..n - 1)
          /\ \A j \in i..n - 2 : g.memory[j] = h.memory[j + 1]
      BY <3>3, <3>4, <3>5, RemoveSound
    <3> HIDE DEF g
    <3>7. ASSUME NEW j \in 0..i - 1 PROVE g.memory[j] = memory[j]
      <4>1. j \in 0..size - 1 /\ j \in 0..i /\ j \notin i..n - 1
        BY <2>2, <2>5, <3>3
      <4>2. j \in Location /\ j \notin Box
        BY <4>1, HeapSound, ItemPlace
      <4>3. g.memory[j] = h.memory[j]
        BY <3>6, <4>1, <4>2 DEF Elsewhere
      <4>4. QED
        BY <3>3, <4>1, <4>3
    <3>8. /\ \A x \in 0..n - 2 : g.memory[x] = IF x < i THEN h.memory[x] ELSE h.memory[x + 1]
          /\ \A l \in Location \ Slot : g.memory[l] = h.memory[l]
      <4>1. n \in Nat /\ MovedDown(g, h, i, n)
        BY <3>3, <3>6 DEF MovedDown
      <4>2. Shorter(g, h, i, n)
        BY <3>4, <4>1, RemovedMemory
      <4>3. QED
        BY <4>2 DEF Shorter
    <3>9. PicksFrom(i, n - 1, g.memory, gone)
      <4>1. PicksFrom(i + 1, n, h.memory, gone)
        BY <2>3 DEF h, n
      <4>2. gone \subseteq 0..size - 1
        BY <1>2
      <4>3. i < n
        BY <2>2, <3>3
      <4> HIDE DEF Good
      <4>4. QED
        BY <2>2, <2>5, <2>7, <3>3, <3>8, <4>1, <4>2, <4>3, PicksOn
    <3>10. \A l \in Location \ Slot : g.memory[l] = memory[l]
      BY <2>3, <3>8 DEF h
    <3>11. Good(i)
      BY <2>5, <3>1, <3>4, <3>6, <3>7, <3>9, <3>10
    <3> HIDE DEF Good
    <3>12. QED
      BY <3>11 DEF i
  <2>8. QED
    BY <2>6, <2>7
<1>7. \A k \in Nat : k \in T
  <2> HIDE DEF T
  <2>1. QED
    BY <1>5, <1>6, Induction
<1>8. Good(0)
  <2>1. size \in T /\ size - size = 0 /\ size <= size
    <3> HIDE DEF T
    <3>1. QED
      BY <1>7, HeapSound
  <2> HIDE DEF Good
  <2>2. QED
    BY <2>1
<1>9. size' \in 0..MaxSize /\ capacity' \in Nat /\ size' <= capacity' /\ size' <= size
  BY <1>1, <1>8, HeapSound, ConstantsAssumption
<1> DEFINE g == c[0].heap
<1>10. /\ HeapBecomes(g) /\ Sound(g, Holding(size'), Nothing) /\ Spare(g, size')
       /\ \A l \in Location \ Slot : g.memory[l] = memory[l]
       /\ PicksFrom(0, size', g.memory, gone)
  BY <1>1, <1>8
<1> HIDE DEF g
<1>11. IInv'
  <2>1. Sound(g, Holding(size'), Nothing) /\ Spare(g, size') /\ HeapBecomes(g)
    BY <1>10
  <2>2. QED
    BY <1>9, <2>1, Becomes
<1>12. memory' = g.memory
  BY <1>10 DEF HeapBecomes
<1>13. memory'[Ref] = memory[Ref] /\ BoxesSame
  <2>1. Ref \in Location \ Slot /\ \A b \in Box : b \in Location \ Slot
    BY Kinds
  <2>2. QED
    BY <1>10, <1>12, <2>1 DEF BoxesSame
<1>14. "compare" \in Precaution => gone = Found(v)
  BY DEF list_remove, Careful, gone
<1>15. \E f : Picks(f, size', g.memory, gone)
  <2>1. {x \in gone : x >= 0} = gone
    BY <1>2
  <2>2. QED
    BY <1>10, <2>1 DEF PicksFrom
<1>16. QED
  BY <1>9, <1>11, <1>12, <1>13, <1>14, <1>15

\* Items that change places are counted as before.
LEMMA PermuteStep ==
    ASSUME IInv, NEW p \in [0..size - 1 -> 0..size - 1], IsInjective(p), Permute(p),
           UNCHANGED <<count, stale, size, capacity>>
    PROVE  IInv'
<1> DEFINE U == 0..size - 1
           S == Holding(size)
           q == [l \in S |-> IF l \in U THEN p[l] ELSE l]
           g == [memory |-> memory', count |-> count, stale |-> stale]
<1>1. p \in Surjection(U, U)
  <2>1. IsFiniteSet(U)
    BY HeapSound, FS_Interval
  <2>2. p \in Injection(U, U)
    BY DEF Injection
  <2> HIDE DEF U
  <2>3. QED
    BY <2>1, <2>2, FS_Injection
<1>2. \A i \in U : p[i] \in U /\ i \in S /\ i \in Location /\ i \in Slot /\ i \notin Box
  BY HeapSound, ItemPlace
<1>3. /\ q \in [S -> S]
      /\ \A k, l \in S : q[k] = q[l] => k = l
      /\ \A l \in S : \E k \in S : q[k] = l
  <2>1. q \in [S -> S]
    BY <1>2
  <2>2. ASSUME NEW k \in S, NEW l \in S, q[k] = q[l] PROVE k = l
    <3>1. q[k] = IF k \in U THEN p[k] ELSE k
      OBVIOUS
    <3>2. q[l] = IF l \in U THEN p[l] ELSE l
      OBVIOUS
    <3>3. \A i, j \in U : p[i] = p[j] => i = j
      BY DEF IsInjective
    <3> HIDE DEF q, U, S
    <3>4. QED
      BY <1>2, <2>2, <3>1, <3>2, <3>3
  <2>3. ASSUME NEW l \in S PROVE \E k \in S : q[k] = l
    <3>1. CASE l \in U
      <4>1. PICK k \in U : p[k] = l
        BY <1>1, <3>1 DEF Surjection
      <4>2. k \in S
        BY <1>2, <4>1
      <4>3. QED
        BY <4>1, <4>2
    <3>2. CASE l \notin U
      BY <2>3, <3>2
    <3>3. QED
      BY <3>1, <3>2
  <2>4. QED
    <3> HIDE DEF q, S
    <3>1. QED
      BY <2>1, <2>2, <2>3
<1>4. /\ memory' \in [Location -> Variant]
      /\ \A l \in Location : memory'[l] = IF l \in U THEN memory[p[l]] ELSE memory[l]
  BY <1>2, HeapSound DEF Permute
<1>5. g \in AnyHeap /\ g.memory = memory' /\ g.count = count /\ g.stale = stale
  BY <1>4, HeapSound DEF AnyHeap
<1>6. HeapBecomes(g)
  BY DEF HeapBecomes
<1> HIDE DEF g
<1>7. \A l \in S : g.memory[l] = memory[q[l]]
  BY <1>4, <1>5, HoldingType
<1> HIDE DEF q
<1>8. Exact(g, S, Nothing)
  <2>1. ASSUME NEW c \in Counted
        PROVE  /\ IsFiniteSet(Holds(g, S, c))
               /\ g.count[c] = Cardinality(Holds(g, S, c)) + Nothing[c]
    <3> DEFINE A == Holds(Heap, S, c)
               B == Holds(g, S, c)
               r == [l \in B |-> q[l]]
    <3>1. IsFiniteSet(A) /\ Heap.count[c] = Cardinality(A) + Nothing[c]
      BY HeapSound, SoundCount
    <3>2. \A l \in S : l \in A <=> memory[l] = c
      BY HeapSound DEF Holds
    <3>3. \A l \in S : l \in B <=> memory[q[l]] = c
      BY <1>7 DEF Holds
    <3>4. A \subseteq S /\ B \subseteq S
      BY DEF Holds
    <3> HIDE DEF A, B, S
    <3>5. \A l \in B : q[l] \in A
      BY <1>3, <3>2, <3>3, <3>4
    <3>6. r \in [B -> A] /\ IsInjective(r)
      BY <1>3, <3>4, <3>5 DEF IsInjective
    <3>7. \A l \in A : \E k \in B : r[k] = l
      <4>1. ASSUME NEW l \in A PROVE \E k \in B : r[k] = l
        <5>1. PICK k \in S : q[k] = l
          BY <1>3, <3>4
        <5>2. k \in B
          BY <3>2, <3>3, <3>4, <5>1
        <5>3. QED
          BY <5>1, <5>2
      <4>2. QED
        BY <4>1
    <3>8. r \in Bijection(B, A)
      BY <3>6, <3>7 DEF Bijection, Injection, Surjection
    <3>9. ExistsBijection(A, B)
      <4>1. ExistsBijection(B, A)
        BY <3>8 DEF ExistsBijection
      <4>2. QED
        BY <4>1, Fun_ExistsBijSymmetric
    <3>10. IsFiniteSet(B) /\ Cardinality(B) = Cardinality(A)
      BY <3>1, <3>9, FS_Bijection
    <3>11. QED
      BY <1>5, <3>1, <3>10, HeapSound DEF B
  <2>2. QED
    BY <2>1 DEF Exact
<1>9. Plain(g)
  <2>1. \A b \in Box : b \in Location /\ b \notin U
    BY <1>2, Kinds
  <2>2. \A b \in Box : g.memory[b] = Heap.memory[b]
    BY <1>4, <1>5, <2>1, HeapSound
  <2>3. QED
    BY <1>5, <2>2, HeapSound DEF Plain, Sound
<1>10. Sound(g, S, Nothing)
  BY <1>5, <1>8, <1>9, NothingType DEF Sound
<1>11. Spare(g, size)
  <2>1. ASSUME NEW i \in Slot, i >= size PROVE g.memory[i] = Heap.memory[i]
    <3>1. i \notin U /\ i \in Location
      BY <2>1, HeapSound, Slots, Kinds
    <3>2. QED
      BY <1>4, <1>5, <3>1, HeapSound
  <2>2. QED
    BY <1>5, <2>1, HeapSound DEF Spare
<1>12. size' \in 0..MaxSize /\ capacity' \in Nat /\ size' <= capacity'
  BY HeapSound, ConstantsAssumption
<1>13. QED
  BY <1>6, <1>10, <1>11, <1>12, Becomes

LEMMA ReverseStep ==
    ASSUME IInv, list_reverse
    PROVE  IInv'
<1> DEFINE p == [i \in 0..size - 1 |-> size - 1 - i]
<1>1. p \in [0..size - 1 -> 0..size - 1]
  BY HeapSound
<1>2. IsInjective(p)
  BY HeapSound DEF IsInjective
<1>3. Permute(p) /\ UNCHANGED <<count, stale, size, capacity>>
  BY DEF list_reverse
<1> HIDE DEF p
<1>4. QED
  BY <1>1, <1>2, <1>3, PermuteStep

\* A comparison that throws loses an item, which is released.
LEMMA SortStep ==
    ASSUME IInv, list_sort
    PROVE  IInv'
<1>1. UNCHANGED <<size, capacity>>
  BY DEF list_sort
<1>2. PICK p \in [0..size - 1 -> 0..size - 1] :
        /\ IsInjective(p)
        /\ \/ Permute(p) /\ UNCHANGED <<count, stale>>
           \/ \E i \in 0..size - 1 : HeapBecomes(release(
                 [Heap EXCEPT !.memory = [@ EXCEPT ![i] = Null]], memory[i]))
  BY DEF list_sort
<1>3. CASE Permute(p) /\ UNCHANGED <<count, stale>>
  BY <1>1, <1>2, <1>3, PermuteStep
<1>4. ASSUME NEW i \in 0..size - 1,
             HeapBecomes(release([Heap EXCEPT !.memory = [@ EXCEPT ![i] = Null]], memory[i]))
      PROVE  IInv'
  <2>1. i \in Holding(size) /\ i \notin Box /\ i < size
    BY HeapSound, ItemPlace
  <2>2. [Heap EXCEPT !.memory = [@ EXCEPT ![i] = Null]] = [Heap EXCEPT !.memory[i] = Null]
    OBVIOUS
  <2>3. QED
    BY <1>1, <1>4, <2>1, <2>2, DropStep
<1>5. QED
  BY <1>2, <1>3, <1>4

\* An item that is boxed already is shared by one reference more.
LEMMA ShareStep ==
    ASSUME IInv, memory[Ref] = Null, NEW w \in Box,
           HeapBecomes(retain([Heap EXCEPT !.memory[Ref] = w], w)),
           size' = size, capacity' = capacity
    PROVE  IInv'
<1> DEFINE S == Holding(size)
           h == retain(Heap, w)
           g == retain([Heap EXCEPT !.memory[Ref] = w], w)
<1>1. /\ S \in SUBSET Location /\ Ref \in S /\ Ref \in Location /\ Ref \notin Box
      /\ Ref \notin Slot /\ w \in Variant /\ w \in Counted
  BY Kinds, HoldingType
<1>2. Sound(h, S, Plus(Nothing, w)) /\ h.memory = memory /\ h.stale = stale
  BY <1>1, HeapSound, RetainSound
<1>3. h = [Heap EXCEPT !.count[w] = @ + 1]
  BY <1>1 DEF retain
<1>4. g = [[Heap EXCEPT !.memory[Ref] = w] EXCEPT !.count[w] = @ + 1]
  BY <1>1 DEF retain
<1>5. /\ g.memory = [h.memory EXCEPT ![Ref] = w] /\ g.count = h.count /\ g.stale = stale
      /\ g = [memory |-> g.memory, count |-> g.count, stale |-> g.stale]
  BY <1>2, <1>3, <1>4, HeapSound DEF Heap
<1>6. h \in AnyHeap
  BY <1>2 DEF Sound
<1> HIDE DEF S, h, g
<1>7. g \in AnyHeap
  BY <1>1, <1>2, <1>5, <1>6, HeapSound DEF AnyHeap
<1>8. Sound(g, S, Plus(Nothing, h.memory[Ref]))
  BY <1>1, <1>2, <1>5, <1>7, WriteSound, NothingType
<1>9. Sound(g, S, Nothing)
  BY <1>2, <1>8, NothingType
<1>10. Spare(g, size)
  BY <1>1, <1>2, <1>5, HeapSound, Kinds DEF Spare
<1>11. HeapBecomes(g) /\ size' \in 0..MaxSize /\ capacity' \in Nat /\ size' <= capacity'
  BY HeapSound, ConstantsAssumption DEF g
<1>12. QED
  BY <1>9, <1>10, <1>11, Becomes DEF S

\* An item that is boxed: the new box holds it, and is held by its slot and by the
\* reference.
LEMMA BoxStep ==
    ASSUME IInv, memory[Ref] = Null, NEW slot \in 0..size - 1, memory[slot] \notin Box,
           NEW b \in Box, count[b] = 0,
           HeapBecomes(retain(
               [[Heap EXCEPT !.memory[b] = memory[slot], !.memory[slot] = b, !.count[b] = 1]
                EXCEPT !.memory[Ref] = b], b)),
           size' = size, capacity' = capacity
    PROVE  IInv'
<1> DEFINE S == Holding(size)
           w == memory[slot]
           h1 == retain(Heap, b)
           h2 == [h1 EXCEPT !.memory[slot] = b]
           h3 == [h2 EXCEPT !.memory[b] = w]
           h4 == retain(h3, b)
           g == retain(
               [[Heap EXCEPT !.memory[b] = memory[slot], !.memory[slot] = b, !.count[b] = 1]
                EXCEPT !.memory[Ref] = b], b)
<1>1. /\ S \in SUBSET Location /\ Ref \in S /\ Ref \in Location /\ Ref \notin Box
      /\ Ref \notin Slot /\ b \in Variant /\ b \in Counted /\ b \in Location /\ b \in S
      /\ slot \in S /\ slot \in Location /\ slot \in Slot /\ slot \notin Box /\ slot # Ref
      /\ b # Ref /\ b # slot /\ b \notin Slot /\ Null \in Variant
  BY Kinds, HoldingType, HeapSound, ItemPlace
<1>2. w \in Variant /\ w \notin Box /\ memory[b] = Null
  BY <1>1, HeapSound DEF Sound, Plain
<1>3. /\ Sound(h1, S, Plus(Nothing, b)) /\ h1.memory = memory /\ h1.stale = stale
      /\ h1 \in AnyHeap
  BY <1>1, HeapSound, RetainSound DEF Sound
<1>4. h1.count = [count EXCEPT ![b] = 1]
  <2>1. h1 = [Heap EXCEPT !.count[b] = @ + 1]
    BY <1>1 DEF retain
  <2>2. h1.count = [Heap.count EXCEPT ![b] = @ + 1]
    BY <2>1, HeapSound DEF AnyHeap
  <2>3. Heap.count = count /\ Heap.count[b] + 1 = 1
    BY HeapSound
  <2> HIDE DEF h1
  <2>4. QED
    BY <2>2, <2>3
<1>5. /\ h2 \in AnyHeap /\ h2.count = h1.count /\ h2.memory = [memory EXCEPT ![slot] = b]
      /\ h2.stale = stale
  BY <1>1, <1>3 DEF AnyHeap
<1>6. Sound(h2, S, Plus(Nothing, w))
  <2> HIDE DEF S, h1, h2
  <2>1. Sound(h2, S, Plus(Nothing, h1.memory[slot]))
    BY <1>1, <1>3, <1>5, WriteSound, NothingType
  <2>2. QED
    BY <1>3, <2>1
<1>7. /\ h3 \in AnyHeap /\ h3.count = h1.count /\ h3.stale = stale
      /\ h3.memory = [[memory EXCEPT ![slot] = b] EXCEPT ![b] = w]
  <2> HIDE DEF S, h1, h2, w
  <2>1. QED
    BY <1>1, <1>2, <1>5 DEF AnyHeap
<1>8. Sound(h3, S, Nothing)
  <2>1. h2.memory[b] = Null
    BY <1>1, <1>2, <1>5, HeapSound
  <2>2. h2.count[b] # 0
    <3> HIDE DEF S, h1, h2
    <3>1. QED
      BY <1>1, <1>4, <1>5, HeapSound
  <2>3. h3.memory = [h2.memory EXCEPT ![b] = w] /\ h3.count = h2.count
    BY <1>5, <1>7
  <2> HIDE DEF S, h1, h2, h3, w
  <2>4. Sound(h3, S, Plus(Nothing, h2.memory[b]))
    BY <1>1, <1>2, <1>6, <1>7, <2>2, <2>3, WriteSound, NothingType
  <2>5. QED
    BY <2>1, <2>4, NothingType
<1>9. /\ Sound(h4, S, Plus(Nothing, b)) /\ h4.memory = h3.memory /\ h4.stale = stale
      /\ h4 \in AnyHeap
  <2> HIDE DEF S, h1, h2, h3, w
  <2>1. QED
    BY <1>1, <1>7, <1>8, RetainSound DEF Sound
<1>10. h4.count = [count EXCEPT ![b] = 2]
  <2> HIDE DEF S, h1, h2, h3, w
  <2>1. h4 = [h3 EXCEPT !.count[b] = @ + 1]
    BY <1>1 DEF retain
  <2>2. QED
    BY <1>1, <1>4, <1>7, <2>1, HeapSound DEF AnyHeap
<1>11. /\ g.count = [count EXCEPT ![b] = 2]
       /\ g.memory = [[[memory EXCEPT ![b] = w] EXCEPT ![slot] = b] EXCEPT ![Ref] = b]
       /\ g.stale = stale
       /\ g = [memory |-> g.memory, count |-> g.count, stale |-> g.stale]
  BY <1>1, HeapSound DEF retain, Heap
<1> HIDE DEF S, h1, h2, h3, h4, g, w
<1>12. g.memory = [h4.memory EXCEPT ![Ref] = b]
  <2> DEFINE m1 == [[memory EXCEPT ![b] = w] EXCEPT ![slot] = b]
             m2 == [[memory EXCEPT ![slot] = b] EXCEPT ![b] = w]
  <2>1. h4.memory = m2 /\ g.memory = [m1 EXCEPT ![Ref] = b]
    BY <1>7, <1>9, <1>11
  <2>2. b # slot /\ b \in Location /\ slot \in Location /\ memory \in [Location -> Variant]
    BY <1>1, HeapSound
  <2>3. m1 = m2
    BY <2>2
  <2> HIDE DEF m1, m2
  <2>4. QED
    BY <2>1, <2>3
<1>13. g.count = h4.count
  BY <1>10, <1>11
<1>14. g \in AnyHeap
  BY <1>1, <1>9, <1>11, <1>12, <1>13, HeapSound DEF AnyHeap
<1>15. h4.memory[Ref] = Null
  BY <1>1, <1>2, <1>7, <1>9, HeapSound
<1>16. Sound(g, S, Plus(Nothing, h4.memory[Ref]))
  BY <1>1, <1>9, <1>12, <1>13, <1>14, WriteSound, NothingType
<1>17. Sound(g, S, Nothing)
  BY <1>15, <1>16, NothingType
<1>18. Spare(g, size)
  <2>1. ASSUME NEW i \in Slot, i >= size PROVE g.memory[i] = memory[i]
    BY <1>1, <1>2, <1>11, <2>1, HeapSound, Slots, Kinds
  <2>2. \A i \in Slot : i >= size => g.memory[i] = memory[i]
    BY <2>1
  <2>3. \A i \in Slot : i >= size /\ i \notin stale => memory[i] = Null
    BY HeapSound DEF Spare
  <2>4. g.stale = stale
    BY <1>11
  <2>5. QED
    BY <2>2, <2>3, <2>4 DEF Spare
<1>19. HeapBecomes(g) /\ size' \in 0..MaxSize /\ capacity' \in Nat /\ size' <= capacity'
  BY HeapSound, ConstantsAssumption DEF g
<1>20. QED
  BY <1>17, <1>18, <1>19, Becomes DEF S

LEMMA ReferStep ==
    ASSUME IInv, NEW i \in Int, Refer(i)
    PROVE  IInv'
<1> DEFINE slot == to_base0(i)
<1>1. slot \in 0..size - 1 /\ memory[Ref] = Null /\ size' = size /\ capacity' = capacity
  BY BaseType DEF Refer
<1>2. CASE /\ memory[slot] \in Box
           /\ HeapBecomes(retain([Heap EXCEPT !.memory[Ref] = memory[slot]], memory[slot]))
  BY <1>1, <1>2, ShareStep
<1>3. ASSUME NEW b \in Box, memory[slot] \notin Box, count[b] = 0,
             HeapBecomes(retain(
               [[Heap EXCEPT !.memory[b] = memory[slot], !.memory[slot] = b, !.count[b] = 1]
                EXCEPT !.memory[Ref] = b], b))
      PROVE  IInv'
  <2> HIDE DEF slot
  <2>1. QED
    BY <1>1, <1>3, BoxStep
<1>4. QED
  BY <1>2, <1>3 DEF Refer

\* What the first n items of a copy hold.
Where(copy, n, c) == {i \in 0..n - 1 : copy[i] = c}
Copies(copy, n) == [c \in Counted |-> Cardinality(Where(copy, n, c))]

LEMMA CopiesNext ==
    ASSUME NEW copy, NEW n \in Nat
    PROVE  /\ \A c : IsFiniteSet(Where(copy, n, c))
           /\ Copies(copy, n) \in [Counted -> Nat]
           /\ Copies(copy, 0) = Nothing
           /\ Copies(copy, n + 1) = Plus(Copies(copy, n), copy[n])
<1>1. \A k \in Nat : \A c : IsFiniteSet(Where(copy, k, c)) /\ Cardinality(Where(copy, k, c)) \in Nat
  <2>1. ASSUME NEW k \in Nat, NEW c
        PROVE  IsFiniteSet(Where(copy, k, c)) /\ Cardinality(Where(copy, k, c)) \in Nat
    <3> DEFINE U == 0..k - 1
               A == Where(copy, k, c)
    <3>1. IsFiniteSet(U)
      BY FS_Interval
    <3>2. A \in SUBSET U
      BY DEF Where
    <3> HIDE DEF A, U
    <3>3. IsFiniteSet(A)
      BY <3>1, <3>2, FS_Subset
    <3>4. QED
      BY <3>3, FS_CardinalityType DEF A
  <2>2. QED
    BY <2>1
<1>2. \A k \in Nat : Copies(copy, k) \in [Counted -> Nat]
  BY <1>1 DEF Copies
<1>3. Copies(copy, 0) = Nothing
  <2>1. \A c : Where(copy, 0, c) = {}
    BY DEF Where
  <2>2. Cardinality({}) = 0
    BY FS_EmptySet
  <2>3. QED
    BY <2>1, <2>2 DEF Copies, Nothing
<1>4. ASSUME NEW c \in Counted
      PROVE  Copies(copy, n + 1)[c] = Plus(Copies(copy, n), copy[n])[c]
  <2> DEFINE A == Where(copy, n, c)
             B == Where(copy, n + 1, c)
  <2>1. Copies(copy, n)[c] = Cardinality(A) /\ Copies(copy, n + 1)[c] = Cardinality(B)
    BY DEF Copies
  <2>2. Plus(Copies(copy, n), copy[n])[c] = IF c = copy[n] THEN Cardinality(A) + 1
                                            ELSE Cardinality(A)
    <3>1. Copies(copy, n) \in [Counted -> Nat]
      BY <1>2
    <3>2. Plus(Copies(copy, n), copy[n])[c]
            = IF c = copy[n] THEN Copies(copy, n)[c] + 1 ELSE Copies(copy, n)[c]
      BY <3>1, PlusType
    <3> HIDE DEF A, B
    <3>3. QED
      BY <2>1, <3>2
  <2>3. CASE c = copy[n]
    <3>1. B = A \cup {n} /\ n \notin A
      BY <2>3 DEF Where
    <3>2. IsFiniteSet(A)
      BY <1>1
    <3> HIDE DEF A, B
    <3>3. Cardinality(B) = Cardinality(A) + 1
      BY <3>1, <3>2, FS_AddElement
    <3>4. QED
      BY <2>1, <2>2, <2>3, <3>3
  <2>4. CASE c # copy[n]
    <3>1. B = A
      BY <2>4 DEF Where
    <3> HIDE DEF A, B
    <3>2. QED
      BY <2>1, <2>2, <2>4, <3>1
  <2>5. QED
    BY <2>3, <2>4
<1>5. Copies(copy, n + 1) = Plus(Copies(copy, n), copy[n])
  <2> DEFINE f == Copies(copy, n + 1)
             g == Plus(Copies(copy, n), copy[n])
  <2>1. f \in [Counted -> Nat] /\ g \in [Counted -> Nat]
    BY <1>2, PlusType
  <2>2. \A c \in Counted : f[c] = g[c]
    BY <1>4
  <2> HIDE DEF f, g
  <2>3. f = g
    BY <2>1, <2>2
  <2>4. QED
    BY <2>3 DEF f, g
<1>6. QED
  BY <1>1, <1>2, <1>3, <1>5

\* The copy constructor retains what the copy holds.
LEMMA CopiedSound ==
    ASSUME IInv, NEW copy, \A i \in 0..size - 1 : copy[i] \in Variant,
           NEW c, c = [i \in 0..size |-> IF i = 0 THEN Heap ELSE retain(c[i - 1], copy[i - 1])]
    PROVE  /\ Sound(c[size], Holding(size), Copies(copy, size))
           /\ c[size].memory = memory
<1> DEFINE Good(n) == /\ Sound(c[n], Holding(size), Copies(copy, n))
                      /\ c[n].memory = memory
           T == {k \in Nat : k <= size => Good(k)}
<1>1. c[0] = Heap /\ \A i \in 0..size - 1 : c[i + 1] = retain(c[i], copy[i])
  <2>1. \A i \in 0..size : c[i] = IF i = 0 THEN Heap ELSE retain(c[i - 1], copy[i - 1])
    OBVIOUS
  <2>2. c[0] = Heap
    BY <2>1, HeapSound
  <2>3. ASSUME NEW i \in 0..size - 1 PROVE c[i + 1] = retain(c[i], copy[i])
    <3>1. i + 1 \in 0..size /\ i + 1 # 0 /\ (i + 1) - 1 = i
      BY HeapSound
    <3>2. QED
      BY <2>1, <3>1
  <2>4. QED
    BY <2>2, <2>3
<1>2. 0 \in T
  BY <1>1, HeapSound, CopiesNext
<1>3. ASSUME NEW k \in Nat, k \in T PROVE k + 1 \in T
  <2>1. SUFFICES ASSUME k + 1 <= size PROVE Good(k + 1)
    OBVIOUS
  <2>2. k \in 0..size - 1 /\ k <= size
    BY <2>1, HeapSound
  <2>3. Good(k)
    BY <1>3, <2>2
  <2>4. c[k + 1] = retain(c[k], copy[k]) /\ copy[k] \in Variant
    BY <1>1, <2>2
  <2>5. /\ Sound(c[k + 1], Holding(size), Plus(Copies(copy, k), copy[k]))
        /\ c[k + 1].memory = memory
    BY <2>3, <2>4, RetainSound
  <2>6. QED
    BY <2>5, CopiesNext
<1>4. \A k \in Nat : k \in T
  <2> HIDE DEF T
  <2>1. QED
    BY <1>2, <1>3, Induction
<1>5. size \in T /\ size <= size
  <2> HIDE DEF T
  <2>1. QED
    BY <1>4, HeapSound
<1>6. QED
  BY <1>5

\* The destructor of the other array releases its items, the first one first.
Left(i) == {l \in Location : l \in Slot => i <= l /\ l < size}

LEMMA LeftNext ==
    ASSUME NEW i \in Nat
    PROVE  /\ Left(i) \in SUBSET Location /\ Box \subseteq Left(i)
           /\ Left(i + 1) = Left(i) \ {i}
<1>1. Box \subseteq Left(i)
  BY Kinds DEF Left
<1>2. \A l \in Slot : l \in Nat
  BY Slots
<1>3. \A l \in Slot : i + 1 <= l /\ l < size <=> (i <= l /\ l < size) /\ l # i
  BY <1>2
<1>4. ASSUME NEW l \in Location, l \notin Slot PROVE l # i
  <2>1. l \in Box \cup {Ref, Var}
    BY <1>4 DEF Location
  <2>2. QED
    BY <2>1, ConstantsAssumption
<1>5. QED
  BY <1>1, <1>3, <1>4 DEF Left

\* After that, the variables and the boxes are left.
Dropped(g, h, kept) ==
    /\ Sound(g, Left(size), kept) /\ Spared(g, h)
    /\ \A l \in Location : l \notin Box => g.memory[l] = memory[l]

LEMMA DroppedSound ==
    ASSUME IInv, NEW h, NEW kept, Sound(h, Holding(size), kept), h.memory = memory,
           NEW c, c = [i \in 0..size |-> IF i = 0 THEN h ELSE release(c[i - 1], memory[i - 1])]
    PROVE  Dropped(c[size], h, kept)
<1> DEFINE Good(n) == /\ Sound(c[n], Left(n), kept) /\ Spared(c[n], h)
                      /\ \A l \in Location : l \notin Box => c[n].memory[l] = memory[l]
           T == {k \in Nat : k <= size => Good(k)}
<1>1. c[0] = h /\ \A i \in 0..size - 1 : c[i + 1] = release(c[i], memory[i])
  <2>1. \A i \in 0..size : c[i] = IF i = 0 THEN h ELSE release(c[i - 1], memory[i - 1])
    OBVIOUS
  <2>2. c[0] = h
    BY <2>1, HeapSound
  <2>3. ASSUME NEW i \in 0..size - 1 PROVE c[i + 1] = release(c[i], memory[i])
    <3>1. i + 1 \in 0..size /\ i + 1 # 0 /\ (i + 1) - 1 = i
      BY HeapSound
    <3>2. QED
      BY <2>1, <3>1
  <2>4. QED
    BY <2>2, <2>3
<1>2. kept \in [Counted -> Nat]
  BY DEF Sound
<1>3. 0 \in T
  <2>1. Left(0) = Holding(size)
    <3>1. \A l \in Slot : l \in Nat
      BY Slots
    <3>2. \A l \in Slot : 0 <= l
      BY <3>1
    <3>3. QED
      BY <3>2 DEF Left, Holding
  <2>2. Good(0)
    <3>1. Sound(c[0], Left(0), kept) /\ c[0].memory = memory
      BY <1>1, <2>1
    <3>2. Spared(c[0], h)
      BY <1>1 DEF Spared
    <3>3. QED
      BY <3>1, <3>2
  <2> HIDE DEF Good
  <2>3. QED
    BY <2>2
<1>4. ASSUME NEW k \in Nat, k \in T PROVE k + 1 \in T
  <2>1. SUFFICES ASSUME k + 1 <= size PROVE Good(k + 1)
    <3> HIDE DEF Good
    <3>1. QED
      OBVIOUS
  <2>2. k \in 0..size - 1 /\ k <= size /\ k < size
    BY <2>1, HeapSound
  <2>3. Good(k)
    BY <1>4, <2>2
  <2>4. c[k + 1] = release(c[k], memory[k])
    BY <1>1, <2>2
  <2>5. k \in Slot /\ k \in Location /\ k \notin Box
    BY <2>2, HeapSound, ItemPlace
  <2>6. k \in Left(k) /\ memory[k] \in Variant
    BY <2>2, <2>5, HeapSound DEF Left
  <2>7. Sound(c[k], Left(k + 1), Plus(kept, memory[k]))
    <3>1. Sound(c[k], Left(k) \ {k}, Plus(kept, c[k].memory[k]))
      BY <2>3, <2>6, TakeSound
    <3>2. QED
      BY <2>3, <2>5, <3>1, LeftNext
  <2>8. Left(k + 1) \in SUBSET Location /\ Box \subseteq Left(k + 1)
    BY LeftNext
  <2> DEFINE g == c[k]
             v == memory[k]
             S == Left(k + 1)
  <2>9. Sound(g, S, Plus(kept, v)) /\ v \in Variant /\ S \in SUBSET Location /\ Box \subseteq S
    BY <2>6, <2>7, <2>8
  <2> HIDE DEF g, v, S
  <2>10. /\ Sound(release(g, v), S, kept) /\ Spared(release(g, v), g)
         /\ \A l \in Location : l \notin Box => release(g, v).memory[l] = g.memory[l]
    BY <1>2, <2>9, ReleaseSound
  <2>11. Spared(g, h)
    BY <2>3 DEF g
  <2>12. Spared(release(g, v), h)
    BY <2>10, <2>11, SparedTwice
  <2>13. QED
    BY <2>3, <2>4, <2>10, <2>12 DEF g, v, S
<1>5. \A k \in Nat : k \in T
  <2> HIDE DEF T
  <2>1. QED
    BY <1>3, <1>4, Induction
<1>6. size \in T /\ size <= size
  <2> HIDE DEF T
  <2>1. QED
    BY <1>5, HeapSound
<1>7. QED
  BY <1>6 DEF Dropped

LEMMA CloneStep ==
    ASSUME IInv, Clone
    PROVE  /\ IInv' /\ BoxesSame /\ memory'[Ref] = memory[Ref] /\ size' = size
           /\ \A i \in 0..size - 1 : memory'[i] = Read(memory, i) /\ memory'[i] \notin Box
<1> DEFINE copy == [l \in Location |-> IF l \notin Slot THEN memory[l]
                                       ELSE IF l < size THEN Read(memory, l) ELSE Null]
           U == 0..size - 1
<1>1. ASSUME NEW i \in U
      PROVE  copy[i] \in Variant /\ copy[i] \notin Box /\ copy[i] = Read(memory, i)
  <2>1. i \in Slot /\ i \in Location /\ i < size
    BY HeapSound, ItemPlace
  <2>2. copy[i] = Read(memory, i)
    BY <2>1
  <2>3. \A b \in Box : memory[b] \in Variant /\ memory[b] \notin Box
    BY HeapSound, Kinds DEF Sound, Plain
  <2>4. resolve(memory, i) = IF memory[i] \in Box THEN memory[i] ELSE i
    BY <2>1, <2>3, HeapSound, Resolves
  <2> HIDE DEF copy
  <2>5. QED
    BY <2>1, <2>2, <2>3, <2>4, HeapSound DEF Read
<1>2. \A i \in Slot : i >= size => copy[i] = Null
  BY HeapSound, Slots, Kinds
<1>3. \A i \in Slot : copy[i] \in Variant
  <2> HIDE DEF copy
  <2>1. \A i \in Slot : i >= size \/ i \in U
    <3>1. size \in Nat /\ \A i \in Slot : i \in Nat
      BY HeapSound, Slots
    <3>2. QED
      BY <3>1
  <2> HIDE DEF U
  <2>2. QED
    BY <1>1, <1>2, <2>1, Kinds
<1> DEFINE Is(f) == f = [i \in 0..size |->
                           IF i = 0 THEN Heap ELSE retain(f[i - 1], copy[i - 1])]
           c == CHOOSE f : Is(f)
           Js(f) == f = [i \in 0..size |->
                           IF i = 0 THEN c[size] ELSE release(f[i - 1], memory[i - 1])]
           e == CHOOSE f : Js(f)
           d == e[size]
           g == [d EXCEPT !.memory = [l \in Location |->
                                        IF l \in Slot THEN copy[l] ELSE @[l]], !.stale = {}]
<1>4. HeapBecomes(g) /\ size' = size /\ capacity' = capacity
  BY DEF Clone
<1>5. Is(c)
  <2> HIDE DEF copy
  <2>1. \E f : Is(f)
    BY HeapSound, CopiedIs
  <2> HIDE DEF Is
  <2>2. QED
    BY <2>1
<1> HIDE DEF c
<1>6. Js(e)
  <2>1. \E f : Js(f)
    BY HeapSound, DroppedIs
  <2> HIDE DEF Js
  <2>2. QED
    BY <2>1
<1> HIDE DEF e
<1>7. Sound(c[size], Holding(size), Copies(copy, size)) /\ c[size].memory = memory
  <2> HIDE DEF copy
  <2>1. QED
    BY <1>1, <1>5, CopiedSound
<1>8. /\ Sound(d, Left(size), Copies(copy, size)) /\ Spared(d, c[size])
      /\ \A l \in Location : l \notin Box => d.memory[l] = memory[l]
  <2> DEFINE h == c[size]
             k == Copies(copy, size)
  <2>1. /\ Sound(h, Holding(size), k) /\ h.memory = memory
        /\ e = [i \in 0..size |-> IF i = 0 THEN h ELSE release(e[i - 1], memory[i - 1])]
    BY <1>6, <1>7
  <2> HIDE DEF copy, h, k
  <2>2. Dropped(e[size], h, k)
    BY <2>1, DroppedSound
  <2>3. QED
    BY <2>2 DEF h, k, Dropped
<1> HIDE DEF copy, Is, Js, d
<1>9. /\ g \in AnyHeap /\ g.count = d.count /\ g.stale = {}
      /\ \A l \in Location : g.memory[l] = IF l \in Slot THEN copy[l] ELSE d.memory[l]
  <2>1. d \in AnyHeap
    BY <1>8 DEF Sound
  <2> DEFINE m == [l \in Location |-> IF l \in Slot THEN copy[l] ELSE d.memory[l]]
  <2>2. m \in [Location -> Variant]
    BY <1>3, <2>1, HeapType
  <2>3. \A l \in Location : m[l] = IF l \in Slot THEN copy[l] ELSE d.memory[l]
    OBVIOUS
  <2>4. g = [d EXCEPT !.memory = m, !.stale = {}]
    OBVIOUS
  <2> HIDE DEF m, g
  <2>5. /\ g.memory = m /\ g.count = d.count /\ g.stale = {}
        /\ g \in AnyHeap
    BY <2>1, <2>2, <2>4 DEF AnyHeap
  <2>6. QED
    BY <2>3, <2>5
<1> HIDE DEF g
<1>10. Exact(g, Holding(size), Nothing)
  <2>1. size \in Nat /\ \A l \in Slot : l \in Nat
    BY HeapSound, Slots
  <2>2. \A l \in Slot : (size <= l /\ l < size <=> FALSE) /\ (l < size => l \in U)
    BY <2>1
  <2>3. ASSUME NEW b \in Counted
        PROVE  /\ IsFiniteSet(Holds(g, Holding(size), b))
               /\ g.count[b] = Cardinality(Holds(g, Holding(size), b)) + Nothing[b]
    <3> DEFINE A == Holds(d, Left(size), b)
               B == Where(copy, size, b)
               C == Holds(g, Holding(size), b)
    <3>1. /\ IsFiniteSet(A) /\ Cardinality(A) \in Nat
          /\ d.count[b] = Cardinality(A) + Copies(copy, size)[b]
      BY <1>8, SoundCount
    <3>2. IsFiniteSet(B) /\ Copies(copy, size)[b] = Cardinality(B)
      BY HeapSound, CopiesNext DEF Copies
    <3>3. \A l \in Left(size) : l \in Location /\ l \notin Slot
      BY <2>2 DEF Left
    <3>4. \A l \in B : l \in Slot /\ l \in Location /\ l < size
      BY HeapSound, ItemPlace DEF Where
    <3>5. \A l \in Slot : l < size => l \in U
      BY <2>2
    <3>6. A \cap B = {}
      BY <3>3, <3>4 DEF Holds
    <3>7. C \subseteq A \cup B
      <4>1. ASSUME NEW l \in C PROVE l \in A \cup B
        <5>1. l \in Location /\ (l \in Slot => l < size) /\ g.memory[l] = b
          BY DEF Holds, Holding
        <5>2. CASE l \in Slot
          BY <1>9, <3>5, <5>1, <5>2 DEF Where
        <5>3. CASE l \notin Slot
          BY <1>9, <5>1, <5>3 DEF Holds, Left
        <5>4. QED
          BY <5>2, <5>3
      <4>2. QED
        BY <4>1
    <3>8. A \subseteq C
      BY <1>9, <3>3 DEF Holds, Holding
    <3>9. B \subseteq C
      BY <1>9, <3>4 DEF Where, Holds, Holding
    <3> HIDE DEF A, B, C
    <3>10. C = A \cup B
      BY <3>7, <3>8, <3>9
    <3>11. IsFiniteSet(C) /\ Cardinality(C) = Cardinality(A) + Cardinality(B) - Cardinality({})
      BY <3>1, <3>2, <3>6, <3>10, FS_Union
    <3>12. Cardinality({}) = 0 /\ Cardinality(B) \in Nat /\ Nothing[b] = 0
      BY <3>2, FS_EmptySet, FS_CardinalityType DEF Nothing
    <3>13. QED
      BY <1>9, <3>1, <3>2, <3>11, <3>12 DEF C
  <2>4. QED
    BY <2>3 DEF Exact
<1>11. Plain(g)
  <2>1. \A b \in Box : b \in Location /\ b \notin Slot
    BY Kinds
  <2>2. Plain(d)
    BY <1>8 DEF Sound
  <2>3. QED
    BY <1>9, <2>1, <2>2 DEF Plain
<1>12. Sound(g, Holding(size), Nothing)
  BY <1>9, <1>10, <1>11, NothingType DEF Sound
<1>13. Spare(g, size)
  BY <1>2, <1>9, Kinds DEF Spare
<1>14. size' \in 0..MaxSize /\ capacity' \in Nat /\ size' <= capacity'
  BY <1>4, HeapSound, ConstantsAssumption
<1>15. IInv'
  BY <1>4, <1>12, <1>13, <1>14, Becomes
<1>16. ASSUME NEW i \in U PROVE g.memory[i] = Read(memory, i) /\ g.memory[i] \notin Box
  <2>1. i \in Slot /\ i \in Location
    BY HeapSound, ItemPlace
  <2>2. QED
    BY <1>1, <1>9, <2>1
<1>17. g.memory[Ref] = memory[Ref]
  BY <1>8, <1>9, Kinds
<1>18. \A b \in Box : g.count[b] # 0 => g.memory[b] = memory[b]
  BY <1>7, <1>8, <1>9, Kinds DEF Spared
<1>19. memory' = g.memory /\ count' = g.count
  BY <1>4 DEF HeapBecomes
<1>20. QED
  BY <1>4, <1>15, <1>16, <1>17, <1>18, <1>19 DEF BoxesSame

\* What neither fails nor changes anything.
LEMMA SameStep ==
    ASSUME IInv, UNCHANGED <<memory, count, stale, size, capacity>>
    PROVE  IInv'
<1>1. HeapBecomes(Heap)
  BY DEF HeapBecomes, Heap
<1>2. /\ Sound(Heap, Holding(size'), Nothing) /\ Spare(Heap, size')
      /\ size' \in 0..MaxSize /\ capacity' \in Nat /\ size' <= capacity'
  BY HeapSound, ConstantsAssumption
<1> HIDE DEF IInv
<1>3. QED
  BY <1>1, <1>2, Becomes

LEMMA RemoveOneStep ==
    ASSUME {"last", "alias"} \subseteq Precaution, IInv, NEW v,
           list_remove_first(v) \/ list_remove_last(v)
    PROVE  IInv'
<1>1. PICK i \in Found(v) :
        /\ RemoveCarefully({i}) /\ HeapBecomes(RemoveSlot(Heap, i, size))
        /\ size' = size - 1 /\ UNCHANGED capacity
  BY DEF list_remove_first, list_remove_last, RemoveOne
<1>2. i \in 0..size - 1
  BY DEF Found
<1>3. QED
  BY <1>1, <1>2, RemoveAtStep

\* The functions that put a value in the list.
LEMMA PutStep ==
    ASSUME "stale" \in Precaution, IInv, NEW v \in Value, NEW i \in Int,
           list_append(v) \/ list_prepend(v) \/ list_insert(i, v) \/ list_sorted_insert(v)
    PROVE  IInv'
<1>1. size \in 0..size /\ 0 \in 0..size
  BY HeapSound
<1>2. CASE list_append(v)
  BY <1>1, <1>2, InsertStep DEF list_append
<1>3. CASE list_prepend(v)
  BY <1>1, <1>3, InsertStep DEF list_prepend
<1>4. CASE list_insert(i, v)
  <2>1. InRange(i) => to_base0(i) \in 0..size
    BY BaseType, HeapSound
  <2>2. QED
    BY <1>1, <1>4, <2>1, InsertStep DEF list_insert
<1>5. CASE list_sorted_insert(v)
  <2>1. size < MaxSize
    BY <1>5 DEF list_sorted_insert
  <2>2. \/ \E slot \in 0..size : InsertAtSlot(slot, v)
        \/ UNCHANGED <<memory, count, stale, size, capacity>>
    BY <1>5 DEF list_sorted_insert
  <2>3. QED
    BY <2>1, <2>2, InsertStep, SameStep
<1>6. QED
  BY <1>2, <1>3, <1>4, <1>5

------------------------------------------------------------------------------
(* The theorems. *)

LEMMA InitSound == Init => IInv
<1>1. SUFFICES ASSUME Init PROVE IInv
  OBVIOUS
<1>2. PICK o \in Object : memory = [l \in Location |-> IF l = Var THEN o ELSE Null]
  BY <1>1 DEF Init
<1>3. /\ count = [c \in Counted |-> IF c = memory[Var] THEN 1 ELSE 0]
      /\ stale = {} /\ size = 0 /\ capacity = 0
  BY <1>1 DEF Init
<1>4. /\ Var \in Location /\ Var \notin Box /\ Var \notin Slot /\ o \in Counted
      /\ o \in Variant /\ Null \notin Counted /\ Null \in Variant
      /\ Var \in Holding(0) /\ Box \subseteq Location /\ Slot \subseteq Location
      /\ Box \subseteq Counted
  BY Kinds, HoldingType DEF Counted
<1>5. /\ memory[Var] = o
      /\ \A l \in Location : l # Var => memory[l] = Null
      /\ memory \in [Location -> Variant] /\ count \in [Counted -> Int]
      /\ \A c \in Counted : count[c] = IF c = o THEN 1 ELSE 0
  <2>1. /\ memory[Var] = o
        /\ \A l \in Location : l # Var => memory[l] = Null
    BY <1>2, <1>4
  <2>2. memory \in [Location -> Variant]
    BY <1>2, <1>4
  <2>3. /\ count \in [Counted -> Int]
        /\ \A c \in Counted : count[c] = IF c = o THEN 1 ELSE 0
    BY <1>3, <2>1
  <2>4. QED
    BY <2>1, <2>2, <2>3
<1>6. Heap \in AnyHeap /\ Heap.memory = memory /\ Heap.count = count /\ Heap.stale = stale
  BY <1>3, <1>5 DEF Heap, AnyHeap
<1>7. Exact(Heap, Holding(size), Nothing)
  <2>1. ASSUME NEW c \in Counted
        PROVE  /\ IsFiniteSet(Holds(Heap, Holding(size), c))
               /\ Heap.count[c] = Cardinality(Holds(Heap, Holding(size), c)) + Nothing[c]
    <3> DEFINE A == Holds(Heap, Holding(size), c)
    <3>1. \A l \in Holding(size) : l \in Location
      BY DEF Holding
    <3>2. A = IF c = o THEN {Var} ELSE {}
      <4>1. \A l \in Holding(size) : l # Var => memory[l] # c
        BY <1>4, <1>5, <3>1
      <4>2. Var \in Holding(size) /\ memory[Var] = o
        BY <1>3, <1>4, <1>5
      <4>3. QED
        BY <1>6, <4>1, <4>2 DEF Holds
    <3>3. IsFiniteSet({Var}) /\ Cardinality({Var}) = 1
      BY FS_Singleton
    <3>4. IsFiniteSet({}) /\ Cardinality({}) = 0
      BY FS_EmptySet
    <3>5. Nothing[c] = 0
      BY DEF Nothing
    <3> HIDE DEF A
    <3>6. QED
      BY <1>5, <1>6, <3>2, <3>3, <3>4, <3>5 DEF A
  <2>2. QED
    BY <2>1 DEF Exact
<1>8. Plain(Heap)
  <2>1. \A b \in Box : b \in Location /\ b # Var /\ Null \notin Box
    BY <1>4
  <2>2. \A b \in Box : memory[b] = Null
    BY <1>5, <2>1
  <2>3. QED
    BY <1>6, <2>1, <2>2 DEF Plain
<1>9. Sound(Heap, Holding(size), Nothing)
  BY <1>6, <1>7, <1>8, NothingType DEF Sound
<1>10. Spare(Heap, size)
  BY <1>4, <1>5, <1>6 DEF Spare
<1>11. size \in 0..MaxSize /\ capacity \in Nat /\ size <= capacity
  BY <1>3, ConstantsAssumption
<1>12. QED
  BY <1>9, <1>10, <1>11 DEF IInv

LEMMA NextSound ==
    ASSUME {"stale", "last", "alias", "empty"} \subseteq Precaution, IInv, [Next]_vars
    PROVE  IInv'
<1>1. /\ {"last", "alias"} \subseteq Precaution
      /\ "stale" \in Precaution /\ "empty" \in Precaution
  OBVIOUS
<1>2. CASE UNCHANGED vars
  BY <1>2, SameStep DEF vars
<1>3. ASSUME NEW v \in AtHand, NEW i \in (-size..size + 1) \ {0},
             \/ list_append(v) \/ list_prepend(v) \/ list_insert(i, v)
             \/ list_sorted_insert(v)
             \/ list_remove(v) \/ list_remove_first(v) \/ list_remove_last(v)
             \/ list_set_item(i, v) \/ AssignRef(v)
             \/ list_remove_at(i) \/ Refer(i)
      PROVE  IInv'
  <2>1. v \in Value /\ i \in Int
    BY HeapSound DEF AtHand, Value
  <2>2. CASE \/ list_append(v) \/ list_prepend(v) \/ list_insert(i, v)
             \/ list_sorted_insert(v)
    BY <1>1, <2>1, <2>2, PutStep
  <2>3. CASE list_remove(v)
    BY <1>1, <2>3, RemoveStep
  <2>4. CASE list_remove_first(v) \/ list_remove_last(v)
    BY <1>1, <2>4, RemoveOneStep
  <2>5. CASE list_set_item(i, v)
    <3> DEFINE l == to_base0(i)
    <3>1. l \in 0..size - 1
      BY <2>1, <2>5, BaseType DEF list_set_item
    <3>2. /\ HeapBecomes(assign(retain(Heap, v), l, v))
          /\ size' = size /\ capacity' = capacity
      BY <2>5 DEF list_set_item
    <3> HIDE DEF l
    <3>3. l \in Holding(size) /\ l \notin Box /\ l < size
      BY <3>1, HeapSound, ItemPlace
    <3>4. QED
      BY <2>1, <3>2, <3>3, AssignStep
  <2>6. CASE AssignRef(v)
    BY <2>1, <2>6, AssignStep, HoldingType, Kinds DEF AssignRef
  <2>7. CASE list_remove_at(i)
    BY <1>1, <2>1, <2>7, BaseType, RemoveAtStep DEF list_remove_at
  <2>8. CASE Refer(i)
    BY <2>1, <2>8, ReferStep
  <2>9. QED
    BY <1>3, <2>2, <2>3, <2>4, <2>5, <2>6, <2>7, <2>8
<1>4. CASE list_pop
  BY <1>1, <1>4, TakeStep DEF list_pop
<1>5. CASE list_shift
  BY <1>1, <1>5, TakeStep DEF list_shift
<1>6. CASE list_clear
  BY <1>6, ClearStep
<1>7. CASE list_reverse
  BY <1>7, ReverseStep
<1>8. CASE list_sort
  BY <1>8, SortStep
<1>9. ASSUME NEW x \in {Ref, Var}, Forget(x) PROVE IInv'
  <2>1. x \in Holding(size) /\ x \notin Box /\ x \notin Slot
    BY HoldingType, Kinds
  <2>2. /\ HeapBecomes(release([Heap EXCEPT !.memory[x] = Null], memory[x]))
        /\ size' = size /\ capacity' = capacity
    BY <1>9 DEF Forget
  <2>3. QED
    BY <2>1, <2>2, DropStep
<1>10. CASE Clone
  BY <1>10, CloneStep
<1>11. QED
  BY <1>2, <1>3, <1>4, <1>5, <1>6, <1>7, <1>8, <1>9, <1>10 DEF Next

\* The functions on lists keep the storage in order, whatever the moves of its items
\* go over, if a script keeps off what the code does not look at (see Careful).
THEOREM Invariance ==
    ASSUME {"stale", "last", "alias", "empty"} \subseteq Precaution
    PROVE  Spec => []IInv
<1>1. Init => IInv
  BY InitSound
<1>2. IInv /\ [Next]_vars => IInv'
  BY NextSound
<1>3. QED
  BY <1>1, <1>2, PTL DEF Spec

\* Every function on lists leaves a list that fits its storage, and no count below
\* zero: nothing is released once too often.
THEOREM ListsTyped ==
    ASSUME {"stale", "last", "alias", "empty"} \subseteq Precaution
    PROVE  Spec => []TypeOK
<1>1. ASSUME IInv PROVE TypeOK
  <2>1. stale \subseteq Slot
    BY <1>1, HeapSound DEF AnyHeap, Heap
  <2>2. QED
    BY <1>1, <2>1, HeapSound, ConstantsAssumption DEF TypeOK
<1>2. QED
  BY <1>1, Invariance, PTL

\* Variant::retain and Variant::release, as the moves and destructors of the array call
\* them: an object, or the box of a reference, is counted once for each item, box and
\* variable that holds it.
THEOREM ItemsAreCounted ==
    ASSUME {"stale", "last", "alias", "empty"} \subseteq Precaution
    PROVE  Spec => []CountsExact
<1>1. ASSUME IInv PROVE CountsExact
  <2>1. ASSUME NEW c \in Counted
        PROVE  count[c] = Cardinality({l \in Holders : memory[l] = c})
    <3>1. Holds(Heap, Holding(size), c) = {l \in Holders : memory[l] = c}
      BY <1>1, HeapSound DEF Holds, Holding, Holders
    <3>2. Nothing[c] = 0
      BY DEF Nothing
    <3>3. /\ count[c] = Cardinality(Holds(Heap, Holding(size), c)) + Nothing[c]
          /\ Cardinality(Holds(Heap, Holding(size), c)) \in Nat
      BY <1>1, HeapSound, SoundCount
    <3>4. QED
      BY <3>1, <3>2, <3>3
  <2>2. QED
    BY <2>1 DEF CountsExact
<1>2. QED
  BY <1>1, Invariance, PTL

\* The memory that an insertion moves the last item into, which no constructor has seen,
\* is zero unless an item was destroyed there.
THEOREM SpareSlotsAreNull ==
    ASSUME {"stale", "last", "alias", "empty"} \subseteq Precaution
    PROVE  Spec => []SpareSlotsNull
<1>1. IInv => SpareSlotsNull
  BY HeapSound DEF SpareSlotsNull, Spare
<1>2. QED
  BY <1>1, Invariance, PTL
=============================================================================
