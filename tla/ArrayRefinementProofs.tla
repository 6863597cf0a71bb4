------------------------ MODULE ArrayRefinementProofs ------------------------
(* The functions on lists keep a sequence: Array implements ListAbstract, for  *)
(* all numbers, objects and references, all capacities and sizes.              *)
EXTENDS ArrayProofs

------------------------------------------------------------------------------
(* The refinement mapping, and what its operators come to. *)

Items == [k \in 1..size |-> Read(memory, k - 1)]
Mark == IF Referred = {} THEN 0 ELSE 1 + CHOOSE i \in Referred : TRUE
Kept == IF Referred = {} THEN Read(memory, Ref) ELSE Null

LEMMA Lengths ==
    ASSUME NEW n \in Nat, NEW F
    PROVE  Len([k \in 1..n |-> F[k]]) = n
OBVIOUS

LEMMA SizeIs ==
    ASSUME size \in Nat
    PROVE  List!Size = size
BY DEF List!Size

LEMMA ChangeIs ==
    ASSUME size \in Nat, size' \in Nat, NEW from \in [1..size' -> 0..size], NEW v,
           \A k \in 1..size' : Items'[k] = IF from[k] = 0 THEN v ELSE Items[from[k]],
           Mark' = IF Mark = 0 THEN 0
                   ELSE IF \E k \in 1..size' : from[k] = Mark
                   THEN Min({k \in 1..size' : from[k] = Mark}) ELSE 0,
           Kept' = IF Mark # 0 /\ Mark' = 0 THEN Items[Mark] ELSE Kept
    PROVE  List!Change(from, v)
<1>1. Items' = [k \in DOMAIN from |-> IF from[k] = 0 THEN v ELSE Items[from[k]]]
  BY DEF Items
<1>2. Mark' = IF Mark = 0 THEN 0 ELSE List!SelectInSeq(from, LAMBDA j : j = Mark)
  <2>1. Len(from) = size'
    OBVIOUS
  <2>2. List!SelectInSeq(from, LAMBDA j : j = Mark) =
          IF {i \in 1..Len(from) : from[i] = Mark} # {}
          THEN Min({i \in 1..Len(from) : from[i] = Mark}) ELSE 0
    BY DEF List!SelectInSeq, List!Min, Min
  <2>3. QED
    BY <2>1, <2>2
<1>3. QED
  BY <1>1, <1>2 DEF List!Change, Items, Mark, Kept

LEMMA InsertedAt ==
    ASSUME size \in Nat, NEW k \in 1..size + 1
    PROVE  List!InsertAt(List!Positions, k, 0)
             = [j \in 1..size + 1 |-> IF j < k THEN j ELSE IF j = k THEN 0 ELSE j - 1]
BY DEF List!InsertAt, List!Positions

------------------------------------------------------------------------------
(* The list that the memory of an array stands for. *)

\* No two items are the same reference.
Single == \A i, j \in 0..size - 1 : memory[i] \in Box /\ memory[i] = memory[j] => i = j

RInv == IInv /\ Single

\* The items, and the reference, in terms of the memory.
View ==
    /\ size \in Nat
    /\ \A k \in 1..size : Items[k] = IF memory[k - 1] \in Box THEN memory[memory[k - 1]]
                                     ELSE memory[k - 1]
    /\ Mark \in 0..size
    /\ \A k \in 1..size : Mark = k <=> memory[Ref] \in Box /\ memory[k - 1] = memory[Ref]
    /\ Kept = IF Mark # 0 THEN Null
              ELSE IF memory[Ref] \in Box THEN memory[memory[Ref]] ELSE memory[Ref]
    /\ \A k \in 1..size : memory[k - 1] \in Box => count[memory[k - 1]] # 0
    /\ memory[Ref] \in Box => count[memory[Ref]] # 0

LEMMA ReadIs ==
    ASSUME IInv, NEW l \in Location
    PROVE  Read(memory, l) = IF memory[l] \in Box THEN memory[memory[l]] ELSE memory[l]
<1>1. \A b \in Box : memory[b] \notin Box
  BY HeapSound DEF Sound, Plain
<1>2. resolve(memory, l) = IF memory[l] \in Box THEN memory[l] ELSE l
  BY <1>1, HeapSound, Resolves
<1>3. QED
  BY <1>2 DEF Read

LEMMA Seen ==
    ASSUME RInv
    PROVE  View
<1>1. IInv /\ Single /\ size \in Nat
  BY HeapSound DEF RInv
<1>2. \A i \in 0..size - 1 : i \in Location /\ i \in Holding(size)
  BY <1>1, HeapSound, ItemPlace
<1>3. Ref \in Location /\ Ref \in Holding(size) /\ Box \subseteq Counted /\ Null \notin Box
  BY Kinds, HoldingType
<1>4. ASSUME NEW k \in 1..size
      PROVE  /\ k - 1 \in 0..size - 1
             /\ Items[k] = IF memory[k - 1] \in Box THEN memory[memory[k - 1]]
                           ELSE memory[k - 1]
  <2>1. k - 1 \in 0..size - 1
    BY <1>1
  <2>2. Items[k] = Read(memory, k - 1)
    BY DEF Items
  <2>3. QED
    BY <1>1, <1>2, <2>1, <2>2, ReadIs
<1>5. ASSUME NEW l \in Holding(size), memory[l] \in Box PROVE count[memory[l]] # 0
  <2>1. Heap.memory[l] \in Counted
    BY <1>1, <1>3, <1>5, HeapSound
  <2>2. Heap.count[Heap.memory[l]] # 0
    BY <1>1, <2>1, HeapSound, HeldCount
  <2>3. QED
    BY <1>1, <2>2, HeapSound
<1>6. /\ Mark \in 0..size
      /\ \A k \in 1..size : Mark = k <=> memory[Ref] \in Box /\ memory[k - 1] = memory[Ref]
  <2>1. \A i \in Referred : i \in 0..size - 1 /\ memory[i] = memory[Ref] /\ memory[Ref] \in Box
    BY DEF Referred
  <2>2. \A i, j \in Referred : i = j
    BY <1>1, <2>1 DEF Single
  <2>3. \A k \in 1..size : k - 1 \in Referred <=> memory[Ref] \in Box /\ memory[k - 1] = memory[Ref]
    BY <1>4 DEF Referred
  <2>4. CASE Referred = {}
    <3>1. Mark = 0
      BY <2>4 DEF Mark
    <3>2. QED
      BY <1>1, <2>3, <2>4, <3>1
  <2>5. CASE Referred # {}
    <3>1. PICK i \in Referred : Mark = 1 + i
      BY <2>5 DEF Mark
    <3>2. i \in 0..size - 1
      BY <2>1
    <3>3. \A k \in 1..size : Mark = k <=> k - 1 = i
      BY <1>1, <3>1, <3>2
    <3>4. \A k \in 1..size : Mark = k <=> k - 1 \in Referred
      BY <2>2, <3>3
    <3>5. QED
      BY <1>1, <2>3, <3>1, <3>2, <3>4
  <2>6. QED
    BY <2>4, <2>5
<1>7. Kept = IF Mark # 0 THEN Null
             ELSE IF memory[Ref] \in Box THEN memory[memory[Ref]] ELSE memory[Ref]
  <2>1. Referred = {} <=> Mark = 0
    BY <1>1 DEF Mark, Referred
  <2>2. QED
    BY <1>1, <1>3, <2>1, ReadIs DEF Kept
<1>8. QED
  BY <1>1, <1>2, <1>3, <1>4, <1>5, <1>6, <1>7 DEF View

LEMMA SeenNext == RInv' => View'
BY Seen, PTL

\* A step that moves items, drops some, and puts v in new places.
Moves(from, v) ==
    /\ from \in [1..size' -> 0..size]
    /\ \A k \in 1..size' : memory'[k - 1] = IF from[k] = 0 THEN v ELSE memory[from[k] - 1]
    /\ \A j, k \in 1..size' : from[j] = from[k] /\ from[j] # 0 => j = k
    /\ memory'[Ref] = memory[Ref]
    /\ BoxesSame

LEMMA StaysSingle ==
    ASSUME RInv, IInv', NEW from, NEW v, v \notin Box, Moves(from, v)
    PROVE  RInv'
<1>1. size \in Nat /\ size' \in Nat
  BY ConstantsAssumption DEF RInv, IInv
<1>2. ASSUME NEW i \in 0..size' - 1, NEW j \in 0..size' - 1,
             memory'[i] \in Box, memory'[i] = memory'[j]
      PROVE  i = j
  <2> DEFINE x == from[i + 1]
             y == from[j + 1]
  <2>1. i + 1 \in 1..size' /\ j + 1 \in 1..size' /\ i \in Int /\ j \in Int
    <3>1. \A n \in Nat : \A k \in 0..n - 1 : k \in Int /\ k + 1 \in 1..n
      OBVIOUS
    <3>2. QED
      BY <1>1, <3>1
  <2>2. /\ x \in 0..size /\ y \in 0..size
        /\ memory'[i] = IF x = 0 THEN v ELSE memory[x - 1]
        /\ memory'[j] = IF y = 0 THEN v ELSE memory[y - 1]
        /\ (x = y /\ x # 0 => i + 1 = j + 1)
    <3> DEFINE k == i + 1
               m == j + 1
    <3>1. k \in 1..size' /\ m \in 1..size' /\ k - 1 = i /\ m - 1 = j
      BY <2>1
    <3> HIDE DEF k, m
    <3>2. /\ from[k] \in 0..size /\ from[m] \in 0..size
          /\ memory'[k - 1] = IF from[k] = 0 THEN v ELSE memory[from[k] - 1]
          /\ memory'[m - 1] = IF from[m] = 0 THEN v ELSE memory[from[m] - 1]
          /\ (from[k] = from[m] /\ from[k] # 0 => k = m)
      BY <3>1 DEF Moves
    <3>3. QED
      BY <3>1, <3>2 DEF k, m
  <2> HIDE DEF x, y
  <2>3. x # 0 /\ y # 0 /\ memory[x - 1] = memory[y - 1] /\ memory[x - 1] \in Box
    BY <1>2, <2>2
  <2>4. x - 1 \in 0..size - 1 /\ y - 1 \in 0..size - 1
    BY <1>1, <2>2, <2>3
  <2>5. x - 1 = y - 1
    BY <2>3, <2>4 DEF RInv, Single
  <2>6. QED
    BY <1>1, <2>2, <2>3, <2>5
<1>3. QED
  BY <1>2 DEF RInv, Single

LEMMA ChangeStep ==
    ASSUME RInv, IInv', NEW from, NEW v, v \notin Box, Moves(from, v)
    PROVE  RInv' /\ List!Change(from, v)
<1>1. RInv'
  BY StaysSingle
<1>2. View
  BY Seen
<1>3. View'
  BY <1>1, SeenNext
<1>4. /\ size \in Nat /\ size' \in Nat /\ Mark \in 0..size /\ Mark' \in 0..size'
      /\ from \in [1..size' -> 0..size]
      /\ memory'[Ref] = memory[Ref]
  BY <1>2, <1>3 DEF View, Moves
<1>5. \A k \in 1..size' : memory'[k - 1] = IF from[k] = 0 THEN v ELSE memory[from[k] - 1]
  BY DEF Moves
<1>6. \A k \in 1..size' : memory'[k - 1] \in Box =>
          memory'[memory'[k - 1]] = memory[memory'[k - 1]]
  BY <1>3 DEF View, Moves, BoxesSame
<1>7. ASSUME NEW k \in 1..size'
      PROVE  Items'[k] = IF from[k] = 0 THEN v ELSE Items[from[k]]
  <2>1. Items'[k] = IF memory'[k - 1] \in Box THEN memory[memory'[k - 1]]
                    ELSE memory'[k - 1]
    BY <1>3, <1>6 DEF View
  <2>2. CASE from[k] = 0
    BY <1>5, <2>1, <2>2
  <2>3. CASE from[k] # 0
    <3>1. from[k] \in 1..size
      BY <1>4, <2>3
    <3>2. memory'[k - 1] = memory[from[k] - 1]
      BY <1>5, <2>3
    <3>3. QED
      BY <1>2, <2>1, <2>3, <3>1, <3>2 DEF View
  <2>4. QED
    BY <2>2, <2>3
<1>8. \A k \in 1..size' : Mark' = k <=> Mark # 0 /\ from[k] = Mark
  <2>1. ASSUME NEW k \in 1..size' PROVE Mark' = k <=> Mark # 0 /\ from[k] = Mark
    <3>1. Mark' = k <=> memory[Ref] \in Box /\ memory'[k - 1] = memory[Ref]
      BY <1>3, <1>4 DEF View
    <3>2. CASE from[k] = 0
      BY <1>5, <3>1, <3>2
    <3>3. CASE from[k] # 0
      <4>1. from[k] \in 1..size
        BY <1>4, <3>3
      <4>2. Mark = from[k] <=> memory[Ref] \in Box /\ memory[from[k] - 1] = memory[Ref]
        BY <1>2, <4>1 DEF View
      <4>3. QED
        BY <1>5, <3>1, <3>3, <4>2
    <3>4. QED
      BY <3>2, <3>3
  <2>2. QED
    BY <2>1
<1>9. Mark' = IF Mark = 0 THEN 0
              ELSE IF \E k \in 1..size' : from[k] = Mark
              THEN Min({k \in 1..size' : from[k] = Mark}) ELSE 0
  <2>1. CASE Mark = 0
    BY <1>4, <1>8, <2>1
  <2>2. CASE Mark # 0 /\ ~ \E k \in 1..size' : from[k] = Mark
    BY <1>4, <1>8, <2>2
  <2>3. ASSUME Mark # 0, NEW k \in 1..size', from[k] = Mark
        PROVE  Mark' = Min({j \in 1..size' : from[j] = Mark})
    <3>1. Mark' = k
      BY <1>8, <2>3
    <3>2. \A j \in 1..size' : from[j] = Mark <=> j = k
      BY <1>8, <2>3, <3>1
    <3>3. {j \in 1..size' : from[j] = Mark} = {k}
      BY <3>2
    <3>4. Min({k}) = k
      BY DEF Min
    <3>5. QED
      BY <3>1, <3>3, <3>4
  <2>4. QED
    BY <2>1, <2>2, <2>3
<1>10. Kept' = IF Mark # 0 /\ Mark' = 0 THEN Items[Mark] ELSE Kept
  <2>1. memory[Ref] \in Box => memory'[memory[Ref]] = memory[memory[Ref]]
    BY <1>3, <1>4 DEF View, Moves, BoxesSame
  <2>2. Kept' = IF Mark' # 0 THEN Null
                ELSE IF memory[Ref] \in Box THEN memory[memory[Ref]] ELSE memory[Ref]
    BY <1>3, <1>4, <2>1 DEF View
  <2>3. Mark' # 0 => Mark # 0
    BY <1>4, <1>8
  <2>4. CASE Mark = 0
    BY <1>2, <2>2, <2>3, <2>4 DEF View
  <2>5. CASE Mark # 0
    <3>1. Mark \in 1..size
      BY <1>4, <2>5
    <3>2. memory[Ref] \in Box /\ memory[Mark - 1] = memory[Ref] /\ Kept = Null
      BY <1>2, <2>5, <3>1 DEF View
    <3>3. Items[Mark] = memory[memory[Ref]]
      BY <1>2, <3>1, <3>2 DEF View
    <3>4. QED
      BY <2>2, <2>5, <3>2, <3>3
  <2>6. QED
    BY <2>4, <2>5
<1>11. List!Change(from, v)
  <2>1. /\ size \in Nat /\ size' \in Nat /\ from \in [1..size' -> 0..size]
        /\ \A k \in 1..size' : Items'[k] = IF from[k] = 0 THEN v ELSE Items[from[k]]
    BY <1>4, <1>7
  <2>2. QED
    BY <2>1, <1>9, <1>10, ChangeIs
<1>12. QED
  BY <1>1, <1>11

------------------------------------------------------------------------------
(* Insertions and removals. *)

LEMMA InsertRefines ==
    ASSUME RInv, IInv', NEW slot \in 0..size, NEW v \in Value,
           size' = size + 1, Inserted(memory', slot, v)
    PROVE  RInv' /\ List!Insert(slot + 1, v)
<1> DEFINE k == slot + 1
           from == [j \in 1..size + 1 |-> IF j < k THEN j ELSE IF j = k THEN 0 ELSE j - 1]
<1>1. size \in Nat /\ slot \in Int /\ k \in 1..size + 1 /\ v \notin Box
  BY Kinds, HeapSound DEF RInv
<1>2. from \in [1..size' -> 0..size]
  BY <1>1
<1>3. \A j \in 0..size : memory'[j] = IF j < slot THEN memory[j]
                                      ELSE IF j = slot THEN v ELSE memory[j - 1]
  BY DEF Inserted
<1>4. ASSUME NEW j \in 1..size'
      PROVE  memory'[j - 1] = IF from[j] = 0 THEN v ELSE memory[from[j] - 1]
  <2>1. j - 1 \in 0..size /\ j \in 1..size + 1
    BY <1>1
  <2>2. memory'[j - 1] = IF j - 1 < slot THEN memory[j - 1]
                         ELSE IF j - 1 = slot THEN v ELSE memory[j - 1 - 1]
    BY <1>3, <2>1
  <2>3. QED
    BY <1>1, <2>1, <2>2
<1>5. \A i, j \in 1..size' : from[i] = from[j] /\ from[i] # 0 => i = j
  BY <1>1
<1>6. memory'[Ref] = memory[Ref] /\ BoxesSame
  BY Kinds DEF Inserted, BoxesSame
<1>7. from = List!InsertAt(List!Positions, k, 0)
  BY <1>1, InsertedAt
<1> HIDE DEF from
<1>8. Moves(from, v)
  BY <1>2, <1>4, <1>5, <1>6 DEF Moves
<1>9. RInv' /\ List!Change(from, v)
  BY <1>1, <1>8, ChangeStep
<1>10. QED
  BY <1>7, <1>9 DEF List!Insert, k

LEMMA DeleteRefines ==
    ASSUME RInv, IInv', NEW f, NEW gone, Picks(f, size', memory', gone), size' <= size,
           memory'[Ref] = memory[Ref], BoxesSame,
           NEW taken, \A k \in 1..size : k \in taken <=> k - 1 \in gone
    PROVE  RInv' /\ List!Delete(taken)
<1> DEFINE from == [k \in 1..size' |-> f[k - 1] + 1]
           n == size'
<1>1. size \in Nat /\ n \in Nat /\ n \in 0..size /\ Null \notin Box
  BY Kinds, ConstantsAssumption DEF RInv, IInv
<1>2. /\ f \in [0..n - 1 -> 0..size - 1]
      /\ \A k \in 0..n - 1 : f[k] \notin gone /\ memory'[k] = memory[f[k]]
      /\ \A x \in 0..size - 1 : x \notin gone => \E k \in 0..n - 1 : f[k] = x
      /\ \A j, k \in 0..n - 1 : j < k => f[j] < f[k]
  BY DEF Picks
<1> HIDE DEF n
<1>3. \A k \in 1..n : k - 1 \in 0..n - 1 /\ f[k - 1] \in 0..size - 1
  BY <1>1, <1>2
<1>4. \A k \in 1..n : from[k] = f[k - 1] + 1 /\ from[k] \in 1..size /\ from[k] - 1 = f[k - 1]
  <2>1. \A k \in 1..n : from[k] = f[k - 1] + 1
    BY DEF n
  <2> HIDE DEF from
  <2>2. \A x \in 0..size - 1 : x + 1 \in 1..size /\ x + 1 - 1 = x
    BY <1>1
  <2>3. QED
    BY <1>3, <2>1, <2>2
<1>5. from \in [1..n -> 0..size] /\ from \in [1..n -> 1..size] /\ DOMAIN from = 1..n
  BY <1>1, <1>4 DEF n
<1> HIDE DEF from
<1>6. \A j, k \in 1..n : j < k => from[j] < from[k]
  <2>1. ASSUME NEW j \in 1..n, NEW k \in 1..n, j < k PROVE from[j] < from[k]
    <3>1. j - 1 < k - 1
      BY <1>1, <2>1
    <3>2. f[j - 1] < f[k - 1]
      BY <1>2, <1>3, <3>1
    <3>3. QED
      BY <1>1, <1>3, <1>4, <3>2
  <2>2. QED
    BY <2>1
<1>7. \A j, k \in 1..n : from[j] = from[k] => j = k
  <2>1. \A j, k \in 1..n : j < k \/ k < j \/ j = k
    BY <1>1
  <2>2. \A j \in 1..n : from[j] \in Int
    BY <1>4
  <2>3. QED
    BY <1>6, <2>1, <2>2
<1>8. \A k \in 1..n : memory'[k - 1] = memory[from[k] - 1] /\ from[k] # 0
  BY <1>2, <1>3, <1>4
<1>9. Moves(from, Null)
  BY <1>5, <1>7, <1>8 DEF Moves, n
<1>10. RInv' /\ List!Change(from, Null)
  BY <1>1, <1>9, ChangeStep
<1>11. Range(from) = (1..size) \ taken
  <2>1. ASSUME NEW k \in 1..n PROVE from[k] \in (1..size) \ taken
    BY <1>2, <1>3, <1>4
  <2>2. ASSUME NEW x \in 1..size, x \notin taken PROVE \E k \in 1..n : from[k] = x
    <3>1. x - 1 \in 0..size - 1 /\ x - 1 \notin gone /\ x - 1 + 1 = x
      BY <1>1, <2>2
    <3>2. PICK k \in 0..n - 1 : f[k] = x - 1
      BY <1>2, <3>1
    <3>3. k + 1 \in 1..n /\ k + 1 - 1 = k
      BY <1>1
    <3>4. from[k + 1] = x
      BY <1>4, <3>1, <3>2, <3>3
    <3>5. QED
      BY <3>3, <3>4
  <2>3. QED
    BY <1>5, <2>1, <2>2 DEF Range
<1>12. QED
  <2>1. List!Size = size
    BY <1>1, SizeIs
  <2>2. DOMAIN Items = 1..size
    BY DEF Items
  <2>3. \A j, k \in DOMAIN from : j < k => from[j] < from[k]
    BY <1>5, <1>6
  <2>4. QED
    BY <1>1, <1>5, <1>10, <1>11, <2>1, <2>2, <2>3 DEF List!Delete, List!Range, Range, Items

LEMMA ClearRefines ==
    ASSUME RInv, IInv', size' = 0, memory'[Ref] = memory[Ref], BoxesSame
    PROVE  RInv' /\ List!Change(<<>>, Null)
<1>1. size \in Nat /\ Null \notin Box
  BY Kinds, HeapSound DEF RInv
<1>2. 1..size' = {} /\ <<>> \in [{} -> 0..size]
  OBVIOUS
<1>3. Moves(<<>>, Null)
  BY <1>2 DEF Moves
<1>4. QED
  BY <1>1, <1>3, ChangeStep

------------------------------------------------------------------------------
(* Items that change places, or stay. *)

LEMMA PermuteRefines ==
    ASSUME RInv, IInv', NEW p \in [0..size - 1 -> 0..size - 1], IsInjective(p), Permute(p),
           UNCHANGED <<count, stale, size, capacity>>
    PROVE  RInv' /\ List!Change([k \in 1..size |-> p[k - 1] + 1], Null)
<1> DEFINE from == [k \in 1..size |-> p[k - 1] + 1]
<1>1. size \in Nat /\ Null \notin Box /\ size' = size /\ size <= MaxSize
  BY Kinds, HeapSound DEF RInv
<1>2. DOMAIN p = 0..size - 1 /\ \A i \in 0..size - 1 : p[i] \in 0..size - 1
  OBVIOUS
<1>3. \A k \in 1..size : k - 1 \in 0..size - 1
  BY <1>1
<1>4. \A k \in 1..size : /\ from[k] = p[k - 1] + 1 /\ from[k] \in 1..size
                         /\ from[k] - 1 = p[k - 1]
  <2>1. \A k \in 1..size : from[k] = p[k - 1] + 1
    OBVIOUS
  <2> HIDE DEF from
  <2>2. \A x \in 0..size - 1 : x + 1 \in 1..size /\ x + 1 - 1 = x
    BY <1>1
  <2>3. \A k \in 1..size : p[k - 1] \in 0..size - 1
    BY <1>2, <1>3
  <2>4. QED
    BY <2>1, <2>2, <2>3
<1>5. from \in [1..size' -> 0..size]
  BY <1>1, <1>4
<1> HIDE DEF from
<1>6. \A i \in 0..size - 1 : memory'[i] = memory[p[i]]
  <2>1. \A i \in 0..size - 1 : i \in Location
    BY <1>1, ItemPlace
  <2>2. QED
    BY <1>2, <2>1 DEF Permute
<1>7. \A l \in Location \ Slot : memory'[l] = memory[l]
  <2>1. \A l \in Location \ Slot : l \notin DOMAIN p
    BY <1>1, <1>2, ItemPlace
  <2>2. QED
    BY <2>1 DEF Permute
<1>8. memory'[Ref] = memory[Ref] /\ BoxesSame
  BY <1>7, Kinds DEF BoxesSame
<1>9. ASSUME NEW j \in 1..size, NEW k \in 1..size, from[j] = from[k] PROVE j = k
  <2>1. p[j - 1] = p[k - 1]
    BY <1>4, <1>9
  <2>2. j - 1 = k - 1
    BY <1>2, <1>3, <2>1 DEF IsInjective
  <2>3. QED
    BY <1>1, <2>2
<1>10. \A k \in 1..size : memory'[k - 1] = memory[from[k] - 1] /\ from[k] # 0
  BY <1>3, <1>4, <1>6
<1>11. Moves(from, Null)
  BY <1>1, <1>5, <1>8, <1>9, <1>10 DEF Moves
<1>12. RInv' /\ List!Change(from, Null)
  BY <1>1, <1>11, ChangeStep
<1>13. QED
  BY <1>12 DEF from

LEMMA SameRefines ==
    ASSUME RInv, UNCHANGED <<memory, count, stale, size, capacity>>
    PROVE  /\ RInv' /\ UNCHANGED <<Items, Mark, Kept>>
           /\ \A v : v \notin Box => List!Change(List!Positions, v)
<1>1. IInv'
  BY SameStep DEF RInv
<1>2. size \in Nat
  BY HeapSound DEF RInv
<1>3. List!Positions = [k \in 1..size |-> k]
  BY DEF List!Positions
<1>4. \A v : Moves(List!Positions, v)
  BY <1>2, <1>3 DEF Moves, BoxesSame
<1>5. RInv'
  BY <1>1 DEF RInv, Single
<1>6. \A v : v \notin Box => List!Change(List!Positions, v)
  BY <1>1, <1>4, ChangeStep
<1>7. UNCHANGED <<Items, Mark, Kept>>
  BY DEF Items, Mark, Kept, Referred
<1>8. QED
  BY <1>5, <1>6, <1>7

------------------------------------------------------------------------------
(* Items and references that are written. *)

LEMMA WriteRefines ==
    ASSUME RInv, IInv', size' = size, NEW v \in Value,
           NEW l \in (0..size - 1) \cup {Ref},
           \A x \in Location : memory'[x] = IF x = Target(Heap, l) THEN v ELSE memory[x]
    PROVE  /\ RInv' /\ Mark' = Mark
           /\ l # Ref => Items' = [Items EXCEPT ![l + 1] = v] /\ Kept' = Kept
           /\ l = Ref => IF Mark = 0 THEN Kept' = v /\ Items' = Items
                         ELSE Items' = [Items EXCEPT ![Mark] = v] /\ Kept' = Kept
<1> DEFINE P == (0..size - 1) \cup {Ref}
           Place(x) == IF memory[x] \in Box THEN memory[x] ELSE x
           t == Target(Heap, l)
<1>1. /\ size \in Nat /\ v \notin Box /\ IInv /\ Single
      /\ Box \subseteq Location
      /\ \A x \in P : x \in Location /\ x \notin Box
      /\ \A x \in 0..size - 1 : x # Ref
  BY Kinds, HeapSound, ItemPlace DEF RInv
<1>2. t = Place(l)
  BY <1>1, HeapSound DEF Target
<1>3. \A x \in Location : memory'[x] = IF x = t THEN v ELSE memory[x]
  OBVIOUS
<1> HIDE DEF t
<1>4. \A x \in P : memory'[x] \in Box \/ memory[x] \in Box => memory'[x] = memory[x]
  BY <1>1, <1>2, <1>3
<1> DEFINE Old(x) == IF memory[x] \in Box THEN memory[memory[x]] ELSE memory[x]
           New(x) == IF memory'[x] \in Box THEN memory'[memory'[x]] ELSE memory'[x]
<1>5. ASSUME NEW x \in P PROVE New(x) = IF Place(x) = t THEN v ELSE Old(x)
  <2>1. CASE memory[x] \in Box
    BY <1>1, <1>3, <1>4, <2>1
  <2>2. CASE memory[x] \notin Box
    BY <1>1, <1>3, <1>4, <2>2
  <2>3. QED
    BY <2>1, <2>2
<1>6. \A j, k \in 0..size - 1 : Place(j) = Place(k) => j = k
  BY <1>1 DEF Single
<1>7. RInv'
  BY <1>1, <1>4 DEF RInv, Single
<1>8. View /\ View'
  BY <1>7, Seen, SeenNext
<1>9. \A k \in 1..size : k - 1 \in 0..size - 1 /\ k - 1 \in P
  BY <1>1
<1>10. Mark' = Mark
  <2>1. \A k \in 1..size : Mark' = k <=> Mark = k
    <3>1. /\ \A k \in 1..size : Mark = k <=> memory[Ref] \in Box /\ memory[k - 1] = memory[Ref]
          /\ \A k \in 1..size : Mark' = k <=> memory'[Ref] \in Box
                                               /\ memory'[k - 1] = memory'[Ref]
      BY <1>8 DEF View
    <3>2. Ref \in P
      OBVIOUS
    <3> HIDE DEF P
    <3>3. \A k \in 1..size : /\ k - 1 \in P /\ Ref \in P
                             /\ (memory'[k - 1] \in Box \/ memory[k - 1] \in Box =>
                                    memory'[k - 1] = memory[k - 1])
                             /\ (memory'[Ref] \in Box \/ memory[Ref] \in Box =>
                                    memory'[Ref] = memory[Ref])
      BY <1>4, <1>9, <3>2
    <3>4. QED
      BY <3>1, <3>3
  <2>2. Mark \in 0..size /\ Mark' \in 0..size
    BY <1>8 DEF View
  <2>3. QED
    BY <1>1, <2>1, <2>2
<1>11. \A k \in 1..size : Items[k] = Old(k - 1) /\ Items'[k] = New(k - 1)
  BY <1>8 DEF View
<1>12. /\ Kept = IF Mark # 0 THEN Null ELSE Old(Ref)
       /\ Kept' = IF Mark # 0 THEN Null ELSE New(Ref)
  BY <1>8, <1>10 DEF View
<1>13. DOMAIN Items = 1..size /\ DOMAIN Items' = 1..size
  BY DEF Items
<1>14. Items = [k \in 1..size |-> Items[k]] /\ Items' = [k \in 1..size |-> Items'[k]]
  BY DEF Items
<1>15. Mark \in 0..size /\ \A k \in 1..size : Mark = k <=> memory[Ref] \in Box /\ memory[k - 1] = memory[Ref]
  BY <1>8 DEF View
<1> HIDE DEF Old, New, P
<1>16. \A k \in 1..size : Items'[k] = IF Place(k - 1) = t THEN v ELSE Items[k]
  BY <1>5, <1>9, <1>11
<1>17. ASSUME l # Ref PROVE Items' = [Items EXCEPT ![l + 1] = v] /\ Kept' = Kept
  <2>1. l \in 0..size - 1 /\ l + 1 \in 1..size /\ l + 1 - 1 = l
    BY <1>1, <1>17 DEF P
  <2>2. \A k \in 1..size : Place(k - 1) = t <=> k = l + 1
    BY <1>1, <1>2, <1>6, <1>9, <2>1
  <2>3. Items' = [Items EXCEPT ![l + 1] = v]
    BY <1>13, <1>14, <1>16, <2>1, <2>2
  <2>4. ASSUME Mark = 0 PROVE Place(Ref) # t
    <3>1. memory[l + 1 - 1] = memory[Ref] => memory[Ref] \notin Box
      BY <1>15, <2>1, <2>4
    <3>2. QED
      BY <1>1, <1>2, <1>17, <2>1, <3>1 DEF P
  <2>5. Ref \in P
    BY DEF P
  <2>6. QED
    BY <1>5, <1>12, <2>3, <2>4, <2>5
<1>18. ASSUME l = Ref
       PROVE  IF Mark = 0 THEN Kept' = v /\ Items' = Items
              ELSE Items' = [Items EXCEPT ![Mark] = v] /\ Kept' = Kept
  <2>1. Ref \in P /\ t = Place(Ref)
    BY <1>2, <1>18 DEF P
  <2>2. \A k \in 1..size : Place(k - 1) = t <=> k = Mark
    BY <1>1, <1>9, <1>15, <2>1
  <2>3. CASE Mark = 0
    <3>1. \A k \in 1..size : k # Mark
      BY <2>3
    <3>2. Items' = Items
      BY <1>14, <1>16, <2>2, <3>1
    <3>3. Kept' = v
      BY <1>5, <1>12, <2>1, <2>3
    <3>4. QED
      BY <2>3, <3>2, <3>3
  <2>4. CASE Mark # 0
    <3>1. Items' = [Items EXCEPT ![Mark] = v]
      BY <1>13, <1>14, <1>15, <1>16, <2>2
    <3>2. QED
      BY <1>12, <2>4, <3>1
  <2>5. QED
    BY <2>3, <2>4
<1>19. QED
  BY <1>7, <1>10, <1>17, <1>18

\* A reference is taken: of the item in a slot that is a reference already, or is boxed.
LEMMA LinkRefines ==
    ASSUME RInv, IInv', size' = size, memory[Ref] = Null, NEW slot \in 0..size - 1,
           NEW w \in Box, memory'[Ref] = w, memory'[slot] = w,
           \A i \in 0..size - 1 : i # slot => memory'[i] = memory[i] /\ memory[i] # w,
           \A b \in Box : b # w => memory'[b] = memory[b],
           memory'[w] = IF memory[slot] \in Box THEN memory[memory[slot]] ELSE memory[slot]
    PROVE  RInv' /\ Items' = Items /\ Mark' = slot + 1 /\ Kept' = Kept
<1>1. size \in Nat /\ Null \notin Box /\ Single
  BY Kinds, HeapSound DEF RInv
<1>2. RInv'
  <2>1. ASSUME NEW i \in 0..size - 1, NEW j \in 0..size - 1,
               memory'[i] \in Box, memory'[i] = memory'[j]
        PROVE  i = j
    <3>1. CASE i = slot
      BY <2>1, <3>1
    <3>2. CASE j = slot
      BY <2>1, <3>2
    <3>3. CASE i # slot /\ j # slot
      BY <1>1, <2>1, <3>3 DEF Single
    <3>4. QED
      BY <3>1, <3>2, <3>3
  <2>2. QED
    BY <2>1 DEF RInv, Single
<1>3. View /\ View'
  BY <1>2, Seen, SeenNext
<1>4. \A k \in 1..size : k - 1 \in 0..size - 1
  BY <1>1
<1>5. slot + 1 \in 1..size /\ slot + 1 - 1 = slot
  BY <1>1
<1>6. Mark' = slot + 1
  <2>1. \A k \in 1..size : Mark' = k <=> memory'[Ref] \in Box /\ memory'[k - 1] = memory'[Ref]
    BY <1>3 DEF View
  <2>2. QED
    BY <1>5, <2>1
<1>7. Mark = 0
  BY <1>1, <1>3 DEF View
<1>8. Kept = Null /\ Kept' = Null
  <2>1. Mark' # 0
    BY <1>1, <1>6
  <2>2. QED
    BY <1>1, <1>3, <1>7, <2>1 DEF View
<1>9. ASSUME NEW k \in 1..size PROVE Items'[k] = Items[k]
  <2>1. /\ Items[k] = IF memory[k - 1] \in Box THEN memory[memory[k - 1]] ELSE memory[k - 1]
        /\ Items'[k] = IF memory'[k - 1] \in Box THEN memory'[memory'[k - 1]]
                       ELSE memory'[k - 1]
    BY <1>3 DEF View
  <2>2. CASE k - 1 = slot
    BY <2>1, <2>2
  <2>3. CASE k - 1 # slot
    <3>1. memory'[k - 1] = memory[k - 1] /\ memory[k - 1] # w
      BY <1>4, <2>3
    <3>2. QED
      BY <2>1, <3>1
  <2>4. QED
    BY <2>2, <2>3
<1>10. Items' = Items
  BY <1>9 DEF Items
<1>11. QED
  BY <1>2, <1>6, <1>8, <1>10

LEMMA ReferRefines ==
    ASSUME RInv, NEW i \in Int, Refer(i)
    PROVE  /\ InRange(i) /\ RInv' /\ Items' = Items /\ Mark' = to_base0(i) + 1
           /\ Kept' = Kept
<1> DEFINE slot == to_base0(i)
<1>1. IInv /\ Single /\ IInv'
  BY ReferStep DEF RInv
<1>2. slot \in 0..size - 1 /\ memory[Ref] = Null /\ size' = size /\ InRange(i)
  BY <1>1, BaseType DEF Refer
<1>3. \/ /\ memory[slot] \in Box
         /\ HeapBecomes(retain([Heap EXCEPT !.memory[Ref] = memory[slot]], memory[slot]))
      \/ /\ memory[slot] \notin Box
         /\ \E b \in Box :
              /\ count[b] = 0
              /\ HeapBecomes(retain(
                    [[Heap EXCEPT !.memory[b] = memory[slot], !.memory[slot] = b, !.count[b] = 1]
                     EXCEPT !.memory[Ref] = b], b))
  BY DEF Refer
<1> HIDE DEF slot
<1>4. /\ \A x \in 0..size - 1 : x \in Location /\ x \notin Box /\ x # Ref
      /\ Ref \in Location /\ Ref \notin Box /\ Box \subseteq Location /\ Box \subseteq Counted
      /\ memory \in [Location -> Variant]
  BY <1>1, Kinds, HeapSound, ItemPlace
<1>5. \A x \in 0..size - 1 : memory[x] \in Box => count[memory[x]] # 0
  <2>1. \A k \in 1..size : memory[k - 1] \in Box => count[memory[k - 1]] # 0
    BY Seen DEF View
  <2>2. \A x \in 0..size - 1 : x + 1 \in 1..size /\ x + 1 - 1 = x
    BY <1>1, HeapSound
  <2>3. QED
    BY <2>1, <2>2
<1>6. CASE /\ memory[slot] \in Box
           /\ HeapBecomes(retain([Heap EXCEPT !.memory[Ref] = memory[slot]], memory[slot]))
  <2> DEFINE w == memory[slot]
  <2>1. memory' = [memory EXCEPT ![Ref] = w]
    BY <1>4, <1>6 DEF HeapBecomes, retain, Heap
  <2>2. w \in Box
    BY <1>6
  <2>3. \A x \in 0..size - 1 : x # slot => memory'[x] = memory[x] /\ memory[x] # w
    BY <1>1, <1>2, <1>4, <2>1, <2>2 DEF Single
  <2>4. /\ memory'[Ref] = w /\ memory'[slot] = w /\ memory'[w] = memory[w]
        /\ \A b \in Box : b # w => memory'[b] = memory[b]
    BY <1>2, <1>4, <2>1, <2>2
  <2>5. memory'[w] = IF memory[slot] \in Box THEN memory[memory[slot]] ELSE memory[slot]
    BY <2>2, <2>4
  <2> HIDE DEF w
  <2>6. RInv' /\ Items' = Items /\ Mark' = slot + 1 /\ Kept' = Kept
    BY <1>1, <1>2, <2>2, <2>3, <2>4, <2>5, LinkRefines
  <2>7. QED
    BY <1>2, <2>6 DEF slot
<1>7. ASSUME NEW w \in Box, memory[slot] \notin Box, count[w] = 0,
             HeapBecomes(retain(
               [[Heap EXCEPT !.memory[w] = memory[slot], !.memory[slot] = w, !.count[w] = 1]
                EXCEPT !.memory[Ref] = w], w))
      PROVE  RInv' /\ Items' = Items /\ Mark' = slot + 1 /\ Kept' = Kept
  <2>1. memory' = [[[memory EXCEPT ![w] = memory[slot]] EXCEPT ![slot] = w] EXCEPT ![Ref] = w]
    BY <1>4, <1>7 DEF HeapBecomes, retain, Heap
  <2>2. w \in Location /\ w # slot /\ w # Ref /\ slot \in Location /\ slot # Ref
    BY <1>2, <1>4
  <2>3. \A x \in Location : memory'[x] = IF x = Ref \/ x = slot THEN w
                                         ELSE IF x = w THEN memory[slot] ELSE memory[x]
    BY <1>4, <2>1, <2>2
  <2>4. \A x \in 0..size - 1 : x # slot => memory'[x] = memory[x] /\ memory[x] # w
    BY <1>4, <1>5, <1>7, <2>3
  <2>5. /\ memory'[Ref] = w /\ memory'[slot] = w /\ memory'[w] = memory[slot]
        /\ \A b \in Box : b # w => memory'[b] = memory[b]
    BY <1>2, <1>4, <2>2, <2>3
  <2>6. memory'[w] = IF memory[slot] \in Box THEN memory[memory[slot]] ELSE memory[slot]
    BY <1>7, <2>5
  <2>7. QED
    BY <1>1, <1>2, <2>4, <2>5, <2>6, LinkRefines
<1>8. QED
  BY <1>2, <1>3, <1>6, <1>7 DEF slot

\* The items stay where they are; a variable is dropped.
LEMMA KeepsItems ==
    ASSUME RInv, IInv', size' = size, BoxesSame,
           \A i \in 0..size - 1 : memory'[i] = memory[i]
    PROVE  /\ RInv' /\ Items' = Items
           /\ memory'[Ref] = memory[Ref] => Mark' = Mark /\ Kept' = Kept
           /\ memory'[Ref] \notin Box => Mark' = 0 /\ Kept' = memory'[Ref]
<1>1. RInv' /\ size \in Nat
  BY HeapSound DEF RInv, Single
<1>2. View /\ View'
  BY <1>1, Seen, SeenNext
<1>3. \A k \in 1..size : memory'[k - 1] = memory[k - 1]
  BY <1>1
<1>4. Items' = Items
  <2>1. ASSUME NEW k \in 1..size PROVE Items'[k] = Items[k]
    <3>1. memory'[k - 1] \in Box => memory'[memory'[k - 1]] = memory[memory'[k - 1]]
      BY <1>2 DEF View, BoxesSame
    <3>2. QED
      BY <1>2, <1>3, <3>1 DEF View
  <2>2. QED
    BY <2>1 DEF Items
<1>5. ASSUME memory'[Ref] = memory[Ref] PROVE Mark' = Mark /\ Kept' = Kept
  <2>1. \A k \in 1..size : Mark' = k <=> Mark = k
    BY <1>2, <1>3, <1>5 DEF View
  <2>2. Mark \in 0..size /\ Mark' \in 0..size
    BY <1>2 DEF View
  <2>3. Mark' = Mark
    BY <1>1, <2>1, <2>2
  <2>4. memory[Ref] \in Box => memory'[memory[Ref]] = memory[memory[Ref]]
    BY <1>2, <1>5 DEF View, BoxesSame
  <2>5. QED
    BY <1>2, <1>5, <2>3, <2>4 DEF View
<1>6. ASSUME memory'[Ref] \notin Box PROVE Mark' = 0 /\ Kept' = memory'[Ref]
  BY <1>1, <1>2, <1>6 DEF View
<1>7. QED
  BY <1>1, <1>4, <1>5, <1>6

LEMMA ForgetRefines ==
    ASSUME RInv, NEW x \in {Ref, Var}, Forget(x)
    PROVE  /\ RInv' /\ Items' = Items
           /\ x = Ref => Mark' = 0 /\ Kept' = Null
           /\ x = Var => Mark' = Mark /\ Kept' = Kept
<1>1. IInv /\ x \in Holding(size) /\ x \notin Box /\ x \notin Slot /\ x \in Location
      /\ Ref \in Location \ Box /\ Ref # Var /\ Null \notin Box
  BY HoldingType, Kinds DEF RInv
<1>2. /\ HeapBecomes(release([Heap EXCEPT !.memory[x] = Null], memory[x]))
      /\ size' = size /\ capacity' = capacity
  BY DEF Forget
<1>3. /\ IInv' /\ BoxesSame
      /\ \A l \in Location \ Box : memory'[l] = IF l = x THEN Null ELSE memory[l]
  BY <1>1, <1>2, DropStep
<1>4. \A i \in 0..size - 1 : memory'[i] = memory[i]
  BY <1>1, <1>3, HeapSound, ItemPlace
<1>5. memory'[Ref] = IF Ref = x THEN Null ELSE memory[Ref]
  BY <1>1, <1>3
<1>6. QED
  BY <1>1, <1>2, <1>3, <1>4, <1>5, KeepsItems

LEMMA CloneRefines ==
    ASSUME RInv, Clone
    PROVE  /\ RInv' /\ Items' = Items /\ Mark' = 0
           /\ Kept' = IF Mark = 0 THEN Kept ELSE Items[Mark]
<1>1. /\ IInv' /\ BoxesSame /\ memory'[Ref] = memory[Ref] /\ size' = size
      /\ \A i \in 0..size - 1 : memory'[i] = Read(memory, i) /\ memory'[i] \notin Box
  BY CloneStep DEF RInv
<1>2. RInv' /\ size \in Nat
  BY <1>1, HeapSound DEF RInv, Single
<1>3. View /\ View'
  BY <1>2, Seen, SeenNext
<1>4. \A k \in 1..size : k - 1 \in 0..size - 1
  BY <1>2
<1>5. Items' = Items
  <2>1. ASSUME NEW k \in 1..size PROVE Items'[k] = Items[k]
    <3>1. memory'[k - 1] = Read(memory, k - 1) /\ memory'[k - 1] \notin Box
      BY <1>1, <1>4
    <3>2. Items'[k] = memory'[k - 1]
      BY <1>1, <1>3, <3>1 DEF View
    <3>3. Items[k] = Read(memory, k - 1)
      BY DEF Items
    <3>4. QED
      BY <3>1, <3>2, <3>3
  <2>2. QED
    BY <1>1, <2>1 DEF Items
<1>6. Mark' = 0
  <2>1. \A k \in 1..size : memory'[k - 1] \notin Box
    BY <1>1, <1>4
  <2>2. \A k \in 1..size : Mark' # k
    BY <1>1, <1>3, <2>1 DEF View
  <2>3. Mark' \in 0..size
    BY <1>1, <1>3 DEF View
  <2>4. QED
    BY <1>2, <2>2, <2>3
<1>7. Kept' = IF Mark = 0 THEN Kept ELSE Items[Mark]
  <2>1. Kept' = IF memory[Ref] \in Box THEN memory[memory[Ref]] ELSE memory[Ref]
    <3>1. memory[Ref] \in Box => memory'[memory[Ref]] = memory[memory[Ref]]
      BY <1>1, <1>3 DEF View, BoxesSame
    <3>2. QED
      BY <1>1, <1>3, <1>6, <3>1 DEF View
  <2>2. CASE Mark = 0
    BY <1>3, <2>1, <2>2 DEF View
  <2>3. CASE Mark # 0
    <3>1. Mark \in 1..size
      BY <1>2, <1>3, <2>3 DEF View
    <3>2. memory[Ref] \in Box /\ memory[Mark - 1] = memory[Ref]
      BY <1>3, <3>1 DEF View
    <3>3. Items[Mark] = memory[memory[Ref]]
      BY <1>3, <3>1, <3>2 DEF View
    <3>4. QED
      BY <2>1, <2>3, <3>2, <3>3
  <2>4. QED
    BY <2>2, <2>3
<1>8. QED
  BY <1>2, <1>5, <1>6, <1>7

------------------------------------------------------------------------------
(* Each function on lists is one of a sequence. *)

LEMMA PositionIs ==
    ASSUME RInv, NEW i \in Int, InRange(i)
    PROVE  /\ i \in List!Index /\ List!Position(i) = to_base0(i) + 1
           /\ to_base0(i) \in 0..size - 1
<1>1. size \in Nat /\ List!Size = size
  BY HeapSound, SizeIs DEF RInv
<1>2. QED
  BY <1>1, BaseType DEF RInv, List!Index, List!Position, InRange, to_base0

LEMMA InsertedIs ==
    ASSUME "stale" \in Precaution, RInv, size < MaxSize, NEW slot \in 0..size,
           NEW v \in Value, InsertAtSlot(slot, v)
    PROVE  RInv' /\ List!Insert(slot + 1, v)
<1>1. IInv' /\ size' = size + 1 /\ Inserted(memory', slot, v)
  BY InsertStep DEF RInv
<1>2. QED
  BY <1>1, InsertRefines

LEMMA InsertNext ==
    ASSUME "stale" \in Precaution, RInv, NEW v \in Value,
           NEW i \in (-size..size + 1) \ {0},
           list_append(v) \/ list_prepend(v) \/ list_insert(i, v)
    PROVE  RInv' /\ List!AbstractInsert
<1>1. size \in Nat /\ List!Size = size /\ v \in List!Value
  BY HeapSound, SizeIs DEF RInv, List!Value, Value
<1>2. CASE list_append(v)
  <2>1. RInv' /\ List!Insert(size + 1, v) /\ call' = <<"append", v>>
    BY <1>1, <1>2, InsertedIs DEF list_append
  <2>2. QED
    BY <1>1, <2>1 DEF List!AbstractInsert
<1>3. CASE list_prepend(v)
  <2>1. 0 \in 0..size /\ 0 + 1 = 1
    BY <1>1
  <2>2. RInv' /\ List!Insert(0 + 1, v) /\ call' = <<"prepend", v>>
    BY <1>3, <2>1, InsertedIs DEF list_prepend
  <2>3. List!Insert(1, v)
    BY <2>1, <2>2
  <2>4. QED
    BY <1>1, <2>2, <2>3 DEF List!AbstractInsert
<1>4. CASE list_insert(i, v) /\ i > size
  <2>1. i = size + 1 /\ ~ InRange(i)
    BY <1>1, <1>4 DEF InRange
  <2>2. RInv' /\ List!Insert(size + 1, v) /\ call' = <<"insert", i, v>>
    BY <1>1, <1>4, <2>1, InsertedIs DEF list_insert
  <2>3. QED
    BY <1>1, <2>1, <2>2 DEF List!AbstractInsert
<1>5. CASE list_insert(i, v) /\ ~(i > size)
  <2> DEFINE slot == to_base0(i)
  <2>1. InRange(i) /\ InsertAtSlot(slot, v) /\ size < MaxSize /\ call' = <<"insert", i, v>>
    BY <1>5 DEF list_insert
  <2>2. i \in List!Index /\ List!Position(i) = slot + 1 /\ slot \in 0..size
    BY <1>1, <2>1, PositionIs
  <2> HIDE DEF slot
  <2>3. RInv' /\ List!Insert(slot + 1, v)
    BY <2>1, <2>2, InsertedIs
  <2>4. QED
    BY <1>1, <2>1, <2>2, <2>3 DEF List!AbstractInsert
<1>6. QED
  BY <1>2, <1>3, <1>4, <1>5

LEMMA SortedInsertNext ==
    ASSUME {"stale", "compare"} \subseteq Precaution, RInv, NEW v \in Value,
           list_sorted_insert(v)
    PROVE  RInv' /\ List!AbstractInsert
<1>1. /\ size \in Nat /\ List!Size = size /\ v \in List!Value /\ v \notin Box
      /\ v \in Int /\ size < MaxSize
  BY Kinds, HeapSound, SizeIs, ConstantsAssumption
  DEF RInv, List!Value, Value, list_sorted_insert
<1>2. \A i \in 0..size - 1 : Read(memory, i) \in Int
  BY ConstantsAssumption DEF list_sorted_insert, Ordered
<1>3. PICK slot \in 0..size :
        /\ \A i \in 0..size - 1 : (Read(memory, i) < v) = (i < slot)
        /\ IF slot = size \/ v < Read(memory, slot)
           THEN InsertAtSlot(slot, v)
           ELSE UNCHANGED <<memory, count, stale, size, capacity>>
  BY DEF list_sorted_insert, Careful
<1> DEFINE k == slot + 1
<1>4. k \in 1..List!Size + 1
  BY <1>1
<1>5. \A j \in 1..size : Items[j] = Read(memory, j - 1) /\ j - 1 \in 0..size - 1
  BY <1>1 DEF Items
<1>6. \A j \in DOMAIN Items : (Items[j] < v) = (j < k)
  <2>1. ASSUME NEW j \in 1..size PROVE (Items[j] < v) = (j < k)
    <3>1. (Read(memory, j - 1) < v) = (j - 1 < slot)
      BY <1>3, <1>5
    <3>2. (j - 1 < slot) = (j < k)
      BY <1>1
    <3>3. QED
      BY <1>5, <3>1, <3>2
  <2>2. DOMAIN Items = 1..size
    BY DEF Items
  <2>3. QED
    BY <2>1, <2>2
<1>7. /\ RInv'
      /\ IF k <= List!Size /\ Items[k] = v THEN List!Change(List!Positions, v)
         ELSE List!Insert(k, v)
  <2>1. slot < size => /\ Items[k] = Read(memory, slot) /\ Read(memory, slot) \in Int
                       /\ ~ (Read(memory, slot) < v)
    <3>1. ASSUME slot < size PROVE slot \in 0..size - 1 /\ k \in 1..size /\ k - 1 = slot
      BY <1>1, <3>1
    <3>2. QED
      BY <1>2, <1>3, <1>5, <3>1
  <2>2. k <= List!Size <=> slot < size
    BY <1>1
  <2>3. CASE slot = size \/ v < Read(memory, slot)
    <3>1. InsertAtSlot(slot, v)
      BY <1>3, <2>3
    <3>2. RInv' /\ List!Insert(k, v)
      BY <1>1, <3>1, InsertedIs
    <3>3. ~(k <= List!Size /\ Items[k] = v)
      BY <1>1, <2>1, <2>2, <2>3
    <3> HIDE DEF k
    <3>4. QED
      BY <3>2, <3>3
  <2>4. CASE ~(slot = size \/ v < Read(memory, slot))
    <3>1. UNCHANGED <<memory, count, stale, size, capacity>>
      BY <1>3, <2>4
    <3>2. RInv' /\ List!Change(List!Positions, v)
      BY <1>1, <3>1, SameRefines
    <3>3. k <= List!Size /\ Items[k] = v
      BY <1>1, <2>1, <2>2, <2>4
    <3> HIDE DEF k
    <3>4. QED
      BY <3>2, <3>3
  <2>5. QED
    BY <2>3, <2>4
<1>8. call' = <<"sorted_insert", v>>
  BY DEF list_sorted_insert
<1> HIDE DEF k
<1>9. QED
  BY <1>1, <1>4, <1>6, <1>7, <1>8 DEF List!AbstractInsert, Items

\* One item is taken off.
LEMMA RemovedIs ==
    ASSUME RInv, IInv', NEW slot \in 0..size - 1, Removed(slot)
    PROVE  RInv' /\ List!Delete({slot + 1})
<1> DEFINE n == size - 1
           f == [k \in 0..n - 1 |-> IF k < slot THEN k ELSE k + 1]
<1>1. size \in Nat /\ slot \in Int /\ n \in Nat /\ size' = n
  BY HeapSound DEF RInv, Removed
<1>2. Picks(f, n, memory', {slot})
  <2>1. f \in [0..n - 1 -> 0..size - 1]
    BY <1>1
  <2>2. \A k \in 0..n - 1 : f[k] = IF k < slot THEN k ELSE k + 1
    OBVIOUS
  <2> HIDE DEF f
  <2>3. \A k \in 0..n - 1 : f[k] # slot /\ memory'[k] = memory[f[k]]
    BY <1>1, <2>2 DEF Removed
  <2>4. ASSUME NEW x \in 0..size - 1, x # slot PROVE \E k \in 0..n - 1 : f[k] = x
    <3>1. CASE x < slot
      <4>1. x \in 0..n - 1 /\ f[x] = x
        BY <1>1, <2>2, <3>1
      <4>2. QED
        BY <4>1
    <3>2. CASE ~(x < slot)
      <4>1. x - 1 \in 0..n - 1 /\ ~(x - 1 < slot) /\ x - 1 + 1 = x
        BY <1>1, <2>4, <3>2
      <4>2. f[x - 1] = x
        BY <2>2, <4>1
      <4>3. QED
        BY <4>1, <4>2
    <3>3. QED
      BY <3>1, <3>2
  <2>5. \A j, k \in 0..n - 1 : j < k => f[j] < f[k]
    BY <1>1, <2>2
  <2>6. QED
    BY <2>1, <2>3, <2>4, <2>5 DEF Picks
<1>3. \A k \in 1..size : k \in {slot + 1} <=> k - 1 \in {slot}
  BY <1>1
<1>4. memory'[Ref] = memory[Ref] /\ BoxesSame /\ n <= size
  BY <1>1 DEF Removed
<1> HIDE DEF f, n
<1>5. Picks(f, size', memory', {slot}) /\ size' <= size
  BY <1>1, <1>2, <1>4
<1>6. QED
  BY <1>3, <1>4, <1>5, DeleteRefines

LEMMA TakenIs ==
    ASSUME "empty" \in Precaution, RInv, NEW name, NEW slot \in {0, size - 1},
           TakeSlot(name, slot)
    PROVE  /\ size > 0 /\ slot \in 0..size - 1 /\ call' = <<name, Items[slot + 1]>>
           /\ RInv' /\ List!Delete({slot + 1})
<1>1. IInv' /\ Removed(slot) /\ size > 0 /\ size \in Nat /\ IInv
  BY TakeStep, HeapSound DEF RInv
<1>2. slot \in 0..size - 1 /\ slot \in Location /\ slot + 1 \in 1..size /\ slot + 1 - 1 = slot
  <2>1. slot \in 0..size - 1
    BY <1>1
  <2>2. QED
    BY <1>1, <2>1, HeapSound, ItemPlace
<1>3. RInv' /\ List!Delete({slot + 1})
  BY <1>1, <1>2, RemovedIs
<1>4. Items[slot + 1] = Read(memory, slot)
  BY <1>2 DEF Items
<1>5. Read(memory, slot) = IF memory[slot] \in Box THEN memory[memory[slot]] ELSE memory[slot]
  BY <1>1, <1>2, ReadIs
<1>6. call' = <<name, IF memory[slot] \in Box THEN Read(memory, slot) ELSE memory[slot]>>
  BY <1>1 DEF TakeSlot
<1>7. QED
  BY <1>1, <1>2, <1>3, <1>4, <1>5, <1>6

LEMMA TakeNext ==
    ASSUME "empty" \in Precaution, RInv, list_pop \/ list_shift
    PROVE  RInv' /\ List!AbstractRemove
<1>1. size \in Nat /\ List!Size = size
  BY HeapSound, SizeIs DEF RInv
<1>2. CASE list_pop
  <2> DEFINE slot == size - 1
  <2>1. slot \in {0, size - 1} /\ TakeSlot("pop", slot) /\ slot + 1 = size
    BY <1>1, <1>2 DEF list_pop
  <2> HIDE DEF slot
  <2>2. /\ size > 0 /\ call' = <<"pop", Items[slot + 1]>>
        /\ RInv' /\ List!Delete({slot + 1})
    BY <2>1, TakenIs
  <2>3. call' = <<"pop", Items[List!Size]>> /\ List!Delete({List!Size})
    BY <1>1, <2>1, <2>2
  <2>4. QED
    BY <1>1, <2>2, <2>3 DEF List!AbstractRemove, Items
<1>3. CASE list_shift
  <2> DEFINE slot == 0
  <2>1. slot \in {0, size - 1} /\ TakeSlot("shift", slot) /\ slot + 1 = 1
    BY <1>3 DEF list_shift
  <2> HIDE DEF slot
  <2>2. /\ size > 0 /\ call' = <<"shift", Items[slot + 1]>>
        /\ RInv' /\ List!Delete({slot + 1})
    BY <2>1, TakenIs
  <2>3. call' = <<"shift", Items[1]>> /\ List!Delete({1})
    BY <2>1, <2>2
  <2>4. QED
    BY <1>1, <2>2, <2>3 DEF List!AbstractRemove, Items
<1>4. QED
  BY <1>2, <1>3

LEMMA ClearNext ==
    ASSUME RInv, list_clear
    PROVE  RInv' /\ List!AbstractRemove
<1>1. RInv' /\ List!Change(<<>>, Null)
  BY ClearStep, ClearRefines DEF RInv
<1>2. call' = <<"clear">>
  BY DEF list_clear
<1>3. QED
  BY <1>1, <1>2 DEF List!AbstractRemove

LEMMA RemoveAtNext ==
    ASSUME {"last", "alias"} \subseteq Precaution, RInv, NEW i \in Int, list_remove_at(i)
    PROVE  RInv' /\ List!AbstractRemove
<1> DEFINE slot == to_base0(i)
<1>1. /\ InRange(i) /\ call' = <<"remove_at", i>> /\ RemoveCarefully({slot})
      /\ HeapBecomes(RemoveSlot(Heap, slot, size))
      /\ size' = size - 1 /\ capacity' = capacity
  BY DEF list_remove_at
<1>2. i \in List!Index /\ List!Position(i) = slot + 1 /\ slot \in 0..size - 1
  BY <1>1, PositionIs
<1> HIDE DEF slot
<1>3. IInv' /\ Removed(slot)
  BY <1>1, <1>2, RemoveAtStep DEF RInv
<1>4. RInv' /\ List!Delete({slot + 1})
  BY <1>2, <1>3, RemovedIs
<1>5. List!Delete({List!Position(i)})
  BY <1>2, <1>4
<1>6. QED
  BY <1>1, <1>2, <1>4, <1>5 DEF List!AbstractRemove

\* The items that are found, counted from 1.
LEMMA FoundIs ==
    ASSUME size \in Nat, NEW v
    PROVE  /\ List!Found(v) = {k \in 1..size : k - 1 \in Found(v)}
           /\ Found(v) \subseteq 0..size - 1
<1>1. \A k \in 1..size : Items[k] = Read(memory, k - 1) /\ k - 1 \in 0..size - 1
  BY DEF Items
<1>2. List!Found(v) = {k \in DOMAIN Items : Items[k] = v}
  BY DEF List!Found, Items
<1>3. DOMAIN Items = 1..size
  BY DEF Items
<1>4. QED
  BY <1>1, <1>2, <1>3 DEF Found

LEMMA RemoveNext ==
    ASSUME {"last", "alias", "compare"} \subseteq Precaution, RInv, NEW v \in Value,
           list_remove(v)
    PROVE  RInv' /\ List!AbstractRemove
<1>1. /\ IInv' /\ BoxesSame /\ memory'[Ref] = memory[Ref] /\ size' <= size
      /\ \E f : Picks(f, size', memory', Found(v))
  BY RemoveStep DEF RInv
<1>2. size \in Nat /\ v \in List!Value
  BY HeapSound DEF RInv, List!Value, Value
<1>3. \A k \in 1..size : k \in List!Found(v) <=> k - 1 \in Found(v)
  BY <1>2, FoundIs
<1>4. RInv' /\ List!Delete(List!Found(v))
  BY <1>1, <1>3, DeleteRefines
<1>5. call' = <<"remove", v>>
  BY DEF list_remove
<1>6. QED
  BY <1>2, <1>4, <1>5 DEF List!AbstractRemove

LEMMA RemoveOneNext ==
    ASSUME {"last", "alias"} \subseteq Precaution, RInv, NEW v \in Value,
           list_remove_first(v) \/ list_remove_last(v)
    PROVE  RInv' /\ List!AbstractRemove
<1>1. size \in Nat /\ v \in List!Value
  BY HeapSound DEF RInv, List!Value, Value
<1>2. PICK i \in Found(v) :
        /\ \/ call' = <<"remove_first", v>> /\ \A j \in Found(v) : i = j \/ i < j
           \/ call' = <<"remove_last", v>> /\ \A j \in Found(v) : i = j \/ i > j
        /\ RemoveCarefully({i}) /\ HeapBecomes(RemoveSlot(Heap, i, size))
        /\ size' = size - 1 /\ capacity' = capacity
  BY DEF list_remove_first, list_remove_last, RemoveOne
<1>3. i \in 0..size - 1
  BY <1>1, FoundIs
<1>4. RInv' /\ List!Delete({i + 1})
  <2>1. IInv' /\ Removed(i)
    BY <1>2, <1>3, RemoveAtStep DEF RInv
  <2>2. QED
    BY <1>3, <2>1, RemovedIs
<1> DEFINE F == List!Found(v)
<1>5. /\ \A k \in F : k \in 1..size /\ k - 1 \in Found(v) /\ k \in Int
      /\ i + 1 \in F
  <2>1. i + 1 \in 1..size /\ i + 1 - 1 = i
    BY <1>1, <1>3
  <2>2. QED
    BY <1>1, <1>2, <2>1, FoundIs
<1> HIDE DEF F
<1>6. CASE call' = <<"remove_first", v>> /\ \A j \in Found(v) : i = j \/ i < j
  <2>1. \A k \in F : i + 1 <= k
    BY <1>3, <1>5, <1>6
  <2>2. {k \in F : \A j \in F : k <= j} = {i + 1}
    BY <1>3, <1>5, <2>1
  <2>3. List!Delete({k \in List!Found(v) : \A j \in List!Found(v) : k <= j})
    BY <1>4, <2>2 DEF F
  <2>4. QED
    BY <1>1, <1>4, <1>6, <2>3 DEF List!AbstractRemove
<1>7. CASE call' = <<"remove_last", v>> /\ \A j \in Found(v) : i = j \/ i > j
  <2>1. \A k \in F : i + 1 >= k
    BY <1>3, <1>5, <1>7
  <2>2. {k \in F : \A j \in F : k >= j} = {i + 1}
    BY <1>3, <1>5, <2>1
  <2>3. List!Delete({k \in List!Found(v) : \A j \in List!Found(v) : k >= j})
    BY <1>4, <2>2 DEF F
  <2>4. QED
    BY <1>1, <1>4, <1>7, <2>3 DEF List!AbstractRemove
<1>8. QED
  BY <1>2, <1>6, <1>7

LEMMA ReverseNext ==
    ASSUME RInv, list_reverse
    PROVE  RInv' /\ List!AbstractReorder
<1> DEFINE p == [i \in 0..size - 1 |-> size - 1 - i]
           from == [k \in 1..size |-> p[k - 1] + 1]
<1>1. size \in Nat /\ IInv
  BY HeapSound DEF RInv
<1>2. p \in [0..size - 1 -> 0..size - 1] /\ IsInjective(p)
  BY <1>1 DEF IsInjective
<1>3. Permute(p) /\ UNCHANGED <<count, stale, size, capacity>> /\ call' = <<"reverse">>
  BY DEF list_reverse
<1>4. IInv'
  BY <1>1, ReverseStep
<1>5. from = List!Reverse(List!Positions)
  <2>1. \A k \in 1..size : from[k] = size - k + 1
    BY <1>1
  <2>2. from = [k \in 1..size |-> size - k + 1]
    BY <2>1
  <2>3. List!Positions = [k \in 1..size |-> k] /\ Len(List!Positions) = size
    BY <1>1 DEF List!Positions
  <2>4. \A k \in 1..size : size - k + 1 \in 1..size
    BY <1>1
  <2> HIDE DEF from
  <2>5. List!Reverse(List!Positions) = [k \in 1..size |-> (List!Positions)[size - k + 1]]
    <3> DEFINE s == List!Positions
    <3>1. List!Reverse(s) = [k \in 1..Len(s) |-> s[Len(s) - k + 1]]
      BY DEF List!Reverse
    <3>2. Len(s) = size
      BY <2>3
    <3> HIDE DEF s
    <3>3. List!Reverse(s) = [k \in 1..size |-> s[size - k + 1]]
      BY <3>1, <3>2
    <3>4. QED
      BY <3>3 DEF s
  <2>6. QED
    BY <2>2, <2>3, <2>4, <2>5
<1> HIDE DEF p
<1>6. RInv' /\ List!Change(from, Null)
  BY <1>2, <1>3, <1>4, PermuteRefines
<1>7. QED
  BY <1>3, <1>5, <1>6 DEF List!AbstractReorder

LEMMA SortNext ==
    ASSUME "compare" \in Precaution, RInv, list_sort
    PROVE  RInv' /\ List!AbstractReorder
<1>1. size \in Nat /\ IInv
  BY HeapSound DEF RInv
<1>2. PICK p \in [0..size - 1 -> 0..size - 1] :
        IsInjective(p) /\ Sorted(p) /\ Permute(p) /\ UNCHANGED <<count, stale>>
  BY DEF list_sort, Careful
<1>3. UNCHANGED <<count, stale, size, capacity>> /\ call' = <<"sort">>
  BY <1>2 DEF list_sort
<1> DEFINE from == [k \in 1..size |-> p[k - 1] + 1]
<1>4. IInv'
  BY <1>1, <1>2, <1>3, PermuteStep
<1>5. RInv' /\ List!Change(from, Null)
  BY <1>2, <1>3, <1>4, PermuteRefines
<1>6. \A k \in 1..size : k - 1 \in 0..size - 1 /\ p[k - 1] \in 0..size - 1
  BY <1>1
<1>7. \A k \in 1..size : from[k] = p[k - 1] + 1
  OBVIOUS
<1>8. \A x \in 0..size - 1 : x + 1 \in 1..size /\ x + 1 - 1 = x
  BY <1>1
<1>9. from \in [1..size -> 1..size]
  BY <1>6, <1>8
<1> HIDE DEF from
<1>10. ASSUME NEW j \in 1..size, NEW k \in 1..size, j < k
       PROVE  from[j] # from[k] /\ Items[from[j]] <= Items[from[k]]
  <2>1. j - 1 < k - 1 /\ j - 1 # k - 1
    BY <1>1, <1>10
  <2>2. p[j - 1] # p[k - 1]
    BY <1>2, <1>6, <2>1 DEF IsInjective
  <2>3. Read(memory, p[j - 1]) <= Read(memory, p[k - 1])
    BY <1>2, <1>6, <2>1 DEF Sorted
  <2>4. \A i \in 1..size : Items[from[i]] = Read(memory, p[i - 1])
    <3>1. ASSUME NEW i \in 1..size PROVE from[i] \in 1..size /\ from[i] - 1 = p[i - 1]
      <4> DEFINE y == p[i - 1]
      <4>1. y \in 0..size - 1 /\ from[i] = y + 1
        BY <1>6, <1>7
      <4> HIDE DEF y
      <4>2. from[i] \in 1..size /\ from[i] - 1 = y
        BY <1>8, <4>1
      <4>3. QED
        BY <4>2 DEF y
    <3>2. \A x \in 1..size : Items[x] = Read(memory, x - 1)
      BY DEF Items
    <3>3. ASSUME NEW i \in 1..size PROVE Items[from[i]] = Read(memory, p[i - 1])
      <4> DEFINE x == from[i]
      <4>1. x \in 1..size /\ x - 1 = p[i - 1]
        BY <3>1
      <4> HIDE DEF x
      <4>2. Items[x] = Read(memory, x - 1)
        BY <3>2, <4>1
      <4>3. QED
        BY <4>1, <4>2 DEF x
    <3>4. QED
      BY <3>3
  <2>5. from[j] = p[j - 1] + 1 /\ from[k] = p[k - 1] + 1
    BY <1>7
  <2>6. from[j] # from[k]
    <3> DEFINE x == p[j - 1]
               y == p[k - 1]
    <3>1. x \in Int /\ y \in Int /\ x # y /\ from[j] = x + 1 /\ from[k] = y + 1
      BY <1>1, <1>6, <2>2, <2>5
    <3> HIDE DEF x, y
    <3>2. QED
      BY <3>1
  <2>7. Items[from[j]] = Read(memory, p[j - 1]) /\ Items[from[k]] = Read(memory, p[k - 1])
    BY <2>4
  <2>8. QED
    BY <2>3, <2>6, <2>7
<1>11. DOMAIN Items = 1..size /\ DOMAIN from = 1..size
  BY <1>9 DEF Items
<1>12. /\ from \in [DOMAIN Items -> DOMAIN Items]
       /\ \A j, k \in DOMAIN from : j < k => from[j] # from[k] /\ Items[from[j]] <= Items[from[k]]
  BY <1>9, <1>10, <1>11
<1>13. QED
  BY <1>3, <1>5, <1>12 DEF List!AbstractReorder, Items

LEMMA SetItemNext ==
    ASSUME RInv, NEW i \in Int, NEW v \in Value, list_set_item(i, v)
    PROVE  RInv' /\ List!AbstractAccess
<1> DEFINE l == to_base0(i)
<1>1. /\ InRange(i) /\ call' = <<"set_item", i, v>>
      /\ HeapBecomes(assign(retain(Heap, v), l, v))
      /\ size' = size /\ capacity' = capacity
  BY DEF list_set_item
<1>2. i \in List!Index /\ List!Position(i) = l + 1 /\ l \in 0..size - 1 /\ v \in List!Value
  BY <1>1, PositionIs DEF List!Value, Value
<1> HIDE DEF l
<1>3. IInv /\ l \in Holding(size) /\ l \notin Box /\ l < size /\ l # Ref
  BY <1>2, HeapSound, ItemPlace DEF RInv
<1>4. IInv' /\ \A x \in Location : memory'[x] = IF x = Target(Heap, l) THEN v ELSE memory[x]
  BY <1>1, <1>3, AssignStep
<1>5. l \in (0..size - 1) \cup {Ref}
  BY <1>2
<1>6. RInv' /\ Mark' = Mark /\ Items' = [Items EXCEPT ![l + 1] = v] /\ Kept' = Kept
  BY <1>1, <1>3, <1>4, <1>5, WriteRefines
<1>7. Items' = [Items EXCEPT ![List!Position(i)] = v]
  BY <1>2, <1>6
<1>8. QED
  BY <1>1, <1>2, <1>6, <1>7 DEF List!AbstractAccess, Items, Mark, Kept

LEMMA ReferNext ==
    ASSUME RInv, NEW i \in Int, Refer(i)
    PROVE  RInv' /\ List!AbstractAccess
<1>1. /\ InRange(i) /\ RInv' /\ Items' = Items /\ Mark' = to_base0(i) + 1
      /\ Kept' = Kept
  BY ReferRefines
<1>2. i \in List!Index /\ List!Position(i) = to_base0(i) + 1
  BY <1>1, PositionIs
<1>3. call' = <<"refer", i>> /\ Mark' = List!Position(i)
  BY <1>1, <1>2 DEF Refer
<1>4. QED
  BY <1>1, <1>2, <1>3 DEF List!AbstractAccess, Items, Mark, Kept

LEMMA AssignNext ==
    ASSUME RInv, NEW v \in Value, AssignRef(v)
    PROVE  RInv' /\ List!AbstractReference
<1>1. /\ call' = <<"assign", v>> /\ HeapBecomes(assign(retain(Heap, v), Ref, v))
      /\ size' = size /\ capacity' = capacity /\ v \in List!Value
  BY DEF AssignRef, List!Value, Value
<1>2. IInv' /\ \A x \in Location : memory'[x] = IF x = Target(Heap, Ref) THEN v ELSE memory[x]
  BY <1>1, AssignStep, HoldingType, Kinds DEF RInv
<1>3. Ref \in (0..size - 1) \cup {Ref}
  OBVIOUS
<1>4. /\ RInv' /\ Mark' = Mark
      /\ IF Mark = 0 THEN Kept' = v /\ Items' = Items
         ELSE Items' = [Items EXCEPT ![Mark] = v] /\ Kept' = Kept
  BY <1>1, <1>2, <1>3, WriteRefines
<1>5. QED
  BY <1>1, <1>4 DEF List!AbstractReference, Items, Mark, Kept

LEMMA ForgetNext ==
    ASSUME RInv, NEW x \in {Ref, Var}, Forget(x)
    PROVE  RInv' /\ List!AbstractNext
<1>1. /\ RInv' /\ Items' = Items
      /\ x = Ref => Mark' = 0 /\ Kept' = Null
      /\ x = Var => Mark' = Mark /\ Kept' = Kept
  BY ForgetRefines
<1>2. Ref # Var /\ call' = IF x = Ref THEN <<"forget">> ELSE <<"other">>
  BY Kinds DEF Forget
<1>3. CASE x = Ref
  <2>1. List!AbstractReference
    BY <1>1, <1>2, <1>3 DEF List!AbstractReference, Items, Mark, Kept
  <2>2. QED
    BY <1>1, <2>1 DEF List!AbstractNext
<1>4. CASE x = Var
  <2>1. List!AbstractOther
    BY <1>1, <1>2, <1>4 DEF List!AbstractOther, Items, Mark, Kept
  <2>2. QED
    BY <1>1, <2>1 DEF List!AbstractNext
<1>5. QED
  BY <1>3, <1>4

LEMMA CloneNext ==
    ASSUME RInv, Clone
    PROVE  RInv' /\ List!AbstractClone
<1>1. /\ RInv' /\ Items' = Items /\ Mark' = 0
      /\ Kept' = IF Mark = 0 THEN Kept ELSE Items[Mark]
  BY CloneRefines
<1>2. call' = <<"clone">>
  BY DEF Clone
<1>3. QED
  BY <1>1, <1>2 DEF List!AbstractClone, Items, Mark, Kept

------------------------------------------------------------------------------
(* The theorem. *)

LEMMA InitRefines ==
    ASSUME Init
    PROVE  RInv /\ List!AbstractInit
<1>1. IInv /\ size = 0 /\ call = <<"list">>
  BY InitSound DEF Init
<1>2. RInv
  BY <1>1 DEF RInv, Single
<1>3. memory[Ref] = Null
  BY Kinds DEF Init
<1>4. View /\ Null \notin Box
  BY <1>2, Seen, Kinds
<1>5. Mark = 0 /\ Kept = Null
  BY <1>1, <1>3, <1>4 DEF View
<1>6. Items = <<>>
  BY <1>1 DEF Items
<1>7. QED
  BY <1>1, <1>2, <1>5, <1>6 DEF List!AbstractInit, Items, Mark, Kept

LEMMA NextRefines ==
    ASSUME {"stale", "last", "alias", "empty", "compare"} \subseteq Precaution,
           RInv, [Next]_vars
    PROVE  RInv' /\ [List!AbstractNext]_(List!abstract)
<1>1. /\ {"last", "alias"} \subseteq Precaution /\ {"last", "alias", "compare"} \subseteq Precaution
      /\ {"stale", "compare"} \subseteq Precaution
      /\ "stale" \in Precaution /\ "empty" \in Precaution /\ "compare" \in Precaution
  OBVIOUS
<1>2. size \in Nat /\ IInv
  BY HeapSound DEF RInv
<1>3. CASE UNCHANGED vars
  <2>1. UNCHANGED <<memory, count, stale, size, capacity>> /\ call' = call
    BY <1>3 DEF vars
  <2>2. RInv' /\ UNCHANGED <<Items, Mark, Kept>>
    BY <2>1, SameRefines
  <2>3. UNCHANGED List!abstract
    BY <2>1, <2>2 DEF List!abstract, Items, Mark, Kept
  <2>4. QED
    BY <2>2, <2>3
<1>4. ASSUME NEW v \in AtHand, NEW i \in (-size..size + 1) \ {0},
             \/ list_append(v) \/ list_prepend(v) \/ list_insert(i, v)
             \/ list_sorted_insert(v)
             \/ list_remove(v) \/ list_remove_first(v) \/ list_remove_last(v)
             \/ list_set_item(i, v) \/ AssignRef(v)
             \/ list_remove_at(i) \/ Refer(i)
      PROVE  RInv' /\ List!AbstractNext
  <2>1. v \in Value /\ i \in Int
    BY <1>2 DEF AtHand, Value
  <2>2. CASE list_append(v) \/ list_prepend(v) \/ list_insert(i, v)
    BY <1>1, <2>1, <2>2, InsertNext DEF List!AbstractNext
  <2>3. CASE list_sorted_insert(v)
    BY <1>1, <2>1, <2>3, SortedInsertNext DEF List!AbstractNext
  <2>4. CASE list_remove(v)
    BY <1>1, <2>1, <2>4, RemoveNext DEF List!AbstractNext
  <2>5. CASE list_remove_first(v) \/ list_remove_last(v)
    BY <1>1, <2>1, <2>5, RemoveOneNext DEF List!AbstractNext
  <2>6. CASE list_set_item(i, v)
    BY <2>1, <2>6, SetItemNext DEF List!AbstractNext
  <2>7. CASE AssignRef(v)
    BY <2>1, <2>7, AssignNext DEF List!AbstractNext
  <2>8. CASE list_remove_at(i)
    BY <1>1, <2>1, <2>8, RemoveAtNext DEF List!AbstractNext
  <2>9. CASE Refer(i)
    BY <2>1, <2>9, ReferNext DEF List!AbstractNext
  <2>10. QED
    BY <1>4, <2>2, <2>3, <2>4, <2>5, <2>6, <2>7, <2>8, <2>9
<1>5. ASSUME list_pop \/ list_shift PROVE RInv' /\ List!AbstractNext
  BY <1>1, <1>5, TakeNext DEF List!AbstractNext
<1>6. ASSUME list_clear PROVE RInv' /\ List!AbstractNext
  BY <1>6, ClearNext DEF List!AbstractNext
<1>7. ASSUME list_reverse PROVE RInv' /\ List!AbstractNext
  BY <1>7, ReverseNext DEF List!AbstractNext
<1>8. ASSUME list_sort PROVE RInv' /\ List!AbstractNext
  BY <1>1, <1>8, SortNext DEF List!AbstractNext
<1>9. ASSUME NEW x \in {Ref, Var}, Forget(x) PROVE RInv' /\ List!AbstractNext
  BY <1>9, ForgetNext
<1>10. ASSUME Clone PROVE RInv' /\ List!AbstractNext
  BY <1>10, CloneNext DEF List!AbstractNext
<1>11. QED
  BY <1>3, <1>4, <1>5, <1>6, <1>7, <1>8, <1>9, <1>10 DEF Next

\* The functions on lists (func_list.hpp) over Array<Variant>, in whatever slots and
\* boxes they keep the items, and however they move them, do to a list what the same
\* functions do to a sequence, and to a reference what it does to the item it is to.
THEOREM ListIsSequence ==
    ASSUME {"stale", "last", "alias", "empty", "compare"} \subseteq Precaution
    PROVE  Spec => ImplementsList
<1>1. Init => RInv /\ List!AbstractInit
  BY InitRefines
<1>2. RInv /\ [Next]_vars => RInv' /\ [List!AbstractNext]_(List!abstract)
  BY NextRefines
<1>3. QED
  BY <1>1, <1>2, PTL DEF Spec, ImplementsList, List!AbstractSpec
=============================================================================
