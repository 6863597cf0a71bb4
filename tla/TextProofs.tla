------------------------------ MODULE TextProofs ------------------------------
(* The buffers of strings are sound after every call: for all characters,     *)
(* grapheme breaks, sizes and numbers of buffers.                             *)
EXTENDS Text, Recursion, SequenceTheorems, FiniteSetTheorems

-----------------------------------------------------------------------------
(* A capacity that is grown is large enough.                                *)

LEMMA CapacityGrows ==
    ASSUME NEW requested \in Nat, NEW current \in Nat, current # 0
    PROVE  /\ find_capacity(requested, current) \in Nat
           /\ find_capacity(requested, current) >= requested
           /\ find_capacity(requested, current) >= current
<1> DEFINE F == [n \in Nat |-> next_capacity(n)]
           Grow(g) == g = [n \in Nat |-> IF n < requested THEN g[next_capacity(n)] ELSE n]
<1>1. \A n \in Nat : next_capacity(n) \in Nat /\ (n # 0 => next_capacity(n) > n)
  BY DEF next_capacity
<1>2. F \in [Nat -> Nat] /\ \A n \in Nat : F[n] = next_capacity(n)
  BY <1>1
<1> HIDE DEF F
<1>3. \A g : Grow(g) <=> Grown(g, requested, F)
  BY <1>2 DEF Grown
<1> DEFINE c == CHOOSE g : Grow(g)
<1>4. Grow(c)
  <2>1. \E g : Grow(g)
    BY <1>2, <1>3, Growth
  <2> HIDE DEF Grow
  <2>2. QED
    BY <2>1
<1>5. find_capacity(requested, current) = c[current]
  BY DEF find_capacity
<1> HIDE DEF c
<1>6. \A n \in Nat \ {0} : c[n] \in Nat /\ c[n] >= requested /\ c[n] >= n
  <2>1. \A n \in Nat : n # 0 => F[n] > n
    BY <1>1, <1>2
  <2>2. Grown(c, requested, F)
    BY <1>3, <1>4
  <2>3. QED
    BY <1>2, <2>1, <2>2, GrowsEnough
<1>7. QED
  BY <1>5, <1>6

-----------------------------------------------------------------------------
(* Texts.                                                                   *)

TextOf == Seq(Character)

\* The ends of graphemes are places in the text, its two ends among them.
LEMMA BoundariesType ==
    ASSUME NEW text \in TextOf
    PROVE  /\ Len(text) \in Nat
           /\ Boundaries(text) \subseteq 0..Len(text)
           /\ 0 \in Boundaries(text) /\ Len(text) \in Boundaries(text)
BY DEF Boundaries, TextOf

LEMMA CountType ==
    ASSUME NEW text \in TextOf
    PROVE  CountGraphemes(text) \in Nat
<1>1. IsFiniteSet(Boundaries(text)) /\ Boundaries(text) # {}
  <2>1. IsFiniteSet(0..Len(text))
    BY BoundariesType, FS_Interval
  <2>2. QED
    BY <2>1, BoundariesType, FS_Subset
<1>2. Cardinality(Boundaries(text)) \in Nat /\ Cardinality(Boundaries(text)) # 0
  BY <1>1, FS_CardinalityType, FS_EmptySet
<1>3. QED
  BY <1>2 DEF CountGraphemes

LEMMA NextGrapheme ==
    ASSUME NEW text \in TextOf, NEW it \in 0..Len(text)
    PROVE  next_grapheme(text, it) \in 0..Len(text)
<1> DEFINE after == {o \in Boundaries(text) : o > it}
<1>1. CASE it = Len(text)
  BY <1>1 DEF next_grapheme
<1>2. CASE it # Len(text)
  <2>1. after \in SUBSET Nat /\ after # {}
    BY <1>2, BoundariesType
  <2>2. Min(after) \in after
    <3> HIDE DEF after
    <3>1. QED
      BY <2>1, LeastNumber
  <2>3. QED
    BY <1>2, <2>2, BoundariesType DEF next_grapheme
<1>3. QED
  BY <1>1, <1>2

LEMMA PreviousGrapheme ==
    ASSUME NEW text \in TextOf, NEW it \in 0..Len(text)
    PROVE  /\ previous_grapheme(text, it) \in 0..Len(text)
           /\ it # 0 => previous_grapheme(text, it) < it
<1> DEFINE before == {o \in Boundaries(text) : o < it}
<1>1. CASE it = 0
  BY <1>1 DEF previous_grapheme
<1>2. CASE it # 0
  <2>1. before \in SUBSET (0..Len(text)) /\ before # {} /\ Len(text) \in Nat
    BY <1>2, BoundariesType
  <2>2. Max(before) \in before
    <3> HIDE DEF before
    <3>1. QED
      BY <2>1, GreatestNumber
  <2>3. QED
    BY <1>2, <2>2, BoundariesType DEF previous_grapheme
<1>3. QED
  BY <1>1, <1>2

\* Whatever the number of graphemes, advance stays inside the text.
LEMMA AdvanceType ==
    ASSUME NEW text \in TextOf, NEW it \in 0..Len(text), NEW n \in Int
    PROVE  advance(text, it, n) \in 0..Len(text)
<1> DEFINE Next_(o) == IF n > 0 THEN next_grapheme(text, o) ELSE previous_grapheme(text, o)
           F == [o \in 0..Len(text) |-> Next_(o)]
           Walk(w) == w = [k \in Nat |-> IF k = 0 THEN it
                                         ELSE IF n > 0 THEN next_grapheme(text, w[k - 1])
                                         ELSE previous_grapheme(text, w[k - 1])]
           w == CHOOSE g : Walk(g)
<1>1. F \in [0..Len(text) -> 0..Len(text)]
  BY NextGrapheme, PreviousGrapheme
<1>2. PICK g : Iterates(g, it, F, 0..Len(text))
  <2> DEFINE X == 0..Len(text)
  <2>1. it \in X /\ F \in [X -> X]
    BY <1>1
  <2> HIDE DEF F, X
  <2>2. \E g : Iterates(g, it, F, X)
    BY <2>1, Iteration
  <2>3. QED
    BY <2>2 DEF X
<1>3. ASSUME NEW k \in Nat, k # 0 PROVE g[k] = Next_(g[k - 1])
  <2>1. k - 1 \in Nat
    BY <1>3
  <2>2. g[k - 1] \in 0..Len(text)
    BY <1>2, <2>1 DEF Iterates
  <2>3. F[g[k - 1]] = Next_(g[k - 1])
    BY <2>2
  <2> HIDE DEF F
  <2>4. QED
    BY <1>2, <1>3, <2>3 DEF Iterates
<1>4. Walk(g)
  <2> HIDE DEF F
  <2>1. g = [k \in Nat |-> g[k]] /\ g[0] = it
    BY <1>2 DEF Iterates
  <2>2. QED
    BY <1>3, <2>1
<1>5. Walk(w)
  <2> HIDE DEF Walk
  <2>1. QED
    BY <1>4
<1>6. advance(text, it, n) = w[IF n < 0 THEN -n ELSE n]
  BY DEF advance
<1> HIDE DEF w
<1> DEFINE Inside == {k \in Nat : w[k] \in 0..Len(text)}
<1>7. 0 \in Inside
  BY <1>5
<1>8. ASSUME NEW k \in Nat, k \in Inside PROVE k + 1 \in Inside
  <2>1. \A j \in Nat : w[j] = IF j = 0 THEN it ELSE Next_(w[j - 1])
    BY <1>5
  <2>2. w[k + 1] = Next_(w[k])
    <3> HIDE DEF Next_
    <3>1. k + 1 \in Nat /\ k + 1 # 0 /\ k + 1 - 1 = k
      OBVIOUS
    <3>2. QED
      BY <2>1, <3>1
  <2>3. Next_(w[k]) \in 0..Len(text)
    BY <1>8, NextGrapheme, PreviousGrapheme
  <2>4. QED
    BY <2>2, <2>3
<1>9. \A k \in Nat : k \in Inside
  <2> HIDE DEF Inside
  <2>1. QED
    BY <1>7, <1>8, Induction
<1>10. (IF n < 0 THEN -n ELSE n) \in Nat
  OBVIOUS
<1>11. QED
  BY <1>6, <1>9, <1>10

LEMMA SliceType ==
    ASSUME NEW text \in TextOf, NEW from \in Nat, NEW to \in 0..Len(text)
    PROVE  /\ Slice(text, from, to) \in TextOf
           /\ Len(Slice(text, from, to)) = IF from <= to THEN to - from ELSE 0
           /\ \A k \in 1..to - from : Slice(text, from, to)[k] = text[from + k]
<1>1. \A k \in from + 1..to : text[k] \in Character
  BY DEF TextOf
<1>2. from + 1 \in Int /\ to \in Int
  BY DEF TextOf
<1> DEFINE cut == SubSeq(text, from + 1, to)
<1>3. /\ cut \in Seq(Character)
      /\ Len(cut) = IF from + 1 <= to THEN to - (from + 1) + 1 ELSE 0
      /\ \A k \in 1..to - (from + 1) + 1 : cut[k] = text[from + 1 + k - 1]
  BY <1>1, <1>2, SubSeqProperties
<1> HIDE DEF cut
<1>4. \A k \in Int : from + 1 + k - 1 = from + k
  OBVIOUS
<1>5. to - (from + 1) + 1 = to - from /\ (from + 1 <= to <=> from < to)
  BY <1>2
<1>6. cut = Slice(text, from, to)
  BY DEF Slice, cut
<1>7. Len(cut) = IF from <= to THEN to - from ELSE 0
  BY <1>2, <1>3, <1>5
<1>8. \A k \in 1..to - from : cut[k] = text[from + k]
  BY <1>2, <1>3, <1>4, <1>5
<1>9. QED
  BY <1>3, <1>6, <1>7, <1>8 DEF TextOf

\* A search gives the end of the text or a place where the text occurs.
LEMMA FindType ==
    ASSUME NEW text \in TextOf, NEW part \in TextOf, NEW from \in 0..Len(text)
    PROVE  /\ find(text, part, from) \in from..Len(text)
           /\ find(text, part, from) # Len(text) => Occurs(text, part, find(text, part, from))
           /\ Occurs(text, part, from) => find(text, part, from) = from
<1> DEFINE at == {o \in from..Len(text) : Occurs(text, part, o)} \cup {Len(text)}
<1>1. at \in SUBSET Nat /\ at # {}
  BY DEF TextOf
<1>2. Min(at) \in at /\ \A k \in at : Min(at) <= k
  <2> HIDE DEF at
  <2>1. QED
    BY <1>1, LeastNumber
<1>3. find(text, part, from) = Min(at)
  BY DEF find
<1>4. ASSUME Occurs(text, part, from) PROVE Min(at) = from
  <2>1. from \in at /\ \A k \in at : k >= from
    BY <1>4 DEF TextOf
  <2>2. QED
    BY <1>1, <1>2, <2>1
<1>5. QED
  BY <1>2, <1>3, <1>4 DEF TextOf

LEMMA FindBackType ==
    ASSUME NEW text \in TextOf, NEW part \in TextOf, NEW from \in 0..Len(text)
    PROVE  /\ rfind(text, part, from) \in 0..Len(text)
           /\ rfind(text, part, from) # Len(text) => Occurs(text, part, rfind(text, part, from))
<1> DEFINE at == {o \in 0..from : Occurs(text, part, o)}
<1>1. CASE at = {}
  BY <1>1 DEF rfind, TextOf
<1>2. CASE at # {}
  <2>1. at \in SUBSET (0..from) /\ from \in Nat
    OBVIOUS
  <2>2. Max(at) \in at
    <3> HIDE DEF at
    <3>1. QED
      BY <1>2, <2>1, GreatestNumber
  <2>3. QED
    BY <1>2, <2>2 DEF rfind, TextOf
<1>3. QED
  BY <1>1, <1>2
\* What is trimmed, or cut at the end of a line, is a part of the text.
LEMMA TrimType ==
    ASSUME NEW text \in TextOf, NEW left \in BOOLEAN, NEW right \in BOOLEAN
    PROVE  Trim(text, left, right) \in TextOf /\ Len(Trim(text, left, right)) <= Len(text)
<1> DEFINE starts == {o \in 0..Len(text) : o = Len(text) \/ ~left \/ text[o + 1] \notin Blank}
           first == Min(starts)
           ends == {o \in first..Len(text) : o = first \/ ~right \/ text[o] \notin Blank}
           last == Max(ends)
<1>1. Len(text) \in Nat
  BY BoundariesType
<1>2. first \in 0..Len(text)
  <2>1. starts \in SUBSET Nat /\ Len(text) \in starts /\ starts \subseteq 0..Len(text)
    BY <1>1
  <2> HIDE DEF starts
  <2>2. first \in starts
    BY <2>1, LeastNumber
  <2>3. QED
    BY <2>1, <2>2
<1>3. Trim(text, left, right) = Slice(text, first, last)
  BY DEF Trim
<1> HIDE DEF first
<1>4. last \in 0..Len(text)
  <2>1. ends \in SUBSET (0..Len(text)) /\ first \in ends
    BY <1>1, <1>2
  <2> HIDE DEF ends
  <2>2. last \in ends
    BY <1>1, <2>1, GreatestNumber
  <2>3. QED
    BY <2>1, <2>2
<1> HIDE DEF last
<1>5. first \in Nat
  BY <1>2
<1>6. /\ Slice(text, first, last) \in TextOf
      /\ Len(Slice(text, first, last)) = IF first <= last THEN last - first ELSE 0
  BY <1>4, <1>5, SliceType
<1>7. QED
  BY <1>1, <1>2, <1>3, <1>4, <1>6

LEMMA TrimNewLineType ==
    ASSUME NEW text \in TextOf
    PROVE  TrimNewLine(text) \in TextOf /\ Len(TrimNewLine(text)) <= Len(text)
<1> DEFINE ends == {o \in 0..Len(text) : o = 0 \/ text[o] \notin NewLine}
           last == Max(ends)
<1>1. Len(text) \in Nat
  BY BoundariesType
<1>2. last \in 0..Len(text)
  <2>1. ends \in SUBSET (0..Len(text)) /\ 0 \in ends
    BY <1>1
  <2> HIDE DEF ends
  <2>2. last \in ends
    BY <1>1, <2>1, GreatestNumber
  <2>3. QED
    BY <2>1, <2>2
<1>3. TrimNewLine(text) = Slice(text, 0, last)
  BY DEF TrimNewLine
<1> HIDE DEF last
<1>4. QED
  BY <1>1, <1>2, <1>3, SliceType

\* A text that is reversed keeps its length.
LEMMA ReverseType ==
    ASSUME NEW text \in TextOf
    PROVE  reverse(text) \in TextOf /\ Len(reverse(text)) = Len(text)
<1> DEFINE Previous(it) == previous_grapheme(text, it)
           Turn(it, g) == IF it = 0 THEN <<>> ELSE Slice(text, Previous(it), it) \o g[Previous(it)]
           Back(g) == g = [it \in 0..Len(text) |-> Turn(it, g)]
           UpTo(n, g) == /\ g \in [0..Len(text) -> TextOf]
                         /\ \A it \in 0..Len(text) : it <= n => g[it] = Turn(it, g)
           T == {n \in Nat : \E g : UpTo(n, g)}
<1>1. Len(text) \in Nat
  BY BoundariesType
<1>2. \A it \in 0..Len(text) : it # 0 => Previous(it) \in 0..Len(text) /\ Previous(it) < it
  BY PreviousGrapheme
<1>3. \A it \in 0..Len(text) : it # 0 => /\ Slice(text, Previous(it), it) \in TextOf
                                         /\ Len(Slice(text, Previous(it), it)) = it - Previous(it)
  <2>1. TAKE it \in 0..Len(text)
  <2>2. SUFFICES ASSUME it # 0
                 PROVE  /\ Slice(text, Previous(it), it) \in TextOf
                        /\ Len(Slice(text, Previous(it), it)) = it - Previous(it)
    OBVIOUS
  <2>3. Previous(it) \in 0..Len(text) /\ Previous(it) < it
    BY <1>2, <2>2
  <2> DEFINE p == Previous(it)
  <2>4. p \in Nat /\ p <= it
    BY <1>1, <2>3
  <2> HIDE DEF p
  <2>5. /\ Slice(text, p, it) \in TextOf
        /\ Len(Slice(text, p, it)) = IF p <= it THEN it - p ELSE 0
    BY <2>4, SliceType
  <2>6. QED
    BY <2>4, <2>5 DEF p
<1>4. <<>> \in TextOf
  BY DEF TextOf
<1>5. ASSUME NEW it \in 0..Len(text), NEW g \in [0..Len(text) -> TextOf]
      PROVE  Turn(it, g) \in TextOf
  <2>1. CASE it = 0
    BY <1>4, <2>1
  <2>2. CASE it # 0
    <3>1. Slice(text, Previous(it), it) \in TextOf /\ g[Previous(it)] \in TextOf
      BY <1>2, <1>3, <2>2
    <3> HIDE DEF Previous
    <3>2. QED
      BY <2>2, <3>1, ConcatProperties DEF TextOf
  <2>3. QED
    BY <2>1, <2>2
<1>6. \A n \in Nat : n \in T
  <2>1. 0 \in T
    <3>1. UpTo(0, [it \in 0..Len(text) |-> <<>>])
      BY <1>1, <1>4
    <3>2. QED
      BY <3>1
  <2>2. ASSUME NEW n \in Nat, n \in T PROVE n + 1 \in T
    <3>1. PICK g : UpTo(n, g)
      BY <2>2
    <3> DEFINE h == [g EXCEPT ![n + 1] = Turn(n + 1, g)]
    <3>2. h \in [0..Len(text) -> TextOf]
      BY <1>5, <3>1
    <3>3. ASSUME NEW it \in 0..Len(text), it <= n + 1 PROVE h[it] = Turn(it, h)
      <4>1. it # 0 => Previous(it) # n + 1 /\ Previous(it) \in 0..Len(text)
        BY <1>1, <1>2, <3>3
      <4>2. Turn(it, h) = Turn(it, g)
        BY <3>1, <4>1
      <4>3. h[it] = Turn(it, g)
        <5> HIDE DEF Turn
        <5>1. CASE it = n + 1
          BY <3>1, <5>1
        <5>2. CASE it # n + 1
          BY <1>1, <3>1, <3>3, <5>2
        <5>3. QED
          BY <5>1, <5>2
      <4>4. QED
        BY <4>2, <4>3
    <3> HIDE DEF h, Turn
    <3>4. UpTo(n + 1, h)
      BY <3>2, <3>3
    <3>5. QED
      BY <3>4
  <2> HIDE DEF T
  <2>3. QED
    BY <2>1, <2>2, Induction
<1>7. PICK g : UpTo(Len(text), g)
  BY <1>1, <1>6
<1>8. Back(g)
  <2> HIDE DEF Turn
  <2>1. g = [it \in 0..Len(text) |-> g[it]]
    BY <1>7
  <2>2. \A it \in 0..Len(text) : g[it] = Turn(it, g)
    BY <1>1, <1>7
  <2>3. QED
    BY <2>1, <2>2
<1> DEFINE c == CHOOSE f : Back(f)
<1>9. Back(c)
  <2> HIDE DEF Back
  <2>1. QED
    BY <1>8
<1>10. reverse(text) = c[Len(text)]
  BY DEF reverse
<1> HIDE DEF c
<1>11. \A it \in 0..Len(text) : c[it] = Turn(it, c)
  <2> HIDE DEF Turn
  <2>1. QED
    BY <1>9
<1> DEFINE Good(it) == c[it] \in TextOf /\ Len(c[it]) = it
           U == {n \in Nat : \A it \in 0..Len(text) : it <= n => Good(it)}
<1>12. 0 \in U
  BY <1>1, <1>4, <1>11
<1>13. ASSUME NEW n \in Nat, n \in U PROVE n + 1 \in U
  <2>1. ASSUME NEW it \in 0..Len(text), it <= n + 1 PROVE Good(it)
    <3>1. CASE it <= n
      BY <1>13, <3>1
    <3>2. CASE it > n
      <4> DEFINE p == Previous(it)
                 a == Slice(text, p, it)
      <4>1. it # 0 /\ it = n + 1
        BY <1>1, <2>1, <3>2
      <4>2. p \in 0..Len(text) /\ p <= n
        BY <1>1, <1>2, <4>1
      <4>3. Good(p)
        BY <1>13, <4>2
      <4>4. a \in TextOf /\ Len(a) = it - p
        BY <1>3, <4>1
      <4>5. c[it] = a \o c[p]
        BY <1>11, <4>1
      <4> HIDE DEF a, p
      <4>6. c[it] \in TextOf /\ Len(c[it]) = Len(a) + Len(c[p])
        BY <4>3, <4>4, <4>5, ConcatProperties DEF TextOf
      <4>7. QED
        BY <1>1, <4>2, <4>3, <4>4, <4>6
    <3>3. QED
      BY <1>1, <3>1, <3>2
  <2>2. QED
    BY <2>1
<1>14. Len(text) \in U
  <2> HIDE DEF U
  <2>1. QED
    BY <1>1, <1>12, <1>13, Induction
<1>15. Good(Len(text))
  BY <1>1, <1>14
<1>16. QED
  BY <1>10, <1>15
-----------------------------------------------------------------------------
(* The inductive invariant, for the memory in the middle of a call as well: *)
(* the call holds on to data, which is counted for it.                      *)

Block == [data : TextOf, capacity : Nat, length : Nat, hash : TextOf, count : Nat]

\* The text and its terminator are in the buffer, and what is remembered is true.
SoundBlock(d) ==
    /\ d \in Block
    /\ d.count > 0 => d.capacity >= MinCapacity /\ Len(d.data) < d.capacity
    /\ d.length \in {0, CountGraphemes(d.data)}
    /\ d.hash \in {<<>>, d.data}

\* The number of variables that point to the data b.
Points(m, b) == (IF m.impl[Self] = b THEN 1 ELSE 0) + (IF m.impl[Other] = b THEN 1 ELSE 0)

\* Every owner is counted: the variables, the program for the empty string, and the
\* call, kept[b] times.
SoundMemory(m, kept) ==
    /\ m \in [heap : [Data -> Block], impl : [Variable -> Data]]
    /\ \A b \in Data : /\ SoundBlock(m.heap[b])
                       /\ m.heap[b].count = Points(m, b) + (IF b = Static THEN 1 ELSE 0) + kept[b]
    /\ m.heap[Static].data = <<>>

Kept == [Data -> Nat]
Nothing == [b \in Data |-> 0]
Plus(kept, b) == [kept EXCEPT ![b] = @ + 1]

\* A call that needs a buffer keeps no data but what its variable had before, and
\* what the other variable has.
Supply(m, kept) ==
    \E before \in Data : \A b \in Data : kept[b] # 0 => b \in {before, m.impl[Other]}

IInv == SoundMemory(Memory, Nothing)

-----------------------------------------------------------------------------
(* Counting.                                                                *)

LEMMA PlusType ==
    ASSUME NEW kept \in Kept, NEW b \in Data
    PROVE  /\ Plus(kept, b) \in Kept
           /\ \A x \in Data : Plus(kept, b)[x] = kept[x] + (IF x = b THEN 1 ELSE 0)
BY DEF Plus, Kept

LEMMA PointsType ==
    ASSUME NEW m, NEW b
    PROVE  /\ Points(m, b) \in Nat
           /\ \A v \in Variable : m.impl[v] = b => Points(m, b) >= 1
BY DEF Points, Variable

\* Data that a variable points to is counted, the empty string twice.
LEMMA Counted ==
    ASSUME NEW kept \in Kept, NEW m, SoundMemory(m, kept), NEW v \in Variable
    PROVE  /\ m.impl[v] \in Data /\ SoundBlock(m.heap[m.impl[v]])
           /\ m.heap[m.impl[v]].count >= 1
           /\ m.impl[v] = Static => m.heap[m.impl[v]].count >= 2
<1>1. m.impl[v] \in Data
  BY DEF SoundMemory
<1>2. kept[m.impl[v]] \in Nat
  BY <1>1 DEF Kept
<1>3. Points(m, m.impl[v]) \in Nat /\ Points(m, m.impl[v]) >= 1
  BY PointsType
<1>4. QED
  BY <1>1, <1>2, <1>3 DEF SoundMemory

LEMMA RetainSound ==
    ASSUME NEW kept \in Kept, NEW m, SoundMemory(m, kept), NEW b \in Data, m.heap[b].count > 0
    PROVE  SoundMemory(retain(m, b), Plus(kept, b))
<1> DEFINE n == retain(m, b)
           d == [m.heap[b] EXCEPT !.count = @ + 1]
<1>1. m.heap \in [Data -> Block] /\ m.impl \in [Variable -> Data]
  BY DEF SoundMemory
<1>2. n.heap = [m.heap EXCEPT ![b] = d] /\ n.impl = m.impl /\ n = [heap |-> n.heap, impl |-> n.impl]
  BY <1>1 DEF retain, SoundMemory
<1>3. d \in Block /\ d.count = m.heap[b].count + 1 /\ d.data = m.heap[b].data
  BY <1>1 DEF Block
<1>4. SoundBlock(d)
  BY <1>1, <1>3 DEF SoundMemory, SoundBlock, Block
<1>5. /\ n.heap \in [Data -> Block] /\ n.impl = m.impl
      /\ \A x \in Data : n.heap[x] = IF x = b THEN d ELSE m.heap[x]
      /\ n \in [heap : [Data -> Block], impl : [Variable -> Data]]
  <2> HIDE DEF n, d
  <2>1. QED
    BY <1>2, <1>1, <1>3
<1> HIDE DEF n, d
<1>6. \A x \in Data : Points(n, x) = Points(m, x)
  BY <1>5 DEF Points
<1>7. ASSUME NEW x \in Data
      PROVE  /\ SoundBlock(n.heap[x])
             /\ n.heap[x].count = Points(n, x) + (IF x = Static THEN 1 ELSE 0) + Plus(kept, b)[x]
  <2>1. /\ SoundBlock(m.heap[x])
        /\ m.heap[x].count = Points(m, x) + (IF x = Static THEN 1 ELSE 0) + kept[x]
    BY DEF SoundMemory
  <2>2. kept[x] \in Nat /\ Points(m, x) \in Nat
    BY PointsType DEF Kept
  <2>3. n.heap[x].count = m.heap[x].count + (IF x = b THEN 1 ELSE 0)
    BY <1>3, <1>5, <2>1, <2>2
  <2>4. Plus(kept, b)[x] = kept[x] + (IF x = b THEN 1 ELSE 0)
    BY PlusType
  <2>5. QED
    BY <1>4, <1>5, <1>6, <2>1, <2>2, <2>3, <2>4
<1>8. n.heap[Static].data = <<>>
  BY <1>3, <1>5 DEF SoundMemory, Data
<1>9. QED
  BY <1>5, <1>7, <1>8 DEF SoundMemory, n

LEMMA FreedSound == SoundBlock(Freed) /\ Freed.count = 0
<1>1. Freed = [data |-> <<>>, capacity |-> 0, length |-> 0, hash |-> <<>>, count |-> 0]
  BY DEF Freed, NewData
<1>2. QED
  BY <1>1 DEF SoundBlock, Block, TextOf

\* What the call gives up is freed if nobody else has it.
LEMMA ReleaseSound ==
    ASSUME NEW kept \in Kept, NEW m, NEW b \in Data, SoundMemory(m, Plus(kept, b))
    PROVE  /\ SoundMemory(release(m, b), kept)
           /\ release(m, b).impl = m.impl
           /\ \A x \in Data : x # b => release(m, b).heap[x] = m.heap[x]
<1> DEFINE d == IF m.heap[b].count = 1 THEN Freed ELSE [m.heap[b] EXCEPT !.count = @ - 1]
           n == [heap |-> [m.heap EXCEPT ![b] = d], impl |-> m.impl]
<1>1. m.heap \in [Data -> Block] /\ m.impl \in [Variable -> Data]
  BY DEF SoundMemory
<1>2. release(m, b) = n
  BY DEF release, SoundMemory
<1>3. Points(m, b) \in Nat /\ kept[b] \in Nat
  BY PointsType DEF Kept
<1>4. m.heap[b].count = Points(m, b) + (IF b = Static THEN 1 ELSE 0) + kept[b] + 1
  BY <1>3, PlusType DEF SoundMemory
<1>5. SoundBlock(d) /\ d.count = m.heap[b].count - 1
  <2>1. CASE m.heap[b].count = 1
    BY <2>1, FreedSound
  <2>2. CASE m.heap[b].count # 1
    <3>1. SoundBlock(m.heap[b])
      BY DEF SoundMemory
    <3>2. d = [m.heap[b] EXCEPT !.count = @ - 1]
      BY <2>2
    <3>3. m.heap[b] \in Block /\ m.heap[b].count \in Nat /\ m.heap[b].count - 1 \in Nat
      BY <1>3, <1>4, <3>1 DEF SoundBlock
    <3> HIDE DEF d
    <3>4. /\ d \in Block /\ d.count = m.heap[b].count - 1 /\ d.data = m.heap[b].data
          /\ d.length = m.heap[b].length /\ d.hash = m.heap[b].hash
          /\ d.capacity = m.heap[b].capacity
      BY <3>2, <3>3 DEF Block
    <3>5. QED
      BY <3>1, <3>3, <3>4 DEF SoundBlock
  <2>3. QED
    BY <2>1, <2>2
<1>6. b = Static => d.data = <<>>
  <2>1. SUFFICES ASSUME b = Static PROVE d.data = <<>>
    OBVIOUS
  <2>2. m.heap[b].count # 1
    BY <1>3, <1>4, <2>1
  <2>3. QED
    BY <1>1, <2>1, <2>2 DEF SoundMemory, Block
<1> HIDE DEF d
<1>7. /\ n.impl = m.impl /\ \A x \in Data : n.heap[x] = IF x = b THEN d ELSE m.heap[x]
      /\ n \in [heap : [Data -> Block], impl : [Variable -> Data]]
  BY <1>1, <1>5 DEF SoundBlock
<1> HIDE DEF n
<1>8. \A x \in Data : Points(n, x) = Points(m, x)
  BY <1>7 DEF Points
<1>9. ASSUME NEW x \in Data
      PROVE  /\ SoundBlock(n.heap[x])
             /\ n.heap[x].count = Points(n, x) + (IF x = Static THEN 1 ELSE 0) + kept[x]
  <2>1. CASE x = b
    BY <1>3, <1>4, <1>5, <1>7, <1>8, <2>1
  <2>2. CASE x # b
    <3>1. Plus(kept, b)[x] = kept[x] + 0 /\ kept[x] \in Nat
      BY <2>2, PlusType DEF Kept
    <3>2. QED
      BY <1>7, <1>8, <2>2, <3>1 DEF SoundMemory
  <2>3. QED
    BY <2>1, <2>2
<1>10. n.heap[Static].data = <<>>
  BY <1>6, <1>7 DEF SoundMemory, Data
<1>11. QED
  BY <1>2, <1>7, <1>9, <1>10 DEF SoundMemory

\* A variable takes over data that the call has, and the call the data of the variable.
LEMMA PointSound ==
    ASSUME NEW kept \in Kept, NEW m, NEW b \in Data, SoundMemory(m, Plus(kept, b)),
           NEW v \in Variable
    PROVE  /\ SoundMemory([m EXCEPT !.impl[v] = b], Plus(kept, m.impl[v]))
           /\ [m EXCEPT !.impl[v] = b].heap = m.heap
           /\ [m EXCEPT !.impl[v] = b].impl = [m.impl EXCEPT ![v] = b]
<1> DEFINE n == [m EXCEPT !.impl[v] = b]
           o == m.impl[v]
<1>1. m.heap \in [Data -> Block] /\ m.impl \in [Variable -> Data]
  BY DEF SoundMemory
<1>2. n.heap = m.heap /\ n.impl = [m.impl EXCEPT ![v] = b]
  BY DEF SoundMemory
<1>3. n \in [heap : [Data -> Block], impl : [Variable -> Data]]
  BY <1>1 DEF SoundMemory
<1> HIDE DEF n
<1>4. o \in Data
  BY <1>1
<1>5. ASSUME NEW x \in Data
      PROVE  Points(n, x) + (IF x = o THEN 1 ELSE 0) = Points(m, x) + (IF x = b THEN 1 ELSE 0)
  <2>1. Self # Other /\ Self \in Variable /\ Other \in Variable
    BY ConstantsAssumption DEF Variable
  <2>2. CASE v = Self
    <3>1. n.impl[Self] = b /\ n.impl[Other] = m.impl[Other]
      BY <1>1, <1>2, <2>1, <2>2
    <3>2. QED
      BY <2>2, <3>1 DEF Points
  <2>3. CASE v = Other
    <3>1. n.impl[Other] = b /\ n.impl[Self] = m.impl[Self]
      BY <1>1, <1>2, <2>1, <2>3
    <3>2. QED
      BY <2>3, <3>1 DEF Points
  <2>4. QED
    BY <2>2, <2>3 DEF Variable
<1>6. ASSUME NEW x \in Data
      PROVE  /\ SoundBlock(n.heap[x])
             /\ n.heap[x].count = Points(n, x) + (IF x = Static THEN 1 ELSE 0) + Plus(kept, o)[x]
  <2>1. /\ Plus(kept, b)[x] = kept[x] + (IF x = b THEN 1 ELSE 0)
        /\ Plus(kept, o)[x] = kept[x] + (IF x = o THEN 1 ELSE 0)
    BY <1>4, PlusType
  <2>2. Points(m, x) \in Nat /\ Points(n, x) \in Nat /\ kept[x] \in Nat
    BY PointsType DEF Kept
  <2> HIDE DEF o
  <2>3. /\ SoundBlock(m.heap[x])
        /\ m.heap[x].count = Points(m, x) + (IF x = Static THEN 1 ELSE 0) + Plus(kept, b)[x]
    BY DEF SoundMemory
  <2>4. QED
    BY <1>2, <1>5, <2>1, <2>2, <2>3
<1>7. n.heap[Static].data = <<>>
  BY <1>2 DEF SoundMemory
<1>8. QED
  BY <1>2, <1>3, <1>6, <1>7 DEF SoundMemory, n, o
-----------------------------------------------------------------------------
(* The operations on data.                                                  *)

\* v has become text, the other variables point to what they did.
Rewrites(m, n, kept, v, text) ==
    /\ SoundMemory(n, kept) /\ Text(n, v) = text
    /\ \A w \in Variable : w # v => n.impl[w] = m.impl[w]

\* A buffer is free: no more than three are in use.
LEMMA SpareBuffer ==
    ASSUME NEW kept \in Kept, NEW m, SoundMemory(m, kept), Supply(m, kept)
    PROVE  \E b \in Buffer : m.heap[b].count = 0
<1>a. PICK before \in Data : \A b \in Data : kept[b] # 0 => b \in {before, m.impl[Other]}
  BY DEF Supply
<1>1. PICK b \in Buffer : b # m.impl[Self] /\ b # m.impl[Other] /\ b # before
  BY BufferAssumption
<1>2. b \in Data /\ b # Static
  BY ConstantsAssumption DEF Data
<1>3. kept[b] = 0
  BY <1>a, <1>1, <1>2
<1>4. Points(m, b) = 0
  BY <1>1 DEF Points
<1>5. m.heap[b].count = Points(m, b) + (IF b = Static THEN 1 ELSE 0) + kept[b]
  BY <1>2 DEF SoundMemory
<1>6. QED
  BY <1>2, <1>3, <1>4, <1>5

LEMMA NewDataSound ==
    ASSUME NEW text \in TextOf, NEW size \in Nat, size >= MinCapacity, Len(text) < size
    PROVE  SoundBlock(NewData(text, size)) /\ NewData(text, size).count = 1
           /\ NewData(text, size).data = text
<1>1. <<>> \in TextOf
  BY DEF TextOf
<1>2. QED
  BY <1>1 DEF NewData, SoundBlock, Block

LEMMA CreateSound ==
    ASSUME NEW kept \in Kept, NEW m, SoundMemory(m, kept), Supply(m, kept), NEW v \in Variable,
           NEW text \in TextOf, NEW size \in Nat, size >= MinCapacity, Len(text) < size
    PROVE  Rewrites(m, create(m, v, text, size), kept, v, text)
<1> DEFINE b == CHOOSE x \in Buffer : m.heap[x].count = 0
           d == NewData(text, size)
           p == [heap |-> [m.heap EXCEPT ![b] = d], impl |-> m.impl]
           q == [p EXCEPT !.impl[v] = b]
           o == m.impl[v]
<1>1. b \in Buffer /\ m.heap[b].count = 0
  BY SpareBuffer
<1>2. m.heap \in [Data -> Block] /\ m.impl \in [Variable -> Data]
  BY DEF SoundMemory
<1>3. create(m, v, text, size) = release(q, o)
  <2>1. create(m, v, text, size) = release([m EXCEPT !.heap[b] = d, !.impl[v] = b], o)
    BY DEF create
  <2> HIDE DEF b, d
  <2>2. [m EXCEPT !.heap[b] = d, !.impl[v] = b]
          = [heap |-> [m.heap EXCEPT ![b] = d], impl |-> [m.impl EXCEPT ![v] = b]]
    <3>1. PICK h, i : m = [heap |-> h, impl |-> i]
      BY DEF SoundMemory
    <3>2. m.heap = h /\ m.impl = i
      BY <3>1
    <3>3. [[heap |-> h, impl |-> i] EXCEPT !.heap[b] = d, !.impl[v] = b]
            = [heap |-> [h EXCEPT ![b] = d], impl |-> [i EXCEPT ![v] = b]]
      <4> DEFINE k == [h EXCEPT ![b] = d]
      <4>1. [[heap |-> h, impl |-> i] EXCEPT !.heap[b] = d] = [heap |-> k, impl |-> i]
        OBVIOUS
      <4>2. [[heap |-> h, impl |-> i] EXCEPT !.heap[b] = d, !.impl[v] = b]
              = [[[heap |-> h, impl |-> i] EXCEPT !.heap[b] = d] EXCEPT !.impl[v] = b]
        OBVIOUS
      <4>3. [[heap |-> k, impl |-> i] EXCEPT !.impl[v] = b]
              = [heap |-> k, impl |-> [i EXCEPT ![v] = b]]
        OBVIOUS
      <4>4. QED
        BY <4>1, <4>2, <4>3, Zenon
    <3>4. QED
      BY <3>1, <3>2, <3>3, Zenon
  <2>3. q = [heap |-> [m.heap EXCEPT ![b] = d], impl |-> [m.impl EXCEPT ![v] = b]]
    OBVIOUS
  <2> HIDE DEF q, o
  <2>4. QED
    BY <2>1, <2>2, <2>3
<1> HIDE DEF b
<1>4. b \in Data /\ b # Static
  BY <1>1, ConstantsAssumption DEF Data
<1>5. Points(m, b) = 0 /\ kept[b] = 0
  <2>1. Points(m, b) \in Nat /\ kept[b] \in Nat
    BY <1>4, PointsType DEF Kept
  <2>2. m.heap[b].count = Points(m, b) + 0 + kept[b]
    BY <1>4 DEF SoundMemory
  <2>3. QED
    BY <1>1, <2>1, <2>2
<1>6. SoundBlock(d) /\ d.count = 1 /\ d.data = text
  BY NewDataSound
<1> HIDE DEF d
<1>7. SoundMemory(p, Plus(kept, b))
  <2>1. /\ p.impl = m.impl /\ \A x \in Data : p.heap[x] = IF x = b THEN d ELSE m.heap[x]
        /\ p \in [heap : [Data -> Block], impl : [Variable -> Data]]
    BY <1>2, <1>6 DEF SoundBlock
  <2> HIDE DEF p
  <2>2. \A x \in Data : Points(p, x) = Points(m, x)
    BY <2>1 DEF Points
  <2>3. ASSUME NEW x \in Data
        PROVE  /\ SoundBlock(p.heap[x])
               /\ p.heap[x].count = Points(p, x) + (IF x = Static THEN 1 ELSE 0) + Plus(kept, b)[x]
    <3>1. Plus(kept, b)[x] = kept[x] + (IF x = b THEN 1 ELSE 0) /\ kept[x] \in Nat
      BY <1>4, PlusType DEF Kept
    <3>2. CASE x = b
      <4>1. p.heap[x] = d /\ Points(p, x) = 0 /\ kept[x] = 0 /\ x # Static
        BY <1>4, <1>5, <2>1, <2>2, <3>2
      <4>2. Plus(kept, b)[x] = 1
        BY <3>1, <3>2, <4>1
      <4>3. QED
        BY <1>6, <4>1, <4>2
    <3>3. CASE x # b
      <4>1. p.heap[x] = m.heap[x] /\ Points(p, x) = Points(m, x) /\ Plus(kept, b)[x] = kept[x]
        BY <2>1, <2>2, <3>1, <3>3
      <4>2. QED
        BY <4>1 DEF SoundMemory
    <3>4. QED
      BY <3>2, <3>3
  <2>4. p.heap[Static].data = <<>>
    BY <1>4, <2>1 DEF SoundMemory, Data
  <2>5. QED
    BY <2>1, <2>3, <2>4 DEF SoundMemory
<1>8. SoundMemory(q, Plus(kept, o)) /\ q.heap = p.heap /\ q.impl = [m.impl EXCEPT ![v] = b]
  <2>1. p.impl = m.impl
    OBVIOUS
  <2> HIDE DEF p
  <2>2. SoundMemory(q, Plus(kept, p.impl[v]))
    BY <1>4, <1>7, PointSound
  <2>3. q.heap = p.heap /\ q.impl = [p.impl EXCEPT ![v] = b]
    BY <1>7 DEF SoundMemory
  <2> HIDE DEF q
  <2>4. QED
    BY <2>1, <2>2, <2>3
<1>13. p.heap[b] = d
  BY <1>2, <1>4
<1> HIDE DEF p, q
<1>9. o \in Data /\ o # b
  BY <1>1, <1>2, Counted
<1> HIDE DEF o
<1>10. /\ SoundMemory(release(q, o), kept) /\ release(q, o).impl = q.impl
       /\ \A x \in Data : x # o => release(q, o).heap[x] = q.heap[x]
  <2>1. SoundMemory(q, Plus(kept, o))
    BY <1>8
  <2>2. QED
    BY <1>9, <2>1, ReleaseSound
<1>11. q.heap[b] = d /\ q.impl[v] = b /\ \A w \in Variable : w # v => q.impl[w] = m.impl[w]
  BY <1>2, <1>4, <1>8, <1>13
<1>12. QED
  BY <1>3, <1>4, <1>6, <1>9, <1>10, <1>11 DEF Rewrites, Text

LEMMA AssignSound ==
    ASSUME NEW kept \in Kept, NEW m, SoundMemory(m, kept), NEW v \in Variable,
           NEW b \in Data, m.heap[b].count > 0
    PROVE  SoundMemory(assign(m, v, b), kept)
<1> DEFINE p == retain(m, b)
           q == [p EXCEPT !.impl[v] = b]
<1>1. p.impl = m.impl
  BY DEF retain, SoundMemory
<1>2. SoundMemory(p, Plus(kept, b))
  BY RetainSound
<1> HIDE DEF p
<1>3. SoundMemory(q, Plus(kept, m.impl[v]))
  BY <1>1, <1>2, PointSound
<1>4. m.impl[v] \in Data
  BY DEF SoundMemory
<1>5. assign(m, v, b) = release(q, m.impl[v])
  BY DEF assign, p
<1> HIDE DEF q
<1>6. QED
  BY <1>3, <1>4, <1>5, ReleaseSound

\* A variable's own data can be changed in any way that keeps it sound.
LEMMA ChangeSound ==
    ASSUME NEW kept \in Kept, NEW m, SoundMemory(m, kept), NEW v \in Variable,
           NEW d, SoundBlock(d), d.count = m.heap[m.impl[v]].count,
           d.data = m.heap[m.impl[v]].data \/ ~shared(m, v),
           NEW n, n = [m EXCEPT !.heap[m.impl[v]] = d]
    PROVE  Rewrites(m, n, kept, v, d.data) /\ n.impl = m.impl
<1> DEFINE b == m.impl[v]
<1>1. m.heap \in [Data -> Block] /\ m.impl \in [Variable -> Data]
  BY DEF SoundMemory
<1>2. b \in Data
  BY <1>1
<1> HIDE DEF b
<1>3. /\ n.impl = m.impl /\ \A x \in Data : n.heap[x] = IF x = b THEN d ELSE m.heap[x]
      /\ n \in [heap : [Data -> Block], impl : [Variable -> Data]]
  BY <1>1, <1>2 DEF SoundBlock, SoundMemory, b
<1>4. \A x \in Data : Points(n, x) = Points(m, x)
  BY <1>3 DEF Points
<1>5. \A x \in Data :
        /\ SoundBlock(n.heap[x])
        /\ n.heap[x].count = Points(n, x) + (IF x = Static THEN 1 ELSE 0) + kept[x]
  BY <1>3, <1>4 DEF SoundMemory, b
<1>6. n.heap[Static].data = <<>>
  <2>1. CASE b = Static
    <3>1. shared(m, v)
      <4>1. m.heap[b].count \in Nat /\ m.heap[b].count >= 2
        BY <1>1, <1>2, <2>1, Counted DEF Block, b
      <4>2. QED
        BY <4>1 DEF shared, b
    <3>2. QED
      BY <1>2, <1>3, <2>1, <3>1 DEF SoundMemory, b
  <2>2. CASE b # Static
    BY <1>3, <2>2 DEF SoundMemory, Data
  <2>3. QED
    BY <2>1, <2>2
<1>7. QED
  BY <1>2, <1>3, <1>5, <1>6 DEF SoundMemory, Rewrites, Text, b

LEMMA AdjustSound ==
    ASSUME NEW kept \in Kept, NEW m, SoundMemory(m, kept), NEW v \in Variable,
           NEW text \in TextOf, ~shared(m, v), Len(text) < capacity(m, v)
    PROVE  Rewrites(m, adjust(m, v, text), kept, v, text)
<1> DEFINE d == [m.heap[m.impl[v]] EXCEPT !.data = text, !.length = 0, !.hash = <<>>]
<1>1. m.heap[m.impl[v]] \in Block /\ <<>> \in TextOf
  BY DEF SoundMemory, TextOf
<1>2. /\ d \in Block /\ d.data = text /\ d.length = 0 /\ d.hash = <<>>
      /\ d.count = m.heap[m.impl[v]].count /\ d.capacity = m.heap[m.impl[v]].capacity
  BY <1>1 DEF Block
<1>3. adjust(m, v, text) = [m EXCEPT !.heap[m.impl[v]] = d]
  BY DEF adjust
<1> HIDE DEF d
<1>4. SoundBlock(d)
  <2>1. d.capacity >= MinCapacity
    <3>1. SoundBlock(m.heap[m.impl[v]]) /\ m.heap[m.impl[v]].count >= 1
      BY Counted
    <3>2. m.heap[m.impl[v]].count > 0
      BY <1>1, <3>1 DEF Block
    <3>3. QED
      BY <1>2, <3>1, <3>2 DEF SoundBlock
  <2>2. QED
    BY <1>2, <2>1 DEF SoundBlock, capacity
<1>5. QED
  BY <1>2, <1>3, <1>4, ChangeSound

\* What is counted and remembered is true, and no text changes.
LEMMA CacheSound ==
    ASSUME NEW kept \in Kept, NEW m, SoundMemory(m, kept), NEW v \in Variable
    PROVE  /\ grapheme_count(m, v) \in Nat
           /\ SoundMemory(CacheLength(m, v), kept)
           /\ CacheLength(m, v).impl = m.impl
           /\ \A w \in Variable : Text(CacheLength(m, v), w) = Text(m, w)
<1> DEFINE b == m.heap[m.impl[v]]
           d == [b EXCEPT !.length = grapheme_count(m, v)]
<1>1. SoundBlock(b) /\ b \in Block
  BY DEF SoundMemory
<1>2. CountGraphemes(b.data) \in Nat
  BY <1>1, CountType DEF Block
<1>3. CountGraphemes(<<>>) = 0
  <2>1. Boundaries(<<>>) = {0}
    <3>1. \A o : o \in Boundaries(<<>>) <=> o \in {0}
      BY DEF Boundaries
    <3>2. QED
      BY <3>1
  <2>2. Cardinality({0}) = 1
    BY FS_Singleton
  <2>3. Cardinality(Boundaries(<<>>)) = Cardinality({0})
    BY <2>1, Zenon
  <2>4. QED
    BY <2>2, <2>3 DEF CountGraphemes
<1>4. grapheme_count(m, v) = CountGraphemes(b.data)
  <2> HIDE DEF b
  <2>1. CASE b.length = 0 /\ b.data # <<>>
    BY <2>1 DEF grapheme_count, b
  <2>2. CASE b.length = 0 /\ b.data = <<>>
    BY <1>3, <2>2 DEF grapheme_count, b
  <2>3. CASE b.length # 0
    BY <1>1, <2>3 DEF grapheme_count, SoundBlock, b
  <2>4. QED
    BY <2>1, <2>2, <2>3
<1>5. CacheLength(m, v) = [m EXCEPT !.heap[m.impl[v]] = d]
  BY DEF CacheLength, SoundMemory
<1>6. /\ d \in Block /\ d.data = b.data /\ d.length = CountGraphemes(b.data) /\ d.hash = b.hash
      /\ d.count = b.count /\ d.capacity = b.capacity
  BY <1>1, <1>2, <1>4 DEF Block
<1> HIDE DEF d
<1>7. SoundBlock(d)
  BY <1>1, <1>6 DEF SoundBlock
<1>8. Rewrites(m, CacheLength(m, v), kept, v, d.data) /\ CacheLength(m, v).impl = m.impl
  <2>1. d.count = m.heap[m.impl[v]].count /\ d.data = m.heap[m.impl[v]].data
    BY <1>6
  <2>2. QED
    BY <1>5, <1>7, <2>1, ChangeSound
<1>9. \A w \in Variable : Text(CacheLength(m, v), w) = Text(m, w)
  <2>1. TAKE w \in Variable
  <2>2. CacheLength(m, v).heap = [m.heap EXCEPT ![m.impl[v]] = d]
    BY <1>5 DEF SoundMemory
  <2>3. m.impl[w] \in Data /\ m.heap \in [Data -> Block]
    BY DEF SoundMemory
  <2>4. QED
    BY <1>6, <1>8, <2>2, <2>3 DEF Text
<1>10. QED
  BY <1>2, <1>4, <1>8, <1>9 DEF Rewrites

LEMMA HashSound ==
    ASSUME NEW kept \in Kept, NEW m, SoundMemory(m, kept), NEW v \in Variable
    PROVE  SoundMemory([m EXCEPT !.heap[m.impl[v]].hash = hash(m, v)], kept)
<1> DEFINE b == m.heap[m.impl[v]]
           d == [b EXCEPT !.hash = hash(m, v)]
<1>1. SoundBlock(b) /\ b \in Block
  BY DEF SoundMemory
<1>2. hash(m, v) = b.data
  BY <1>1 DEF hash, SoundBlock
<1>3. [m EXCEPT !.heap[m.impl[v]].hash = hash(m, v)] = [m EXCEPT !.heap[m.impl[v]] = d]
  BY DEF SoundMemory
<1>4. /\ d \in Block /\ d.data = b.data /\ d.length = b.length /\ d.hash = b.data
      /\ d.count = b.count /\ d.capacity = b.capacity
  BY <1>1, <1>2 DEF Block
<1> HIDE DEF d
<1>5. SoundBlock(d)
  BY <1>1, <1>4 DEF SoundBlock
<1>6. Rewrites(m, [m EXCEPT !.heap[m.impl[v]] = d], kept, v, d.data)
  BY <1>4, <1>5, ChangeSound
<1>7. QED
  BY <1>3, <1>6 DEF Rewrites
-----------------------------------------------------------------------------
(* The functions that change a string.  Each of them, when it keeps what    *)
(* Supply says, leaves sound memory and the texts of the others.            *)

\* The data of a variable says how large a buffer it has.
LEMMA CapacityType ==
    ASSUME NEW kept \in Kept, NEW m, SoundMemory(m, kept), NEW v \in Variable
    PROVE  /\ Text(m, v) \in TextOf /\ Len(Text(m, v)) \in Nat
           /\ capacity(m, v) \in Nat /\ capacity(m, v) >= MinCapacity
           /\ capacity(m, v) # 0 /\ Len(Text(m, v)) < capacity(m, v)
<1>1. /\ SoundBlock(m.heap[m.impl[v]]) /\ m.heap[m.impl[v]].count >= 1
      /\ m.heap[m.impl[v]] \in Block
  BY Counted DEF SoundBlock
<1>2. Text(m, v) \in TextOf
  BY <1>1 DEF Block, Text
<1>3. Len(Text(m, v)) \in Nat
  BY <1>2, BoundariesType
<1>4. /\ capacity(m, v) \in Nat /\ capacity(m, v) >= MinCapacity
      /\ Len(Text(m, v)) < capacity(m, v)
  <2> DEFINE d == m.heap[m.impl[v]]
  <2>1. SoundBlock(d) /\ d.count > 0 /\ d.capacity \in Nat
    BY <1>1 DEF Block
  <2> HIDE DEF d
  <2>2. d.capacity \in Nat /\ d.capacity >= MinCapacity /\ Len(d.data) < d.capacity
    BY <2>1 DEF SoundBlock
  <2>3. QED
    BY <2>2 DEF d, Text, capacity
<1>5. QED
  BY <1>2, <1>3, <1>4, ConstantsAssumption

LEMMA FittingType ==
    ASSUME NEW text \in TextOf
    PROVE  /\ Fitting(text) \in Nat /\ Fitting(text) >= MinCapacity
           /\ Len(text) < Fitting(text)
<1>1. Len(text) + 1 \in Nat /\ MinCapacity \in Nat /\ MinCapacity # 0
  BY BoundariesType, ConstantsAssumption
<1>2. /\ Fitting(text) \in Nat /\ Fitting(text) >= MinCapacity
      /\ Fitting(text) >= Len(text) + 1
  BY <1>1, CapacityGrows DEF Fitting
<1>3. QED
  BY <1>1, <1>2, BoundariesType

\* In place if it can be, in a new buffer if not: size is what the buffer grows to.
LEMMA RewriteSound ==
    ASSUME NEW kept \in Kept, NEW m, SoundMemory(m, kept), Supply(m, kept),
           NEW v \in Variable, NEW text \in TextOf,
           NEW size \in Nat, size >= MinCapacity, Len(text) < size
    PROVE  Rewrites(m, IF FitsAlone(m, v, text) THEN adjust(m, v, text)
                       ELSE create(m, v, text, size), kept, v, text)
<1>1. CASE FitsAlone(m, v, text)
  <2>1. ~shared(m, v) /\ Len(text) + 1 < capacity(m, v)
    BY <1>1 DEF FitsAlone, check_capacity
  <2>2. Len(text) < capacity(m, v)
    BY <2>1, CapacityType, BoundariesType
  <2>3. QED
    BY <1>1, <2>1, <2>2, AdjustSound
<1>2. CASE ~FitsAlone(m, v, text)
  BY <1>2, CreateSound
<1>3. QED
  BY <1>1, <1>2

LEMMA GrownType ==
    ASSUME NEW kept \in Kept, NEW m, SoundMemory(m, kept), NEW v \in Variable,
           NEW text \in TextOf,
           NEW size, size = AtLeast(find_capacity(Len(text) + 1, capacity(m, v)))
    PROVE  size \in Nat /\ size >= MinCapacity /\ Len(text) < size
<1> DEFINE found == find_capacity(Len(text) + 1, capacity(m, v))
<1>1. capacity(m, v) \in Nat /\ capacity(m, v) # 0 /\ Len(text) \in Nat /\ MinCapacity \in Nat
  BY CapacityType, BoundariesType, ConstantsAssumption
<1>2. Len(text) + 1 \in Nat
  BY <1>1
<1>3. found \in Nat /\ found >= Len(text) + 1
  BY <1>1, <1>2, CapacityGrows
<1> HIDE DEF found
<1>4. size = AtLeast(found)
  BY DEF found
<1>5. QED
  BY <1>1, <1>3, <1>4 DEF AtLeast

LEMMA AppendSound ==
    ASSUME NEW kept \in Kept, NEW m, SoundMemory(m, kept), Supply(m, kept),
           NEW v \in Variable, NEW suffix \in TextOf
    PROVE  Rewrites(m, append(m, v, suffix), kept, v, Text(m, v) \o suffix)
<1> DEFINE text == Text(m, v) \o suffix
           size == AtLeast(find_capacity(Len(text) + 1, capacity(m, v)))
<1>1. text \in TextOf
  BY CapacityType, ConcatProperties DEF TextOf
<1>2. append(m, v, suffix) = IF FitsAlone(m, v, text) THEN adjust(m, v, text)
                             ELSE create(m, v, text, size)
  BY DEF append
<1> HIDE DEF text
<1>3. size \in Nat /\ size >= MinCapacity /\ Len(text) < size
  BY <1>1, GrownType
<1> HIDE DEF size
<1>4. Rewrites(m, append(m, v, suffix), kept, v, text)
  BY <1>1, <1>2, <1>3, RewriteSound
<1>5. QED
  BY <1>4 DEF text

LEMMA InsertSound ==
    ASSUME NEW kept \in Kept, NEW m, SoundMemory(m, kept), Supply(m, kept),
           NEW v \in Variable, NEW infix \in TextOf, NEW it \in 0..Len(Text(m, v))
    PROVE  SoundMemory(insert(m, v, it, infix), kept)
<1> DEFINE old == Text(m, v)
           text == Slice(old, 0, it) \o infix \o From(old, it)
           size == AtLeast(find_capacity(Len(text) + 1, capacity(m, v)))
<1>1. old \in TextOf /\ Len(old) \in Nat
  BY CapacityType
<1>2. Slice(old, 0, it) \in TextOf /\ From(old, it) \in TextOf
  <2> HIDE DEF old
  <2>1. it \in 0..Len(old) /\ it \in Nat /\ 0 \in Nat /\ Len(old) \in 0..Len(old)
    BY <1>1 DEF old
  <2>2. QED
    BY <1>1, <2>1, SliceType DEF From
<1> HIDE DEF old
<1>3. text \in TextOf
  <2> DEFINE front == Slice(old, 0, it) \o infix
  <2>1. front \in TextOf
    BY <1>2, ConcatProperties DEF TextOf
  <2> HIDE DEF front
  <2>2. front \o From(old, it) \in TextOf
    BY <1>2, <2>1, ConcatProperties DEF TextOf
  <2>3. QED
    BY <2>2 DEF front
<1>4. CASE infix = <<>>
  BY <1>4 DEF insert
<1>5. CASE infix # <<>>
  <2>1. insert(m, v, it, infix) = IF FitsAlone(m, v, text) THEN adjust(m, v, text)
                                  ELSE create(m, v, text, size)
    BY <1>5 DEF insert, old
  <2> HIDE DEF text
  <2>2. size \in Nat /\ size >= MinCapacity /\ Len(text) < size
    BY <1>3, GrownType
  <2> HIDE DEF size
  <2>3. Rewrites(m, insert(m, v, it, infix), kept, v, text)
    BY <1>3, <2>1, <2>2, RewriteSound
  <2>4. QED
    BY <2>3 DEF Rewrites
<1>6. QED
  BY <1>4, <1>5

LEMMA ReplaceRangeSound ==
    ASSUME NEW kept \in Kept, NEW m, SoundMemory(m, kept), Supply(m, kept),
           NEW v \in Variable, NEW after \in TextOf,
           NEW from \in Nat, NEW to \in from..Len(Text(m, v))
    PROVE  /\ SoundMemory(replace_range(m, v, from, to, after), kept)
           /\ \A w \in Variable : w # v => replace_range(m, v, from, to, after).impl[w] = m.impl[w]
<1> DEFINE old == Text(m, v)
           front == Slice(old, 0, from)
           back == From(old, to)
           text == front \o after \o back
<1>1. old \in TextOf /\ Len(old) \in Nat /\ Len(after) \in Nat
  BY CapacityType, BoundariesType
<1>2. front \in TextOf /\ back \in TextOf
  <2> HIDE DEF old
  <2>1. /\ from \in 0..Len(old) /\ to \in Nat /\ 0 \in Nat /\ Len(old) \in 0..Len(old)
        /\ 0 <= from /\ to <= Len(old)
    BY <1>1 DEF old
  <2>2. front \in TextOf
    BY <1>1, <2>1, SliceType
  <2>3. back \in TextOf
    BY <1>1, <2>1, SliceType DEF From
  <2>4. QED
    BY <2>2, <2>3
<1> HIDE DEF old, front, back
<1>3. text \in TextOf
  BY <1>2, ConcatProperties DEF TextOf
<1>4. CASE from = to
  BY <1>4 DEF replace_range
<1>5. CASE from # to
  <2>1. replace_range(m, v, from, to, after)
          = IF FitsAlone(m, v, text) THEN adjust(m, v, text)
            ELSE create(m, v, text, Fitting(text))
    BY <1>5 DEF replace_range, old, front, back
  <2> HIDE DEF text
  <2>2. Fitting(text) \in Nat /\ Fitting(text) >= MinCapacity /\ Len(text) < Fitting(text)
    BY <1>3, FittingType
  <2>3. Rewrites(m, replace_range(m, v, from, to, after), kept, v, text)
    BY <1>3, <2>1, <2>2, RewriteSound
  <2>4. QED
    BY <2>3 DEF Rewrites
<1>6. QED
  BY <1>4, <1>5

LEMMA ShortenSound ==
    ASSUME NEW kept \in Kept, NEW m, SoundMemory(m, kept), Supply(m, kept),
           NEW v \in Variable, NEW text \in TextOf, Len(text) <= Len(Text(m, v))
    PROVE  SoundMemory(Shorten(m, v, text), kept)
<1>1. CASE Len(text) = Len(Text(m, v))
  BY <1>1 DEF Shorten
<1>2. CASE Len(text) # Len(Text(m, v)) /\ shared(m, v)
  <2>1. Shorten(m, v, text) = create(m, v, text, Fitting(text))
    BY <1>2 DEF Shorten
  <2>2. QED
    BY <2>1, FittingType, CreateSound DEF Rewrites
<1>3. CASE Len(text) # Len(Text(m, v)) /\ ~shared(m, v)
  <2>1. Shorten(m, v, text) = adjust(m, v, text)
    BY <1>3 DEF Shorten
  <2>2. Len(text) < capacity(m, v)
    BY CapacityType, BoundariesType
  <2>3. QED
    BY <1>3, <2>1, <2>2, AdjustSound DEF Rewrites
<1>4. QED
  BY <1>1, <1>2, <1>3
-----------------------------------------------------------------------------
(* The loop of replace.                                                     *)

\* What a turn of the loop starts from and leaves.
Turning(x, m, kept) ==
    /\ x \in [m : [heap : [Data -> Block], impl : [Variable -> Data]], pos : Nat, counter : Nat]
    /\ SoundMemory(x.m, kept)
    /\ x.m.impl[Other] = m.impl[Other]

LEMMA TurnSound ==
    ASSUME NEW kept \in Kept, NEW m, Supply(m, kept), NEW before \in TextOf, NEW after \in TextOf,
           NEW x, Turning(x, m, kept), x.pos < Len(Text(x.m, Self)),
           NEW at, at = find(Text(x.m, Self), before, x.pos), at # Len(Text(x.m, Self)),
           NEW y, y = [m |-> replace_range(x.m, Self, at, at + Len(before), after),
                       pos |-> at + Len(after), counter |-> x.counter + 1]
    PROVE  Turning(y, m, kept)
<1> DEFINE text == Text(x.m, Self)
<1>1. SoundMemory(x.m, kept) /\ x.pos \in Nat /\ x.counter \in Nat
  BY DEF Turning
<1>2. Self \in Variable /\ Other \in Variable /\ Self # Other
  BY ConstantsAssumption DEF Variable
<1>3. text \in TextOf /\ Len(text) \in Nat /\ Len(before) \in Nat /\ Len(after) \in Nat
  BY <1>1, <1>2, CapacityType, BoundariesType
<1>4. at \in x.pos..Len(text) /\ Occurs(text, before, at)
  <2> HIDE DEF text
  <2>1. x.pos \in 0..Len(text) /\ at = find(text, before, x.pos) /\ at # Len(text)
    BY <1>1, <1>3 DEF text
  <2>2. /\ find(text, before, x.pos) \in x.pos..Len(text)
        /\ find(text, before, x.pos) # Len(text) => Occurs(text, before, find(text, before, x.pos))
    BY <1>3, <2>1, FindType
  <2>3. QED
    BY <2>1, <2>2
<1>5. at \in Nat /\ at + Len(before) \in at..Len(text)
  BY <1>1, <1>3, <1>4 DEF Occurs
<1>6. Supply(x.m, kept)
  BY DEF Turning, Supply
<1>7. SoundMemory(y.m, kept) /\ y.m.impl[Other] = x.m.impl[Other]
  <2> DEFINE to == at + Len(before)
             n == replace_range(x.m, Self, at, to, after)
  <2>1. to \in at..Len(Text(x.m, Self)) /\ y.m = n
    BY <1>5
  <2> HIDE DEF to
  <2> DEFINE m1 == x.m
  <2>2. SoundMemory(m1, kept) /\ Supply(m1, kept) /\ at \in Nat /\ to \in at..Len(Text(m1, Self))
    BY <1>1, <1>5, <1>6, <2>1
  <2> HIDE DEF m1
  <2> DEFINE n1 == replace_range(m1, Self, at, to, after)
  <2>3. SoundMemory(n1, kept)
    BY <1>2, <2>2, ReplaceRangeSound
  <2>4. \A w \in Variable : w # Self => n1.impl[w] = m1.impl[w]
    BY <1>2, <2>2, ReplaceRangeSound
  <2>5. SoundMemory(n, kept) /\ \A w \in Variable : w # Self => n.impl[w] = x.m.impl[w]
    BY <2>3, <2>4 DEF m1
  <2> HIDE DEF n
  <2>6. QED
    BY <1>2, <2>1, <2>5
<1>8. y \in [m : [heap : [Data -> Block], impl : [Variable -> Data]], pos : Nat, counter : Nat]
  <2>1. y.m \in [heap : [Data -> Block], impl : [Variable -> Data]]
    BY <1>7 DEF SoundMemory
  <2>2. at + Len(after) \in Nat /\ x.counter + 1 \in Nat
    BY <1>1, <1>3, <1>5
  <2>3. QED
    BY <2>1, <2>2
<1>9. QED
  BY <1>7, <1>8 DEF Turning

LEMMA ReplaceSound ==
    ASSUME NEW kept \in Kept, NEW m, SoundMemory(m, kept), Supply(m, kept),
           NEW before \in TextOf, NEW after \in TextOf, NEW ntimes \in Int
    PROVE  SoundMemory(replace(m, Self, before, after, ntimes).m, kept)
<1> DEFINE more(x) == x.pos < Len(Text(x.m, Self)) /\ (ntimes < 0 \/ x.counter < ntimes)
           at(x) == find(Text(x.m, Self), before, x.pos)
           turn(x) == IF at(x) = Len(Text(x.m, Self)) THEN [x EXCEPT !.pos = at(x)]
                      ELSE [m |-> replace_range(x.m, Self, at(x), at(x) + Len(before), after),
                            pos |-> at(x) + Len(after), counter |-> x.counter + 1]
           step(x) == IF more(x) THEN turn(x) ELSE x
           start == [m |-> m, pos |-> 0, counter |-> 0]
           Run(f) == f = [k \in Nat |-> IF k = 0 THEN start ELSE
                            IF more(f[k - 1]) THEN turn(f[k - 1]) ELSE f[k - 1]]
           run == CHOOSE f : Run(f)
           X == {x \in [m : [heap : [Data -> Block], impl : [Variable -> Data]],
                        pos : Nat, counter : Nat] : Turning(x, m, kept)}
           F == [x \in X |-> step(x)]
<1>1. Self \in Variable
  BY DEF Variable
<1>2. start \in X
  BY DEF Turning, SoundMemory
<1>3. ASSUME NEW x \in X PROVE step(x) \in X
  <2>1. Turning(x, m, kept)
    OBVIOUS
  <2>2. /\ x.m \in [heap : [Data -> Block], impl : [Variable -> Data]]
        /\ x.pos \in Nat /\ x.counter \in Nat /\ SoundMemory(x.m, kept)
    BY <2>1 DEF Turning
  <2>3. Len(Text(x.m, Self)) \in Nat
    BY <1>1, <2>2, CapacityType
  <2>4. CASE ~more(x)
    BY <2>4
  <2>5. CASE more(x) /\ at(x) = Len(Text(x.m, Self))
    <3> DEFINE y == [x EXCEPT !.pos = at(x)]
    <3>1. step(x) = y
      BY <2>5
    <3>2. at(x) \in Nat
      BY <2>3, <2>5
    <3> HIDE DEF at
    <3>3. /\ y \in [m : [heap : [Data -> Block], impl : [Variable -> Data]],
                    pos : Nat, counter : Nat]
          /\ y.m = x.m /\ y.pos = at(x)
      BY <2>1, <3>2 DEF Turning
    <3> HIDE DEF y, step
    <3>4. Turning(y, m, kept)
      BY <2>2, <2>3, <2>5, <3>3 DEF Turning
    <3>5. QED
      BY <3>1, <3>3, <3>4
  <2>6. CASE more(x) /\ at(x) # Len(Text(x.m, Self))
    <3> DEFINE y == [m |-> replace_range(x.m, Self, at(x), at(x) + Len(before), after),
                     pos |-> at(x) + Len(after), counter |-> x.counter + 1]
    <3>1. step(x) = y
      BY <2>6
    <3>2. x.pos < Len(Text(x.m, Self))
      BY <2>6
    <3>3. Turning(y, m, kept)
      BY <2>1, <2>6, <3>2, TurnSound
    <3> HIDE DEF y, step
    <3>4. y \in X
      BY <3>3 DEF Turning
    <3>5. QED
      BY <3>1, <3>4
  <2>7. QED
    BY <2>4, <2>5, <2>6
<1> HIDE DEF X
<1>4. F \in [X -> X]
  <2> HIDE DEF step
  <2>1. QED
    BY <1>3
<1>5. PICK g : Iterates(g, start, F, X)
  <2> HIDE DEF F, start
  <2>1. QED
    BY <1>2, <1>4, Iteration
<1>6. Run(g)
  <2> HIDE DEF start, step
  <2>1. g = [k \in Nat |-> g[k]] /\ g[0] = start
    BY <1>5 DEF Iterates
  <2>2. ASSUME NEW k \in Nat, k # 0 PROVE g[k] = step(g[k - 1])
    <3>1. k - 1 \in Nat
      BY <2>2
    <3>2. g[k - 1] \in X
      BY <1>5, <3>1 DEF Iterates
    <3>3. F[g[k - 1]] = step(g[k - 1])
      BY <3>2
    <3> HIDE DEF F
    <3>4. QED
      BY <1>5, <2>2, <3>3 DEF Iterates
  <2>3. g = [k \in Nat |-> IF k = 0 THEN start ELSE step(g[k - 1])]
    BY <2>1, <2>2
  <2> HIDE DEF more, turn
  <2>4. QED
    BY <2>3 DEF step
<1>7. Run(run)
  <2> HIDE DEF Run
  <2>1. QED
    BY <1>6
<1>8. replace(m, Self, before, after, ntimes).m = run[Len(Text(m, Self)) + 1].m
  BY DEF replace
<1> HIDE DEF run
<1>9. run[0] = start /\ \A k \in Nat : run[k + 1] = step(run[k])
  <2> HIDE DEF start, more, turn
  <2>1. \A k \in Nat : run[k] = IF k = 0 THEN start ELSE step(run[k - 1])
    BY <1>7
  <2> HIDE DEF step
  <2>2. ASSUME NEW k \in Nat PROVE run[k + 1] = step(run[k])
    <3>1. k + 1 \in Nat /\ k + 1 # 0 /\ k + 1 - 1 = k
      OBVIOUS
    <3>2. QED
      BY <2>1, <3>1
  <2>3. QED
    BY <2>1, <2>2
<1> HIDE DEF start, step
<1> DEFINE T == {k \in Nat : run[k] \in X}
<1>10. 0 \in T
  BY <1>2, <1>9
<1>11. ASSUME NEW k \in Nat, k \in T PROVE k + 1 \in T
  BY <1>3, <1>9, <1>11
<1>12. \A k \in Nat : k \in T
  <2> HIDE DEF T
  <2>1. QED
    BY <1>10, <1>11, Induction
<1>13. Len(Text(m, Self)) + 1 \in Nat
  BY <1>1, CapacityType
<1>14. run[Len(Text(m, Self)) + 1] \in X
  BY <1>12, <1>13
<1>15. QED
  BY <1>8, <1>14 DEF X, Turning

LEMMA ReplaceLastSound ==
    ASSUME NEW kept \in Kept, NEW m, SoundMemory(m, kept), Supply(m, kept),
           NEW before \in TextOf, NEW after \in TextOf
    PROVE  SoundMemory(replace_last(m, Self, before, after), kept)
<1> DEFINE text == Text(m, Self)
           pos == rfind(text, before, Len(text))
<1>1. Self \in Variable
  BY DEF Variable
<1>2. text \in TextOf /\ Len(text) \in Nat /\ Len(before) \in Nat /\ Len(text) \in 0..Len(text)
  BY <1>1, CapacityType, BoundariesType
<1>3. pos \in 0..Len(text) /\ (pos # Len(text) => Occurs(text, before, pos))
  <2> HIDE DEF text
  <2>1. QED
    BY <1>2, FindBackType
<1>4. CASE pos = Len(text)
  BY <1>4 DEF replace_last
<1>5. CASE pos # Len(text)
  <2>1. replace_last(m, Self, before, after)
          = replace_range(m, Self, pos, pos + Len(before), after)
    BY <1>5 DEF replace_last
  <2> HIDE DEF pos
  <2>2. pos \in Nat /\ pos + Len(before) \in pos..Len(text)
    BY <1>2, <1>3, <1>5 DEF Occurs
  <2>3. QED
    BY <1>1, <2>1, <2>2, ReplaceRangeSound
<1>6. QED
  BY <1>4, <1>5

\* An index in range stands for a place in the text.
LEMMA IndexType ==
    ASSUME NEW kept \in Kept, NEW m, SoundMemory(m, kept), NEW i \in Int, i # 0
    PROVE  index_to_iter(m, Self, i) \in 0..Len(Text(m, Self))
<1> DEFINE text == Text(m, Self)
<1>1. text \in TextOf /\ Len(text) \in Nat
  BY CapacityType DEF Variable
<1>2. 0 \in 0..Len(text) /\ Len(text) \in 0..Len(text) /\ i - 1 \in Int
  BY <1>1
<1> HIDE DEF text
<1>3. advance(text, 0, i - 1) \in 0..Len(text) /\ advance(text, Len(text), i) \in 0..Len(text)
  BY <1>1, <1>2, AdvanceType
<1>4. QED
  BY <1>3 DEF index_to_iter, text
-----------------------------------------------------------------------------
(* The calls.                                                               *)

LEMMA NothingKept ==
    /\ Nothing \in Kept /\ \A m : Supply(m, Nothing)
    /\ Self \in Variable /\ Other \in Variable
<1>1. \A b \in Data : Nothing[b] = 0
  BY DEF Nothing
<1>2. Static \in Data
  BY DEF Data
<1>3. \A m : Supply(m, Nothing)
  BY <1>1, <1>2 DEF Supply
<1>4. QED
  BY <1>3 DEF Nothing, Kept, Variable

\* A call that leaves sound memory keeps the invariant.
LEMMA CallSound ==
    ASSUME NEW m, SoundMemory(m, Nothing), NEW name, NEW args, NEW result,
           Call(name, args, m, result)
    PROVE  IInv'
<1>1. Memory' = m
  <2>1. heap' = m.heap /\ impl' = m.impl /\ m = [heap |-> m.heap, impl |-> m.impl]
    BY DEF Call, SoundMemory
  <2>2. QED
    BY <2>1 DEF Memory
<1>2. Nothing' = Nothing
  BY DEF Nothing
<1>3. SoundMemory(Memory', Nothing)
  BY <1>1
<1>4. SoundMemory(Memory, Nothing)' <=> SoundMemory(Memory', Nothing)
  BY DEF SoundMemory, Points, Nothing
<1>5. QED
  BY <1>3, <1>4 DEF IInv

\* A call counts what it is passed by value.
LEMMA HeldSound ==
    ASSUME IInv, NEW v \in Variable
    PROVE  /\ impl[v] \in Data /\ Plus(Nothing, impl[v]) \in Kept
           /\ SoundMemory(Held(v), Plus(Nothing, impl[v]))
           /\ Held(v).impl = impl
           /\ \A b \in Data : Plus(Nothing, impl[v])[b] # 0 => b = impl[v]
           /\ \A w \in Variable : Text(Held(v), w) = text_of(w)
<1>1. Memory.impl = impl /\ Memory.heap = heap /\ SoundMemory(Memory, Nothing)
  BY DEF Memory, IInv
<1>2. /\ impl[v] \in Data /\ heap[impl[v]].count >= 1 /\ heap[impl[v]] \in Block
      /\ heap \in [Data -> Block] /\ impl \in [Variable -> Data]
  <2>1. impl[v] \in Data /\ heap[impl[v]].count >= 1
    BY <1>1, NothingKept, Counted
  <2>2. QED
    BY <1>1, <2>1 DEF SoundMemory
<1>3. heap[impl[v]].count > 0
  BY <1>2 DEF Block
<1>4. Plus(Nothing, impl[v]) \in Kept
  BY <1>2, NothingKept, PlusType
<1>5. SoundMemory(Held(v), Plus(Nothing, impl[v]))
  BY <1>1, <1>2, <1>3, NothingKept, RetainSound DEF Held
<1>6. \A b \in Data : Plus(Nothing, impl[v])[b] # 0 => b = impl[v]
  BY DEF Plus, Nothing
<1>7. /\ Held(v).impl = impl
      /\ Held(v).heap = [heap EXCEPT ![impl[v]] = [heap[impl[v]] EXCEPT !.count = @ + 1]]
  BY <1>1, <1>2 DEF Held, retain, Memory
<1>8. \A w \in Variable : Text(Held(v), w) = text_of(w)
  <2>1. TAKE w \in Variable
  <2>2. impl[w] \in Data
    BY <1>2
  <2>3. Held(v).heap[impl[w]].data = heap[impl[w]].data
    BY <1>2, <1>7, <2>2 DEF Block
  <2>4. QED
    BY <1>1, <1>7, <2>3 DEF Text, text_of
<1>9. QED
  BY <1>2, <1>4, <1>5, <1>6, <1>7, <1>8

\* What a call works with.
LEMMA AtCall ==
    ASSUME IInv
    PROVE  /\ SoundMemory(Memory, Nothing) /\ Supply(Memory, Nothing)
           /\ Nothing \in Kept /\ Self \in Variable /\ Other \in Variable
           /\ self \in TextOf /\ Len(self) \in Nat
           /\ \A v \in Variable : text_of(v) \in TextOf
<1>1. SoundMemory(Memory, Nothing)
  BY DEF IInv
<1>2. QED
  BY <1>1, NothingKept, CapacityType DEF self, text_of

LEMMA EditSound ==
    ASSUME NEW m, SoundMemory(m, Nothing), NEW name, NEW args, Edit(name, args, m)
    PROVE  IInv'
BY CallSound DEF Edit

LEMMA AskSound ==
    ASSUME IInv, NEW name, NEW args, NEW result, Ask(name, args, result)
    PROVE  IInv'
BY CallSound, AtCall DEF Ask

LEMMA EditWithSound ==
    ASSUME IInv, NEW v \in Variable, NEW m, SoundMemory(m, Plus(Nothing, impl[v])),
           NEW name, NEW args, NEW result, Call(name, args, release(m, impl[v]), result)
    PROVE  IInv'
<1>1. SoundMemory(release(m, impl[v]), Nothing)
  BY HeldSound, NothingKept, ReleaseSound
<1>2. QED
  BY <1>1, CallSound

LEMMA HeldSupply ==
    ASSUME IInv, NEW v \in Variable
    PROVE  Supply(Held(v), Plus(Nothing, impl[v]))
BY HeldSound DEF Supply, Variable

LEMMA AssignStep ==
    ASSUME IInv, Assign \/ string_init
    PROVE  IInv'
<1>1. Memory.impl = impl /\ Memory.heap = heap
  BY DEF Memory
<1>2. \A v \in Variable : impl[v] \in Data /\ heap[impl[v]].count > 0
  <2>1. TAKE v \in Variable
  <2>2. impl[v] \in Data /\ heap[impl[v]].count >= 1
    BY <1>1, AtCall, Counted
  <2>3. heap[impl[v]] \in Block
    BY <1>1, <2>2 DEF IInv, SoundMemory
  <2>4. QED
    BY <2>2, <2>3 DEF Block
<1>3. Static \in Data /\ heap[Static].count > 0
  <2>1. Static \in Data
    BY DEF Data
  <2>2. heap[Static].count = Points(Memory, Static) + 1 + Nothing[Static]
    BY <1>1, <2>1 DEF IInv, SoundMemory
  <2>3. QED
    BY <2>1, <2>2, PointsType DEF Nothing
<1>4. CASE Edit("assign", <<Self>>, assign(Memory, Self, impl[Other]))
  <2>1. SoundMemory(assign(Memory, Self, impl[Other]), Nothing)
    BY <1>1, <1>2, AtCall, AssignSound
  <2>2. QED
    BY <1>4, <2>1, EditSound
<1>5. CASE Edit("assign", <<Other>>, assign(Memory, Other, impl[Self]))
  <2>1. SoundMemory(assign(Memory, Other, impl[Self]), Nothing)
    BY <1>1, <1>2, AtCall, AssignSound
  <2>2. QED
    BY <1>5, <2>1, EditSound
<1>6. CASE string_init
  <2>1. SoundMemory(assign(Memory, Self, Static), Nothing)
    BY <1>1, <1>3, AtCall, AssignSound
  <2>2. QED
    BY <1>6, <2>1, EditSound DEF string_init
<1>7. QED
  BY <1>4, <1>5, <1>6 DEF Assign

LEMMA JoinStep ==
    ASSUME IInv, NEW v \in Variable, string_append(v) \/ string_prepend(v)
    PROVE  IInv'
<1> DEFINE m == Held(v)
           kept == Plus(Nothing, impl[v])
<1>1. SoundMemory(m, kept) /\ kept \in Kept /\ Supply(m, kept)
  BY HeldSound, HeldSupply
<1>2. text_of(v) \in TextOf /\ Self \in Variable
  BY AtCall
<1> HIDE DEF m, kept
<1>3. CASE string_append(v)
  <2>1. SoundMemory(append(m, Self, text_of(v)), kept)
    BY <1>1, <1>2, AppendSound DEF Rewrites
  <2>2. Call("append", <<v>>, release(append(m, Self, text_of(v)), impl[v]), Null)
    BY <1>3 DEF string_append, EditWith, Edit, m
  <2>3. QED
    BY <2>1, <2>2, EditWithSound DEF kept
<1>4. CASE string_prepend(v)
  <2>1. 0 \in 0..Len(Text(m, Self))
    BY <1>1, <1>2, CapacityType
  <2>2. SoundMemory(insert(m, Self, 0, text_of(v)), kept)
    BY <1>1, <1>2, <2>1, InsertSound
  <2>3. Call("prepend", <<v>>, release(insert(m, Self, 0, text_of(v)), impl[v]), Null)
    BY <1>4 DEF string_prepend, EditWith, Edit, m
  <2>4. QED
    BY <2>2, <2>3, EditWithSound DEF kept
<1>5. QED
  BY <1>3, <1>4

\* A count of graphemes is remembered, and the call goes on.
LEMMA MeasuredSound ==
    ASSUME NEW kept \in Kept, NEW m, SoundMemory(m, kept), Supply(m, kept)
    PROVE  /\ SoundMemory(Measured(m), kept) /\ Supply(Measured(m), kept)
           /\ \A w \in Variable : Text(Measured(m), w) = Text(m, w)
<1>1. /\ SoundMemory(Measured(m), kept) /\ Measured(m).impl = m.impl
      /\ \A w \in Variable : Text(Measured(m), w) = Text(m, w)
  BY NothingKept, CacheSound DEF Measured
<1>2. QED
  BY <1>1 DEF Supply

LEMMA InsertStep ==
    ASSUME IInv, NEW i \in Int, NEW v \in Variable, string_insert(i, v)
    PROVE  IInv'
<1> DEFINE m == Measured(Held(v))
           kept == Plus(Nothing, impl[v])
           it == index_to_iter(m, Self, i)
<1>1. SoundMemory(m, kept) /\ kept \in Kept /\ Supply(m, kept)
  BY HeldSound, HeldSupply, MeasuredSound
<1>2. text_of(v) \in TextOf /\ Self \in Variable
  BY AtCall
<1> HIDE DEF m, kept
<1>3. CASE InRange(m, Self, i)
  <2>1. i # 0
    BY <1>3 DEF InRange
  <2>2. it \in 0..Len(Text(m, Self))
    BY <1>1, <2>1, IndexType
  <2>3. Call("insert", <<i, v>>, release(insert(m, Self, it, text_of(v)), impl[v]), Null)
    BY <1>3 DEF string_insert, EditWith, Edit, m
  <2> HIDE DEF it
  <2>4. SoundMemory(insert(m, Self, it, text_of(v)), kept)
    BY <1>1, <1>2, <2>2, InsertSound
  <2>5. QED
    BY <2>3, <2>4, EditWithSound DEF kept
<1>4. CASE ~InRange(m, Self, i)
  <2>1. Call("insert", <<i, v>>, release(m, impl[v]), Error)
    BY <1>4 DEF string_insert, m
  <2>2. QED
    BY <1>1, <2>1, EditWithSound DEF kept
<1>5. QED
  BY <1>3, <1>4

\* A call that is passed two strings by value counts both.
LEMMA HeldBothSound ==
    ASSUME IInv, NEW v \in Variable, NEW w \in Variable
    PROVE  LET kept == Plus(Plus(Nothing, impl[v]), impl[w])
           IN  /\ kept \in Kept
               /\ SoundMemory(HeldBoth(v, w), kept)
               /\ Supply(HeldBoth(v, w), kept)
<1> DEFINE m == Held(v)
           one == Plus(Nothing, impl[v])
           kept == Plus(one, impl[w])
<1>1. SoundMemory(m, one) /\ one \in Kept /\ m.impl = impl
  BY HeldSound
<1>2. impl[v] \in Data /\ impl[w] \in Data
  BY HeldSound
<1>3. \A b \in Data : one[b] # 0 => b = impl[v]
  BY HeldSound
<1>4. HeldBoth(v, w) = retain(m, impl[w])
  BY DEF HeldBoth
<1> HIDE DEF m, one
<1>5. m.heap[impl[w]] \in Block /\ m.heap[impl[w]].count >= 1
  BY <1>1, <1>2, Counted DEF SoundMemory
<1>6. m.heap[impl[w]].count > 0
  BY <1>5 DEF Block
<1>7. SoundMemory(HeldBoth(v, w), kept)
  BY <1>1, <1>2, <1>4, <1>6, RetainSound
<1>8. HeldBoth(v, w).impl = impl
  BY <1>1, <1>4 DEF retain, SoundMemory
<1>9. kept \in Kept /\ \A b \in Data : kept[b] # 0 => b \in {impl[v], impl[w]}
  BY <1>1, <1>2, <1>3, PlusType DEF Kept
<1>10. impl[Self] \in Data
  BY HeldSound DEF Variable
<1>11. {impl[v], impl[w]} \subseteq {impl[Self], impl[Other]}
  BY DEF Variable
<1> HIDE DEF kept
<1>12. Supply(HeldBoth(v, w), kept)
  BY <1>8, <1>9, <1>10, <1>11 DEF Supply
<1>13. QED
  BY <1>7, <1>9, <1>12 DEF kept, one

\* The data are released as the call returns.
LEMMA EditWithBothSound ==
    ASSUME IInv, NEW v \in Variable, NEW w \in Variable,
           NEW m, SoundMemory(m, Plus(Plus(Nothing, impl[v]), impl[w])),
           NEW name, NEW args, NEW result,
           Call(name, args, release(release(m, impl[w]), impl[v]), result)
    PROVE  IInv'
<1>1. impl[w] \in Data /\ Plus(Nothing, impl[v]) \in Kept
  BY HeldSound
<1>2. SoundMemory(release(m, impl[w]), Plus(Nothing, impl[v]))
  BY <1>1, ReleaseSound
<1>3. QED
  BY <1>2, EditWithSound

\* replace and remove hold on to the text that they look for, which may be their own.
LEMMA RemoveStep ==
    ASSUME IInv, NEW v \in Variable, NEW ntimes \in Int, NEW name, RemoveSome(name, v, ntimes)
    PROVE  IInv'
<1> DEFINE m == Held(v)
           kept == Plus(Nothing, impl[v])
           r == replace(m, Self, text_of(v), <<>>, ntimes)
<1>1. SoundMemory(m, kept) /\ kept \in Kept /\ Supply(m, kept)
  BY HeldSound, HeldSupply
<1>2. text_of(v) \in TextOf /\ <<>> \in TextOf
  BY AtCall DEF TextOf
<1>3. Call(name, <<v>>, release(r.m, impl[v]), r.result)
  BY DEF RemoveSome
<1> HIDE DEF m, kept
<1>4. SoundMemory(r.m, kept)
  BY <1>1, <1>2, ReplaceSound
<1> HIDE DEF r
<1>5. QED
  BY <1>3, <1>4, EditWithSound DEF kept

LEMMA ReplaceStep ==
    ASSUME IInv, NEW v \in Variable, NEW w \in Variable, NEW ntimes \in Int, NEW name,
           ReplaceSome(name, v, w, ntimes)
    PROVE  IInv'
<1> DEFINE m == HeldBoth(v, w)
           kept == Plus(Plus(Nothing, impl[v]), impl[w])
           r == replace(m, Self, text_of(v), text_of(w), ntimes)
<1>1. SoundMemory(m, kept) /\ kept \in Kept /\ Supply(m, kept)
  BY HeldBothSound
<1>2. text_of(v) \in TextOf /\ text_of(w) \in TextOf
  BY AtCall
<1>3. Call(name, <<v, w>>, release(release(r.m, impl[w]), impl[v]), r.result)
  BY DEF ReplaceSome
<1> HIDE DEF m, kept
<1>4. SoundMemory(r.m, kept)
  BY <1>1, <1>2, ReplaceSound
<1> HIDE DEF r
<1>5. QED
  BY <1>3, <1>4, EditWithBothSound DEF kept

LEMMA RemoveLastStep ==
    ASSUME IInv, NEW v \in Variable, string_remove_last(v)
    PROVE  IInv'
<1> DEFINE m == Held(v)
           kept == Plus(Nothing, impl[v])
           n == replace_last(m, Self, text_of(v), <<>>)
<1>1. SoundMemory(m, kept) /\ kept \in Kept /\ Supply(m, kept)
  BY HeldSound, HeldSupply
<1>2. text_of(v) \in TextOf /\ <<>> \in TextOf
  BY AtCall DEF TextOf
<1>3. Call("remove_last", <<v>>, release(n, impl[v]), Null)
  BY DEF string_remove_last, EditWith, Edit
<1> HIDE DEF m, kept
<1>4. SoundMemory(n, kept)
  BY <1>1, <1>2, ReplaceLastSound
<1> HIDE DEF n
<1>5. QED
  BY <1>3, <1>4, EditWithSound DEF kept

LEMMA ReplaceLastStep ==
    ASSUME IInv, NEW v \in Variable, NEW w \in Variable, string_replace_last(v, w)
    PROVE  IInv'
<1> DEFINE m == HeldBoth(v, w)
           kept == Plus(Plus(Nothing, impl[v]), impl[w])
           n == replace_last(m, Self, text_of(v), text_of(w))
<1>1. SoundMemory(m, kept) /\ kept \in Kept /\ Supply(m, kept)
  BY HeldBothSound
<1>2. text_of(v) \in TextOf /\ text_of(w) \in TextOf
  BY AtCall
<1>3. Call("replace_last", <<v, w>>, release(release(n, impl[w]), impl[v]), Null)
  BY DEF string_replace_last, EditWith, Edit
<1> HIDE DEF m, kept
<1>4. SoundMemory(n, kept)
  BY <1>1, <1>2, ReplaceLastSound
<1> HIDE DEF n
<1>5. QED
  BY <1>3, <1>4, EditWithBothSound DEF kept

\* A range that is cut from the text, whatever the call keeps.
LEMMA EditAtSound ==
    ASSUME NEW kept \in Kept, NEW m, SoundMemory(m, kept), Supply(m, kept),
           NEW i \in Int, NEW n \in Int, NEW after \in TextOf,
           Text(m, Self) = self, self \in TextOf
    PROVE  SoundMemory(EditAt(m, i, n, after).m, kept)
<1> DEFINE start == index_to_iter(m, Self, i)
           bound == advance(self, start, n)
           edited == replace_range(m, Self, start, bound, after)
<1>1. Self \in Variable /\ Len(self) \in Nat
  BY BoundariesType DEF Variable
<1>2. CASE ~InRange(m, Self, i) \/ bound < start
  BY <1>2 DEF EditAt
<1>3. CASE ~(~InRange(m, Self, i) \/ bound < start)
  <2>1. EditAt(m, i, n, after).m = edited
    BY <1>3 DEF EditAt
  <2>2. i # 0 /\ ~(bound < start)
    BY <1>3 DEF InRange
  <2>3. start \in 0..Len(self)
    BY <1>1, <2>2, IndexType
  <2> HIDE DEF start
  <2>4. bound \in 0..Len(self)
    BY <1>1, <2>3, AdvanceType
  <2> HIDE DEF bound
  <2>5. start \in Nat /\ bound \in start..Len(Text(m, Self))
    BY <1>1, <2>2, <2>3, <2>4
  <2>6. SoundMemory(edited, kept)
    BY <1>1, <2>5, ReplaceRangeSound
  <2> HIDE DEF edited
  <2>7. QED
    BY <2>1, <2>6
<1>4. QED
  BY <1>2, <1>3

LEMMA RemoveAtStep ==
    ASSUME IInv, NEW i \in Int, NEW n \in Int, string_remove_at(i, n)
    PROVE  IInv'
<1> DEFINE m == Measured(Memory)
           r == EditAt(m, i, n, <<>>)
<1>1. /\ SoundMemory(m, Nothing) /\ Supply(m, Nothing) /\ Nothing \in Kept
      /\ Text(m, Self) = self /\ self \in TextOf /\ <<>> \in TextOf
  BY AtCall, MeasuredSound DEF self, TextOf
<1>2. Call("remove_at", <<i, n>>, r.m, r.result)
  BY DEF string_remove_at
<1> HIDE DEF m
<1>3. SoundMemory(r.m, Nothing)
  BY <1>1, EditAtSound
<1> HIDE DEF r
<1>4. QED
  BY <1>2, <1>3, CallSound

LEMMA ReplaceAtStep ==
    ASSUME IInv, NEW i \in Int, NEW n \in Int, NEW v \in Variable, string_replace_at(i, n, v)
    PROVE  IInv'
<1> DEFINE m == Measured(Held(v))
           kept == Plus(Nothing, impl[v])
           r == EditAt(m, i, n, self)
<1>1. /\ SoundMemory(m, kept) /\ Supply(m, kept) /\ kept \in Kept
      /\ \A w \in Variable : Text(m, w) = text_of(w)
  BY HeldSound, HeldSupply, MeasuredSound
<1>2. self \in TextOf /\ Text(m, Self) = self
  BY <1>1, AtCall DEF self, text_of
<1>3. Call("replace_at", <<i, n, v>>, release(r.m, impl[v]), r.result)
  BY DEF string_replace_at
<1> HIDE DEF m, kept
<1>4. SoundMemory(r.m, kept)
  BY <1>1, <1>2, EditAtSound
<1> HIDE DEF r
<1>5. QED
  BY <1>3, <1>4, EditWithSound DEF kept

\* A function that makes a part of the text the text.
LEMMA ShortenStep ==
    ASSUME IInv, NEW text \in TextOf, Len(text) <= Len(self), NEW name, NEW args,
           Edit(name, args, Shorten(Memory, Self, text))
    PROVE  IInv'
<1>1. Len(text) <= Len(Text(Memory, Self))
  BY DEF self
<1>2. SoundMemory(Shorten(Memory, Self, text), Nothing)
  BY <1>1, AtCall, ShortenSound
<1>3. QED
  BY <1>2, EditSound

LEMMA PartStep ==
    ASSUME IInv,
           \/ string_trim \/ string_ltrim \/ string_rtrim \/ trim_new_line
           \/ \E n \in Count : chop(n)
    PROVE  IInv'
<1>1. self \in TextOf /\ Len(self) \in Nat
  BY AtCall
<1>2. CASE string_trim
  <2>1. Trim(self, TRUE, TRUE) \in TextOf /\ Len(Trim(self, TRUE, TRUE)) <= Len(self)
    BY <1>1, TrimType
  <2>2. QED
    BY <1>2, <2>1, ShortenStep DEF string_trim
<1>3. CASE string_ltrim
  <2>1. Trim(self, TRUE, FALSE) \in TextOf /\ Len(Trim(self, TRUE, FALSE)) <= Len(self)
    BY <1>1, TrimType
  <2>2. QED
    BY <1>3, <2>1, ShortenStep DEF string_ltrim
<1>4. CASE string_rtrim
  <2>1. Trim(self, FALSE, TRUE) \in TextOf /\ Len(Trim(self, FALSE, TRUE)) <= Len(self)
    BY <1>1, TrimType
  <2>2. QED
    BY <1>4, <2>1, ShortenStep DEF string_rtrim
<1>5. CASE trim_new_line
  <2>1. TrimNewLine(self) \in TextOf /\ Len(TrimNewLine(self)) <= Len(self)
    BY <1>1, TrimNewLineType
  <2>2. QED
    BY <1>5, <2>1, ShortenStep DEF trim_new_line
<1>6. ASSUME NEW n \in Count, chop(n) PROVE IInv'
  <2>1. n \in Nat
    BY <1>6, ConstantsAssumption DEF chop
  <2>2. CASE n >= Len(self)
    <3>1. Edit("chop", <<n>>, Memory)
      BY <1>6, <2>2 DEF chop
    <3>2. QED
      BY <3>1, AtCall, EditSound
  <2>3. CASE n < Len(self)
    <3>1. Edit("chop", <<n>>, Shorten(Memory, Self, Slice(self, 0, n)))
      BY <1>1, <1>6, <2>1, <2>3 DEF chop
    <3>2. n \in 0..Len(self) /\ 0 \in Nat
      BY <1>1, <2>1, <2>3
    <3>3. /\ Slice(self, 0, n) \in TextOf
          /\ Len(Slice(self, 0, n)) = IF 0 <= n THEN n - 0 ELSE 0
      BY <1>1, <3>2, SliceType
    <3>4. Len(Slice(self, 0, n)) <= Len(self)
      BY <1>1, <2>1, <2>3, <3>3
    <3>5. QED
      BY <3>1, <3>3, <3>4, ShortenStep
  <2>4. QED
    BY <1>1, <2>1, <2>2, <2>3
<1>7. QED
  BY <1>2, <1>3, <1>4, <1>5, <1>6

\* A function that makes a new string of the variable.
LEMMA CreateStep ==
    ASSUME IInv, NEW text \in TextOf, NEW size \in Nat, size >= MinCapacity, Len(text) < size,
           NEW name, NEW args, Edit(name, args, create(Memory, Self, text, size))
    PROVE  IInv'
<1>1. SoundMemory(create(Memory, Self, text, size), Nothing)
  BY AtCall, CreateSound DEF Rewrites
<1>2. QED
  BY <1>1, EditSound

LEMMA NewStringStep ==
    ASSUME IInv, NEW c \in Character, NewString(c)
    PROVE  IInv'
<1>1. <<c>> \in TextOf
  BY DEF TextOf
<1>2. QED
  BY <1>1, FittingType, CreateStep DEF NewString

LEMMA ReverseStep ==
    ASSUME IInv, string_reverse
    PROVE  IInv'
<1> DEFINE text == reverse(self)
           least == AtLeast(Len(self))
           size == find_capacity(Len(self) + 1, least)
<1>1. self \in TextOf /\ Len(self) \in Nat /\ Len(self) + 1 \in Nat
  BY AtCall
<1>2. text \in TextOf /\ Len(text) = Len(self)
  BY <1>1, ReverseType
<1>3. least \in Nat /\ least >= MinCapacity /\ least # 0
  BY <1>1, ConstantsAssumption DEF AtLeast
<1> HIDE DEF least
<1>4. size \in Nat /\ size >= Len(self) + 1 /\ size >= least
  BY <1>1, <1>3, CapacityGrows
<1>5. Edit("reverse", <<>>, create(Memory, Self, text, size))
  BY DEF string_reverse, least
<1> HIDE DEF text, size
<1>6. size >= MinCapacity /\ Len(text) < size
  BY <1>1, <1>2, <1>3, <1>4, ConstantsAssumption
<1>7. QED
  BY <1>2, <1>4, <1>5, <1>6, CreateStep

LEMMA ReplaceCharStep ==
    ASSUME IInv, NEW c \in Character, NEW d \in Character, replace_char(c, d)
    PROVE  IInv'
<1> DEFINE text == [k \in DOMAIN self |-> IF self[k] = c THEN d ELSE self[k]]
<1>1. self \in TextOf /\ Len(self) \in Nat
  BY AtCall
<1>2. text \in TextOf /\ Len(text) = Len(self)
  BY <1>1 DEF TextOf
<1>3. Edit("replace_char", <<c, d>>, create(Memory, Self, text, Fitting(self)))
  BY DEF replace_char
<1> HIDE DEF text
<1>4. Fitting(self) \in Nat /\ Fitting(self) >= MinCapacity /\ Len(self) < Fitting(self)
  BY <1>1, FittingType
<1>5. QED
  BY <1>2, <1>3, <1>4, CreateStep

LEMMA FillStep ==
    ASSUME IInv, NEW c \in Character, fill(c)
    PROVE  IInv'
<1> DEFINE m == append(Memory, Self, <<c>>)
<1>1. <<c>> \in TextOf
  BY DEF TextOf
<1>2. SoundMemory(m, Nothing)
  BY <1>1, AtCall, AppendSound DEF Rewrites
<1> HIDE DEF m
<1>3. SoundMemory(append(m, Self, <<c>>), Nothing)
  BY <1>1, <1>2, NothingKept, AppendSound DEF Rewrites
<1>4. QED
  BY <1>3, EditSound DEF fill, m

LEMMA ClearStep ==
    ASSUME IInv, NEW flush \in BOOLEAN, clear(flush)
    PROVE  IInv'
<1>1. CASE flush \/ shared(Memory, Self)
  <2>1. Edit("clear", <<>>, assign(Memory, Self, Static))
    BY <1>1 DEF clear
  <2>2. Static \in Data /\ Memory.heap[Static].count > 0
    <3>1. Static \in Data
      BY DEF Data
    <3>2. Memory.heap[Static].count = Points(Memory, Static) + 1 + Nothing[Static]
      BY <3>1 DEF IInv, SoundMemory
    <3>3. QED
      BY <3>1, <3>2, PointsType DEF Nothing
  <2>3. SoundMemory(assign(Memory, Self, Static), Nothing)
    BY <2>2, AtCall, AssignSound
  <2>4. QED
    BY <2>1, <2>3, EditSound
<1>2. CASE ~(flush \/ shared(Memory, Self))
  <2>1. Edit("clear", <<>>, adjust(Memory, Self, <<>>))
    BY <1>2 DEF clear
  <2>2. <<>> \in TextOf /\ Len(<<>>) < capacity(Memory, Self)
    <3>1. capacity(Memory, Self) \in Nat /\ capacity(Memory, Self) # 0
      BY AtCall, CapacityType
    <3>2. QED
      BY <3>1 DEF TextOf
  <2>3. SoundMemory(adjust(Memory, Self, <<>>), Nothing)
    BY <1>2, <2>2, AtCall, AdjustSound DEF Rewrites
  <2>4. QED
    BY <2>1, <2>3, EditSound
<1>3. QED
  BY <1>1, <1>2

\* A buffer that is shrunk is as small as its text, which has to be long enough.
LEMMA ShrinkStep ==
    ASSUME IInv, "exact" \in Precaution, shrink_to_fit
    PROVE  IInv'
<1> DEFINE needed == self # <<>> /\ capacity(Memory, Self) > Len(self) + Len(self) \div 6
<1>1. CASE needed
  <2>1. Edit("shrink_to_fit", <<>>, create(Memory, Self, self, Len(self) + 1))
    BY <1>1 DEF shrink_to_fit
  <2>2. Len(self) + 1 >= MinCapacity
    BY <1>1 DEF shrink_to_fit, Careful
  <2>3. self \in TextOf /\ Len(self) + 1 \in Nat /\ Len(self) < Len(self) + 1
    BY AtCall
  <2>4. QED
    BY <2>1, <2>2, <2>3, CreateStep
<1>2. CASE ~needed
  <2>1. Edit("shrink_to_fit", <<>>, Memory)
    BY <1>2 DEF shrink_to_fit
  <2>2. QED
    BY <2>1, AtCall, EditSound
<1>3. QED
  BY <1>1, <1>2

\* A function that only counts its graphemes, or remembers its hash.
LEMMA AskStep ==
    ASSUME IInv,
           \/ string_get_field \/ Hash \/ string_to_upper \/ string_to_lower
           \/ \E v \in Variable :
                \/ string_contains(v) \/ string_starts_with(v) \/ string_ends_with(v)
                \/ string_count(v) \/ string_split(v) \/ Join(v)
                \/ \E i \in Index : string_find(v, i) \/ string_find_back(v, i)
           \/ \E n \in Count : string_left(n) \/ string_right(n) \/ repeat(n)
           \/ \E i \in Index : string_char(i) \/ \E n \in Count : string_slice(i, n)
    PROVE  IInv'
<1> DEFINE m == Measured(Memory)
           h == [Memory EXCEPT !.heap[impl[Self]].hash = hash(Memory, Self)]
<1>1. SoundMemory(m, Nothing)
  BY AtCall, MeasuredSound
<1>2. SoundMemory(h, Nothing)
  <2>1. Memory.impl = impl
    BY DEF Memory
  <2>2. SoundMemory([Memory EXCEPT !.heap[Memory.impl[Self]].hash = hash(Memory, Self)], Nothing)
    BY AtCall, HashSound
  <2>3. QED
    BY <2>1, <2>2
<1>3. \A name, args, result : Call(name, args, m, result) => IInv'
  <2> HIDE DEF m
  <2>1. QED
    BY <1>1, CallSound
<1>4. \A name, args, result : Call(name, args, h, result) => IInv'
  <2> HIDE DEF h
  <2>1. QED
    BY <1>2, CallSound
<1>5. \A name, args, result : Ask(name, args, result) => IInv'
  BY AskSound
<1> HIDE DEF m, h
<1>6. CASE string_get_field
  BY <1>3, <1>6 DEF string_get_field, m
<1>7. CASE Hash
  BY <1>4, <1>7 DEF Hash, h
<1>8. CASE string_to_upper \/ string_to_lower
  BY <1>5, <1>8 DEF string_to_upper, string_to_lower
<1>9. ASSUME NEW v \in Variable, \/ string_contains(v) \/ string_starts_with(v)
                                 \/ string_ends_with(v) \/ string_count(v)
                                 \/ string_split(v) \/ Join(v)
      PROVE  IInv'
  BY <1>5, <1>9 DEF string_contains, string_starts_with, string_ends_with, string_count,
                    string_split, Join
<1>10. \A name, v, i, at : Search(name, v, i, at) => IInv'
  BY <1>3 DEF Search, m
<1>11. ASSUME NEW v \in Variable, NEW i \in Index, string_find(v, i) \/ string_find_back(v, i)
       PROVE  IInv'
  BY <1>10, <1>11 DEF string_find, string_find_back
<1>12. ASSUME NEW n \in Count, string_left(n) \/ string_right(n) \/ repeat(n)
       PROVE  IInv'
  BY <1>5, <1>12 DEF string_left, string_right, repeat
<1>13. \A name, args, i, end : CutAt(name, args, i, end) => IInv'
  BY <1>3 DEF CutAt, m
<1>14. ASSUME NEW i \in Index, string_char(i) \/ \E n \in Count : string_slice(i, n)
       PROVE  IInv'
  BY <1>13, <1>14 DEF string_char, string_slice
<1>15. QED
  BY <1>6, <1>7, <1>8, <1>9, <1>11, <1>12, <1>14

-----------------------------------------------------------------------------
(* The theorem.                                                             *)

LEMMA InitSound == Init => IInv
<1>1. SUFFICES ASSUME Init PROVE IInv
  OBVIOUS
<1> DEFINE s == [NewData(<<>>, MinCapacity) EXCEPT !.count = 3]
<1>2. MinCapacity \in Nat /\ MinCapacity # 0 /\ <<>> \in TextOf
  BY ConstantsAssumption DEF TextOf
<1>3. s = [data |-> <<>>, capacity |-> MinCapacity, length |-> 0, hash |-> <<>>, count |-> 3]
  BY DEF NewData
<1>4. SoundBlock(s) /\ s.count = 3 /\ s.data = <<>>
  BY <1>2, <1>3 DEF SoundBlock, Block
<1> HIDE DEF s
<1>5. /\ impl = [v \in Variable |-> Static]
      /\ heap = [b \in Data |-> IF b = Static THEN s ELSE Freed]
  BY <1>1 DEF Init, s
<1>6. Memory.heap = heap /\ Memory.impl = impl
  BY DEF Memory
<1>7. Static \in Data /\ Self \in Variable /\ Other \in Variable
  BY DEF Data, Variable
<1>8. Memory \in [heap : [Data -> Block], impl : [Variable -> Data]]
  BY <1>4, <1>5, <1>7, FreedSound DEF Memory, SoundBlock
<1>9. \A b \in Data : Points(Memory, b) = IF b = Static THEN 2 ELSE 0
  BY <1>5, <1>6, <1>7 DEF Points
<1>10. ASSUME NEW b \in Data
       PROVE  /\ SoundBlock(Memory.heap[b])
              /\ Memory.heap[b].count
                   = Points(Memory, b) + (IF b = Static THEN 1 ELSE 0) + Nothing[b]
  <2>1. Nothing[b] = 0
    BY DEF Nothing
  <2>2. CASE b = Static
    BY <1>4, <1>5, <1>6, <1>9, <2>1, <2>2
  <2>3. CASE b # Static
    BY <1>5, <1>6, <1>9, <2>1, <2>3, FreedSound
  <2>4. QED
    BY <2>2, <2>3
<1>11. Memory.heap[Static].data = <<>>
  BY <1>4, <1>5, <1>6, <1>7
<1>12. QED
  BY <1>8, <1>10, <1>11 DEF IInv, SoundMemory

LEMMA NextSound ==
    ASSUME "exact" \in Precaution, IInv, Next
    PROVE  IInv'
<1>1. Index \subseteq Int /\ Count \subseteq Int
  BY ConstantsAssumption
<1>2. <<>> \in TextOf /\ -1 \in Int /\ 1 \in Int
  BY DEF TextOf
<1>3. CASE Assign \/ string_init
  BY <1>3, AssignStep
<1>4. CASE \/ string_trim \/ string_ltrim \/ string_rtrim \/ trim_new_line
           \/ \E n \in Count : chop(n)
  BY <1>4, PartStep
<1>5. CASE string_reverse
  BY <1>5, ReverseStep
<1>6. CASE clear(TRUE) \/ clear(FALSE)
  BY <1>6, ClearStep
<1>7. CASE shrink_to_fit
  BY <1>7, ShrinkStep
<1>8. CASE \E c, d \in Character : NewString(c) \/ fill(c) \/ replace_char(c, d)
  BY <1>8, NewStringStep, FillStep, ReplaceCharStep
<1>9. ASSUME NEW v \in Variable, NEW w \in Variable,
             string_replace(v, w) \/ string_replace_first(v, w)
      PROVE  IInv'
  BY <1>2, <1>9, ReplaceStep DEF string_replace, string_replace_first
<1>10. ASSUME NEW v \in Variable, NEW w \in Variable, string_replace_last(v, w)
       PROVE  IInv'
  BY <1>10, ReplaceLastStep
<1>11. CASE \E v \in Variable : string_append(v) \/ string_prepend(v)
  BY <1>11, JoinStep
<1>12. CASE \E v \in Variable : string_remove(v) \/ string_remove_first(v)
  BY <1>2, <1>12, RemoveStep DEF string_remove, string_remove_first
<1>13. CASE \E v \in Variable : string_remove_last(v)
  BY <1>13, RemoveLastStep
<1>14. CASE \E i \in Index, v \in Variable : string_insert(i, v)
  BY <1>1, <1>14, InsertStep
<1>15. ASSUME NEW i \in Index, NEW n \in Count,
              string_remove_at(i, n) \/ \E v \in Variable : string_replace_at(i, n, v)
       PROVE  IInv'
  <2>1. i \in Int /\ n \in Int
    BY <1>1
  <2>2. CASE string_remove_at(i, n)
    BY <2>1, <2>2, RemoveAtStep
  <2>3. CASE \E v \in Variable : string_replace_at(i, n, v)
    BY <2>1, <2>3, ReplaceAtStep
  <2>4. QED
    BY <1>15, <2>2, <2>3
<1>16. CASE \/ string_get_field \/ Hash \/ string_to_upper \/ string_to_lower
            \/ \E v \in Variable :
                 \/ string_contains(v) \/ string_starts_with(v) \/ string_ends_with(v)
                 \/ string_count(v) \/ string_split(v) \/ Join(v)
                 \/ \E i \in Index : string_find(v, i) \/ string_find_back(v, i)
            \/ \E n \in Count : string_left(n) \/ string_right(n) \/ repeat(n)
            \/ \E i \in Index : string_char(i) \/ \E n \in Count : string_slice(i, n)
  BY <1>16, AskStep
<1>17. QED
  BY <1>3, <1>4, <1>5, <1>6, <1>7, <1>8, <1>9, <1>10, <1>11, <1>12, <1>13, <1>14, <1>15,
     <1>16 DEF Next

LEMMA IInvStuttering ==
    ASSUME IInv, UNCHANGED vars
    PROVE  IInv'
<1>1. Memory' = Memory /\ Nothing' = Nothing
  BY DEF Memory, Nothing, vars
<1>2. QED
  BY <1>1 DEF IInv, SoundMemory, Points

\* The number of variables is what Points says.
LEMMA PointsCount ==
    ASSUME NEW b
    PROVE  Cardinality({v \in Variable : impl[v] = b}) = Points(Memory, b)
<1> DEFINE owners == {v \in Variable : impl[v] = b}
<1>1. Memory.impl = impl /\ Self # Other
  BY ConstantsAssumption DEF Memory
<1>2. CASE impl[Self] = b /\ impl[Other] = b
  <2>1. owners = {Self, Other}
    BY <1>2 DEF Variable
  <2> HIDE DEF owners
  <2>2. Cardinality(owners) = Cardinality({Self, Other})
    BY <2>1, Zenon
  <2>3. Cardinality({Self, Other}) = 2
    <3>1. IsFiniteSet({Self}) /\ Cardinality({Self}) = 1 /\ Other \notin {Self}
      BY <1>1, FS_Singleton
    <3>2. Cardinality({Self} \cup {Other}) = 1 + 1
      BY <3>1, FS_AddElement
    <3>3. {Self} \cup {Other} = {Self, Other}
      OBVIOUS
    <3>4. Cardinality({Self, Other}) = Cardinality({Self} \cup {Other})
      BY <3>3, Zenon
    <3>5. QED
      BY <3>2, <3>4
  <2>4. QED
    BY <1>1, <1>2, <2>2, <2>3 DEF Points, owners
<1>3. CASE impl[Self] = b /\ impl[Other] # b
  <2>1. owners = {Self}
    BY <1>3 DEF Variable
  <2> HIDE DEF owners
  <2>2. Cardinality(owners) = 1
    BY <2>1, FS_Singleton, Zenon
  <2>3. QED
    BY <1>1, <1>3, <2>2 DEF Points, owners
<1>4. CASE impl[Self] # b /\ impl[Other] = b
  <2>1. owners = {Other}
    BY <1>4 DEF Variable
  <2> HIDE DEF owners
  <2>2. Cardinality(owners) = 1
    BY <2>1, FS_Singleton, Zenon
  <2>3. QED
    BY <1>1, <1>4, <2>2 DEF Points, owners
<1>5. CASE impl[Self] # b /\ impl[Other] # b
  <2>1. owners = {}
    BY <1>5 DEF Variable
  <2> HIDE DEF owners
  <2>2. Cardinality(owners) = 0
    BY <2>1, FS_EmptySet, Zenon
  <2>3. QED
    BY <1>1, <1>5, <2>2 DEF Points, owners
<1>6. QED
  BY <1>2, <1>3, <1>4, <1>5

LEMMA InvariantImplies == IInv => BuffersSound
<1>1. SUFFICES ASSUME IInv PROVE BuffersSound
  OBVIOUS
<1>2. Memory.heap = heap /\ Memory.impl = impl
  BY DEF Memory
<1>3. /\ heap \in [Data -> Block] /\ impl \in [Variable -> Data]
      /\ \A b \in Data : SoundBlock(heap[b]) /\ heap[b] \in Block
      /\ heap[Static].data = <<>>
  BY <1>1, <1>2 DEF IInv, SoundMemory
<1>4. TypeOK
  BY <1>3 DEF TypeOK, Block, TextOf
<1>5. CountsExact
  <2>1. ASSUME NEW b \in Data
        PROVE  heap[b].count = Cardinality({v \in Variable : impl[v] = b})
                                 + (IF b = Static THEN 1 ELSE 0)
    <3>1. heap[b].count = Points(Memory, b) + (IF b = Static THEN 1 ELSE 0) + Nothing[b]
      BY <1>1, <1>2 DEF IInv, SoundMemory
    <3>2. Nothing[b] = 0 /\ Points(Memory, b) \in Nat
      BY PointsType DEF Nothing
    <3>3. QED
      BY <3>1, <3>2, PointsCount
  <2>2. QED
    BY <2>1 DEF CountsExact
<1>6. FitsBuffer /\ CachesTrue
  BY <1>3 DEF FitsBuffer, CachesTrue, SoundBlock
<1>7. EmptyStaysEmpty
  BY <1>3 DEF EmptyStaysEmpty
<1>8. QED
  BY <1>4, <1>5, <1>6, <1>7 DEF BuffersSound

\* Whatever functions are called on strings, for all characters and grapheme breaks:
\* each buffer is counted once for each variable, it has room for its text, what it
\* remembers is true, and nobody writes to the empty string.  Scripts must take the
\* precaution "exact" of shrink_to_fit, and no other.
THEOREM SoundBuffers ==
    ASSUME "exact" \in Precaution
    PROVE  Spec => []BuffersSound
<1>1. Init => IInv
  BY InitSound
<1>2. IInv /\ [Next]_vars => IInv'
  BY NextSound, IInvStuttering
<1>3. IInv => BuffersSound
  BY InvariantImplies
<1>4. QED
  BY <1>1, <1>2, <1>3, PTL DEF Spec
=============================================================================
