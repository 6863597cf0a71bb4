---------------------------- MODULE ValuesProofs ----------------------------
(* What holds of Values for all variables, scalars, boxes, lists and bounds, *)
(* of scripts that make no reference to itself and leave the collection of a *)
(* loop as it is (the precautions "acyclic" and "collection").               *)
EXTENDS Values, Recursion, FiniteSetTheorems, TLAPS

------------------------------------------------------------------------------
(* What variants, the iterator and the remaining opcodes rely on.            *)

\* What items of lists are.
Flat == {Null} \cup Scalar \cup Box

Memory == [var : [Variable -> Variant], box : [Box -> Variant \cup {Freed}],
           list : [List -> Seq(Flat) \cup {Freed}], stack : Seq(Variant),
           object : {Null} \cup Box]

Typed(h) ==
    /\ h \in Memory
    /\ \A l \in List : h.list[l] # Freed => Len(h.list[l]) \in 1..MaxLength

Exists(h, v) == /\ v \in Box => h.box[v] # Freed
                /\ v \in List => h.list[v] # Freed

\* What a variant holds has not been released.
Live(h) ==
    /\ \A x \in Variable : Exists(h, h.var[x])
    /\ \A b \in Box : Exists(h, h.box[b])
    /\ \A l \in List : \A i \in DOMAIN Items(h, l) : Exists(h, Items(h, l)[i])
    /\ \A i \in DOMAIN h.stack : Exists(h, h.stack[i])
    /\ Exists(h, h.object)

\* Boxes do not hold each other in a circle.
Acyclic(h) == \A S \in SUBSET Box : (\A b \in S : h.box[b] \in S) => S = {}

\* The last box of the chain that starts at a box, and what a variant resolves to.
Last(h, b) == CHOOSE e \in Chain(h, b) : h.box[e] \notin Box

Final(h, v) == IF v \in Box THEN h.box[Last(h, v)] ELSE v

\* No item is a reference to a list.
ItemsFlat(h) ==
    \A l \in List : \A i \in DOMAIN Items(h, l) : Final(h, Items(h, l)[i]) \notin List

Good(h) == Typed(h) /\ Live(h) /\ Acyclic(h) /\ ItemsFlat(h)

\* The variants v and w do not lead to the same box.
Apart(h, v, w) == v \in Box /\ w \in Box => Last(h, v) # Last(h, w)

NoItem(h, v) == \A l \in List : \A i \in DOMAIN Items(h, l) : Apart(h, v, Items(h, l)[i])

\* v does not lead to the collection of a loop.
Other(h, it, v) == it.open => Apart(h, v, h.object)

Held(h, o) == {p \in Places(h) : Get(h, p) = o}

\* At most one variant holds the object o.
One(h, o) == \E p : Held(h, o) \subseteq {p}

Own(h, it, v) == Other(h, it, v) \/ One(h, it.list)

FreeBox(h) == \E b \in Box : h.box[b] = Freed

FreeList(h) == \E l \in List : h.list[l] = Freed

TwoFreeLists(h) == \E l, m \in List : l # m /\ h.list[l] = Freed /\ h.list[m] = Freed

Indexed(h, v, i) == Final(h, v) \in List /\ i \in 1..Len(h.list[Final(h, v)])

\* An item can be appended to the list that v leads to.
Extends(h, it, v) ==
    /\ Final(h, v) \in List
    /\ Len(h.list[Final(h, v)]) < MaxLength
    /\ Own(h, it, v)
    /\ One(h, Final(h, v)) \/ FreeList(h)

Follows(h, it) ==
    /\ it.pos \in 0..MaxLength + 1
    /\ it.open => /\ it.list \in List
                  /\ it.over \in Variable
                  /\ h.object \in Box
                  /\ Final(h, h.object) = it.list
                  /\ it.pos \in 1..Len(h.list[it.list]) + 1

\* The opcode o, and o with an operand.
Op(o) == [op |-> o]
OpX(o, x) == [op |-> o, x |-> x]
OpI(o, i) == [op |-> o, i |-> i]
OpW(w) == [op |-> "Push", w |-> w]

\* v can be given to the variable that holds u.
Fits(h, it, u, v) ==
    /\ Apart(h, u, v)
    /\ Other(h, it, u)
    /\ Final(h, v) \in List => NoItem(h, u)

\* What holds before each opcode: c are the opcodes that remain.
AtSet(h, it, c) ==
    \E x \in Variable, v \in Variant :
        c = <<OpX("Set", x)>> /\ h.stack = <<v>> /\ Fits(h, it, h.var[x], v)

AtPush(h, it, c) ==
    \E w \in Scalar :
        \/ \E x \in Variable :
              /\ c = <<OpW(w), OpX("Set", x)>> /\ h.stack = <<>>
              /\ Other(h, it, h.var[x])
        \/ \E x \in Variable :
              /\ c = <<OpW(w), Op("NewList"), OpX("Set", x)>> /\ h.stack = <<>>
              /\ Other(h, it, h.var[x]) /\ NoItem(h, h.var[x]) /\ FreeList(h)
        \/ \E v \in Variant, i \in Index :
              /\ c = <<OpW(w), OpI("SetIndex", i)>> /\ h.stack = <<v>>
              /\ Indexed(h, v, i)
              /\ v \in Box => One(h, Final(h, v))
              /\ v \in List => FreeList(h)
        \/ \E v \in Box :
              /\ c = <<OpW(w), Op("CallAppend")>> /\ h.stack = <<v>>
              /\ Extends(h, it, v)

AtGet(h, it, c) ==
    \E x, y \in Variable :
        \/ /\ c = <<OpX("Get", y), OpX("Set", x)>> /\ h.stack = <<>>
           /\ Other(h, it, h.var[x])
           /\ Final(h, h.var[y]) \in List => NoItem(h, h.var[x])
        \/ \E i \in Index :
              /\ c = <<OpX("Get", y), OpI("GetIndex", i), OpX("Set", x)>> /\ h.stack = <<>>
              /\ Other(h, it, h.var[x]) /\ Indexed(h, h.var[y], i)

AtGetRef(h, it, c) ==
    \E y \in Variable :
        /\ h.stack = <<>>
        /\ h.var[y] \notin Box => FreeBox(h)
        /\ FreeList(h)
        /\ Own(h, it, h.var[y])
        /\ \/ \E x \in Variable :
                 /\ c = <<OpX("GetRef", y), OpX("Set", x)>>
                 /\ x # y
                 /\ Fits(h, it, h.var[x], h.var[y])
           \/ \E x \in Variable :
                 /\ c = <<OpX("GetRef", y), Op("NewList"), OpX("Set", x)>>
                 /\ x # y
                 /\ Fits(h, it, h.var[x], h.var[y])
                 /\ Final(h, h.var[y]) \notin List
                 /\ NoItem(h, h.var[x])
           \/ \E w \in Scalar :
                 /\ c = <<OpX("GetRef", y), OpW(w), Op("CallAppend")>>
                 /\ Final(h, h.var[y]) \in List
                 /\ Len(h.list[Final(h, h.var[y])]) < MaxLength
           \/ /\ c = <<OpX("GetRef", y), Op("NewIterator")>>
              /\ Final(h, h.var[y]) \in List /\ ~it.open
           \/ c = <<OpX("GetRef", y), Op("Call")>>

AtGetUnique(h, it, c) ==
    \E y \in Variable, i \in Index :
        /\ h.stack = <<>>
        /\ Indexed(h, h.var[y], i)
        /\ FreeList(h)
        /\ Own(h, it, h.var[y])
        /\ \/ \E x \in Variable :
                 /\ c = <<OpX("GetUnique", y), OpI("GetIndexRef", i), OpX("Set", x)>>
                 /\ Other(h, it, h.var[x])
                 /\ Apart(h, h.var[x], Items(h, Final(h, h.var[y]))[i])
                 /\ FreeBox(h)
           \/ \E w \in Scalar :
                 /\ c = <<OpX("GetUnique", y), OpW(w), OpI("SetIndex", i)>>
                 /\ h.var[y] \notin Box => TwoFreeLists(h)

AtNewList(h, it, c) ==
    \E x \in Variable, v \in Scalar \cup Box :
        /\ c = <<Op("NewList"), OpX("Set", x)>> /\ h.stack = <<v>>
        /\ Fits(h, it, h.var[x], v)
        /\ Final(h, v) \notin List
        /\ NoItem(h, h.var[x])
        /\ FreeList(h)

AtGetIndex(h, it, c) ==
    \E x \in Variable, v \in List, i \in Index :
        /\ c = <<OpI("GetIndex", i), OpX("Set", x)>> /\ h.stack = <<v>>
        /\ Other(h, it, h.var[x]) /\ Indexed(h, v, i)

AtGetIndexRef(h, it, c) ==
    \E x \in Variable, v \in Variant, i \in Index :
        /\ c = <<OpI("GetIndexRef", i), OpX("Set", x)>> /\ h.stack = <<v>>
        /\ Indexed(h, v, i)
        /\ Other(h, it, h.var[x])
        /\ Apart(h, h.var[x], Items(h, Final(h, v))[i])
        /\ FreeBox(h)

AtSetIndex(h, it, c) ==
    \E v \in Variant, w \in Scalar, i \in Index :
        /\ c = <<OpI("SetIndex", i)>> /\ h.stack = <<v, w>>
        /\ Indexed(h, v, i)
        /\ v \in Box => One(h, Final(h, v))
        /\ v \in List => FreeList(h)

AtCallAppend(h, it, c) ==
    \E v \in Box, w \in Scalar :
        c = <<Op("CallAppend")>> /\ h.stack = <<v, w>> /\ Extends(h, it, v)

AtNewIterator(h, it, c) ==
    \E v \in Box :
        /\ c = <<Op("NewIterator")>> /\ h.stack = <<v>>
        /\ Final(h, v) \in List /\ ~it.open

AtCall(h, it, c) ==
    \E v \in Box : c = <<Op("Call")>> /\ h.stack = <<v>>

AtPopLocal(h, it, c) ==
    /\ h.stack = <<>> /\ ~it.open
    /\ \/ c = <<OpX("PopLocal", Each), OpX("PopLocal", Param)>>
       \/ c = <<OpX("PopLocal", Param)>>

AtNext(h, it, c) ==
    /\ h.stack = <<>> /\ it.open
    /\ it.pos \in 1..Len(h.list[it.list])
    /\ it.by_ref /\ Items(h, it.list)[it.pos] \notin Box => FreeBox(h)
    /\ \/ c = <<OpX("ClearLocal", Each), Op("NextValue"), OpX("Set", Each)>>
       \/ c = <<Op("NextValue"), OpX("Set", Each)>> /\ h.var[Each] = Null

At(h, it, c) ==
    \/ c = <<>> /\ h.stack = <<>>
    \/ AtPush(h, it, c) \/ AtGet(h, it, c) \/ AtGetRef(h, it, c) \/ AtGetUnique(h, it, c)
    \/ AtSet(h, it, c) \/ AtNewList(h, it, c) \/ AtGetIndex(h, it, c)
    \/ AtGetIndexRef(h, it, c) \/ AtSetIndex(h, it, c) \/ AtCallAppend(h, it, c)
    \/ AtNewIterator(h, it, c) \/ AtNext(h, it, c) \/ AtCall(h, it, c) \/ AtPopLocal(h, it, c)

Sound(h, it, c) == Good(h) /\ Follows(h, it) /\ At(h, it, c)

\* The opcodes of a loop are those of a statement that names its collection.
Coded ==
    /\ \E S : code \in Seq(S)
    /\ \A i \in DOMAIN code : code[i].op = "NewIterator" => stmt.x \in Variable

IInv ==
    /\ Sound(heap, iter, code)
    /\ called \in BOOLEAN
    /\ \E list, pos, by_ref, open, over :
          iter = [list |-> list, pos |-> pos, by_ref |-> by_ref, open |-> open, over |-> over]
    /\ Coded

------------------------------------------------------------------------------
(* What is reached. *)

\* Reached is the least set with start that content does not lead out of.
LEMMA ReachedIs ==
    ASSUME NEW D, IsFiniteSet(D), NEW content \in [D -> SUBSET D], \A o \in D : o \in content[o],
           NEW start \in SUBSET D
    PROVE  /\ start \subseteq Reached(start, content)
           /\ Reached(start, content) \in SUBSET D
           /\ \A o \in Reached(start, content) : content[o] \subseteq Reached(start, content)
           /\ \A S : start \subseteq S /\ (\A o \in S \cap D : content[o] \subseteq S)
                        => Reached(start, content) \subseteq S
<1> DEFINE P == SUBSET D
           Then(S) == UNION {content[o] : o \in S}
           F == [S \in P |-> Then(S)]
           Walk(r) == r = [n \in Nat |-> IF n = 0 THEN start
                                         ELSE UNION {content[o] : o \in r[n - 1]}]
           r == CHOOSE g : Walk(g)
           N == Cardinality(D)
<1>1. F \in [P -> P] /\ start \in P
  OBVIOUS
<1>2. PICK g : Iterates(g, start, F, P)
  <2> HIDE DEF F, P
  <2>1. QED
    BY <1>1, Iteration
<1>3. g \in [Nat -> P] /\ g[0] = start /\ \A k \in Nat : g[k + 1] = Then(g[k])
  <2>1. g \in [Nat -> P] /\ g[0] = start /\ \A k \in Nat : k # 0 => g[k] = F[g[k - 1]]
    BY <1>2 DEF Iterates
  <2>2. ASSUME NEW k \in Nat PROVE g[k + 1] = Then(g[k])
    <3>1. k + 1 \in Nat /\ k + 1 # 0 /\ (k + 1) - 1 = k
      OBVIOUS
    <3>2. g[k] \in P
      BY <2>1
    <3>3. g[k + 1] = F[g[k]]
      BY <2>1, <3>1
    <3>4. QED
      BY <3>2, <3>3
  <2>3. QED
    BY <2>1, <2>2
<1> HIDE DEF F
<1>4. Walk(g)
  <2>1. g = [n \in Nat |-> g[n]]
    BY <1>3
  <2>2. ASSUME NEW n \in Nat
        PROVE  g[n] = IF n = 0 THEN start ELSE UNION {content[o] : o \in g[n - 1]}
    <3>1. CASE n = 0
      BY <1>3, <3>1
    <3>2. CASE n # 0
      <4>1. n - 1 \in Nat /\ (n - 1) + 1 = n
        BY <3>2
      <4>2. g[n] = Then(g[n - 1])
        BY <1>3, <4>1
      <4>3. QED
        BY <3>2, <4>2
    <3>3. QED
      BY <3>1, <3>2
  <2>3. g = [n \in Nat |-> IF n = 0 THEN start ELSE UNION {content[o] : o \in g[n - 1]}]
    BY <2>1, <2>2
  <2>4. QED
    BY <2>3
<1>5. Walk(r)
  <2> HIDE DEF Walk
  <2>1. QED
    BY <1>4
<1>6. \A n \in Nat : r[n] = IF n = 0 THEN start ELSE UNION {content[o] : o \in r[n - 1]}
  <2>1. r = [n \in Nat |-> IF n = 0 THEN start ELSE UNION {content[o] : o \in r[n - 1]}]
    BY <1>5
  <2> HIDE DEF r
  <2>2. QED
    BY <2>1
<1>7. Reached(start, content) = r[N]
  BY DEF Reached
<1> HIDE DEF r, Walk
<1>8. r[0] = start /\ \A k \in Nat : r[k + 1] = Then(r[k])
  <2>1. ASSUME NEW k \in Nat PROVE r[k + 1] = Then(r[k])
    <3>1. k + 1 \in Nat /\ k + 1 # 0 /\ (k + 1) - 1 = k
      OBVIOUS
    <3>2. QED
      BY <1>6, <3>1
  <2>2. QED
    BY <1>6, <2>1
<1>9. \A n \in Nat : r[n] \subseteq D
  <2> DEFINE T == {n \in Nat : r[n] \subseteq D}
  <2>1. 0 \in T
    BY <1>8
  <2>2. ASSUME NEW k \in Nat, k \in T PROVE k + 1 \in T
    BY <1>8, <2>2
  <2> HIDE DEF T
  <2>3. \A n \in Nat : n \in T
    BY <2>1, <2>2, Induction
  <2>4. QED
    BY <2>3 DEF T
<1>10. \A n \in Nat : r[n] \subseteq r[n + 1]
  BY <1>8, <1>9
<1>11. \A n \in Nat : start \subseteq r[n]
  <2> DEFINE T == {n \in Nat : start \subseteq r[n]}
  <2>1. 0 \in T
    BY <1>8
  <2>2. ASSUME NEW k \in Nat, k \in T PROVE k + 1 \in T
    BY <1>10, <2>2
  <2> HIDE DEF T
  <2>3. \A n \in Nat : n \in T
    BY <2>1, <2>2, Induction
  <2>4. QED
    BY <2>3 DEF T
<1>12. ASSUME NEW S, start \subseteq S, \A o \in S \cap D : content[o] \subseteq S
       PROVE  \A n \in Nat : r[n] \subseteq S
  <2> DEFINE T == {n \in Nat : r[n] \subseteq S}
  <2>1. 0 \in T
    BY <1>8, <1>12
  <2>2. ASSUME NEW k \in Nat, k \in T PROVE k + 1 \in T
    BY <1>8, <1>9, <1>12, <2>2
  <2> HIDE DEF T
  <2>3. \A n \in Nat : n \in T
    BY <2>1, <2>2, Induction
  <2>4. QED
    BY <2>3 DEF T
\* the sets grow until one is equal to the next
<1>13. \A n \in Nat : IsFiniteSet(r[n]) /\ Cardinality(r[n]) \in Nat /\ Cardinality(r[n]) <= N
  <2>1. ASSUME NEW n \in Nat
        PROVE  IsFiniteSet(r[n]) /\ Cardinality(r[n]) \in Nat /\ Cardinality(r[n]) <= N
    <3>1. r[n] \in SUBSET D
      BY <1>9
    <3>2. QED
      BY <3>1, FS_Subset, FS_CardinalityType
  <2>2. QED
    BY <2>1
<1>14. N \in Nat
  BY FS_CardinalityType
<1>15. \A n \in Nat : r[n] = r[n + 1] \/ Cardinality(r[n]) >= n
  <2> DEFINE T == {n \in Nat : r[n] = r[n + 1] \/ Cardinality(r[n]) >= n}
  <2>1. 0 \in T
    BY <1>13
  <2>2. ASSUME NEW k \in Nat, k \in T PROVE k + 1 \in T
    <3>1. CASE r[k] = r[k + 1]
      <4>1. k + 1 \in Nat
        OBVIOUS
      <4>3. r[(k + 1) + 1] = Then(r[k + 1]) /\ r[k + 1] = Then(r[k])
        BY <1>8, <4>1
      <4>4. r[k + 1] = r[(k + 1) + 1]
        <5> HIDE DEF Then
        <5>1. QED
          BY <4>3, <3>1
      <4>2. QED
        BY <4>1, <4>4
    <3>2. CASE r[k] # r[k + 1]
      <4>1. Cardinality(r[k]) >= k
        BY <2>2, <3>2
      <4>2. Cardinality(r[k]) < Cardinality(r[k + 1])
        <5>1. IsFiniteSet(r[k + 1]) /\ r[k] \in SUBSET r[k + 1]
          BY <1>10, <1>13
        <5>2. Cardinality(r[k]) <= Cardinality(r[k + 1]) /\ Cardinality(r[k]) # Cardinality(r[k + 1])
          BY <5>1, <3>2, FS_Subset
        <5>3. Cardinality(r[k]) \in Nat /\ Cardinality(r[k + 1]) \in Nat
          BY <1>13
        <5>4. QED
          BY <5>2, <5>3
      <4>3. Cardinality(r[k + 1]) >= k + 1
        BY <1>13, <4>1, <4>2
      <4>4. QED
        BY <4>3
    <3>3. QED
      BY <3>1, <3>2
  <2> HIDE DEF T
  <2>3. \A n \in Nat : n \in T
    BY <2>1, <2>2, Induction
  <2>4. QED
    BY <2>3 DEF T
<1>16. r[N] = r[N + 1]
  <2>1. SUFFICES ASSUME r[N] # r[N + 1] PROVE FALSE
    OBVIOUS
  <2>2. Cardinality(r[N]) = N
    BY <1>13, <1>14, <1>15, <2>1
  <2>3. r[N] = D
    BY <1>9, <1>14, <2>2, FS_Subset
  <2>4. r[N + 1] \subseteq D
    BY <1>9, <1>14
  <2>5. QED
    BY <1>10, <1>14, <2>1, <2>3, <2>4
<1>17. \A o \in r[N] : content[o] \subseteq r[N]
  BY <1>8, <1>14, <1>16
<1>18. QED
  BY <1>7, <1>9, <1>11, <1>12, <1>14, <1>17

------------------------------------------------------------------------------
(* Chains of references. *)

\* Boxes as they are in a heap.
Boxes == [Box -> Variant \cup {Freed}]

\* A chain starts with its box and goes on to what its boxes hold.
LEMMA ChainIs ==
    ASSUME NEW h, h.box \in Boxes, NEW b \in Box
    PROVE  /\ b \in Chain(h, b)
           /\ Chain(h, b) \subseteq Box
           /\ \A e \in Chain(h, b) : h.box[e] \in Box => h.box[e] \in Chain(h, b)
           /\ \A S : b \in S /\ (\A e \in S \cap Box : h.box[e] \in Box => h.box[e] \in S)
                        => Chain(h, b) \subseteq S
<1> DEFINE content == [e \in Box |-> {e, h.box[e]} \cap Box]
           start == {b} \cap Box
<1>1. IsFiniteSet(Box)
  <2>1. Box \in SUBSET Object
    BY DEF Object
  <2>2. QED
    BY <2>1, FS_Subset, FinitelyMany
<1>2. content \in [Box -> SUBSET Box] /\ \A o \in Box : o \in content[o]
  OBVIOUS
<1>3. start \in SUBSET Box /\ b \in start
  OBVIOUS
<1>4. Chain(h, b) = Reached(start, content)
  BY DEF Chain
<1>5. \A e \in Box : content[e] = {e, h.box[e]} \cap Box
  OBVIOUS
<1>6. \A S : b \in S => start \subseteq S
  OBVIOUS
<1> HIDE DEF content, start
<1>7. /\ start \subseteq Reached(start, content)
      /\ Reached(start, content) \in SUBSET Box
      /\ \A o \in Reached(start, content) : content[o] \subseteq Reached(start, content)
      /\ \A S : start \subseteq S /\ (\A o \in S \cap Box : content[o] \subseteq S)
                   => Reached(start, content) \subseteq S
  BY <1>1, <1>2, <1>3, ReachedIs
<1>8. ASSUME NEW e \in Chain(h, b), h.box[e] \in Box PROVE h.box[e] \in Chain(h, b)
  <2>1. e \in Box /\ content[e] \subseteq Chain(h, b)
    BY <1>4, <1>7
  <2>2. QED
    BY <1>5, <1>8, <2>1
<1>9. ASSUME NEW S, b \in S, \A e \in S \cap Box : h.box[e] \in Box => h.box[e] \in S
      PROVE  Chain(h, b) \subseteq S
  <2>1. \A o \in S \cap Box : content[o] \subseteq S
    BY <1>5, <1>9
  <2>2. QED
    BY <1>4, <1>6, <1>7, <1>9, <2>1
<1>10. QED
  BY <1>3, <1>4, <1>7, <1>8, <1>9

\* A variant that is no reference has no chain.
LEMMA NoChain ==
    ASSUME NEW h, h.box \in Boxes, NEW v, v \notin Box
    PROVE  Chain(h, v) = {}
<1> DEFINE content == [e \in Box |-> {e, h.box[e]} \cap Box]
           start == {v} \cap Box
<1>1. IsFiniteSet(Box)
  <2>1. Box \in SUBSET Object
    BY DEF Object
  <2>2. QED
    BY <2>1, FS_Subset, FinitelyMany
<1>2. content \in [Box -> SUBSET Box] /\ \A o \in Box : o \in content[o]
  OBVIOUS
<1>3. start \in SUBSET Box /\ start = {}
  OBVIOUS
<1>4. Chain(h, v) = Reached(start, content)
  BY DEF Chain
<1> HIDE DEF content, start
<1>5. \A S : start \subseteq S /\ (\A o \in S \cap Box : content[o] \subseteq S)
                => Reached(start, content) \subseteq S
  BY <1>1, <1>2, <1>3, ReachedIs
<1>6. Reached(start, content) \subseteq {}
  BY <1>3, <1>5
<1>7. QED
  BY <1>4, <1>6

\* The chain of a box goes on with the chain of what it holds.
LEMMA ChainNext ==
    ASSUME NEW h, h.box \in Boxes, NEW b \in Box
    PROVE  /\ h.box[b] \notin Box => Chain(h, b) = {b}
           /\ h.box[b] \in Box => Chain(h, b) = {b} \cup Chain(h, h.box[b])
<1>1. CASE h.box[b] \notin Box
  <2>1. Chain(h, b) \subseteq {b}
    BY <1>1, ChainIs
  <2>2. QED
    BY <1>1, <2>1, ChainIs
<1>2. CASE h.box[b] \in Box
  <2> DEFINE n == h.box[b]
             S == {b} \cup Chain(h, n)
  <2>1. n \in Box /\ n \in Chain(h, n) /\ Chain(h, n) \subseteq Box
    BY <1>2, ChainIs
  <2>2. \A e \in Chain(h, n) : h.box[e] \in Box => h.box[e] \in Chain(h, n)
    BY <1>2, ChainIs
  <2>3. b \in S /\ \A e \in S \cap Box : h.box[e] \in Box => h.box[e] \in S
    BY <2>1, <2>2
  <2>4. Chain(h, b) \subseteq S
    <3> HIDE DEF S
    <3>1. QED
      BY <2>3, ChainIs
  <2>5. b \in Chain(h, b) /\ n \in Chain(h, b)
    BY <1>2, ChainIs
  <2>6. \A e \in Chain(h, b) \cap Box : h.box[e] \in Box => h.box[e] \in Chain(h, b)
    BY ChainIs
  <2>7. Chain(h, n) \subseteq Chain(h, b)
    BY <2>1, <2>5, <2>6, ChainIs
  <2>8. QED
    BY <1>2, <2>4, <2>5, <2>7
<1>3. QED
  BY <1>1, <1>2

\* Without circles a chain has one end.
LEMMA LastIs ==
    ASSUME NEW h, h.box \in Boxes, Acyclic(h), NEW b \in Box
    PROVE  /\ Last(h, b) \in Chain(h, b)
           /\ Last(h, b) \in Box
           /\ h.box[Last(h, b)] \notin Box
           /\ \A e \in Chain(h, b) : h.box[e] \notin Box => e = Last(h, b)
<1> DEFINE Two(c) == \E e, f \in Chain(h, c) : e # f /\ h.box[e] \notin Box /\ h.box[f] \notin Box
           T == {c \in Box : Two(c)}
<1>1. ASSUME NEW c \in T PROVE h.box[c] \in T
  <2>1. PICK e, f \in Chain(h, c) : e # f /\ h.box[e] \notin Box /\ h.box[f] \notin Box
    OBVIOUS
  <2>2. h.box[c] \in Box
    BY <2>1, ChainNext
  <2>3. Chain(h, c) = {c} \cup Chain(h, h.box[c])
    BY <2>2, ChainNext
  <2>4. e \in Chain(h, h.box[c]) /\ f \in Chain(h, h.box[c])
    BY <2>1, <2>2, <2>3
  <2>5. QED
    BY <2>1, <2>2, <2>4
<1>2. T = {}
  <2>1. T \in SUBSET Box
    OBVIOUS
  <2> HIDE DEF T
  <2>2. QED
    BY <1>1, <2>1 DEF Acyclic
<1>3. \E e \in Chain(h, b) : h.box[e] \notin Box
  <2>1. SUFFICES ASSUME \A e \in Chain(h, b) : h.box[e] \in Box PROVE FALSE
    OBVIOUS
  <2>2. Chain(h, b) \in SUBSET Box /\ \A e \in Chain(h, b) : h.box[e] \in Chain(h, b)
    BY <2>1, ChainIs
  <2>3. Chain(h, b) = {}
    BY <2>2 DEF Acyclic
  <2>4. QED
    BY <2>3, ChainIs
<1>4. Last(h, b) \in Chain(h, b) /\ h.box[Last(h, b)] \notin Box
  BY <1>3 DEF Last
<1>5. ASSUME NEW e \in Chain(h, b), h.box[e] \notin Box PROVE e = Last(h, b)
  <2>1. b \notin T
    <3> HIDE DEF T
    <3>1. QED
      BY <1>2
  <2>2. QED
    BY <1>4, <1>5, <2>1
<1>6. Chain(h, b) \subseteq Box
  BY ChainIs
<1>7. QED
  BY <1>4, <1>5, <1>6

\* The end of a chain is the end of its rest.
LEMMA LastNext ==
    ASSUME NEW h, h.box \in Boxes, Acyclic(h), NEW b \in Box
    PROVE  Last(h, b) = IF h.box[b] \in Box THEN Last(h, h.box[b]) ELSE b
<1>1. CASE h.box[b] \notin Box
  BY <1>1, ChainNext, LastIs
<1>2. CASE h.box[b] \in Box
  <2>1. Chain(h, b) = {b} \cup Chain(h, h.box[b])
    BY <1>2, ChainNext
  <2>2. Last(h, h.box[b]) \in Chain(h, h.box[b]) /\ h.box[Last(h, h.box[b])] \notin Box
    BY <1>2, LastIs
  <2>3. Last(h, h.box[b]) = Last(h, b)
    BY <2>1, <2>2, LastIs
  <2>4. QED
    BY <1>2, <2>3
<1>3. QED
  BY <1>1, <1>2

\* f goes along the chains of S as the last boxes do.
Along(h, S, f) == \A b \in S : f[b] = IF h.box[b] \in Box THEN f[h.box[b]] ELSE b

Closed(h, S) == S \in SUBSET Box /\ \A b \in S : h.box[b] \in Box => h.box[b] \in S

\* g is h but for the box e, which holds v.
BoxSet(h, g, e, v) == g.box = [h.box EXCEPT ![e] = v]

\* What goes along the chains as the last boxes do is the last boxes.
LEMMA LastUnique ==
    ASSUME NEW h, h.box \in Boxes, Acyclic(h), NEW S, Closed(h, S), NEW f, Along(h, S, f)
    PROVE  \A b \in S : Last(h, b) = f[b]
<1>0. S \in SUBSET Box /\ (\A b \in S : h.box[b] \in Box => h.box[b] \in S)
      /\ \A b \in S : f[b] = IF h.box[b] \in Box THEN f[h.box[b]] ELSE b
  BY DEF Closed, Along
<1> DEFINE T == {b \in S : Last(h, b) # f[b]}
<1>1. ASSUME NEW b \in T PROVE h.box[b] \in T
  <2>1. b \in Box /\ Last(h, b) = IF h.box[b] \in Box THEN Last(h, h.box[b]) ELSE b
    BY <1>0, LastNext
  <2>2. h.box[b] \in Box
    BY <1>0, <2>1
  <2>3. QED
    BY <1>0, <2>1, <2>2
<1>2. T \in SUBSET Box
  BY <1>0
<1>3. T = {}
  <2> HIDE DEF T
  <2>1. QED
    BY <1>1, <1>2 DEF Acyclic
<1>4. QED
  BY <1>3

\* A last box is given something that does not lead back to it.
LEMMA SetBox ==
    ASSUME NEW h, h.box \in Boxes, Acyclic(h), NEW e \in Box, h.box[e] \notin Box,
           NEW v \in Variant, v \in Box => Last(h, v) # e,
           NEW g, BoxSet(h, g, e, v)
    PROVE  /\ Acyclic(g)
           /\ \A b \in Box : Last(g, b) = IF Last(h, b) = e /\ v \in Box
                                          THEN Last(h, v) ELSE Last(h, b)
<1>0. g.box \in Boxes /\ g.box[e] = v /\ \A b \in Box \ {e} : g.box[b] = h.box[b]
  BY DEF Boxes, BoxSet
<1>1. Last(h, e) = e
  BY LastNext
<1>2. Acyclic(g)
  <2>1. SUFFICES ASSUME NEW S \in SUBSET Box, \A b \in S : g.box[b] \in S PROVE S = {}
    BY DEF Acyclic
  <2> DEFINE R == {b \in S : Last(h, b) # e}
  <2>2. ASSUME NEW b \in R PROVE h.box[b] \in R
    <3>1. b \in Box /\ b # e /\ h.box[b] = g.box[b]
      BY <1>0, <1>1
    <3>2. h.box[b] \in S /\ h.box[b] \in Box
      BY <2>1, <3>1
    <3>3. Last(h, b) = Last(h, h.box[b])
      BY <3>1, <3>2, LastNext
    <3>4. QED
      BY <3>2, <3>3
  <2>3. R = {}
    <3>1. R \in SUBSET Box
      OBVIOUS
    <3> HIDE DEF R
    <3>2. QED
      BY <2>2, <3>1 DEF Acyclic
  <2>4. e \notin S
    <3>1. SUFFICES ASSUME e \in S PROVE FALSE
      OBVIOUS
    <3>2. v \in S /\ v \in Box
      BY <1>0, <2>1, <3>1
    <3>3. v \in R
      BY <3>2
    <3>4. QED
      BY <2>3, <3>3
  <2>5. \A b \in S : h.box[b] \in S
    BY <1>0, <2>1, <2>4
  <2>6. QED
    BY <2>5 DEF Acyclic
<1> DEFINE f == [b \in Box |-> IF Last(h, b) = e /\ v \in Box THEN Last(h, v) ELSE Last(h, b)]
<1>3. ASSUME NEW b \in Box PROVE f[b] = IF g.box[b] \in Box THEN f[g.box[b]] ELSE b
  <2>1. CASE b = e
    BY <1>0, <1>1, <2>1
  <2>2. CASE b # e
    <3>1. g.box[b] = h.box[b]
      BY <1>0, <2>2
    <3>2. CASE h.box[b] \in Box
      <4>1. Last(h, b) = Last(h, h.box[b])
        BY <3>2, LastNext
      <4>2. QED
        BY <3>1, <3>2, <4>1
    <3>3. CASE h.box[b] \notin Box
      <4>1. Last(h, b) = b
        BY <3>3, LastNext
      <4>2. QED
        BY <2>2, <3>1, <3>3, <4>1
    <3>4. QED
      BY <3>2, <3>3
  <2>3. QED
    BY <2>1, <2>2
<1>4. \A b \in Box : Last(g, b) = f[b]
  <2> HIDE DEF f
  <2>1. Closed(g, Box)
    BY DEF Closed
  <2>2. Along(g, Box, f)
    BY <1>3 DEF Along
  <2>3. QED
    BY <1>0, <1>2, <2>1, <2>2, LastUnique
<1>5. QED
  BY <1>2, <1>4

\* Boxes that are given up do not change the chains of the others.
LEMMA KeepBoxes ==
    ASSUME NEW h, h.box \in Boxes, Acyclic(h), NEW g, g.box \in Boxes,
           NEW S \in SUBSET Box, \A b \in S : h.box[b] \in Box => h.box[b] \in S,
           \A b \in S : g.box[b] = h.box[b],
           \A b \in Box \ S : g.box[b] \notin Box
    PROVE  /\ Acyclic(g)
           /\ \A b \in S : Last(g, b) = Last(h, b)
<1>1. Acyclic(g)
  <2>1. SUFFICES ASSUME NEW T \in SUBSET Box, \A b \in T : g.box[b] \in T PROVE T = {}
    BY DEF Acyclic
  <2>2. T \subseteq S
    BY <2>1
  <2>3. \A b \in T : h.box[b] \in T
    BY <2>1, <2>2
  <2>4. QED
    BY <2>3 DEF Acyclic
<1> DEFINE T == {b \in S : Last(g, b) # Last(h, b)}
<1>2. ASSUME NEW b \in T PROVE g.box[b] \in T
  <2>1. b \in Box /\ b \in S /\ g.box[b] = h.box[b]
    OBVIOUS
  <2>2. Last(h, b) = IF h.box[b] \in Box THEN Last(h, h.box[b]) ELSE b
    BY <2>1, LastNext
  <2>3. Last(g, b) = IF g.box[b] \in Box THEN Last(g, g.box[b]) ELSE b
    BY <1>1, <2>1, LastNext
  <2>4. QED
    BY <2>1, <2>2, <2>3
<1>3. T \in SUBSET Box
  OBVIOUS
<1>4. T = {}
  <2> HIDE DEF T
  <2>1. QED
    BY <1>1, <1>2, <1>3 DEF Acyclic
<1>5. QED
  BY <1>1, <1>4

\* Chains are made of boxes alone.
LEMMA SameBoxes ==
    ASSUME NEW h, NEW g, g.box = h.box
    PROVE  /\ \A v : Chain(g, v) = Chain(h, v)
           /\ \A v : Last(g, v) = Last(h, v)
           /\ \A v : Final(g, v) = Final(h, v)
           /\ \A v, w : Apart(g, v, w) = Apart(h, v, w)
           /\ Acyclic(g) = Acyclic(h)
<1>1. \A v : Chain(g, v) = Chain(h, v)
  BY DEF Chain
<1>2. \A v : Last(g, v) = Last(h, v)
  BY <1>1 DEF Last
<1>3. QED
  BY <1>1, <1>2 DEF Final, Apart, Acyclic

------------------------------------------------------------------------------
(* Places. *)

\* What each place reads.
LEMMA Gets ==
    ASSUME NEW h
    PROVE  /\ \A x : Get(h, Var(x)) = h.var[x]
           /\ \A b : Get(h, InBox(b)) = h.box[b]
           /\ \A l, i : Get(h, Item(l, i)) = h.list[l][i]
           /\ \A i : Get(h, Stack(i)) = h.stack[i]
           /\ Get(h, Iterated) = h.object
BY DEF Get, Var, InBox, Item, Stack, Iterated

\* g is h but for one of its parts.
VarSet(h, g, x, v)     == g = [h EXCEPT !.var[x] = v]
BoxPut(h, g, b, v)     == g = [h EXCEPT !.box[b] = v]
ListSet(h, g, l, s)    == g = [h EXCEPT !.list[l] = s]
ItemSet(h, g, l, i, v) == g = [h EXCEPT !.list[l][i] = v]
StackSet(h, g, s)      == g = [h EXCEPT !.stack = s]
StackPut(h, g, i, v)   == g = [h EXCEPT !.stack[i] = v]
ObjectSet(h, g, v)     == g = [h EXCEPT !.object = v]

\* What a write to each place leaves, in the terms of the lemmas below.
LEMMA Puts ==
    ASSUME NEW h, NEW v
    PROVE  /\ \A x : VarSet(h, Put(h, Var(x), v), x, v)
           /\ \A b : BoxPut(h, Put(h, InBox(b), v), b, v)
           /\ \A l, i : ItemSet(h, Put(h, Item(l, i), v), l, i, v)
           /\ \A i : StackPut(h, Put(h, Stack(i), v), i, v)
BY DEF Put, Var, InBox, Item, Stack, Iterated, VarSet, BoxPut, ItemSet, StackPut

\* Places of different kinds are different, and so are those of different owners.
LEMMA OtherPlaces ==
    /\ \A b, c : InBox(b) = InBox(c) => b = c
    /\ \A x, y : Var(x) = Var(y) => x = y
    /\ \A b, x : InBox(b) # Var(x)
    /\ \A b, i : InBox(b) # Stack(i)
    /\ \A b, l, i : InBox(b) # Item(l, i)
    /\ \A b : InBox(b) # Iterated
    /\ \A x : Var(x) # Iterated
    /\ \A l, i : Iterated # Item(l, i)
BY DEF Var, InBox, Item, Stack, Iterated

\* resolve ends in the last box of the chain, or where it started.
LEMMA ResolveIs ==
    ASSUME NEW h, h.box \in Boxes, Acyclic(h), NEW p
    PROVE  /\ Resolves(h, p)
           /\ Place(h, p) = IF Get(h, p) \in Box THEN InBox(Last(h, Get(h, p))) ELSE p
           /\ Resolve(h, p) = Final(h, Get(h, p))
           /\ Get(h, Place(h, p)) = Final(h, Get(h, p))
<1> DEFINE v == Get(h, p)
           PL == IF v \in Box THEN InBox(Last(h, v)) ELSE p
<1>1. PL \in Path(h, p) /\ Get(h, PL) \notin Box /\ Get(h, PL) = Final(h, v)
  <2>1. CASE v \in Box
    <3>1. Last(h, v) \in Chain(h, v) /\ h.box[Last(h, v)] \notin Box
      BY <2>1, LastIs
    <3>2. Get(h, InBox(Last(h, v))) = h.box[Last(h, v)]
      BY Gets
    <3>3. QED
      BY <2>1, <3>1, <3>2 DEF Path, Final
  <2>2. CASE v \notin Box
    BY <2>2 DEF Path, Final
  <2>3. QED
    BY <2>1, <2>2
<1>2. ASSUME NEW q \in Path(h, p), Get(h, q) \notin Box PROVE q = PL
  <2>1. CASE v \in Box
    <3>1. PICK b \in Chain(h, v) : q = InBox(b)
      BY <1>2, <2>1 DEF Path
    <3>2. h.box[b] \notin Box
      BY <1>2, <3>1, Gets
    <3>3. b = Last(h, v)
      BY <2>1, <3>2, LastIs
    <3>4. QED
      BY <2>1, <3>1, <3>3
  <2>2. CASE v \notin Box
    <3>1. Chain(h, v) = {}
      BY <2>2, NoChain
    <3>2. QED
      BY <2>2, <3>1 DEF Path
  <2>3. QED
    BY <2>1, <2>2
<1> HIDE DEF PL
<1>3. Place(h, p) = PL
  BY <1>1, <1>2 DEF Place
<1>4. Resolves(h, p)
  BY <1>1 DEF Resolves
<1>5. Resolve(h, p) = Final(h, v)
  <2>1. Final(h, v) \in {Get(h, q) : q \in Path(h, p)} /\ Final(h, v) \notin Box
    BY <1>1
  <2>2. \A w \in {Get(h, q) : q \in Path(h, p)} : w \notin Box => w = Final(h, v)
    BY <1>1, <1>2
  <2>3. QED
    BY <2>1, <2>2 DEF Resolve
<1>6. QED
  BY <1>1, <1>3, <1>4, <1>5 DEF PL

\* The places that hold an object.
LEMMA HeldIs ==
    ASSUME NEW h \in Memory, NEW o \in List, NEW p
    PROVE  p \in Held(h, o) <=>
              \/ \E x \in Variable : p = Var(x) /\ h.var[x] = o
              \/ \E b \in Box : p = InBox(b) /\ h.box[b] = o
              \/ \E i \in DOMAIN h.stack : p = Stack(i) /\ h.stack[i] = o
<1>1. p \in Held(h, o) <=>
          /\ \/ \E x \in Variable : p = Var(x)
             \/ \E b \in Box : p = InBox(b)
             \/ p = Iterated
             \/ \E i \in DOMAIN h.stack : p = Stack(i)
             \/ \E l \in List : \E i \in DOMAIN Items(h, l) : p = Item(l, i)
          /\ Get(h, p) = o
  BY DEF Held, Places
<1>2. h.object # o
  BY DistinctValues DEF Memory, Object
<1>3. \A l \in List : \A i \in DOMAIN Items(h, l) : h.list[l][i] # o
  <2>1. SUFFICES ASSUME NEW l \in List, NEW i \in DOMAIN Items(h, l) PROVE h.list[l][i] # o
    OBVIOUS
  <2>2. h.list[l] # Freed
    BY DEF Items
  <2>3. h.list[l] \in Seq(Flat) /\ i \in DOMAIN h.list[l]
    BY <2>2 DEF Items, Memory
  <2>4. h.list[l][i] \in Flat
    BY <2>3
  <2>5. QED
    BY <2>4, DistinctValues DEF Flat, Object
<1>4. QED
  BY <1>1, <1>2, <1>3, Gets

\* The values of a function on a finite set are finite.
LEMMA FiniteImage ==
    ASSUME NEW S, IsFiniteSet(S), NEW f, f = [x \in S |-> f[x]]
    PROVE  IsFiniteSet({f[x] : x \in S})
<1> DEFINE T == {f[x] : x \in S}
<1>1. f \in Surjection(S, T)
  <2>1. f \in [S -> T]
    <3>1. \A x \in S : f[x] \in T
      OBVIOUS
    <3> HIDE DEF T
    <3>2. [x \in S |-> f[x]] \in [S -> T]
      BY <3>1
    <3>3. QED
      BY <3>2
  <2>2. \A t \in T : \E x \in S : f[x] = t
    OBVIOUS
  <2>3. QED
    BY <2>1, <2>2 DEF Surjection
<1> HIDE DEF T
<1>2. IsFiniteSet(T)
  BY <1>1, FS_Surjection
<1>3. QED
  BY <1>2 DEF T

\* ref_count tells whether an object is shared.
LEMMA CountIs ==
    ASSUME NEW h \in Memory, NEW o \in List
    PROVE  Count(h, o) > 1 <=> ~One(h, o)
<1> DEFINE H == Held(h, o)
           A == {Var(x) : x \in Variable}
           B == {InBox(b) : b \in Box}
           S == {Stack(i) : i \in DOMAIN h.stack}
<1>1. Count(h, o) = Cardinality(H)
  BY DEF Count, Held
<1>2. IsFiniteSet(H)
  <2>1. IsFiniteSet(A)
    <3> DEFINE f == [x \in Variable |-> Var(x)]
    <3>1. A = {f[x] : x \in Variable} /\ f = [x \in Variable |-> f[x]]
      OBVIOUS
    <3> HIDE DEF f
    <3>2. IsFiniteSet({f[x] : x \in Variable})
      BY <3>1, FinitelyMany, FiniteImage
    <3>3. QED
      BY <3>1, <3>2
  <2>2. IsFiniteSet(B)
    <3>1. Box \in SUBSET Object
      BY DEF Object
    <3>2. IsFiniteSet(Box)
      BY <3>1, FS_Subset, FinitelyMany
    <3> DEFINE f == [x \in Box |-> InBox(x)]
    <3>3. B = {f[x] : x \in Box} /\ f = [x \in Box |-> f[x]]
      OBVIOUS
    <3> HIDE DEF f
    <3>4. IsFiniteSet({f[x] : x \in Box})
      BY <3>2, <3>3, FiniteImage
    <3>5. QED
      BY <3>3, <3>4
  <2>3. IsFiniteSet(S)
    <3>1. DOMAIN h.stack = 1..Len(h.stack) /\ Len(h.stack) \in Nat
      BY DEF Memory
    <3>2. IsFiniteSet(DOMAIN h.stack)
      BY <3>1, FS_Interval
    <3> DEFINE f == [x \in DOMAIN h.stack |-> Stack(x)]
    <3>3. S = {f[x] : x \in DOMAIN h.stack} /\ f = [x \in DOMAIN h.stack |-> f[x]]
      OBVIOUS
    <3> HIDE DEF f
    <3>4. IsFiniteSet({f[x] : x \in DOMAIN h.stack})
      BY <3>2, <3>3, FiniteImage
    <3>5. QED
      BY <3>3, <3>4
  <2> HIDE DEF A, B, S
  <2>4. IsFiniteSet((A \cup B) \cup S)
    BY <2>1, <2>2, <2>3, FS_Union
  <2>5. H \in SUBSET ((A \cup B) \cup S)
    BY HeldIs DEF A, B, S
  <2>6. QED
    BY <2>4, <2>5, FS_Subset
<1>3. Cardinality(H) \in Nat
  BY <1>2, FS_CardinalityType
<1>4. ASSUME One(h, o) PROVE ~(Count(h, o) > 1)
  <2>1. PICK p : H \subseteq {p}
    BY <1>4 DEF One
  <2>2. IsFiniteSet({p}) /\ Cardinality({p}) = 1
    BY FS_Singleton
  <2>3. Cardinality(H) <= 1
    BY <2>1, <2>2, FS_Subset
  <2>4. QED
    BY <1>1, <1>3, <2>3
<1>5. ASSUME ~(Count(h, o) > 1) PROVE One(h, o)
  <2>1. Cardinality(H) = 0 \/ Cardinality(H) = 1
    BY <1>1, <1>3, <1>5
  <2>2. CASE Cardinality(H) = 0
    <3>1. H = {}
      BY <1>2, <2>2, FS_EmptySet
    <3>2. QED
      BY <3>1 DEF One
  <2>3. CASE Cardinality(H) = 1
    <3>1. \E p : H = {p}
      BY <1>2, <2>3, FS_Singleton
    <3>2. QED
      BY <3>1 DEF One
  <2>4. QED
    BY <2>1, <2>2, <2>3
<1>6. QED
  BY <1>4, <1>5

\* Objects that exist lead to objects that exist.
LEMMA FinalExists ==
    ASSUME NEW h, Good(h), NEW v \in Variant, Exists(h, v)
    PROVE  /\ Final(h, v) \in Variant /\ Final(h, v) \notin Box /\ Exists(h, Final(h, v))
           /\ v \in Box => Last(h, v) \in Box /\ h.box[Last(h, v)] = Final(h, v)
<1>1. h.box \in Boxes
  BY DEF Good, Typed, Memory, Boxes
<1>2. CASE v \notin Box
  BY <1>2 DEF Final
<1>3. CASE v \in Box
  <2> DEFINE S == {b \in Box : h.box[b] # Freed}
  <2>1. v \in S
    BY <1>3 DEF Exists
  <2>2. \A b \in S \cap Box : h.box[b] \in Box => h.box[b] \in S
    BY DEF Good, Live, Exists
  <2>3. Chain(h, v) \subseteq S
    <3> HIDE DEF S
    <3>1. QED
      BY <1>1, <1>3, <2>1, <2>2, ChainIs
  <2>4. Last(h, v) \in Chain(h, v) /\ Last(h, v) \in Box /\ h.box[Last(h, v)] \notin Box
    BY <1>1, <1>3, LastIs DEF Good
  <2>5. h.box[Last(h, v)] # Freed
    BY <2>3, <2>4
  <2>6. h.box[Last(h, v)] \in Variant
    BY <1>1, <2>4, <2>5 DEF Boxes
  <2>7. Exists(h, h.box[Last(h, v)])
    BY <2>4 DEF Good, Live
  <2>8. QED
    BY <1>3, <2>4, <2>6, <2>7 DEF Final
<1>4. QED
  BY <1>2, <1>3

------------------------------------------------------------------------------
(* The release of objects that nothing reaches. *)

\* What variables, the stack and the iterator hold.
Roots(h) == {h.var[x] : x \in Variable} \cup {h.stack[i] : i \in DOMAIN h.stack} \cup {h.object}

\* Release keeps a set of objects that has what variables, the stack and the
\* iterator hold, and what the objects in it hold (Variant::release).
LEMMA ReleaseIs ==
    ASSUME NEW h, Good(h)
    PROVE  \E S \in SUBSET Object :
              /\ Release(h) = [h EXCEPT !.box = [b \in Box |-> IF b \in S THEN h.box[b] ELSE Freed],
                                        !.list = [l \in List |-> IF l \in S THEN h.list[l] ELSE Freed]]
              /\ \A v \in Roots(h) : v \in Object => v \in S
              /\ \A b \in Box : b \in S /\ h.box[b] \in Object => h.box[b] \in S
              /\ \A l \in List : l \in S =>
                    \A i \in DOMAIN Items(h, l) : Items(h, l)[i] \in Object => Items(h, l)[i] \in S
<1> DEFINE Inside(o) == IF o \in Box THEN {h.box[o]}
                         ELSE {Items(h, o)[i] : i \in DOMAIN Items(h, o)}
           start == Roots(h) \cap Object
           content == [o \in Object |-> ({o} \cup Inside(o)) \cap Object]
           S == Reached(start, content)
<1>1. /\ Release(h) = [h EXCEPT !.box = [b \in Box |-> IF b \in S THEN h.box[b] ELSE Freed],
                                !.list = [l \in List |-> IF l \in S THEN h.list[l] ELSE Freed]]
  BY DEF Release, Roots
<1>2. content \in [Object -> SUBSET Object] /\ \A o \in Object : o \in content[o]
  OBVIOUS
<1>3. start \in SUBSET Object
  OBVIOUS
<1>4. \A o \in Object : content[o] = ({o} \cup Inside(o)) \cap Object
  OBVIOUS
<1>5. /\ start \subseteq S /\ S \in SUBSET Object
      /\ \A o \in S : content[o] \subseteq S
  <2> HIDE DEF start, content
  <2>1. QED
    BY <1>2, <1>3, FinitelyMany, ReachedIs
<1>6. \A v \in Roots(h) : v \in Object => v \in S
  <2> HIDE DEF S, content
  <2>1. QED
    BY <1>5
<1> HIDE DEF S, content
<1>7. ASSUME NEW b \in Box, b \in S, h.box[b] \in Object PROVE h.box[b] \in S
  <2>1. b \in Object /\ content[b] \subseteq S
    BY <1>5, <1>7
  <2>2. h.box[b] \in content[b]
    BY <1>4, <1>7, <2>1
  <2>3. QED
    BY <2>1, <2>2
<1>8. ASSUME NEW l \in List, l \in S, NEW i \in DOMAIN Items(h, l), Items(h, l)[i] \in Object
      PROVE  Items(h, l)[i] \in S
  <2>1. l \in Object /\ content[l] \subseteq S /\ l \notin Box
    BY <1>5, <1>8, DistinctValues
  <2>2. Items(h, l)[i] \in content[l]
    BY <1>4, <1>8, <2>1
  <2>3. QED
    BY <2>1, <2>2
<1>9. QED
  BY <1>1, <1>5, <1>6, <1>7, <1>8

\* What is reached stays as it is, and nothing else changes but for the worse.
LEMMA ReleaseKeeps ==
    ASSUME NEW h, Good(h), NEW g, g = Release(h)
    PROVE  /\ g.var = h.var /\ g.stack = h.stack /\ g.object = h.object
           /\ Good(g)
           /\ \A v \in Roots(h) : v \in Box => Last(g, v) = Last(h, v)
           /\ \A v \in Roots(h) : Final(g, v) = Final(h, v)
           /\ \A v \in Roots(h) : Final(h, v) \in List => g.list[Final(h, v)] = h.list[Final(h, v)]
           /\ \A l \in List : \A i \in DOMAIN Items(g, l) :
                 /\ g.list[l] = h.list[l] /\ Items(g, l) = Items(h, l)
                 /\ Items(g, l)[i] \in Box => Last(g, Items(g, l)[i]) = Last(h, Items(h, l)[i])
           /\ \A o \in List : One(h, o) => One(g, o)
           /\ \A b \in Box : h.box[b] = Freed => g.box[b] = Freed
           /\ \A l \in List : h.list[l] = Freed => g.list[l] = Freed
<1>1. PICK S \in SUBSET Object :
              /\ g = [h EXCEPT !.box = [b \in Box |-> IF b \in S THEN h.box[b] ELSE Freed],
                               !.list = [l \in List |-> IF l \in S THEN h.list[l] ELSE Freed]]
              /\ \A v \in Roots(h) : v \in Object => v \in S
              /\ \A b \in Box : b \in S /\ h.box[b] \in Object => h.box[b] \in S
              /\ \A l \in List : l \in S =>
                    \A i \in DOMAIN Items(h, l) : Items(h, l)[i] \in Object => Items(h, l)[i] \in S
  BY ReleaseIs
<1>2. h \in Memory /\ h.box \in Boxes /\ Acyclic(h) /\ Live(h) /\ ItemsFlat(h)
  BY DEF Good, Typed, Memory, Boxes
<1>3. /\ g.var = h.var /\ g.stack = h.stack /\ g.object = h.object
      /\ g.box = [b \in Box |-> IF b \in S THEN h.box[b] ELSE Freed]
      /\ g.list = [l \in List |-> IF l \in S THEN h.list[l] ELSE Freed]
      /\ g \in Memory
  <2> DEFINE B == [b \in Box |-> IF b \in S THEN h.box[b] ELSE Freed]
             L == [l \in List |-> IF l \in S THEN h.list[l] ELSE Freed]
  <2>1. B \in [Box -> Variant \cup {Freed}] /\ L \in [List -> Seq(Flat) \cup {Freed}]
    BY <1>2 DEF Memory
  <2>2. g = [h EXCEPT !.box = B, !.list = L]
    BY <1>1
  <2> HIDE DEF B, L
  <2>3. g.var = h.var /\ g.stack = h.stack /\ g.object = h.object /\ g.box = B /\ g.list = L
        /\ g \in Memory
    BY <1>2, <2>1, <2>2 DEF Memory
  <2>4. QED
    BY <2>3 DEF B, L
<1>4. g.box \in Boxes
  BY <1>3 DEF Memory, Boxes
<1>5. Freed \notin Box /\ Box \subseteq Object /\ List \subseteq Object /\ Object = Box \cup List
  BY DistinctValues DEF Variant, Object
<1>6. /\ Acyclic(g)
      /\ \A b \in S \cap Box : Last(g, b) = Last(h, b)
  <2> DEFINE T == S \cap Box
  <2>1. T \in SUBSET Box /\ \A b \in T : h.box[b] \in Box => h.box[b] \in T
    BY <1>1, <1>5
  <2>2. (\A b \in T : g.box[b] = h.box[b]) /\ (\A b \in Box \ T : g.box[b] \notin Box)
    BY <1>3, <1>5
  <2> HIDE DEF T
  <2>3. Acyclic(g) /\ \A b \in T : Last(g, b) = Last(h, b)
    BY <1>2, <1>4, <2>1, <2>2, KeepBoxes
  <2>4. QED
    BY <2>3 DEF T
<1>7. \A b \in Box : b \in S => Last(h, b) \in S
  <2>1. SUFFICES ASSUME NEW b \in Box, b \in S PROVE Last(h, b) \in S
    OBVIOUS
  <2>2. \A e \in S \cap Box : h.box[e] \in Box => h.box[e] \in S
    BY <1>1, <1>5
  <2>3. Chain(h, b) \subseteq S
    BY <1>2, <2>1, <2>2, ChainIs
  <2>4. QED
    BY <1>2, <2>3, LastIs
<1>8. \A v \in S : Final(g, v) = Final(h, v) /\ (Final(h, v) \in List => Final(h, v) \in S)
  <2>1. SUFFICES ASSUME NEW v \in S
                 PROVE  Final(g, v) = Final(h, v) /\ (Final(h, v) \in List => Final(h, v) \in S)
    OBVIOUS
  <2>2. CASE v \in Box
    <3>1. Last(g, v) = Last(h, v) /\ Last(h, v) \in S /\ Last(h, v) \in Box
      BY <1>2, <1>6, <1>7, <2>2, LastIs
    <3>2. Final(h, v) = h.box[Last(h, v)] /\ Final(g, v) = g.box[Last(h, v)]
      BY <2>2, <3>1 DEF Final
    <3>3. QED
      BY <1>1, <1>3, <1>5, <3>1, <3>2
  <2>3. CASE v \notin Box
    BY <2>3 DEF Final
  <2>4. QED
    BY <2>2, <2>3
<1>9. \A l \in List : g.list[l] # Freed => l \in S /\ g.list[l] = h.list[l] /\ Items(g, l) = Items(h, l)
  BY <1>3 DEF Items
<1>10. \A l \in List : \A i \in DOMAIN Items(g, l) : g.list[l] # Freed
  BY DEF Items
<1>11. \A l \in List : \A i \in DOMAIN Items(g, l) :
          /\ g.list[l] = h.list[l] /\ Items(g, l) = Items(h, l) /\ g.list[l] # Freed /\ l \in S
          /\ Items(g, l)[i] \in Object => Items(h, l)[i] \in S
  BY <1>1, <1>9, <1>10
<1>12. \A v : Exists(h, v) /\ (v \in Object => v \in S) => Exists(g, v)
  BY <1>3, <1>5 DEF Exists
<1>13. Live(g)
  <2>1. \A v \in Roots(h) : Exists(g, v)
    <3>1. \A v \in Roots(h) : Exists(h, v)
      BY <1>2 DEF Live, Roots
    <3>2. QED
      BY <1>1, <1>12, <3>1
  <2>2. ASSUME NEW x \in Variable PROVE Exists(g, g.var[x])
    BY <1>3, <2>1 DEF Roots
  <2>3. ASSUME NEW b \in Box PROVE Exists(g, g.box[b])
    <3>1. CASE b \in S
      <4>1. g.box[b] = h.box[b] /\ Exists(h, h.box[b])
        BY <1>2, <1>3, <3>1 DEF Live
      <4>2. QED
        BY <1>1, <1>12, <3>1, <4>1
    <3>2. CASE b \notin S
      <4>1. g.box[b] = Freed /\ Freed \notin Box /\ Freed \notin List
        BY <1>3, <3>2, DistinctValues DEF Variant, Object
      <4>2. QED
        BY <4>1 DEF Exists
    <3>3. QED
      BY <3>1, <3>2
  <2>4. ASSUME NEW l \in List, NEW i \in DOMAIN Items(g, l) PROVE Exists(g, Items(g, l)[i])
    <3>1. Items(g, l) = Items(h, l) /\ Exists(h, Items(h, l)[i])
      BY <1>2, <1>11 DEF Live
    <3>2. QED
      BY <1>11, <1>12, <3>1
  <2>5. ASSUME NEW i \in DOMAIN g.stack PROVE Exists(g, g.stack[i])
    BY <1>3, <2>1 DEF Roots
  <2>6. Exists(g, g.object)
    BY <1>3, <2>1 DEF Roots
  <2>7. QED
    BY <2>2, <2>3, <2>4, <2>5, <2>6 DEF Live
<1>14. ItemsFlat(g)
  <2>1. SUFFICES ASSUME NEW l \in List, NEW i \in DOMAIN Items(g, l)
                 PROVE  Final(g, Items(g, l)[i]) \notin List
    BY DEF ItemsFlat
  <2>2. Items(g, l) = Items(h, l) /\ Final(h, Items(h, l)[i]) \notin List
    BY <1>2, <1>11 DEF ItemsFlat
  <2>3. CASE Items(g, l)[i] \in Object
    BY <1>8, <1>11, <2>2, <2>3
  <2>4. CASE Items(g, l)[i] \notin Object
    BY <1>5, <2>2, <2>4 DEF Final
  <2>5. QED
    BY <2>3, <2>4
<1>15. Typed(g)
  BY <1>3, <1>9 DEF Good, Typed
<1>16. Good(g)
  BY <1>6, <1>13, <1>14, <1>15 DEF Good
<1>17. \A v \in Roots(h) : v \in Box => Last(g, v) = Last(h, v)
  BY <1>1, <1>5, <1>6
<1>18. \A v \in Roots(h) : Final(g, v) = Final(h, v) /\ (Final(h, v) \in List => Final(h, v) \in S)
  <2>1. SUFFICES ASSUME NEW v \in Roots(h)
                 PROVE  Final(g, v) = Final(h, v) /\ (Final(h, v) \in List => Final(h, v) \in S)
    OBVIOUS
  <2>2. CASE v \in Object
    BY <1>1, <1>8, <2>2
  <2>3. CASE v \notin Object
    BY <1>5, <2>3 DEF Final
  <2>4. QED
    BY <2>2, <2>3
<1>19. \A o \in List : One(h, o) => One(g, o)
  <2>1. SUFFICES ASSUME NEW o \in List PROVE Held(g, o) \subseteq Held(h, o)
    BY DEF One
  <2>2. ASSUME NEW p \in Held(g, o) PROVE p \in Held(h, o)
    <3>1. o # Freed
      BY DistinctValues DEF Variant, Object
    <3>2. \A b \in Box : g.box[b] = o => h.box[b] = o
      BY <1>3, <3>1
    <3>3. QED
      BY <1>2, <1>3, <2>2, <3>2, HeldIs
  <2>3. QED
    BY <2>2
<1>20. \A l \in List : \A i \in DOMAIN Items(g, l) :
          Items(g, l)[i] \in Box => Last(g, Items(g, l)[i]) = Last(h, Items(h, l)[i])
  BY <1>5, <1>6, <1>11
<1>21. \A b \in Box : h.box[b] = Freed => g.box[b] = Freed
  BY <1>3
<1>22. \A l \in List : h.list[l] = Freed => g.list[l] = Freed
  BY <1>3
<1>23. \A v \in Roots(h) : Final(h, v) \in List => g.list[Final(h, v)] = h.list[Final(h, v)]
  BY <1>3, <1>18
<1>24. QED
  BY <1>3, <1>11, <1>16, <1>17, <1>18, <1>19, <1>20, <1>21, <1>22, <1>23

\* The same for what the invariant says.
LEMMA ReleaseFacts ==
    ASSUME NEW h, Good(h), NEW g, g = Release(h)
    PROVE  /\ \A v, w \in Roots(h) : Apart(h, v, w) => Apart(g, v, w)
           /\ \A v \in Roots(h) : NoItem(h, v) => NoItem(g, v)
           /\ \A v \in Roots(h) : \A it : Other(h, it, v) => Other(g, it, v)
           /\ FreeBox(h) => FreeBox(g)
           /\ FreeList(h) => FreeList(g)
           /\ TwoFreeLists(h) => TwoFreeLists(g)
           /\ \A v \in Roots(h) : \A i : Indexed(h, v, i) => Indexed(g, v, i)
           /\ \A u, v \in Roots(h) : \A it : Fits(h, it, u, v) => Fits(g, it, u, v)
<1>1. /\ g.object = h.object
      /\ \A v \in Roots(h) : v \in Box => Last(g, v) = Last(h, v)
      /\ \A v \in Roots(h) : Final(g, v) = Final(h, v)
      /\ \A v \in Roots(h) : Final(h, v) \in List => g.list[Final(h, v)] = h.list[Final(h, v)]
      /\ \A l \in List : \A i \in DOMAIN Items(g, l) :
            /\ Items(g, l) = Items(h, l)
            /\ Items(g, l)[i] \in Box => Last(g, Items(g, l)[i]) = Last(h, Items(h, l)[i])
      /\ \A b \in Box : h.box[b] = Freed => g.box[b] = Freed
      /\ \A l \in List : h.list[l] = Freed => g.list[l] = Freed
  BY ReleaseKeeps
<1>2. h.object \in Roots(h)
  BY DEF Roots
<1>3. \A v, w \in Roots(h) : Apart(h, v, w) => Apart(g, v, w)
  BY <1>1 DEF Apart
<1>4. ASSUME NEW v \in Roots(h), NoItem(h, v) PROVE NoItem(g, v)
  <2>1. SUFFICES ASSUME NEW l \in List, NEW i \in DOMAIN Items(g, l) PROVE Apart(g, v, Items(g, l)[i])
    BY DEF NoItem
  <2>2. Items(g, l) = Items(h, l) /\ Apart(h, v, Items(h, l)[i])
    BY <1>1, <1>4 DEF NoItem
  <2>3. QED
    BY <1>1, <2>2 DEF Apart
<1>5. \A v \in Roots(h) : \A it : Other(h, it, v) => Other(g, it, v)
  BY <1>1, <1>2, <1>3 DEF Other
<1>6. \A v \in Roots(h) : \A i : Indexed(h, v, i) => Indexed(g, v, i)
  BY <1>1 DEF Indexed
<1>7. ASSUME NEW u \in Roots(h), NEW v \in Roots(h), NEW it, Fits(h, it, u, v) PROVE Fits(g, it, u, v)
  BY <1>1, <1>3, <1>4, <1>5, <1>7 DEF Fits
<1>8. FreeBox(h) => FreeBox(g)
  BY <1>1 DEF FreeBox
<1>9. FreeList(h) => FreeList(g)
  BY <1>1 DEF FreeList
<1>10. TwoFreeLists(h) => TwoFreeLists(g)
  BY <1>1 DEF TwoFreeLists
<1>11. QED
  BY <1>3, <1>4, <1>5, <1>6, <1>7, <1>8, <1>9, <1>10

\* What holds before an opcode is not lost by the release of other objects.
LEMMA ReleaseSound ==
    ASSUME NEW h, NEW it, NEW c, Sound(h, it, c), NEW g, g = Release(h)
    PROVE  Sound(g, it, c)
<1>1. Good(h) /\ Follows(h, it) /\ At(h, it, c)
  BY DEF Sound
<1>2. /\ g.var = h.var /\ g.stack = h.stack /\ g.object = h.object
      /\ Good(g)
      /\ \A v \in Roots(h) : Final(g, v) = Final(h, v)
      /\ \A v \in Roots(h) : Final(h, v) \in List => g.list[Final(h, v)] = h.list[Final(h, v)]
      /\ \A o \in List : One(h, o) => One(g, o)
  BY <1>1, ReleaseKeeps
<1>3. /\ \A v, w \in Roots(h) : Apart(h, v, w) => Apart(g, v, w)
      /\ \A v \in Roots(h) : NoItem(h, v) => NoItem(g, v)
      /\ \A v \in Roots(h) : Other(h, it, v) => Other(g, it, v)
      /\ FreeBox(h) => FreeBox(g)
      /\ FreeList(h) => FreeList(g)
      /\ TwoFreeLists(h) => TwoFreeLists(g)
      /\ \A v \in Roots(h) : \A i : Indexed(h, v, i) => Indexed(g, v, i)
      /\ \A u, v \in Roots(h) : Fits(h, it, u, v) => Fits(g, it, u, v)
  BY <1>1, ReleaseFacts
<1>4. /\ \A x \in Variable : h.var[x] \in Roots(h)
      /\ \A v : h.stack = <<v>> => v \in Roots(h)
      /\ \A v, w : h.stack = <<v, w>> => v \in Roots(h)
      /\ h.object \in Roots(h)
  BY DEF Roots
<1>5. Follows(g, it)
  <2>1. Final(g, g.object) = Final(h, h.object)
    BY <1>2, <1>4
  <2>2. CASE ~it.open
    BY <1>1, <2>2 DEF Follows
  <2>3. CASE it.open
    <3>1. /\ it.list \in List /\ it.over \in Variable /\ h.object \in Box
          /\ Final(h, h.object) = it.list
          /\ it.pos \in 0..MaxLength + 1 /\ it.pos \in 1..Len(h.list[it.list]) + 1
      BY <1>1, <2>3 DEF Follows
    <3>2. g.list[it.list] = h.list[it.list]
      BY <1>2, <1>4, <3>1
    <3>3. QED
      BY <1>2, <2>1, <3>1, <3>2 DEF Follows
  <2>4. QED
    BY <2>2, <2>3
<1>6. \A v \in Roots(h) : Own(h, it, v) => Own(g, it, v)
  <2>1. SUFFICES ASSUME NEW v \in Roots(h), Own(h, it, v) PROVE Own(g, it, v)
    OBVIOUS
  <2>2. CASE it.open
    <3>1. it.list \in List
      BY <1>1, <2>2 DEF Follows
    <3>2. QED
      BY <1>2, <1>3, <2>1, <3>1 DEF Own
  <2>3. CASE ~it.open
    BY <2>3 DEF Own, Other
  <2>4. QED
    BY <2>2, <2>3
<1>7. \A v \in Roots(h) : Extends(h, it, v) => Extends(g, it, v)
  BY <1>2, <1>3, <1>6 DEF Extends
<1>8. \A v \in Roots(h) : Final(h, v) \in List => Items(g, Final(g, v)) = Items(h, Final(h, v))
  BY <1>2 DEF Items
<1>9. \A u, v \in Roots(h) : \A i :
          /\ Final(h, v) \in List /\ i \in DOMAIN Items(h, Final(h, v))
          /\ Apart(h, u, Items(h, Final(h, v))[i])
          => Apart(g, u, Items(g, Final(g, v))[i])
  <2>1. SUFFICES ASSUME NEW u \in Roots(h), NEW v \in Roots(h), NEW i,
                        Final(h, v) \in List, i \in DOMAIN Items(h, Final(h, v)),
                        Apart(h, u, Items(h, Final(h, v))[i])
                 PROVE  Apart(g, u, Items(g, Final(g, v))[i])
    OBVIOUS
  <2>2. Final(g, v) = Final(h, v) /\ Items(g, Final(g, v)) = Items(h, Final(h, v))
    BY <1>2, <1>8, <2>1
  <2>3. Items(g, Final(h, v))[i] \in Box => Last(g, Items(g, Final(h, v))[i]) = Last(h, Items(h, Final(h, v))[i])
    BY <1>1, <2>1, <2>2, ReleaseKeeps
  <2>4. u \in Box => Last(g, u) = Last(h, u)
    BY <1>1, ReleaseKeeps
  <2>5. QED
    BY <2>1, <2>2, <2>3, <2>4 DEF Apart
<1>10. \A v \in Roots(h) : \A i : Indexed(h, v, i) => i \in DOMAIN Items(h, Final(h, v))
  <2>1. SUFFICES ASSUME NEW v \in Roots(h), NEW i, Indexed(h, v, i) PROVE i \in DOMAIN Items(h, Final(h, v))
    OBVIOUS
  <2>2. Final(h, v) \in Variant /\ Exists(h, Final(h, v)) /\ Final(h, v) \in List
    <3>1. v \in Variant /\ Exists(h, v)
      BY <1>1 DEF Good, Typed, Live, Memory, Roots, Variant, Object
    <3>2. QED
      BY <1>1, <2>1, <3>1, FinalExists DEF Indexed
  <2>3. h.list[Final(h, v)] # Freed /\ h.list[Final(h, v)] \in Seq(Flat)
    BY <1>1, <2>2 DEF Exists, Good, Typed, Memory
  <2>4. QED
    BY <2>1, <2>3 DEF Indexed, Items
<1>11. At(g, it, c)
  <2>1. CASE c = <<>> /\ h.stack = <<>>
    BY <1>2, <2>1 DEF At
  <2>2. CASE AtPush(h, it, c)
    <3>1. AtPush(g, it, c)
      <4>1. PICK w \in Scalar :
              \/ \E x \in Variable :
                    /\ c = <<OpW(w), OpX("Set", x)>> /\ h.stack = <<>>
                    /\ Other(h, it, h.var[x])
              \/ \E x \in Variable :
                    /\ c = <<OpW(w), Op("NewList"), OpX("Set", x)>> /\ h.stack = <<>>
                    /\ Other(h, it, h.var[x]) /\ NoItem(h, h.var[x]) /\ FreeList(h)
              \/ \E v \in Variant, i \in Index :
                    /\ c = <<OpW(w), OpI("SetIndex", i)>> /\ h.stack = <<v>>
                    /\ Indexed(h, v, i)
                    /\ v \in Box => One(h, Final(h, v))
                    /\ v \in List => FreeList(h)
              \/ \E v \in Box :
                    /\ c = <<OpW(w), Op("CallAppend")>> /\ h.stack = <<v>>
                    /\ Extends(h, it, v)
        BY <2>2 DEF AtPush
      <4>2. ASSUME NEW v \in Variant, h.stack = <<v>>, NEW i, Indexed(h, v, i), v \in Box => One(h, Final(h, v))
            PROVE  v \in Box => One(g, Final(g, v))
        BY <1>2, <1>4, <4>2 DEF Indexed
      <4>3. QED
        BY <1>2, <1>3, <1>4, <1>7, <4>1, <4>2 DEF AtPush
    <3>2. QED
      BY <3>1 DEF At
  <2>3. CASE AtGet(h, it, c)
    <3>1. AtGet(g, it, c)
      BY <1>2, <1>3, <1>4, <2>3 DEF AtGet
    <3>2. QED
      BY <3>1 DEF At
  <2>4. CASE AtGetRef(h, it, c)
    <3>1. AtGetRef(g, it, c)
      BY <1>2, <1>3, <1>4, <1>6, <2>4 DEF AtGetRef
    <3>2. QED
      BY <3>1 DEF At
  <2>5. CASE AtGetUnique(h, it, c)
    <3>1. AtGetUnique(g, it, c)
      <4>1. \A x, y \in Variable : \A i :
               Indexed(h, h.var[y], i) /\ Apart(h, h.var[x], Items(h, Final(h, h.var[y]))[i])
                  => Apart(g, g.var[x], Items(g, Final(g, g.var[y]))[i])
        BY <1>2, <1>4, <1>9, <1>10 DEF Indexed
      <4>2. QED
        BY <1>2, <1>3, <1>4, <1>6, <2>5, <4>1 DEF AtGetUnique
    <3>2. QED
      BY <3>1 DEF At
  <2>6. CASE AtSet(h, it, c)
    <3>1. AtSet(g, it, c)
      BY <1>2, <1>3, <1>4, <2>6 DEF AtSet
    <3>2. QED
      BY <3>1 DEF At
  <2>7. CASE AtNewList(h, it, c)
    <3>1. AtNewList(g, it, c)
      BY <1>2, <1>3, <1>4, <2>7 DEF AtNewList
    <3>2. QED
      BY <3>1 DEF At
  <2>8. CASE AtGetIndex(h, it, c)
    <3>1. AtGetIndex(g, it, c)
      BY <1>2, <1>3, <1>4, <2>8 DEF AtGetIndex
    <3>2. QED
      BY <3>1 DEF At
  <2>9. CASE AtGetIndexRef(h, it, c)
    <3>1. AtGetIndexRef(g, it, c)
      <4>1. \A x \in Variable, v \in Roots(h) : \A i :
               Indexed(h, v, i) /\ Apart(h, h.var[x], Items(h, Final(h, v))[i])
                  => Apart(g, g.var[x], Items(g, Final(g, v))[i])
        BY <1>2, <1>4, <1>9, <1>10 DEF Indexed
      <4>2. QED
        BY <1>2, <1>3, <1>4, <2>9, <4>1 DEF AtGetIndexRef
    <3>2. QED
      BY <3>1 DEF At
  <2>10. CASE AtSetIndex(h, it, c)
    <3>1. AtSetIndex(g, it, c)
      BY <1>2, <1>3, <1>4, <2>10 DEF AtSetIndex, Indexed
    <3>2. QED
      BY <3>1 DEF At
  <2>11. CASE AtCallAppend(h, it, c)
    <3>1. AtCallAppend(g, it, c)
      BY <1>2, <1>4, <1>7, <2>11 DEF AtCallAppend
    <3>2. QED
      BY <3>1 DEF At
  <2>12. CASE AtNewIterator(h, it, c)
    <3>1. AtNewIterator(g, it, c)
      BY <1>2, <1>4, <2>12 DEF AtNewIterator
    <3>2. QED
      BY <3>1 DEF At
  <2>13. CASE AtNext(h, it, c)
    <3>1. Final(h, h.object) = it.list /\ it.list \in List
      BY <1>1, <2>13 DEF Follows, AtNext
    <3>2. g.list[it.list] = h.list[it.list] /\ Items(g, it.list) = Items(h, it.list)
      BY <1>2, <1>4, <3>1 DEF Items
    <3>3. AtNext(g, it, c)
      BY <1>2, <1>3, <2>13, <3>2 DEF AtNext
    <3>4. QED
      BY <3>3 DEF At
  <2>14. CASE AtCall(h, it, c)
    BY <1>2, <2>14 DEF At, AtCall
  <2>15. CASE AtPopLocal(h, it, c)
    BY <1>2, <2>15 DEF At, AtPopLocal
  <2>16. QED
    BY <1>1, <2>1, <2>2, <2>3, <2>4, <2>5, <2>6, <2>7, <2>8, <2>9, <2>10, <2>11, <2>12, <2>13,
       <2>14, <2>15 DEF At
<1>12. QED
  BY <1>2, <1>5, <1>11 DEF Sound

------------------------------------------------------------------------------
(* Changes of one place. *)

\* The parts of a good heap, for the lemmas that need no more.
LEMMA GoodBoxes ==
    ASSUME NEW h, Good(h)
    PROVE  /\ h.box \in Boxes /\ Acyclic(h) /\ h \in Memory
           /\ h.var \in [Variable -> Variant] /\ h.box \in [Box -> Variant \cup {Freed}]
           /\ h.list \in [List -> Seq(Flat) \cup {Freed}] /\ h.stack \in Seq(Variant)
           /\ h.object \in {Null} \cup Box
BY DEF Good, Typed, Memory, Boxes

\* A list that exists has its items.
LEMMA ItemsOf ==
    ASSUME NEW h, Good(h), NEW l \in List
    PROVE  /\ h.list[l] # Freed => Items(h, l) = h.list[l] /\ Len(h.list[l]) \in 1..MaxLength
                                   /\ h.list[l] \in Seq(Flat)
           /\ h.list[l] = Freed => Items(h, l) = <<>>
BY GoodBoxes DEF Items, Good, Typed

\* Null, scalars, boxes and lists are of different kinds.
LEMMA Kinds ==
    /\ Freed \notin Variant /\ Freed \notin Box /\ Freed \notin List
    /\ Box \subseteq Variant /\ List \subseteq Variant /\ Scalar \subseteq Variant /\ Null \in Variant
    /\ \A b \in Box : b \notin List /\ b \notin Scalar /\ b # Null
    /\ \A l \in List : l \notin Box /\ l \notin Scalar /\ l # Null
    /\ \A w \in Scalar : w \notin Box /\ w \notin List
    /\ Null \notin Box /\ Null \notin List
    /\ Flat \subseteq Variant /\ \A v \in Flat : v \notin List
    /\ \A v \in Variant : v \notin List => v \in Flat
BY DistinctValues DEF Variant, Object, Flat

AllExist(h, s) == \A i \in DOMAIN s : Exists(h, s[i])

\* A change of the stack keeps a heap good.
LEMMA GoodStack ==
    ASSUME NEW h, Good(h), NEW s \in Seq(Variant), AllExist(h, s), NEW g, StackSet(h, g, s)
    PROVE  /\ Good(g)
           /\ g.var = h.var /\ g.box = h.box /\ g.list = h.list /\ g.stack = s /\ g.object = h.object
<1>1. h \in Memory
  BY GoodBoxes
<1>2. /\ g.var = h.var /\ g.box = h.box /\ g.list = h.list /\ g.stack = s /\ g.object = h.object
      /\ g \in Memory
  BY <1>1 DEF Memory, StackSet
<1>3. \A l : Items(g, l) = Items(h, l)
  BY <1>2 DEF Items
<1>4. \A v : Exists(g, v) = Exists(h, v)
  BY <1>2 DEF Exists
<1>5. Live(g)
  BY <1>2, <1>3, <1>4 DEF Good, Live, AllExist
<1>6. (\A v : Final(g, v) = Final(h, v)) /\ Acyclic(g)
  BY <1>2, SameBoxes DEF Good
<1>7. ItemsFlat(g)
  BY <1>3, <1>6 DEF Good, ItemsFlat
<1>8. Typed(g)
  BY <1>2 DEF Good, Typed
<1>9. QED
  BY <1>2, <1>5, <1>6, <1>7, <1>8 DEF Good

\* A variable that receives something that exists keeps a heap good.
LEMMA GoodVar ==
    ASSUME NEW h, Good(h), NEW x \in Variable, NEW v \in Variant, Exists(h, v),
           NEW g, VarSet(h, g, x, v)
    PROVE  /\ Good(g)
           /\ g.var = [h.var EXCEPT ![x] = v]
           /\ g.box = h.box /\ g.list = h.list /\ g.stack = h.stack /\ g.object = h.object
<1>1. h \in Memory
  BY GoodBoxes
<1>2. /\ g.var = [h.var EXCEPT ![x] = v]
      /\ g.box = h.box /\ g.list = h.list /\ g.stack = h.stack /\ g.object = h.object
      /\ g \in Memory
  BY <1>1 DEF Memory, VarSet
<1>3. \A l : Items(g, l) = Items(h, l)
  BY <1>2 DEF Items
<1>4. \A u : Exists(g, u) = Exists(h, u)
  BY <1>2 DEF Exists
<1>5. \A y \in Variable : g.var[y] = h.var[y] \/ g.var[y] = v
  BY <1>2, GoodBoxes
<1>6. Live(g)
  BY <1>2, <1>3, <1>4, <1>5 DEF Good, Live
<1>7. (\A u : Final(g, u) = Final(h, u)) /\ Acyclic(g)
  BY <1>2, SameBoxes DEF Good
<1>8. ItemsFlat(g)
  BY <1>3, <1>7 DEF Good, ItemsFlat
<1>9. Typed(g)
  BY <1>2 DEF Good, Typed
<1>10. QED
  BY <1>2, <1>6, <1>7, <1>8, <1>9 DEF Good

\* So does the iterator that receives its collection, or gives it up.
LEMMA GoodObject ==
    ASSUME NEW h, Good(h), NEW v \in {Null} \cup Box, Exists(h, v),
           NEW g, ObjectSet(h, g, v)
    PROVE  /\ Good(g)
           /\ g.var = h.var /\ g.box = h.box /\ g.list = h.list /\ g.stack = h.stack /\ g.object = v
<1>1. h \in Memory
  BY GoodBoxes
<1>2. /\ g.var = h.var /\ g.box = h.box /\ g.list = h.list /\ g.stack = h.stack /\ g.object = v
      /\ g \in Memory
  BY <1>1 DEF Memory, ObjectSet
<1>3. \A l : Items(g, l) = Items(h, l)
  BY <1>2 DEF Items
<1>4. \A u : Exists(g, u) = Exists(h, u)
  BY <1>2 DEF Exists
<1>5. Live(g)
  BY <1>2, <1>3, <1>4 DEF Good, Live
<1>6. (\A u : Final(g, u) = Final(h, u)) /\ Acyclic(g)
  BY <1>2, SameBoxes DEF Good
<1>7. ItemsFlat(g)
  BY <1>3, <1>6 DEF Good, ItemsFlat
<1>8. Typed(g)
  BY <1>2 DEF Good, Typed
<1>9. QED
  BY <1>2, <1>5, <1>6, <1>7, <1>8 DEF Good

\* s can be the items of a list.
Fine(h, s) ==
    /\ s \in Seq(Flat) /\ Len(s) \in 1..MaxLength
    /\ \A i \in DOMAIN s : Exists(h, s[i]) /\ Final(h, s[i]) \notin List

\* What is known of g, which is h but for the list l.
ListChanged(h, g, l, s) ==
    /\ Good(g)
    /\ g.list = [h.list EXCEPT ![l] = s] /\ g.list[l] = s /\ Items(g, l) = s
    /\ \A m \in List \ {l} : g.list[m] = h.list[m] /\ Items(g, m) = Items(h, m)
    /\ g.var = h.var /\ g.box = h.box /\ g.stack = h.stack /\ g.object = h.object

\* So does a list that receives other items, if no reference led to a list from them.
LEMMA GoodList ==
    ASSUME NEW h, Good(h), NEW l \in List, NEW s, Fine(h, s),
           NEW g, ListSet(h, g, l, s)
    PROVE  ListChanged(h, g, l, s)
<1>0. /\ s \in Seq(Flat) /\ Len(s) \in 1..MaxLength
      /\ \A i \in DOMAIN s : Exists(h, s[i]) /\ Final(h, s[i]) \notin List
  BY DEF Fine
<1>1. h \in Memory
  BY GoodBoxes
<1>2. /\ g.list = [h.list EXCEPT ![l] = s]
      /\ g.var = h.var /\ g.box = h.box /\ g.stack = h.stack /\ g.object = h.object
      /\ g \in Memory
  BY <1>0, <1>1 DEF Memory, ListSet
<1>3. s # Freed
  <2>1. s \in Seq(Variant)
    <3>1. \A i \in 1..Len(s) : s[i] \in Variant
      BY <1>0, Kinds
    <3>2. QED
      BY <1>0, <3>1
  <2>2. QED
    BY <2>1, DistinctValues
<1>4. g.list[l] = s /\ \A m \in List \ {l} : g.list[m] = h.list[m]
  BY <1>2, GoodBoxes
<1>5. Items(g, l) = s /\ \A m \in List \ {l} : Items(g, m) = Items(h, m)
  BY <1>3, <1>4 DEF Items
<1>6. \A u : Exists(h, u) => Exists(g, u)
  BY <1>2, <1>3, <1>4 DEF Exists
<1>7. (\A u : Final(g, u) = Final(h, u)) /\ Acyclic(g)
  BY <1>2, SameBoxes DEF Good
<1>8. Live(g)
  <2>1. \A m \in List : \A i \in DOMAIN Items(g, m) : Exists(g, Items(g, m)[i])
    <3>1. SUFFICES ASSUME NEW m \in List, NEW i \in DOMAIN Items(g, m) PROVE Exists(g, Items(g, m)[i])
      OBVIOUS
    <3>2. CASE m = l
      BY <1>0, <1>5, <1>6, <3>1, <3>2
    <3>3. CASE m # l
      BY <1>5, <1>6, <3>1, <3>3 DEF Good, Live
    <3>4. QED
      BY <3>2, <3>3
  <2>2. QED
    BY <1>2, <1>6, <2>1 DEF Good, Live
<1>9. ItemsFlat(g)
  <2>1. SUFFICES ASSUME NEW m \in List, NEW i \in DOMAIN Items(g, m)
                 PROVE  Final(g, Items(g, m)[i]) \notin List
    BY DEF ItemsFlat
  <2>2. CASE m = l
    BY <1>0, <1>5, <1>7, <2>1, <2>2
  <2>3. CASE m # l
    BY <1>5, <1>7, <2>1, <2>3 DEF Good, ItemsFlat
  <2>4. QED
    BY <2>2, <2>3
<1>10. Typed(g)
  BY <1>0, <1>2, <1>4 DEF Good, Typed
<1>11. QED
  BY <1>2, <1>4, <1>5, <1>7, <1>8, <1>9, <1>10 DEF Good, ListChanged

\* No item of a list leads to the box e.
NoItemEnds(h, e) ==
    \A l \in List : \A i \in DOMAIN Items(h, l) :
        Items(h, l)[i] \in Box => Last(h, Items(h, l)[i]) # e

\* A box at the end of chains is given the variant v.
LEMMA GoodBox ==
    ASSUME NEW h, Good(h), NEW e \in Box, h.box[e] \notin Box, NEW v \in Variant, Exists(h, v),
           v \in Box => Last(h, v) # e,
           Final(h, v) \in List => NoItemEnds(h, e),
           NEW g, BoxPut(h, g, e, v)
    PROVE  /\ Good(g)
           /\ g.box = [h.box EXCEPT ![e] = v]
           /\ g.var = h.var /\ g.list = h.list /\ g.stack = h.stack /\ g.object = h.object
           /\ \A l : Items(g, l) = Items(h, l)
           /\ \A b \in Box : Last(g, b) = IF Last(h, b) = e /\ v \in Box THEN Last(h, v) ELSE Last(h, b)
           /\ \A w : Final(g, w) = IF w \in Box /\ Last(h, w) = e THEN Final(h, v) ELSE Final(h, w)
<1>1. h \in Memory /\ h.box \in Boxes /\ Acyclic(h)
  BY GoodBoxes
<1>2. /\ g.box = [h.box EXCEPT ![e] = v]
      /\ g.var = h.var /\ g.list = h.list /\ g.stack = h.stack /\ g.object = h.object
      /\ g \in Memory
  BY <1>1 DEF Memory, BoxPut
<1>3. g.box \in Boxes /\ g.box[e] = v /\ \A b \in Box \ {e} : g.box[b] = h.box[b]
  BY <1>1, <1>2 DEF Boxes
<1>4. /\ Acyclic(g)
      /\ \A b \in Box : Last(g, b) = IF Last(h, b) = e /\ v \in Box THEN Last(h, v) ELSE Last(h, b)
  <2>1. BoxSet(h, g, e, v)
    BY <1>2 DEF BoxSet
  <2>2. QED
    BY <1>1, <2>1, SetBox
<1>5. \A w : Final(g, w) = IF w \in Box /\ Last(h, w) = e THEN Final(h, v) ELSE Final(h, w)
  <2>1. SUFFICES ASSUME NEW w
                 PROVE  Final(g, w) = IF w \in Box /\ Last(h, w) = e THEN Final(h, v) ELSE Final(h, w)
    OBVIOUS
  <2>2. CASE w \notin Box
    BY <2>2 DEF Final
  <2>3. CASE w \in Box /\ Last(h, w) # e
    <3>1. Last(g, w) = Last(h, w) /\ Last(h, w) \in Box
      BY <1>1, <1>4, <2>3, LastIs
    <3>2. QED
      BY <1>3, <2>3, <3>1 DEF Final
  <2>4. CASE w \in Box /\ Last(h, w) = e
    <3>1. CASE v \in Box
      <4>1. Last(g, w) = Last(h, v) /\ Last(h, v) \in Box /\ Last(h, v) # e
        BY <1>1, <1>4, <2>4, <3>1, LastIs
      <4>2. QED
        BY <1>3, <2>4, <3>1, <4>1 DEF Final
    <3>2. CASE v \notin Box
      BY <1>3, <1>4, <2>4, <3>2 DEF Final
    <3>3. QED
      BY <3>1, <3>2
  <2>5. QED
    BY <2>2, <2>3, <2>4
<1>6. \A l : Items(g, l) = Items(h, l)
  BY <1>2 DEF Items
<1>7. \A u : Exists(h, u) => Exists(g, u)
  BY <1>2, <1>3, Kinds DEF Exists
<1>8. Live(g)
  <2>1. \A b \in Box : Exists(g, g.box[b])
    BY <1>3, <1>7 DEF Good, Live
  <2>2. QED
    BY <1>2, <1>6, <1>7, <2>1 DEF Good, Live
<1>9. ItemsFlat(g)
  <2>1. SUFFICES ASSUME NEW l \in List, NEW i \in DOMAIN Items(h, l)
                 PROVE  Final(g, Items(h, l)[i]) \notin List
    BY <1>6 DEF ItemsFlat
  <2>2. Final(h, Items(h, l)[i]) \notin List
    BY DEF Good, ItemsFlat
  <2>3. QED
    BY <1>5, <2>2 DEF NoItemEnds
<1>10. Typed(g)
  BY <1>2 DEF Good, Typed
<1>11. QED
  BY <1>2, <1>4, <1>5, <1>6, <1>8, <1>9, <1>10 DEF Good

------------------------------------------------------------------------------
(* References: make_alias. *)

\* The chains of variants that exist do not end in a box that does not.
LEMMA LastExists ==
    ASSUME NEW h, Good(h), NEW c \in Box, h.box[c] = Freed, NEW w \in Box, Exists(h, w)
    PROVE  Last(h, w) # c
BY FinalExists, Kinds

\* An item exists and is no list, nor a reference to one.
LEMMA ItemExists ==
    ASSUME NEW h, Good(h), NEW l \in List, NEW i \in DOMAIN Items(h, l)
    PROVE  /\ Exists(h, Items(h, l)[i]) /\ Items(h, l)[i] \in Flat /\ Items(h, l)[i] \in Variant
           /\ Final(h, Items(h, l)[i]) \notin List
<1>1. h.list[l] # Freed
  BY ItemsOf
<1>2. Items(h, l) \in Seq(Flat)
  BY <1>1, ItemsOf
<1>3. Items(h, l)[i] \in Flat
  BY <1>2
<1>4. QED
  BY <1>3, Kinds DEF Good, Live, ItemsFlat

\* g is h with a new box c that holds u.
WithBox(h, g, c, u) ==
    /\ c \in Box /\ h.box[c] = Freed
    /\ Good(g)
    /\ g.box = [h.box EXCEPT ![c] = u]
    /\ \A b \in Box : Last(g, b) = Last(h, b)
    /\ Last(g, c) = c
    /\ Final(g, c) = u
    /\ \A w \in Variant : Exists(h, w) => Exists(g, w) /\ Final(g, w) = Final(h, w)

\* What a new box changes: nothing that resolve finds (Variant::make_alias).
LEMMA NewBoxIs ==
    ASSUME NEW h, Good(h), FreeBox(h), NEW u \in Variant, Exists(h, u), u \notin Box,
           NEW g, BoxPut(h, g, NewBox(h), u)
    PROVE  /\ WithBox(h, g, NewBox(h), u)
           /\ g.var = h.var /\ g.list = h.list /\ g.stack = h.stack /\ g.object = h.object
<1> DEFINE c == NewBox(h)
<1>1. c \in Box /\ h.box[c] = Freed
  BY DEF FreeBox, NewBox
<1> HIDE DEF c
<1>2. h.box[c] \notin Box /\ h.box \in Boxes /\ Acyclic(h)
  BY <1>1, Kinds, GoodBoxes
<1>3. NoItemEnds(h, c)
  BY <1>1, LastExists, ItemExists DEF NoItemEnds
<1>4. BoxPut(h, g, c, u)
  BY DEF c
<1>5. /\ Good(g)
      /\ g.box = [h.box EXCEPT ![c] = u]
      /\ g.var = h.var /\ g.list = h.list /\ g.stack = h.stack /\ g.object = h.object
      /\ \A b \in Box : Last(g, b) = Last(h, b)
      /\ \A w : Final(g, w) = IF w \in Box /\ Last(h, w) = c THEN Final(h, u) ELSE Final(h, w)
  BY <1>1, <1>2, <1>3, <1>4, GoodBox
<1>6. Last(h, c) = c
  BY <1>1, <1>2, LastNext
<1>7. Final(h, u) = u
  BY DEF Final
<1>8. \A w \in Variant : Exists(h, w) => Final(g, w) = Final(h, w)
  BY <1>1, <1>5, LastExists
<1>9. \A w \in Variant : Exists(h, w) => Exists(g, w)
  <2>1. g.box[c] = u /\ \A b \in Box : b # c => g.box[b] = h.box[b]
    BY <1>1, <1>2, <1>5 DEF Boxes
  <2>2. QED
    BY <1>5, <2>1, Kinds DEF Exists
<1>10. WithBox(h, g, c, u)
  BY <1>1, <1>5, <1>6, <1>7, <1>8, <1>9 DEF WithBox
<1>11. QED
  BY <1>5, <1>10 DEF c

\* The variable x becomes a reference.
LEMMA AliasVar ==
    ASSUME NEW h, Good(h), NEW x \in Variable, h.var[x] \notin Box => FreeBox(h),
           NEW g, g = make_alias(h, Var(x))
    PROVE  /\ h.var[x] \in Box => g = h
           /\ h.var[x] \notin Box =>
                 /\ WithBox(h, g, g.var[x], h.var[x])
                 /\ g.var = [h.var EXCEPT ![x] = g.var[x]]
                 /\ g.list = h.list /\ g.stack = h.stack /\ g.object = h.object
           /\ Good(g)
           /\ \A o \in List : One(h, o) => One(g, o)
<1>1. CASE h.var[x] \in Box
  <2>1. g = h
    BY <1>1, Gets DEF make_alias
  <2>2. QED
    BY <1>1, <2>1
<1>2. CASE h.var[x] \notin Box
  <2> DEFINE u == h.var[x]
             c == NewBox(h)
             k == [h EXCEPT !.box[c] = u]
  <2>1. u \in Variant /\ Exists(h, u)
    BY GoodBoxes DEF Good, Live
  <2>2. /\ WithBox(h, k, c, u)
        /\ k.var = h.var /\ k.list = h.list /\ k.stack = h.stack /\ k.object = h.object
    <3>1. BoxPut(h, k, c, u)
      BY DEF BoxPut
    <3> HIDE DEF u, c, k
    <3>2. QED
      BY <1>2, <2>1, <3>1, NewBoxIs DEF u, c
  <2>3. VarSet(k, g, x, c)
    <3>1. g = Put(k, Var(x), c)
      BY <1>2, Gets DEF make_alias
    <3> HIDE DEF k, c
    <3>2. QED
      BY <3>1, Puts
  <2> HIDE DEF k, c
  <2>4. c \in Box /\ c \in Variant /\ Good(k) /\ Exists(k, c) /\ h.box[c] = Freed
    <3>1. c \in Box /\ Good(k) /\ k.box = [h.box EXCEPT ![c] = u] /\ h.box[c] = Freed
      BY <2>2 DEF WithBox
    <3>2. k.box[c] = u
      BY <3>1, GoodBoxes
    <3>3. QED
      BY <2>1, <3>1, <3>2, Kinds DEF Exists
  <2>5. /\ Good(g)
        /\ g.var = [k.var EXCEPT ![x] = c]
        /\ g.box = k.box /\ g.list = k.list /\ g.stack = k.stack /\ g.object = k.object
    BY <2>3, <2>4, GoodVar
  <2>6. g.var[x] = c /\ g.var = [h.var EXCEPT ![x] = c] /\ \A y \in Variable : y # x => g.var[y] = h.var[y]
    BY <2>2, <2>5, GoodBoxes
  <2>7. WithBox(h, g, c, u)
    <3>1. /\ \A v : Last(g, v) = Last(k, v)
          /\ \A v : Final(g, v) = Final(k, v)
      BY <2>5, SameBoxes
    <3>2. \A v : Exists(k, v) => Exists(g, v)
      BY <2>5 DEF Exists
    <3>3. QED
      BY <2>2, <2>5, <3>1, <3>2 DEF WithBox
  <2>8. ASSUME NEW o \in List, One(h, o) PROVE One(g, o)
    <3>1. PICK p : Held(h, o) \subseteq {p}
      BY <2>8 DEF One
    <3>2. h \in Memory /\ g \in Memory
      BY <2>5, GoodBoxes
    <3>3. g.box = [h.box EXCEPT ![c] = u]
      BY <2>2, <2>5 DEF WithBox
    <3>4. g.box[c] = u /\ \A b \in Box : b # c => g.box[b] = h.box[b]
      BY <2>4, <3>3, GoodBoxes
    <3>5. CASE u = o
      <4>1. Var(x) \in Held(h, o)
        BY <3>2, <3>5, HeldIs
      <4>2. Held(g, o) \subseteq {InBox(c)}
        <5>1. SUFFICES ASSUME NEW q \in Held(g, o), q # InBox(c) PROVE FALSE
          OBVIOUS
        <5>2. \/ \E y \in Variable : q = Var(y) /\ g.var[y] = o
              \/ \E b \in Box : q = InBox(b) /\ g.box[b] = o
              \/ \E i \in DOMAIN g.stack : q = Stack(i) /\ g.stack[i] = o
          BY <3>2, <5>1, HeldIs
        <5>3. CASE \E y \in Variable : q = Var(y) /\ g.var[y] = o
          <6>1. PICK y \in Variable : q = Var(y) /\ g.var[y] = o
            BY <5>3
          <6>2. y # x /\ h.var[y] = o
            BY <2>4, <2>6, <6>1, Kinds
          <6>3. q \in Held(h, o) /\ q # Var(x)
            BY <3>2, <6>1, <6>2, HeldIs, OtherPlaces
          <6>4. QED
            BY <3>1, <4>1, <6>3
        <5>4. CASE \E b \in Box : q = InBox(b) /\ g.box[b] = o
          <6>1. PICK b \in Box : q = InBox(b) /\ g.box[b] = o
            BY <5>4
          <6>2. b # c /\ h.box[b] = o
            BY <3>4, <5>1, <6>1
          <6>3. q \in Held(h, o) /\ q # Var(x)
            BY <3>2, <6>1, <6>2, HeldIs, OtherPlaces
          <6>4. QED
            BY <3>1, <4>1, <6>3
        <5>5. CASE \E i \in DOMAIN g.stack : q = Stack(i) /\ g.stack[i] = o
          <6>1. q \in Held(h, o) /\ q # Var(x)
            <7>1. g.stack = h.stack
              BY <2>2, <2>5
            <7>2. QED
              BY <3>2, <5>5, <7>1, HeldIs DEF Stack, Var
          <6>2. QED
            BY <3>1, <4>1, <6>1
        <5>6. QED
          BY <5>2, <5>3, <5>4, <5>5
      <4>3. QED
        BY <4>2 DEF One
    <3>6. CASE u # o
      <4>1. \A y \in Variable : g.var[y] = o => h.var[y] = o
        BY <2>4, <2>6, Kinds
      <4>2. \A b \in Box : g.box[b] = o => h.box[b] = o
        BY <3>4, <3>6
      <4>3. g.stack = h.stack
        BY <2>2, <2>5
      <4>4. \A q : q \in Held(g, o) => q \in Held(h, o)
        BY <3>2, <4>1, <4>2, <4>3, HeldIs
      <4>5. QED
        BY <3>1, <4>4 DEF One
    <3>7. QED
      BY <3>5, <3>6
  <2>9. QED
    BY <1>2, <2>2, <2>5, <2>6, <2>7, <2>8
<1>3. QED
  BY <1>1, <1>2

\* An item becomes a reference.
LEMMA AliasItem ==
    ASSUME NEW h, Good(h), NEW l \in List, NEW i \in DOMAIN Items(h, l),
           Items(h, l)[i] \notin Box => FreeBox(h),
           NEW g, g = make_alias(h, Item(l, i))
    PROVE  /\ Items(h, l)[i] \in Box => g = h
           /\ Items(h, l)[i] \notin Box =>
                 /\ WithBox(h, g, Items(g, l)[i], Items(h, l)[i])
                 /\ g.list = [h.list EXCEPT ![l] = [h.list[l] EXCEPT ![i] = Items(g, l)[i]]]
                 /\ g.var = h.var /\ g.stack = h.stack /\ g.object = h.object
           /\ Good(g)
           /\ Get(g, Item(l, i)) = Items(g, l)[i]
           /\ i \in DOMAIN Items(g, l)
<1>1. h.list[l] # Freed /\ Items(h, l) = h.list[l] /\ Len(h.list[l]) \in 1..MaxLength
      /\ h.list[l] \in Seq(Flat)
  BY ItemsOf
<1>2. Get(h, Item(l, i)) = Items(h, l)[i]
  BY <1>1, Gets
<1>3. CASE Items(h, l)[i] \in Box
  <2>1. g = h
    BY <1>2, <1>3 DEF make_alias
  <2>2. QED
    BY <1>2, <1>3, <2>1
<1>4. CASE Items(h, l)[i] \notin Box
  <2> DEFINE u == Items(h, l)[i]
             c == NewBox(h)
             k == [h EXCEPT !.box[c] = u]
             s == [h.list[l] EXCEPT ![i] = c]
  <2>1. u \in Variant /\ Exists(h, u) /\ Final(h, u) = u /\ u \notin List
    BY <1>4, ItemExists DEF Final
  <2>2. /\ WithBox(h, k, c, u)
        /\ k.var = h.var /\ k.list = h.list /\ k.stack = h.stack /\ k.object = h.object
    <3>1. BoxPut(h, k, c, u)
      BY DEF BoxPut
    <3> HIDE DEF u, c, k
    <3>2. QED
      BY <1>4, <2>1, <3>1, NewBoxIs DEF u, c
  <2>3. ListSet(k, g, l, s)
    <3>1. g = Put(k, Item(l, i), c)
      BY <1>2, <1>4 DEF make_alias
    <3>2. ItemSet(k, g, l, i, c)
      <4> HIDE DEF k, c, s
      <4>1. QED
        BY <3>1, Puts
    <3>3. k.list[l] = h.list[l]
      BY <2>2
    <3> HIDE DEF k, c
    <3>4. QED
      BY <3>2, <3>3 DEF ItemSet, ListSet
  <2>4. c \in Box /\ c \in Flat /\ Good(k) /\ Exists(k, c) /\ h.box[c] = Freed /\ Final(k, c) \notin List
    <3> HIDE DEF k, c, s
    <3>1. c \in Box /\ Good(k) /\ k.box = [h.box EXCEPT ![c] = u] /\ h.box[c] = Freed /\ Final(k, c) = u
      BY <2>2 DEF WithBox
    <3>2. k.box[c] = u
      BY <3>1, GoodBoxes
    <3>3. QED
      BY <2>1, <3>1, <3>2, Kinds DEF Exists, Flat
  <2> HIDE DEF k, c
  <2>5. s \in Seq(Flat) /\ Len(s) = Len(h.list[l]) /\ s[i] = c /\ DOMAIN s = DOMAIN h.list[l]
        /\ \A j \in DOMAIN s : s[j] = c \/ s[j] = h.list[l][j]
    BY <1>1, <2>4
  <2> HIDE DEF s
  <2>6. \A j \in DOMAIN s : Exists(k, s[j]) /\ Final(k, s[j]) \notin List
    <3>1. SUFFICES ASSUME NEW j \in DOMAIN s PROVE Exists(k, s[j]) /\ Final(k, s[j]) \notin List
      OBVIOUS
    <3>2. CASE s[j] = c
      BY <2>4, <3>2
    <3>3. CASE s[j] = h.list[l][j]
      <4>1. j \in DOMAIN Items(k, l) /\ Items(k, l)[j] = s[j]
        BY <1>1, <2>2, <2>5, <3>3 DEF Items
      <4>2. QED
        BY <2>4, <4>1, ItemExists
    <3>4. QED
      BY <2>5, <3>2, <3>3
  <2>7. /\ Good(g)
        /\ g.list = [k.list EXCEPT ![l] = s] /\ Items(g, l) = s /\ g.list[l] = s
        /\ g.var = k.var /\ g.box = k.box /\ g.stack = k.stack /\ g.object = k.object
    <3>1. Fine(k, s)
      BY <1>1, <2>5, <2>6 DEF Fine
    <3>2. QED
      BY <2>3, <2>4, <3>1, GoodList DEF ListChanged
  <2>8. WithBox(h, g, c, u)
    <3>1. /\ \A v : Last(g, v) = Last(k, v)
          /\ \A v : Final(g, v) = Final(k, v)
      BY <2>7, SameBoxes
    <3>2. \A v \in Variant : Exists(h, v) => Exists(g, v)
      <4>1. \A m \in List : h.list[m] # Freed => g.list[m] # Freed
        <5>1. h.list = k.list /\ s # Freed
          <6>1. i \in DOMAIN Items(g, l)
            BY <1>1, <2>5, <2>7
          <6>2. g.list[l] # Freed
            BY <2>7, <6>1, ItemsOf
          <6>3. QED
            BY <2>2, <2>7, <6>2
        <5>2. QED
          BY <2>7, <5>1, GoodBoxes
      <4>2. \A v \in Variant : Exists(h, v) => Exists(k, v)
        BY <2>2 DEF WithBox
      <4>3. QED
        BY <2>7, <4>1, <4>2 DEF Exists
    <3>3. QED
      BY <2>2, <2>7, <3>1, <3>2 DEF WithBox
  <2>9. Get(g, Item(l, i)) = Items(g, l)[i] /\ i \in DOMAIN Items(g, l) /\ Items(g, l)[i] = c
    <3>1. Get(g, Item(l, i)) = g.list[l][i]
      BY Gets
    <3>2. i \in DOMAIN s
      BY <1>1, <2>5
    <3>3. QED
      BY <2>5, <2>7, <3>1, <3>2
  <2>10. g.list = [h.list EXCEPT ![l] = [h.list[l] EXCEPT ![i] = Items(g, l)[i]]]
    BY <2>2, <2>7, <2>9 DEF s
  <2>11. QED
    BY <1>4, <2>2, <2>7, <2>8, <2>9, <2>10
<1>5. QED
  BY <1>3, <1>4

------------------------------------------------------------------------------
(* Lists of one's own: unshare. *)

\* k is h with a new list m whose items are those of l without references.
Cloned(h, k, l, m) ==
    /\ m \in List /\ h.list[m] = Freed
    /\ Good(k)
    /\ k.var = h.var /\ k.box = h.box /\ k.stack = h.stack /\ k.object = h.object
    /\ k.list[m] # Freed /\ Len(k.list[m]) = Len(h.list[l])
    /\ \A i \in DOMAIN Items(k, m) : Items(k, m)[i] \notin Box
    /\ \A n \in List \ {m} : k.list[n] = h.list[n] /\ Items(k, n) = Items(h, n)

\* A clone is a new list, which nothing holds, with items that are no references
\* (the copy constructor of List).
LEMMA CloneIs ==
    ASSUME NEW h, Good(h), FreeList(h), NEW l \in List, h.list[l] # Freed,
           NEW k, ListSet(h, k, NewListOf(h), Clone(h, l))
    PROVE  Cloned(h, k, l, NewListOf(h))
<1> DEFINE s == Clone(h, l)
           m == NewListOf(h)
<1>1. m \in List /\ h.list[m] = Freed
  BY DEF FreeList, NewListOf
<1>0. ListSet(h, k, m, s)
  OBVIOUS
<1> HIDE DEF m
<1>2. h.list[l] \in Seq(Flat) /\ Len(h.list[l]) \in 1..MaxLength /\ Items(h, l) = h.list[l]
  BY ItemsOf
<1>3. ASSUME NEW i \in DOMAIN h.list[l]
      PROVE  /\ Resolve(h, Item(l, i)) \in Flat /\ Resolve(h, Item(l, i)) \notin Box
             /\ Exists(h, Resolve(h, Item(l, i)))
             /\ Final(h, Resolve(h, Item(l, i))) \notin List
  <2> DEFINE v == h.list[l][i]
  <2>1. v \in Variant /\ Exists(h, v) /\ Final(h, v) \notin List
    BY <1>2, ItemExists
  <2>2. Resolve(h, Item(l, i)) = Final(h, v)
    <3>1. Resolve(h, Item(l, i)) = Final(h, Get(h, Item(l, i)))
      BY GoodBoxes, ResolveIs
    <3>2. QED
      BY <3>1, Gets
  <2>3. Final(h, v) \in Variant /\ Final(h, v) \notin Box /\ Exists(h, Final(h, v))
    <3> HIDE DEF v
    <3>1. QED
      BY <2>1, FinalExists
  <2>4. Final(h, Final(h, v)) = Final(h, v)
    BY <2>3 DEF Final
  <2> HIDE DEF v
  <2>5. Final(h, v) \in Flat
    BY <2>1, <2>3, Kinds
  <2>6. QED
    BY <2>1, <2>2, <2>3, <2>4, <2>5
<1>4. /\ s \in Seq(Flat) /\ Len(s) = Len(h.list[l]) /\ DOMAIN s = DOMAIN h.list[l]
      /\ \A i \in DOMAIN s : s[i] = Resolve(h, Item(l, i))
  <2>1. DOMAIN h.list[l] = 1..Len(h.list[l]) /\ Len(h.list[l]) \in Nat
    BY <1>2
  <2>2. s = [i \in 1..Len(h.list[l]) |-> Resolve(h, Item(l, i))]
    BY <2>1 DEF Clone
  <2>3. \A i \in 1..Len(h.list[l]) : Resolve(h, Item(l, i)) \in Flat
    BY <1>3, <2>1
  <2> HIDE DEF s
  <2>4. QED
    BY <2>1, <2>2, <2>3
<1> HIDE DEF s
<1>5. Fine(h, s)
  BY <1>2, <1>3, <1>4 DEF Fine
<1>7. /\ Good(k)
      /\ k.list[m] = s /\ Items(k, m) = s
      /\ \A n \in List \ {m} : k.list[n] = h.list[n] /\ Items(k, n) = Items(h, n)
      /\ k.var = h.var /\ k.box = h.box /\ k.stack = h.stack /\ k.object = h.object
  <2>1. ListChanged(h, k, m, s)
    BY <1>0, <1>1, <1>5, GoodList
  <2>2. QED
    BY <2>1 DEF ListChanged
<1>8. \A i \in DOMAIN Items(k, m) : Items(k, m)[i] \notin Box
  BY <1>3, <1>4, <1>7
<1>9. k.list[m] # Freed
  <2>1. 1 \in DOMAIN Items(k, m)
    BY <1>2, <1>4, <1>7
  <2>2. QED
    BY <1>1, <1>7, <2>1, ItemsOf
<1>10. QED
  BY <1>1, <1>4, <1>7, <1>8, <1>9 DEF Cloned, m

\* g is h, where a copy m of the list of v is held at the place that v leads to.
Unshared(h, g, v, m) ==
    /\ m \in List /\ h.list[m] = Freed
    /\ Good(g)
    /\ \A b \in Box : Last(g, b) = Last(h, b)
    /\ g.list[m] # Freed /\ Len(g.list[m]) = Len(h.list[Final(h, v)])
    /\ \A i \in DOMAIN Items(g, m) : Items(g, m)[i] \notin Box
    /\ \A n \in List \ {m} : g.list[n] = h.list[n] /\ Items(g, n) = Items(h, n)
    /\ \A w \in Variant : Exists(h, w) => Exists(g, w)
    /\ \A b \in Box : h.box[b] = Freed => g.box[b] = Freed
    /\ \A w \in Variant : Exists(h, w) =>
          Final(g, w) = IF v \in Box /\ w \in Box /\ Last(h, w) = Last(h, v) THEN m ELSE Final(h, w)
    /\ One(g, m)
    /\ g.object = h.object

\* Nothing holds an object that does not exist.
LEMMA NotHeld ==
    ASSUME NEW h, Good(h), NEW m \in List, h.list[m] = Freed
    PROVE  /\ \A x \in Variable : h.var[x] # m
           /\ \A b \in Box : h.box[b] # m
           /\ \A i \in DOMAIN h.stack : h.stack[i] # m
BY DEF Good, Live, Exists

\* A clone that takes the place of a shared list in the last box of a chain.
LEMMA UnshareBox ==
    ASSUME NEW h, Good(h), NEW v \in Box, Exists(h, v), Final(h, v) \in List,
           NEW m, NEW k, Cloned(h, k, Final(h, v), m),
           NEW g, BoxPut(k, g, Last(h, v), m)
    PROVE  Unshared(h, g, v, m) /\ g.var = h.var /\ g.stack = h.stack
<1> DEFINE e == Last(h, v)
<1>1. /\ m \in List /\ h.list[m] = Freed
      /\ Good(k)
      /\ k.var = h.var /\ k.box = h.box /\ k.stack = h.stack /\ k.object = h.object
      /\ k.list[m] # Freed /\ Len(k.list[m]) = Len(h.list[Final(h, v)])
      /\ \A i \in DOMAIN Items(k, m) : Items(k, m)[i] \notin Box
      /\ \A n \in List \ {m} : k.list[n] = h.list[n] /\ Items(k, n) = Items(h, n)
  BY DEF Cloned
<1>2. e \in Box /\ h.box[e] = Final(h, v)
  BY Kinds, FinalExists
<1>3. /\ \A w : Last(k, w) = Last(h, w)
      /\ \A w : Final(k, w) = Final(h, w)
  BY <1>1, SameBoxes
<1>4. k.box[e] \notin Box /\ m \in Variant /\ Exists(k, m) /\ m \notin Box /\ Final(k, m) = m
  BY <1>1, <1>2, Kinds DEF Exists, Final
<1>5. NoItemEnds(k, e)
  <2>1. SUFFICES ASSUME NEW l \in List, NEW i \in DOMAIN Items(k, l), Items(k, l)[i] \in Box,
                        Last(k, Items(k, l)[i]) = e
                 PROVE  FALSE
    BY DEF NoItemEnds
  <2>2. Final(k, Items(k, l)[i]) = k.box[e]
    BY <2>1 DEF Final
  <2>3. Final(k, Items(k, l)[i]) \notin List
    BY <1>1, ItemExists
  <2>4. QED
    BY <1>1, <1>2, <2>2, <2>3
<1> HIDE DEF e
<1>6. BoxPut(k, g, e, m)
  BY DEF e
<1>7. /\ Good(g)
      /\ g.box = [k.box EXCEPT ![e] = m]
      /\ g.var = k.var /\ g.list = k.list /\ g.stack = k.stack /\ g.object = k.object
      /\ \A l : Items(g, l) = Items(k, l)
      /\ \A b \in Box : Last(g, b) = IF Last(k, b) = e /\ m \in Box THEN Last(k, m) ELSE Last(k, b)
      /\ \A w : Final(g, w) = IF w \in Box /\ Last(k, w) = e THEN Final(k, m) ELSE Final(k, w)
  BY <1>1, <1>2, <1>4, <1>5, <1>6, GoodBox
<1>8. g.box[e] = m /\ \A b \in Box : b # e => g.box[b] = h.box[b]
  BY <1>1, <1>2, <1>7, GoodBoxes
<1>9. \A b \in Box : h.box[b] = Freed => g.box[b] = Freed
  BY <1>2, <1>8, Kinds
<1>10. \A w \in Variant : Exists(h, w) => Exists(g, w)
  <2>1. \A n \in List : h.list[n] # Freed => g.list[n] # Freed
    BY <1>1, <1>7
  <2>2. \A b \in Box : h.box[b] # Freed => g.box[b] # Freed
    BY <1>1, <1>8, Kinds
  <2>3. QED
    BY <2>1, <2>2 DEF Exists
<1>11. One(g, m)
  <2>1. h \in Memory /\ g \in Memory
    BY <1>7, GoodBoxes
  <2>2. /\ \A y \in Variable : g.var[y] # m
        /\ \A b \in Box : g.box[b] = m => b = e
        /\ \A i \in DOMAIN g.stack : g.stack[i] # m
    BY <1>1, <1>7, <1>8, NotHeld
  <2>4. Held(g, m) \subseteq {InBox(e)}
    <3>1. SUFFICES ASSUME NEW q \in Held(g, m) PROVE q = InBox(e)
      OBVIOUS
    <3>2. m \in List
      BY <1>1
    <3>3. QED
      BY <2>1, <2>2, <3>1, <3>2, HeldIs
  <2>3. QED
    BY <2>4 DEF One
<1>12. \A w \in Variant : Exists(h, w) =>
          Final(g, w) = IF v \in Box /\ w \in Box /\ Last(h, w) = Last(h, v) THEN m ELSE Final(h, w)
  BY <1>3, <1>4, <1>7 DEF e
<1>13. QED
  BY <1>1, <1>3, <1>4, <1>7, <1>9, <1>10, <1>11, <1>12 DEF Unshared

\* A place of its own is given the list.
LEMMA UnsharePlace ==
    ASSUME NEW h, Good(h), NEW v \in List, Exists(h, v),
           NEW m, NEW k, Cloned(h, k, v, m),
           NEW g, Good(g), g.box = k.box, g.list = k.list, g.object = k.object, One(g, m)
    PROVE  Unshared(h, g, v, m)
<1>1. /\ m \in List /\ h.list[m] = Freed
      /\ Good(k)
      /\ k.var = h.var /\ k.box = h.box /\ k.stack = h.stack /\ k.object = h.object
      /\ k.list[m] # Freed /\ Len(k.list[m]) = Len(h.list[v])
      /\ \A i \in DOMAIN Items(k, m) : Items(k, m)[i] \notin Box
      /\ \A n \in List \ {m} : k.list[n] = h.list[n] /\ Items(k, n) = Items(h, n)
  BY DEF Cloned
<1>2. /\ \A w : Last(g, w) = Last(h, w)
      /\ \A w : Final(g, w) = Final(h, w)
  BY <1>1, SameBoxes
<1>3. v \notin Box /\ Final(h, v) = v
  BY Kinds DEF Final
<1>4. \A l : Items(g, l) = Items(k, l)
  BY DEF Items
<1>5. \A w \in Variant : Exists(h, w) => Exists(g, w)
  BY <1>1 DEF Exists
<1>6. QED
  BY <1>1, <1>2, <1>3, <1>4, <1>5 DEF Unshared

\* Variant::unshare, called for a variable.
LEMMA UnshareVar ==
    ASSUME NEW h, Good(h), NEW x \in Variable, NEW v, v = h.var[x],
           Final(h, v) \in List /\ ~One(h, Final(h, v)) => FreeList(h),
           NEW g, g = unshare(h, Var(x))
    PROVE  /\ Final(h, v) \notin List \/ One(h, Final(h, v)) => g = h
           /\ Final(h, v) \in List /\ ~One(h, Final(h, v)) =>
                 \E m : /\ Unshared(h, g, v, m)
                        /\ g.stack = h.stack
                        /\ g.var = IF v \in Box THEN h.var ELSE [h.var EXCEPT ![x] = m]
<1> DEFINE l == Final(h, v)
           m == NewListOf(h)
           k == [h EXCEPT !.list[m] = Clone(h, l)]
<1>1. h \in Memory /\ h.box \in Boxes /\ Acyclic(h) /\ v \in Variant /\ Exists(h, v)
  BY GoodBoxes DEF Good, Live
<1>2. /\ Resolve(h, Var(x)) = l
      /\ Place(h, Var(x)) = IF v \in Box THEN InBox(Last(h, v)) ELSE Var(x)
  <2>1. /\ Resolve(h, Var(x)) = Final(h, Get(h, Var(x)))
        /\ Place(h, Var(x)) = IF Get(h, Var(x)) \in Box THEN InBox(Last(h, Get(h, Var(x)))) ELSE Var(x)
    BY <1>1, ResolveIs
  <2>2. Get(h, Var(x)) = v
    BY Gets
  <2>3. QED
    BY <2>1, <2>2
<1> HIDE DEF l
<1>3. CASE l \notin List \/ One(h, l)
  <2>1. g = h
    BY <1>1, <1>2, <1>3, CountIs DEF unshare
  <2>2. QED
    BY <1>3, <2>1 DEF l
<1>4. CASE l \in List /\ ~One(h, l)
  <2>1. g = Put(k, Place(h, Var(x)), m)
    BY <1>1, <1>2, <1>4, CountIs DEF unshare
  <2>2. Cloned(h, k, l, m)
    <3>1. ListSet(h, k, m, Clone(h, l))
      BY DEF ListSet
    <3>2. h.list[l] # Freed
      BY <1>1, <1>4, FinalExists DEF Exists, l
    <3>3. FreeList(h)
      BY <1>4 DEF l
    <3> HIDE DEF k
    <3>4. QED
      BY <1>4, <3>1, <3>2, <3>3, CloneIs DEF m
  <2> HIDE DEF k, m
  <2>3. CASE v \in Box
    <3>1. BoxPut(k, g, Last(h, v), m)
      BY <1>2, <2>1, <2>3, Puts
    <3>2. Unshared(h, g, v, m) /\ g.var = h.var /\ g.stack = h.stack
      BY <1>1, <1>4, <2>2, <2>3, <3>1, UnshareBox DEF l
    <3>3. QED
      BY <1>4, <2>3, <3>2 DEF l
  <2>4. CASE v \notin Box
    <3>1. VarSet(k, g, x, m)
      BY <1>2, <2>1, <2>4, Puts
    <3>2. l = v
      BY <2>4 DEF l, Final
    <3>3. /\ m \in List /\ h.list[m] = Freed /\ Good(k) /\ k.list[m] # Freed
          /\ k.var = h.var /\ k.box = h.box /\ k.stack = h.stack /\ k.object = h.object
      BY <2>2 DEF Cloned
    <3>4. m \in Variant /\ Exists(k, m)
      BY <3>3, Kinds DEF Exists
    <3>5. /\ Good(g)
          /\ g.var = [k.var EXCEPT ![x] = m]
          /\ g.box = k.box /\ g.list = k.list /\ g.stack = k.stack /\ g.object = k.object
      BY <3>1, <3>3, <3>4, GoodVar
    <3>6. One(g, m)
      <4>1. g \in Memory
        BY <3>5, GoodBoxes
      <4>2. \A y \in Variable : y # x => g.var[y] # m
        BY <3>3, <3>5, GoodBoxes, NotHeld
      <4>3. /\ \A b \in Box : g.box[b] # m
            /\ \A i \in DOMAIN g.stack : g.stack[i] # m
        BY <3>3, <3>5, NotHeld
      <4>5. Held(g, m) \subseteq {Var(x)}
        <5>1. SUFFICES ASSUME NEW q \in Held(g, m) PROVE q = Var(x)
          OBVIOUS
        <5>2. m \in List
          BY <3>3
        <5>3. QED
          BY <4>1, <4>2, <4>3, <5>1, <5>2, HeldIs
      <4>4. QED
        BY <4>5 DEF One
    <3>7. Unshared(h, g, v, m)
      BY <1>1, <1>4, <2>2, <3>2, <3>5, <3>6, UnsharePlace
    <3>8. QED
      BY <1>4, <2>4, <3>3, <3>5, <3>7 DEF l
  <2>5. QED
    BY <2>3, <2>4
<1>5. QED
  BY <1>3, <1>4

\* Variant::unshare, called for what is on the stack.
LEMMA UnshareStack ==
    ASSUME NEW h, Good(h), NEW j \in DOMAIN h.stack, NEW v, v = h.stack[j],
           Final(h, v) \in List /\ ~One(h, Final(h, v)) => FreeList(h),
           NEW g, g = unshare(h, Stack(j))
    PROVE  /\ Final(h, v) \notin List \/ One(h, Final(h, v)) => g = h
           /\ Final(h, v) \in List /\ ~One(h, Final(h, v)) =>
                 \E m : /\ Unshared(h, g, v, m)
                        /\ g.var = h.var
                        /\ g.stack = IF v \in Box THEN h.stack ELSE [h.stack EXCEPT ![j] = m]
<1> DEFINE l == Final(h, v)
           m == NewListOf(h)
           k == [h EXCEPT !.list[m] = Clone(h, l)]
<1>1. h \in Memory /\ h.box \in Boxes /\ Acyclic(h) /\ v \in Variant /\ Exists(h, v)
  BY GoodBoxes DEF Good, Live
<1>2. /\ Resolve(h, Stack(j)) = l
      /\ Place(h, Stack(j)) = IF v \in Box THEN InBox(Last(h, v)) ELSE Stack(j)
  <2>1. /\ Resolve(h, Stack(j)) = Final(h, Get(h, Stack(j)))
        /\ Place(h, Stack(j)) = IF Get(h, Stack(j)) \in Box THEN InBox(Last(h, Get(h, Stack(j)))) ELSE Stack(j)
    BY <1>1, ResolveIs
  <2>2. Get(h, Stack(j)) = v
    BY Gets
  <2>3. QED
    BY <2>1, <2>2
<1> HIDE DEF l
<1>3. CASE l \notin List \/ One(h, l)
  <2>1. g = h
    BY <1>1, <1>2, <1>3, CountIs DEF unshare
  <2>2. QED
    BY <1>3, <2>1 DEF l
<1>4. CASE l \in List /\ ~One(h, l)
  <2>1. g = Put(k, Place(h, Stack(j)), m)
    BY <1>1, <1>2, <1>4, CountIs DEF unshare
  <2>2. Cloned(h, k, l, m)
    <3>1. ListSet(h, k, m, Clone(h, l))
      BY DEF ListSet
    <3>2. h.list[l] # Freed
      BY <1>1, <1>4, FinalExists DEF Exists, l
    <3>3. FreeList(h)
      BY <1>4 DEF l
    <3> HIDE DEF k
    <3>4. QED
      BY <1>4, <3>1, <3>2, <3>3, CloneIs DEF m
  <2> HIDE DEF k, m
  <2>3. CASE v \in Box
    <3>1. BoxPut(k, g, Last(h, v), m)
      BY <1>2, <2>1, <2>3, Puts
    <3>2. Unshared(h, g, v, m) /\ g.var = h.var /\ g.stack = h.stack
      BY <1>1, <1>4, <2>2, <2>3, <3>1, UnshareBox DEF l
    <3>3. QED
      BY <1>4, <2>3, <3>2 DEF l
  <2>4. CASE v \notin Box
    <3>1. StackPut(k, g, j, m)
      BY <1>2, <2>1, <2>4, Puts
    <3>2. l = v
      BY <2>4 DEF l, Final
    <3>3. /\ m \in List /\ h.list[m] = Freed /\ Good(k) /\ k.list[m] # Freed
          /\ k.var = h.var /\ k.box = h.box /\ k.stack = h.stack /\ k.object = h.object
      BY <2>2 DEF Cloned
    <3>4. m \in Variant /\ Exists(k, m)
      BY <3>3, Kinds DEF Exists
    <3> DEFINE s == [h.stack EXCEPT ![j] = m]
    <3>5. /\ s \in Seq(Variant) /\ s[j] = m /\ DOMAIN s = DOMAIN h.stack
          /\ \A i \in DOMAIN s : i # j => s[i] = h.stack[i]
      BY <3>4, GoodBoxes
    <3>6. StackSet(k, g, s)
      BY <3>1, <3>3 DEF StackPut, StackSet
    <3> HIDE DEF s
    <3>7. AllExist(k, s)
      BY <3>3, <3>4, <3>5 DEF AllExist, Good, Live
    <3>8. /\ Good(g)
          /\ g.stack = s
          /\ g.var = k.var /\ g.box = k.box /\ g.list = k.list /\ g.object = k.object
      BY <3>3, <3>5, <3>6, <3>7, GoodStack
    <3>9. One(g, m)
      <4>1. g \in Memory
        BY <3>8, GoodBoxes
      <4>2. /\ \A y \in Variable : g.var[y] # m
            /\ \A b \in Box : g.box[b] # m
            /\ \A i \in DOMAIN g.stack : g.stack[i] = m => i = j
        BY <3>3, <3>5, <3>8, NotHeld
      <4>3. Held(g, m) \subseteq {Stack(j)}
        <5>1. SUFFICES ASSUME NEW q \in Held(g, m) PROVE q = Stack(j)
          OBVIOUS
        <5>2. m \in List
          BY <3>3
        <5>3. QED
          BY <4>1, <4>2, <5>1, <5>2, HeldIs
      <4>4. QED
        BY <4>3 DEF One
    <3>10. Unshared(h, g, v, m)
      BY <1>1, <1>4, <2>2, <3>2, <3>8, <3>9, UnsharePlace
    <3>11. QED
      BY <1>4, <2>4, <3>3, <3>8, <3>10 DEF l, s
  <2>5. QED
    BY <2>3, <2>4
<1>5. QED
  BY <1>3, <1>4

------------------------------------------------------------------------------
(* The stack. *)

\* The head and the tail of short sequences: the opcodes that remain.
LEMMA Tails ==
    /\ \A a : Head(<<a>>) = a /\ Tail(<<a>>) = <<>> /\ Len(<<a>>) = 1
    /\ \A a, b : Head(<<a, b>>) = a /\ Tail(<<a, b>>) = <<b>> /\ Len(<<a, b>>) = 2
    /\ \A a, b, c : Head(<<a, b, c>>) = a /\ Tail(<<a, b, c>>) = <<b, c>> /\ Len(<<a, b, c>>) = 3
<1>1. ASSUME NEW a PROVE Tail(<<a>>) = <<>>
  OBVIOUS
<1>2. ASSUME NEW a, NEW b PROVE Tail(<<a, b>>) = <<b>>
  OBVIOUS
<1>3. ASSUME NEW a, NEW b, NEW c PROVE Tail(<<a, b, c>>) = <<b, c>>
  OBVIOUS
<1>4. QED
  BY <1>1, <1>2, <1>3

\* A push on a short stack, and the pop of its only value.
LEMMA Stacks ==
    /\ \A a : Append(<<>>, a) = <<a>> /\ SubSeq(<<a>>, 1, 0) = <<>>
    /\ \A a, b : Append(<<a>>, b) = <<a, b>> /\ SubSeq(<<a, b>>, 1, 0) = <<>>
<1>1. ASSUME NEW a PROVE Append(<<>>, a) = <<a>> /\ SubSeq(<<a>>, 1, 0) = <<>>
  OBVIOUS
<1>2. ASSUME NEW a, NEW b PROVE Append(<<a>>, b) = <<a, b>> /\ SubSeq(<<a, b>>, 1, 0) = <<>>
  <2>0. <<a, b>> = Append(<<a>>, b)
    OBVIOUS
  <2>1. Append(<<a>>, b) = <<a, b>>
    BY <2>0
  <2> DEFINE S == {a, b}
  <2>2. <<a, b>> \in Seq(S)
    OBVIOUS
  <2>3. \A s \in Seq(S) : SubSeq(s, 1, 0) = <<>>
    OBVIOUS
  <2> HIDE DEF S
  <2>4. QED
    BY <2>1, <2>2, <2>3
<1>3. QED
  BY <1>1, <1>2

\* g is h but for the stack.
OtherStack(h, g) ==
    /\ Good(g)
    /\ g.var = h.var /\ g.box = h.box /\ g.list = h.list /\ g.object = h.object

\* Push changes nothing but the stack.
LEMMA PushIs ==
    ASSUME NEW h, Good(h), NEW v \in Variant, Exists(h, v)
    PROVE  /\ OtherStack(h, Push(h, v))
           /\ Push(h, v).stack = Append(h.stack, v)
           /\ \A o \in List : One(h, o) /\ o # v => One(Push(h, v), o)
<1> DEFINE g == Push(h, v)
           s == Append(h.stack, v)
<1>1. s \in Seq(Variant) /\ (\A i \in DOMAIN s : (i \in DOMAIN h.stack /\ s[i] = h.stack[i]) \/ s[i] = v)
  BY GoodBoxes
<1>2. StackSet(h, g, s)
  BY DEF StackSet, Push
<1> HIDE DEF s, g
<1>3. AllExist(h, s)
  BY <1>1 DEF AllExist, Good, Live
<1>4. /\ Good(g)
      /\ g.stack = s
      /\ g.var = h.var /\ g.box = h.box /\ g.list = h.list /\ g.object = h.object
  BY <1>1, <1>2, <1>3, GoodStack
<1>5. ASSUME NEW o \in List, One(h, o), o # v PROVE One(g, o)
  <2>1. h \in Memory /\ g \in Memory
    BY <1>4, GoodBoxes
  <2>2. \A i \in DOMAIN g.stack : g.stack[i] = o => i \in DOMAIN h.stack /\ h.stack[i] = o
    BY <1>1, <1>4, <1>5
  <2>3. Held(g, o) \subseteq Held(h, o)
    <3>1. SUFFICES ASSUME NEW q \in Held(g, o) PROVE q \in Held(h, o)
      OBVIOUS
    <3>2. QED
      BY <1>4, <2>1, <2>2, HeldIs
  <2>4. QED
    BY <1>5, <2>3 DEF One
<1>6. QED
  BY <1>4, <1>5 DEF OtherStack, s, g

\* Pop changes nothing but the stack.
LEMMA PopIs ==
    ASSUME NEW h, Good(h), NEW n \in Nat, n <= Len(h.stack)
    PROVE  /\ OtherStack(h, Pop(h, n))
           /\ Pop(h, n).stack = SubSeq(h.stack, 1, Len(h.stack) - n)
<1> DEFINE g == Pop(h, n)
           s == SubSeq(h.stack, 1, Len(h.stack) - n)
<1>1. s \in Seq(Variant) /\ (\A i \in DOMAIN s : i \in DOMAIN h.stack /\ s[i] = h.stack[i])
  BY GoodBoxes
<1>2. StackSet(h, g, s)
  BY DEF StackSet, Pop
<1> HIDE DEF s, g
<1>3. AllExist(h, s)
  BY <1>1 DEF AllExist, Good, Live
<1>4. /\ Good(g)
      /\ g.stack = s
      /\ g.var = h.var /\ g.box = h.box /\ g.list = h.list /\ g.object = h.object
  BY <1>1, <1>2, <1>3, GoodStack
<1>5. QED
  BY <1>4 DEF OtherStack, s, g

\* What the invariant says of variables and objects does not depend on the stack.
LEMMA SameFacts ==
    ASSUME NEW h, NEW g, g.box = h.box, g.list = h.list, g.object = h.object
    PROVE  /\ \A v : Final(g, v) = Final(h, v)
           /\ \A v : Last(g, v) = Last(h, v)
           /\ \A v : Exists(g, v) = Exists(h, v)
           /\ \A l : Items(g, l) = Items(h, l)
           /\ \A v, w : Apart(g, v, w) = Apart(h, v, w)
           /\ \A v : NoItem(g, v) = NoItem(h, v)
           /\ \A it, v : Other(g, it, v) = Other(h, it, v)
           /\ FreeBox(g) = FreeBox(h)
           /\ FreeList(g) = FreeList(h)
           /\ TwoFreeLists(g) = TwoFreeLists(h)
           /\ \A v, i : Indexed(g, v, i) = Indexed(h, v, i)
           /\ \A it, u, v : Fits(g, it, u, v) = Fits(h, it, u, v)
           /\ \A it : Follows(g, it) = Follows(h, it)
<1>1. /\ \A v : Final(g, v) = Final(h, v)
      /\ \A v : Last(g, v) = Last(h, v)
      /\ \A v, w : Apart(g, v, w) = Apart(h, v, w)
  BY SameBoxes
<1>2. /\ \A v : Exists(g, v) = Exists(h, v)
      /\ \A l : Items(g, l) = Items(h, l)
      /\ FreeBox(g) = FreeBox(h)
      /\ FreeList(g) = FreeList(h)
      /\ TwoFreeLists(g) = TwoFreeLists(h)
  BY DEF Exists, Items, FreeBox, FreeList, TwoFreeLists
<1>3. \A v : NoItem(g, v) = NoItem(h, v)
  BY <1>1, <1>2 DEF NoItem
<1>4. \A it, v : Other(g, it, v) = Other(h, it, v)
  BY <1>1 DEF Other
<1>5. \A v, i : Indexed(g, v, i) = Indexed(h, v, i)
  BY <1>1 DEF Indexed
<1>6. \A it, u, v : Fits(g, it, u, v) = Fits(h, it, u, v)
  BY <1>1, <1>3, <1>4 DEF Fits
<1>7. \A it : Follows(g, it) = Follows(h, it)
  BY <1>1 DEF Follows
<1>8. QED
  BY <1>1, <1>2, <1>3, <1>4, <1>5, <1>6, <1>7

------------------------------------------------------------------------------
(* The opcodes. *)

\* The next opcode tells which facts hold.
LEMMA NextOpcode ==
    ASSUME NEW h, NEW it, NEW c, At(h, it, c), c # <<>>
    PROVE  /\ Head(c).op = "Push" => AtPush(h, it, c)
           /\ Head(c).op = "Get" => AtGet(h, it, c)
           /\ Head(c).op = "GetRef" => AtGetRef(h, it, c)
           /\ Head(c).op = "GetUnique" => AtGetUnique(h, it, c)
           /\ Head(c).op = "Set" => AtSet(h, it, c)
           /\ Head(c).op = "NewList" => AtNewList(h, it, c)
           /\ Head(c).op = "GetIndex" => AtGetIndex(h, it, c)
           /\ Head(c).op = "GetIndexRef" => AtGetIndexRef(h, it, c)
           /\ Head(c).op = "SetIndex" => AtSetIndex(h, it, c)
           /\ Head(c).op = "CallAppend" => AtCallAppend(h, it, c)
           /\ Head(c).op = "NewIterator" => AtNewIterator(h, it, c)
           /\ Head(c).op \in {"ClearLocal", "NextValue"} => AtNext(h, it, c)
           /\ Head(c).op = "Call" => AtCall(h, it, c)
           /\ Head(c).op = "PopLocal" => AtPopLocal(h, it, c)
<1>1. AtPush(h, it, c) => Head(c).op = "Push"
  BY Tails DEF AtPush, OpW
<1>2. AtGet(h, it, c) => Head(c).op = "Get"
  BY Tails DEF AtGet, OpX
<1>3. AtGetRef(h, it, c) => Head(c).op = "GetRef"
  BY Tails DEF AtGetRef, OpX
<1>4. AtGetUnique(h, it, c) => Head(c).op = "GetUnique"
  BY Tails DEF AtGetUnique, OpX
<1>5. AtSet(h, it, c) => Head(c).op = "Set"
  BY Tails DEF AtSet, OpX
<1>6. AtNewList(h, it, c) => Head(c).op = "NewList"
  BY Tails DEF AtNewList, Op
<1>7. AtGetIndex(h, it, c) => Head(c).op = "GetIndex"
  BY Tails DEF AtGetIndex, OpI
<1>8. AtGetIndexRef(h, it, c) => Head(c).op = "GetIndexRef"
  BY Tails DEF AtGetIndexRef, OpI
<1>9. AtSetIndex(h, it, c) => Head(c).op = "SetIndex"
  BY Tails DEF AtSetIndex, OpI
<1>10. AtCallAppend(h, it, c) => Head(c).op = "CallAppend"
  BY Tails DEF AtCallAppend, Op
<1>11. AtNewIterator(h, it, c) => Head(c).op = "NewIterator"
  BY Tails DEF AtNewIterator, Op
<1>12. AtNext(h, it, c) => Head(c).op \in {"ClearLocal", "NextValue"}
  BY Tails DEF AtNext, OpX, Op
<1>13. AtCall(h, it, c) => Head(c).op = "Call"
  BY Tails DEF AtCall, Op
<1>14. AtPopLocal(h, it, c) => Head(c).op = "PopLocal"
  BY Tails DEF AtPopLocal, OpX
<1>15. QED
  BY <1>1, <1>2, <1>3, <1>4, <1>5, <1>6, <1>7, <1>8, <1>9, <1>10, <1>11, <1>12, <1>13, <1>14 DEF At

\* What has a value has it whatever the stack holds.
LEMMA Plainly ==
    ASSUME NEW h
    PROVE  /\ \A v : v \notin Box => Final(h, v) = v /\ (\A w : Apart(h, v, w) /\ Apart(h, w, v))
           /\ \A v : v \notin Box => NoItem(h, v) /\ (\A it : Other(h, it, v))
           /\ \A w \in Scalar \cup {Null} : w \in Variant /\ Exists(h, w) /\ w \notin Box /\ w \notin List
<1>1. \A v : v \notin Box => Final(h, v) = v /\ (\A w : Apart(h, v, w) /\ Apart(h, w, v))
  BY DEF Final, Apart
<1>2. \A v : v \notin Box => NoItem(h, v) /\ (\A it : Other(h, it, v))
  BY <1>1 DEF NoItem, Other
<1>3. \A w \in Scalar \cup {Null} : w \in Variant /\ Exists(h, w) /\ w \notin Box /\ w \notin List
  BY Kinds DEF Exists
<1>4. QED
  BY <1>1, <1>2, <1>3

\* A variant without a reference to a list can be given to any variable but the
\* collection of a loop.
LEMMA FitsIs ==
    ASSUME NEW h, NEW it, NEW u, NEW v, v \notin Box, Other(h, it, u), v \in List => NoItem(h, u)
    PROVE  Fits(h, it, u, v)
  BY Plainly DEF Fits

\* PushInteger and the like leave what the next opcode relies on.
LEMMA PushSound ==
    ASSUME NEW h, NEW it, NEW c, Sound(h, it, c), c # <<>>, Head(c).op = "Push"
    PROVE  Sound(Push(h, Head(c).w), it, Tail(c))
<1>1. Good(h) /\ Follows(h, it) /\ AtPush(h, it, c)
  BY NextOpcode DEF Sound
<1>2. PICK w \in Scalar :
        \/ \E x \in Variable :
              /\ c = <<OpW(w), OpX("Set", x)>> /\ h.stack = <<>>
              /\ Other(h, it, h.var[x])
        \/ \E x \in Variable :
              /\ c = <<OpW(w), Op("NewList"), OpX("Set", x)>> /\ h.stack = <<>>
              /\ Other(h, it, h.var[x]) /\ NoItem(h, h.var[x]) /\ FreeList(h)
        \/ \E v \in Variant, i \in Index :
              /\ c = <<OpW(w), OpI("SetIndex", i)>> /\ h.stack = <<v>>
              /\ Indexed(h, v, i)
              /\ v \in Box => One(h, Final(h, v))
              /\ v \in List => FreeList(h)
        \/ \E v \in Box :
              /\ c = <<OpW(w), Op("CallAppend")>> /\ h.stack = <<v>>
              /\ Extends(h, it, v)
  BY <1>1 DEF AtPush
<1>3. w \in Variant /\ Exists(h, w) /\ w \notin Box /\ w \notin List
  BY Plainly
<1>4. Head(c).w = w
  BY <1>2, Tails DEF OpW
<1>5. PICK g : g = Push(h, w)
  OBVIOUS
<1>6. OtherStack(h, g) /\ g.stack = Append(h.stack, w) /\ \A o \in List : One(h, o) => One(g, o)
  BY <1>1, <1>3, <1>5, PushIs
<1>7. /\ Good(g) /\ Follows(g, it)
      /\ g.var = h.var
      /\ FreeList(g) = FreeList(h)
      /\ g.list = h.list
      /\ \A u : NoItem(g, u) = NoItem(h, u) /\ Other(g, it, u) = Other(h, it, u) /\ Final(g, u) = Final(h, u)
      /\ \A u, i : Indexed(g, u, i) = Indexed(h, u, i)
  BY <1>1, <1>6, SameFacts DEF OtherStack
<1>8. At(g, it, Tail(c))
  <2>1. CASE \E x \in Variable :
              /\ c = <<OpW(w), OpX("Set", x)>> /\ h.stack = <<>>
              /\ Other(h, it, h.var[x])
    <3>1. PICK x \in Variable : /\ c = <<OpW(w), OpX("Set", x)>> /\ h.stack = <<>>
                                /\ Other(h, it, h.var[x])
      BY <2>1
    <3>2. Tail(c) = <<OpX("Set", x)>> /\ g.stack = <<w>>
      BY <1>6, <3>1, Tails, Stacks
    <3>3. Fits(g, it, g.var[x], w)
      BY <1>3, <1>7, <3>1, FitsIs
    <3>4. AtSet(g, it, Tail(c))
      BY <1>3, <3>2, <3>3 DEF AtSet
    <3>5. QED
      BY <3>4 DEF At
  <2>2. CASE \E x \in Variable :
              /\ c = <<OpW(w), Op("NewList"), OpX("Set", x)>> /\ h.stack = <<>>
              /\ Other(h, it, h.var[x]) /\ NoItem(h, h.var[x]) /\ FreeList(h)
    <3>1. PICK x \in Variable :
              /\ c = <<OpW(w), Op("NewList"), OpX("Set", x)>> /\ h.stack = <<>>
              /\ Other(h, it, h.var[x]) /\ NoItem(h, h.var[x]) /\ FreeList(h)
      BY <2>2
    <3>2. Tail(c) = <<Op("NewList"), OpX("Set", x)>> /\ g.stack = <<w>>
      BY <1>6, <3>1, Tails, Stacks
    <3>3. Fits(g, it, g.var[x], w)
      BY <1>3, <1>7, <3>1, FitsIs
    <3>4. Final(g, w) \notin List
      BY <1>3, Plainly
    <3>5. AtNewList(g, it, Tail(c))
      BY <1>7, <3>1, <3>2, <3>3, <3>4 DEF AtNewList
    <3>6. QED
      BY <3>5 DEF At
  <2>3. CASE \E v \in Variant, i \in Index :
              /\ c = <<OpW(w), OpI("SetIndex", i)>> /\ h.stack = <<v>>
              /\ Indexed(h, v, i)
              /\ v \in Box => One(h, Final(h, v))
              /\ v \in List => FreeList(h)
    <3>1. PICK v \in Variant, i \in Index :
              /\ c = <<OpW(w), OpI("SetIndex", i)>> /\ h.stack = <<v>>
              /\ Indexed(h, v, i)
              /\ v \in Box => One(h, Final(h, v))
              /\ v \in List => FreeList(h)
      BY <2>3
    <3>2. Tail(c) = <<OpI("SetIndex", i)>> /\ g.stack = <<v, w>>
      BY <1>6, <3>1, Tails, Stacks
    <3>3. Final(h, v) \in List
      BY <3>1 DEF Indexed
    <3>4. /\ Indexed(g, v, i)
          /\ v \in Box => One(g, Final(g, v))
          /\ v \in List => FreeList(g)
      BY <1>6, <1>7, <3>1, <3>3
    <3>5. AtSetIndex(g, it, Tail(c))
      BY <3>2, <3>4 DEF AtSetIndex
    <3>6. QED
      BY <3>5 DEF At
  <2>4. CASE \E v \in Box :
              /\ c = <<OpW(w), Op("CallAppend")>> /\ h.stack = <<v>>
              /\ Extends(h, it, v)
    <3>1. PICK v \in Box : /\ c = <<OpW(w), Op("CallAppend")>> /\ h.stack = <<v>>
                           /\ Extends(h, it, v)
      BY <2>4
    <3>2. Tail(c) = <<Op("CallAppend")>> /\ g.stack = <<v, w>>
      BY <1>6, <3>1, Tails, Stacks
    <3>3. Own(g, it, v)
      <4>1. it.open => it.list \in List
        BY <1>1 DEF Follows
      <4>2. CASE Other(h, it, v)
        BY <1>7, <4>2 DEF Own
      <4>3. CASE ~Other(h, it, v) /\ One(h, it.list)
        BY <1>6, <4>1, <4>3 DEF Own, Other
      <4>4. QED
        BY <3>1, <4>2, <4>3 DEF Extends, Own
    <3>4. Extends(g, it, v)
      BY <1>6, <1>7, <3>1, <3>3 DEF Extends
    <3>5. AtCallAppend(g, it, Tail(c))
      BY <3>2, <3>4 DEF AtCallAppend
    <3>6. QED
      BY <3>5 DEF At
  <2>5. QED
    BY <1>2, <2>1, <2>2, <2>3, <2>4
<1>9. QED
  BY <1>4, <1>5, <1>7, <1>8 DEF Sound

\* GetGlobal and GetLocal leave what the next opcode relies on.
LEMMA GetSound ==
    ASSUME NEW h, NEW it, NEW c, Sound(h, it, c), c # <<>>, Head(c).op = "Get"
    PROVE  Sound(Push(h, Resolve(h, Var(Head(c).x))), it, Tail(c))
<1>1. Good(h) /\ Follows(h, it) /\ AtGet(h, it, c)
  BY NextOpcode DEF Sound
<1>2. PICK x, y \in Variable :
        \/ /\ c = <<OpX("Get", y), OpX("Set", x)>> /\ h.stack = <<>>
           /\ Other(h, it, h.var[x])
           /\ Final(h, h.var[y]) \in List => NoItem(h, h.var[x])
        \/ \E i \in Index :
              /\ c = <<OpX("Get", y), OpI("GetIndex", i), OpX("Set", x)>> /\ h.stack = <<>>
              /\ Other(h, it, h.var[x]) /\ Indexed(h, h.var[y], i)
  BY <1>1 DEF AtGet
<1>3. Head(c).x = y
  BY <1>2, Tails DEF OpX
<1>4. PICK u : u = Final(h, h.var[y])
  OBVIOUS
<1>5. Resolve(h, Var(y)) = u
  BY <1>1, <1>4, GoodBoxes, ResolveIs, Gets
<1>6. h.var[y] \in Variant /\ Exists(h, h.var[y])
  BY <1>1, GoodBoxes DEF Good, Live
<1>7. u \in Variant /\ u \notin Box /\ Exists(h, u)
  BY <1>1, <1>4, <1>6, FinalExists
<1>8. PICK g : g = Push(h, u)
  OBVIOUS
<1>9. OtherStack(h, g) /\ g.stack = Append(h.stack, u)
  BY <1>1, <1>7, <1>8, PushIs
<1>10. /\ Good(g) /\ Follows(g, it)
       /\ g.var = h.var
       /\ \A v : NoItem(g, v) = NoItem(h, v) /\ Other(g, it, v) = Other(h, it, v)
       /\ \A v, i : Indexed(g, v, i) = Indexed(h, v, i)
  BY <1>1, <1>9, SameFacts DEF OtherStack
<1>11. At(g, it, Tail(c))
  <2>1. CASE /\ c = <<OpX("Get", y), OpX("Set", x)>> /\ h.stack = <<>>
             /\ Other(h, it, h.var[x])
             /\ Final(h, h.var[y]) \in List => NoItem(h, h.var[x])
    <3>1. Tail(c) = <<OpX("Set", x)>> /\ g.stack = <<u>>
      BY <1>9, <2>1, Tails, Stacks
    <3>2. Fits(g, it, g.var[x], u)
      BY <1>4, <1>7, <1>10, <2>1, FitsIs
    <3>3. AtSet(g, it, Tail(c))
      BY <1>7, <3>1, <3>2 DEF AtSet
    <3>4. QED
      BY <3>3 DEF At
  <2>2. CASE \E i \in Index :
              /\ c = <<OpX("Get", y), OpI("GetIndex", i), OpX("Set", x)>> /\ h.stack = <<>>
              /\ Other(h, it, h.var[x]) /\ Indexed(h, h.var[y], i)
    <3>1. PICK i \in Index :
              /\ c = <<OpX("Get", y), OpI("GetIndex", i), OpX("Set", x)>> /\ h.stack = <<>>
              /\ Other(h, it, h.var[x]) /\ Indexed(h, h.var[y], i)
      BY <2>2
    <3>2. Tail(c) = <<OpI("GetIndex", i), OpX("Set", x)>> /\ g.stack = <<u>>
      BY <1>9, <3>1, Tails, Stacks
    <3>3. u \in List /\ Final(h, u) = u
      BY <1>4, <1>7, <3>1, Plainly DEF Indexed
    <3>4. Indexed(h, u, i)
      BY <1>4, <3>1, <3>3 DEF Indexed
    <3>5. AtGetIndex(g, it, Tail(c))
      BY <1>10, <3>1, <3>2, <3>3, <3>4 DEF AtGetIndex
    <3>6. QED
      BY <3>5 DEF At
  <2>3. QED
    BY <1>2, <2>1, <2>2
<1>12. QED
  BY <1>3, <1>5, <1>8, <1>10, <1>11 DEF Sound

\* The pop of the only value on the stack.
LEMMA PopOne ==
    ASSUME NEW h, Good(h), NEW v, h.stack = <<v>>
    PROVE  OtherStack(h, Pop(h, 1)) /\ Pop(h, 1).stack = <<>>
<1>1. Len(h.stack) = 1 /\ 1 \in Nat /\ 1 <= Len(h.stack)
  OBVIOUS
<1>2. /\ OtherStack(h, Pop(h, 1))
      /\ Pop(h, 1).stack = SubSeq(h.stack, 1, Len(h.stack) - 1)
  BY <1>1, PopIs, Zenon
<1>3. SubSeq(h.stack, 1, Len(h.stack) - 1) = <<>>
  <2>1. Len(h.stack) - 1 = 0
    BY <1>1
  <2>2. SubSeq(h.stack, 1, 0) = <<>>
    BY Stacks
  <2>3. QED
    BY <2>1, <2>2
<1>4. QED
  BY <1>2, <1>3

\* A statement ends.
LEMMA Ends ==
    ASSUME NEW h, NEW it, Good(h), Follows(h, it), h.stack = <<>>
    PROVE  Sound(h, it, <<>>)
  BY DEF Sound, At

\* The variable x, or the box that it leads to, receives v.
LEMMA AssignVar ==
    ASSUME NEW h, NEW it, Good(h), Follows(h, it), NEW x \in Variable, NEW v \in Variant,
           Exists(h, v), Fits(h, it, h.var[x], v)
    PROVE  /\ Good(assign(h, Var(x), v))
           /\ Follows(assign(h, Var(x), v), it)
           /\ assign(h, Var(x), v).stack = h.stack
<1>1. PICK u : u = h.var[x]
  OBVIOUS
<1>2. u \in Variant /\ Exists(h, u)
  BY <1>1, GoodBoxes DEF Good, Live
<1>3. Place(h, Var(x)) = IF u \in Box THEN InBox(Last(h, u)) ELSE Var(x)
  BY <1>1, GoodBoxes, ResolveIs, Gets
<1>4. CASE u \notin Box
  <2>1. PICK g : g = assign(h, Var(x), v)
    OBVIOUS
  <2>2. VarSet(h, g, x, v)
    BY <1>3, <1>4, <2>1, Puts DEF assign
  <2>3. /\ Good(g)
        /\ g.var = [h.var EXCEPT ![x] = v]
        /\ g.box = h.box /\ g.list = h.list /\ g.stack = h.stack /\ g.object = h.object
    BY <2>2, GoodVar
  <2>4. Follows(g, it)
    BY <2>3, SameFacts
  <2>5. QED
    BY <2>1, <2>3, <2>4
<1>5. CASE u \in Box
  <2>1. PICK e : e = Last(h, u)
    OBVIOUS
  <2>2. e \in Box /\ h.box[e] \notin Box
    BY <1>5, <2>1, GoodBoxes, LastIs
  <2>3. PICK g : g = assign(h, Var(x), v)
    OBVIOUS
  <2>4. BoxPut(h, g, e, v)
    BY <1>3, <1>5, <2>1, <2>3, Puts DEF assign
  <2>5. v \in Box => Last(h, v) # e
    BY <1>1, <1>5, <2>1 DEF Fits, Apart
  <2>6. Final(h, v) \in List => NoItemEnds(h, e)
    BY <1>1, <1>5, <2>1 DEF Fits, NoItem, NoItemEnds, Apart
  <2>7. /\ Good(g)
        /\ g.box = [h.box EXCEPT ![e] = v]
        /\ g.var = h.var /\ g.list = h.list /\ g.stack = h.stack /\ g.object = h.object
        /\ \A l : Items(g, l) = Items(h, l)
        /\ \A b \in Box : Last(g, b) = IF Last(h, b) = e /\ v \in Box THEN Last(h, v) ELSE Last(h, b)
        /\ \A w : Final(g, w) = IF w \in Box /\ Last(h, w) = e THEN Final(h, v) ELSE Final(h, w)
    BY <2>2, <2>4, <2>5, <2>6, GoodBox
  <2>8. it.open => ~(h.object \in Box /\ Last(h, h.object) = e)
    BY <1>1, <1>5, <2>1 DEF Fits, Other, Apart
  <2>9. Follows(g, it)
    BY <2>7, <2>8 DEF Follows
  <2>10. QED
    BY <2>3, <2>7, <2>9
<1>6. QED
  BY <1>4, <1>5

\* SetGlobal, SetLocal and DefineLocal make no circle of boxes, put no list in an
\* item, and leave the collection of the loop alone.
LEMMA SetSound ==
    ASSUME NEW h, NEW it, NEW c, Sound(h, it, c), c # <<>>, Head(c).op = "Set"
    PROVE  Sound(assign(Pop(h, 1), Var(Head(c).x), Top(h)), it, Tail(c))
<1>1. Good(h) /\ Follows(h, it) /\ AtSet(h, it, c)
  BY NextOpcode DEF Sound
<1>2. PICK x \in Variable, v \in Variant :
        c = <<OpX("Set", x)>> /\ h.stack = <<v>> /\ Fits(h, it, h.var[x], v)
  BY <1>1 DEF AtSet
<1>3. Head(c).x = x /\ Tail(c) = <<>>
  BY <1>2, Tails DEF OpX
<1>4. Top(h) = v
  BY <1>2 DEF Top
<1>5. Exists(h, v)
  BY <1>1, <1>2 DEF Good, Live
<1>6. PICK g : g = Pop(h, 1)
  OBVIOUS
<1>7. OtherStack(h, g) /\ g.stack = <<>>
  BY <1>1, <1>2, <1>6, PopOne
<1>8. /\ Good(g) /\ Follows(g, it)
      /\ g.var = h.var
      /\ Fits(g, it, g.var[x], v)
      /\ Exists(g, v)
  BY <1>1, <1>2, <1>5, <1>7, SameFacts DEF OtherStack
<1>9. /\ Good(assign(g, Var(x), v))
      /\ Follows(assign(g, Var(x), v), it)
      /\ assign(g, Var(x), v).stack = <<>>
  BY <1>7, <1>8, AssignVar
<1>10. QED
  BY <1>3, <1>4, <1>6, <1>9, Ends

\* ClearLocal leaves what the next opcode relies on.
LEMMA ClearSound ==
    ASSUME NEW h, NEW it, NEW c, Sound(h, it, c), c # <<>>, Head(c).op = "ClearLocal"
    PROVE  Sound(Put(h, Var(Head(c).x), Null), it, Tail(c))
<1>1. Good(h) /\ Follows(h, it) /\ AtNext(h, it, c)
  BY NextOpcode DEF Sound
<1>2. c = <<OpX("ClearLocal", Each), Op("NextValue"), OpX("Set", Each)>>
  <2>1. c # <<Op("NextValue"), OpX("Set", Each)>>
    BY Tails DEF Op
  <2>2. QED
    BY <1>1, <2>1 DEF AtNext
<1>3. Head(c).x = Each /\ Tail(c) = <<Op("NextValue"), OpX("Set", Each)>>
  BY <1>2, Tails DEF OpX
<1>4. Each \in Variable
  BY DEF Variable
<1>5. PICK g : g = Put(h, Var(Each), Null)
  OBVIOUS
<1>6. VarSet(h, g, Each, Null)
  BY <1>5, Puts
<1>7. /\ Good(g)
      /\ g.var = [h.var EXCEPT ![Each] = Null]
      /\ g.box = h.box /\ g.list = h.list /\ g.stack = h.stack /\ g.object = h.object
  <2>1. Null \in Variant /\ Exists(h, Null)
    BY Plainly
  <2>2. QED
    BY <1>1, <1>4, <1>6, <2>1, GoodVar
<1>8. Follows(g, it) /\ Items(g, it.list) = Items(h, it.list) /\ FreeBox(g) = FreeBox(h)
  BY <1>1, <1>7, SameFacts
<1>9. g.var[Each] = Null
  BY <1>1, <1>4, <1>7, GoodBoxes
<1>10. AtNext(g, it, Tail(c))
  BY <1>1, <1>3, <1>7, <1>8, <1>9 DEF AtNext
<1>11. QED
  BY <1>3, <1>5, <1>7, <1>8, <1>10 DEF Sound, At

\* NewList makes a list that nothing else holds, of an item that is no list.
LEMMA NewListSound ==
    ASSUME NEW h, NEW it, NEW c, Sound(h, it, c), c # <<>>, Head(c).op = "NewList",
           NEW l, l = NewListOf(h)
    PROVE  Sound(Push(Pop([h EXCEPT !.list[l] = <<Top(h)>>], 1), l), it, Tail(c))
<1>1. Good(h) /\ Follows(h, it) /\ AtNewList(h, it, c)
  BY NextOpcode DEF Sound
<1>2. PICK x \in Variable, v \in Scalar \cup Box :
        /\ c = <<Op("NewList"), OpX("Set", x)>> /\ h.stack = <<v>>
        /\ Fits(h, it, h.var[x], v)
        /\ Final(h, v) \notin List
        /\ NoItem(h, h.var[x])
        /\ FreeList(h)
  BY <1>1 DEF AtNewList
<1>3. Tail(c) = <<OpX("Set", x)>>
  BY <1>2, Tails
<1>4. Top(h) = v
  BY <1>2 DEF Top
<1>5. Exists(h, v)
  BY <1>1, <1>2 DEF Good, Live
<1>6. l \in List /\ h.list[l] = Freed
  BY <1>2 DEF FreeList, NewListOf
<1>7. Fine(h, <<v>>)
  <2>1. <<v>> \in Seq(Flat) /\ Len(<<v>>) = 1 /\ \A i \in DOMAIN <<v>> : <<v>>[i] = v
    BY <1>2 DEF Flat
  <2>2. QED
    BY <1>2, <1>5, <2>1, BoundIsPositive DEF Fine
<1>8. PICK k : k = [h EXCEPT !.list[l] = <<v>>]
  OBVIOUS
<1>9. ListChanged(h, k, l, <<v>>)
  BY <1>1, <1>6, <1>7, <1>8, GoodList DEF ListSet
<1>10. PICK g : g = Pop(k, 1)
  OBVIOUS
<1>11. Good(k) /\ k.stack = <<v>> /\ k.var = h.var
  BY <1>2, <1>9 DEF ListChanged
<1>12. OtherStack(k, g) /\ g.stack = <<>>
  BY <1>10, <1>11, PopOne
<1>13. Exists(g, l)
  <2>1. k.list[l] # Freed
    <3>1. k.list[l] \in Seq(Variant)
      BY <1>2, <1>9, Kinds DEF ListChanged
    <3>2. QED
      BY <3>1, DistinctValues
  <2>2. QED
    BY <1>6, <1>12, <2>1, Kinds DEF Exists, OtherStack
<1>14. PICK r : r = Push(g, l)
  OBVIOUS
<1>15. OtherStack(g, r) /\ r.stack = <<l>>
  BY <1>6, <1>12, <1>13, <1>14, PushIs, Kinds, Stacks DEF OtherStack
<1>16. Good(r) /\ r.var = h.var /\ r.box = h.box /\ r.list = k.list /\ r.object = h.object
  BY <1>9, <1>12, <1>15 DEF OtherStack, ListChanged
<1>17. Follows(r, it)
  <2>1. r.object = h.object /\ Final(r, r.object) = Final(h, h.object)
    BY <1>16, SameBoxes
  <2>2. CASE it.open
    <3>1. h.object \in Variant /\ Exists(h, h.object)
      BY <1>1, <2>2, Kinds DEF Good, Live, Follows
    <3>2. Exists(h, it.list) /\ it.list \in List
      BY <1>1, <2>2, <3>1, FinalExists DEF Follows
    <3>3. it.list # l
      BY <1>6, <3>2 DEF Exists
    <3>4. r.list[it.list] = h.list[it.list]
      BY <1>9, <1>16, <3>2, <3>3 DEF ListChanged
    <3>5. QED
      BY <1>1, <2>1, <3>4 DEF Follows
  <2>3. QED
    BY <1>1, <2>1, <2>2 DEF Follows
<1>18. NoItem(r, r.var[x])
  <2>1. \A u, w : Apart(r, u, w) = Apart(h, u, w)
    BY <1>16, SameBoxes
  <2>2. Items(r, l) = <<v>> /\ \A m \in List \ {l} : Items(r, m) = Items(h, m)
    BY <1>9, <1>16 DEF ListChanged, Items
  <2>3. \A i \in DOMAIN <<v>> : <<v>>[i] = v
    OBVIOUS
  <2>4. Apart(h, h.var[x], v)
    BY <1>2 DEF Fits
  <2>5. QED
    BY <1>2, <1>16, <2>1, <2>2, <2>3, <2>4 DEF NoItem
<1>19. Other(r, it, r.var[x])
  BY <1>2, <1>16, SameBoxes DEF Other, Fits
<1>20. Fits(r, it, r.var[x], l)
  BY <1>6, <1>18, <1>19, Kinds, FitsIs
<1>21. AtSet(r, it, Tail(c))
  BY <1>3, <1>6, <1>15, <1>20, Kinds DEF AtSet
<1>22. QED
  BY <1>4, <1>8, <1>10, <1>14, <1>16, <1>17, <1>21 DEF Sound, At

\* GetIndex finds an item that exists, and pushes what it resolves to.
LEMMA GetIndexSound ==
    ASSUME NEW h, NEW it, NEW c, Sound(h, it, c), c # <<>>, Head(c).op = "GetIndex"
    PROVE  Sound(Push(Pop(h, 1),
                      Resolve(h, Item(Resolve(h, Stack(Len(h.stack))), Head(c).i))), it, Tail(c))
<1>1. Good(h) /\ Follows(h, it) /\ AtGetIndex(h, it, c)
  BY NextOpcode DEF Sound
<1>2. PICK x \in Variable, v \in List, i \in Index :
        /\ c = <<OpI("GetIndex", i), OpX("Set", x)>> /\ h.stack = <<v>>
        /\ Other(h, it, h.var[x]) /\ Indexed(h, v, i)
  BY <1>1 DEF AtGetIndex
<1>3. Head(c).i = i /\ Tail(c) = <<OpX("Set", x)>>
  BY <1>2, Tails DEF OpI
<1>4. v \notin Box /\ Final(h, v) = v /\ i \in 1..Len(h.list[v]) /\ Exists(h, v)
  <2>1. v \notin Box /\ Final(h, v) = v
    BY Kinds, Plainly
  <2>2. i \in 1..Len(h.list[v])
    BY <1>2, <2>1 DEF Indexed
  <2>3. Exists(h, v)
    BY <1>1, <1>2 DEF Good, Live
  <2>4. QED
    BY <2>1, <2>2, <2>3
<1>5. Resolve(h, Stack(Len(h.stack))) = v
  <2>1. Get(h, Stack(Len(h.stack))) = v
    BY <1>2, Gets
  <2>2. QED
    BY <1>1, <1>4, <2>1, GoodBoxes, ResolveIs
<1>6. h.list[v] # Freed /\ Items(h, v) = h.list[v] /\ i \in DOMAIN Items(h, v)
  <2>1. h.list[v] # Freed
    BY <1>4 DEF Exists
  <2>2. Items(h, v) = h.list[v] /\ h.list[v] \in Seq(Flat)
    BY <1>1, <2>1, ItemsOf
  <2>3. QED
    BY <1>4, <2>1, <2>2
<1>7. PICK a : a = Items(h, v)[i]
  OBVIOUS
<1>8. Exists(h, a) /\ a \in Variant /\ Final(h, a) \notin List
  BY <1>1, <1>6, <1>7, ItemExists
<1>9. PICK u : u = Final(h, a)
  OBVIOUS
<1>10. u \in Variant /\ u \notin Box /\ u \notin List /\ Exists(h, u)
  BY <1>1, <1>8, <1>9, FinalExists
<1>11. Resolve(h, Item(v, i)) = u
  <2>1. Get(h, Item(v, i)) = a
    BY <1>6, <1>7, Gets
  <2>2. QED
    BY <1>1, <1>9, <2>1, GoodBoxes, ResolveIs
<1>12. PICK g : g = Pop(h, 1)
  OBVIOUS
<1>13. OtherStack(h, g) /\ g.stack = <<>>
  BY <1>1, <1>2, <1>12, PopOne
<1>14. Exists(g, u)
  BY <1>10, <1>13 DEF OtherStack, Exists
<1>15. PICK r : r = Push(g, u)
  OBVIOUS
<1>16. OtherStack(g, r) /\ r.stack = <<u>>
  BY <1>10, <1>13, <1>14, <1>15, PushIs, Stacks DEF OtherStack
<1>17. Good(r) /\ r.var = h.var /\ r.box = h.box /\ r.list = h.list /\ r.object = h.object
  BY <1>13, <1>16 DEF OtherStack
<1>18. Follows(r, it) /\ Other(r, it, r.var[x])
  BY <1>1, <1>2, <1>17, SameFacts
<1>19. AtSet(r, it, Tail(c))
  BY <1>3, <1>10, <1>16, <1>18, FitsIs DEF AtSet
<1>20. QED
  BY <1>3, <1>5, <1>11, <1>12, <1>15, <1>17, <1>18, <1>19 DEF Sound, At

\* NewIterator keeps the reference that leads to the list whose address it keeps.
LEMMA NewIteratorSound ==
    ASSUME NEW h, NEW it, NEW c, Sound(h, it, c), c # <<>>, Head(c).op = "NewIterator",
           NEW new, new.list = Resolve(h, Stack(Len(h.stack))), new.pos = 1, new.over \in Variable
    PROVE  Sound([Pop(h, 1) EXCEPT !.object = Top(h)], new, Tail(c))
<1>1. Good(h) /\ AtNewIterator(h, it, c)
  BY NextOpcode DEF Sound
<1>2. PICK v \in Box : /\ c = <<Op("NewIterator")>> /\ h.stack = <<v>>
                       /\ Final(h, v) \in List
  BY <1>1 DEF AtNewIterator
<1>3. Tail(c) = <<>>
  BY <1>2, Tails
<1>4. Top(h) = v
  BY <1>2 DEF Top
<1>5. v \in Variant /\ Exists(h, v)
  BY <1>1, <1>2, Kinds DEF Good, Live
<1>6. Resolve(h, Stack(Len(h.stack))) = Final(h, v)
  <2>1. Get(h, Stack(Len(h.stack))) = v
    BY <1>2, Gets
  <2>2. QED
    BY <1>1, <2>1, GoodBoxes, ResolveIs
<1>7. PICK g : g = Pop(h, 1)
  OBVIOUS
<1>8. OtherStack(h, g) /\ g.stack = <<>>
  BY <1>1, <1>2, <1>7, PopOne
<1>9. Exists(g, v) /\ Good(g)
  BY <1>5, <1>8 DEF OtherStack, Exists
<1>10. PICK r : ObjectSet(g, r, v)
  BY DEF ObjectSet
<1>11. /\ Good(r)
       /\ r.var = g.var /\ r.box = g.box /\ r.list = g.list /\ r.stack = g.stack /\ r.object = v
  BY <1>2, <1>9, <1>10, GoodObject
<1>12. r.box = h.box /\ r.list = h.list
  BY <1>8, <1>11 DEF OtherStack
<1>13. Follows(r, new)
  <2>1. Final(r, r.object) = new.list /\ new.list = Final(h, v)
    BY <1>6, <1>11, <1>12, SameBoxes
  <2>2. Exists(h, Final(h, v))
    BY <1>1, <1>5, FinalExists
  <2>3. h.list[Final(h, v)] # Freed
    BY <1>2, <2>2 DEF Exists
  <2>4. Len(h.list[Final(h, v)]) \in 1..MaxLength
    BY <1>1, <1>2, <2>3, ItemsOf
  <2>5. new.pos \in 0..MaxLength + 1 /\ new.pos \in 1..Len(r.list[new.list]) + 1
    BY <1>12, <2>1, <2>4, BoundIsPositive
  <2>6. QED
    BY <1>2, <1>11, <2>1, <2>5 DEF Follows
<1>14. r.stack = <<>>
  BY <1>8, <1>11
<1>15. QED
  BY <1>3, <1>4, <1>7, <1>10, <1>11, <1>13, <1>14, Ends DEF ObjectSet

\* The parameter receives the argument, whatever it held is gone.
LEMMA CallSound ==
    ASSUME NEW h, NEW it, NEW c, Sound(h, it, c), c # <<>>, Head(c).op = "Call"
    PROVE  Sound([Pop(h, 1) EXCEPT !.var[Param] = Top(h)], it, Tail(c))
<1>1. Good(h) /\ Follows(h, it) /\ AtCall(h, it, c)
  BY NextOpcode DEF Sound
<1>2. PICK v \in Box : c = <<Op("Call")>> /\ h.stack = <<v>>
  BY <1>1 DEF AtCall
<1>3. Tail(c) = <<>>
  BY <1>2, Tails
<1>4. Top(h) = v
  BY <1>2 DEF Top
<1>5. v \in Variant /\ Exists(h, v)
  BY <1>1, <1>2, Kinds DEF Good, Live
<1>6. PICK g : g = Pop(h, 1)
  OBVIOUS
<1>7. OtherStack(h, g) /\ g.stack = <<>>
  BY <1>1, <1>2, <1>6, PopOne
<1>8. Exists(g, v) /\ Good(g) /\ Follows(g, it)
  BY <1>1, <1>5, <1>7, SameFacts DEF OtherStack
<1>9. PICK r : VarSet(g, r, Param, v)
  BY DEF VarSet
<1>10. Param \in Variable
  BY DEF Variable
<1>11. /\ Good(r)
       /\ r.var = [g.var EXCEPT ![Param] = v]
       /\ r.box = g.box /\ r.list = g.list /\ r.stack = g.stack /\ r.object = g.object
  BY <1>5, <1>8, <1>9, <1>10, GoodVar
<1>12. Follows(r, it)
  BY <1>8, <1>11, SameFacts
<1>13. QED
  <2>1. [Pop(h, 1) EXCEPT !.var[Param] = Top(h)] = r
    BY <1>4, <1>6, <1>9 DEF VarSet
  <2>2. Sound(r, it, <<>>)
    BY <1>7, <1>11, <1>12, Ends
  <2>3. QED
    BY <1>3, <2>1, <2>2

\* Locals are destroyed when the routine returns, the loop's with its collection.
LEMMA PopLocalSound ==
    ASSUME NEW h, NEW it, NEW c, Sound(h, it, c), c # <<>>, Head(c).op = "PopLocal"
    PROVE  /\ Head(c).x = Each =>
                 Sound([h EXCEPT !.var[Each] = Null, !.object = Null], it, Tail(c))
           /\ Head(c).x # Each => Sound([h EXCEPT !.var[Head(c).x] = Null], it, Tail(c))
<1>1. Good(h) /\ Follows(h, it) /\ AtPopLocal(h, it, c)
  BY NextOpcode DEF Sound
<1>2. Param \in Variable /\ Each \in Variable /\ Param # Each
  BY DistinctVariables DEF Variable
<1>3. Null \in Variant /\ Exists(h, Null)
  BY Plainly
<1>4. CASE c = <<OpX("PopLocal", Each), OpX("PopLocal", Param)>>
  <2>1. Head(c).x = Each /\ Tail(c) = <<OpX("PopLocal", Param)>>
    BY <1>4, Tails DEF OpX
  <2>2. PICK g : VarSet(h, g, Each, Null)
    BY DEF VarSet
  <2>3. /\ Good(g)
        /\ g.var = [h.var EXCEPT ![Each] = Null]
        /\ g.box = h.box /\ g.list = h.list /\ g.stack = h.stack /\ g.object = h.object
    BY <1>1, <1>2, <1>3, <2>2, GoodVar
  <2>4. PICK r : ObjectSet(g, r, Null)
    BY DEF ObjectSet
  <2>5. /\ Good(r)
        /\ r.var = g.var /\ r.box = g.box /\ r.list = g.list /\ r.stack = g.stack /\ r.object = Null
    <3>1. Null \in {Null} \cup Box /\ Exists(g, Null)
      BY Plainly
    <3>2. QED
      BY <2>3, <2>4, <3>1, GoodObject
  <2>6. r = [h EXCEPT !.var[Each] = Null, !.object = Null]
    BY <2>2, <2>4 DEF VarSet, ObjectSet
  <2>7. Follows(r, it)
    BY <1>1 DEF Follows, AtPopLocal
  <2>8. AtPopLocal(r, it, Tail(c))
    BY <1>1, <2>1, <2>3, <2>5 DEF AtPopLocal
  <2>9. QED
    BY <2>1, <2>5, <2>6, <2>7, <2>8 DEF Sound, At
<1>5. CASE c = <<OpX("PopLocal", Param)>>
  <2>1. Head(c).x = Param /\ Tail(c) = <<>>
    BY <1>5, Tails DEF OpX
  <2>2. PICK g : VarSet(h, g, Param, Null)
    BY DEF VarSet
  <2>3. /\ Good(g)
        /\ g.var = [h.var EXCEPT ![Param] = Null]
        /\ g.box = h.box /\ g.list = h.list /\ g.stack = h.stack /\ g.object = h.object
    BY <1>1, <1>2, <1>3, <2>2, GoodVar
  <2>4. Follows(g, it) /\ g.stack = <<>>
    BY <1>1, <2>3, SameFacts DEF AtPopLocal
  <2>5. QED
    BY <1>2, <2>1, <2>2, <2>3, <2>4, Ends DEF VarSet
<1>6. QED
  BY <1>1, <1>4, <1>5 DEF AtPopLocal

\* The iterator it is new but for the position, which goes on by one.
NextPos(it, new) ==
    /\ new.pos = it.pos + 1
    /\ new.list = it.list /\ new.over = it.over /\ new.open = it.open

\* An item is read.
LEMMA ReadSound ==
    ASSUME NEW h, Good(h), NEW it, Follows(h, it), it.open, it.pos \in 1..Len(h.list[it.list]),
           h.stack = <<>>, h.var[Each] = Null,
           NEW new, NextPos(it, new)
    PROVE  Sound(Push(h, Get(h, Item(it.list, it.pos))), new, <<OpX("Set", Each)>>)
<1>1. it.list \in List /\ h.object \in Box /\ Final(h, h.object) = it.list
  BY DEF Follows
<1>2. h.list[it.list] # Freed
  <2>1. h.object \in Variant /\ Exists(h, h.object)
    BY <1>1, Kinds DEF Good, Live
  <2>2. Exists(h, it.list)
    BY <1>1, <2>1, FinalExists
  <2>3. QED
    BY <1>1, <2>2 DEF Exists
<1>3. Items(h, it.list) = h.list[it.list] /\ Len(h.list[it.list]) \in 1..MaxLength
      /\ h.list[it.list] \in Seq(Flat)
  BY <1>1, <1>2, ItemsOf
<1>4. it.pos \in DOMAIN Items(h, it.list)
  BY <1>3
<1>5. PICK a : a = Items(h, it.list)[it.pos]
  OBVIOUS
<1>6. Exists(h, a) /\ a \in Variant /\ Final(h, a) \notin List
  BY <1>1, <1>4, <1>5, ItemExists
<1>7. Get(h, Item(it.list, it.pos)) = a
  BY <1>3, <1>5, Gets
<1>8. PICK r : r = Push(h, a)
  OBVIOUS
<1>9. OtherStack(h, r) /\ r.stack = <<a>>
  BY <1>6, <1>8, PushIs, Stacks
<1>10. Good(r) /\ Follows(r, it) /\ r.var = h.var /\ r.list = h.list /\ Final(r, a) \notin List
  BY <1>6, <1>9, SameFacts DEF OtherStack
<1>11. Follows(r, new)
  <2>1. new.pos \in 0..MaxLength + 1 /\ new.pos \in 1..Len(r.list[new.list]) + 1
    <3>1. new.pos = it.pos + 1 /\ new.list = it.list /\ r.list[new.list] = h.list[it.list]
      BY <1>10 DEF NextPos
    <3>2. PICK n : n = Len(h.list[it.list])
      OBVIOUS
    <3>3. n \in 1..MaxLength /\ it.pos \in 1..n /\ MaxLength \in Nat
      BY <1>3, <3>2, BoundIsPositive
    <3>4. it.pos + 1 \in 0..MaxLength + 1 /\ it.pos + 1 \in 1..n + 1
      BY <3>3
    <3>5. QED
      BY <3>1, <3>2, <3>4
  <2>2. QED
    BY <1>10, <2>1 DEF Follows, NextPos
<1>12. Each \in Variable /\ r.var[Each] = Null /\ Null \notin Box
  BY <1>10, Kinds DEF Variable
<1>13. Fits(r, new, r.var[Each], a)
  BY <1>12, Plainly DEF Fits
<1>14. AtSet(r, new, <<OpX("Set", Each)>>)
  BY <1>6, <1>9, <1>12, <1>13 DEF AtSet
<1>15. QED
  BY <1>7, <1>8, <1>10, <1>11, <1>14 DEF Sound, At

\* An item becomes a reference, and the loop goes on.
LEMMA AliasItemFollows ==
    ASSUME NEW h, Good(h), NEW it, Follows(h, it), NEW l \in List, NEW i \in DOMAIN Items(h, l),
           Items(h, l)[i] \notin Box => FreeBox(h),
           NEW k, k = make_alias(h, Item(l, i))
    PROVE  /\ Follows(k, it)
           /\ Good(k) /\ k.var = h.var /\ k.stack = h.stack /\ k.object = h.object
           /\ \A m \in List : Len(k.list[m]) = Len(h.list[m])
<1>1. /\ Items(h, l)[i] \in Box => k = h
      /\ Items(h, l)[i] \notin Box =>
            /\ WithBox(h, k, Items(k, l)[i], Items(h, l)[i])
            /\ k.list = [h.list EXCEPT ![l] = [h.list[l] EXCEPT ![i] = Items(k, l)[i]]]
            /\ k.var = h.var /\ k.stack = h.stack /\ k.object = h.object
      /\ Good(k)
      /\ Get(k, Item(l, i)) = Items(k, l)[i]
      /\ i \in DOMAIN Items(k, l)
  BY AliasItem
<1>2. CASE Items(h, l)[i] \in Box
  BY <1>1, <1>2
<1>3. CASE Items(h, l)[i] \notin Box
  <2>1. PICK c : c = Items(k, l)[i]
    OBVIOUS
  <2>2. /\ WithBox(h, k, c, Items(h, l)[i])
        /\ k.list = [h.list EXCEPT ![l] = [h.list[l] EXCEPT ![i] = c]]
        /\ k.var = h.var /\ k.stack = h.stack /\ k.object = h.object
    BY <1>1, <1>3, <2>1
  <2>3. h.list[l] # Freed
    BY ItemsOf
  <2>4. h.list[l] \in Seq(Flat)
    BY <2>3, ItemsOf
  <2>5. \A m \in List : Len(k.list[m]) = Len(h.list[m])
    <3>1. Len([h.list[l] EXCEPT ![i] = c]) = Len(h.list[l])
      BY <2>4
    <3>2. SUFFICES ASSUME NEW m \in List PROVE Len(k.list[m]) = Len(h.list[m])
      OBVIOUS
    <3>3. l \in DOMAIN h.list /\ m \in DOMAIN h.list
      BY GoodBoxes
    <3>4. CASE m = l
      <4>1. k.list[l] = [h.list[l] EXCEPT ![i] = c]
        BY <2>2, <3>3
      <4>2. QED
        BY <3>1, <3>4, <4>1
    <3>5. CASE m # l
      BY <2>2, <3>3, <3>5
    <3>6. QED
      BY <3>4, <3>5
  <2>6. it.open => Final(k, h.object) = Final(h, h.object)
    <3>1. SUFFICES ASSUME it.open PROVE Final(k, h.object) = Final(h, h.object)
      OBVIOUS
    <3>2. h.object \in Variant /\ Exists(h, h.object)
      BY <3>1, Kinds DEF Good, Live, Follows
    <3>3. QED
      BY <2>2, <3>2 DEF WithBox
  <2>7. Follows(k, it)
    BY <2>2, <2>5, <2>6 DEF Follows
  <2>8. QED
    BY <1>1, <2>2, <2>5, <2>7
<1>4. QED
  BY <1>2, <1>3

\* The next item exists when it is taken, also if it becomes a reference first.
LEMMA NextValueSound ==
    ASSUME NEW h, NEW it, NEW c, Sound(h, it, c), c # <<>>, Head(c).op = "NextValue",
           NEW k, k = IF it.by_ref THEN make_alias(h, Item(it.list, it.pos)) ELSE h,
           NEW new, NextPos(it, new)
    PROVE  Sound(Push(k, Get(k, Item(it.list, it.pos))), new, Tail(c))
<1>1. Good(h) /\ Follows(h, it) /\ AtNext(h, it, c)
  BY NextOpcode DEF Sound
<1>2. c = <<Op("NextValue"), OpX("Set", Each)>> /\ h.var[Each] = Null
  <2>1. c # <<OpX("ClearLocal", Each), Op("NextValue"), OpX("Set", Each)>>
    BY Tails DEF OpX
  <2>2. QED
    BY <1>1, <2>1 DEF AtNext
<1>3. Tail(c) = <<OpX("Set", Each)>>
  BY <1>2, Tails
<1>4. /\ h.stack = <<>> /\ it.open
      /\ it.pos \in 1..Len(h.list[it.list])
      /\ it.by_ref /\ Items(h, it.list)[it.pos] \notin Box => FreeBox(h)
  BY <1>1 DEF AtNext
<1>5. CASE ~it.by_ref
  <2>1. k = h
    BY <1>5
  <2>2. QED
    BY <1>1, <1>2, <1>3, <1>4, <2>1, ReadSound
<1>6. CASE it.by_ref
  <2>1. it.list \in List /\ h.object \in Box /\ Final(h, h.object) = it.list
    BY <1>1, <1>4 DEF Follows
  <2>2. h.list[it.list] # Freed
    <3>1. h.object \in Variant /\ Exists(h, h.object)
      BY <1>1, <2>1, Kinds DEF Good, Live
    <3>2. Exists(h, it.list)
      BY <1>1, <2>1, <3>1, FinalExists
    <3>3. QED
      BY <2>1, <3>2 DEF Exists
  <2>3. Items(h, it.list) = h.list[it.list] /\ h.list[it.list] \in Seq(Flat)
    BY <1>1, <2>1, <2>2, ItemsOf
  <2>4. it.pos \in DOMAIN Items(h, it.list)
    BY <1>4, <2>3
  <2>5. k = make_alias(h, Item(it.list, it.pos))
    BY <1>6
  <2>6. /\ Follows(k, it)
        /\ Good(k) /\ k.var = h.var /\ k.stack = h.stack /\ k.object = h.object
        /\ \A m \in List : Len(k.list[m]) = Len(h.list[m])
    BY <1>1, <1>4, <1>6, <2>1, <2>4, <2>5, AliasItemFollows
  <2>7. it.pos \in 1..Len(k.list[it.list])
    BY <1>4, <2>1, <2>6
  <2>8. k.stack = <<>> /\ k.var[Each] = Null
    BY <1>2, <1>4, <2>6
  <2>9. QED
    BY <1>3, <1>4, <2>6, <2>7, <2>8, ReadSound
<1>7. QED
  BY <1>5, <1>6

\* What g keeps of what h says of the variable x, and of the collection of a loop.
KeptVar(h, g, it, x, y) ==
    /\ Apart(h, h.var[x], h.var[y]) => Apart(g, g.var[x], g.var[y])
    /\ Other(h, it, h.var[x]) => Other(g, it, g.var[x])
    /\ NoItem(h, h.var[x]) => NoItem(g, g.var[x])

\* g is h, where the variable y is held in another way.
Kept(h, g, it, y) ==
    /\ Good(g) /\ Follows(g, it) /\ g.stack = h.stack /\ g.object = h.object
    /\ Own(g, it, g.var[y])
    /\ Final(h, h.var[y]) \in List => /\ Final(g, g.var[y]) \in List
                                      /\ Len(g.list[Final(g, g.var[y])]) = Len(h.list[Final(h, h.var[y])])
    /\ Final(h, h.var[y]) \notin List => g.list = h.list /\ Final(g, g.var[y]) = Final(h, h.var[y])
    /\ \A x \in Variable : x # y => KeptVar(h, g, it, x, y)

\* What two changes in a row keep.
LEMMA KeptBoth ==
    ASSUME NEW h, NEW u, NEW g, NEW it, NEW y, Kept(h, u, it, y), Kept(u, g, it, y)
    PROVE  Kept(h, g, it, y)
  BY DEF Kept, KeptVar

\* No change keeps everything.
LEMMA KeptSame ==
    ASSUME NEW h, NEW it, NEW y, Good(h), Follows(h, it), Own(h, it, h.var[y])
    PROVE  Kept(h, h, it, y)
  BY DEF Kept, KeptVar

\* The list of a collection that is unshared is not the one that a loop is over.
LEMMA OwnShared ==
    ASSUME NEW h, Good(h), NEW it, Follows(h, it), NEW v \in Variant, Own(h, it, v),
           Final(h, v) \in List, ~One(h, Final(h, v))
    PROVE  Other(h, it, v)
<1>1. SUFFICES ASSUME it.open, One(h, it.list), v \in Box, Last(h, v) = Last(h, h.object)
               PROVE  FALSE
  BY DEF Own, Other, Apart
<1>2. h.object \in Box /\ Final(h, h.object) = it.list
  BY <1>1 DEF Follows
<1>3. Final(h, v) = it.list
  BY <1>1, <1>2 DEF Final
<1>4. QED
  BY <1>1, <1>3

\* The list of a loop stays.
LEMMA UnsharedFollows ==
    ASSUME NEW h, Good(h), NEW it, Follows(h, it), NEW v \in Variant, Other(h, it, v),
           NEW g, NEW m, Unshared(h, g, v, m)
    PROVE  Follows(g, it)
<1>1. CASE ~it.open
  BY <1>1 DEF Follows
<1>2. CASE it.open
  <2>1. /\ it.list \in List /\ it.over \in Variable /\ h.object \in Box
        /\ Final(h, h.object) = it.list
        /\ it.pos \in 0..MaxLength + 1 /\ it.pos \in 1..Len(h.list[it.list]) + 1
    BY <1>2 DEF Follows
  <2>2. h.object \in Variant /\ Exists(h, h.object)
    BY <2>1, Kinds DEF Good, Live
  <2>3. Exists(h, it.list)
    BY <2>1, <2>2, FinalExists
  <2>4. h.list[it.list] # Freed
    BY <2>1, <2>3 DEF Exists
  <2>5. g.object = h.object /\ it.list # m /\ g.list[it.list] = h.list[it.list]
    BY <2>1, <2>4 DEF Unshared
  <2>6. Final(g, h.object) = IF v \in Box /\ h.object \in Box /\ Last(h, h.object) = Last(h, v)
                             THEN m ELSE Final(h, h.object)
    BY <2>2 DEF Unshared
  <2>7. ~(v \in Box /\ Last(h, h.object) = Last(h, v))
    BY <1>2, <2>1 DEF Other, Apart
  <2>8. Final(g, g.object) = it.list
    BY <2>1, <2>5, <2>6, <2>7
  <2>9. QED
    BY <2>1, <2>5, <2>8 DEF Follows
<1>3. QED
  BY <1>1, <1>2

\* Chains are as they were.
LEMMA UnsharedFacts ==
    ASSUME NEW h, Good(h), NEW v, NEW g, NEW m, Unshared(h, g, v, m)
    PROVE  /\ \A a, b : Apart(g, a, b) = Apart(h, a, b)
           /\ \A a, it : Other(g, it, a) = Other(h, it, a)
           /\ \A a : NoItem(h, a) => NoItem(g, a)
           /\ FreeBox(h) => FreeBox(g)
<1>1. \A a, b : Apart(g, a, b) = Apart(h, a, b)
  BY DEF Apart, Unshared
<1>2. \A a, it : Other(g, it, a) = Other(h, it, a)
  BY <1>1 DEF Other, Unshared
<1>3. ASSUME NEW a, NoItem(h, a) PROVE NoItem(g, a)
  <2>1. SUFFICES ASSUME NEW l \in List, NEW i \in DOMAIN Items(g, l) PROVE Apart(g, a, Items(g, l)[i])
    BY DEF NoItem
  <2>2. CASE l = m
    <3>1. Items(g, l)[i] \notin Box
      BY <2>2 DEF Unshared
    <3>2. QED
      BY <3>1, Plainly
  <2>3. CASE l # m
    <3>1. Items(g, l) = Items(h, l)
      BY <2>3 DEF Unshared
    <3>2. QED
      BY <1>1, <1>3, <3>1 DEF NoItem
  <2>4. QED
    BY <2>2, <2>3
<1>4. FreeBox(h) => FreeBox(g)
  BY DEF FreeBox, Unshared
<1>5. QED
  BY <1>1, <1>2, <1>3, <1>4

\* What unshare keeps.
LEMMA UnshareKeeps ==
    ASSUME NEW h, Good(h), NEW it, Follows(h, it), NEW y \in Variable, Own(h, it, h.var[y]),
           FreeList(h), NEW g, g = unshare(h, Var(y))
    PROVE  /\ Kept(h, g, it, y)
           /\ Final(h, h.var[y]) \in List => One(g, Final(g, g.var[y]))
           /\ g.var[y] \in Box <=> h.var[y] \in Box
           /\ FreeBox(h) => FreeBox(g)
           /\ \/ g = h
              \/ \E m : /\ Unshared(h, g, h.var[y], m) /\ Final(g, g.var[y]) = m
                        /\ g.var = IF h.var[y] \in Box THEN h.var ELSE [h.var EXCEPT ![y] = m]
<1>1. PICK v : v = h.var[y]
  OBVIOUS
<1>2. v \in Variant /\ Exists(h, v)
  BY <1>1, GoodBoxes DEF Good, Live
<1>3. /\ Final(h, v) \notin List \/ One(h, Final(h, v)) => g = h
      /\ Final(h, v) \in List /\ ~One(h, Final(h, v)) =>
            \E m : /\ Unshared(h, g, v, m)
                   /\ g.stack = h.stack
                   /\ g.var = IF v \in Box THEN h.var ELSE [h.var EXCEPT ![y] = m]
  BY <1>1, UnshareVar
<1>4. CASE Final(h, v) \notin List \/ One(h, Final(h, v))
  BY <1>1, <1>3, <1>4, KeptSame
<1>5. CASE Final(h, v) \in List /\ ~One(h, Final(h, v))
  <2>1. PICK m : /\ Unshared(h, g, v, m)
                 /\ g.stack = h.stack
                 /\ g.var = IF v \in Box THEN h.var ELSE [h.var EXCEPT ![y] = m]
    BY <1>3, <1>5
  <2>2. m \in List /\ m \notin Box /\ Good(g) /\ One(g, m) /\ g.object = h.object
    BY <2>1, Kinds DEF Unshared
  <2>3. Other(h, it, v)
    BY <1>1, <1>2, <1>5, OwnShared
  <2>4. Follows(g, it)
    BY <1>2, <2>1, <2>3, UnsharedFollows
  <2>5. g.var[y] = IF v \in Box THEN v ELSE m
    BY <1>1, <2>1, GoodBoxes
  <2>6. Final(g, g.var[y]) = m
    <3>1. CASE v \in Box
      BY <1>2, <2>1, <2>5, <3>1 DEF Unshared
    <3>2. CASE v \notin Box
      BY <2>2, <2>5, <3>2, Plainly
    <3>3. QED
      BY <3>1, <3>2
  <2>7. Len(g.list[m]) = Len(h.list[Final(h, v)])
    BY <2>1 DEF Unshared
  <2>8. Other(g, it, g.var[y])
    BY <2>1, <2>2, <2>3, <2>5, UnsharedFacts, Plainly
  <2>9. ASSUME NEW x \in Variable, x # y PROVE KeptVar(h, g, it, x, y)
    <3>1. g.var[x] = h.var[x]
      BY <2>1, <2>9, GoodBoxes
    <3>2. Apart(h, h.var[x], v) => Apart(g, h.var[x], g.var[y])
      BY <2>1, <2>2, <2>5, UnsharedFacts, Plainly
    <3>3. Other(h, it, h.var[x]) => Other(g, it, h.var[x])
      BY <2>1, UnsharedFacts
    <3>4. NoItem(h, h.var[x]) => NoItem(g, h.var[x])
      BY <2>1, UnsharedFacts
    <3>5. QED
      BY <1>1, <3>1, <3>2, <3>3, <3>4 DEF KeptVar
  <2>10. Kept(h, g, it, y)
    BY <1>1, <1>5, <2>1, <2>2, <2>4, <2>6, <2>7, <2>8, <2>9 DEF Kept, Own
  <2>11. FreeBox(h) => FreeBox(g)
    BY <2>1, UnsharedFacts
  <2>12. g.var[y] \in Box <=> h.var[y] \in Box
    BY <1>1, <2>2, <2>5
  <2>13. QED
    BY <1>1, <2>1, <2>2, <2>6, <2>10, <2>11, <2>12
<1>6. QED
  BY <1>4, <1>5

\* What make_alias keeps.
LEMMA AliasKeeps ==
    ASSUME NEW h, Good(h), NEW it, Follows(h, it), NEW y \in Variable, Own(h, it, h.var[y]),
           h.var[y] \notin Box => FreeBox(h), NEW g, g = make_alias(h, Var(y))
    PROVE  /\ Kept(h, g, it, y)
           /\ g.var[y] \in Box /\ g.list = h.list
           /\ Final(g, g.var[y]) = Final(h, h.var[y])
           /\ \A o \in List : One(h, o) => One(g, o)
<1>1. PICK u : u = h.var[y]
  OBVIOUS
<1>2. u \in Variant /\ Exists(h, u)
  BY <1>1, GoodBoxes DEF Good, Live
<1>3. PICK c : c = g.var[y]
  OBVIOUS
<1>4. /\ h.var[y] \in Box => g = h
      /\ h.var[y] \notin Box =>
            /\ WithBox(h, g, g.var[y], h.var[y])
            /\ g.var = [h.var EXCEPT ![y] = g.var[y]]
            /\ g.list = h.list /\ g.stack = h.stack /\ g.object = h.object
      /\ Good(g)
      /\ \A o \in List : One(h, o) => One(g, o)
  BY AliasVar
<1>5. CASE u \in Box
  BY <1>1, <1>4, <1>5, KeptSame
<1>6. CASE u \notin Box
  <2>1. /\ WithBox(h, g, c, u)
        /\ g.var = [h.var EXCEPT ![y] = c]
        /\ g.list = h.list /\ g.stack = h.stack /\ g.object = h.object
    BY <1>1, <1>3, <1>4, <1>6
  <2>2. /\ c \in Box /\ h.box[c] = Freed
        /\ \A b \in Box : Last(g, b) = Last(h, b)
        /\ Last(g, c) = c /\ Final(g, c) = u
    BY <2>1 DEF WithBox
  <2>3. Final(h, u) = u
    BY <1>6, Plainly
  <2>4. \A a, b : Apart(g, a, b) = Apart(h, a, b)
    BY <2>2 DEF Apart
  <2>5. /\ \A a : Other(g, it, a) = Other(h, it, a)
        /\ \A a : NoItem(g, a) = NoItem(h, a)
    BY <2>1, <2>4 DEF Other, NoItem, Items
  <2>6. \A w \in Variant : Exists(h, w) => Apart(h, w, c)
    BY <2>2, LastExists DEF Apart
  <2>7. it.open => h.object \in Box /\ h.object \in Variant /\ Exists(h, h.object)
    BY Kinds DEF Good, Live, Follows
  <2>8. Follows(g, it)
    <3>1. it.open => Final(g, h.object) = Final(h, h.object)
      BY <2>1, <2>7 DEF WithBox
    <3>2. QED
      BY <2>1, <3>1 DEF Follows
  <2>9. Other(g, it, c)
    <3>1. it.open => Apart(h, c, h.object)
      BY <2>6, <2>7 DEF Apart
    <3>2. QED
      BY <2>1, <2>4, <3>1 DEF Other
  <2>10. ASSUME NEW x \in Variable, x # y PROVE KeptVar(h, g, it, x, y)
    <3>1. g.var[x] = h.var[x] /\ h.var[x] \in Variant
      BY <2>1, <2>10, GoodBoxes
    <3>2. Exists(h, h.var[x])
      BY DEF Good, Live
    <3>3. Apart(g, h.var[x], c)
      BY <2>4, <2>6, <3>1, <3>2
    <3>4. QED
      BY <1>3, <2>5, <3>1, <3>3 DEF KeptVar
  <2>11. Kept(h, g, it, y)
    BY <1>1, <1>3, <1>4, <2>1, <2>2, <2>3, <2>8, <2>9, <2>10 DEF Kept, Own
  <2>12. QED
    BY <1>1, <1>3, <1>4, <2>1, <2>2, <2>3, <2>11
<1>7. QED
  BY <1>5, <1>6

\* What is the same after a push, and what is kept of lists that one variant holds.
LEMMA PushFacts ==
    ASSUME NEW h, Good(h), NEW it, Follows(h, it), NEW v \in Variant, Exists(h, v), h.stack = <<>>,
           NEW g, g = Push(h, v)
    PROVE  /\ Good(g) /\ Follows(g, it) /\ g.stack = <<v>>
           /\ g.var = h.var /\ g.list = h.list
           /\ FreeBox(g) = FreeBox(h) /\ FreeList(g) = FreeList(h) /\ TwoFreeLists(g) = TwoFreeLists(h)
           /\ \A w : Final(g, w) = Final(h, w) /\ NoItem(g, w) = NoItem(h, w)
                     /\ Other(g, it, w) = Other(h, it, w)
           /\ \A u, w : Apart(g, u, w) = Apart(h, u, w)
           /\ \A l : Items(g, l) = Items(h, l)
           /\ \A w, i : Indexed(g, w, i) = Indexed(h, w, i)
           /\ \A o \in List : One(h, o) /\ o # v => One(g, o)
<1>1. /\ OtherStack(h, g)
      /\ g.stack = Append(h.stack, v)
      /\ \A o \in List : One(h, o) /\ o # v => One(g, o)
  BY PushIs
<1>2. g.stack = <<v>>
  BY <1>1, Stacks
<1>3. Good(g) /\ g.var = h.var /\ g.box = h.box /\ g.list = h.list /\ g.object = h.object
  BY <1>1 DEF OtherStack
<1>4. QED
  BY <1>1, <1>2, <1>3, SameFacts

\* GetGlobalRef and GetLocalRef, with the clone and the new box that they may make,
\* leave what the next opcode relies on.
LEMMA GetRefSound ==
    ASSUME NEW h, NEW it, NEW c, Sound(h, it, c), c # <<>>, Head(c).op = "GetRef",
           NEW u, u = IF Head(c).x \in Global THEN unshare(h, Var(Head(c).x)) ELSE h,
           NEW k, k = make_alias(u, Var(Head(c).x))
    PROVE  Sound(Push(k, k.var[Head(c).x]), it, Tail(c))
<1>1. Good(h) /\ Follows(h, it) /\ AtGetRef(h, it, c)
  BY NextOpcode DEF Sound
<1>2. PICK y \in Variable :
        /\ h.stack = <<>>
        /\ h.var[y] \notin Box => FreeBox(h)
        /\ FreeList(h)
        /\ Own(h, it, h.var[y])
        /\ \/ \E x \in Variable :
                 /\ c = <<OpX("GetRef", y), OpX("Set", x)>>
                 /\ x # y
                 /\ Fits(h, it, h.var[x], h.var[y])
           \/ \E x \in Variable :
                 /\ c = <<OpX("GetRef", y), Op("NewList"), OpX("Set", x)>>
                 /\ x # y
                 /\ Fits(h, it, h.var[x], h.var[y])
                 /\ Final(h, h.var[y]) \notin List
                 /\ NoItem(h, h.var[x])
           \/ \E w \in Scalar :
                 /\ c = <<OpX("GetRef", y), OpW(w), Op("CallAppend")>>
                 /\ Final(h, h.var[y]) \in List
                 /\ Len(h.list[Final(h, h.var[y])]) < MaxLength
           \/ /\ c = <<OpX("GetRef", y), Op("NewIterator")>>
              /\ Final(h, h.var[y]) \in List /\ ~it.open
           \/ c = <<OpX("GetRef", y), Op("Call")>>
  BY <1>1 DEF AtGetRef
<1>3. Head(c).x = y
  BY <1>2, Tails DEF OpX
<1>4. /\ Kept(h, u, it, y)
      /\ u.var[y] \notin Box => FreeBox(u)
      /\ Final(h, h.var[y]) \in List => One(u, Final(u, u.var[y])) \/ FreeList(u)
  <2>1. CASE y \in Global
    <3>1. u = unshare(h, Var(y))
      BY <1>3, <2>1
    <3>2. /\ Kept(h, u, it, y)
          /\ Final(h, h.var[y]) \in List => One(u, Final(u, u.var[y]))
          /\ u.var[y] \in Box <=> h.var[y] \in Box
          /\ FreeBox(h) => FreeBox(u)
      BY <1>1, <1>2, <3>1, UnshareKeeps
    <3>3. QED
      BY <1>2, <3>2
  <2>2. CASE y \notin Global
    BY <1>1, <1>2, <1>3, <2>2, KeptSame
  <2>3. QED
    BY <2>1, <2>2
<1>5. Good(u) /\ Follows(u, it) /\ Own(u, it, u.var[y])
  BY <1>4 DEF Kept
<1>6. k = make_alias(u, Var(y))
  BY <1>3
<1>7. /\ Kept(u, k, it, y)
      /\ k.var[y] \in Box /\ k.list = u.list
      /\ Final(k, k.var[y]) = Final(u, u.var[y])
      /\ \A o \in List : One(u, o) => One(k, o)
  BY <1>4, <1>5, <1>6, AliasKeeps
<1>8. Kept(h, k, it, y)
  BY <1>4, <1>7, KeptBoth
<1>9. PICK v : v = k.var[y]
  OBVIOUS
<1>10. Good(k) /\ Follows(k, it) /\ k.stack = <<>> /\ v \in Box /\ v \in Variant /\ Exists(k, v)
  <2>1. Good(k) /\ Follows(k, it) /\ k.stack = <<>>
    BY <1>2, <1>8 DEF Kept
  <2>2. QED
    BY <1>7, <1>9, <2>1, Kinds DEF Good, Live
<1>11. PICK g : g = Push(k, v)
  OBVIOUS
<1>12. /\ Good(g) /\ Follows(g, it) /\ g.stack = <<v>>
       /\ g.var = k.var /\ g.list = k.list
       /\ FreeBox(g) = FreeBox(k) /\ FreeList(g) = FreeList(k) /\ TwoFreeLists(g) = TwoFreeLists(k)
       /\ \A w : Final(g, w) = Final(k, w) /\ NoItem(g, w) = NoItem(k, w)
                 /\ Other(g, it, w) = Other(k, it, w)
       /\ \A a, w : Apart(g, a, w) = Apart(k, a, w)
       /\ \A l : Items(g, l) = Items(k, l)
       /\ \A w, i : Indexed(g, w, i) = Indexed(k, w, i)
       /\ \A o \in List : One(k, o) /\ o # v => One(g, o)
  BY <1>10, <1>11, PushFacts
<1>13. v \notin List
  BY <1>10, Kinds
\* a variable that fits y fits the reference to it
<1>14. ASSUME NEW x \in Variable, x # y, Fits(h, it, h.var[x], h.var[y])
       PROVE  /\ Fits(g, it, g.var[x], v)
              /\ NoItem(h, h.var[x]) => NoItem(g, g.var[x])
  <2>1. KeptVar(h, k, it, x, y)
    BY <1>8, <1>14 DEF Kept
  <2>2. Final(k, v) \in List => Final(h, h.var[y]) \in List
    BY <1>8, <1>9 DEF Kept
  <2>3. NoItem(h, h.var[x]) => NoItem(k, k.var[x])
    BY <2>1 DEF KeptVar
  <2>4. Fits(k, it, k.var[x], v)
    BY <1>9, <1>14, <2>1, <2>2, <2>3 DEF Fits, KeptVar
  <2>5. Apart(k, k.var[x], v) /\ Other(k, it, k.var[x]) /\ (Final(k, v) \in List => NoItem(k, k.var[x]))
    BY <2>4 DEF Fits
  <2>6. /\ Apart(g, g.var[x], v) /\ Other(g, it, g.var[x])
        /\ Final(g, v) \in List => NoItem(g, g.var[x])
        /\ NoItem(g, g.var[x]) = NoItem(k, k.var[x])
    <3>1. g.var[x] = k.var[x]
      BY <1>12
    <3>2. PICK a : a = k.var[x]
      OBVIOUS
    <3>3. Apart(g, a, v) = Apart(k, a, v) /\ Other(g, it, a) = Other(k, it, a)
      BY <1>12
    <3>4. Final(g, v) = Final(k, v) /\ NoItem(g, a) = NoItem(k, a)
      BY <1>12
    <3>5. QED
      BY <2>5, <3>1, <3>2, <3>3, <3>4
  <2>7. QED
    BY <2>3, <2>6 DEF Fits
<1>15. At(g, it, Tail(c))
  <2>1. CASE \E x \in Variable : /\ c = <<OpX("GetRef", y), OpX("Set", x)>>
                                 /\ x # y
                                 /\ Fits(h, it, h.var[x], h.var[y])
    <3>1. PICK x \in Variable : /\ c = <<OpX("GetRef", y), OpX("Set", x)>>
                                /\ x # y
                                /\ Fits(h, it, h.var[x], h.var[y])
      BY <2>1
    <3>2. Tail(c) = <<OpX("Set", x)>>
      BY <3>1, Tails
    <3>3. AtSet(g, it, Tail(c))
      BY <1>10, <1>12, <1>14, <3>1, <3>2 DEF AtSet
    <3>4. QED
      BY <3>3 DEF At
  <2>2. CASE \E x \in Variable :
                 /\ c = <<OpX("GetRef", y), Op("NewList"), OpX("Set", x)>>
                 /\ x # y
                 /\ Fits(h, it, h.var[x], h.var[y])
                 /\ Final(h, h.var[y]) \notin List
                 /\ NoItem(h, h.var[x])
    <3>1. PICK x \in Variable :
                 /\ c = <<OpX("GetRef", y), Op("NewList"), OpX("Set", x)>>
                 /\ x # y
                 /\ Fits(h, it, h.var[x], h.var[y])
                 /\ Final(h, h.var[y]) \notin List
                 /\ NoItem(h, h.var[x])
      BY <2>2
    <3>2. Tail(c) = <<Op("NewList"), OpX("Set", x)>>
      BY <3>1, Tails
    <3>3. Fits(g, it, g.var[x], v) /\ NoItem(g, g.var[x])
      BY <1>14, <3>1
    <3>4. Final(k, v) \notin List /\ k.list = h.list
      BY <1>8, <1>9, <3>1 DEF Kept
    <3>5. FreeList(g) /\ Final(g, v) \notin List
      BY <1>2, <1>12, <3>4 DEF FreeList
    <3>6. AtNewList(g, it, Tail(c))
      BY <1>10, <1>12, <3>2, <3>3, <3>5 DEF AtNewList
    <3>7. QED
      BY <3>6 DEF At
  <2>3. CASE \E w \in Scalar :
                 /\ c = <<OpX("GetRef", y), OpW(w), Op("CallAppend")>>
                 /\ Final(h, h.var[y]) \in List
                 /\ Len(h.list[Final(h, h.var[y])]) < MaxLength
    <3>1. PICK w \in Scalar :
                 /\ c = <<OpX("GetRef", y), OpW(w), Op("CallAppend")>>
                 /\ Final(h, h.var[y]) \in List
                 /\ Len(h.list[Final(h, h.var[y])]) < MaxLength
      BY <2>3
    <3>2. Tail(c) = <<OpW(w), Op("CallAppend")>>
      BY <3>1, Tails
    <3>3. PICK l : l = Final(k, v)
      OBVIOUS
    <3>4. l \in List /\ Len(k.list[l]) < MaxLength
      BY <1>8, <1>9, <3>1, <3>3 DEF Kept
    <3>5. One(k, l) \/ FreeList(k)
      <4>1. FreeList(u) => FreeList(k)
        BY <1>7 DEF FreeList
      <4>2. QED
        BY <1>4, <1>7, <1>9, <3>1, <3>3, <3>4, <4>1
    <3>6. One(g, l) \/ FreeList(g)
      BY <1>12, <1>13, <3>4, <3>5
    <3>7. Own(g, it, v)
      <4>1. it.open => it.list \in List
        BY <1>10 DEF Follows
      <4>2. Other(k, it, v) \/ One(k, it.list)
        BY <1>8, <1>9 DEF Kept, Own
      <4>3. CASE ~it.open
        BY <4>3 DEF Own, Other
      <4>4. CASE it.open
        BY <1>12, <1>13, <4>1, <4>2, <4>4 DEF Own
      <4>5. QED
        BY <4>3, <4>4
    <3>8. Final(g, v) = l /\ g.list = k.list
      BY <1>12, <3>3
    <3>9. Extends(g, it, v)
      BY <3>4, <3>6, <3>7, <3>8 DEF Extends
    <3>10. AtPush(g, it, Tail(c))
      BY <1>10, <1>12, <3>2, <3>9 DEF AtPush
    <3>11. QED
      BY <3>10 DEF At
  <2>4. CASE /\ c = <<OpX("GetRef", y), Op("NewIterator")>>
             /\ Final(h, h.var[y]) \in List /\ ~it.open
    <3>1. Tail(c) = <<Op("NewIterator")>>
      BY <2>4, Tails
    <3>2. Final(g, v) \in List
      BY <1>8, <1>9, <1>12, <2>4 DEF Kept
    <3>3. AtNewIterator(g, it, Tail(c))
      BY <1>10, <1>12, <2>4, <3>1, <3>2 DEF AtNewIterator
    <3>4. QED
      BY <3>3 DEF At
  <2>5. CASE c = <<OpX("GetRef", y), Op("Call")>>
    <3>1. Tail(c) = <<Op("Call")>>
      BY <2>5, Tails
    <3>2. AtCall(g, it, Tail(c))
      BY <1>10, <1>12, <3>1 DEF AtCall
    <3>3. QED
      BY <3>2 DEF At
  <2>6. QED
    BY <1>2, <2>1, <2>2, <2>3, <2>4, <2>5
<1>16. QED
  BY <1>3, <1>9, <1>11, <1>12, <1>15 DEF Sound

\* GetUniqueGlobal and GetUniqueLocal leave what the next opcode relies on.
LEMMA GetUniqueSound ==
    ASSUME NEW h, NEW it, NEW c, Sound(h, it, c), c # <<>>, Head(c).op = "GetUnique",
           NEW u, u = unshare(h, Var(Head(c).x))
    PROVE  Sound(Push(u, u.var[Head(c).x]), it, Tail(c))
<1>1. Good(h) /\ Follows(h, it) /\ AtGetUnique(h, it, c)
  BY NextOpcode DEF Sound
<1>2. PICK y \in Variable, i \in Index :
        /\ h.stack = <<>>
        /\ Indexed(h, h.var[y], i)
        /\ FreeList(h)
        /\ Own(h, it, h.var[y])
        /\ \/ \E x \in Variable :
                 /\ c = <<OpX("GetUnique", y), OpI("GetIndexRef", i), OpX("Set", x)>>
                 /\ Other(h, it, h.var[x])
                 /\ Apart(h, h.var[x], Items(h, Final(h, h.var[y]))[i])
                 /\ FreeBox(h)
           \/ \E w \in Scalar :
                 /\ c = <<OpX("GetUnique", y), OpW(w), OpI("SetIndex", i)>>
                 /\ h.var[y] \notin Box => TwoFreeLists(h)
  BY <1>1 DEF AtGetUnique
<1>3. Head(c).x = y
  BY <1>2, Tails DEF OpX
<1>4. /\ Kept(h, u, it, y)
      /\ Final(h, h.var[y]) \in List => One(u, Final(u, u.var[y]))
      /\ u.var[y] \in Box <=> h.var[y] \in Box
      /\ FreeBox(h) => FreeBox(u)
      /\ \/ u = h
         \/ \E m : /\ Unshared(h, u, h.var[y], m) /\ Final(u, u.var[y]) = m
                   /\ u.var = IF h.var[y] \in Box THEN h.var ELSE [h.var EXCEPT ![y] = m]
  <2>1. Good(h) /\ Follows(h, it) /\ Own(h, it, h.var[y]) /\ FreeList(h)
    BY <1>1, <1>2
  <2>2. u = unshare(h, Var(y))
    BY <1>3
  <2>3. QED
    BY <2>1, <2>2, UnshareKeeps
<1>5. PICK v : v = u.var[y]
  OBVIOUS
<1>6. Good(u) /\ Follows(u, it) /\ u.stack = <<>>
  BY <1>2, <1>4 DEF Kept
<1>7. v \in Variant /\ Exists(u, v)
  <2>1. v \in Variant
    BY <1>5, <1>6, GoodBoxes
  <2>2. Exists(u, v)
    BY <1>5, <1>6 DEF Good, Live
  <2>3. QED
    BY <2>1, <2>2
<1>8. PICK g : g = Push(u, v)
  OBVIOUS
<1>9. /\ Good(g) /\ Follows(g, it) /\ g.stack = <<v>>
      /\ g.var = u.var /\ g.list = u.list
      /\ FreeBox(g) = FreeBox(u) /\ FreeList(g) = FreeList(u) /\ TwoFreeLists(g) = TwoFreeLists(u)
      /\ \A w : Final(g, w) = Final(u, w) /\ NoItem(g, w) = NoItem(u, w)
                /\ Other(g, it, w) = Other(u, it, w)
      /\ \A a, w : Apart(g, a, w) = Apart(u, a, w)
      /\ \A l : Items(g, l) = Items(u, l)
      /\ \A w, j : Indexed(g, w, j) = Indexed(u, w, j)
      /\ \A o \in List : One(u, o) /\ o # v => One(g, o)
  BY <1>6, <1>7, <1>8, PushFacts
<1>10. Final(h, h.var[y]) \in List /\ i \in 1..Len(h.list[Final(h, h.var[y])])
  BY <1>2 DEF Indexed
<1>11. PICK l : l = Final(u, v)
  OBVIOUS
<1>12. l \in List /\ i \in 1..Len(u.list[l]) /\ One(u, l)
  BY <1>4, <1>5, <1>10, <1>11 DEF Kept
<1>13. Indexed(u, v, i)
  BY <1>11, <1>12 DEF Indexed
<1>14. i \in DOMAIN Items(u, l)
  <2>1. Exists(u, l)
    BY <1>6, <1>7, <1>11, FinalExists
  <2>2. u.list[l] # Freed
    BY <1>12, <2>1 DEF Exists
  <2>3. Items(u, l) = u.list[l] /\ u.list[l] \in Seq(Flat)
    BY <1>6, <1>12, <2>2, ItemsOf
  <2>4. QED
    BY <1>12, <2>3
<1>15. At(g, it, Tail(c))
  <2>1. CASE \E x \in Variable :
                 /\ c = <<OpX("GetUnique", y), OpI("GetIndexRef", i), OpX("Set", x)>>
                 /\ Other(h, it, h.var[x])
                 /\ Apart(h, h.var[x], Items(h, Final(h, h.var[y]))[i])
                 /\ FreeBox(h)
    <3>1. PICK x \in Variable :
                 /\ c = <<OpX("GetUnique", y), OpI("GetIndexRef", i), OpX("Set", x)>>
                 /\ Other(h, it, h.var[x])
                 /\ Apart(h, h.var[x], Items(h, Final(h, h.var[y]))[i])
                 /\ FreeBox(h)
      BY <2>1
    <3>2. Tail(c) = <<OpI("GetIndexRef", i), OpX("Set", x)>>
      BY <3>1, Tails
    <3>3. Other(u, it, u.var[x]) /\ Apart(u, u.var[x], Items(u, l)[i])
      <4>1. CASE u = h
        BY <1>5, <1>11, <3>1, <4>1
      <4>2. CASE \E m : /\ Unshared(h, u, h.var[y], m) /\ Final(u, u.var[y]) = m
                        /\ u.var = IF h.var[y] \in Box THEN h.var ELSE [h.var EXCEPT ![y] = m]
        <5>1. PICK m : /\ Unshared(h, u, h.var[y], m) /\ Final(u, u.var[y]) = m
                       /\ u.var = IF h.var[y] \in Box THEN h.var ELSE [h.var EXCEPT ![y] = m]
          BY <4>2
        <5>2. m = l /\ m \notin Box
          BY <1>5, <1>11, <1>12, <5>1, Kinds
        <5>3. Items(u, l)[i] \notin Box
          BY <1>14, <5>1, <5>2 DEF Unshared
        <5>4. Apart(u, u.var[x], Items(u, l)[i])
          BY <5>3, Plainly
        <5>5. u.var[x] = h.var[x] \/ u.var[x] = m
          BY <1>1, <5>1, GoodBoxes
        <5>6. Other(u, it, h.var[x])
          BY <1>1, <3>1, <5>1, UnsharedFacts
        <5>7. QED
          BY <5>2, <5>4, <5>5, <5>6, Plainly
      <4>3. QED
        BY <1>4, <4>1, <4>2
    <3>4. Indexed(g, v, i) /\ Other(g, it, g.var[x]) /\ FreeBox(g)
      BY <1>4, <1>9, <1>13, <3>1, <3>3
    <3>5. Apart(g, g.var[x], Items(g, Final(g, v))[i])
      BY <1>9, <1>11, <3>3
    <3>6. AtGetIndexRef(g, it, Tail(c))
      BY <1>7, <1>9, <3>2, <3>4, <3>5 DEF AtGetIndexRef
    <3>7. QED
      BY <3>6 DEF At
  <2>2. CASE \E w \in Scalar :
                 /\ c = <<OpX("GetUnique", y), OpW(w), OpI("SetIndex", i)>>
                 /\ h.var[y] \notin Box => TwoFreeLists(h)
    <3>1. PICK w \in Scalar :
                 /\ c = <<OpX("GetUnique", y), OpW(w), OpI("SetIndex", i)>>
                 /\ h.var[y] \notin Box => TwoFreeLists(h)
      BY <2>2
    <3>2. Tail(c) = <<OpW(w), OpI("SetIndex", i)>>
      BY <3>1, Tails
    <3>3. v \in Box => One(g, Final(g, v))
      <4>1. v \in Box => l # v
        BY <1>12, Kinds
      <4>2. QED
        BY <1>9, <1>11, <1>12, <4>1
    <3>4. v \in List => FreeList(g)
      <4>1. SUFFICES ASSUME v \in List PROVE FreeList(u)
        BY <1>9
      <4>2. TwoFreeLists(h)
        BY <1>4, <1>5, <3>1, <4>1, Kinds
      <4>3. CASE u = h
        BY <1>2, <4>3
      <4>4. CASE \E m : Unshared(h, u, h.var[y], m)
        <5>1. PICK m : Unshared(h, u, h.var[y], m)
          BY <4>4
        <5>2. PICK n \in List : n # m /\ h.list[n] = Freed
          BY <4>2 DEF TwoFreeLists
        <5>3. u.list[n] = Freed
          BY <5>1, <5>2 DEF Unshared
        <5>4. QED
          BY <5>3 DEF FreeList
      <4>5. QED
        BY <1>4, <4>3, <4>4
    <3>5. Indexed(g, v, i)
      BY <1>9, <1>13
    <3>6. AtPush(g, it, Tail(c))
      BY <1>2, <1>7, <1>9, <3>2, <3>3, <3>4, <3>5 DEF AtPush
    <3>7. QED
      BY <3>6 DEF At
  <2>3. QED
    BY <1>2, <2>1, <2>2
<1>16. QED
  BY <1>3, <1>5, <1>8, <1>9, <1>15 DEF Sound

\* GetIndexRef makes a reference of an item without a change to what it resolves to.
LEMMA GetIndexRefSound ==
    ASSUME NEW h, NEW it, NEW c, Sound(h, it, c), c # <<>>, Head(c).op = "GetIndexRef",
           NEW item, item = Item(Resolve(h, Stack(Len(h.stack))), Head(c).i),
           NEW k, k = make_alias(h, item)
    PROVE  Sound(Push(Pop(k, 1), Get(k, item)), it, Tail(c))
<1>1. Good(h) /\ Follows(h, it) /\ AtGetIndexRef(h, it, c)
  BY NextOpcode DEF Sound
<1>2. PICK x \in Variable, v \in Variant, i \in Index :
        /\ c = <<OpI("GetIndexRef", i), OpX("Set", x)>> /\ h.stack = <<v>>
        /\ Indexed(h, v, i)
        /\ Other(h, it, h.var[x])
        /\ Apart(h, h.var[x], Items(h, Final(h, v))[i])
        /\ FreeBox(h)
  BY <1>1 DEF AtGetIndexRef
<1>3. Head(c).i = i /\ Tail(c) = <<OpX("Set", x)>>
  BY <1>2, Tails DEF OpI
<1>4. Exists(h, v)
  BY <1>1, <1>2 DEF Good, Live
<1>5. PICK l : l = Final(h, v)
  OBVIOUS
<1>6. l \in List /\ i \in 1..Len(h.list[l]) /\ Exists(h, l)
  BY <1>1, <1>2, <1>4, <1>5, FinalExists DEF Indexed
<1>7. Items(h, l) = h.list[l] /\ h.list[l] \in Seq(Flat) /\ i \in DOMAIN Items(h, l)
  <2>1. h.list[l] # Freed
    BY <1>6 DEF Exists
  <2>2. Items(h, l) = h.list[l] /\ h.list[l] \in Seq(Flat)
    BY <1>1, <1>6, <2>1, ItemsOf
  <2>3. QED
    BY <1>6, <2>2
<1>8. item = Item(l, i)
  <2>1. Get(h, Stack(Len(h.stack))) = v
    BY <1>2, Gets
  <2>2. Resolve(h, Stack(Len(h.stack))) = l
    BY <1>1, <1>5, <2>1, GoodBoxes, ResolveIs
  <2>3. QED
    BY <1>3, <2>2
<1>9. k = make_alias(h, Item(l, i))
  BY <1>8
<1>10. /\ Items(h, l)[i] \in Box => k = h
       /\ Items(h, l)[i] \notin Box =>
             /\ WithBox(h, k, Items(k, l)[i], Items(h, l)[i])
             /\ k.list = [h.list EXCEPT ![l] = [h.list[l] EXCEPT ![i] = Items(k, l)[i]]]
             /\ k.var = h.var /\ k.stack = h.stack /\ k.object = h.object
       /\ Good(k)
       /\ Get(k, Item(l, i)) = Items(k, l)[i]
       /\ i \in DOMAIN Items(k, l)
  BY <1>1, <1>2, <1>6, <1>7, <1>9, AliasItem
<1>11. /\ Follows(k, it)
       /\ Good(k) /\ k.var = h.var /\ k.stack = h.stack /\ k.object = h.object
       /\ \A m \in List : Len(k.list[m]) = Len(h.list[m])
  BY <1>1, <1>2, <1>6, <1>7, <1>9, AliasItemFollows
<1>12. PICK r : r = Items(k, l)[i]
  OBVIOUS
<1>13. Exists(k, r) /\ r \in Variant /\ Final(k, r) \notin List
  <2>1. Good(k) /\ i \in DOMAIN Items(k, l)
    BY <1>10
  <2>2. QED
    BY <1>6, <1>12, <2>1, ItemExists
<1>14. Apart(k, h.var[x], r) /\ Other(k, it, h.var[x])
  <2>1. CASE Items(h, l)[i] \in Box
    BY <1>2, <1>5, <1>10, <1>12, <2>1
  <2>2. CASE Items(h, l)[i] \notin Box
    <3>1. WithBox(h, k, r, Items(h, l)[i])
      BY <1>10, <1>12, <2>2
    <3>2. r \in Box /\ h.box[r] = Freed /\ Last(k, r) = r /\ \A b \in Box : Last(k, b) = Last(h, b)
      BY <3>1 DEF WithBox
    <3>3. h.var[x] \in Variant /\ Exists(h, h.var[x])
      BY <1>1, GoodBoxes DEF Good, Live
    <3>4. h.var[x] \in Box => Last(h, h.var[x]) # r
      BY <1>1, <3>2, <3>3, LastExists
    <3>5. Apart(k, h.var[x], r)
      BY <3>2, <3>4 DEF Apart
    <3>6. Other(k, it, h.var[x])
      BY <1>2, <1>11, <3>2 DEF Other, Apart
    <3>7. QED
      BY <3>5, <3>6
  <2>3. QED
    BY <2>1, <2>2
<1>15. PICK p : p = Pop(k, 1)
  OBVIOUS
<1>16. OtherStack(k, p) /\ p.stack = <<>>
  <2>1. Good(k) /\ k.stack = <<v>>
    BY <1>2, <1>11
  <2>2. QED
    BY <1>15, <2>1, PopOne
<1>17. Good(p) /\ Follows(p, it) /\ Exists(p, r) /\ p.var = h.var
       /\ Apart(p, h.var[x], r) /\ Other(p, it, h.var[x]) /\ Final(p, r) \notin List
  <2>1. Good(p) /\ p.var = k.var /\ p.box = k.box /\ p.list = k.list /\ p.object = k.object
    BY <1>16 DEF OtherStack
  <2>2. QED
    BY <1>11, <1>13, <1>14, <2>1, SameFacts
<1>18. PICK g : g = Push(p, r)
  OBVIOUS
<1>19. /\ Good(g) /\ Follows(g, it) /\ g.stack = <<r>>
       /\ g.var = p.var /\ g.list = p.list
       /\ FreeBox(g) = FreeBox(p) /\ FreeList(g) = FreeList(p) /\ TwoFreeLists(g) = TwoFreeLists(p)
       /\ \A w : Final(g, w) = Final(p, w) /\ NoItem(g, w) = NoItem(p, w)
                 /\ Other(g, it, w) = Other(p, it, w)
       /\ \A a, w : Apart(g, a, w) = Apart(p, a, w)
       /\ \A m : Items(g, m) = Items(p, m)
       /\ \A w, j : Indexed(g, w, j) = Indexed(p, w, j)
       /\ \A o \in List : One(p, o) /\ o # r => One(g, o)
  BY <1>13, <1>16, <1>17, <1>18, PushFacts
<1>20. Fits(g, it, g.var[x], r)
  BY <1>17, <1>19 DEF Fits
<1>21. AtSet(g, it, Tail(c))
  BY <1>3, <1>13, <1>19, <1>20 DEF AtSet
<1>22. Get(k, item) = r
  BY <1>8, <1>10, <1>12
<1>23. QED
  BY <1>15, <1>18, <1>19, <1>21, <1>22 DEF Sound, At

\* An item, or the box that it leads to, receives the scalar w.
LEMMA AssignItem ==
    ASSUME NEW h, Good(h), NEW it, Follows(h, it), NEW l \in List, NEW i \in DOMAIN Items(h, l),
           NEW w \in Scalar, NEW g, g = assign(h, Item(l, i), w)
    PROVE  Good(g) /\ Follows(g, it) /\ g.stack = h.stack
<1>1. h.list[l] # Freed
  BY ItemsOf
<1>2. /\ Items(h, l) = h.list[l] /\ Len(h.list[l]) \in 1..MaxLength
      /\ h.list[l] \in Seq(Flat)
  BY <1>1, ItemsOf
<1>3. PICK a : a = Items(h, l)[i]
  OBVIOUS
<1>4. Exists(h, a) /\ a \in Variant /\ Final(h, a) \notin List
  BY <1>3, ItemExists
<1>5. Place(h, Item(l, i)) = IF a \in Box THEN InBox(Last(h, a)) ELSE Item(l, i)
  <2>1. Get(h, Item(l, i)) = a
    BY <1>2, <1>3, Gets
  <2>2. QED
    BY <2>1, GoodBoxes, ResolveIs
<1>6. w \in Variant /\ Exists(h, w) /\ w \notin Box /\ w \notin List /\ Final(h, w) = w
  BY Plainly
<1>7. it.open => /\ it.list \in List /\ h.object \in Box /\ h.object \in Variant
                 /\ Final(h, h.object) = it.list
  BY Kinds DEF Follows
<1>8. CASE a \notin Box
  <2>1. PICK s : s = [h.list[l] EXCEPT ![i] = w]
    OBVIOUS
  <2>2. s \in Seq(Flat) /\ Len(s) = Len(h.list[l]) /\ DOMAIN s = DOMAIN h.list[l]
        /\ \A j \in DOMAIN s : s[j] = h.list[l][j] \/ s[j] = w
    <3>1. w \in Flat
      BY DEF Flat
    <3>2. QED
      BY <1>2, <2>1, <3>1
  <2>3. \A j \in DOMAIN h.list[l] : Exists(h, h.list[l][j]) /\ Final(h, h.list[l][j]) \notin List
    BY <1>2, ItemExists
  <2>4. Fine(h, s)
    BY <1>2, <1>6, <2>2, <2>3 DEF Fine
  <2>5. ListSet(h, g, l, s)
    <3>1. ItemSet(h, g, l, i, w)
      BY <1>5, <1>8, Puts DEF assign
    <3>2. QED
      BY <2>1, <3>1 DEF ItemSet, ListSet
  <2>6. ListChanged(h, g, l, s)
    BY <2>4, <2>5, GoodList
  <2>7. /\ Good(g) /\ g.stack = h.stack /\ g.box = h.box /\ g.object = h.object
        /\ g.list[l] = s /\ \A m \in List \ {l} : g.list[m] = h.list[m]
    BY <2>6 DEF ListChanged
  <2>8. \A m \in List : Len(g.list[m]) = Len(h.list[m])
    BY <2>2, <2>7
  <2>9. Final(g, g.object) = Final(h, h.object)
    BY <2>7, SameBoxes
  <2>10. Follows(g, it)
    BY <2>7, <2>8, <2>9 DEF Follows
  <2>11. QED
    BY <2>7, <2>10
<1>9. CASE a \in Box
  <2>1. PICK e : e = Last(h, a)
    OBVIOUS
  <2>2. e \in Box /\ h.box[e] \notin Box
    BY <1>9, <2>1, GoodBoxes, LastIs
  <2>3. BoxPut(h, g, e, w)
    BY <1>5, <1>9, <2>1, Puts DEF assign
  <2>4. /\ Good(g)
        /\ g.box = [h.box EXCEPT ![e] = w]
        /\ g.var = h.var /\ g.list = h.list /\ g.stack = h.stack /\ g.object = h.object
        /\ \A m : Items(g, m) = Items(h, m)
        /\ \A b \in Box : Last(g, b) = IF Last(h, b) = e /\ w \in Box THEN Last(h, w) ELSE Last(h, b)
        /\ \A v : Final(g, v) = IF v \in Box /\ Last(h, v) = e THEN Final(h, w) ELSE Final(h, v)
    <3>1. /\ w \in Box => Last(h, w) # e
          /\ Final(h, w) \in List => NoItemEnds(h, e)
      BY <1>6
    <3>2. QED
      BY <1>6, <2>2, <2>3, <3>1, GoodBox
  <2>5. it.open => Last(h, h.object) # e
    BY <1>4, <1>7, <1>9, <2>1 DEF Final
  <2>6. Follows(g, it)
    BY <1>7, <2>4, <2>5 DEF Follows
  <2>7. QED
    BY <2>4, <2>6
<1>10. QED
  BY <1>8, <1>9

\* The pop of the only two values on the stack.
LEMMA PopTwo ==
    ASSUME NEW h, Good(h), NEW a, NEW b, h.stack = <<a, b>>
    PROVE  OtherStack(h, Pop(h, 2)) /\ Pop(h, 2).stack = <<>>
<1>1. Len(h.stack) = 2 /\ 2 \in Nat /\ 2 <= Len(h.stack)
  OBVIOUS
<1>2. /\ OtherStack(h, Pop(h, 2))
      /\ Pop(h, 2).stack = SubSeq(h.stack, 1, Len(h.stack) - 2)
  BY <1>1, PopIs, Zenon
<1>3. SubSeq(h.stack, 1, Len(h.stack) - 2) = <<>>
  <2>1. Len(h.stack) - 2 = 0
    BY <1>1
  <2>2. SubSeq(h.stack, 1, 0) = <<>>
    BY Stacks
  <2>3. QED
    BY <2>1, <2>2
<1>4. QED
  BY <1>2, <1>3

\* g is h, where the list that v leads to, which is on the stack, is held once.
StackUnshared(h, g, v, j) ==
    /\ Final(h, v) \notin List \/ One(h, Final(h, v)) => g = h
    /\ Final(h, v) \in List /\ ~One(h, Final(h, v)) =>
          \E m : /\ Unshared(h, g, v, m)
                 /\ g.var = h.var
                 /\ g.stack = IF v \in Box THEN h.stack ELSE [h.stack EXCEPT ![j] = m]

\* What unshare does to the base of an assignment, in one case.
LEMMA UnshareStackIs ==
    ASSUME NEW h, Good(h), NEW j \in DOMAIN h.stack, One(h, Final(h, h.stack[j])) \/ FreeList(h),
           NEW g, g = unshare(h, Stack(j))
    PROVE  StackUnshared(h, g, h.stack[j], j)
<1>1. PICK v : v = h.stack[j]
  OBVIOUS
<1>2. /\ Final(h, v) \notin List \/ One(h, Final(h, v)) => g = h
      /\ Final(h, v) \in List /\ ~One(h, Final(h, v)) =>
            \E m : /\ Unshared(h, g, v, m)
                   /\ g.var = h.var
                   /\ g.stack = IF v \in Box THEN h.stack ELSE [h.stack EXCEPT ![j] = m]
  BY <1>1, UnshareStack
<1>3. StackUnshared(h, g, v, j)
  BY <1>2 DEF StackUnshared
<1>4. QED
  BY <1>1, <1>3

\* The list that the first of two variants on the stack leads to is unshared.
LEMMA UnshareFirst ==
    ASSUME NEW h, Good(h), NEW it, Follows(h, it), NEW v \in Variant, NEW w, h.stack = <<v, w>>,
           Final(h, v) \in List, Own(h, it, v) \/ v \notin Box,
           One(h, Final(h, v)) \/ FreeList(h),
           NEW g, g = unshare(h, Stack(1))
    PROVE  /\ Good(g) /\ Follows(g, it) /\ g.object = h.object
           /\ Len(g.stack) = 2 /\ g.stack[2] = w /\ g.stack = <<g.stack[1], w>>
           /\ Final(g, g.stack[1]) \in List
           /\ Len(g.list[Final(g, g.stack[1])]) = Len(h.list[Final(h, v)])
<1>1. 1 \in DOMAIN h.stack /\ v = h.stack[1]
  OBVIOUS
<1>2. /\ Final(h, v) \notin List \/ One(h, Final(h, v)) => g = h
      /\ Final(h, v) \in List /\ ~One(h, Final(h, v)) =>
            \E m : /\ Unshared(h, g, v, m)
                   /\ g.var = h.var
                   /\ g.stack = IF v \in Box THEN h.stack ELSE [h.stack EXCEPT ![1] = m]
  <2>1. StackUnshared(h, g, h.stack[1], 1)
    BY <1>1, UnshareStackIs
  <2>2. StackUnshared(h, g, v, 1)
    BY <1>1, <2>1
  <2>3. QED
    BY <2>2 DEF StackUnshared
<1>3. CASE One(h, Final(h, v))
  <2>1. g = h
    BY <1>2, <1>3
  <2>2. Len(h.stack) = 2 /\ h.stack[2] = w /\ h.stack[1] = v
    OBVIOUS
  <2>3. QED
    BY <2>1, <2>2
<1>4. CASE ~One(h, Final(h, v))
  <2>1. PICK m : /\ Unshared(h, g, v, m)
                 /\ g.stack = IF v \in Box THEN h.stack ELSE [h.stack EXCEPT ![1] = m]
    BY <1>2, <1>4
  <2>2. Other(h, it, v)
    <3>1. CASE v \in Box
      BY <1>4, <3>1, OwnShared
    <3>2. CASE v \notin Box
      BY <3>2, Plainly
    <3>3. QED
      BY <3>1, <3>2
  <2>3. Follows(g, it)
    BY <2>1, <2>2, UnsharedFollows
  <2>4. m \in List /\ m \notin Box /\ Good(g) /\ g.object = h.object
        /\ Len(g.list[m]) = Len(h.list[Final(h, v)])
    BY <2>1, Kinds DEF Unshared
  <2>5. g.stack = IF v \in Box THEN <<v, w>> ELSE <<m, w>>
    <3>1. [<<v, w>> EXCEPT ![1] = m] = <<m, w>>
      OBVIOUS
    <3>2. QED
      BY <2>1, <3>1
  <2>6. Final(g, g.stack[1]) = m
    <3>1. Exists(h, v)
      BY <1>1 DEF Good, Live
    <3>2. CASE v \in Box
      <4>1. g.stack[1] = v
        BY <2>5, <3>2
      <4>2. QED
        BY <2>1, <3>1, <3>2, <4>1 DEF Unshared
    <3>3. CASE v \notin Box
      <4>1. g.stack[1] = m
        BY <2>5, <3>3
      <4>2. QED
        BY <2>4, <4>1, Plainly
    <3>4. QED
      BY <3>2, <3>3
  <2>7. Len(g.stack) = 2 /\ g.stack[2] = w /\ g.stack = <<g.stack[1], w>>
    BY <2>5
  <2>8. QED
    BY <2>3, <2>4, <2>6, <2>7
<1>5. QED
  BY <1>3, <1>4

\* SetIndex assigns to an item that exists, of a list that it has for itself.
LEMMA SetIndexSound ==
    ASSUME NEW h, NEW it, NEW c, Sound(h, it, c), c # <<>>, Head(c).op = "SetIndex",
           NEW base, base = Stack(Len(h.stack) - 1),
           NEW g, g = unshare(h, base),
           NEW item, item = Item(Resolve(g, base), Head(c).i)
    PROVE  Sound(Pop(assign(g, item, Top(g)), 2), it, Tail(c))
<1>1. Good(h) /\ Follows(h, it) /\ AtSetIndex(h, it, c)
  BY NextOpcode DEF Sound
<1>2. PICK v \in Variant, w \in Scalar, i \in Index :
        /\ c = <<OpI("SetIndex", i)>> /\ h.stack = <<v, w>>
        /\ Indexed(h, v, i)
        /\ v \in Box => One(h, Final(h, v))
        /\ v \in List => FreeList(h)
  BY <1>1 DEF AtSetIndex
<1>3. Head(c).i = i /\ Tail(c) = <<>>
  BY <1>2, Tails DEF OpI
<1>4. Final(h, v) \in List /\ i \in 1..Len(h.list[Final(h, v)])
  BY <1>2 DEF Indexed
<1>5. /\ Own(h, it, v) \/ v \notin Box
      /\ One(h, Final(h, v)) \/ FreeList(h)
  <2>1. CASE v \in Box
    <3>1. One(h, Final(h, v))
      BY <1>2, <2>1
    <3>2. Other(h, it, v) \/ One(h, it.list)
      <4>1. SUFFICES ASSUME ~Other(h, it, v) PROVE One(h, it.list)
        OBVIOUS
      <4>2. it.open /\ Last(h, v) = Last(h, h.object)
        BY <4>1 DEF Other, Apart
      <4>3. h.object \in Box /\ Final(h, h.object) = it.list
        BY <1>1, <4>2 DEF Follows
      <4>4. Final(h, v) = it.list
        BY <2>1, <4>2, <4>3 DEF Final
      <4>5. QED
        BY <3>1, <4>4
    <3>3. QED
      BY <3>1, <3>2 DEF Own
  <2>2. CASE v \notin Box
    <3>1. v \in List
      BY <1>4, <2>2, Plainly
    <3>2. QED
      BY <1>2, <2>2, <3>1
  <2>3. QED
    BY <2>1, <2>2
<1>6. base = Stack(1)
  BY <1>2
<1>7. g = unshare(h, Stack(1))
  BY <1>6
<1>8. /\ Good(g) /\ Follows(g, it) /\ g.object = h.object
      /\ Len(g.stack) = 2 /\ g.stack[2] = w /\ g.stack = <<g.stack[1], w>>
      /\ Final(g, g.stack[1]) \in List
      /\ Len(g.list[Final(g, g.stack[1])]) = Len(h.list[Final(h, v)])
  BY <1>1, <1>2, <1>4, <1>5, <1>7, UnshareFirst
<1>9. PICK l : l = Final(g, g.stack[1])
  OBVIOUS
<1>10. item = Item(l, i)
  <2>1. Get(g, base) = g.stack[1]
    BY <1>6, Gets
  <2>2. Resolve(g, base) = l
    BY <1>8, <1>9, <2>1, GoodBoxes, ResolveIs
  <2>3. QED
    BY <1>3, <2>2
<1>11. l \in List /\ i \in DOMAIN Items(g, l)
  <2>1. l \in List /\ i \in 1..Len(g.list[l])
    BY <1>4, <1>8, <1>9
  <2>2. 1 \in DOMAIN g.stack
    BY <1>8, GoodBoxes
  <2>3. Exists(g, g.stack[1]) /\ g.stack[1] \in Variant
    <3>1. Exists(g, g.stack[1])
      BY <1>8, <2>2 DEF Good, Live
    <3>2. g.stack \in Seq(Variant)
      BY <1>8, GoodBoxes
    <3>3. QED
      BY <2>2, <3>1, <3>2
  <2>4. Exists(g, l)
    BY <1>8, <1>9, <2>3, FinalExists
  <2>5. g.list[l] # Freed
    BY <2>1, <2>4 DEF Exists
  <2>6. Items(g, l) = g.list[l] /\ g.list[l] \in Seq(Flat)
    BY <1>8, <2>1, <2>5, ItemsOf
  <2>7. QED
    BY <2>1, <2>6
<1>12. Top(g) = w
  BY <1>8 DEF Top
<1>13. PICK k : k = assign(g, Item(l, i), w)
  OBVIOUS
<1>14. Good(k) /\ Follows(k, it) /\ k.stack = g.stack
  BY <1>8, <1>11, <1>13, AssignItem
<1>15. PICK r : r = Pop(k, 2)
  OBVIOUS
<1>16. OtherStack(k, r) /\ r.stack = <<>>
  <2>1. k.stack = <<g.stack[1], w>>
    BY <1>8, <1>14
  <2>2. QED
    BY <1>14, <1>15, <2>1, PopTwo
<1>17. Good(r) /\ Follows(r, it)
  BY <1>14, <1>16, SameFacts DEF OtherStack
<1>18. QED
  BY <1>3, <1>10, <1>12, <1>13, <1>15, <1>16, <1>17, Ends

\* Append adds an item to the list that its argument leads to.
LEMMA CallAppendSound ==
    ASSUME NEW h, NEW it, NEW c, Sound(h, it, c), c # <<>>, Head(c).op = "CallAppend",
           NEW base, base = Stack(Len(h.stack) - 1),
           NEW g, g = unshare(h, base)
    PROVE  Sound(Pop([g EXCEPT !.list[Resolve(g, base)] = Append(@, Top(g))], 2), it, Tail(c))
<1>1. Good(h) /\ Follows(h, it) /\ AtCallAppend(h, it, c)
  BY NextOpcode DEF Sound
<1>2. PICK v \in Box, w \in Scalar :
        c = <<Op("CallAppend")>> /\ h.stack = <<v, w>> /\ Extends(h, it, v)
  BY <1>1 DEF AtCallAppend
<1>3. Tail(c) = <<>>
  BY <1>2, Tails
<1>4. /\ Final(h, v) \in List /\ Len(h.list[Final(h, v)]) < MaxLength
      /\ Own(h, it, v)
      /\ One(h, Final(h, v)) \/ FreeList(h)
      /\ v \in Variant
  BY <1>2, Kinds DEF Extends
<1>5. base = Stack(1)
  BY <1>2
<1>6. g = unshare(h, Stack(1))
  BY <1>5
<1>7. /\ Good(g) /\ Follows(g, it) /\ g.object = h.object
      /\ Len(g.stack) = 2 /\ g.stack[2] = w /\ g.stack = <<g.stack[1], w>>
      /\ Final(g, g.stack[1]) \in List
      /\ Len(g.list[Final(g, g.stack[1])]) = Len(h.list[Final(h, v)])
  BY <1>1, <1>2, <1>4, <1>6, UnshareFirst
<1>8. PICK l : l = Final(g, g.stack[1])
  OBVIOUS
<1>9. Resolve(g, base) = l
  <2>1. Get(g, base) = g.stack[1]
    BY <1>5, Gets
  <2>2. QED
    BY <1>7, <1>8, <2>1, GoodBoxes, ResolveIs
<1>10. Top(g) = w
  BY <1>7 DEF Top
<1>11. l \in List /\ Items(g, l) = g.list[l] /\ g.list[l] \in Seq(Flat)
       /\ Len(g.list[l]) \in 1..MaxLength /\ Len(g.list[l]) < MaxLength
  <2>1. l \in List /\ Len(g.list[l]) < MaxLength
    BY <1>4, <1>7, <1>8
  <2>2. 1 \in DOMAIN g.stack
    BY <1>7, GoodBoxes
  <2>3. Exists(g, g.stack[1]) /\ g.stack[1] \in Variant
    <3>1. Exists(g, g.stack[1])
      BY <1>7, <2>2 DEF Good, Live
    <3>2. g.stack \in Seq(Variant)
      BY <1>7, GoodBoxes
    <3>3. QED
      BY <2>2, <3>1, <3>2
  <2>4. Exists(g, l)
    BY <1>7, <1>8, <2>3, FinalExists
  <2>5. g.list[l] # Freed
    BY <2>1, <2>4 DEF Exists
  <2>6. QED
    BY <1>7, <2>1, <2>5, ItemsOf
<1>12. PICK s : s = Append(g.list[l], w)
  OBVIOUS
<1>13. s \in Seq(Flat) /\ Len(s) = Len(g.list[l]) + 1
       /\ \A i \in DOMAIN s : (i \in DOMAIN g.list[l] /\ s[i] = g.list[l][i]) \/ s[i] = w
  <2>1. w \in Flat
    BY DEF Flat
  <2>2. QED
    BY <1>11, <1>12, <2>1
<1>14. Fine(g, s)
  <2>1. \A i \in DOMAIN g.list[l] : Exists(g, g.list[l][i]) /\ Final(g, g.list[l][i]) \notin List
    BY <1>7, <1>11, ItemExists
  <2>2. Exists(g, w) /\ Final(g, w) \notin List
    BY Plainly
  <2>3. Len(s) \in 1..MaxLength
    BY <1>11, <1>13, BoundIsPositive
  <2>4. QED
    BY <1>13, <2>1, <2>2, <2>3 DEF Fine
<1>15. PICK k : k = [g EXCEPT !.list[l] = s]
  OBVIOUS
<1>16. ListChanged(g, k, l, s)
  BY <1>7, <1>11, <1>14, <1>15, GoodList DEF ListSet
<1>17. /\ Good(k) /\ k.stack = g.stack /\ k.box = g.box /\ k.object = g.object
       /\ k.list[l] = s /\ \A m \in List \ {l} : k.list[m] = g.list[m]
  BY <1>16 DEF ListChanged
<1>18. Follows(k, it)
  <2>1. CASE ~it.open
    BY <1>7, <2>1 DEF Follows
  <2>2. CASE it.open
    <3>1. /\ it.list \in List /\ it.over \in Variable /\ g.object \in Box
          /\ Final(g, g.object) = it.list
          /\ it.pos \in 0..MaxLength + 1 /\ it.pos \in 1..Len(g.list[it.list]) + 1
      BY <1>7, <2>2 DEF Follows
    <3>2. Final(k, k.object) = it.list
      BY <1>17, <3>1, SameBoxes
    <3>3. it.pos \in 1..Len(k.list[it.list]) + 1
      <4>1. CASE it.list = l
        BY <1>11, <1>13, <1>17, <3>1, <4>1
      <4>2. CASE it.list # l
        BY <1>17, <3>1, <4>2
      <4>3. QED
        BY <4>1, <4>2
    <3>4. QED
      BY <1>17, <3>1, <3>2, <3>3 DEF Follows
  <2>3. QED
    BY <2>1, <2>2
<1>19. PICK r : r = Pop(k, 2)
  OBVIOUS
<1>20. OtherStack(k, r) /\ r.stack = <<>>
  <2>1. k.stack = <<g.stack[1], w>>
    BY <1>7, <1>17
  <2>2. QED
    BY <1>17, <1>19, <2>1, PopTwo
<1>21. Good(r) /\ Follows(r, it)
  BY <1>17, <1>18, <1>20, SameFacts DEF OtherStack
<1>22. [g EXCEPT !.list[Resolve(g, base)] = Append(@, Top(g))] = k
  BY <1>9, <1>10, <1>12, <1>15
<1>23. QED
  BY <1>3, <1>19, <1>20, <1>21, <1>22, Ends

------------------------------------------------------------------------------
(* The steps of the machine. *)

\* After an opcode the objects that nothing reaches are released.
LEMMA StepSound ==
    ASSUME NEW h, Step(h), Sound(h, iter', Tail(code))
    PROVE  Sound(heap', iter', code')
<1>1. heap' = Release(h) /\ code' = Tail(code)
  BY DEF Step
<1>2. PICK g : g = Release(h)
  OBVIOUS
<1>3. PICK it : it = iter'
  OBVIOUS
<1>4. Sound(g, it, Tail(code))
  BY <1>2, <1>3, ReleaseSound
<1>5. QED
  BY <1>1, <1>2, <1>3, <1>4

\* The opcodes that remain are those of a statement, whichever has been executed.
LEMMA StepCoded ==
    ASSUME NEW h, Step(h), Coded, code # <<>>
    PROVE  Coded'
<1>1. code' = Tail(code) /\ (Tail(code) # <<>> => stmt' = stmt)
  BY DEF Step
<1>2. PICK S : code \in Seq(S)
  BY DEF Coded
<1>3. Tail(code) \in Seq(S)
  BY <1>2
<1>4. ASSUME NEW i \in DOMAIN Tail(code), Tail(code)[i].op = "NewIterator"
      PROVE  stmt'.x \in Variable
  <2>1. Tail(code) # <<>>
    BY <1>4
  <2>2. i + 1 \in DOMAIN code /\ code[i + 1] = Tail(code)[i]
    BY <1>2, <1>4
  <2>3. QED
    BY <1>1, <1>4, <2>1, <2>2 DEF Coded
<1>5. QED
  BY <1>1, <1>3, <1>4 DEF Coded

\* PushConstant keeps the invariant.
LEMMA PushConstantKeeps ==
    ASSUME IInv, PushConstant
    PROVE  IInv'
<1>1. /\ code # <<>> /\ Head(code).op = "Push"
      /\ Step(Push(heap, Head(code).w))
      /\ iter' = iter /\ called' = called
  BY DEF PushConstant, Is
<1>2. Sound(heap, iter, code)
  BY DEF IInv
<1>3. Sound(Push(heap, Head(code).w), iter, Tail(code))
  BY <1>1, <1>2, PushSound
<1>4. Sound(heap', iter', code')
  BY <1>1, <1>3, StepSound
<1>5. Coded'
  BY <1>1, StepCoded DEF IInv
<1>6. QED
  BY <1>1, <1>4, <1>5 DEF IInv

\* GetVariable keeps the invariant.
LEMMA GetVariableKeeps ==
    ASSUME IInv, GetVariable
    PROVE  IInv'
<1>1. /\ code # <<>> /\ Head(code).op = "Get"
      /\ Step(Push(heap, Resolve(heap, Var(Head(code).x))))
      /\ iter' = iter /\ called' = called
  BY DEF GetVariable, Is, X
<1>2. Sound(heap, iter, code)
  BY DEF IInv
<1>3. Sound(Push(heap, Resolve(heap, Var(Head(code).x))), iter, Tail(code))
  BY <1>1, <1>2, GetSound
<1>4. Sound(heap', iter', code')
  BY <1>1, <1>3, StepSound
<1>5. Coded'
  BY <1>1, StepCoded DEF IInv
<1>6. QED
  BY <1>1, <1>4, <1>5 DEF IInv

\* SetVariable keeps the invariant.
LEMMA SetVariableKeeps ==
    ASSUME IInv, SetVariable
    PROVE  IInv'
<1>1. /\ code # <<>> /\ Head(code).op = "Set"
      /\ Step(assign(Pop(heap, 1), Var(Head(code).x), Top(heap)))
      /\ iter' = iter /\ called' = called
  BY DEF SetVariable, Is, X
<1>2. Sound(heap, iter, code)
  BY DEF IInv
<1>3. Sound(assign(Pop(heap, 1), Var(Head(code).x), Top(heap)), iter, Tail(code))
  BY <1>1, <1>2, SetSound
<1>4. Sound(heap', iter', code')
  BY <1>1, <1>3, StepSound
<1>5. Coded'
  BY <1>1, StepCoded DEF IInv
<1>6. QED
  BY <1>1, <1>4, <1>5 DEF IInv

\* ClearLocal keeps the invariant.
LEMMA ClearLocalKeeps ==
    ASSUME IInv, ClearLocal
    PROVE  IInv'
<1>1. /\ code # <<>> /\ Head(code).op = "ClearLocal"
      /\ Step(Put(heap, Var(Head(code).x), Null))
      /\ iter' = iter /\ called' = called
  BY DEF ClearLocal, Is, X
<1>2. Sound(heap, iter, code)
  BY DEF IInv
<1>3. Sound(Put(heap, Var(Head(code).x), Null), iter, Tail(code))
  BY <1>1, <1>2, ClearSound
<1>4. Sound(heap', iter', code')
  BY <1>1, <1>3, StepSound
<1>5. Coded'
  BY <1>1, StepCoded DEF IInv
<1>6. QED
  BY <1>1, <1>4, <1>5 DEF IInv

\* NewList keeps the invariant.
LEMMA NewListKeeps ==
    ASSUME IInv, NewList
    PROVE  IInv'
<1>1. /\ code # <<>> /\ Head(code).op = "NewList"
      /\ iter' = iter /\ called' = called
  BY DEF NewList, Is
<1>2. PICK l : l = NewListOf(heap)
  OBVIOUS
<1>3. Step(Push(Pop([heap EXCEPT !.list[l] = <<Top(heap)>>], 1), l))
  BY <1>2 DEF NewList
<1>4. Sound(heap, iter, code)
  BY DEF IInv
<1>5. Sound(Push(Pop([heap EXCEPT !.list[l] = <<Top(heap)>>], 1), l), iter, Tail(code))
  BY <1>1, <1>2, <1>4, NewListSound
<1>6. Sound(heap', iter', code')
  BY <1>1, <1>3, <1>5, StepSound
<1>7. Coded'
  BY <1>1, <1>3, StepCoded DEF IInv
<1>8. QED
  BY <1>1, <1>6, <1>7 DEF IInv

\* GetReference keeps the invariant.
LEMMA GetReferenceKeeps ==
    ASSUME IInv, GetReference
    PROVE  IInv'
<1>1. /\ code # <<>> /\ Head(code).op = "GetRef"
      /\ iter' = iter /\ called' = called
  BY DEF GetReference, Is
<1>2. PICK u : u = IF Head(code).x \in Global THEN unshare(heap, Var(Head(code).x)) ELSE heap
  OBVIOUS
<1>3. PICK k : k = make_alias(u, Var(Head(code).x))
  OBVIOUS
<1>4. Step(Push(k, k.var[Head(code).x]))
  BY <1>2, <1>3 DEF GetReference, X
<1>5. Sound(heap, iter, code)
  BY DEF IInv
<1>6. Sound(Push(k, k.var[Head(code).x]), iter, Tail(code))
  BY <1>1, <1>2, <1>3, <1>5, GetRefSound
<1>7. Sound(heap', iter', code')
  BY <1>1, <1>4, <1>6, StepSound
<1>8. Coded'
  BY <1>1, <1>4, StepCoded DEF IInv
<1>9. QED
  BY <1>1, <1>7, <1>8 DEF IInv

\* GetUnique keeps the invariant.
LEMMA GetUniqueKeeps ==
    ASSUME IInv, GetUnique
    PROVE  IInv'
<1>1. /\ code # <<>> /\ Head(code).op = "GetUnique"
      /\ iter' = iter /\ called' = called
  BY DEF GetUnique, Is
<1>2. PICK u : u = unshare(heap, Var(Head(code).x))
  OBVIOUS
<1>3. Step(Push(u, u.var[Head(code).x]))
  BY <1>2 DEF GetUnique, X
<1>4. Sound(heap, iter, code)
  BY DEF IInv
<1>5. Sound(Push(u, u.var[Head(code).x]), iter, Tail(code))
  BY <1>1, <1>2, <1>4, GetUniqueSound
<1>6. Sound(heap', iter', code')
  BY <1>1, <1>3, <1>5, StepSound
<1>7. Coded'
  BY <1>1, <1>3, StepCoded DEF IInv
<1>8. QED
  BY <1>1, <1>6, <1>7 DEF IInv

\* GetIndex keeps the invariant.
LEMMA GetIndexKeeps ==
    ASSUME IInv, GetIndex
    PROVE  IInv'
<1>1. /\ code # <<>> /\ Head(code).op = "GetIndex"
      /\ iter' = iter /\ called' = called
      /\ Step(Push(Pop(heap, 1),
                   Resolve(heap, Item(Resolve(heap, Stack(Len(heap.stack))), Head(code).i))))
  BY DEF GetIndex, Is
<1>2. Sound(heap, iter, code)
  BY DEF IInv
<1>3. Sound(Push(Pop(heap, 1),
                 Resolve(heap, Item(Resolve(heap, Stack(Len(heap.stack))), Head(code).i))),
            iter, Tail(code))
  BY <1>1, <1>2, GetIndexSound
<1>4. Sound(heap', iter', code')
  BY <1>1, <1>3, StepSound
<1>5. Coded'
  BY <1>1, StepCoded DEF IInv
<1>6. QED
  BY <1>1, <1>4, <1>5 DEF IInv

\* GetIndexRef keeps the invariant.
LEMMA GetIndexRefKeeps ==
    ASSUME IInv, GetIndexRef
    PROVE  IInv'
<1>1. /\ code # <<>> /\ Head(code).op = "GetIndexRef"
      /\ iter' = iter /\ called' = called
  BY DEF GetIndexRef, Is
<1>2. PICK item : item = Item(Resolve(heap, Stack(Len(heap.stack))), Head(code).i)
  OBVIOUS
<1>3. PICK k : k = make_alias(heap, item)
  OBVIOUS
<1>4. Step(Push(Pop(k, 1), Get(k, item)))
  BY <1>2, <1>3 DEF GetIndexRef
<1>5. Sound(heap, iter, code)
  BY DEF IInv
<1>6. Sound(Push(Pop(k, 1), Get(k, item)), iter, Tail(code))
  BY <1>1, <1>2, <1>3, <1>5, GetIndexRefSound
<1>7. Sound(heap', iter', code')
  BY <1>1, <1>4, <1>6, StepSound
<1>8. Coded'
  BY <1>1, <1>4, StepCoded DEF IInv
<1>9. QED
  BY <1>1, <1>7, <1>8 DEF IInv

\* SetIndex keeps the invariant.
LEMMA SetIndexKeeps ==
    ASSUME IInv, SetIndex
    PROVE  IInv'
<1>1. /\ code # <<>> /\ Head(code).op = "SetIndex"
      /\ iter' = iter /\ called' = called
  BY DEF SetIndex, Is
<1>2. PICK base : base = Stack(Len(heap.stack) - 1)
  OBVIOUS
<1>3. PICK g : g = unshare(heap, base)
  OBVIOUS
<1>4. PICK item : item = Item(Resolve(g, base), Head(code).i)
  OBVIOUS
<1>5. Step(Pop(assign(g, item, Top(g)), 2))
  BY <1>2, <1>3, <1>4 DEF SetIndex
<1>6. Sound(heap, iter, code)
  BY DEF IInv
<1>7. Sound(Pop(assign(g, item, Top(g)), 2), iter, Tail(code))
  BY <1>1, <1>2, <1>3, <1>4, <1>6, SetIndexSound
<1>8. Sound(heap', iter', code')
  BY <1>1, <1>5, <1>7, StepSound
<1>9. Coded'
  BY <1>1, <1>5, StepCoded DEF IInv
<1>10. QED
  BY <1>1, <1>8, <1>9 DEF IInv

\* CallAppend keeps the invariant.
LEMMA CallAppendKeeps ==
    ASSUME IInv, CallAppend
    PROVE  IInv'
<1>1. /\ code # <<>> /\ Head(code).op = "CallAppend"
      /\ iter' = iter /\ called' = called
  BY DEF CallAppend, Is
<1>2. PICK base : base = Stack(Len(heap.stack) - 1)
  OBVIOUS
<1>3. PICK g : g = unshare(heap, base)
  OBVIOUS
<1>4. Step(Pop([g EXCEPT !.list[Resolve(g, base)] = Append(@, Top(g))], 2))
  BY <1>2, <1>3 DEF CallAppend
<1>5. Sound(heap, iter, code)
  BY DEF IInv
<1>6. Sound(Pop([g EXCEPT !.list[Resolve(g, base)] = Append(@, Top(g))], 2), iter, Tail(code))
  BY <1>1, <1>2, <1>3, <1>5, CallAppendSound
<1>7. Sound(heap', iter', code')
  BY <1>1, <1>4, <1>6, StepSound
<1>8. Coded'
  BY <1>1, <1>4, StepCoded DEF IInv
<1>9. QED
  BY <1>1, <1>7, <1>8 DEF IInv

\* NewIterator keeps the invariant.
LEMMA NewIteratorKeeps ==
    ASSUME IInv, NewIterator
    PROVE  IInv'
<1>1. /\ code # <<>> /\ Head(code).op = "NewIterator"
      /\ called' = called
      /\ Step([Pop(heap, 1) EXCEPT !.object = Top(heap)])
  BY DEF NewIterator, Is
<1>2. iter' = [list |-> Resolve(heap, Stack(Len(heap.stack))), pos |-> 1,
               by_ref |-> stmt.by_ref, open |-> TRUE, over |-> stmt.x]
  BY DEF NewIterator
<1>3. Sound(heap, iter, code) /\ Coded
  BY DEF IInv
<1>4. stmt.x \in Variable
  <2>1. PICK S : code \in Seq(S)
    BY <1>3 DEF Coded
  <2>2. 1 \in DOMAIN code /\ Head(code) = code[1]
    BY <1>1, <2>1
  <2>3. QED
    BY <1>1, <1>3, <2>2 DEF Coded
<1>5. PICK new : new = iter'
  OBVIOUS
<1>6. new.list = Resolve(heap, Stack(Len(heap.stack))) /\ new.pos = 1 /\ new.over \in Variable
  BY <1>2, <1>4, <1>5
<1>7. Sound([Pop(heap, 1) EXCEPT !.object = Top(heap)], new, Tail(code))
  BY <1>1, <1>3, <1>6, NewIteratorSound
<1>8. Sound(heap', iter', code')
  BY <1>1, <1>5, <1>7, StepSound
<1>9. Coded'
  BY <1>1, <1>3, StepCoded
<1>10. QED
  BY <1>1, <1>2, <1>8, <1>9 DEF IInv

\* NextValue keeps the invariant.
LEMMA NextValueKeeps ==
    ASSUME IInv, NextValue
    PROVE  IInv'
<1>1. /\ code # <<>> /\ Head(code).op = "NextValue"
      /\ called' = called
      /\ iter' = [iter EXCEPT !.pos = @ + 1]
  BY DEF NextValue, Is
<1>2. PICK k : k = IF iter.by_ref THEN make_alias(heap, Item(iter.list, iter.pos)) ELSE heap
  OBVIOUS
<1>3. Step(Push(k, Get(k, Item(iter.list, iter.pos))))
  BY <1>2 DEF NextValue
<1>4. Sound(heap, iter, code) /\ Coded
  BY DEF IInv
<1>5. PICK list, pos, by_ref, open, over :
        iter = [list |-> list, pos |-> pos, by_ref |-> by_ref, open |-> open, over |-> over]
  BY DEF IInv
<1>6. iter' = [list |-> list, pos |-> pos + 1, by_ref |-> by_ref, open |-> open, over |-> over]
  BY <1>1, <1>5
<1>7. PICK new : new = iter'
  OBVIOUS
<1>8. NextPos(iter, new)
  BY <1>5, <1>6, <1>7 DEF NextPos
<1>9. Sound(Push(k, Get(k, Item(iter.list, iter.pos))), new, Tail(code))
  BY <1>1, <1>2, <1>4, <1>8, NextValueSound
<1>10. Sound(heap', iter', code')
  BY <1>3, <1>7, <1>9, StepSound
<1>11. Coded'
  BY <1>1, <1>3, <1>4, StepCoded
<1>12. QED
  BY <1>1, <1>6, <1>10, <1>11 DEF IInv

\* CallRoutine keeps the invariant.
LEMMA CallRoutineKeeps ==
    ASSUME IInv, CallRoutine
    PROVE  IInv'
<1>1. /\ code # <<>> /\ Head(code).op = "Call"
      /\ Step([Pop(heap, 1) EXCEPT !.var[Param] = Top(heap)])
      /\ called' = TRUE /\ iter' = iter
  BY DEF CallRoutine, Is
<1>2. Sound(heap, iter, code)
  BY DEF IInv
<1>3. Sound([Pop(heap, 1) EXCEPT !.var[Param] = Top(heap)], iter, Tail(code))
  BY <1>1, <1>2, CallSound
<1>4. Sound(heap', iter', code')
  BY <1>1, <1>3, StepSound
<1>5. Coded'
  BY <1>1, StepCoded DEF IInv
<1>6. QED
  BY <1>1, <1>4, <1>5 DEF IInv

\* PopLocal keeps the invariant.
LEMMA PopLocalKeeps ==
    ASSUME IInv, PopLocal
    PROVE  IInv'
<1>1. /\ code # <<>> /\ Head(code).op = "PopLocal"
      /\ called' \in BOOLEAN /\ iter' = iter
  BY DEF PopLocal, Is
<1>2. PICK h : h = IF Head(code).x = Each THEN [heap EXCEPT !.var[Each] = Null, !.object = Null]
                  ELSE [heap EXCEPT !.var[Head(code).x] = Null]
  OBVIOUS
<1>3. Step(h)
  BY <1>2 DEF PopLocal, X
<1>4. Sound(heap, iter, code)
  BY DEF IInv
<1>5. Sound(h, iter, Tail(code))
  BY <1>1, <1>2, <1>4, PopLocalSound
<1>6. Sound(heap', iter', code')
  BY <1>1, <1>3, <1>5, StepSound
<1>7. Coded'
  BY <1>1, <1>3, StepCoded DEF IInv
<1>8. QED
  BY <1>1, <1>6, <1>7 DEF IInv

\* Every opcode keeps the invariant.
LEMMA OpcodeKeeps ==
    ASSUME IInv, Opcode
    PROVE  IInv'
  BY PushConstantKeeps, GetVariableKeeps, GetReferenceKeeps, GetUniqueKeeps, SetVariableKeeps,
     ClearLocalKeeps, NewListKeeps, GetIndexKeeps, GetIndexRefKeeps, SetIndexKeeps,
     CallAppendKeeps, NewIteratorKeeps, NextValueKeeps, CallRoutineKeeps, PopLocalKeeps DEF Opcode

------------------------------------------------------------------------------
(* The starts of statements. *)

\* Room is room.
LEMMA Rooms ==
    ASSUME NEW m \in Nat, NEW n \in Nat, Room(m, n)
    PROVE  /\ m >= 1 => FreeBox(heap)
           /\ n >= 1 => FreeList(heap)
           /\ n >= 2 => TwoFreeLists(heap)
<1> DEFINE B == {b \in Box : heap.box[b] = Freed}
           L == {l \in List : heap.list[l] = Freed}
<1>1. IsFiniteSet(B) /\ IsFiniteSet(L)
  <2>1. B \subseteq Object /\ L \subseteq Object
    BY DEF Object
  <2>2. QED
    BY <2>1, FinitelyMany, FS_Subset
<1>2. Cardinality(B) \in Nat /\ Cardinality(L) \in Nat /\ Cardinality(B) >= m /\ Cardinality(L) >= n
  BY <1>1, FS_CardinalityType DEF Room
<1>3. m >= 1 => B # {}
  BY <1>2, FS_EmptySet
<1>4. n >= 1 => L # {}
  BY <1>2, FS_EmptySet
<1>5. ASSUME n >= 2 PROVE \E l, k \in L : l # k
  <2>1. PICK l : l \in L
    BY <1>4, <1>5
  <2>2. SUFFICES ASSUME L = {l} PROVE FALSE
    BY <2>1
  <2>3. Cardinality(L) = 1
    BY <2>2, FS_Singleton
  <2>4. QED
    BY <1>2, <1>5, <2>3
<1>6. m >= 1 => FreeBox(heap)
  BY <1>3 DEF FreeBox
<1>7. n >= 1 => FreeList(heap)
  BY <1>4 DEF FreeList
<1>8. n >= 2 => TwoFreeLists(heap)
  BY <1>5 DEF TwoFreeLists
<1>9. QED
  BY <1>6, <1>7, <1>8

\* What scripts are careful about, in terms of what is at the end of chains.
LEMMA Conditions ==
    ASSUME Good(heap), Follows(heap, iter)
    PROVE  /\ \A x \in Variable : ListAt(x) = Final(heap, heap.var[x])
           /\ \A x \in Variable : ~IsItem(x) => NoItem(heap, heap.var[x])
           /\ \A x \in Variable : ~IsCollection(x) => Other(heap, iter, heap.var[x])
           /\ \A x \in Variable : IsCollection(x) => iter.open /\ ListAt(x) = iter.list /\ iter.list \in List
           /\ \A x, y \in Variable : Place(heap, Var(x)) # Place(heap, Var(y)) =>
                 x # y /\ Apart(heap, heap.var[x], heap.var[y])
           /\ \A x \in Variable, l \in List : \A i \in DOMAIN Items(heap, l) :
                 Place(heap, Var(x)) # Place(heap, Item(l, i)) =>
                    Apart(heap, heap.var[x], Items(heap, l)[i])
           /\ \A l \in List : Count(heap, l) = 1 => One(heap, l)
<1>1. \A p : /\ Place(heap, p) = IF Get(heap, p) \in Box THEN InBox(Last(heap, Get(heap, p))) ELSE p
             /\ Resolve(heap, p) = Final(heap, Get(heap, p))
             /\ Get(heap, Place(heap, p)) = Final(heap, Get(heap, p))
  BY GoodBoxes, ResolveIs
<1>2. \A x : Get(heap, Var(x)) = heap.var[x]
  BY Gets
<1>3. \A p, q : Place(heap, p) # Place(heap, q) => Apart(heap, Get(heap, p), Get(heap, q))
  BY <1>1 DEF Apart
<1>4. \A x \in Variable : ListAt(x) = Final(heap, heap.var[x])
  BY <1>1, <1>2 DEF ListAt
<1>5. \A l \in List : \A i \in DOMAIN Items(heap, l) :
        /\ heap.list[l] # Freed /\ i \in DOMAIN heap.list[l]
        /\ Get(heap, Item(l, i)) = Items(heap, l)[i]
  <2>1. SUFFICES ASSUME NEW l \in List, NEW i \in DOMAIN Items(heap, l)
                 PROVE  /\ heap.list[l] # Freed /\ i \in DOMAIN heap.list[l]
                        /\ Get(heap, Item(l, i)) = Items(heap, l)[i]
    OBVIOUS
  <2>2. heap.list[l] # Freed
    BY ItemsOf
  <2>3. Items(heap, l) = heap.list[l]
    BY <2>2 DEF Items
  <2>4. QED
    BY <2>2, <2>3, Gets
<1>6. ASSUME NEW x \in Variable, ~IsItem(x) PROVE NoItem(heap, heap.var[x])
  <2>1. SUFFICES ASSUME NEW l \in List, NEW i \in DOMAIN Items(heap, l)
                 PROVE  Apart(heap, heap.var[x], Items(heap, l)[i])
    BY DEF NoItem
  <2>2. Place(heap, Var(x)) # Place(heap, Item(l, i))
    BY <1>5, <1>6 DEF IsItem
  <2>3. QED
    BY <1>2, <1>3, <1>5, <2>2
<1>7. ASSUME NEW x \in Variable, ~IsCollection(x) PROVE Other(heap, iter, heap.var[x])
  <2>1. iter.open => Place(heap, Var(x)) # Place(heap, Iterated)
    BY <1>7 DEF IsCollection
  <2>2. Get(heap, Iterated) = heap.object
    BY Gets
  <2>3. iter.open => Apart(heap, heap.var[x], heap.object)
    BY <1>2, <1>3, <2>1, <2>2
  <2>4. QED
    BY <2>3 DEF Other
<1>8. ASSUME NEW x \in Variable, IsCollection(x)
      PROVE  iter.open /\ ListAt(x) = iter.list /\ iter.list \in List
  <2>1. iter.open /\ Place(heap, Var(x)) = Place(heap, Iterated)
    BY <1>8 DEF IsCollection
  <2>2. Get(heap, Iterated) = heap.object
    BY Gets
  <2>3. Final(heap, heap.var[x]) = Final(heap, heap.object)
    BY <1>1, <1>2, <2>1, <2>2
  <2>4. Final(heap, heap.object) = iter.list /\ iter.list \in List
    BY <2>1 DEF Follows
  <2>5. QED
    BY <1>4, <2>1, <2>3, <2>4
<1>9. \A x, y \in Variable : Place(heap, Var(x)) # Place(heap, Var(y)) =>
        x # y /\ Apart(heap, heap.var[x], heap.var[y])
  BY <1>2, <1>3
<1>10. \A x \in Variable, l \in List : \A i \in DOMAIN Items(heap, l) :
          Place(heap, Var(x)) # Place(heap, Item(l, i)) => Apart(heap, heap.var[x], Items(heap, l)[i])
  BY <1>2, <1>3, <1>5
<1>11. ASSUME NEW l \in List, Count(heap, l) = 1 PROVE One(heap, l)
  BY <1>11, CountIs, GoodBoxes
<1>12. QED
  BY <1>4, <1>6, <1>7, <1>8, <1>9, <1>10, <1>11

\* Between statements.
LEMMA Between ==
    ASSUME NEW h, NEW it, At(h, it, <<>>)
    PROVE  h.stack = <<>>
  BY DEF At, AtPush, AtGet, AtGetRef, AtGetUnique, AtSet, AtNewList, AtGetIndex, AtGetIndexRef,
         AtSetIndex, AtCallAppend, AtNewIterator, AtNext, AtCall, AtPopLocal

\* The operands of statements.
LEMMA Operands ==
    ASSUME NEW s \in Statement
    PROVE  /\ s.op \in {"set", "list", "append", "copy", "ref", "listOf", "item", "itemRef", "setItem",
                        "foreach", "call"}
           /\ s.x \in Variable
           /\ s.op \in {"set", "list", "append", "setItem"} => s.w \in Scalar
           /\ s.op \in {"copy", "ref", "listOf", "item", "itemRef"} => s.y \in Variable
           /\ s.op \in {"item", "itemRef", "setItem"} => s.i \in Index
  BY DEF Statement

\* The opcodes of each statement, in the terms of At.
LEMMA Compiled ==
    ASSUME NEW s
    PROVE  /\ s.op = "set"     => Compile(s) = <<OpW(s.w), OpX("Set", s.x)>>
           /\ s.op = "copy"    => Compile(s) = <<OpX("Get", s.y), OpX("Set", s.x)>>
           /\ s.op = "ref"     => Compile(s) = <<OpX("GetRef", s.y), OpX("Set", s.x)>>
           /\ s.op = "list"    => Compile(s) = <<OpW(s.w), Op("NewList"), OpX("Set", s.x)>>
           /\ s.op = "listOf"  => Compile(s) = <<OpX("GetRef", s.y), Op("NewList"), OpX("Set", s.x)>>
           /\ s.op = "item"    => Compile(s) = <<OpX("Get", s.y), OpI("GetIndex", s.i), OpX("Set", s.x)>>
           /\ s.op = "itemRef" =>
                 Compile(s) = <<OpX("GetUnique", s.y), OpI("GetIndexRef", s.i), OpX("Set", s.x)>>
           /\ s.op = "setItem" => Compile(s) = <<OpX("GetUnique", s.x), OpW(s.w), OpI("SetIndex", s.i)>>
           /\ s.op = "append"  => Compile(s) = <<OpX("GetRef", s.x), OpW(s.w), Op("CallAppend")>>
           /\ s.op = "foreach" => Compile(s) = <<OpX("GetRef", s.x), Op("NewIterator")>>
           /\ s.op = "next"    =>
                 Compile(s) = <<OpX("ClearLocal", Each), Op("NextValue"), OpX("Set", Each)>>
           /\ s.op = "call"    => Compile(s) = <<OpX("GetRef", s.x), Op("Call")>>
           /\ s.op = "return"  => Compile(s) = <<OpX("PopLocal", Each), OpX("PopLocal", Param)>>
  BY DEF Compile, Op, OpX, OpI, OpW

\* The opcodes of a statement are a sequence, and a loop names a variable.
LEMMA BeginCoded ==
    ASSUME NEW s, s \in Statement \/ s.op \in {"next", "return"},
           code' = Compile(s), stmt' = s
    PROVE  Coded'
<1>1. \A o, x, i, w : /\ OpX(o, x).op = o /\ Op(o).op = o /\ OpI(o, i).op = o /\ OpW(w).op = "Push"
  BY DEF Op, OpX, OpI, OpW
<1>2. ASSUME NEW a, NEW b, Compile(s) = <<a, b>>,
             a.op # "NewIterator", b.op = "NewIterator" => s.x \in Variable
      PROVE  Coded'
  <2>1. <<a, b>> \in Seq({a, b})
    OBVIOUS
  <2>2. \A i \in DOMAIN <<a, b>> : <<a, b>>[i] = a \/ <<a, b>>[i] = b
    OBVIOUS
  <2>3. QED
    BY <1>2, <2>1, <2>2 DEF Coded
<1>3. ASSUME NEW a, NEW b, NEW c, Compile(s) = <<a, b, c>>,
             a.op # "NewIterator", b.op # "NewIterator", c.op # "NewIterator"
      PROVE  Coded'
  <2>1. <<a, b, c>> \in Seq({a, b, c})
    OBVIOUS
  <2>2. \A i \in DOMAIN <<a, b, c>> : <<a, b, c>>[i] = a \/ <<a, b, c>>[i] = b \/ <<a, b, c>>[i] = c
    OBVIOUS
  <2>3. QED
    BY <1>3, <2>1, <2>2 DEF Coded
<1>4. s.op \in {"set", "list", "append", "copy", "ref", "listOf", "item", "itemRef", "setItem",
                "foreach", "call", "next", "return"}
  BY Operands
<1>5. CASE s.op = "foreach"
  <2>1. s.x \in Variable
    BY <1>5, Operands
  <2>2. Compile(s) = <<OpX("GetRef", s.x), Op("NewIterator")>>
    BY <1>5, Compiled
  <2>3. QED
    BY <1>1, <1>2, <2>1, <2>2
<1>6. CASE s.op \in {"set", "copy", "ref", "call", "return"}
  <2>1. \E a, b : Compile(s) = <<a, b>> /\ a.op # "NewIterator" /\ b.op # "NewIterator"
    <3>1. CASE s.op = "set"
      <4>1. Compile(s) = <<OpW(s.w), OpX("Set", s.x)>>
        BY <3>1, Compiled
      <4>2. QED
        BY <1>1, <4>1
    <3>2. CASE s.op = "copy"
      <4>1. Compile(s) = <<OpX("Get", s.y), OpX("Set", s.x)>>
        BY <3>2, Compiled
      <4>2. QED
        BY <1>1, <4>1
    <3>3. CASE s.op = "ref"
      <4>1. Compile(s) = <<OpX("GetRef", s.y), OpX("Set", s.x)>>
        BY <3>3, Compiled
      <4>2. QED
        BY <1>1, <4>1
    <3>4. CASE s.op = "call"
      <4>1. Compile(s) = <<OpX("GetRef", s.x), Op("Call")>>
        BY <3>4, Compiled
      <4>2. QED
        BY <1>1, <4>1
    <3>5. CASE s.op = "return"
      <4>1. Compile(s) = <<OpX("PopLocal", Each), OpX("PopLocal", Param)>>
        BY <3>5, Compiled
      <4>2. QED
        BY <1>1, <4>1
    <3>6. QED
      BY <1>6, <3>1, <3>2, <3>3, <3>4, <3>5
  <2>2. QED
    BY <1>2, <2>1
<1>7. CASE s.op \in {"list", "listOf", "item", "itemRef", "setItem", "append", "next"}
  <2>1. \E a, b, c : /\ Compile(s) = <<a, b, c>>
                     /\ a.op # "NewIterator" /\ b.op # "NewIterator" /\ c.op # "NewIterator"
    <3>1. CASE s.op = "list"
      <4>1. Compile(s) = <<OpW(s.w), Op("NewList"), OpX("Set", s.x)>>
        BY <3>1, Compiled
      <4>2. QED
        BY <1>1, <4>1
    <3>2. CASE s.op = "listOf"
      <4>1. Compile(s) = <<OpX("GetRef", s.y), Op("NewList"), OpX("Set", s.x)>>
        BY <3>2, Compiled
      <4>2. QED
        BY <1>1, <4>1
    <3>3. CASE s.op = "item"
      <4>1. Compile(s) = <<OpX("Get", s.y), OpI("GetIndex", s.i), OpX("Set", s.x)>>
        BY <3>3, Compiled
      <4>2. QED
        BY <1>1, <4>1
    <3>4. CASE s.op = "itemRef"
      <4>1. Compile(s) = <<OpX("GetUnique", s.y), OpI("GetIndexRef", s.i), OpX("Set", s.x)>>
        BY <3>4, Compiled
      <4>2. QED
        BY <1>1, <4>1
    <3>5. CASE s.op = "setItem"
      <4>1. Compile(s) = <<OpX("GetUnique", s.x), OpW(s.w), OpI("SetIndex", s.i)>>
        BY <3>5, Compiled
      <4>2. QED
        BY <1>1, <4>1
    <3>6. CASE s.op = "append"
      <4>1. Compile(s) = <<OpX("GetRef", s.x), OpW(s.w), Op("CallAppend")>>
        BY <3>6, Compiled
      <4>2. QED
        BY <1>1, <4>1
    <3>7. CASE s.op = "next"
      <4>1. Compile(s) = <<OpX("ClearLocal", Each), Op("NextValue"), OpX("Set", Each)>>
        BY <3>7, Compiled
      <4>2. QED
        BY <1>1, <4>1
    <3>8. QED
      BY <1>7, <3>1, <3>2, <3>3, <3>4, <3>5, <3>6, <3>7
  <2>2. QED
    BY <1>3, <2>1
<1>8. QED
  BY <1>4, <1>5, <1>6, <1>7

\* What a script is careful about here.
CarefulScript == {"acyclic", "collection"} \subseteq Precaution

\* A collection that is referred to is held by nothing else.
LEMMA OwnIs ==
    ASSUME Good(heap), Follows(heap, iter), NEW y \in Variable,
           IsCollection(y) => Count(heap, ListAt(y)) = 1
    PROVE  Own(heap, iter, heap.var[y])
<1>1. CASE ~IsCollection(y)
  BY <1>1, Conditions DEF Own
<1>2. CASE IsCollection(y)
  <2>1. ListAt(y) = iter.list /\ iter.list \in List
    BY <1>2, Conditions
  <2>2. One(heap, iter.list)
    BY <1>2, <2>1, Conditions
  <2>3. QED
    BY <2>2 DEF Own
<1>3. QED
  BY <1>1, <1>2

\* A list that a variable leads to, and its items.
LEMMA IndexedIs ==
    ASSUME Good(heap), Follows(heap, iter), NEW y \in Variable, NEW i \in Index,
           HoldsList(y), i <= Length(y)
    PROVE  /\ Indexed(heap, heap.var[y], i)
           /\ ListAt(y) \in List /\ ListAt(y) = Final(heap, heap.var[y])
           /\ i \in DOMAIN Items(heap, ListAt(y))
<1>1. ListAt(y) = Final(heap, heap.var[y]) /\ ListAt(y) \in List
  BY Conditions DEF HoldsList
<1>2. heap.var[y] \in Variant /\ Exists(heap, heap.var[y])
  BY GoodBoxes DEF Good, Live
<1>3. Exists(heap, ListAt(y))
  BY <1>1, <1>2, FinalExists
<1>4. heap.list[ListAt(y)] # Freed
  BY <1>1, <1>3 DEF Exists
<1>5. Items(heap, ListAt(y)) = heap.list[ListAt(y)] /\ heap.list[ListAt(y)] \in Seq(Flat)
      /\ Len(heap.list[ListAt(y)]) \in 1..MaxLength
  BY <1>1, <1>4, ItemsOf
<1>6. i \in 1..Len(heap.list[ListAt(y)])
  BY <1>5, BoundIsPositive DEF Index, Length
<1>7. QED
  BY <1>1, <1>5, <1>6 DEF Indexed

\* The state before a statement.
Ready == Good(heap) /\ Follows(heap, iter) /\ heap.stack = <<>>

\* x = w and x = [w] can start.
LEMMA StartAssign ==
    ASSUME CarefulScript, Ready, NEW s \in Statement, Possible(s), Careful(s),
           s.op \in {"set", "list"}
    PROVE  At(heap, iter, Compile(s))
<1>1. Good(heap) /\ Follows(heap, iter) /\ heap.stack = <<>>
  BY DEF Ready
<1>2. s.x \in Variable /\ s.w \in Scalar
  BY Operands
<1>3. ~IsCollection(s.x)
  BY DEF Careful, CarefulScript
<1>4. Other(heap, iter, heap.var[s.x])
  BY <1>1, <1>2, <1>3, Conditions
<1>5. CASE s.op = "set"
  <2>1. Compile(s) = <<OpW(s.w), OpX("Set", s.x)>>
    BY <1>5, Compiled
  <2>2. AtPush(heap, iter, Compile(s))
    BY <1>1, <1>2, <1>4, <2>1 DEF AtPush
  <2>3. QED
    BY <2>2 DEF At
<1>6. CASE s.op = "list"
  <2>1. Compile(s) = <<OpW(s.w), Op("NewList"), OpX("Set", s.x)>>
    BY <1>6, Compiled
  <2>2. Room(0, 1) /\ ~IsItem(s.x)
    BY <1>6 DEF Possible
  <2>3. FreeList(heap)
    BY <2>2, Rooms
  <2>4. NoItem(heap, heap.var[s.x])
    BY <1>1, <1>2, <2>2, Conditions
  <2>5. AtPush(heap, iter, Compile(s))
    BY <1>1, <1>2, <1>4, <2>1, <2>3, <2>4 DEF AtPush
  <2>6. QED
    BY <2>5 DEF At
<1>7. QED
  BY <1>5, <1>6

\* x = y and x = y[i] can start.
LEMMA StartCopy ==
    ASSUME CarefulScript, Ready, NEW s \in Statement, Possible(s), Careful(s),
           s.op \in {"copy", "item"}
    PROVE  At(heap, iter, Compile(s))
<1>1. Good(heap) /\ Follows(heap, iter) /\ heap.stack = <<>>
  BY DEF Ready
<1>2. s.x \in Variable /\ s.y \in Variable
  BY Operands
<1>3. ~IsCollection(s.x)
  BY DEF Careful, CarefulScript
<1>4. Other(heap, iter, heap.var[s.x])
  BY <1>1, <1>2, <1>3, Conditions
<1>5. CASE s.op = "copy"
  <2>1. Compile(s) = <<OpX("Get", s.y), OpX("Set", s.x)>>
    BY <1>5, Compiled
  <2>2. HoldsList(s.y) => ~IsItem(s.x)
    BY <1>5 DEF Possible
  <2>3. Final(heap, heap.var[s.y]) \in List => NoItem(heap, heap.var[s.x])
    BY <1>1, <1>2, <2>2, Conditions DEF HoldsList
  <2>4. AtGet(heap, iter, Compile(s))
    BY <1>1, <1>2, <1>4, <2>1, <2>3 DEF AtGet
  <2>5. QED
    BY <2>4 DEF At
<1>6. CASE s.op = "item"
  <2>1. Compile(s) = <<OpX("Get", s.y), OpI("GetIndex", s.i), OpX("Set", s.x)>>
    BY <1>6, Compiled
  <2>2. s.i \in Index /\ HoldsList(s.y) /\ s.i <= Length(s.y)
    BY <1>6, Operands DEF Possible
  <2>3. Indexed(heap, heap.var[s.y], s.i)
    BY <1>1, <1>2, <2>2, IndexedIs
  <2>4. AtGet(heap, iter, Compile(s))
    BY <1>1, <1>2, <1>4, <2>1, <2>2, <2>3 DEF AtGet
  <2>5. QED
    BY <2>4 DEF At
<1>7. QED
  BY <1>5, <1>6

\* x = ref y makes no circle, x = [ref y] no list of lists.
LEMMA StartRef ==
    ASSUME CarefulScript, Ready, NEW s \in Statement, Possible(s), Careful(s),
           s.op \in {"ref", "listOf"}
    PROVE  At(heap, iter, Compile(s))
<1>1. Good(heap) /\ Follows(heap, iter) /\ heap.stack = <<>>
  BY DEF Ready
<1>2. s.x \in Variable /\ s.y \in Variable
  BY Operands
<1>3. ~IsCollection(s.x)
  BY DEF Careful, CarefulScript
<1>4. Other(heap, iter, heap.var[s.x])
  BY <1>1, <1>2, <1>3, Conditions
<1>5. Place(heap, Var(s.x)) # Place(heap, Var(s.y))
  BY DEF Possible, Careful, CarefulScript
<1>6. s.x # s.y /\ Apart(heap, heap.var[s.x], heap.var[s.y])
  BY <1>1, <1>2, <1>5, Conditions
<1>7. Room(1, 1)
  BY DEF Possible
<1>8. FreeBox(heap) /\ FreeList(heap)
  BY <1>7, Rooms
<1>9. (HoldsList(s.y) => ~IsItem(s.x)) /\ (s.op = "listOf" => ~HoldsList(s.y) /\ ~IsItem(s.x))
  BY DEF Possible
<1>10. /\ Final(heap, heap.var[s.y]) \in List => NoItem(heap, heap.var[s.x])
       /\ s.op = "listOf" => Final(heap, heap.var[s.y]) \notin List /\ NoItem(heap, heap.var[s.x])
  BY <1>1, <1>2, <1>9, Conditions DEF HoldsList
<1>11. Fits(heap, iter, heap.var[s.x], heap.var[s.y])
  BY <1>4, <1>6, <1>10 DEF Fits
<1>12. Own(heap, iter, heap.var[s.y])
  <2>1. IsCollection(s.y) => Count(heap, ListAt(s.y)) = 1
    <3>1. CASE s.op = "ref"
      BY <3>1 DEF Careful, CarefulScript
    <3>2. CASE s.op = "listOf"
      BY <1>1, <1>2, <1>9, <3>2, Conditions DEF HoldsList
    <3>3. QED
      BY <3>1, <3>2
  <2>2. QED
    BY <1>1, <1>2, <2>1, OwnIs
<1>13. CASE s.op = "ref"
  <2>1. Compile(s) = <<OpX("GetRef", s.y), OpX("Set", s.x)>>
    BY <1>13, Compiled
  <2>2. AtGetRef(heap, iter, Compile(s))
    BY <1>1, <1>2, <1>6, <1>8, <1>11, <1>12, <2>1 DEF AtGetRef
  <2>3. QED
    BY <2>2 DEF At
<1>14. CASE s.op = "listOf"
  <2>1. Compile(s) = <<OpX("GetRef", s.y), Op("NewList"), OpX("Set", s.x)>>
    BY <1>14, Compiled
  <2>2. AtGetRef(heap, iter, Compile(s))
    BY <1>1, <1>2, <1>6, <1>8, <1>10, <1>11, <1>12, <1>14, <2>1 DEF AtGetRef
  <2>3. QED
    BY <2>2 DEF At
<1>15. QED
  BY <1>13, <1>14

\* x = ref y[i] and x[i] = w can start.
LEMMA StartItem ==
    ASSUME CarefulScript, Ready, NEW s \in Statement, Possible(s), Careful(s),
           s.op \in {"itemRef", "setItem"}
    PROVE  At(heap, iter, Compile(s))
<1>1. Good(heap) /\ Follows(heap, iter) /\ heap.stack = <<>>
  BY DEF Ready
<1>2. CASE s.op = "itemRef"
  <2>1. Compile(s) = <<OpX("GetUnique", s.y), OpI("GetIndexRef", s.i), OpX("Set", s.x)>>
    BY <1>2, Compiled
  <2>2. s.x \in Variable /\ s.y \in Variable /\ s.i \in Index
    BY <1>2, Operands
  <2>3. Room(1, 1) /\ HoldsList(s.y) /\ s.i <= Length(s.y)
    BY <1>2 DEF Possible
  <2>4. /\ Indexed(heap, heap.var[s.y], s.i)
        /\ ListAt(s.y) \in List /\ ListAt(s.y) = Final(heap, heap.var[s.y])
        /\ s.i \in DOMAIN Items(heap, ListAt(s.y))
    BY <1>1, <2>2, <2>3, IndexedIs
  <2>5. FreeBox(heap) /\ FreeList(heap)
    BY <2>3, Rooms
  <2>6. /\ ~IsCollection(s.x)
        /\ Place(heap, Var(s.x)) # Place(heap, Item(ListAt(s.y), s.i))
        /\ IsCollection(s.y) => Count(heap, ListAt(s.y)) = 1
    BY <1>2 DEF Careful, CarefulScript
  <2>7. Other(heap, iter, heap.var[s.x])
    BY <1>1, <2>2, <2>6, Conditions
  <2>8. Apart(heap, heap.var[s.x], Items(heap, ListAt(s.y))[s.i])
    BY <1>1, <2>2, <2>4, <2>6, Conditions
  <2>9. Own(heap, iter, heap.var[s.y])
    BY <1>1, <2>2, <2>6, OwnIs
  <2>10. AtGetUnique(heap, iter, Compile(s))
    BY <1>1, <2>1, <2>2, <2>4, <2>5, <2>7, <2>8, <2>9 DEF AtGetUnique
  <2>11. QED
    BY <2>10 DEF At
<1>3. CASE s.op = "setItem"
  <2>1. Compile(s) = <<OpX("GetUnique", s.x), OpW(s.w), OpI("SetIndex", s.i)>>
    BY <1>3, Compiled
  <2>2. s.x \in Variable /\ s.w \in Scalar /\ s.i \in Index
    BY <1>3, Operands
  <2>3. /\ HoldsList(s.x) /\ s.i <= Length(s.x)
        /\ Room(0, IF heap.var[s.x] \in Box THEN 1 ELSE 2)
    BY <1>3 DEF Possible
  <2>4. Indexed(heap, heap.var[s.x], s.i)
    BY <1>1, <2>2, <2>3, IndexedIs
  <2>5. FreeList(heap) /\ (heap.var[s.x] \notin Box => TwoFreeLists(heap))
    <3>1. CASE heap.var[s.x] \in Box
      BY <2>3, <3>1, Rooms
    <3>2. CASE heap.var[s.x] \notin Box
      BY <2>3, <3>2, Rooms
    <3>3. QED
      BY <3>1, <3>2
  <2>6. IsCollection(s.x) => Count(heap, ListAt(s.x)) = 1
    BY <1>3 DEF Careful, CarefulScript
  <2>7. Own(heap, iter, heap.var[s.x])
    BY <1>1, <2>2, <2>6, OwnIs
  <2>8. AtGetUnique(heap, iter, Compile(s))
    BY <1>1, <2>1, <2>2, <2>4, <2>5, <2>7 DEF AtGetUnique
  <2>9. QED
    BY <2>8 DEF At
<1>4. QED
  BY <1>2, <1>3

\* append(x, w), foreach and a call can start.
LEMMA StartCall ==
    ASSUME CarefulScript, Ready, NEW s \in Statement, Possible(s), Careful(s),
           s.op \in {"append", "foreach", "call"}
    PROVE  At(heap, iter, Compile(s))
<1>1. Good(heap) /\ Follows(heap, iter) /\ heap.stack = <<>>
  BY DEF Ready
<1>2. s.x \in Variable
  BY Operands
<1>3. FreeList(heap) /\ (heap.var[s.x] \notin Box => FreeBox(heap))
  <2>1. CASE s.op \in {"append", "call"}
    <3>1. Room(1, 1)
      BY <2>1 DEF Possible
    <3>2. QED
      BY <3>1, Rooms
  <2>2. CASE s.op = "foreach"
    <3>1. PICK m : m = NewBoxes(Var(s.x))
                       + (IF Count(heap, ListAt(s.x)) > 1 THEN 1 ELSE NewBoxes(Item(ListAt(s.x), 1)))
      OBVIOUS
    <3>2. Room(m, 1)
      BY <2>2, <3>1 DEF Possible
    <3>3. m \in Nat /\ (heap.var[s.x] \notin Box => m >= 1)
      <4>1. NewBoxes(Var(s.x)) = IF heap.var[s.x] \in Box THEN 0 ELSE 1
        BY Gets DEF NewBoxes
      <4>2. NewBoxes(Item(ListAt(s.x), 1)) \in {0, 1}
        BY DEF NewBoxes
      <4>3. QED
        BY <3>1, <4>1, <4>2
    <3>4. QED
      BY <3>2, <3>3, Rooms
  <2>3. QED
    BY <2>1, <2>2
<1>4. Own(heap, iter, heap.var[s.x])
  <2>1. IsCollection(s.x) => Count(heap, ListAt(s.x)) = 1
    BY DEF Careful, CarefulScript
  <2>2. QED
    BY <1>1, <1>2, <2>1, OwnIs
<1>5. s.op \in {"append", "foreach"} => Final(heap, heap.var[s.x]) \in List
  <2>1. s.op \in {"append", "foreach"} => HoldsList(s.x)
    BY DEF Possible
  <2>2. QED
    BY <1>1, <1>2, <2>1, Conditions DEF HoldsList
<1>6. CASE s.op = "append"
  <2>1. Compile(s) = <<OpX("GetRef", s.x), OpW(s.w), Op("CallAppend")>> /\ s.w \in Scalar
    BY <1>6, Compiled, Operands
  <2>2. Len(heap.list[Final(heap, heap.var[s.x])]) < MaxLength
    <3>1. Length(s.x) < MaxLength
      BY <1>6 DEF Possible
    <3>2. ListAt(s.x) = Final(heap, heap.var[s.x])
      BY <1>1, <1>2, Conditions
    <3>3. QED
      BY <3>1, <3>2 DEF Length
  <2>3. AtGetRef(heap, iter, Compile(s))
    BY <1>1, <1>2, <1>3, <1>4, <1>5, <1>6, <2>1, <2>2 DEF AtGetRef
  <2>4. QED
    BY <2>3 DEF At
<1>7. CASE s.op = "foreach"
  <2>1. Compile(s) = <<OpX("GetRef", s.x), Op("NewIterator")>>
    BY <1>7, Compiled
  <2>2. ~iter.open
    BY <1>7 DEF Possible
  <2>3. AtGetRef(heap, iter, Compile(s))
    BY <1>1, <1>2, <1>3, <1>4, <1>5, <1>7, <2>1, <2>2 DEF AtGetRef
  <2>4. QED
    BY <2>3 DEF At
<1>8. CASE s.op = "call"
  <2>1. Compile(s) = <<OpX("GetRef", s.x), Op("Call")>>
    BY <1>8, Compiled
  <2>2. AtGetRef(heap, iter, Compile(s))
    BY <1>1, <1>2, <1>3, <1>4, <2>1 DEF AtGetRef
  <2>3. QED
    BY <2>2 DEF At
<1>9. QED
  BY <1>6, <1>7, <1>8

------------------------------------------------------------------------------
(* The invariant and what follows from it. *)

\* Between two statements the stack is empty.
LEMMA IsReady ==
    ASSUME IInv, code = <<>>
    PROVE  Ready
<1>1. Good(heap) /\ Follows(heap, iter) /\ At(heap, iter, <<>>)
  BY DEF IInv, Sound
<1>2. QED
  BY <1>1, Between DEF Ready

\* A statement begins where its opcodes can be executed.
LEMMA BeginKeeps ==
    ASSUME IInv, NEW s, s \in Statement \/ s.op \in {"next", "return"}, Begin(s),
           At(heap, iter, Compile(s))
    PROVE  IInv'
<1>1. /\ code' = Compile(s) /\ stmt' = s
      /\ heap' = heap /\ iter' = iter /\ called' = called
  BY DEF Begin
<1>2. Coded'
  BY <1>1, BeginCoded
<1>3. Sound(heap, iter, Compile(s))
  BY DEF IInv, Sound
<1>4. Sound(heap', iter', code')
  BY <1>1, <1>3
<1>5. QED
  BY <1>1, <1>2, <1>4 DEF IInv

\* A statement of a careful script keeps the invariant when it starts.
LEMMA ExecuteKeeps ==
    ASSUME CarefulScript, IInv, NEW s \in Statement, Execute(s)
    PROVE  IInv'
<1>1. Possible(s) /\ Careful(s) /\ Begin(s) /\ code = <<>>
  BY DEF Execute
<1>2. Ready
  BY <1>1, IsReady
<1>3. s.op \in {"set", "list", "append", "copy", "ref", "listOf", "item", "itemRef", "setItem",
                "foreach", "call"}
  BY Operands
<1>4. At(heap, iter, Compile(s))
  BY <1>1, <1>2, <1>3, StartAssign, StartCopy, StartRef, StartItem, StartCall
<1>5. QED
  BY <1>1, <1>4, BeginKeeps

\* A turn of the loop starts with an item that exists.
LEMMA BeginTurnKeeps ==
    ASSUME IInv, BeginTurn
    PROVE  IInv'
<1>1. PICK s : s = [op |-> "next", i |-> iter.pos]
  OBVIOUS
<1>2. /\ Begin(s) /\ code = <<>> /\ iter.open
      /\ heap.list[iter.list] # Freed
      /\ iter.pos <= Len(heap.list[iter.list])
      /\ iter.by_ref => Room(NewBoxes(Item(iter.list, iter.pos)), 0)
  BY <1>1 DEF BeginTurn, Begin
<1>3. s.op = "next"
  BY <1>1
<1>4. Good(heap) /\ Follows(heap, iter) /\ heap.stack = <<>>
  BY <1>2, IsReady DEF Ready
<1>5. iter.list \in List /\ iter.pos \in 1..Len(heap.list[iter.list]) + 1
  BY <1>2, <1>4 DEF Follows
<1>6. Items(heap, iter.list) = heap.list[iter.list] /\ Len(heap.list[iter.list]) \in 1..MaxLength
  BY <1>2, <1>4, <1>5, ItemsOf
<1>7. iter.pos \in 1..Len(heap.list[iter.list])
  <2>1. PICK n : n = Len(heap.list[iter.list])
    OBVIOUS
  <2>2. n \in 1..MaxLength /\ MaxLength \in Nat /\ iter.pos \in 1..n + 1 /\ iter.pos <= n
    BY <1>2, <1>5, <1>6, <2>1, BoundIsPositive
  <2>3. iter.pos \in 1..n
    BY <2>2
  <2>4. QED
    BY <2>1, <2>3
<1>8. iter.by_ref /\ Items(heap, iter.list)[iter.pos] \notin Box => FreeBox(heap)
  <2>1. SUFFICES ASSUME iter.by_ref, Items(heap, iter.list)[iter.pos] \notin Box PROVE FreeBox(heap)
    OBVIOUS
  <2>2. NewBoxes(Item(iter.list, iter.pos)) = 1
    BY <1>6, <2>1, Gets DEF NewBoxes
  <2>3. Room(1, 0)
    BY <1>2, <2>1, <2>2
  <2>4. QED
    BY <2>3, Rooms
<1>9. Compile(s) = <<OpX("ClearLocal", Each), Op("NextValue"), OpX("Set", Each)>>
  BY <1>3, Compiled
<1>10. At(heap, iter, Compile(s))
  <2>1. AtNext(heap, iter, Compile(s))
    BY <1>2, <1>4, <1>7, <1>8, <1>9 DEF AtNext
  <2>2. QED
    BY <2>1 DEF At
<1>11. QED
  BY <1>2, <1>3, <1>10, BeginKeeps

\* The end of the loop keeps the invariant.
LEMMA EndLoopKeeps ==
    ASSUME IInv, EndLoop
    PROVE  IInv'
<1>1. /\ code = <<>> /\ iter' = NoLoop
      /\ heap' = heap /\ called' = called /\ stmt' = stmt /\ code' = code
  BY DEF EndLoop
<1>2. Good(heap) /\ heap.stack = <<>>
  BY <1>1, IsReady DEF Ready
<1>3. Follows(heap, NoLoop)
  BY BoundIsPositive DEF Follows, NoLoop
<1>4. Sound(heap, NoLoop, <<>>)
  BY <1>2, <1>3, Ends
<1>5. Sound(heap', iter', code')
  BY <1>1, <1>4
<1>6. Coded'
  BY <1>1 DEF IInv, Coded
<1>7. QED
  BY <1>1, <1>5, <1>6 DEF IInv, NoLoop

\* The return from the routine keeps the invariant when it starts.
LEMMA BeginReturnKeeps ==
    ASSUME IInv, BeginReturn
    PROVE  IInv'
<1>1. PICK s : s = [op |-> "return"]
  OBVIOUS
<1>2. Begin(s) /\ code = <<>> /\ ~iter.open
  BY <1>1 DEF BeginReturn, Begin
<1>3. s.op = "return"
  BY <1>1
<1>4. heap.stack = <<>>
  BY <1>2, IsReady DEF Ready
<1>5. Compile(s) = <<OpX("PopLocal", Each), OpX("PopLocal", Param)>>
  BY <1>3, Compiled
<1>6. AtPopLocal(heap, iter, Compile(s))
  BY <1>2, <1>4, <1>5 DEF AtPopLocal
<1>7. At(heap, iter, Compile(s))
  BY <1>6 DEF At
<1>8. QED
  BY <1>2, <1>3, <1>7, BeginKeeps

\* The invariant holds at the start.
LEMMA InitIInv ==
    ASSUME Init
    PROVE  IInv
<1>1. /\ heap.var = [x \in Variable |-> Null] /\ heap.box = [b \in Box |-> Freed]
      /\ heap.list = [l \in List |-> Freed] /\ heap.stack = <<>> /\ heap.object = Null
      /\ heap = [var |-> heap.var, box |-> heap.box, list |-> heap.list, stack |-> heap.stack,
                 object |-> heap.object]
      /\ iter = NoLoop /\ code = <<>> /\ called = FALSE
  BY DEF Init
<1>2. Typed(heap)
  <2>1. heap.var \in [Variable -> Variant] /\ heap.box \in [Box -> Variant \cup {Freed}]
        /\ heap.list \in [List -> Seq(Flat) \cup {Freed}] /\ heap.object \in {Null} \cup Box
    BY <1>1, Kinds
  <2>2. heap.stack \in Seq(Variant)
    BY <1>1
  <2>3. heap \in Memory
    BY <1>1, <2>1, <2>2 DEF Memory
  <2>4. QED
    BY <1>1, <2>3 DEF Typed
<1>3. Live(heap)
  <2>1. Exists(heap, Null) /\ Exists(heap, Freed)
    BY Kinds DEF Exists
  <2>2. \A l \in List : Items(heap, l) = <<>>
    BY <1>1 DEF Items
  <2>3. QED
    BY <1>1, <2>1, <2>2 DEF Live
<1>4. Acyclic(heap)
  BY <1>1, Kinds DEF Acyclic
<1>5. ItemsFlat(heap)
  BY <1>1 DEF ItemsFlat, Items
<1>6. Good(heap)
  BY <1>2, <1>3, <1>4, <1>5 DEF Good
<1>7. Follows(heap, NoLoop)
  BY BoundIsPositive DEF Follows, NoLoop
<1>8. Sound(heap, iter, code)
  BY <1>1, <1>6, <1>7, Ends
<1>9. Coded
  <2>1. <<>> \in Seq({})
    OBVIOUS
  <2>2. QED
    BY <1>1, <2>1 DEF Coded
<1>10. QED
  BY <1>1, <1>8, <1>9 DEF IInv, NoLoop

\* Every step of a careful script keeps the invariant.
LEMMA NextKeeps ==
    ASSUME CarefulScript, IInv, [Next]_vars
    PROVE  IInv'
<1>1. CASE \E s \in Statement : Execute(s)
  BY <1>1, ExecuteKeeps
<1>2. CASE BeginTurn
  BY <1>2, BeginTurnKeeps
<1>3. CASE EndLoop
  BY <1>3, EndLoopKeeps
<1>4. CASE BeginReturn
  BY <1>4, BeginReturnKeeps
<1>5. CASE Opcode
  BY <1>5, OpcodeKeeps
<1>6. CASE UNCHANGED vars
  BY <1>6 DEF vars, IInv, Coded
<1>7. QED
  BY <1>1, <1>2, <1>3, <1>4, <1>5, <1>6 DEF Next

\* No opcode of the model has more than two operands.
LEMMA StackIsShort ==
    ASSUME NEW h, NEW it, NEW c, At(h, it, c)
    PROVE  Len(h.stack) <= 2
<1>1. Len(<<>>) <= 2 /\ (\A a : Len(<<a>>) <= 2) /\ (\A a, b : Len(<<a, b>>) <= 2)
  OBVIOUS
<1>2. h.stack = <<>> \/ (\E a : h.stack = <<a>>) \/ (\E a, b : h.stack = <<a, b>>)
  BY DEF At, AtPush, AtGet, AtGetRef, AtGetUnique, AtSet, AtNewList, AtGetIndex, AtGetIndexRef,
         AtSetIndex, AtCallAppend, AtNewIterator, AtNext, AtCall, AtPopLocal
<1>3. QED
  BY <1>1, <1>2

\* The invariant says what every variable is.
LEMMA IInvTypeOK ==
    ASSUME IInv
    PROVE  TypeOK
<1>1. Good(heap) /\ Follows(heap, iter) /\ At(heap, iter, code) /\ called \in BOOLEAN
  BY DEF IInv, Sound
<1>2. /\ heap.var \in [Variable -> Variant] /\ heap.box \in [Box -> Variant \cup {Freed}]
      /\ heap.object \in {Null} \cup Box /\ heap.stack \in Seq(Variant)
  BY <1>1, GoodBoxes
<1>3. \A l \in List : \/ heap.list[l] = Freed
                      \/ /\ Len(heap.list[l]) \in 1..MaxLength
                         /\ \A i \in DOMAIN heap.list[l] :
                               heap.list[l][i] \in {Null} \cup Scalar \cup Box
  BY <1>1, ItemsOf DEF Flat
<1>4. Len(heap.stack) <= 2
  BY <1>1, StackIsShort
<1>5. iter.pos \in 0..(MaxLength + 1) /\ (iter.open => iter.list \in List /\ iter.over \in Variable)
  BY <1>1 DEF Follows
<1>6. QED
  BY <1>1, <1>2, <1>3, <1>4, <1>5 DEF TypeOK

\* Boxes that hold each other in no circle have a last one.
LEMMA IInvResolveEnds ==
    ASSUME IInv
    PROVE  ResolveEnds
<1>1. Good(heap)
  BY DEF IInv, Sound
<1>2. QED
  BY <1>1, GoodBoxes, ResolveIs DEF ResolveEnds

\* The invariant says which list the iterator is over.
LEMMA IInvFollows ==
    ASSUME IInv
    PROVE  IteratorFollowsCollection
<1>1. Good(heap) /\ Follows(heap, iter) /\ At(heap, iter, code)
  BY DEF IInv, Sound
<1>2. SUFFICES ASSUME iter.open
               PROVE  /\ iter.list = Resolve(heap, Iterated)
                      /\ Is("NextValue") => iter.pos \in DOMAIN heap.list[iter.list]
  BY DEF IteratorFollowsCollection
<1>3. iter.list \in List /\ heap.object \in Box /\ Final(heap, heap.object) = iter.list
  BY <1>1, <1>2 DEF Follows
<1>4. iter.list = Resolve(heap, Iterated)
  BY <1>1, <1>3, GoodBoxes, ResolveIs, Gets
<1>5. ASSUME Is("NextValue") PROVE iter.pos \in DOMAIN heap.list[iter.list]
  <2>1. AtNext(heap, iter, code)
    BY <1>1, <1>5, NextOpcode DEF Is
  <2>2. iter.pos \in 1..Len(heap.list[iter.list])
    BY <2>1 DEF AtNext
  <2>3. heap.list[iter.list] # Freed
    <3>1. heap.object \in Variant /\ Exists(heap, heap.object)
      BY <1>1, <1>3, Kinds DEF Good, Live
    <3>2. Exists(heap, iter.list)
      BY <1>1, <1>3, <3>1, FinalExists
    <3>3. QED
      BY <1>3, <3>2 DEF Exists
  <2>4. heap.list[iter.list] \in Seq(Flat)
    BY <1>1, <1>3, <2>3, ItemsOf
  <2>5. QED
    BY <2>2, <2>4
<1>6. QED
  BY <1>4, <1>5

\* The memory of variants is well typed and has no use of what has been released,
\* boxes do not hold each other in a circle, items lead to no list, the iterator is
\* over the list that its collection leads to, and each opcode finds on the stack and
\* in the variables what it relies on: for all variables, boxes, lists and bounds
\* (Runtime::interpret with variant.cpp).
THEOREM Invariance ==
    ASSUME CarefulScript
    PROVE  Spec => []IInv
<1>1. Init => IInv
  BY InitIInv
<1>2. IInv /\ [Next]_vars => IInv'
  BY NextKeeps
<1>3. QED
  BY <1>1, <1>2, PTL DEF Spec

\* Variables, boxes, items and the stack hold variants of the kinds they may hold,
\* there are never more than two operands on the stack, so that no opcode leaves one
\* behind, and lists are not empty (Runtime::interpret).
THEOREM TypesAreRight ==
    ASSUME CarefulScript
    PROVE  Spec => []TypeOK
<1>1. IInv => TypeOK
  BY IInvTypeOK
<1>2. QED
  BY <1>1, Invariance, PTL

\* resolve ends wherever it starts, as long as scripts make no reference to itself:
\* the opcodes themselves close no circle, also when a loop gives its variable one
\* reference after the other (Variant::resolve, visit_foreach_statement).
THEOREM ResolutionEnds ==
    ASSUME CarefulScript
    PROVE  Spec => []ResolveEnds
<1>1. IInv => ResolveEnds
  BY IInvResolveEnds
<1>2. QED
  BY <1>1, Invariance, PTL

\* The raw pointer of an iterator is to the list that its collection holds, and the
\* item that is taken exists, whatever is cloned, appended or assigned in the body of
\* the loop (ListIterator).
THEOREM LoopsFollowTheirCollection ==
    ASSUME CarefulScript
    PROVE  Spec => []IteratorFollowsCollection
<1>1. IInv => IteratorFollowsCollection
  BY IInvFollows
<1>2. QED
  BY <1>1, Invariance, PTL
==============================================================================
