--------------------------- MODULE RecyclerProofs ---------------------------
(* What holds of Recycler for all objects, thresholds and bounds, in regular *)
(* runs: until a collection comes upon an object in the middle of its        *)
(* destruction, or destroys a garbage cycle.                                 *)
EXTENDS Recycler, FiniteSetTheorems, TLAPS

------------------------------------------------------------------------------
(* What the memory manager keeps true in a regular run. *)

Calls == [op : Op, obj : Object \cup {Nil}]

Types ==
    /\ state \in [Object -> {"unborn", "alive", "freed"}]
    /\ ref_count \in [Object -> Int]
    /\ gc_color \in [Object -> {"black", "grey", "white", "purple"}]
    /\ next \in [Object -> Object \cup {Nil}]
    /\ previous \in [Object -> Object \cup {Nil}]
    /\ items \in [Object -> Seq(Object)]
    /\ handles \in [Object -> Nat]
    /\ gc_root \in Object \cup {Nil}
    /\ todo \in Seq(Calls)
    /\ \A p \in Object : Len(items[p]) <= MaxItems
    /\ \A p \in Object : state[p] = "unborn" => items[p] = <<>>
    /\ IsFiniteSet({p \in Object : state[p] # "unborn"})

(* The calls to be made.                                                     *)

In(s, c) == \E i \in DOMAIN s : s[i] = c
Times(s, c) == Cardinality({i \in DOMAIN s : s[i] = c})
HasOp(s, op) == \E i \in DOMAIN s : s[i].op = op

Pending(op, o) == In(todo, Call(op, o))
Has(op) == HasOp(todo, op)

\* What follows a call: a call that another one makes comes before what is left
\* of it, and only a release, which has nothing left to do but that, starts a
\* destruction or a collection.
Outside == {"link", "release", "delete"}

After(op) ==
    CASE op \in {"grey", "trial"} -> {"grey", "trial", "mark", "marked", "scanAll", "pop"} \cup Outside
      [] op \in {"mark", "marked"} -> {"scanAll", "pop"} \cup Outside
      [] op \in {"scan", "black", "undo"} -> {"scan", "undo", "scanned", "pop"} \cup Outside
      [] op \in {"scanAll", "scanned", "white"} -> {"pop"} \cup Outside
      [] op \in {"pop", "collect"} -> Outside
      [] OTHER -> {"release", "delete"}

MarkOps == {"grey", "trial", "mark", "marked"}
ScanOps == {"scan", "black", "undo", "scanned", "white"}

Follows(s) == \A i, j \in DOMAIN s : i < j => s[j].op \in After(s[i].op)

Shape ==
    /\ Follows(todo)
    /\ \A op \in MarkOps : Has(op) => Has("scanAll")
    /\ \A op \in ScanOps \cup {"scanAll"} : Has(op) => Has("pop")

\* The collector colors objects grey, and trial deletion takes from the counts;
\* then it colors them white or black, and gives back what was taken.
Idle == ~Has("pop")
Marking == Has("scanAll")
Scanning == Has("pop") /\ ~Has("scanAll")

(* The references. *)

Holds(p, o) == \E i \in DOMAIN items[p] : items[p][i] = o

RefsIn(f, x, P) ==
    {r \in Object \X (1..MaxItems) :
        r[1] \in P /\ r[2] \in DOMAIN f[r[1]] /\ f[r[1]][r[2]] = x}
Refs(f, x, P) == Cardinality(RefsIn(f, x, P))

Grey == {p \in Object : gc_color[p] = "grey"}
Trialled == Grey \cup White
Holders == {p \in Object : state[p] = "alive" /\ ~Dying(p)}

\* the references to an object, those that a destructor has yet to give up included
Total(x) == handles[x] + Refs(items, x, Holders) + Times(todo, Call("release", x))

\* Trial deletion takes from the count of an object what the colored ones hold.
Balance ==
    \A x \in Object : ref_count[x] = Total(x) - Refs(items, x, Trialled)
        + Times(todo, Call("trial", x)) - Times(todo, Call("undo", x))

Ending(o) == state[o] # "alive" \/ Pending("destroy", o) \/ Pending("delete", o)

Lives == \A o \in Object : Ending(o) <=> Total(o) = 0

Colours ==
    /\ Idle => Trialled = {}
    /\ Marking => /\ White = {}
                  /\ \A p \in Grey : \A x \in Object :
                        Holds(p, x) => x \in Grey \/ Pending("trial", x) \/ Pending("grey", x)
    /\ Scanning => /\ \A p \in Trialled : \A x \in Object : Holds(p, x) => gc_color[x] # "purple"
                   /\ \A o \in Object : Pending("black", o) => o \in Trialled
                   /\ \A o \in Object : Pending("undo", o) => gc_color[o] # "purple"

(* The list of candidates. *)

NextClosed(S) == \A p \in S : next[p] # Nil => next[p] \in S
ChainClosed(S) == (gc_root # Nil => gc_root \in S) /\ NextClosed(S)
OnChain(o) == \A S \in SUBSET Object : ChainClosed(S) => o \in S

\* n was taken off the list as its last element, by way of a link of its own to
\* itself, and the element before it still refers to it.
Stub(n) == previous[n] = Nil /\ next[n] = Nil

Linked ==
    /\ \A p \in Object : next[p] \notin {Nil, p} => previous[next[p]] = p \/ Stub(next[p])
    /\ \A n \in Object : previous[n] \notin {Nil, n} => next[previous[n]] = n
    /\ \A n \in Object : previous[n] = n => next[n] = n /\ gc_root = n
    /\ gc_root # Nil => previous[gc_root] \in {Nil, gc_root}
    /\ \A p \in Object : next[p] = gc_root /\ gc_root # Nil => p = gc_root
    /\ \A p, q \in Object : next[p] = next[q] /\ next[p] \notin {Nil, p, q} => p = q
    /\ \A p \in Object : next[p] # Nil => OnChain(p)

Born ==
    /\ gc_root # Nil => state[gc_root] # "unborn"
    /\ \A p \in Object : next[p] # Nil => state[next[p]] # "unborn"
    /\ \A o \in Object : Pending("link", o) => state[o] # "unborn"

Unlinked == \A o \in Object : Pending("link", o) => next[o] = Nil

\* Between collections a candidate is purple.
Candidates ==
    Idle => /\ \A p \in Object : next[p] # Nil => gc_color[p] = "purple"
            /\ \A p \in Object : next[p] \notin {Nil, p} /\ Stub(next[p]) => state[next[p]] = "freed"
            /\ \A o \in Object : Pending("link", o) => gc_color[o] = "purple" \/ gc_root = Nil

Ordered(pos) == \A p \in Object : next[p] \notin {Nil, p} => pos[p] < pos[next[p]]

(* The coverage of a collection. *)

ItemsClosed(S, C) == \A p \in S \cap C : \A x \in Object : Holds(p, x) => x \in S

\* K: the candidates that were marked.  They stay on the list, and what is grey
\* is what they refer to.
Covers(K) ==
    \A S \in SUBSET Object : K \subseteq S /\ ItemsClosed(S, Grey) =>
        /\ Grey \subseteq S
        /\ \A o \in Object : Pending("grey", o) \/ Pending("trial", o) => o \in S
Listed(K) == \A k \in K : OnChain(k)
Passed(pos, K) ==
    /\ \A o \in Object : Pending("mark", o) =>
        /\ OnChain(o)
        /\ \A k \in K : pos[k] < pos[o] \/ (k = o /\ next[o] = o)
    /\ \A o \in Object : Pending("marked", o) /\ next[o] # Nil =>
        /\ OnChain(o)
        /\ \A k \in K : pos[k] < pos[o] \/ k = o
Kept(pos, K) == Listed(K) /\ Covers(K) /\ Passed(pos, K)

Positions ==
    \E pos \in [Object -> Int] :
        Ordered(pos) /\ (Marking => \E K \in SUBSET Object : Kept(pos, K))

\* Every grey object is reached from what is left to scan.
GreyScanned ==
    \A R, S \in SUBSET Object :
        /\ R \subseteq S
        /\ NextClosed(R)
        /\ \A c \in Object : Pending("scanned", c) /\ next[c] # Nil => next[c] \in R
        /\ \A o \in Object : Pending("scan", o) \/ Pending("black", o) \/ Pending("undo", o) => o \in S
        /\ ItemsClosed(S, Grey)
        => Grey \subseteq S

\* Every white object is reached from the list, or will be restored.
WhiteListed ==
    \A C, S \in SUBSET Object :
        /\ C \subseteq S
        /\ ChainClosed(C)
        /\ \A o \in Object : Pending("white", o) \/ Pending("black", o) \/ Pending("undo", o) => o \in S
        /\ ItemsClosed(S, White)
        => /\ White \subseteq S
           /\ \A o \in Object : Pending("scan", o) => o \in S \/ gc_color[o] = "black"

Coverage ==
    Scanning => /\ \A o \in Object : Pending("scanned", o) => OnChain(o)
                /\ \A o \in Object : Pending("white", o) => ~is_candidate(o)
                /\ GreyScanned
                /\ WhiteListed

List == Linked /\ Born /\ Unlinked /\ Candidates /\ Positions

IInv == Types /\ Shape /\ Balance /\ Lives /\ Colours /\ List /\ Coverage

(* What the calls to be made may count on. *)

\* An object about to be listed or destroyed is there, and its destructor is called
\* once; a loop over the candidates is of no object.
Owned ==
    /\ \A o \in Object : Pending("link", o) \/ Pending("destroy", o) \/ Pending("delete", o)
            => state[o] = "alive"
    /\ \A o \in Object : Pending("destroy", o) => ~Dying(o)
    /\ \A o \in Object : Times(todo, Call("delete", o)) <= 1
    /\ \A o \in Object : ~Pending("collect", o) /\ ~Pending("scanAll", o) /\ ~Pending("pop", o)
    /\ ~Pending("delete", Nil)

\* A collection comes upon no object that nothing refers to, but for candidates that it
\* scans and finds without a color.
Visited ==
    /\ \A o \in Object : Pending("marked", o) \/ Pending("white", o) => state[o] = "alive"
    /\ \A o \in Object :
            o \in Trialled \/ Pending("grey", o) \/ Pending("trial", o)
                           \/ Pending("black", o) \/ Pending("undo", o) => Total(o) > 0
    /\ \A o \in Object : Pending("scan", o) => OnChain(o) \/ Total(o) > 0

\* What was colored white has no count left, or is about to be colored black.
Unused == Scanning => \A o \in White : ref_count[o] <= 0 \/ Pending("black", o)

Sound == Owned /\ Visited /\ Unused

------------------------------------------------------------------------------

\* A call is in a sequence a number of times, none exactly if it is not in it.
LEMMA TimesIsNat ==
    ASSUME NEW X, NEW s \in Seq(X), NEW c
    PROVE  /\ IsFiniteSet({i \in DOMAIN s : s[i] = c})
           /\ Times(s, c) \in Nat
           /\ Times(s, c) = 0 <=> ~In(s, c)
<1>1. IsFiniteSet(1..Len(s))
  BY FS_Interval
<1>2. {i \in DOMAIN s : s[i] = c} \in SUBSET (1..Len(s))
  OBVIOUS
<1>3. IsFiniteSet({i \in DOMAIN s : s[i] = c})
  BY <1>1, <1>2, FS_Subset
<1>4. Times(s, c) \in Nat
  BY <1>3, FS_CardinalityType DEF Times
<1>5. Times(s, c) = 0 <=> {i \in DOMAIN s : s[i] = c} = {}
  BY <1>3, FS_EmptySet DEF Times
<1>6. QED
  BY <1>3, <1>4, <1>5 DEF In

\* How often a call is in a sequence with one more at the end,
LEMMA TimesAppend ==
    ASSUME NEW X, NEW s \in Seq(X), NEW a \in X, NEW c
    PROVE  Times(Append(s, a), c) = Times(s, c) + (IF a = c THEN 1 ELSE 0)
<1> DEFINE S == {i \in DOMAIN s : s[i] = c}
           t == Append(s, a)
<1>1. IsFiniteSet(S) /\ Times(s, c) \in Nat /\ Times(s, c) = Cardinality(S)
  BY TimesIsNat DEF Times
<1>0. Len(s) + 1 \notin S /\ t \in Seq(X) /\ DOMAIN t = (DOMAIN s) \cup {Len(s) + 1}
      /\ t[Len(s) + 1] = a /\ \A i \in DOMAIN s : t[i] = s[i]
  OBVIOUS
<1>2. CASE a = c
  <2>1. {i \in DOMAIN t : t[i] = c} = S \cup {Len(s) + 1}
    BY <1>0, <1>2
  <2>2. Cardinality(S \cup {Len(s) + 1}) = Cardinality(S) + 1
    BY <1>0, <1>1, FS_AddElement
  <2>3. Times(t, c) = Cardinality(S \cup {Len(s) + 1})
    BY <2>1 DEF Times
  <2> HIDE DEF S, t
  <2>4. QED
    BY <1>1, <1>2, <2>2, <2>3 DEF t
<1>3. CASE a # c
  <2>1. {i \in DOMAIN t : t[i] = c} = S
    BY <1>0, <1>3
  <2>2. Times(t, c) = Cardinality(S)
    BY <2>1 DEF Times
  <2> HIDE DEF S, t
  <2>3. QED
    BY <1>1, <1>3, <2>2 DEF t
<1>4. QED
  BY <1>2, <1>3

\* ... with one less at the end,
LEMMA TimesFront ==
    ASSUME NEW X, NEW s \in Seq(X), s # <<>>, NEW c
    PROVE  Times(SubSeq(s, 1, Len(s) - 1), c) = Times(s, c) - (IF s[Len(s)] = c THEN 1 ELSE 0)
<1> DEFINE f == SubSeq(s, 1, Len(s) - 1)
<1>1. f \in Seq(X) /\ s[Len(s)] \in X /\ s = Append(f, s[Len(s)])
  OBVIOUS
<1> HIDE DEF f
<1>2. Times(s, c) = Times(f, c) + (IF s[Len(s)] = c THEN 1 ELSE 0)
  <2>1. Times(Append(f, s[Len(s)]), c) = Times(f, c) + (IF s[Len(s)] = c THEN 1 ELSE 0)
    BY <1>1, TimesAppend
  <2>2. QED
    BY <1>1, <2>1
<1>3. Times(f, c) \in Nat
  BY <1>1, TimesIsNat
<1>4. QED
  BY <1>2, <1>3 DEF f

\* the places of a concatenation
LEMMA Places ==
    ASSUME NEW X, NEW s \in Seq(X), NEW t \in Seq(X)
    PROVE  /\ s \o t \in Seq(X)
           /\ Len(s \o t) = Len(s) + Len(t)
           /\ DOMAIN (s \o t) = 1..(Len(s) + Len(t))
           /\ \A i \in 1..Len(s) : (s \o t)[i] = s[i]
           /\ \A i \in 1..Len(t) : (s \o t)[Len(s) + i] = t[i]
OBVIOUS

\* ... in two sequences,
LEMMA TimesConcat ==
    ASSUME NEW X, NEW s \in Seq(X), NEW t \in Seq(X), NEW c
    PROVE  Times(s \o t, c) = Times(s, c) + Times(t, c)
<1> DEFINE S == {i \in DOMAIN s : s[i] = c}
           T == {i \in DOMAIN t : t[i] = c}
           U == {Len(s) + i : i \in T}
           f == [i \in T |-> Len(s) + i]
<1>1. IsFiniteSet(S) /\ IsFiniteSet(T)
  BY TimesIsNat
<1>2. ExistsBijection(T, U)
  <2>1. f \in Bijection(T, U)
    <3>1. T \subseteq Nat /\ Len(s) \in Nat
      OBVIOUS
    <3>2. f \in [T -> U]
      OBVIOUS
    <3>3. ASSUME NEW i \in DOMAIN f, NEW j \in DOMAIN f, f[i] = f[j]
          PROVE  i = j
      <4>1. f[i] = Len(s) + i /\ f[j] = Len(s) + j
        OBVIOUS
      <4>2. i \in Nat /\ j \in Nat /\ Len(s) \in Nat
        BY <3>1
      <4> HIDE DEF f, T, S, U
      <4>3. Len(s) + i = Len(s) + j
        BY <3>3, <4>1
      <4> DEFINE n == Len(s)
      <4> HIDE DEF n
      <4>4. i \in Nat /\ j \in Nat /\ n \in Nat /\ n + i = n + j
        BY <4>2, <4>3 DEF n
      <4>5. QED
        BY <4>4
    <3>4. \A u \in U : \E i \in T : f[i] = u
      OBVIOUS
    <3>5. QED
      BY <3>2, <3>3, <3>4 DEF Bijection, Injection, Surjection, IsInjective
  <2>2. QED
    BY <2>1 DEF ExistsBijection
<1>3. IsFiniteSet(U) /\ Cardinality(U) = Cardinality(T)
  BY <1>1, <1>2, FS_Bijection
<1>4. S \cap U = {}
  OBVIOUS
<1>5. {i \in DOMAIN (s \o t) : (s \o t)[i] = c} = S \cup U
  <2>1. ASSUME NEW i \in DOMAIN (s \o t), (s \o t)[i] = c
        PROVE  i \in S \cup U
    <3>1. CASE i <= Len(s)
      BY <2>1, <3>1, Places
    <3>2. CASE i > Len(s)
      <4>1. i - Len(s) \in 1..Len(t) /\ i = Len(s) + (i - Len(s))
        BY <2>1, <3>2, Places
      <4>2. i - Len(s) \in T
        BY <2>1, <4>1, Places
      <4>3. QED
        BY <4>1, <4>2
    <3>3. QED
      BY <2>1, <3>1, <3>2, Places
  <2>2. ASSUME NEW i \in S
        PROVE  i \in DOMAIN (s \o t) /\ (s \o t)[i] = c
    BY <2>2, Places
  <2>3. ASSUME NEW i \in T
        PROVE  Len(s) + i \in DOMAIN (s \o t) /\ (s \o t)[Len(s) + i] = c
    BY <2>3, Places
  <2>4. QED
    BY <2>1, <2>2, <2>3
<1>6. Cardinality(S \cup U) = Cardinality(S) + Cardinality(U)
  <2>1. Cardinality(S \cap U) = 0
    BY <1>4, FS_EmptySet
  <2>2. Cardinality(S) \in Nat /\ Cardinality(U) \in Nat
    BY <1>1, <1>3, FS_CardinalityType
  <2>3. QED
    <3>1. Cardinality(S \cup U) = Cardinality(S) + Cardinality(U) - Cardinality(S \cap U)
      BY <1>1, <1>3, FS_Union
    <3> HIDE DEF S, U
    <3>2. QED
      BY <2>1, <2>2, <3>1
<1>7. QED
  BY <1>3, <1>5, <1>6 DEF Times

\* ... in a sequence of one call,
LEMMA TimesOfOne ==
    ASSUME NEW a, NEW c
    PROVE  Times(<<a>>, c) = IF a = c THEN 1 ELSE 0
<1>1. CASE a = c
  <2>1. {i \in DOMAIN <<a>> : <<a>>[i] = c} = {1}
    BY <1>1
  <2>2. QED
    BY <1>1, <2>1, FS_Singleton DEF Times
<1>2. CASE a # c
  <2>1. {i \in DOMAIN <<a>> : <<a>>[i] = c} = {}
    BY <1>2
  <2>2. QED
    BY <1>2, <2>1, FS_EmptySet DEF Times
<1>3. QED
  BY <1>1, <1>2

\* ... and in what is left of a sequence after its first call.
LEMMA TimesOfTail ==
    ASSUME NEW X, NEW s \in Seq(X), s # <<>>, NEW c
    PROVE  Times(s, c) = (IF Head(s) = c THEN 1 ELSE 0) + Times(Tail(s), c)
<1>1. Head(s) \in X /\ Tail(s) \in Seq(X) /\ <<Head(s)>> \in Seq(X) /\ s = <<Head(s)>> \o Tail(s)
  OBVIOUS
<1>2. Times(s, c) = Times(<<Head(s)>>, c) + Times(Tail(s), c)
  <2> DEFINE h == <<Head(s)>>
             t == Tail(s)
  <2>1. h \in Seq(X) /\ t \in Seq(X) /\ s = h \o t
    BY <1>1
  <2> HIDE DEF h, t
  <2>2. Times(h \o t, c) = Times(h, c) + Times(t, c)
    BY <2>1, TimesConcat
  <2>3. Times(s, c) = Times(h, c) + Times(t, c)
    BY <2>1, <2>2
  <2>4. QED
    BY <2>3 DEF h, t
<1>3. QED
  BY <1>2, TimesOfOne

\* A call is made on an object once for each item that refers to it.
LEMMA TimesOnItems ==
    ASSUME NEW op, NEW o \in Object, NEW x, Types
    PROVE  Times(OnItems(op, o), Call(op, x)) = Times(items[o], x)
<1>1. DOMAIN OnItems(op, o) = DOMAIN items[o]
  BY DEF OnItems
<1>2. \A i \in DOMAIN items[o] : OnItems(op, o)[i] = Call(op, x) <=> items[o][i] = x
  BY DEF OnItems, Call
<1>3. {i \in DOMAIN OnItems(op, o) : OnItems(op, o)[i] = Call(op, x)} = {i \in DOMAIN items[o] : items[o][i] = x}
  BY <1>1, <1>2
<1>4. QED
  BY <1>3 DEF Times

\* What is to be done after a call that has put cs in its place.
LEMMA ThenTimes ==
    ASSUME NEW cs \in Seq(Calls), NEW c, Types, todo # <<>>, Then(cs)
    PROVE  /\ todo' \in Seq(Calls)
           /\ Times(todo', c) = Times(cs, c) + Times(todo, c) - (IF Head(todo) = c THEN 1 ELSE 0)
<1>1. todo \in Seq(Calls) /\ Tail(todo) \in Seq(Calls)
  BY DEF Types
<1>2. todo' = cs \o Tail(todo)
  BY DEF Then
<1>3. Times(todo', c) = Times(cs, c) + Times(Tail(todo), c)
  BY <1>1, <1>2, TimesConcat
<1>4. Times(todo, c) = (IF Head(todo) = c THEN 1 ELSE 0) + Times(Tail(todo), c)
  BY <1>1, TimesOfTail
<1>5. Times(Tail(todo), c) \in Nat /\ Times(cs, c) \in Nat
  BY <1>1, TimesIsNat
<1>6. todo' \in Seq(Calls)
  BY <1>1, <1>2
<1>7. QED
  BY <1>3, <1>4, <1>5, <1>6

\* Memory as far as references go.
Storing(f) ==
    /\ f \in [Object -> Seq(Object)]
    /\ \A p \in Object : Len(f[p]) <= MaxItems
    /\ IsFiniteSet({p \in Object : f[p] # <<>>})

\* Objects that do not exist yet hold nothing.
LEMMA BornAreStored ==
    ASSUME NEW f, NEW st, f \in [Object -> Seq(Object)],
           \A p \in Object : Len(f[p]) <= MaxItems,
           \A p \in Object : st[p] = "unborn" => f[p] = <<>>,
           IsFiniteSet({p \in Object : st[p] # "unborn"})
    PROVE  Storing(f)
<1>1. {p \in Object : f[p] # <<>>} \in SUBSET {p \in Object : st[p] # "unborn"}
  OBVIOUS
<1>2. IsFiniteSet({p \in Object : f[p] # <<>>})
  BY <1>1, FS_Subset
<1>3. QED
  BY <1>2 DEF Storing

\* The items are a memory.
LEMMA ItemsAreStored ==
    ASSUME Types
    PROVE  Storing(items)
BY BornAreStored DEF Types

\* The number of references to an object from a set of objects,
LEMMA RefsAreNat ==
    ASSUME NEW f, Storing(f), NEW x, NEW P
    PROVE  /\ IsFiniteSet(RefsIn(f, x, P))
           /\ Refs(f, x, P) \in Nat
           /\ Refs(f, x, P) = 0 <=> RefsIn(f, x, P) = {}
<1> DEFINE Q == {p \in Object : f[p] # <<>>}
<1>1. IsFiniteSet(Q) /\ IsFiniteSet(1..MaxItems)
  BY BoundsAreNat, FS_Interval DEF Storing
<1>2. IsFiniteSet(Q \X (1..MaxItems))
  BY <1>1, FS_Product
<1>3. RefsIn(f, x, P) \in SUBSET (Q \X (1..MaxItems))
  <2>1. ASSUME NEW r \in RefsIn(f, x, P)
        PROVE  r \in Q \X (1..MaxItems)
    <3>1. r \in Object \X (1..MaxItems) /\ r[2] \in DOMAIN f[r[1]]
      BY DEF RefsIn
    <3>2. r[1] \in Object /\ r[2] \in 1..MaxItems /\ r = <<r[1], r[2]>>
      BY <3>1
    <3>3. f[r[1]] # <<>>
      BY <3>1, <3>2
    <3>4. QED
      BY <3>2, <3>3
  <2>2. QED
    BY <2>1
<1>4. IsFiniteSet(RefsIn(f, x, P))
  BY <1>2, <1>3, FS_Subset
<1>5. QED
  BY <1>4, FS_CardinalityType, FS_EmptySet DEF Refs

\* ... which is zero exactly if none of them holds it.
LEMMA RefersTo ==
    ASSUME NEW f, Storing(f), NEW x, NEW P, NEW p \in Object, p \in P,
           NEW i \in DOMAIN f[p], f[p][i] = x
    PROVE  Refs(f, x, P) \in Nat /\ Refs(f, x, P) > 0
<1>1. f[p] \in Seq(Object) /\ Len(f[p]) <= MaxItems /\ MaxItems \in Nat
  BY BoundsAreNat DEF Storing
<1>2. i \in 1..MaxItems
  BY <1>1
<1>3. <<p, i>> \in Object \X (1..MaxItems) /\ <<p, i>>[1] = p /\ <<p, i>>[2] = i
  BY <1>2
<1>4. <<p, i>> \in RefsIn(f, x, P)
  BY <1>3 DEF RefsIn
<1>5. QED
  BY <1>4, RefsAreNat

\* It depends on the items of these objects only,
LEMMA RefsAgree ==
    ASSUME NEW f, NEW g, NEW x, NEW P, NEW Q,
           \A p \in Object : p \in P /\ f[p] # <<>> <=> p \in Q /\ g[p] # <<>>,
           \A p \in Object : p \in P /\ f[p] # <<>> => f[p] = g[p]
    PROVE  Refs(f, x, P) = Refs(g, x, Q)
<1>1. ASSUME NEW r \in Object \X (1..MaxItems)
      PROVE  (r[1] \in P /\ r[2] \in DOMAIN f[r[1]] /\ f[r[1]][r[2]] = x)
             <=> (r[1] \in Q /\ r[2] \in DOMAIN g[r[1]] /\ g[r[1]][r[2]] = x)
  <2>1. r[1] \in Object
    OBVIOUS
  <2>2. DOMAIN <<>> = {}
    OBVIOUS
  <2>3. QED
    BY <2>1, <2>2
<1>2. RefsIn(f, x, P) = RefsIn(g, x, Q)
  BY <1>1 DEF RefsIn
<1>3. QED
  BY <1>2 DEF Refs

\* ... is zero where there are none,
LEMMA RefsOfNone ==
    ASSUME NEW f, NEW x
    PROVE  Refs(f, x, {}) = 0
<1>1. RefsIn(f, x, {}) = {}
  BY DEF RefsIn
<1>2. QED
  BY <1>1, FS_EmptySet DEF Refs

\* ... and grows by what another object holds.
LEMMA RefsSplit ==
    ASSUME NEW f, Storing(f), NEW x, NEW P, NEW o \in Object, o \in P
    PROVE  Refs(f, x, P) = Refs(f, x, P \ {o}) + Times(f[o], x)
<1> DEFINE S == {i \in DOMAIN f[o] : f[o][i] = x}
           A == RefsIn(f, x, P \ {o})
           B == {<<o, i>> : i \in S}
           h == [i \in S |-> <<o, i>>]
<1>1. f[o] \in Seq(Object) /\ Len(f[o]) <= MaxItems /\ MaxItems \in Nat
  BY BoundsAreNat DEF Storing
<1>2. IsFiniteSet(A) /\ IsFiniteSet(S)
  BY <1>1, RefsAreNat, TimesIsNat
<1>3. IsFiniteSet(B) /\ Cardinality(B) = Cardinality(S)
  <2>1. h \in Bijection(S, B)
    <3>1. h \in [S -> B]
      OBVIOUS
    <3>2. \A i, j \in DOMAIN h : h[i] = h[j] => i = j
      OBVIOUS
    <3>3. \A b \in B : \E i \in S : h[i] = b
      OBVIOUS
    <3>4. QED
      BY <3>1, <3>2, <3>3 DEF Bijection, Injection, Surjection, IsInjective
  <2>2. ExistsBijection(S, B)
    BY <2>1 DEF ExistsBijection
  <2>3. QED
    BY <1>2, <2>2, FS_Bijection
<1>4. A \cap B = {}
  <2>1. ASSUME NEW r \in A
        PROVE  r[1] # o
    BY DEF RefsIn
  <2>2. ASSUME NEW r \in B
        PROVE  r[1] = o
    OBVIOUS
  <2>3. QED
    BY <2>1, <2>2
<1>5. RefsIn(f, x, P) = A \cup B
  <2>1. ASSUME NEW r \in RefsIn(f, x, P)
        PROVE  r \in A \cup B
    <3>1. r \in Object \X (1..MaxItems) /\ r[1] \in P /\ r[2] \in DOMAIN f[r[1]] /\ f[r[1]][r[2]] = x
      BY DEF RefsIn
    <3>2. r = <<r[1], r[2]>>
      BY <3>1
    <3>3. CASE r[1] = o
      BY <3>1, <3>2, <3>3
    <3>4. CASE r[1] # o
      BY <3>1, <3>4 DEF RefsIn
    <3>5. QED
      BY <3>3, <3>4
  <2>2. A \subseteq RefsIn(f, x, P)
    BY DEF RefsIn
  <2>3. ASSUME NEW i \in S
        PROVE  <<o, i>> \in RefsIn(f, x, P)
    <3>1. i \in 1..MaxItems
      BY <1>1
    <3>2. <<o, i>> \in Object \X (1..MaxItems) /\ <<o, i>>[1] = o /\ <<o, i>>[2] = i
      BY <3>1
    <3>3. QED
      BY <3>2 DEF RefsIn
  <2>4. QED
    BY <2>1, <2>2, <2>3
<1>6. Cardinality(A \cup B) = Cardinality(A) + Cardinality(B)
  <2>1. Cardinality(A \cap B) = 0
    BY <1>4, FS_EmptySet
  <2>2. Cardinality(A) \in Nat /\ Cardinality(B) \in Nat
    BY <1>2, <1>3, FS_CardinalityType
  <2>3. Cardinality(A \cup B) = Cardinality(A) + Cardinality(B) - Cardinality(A \cap B)
    BY <1>2, <1>3, FS_Union
  <2> HIDE DEF A, B
  <2>4. QED
    BY <2>1, <2>2, <2>3
<1>7. QED
  BY <1>3, <1>5, <1>6 DEF Times, Refs

\* the calls that a call leaves to be made
Later(op, o) == In(Tail(todo), Call(op, o))

\* The calls of two sequences are the calls of the first and of the second.
LEMMA InConcat ==
    ASSUME NEW X, NEW s \in Seq(X), NEW t \in Seq(X)
    PROVE  /\ \A c : In(s \o t, c) <=> In(s, c) \/ In(t, c)
           /\ \A op : HasOp(s \o t, op) <=> HasOp(s, op) \/ HasOp(t, op)
<1>1. ASSUME NEW i \in DOMAIN (s \o t), ~(i \in DOMAIN s)
      PROVE  i - Len(s) \in DOMAIN t /\ i = Len(s) + (i - Len(s))
  BY <1>1, Places
<1>2. \A i \in DOMAIN s : i \in DOMAIN (s \o t) /\ (s \o t)[i] = s[i]
  BY Places
<1>3. \A i \in DOMAIN t : Len(s) + i \in DOMAIN (s \o t) /\ (s \o t)[Len(s) + i] = t[i]
  BY Places
<1>4. \A i \in DOMAIN (s \o t) : \/ i \in DOMAIN s
                                 \/ \E j \in DOMAIN t : i = Len(s) + j
  BY <1>1
<1> DEFINE u == s \o t
           n == Len(s)
<1> HIDE DEF u, n
<1>5. ASSUME NEW c
      PROVE  In(s \o t, c) <=> In(s, c) \/ In(t, c)
  <2>1. In(s, c) => In(s \o t, c)
    BY <1>2 DEF In
  <2>2. In(t, c) => In(s \o t, c)
    BY <1>3 DEF In
  <2>3. ASSUME NEW i \in DOMAIN (s \o t), (s \o t)[i] = c
        PROVE  In(s, c) \/ In(t, c)
    BY <1>2, <1>3, <1>4, <2>3 DEF In
  <2>4. QED
    BY <2>1, <2>2, <2>3 DEF In
<1>6. ASSUME NEW op
      PROVE  HasOp(s \o t, op) <=> HasOp(s, op) \/ HasOp(t, op)
  <2>1. /\ \A i \in DOMAIN s : i \in DOMAIN u /\ u[i] = s[i]
        /\ \A i \in DOMAIN t : n + i \in DOMAIN u /\ u[n + i] = t[i]
        /\ \A i \in DOMAIN u : i \in DOMAIN s \/ \E j \in DOMAIN t : i = n + j
    BY <1>2, <1>3, <1>4 DEF u, n
  <2>2. HasOp(u, op) <=> HasOp(s, op) \/ HasOp(t, op)
    BY <2>1 DEF HasOp
  <2>3. QED
    BY <2>2 DEF u
<1>7. QED
  BY <1>5, <1>6

\* The calls of a sequence of one call.
LEMMA InOne ==
    ASSUME NEW a
    PROVE  /\ \A c : In(<<a>>, c) <=> a = c
           /\ \A op : HasOp(<<a>>, op) <=> a.op = op
BY DEF In, HasOp

\* No call is in the empty sequence.
LEMMA InNone ==
    /\ \A c : ~In(<<>>, c)
    /\ \A op : ~HasOp(<<>>, op)
BY DEF In, HasOp

\* The calls of a sequence are its first one and the others.
LEMMA InTail ==
    ASSUME NEW X, NEW s \in Seq(X), s # <<>>
    PROVE  /\ Tail(s) \in Seq(X)
           /\ \A c : In(s, c) <=> Head(s) = c \/ In(Tail(s), c)
           /\ \A op : HasOp(s, op) <=> Head(s).op = op \/ HasOp(Tail(s), op)
<1>1. Head(s) \in X /\ Tail(s) \in Seq(X) /\ <<Head(s)>> \in Seq(X) /\ s = <<Head(s)>> \o Tail(s)
  OBVIOUS
<1> DEFINE h == <<Head(s)>>
           t == Tail(s)
<1>2. h \in Seq(X) /\ t \in Seq(X) /\ s = h \o t
  BY <1>1
<1>3. /\ \A c : In(h, c) <=> Head(s) = c
      /\ \A op : HasOp(h, op) <=> Head(s).op = op
  BY InOne
<1> HIDE DEF h, t
<1>4. /\ \A c : In(h \o t, c) <=> In(h, c) \/ In(t, c)
      /\ \A op : HasOp(h \o t, op) <=> HasOp(h, op) \/ HasOp(t, op)
  BY <1>2, InConcat
<1>5. /\ \A c : In(s, c) <=> Head(s) = c \/ In(t, c)
      /\ \A op : HasOp(s, op) <=> Head(s).op = op \/ HasOp(t, op)
  BY <1>2, <1>3, <1>4
<1>6. QED
  BY <1>2, <1>5 DEF t

\* A call in a sequence has its operation in it.
LEMMA InHasOp ==
    ASSUME NEW s, NEW op, NEW o, In(s, Call(op, o))
    PROVE  HasOp(s, op)
BY DEF In, HasOp, Call

\* The calls made on the items of an object.
LEMMA InOnItems ==
    ASSUME NEW op, NEW o \in Object, Types
    PROVE  /\ \A q, x : In(OnItems(op, o), Call(q, x)) <=> q = op /\ Holds(o, x)
           /\ \A q : HasOp(OnItems(op, o), q) => q = op
           /\ op \in Op => OnItems(op, o) \in Seq(Calls)
<1>1. items[o] \in Seq(Object)
  BY DEF Types
<1>2. DOMAIN OnItems(op, o) = DOMAIN items[o]
  BY DEF OnItems
<1>3. \A i \in DOMAIN items[o] : OnItems(op, o)[i] = Call(op, items[o][i])
  BY DEF OnItems
<1>4. \A q, x, y : Call(op, y) = Call(q, x) <=> q = op /\ y = x
  BY DEF Call
<1>5. \A y : Call(op, y).op = op
  BY DEF Call
<1>6. \A q, x : In(OnItems(op, o), Call(q, x)) <=> q = op /\ Holds(o, x)
  BY <1>2, <1>3, <1>4 DEF In, Holds
<1>7. \A q : HasOp(OnItems(op, o), q) => q = op
  BY <1>2, <1>3, <1>5 DEF HasOp
<1>8. ASSUME op \in Op
      PROVE  OnItems(op, o) \in Seq(Calls)
  <2>1. \A i \in 1..Len(items[o]) : items[o][i] \in Object /\ Call(op, items[o][i]) \in Calls
    BY <1>1, <1>8 DEF Call, Calls
  <2>2. [i \in 1..Len(items[o]) |-> Call(op, items[o][i])] \in Seq(Calls)
    BY <1>1, <2>1
  <2>3. QED
    BY <1>1, <2>2 DEF OnItems
<1>9. QED
  BY <1>6, <1>7, <1>8

\* What is pending, before and after a call that has put cs in its place.
LEMMA ThenPending ==
    ASSUME NEW cs \in Seq(Calls), Types, todo # <<>>, Then(cs)
    PROVE  /\ todo' \in Seq(Calls)
           /\ \A op, x : Pending(op, x)' <=> In(cs, Call(op, x)) \/ Later(op, x)
           /\ \A op : Has(op)' <=> HasOp(cs, op) \/ HasOp(Tail(todo), op)
<1>1. todo \in Seq(Calls) /\ Tail(todo) \in Seq(Calls)
  BY DEF Types
<1>2. todo' = cs \o Tail(todo)
  BY DEF Then
<1>3. /\ \A c : In(cs \o Tail(todo), c) <=> In(cs, c) \/ In(Tail(todo), c)
      /\ \A op : HasOp(cs \o Tail(todo), op) <=> HasOp(cs, op) \/ HasOp(Tail(todo), op)
  BY <1>1, InConcat
<1>4. QED
  BY <1>1, <1>2, <1>3 DEF Pending, Has, Later

\* The call that is being made is pending.
LEMMA NowPending ==
    ASSUME NEW op, NEW o, Types, todo # <<>>, Head(todo) = Call(op, o)
    PROVE  /\ \A q, x : Pending(q, x) <=> (q = op /\ x = o) \/ Later(q, x)
           /\ \A q : Has(q) <=> q = op \/ HasOp(Tail(todo), q)
           /\ \A q, x : Later(q, x) => HasOp(Tail(todo), q)
<1>1. todo \in Seq(Calls)
  BY DEF Types
<1>2. /\ \A c : In(todo, c) <=> Call(op, o) = c \/ In(Tail(todo), c)
      /\ \A q : HasOp(todo, q) <=> Call(op, o).op = q \/ HasOp(Tail(todo), q)
  BY <1>1, InTail
<1>3. \A q, x : Call(op, o) = Call(q, x) <=> q = op /\ x = o
  BY DEF Call
<1>4. Call(op, o).op = op
  BY DEF Call
<1>5. QED
  BY <1>2, <1>3, <1>4, InHasOp DEF Pending, Has, Later

\* What follows a call.
LEMMA Following ==
    ASSUME Types, Shape, NEW op, NEW o, todo # <<>>, Head(todo) = Call(op, o)
    PROVE  /\ \A q : HasOp(Tail(todo), q) => q \in After(op)
           /\ Follows(Tail(todo))
           /\ op \in MarkOps => HasOp(Tail(todo), "scanAll")
           /\ op \in MarkOps \cup ScanOps \cup {"scanAll"} => HasOp(Tail(todo), "pop")
<1>1. todo \in Seq(Calls) /\ Len(todo) \in Nat /\ Len(todo) > 0 /\ todo[1] = Call(op, o) /\ todo[1].op = op
  <2>1. todo \in Seq(Calls)
    BY DEF Types
  <2>2. Len(todo) \in Nat /\ Len(todo) > 0 /\ todo[1] = Head(todo)
    BY <2>1
  <2>3. Call(op, o).op = op
    BY DEF Call
  <2>4. QED
    BY <2>1, <2>2, <2>3
<1>2. DOMAIN Tail(todo) = 1..(Len(todo) - 1) /\ \A i \in DOMAIN Tail(todo) : Tail(todo)[i] = todo[i + 1]
  BY <1>1
<1>3. \A i \in DOMAIN Tail(todo) : i + 1 \in DOMAIN todo /\ 1 \in DOMAIN todo /\ 1 < i + 1
  BY <1>1, <1>2
<1>4. \A q : HasOp(Tail(todo), q) => q \in After(op)
  <2>1. ASSUME NEW i \in DOMAIN Tail(todo)
        PROVE  Tail(todo)[i].op \in After(op)
    <3>1. todo[i + 1].op \in After(todo[1].op)
      BY <1>3 DEF Shape, Follows
    <3>2. QED
      BY <1>1, <1>2, <3>1
  <2>2. QED
    BY <2>1 DEF HasOp
<1>5. Follows(Tail(todo))
  <2>1. ASSUME NEW i \in DOMAIN Tail(todo), NEW j \in DOMAIN Tail(todo), i < j
        PROVE  Tail(todo)[j].op \in After(Tail(todo)[i].op)
    <3>1. i + 1 < j + 1
      BY <1>2, <2>1
    <3>2. todo[j + 1].op \in After(todo[i + 1].op)
      BY <1>3, <3>1 DEF Shape, Follows
    <3>3. QED
      BY <1>2, <3>2
  <2>2. QED
    BY <2>1 DEF Follows
<1>6. \A q : Has(q) <=> q = op \/ HasOp(Tail(todo), q)
  BY NowPending
<1>7. ASSUME op \in MarkOps
      PROVE  HasOp(Tail(todo), "scanAll")
  <2>1. Has("scanAll") /\ op # "scanAll"
    BY <1>6, <1>7 DEF Shape, MarkOps
  <2>2. QED
    BY <1>6, <2>1
<1>8. ASSUME op \in MarkOps \cup ScanOps \cup {"scanAll"}
      PROVE  HasOp(Tail(todo), "pop")
  <2>1. Has(op) /\ op # "pop"
    BY <1>6, <1>8 DEF MarkOps, ScanOps
  <2>2. Has("pop")
    BY <1>8, <2>1 DEF Shape
  <2>3. QED
    BY <1>6, <2>1, <2>2
<1>9. QED
  BY <1>4, <1>5, <1>7, <1>8

\* When the calls of two sequences follow one another as After has it.
LEMMA FollowsConcat ==
    ASSUME NEW s \in Seq(Calls), NEW t \in Seq(Calls), Follows(s), Follows(t),
           \A p, q : HasOp(s, p) /\ HasOp(t, q) => q \in After(p)
    PROVE  Follows(s \o t)
<1> SUFFICES ASSUME NEW i \in DOMAIN (s \o t), NEW j \in DOMAIN (s \o t), i < j
             PROVE  (s \o t)[j].op \in After((s \o t)[i].op)
  BY DEF Follows
<1>1. \A k \in DOMAIN (s \o t) : \/ k \in DOMAIN s /\ (s \o t)[k] = s[k]
                                 \/ k > Len(s) /\ k - Len(s) \in DOMAIN t /\ (s \o t)[k] = t[k - Len(s)]
  <2>1. ASSUME NEW k \in DOMAIN (s \o t), k > Len(s)
        PROVE  k - Len(s) \in DOMAIN t /\ (s \o t)[k] = t[k - Len(s)]
    <3>1. k - Len(s) \in 1..Len(t) /\ k = Len(s) + (k - Len(s))
      BY <2>1, Places
    <3>2. QED
      BY <3>1, Places
  <2>2. ASSUME NEW k \in DOMAIN (s \o t), ~(k > Len(s))
        PROVE  k \in DOMAIN s /\ (s \o t)[k] = s[k]
    BY <2>2, Places
  <2>3. QED
    BY <2>1, <2>2
<1>2. CASE i \in DOMAIN s /\ j \in DOMAIN s /\ (s \o t)[i] = s[i] /\ (s \o t)[j] = s[j]
  BY <1>2 DEF Follows
<1>3. CASE i \in DOMAIN s /\ (s \o t)[i] = s[i] /\ j - Len(s) \in DOMAIN t /\ (s \o t)[j] = t[j - Len(s)]
  <2>1. HasOp(s, s[i].op) /\ HasOp(t, t[j - Len(s)].op)
    BY <1>3 DEF HasOp
  <2>2. QED
    BY <1>3, <2>1
<1>4. CASE i > Len(s) /\ i - Len(s) \in DOMAIN t /\ (s \o t)[i] = t[i - Len(s)]
           /\ j - Len(s) \in DOMAIN t /\ (s \o t)[j] = t[j - Len(s)]
  <2>1. i - Len(s) < j - Len(s)
    BY Places
  <2>2. t[j - Len(s)].op \in After(t[i - Len(s)].op)
    BY <1>4, <2>1 DEF Follows
  <2>3. QED
    BY <1>4, <2>2
<1>5. CASE i > Len(s) /\ j \in DOMAIN s
  BY <1>5, Places
<1>6. QED
  BY <1>1, <1>2, <1>3, <1>4, <1>5

\* The calls of a loop over the items are alike.
LEMMA FollowsOnItems ==
    ASSUME NEW op, NEW o \in Object, Types, op \in After(op)
    PROVE  Follows(OnItems(op, o))
<1>1. \A i \in DOMAIN OnItems(op, o) : OnItems(op, o)[i].op = op
  BY DEF OnItems, Call
<1>2. QED
  BY <1>1 DEF Follows

\* Calls that may come before what follows op keep the shape.
LEMMA ThenShape ==
    ASSUME Types, Shape, NEW op, NEW o, todo # <<>>, Head(todo) = Call(op, o),
           NEW cs \in Seq(Calls), Then(cs),
           Follows(cs),
           \A p : HasOp(cs, p) => After(op) \subseteq After(p),
           \A p \in MarkOps : HasOp(cs, p) => op \in MarkOps \/ HasOp(cs, "scanAll"),
           \A p \in ScanOps \cup {"scanAll"} : HasOp(cs, p) =>
                op \in MarkOps \cup ScanOps \cup {"scanAll"} \/ HasOp(cs, "pop")
    PROVE  Shape'
<1>1. /\ \A q : HasOp(Tail(todo), q) => q \in After(op)
      /\ Follows(Tail(todo))
      /\ op \in MarkOps => HasOp(Tail(todo), "scanAll")
      /\ op \in MarkOps \cup ScanOps \cup {"scanAll"} => HasOp(Tail(todo), "pop")
  BY Following
<1>2. \A p : Has(p)' <=> HasOp(cs, p) \/ HasOp(Tail(todo), p)
  BY ThenPending
<1>3. \A p : Has(p) <=> p = op \/ HasOp(Tail(todo), p)
  BY NowPending
<1>4. Tail(todo) \in Seq(Calls) /\ todo' = cs \o Tail(todo)
  BY DEF Types, Then
<1>5. Follows(todo)'
  BY <1>1, <1>4, FollowsConcat
<1>6. \A p \in MarkOps : Has(p)' => Has("scanAll")'
  <2>1. ASSUME NEW p \in MarkOps, HasOp(Tail(todo), p), op = "scanAll"
        PROVE  FALSE
    BY <1>1, <2>1 DEF After, MarkOps, Outside
  <2>2. QED
    BY <1>1, <1>2, <1>3, <2>1 DEF Shape
<1>7. \A p \in ScanOps \cup {"scanAll"} : Has(p)' => Has("pop")'
  <2>1. ASSUME NEW p \in ScanOps \cup {"scanAll"}, HasOp(Tail(todo), p), op = "pop"
        PROVE  FALSE
    BY <1>1, <2>1 DEF After, ScanOps, Outside
  <2>2. QED
    BY <1>1, <1>2, <1>3, <2>1 DEF Shape
<1>8. QED
  BY <1>5, <1>6, <1>7 DEF Shape

------------------------------------------------------------------------------
(* Counts. *)

\* An object is being destroyed while the release of its memory is pending.
LEMMA DyingIsPending == \A o : Dying(o) <=> Pending("delete", o)
BY DEF Dying, Pending, In

\* A call that is not pending is pending zero times.
LEMMA TimesOfNone ==
    ASSUME NEW s \in Seq(Calls), NEW op, NEW x, ~HasOp(s, op)
    PROVE  Times(s, Call(op, x)) = 0
<1>1. ~In(s, Call(op, x))
  BY InHasOp
<1>2. QED
  BY <1>1, TimesIsNat

\* What the counts are made of are natural numbers.
LEMMA CountsAreNat ==
    ASSUME Types, NEW x \in Object
    PROVE  /\ Total(x) \in Nat /\ handles[x] \in Nat /\ ref_count[x] \in Int
           /\ \A P : Refs(items, x, P) \in Nat
           /\ \A op : Times(todo, Call(op, x)) \in Nat
           /\ \A op : Times(todo, Call(op, x)) = 0 <=> ~Pending(op, x)
<1>1. \A P : Refs(items, x, P) \in Nat
  BY ItemsAreStored, RefsAreNat
<1>2. todo \in Seq(Calls)
  BY DEF Types
<1>3. \A op : Times(todo, Call(op, x)) \in Nat /\ (Times(todo, Call(op, x)) = 0 <=> ~Pending(op, x))
  BY <1>2, TimesIsNat DEF Pending
<1>4. handles[x] \in Nat /\ ref_count[x] \in Int
  BY DEF Types
<1>5. Total(x) \in Nat
  BY <1>1, <1>3, <1>4 DEF Total
<1>6. QED
  BY <1>1, <1>3, <1>4, <1>5

\* how often a call is pending after a call has put cs in its place
LEMMA ThenCounts ==
    ASSUME Types, NEW op, NEW o, todo # <<>>, Head(todo) = Call(op, o),
           NEW cs \in Seq(Calls), Then(cs), NEW q, NEW x
    PROVE  /\ ~HasOp(cs, q) /\ ~(q = op /\ x = o)
                => Times(todo', Call(q, x)) = Times(todo, Call(q, x))
           /\ ~HasOp(cs, q) /\ q = op /\ x = o
                => Times(todo', Call(q, x)) = Times(todo, Call(q, x)) - 1
           /\ ~(q = op /\ x = o)
                => Times(todo', Call(q, x)) = Times(todo, Call(q, x)) + Times(cs, Call(q, x))
<1>1. Times(todo', Call(q, x)) = Times(cs, Call(q, x)) + Times(todo, Call(q, x))
                                 - (IF Head(todo) = Call(q, x) THEN 1 ELSE 0)
  BY ThenTimes
<1>2. Head(todo) = Call(q, x) <=> q = op /\ x = o
  BY DEF Call
<1>3. ~HasOp(cs, q) => Times(cs, Call(q, x)) = 0
  BY TimesOfNone
<1>4. Times(cs, Call(q, x)) \in Nat /\ Times(todo, Call(q, x)) \in Nat
  BY TimesIsNat DEF Types
<1>5. QED
  BY <1>1, <1>2, <1>3, <1>4

Destroying == {"release", "destroy", "delete"}

\* A call that neither releases nor destroys.
LEMMA Quiet ==
    ASSUME Types, NEW op, NEW o, todo # <<>>, Head(todo) = Call(op, o), op \notin Destroying,
           NEW cs \in Seq(Calls), Then(cs), \A q \in Destroying : ~HasOp(cs, q),
           UNCHANGED heap
    PROVE  /\ \A x : Total(x)' = Total(x)
           /\ \A x : Ending(x)' <=> Ending(x)
<1>1. /\ \A q, x : Pending(q, x)' <=> In(cs, Call(q, x)) \/ Later(q, x)
      /\ \A q, x : Pending(q, x) <=> (q = op /\ x = o) \/ Later(q, x)
  BY ThenPending, NowPending
<1>2. \A q \in Destroying : \A x : Pending(q, x)' <=> Pending(q, x)
  BY <1>1, InHasOp
<1>3. \A x : Ending(x)' <=> Ending(x)
  BY <1>2 DEF Ending, Destroying, heap
<1>4. \A x : Dying(x)' <=> Dying(x)
  <2>1. \A x : Dying(x)' <=> Pending("delete", x)'
    BY DEF Dying, Pending, In
  <2>2. QED
    BY <1>2, <2>1, DyingIsPending DEF Destroying
<1>5. Holders' = Holders
  BY <1>4 DEF Holders, heap
<1>6. \A x : Times(todo', Call("release", x)) = Times(todo, Call("release", x))
  BY ThenCounts DEF Destroying
<1>7. \A x : Total(x)' = Total(x)
  BY <1>5, <1>6 DEF Total, heap
<1>8. QED
  BY <1>3, <1>7

\* Such a call leaves alive what was alive,
LEMMA QuietLives ==
    ASSUME Lives, \A x : Total(x)' = Total(x), \A x : Ending(x)' <=> Ending(x)
    PROVE  Lives'
BY DEF Lives

\* ... and leaves the counts alone.
LEMMA NeutralBalance ==
    ASSUME Types, Balance, NEW op, NEW o, todo # <<>>, Head(todo) = Call(op, o),
           op \notin {"trial", "undo"},
           NEW cs \in Seq(Calls), Then(cs), ~HasOp(cs, "trial"), ~HasOp(cs, "undo"),
           \A x : Total(x)' = Total(x), items' = items, ref_count' = ref_count, Trialled' = Trialled
    PROVE  Balance'
<1>1. \A x : /\ Times(todo', Call("trial", x)) = Times(todo, Call("trial", x))
             /\ Times(todo', Call("undo", x)) = Times(todo, Call("undo", x))
  BY ThenCounts
<1>2. QED
  BY <1>1 DEF Balance

\* Coloring an object grey takes, in the calls it leaves, what the object holds.
LEMMA mark_grey_Balance ==
    ASSUME Types, Balance, NEW o \in Object, o \notin Trialled, todo # <<>>, Head(todo) = Call("grey", o),
           Then(OnItems("trial", o)), \A x : Total(x)' = Total(x),
           items' = items, ref_count' = ref_count, Trialled' = Trialled \cup {o}
    PROVE  Balance'
<1> DEFINE cs == OnItems("trial", o)
<1>1. cs \in Seq(Calls) /\ ~HasOp(cs, "undo")
  BY InOnItems DEF Op
<1> SUFFICES ASSUME NEW x \in Object
             PROVE  ref_count[x] = Total(x) - Refs(items, x, Trialled \cup {o})
                        + Times(todo', Call("trial", x)) - Times(todo', Call("undo", x))
  BY DEF Balance
<1>2. Times(todo', Call("trial", x)) = Times(todo, Call("trial", x)) + Times(items[o], x)
  <2>1. Times(todo', Call("trial", x)) = Times(todo, Call("trial", x)) + Times(cs, Call("trial", x))
    BY <1>1, ThenCounts
  <2>2. QED
    BY <2>1, TimesOnItems
<1>3. Times(todo', Call("undo", x)) = Times(todo, Call("undo", x))
  BY <1>1, ThenCounts
<1>4. Refs(items, x, Trialled \cup {o}) = Refs(items, x, Trialled) + Times(items[o], x)
  <2>1. PICK P : P = Trialled \cup {o}
    OBVIOUS
  <2>2. P \ {o} = Trialled /\ o \in P
    BY <2>1
  <2>3. Refs(items, x, P) = Refs(items, x, P \ {o}) + Times(items[o], x)
    BY <2>2, ItemsAreStored, RefsSplit
  <2>4. QED
    BY <2>1, <2>2, <2>3
<1>5. Times(items[o], x) \in Nat
  BY TimesIsNat DEF Types
<1>6. ref_count[x] = Total(x) - Refs(items, x, Trialled)
                        + Times(todo, Call("trial", x)) - Times(todo, Call("undo", x))
  BY DEF Balance
<1>7. QED
  BY <1>2, <1>3, <1>4, <1>5, <1>6, CountsAreNat

\* Coloring it black gives that back, in the same way.
LEMMA scan_black_Balance ==
    ASSUME Types, Balance, NEW o \in Object, o \in Trialled, todo # <<>>, Head(todo) = Call("black", o),
           Then(OnItems("undo", o)), \A x : Total(x)' = Total(x),
           items' = items, ref_count' = ref_count, Trialled' = Trialled \ {o}
    PROVE  Balance'
<1> DEFINE cs == OnItems("undo", o)
<1>1. cs \in Seq(Calls) /\ ~HasOp(cs, "trial")
  BY InOnItems DEF Op
<1> SUFFICES ASSUME NEW x \in Object
             PROVE  ref_count[x] = Total(x) - Refs(items, x, Trialled \ {o})
                        + Times(todo', Call("trial", x)) - Times(todo', Call("undo", x))
  BY DEF Balance
<1>2. Times(todo', Call("undo", x)) = Times(todo, Call("undo", x)) + Times(items[o], x)
  <2>1. Times(todo', Call("undo", x)) = Times(todo, Call("undo", x)) + Times(cs, Call("undo", x))
    BY <1>1, ThenCounts
  <2>2. QED
    BY <2>1, TimesOnItems
<1>3. Times(todo', Call("trial", x)) = Times(todo, Call("trial", x))
  BY <1>1, ThenCounts
<1>4. Refs(items, x, Trialled) = Refs(items, x, Trialled \ {o}) + Times(items[o], x)
  BY ItemsAreStored, RefsSplit
<1>5. Times(items[o], x) \in Nat
  BY TimesIsNat DEF Types
<1>6. ref_count[x] = Total(x) - Refs(items, x, Trialled)
                        + Times(todo, Call("trial", x)) - Times(todo, Call("undo", x))
  BY DEF Balance
<1>7. QED
  BY <1>2, <1>3, <1>4, <1>5, <1>6, CountsAreNat

\* The trial deletion of one reference.
LEMMA trial_Balance ==
    ASSUME Types, Balance, NEW o \in Object, todo # <<>>, Head(todo) = Call("trial", o),
           NEW cs \in Seq(Calls), Then(cs), ~HasOp(cs, "trial"), ~HasOp(cs, "undo"),
           \A x : Total(x)' = Total(x),
           items' = items, ref_count' = [ref_count EXCEPT ![o] = @ - 1], Trialled' = Trialled
    PROVE  Balance'
<1> SUFFICES ASSUME NEW x \in Object
             PROVE  ref_count'[x] = Total(x) - Refs(items, x, Trialled)
                        + Times(todo', Call("trial", x)) - Times(todo', Call("undo", x))
  BY DEF Balance
<1>1. Times(todo', Call("trial", x)) = Times(todo, Call("trial", x)) - (IF x = o THEN 1 ELSE 0)
  BY ThenCounts, CountsAreNat
<1>2. Times(todo', Call("undo", x)) = Times(todo, Call("undo", x))
  BY ThenCounts
<1>3. ref_count'[x] = ref_count[x] - (IF x = o THEN 1 ELSE 0)
  BY DEF Types
<1>4. ref_count[x] = Total(x) - Refs(items, x, Trialled)
                        + Times(todo, Call("trial", x)) - Times(todo, Call("undo", x))
  BY DEF Balance
<1>5. QED
  BY <1>1, <1>2, <1>3, <1>4, CountsAreNat

\* The trial deletion of one reference undone.
LEMMA undo_Balance ==
    ASSUME Types, Balance, NEW o \in Object, todo # <<>>, Head(todo) = Call("undo", o),
           NEW cs \in Seq(Calls), Then(cs), ~HasOp(cs, "trial"), ~HasOp(cs, "undo"),
           \A x : Total(x)' = Total(x),
           items' = items, ref_count' = [ref_count EXCEPT ![o] = @ + 1], Trialled' = Trialled
    PROVE  Balance'
<1> SUFFICES ASSUME NEW x \in Object
             PROVE  ref_count'[x] = Total(x) - Refs(items, x, Trialled)
                        + Times(todo', Call("trial", x)) - Times(todo', Call("undo", x))
  BY DEF Balance
<1>1. Times(todo', Call("undo", x)) = Times(todo, Call("undo", x)) - (IF x = o THEN 1 ELSE 0)
  BY ThenCounts, CountsAreNat
<1>2. Times(todo', Call("trial", x)) = Times(todo, Call("trial", x))
  BY ThenCounts
<1>3. ref_count'[x] = ref_count[x] + (IF x = o THEN 1 ELSE 0)
  BY DEF Types
<1>4. ref_count[x] = Total(x) - Refs(items, x, Trialled)
                        + Times(todo, Call("trial", x)) - Times(todo, Call("undo", x))
  BY DEF Balance
<1>5. QED
  BY <1>1, <1>2, <1>3, <1>4, CountsAreNat

\* An object with references is alive, and nothing is about to destroy it.
LEMMA HeldLives ==
    ASSUME Types, Lives, NEW o \in Object, Total(o) > 0
    PROVE  ~Ending(o) /\ state[o] = "alive" /\ o \in Holders
<1>1. ~Ending(o)
  BY CountsAreNat DEF Lives
<1>2. QED
  BY <1>1, DyingIsPending DEF Ending, Holders

\* While nothing is colored.
LEMMA IdleBalance ==
    ASSUME Trialled' = {}, \A x : Times(todo', Call("trial", x)) = 0,
           \A x : Times(todo', Call("undo", x)) = 0,
           ref_count' \in [Object -> Int],
           \A x \in Object : ref_count'[x] = Total(x)'
    PROVE  Balance'
<1> SUFFICES ASSUME NEW x \in Object
             PROVE  ref_count'[x] = Total(x)' - Refs(items', x, {})
                        + Times(todo', Call("trial", x)) - Times(todo', Call("undo", x))
  BY DEF Balance
<1>1. Refs(items', x, {}) = 0
  BY RefsOfNone
<1>2. ref_count'[x] \in Int /\ ref_count'[x] = Total(x)'
  OBVIOUS
<1>3. QED
  BY <1>1, <1>2

\* Then the count of an object is the number of its references.
LEMMA IdleCount ==
    ASSUME Types, Balance, Trialled = {}, NEW x \in Object, ~Pending("trial", x), ~Pending("undo", x)
    PROVE  ref_count[x] = Total(x)
<1>1. Refs(items, x, {}) = 0
  BY RefsOfNone
<1>2. Times(todo, Call("trial", x)) = 0 /\ Times(todo, Call("undo", x)) = 0
  BY CountsAreNat
<1>3. ref_count[x] = Total(x) - Refs(items, x, Trialled)
                        + Times(todo, Call("trial", x)) - Times(todo, Call("undo", x))
  BY DEF Balance
<1>4. QED
  BY <1>1, <1>2, <1>3, CountsAreNat

\* A release, a destruction and the release of memory happen between collections.
LEMMA DestroyingIsIdle ==
    ASSUME Types, Shape, Colours, NEW op \in Destroying \cup {"link"}, NEW o, todo # <<>>, Head(todo) = Call(op, o)
    PROVE  /\ Idle /\ Trialled = {}
           /\ \A q : HasOp(Tail(todo), q) => q \in {"release", "delete"}
           /\ \A q, x : Later(q, x) => q \in {"release", "delete"}
           /\ \A q, x : Pending(q, x) => q \in {"release", "delete", op}
<1>1. \A q : HasOp(Tail(todo), q) => q \in {"release", "delete"}
  BY Following DEF Destroying, After
<1>2. Idle
  BY <1>1, NowPending DEF Idle, Destroying
<1>3. \A q, x : Later(q, x) => q \in {"release", "delete"}
  BY <1>1, NowPending
<1>4. \A q, x : Pending(q, x) => q \in {"release", "delete", op}
  BY <1>3, NowPending
<1>5. QED
  BY <1>1, <1>2, <1>3, <1>4 DEF Colours

\* The call that is being made is the first one to be made.
LEMMA CallingMeans ==
    ASSUME NEW op, NEW o, Calling(op, o)
    PROVE  todo # <<>> /\ Head(todo) = Call(op, o)
BY DEF Calling

\* Objects are being destroyed as before if the calls that release them are.
LEMMA SameDying ==
    ASSUME \A x : Pending("delete", x)' <=> Pending("delete", x)
    PROVE  \A x : Dying(x)' <=> Dying(x)
<1>1. \A x : Dying(x)' <=> Pending("delete", x)'
  BY DEF Dying, Pending, In
<1>2. QED
  BY <1>1, DyingIsPending

\* the calls that release(o) makes
Released(o) ==
    IF ref_count[o] = 1 THEN <<Call("destroy", o)>>
    ELSE IF gc_color[o] = "purple" THEN <<>>
    ELSE IF is_full THEN <<Call("collect", Nil), Call("link", o)>> ELSE <<Call("link", o)>>

\* What is pending after a release,
LEMMA release_Calls ==
    ASSUME NEW o \in Object, release(o)
    PROVE  /\ Released(o) \in Seq(Calls)
           /\ Then(Released(o))
           /\ \A q : HasOp(Released(o), q) => q \in {"destroy", "collect", "link"}
           /\ \A x : In(Released(o), Call("destroy", x)) <=> ref_count[o] = 1 /\ x = o
           /\ \A x : In(Released(o), Call("link", x)) <=>
                        ref_count[o] # 1 /\ gc_color[o] # "purple" /\ x = o
           /\ HasOp(Released(o), "collect") => ref_count[o] # 1 /\ gc_color[o] # "purple"
           /\ Follows(Released(o))
<1>1. Call("destroy", o) \in Calls /\ Call("collect", Nil) \in Calls /\ Call("link", o) \in Calls
  BY DEF Call, Calls, Op
<1>2. /\ <<Call("destroy", o)>> \in Seq(Calls) /\ <<Call("link", o)>> \in Seq(Calls)
      /\ <<Call("collect", Nil), Call("link", o)>> \in Seq(Calls) /\ <<>> \in Seq(Calls)
  BY <1>1
<1>3. /\ Then(Released(o))
  BY DEF release, Released
<1>4. \A p, x, q, y : (Call(p, x) = Call(q, y) <=> p = q /\ x = y) /\ Call(p, x).op = p
  BY DEF Call
<1>5. /\ \A c : In(<<Call("collect", Nil), Call("link", o)>>, c) <=> c = Call("collect", Nil) \/ c = Call("link", o)
      /\ \A q : HasOp(<<Call("collect", Nil), Call("link", o)>>, q) <=> q = "collect" \/ q = "link"
      /\ Follows(<<Call("collect", Nil), Call("link", o)>>)
  <2> DEFINE s == <<Call("collect", Nil), Call("link", o)>>
  <2>1. DOMAIN s = {1, 2} /\ s[1] = Call("collect", Nil) /\ s[2] = Call("link", o)
    OBVIOUS
  <2> HIDE DEF s
  <2>2. \A c : In(s, c) <=> c = Call("collect", Nil) \/ c = Call("link", o)
    BY <2>1 DEF In
  <2>3. \A q : HasOp(s, q) <=> q = "collect" \/ q = "link"
    BY <1>4, <2>1 DEF HasOp
  <2>4. \A i, j \in DOMAIN s : i < j => i = 1 /\ j = 2
    BY <2>1
  <2>5. "link" \in After("collect")
    BY DEF After, Outside
  <2>6. Follows(s)
    BY <1>4, <2>1, <2>4, <2>5 DEF Follows
  <2>7. QED
    BY <2>2, <2>3, <2>6 DEF s
<1>6. \A a : Follows(<<a>>)
  BY DEF Follows
<1>7. Follows(<<>>)
  BY DEF Follows
<1>8. CASE ref_count[o] = 1
  BY <1>2, <1>3, <1>4, <1>6, <1>8, InOne DEF Released
<1>9. CASE ref_count[o] # 1 /\ gc_color[o] = "purple"
  BY <1>2, <1>3, <1>7, <1>9, InNone DEF Released
<1>10. CASE ref_count[o] # 1 /\ gc_color[o] # "purple" /\ is_full
  <2>1. Released(o) = <<Call("collect", Nil), Call("link", o)>>
    BY <1>10 DEF Released
  <2>2. QED
    BY <1>2, <1>3, <1>4, <1>5, <1>10, <2>1
<1>11. CASE ref_count[o] # 1 /\ gc_color[o] # "purple" /\ ~is_full
  BY <1>2, <1>3, <1>4, <1>6, <1>11, InOne DEF Released
<1>12. QED
  BY <1>8, <1>9, <1>10, <1>11

\* ... and what it does to the counts: at zero it destroys the object.
LEMMA release_Counts ==
    ASSUME Types, Shape, Balance, Lives, Colours, NEW o \in Object, release(o)
    PROVE  Balance' /\ Lives'
<1>1. todo # <<>> /\ Head(todo) = Call("release", o)
  BY CallingMeans DEF release
<1>2. /\ Idle /\ Trialled = {}
      /\ \A q, x : Later(q, x) => q \in {"release", "delete"}
      /\ \A q, x : Pending(q, x) => q \in {"release", "delete"}
  BY <1>1, DestroyingIsIdle DEF Destroying
<1>3. /\ Released(o) \in Seq(Calls)
      /\ Then(Released(o))
      /\ \A q : HasOp(Released(o), q) => q \in {"destroy", "collect", "link"}
      /\ \A x : In(Released(o), Call("destroy", x)) <=> ref_count[o] = 1 /\ x = o
  BY release_Calls
<1>4. /\ \A q, x : Pending(q, x)' <=> In(Released(o), Call(q, x)) \/ Later(q, x)
      /\ \A q, x : Pending(q, x) <=> (q = "release" /\ x = o) \/ Later(q, x)
  BY <1>1, <1>3, ThenPending, NowPending
<1>5. /\ \A x : Pending("delete", x)' <=> Pending("delete", x)
      /\ \A x : Pending("destroy", x)' <=> ref_count[o] = 1 /\ x = o
  BY <1>2, <1>3, <1>4, InHasOp
<1>6. UNCHANGED heap
  BY DEF release
<1>7. Holders' = Holders
  BY <1>5, <1>6, SameDying DEF Holders, heap
<1>8. \A x : Times(todo', Call("release", x)) = Times(todo, Call("release", x)) - (IF x = o THEN 1 ELSE 0)
  <2>1. ~HasOp(Released(o), "release")
    BY <1>3
  <2>2. \A x : Times(todo, Call("release", x)) \in Nat
    BY TimesIsNat DEF Types
  <2>3. QED
    BY <1>1, <1>3, <2>1, <2>2, ThenCounts
<1>9. \A x \in Object : Total(x)' = Total(x) - (IF x = o THEN 1 ELSE 0)
  BY <1>6, <1>7, <1>8, CountsAreNat DEF Total, heap
<1>10. \A x \in Object : ref_count[x] = Total(x)
  BY <1>2, IdleCount
<1>11. Trialled' = {}
  <2>1. \A p \in Object : gc_color'[p] \in {gc_color[p], "purple"}
    BY DEF release, Types
  <2>2. QED
    BY <1>2, <2>1 DEF Trialled, Grey, White
<1>12. Balance'
  <2>1. \A x : ~HasOp(Released(o), "trial") /\ ~HasOp(Released(o), "undo")
    BY <1>3
  <2>2. \A x : ~Pending("trial", x)' /\ ~Pending("undo", x)'
    BY <1>2, <1>4, <2>1, InHasOp
  <2>3. todo' \in Seq(Calls)
    BY <1>1, <1>3, ThenPending
  <2>4. \A x : Times(todo', Call("trial", x)) = 0 /\ Times(todo', Call("undo", x)) = 0
    BY <2>2, <2>3, TimesIsNat DEF Pending
  <2>5. ref_count' = [ref_count EXCEPT ![o] = @ - 1]
    BY DEF release
  <2>6. ref_count' \in [Object -> Int]
    BY <2>5 DEF Types
  <2>7. \A x \in Object : ref_count'[x] = Total(x)'
    BY <1>9, <1>10, <2>5, CountsAreNat DEF Types
  <2>8. QED
    BY <1>11, <2>4, <2>6, <2>7, IdleBalance
<1>13. ASSUME NEW x \in Object, x # o
       PROVE  Ending(x)' <=> Total(x)' = 0
  <2>1. Total(x)' = Total(x)
    BY <1>9, <1>13, CountsAreNat
  <2>2. Ending(x)' <=> Ending(x)
    BY <1>2, <1>5, <1>6, <1>13 DEF Ending, heap
  <2>3. QED
    BY <2>1, <2>2 DEF Lives
<1>14. Ending(o)' <=> Total(o)' = 0
  <2>1. Total(o) > 0
    BY <1>4, <1>9, CountsAreNat, TimesIsNat DEF Total
  <2>2. ~Ending(o)
    BY <2>1, HeldLives
  <2>3. Ending(o)' <=> ref_count[o] = 1
    BY <1>5, <1>6, <2>2 DEF Ending, heap
  <2>4. Total(o)' = 0 <=> ref_count[o] = 1
    BY <1>9, <1>10, CountsAreNat
  <2>5. QED
    BY <2>3, <2>4
<1>15. QED
  BY <1>12, <1>13, <1>14 DEF Lives

\* the calls that destroy(o) makes
Destroyed(o) == OnItems("release", o) \o <<Call("delete", o)>>

\* What is pending after a destructor was called,
LEMMA destroy_Calls ==
    ASSUME Types, NEW o \in Object
    PROVE  /\ Destroyed(o) \in Seq(Calls)
           /\ \A q : HasOp(Destroyed(o), q) => q \in {"release", "delete"}
           /\ \A x : In(Destroyed(o), Call("delete", x)) <=> x = o
           /\ \A x : Times(Destroyed(o), Call("release", x)) = Times(items[o], x)
           /\ Follows(Destroyed(o))
<1> DEFINE s == OnItems("release", o)
           t == <<Call("delete", o)>>
<1>1. s \in Seq(Calls) /\ t \in Seq(Calls)
  <2>1. Call("delete", o) \in Calls
    BY DEF Call, Calls, Op
  <2>2. QED
    BY <2>1, InOnItems DEF Op
<1>2. \A p, x, q, y : (Call(p, x) = Call(q, y) <=> p = q /\ x = y) /\ Call(p, x).op = p
  BY DEF Call
<1>3. /\ \A q, x : In(s, Call(q, x)) <=> q = "release" /\ Holds(o, x)
      /\ \A q : HasOp(s, q) => q = "release"
      /\ \A c : In(t, c) <=> Call("delete", o) = c
      /\ \A q : HasOp(t, q) <=> Call("delete", o).op = q
  BY InOnItems, InOne
<1>4. Follows(s) /\ Follows(t)
  <2>1. "release" \in After("release")
    BY DEF After
  <2>2. QED
    BY <2>1, FollowsOnItems DEF Follows
<1>5. \A x : Times(s, Call("release", x)) = Times(items[o], x) /\ Times(t, Call("release", x)) = 0
  BY <1>2, TimesOnItems, TimesOfOne
<1>6. \A x : Times(items[o], x) \in Nat
  BY TimesIsNat DEF Types
<1> HIDE DEF s, t
<1>7. /\ s \o t \in Seq(Calls)
      /\ \A c : In(s \o t, c) <=> In(s, c) \/ In(t, c)
      /\ \A q : HasOp(s \o t, q) <=> HasOp(s, q) \/ HasOp(t, q)
  BY <1>1, InConcat
<1>8. \A x : Times(s \o t, Call("release", x)) = Times(items[o], x)
  BY <1>1, <1>5, <1>6, TimesConcat
<1>9. Follows(s \o t)
  <2>1. "delete" \in After("release")
    BY DEF After
  <2>2. \A p, q : HasOp(s, p) /\ HasOp(t, q) => q \in After(p)
    BY <1>2, <1>3, <2>1
  <2>3. QED
    BY <1>1, <1>4, <2>2, FollowsConcat
<1>10. Destroyed(o) = s \o t
  BY DEF Destroyed, s, t
<1>11. \A q : HasOp(s \o t, q) => q \in {"release", "delete"}
  BY <1>2, <1>3, <1>7
<1>12. \A x : In(s \o t, Call("delete", x)) <=> x = o
  BY <1>2, <1>3, <1>7
<1>13. QED
  BY <1>7, <1>8, <1>9, <1>10, <1>11, <1>12

\* ... and what it does to the counts: the items are still to be released.
LEMMA destroy_Counts ==
    ASSUME Types, Shape, Balance, Lives, Colours, NEW o \in Object, destroy(o), ~Dying(o)
    PROVE  Balance' /\ Lives'
<1>1. todo # <<>> /\ Head(todo) = Call("destroy", o)
  BY CallingMeans DEF destroy
<1>2. /\ Idle /\ Trialled = {}
      /\ \A q, x : Later(q, x) => q \in {"release", "delete"}
      /\ \A q, x : Pending(q, x) => q \in {"release", "delete", "destroy"}
  BY <1>1, DestroyingIsIdle DEF Destroying
<1>3. /\ Destroyed(o) \in Seq(Calls)
      /\ \A q : HasOp(Destroyed(o), q) => q \in {"release", "delete"}
      /\ \A x : In(Destroyed(o), Call("delete", x)) <=> x = o
      /\ \A x : Times(Destroyed(o), Call("release", x)) = Times(items[o], x)
  BY destroy_Calls
<1>4. Then(Destroyed(o)) /\ UNCHANGED <<heap, ref_count, gc_color>>
  BY DEF destroy, Destroyed
<1>5. /\ todo' \in Seq(Calls)
      /\ \A q, x : Pending(q, x)' <=> In(Destroyed(o), Call(q, x)) \/ Later(q, x)
      /\ \A q, x : Pending(q, x) <=> (q = "destroy" /\ x = o) \/ Later(q, x)
  BY <1>1, <1>3, <1>4, ThenPending, NowPending
<1>6. state[o] # "freed"
  <2>1. ~TouchesFreed(Call("destroy", o))
    BY <1>1 DEF destroy, Calling
  <2>2. o \in Touched(Call("destroy", o))
    BY NilIsNoObject DEF Touched, Call
  <2>3. QED
    BY <2>1, <2>2 DEF TouchesFreed
<1>7. /\ \A x : Pending("delete", x)' <=> x = o \/ Pending("delete", x)
      /\ \A x : ~Pending("destroy", x)'
      /\ \A x : Pending("destroy", x) <=> x = o
  BY <1>2, <1>3, <1>5, InHasOp
<1>8. Holders' = Holders \ {o}
  <2>1. \A x : Dying(x)' <=> Pending("delete", x)'
    BY DEF Dying, Pending, In
  <2>2. \A x : Dying(x)' <=> x = o \/ Dying(x)
    BY <1>7, <2>1, DyingIsPending
  <2>3. QED
    BY <1>4, <2>2 DEF Holders, heap
<1>9. \A x : Refs(items, x, Holders) = Refs(items, x, Holders \ {o}) + Times(items[o], x)
  <2>1. CASE state[o] = "alive"
    BY <2>1, ItemsAreStored, RefsSplit DEF Holders
  <2>2. CASE state[o] # "alive"
    <3>1. state[o] = "unborn" /\ items[o] = <<>>
      BY <1>6, <2>2 DEF Types
    <3>2. Holders \ {o} = Holders
      BY <2>2 DEF Holders
    <3>3. \A x : Times(items[o], x) = 0
      <4>1. items[o] \in Seq(Object)
        BY DEF Types
      <4>2. \A x : ~In(items[o], x)
        BY <3>1, InNone
      <4>3. QED
        BY <4>1, <4>2, TimesIsNat
    <3>4. \A x : Refs(items, x, Holders) \in Nat
      BY ItemsAreStored, RefsAreNat
    <3>5. QED
      BY <3>2, <3>3, <3>4
  <2>3. QED
    BY <2>1, <2>2
<1>10. \A x : Times(todo', Call("release", x)) = Times(todo, Call("release", x)) + Times(items[o], x)
  BY <1>1, <1>3, <1>4, ThenCounts
<1>11. \A x \in Object : Total(x)' = Total(x)
  <2>1. ASSUME NEW x \in Object
        PROVE  Total(x)' = Total(x)
    <3>1. Refs(items, x, Holders \ {o}) \in Nat /\ Times(items[o], x) \in Nat
      BY ItemsAreStored, RefsAreNat, TimesIsNat DEF Types
    <3>2. Total(x)' = handles[x] + Refs(items, x, Holders \ {o}) + (Times(todo, Call("release", x)) + Times(items[o], x))
      BY <1>4, <1>8, <1>10 DEF Total, heap
    <3>3. Total(x) = handles[x] + (Refs(items, x, Holders \ {o}) + Times(items[o], x)) + Times(todo, Call("release", x))
      BY <1>9 DEF Total
    <3>4. QED
      BY <3>1, <3>2, <3>3, CountsAreNat
  <2>2. QED
    BY <2>1
<1>12. Balance'
  <2>1. \A x : ~HasOp(Destroyed(o), "trial") /\ ~HasOp(Destroyed(o), "undo")
    BY <1>3
  <2>2. \A x : ~Pending("trial", x)' /\ ~Pending("undo", x)'
    BY <1>2, <1>5, <2>1, InHasOp
  <2>3. \A x : Times(todo', Call("trial", x)) = 0 /\ Times(todo', Call("undo", x)) = 0
    BY <1>5, <2>2, TimesIsNat DEF Pending
  <2>4. Trialled' = {}
    BY <1>2, <1>4 DEF Trialled, Grey, White
  <2>5. \A x \in Object : ref_count[x] = Total(x)
    BY <1>2, IdleCount
  <2>6. ref_count' \in [Object -> Int] /\ \A x \in Object : ref_count'[x] = Total(x)'
    BY <1>4, <1>11, <2>5 DEF Types
  <2>7. QED
    BY <2>3, <2>4, <2>6, IdleBalance
<1>13. \A x : Ending(x)' <=> Ending(x)
  BY <1>4, <1>7 DEF Ending, heap
<1>14. QED
  BY <1>11, <1>12, <1>13 DEF Lives

\* Releasing the memory of an object changes no count.
LEMMA delete_Counts ==
    ASSUME Types, Shape, Balance, Lives, Colours, NEW o \in Object, delete(o)
    PROVE  Balance' /\ Lives'
<1>1. todo # <<>> /\ Head(todo) = Call("delete", o)
  BY CallingMeans DEF delete
<1>2. /\ Idle /\ Trialled = {}
      /\ \A q, x : Later(q, x) => q \in {"release", "delete"}
      /\ \A q, x : Pending(q, x) => q \in {"release", "delete"}
  BY <1>1, DestroyingIsIdle DEF Destroying
<1>3. Then(<<>>) /\ UNCHANGED <<items, handles, ref_count, gc_color>> /\ state' = [state EXCEPT ![o] = "freed"]
  BY DEF delete
<1>4. <<>> \in Seq(Calls)
  OBVIOUS
<1>5. /\ todo' \in Seq(Calls)
      /\ \A q, x : Pending(q, x)' <=> Later(q, x)
      /\ \A q, x : Pending(q, x) <=> (q = "delete" /\ x = o) \/ Later(q, x)
  <2>1. todo' \in Seq(Calls) /\ \A q, x : Pending(q, x)' <=> In(<<>>, Call(q, x)) \/ Later(q, x)
    BY <1>1, <1>3, <1>4, ThenPending
  <2>2. \A q, x : Pending(q, x)' <=> Later(q, x)
    BY <2>1, InNone
  <2>3. \A q, x : Pending(q, x) <=> (q = "delete" /\ x = o) \/ Later(q, x)
    BY <1>1, NowPending
  <2>4. QED
    BY <2>1, <2>2, <2>3
<1>6. Holders' = Holders
  <2>1. \A x : Dying(x)' <=> Pending("delete", x)'
    BY DEF Dying, Pending, In
  <2>2. \A x : x # o => (Dying(x)' <=> Dying(x))
    BY <1>5, <2>1, DyingIsPending
  <2>3. Dying(o)
    BY <1>5, DyingIsPending
  <2>4. QED
    BY <1>3, <2>2, <2>3 DEF Holders, Types
<1>7. \A x : Times(todo', Call("release", x)) = Times(todo, Call("release", x))
  <2> DEFINE cs == <<>>
  <2>1. cs \in Seq(Calls) /\ Then(cs) /\ ~HasOp(cs, "release")
    BY <1>3, <1>4, InNone
  <2> HIDE DEF cs
  <2>2. QED
    BY <1>1, <2>1, ThenCounts
<1>8. \A x : Total(x)' = Total(x)
  BY <1>3, <1>6, <1>7 DEF Total
<1>9. Balance'
  <2>1. \A x : ~Pending("trial", x)' /\ ~Pending("undo", x)'
    BY <1>2, <1>5
  <2>2. \A x : Times(todo', Call("trial", x)) = 0 /\ Times(todo', Call("undo", x)) = 0
    BY <1>5, <2>1, TimesIsNat DEF Pending
  <2>3. Trialled' = {}
    BY <1>2, <1>3 DEF Trialled, Grey, White
  <2>4. \A x \in Object : ref_count[x] = Total(x)
    BY <1>2, IdleCount
  <2>5. ref_count' \in [Object -> Int] /\ \A x \in Object : ref_count'[x] = Total(x)'
    BY <1>3, <1>8, <2>4 DEF Types
  <2>6. QED
    BY <2>2, <2>3, <2>5, IdleBalance
<1>10. \A x \in Object : Ending(x)' <=> Ending(x)
  <2>1. ASSUME NEW x \in Object, x # o
        PROVE  Ending(x)' <=> Ending(x)
    BY <1>3, <1>5, <2>1 DEF Ending, Types
  <2>2. Ending(o) /\ Ending(o)'
    BY <1>3, <1>5 DEF Ending, Types
  <2>3. QED
    BY <2>1, <2>2
<1>11. QED
  BY <1>8, <1>9, <1>10 DEF Lives

\* Between two calls nothing is pending, colored or dying.
LEMMA Resting ==
    ASSUME Types, Balance, Lives, Colours, todo = <<>>
    PROVE  /\ \A q, x : ~Pending(q, x)
           /\ \A q : ~Has(q)
           /\ \A x : ~Dying(x)
           /\ Idle /\ Trialled = {}
           /\ \A q, x : Times(todo, Call(q, x)) = 0
           /\ \A x \in Object : ref_count[x] = Total(x) /\ Total(x) \in Nat
           /\ \A x \in Object : state[x] = "alive" <=> Total(x) > 0
<1>1. (\A q, x : ~Pending(q, x)) /\ (\A q : ~Has(q))
  BY InNone DEF Pending, Has
<1>2. Idle /\ Trialled = {}
  BY <1>1 DEF Idle, Colours
<1>3. todo \in Seq(Calls)
  BY DEF Types
<1>4. \A q, x : Times(todo, Call(q, x)) = 0
  BY <1>1, <1>3, TimesIsNat DEF Pending
<1>5. \A x \in Object : ref_count[x] = Total(x) /\ Total(x) \in Nat
  BY <1>1, <1>2, IdleCount, CountsAreNat
<1>6. \A x \in Object : state[x] = "alive" <=> Total(x) > 0
  BY <1>1, <1>5 DEF Lives, Ending
<1>7. QED
  BY <1>1, <1>2, <1>4, <1>5, <1>6, DyingIsPending

\* A step from rest to rest.
LEMMA RestingCounts ==
    ASSUME Types, Balance, Lives, Colours, todo = <<>>, todo' = <<>>,
           ref_count' \in [Object -> Int], gc_color' = gc_color,
           \A x \in Object : /\ Total(x)' - Total(x) = ref_count'[x] - ref_count[x]
                             /\ Total(x)' \in Nat
                             /\ state'[x] = "alive" <=> Total(x)' > 0
    PROVE  Balance' /\ Lives'
<1>1. /\ \A q, x : ~Pending(q, x)
      /\ Trialled = {}
      /\ \A q, x : Times(todo, Call(q, x)) = 0
      /\ \A x \in Object : ref_count[x] = Total(x) /\ Total(x) \in Nat
  BY Resting
<1>2. Trialled' = {}
  BY <1>1 DEF Trialled, Grey, White
<1>3. \A q, x : Times(todo', Call(q, x)) = 0
  BY <1>1
<1>4. \A q, x : ~Pending(q, x)'
  BY InNone DEF Pending
<1>5. \A x \in Object : ref_count'[x] = Total(x)'
  BY <1>1
<1>6. Balance'
  BY <1>2, <1>3, <1>5, IdleBalance
<1>7. Lives'
  BY <1>4 DEF Lives, Ending
<1>8. QED
  BY <1>6, <1>7

\* A new object has one reference, its handle.
LEMMA New_Counts ==
    ASSUME Types, Balance, Lives, Colours, NEW o \in Object, New(o)
    PROVE  Balance' /\ Lives'
<1>1. /\ todo = <<>> /\ todo' = <<>> /\ state[o] = "unborn" /\ state' = [state EXCEPT ![o] = "alive"]
      /\ ref_count' = [ref_count EXCEPT ![o] = 1] /\ handles' = [handles EXCEPT ![o] = 1]
      /\ gc_color' = gc_color /\ items' = items
  BY DEF New, AtRest
<1>2. /\ \A x : ~Dying(x)
      /\ \A x \in Object : ref_count[x] = Total(x) /\ Total(x) \in Nat
      /\ \A x \in Object : state[x] = "alive" <=> Total(x) > 0
      /\ \A q, x : Times(todo, Call(q, x)) = 0
  BY <1>1, Resting
<1>3. items[o] = <<>>
  BY <1>1 DEF Types
<1>4. Holders' = Holders \cup {o}
  <2>1. \A x : ~Dying(x)'
    BY <1>1 DEF Dying
  <2>2. QED
    BY <1>1, <1>2, <2>1 DEF Holders, Types
<1>5. \A x : Refs(items, x, Holders \cup {o}) = Refs(items, x, Holders)
  BY <1>3, RefsAgree
<1>6. \A x \in Object : Total(x)' = Total(x) + (IF x = o THEN 1 ELSE 0)
  <2>1. ASSUME NEW x \in Object
        PROVE  Total(x)' = Total(x) + (IF x = o THEN 1 ELSE 0)
    <3>1. Total(x)' = handles'[x] + Refs(items, x, Holders) + Times(todo, Call("release", x))
      BY <1>1, <1>4, <1>5 DEF Total
    <3>2. Total(x) = handles[x] + Refs(items, x, Holders) + Times(todo, Call("release", x))
      BY DEF Total
    <3>3. x = o => handles[x] = 0
      BY <1>1, <1>2, <3>2, CountsAreNat
    <3>4. handles'[x] = handles[x] + (IF x = o THEN 1 ELSE 0)
      BY <1>1, <3>3 DEF Types
    <3>5. QED
      BY <3>1, <3>2, <3>4, CountsAreNat
  <2>2. QED
    BY <2>1
<1>7. \A x \in Object : Total(x)' - Total(x) = ref_count'[x] - ref_count[x]
  <2>1. Total(o) = 0
    BY <1>1, <1>2
  <2>2. QED
    BY <1>1, <1>2, <1>6, <2>1 DEF Types
<1>8. \A x \in Object : Total(x)' \in Nat /\ (state'[x] = "alive" <=> Total(x)' > 0)
  BY <1>1, <1>2, <1>6 DEF Types
<1>9. ref_count' \in [Object -> Int]
  BY <1>1 DEF Types
<1>10. QED
  BY <1>1, <1>7, <1>8, <1>9, RestingCounts

\* What a script can name is alive.
LEMMA AccessibleLives ==
    ASSUME Types, Balance, Lives, Colours, todo = <<>>, NEW o \in Object, Accessible(o)
    PROVE  state[o] = "alive" /\ Total(o) > 0
<1>1. /\ \A x : ~Dying(x)
      /\ \A x \in Object : Total(x) \in Nat /\ (state[x] = "alive" <=> Total(x) > 0)
  BY Resting
<1>2. \A x \in Object : handles[x] > 0 => Total(x) > 0
  BY CountsAreNat DEF Total
<1>3. ASSUME NEW p \in Object, handles[p] > 0, NEW i \in DOMAIN items[p], items[p][i] = o
      PROVE  Total(o) > 0
  <2>1. p \in Holders
    BY <1>1, <1>2, <1>3 DEF Holders
  <2>2. Refs(items, o, Holders) > 0
    BY <1>3, <2>1, ItemsAreStored, RefersTo
  <2>3. QED
    BY <2>2, CountsAreNat DEF Total
<1>4. QED
  BY <1>1, <1>2, <1>3 DEF Accessible

\* Copying a handle adds one to a count.
LEMMA Copy_Counts ==
    ASSUME Types, Balance, Lives, Colours, NEW o \in Object, Copy(o)
    PROVE  Balance' /\ Lives'
<1>1. /\ todo = <<>> /\ todo' = <<>> /\ state' = state /\ items' = items /\ gc_color' = gc_color
      /\ handles' = [handles EXCEPT ![o] = @ + 1] /\ ref_count' = [ref_count EXCEPT ![o] = @ + 1]
      /\ Accessible(o)
  BY DEF Copy, AtRest
<1>2. /\ \A x \in Object : ref_count[x] = Total(x) /\ Total(x) \in Nat
      /\ \A x \in Object : state[x] = "alive" <=> Total(x) > 0
  BY <1>1, Resting
<1>3. Holders' = Holders
  BY <1>1 DEF Holders, Dying
<1>4. \A x \in Object : Total(x)' = Total(x) + (IF x = o THEN 1 ELSE 0)
  <2>1. \A x \in Object : handles'[x] = handles[x] + (IF x = o THEN 1 ELSE 0)
    BY <1>1 DEF Types
  <2>2. QED
    BY <1>1, <1>3, <2>1, CountsAreNat DEF Total
<1>5. state[o] = "alive"
  BY <1>1, AccessibleLives
<1>6. \A x \in Object : Total(x)' - Total(x) = ref_count'[x] - ref_count[x]
  BY <1>1, <1>2, <1>4 DEF Types
<1>7. \A x \in Object : Total(x)' \in Nat /\ (state'[x] = "alive" <=> Total(x)' > 0)
  BY <1>1, <1>2, <1>4, <1>5
<1>8. ref_count' \in [Object -> Int]
  BY <1>1 DEF Types
<1>9. QED
  BY <1>1, <1>6, <1>7, <1>8, RestingCounts

\* An item appended leaves the items a memory of the same bound.
LEMMA Append_Stored ==
    ASSUME Types, NEW p \in Object, NEW o \in Object, Len(items[p]) < MaxItems, state[p] # "unborn",
           items' = [items EXCEPT ![p] = Append(@, o)]
    PROVE  /\ items' \in [Object -> Seq(Object)]
           /\ \A q \in Object : Len(items'[q]) <= MaxItems
           /\ \A q \in Object : state[q] = "unborn" => items'[q] = <<>>
           /\ Storing(items')
<1>1. /\ items' \in [Object -> Seq(Object)]
      /\ \A q \in Object : Len(items'[q]) <= MaxItems
      /\ \A q \in Object : state[q] = "unborn" => items'[q] = <<>>
      /\ IsFiniteSet({q \in Object : state[q] # "unborn"})
  <2>1. Append(items[p], o) \in Seq(Object) /\ Len(Append(items[p], o)) <= MaxItems
    BY BoundsAreNat DEF Types
  <2>2. \A q \in Object : items'[q] = IF q = p THEN Append(items[p], o) ELSE items[q]
    BY DEF Types
  <2>3. items' \in [Object -> Seq(Object)]
    BY <2>1 DEF Types
  <2>4. QED
    BY <2>1, <2>2, <2>3 DEF Types
<1>2. QED
  BY <1>1, BornAreStored

\* Appending a handle to an object moves a reference from the one to the other.
LEMMA Append_Counts ==
    ASSUME Types, Balance, Lives, Colours, NEW p \in Object, NEW o \in Object, Append_(p, o)
    PROVE  Balance' /\ Lives'
<1>1. /\ todo = <<>> /\ todo' = <<>> /\ state' = state /\ handles' = handles /\ gc_color' = gc_color
      /\ items' = [items EXCEPT ![p] = Append(@, o)] /\ ref_count' = [ref_count EXCEPT ![o] = @ + 1]
      /\ handles[p] > 0 /\ handles[o] > 0 /\ Len(items[p]) < MaxItems
  BY DEF Append_, AtRest
<1>2. /\ \A x : ~Dying(x)
      /\ \A x \in Object : ref_count[x] = Total(x) /\ Total(x) \in Nat
      /\ \A x \in Object : state[x] = "alive" <=> Total(x) > 0
  BY <1>1, Resting
<1>3. state[p] = "alive" /\ state[o] = "alive" /\ p \in Holders
  <2>1. Accessible(p) /\ Accessible(o)
    BY <1>1 DEF Accessible
  <2>2. QED
    BY <1>1, <1>2, <2>1, AccessibleLives DEF Holders
<1>4. Storing(items')
  BY <1>1, <1>3, Append_Stored
<1>5. Holders' = Holders
  BY <1>1 DEF Holders, Dying
<1>6. ASSUME NEW x \in Object
      PROVE  Refs(items', x, Holders) = Refs(items, x, Holders) + (IF x = o THEN 1 ELSE 0)
  <2>1. Refs(items', x, Holders) = Refs(items', x, Holders \ {p}) + Times(items'[p], x)
    BY <1>3, <1>4, RefsSplit
  <2>2. Refs(items, x, Holders) = Refs(items, x, Holders \ {p}) + Times(items[p], x)
    BY <1>3, ItemsAreStored, RefsSplit
  <2>3. Refs(items', x, Holders \ {p}) = Refs(items, x, Holders \ {p})
    <3>1. \A q \in Object : q \in Holders \ {p} => items'[q] = items[q]
      BY <1>1 DEF Types
    <3>2. QED
      BY <3>1, RefsAgree
  <2>4. Times(items'[p], x) = Times(items[p], x) + (IF o = x THEN 1 ELSE 0)
    <3>1. items'[p] = Append(items[p], o) /\ items[p] \in Seq(Object)
      BY <1>1 DEF Types
    <3>2. QED
      BY <3>1, TimesAppend
  <2>5. Refs(items, x, Holders \ {p}) \in Nat /\ Times(items[p], x) \in Nat
    BY ItemsAreStored, RefsAreNat, TimesIsNat DEF Types
  <2>6. QED
    BY <2>1, <2>2, <2>3, <2>4, <2>5
<1>7. \A x \in Object : Total(x)' = Total(x) + (IF x = o THEN 1 ELSE 0)
  <2>1. ASSUME NEW x \in Object
        PROVE  Total(x)' = Total(x) + (IF x = o THEN 1 ELSE 0)
    <3>1. Total(x)' = handles[x] + Refs(items', x, Holders) + Times(todo, Call("release", x))
      BY <1>1, <1>5 DEF Total
    <3>2. Total(x) = handles[x] + Refs(items, x, Holders) + Times(todo, Call("release", x))
      BY DEF Total
    <3>3. QED
      BY <1>6, <3>1, <3>2, CountsAreNat
  <2>2. QED
    BY <2>1
<1>8. \A x \in Object : Total(x)' - Total(x) = ref_count'[x] - ref_count[x]
  BY <1>1, <1>2, <1>7 DEF Types
<1>9. \A x \in Object : Total(x)' \in Nat /\ (state'[x] = "alive" <=> Total(x)' > 0)
  BY <1>1, <1>2, <1>3, <1>7
<1>10. ref_count' \in [Object -> Int]
  BY <1>1 DEF Types
<1>11. QED
  BY <1>1, <1>8, <1>9, <1>10, RestingCounts

\* A step that leaves a release to be made.
LEMMA LeavingCounts ==
    ASSUME Types, Balance, Lives, Colours, todo = <<>>, NEW o \in Object, todo' = <<Call("release", o)>>,
           ref_count' = ref_count, gc_color' = gc_color, state' = state,
           \A x \in Object : Total(x)' = Total(x)
    PROVE  Balance' /\ Lives'
<1>1. /\ \A q, x : ~Pending(q, x)
      /\ Trialled = {}
      /\ \A x \in Object : ref_count[x] = Total(x) /\ Total(x) \in Nat
  BY Resting
<1>2. Trialled' = {}
  BY <1>1 DEF Trialled, Grey, White
<1>3. \A q, x : Call("release", o) = Call(q, x) <=> q = "release" /\ x = o
  BY DEF Call
<1>4. \A q, x : q # "release" => Times(todo', Call(q, x)) = 0 /\ ~Pending(q, x)'
  BY <1>3, TimesOfOne, InOne DEF Pending
<1>5. Balance'
  <2>1. ref_count' \in [Object -> Int] /\ \A x \in Object : ref_count'[x] = Total(x)'
    BY <1>1 DEF Types
  <2>2. QED
    BY <1>2, <1>4, <2>1, IdleBalance
<1>6. \A x : Ending(x)' <=> Ending(x)
  BY <1>1, <1>4 DEF Ending
<1>7. QED
  BY <1>5, <1>6 DEF Lives

\* Dropping a handle leaves its release.
LEMMA Drop_Counts ==
    ASSUME Types, Balance, Lives, Colours, NEW o \in Object, Drop(o)
    PROVE  Balance' /\ Lives'
<1>1. /\ todo = <<>> /\ todo' = <<Call("release", o)>> /\ state' = state /\ items' = items
      /\ gc_color' = gc_color /\ ref_count' = ref_count
      /\ handles' = [handles EXCEPT ![o] = @ - 1]
  BY DEF Drop, AtRest
<1>2. (\A x : ~Dying(x)) /\ \A q, x : Times(todo, Call(q, x)) = 0
  BY <1>1, Resting
<1>3. \A x, q : Call("release", o) = Call(q, x) <=> q = "release" /\ x = o
  BY DEF Call
<1>4. Holders' = Holders
  <2>1. \A x : ~Dying(x)'
    BY <1>1, <1>3 DEF Dying
  <2>2. QED
    BY <1>1, <1>2, <2>1 DEF Holders
<1>5. \A x \in Object : Total(x)' = Total(x)
  <2>1. ASSUME NEW x \in Object
        PROVE  Total(x)' = Total(x)
    <3>1. Times(todo', Call("release", x)) = IF x = o THEN 1 ELSE 0
      BY <1>1, <1>3, TimesOfOne
    <3>2. handles'[x] = handles[x] - (IF x = o THEN 1 ELSE 0)
      BY <1>1 DEF Types
    <3>3. Times(todo, Call("release", x)) = 0
      BY <1>2
    <3>4. Total(x)' = handles'[x] + Refs(items, x, Holders) + Times(todo', Call("release", x))
      BY <1>1, <1>4 DEF Total
    <3>5. QED
      BY <3>1, <3>2, <3>3, <3>4, CountsAreNat DEF Total
  <2>2. QED
    BY <2>1
<1>6. QED
  BY <1>1, <1>5, LeavingCounts

\* An item removed leaves the items a memory.
LEMMA PopLast_Stored ==
    ASSUME Types, NEW p \in Object, items[p] # <<>>,
           items' = [items EXCEPT ![p] = SubSeq(@, 1, Len(@) - 1)]
    PROVE  /\ items' \in [Object -> Seq(Object)]
           /\ \A q \in Object : Len(items'[q]) <= MaxItems
           /\ \A q \in Object : state[q] = "unborn" => items'[q] = <<>>
           /\ Storing(items')
<1>1. /\ items' \in [Object -> Seq(Object)]
      /\ \A q \in Object : Len(items'[q]) <= MaxItems
      /\ \A q \in Object : state[q] = "unborn" => items'[q] = <<>>
      /\ IsFiniteSet({q \in Object : state[q] # "unborn"})
  <2> DEFINE f == SubSeq(items[p], 1, Len(items[p]) - 1)
  <2>1. f \in Seq(Object) /\ Len(f) <= MaxItems
    <3>1. items[p] \in Seq(Object) /\ Len(items[p]) <= MaxItems
      BY DEF Types
    <3>2. f \in Seq(Object) /\ Len(f) = Len(items[p]) - 1 /\ Len(items[p]) \in Nat
      BY <3>1
    <3>3. QED
      BY <3>1, <3>2, BoundsAreNat
  <2> HIDE DEF f
  <2>2. items' = [items EXCEPT ![p] = f]
    BY DEF f
  <2>3. \A q \in Object : items'[q] = IF q = p THEN f ELSE items[q]
    BY <2>2 DEF Types
  <2>4. items' \in [Object -> Seq(Object)]
    BY <2>1, <2>2 DEF Types
  <2>5. QED
    BY <2>1, <2>3, <2>4 DEF Types
<1>2. QED
  BY <1>1, BornAreStored

\* Removing an item leaves the release of its reference.
LEMMA PopLast_Counts ==
    ASSUME Types, Balance, Lives, Colours, NEW p \in Object, PopLast(p)
    PROVE  Balance' /\ Lives'
<1> DEFINE o == items[p][Len(items[p])]
<1>1. /\ todo = <<>> /\ todo' = <<Call("release", o)>> /\ state' = state /\ handles' = handles
      /\ gc_color' = gc_color /\ ref_count' = ref_count
      /\ items' = [items EXCEPT ![p] = SubSeq(@, 1, Len(@) - 1)]
      /\ handles[p] > 0 /\ items[p] # <<>>
  BY DEF PopLast, AtRest
<1>2. /\ \A x : ~Dying(x)
      /\ \A q, x : Times(todo, Call(q, x)) = 0
      /\ \A x \in Object : state[x] = "alive" <=> Total(x) > 0
  BY <1>1, Resting
<1>3. p \in Holders
  <2>1. Accessible(p)
    BY <1>1 DEF Accessible
  <2>2. QED
    BY <1>1, <1>2, <2>1, AccessibleLives DEF Holders
<1>4. items[p] \in Seq(Object) /\ o \in Object
  <2>1. items[p] \in Seq(Object)
    BY DEF Types
  <2>2. QED
    BY <1>1, <2>1
<1>5. Storing(items')
  BY <1>1, PopLast_Stored
<1>6. \A x : Times(items'[p], x) = Times(items[p], x) - (IF o = x THEN 1 ELSE 0)
  <2>1. items'[p] = SubSeq(items[p], 1, Len(items[p]) - 1)
    BY <1>1 DEF Types
  <2>2. QED
    BY <1>1, <1>4, <2>1, TimesFront
<1> HIDE DEF o
<1>7. \A x, q : Call("release", o) = Call(q, x) <=> q = "release" /\ x = o
  BY DEF Call
<1>8. Holders' = Holders
  <2>1. \A x : ~Dying(x)'
    BY <1>1, <1>7 DEF Dying
  <2>2. QED
    BY <1>1, <1>2, <2>1 DEF Holders
<1>9. ASSUME NEW x \in Object
      PROVE  Refs(items', x, Holders) = Refs(items, x, Holders) - (IF x = o THEN 1 ELSE 0)
  <2>1. Refs(items', x, Holders) = Refs(items', x, Holders \ {p}) + Times(items'[p], x)
    BY <1>3, <1>5, RefsSplit
  <2>2. Refs(items, x, Holders) = Refs(items, x, Holders \ {p}) + Times(items[p], x)
    BY <1>3, ItemsAreStored, RefsSplit
  <2>3. Refs(items', x, Holders \ {p}) = Refs(items, x, Holders \ {p})
    <3>1. \A q \in Object : q \in Holders \ {p} => items'[q] = items[q]
      BY <1>1 DEF Types
    <3>2. QED
      BY <3>1, RefsAgree
  <2>4. Refs(items, x, Holders \ {p}) \in Nat /\ Times(items[p], x) \in Nat
    BY ItemsAreStored, RefsAreNat, TimesIsNat DEF Types
  <2>5. QED
    BY <1>6, <2>1, <2>2, <2>3, <2>4
<1>10. \A x \in Object : Total(x)' = Total(x)
  <2>1. ASSUME NEW x \in Object
        PROVE  Total(x)' = Total(x)
    <3>1. Times(todo', Call("release", x)) = IF x = o THEN 1 ELSE 0
      BY <1>1, <1>7, TimesOfOne
    <3>2. Times(todo, Call("release", x)) = 0
      BY <1>2
    <3>3. Total(x)' = handles[x] + Refs(items', x, Holders) + Times(todo', Call("release", x))
      BY <1>1, <1>8 DEF Total
    <3>4. QED
      BY <1>9, <3>1, <3>2, <3>3, CountsAreNat DEF Total
  <2>2. QED
    BY <2>1
<1>11. QED
  BY <1>1, <1>4, <1>10, LeavingCounts

------------------------------------------------------------------------------
(* The list of candidates. *)

\* what remove_candidate and pop_candidate do to the links
Removed(o) ==
    IF o = gc_root
    THEN /\ gc_root' = next[o]
         /\ previous' = [p \in Object |-> IF p = next[o] THEN Nil ELSE previous[p]]
         /\ next' = [next EXCEPT ![o] = Nil]
    ELSE /\ previous' = [p \in Object |-> IF p = o THEN Nil
                                          ELSE IF p = next[o] THEN previous[o]
                                          ELSE previous[p]]
         /\ next' = [p \in Object |-> IF p = o THEN Nil
                                      ELSE IF p = previous[o] THEN next[o]
                                      ELSE next[p]]
         /\ gc_root' = gc_root

\* Only delete, mark_candidates and pop_candidate take objects off the list.
LEMMA removes ==
    ASSUME NEW o \in Object, remove_candidate(o)
    PROVE  Removed(o)
BY DEF remove_candidate, Removed

\* Removing an element keeps the types of the links.
LEMMA RemovedTypes ==
    ASSUME Types, NEW o \in Object, Removed(o)
    PROVE  /\ next' \in [Object -> Object \cup {Nil}]
           /\ previous' \in [Object -> Object \cup {Nil}]
           /\ gc_root' \in Object \cup {Nil}
<1>1. /\ next \in [Object -> Object \cup {Nil}]
      /\ previous \in [Object -> Object \cup {Nil}]
      /\ gc_root \in Object \cup {Nil}
  BY DEF Types
<1>2. CASE o = gc_root
  BY <1>1, <1>2 DEF Removed
<1>3. CASE o # gc_root
  BY <1>1, <1>3 DEF Removed
<1>4. QED
  BY <1>2, <1>3

\* The links after the first element was removed,
LEMMA RemovedRoot ==
    ASSUME Types, NEW o \in Object, Removed(o), o = gc_root
    PROVE  /\ gc_root' = next[o]
           /\ \A x \in Object : previous'[x] = IF x = next[o] THEN Nil ELSE previous[x]
           /\ \A x \in Object : next'[x] = IF x = o THEN Nil ELSE next[x]
BY DEF Types, Removed

\* ... and after another one was.
LEMMA RemovedInner ==
    ASSUME Types, NEW o \in Object, Removed(o), o # gc_root
    PROVE  /\ gc_root' = gc_root
           /\ \A x \in Object : previous'[x] = IF x = o THEN Nil
                                               ELSE IF x = next[o] THEN previous[o] ELSE previous[x]
           /\ \A x \in Object : next'[x] = IF x = o THEN Nil
                                           ELSE IF x = previous[o] THEN next[o] ELSE next[x]
BY DEF Types, Removed

\* An element that is not the first one has one before it, or nothing behind it.
LEMMA InnerHasPrevious ==
    ASSUME Types, Linked, NEW o \in Object, o # gc_root
    PROVE  \/ previous[o] = Nil /\ next[o] = Nil
           \/ previous[o] \in Object /\ previous[o] # o /\ next[previous[o]] = o
<1>1. ASSUME previous[o] = Nil, next[o] # Nil
      PROVE  FALSE
  <2> DEFINE S == Object \ {o}
  <2>1. ASSUME NEW x \in S, next[x] # Nil
        PROVE  next[x] \in S
    <3>1. next[x] \in Object
      BY <2>1 DEF Types
    <3>2. next[x] = o => previous[o] = x \/ Stub(o)
      BY <2>1 DEF Linked
    <3>3. ~Stub(o) /\ previous[o] # x
      BY <1>1, NilIsNoObject DEF Stub
    <3>4. QED
      BY <3>1, <3>2, <3>3
  <2>2. gc_root # Nil => gc_root \in S
    BY DEF Types
  <2>3. ChainClosed(S)
    BY <2>1, <2>2 DEF ChainClosed, NextClosed
  <2>4. OnChain(o)
    BY <1>1 DEF Linked
  <2>5. QED
    BY <2>3, <2>4 DEF OnChain
<1>2. ASSUME previous[o] # Nil
      PROVE  previous[o] \in Object /\ previous[o] # o /\ next[previous[o]] = o
  <2>1. previous[o] \in Object
    BY <1>2 DEF Types
  <2>2. previous[o] # o
    BY DEF Linked
  <2>3. QED
    BY <1>2, <2>1, <2>2 DEF Linked
<1>3. QED
  BY <1>1, <1>2

\* An element without a link backwards or forwards is where it was.
LEMMA RemovedStub ==
    ASSUME Types, NEW o \in Object, Removed(o), o # gc_root, previous[o] = Nil, next[o] = Nil
    PROVE  next' = next /\ previous' = previous /\ gc_root' = gc_root
<1>1. /\ gc_root' = gc_root
      /\ \A x \in Object : previous'[x] = previous[x]
      /\ \A x \in Object : next'[x] = next[x]
  BY RemovedInner, NilIsNoObject
<1>2. /\ next' \in [Object -> Object \cup {Nil}]
      /\ previous' \in [Object -> Object \cup {Nil}]
  BY RemovedTypes
<1>3. QED
  BY <1>1, <1>2 DEF Types

\* What the list reaches without o, it reached with o.
LEMMA RemovedReach ==
    ASSUME Types, Linked, NEW o \in Object, Removed(o), NEW S \in SUBSET Object, ChainClosed(S)'
    PROVE  \E T \in SUBSET Object : ChainClosed(T) /\ T \ {o} \subseteq S /\ (next[o] = o => T \subseteq S)
<1>1. CASE o = gc_root
  <2>1. /\ gc_root' = next[o]
        /\ \A x \in Object : next'[x] = IF x = o THEN Nil ELSE next[x]
    BY <1>1, RemovedRoot
  <2>2. /\ next[o] # Nil => next[o] \in S
        /\ \A x \in S : next'[x] # Nil => next'[x] \in S
    BY <2>1 DEF ChainClosed, NextClosed
  <2>3. ChainClosed(S \cup {o})
    BY <1>1, <2>1, <2>2 DEF ChainClosed, NextClosed
  <2>4. next[o] = o => S \cup {o} \subseteq S
    BY <2>2, NilIsNoObject
  <2>5. QED
    BY <2>3, <2>4
<1>2. CASE o # gc_root /\ previous[o] = Nil /\ next[o] = Nil
  <2>1. next' = next /\ gc_root' = gc_root
    BY <1>2, RemovedStub
  <2>2. ChainClosed(S)
    BY <2>1 DEF ChainClosed, NextClosed
  <2>3. QED
    BY <2>2
<1>3. CASE o # gc_root /\ previous[o] \in Object /\ previous[o] # o /\ next[previous[o]] = o
  <2> DEFINE p == previous[o]
  <2>1. /\ gc_root' = gc_root
        /\ \A x \in Object : next'[x] = IF x = o THEN Nil ELSE IF x = p THEN next[o] ELSE next[x]
    BY <1>3, RemovedInner
  <2>2. /\ gc_root # Nil => gc_root \in S
        /\ \A x \in S : next'[x] # Nil => next'[x] \in S
    BY <2>1 DEF ChainClosed, NextClosed
  <2>3. p \in Object /\ p # o /\ next[p] = o /\ p # Nil
    BY <1>3, NilIsNoObject
  <2>4. \A x \in Object : next[x] = o /\ x # o => x = p
    BY <2>3, NilIsNoObject DEF Linked, Stub
  <2> HIDE DEF p
  <2>5. CASE p \in S
    <3>1. next[o] # Nil => next[o] \in S
      BY <2>1, <2>2, <2>3, <2>5
    <3>2. ASSUME NEW x \in S \cup {o}, next[x] # Nil
          PROVE  next[x] \in S \cup {o}
      BY <2>1, <2>2, <2>3, <3>1, <3>2
    <3>3. ChainClosed(S \cup {o})
      BY <2>2, <3>2 DEF ChainClosed, NextClosed
    <3>4. next[o] = o => S \cup {o} \subseteq S
      BY <3>1, NilIsNoObject
    <3>5. QED
      BY <3>3, <3>4
  <2>6. CASE p \notin S
    <3>1. ASSUME NEW x \in S \ {o}, next[x] # Nil
          PROVE  next[x] \in S \ {o}
      <4>1. x # p /\ next'[x] = next[x]
        BY <2>1, <2>6
      <4>2. next[x] # o
        BY <2>4, <4>1
      <4>3. QED
        BY <2>2, <3>1, <4>1, <4>2
    <3>2. ChainClosed(S \ {o})
      BY <1>3, <2>2, <3>1 DEF ChainClosed, NextClosed
    <3>3. QED
      BY <3>2
  <2>7. QED
    BY <2>5, <2>6
<1>4. QED
  BY <1>1, <1>2, <1>3, InnerHasPrevious

\* ... and it still reaches whatever else it reached.
LEMMA RemovedOnChain ==
    ASSUME Types, Linked, NEW o \in Object, Removed(o), NEW x \in Object, OnChain(x),
           x # o \/ next[o] = o
    PROVE  OnChain(x)'
<1> SUFFICES ASSUME NEW S \in SUBSET Object, ChainClosed(S)'
             PROVE  x \in S
  BY DEF OnChain
<1>1. PICK T \in SUBSET Object : ChainClosed(T) /\ T \ {o} \subseteq S /\ (next[o] = o => T \subseteq S)
  BY RemovedReach
<1>2. x \in T
  BY <1>1 DEF OnChain
<1>3. QED
  BY <1>1, <1>2

\* The elements keep their order.
LEMMA RemovedOrdered ==
    ASSUME Types, Linked, NEW o \in Object, Removed(o), NEW pos \in [Object -> Int], Ordered(pos)
    PROVE  Ordered(pos)'
<1> SUFFICES ASSUME NEW x \in Object, next'[x] \notin {Nil, x}
             PROVE  pos[x] < pos[next'[x]]
  BY DEF Ordered
<1>1. \A y \in Object : next[y] \in Object \cup {Nil}
  BY DEF Types
<1>2. CASE o = gc_root
  <2>1. next'[x] = next[x]
    BY <1>2, RemovedRoot
  <2>2. QED
    BY <2>1 DEF Ordered
<1>3. CASE o # gc_root /\ previous[o] = Nil /\ next[o] = Nil
  BY <1>3, RemovedStub DEF Ordered
<1>4. CASE o # gc_root /\ previous[o] \in Object /\ previous[o] # o /\ next[previous[o]] = o
  <2>1. x # o /\ next'[x] = IF x = previous[o] THEN next[o] ELSE next[x]
    BY <1>4, RemovedInner
  <2>2. CASE x = previous[o]
    <3>1. next[x] = o /\ pos[x] < pos[o]
      BY <1>4, <2>2, NilIsNoObject DEF Ordered
    <3>2. next[o] \in Object /\ (next[o] = o \/ pos[o] < pos[next[o]])
      BY <1>1, <2>1, <2>2 DEF Ordered
    <3>3. next'[x] = next[o]
      BY <2>1, <2>2
    <3>4. pos[x] \in Int /\ pos[o] \in Int /\ pos[next[o]] \in Int
      BY <3>2
    <3>5. QED
      BY <3>1, <3>2, <3>3, <3>4
  <2>3. CASE x # previous[o]
    BY <2>1, <2>3 DEF Ordered
  <2>4. QED
    BY <2>2, <2>3
<1>5. QED
  BY <1>2, <1>3, <1>4, InnerHasPrevious

\* The links keep their invariant when the first element is removed,
LEMMA RemovedRootLinked ==
    ASSUME Types, Linked, NEW o \in Object, Removed(o), o = gc_root
    PROVE  Linked'
<1>1. /\ gc_root' = next[o]
      /\ \A x \in Object : previous'[x] = IF x = next[o] THEN Nil ELSE previous[x]
      /\ \A x \in Object : next'[x] = IF x = o THEN Nil ELSE next[x]
  BY RemovedRoot
<1>2. /\ \A x \in Object : next[x] \in Object \cup {Nil}
      /\ \A x \in Object : previous[x] \in Object \cup {Nil}
      /\ o # Nil
  BY NilIsNoObject DEF Types
<1>3. /\ \A p \in Object : next[p] \notin {Nil, p} => previous[next[p]] = p \/ Stub(next[p])
      /\ \A n \in Object : previous[n] \notin {Nil, n} => next[previous[n]] = n
      /\ \A n \in Object : previous[n] = n => next[n] = n /\ gc_root = n
      /\ \A p \in Object : next[p] = gc_root /\ gc_root # Nil => p = gc_root
      /\ \A p, q \in Object : next[p] = next[q] /\ next[p] \notin {Nil, p, q} => p = q
      /\ \A p \in Object : next[p] # Nil => OnChain(p)
  BY DEF Linked
<1>4. ASSUME NEW p \in Object, next'[p] \notin {Nil, p}
      PROVE  previous'[next'[p]] = p \/ Stub(next[p])'
  <2>1. p # o /\ next'[p] = next[p] /\ next[p] \in Object /\ next[p] # p /\ next[p] # Nil
    BY <1>1, <1>2, <1>4
  <2>2. next[p] # o
    BY <1>2, <1>3, <2>1
  <2>3. next[p] = next[o] => FALSE
    BY <1>2, <1>3, <2>1, <2>2
  <2>4. previous'[next[p]] = previous[next[p]] /\ next'[next[p]] = next[next[p]]
    BY <1>1, <2>1, <2>2, <2>3
  <2>5. QED
    BY <1>3, <2>1, <2>4 DEF Stub
<1>5. ASSUME NEW n \in Object, previous'[n] \notin {Nil, n}
      PROVE  next'[previous'[n]] = n
  <2>1. n # next[o] /\ previous'[n] = previous[n] /\ previous[n] \in Object
    BY <1>1, <1>2, <1>5
  <2>2. next[previous[n]] = n
    BY <1>3, <1>5, <2>1
  <2>3. previous[n] # o
    BY <2>1, <2>2
  <2>4. QED
    BY <1>1, <2>1, <2>2, <2>3
<1>6. ASSUME NEW n \in Object, previous'[n] = n
      PROVE  FALSE
  <2>1. n # next[o] /\ previous[n] = n
    BY <1>1, <1>6, NilIsNoObject
  <2>2. next[n] = n /\ n = o
    BY <1>3, <2>1
  <2>3. QED
    BY <2>1, <2>2
<1>7. gc_root' # Nil => previous'[gc_root'] \in {Nil, gc_root'}
  BY <1>1, <1>2
<1>8. ASSUME NEW p \in Object, next'[p] = gc_root', gc_root' # Nil
      PROVE  p = gc_root'
  <2>1. p # o /\ next[p] = next[o] /\ next[o] # Nil
    BY <1>1, <1>8
  <2>2. next[o] # o
    BY <1>2, <1>3, <2>1
  <2>3. QED
    BY <1>1, <1>3, <2>1, <2>2
<1>9. ASSUME NEW p \in Object, NEW q \in Object, next'[p] = next'[q], next'[p] \notin {Nil, p, q}
      PROVE  p = q
  <2>1. next'[p] = next[p] /\ next'[q] = next[q]
    BY <1>1, <1>9
  <2>2. QED
    BY <1>3, <1>9, <2>1
<1>10. ASSUME NEW p \in Object, next'[p] # Nil
       PROVE  OnChain(p)'
  <2>1. p # o /\ next[p] # Nil
    BY <1>1, <1>10
  <2>2. OnChain(p)
    BY <1>3, <2>1
  <2>3. QED
    BY <2>1, <2>2, RemovedOnChain
<1>11. QED
  BY <1>4, <1>5, <1>6, <1>7, <1>8, <1>9, <1>10 DEF Linked

\* ... when an element is that has one before it,
LEMMA RemovedInnerLinked ==
    ASSUME Types, Linked, NEW o \in Object, Removed(o), o # gc_root,
           NEW pos \in [Object -> Int], Ordered(pos),
           previous[o] \in Object, previous[o] # o, next[previous[o]] = o
    PROVE  Linked'
<1> DEFINE b == previous[o]
           n == next[o]
<1>1. /\ gc_root' = gc_root
      /\ \A x \in Object : previous'[x] = IF x = o THEN Nil ELSE IF x = n THEN b ELSE previous[x]
      /\ \A x \in Object : next'[x] = IF x = o THEN Nil ELSE IF x = b THEN n ELSE next[x]
  BY RemovedInner
<1>2. /\ \A x \in Object : next[x] \in Object \cup {Nil}
      /\ \A x \in Object : previous[x] \in Object \cup {Nil}
      /\ o # Nil /\ b # Nil /\ b # o /\ b \in Object /\ next[b] = o
      /\ n = next[o] /\ b = previous[o] /\ n \in Object \cup {Nil} /\ o # gc_root
  BY NilIsNoObject DEF Types
<1>3. /\ \A p \in Object : next[p] \notin {Nil, p} => previous[next[p]] = p \/ Stub(next[p])
      /\ \A y \in Object : previous[y] \notin {Nil, y} => next[previous[y]] = y
      /\ \A y \in Object : previous[y] = y => next[y] = y /\ gc_root = y
      /\ gc_root # Nil => previous[gc_root] \in {Nil, gc_root}
      /\ \A p \in Object : next[p] = gc_root /\ gc_root # Nil => p = gc_root
      /\ \A p, q \in Object : next[p] = next[q] /\ next[p] \notin {Nil, p, q} => p = q
      /\ \A p \in Object : next[p] # Nil => OnChain(p)
  BY DEF Linked
<1>4. n # b
  <2>1. ASSUME n = b
        PROVE  FALSE
    <3>1. pos[b] < pos[o] /\ pos[o] < pos[b]
      BY <1>2, <2>1 DEF Ordered
    <3>2. pos[b] \in Int /\ pos[o] \in Int
      BY <1>2
    <3>3. QED
      BY <3>1, <3>2
  <2>2. QED
    BY <2>1
<1> HIDE DEF b, n
<1>5. n # gc_root \/ n = Nil
  BY <1>2, <1>3
<1>6. ASSUME NEW p \in Object, next'[p] \notin {Nil, p}
      PROVE  previous'[next'[p]] = p \/ Stub(next[p])'
  <2>1. p # o
    BY <1>1, <1>6
  <2>2. CASE p = b
    <3>1. next'[p] = n /\ n \in Object
      BY <1>1, <1>2, <1>6, <2>1, <2>2
    <3>2. n = o => previous'[n] = Nil /\ next'[n] = Nil
      BY <1>1, <1>2
    <3>3. n # o => previous'[n] = b
      BY <1>1, <3>1
    <3>4. QED
      BY <2>2, <3>1, <3>2, <3>3 DEF Stub
  <2>3. CASE p # b
    <3>1. next'[p] = next[p] /\ next[p] \in Object /\ next[p] # p /\ next[p] # Nil
      BY <1>1, <1>2, <1>6, <2>1, <2>3
    <3>2. next[p] # o
      BY <1>2, <1>3, <2>1, <2>3, <3>1
    <3>3. next[p] # n
      BY <1>2, <1>3, <2>1, <3>1, <3>2
    <3>4. previous'[next[p]] = previous[next[p]]
      BY <1>1, <3>1, <3>2, <3>3
    <3>5. previous[next[p]] = p \/ Stub(next[p])
      BY <1>3, <3>1
    <3>6. Stub(next[p]) => next[p] # b
      BY <1>2 DEF Stub
    <3>7. next[p] # b => next'[next[p]] = next[next[p]]
      BY <1>1, <3>1, <3>2
    <3>8. QED
      BY <3>1, <3>4, <3>5, <3>6, <3>7 DEF Stub
  <2>4. QED
    BY <2>2, <2>3
<1>7. ASSUME NEW y \in Object, previous'[y] \notin {Nil, y}
      PROVE  next'[previous'[y]] = y
  <2>1. y # o
    BY <1>1, <1>7
  <2>2. CASE y = n
    BY <1>1, <1>2, <2>1, <2>2
  <2>3. CASE y # n
    <3>1. previous'[y] = previous[y] /\ previous[y] \in Object
      BY <1>1, <1>2, <1>7, <2>1, <2>3
    <3>2. next[previous[y]] = y
      BY <1>3, <1>7, <3>1
    <3>3. previous[y] # o /\ previous[y] # b
      BY <1>2, <2>1, <2>3, <3>2
    <3>4. QED
      BY <1>1, <3>1, <3>2, <3>3
  <2>4. QED
    BY <2>2, <2>3
<1>8. ASSUME NEW y \in Object, previous'[y] = y
      PROVE  next'[y] = y /\ gc_root' = y
  <2>1. y # o /\ y # n /\ previous[y] = y
    BY <1>1, <1>2, <1>4, <1>8
  <2>2. next[y] = y /\ gc_root = y
    BY <1>3, <2>1
  <2>3. y # b
    BY <1>2, <2>1, <2>2
  <2>4. QED
    BY <1>1, <2>1, <2>2, <2>3
<1>9. gc_root' # Nil => previous'[gc_root'] \in {Nil, gc_root'}
  <2>1. gc_root \in Object \cup {Nil}
    BY DEF Types
  <2>2. QED
    BY <1>1, <1>2, <1>3, <1>5, <2>1
<1>10. ASSUME NEW p \in Object, next'[p] = gc_root', gc_root' # Nil
       PROVE  p = gc_root'
  <2>1. p # o /\ next'[p] = gc_root
    BY <1>1, <1>10
  <2>2. p # b
    BY <1>1, <1>2, <1>5, <1>10, <2>1
  <2>3. QED
    BY <1>1, <1>3, <1>10, <2>1, <2>2
<1>11. ASSUME NEW p \in Object, NEW q \in Object, next'[p] = next'[q], next'[p] \notin {Nil, p, q}
       PROVE  p = q
  <2>1. p # o /\ q # o
    BY <1>1, <1>11
  <2>2. \A x \in Object : x # o /\ x # b => next'[x] = next[x]
    BY <1>1
  <2>3. next'[b] = n
    BY <1>1, <1>2
  <2>4. ASSUME NEW x \in Object, x # o, x # b, next'[x] = n, n \notin {Nil, x}
        PROVE  FALSE
    <3>1. next[x] = n /\ next[o] = n
      BY <1>2, <2>2, <2>4
    <3>2. CASE n = o
      BY <1>2, <1>3, <2>4, <3>1, <3>2
    <3>3. CASE n # o
      BY <1>3, <2>4, <3>1, <3>3
    <3>4. QED
      BY <3>2, <3>3
  <2>5. CASE p = b /\ q # b
    BY <1>11, <2>1, <2>3, <2>4, <2>5
  <2>6. CASE p # b /\ q = b
    BY <1>11, <2>1, <2>3, <2>4, <2>6
  <2>7. CASE p # b /\ q # b
    BY <1>3, <1>11, <2>1, <2>2, <2>7
  <2>8. QED
    BY <2>5, <2>6, <2>7
<1>12. ASSUME NEW p \in Object, next'[p] # Nil
       PROVE  OnChain(p)'
  <2>1. p # o /\ (p = b \/ next'[p] = next[p])
    BY <1>1, <1>12
  <2>2. next[p] # Nil
    BY <1>2, <1>12, <2>1
  <2>3. OnChain(p)
    BY <1>3, <2>2
  <2>4. QED
    BY <2>1, <2>3, RemovedOnChain
<1>13. QED
  BY <1>6, <1>7, <1>8, <1>9, <1>10, <1>11, <1>12 DEF Linked

\* ... and whatever element is.
LEMMA RemovedLinked ==
    ASSUME Types, Linked, NEW o \in Object, Removed(o), NEW pos \in [Object -> Int], Ordered(pos)
    PROVE  Linked'
<1>1. CASE o = gc_root
  BY <1>1, RemovedRootLinked
<1>2. CASE o # gc_root /\ previous[o] = Nil /\ next[o] = Nil
  <2>1. next' = next /\ previous' = previous /\ gc_root' = gc_root
    BY <1>2, RemovedStub
  <2>2. QED
    BY <2>1 DEF Linked, OnChain, ChainClosed, NextClosed, Stub
<1>3. CASE o # gc_root /\ previous[o] \in Object /\ previous[o] # o /\ next[previous[o]] = o
  BY <1>3, RemovedInnerLinked
<1>4. QED
  BY <1>1, <1>2, <1>3, InnerHasPrevious

\* o becomes the first element.
Inserted(o) ==
    /\ next' = [next EXCEPT ![o] = gc_root]
    /\ previous' = [p \in Object |-> IF p = gc_root THEN o ELSE previous[p]]
    /\ gc_root' = o

\* No element but those that were freed is referred to by an element that it
\* does not refer to.
Unstubbed ==
    \A p \in Object : next[p] \notin {Nil, p} /\ Stub(next[p]) => state[next[p]] = "freed"

\* The links after an element was inserted.
LEMMA InsertedLinks ==
    ASSUME Types, NEW o \in Object, Inserted(o)
    PROVE  /\ gc_root' = o
           /\ \A x \in Object : next'[x] = IF x = o THEN gc_root ELSE next[x]
           /\ \A x \in Object : previous'[x] = IF x = gc_root THEN o ELSE previous[x]
           /\ next' \in [Object -> Object \cup {Nil}]
           /\ previous' \in [Object -> Object \cup {Nil}]
<1>1. /\ next \in [Object -> Object \cup {Nil}]
      /\ previous \in [Object -> Object \cup {Nil}]
      /\ gc_root \in Object \cup {Nil}
  BY DEF Types
<1>2. QED
  BY <1>1 DEF Inserted

\* Nothing leads to an object that is not on the list, unless it was freed.
LEMMA NoneBefore ==
    ASSUME Types, Linked, Unstubbed, NEW o \in Object,
           next[o] = Nil, previous[o] = Nil, state[o] # "freed"
    PROVE  \A p \in Object : next[p] # o
<1> SUFFICES ASSUME NEW p \in Object, next[p] = o
             PROVE  FALSE
  OBVIOUS
<1>1. next[p] \notin {Nil, p}
  BY NilIsNoObject
<1>2. previous[o] = p \/ Stub(o)
  BY <1>1 DEF Linked
<1>3. Stub(o)
  BY <1>2, NilIsNoObject
<1>4. QED
  BY <1>1, <1>3 DEF Unstubbed

\* The links keep their invariant when such an object is inserted,
LEMMA InsertedLinked ==
    ASSUME Types, Linked, Unstubbed, NEW o \in Object, Inserted(o),
           next[o] = Nil, previous[o] = Nil, state[o] # "freed"
    PROVE  Linked'
<1>1. /\ gc_root' = o
      /\ \A x \in Object : next'[x] = IF x = o THEN gc_root ELSE next[x]
      /\ \A x \in Object : previous'[x] = IF x = gc_root THEN o ELSE previous[x]
  BY InsertedLinks
<1>2. /\ \A x \in Object : next[x] \in Object \cup {Nil}
      /\ \A x \in Object : previous[x] \in Object \cup {Nil}
      /\ gc_root \in Object \cup {Nil}
      /\ o # Nil /\ next[o] = Nil /\ previous[o] = Nil
  BY NilIsNoObject DEF Types
<1>3. /\ \A p \in Object : next[p] \notin {Nil, p} => previous[next[p]] = p \/ Stub(next[p])
      /\ \A y \in Object : previous[y] \notin {Nil, y} => next[previous[y]] = y
      /\ \A y \in Object : previous[y] = y => next[y] = y /\ gc_root = y
      /\ \A p \in Object : next[p] = gc_root /\ gc_root # Nil => p = gc_root
      /\ \A p, q \in Object : next[p] = next[q] /\ next[p] \notin {Nil, p, q} => p = q
      /\ \A p \in Object : next[p] # Nil => OnChain(p)
  BY DEF Linked
<1>4. \A p \in Object : next[p] # o
  BY NoneBefore
<1>5. ASSUME NEW p \in Object, next'[p] \notin {Nil, p}
      PROVE  previous'[next'[p]] = p \/ Stub(next[p])' 
  <2>1. CASE p = o
    BY <1>1, <1>2, <1>5, <2>1
  <2>2. CASE p # o
    <3>1. next'[p] = next[p] /\ next[p] \in Object /\ next[p] # p /\ next[p] # Nil /\ next[p] # o
      BY <1>1, <1>2, <1>4, <1>5, <2>2
    <3>2. next[p] # gc_root
      BY <1>3, <3>1
    <3>3. previous'[next[p]] = previous[next[p]] /\ next'[next[p]] = next[next[p]]
      BY <1>1, <3>1, <3>2
    <3>4. QED
      BY <1>3, <3>1, <3>3 DEF Stub
  <2>3. QED
    BY <2>1, <2>2
<1>6. ASSUME NEW y \in Object, previous'[y] \notin {Nil, y}
      PROVE  next'[previous'[y]] = y
  <2>1. CASE y = gc_root
    BY <1>1, <1>2, <2>1
  <2>2. CASE y # gc_root
    <3>1. previous'[y] = previous[y] /\ previous[y] \in Object /\ next[previous[y]] = y
      BY <1>1, <1>2, <1>3, <1>6, <2>2
    <3>2. previous[y] # o
      BY <1>2, <3>1, NilIsNoObject
    <3>3. QED
      BY <1>1, <3>1, <3>2
  <2>3. QED
    BY <2>1, <2>2
<1>7. ASSUME NEW y \in Object, previous'[y] = y
      PROVE  next'[y] = y /\ gc_root' = y
  BY <1>1, <1>3, <1>7
<1>8. gc_root' # Nil => previous'[gc_root'] \in {Nil, gc_root'}
  BY <1>1, <1>2
<1>9. ASSUME NEW p \in Object, next'[p] = gc_root', gc_root' # Nil
      PROVE  p = gc_root'
  BY <1>1, <1>4, <1>9
<1>10. ASSUME NEW p \in Object, NEW q \in Object, next'[p] = next'[q], next'[p] \notin {Nil, p, q}
       PROVE  p = q
  <2>1. \A x \in Object : x # o => next'[x] = next[x]
    BY <1>1
  <2>2. ASSUME NEW x \in Object, x # o, next'[x] = gc_root, gc_root \notin {Nil, x}
        PROVE  FALSE
    BY <1>3, <2>1, <2>2
  <2>3. next'[o] = gc_root
    BY <1>1
  <2>4. CASE p = o /\ q # o
    BY <1>10, <2>2, <2>3, <2>4
  <2>5. CASE p # o /\ q = o
    BY <1>10, <2>2, <2>3, <2>5
  <2>6. CASE p # o /\ q # o
    BY <1>3, <1>10, <2>1, <2>6
  <2>7. QED
    BY <2>4, <2>5, <2>6
<1>11. ASSUME NEW p \in Object, next'[p] # Nil
       PROVE  OnChain(p)'
  <2> SUFFICES ASSUME NEW S \in SUBSET Object, ChainClosed(S)'
               PROVE  p \in S
    BY DEF OnChain
  <2>1. o \in S /\ \A x \in S : next'[x] # Nil => next'[x] \in S
    BY <1>1, <1>2 DEF ChainClosed, NextClosed
  <2>2. CASE p = o
    BY <2>1, <2>2
  <2>3. CASE p # o
    <3>1. gc_root # Nil => gc_root \in S
      BY <1>1, <2>1
    <3>2. \A x \in S : next[x] # Nil => next[x] \in S
      BY <1>1, <1>2, <2>1
    <3>3. ChainClosed(S)
      BY <3>1, <3>2 DEF ChainClosed, NextClosed
    <3>4. next[p] # Nil
      BY <1>1, <1>11, <2>3
    <3>5. QED
      BY <1>3, <3>3, <3>4 DEF OnChain
  <2>4. QED
    BY <2>2, <2>3
<1>12. QED
  BY <1>5, <1>6, <1>7, <1>8, <1>9, <1>10, <1>11 DEF Linked

\* ... and it comes before all others.
LEMMA InsertedOrdered ==
    ASSUME Types, Linked, Unstubbed, NEW o \in Object, Inserted(o),
           next[o] = Nil, previous[o] = Nil, state[o] # "freed",
           NEW pos \in [Object -> Int], Ordered(pos)
    PROVE  \E p2 \in [Object -> Int] : Ordered(p2)'
<1>1. \A x \in Object : next'[x] = IF x = o THEN gc_root ELSE next[x]
  BY InsertedLinks
<1>2. \A p \in Object : next[p] # o
  BY NoneBefore
<1>3. \A x \in Object : next[x] \in Object \cup {Nil} /\ gc_root \in Object \cup {Nil}
  BY DEF Types
<1>4. CASE gc_root \in {Nil, o}
  <2>1. ASSUME NEW x \in Object, next'[x] \notin {Nil, x}
        PROVE  pos[x] < pos[next'[x]]
    <3>1. next'[x] = next[x]
      BY <1>1, <1>4, <2>1
    <3>2. QED
      BY <2>1, <3>1 DEF Ordered
  <2>2. QED
    BY <2>1 DEF Ordered
<1>5. CASE gc_root \notin {Nil, o}
  <2> DEFINE p2 == [pos EXCEPT ![o] = pos[gc_root] - 1]
  <2>1. gc_root \in Object
    BY <1>3, <1>5
  <2>2. p2 \in [Object -> Int] /\ p2[o] = pos[gc_root] - 1 /\ \A x \in Object \ {o} : p2[x] = pos[x]
    BY <2>1
  <2> HIDE DEF p2
  <2>3. ASSUME NEW x \in Object, next'[x] \notin {Nil, x}
        PROVE  p2[x] < p2[next'[x]]
    <3>1. CASE x = o
      <4>1. next'[x] = gc_root /\ p2[gc_root] = pos[gc_root] /\ pos[gc_root] \in Int
        BY <1>1, <1>5, <2>1, <2>2, <3>1
      <4>2. QED
        BY <2>2, <3>1, <4>1
    <3>2. CASE x # o
      <4>1. next'[x] = next[x] /\ next[x] \in Object \ {o}
        BY <1>1, <1>2, <1>3, <2>3, <3>2
      <4>2. pos[x] < pos[next[x]]
        BY <2>3, <4>1 DEF Ordered
      <4>3. QED
        BY <2>2, <3>2, <4>1, <4>2
    <3>3. QED
      BY <3>1, <3>2
  <2>4. QED
    BY <2>2, <2>3 DEF Ordered
<1>6. QED
  BY <1>4, <1>5

------------------------------------------------------------------------------
(* Steps. *)

\* What is pending in the sequences of calls that the steps leave: none,
LEMMA NoCalls ==
    /\ <<>> \in Seq(Calls)
    /\ \A c : ~In(<<>>, c)
    /\ \A q : ~HasOp(<<>>, q)
    /\ Follows(<<>>)
BY InNone DEF Follows

\* ... one,
LEMMA OneCall ==
    ASSUME NEW op \in Op, NEW o \in Object \cup {Nil}
    PROVE  /\ <<Call(op, o)>> \in Seq(Calls)
           /\ \A q, x : In(<<Call(op, o)>>, Call(q, x)) <=> q = op /\ x = o
           /\ \A q : HasOp(<<Call(op, o)>>, q) <=> q = op
           /\ Follows(<<Call(op, o)>>)
<1>1. Call(op, o) \in Calls /\ Call(op, o).op = op
  BY DEF Call, Calls
<1>2. \A q, x : Call(op, o) = Call(q, x) <=> q = op /\ x = o
  BY DEF Call
<1>3. Follows(<<Call(op, o)>>)
  BY DEF Follows
<1>4. QED
  BY <1>1, <1>2, <1>3, InOne

\* ... two,
LEMMA TwoCalls ==
    ASSUME NEW p \in Op, NEW a \in Object \cup {Nil}, NEW q \in Op, NEW b \in Object \cup {Nil},
           q \in After(p)
    PROVE  /\ <<Call(p, a), Call(q, b)>> \in Seq(Calls)
           /\ \A r, x : In(<<Call(p, a), Call(q, b)>>, Call(r, x)) <=> (r = p /\ x = a) \/ (r = q /\ x = b)
           /\ \A r : HasOp(<<Call(p, a), Call(q, b)>>, r) <=> r = p \/ r = q
           /\ Follows(<<Call(p, a), Call(q, b)>>)
<1> DEFINE s == <<Call(p, a)>>
           t == <<Call(q, b)>>
<1>1. /\ s \in Seq(Calls) /\ Follows(s)
      /\ \A r, x : In(s, Call(r, x)) <=> r = p /\ x = a
      /\ \A r : HasOp(s, r) <=> r = p
  BY OneCall
<1>2. /\ t \in Seq(Calls) /\ Follows(t)
      /\ \A r, x : In(t, Call(r, x)) <=> r = q /\ x = b
      /\ \A r : HasOp(t, r) <=> r = q
  BY OneCall
<1>3. <<Call(p, a), Call(q, b)>> = s \o t
  OBVIOUS
<1> HIDE DEF s, t
<1>4. /\ s \o t \in Seq(Calls)
      /\ \A c : In(s \o t, c) <=> In(s, c) \/ In(t, c)
      /\ \A r : HasOp(s \o t, r) <=> HasOp(s, r) \/ HasOp(t, r)
  BY <1>1, <1>2, InConcat
<1>5. Follows(s \o t)
  BY <1>1, <1>2, FollowsConcat
<1>6. QED
  BY <1>1, <1>2, <1>3, <1>4, <1>5

\* ... three.
LEMMA ThreeCalls ==
    ASSUME NEW p \in Op, NEW a \in Object \cup {Nil}, NEW q \in Op, NEW b \in Object \cup {Nil},
           NEW r \in Op, NEW c \in Object \cup {Nil},
           q \in After(p), r \in After(p), r \in After(q)
    PROVE  /\ <<Call(p, a), Call(q, b), Call(r, c)>> \in Seq(Calls)
           /\ \A w, x : In(<<Call(p, a), Call(q, b), Call(r, c)>>, Call(w, x)) <=>
                            (w = p /\ x = a) \/ (w = q /\ x = b) \/ (w = r /\ x = c)
           /\ \A w : HasOp(<<Call(p, a), Call(q, b), Call(r, c)>>, w) <=> w = p \/ w = q \/ w = r
           /\ Follows(<<Call(p, a), Call(q, b), Call(r, c)>>)
<1> DEFINE s == <<Call(p, a)>>
           t == <<Call(q, b), Call(r, c)>>
<1>1. /\ s \in Seq(Calls) /\ Follows(s)
      /\ \A w, x : In(s, Call(w, x)) <=> w = p /\ x = a
      /\ \A w : HasOp(s, w) <=> w = p
  BY OneCall
<1>2. /\ t \in Seq(Calls) /\ Follows(t)
      /\ \A w, x : In(t, Call(w, x)) <=> (w = q /\ x = b) \/ (w = r /\ x = c)
      /\ \A w : HasOp(t, w) <=> w = q \/ w = r
  BY TwoCalls
<1>3. <<Call(p, a), Call(q, b), Call(r, c)>> = s \o t
  OBVIOUS
<1> HIDE DEF s, t
<1>4. /\ s \o t \in Seq(Calls)
      /\ \A w : In(s \o t, w) <=> In(s, w) \/ In(t, w)
      /\ \A w : HasOp(s \o t, w) <=> HasOp(s, w) \/ HasOp(t, w)
  BY <1>1, <1>2, InConcat
<1>5. Follows(s \o t)
  BY <1>1, <1>2, FollowsConcat
<1>6. QED
  BY <1>1, <1>2, <1>3, <1>4, <1>5

\* A call on top of todo, and the calls that it leaves.
LEMMA Step ==
    ASSUME Types, Shape, NEW op, NEW o, todo # <<>>, Head(todo) = Call(op, o),
           NEW cs \in Seq(Calls), Then(cs)
    PROVE  /\ todo' \in Seq(Calls)
           /\ \A q, x : Pending(q, x)' <=> In(cs, Call(q, x)) \/ Later(q, x)
           /\ \A q, x : Pending(q, x) <=> (q = op /\ x = o) \/ Later(q, x)
           /\ \A q : Has(q)' <=> HasOp(cs, q) \/ HasOp(Tail(todo), q)
           /\ \A q : Has(q) <=> q = op \/ HasOp(Tail(todo), q)
           /\ \A q, x : Later(q, x) => q \in After(op) /\ HasOp(Tail(todo), q)
           /\ \A q : HasOp(Tail(todo), q) => q \in After(op)
           /\ op \in MarkOps => HasOp(Tail(todo), "scanAll")
           /\ op \in MarkOps \cup ScanOps \cup {"scanAll"} => HasOp(Tail(todo), "pop")
           /\ \A q, x : In(cs, Call(q, x)) => HasOp(cs, q)
BY ThenPending, NowPending, Following, InHasOp

\* A step that leaves the heap alone keeps its types.
LEMMA TypesKept ==
    ASSUME Types, UNCHANGED heap, todo' \in Seq(Calls),
           ref_count' \in [Object -> Int],
           gc_color' \in [Object -> {"black", "grey", "white", "purple"}],
           next' \in [Object -> Object \cup {Nil}],
           previous' \in [Object -> Object \cup {Nil}],
           gc_root' \in Object \cup {Nil}
    PROVE  Types'
BY DEF Types, heap

\* What is to be shown of the list between collections, and during them.
LEMMA IdleList ==
    ASSUME ~Has("pop")', ~Has("scanAll")', Trialled' = {},
           \E pos \in [Object -> Int] : Ordered(pos)'
    PROVE  Colours' /\ Coverage' /\ Positions'
<1>1. Colours'
  BY DEF Colours, Marking, Scanning
<1>2. Coverage'
  BY DEF Coverage, Scanning
<1>3. Positions'
  BY DEF Positions, Marking
<1>4. QED
  BY <1>1, <1>2, <1>3

\* A step that leaves the links alone keeps their invariant,
LEMMA SameLinks ==
    ASSUME Types, Linked, Born, Unlinked, UNCHANGED <<next, previous, gc_root>>,
           \A x \in Object : state[x] # "unborn" => state'[x] # "unborn",
           \A x : Pending("link", x)' =>
                Pending("link", x) \/ (x \in Object /\ next[x] = Nil /\ state[x] # "unborn")
    PROVE  Linked' /\ Born' /\ Unlinked'
<1>1. Linked'
  BY DEF Linked, OnChain, ChainClosed, NextClosed, Stub
<1>2. Born'
  BY DEF Born, Types
<1>3. Unlinked'
  BY DEF Unlinked
<1>4. QED
  BY <1>1, <1>2, <1>3

\* What is left of the links of an element is an element it led to.
LEMMA RemovedNext ==
    ASSUME Types, Linked, NEW o \in Object, Removed(o)
    PROVE  /\ \A x \in Object : next'[x] # Nil => \E y \in Object : next'[x] = next[y]
           /\ gc_root' # Nil => gc_root' = gc_root \/ gc_root' = next[o]
           /\ \A x \in Object : next[x] = Nil => next'[x] = Nil
           /\ next'[o] = Nil
<1>1. CASE o = gc_root
  BY <1>1, RemovedRoot
<1>2. CASE o # gc_root /\ previous[o] = Nil /\ next[o] = Nil
  BY <1>2, RemovedStub
<1>3. CASE o # gc_root /\ previous[o] \in Object /\ previous[o] # o /\ next[previous[o]] = o
  <2>1. /\ gc_root' = gc_root
        /\ \A x \in Object : next'[x] = IF x = o THEN Nil
                                        ELSE IF x = previous[o] THEN next[o] ELSE next[x]
    BY <1>3, RemovedInner
  <2>2. \A x \in Object : next[x] = Nil => x # previous[o]
    BY <1>3, NilIsNoObject
  <2>3. QED
    BY <2>1, <2>2
<1>4. QED
  BY <1>1, <1>2, <1>3, InnerHasPrevious

\* ... and so does one that removes an element.
LEMMA RemovedLinks ==
    ASSUME Types, Linked, Born, Unlinked, NEW o \in Object, Removed(o),
           NEW pos \in [Object -> Int], Ordered(pos),
           \A x \in Object : state[x] # "unborn" => state'[x] # "unborn",
           \A x : Pending("link", x)' => Pending("link", x)
    PROVE  Linked' /\ Born' /\ Unlinked'
<1>1. Linked'
  BY RemovedLinked
<1>2. /\ \A x \in Object : next'[x] # Nil => \E y \in Object : next'[x] = next[y]
      /\ gc_root' # Nil => gc_root' = gc_root \/ gc_root' = next[o]
      /\ \A x \in Object : next[x] = Nil => next'[x] = Nil
  BY RemovedNext
<1>3. \A x \in Object : next[x] \in Object \cup {Nil}
  BY DEF Types
<1>4. Born'
  <2>1. gc_root' # Nil => state'[gc_root'] # "unborn"
    <3>1. gc_root # Nil => gc_root \in Object /\ state[gc_root] # "unborn"
      BY DEF Born, Types
    <3>2. next[o] # Nil => next[o] \in Object /\ state[next[o]] # "unborn"
      BY <1>3 DEF Born
    <3>3. QED
      BY <1>2, <3>1, <3>2
  <2>2. ASSUME NEW x \in Object, next'[x] # Nil
        PROVE  state'[next'[x]] # "unborn"
    <3>1. PICK y \in Object : next'[x] = next[y]
      BY <1>2, <2>2
    <3>2. next[y] \in Object /\ state[next[y]] # "unborn"
      BY <1>3, <2>2, <3>1 DEF Born
    <3>3. QED
      BY <3>1, <3>2
  <2>3. \A x \in Object : Pending("link", x)' => state'[x] # "unborn"
    BY DEF Born
  <2>4. QED
    BY <2>1, <2>2, <2>3 DEF Born
<1>5. Unlinked'
  BY <1>2 DEF Unlinked
<1>6. QED
  BY <1>1, <1>4, <1>5

\* The list holds objects that exist or existed.
LEMMA OnChainIsBorn ==
    ASSUME Types, Born, NEW o \in Object, OnChain(o)
    PROVE  state[o] # "unborn"
<1> DEFINE S == {p \in Object : state[p] # "unborn"}
<1>1. ChainClosed(S)
  BY DEF ChainClosed, NextClosed, Born, Types
<1>2. o \in S
  BY <1>1 DEF OnChain
<1>3. QED
  BY <1>2

\* A list without a first element is empty.
LEMMA EmptyList ==
    ASSUME Linked, gc_root = Nil
    PROVE  \A p \in Object : next[p] = Nil
<1>1. ChainClosed({})
  BY DEF ChainClosed, NextClosed
<1>2. QED
  BY <1>1 DEF Linked, OnChain

\* What scripts do leaves the list alone.
LEMMA RestStep ==
    ASSUME IInv, todo = <<>>, todo' = <<>> \/ \E o \in Object : todo' = <<Call("release", o)>>,
           UNCHANGED <<gc_color, next, previous, gc_root>>,
           \A x \in Object : \/ state'[x] = state[x]
                             \/ state[x] = "unborn" /\ state'[x] = "alive"
    PROVE  Shape' /\ Colours' /\ List' /\ Coverage'
<1>1. /\ \A q, x : ~Pending(q, x)
      /\ Idle /\ Trialled = {}
  BY Resting DEF IInv
<1>2. /\ \A q : Has(q)' => q = "release"
      /\ \A q, x : Pending(q, x)' => q = "release"
      /\ Follows(todo)'
  <2>1. CASE todo' = <<>>
    BY <2>1, NoCalls DEF Has, Pending
  <2>2. ASSUME NEW o \in Object, todo' = <<Call("release", o)>>
        PROVE  /\ \A q : Has(q)' => q = "release"
               /\ \A q, x : Pending(q, x)' => q = "release"
               /\ Follows(todo)'
    <3>1. "release" \in Op
      BY DEF Op
    <3>2. QED
      BY <2>2, <3>1, OneCall DEF Has, Pending
  <2>3. QED
    BY <2>1, <2>2
<1>3. Shape'
  BY <1>2 DEF Shape, MarkOps, ScanOps
<1>4. Linked' /\ Born' /\ Unlinked'
  BY <1>2, SameLinks DEF IInv, List
<1>5. Candidates'
  <2>1. /\ \A p \in Object : next[p] # Nil => gc_color[p] = "purple"
        /\ \A p \in Object : next[p] \notin {Nil, p} /\ Stub(next[p]) => state[next[p]] = "freed"
    BY <1>1 DEF IInv, List, Candidates
  <2>2. \A p \in Object : next[p] \notin {Nil, p} => next[p] \in Object
    BY DEF IInv, Types
  <2>3. QED
    BY <1>2, <2>1, <2>2 DEF Candidates, Stub
<1>6. \E pos \in [Object -> Int] : Ordered(pos)'
  BY DEF IInv, List, Positions, Ordered
<1>7. Trialled' = {}
  BY <1>1 DEF Trialled, Grey, White
<1>8. Colours' /\ Coverage' /\ Positions'
  BY <1>2, <1>6, <1>7, IdleList
<1>9. QED
  BY <1>3, <1>4, <1>5, <1>8 DEF List

\* One lemma for each thing that a script does.
LEMMA New_Step ==
    ASSUME IInv, NEW o \in Object, New(o)
    PROVE  IInv'
<1>1. /\ todo = <<>> /\ todo' = <<>> /\ state[o] = "unborn" /\ state' = [state EXCEPT ![o] = "alive"]
      /\ ref_count' = [ref_count EXCEPT ![o] = 1] /\ handles' = [handles EXCEPT ![o] = 1]
      /\ UNCHANGED <<gc_color, items, next, previous, gc_root>>
  BY DEF New, AtRest, list
<1>2. Types'
  <2>1. IsFiniteSet({p \in Object : state'[p] # "unborn"})
    <3> DEFINE S == {p \in Object : state[p] # "unborn"}
               T == {p \in Object : state'[p] # "unborn"}
    <3>1. IsFiniteSet(S)
      BY DEF IInv, Types
    <3>2. \A p \in Object : state'[p] # "unborn" <=> state[p] # "unborn" \/ p = o
      BY <1>1 DEF IInv, Types
    <3>3. T = S \cup {o}
      BY <3>2
    <3>4. IsFiniteSet(S \cup {o})
      BY <3>1, FS_AddElement
    <3>5. QED
      BY <3>3, <3>4
  <2>2. \A p \in Object : state'[p] = "unborn" => items'[p] = <<>>
    BY <1>1 DEF IInv, Types
  <2>3. /\ state' \in [Object -> {"unborn", "alive", "freed"}]
        /\ ref_count' \in [Object -> Int]
        /\ handles' \in [Object -> Nat]
    BY <1>1 DEF IInv, Types
  <2>4. QED
    BY <1>1, <2>1, <2>2, <2>3 DEF IInv, Types
<1>3. Balance' /\ Lives'
  BY New_Counts DEF IInv
<1>4. Shape' /\ Colours' /\ List' /\ Coverage'
  <2>1. \A x \in Object : state'[x] = state[x] \/ (state[x] = "unborn" /\ state'[x] = "alive")
    BY <1>1 DEF IInv, Types
  <2>2. QED
    BY <1>1, <2>1, RestStep
<1>5. QED
  BY <1>2, <1>3, <1>4 DEF IInv

\* Copying a handle.
LEMMA Copy_Step ==
    ASSUME IInv, NEW o \in Object, Copy(o)
    PROVE  IInv'
<1>1. /\ todo = <<>> /\ todo' = <<>>
      /\ ref_count' = [ref_count EXCEPT ![o] = @ + 1] /\ handles' = [handles EXCEPT ![o] = @ + 1]
      /\ UNCHANGED <<state, gc_color, items, next, previous, gc_root>>
  BY DEF Copy, AtRest, list
<1>2. Types'
  <2>1. ref_count' \in [Object -> Int] /\ handles' \in [Object -> Nat]
    BY <1>1 DEF IInv, Types
  <2>2. QED
    BY <1>1, <2>1 DEF IInv, Types
<1>3. Balance' /\ Lives'
  BY Copy_Counts DEF IInv
<1>4. Shape' /\ Colours' /\ List' /\ Coverage'
  BY <1>1, RestStep
<1>5. QED
  BY <1>2, <1>3, <1>4 DEF IInv

\* Dropping a handle, before its release.
LEMMA Drop_Step ==
    ASSUME IInv, NEW o \in Object, Drop(o)
    PROVE  IInv'
<1>1. /\ todo = <<>> /\ todo' = <<Call("release", o)>> /\ handles[o] > 0
      /\ handles' = [handles EXCEPT ![o] = @ - 1]
      /\ UNCHANGED <<state, ref_count, gc_color, items, next, previous, gc_root>>
  BY DEF Drop, AtRest, list
<1>2. Types'
  <2>1. handles' \in [Object -> Nat]
    BY <1>1 DEF IInv, Types
  <2>2. todo' \in Seq(Calls)
    <3>1. "release" \in Op
      BY DEF Op
    <3>2. QED
      BY <1>1, <3>1, OneCall
  <2>3. QED
    BY <1>1, <2>1, <2>2 DEF IInv, Types
<1>3. Balance' /\ Lives'
  BY Drop_Counts DEF IInv
<1>4. Shape' /\ Colours' /\ List' /\ Coverage'
  BY <1>1, RestStep
<1>5. QED
  BY <1>2, <1>3, <1>4 DEF IInv

\* Moving a handle to the items of an object.
LEMMA Append_Step ==
    ASSUME IInv, NEW p \in Object, NEW o \in Object, Append_(p, o)
    PROVE  IInv'
<1>1. /\ todo = <<>> /\ todo' = <<>> /\ handles[p] > 0 /\ Len(items[p]) < MaxItems
      /\ items' = [items EXCEPT ![p] = Append(@, o)] /\ ref_count' = [ref_count EXCEPT ![o] = @ + 1]
      /\ UNCHANGED <<state, handles, gc_color, next, previous, gc_root>>
  BY DEF Append_, AtRest, list
<1>2. Types'
  <2>1. state[p] = "alive"
    <3>1. Accessible(p)
      BY <1>1 DEF Accessible
    <3>2. QED
      BY <1>1, <3>1, AccessibleLives DEF IInv
  <2>2. /\ items' \in [Object -> Seq(Object)]
        /\ \A q \in Object : Len(items'[q]) <= MaxItems
        /\ \A q \in Object : state[q] = "unborn" => items'[q] = <<>>
    BY <1>1, <2>1, Append_Stored DEF IInv
  <2>3. ref_count' \in [Object -> Int]
    BY <1>1 DEF IInv, Types
  <2>4. QED
    BY <1>1, <2>2, <2>3 DEF IInv, Types
<1>3. Balance' /\ Lives'
  BY Append_Counts DEF IInv
<1>4. Shape' /\ Colours' /\ List' /\ Coverage'
  BY <1>1, RestStep
<1>5. QED
  BY <1>2, <1>3, <1>4 DEF IInv

\* Removing an item, before its release.
LEMMA PopLast_Step ==
    ASSUME IInv, NEW p \in Object, PopLast(p)
    PROVE  IInv'
<1> DEFINE o == items[p][Len(items[p])]
<1>1. /\ todo = <<>> /\ todo' = <<Call("release", o)>> /\ items[p] # <<>>
      /\ items' = [items EXCEPT ![p] = SubSeq(@, 1, Len(@) - 1)]
      /\ UNCHANGED <<state, handles, ref_count, gc_color, next, previous, gc_root>>
  BY DEF PopLast, AtRest, list
<1>2. o \in Object
  <2>1. items[p] \in Seq(Object)
    BY DEF IInv, Types
  <2>2. QED
    BY <1>1, <2>1
<1> HIDE DEF o
<1>3. Types'
  <2>1. /\ items' \in [Object -> Seq(Object)]
        /\ \A q \in Object : Len(items'[q]) <= MaxItems
        /\ \A q \in Object : state[q] = "unborn" => items'[q] = <<>>
    BY <1>1, PopLast_Stored DEF IInv
  <2>2. todo' \in Seq(Calls)
    <3>1. "release" \in Op
      BY DEF Op
    <3>2. QED
      BY <1>1, <1>2, <3>1, OneCall
  <2>3. QED
    BY <1>1, <2>1, <2>2 DEF IInv, Types
<1>4. Balance' /\ Lives'
  BY PopLast_Counts DEF IInv
<1>5. Shape' /\ Colours' /\ List' /\ Coverage'
  BY <1>1, <1>2, RestStep
<1>6. QED
  BY <1>3, <1>4, <1>5 DEF IInv

\* gc_paused, gc_count and the history can change without consequence.
LEMMA Stutter ==
    ASSUME IInv, UNCHANGED <<heap, ref_count, gc_color, next, previous, gc_root, todo>>
    PROVE  IInv'
<1>1. UNCHANGED <<state, items, handles, ref_count, gc_color, next, previous, gc_root, todo>>
  BY DEF heap
<1>2. Types'
  BY <1>1 DEF IInv, Types
<1>3. Shape'
  BY <1>1 DEF IInv, Shape, Has
<1>4. (\A x : Total(x)' = Total(x)) /\ (\A x : Ending(x)' <=> Ending(x))
  BY <1>1 DEF Total, Ending, Pending, Holders, Dying
<1>5. Balance' /\ Lives'
  BY <1>1, <1>4 DEF IInv, Balance, Lives, Trialled, Grey, White
<1>6. Colours'
  BY <1>1 DEF IInv, Colours, Trialled, Grey, White, Pending, Idle, Marking, Scanning, Has, Holds
<1>7. Linked' /\ Born' /\ Unlinked'
  BY <1>1, SameLinks DEF IInv, List, Pending
<1>8. Candidates'
  BY <1>1 DEF IInv, List, Candidates, Idle, Has, Stub, Pending
<1>9. Positions'
  <2>1. PICK pos \in [Object -> Int] : Ordered(pos) /\ (Marking => \E K \in SUBSET Object : Kept(pos, K))
    BY DEF IInv, List, Positions
  <2>2. Ordered(pos)' /\ (Marking' <=> Marking)
    BY <1>1, <2>1 DEF Ordered, Marking, Has
  <2>3. ASSUME NEW K \in SUBSET Object, Kept(pos, K)
        PROVE  Kept(pos, K)'
    <3>1. \A x : (OnChain(x)' <=> OnChain(x)) /\ \A q : Pending(q, x)' <=> Pending(q, x)
      BY <1>1 DEF OnChain, ChainClosed, NextClosed, Pending
    <3>2. Listed(K)'
      BY <2>3, <3>1 DEF Kept, Listed
    <3>3. Covers(K)'
      BY <1>1, <2>3, <3>1 DEF Kept, Covers, ItemsClosed, Grey, Holds
    <3>4. Passed(pos, K)'
      BY <1>1, <2>3, <3>1 DEF Kept, Passed
    <3>5. QED
      BY <3>2, <3>3, <3>4 DEF Kept
  <2>4. QED
    BY <2>1, <2>2, <2>3 DEF Positions
<1>10. Coverage'
  BY <1>1 DEF IInv, Coverage, Scanning, Has, OnChain, ChainClosed, NextClosed, ItemsClosed, Holds,
              Grey, White, Pending, GreyScanned, WhiteListed, is_candidate
<1>11. QED
  BY <1>2, <1>3, <1>5, <1>6, <1>7, <1>8, <1>9, <1>10 DEF IInv, List

\* release: the count falls, and at zero the destructor is to be called; else the
\* object becomes a purple candidate.
LEMMA release_Step ==
    ASSUME IInv, NEW o \in Object, release(o)
    PROVE  IInv'
<1> DEFINE cs == Released(o)
<1>1. /\ todo # <<>> /\ Head(todo) = Call("release", o)
      /\ UNCHANGED <<heap, next, previous, gc_root>>
  BY CallingMeans DEF release, list
<1>2. /\ cs \in Seq(Calls)
      /\ Then(cs)
      /\ \A q : HasOp(cs, q) => q \in {"destroy", "collect", "link"}
      /\ \A x : In(cs, Call("link", x)) => gc_color[o] # "purple" /\ ref_count[o] # 1 /\ x = o
      /\ Follows(cs)
  BY release_Calls
<1> HIDE DEF cs
<1>3. /\ Idle /\ Trialled = {}
      /\ \A q : HasOp(Tail(todo), q) => q \in {"release", "delete"}
      /\ \A q, x : Later(q, x) => q \in {"release", "delete"}
  BY <1>1, DestroyingIsIdle DEF Destroying, IInv
<1>4. /\ todo' \in Seq(Calls)
      /\ \A q, x : Pending(q, x)' <=> In(cs, Call(q, x)) \/ Later(q, x)
      /\ \A q, x : Pending(q, x) <=> (q = "release" /\ x = o) \/ Later(q, x)
      /\ \A q : Has(q)' <=> HasOp(cs, q) \/ HasOp(Tail(todo), q)
  BY <1>1, <1>2, Step DEF IInv
<1>5. /\ gc_color' \in [Object -> {"black", "grey", "white", "purple"}]
      /\ ref_count' \in [Object -> Int]
      /\ \A x \in Object : gc_color'[x] \in {gc_color[x], "purple"}
      /\ In(cs, Call("link", o)) => gc_color'[o] = "purple"
  <2>1. /\ ref_count' = [ref_count EXCEPT ![o] = @ - 1]
        /\ gc_color' = IF ref_count[o] # 1 /\ gc_color[o] # "purple"
                       THEN [gc_color EXCEPT ![o] = "purple"] ELSE gc_color
    BY DEF release
  <2>2. gc_color \in [Object -> {"black", "grey", "white", "purple"}] /\ ref_count \in [Object -> Int]
    BY DEF IInv, Types
  <2>3. QED
    BY <1>2, <2>1, <2>2
<1>6. Types'
  BY <1>1, <1>4, <1>5, TypesKept DEF IInv, Types
<1>7. Shape'
  <2>1. \A q : HasOp(cs, q) => After("release") \subseteq After(q)
    BY <1>2 DEF After, Outside
  <2>2. QED
    BY <1>1, <1>2, <2>1, ThenShape DEF IInv, MarkOps, ScanOps
<1>8. Balance' /\ Lives'
  BY release_Counts DEF IInv
<1>9. /\ \A p \in Object : next[p] # Nil => gc_color[p] = "purple"
      /\ \A p \in Object : next[p] \notin {Nil, p} /\ Stub(next[p]) => state[next[p]] = "freed"
  BY <1>3 DEF IInv, List, Candidates
<1>10. Linked' /\ Born' /\ Unlinked'
  <2>1. state[o] # "unborn"
    <3>1. Total(o) > 0
      BY <1>4, CountsAreNat DEF IInv, Total
    <3>2. QED
      BY <3>1, HeldLives DEF IInv
  <2>2. In(cs, Call("link", o)) => next[o] = Nil
    BY <1>2, <1>9
  <2>3. \A x : Pending("link", x)' =>
            Pending("link", x) \/ (x \in Object /\ next[x] = Nil /\ state[x] # "unborn")
    BY <1>2, <1>4, <2>1, <2>2
  <2>4. \A x \in Object : state[x] # "unborn" => state'[x] # "unborn"
    BY <1>1 DEF heap
  <2>5. QED
    BY <1>1, <2>3, <2>4, SameLinks DEF IInv, List
<1>11. Candidates'
  <2>1. \A p \in Object : next'[p] # Nil => gc_color'[p] = "purple"
    BY <1>1, <1>5, <1>9
  <2>2. \A p \in Object : next[p] \notin {Nil, p} /\ Stub(next[p])' => state'[next[p]] = "freed"
    BY <1>1, <1>9 DEF Stub, heap
  <2>3. \A x \in Object : Pending("link", x)' => gc_color'[x] = "purple"
    BY <1>2, <1>3, <1>4, <1>5
  <2>4. QED
    BY <1>1, <2>1, <2>2, <2>3 DEF Candidates
<1>12. Colours' /\ Coverage' /\ Positions'
  <2>1. ~Has("pop")' /\ ~Has("scanAll")'
    BY <1>2, <1>3, <1>4
  <2>2. Trialled' = {}
    BY <1>3, <1>5 DEF Trialled, Grey, White
  <2>3. \E pos \in [Object -> Int] : Ordered(pos)'
    BY <1>1 DEF IInv, List, Positions, Ordered
  <2>4. QED
    BY <2>1, <2>2, <2>3, IdleList
<1>13. QED
  BY <1>6, <1>7, <1>8, <1>10, <1>11, <1>12 DEF IInv, List

\* link: the object becomes the first element; the first element, linked again, refers
\* to itself.
LEMMA link_Step ==
    ASSUME IInv, NEW o \in Object, link(o)
    PROVE  IInv'
<1> DEFINE cs == <<>>
<1>1. /\ todo # <<>> /\ Head(todo) = Call("link", o) /\ ~TouchesFreed(Head(todo))
      /\ UNCHANGED heap /\ ref_count' = ref_count /\ gc_color' = gc_color
  BY DEF link, Calling
<1>2. previous[o] = Nil /\ Inserted(o) /\ Then(cs)
  BY DEF link, Inserted, Calling, AssertFails, Call
<1>3. cs \in Seq(Calls) /\ (\A c : ~In(cs, c)) /\ (\A q : ~HasOp(cs, q)) /\ Follows(cs)
  BY NoCalls
<1> HIDE DEF cs
<1>4. /\ Idle /\ Trialled = {}
      /\ \A q : HasOp(Tail(todo), q) => q \in {"release", "delete"}
      /\ \A q, x : Later(q, x) => q \in {"release", "delete"}
  BY <1>1, DestroyingIsIdle DEF Destroying, IInv
<1>5. /\ todo' \in Seq(Calls)
      /\ \A q, x : Pending(q, x)' <=> Later(q, x)
      /\ Pending("link", o)
      /\ \A q : Has(q)' <=> HasOp(Tail(todo), q)
  BY <1>1, <1>2, <1>3, Step DEF IInv
<1>6. /\ next[o] = Nil /\ state[o] \notin {"unborn", "freed"}
      /\ gc_root # Nil => gc_color[o] = "purple"
      /\ Unstubbed
      /\ \A p \in Object : next[p] # Nil => gc_color[p] = "purple"
  <2>1. state[o] # "freed"
    BY <1>1, NilIsNoObject DEF TouchesFreed, Touched, Call
  <2>2. QED
    BY <1>4, <1>5, <2>1 DEF IInv, List, Unlinked, Born, Candidates, Unstubbed
<1>7. /\ gc_root' = o
      /\ \A x \in Object : next'[x] = IF x = o THEN gc_root ELSE next[x]
      /\ \A x \in Object : previous'[x] = IF x = gc_root THEN o ELSE previous[x]
      /\ next' \in [Object -> Object \cup {Nil}]
      /\ previous' \in [Object -> Object \cup {Nil}]
  BY <1>2, InsertedLinks DEF IInv
<1>8. Types'
  BY <1>1, <1>5, <1>7, TypesKept DEF IInv, Types
<1>9. Shape'
  BY <1>1, <1>2, <1>3, ThenShape DEF IInv
<1>10. Balance' /\ Lives'
  <2>1. (\A x : Total(x)' = Total(x)) /\ (\A x : Ending(x)' <=> Ending(x))
    BY <1>1, <1>2, <1>3, Quiet DEF IInv, Destroying
  <2>2. Trialled' = Trialled
    BY <1>1 DEF Trialled, Grey, White
  <2>3. QED
    BY <1>1, <1>2, <1>3, <2>1, <2>2, NeutralBalance, QuietLives DEF IInv, heap
<1>11. Linked'
  BY <1>2, <1>6, InsertedLinked DEF IInv, List
<1>12. \E pos \in [Object -> Int] : Ordered(pos)'
  <2>1. PICK pos \in [Object -> Int] : Ordered(pos)
    BY DEF IInv, List, Positions
  <2>2. QED
    BY <1>2, <1>6, <2>1, InsertedOrdered DEF IInv, List
<1>13. Born' /\ Unlinked'
  <2>1. \A x \in Object : ~Pending("link", x)'
    BY <1>4, <1>5
  <2>2. state' = state
    BY <1>1 DEF heap
  <2>3. QED
    BY <1>6, <1>7, <2>1, <2>2 DEF IInv, List, Born, Unlinked
<1>14. Candidates'
  <2>1. \A p \in Object : next'[p] # Nil => gc_color'[p] = "purple"
    BY <1>1, <1>6, <1>7
  <2>2. ASSUME NEW p \in Object, next'[p] \notin {Nil, p}, Stub(next[p])'
        PROVE  state'[next'[p]] = "freed"
    <3>1. next'[p] \in Object /\ previous'[next'[p]] = Nil /\ next'[next'[p]] = Nil
      BY <1>7, <2>2 DEF Stub
    <3>2. next'[p] # gc_root /\ previous[next'[p]] = Nil
      BY <1>7, <3>1, NilIsNoObject
    <3>3. p # o /\ next'[p] = next[p]
      BY <1>7, <3>2
    <3>4. next[p] # o
      BY <1>2, <1>6, NoneBefore DEF IInv, List
    <3>5. Stub(next[p])
      BY <1>7, <3>1, <3>2, <3>3, <3>4 DEF Stub
    <3>6. state[next[p]] = "freed"
      BY <1>6, <2>2, <3>3, <3>5 DEF Unstubbed
    <3>7. QED
      BY <1>1, <3>3, <3>6 DEF heap
  <2>3. \A x \in Object : ~Pending("link", x)'
    BY <1>4, <1>5
  <2>4. QED
    BY <2>1, <2>2, <2>3 DEF Candidates
<1>15. Colours' /\ Coverage' /\ Positions'
  <2>1. ~Has("pop")' /\ ~Has("scanAll")'
    BY <1>4, <1>5
  <2>2. Trialled' = {}
    BY <1>1, <1>4 DEF Trialled, Grey, White
  <2>3. QED
    BY <1>12, <2>1, <2>2, IdleList
<1>16. QED
  BY <1>8, <1>9, <1>10, <1>11, <1>13, <1>14, <1>15 DEF IInv, List

\* A call that leaves the list and the colors alone.
LEMMA PlainStep ==
    ASSUME IInv, Idle, Trialled = {}, ~Has("pop")', ~Has("scanAll")',
           \A x : Pending("link", x)' => Pending("link", x),
           UNCHANGED <<gc_color, next, previous, gc_root>>,
           \A x \in Object : state'[x] \in {state[x], "freed"}
    PROVE  Colours' /\ List' /\ Coverage'
<1>1. Linked' /\ Born' /\ Unlinked'
  BY SameLinks DEF IInv, List
<1>2. Candidates'
  <2>1. /\ \A p \in Object : next[p] # Nil => gc_color[p] = "purple"
        /\ \A p \in Object : next[p] \notin {Nil, p} /\ Stub(next[p]) => state[next[p]] = "freed"
        /\ \A x \in Object : Pending("link", x) => gc_color[x] = "purple" \/ gc_root = Nil
    BY DEF IInv, List, Candidates
  <2>2. \A p \in Object : next[p] \notin {Nil, p} => next[p] \in Object
    BY DEF IInv, Types
  <2>3. QED
    BY <2>1, <2>2 DEF Candidates, Stub
<1>3. Colours' /\ Coverage' /\ Positions'
  <2>1. Trialled' = {}
    BY DEF Trialled, Grey, White
  <2>2. \E pos \in [Object -> Int] : Ordered(pos)'
    BY DEF IInv, List, Positions, Ordered
  <2>3. QED
    BY <2>1, <2>2, IdleList
<1>4. QED
  BY <1>1, <1>2, <1>3 DEF List

\* destroy: the items are to be released, and the memory after them.
LEMMA destroy_Step ==
    ASSUME IInv, NEW o \in Object, destroy(o), ~Dying(o)
    PROVE  IInv'
<1> DEFINE cs == Destroyed(o)
<1>1. /\ todo # <<>> /\ Head(todo) = Call("destroy", o)
      /\ UNCHANGED heap /\ UNCHANGED <<ref_count, gc_color, next, previous, gc_root>>
      /\ Then(cs)
  BY CallingMeans DEF destroy, list, Destroyed
<1>2. /\ cs \in Seq(Calls)
      /\ \A q : HasOp(cs, q) => q \in {"release", "delete"}
      /\ Follows(cs)
  BY destroy_Calls DEF IInv
<1> HIDE DEF cs
<1>3. /\ Idle /\ Trialled = {}
      /\ \A q : HasOp(Tail(todo), q) => q \in {"release", "delete"}
      /\ \A q, x : Later(q, x) => q \in {"release", "delete"}
  BY <1>1, DestroyingIsIdle DEF Destroying, IInv
<1>4. /\ todo' \in Seq(Calls)
      /\ \A q, x : Pending(q, x)' <=> In(cs, Call(q, x)) \/ Later(q, x)
      /\ \A q : Has(q)' <=> HasOp(cs, q) \/ HasOp(Tail(todo), q)
      /\ \A q, x : In(cs, Call(q, x)) => HasOp(cs, q)
  BY <1>1, <1>2, Step DEF IInv
<1>5. Types'
  BY <1>1, <1>4, TypesKept DEF IInv, Types
<1>6. Shape'
  <2>1. \A q : HasOp(cs, q) => After("destroy") \subseteq After(q)
    BY <1>2 DEF After, Outside
  <2>2. QED
    BY <1>1, <1>2, <2>1, ThenShape DEF IInv, MarkOps, ScanOps
<1>7. Balance' /\ Lives'
  BY destroy_Counts DEF IInv
<1>8. Colours' /\ List' /\ Coverage'
  <2>1. ~Has("pop")' /\ ~Has("scanAll")' /\ \A x : ~Pending("link", x)'
    BY <1>2, <1>3, <1>4
  <2>2. \A x \in Object : state'[x] = state[x]
    BY <1>1 DEF heap
  <2>3. QED
    BY <1>1, <1>3, <2>1, <2>2, PlainStep
<1>9. QED
  BY <1>5, <1>6, <1>7, <1>8 DEF IInv

\* The element before the last one that is taken off is not left with a link
\* to another one than that.
LEMMA RemovedUnstubbed ==
    ASSUME Types, Linked, Unstubbed, NEW o \in Object, Removed(o), is_candidate(o) \/ o = gc_root
    PROVE  \A p \in Object : next'[p] \notin {Nil, p} /\ Stub(next[p])' =>
                next'[p] = o \/ (next'[p] \in Object /\ state[next'[p]] = "freed")
<1> SUFFICES ASSUME NEW p \in Object, next'[p] \notin {Nil, p}, Stub(next[p])', next'[p] # o
             PROVE  next'[p] \in Object /\ state[next'[p]] = "freed"
  OBVIOUS
<1> DEFINE n == next'[p]
<1>1. /\ n # Nil /\ n # p /\ n # o /\ n \in Object
      /\ previous'[n] = Nil /\ next'[n] = Nil
  BY RemovedTypes DEF Stub
<1>2. /\ \A x \in Object : next[x] \in Object \cup {Nil}
      /\ \A x \in Object : previous[x] \in Object \cup {Nil}
      /\ o # Nil
  BY NilIsNoObject DEF Types
<1>3. /\ \A x \in Object : next[x] \notin {Nil, x} => previous[next[x]] = x \/ Stub(next[x])
      /\ \A x, y \in Object : next[x] = next[y] /\ next[x] \notin {Nil, x, y} => x = y
  BY DEF Linked
<1>4. CASE o = gc_root
  <2>1. /\ next'[p] = IF p = o THEN Nil ELSE next[p]
        /\ previous'[n] = IF n = next[o] THEN Nil ELSE previous[n]
        /\ next'[n] = IF n = o THEN Nil ELSE next[n]
    BY <1>1, <1>4, RemovedRoot
  <2> HIDE DEF n
  <2>2. p # o /\ n = next[p] /\ next[n] = Nil
    BY <1>1, <2>1 DEF n
  <2>3. n # next[o]
    BY <1>1, <1>3, <2>2
  <2>4. Stub(n)
    BY <1>1, <2>1, <2>2, <2>3 DEF Stub
  <2>5. QED
    BY <1>1, <2>2, <2>4 DEF Unstubbed, n
<1>5. CASE o # gc_root
  <2>1. previous[o] \in Object /\ previous[o] # o /\ next[previous[o]] = o
    BY <1>5, InnerHasPrevious DEF is_candidate
  <2>2. /\ previous'[n] = IF n = o THEN Nil
                          ELSE IF n = next[o] THEN previous[o] ELSE previous[n]
        /\ next'[n] = IF n = o THEN Nil
                      ELSE IF n = previous[o] THEN next[o] ELSE next[n]
        /\ next'[p] = IF p = o THEN Nil
                      ELSE IF p = previous[o] THEN next[o] ELSE next[p]
    BY <1>1, <1>5, RemovedInner
  <2> HIDE DEF n
  <2>3. previous[o] # Nil
    BY <2>1, NilIsNoObject
  <2>4. n # next[o] /\ previous[n] = Nil
    BY <1>1, <2>2, <2>3
  <2>5. p # o /\ p # previous[o] /\ n = next[p]
    BY <1>1, <2>2, <2>4 DEF n
  <2>6. Stub(n)
    BY <1>1, <1>3, <2>4, <2>5, NilIsNoObject
  <2>7. QED
    BY <1>1, <2>5, <2>6 DEF Unstubbed, n
<1>6. QED
  BY <1>4, <1>5

\* delete: the object leaves the list and is freed.
LEMMA delete_Step ==
    ASSUME IInv, NEW o \in Object, delete(o)
    PROVE  IInv'
<1> DEFINE cs == <<>>
<1>1. /\ todo # <<>> /\ Head(todo) = Call("delete", o)
      /\ state' = [state EXCEPT ![o] = "freed"]
      /\ UNCHANGED <<items, handles, ref_count, gc_color>>
      /\ Then(cs)
      /\ IF is_candidate(o) THEN Removed(o) ELSE UNCHANGED <<next, previous, gc_root>>
  BY CallingMeans, removes DEF delete, list
<1>2. cs \in Seq(Calls) /\ (\A c : ~In(cs, c)) /\ (\A q : ~HasOp(cs, q)) /\ Follows(cs)
  BY NoCalls
<1> HIDE DEF cs
<1>3. /\ Idle /\ Trialled = {}
      /\ \A q : HasOp(Tail(todo), q) => q \in {"release", "delete"}
      /\ \A q, x : Later(q, x) => q \in {"release", "delete"}
  BY <1>1, DestroyingIsIdle DEF Destroying, IInv
<1>4. /\ todo' \in Seq(Calls)
      /\ \A q, x : Pending(q, x)' <=> Later(q, x)
      /\ \A q : Has(q)' <=> HasOp(Tail(todo), q)
  BY <1>1, <1>2, Step DEF IInv
<1>5. ~Has("pop")' /\ ~Has("scanAll")' /\ \A x : ~Pending("link", x)'
  BY <1>3, <1>4
<1>6. /\ state' \in [Object -> {"unborn", "alive", "freed"}]
      /\ state'[o] = "freed"
      /\ \A x \in Object : state'[x] \in {state[x], "freed"}
      /\ \A x \in Object : state[x] # "unborn" => state'[x] # "unborn"
  BY <1>1 DEF IInv, Types
<1>7. Types'
  <2>1. /\ next' \in [Object -> Object \cup {Nil}]
        /\ previous' \in [Object -> Object \cup {Nil}]
        /\ gc_root' \in Object \cup {Nil}
    BY <1>1, RemovedTypes DEF IInv, Types
  <2>2. IsFiniteSet({p \in Object : state'[p] # "unborn"})
    <3> DEFINE S == {p \in Object : state[p] # "unborn"}
               T == {p \in Object : state'[p] # "unborn"}
    <3>1. IsFiniteSet(S)
      BY DEF IInv, Types
    <3>2. \A p \in Object : state'[p] # "unborn" <=> state[p] # "unborn" \/ p = o
      BY <1>1 DEF IInv, Types
    <3>3. T = S \cup {o}
      BY <3>2
    <3>4. IsFiniteSet(S \cup {o})
      BY <3>1, FS_AddElement
    <3>5. QED
      BY <3>3, <3>4
  <2>3. \A p \in Object : state'[p] = "unborn" => items'[p] = <<>>
    BY <1>1, <1>6 DEF IInv, Types
  <2>4. QED
    BY <1>1, <1>4, <1>6, <2>1, <2>2, <2>3 DEF IInv, Types
<1>8. Shape'
  BY <1>1, <1>2, ThenShape DEF IInv
<1>9. Balance' /\ Lives'
  BY delete_Counts DEF IInv
<1>10. Colours' /\ List' /\ Coverage'
  <2>1. CASE ~is_candidate(o)
    BY <1>1, <1>3, <1>5, <1>6, <2>1, PlainStep
  <2>2. CASE is_candidate(o)
    <3>1. Removed(o)
      BY <1>1, <2>2
    <3>2. PICK pos \in [Object -> Int] : Ordered(pos)
      BY DEF IInv, List, Positions
    <3>3. Linked' /\ Born' /\ Unlinked'
      BY <1>5, <1>6, <3>1, <3>2, RemovedLinks DEF IInv, List
    <3>4. Candidates'
      <4>1. Unstubbed /\ \A p \in Object : next[p] # Nil => gc_color[p] = "purple"
        BY <1>3 DEF IInv, List, Candidates, Unstubbed
      <4>2. \A p \in Object : next'[p] # Nil => gc_color'[p] = "purple"
        BY <1>1, <3>1, <4>1, RemovedNext DEF IInv, List
      <4>3. \A p \in Object : next'[p] \notin {Nil, p} /\ Stub(next[p])' => state'[next'[p]] = "freed"
        BY <1>6, <2>2, <3>1, <4>1, RemovedUnstubbed DEF IInv, List
      <4>4. QED
        BY <1>5, <4>2, <4>3 DEF Candidates
    <3>5. Ordered(pos)'
      BY <3>1, <3>2, RemovedOrdered DEF IInv, List
    <3>6. Trialled' = {}
      BY <1>1, <1>3 DEF Trialled, Grey, White
    <3>7. Colours' /\ Coverage' /\ Positions'
      BY <1>5, <3>5, <3>6, IdleList
    <3>8. QED
      BY <3>3, <3>4, <3>7 DEF List
  <2>3. QED
    BY <2>1, <2>2
<1>11. QED
  BY <1>7, <1>8, <1>9, <1>10 DEF IInv

\* A collection while collecting is suspended does nothing.
LEMMA collect_paused_Step ==
    ASSUME IInv, collect, gc_paused
    PROVE  IInv'
<1> DEFINE cs == <<>>
<1>1. /\ todo # <<>> /\ Head(todo) = Call("collect", Nil)
      /\ UNCHANGED heap /\ UNCHANGED <<ref_count, gc_color, next, previous, gc_root>>
      /\ Then(cs)
  BY CallingMeans DEF collect, list
<1>2. cs \in Seq(Calls) /\ (\A c : ~In(cs, c)) /\ (\A q : ~HasOp(cs, q)) /\ Follows(cs)
  BY NoCalls
<1> HIDE DEF cs
<1>3. /\ \A q : HasOp(Tail(todo), q) => q \in Outside
      /\ todo' \in Seq(Calls)
      /\ \A q, x : Pending(q, x)' => Pending(q, x)
      /\ \A q : Has(q)' <=> HasOp(Tail(todo), q)
      /\ \A q : Has(q) <=> q = "collect" \/ HasOp(Tail(todo), q)
  BY <1>1, <1>2, Step DEF IInv, After
<1>4. Idle /\ Trialled = {} /\ ~Has("pop")' /\ ~Has("scanAll")'
  BY <1>3 DEF IInv, Colours, Idle, Outside
<1>5. Types'
  BY <1>1, <1>3, TypesKept DEF IInv, Types
<1>6. Shape'
  BY <1>1, <1>2, ThenShape DEF IInv
<1>7. Balance' /\ Lives'
  <2>1. (\A x : Total(x)' = Total(x)) /\ (\A x : Ending(x)' <=> Ending(x))
    BY <1>1, <1>2, Quiet DEF IInv, Destroying
  <2>2. Trialled' = Trialled
    BY <1>1 DEF Trialled, Grey, White
  <2>3. QED
    BY <1>1, <1>2, <2>1, <2>2, NeutralBalance, QuietLives DEF IInv, heap
<1>8. Colours' /\ List' /\ Coverage'
  <2>1. \A x \in Object : state'[x] = state[x]
    BY <1>1 DEF heap
  <2>2. QED
    BY <1>1, <1>3, <1>4, <2>1, PlainStep
<1>9. QED
  BY <1>5, <1>6, <1>7, <1>8 DEF IInv

------------------------------------------------------------------------------
(* The collector: trial deletion. *)

\* A call of the collector counts no reference and destroys nothing.
LEMMA QuietStep ==
    ASSUME IInv, NEW op \in Op \ Destroying, NEW o, todo # <<>>, Head(todo) = Call(op, o),
           NEW cs \in Seq(Calls), Then(cs), \A q \in Destroying : ~HasOp(cs, q),
           UNCHANGED heap,
           ref_count' \in [Object -> Int],
           gc_color' \in [Object -> {"black", "grey", "white", "purple"}],
           next' \in [Object -> Object \cup {Nil}],
           previous' \in [Object -> Object \cup {Nil}],
           gc_root' \in Object \cup {Nil}
    PROVE  /\ Types' /\ Lives'
           /\ \A x : Total(x)' = Total(x)
           /\ \A x \in Object : state[x] # "unborn" => state'[x] # "unborn"
<1>1. (\A x : Total(x)' = Total(x)) /\ (\A x : Ending(x)' <=> Ending(x))
  BY Quiet DEF IInv
<1>2. Lives'
  BY <1>1, QuietLives DEF IInv
<1>3. todo' \in Seq(Calls)
  BY Step DEF IInv
<1>4. Types'
  BY <1>3, TypesKept DEF IInv
<1>5. QED
  BY <1>1, <1>2, <1>4 DEF heap

\* What is to be shown while the collector colors objects grey.
LEMMA MarkingList ==
    ASSUME Has("pop")', Has("scanAll")', White' = {},
           \A p \in Grey' : \A x \in Object :
                Holds(p, x)' => x \in Grey' \/ Pending("trial", x)' \/ Pending("grey", x)',
           \E pos \in [Object -> Int] : Ordered(pos)' /\ \E K \in SUBSET Object : Kept(pos, K)'
    PROVE  Colours' /\ Candidates' /\ Positions' /\ Coverage'
<1>1. ~Idle' /\ Marking' /\ ~Scanning'
  BY DEF Idle, Marking, Scanning
<1>2. Colours'
  BY <1>1 DEF Colours
<1>3. Candidates'
  BY <1>1 DEF Candidates
<1>4. Positions'
  BY DEF Positions
<1>5. Coverage'
  BY <1>1 DEF Coverage
<1>6. QED
  BY <1>2, <1>3, <1>4, <1>5

\* A step that leaves the list alone keeps the coverage by K, if it keeps it on
\* its own terms.
LEMMA KeptOn ==
    ASSUME NEW pos \in [Object -> Int], NEW K \in SUBSET Object, Kept(pos, K), Covers(K)',
           UNCHANGED <<next, gc_root>>,
           \A x \in Object : Pending("mark", x)' => Pending("mark", x),
           \A x \in Object : Pending("marked", x)' => Pending("marked", x)
    PROVE  Kept(pos, K)'
<1>1. \A x : OnChain(x)' <=> OnChain(x)
  BY DEF OnChain, ChainClosed, NextClosed
<1>2. Listed(K)'
  BY <1>1 DEF Kept, Listed
<1>3. Passed(pos, K)'
  BY <1>1 DEF Kept, Passed
<1>4. QED
  BY <1>2, <1>3 DEF Kept

\* What holds at a call of the first loop.
LEMMA MarkCall ==
    ASSUME IInv, NEW op \in MarkOps, NEW o, todo # <<>>, Head(todo) = Call(op, o)
    PROVE  /\ HasOp(Tail(todo), "scanAll") /\ HasOp(Tail(todo), "pop")
           /\ White = {} /\ Trialled = Grey
           /\ \A p \in Grey : \A x \in Object :
                Holds(p, x) => x \in Grey \/ Pending("trial", x) \/ Pending("grey", x)
           /\ Pending(op, o)
           /\ \E pos \in [Object -> Int] : Ordered(pos) /\ \E K \in SUBSET Object : Kept(pos, K)
<1>1. HasOp(Tail(todo), "scanAll") /\ HasOp(Tail(todo), "pop")
  BY Following DEF IInv
<1>2. Marking /\ Pending(op, o)
  BY <1>1, NowPending DEF IInv, Marking
<1>3. QED
  BY <1>1, <1>2 DEF IInv, Colours, List, Positions, Trialled

\* A collection starts at the first candidate.
LEMMA collect_Step ==
    ASSUME IInv, collect, ~gc_paused
    PROVE  IInv'
<1> DEFINE cs == <<Call("mark", gc_root), Call("scanAll", Nil), Call("pop", Nil)>>
<1>1. /\ todo # <<>> /\ Head(todo) = Call("collect", Nil)
      /\ UNCHANGED heap /\ UNCHANGED <<ref_count, gc_color, next, previous, gc_root>>
      /\ Then(cs)
  BY CallingMeans DEF collect, list
<1>2. /\ cs \in Seq(Calls)
      /\ \A q, x : In(cs, Call(q, x)) <=>
            (q = "mark" /\ x = gc_root) \/ (q = "scanAll" /\ x = Nil) \/ (q = "pop" /\ x = Nil)
      /\ \A q : HasOp(cs, q) <=> q = "mark" \/ q = "scanAll" \/ q = "pop"
      /\ Follows(cs)
  <2>1. "mark" \in Op /\ "scanAll" \in Op /\ "pop" \in Op /\ gc_root \in Object \cup {Nil}
    BY DEF Op, IInv, Types
  <2>2. "scanAll" \in After("mark") /\ "pop" \in After("mark") /\ "pop" \in After("scanAll")
    BY DEF After
  <2>3. QED
    BY <2>1, <2>2, ThreeCalls
<1> HIDE DEF cs
<1>3. /\ \A q : HasOp(Tail(todo), q) => q \in Outside
      /\ \A q, x : Later(q, x) => q \in Outside
      /\ todo' \in Seq(Calls)
      /\ \A q, x : Pending(q, x)' <=> In(cs, Call(q, x)) \/ Later(q, x)
      /\ \A q, x : Pending(q, x) <=> (q = "collect" /\ x = Nil) \/ Later(q, x)
      /\ \A q : Has(q)' <=> HasOp(cs, q) \/ HasOp(Tail(todo), q)
      /\ \A q : Has(q) <=> q = "collect" \/ HasOp(Tail(todo), q)
  BY <1>1, <1>2, Step DEF IInv, After
<1>4. Idle /\ Trialled = {} /\ Trialled' = {} /\ Has("pop")' /\ Has("scanAll")'
  BY <1>1, <1>2, <1>3 DEF IInv, Colours, Idle, Outside, Trialled, Grey, White
<1>5. Types' /\ Lives' /\ (\A x : Total(x)' = Total(x))
      /\ \A x \in Object : state[x] # "unborn" => state'[x] # "unborn"
  <2>1. "collect" \in Op \ Destroying /\ \A q \in Destroying : ~HasOp(cs, q)
    BY <1>2 DEF Op, Destroying
  <2>2. /\ ref_count' \in [Object -> Int]
        /\ gc_color' \in [Object -> {"black", "grey", "white", "purple"}]
        /\ next' \in [Object -> Object \cup {Nil}]
        /\ previous' \in [Object -> Object \cup {Nil}]
        /\ gc_root' \in Object \cup {Nil}
    BY <1>1 DEF IInv, Types
  <2>3. QED
    BY <1>1, <1>2, <2>1, <2>2, QuietStep
<1>6. Shape'
  <2>1. \A q : HasOp(cs, q) => After("collect") \subseteq After(q)
    BY <1>2 DEF After, Outside
  <2>2. QED
    BY <1>1, <1>2, <2>1, ThenShape DEF IInv
<1>7. Balance'
  BY <1>1, <1>2, <1>4, <1>5, NeutralBalance DEF IInv, heap
<1>8. Linked' /\ Born' /\ Unlinked'
  <2>1. \A x : Pending("link", x)' => Pending("link", x)
    BY <1>2, <1>3
  <2>2. QED
    BY <1>1, <1>5, <2>1, SameLinks DEF IInv, List
<1>9. Colours' /\ Candidates' /\ Positions' /\ Coverage'
  <2>1. PICK pos \in [Object -> Int] : Ordered(pos)
    BY DEF IInv, List, Positions
  <2>2. Ordered(pos)'
    BY <1>1, <2>1 DEF Ordered
  <2>3. Kept(pos, {})'
    <3>1. Listed({})'
      BY DEF Listed
    <3>2. Covers({})'
      <4>1. Grey' = {}
        BY <1>4 DEF Trialled
      <4>2. \A x \in Object : ~Pending("grey", x)' /\ ~Pending("trial", x)'
        <5>1. "grey" \notin Outside /\ "trial" \notin Outside
          BY DEF Outside
        <5>2. \A x : ~Later("grey", x) /\ ~Later("trial", x)
          BY <1>3, <5>1
        <5>3. \A x : ~In(cs, Call("grey", x)) /\ ~In(cs, Call("trial", x))
          BY <1>2
        <5>4. \A q, x : Pending(q, x)' <=> In(cs, Call(q, x)) \/ Later(q, x)
          BY <1>3
        <5>5. QED
          BY <5>2, <5>3, <5>4
      <4>3. QED
        BY <4>1, <4>2 DEF Covers
    <3>3. Passed(pos, {})'
      <4>1. \A x \in Object : ~Pending("marked", x)' /\ (Pending("mark", x)' => x = gc_root)
        BY <1>2, <1>3 DEF Outside
      <4>2. gc_root \in Object => OnChain(gc_root)'
        BY <1>1, NilIsNoObject DEF OnChain, ChainClosed
      <4>3. QED
        BY <1>1, <4>1, <4>2 DEF Passed
    <3>4. QED
      BY <3>1, <3>2, <3>3 DEF Kept
  <2>4. White' = {} /\ Grey' = {}
    BY <1>4 DEF Trialled
  <2>5. \E K \in SUBSET Object : Kept(pos, K)'
    BY <2>3
  <2>6. QED
    BY <1>4, <2>2, <2>4, <2>5, MarkingList
<1>10. QED
  BY <1>5, <1>6, <1>7, <1>8, <1>9 DEF IInv, List

\* A call of the collector that leaves the list alone.
LEMMA CollectorStep ==
    ASSUME IInv, NEW op \in MarkOps \cup ScanOps \cup {"scanAll"}, NEW o,
           todo # <<>>, Head(todo) = Call(op, o),
           NEW cs \in Seq(Calls), Then(cs), Follows(cs),
           \A q : HasOp(cs, q) => After(op) \subseteq After(q),
           \A q : HasOp(cs, q) => IF op \in MarkOps THEN q \in MarkOps ELSE q \in ScanOps,
           UNCHANGED heap, UNCHANGED <<next, previous, gc_root>>,
           ref_count' \in [Object -> Int],
           gc_color' \in [Object -> {"black", "grey", "white", "purple"}]
    PROVE  /\ Types' /\ Shape' /\ Lives' /\ Linked' /\ Born' /\ Unlinked'
           /\ \A x : Total(x)' = Total(x)
<1>1. op \in Op \ Destroying /\ \A q \in Destroying : ~HasOp(cs, q)
  BY DEF MarkOps, ScanOps, Op, Destroying
<1>2. /\ next' \in [Object -> Object \cup {Nil}]
      /\ previous' \in [Object -> Object \cup {Nil}]
      /\ gc_root' \in Object \cup {Nil}
  BY DEF IInv, Types
<1>3. /\ Types' /\ Lives' /\ \A x : Total(x)' = Total(x)
      /\ \A x \in Object : state[x] # "unborn" => state'[x] # "unborn"
  BY <1>1, <1>2, QuietStep
<1>4. Shape'
  <2>1. \A p \in MarkOps : HasOp(cs, p) => op \in MarkOps \/ HasOp(cs, "scanAll")
    BY DEF MarkOps, ScanOps
  <2>2. \A p \in ScanOps \cup {"scanAll"} : HasOp(cs, p) =>
            op \in MarkOps \cup ScanOps \cup {"scanAll"} \/ HasOp(cs, "pop")
    OBVIOUS
  <2>3. QED
    BY <2>1, <2>2, ThenShape DEF IInv
<1>5. \A x : Pending("link", x)' => Pending("link", x)
  <2>1. ~HasOp(cs, "link")
    BY DEF MarkOps, ScanOps
  <2>2. QED
    BY <2>1, Step DEF IInv
<1>6. Linked' /\ Born' /\ Unlinked'
  BY <1>3, <1>5, SameLinks DEF IInv, List
<1>7. QED
  BY <1>3, <1>4, <1>6

\* At the end of the first loop the scan is to start.
LEMMA mark_end_Step ==
    ASSUME IInv, mark_candidates(Nil)
    PROVE  IInv'
<1> DEFINE cs == <<>>
<1>1. /\ todo # <<>> /\ Head(todo) = Call("mark", Nil)
      /\ UNCHANGED heap /\ UNCHANGED <<ref_count, gc_color, next, previous, gc_root>>
      /\ Then(cs)
  BY CallingMeans DEF mark_candidates, list
<1>2. cs \in Seq(Calls) /\ (\A c : ~In(cs, c)) /\ (\A q : ~HasOp(cs, q)) /\ Follows(cs)
  BY NoCalls
<1> HIDE DEF cs
<1>3. "mark" \in MarkOps
  BY DEF MarkOps
<1>4. /\ \A q, x : Pending(q, x)' <=> Later(q, x)
      /\ \A q, x : Pending(q, x) <=> (q = "mark" /\ x = Nil) \/ Later(q, x)
      /\ \A q : Has(q)' <=> HasOp(Tail(todo), q)
  BY <1>1, <1>2, Step DEF IInv
<1>5. /\ HasOp(Tail(todo), "scanAll") /\ HasOp(Tail(todo), "pop")
      /\ White = {} /\ Trialled = Grey
      /\ \A p \in Grey : \A x \in Object :
            Holds(p, x) => x \in Grey \/ Pending("trial", x) \/ Pending("grey", x)
      /\ \E pos \in [Object -> Int] : Ordered(pos) /\ \E K \in SUBSET Object : Kept(pos, K)
  BY <1>1, <1>3, MarkCall
<1>6. /\ Types' /\ Shape' /\ Lives' /\ Linked' /\ Born' /\ Unlinked'
      /\ \A x : Total(x)' = Total(x)
  BY <1>1, <1>2, <1>3, CollectorStep DEF IInv, Types
<1>7. Grey' = Grey /\ White' = White /\ Trialled' = Trialled /\ \A p, x : Holds(p, x)' <=> Holds(p, x)
  BY <1>1 DEF Grey, White, Trialled, Holds, heap
<1>8. Balance'
  BY <1>1, <1>2, <1>6, <1>7, NeutralBalance DEF IInv, heap
<1>9. Colours' /\ Candidates' /\ Positions' /\ Coverage'
  <2>1. PICK pos \in [Object -> Int] : Ordered(pos) /\ \E K \in SUBSET Object : Kept(pos, K)
    BY <1>5
  <2>2. PICK K \in SUBSET Object : Kept(pos, K)
    BY <2>1
  <2>3. Ordered(pos)'
    BY <1>1, <2>1 DEF Ordered
  <2>4. Covers(K)'
    BY <1>4, <1>7, <2>2 DEF Kept, Covers, ItemsClosed
  <2>5. Kept(pos, K)'
    BY <1>1, <1>4, <2>2, <2>4, KeptOn
  <2>6. \A p \in Grey' : \A x \in Object :
            Holds(p, x)' => x \in Grey' \/ Pending("trial", x)' \/ Pending("grey", x)'
    BY <1>4, <1>5, <1>7
  <2>7. QED
    BY <1>4, <1>5, <1>7, <2>3, <2>5, <2>6, MarkingList
<1>10. QED
  BY <1>6, <1>8, <1>9 DEF IInv, List

\* A purple candidate is to be colored grey; it stays on the list.
LEMMA mark_purple_Step ==
    ASSUME IInv, NEW o \in Object, mark_candidates(o), gc_color[o] = "purple"
    PROVE  IInv'
<1> DEFINE cs == <<Call("grey", o), Call("marked", o)>>
<1>1. /\ todo # <<>> /\ Head(todo) = Call("mark", o)
      /\ UNCHANGED heap /\ UNCHANGED <<ref_count, gc_color, next, previous, gc_root>>
      /\ Then(cs)
  BY CallingMeans, NilIsNoObject DEF mark_candidates, list
<1>2. /\ cs \in Seq(Calls)
      /\ \A q, x : In(cs, Call(q, x)) <=> (q = "grey" /\ x = o) \/ (q = "marked" /\ x = o)
      /\ \A q : HasOp(cs, q) <=> q = "grey" \/ q = "marked"
      /\ Follows(cs)
  <2>1. "grey" \in Op /\ "marked" \in Op /\ "marked" \in After("grey")
    BY DEF Op, After
  <2>2. QED
    BY <2>1, TwoCalls
<1> HIDE DEF cs
<1>3. "mark" \in MarkOps
  BY DEF MarkOps
<1>4. /\ \A q, x : Pending(q, x)' <=> In(cs, Call(q, x)) \/ Later(q, x)
      /\ \A q, x : Pending(q, x) <=> (q = "mark" /\ x = o) \/ Later(q, x)
      /\ \A q : Has(q)' <=> HasOp(cs, q) \/ HasOp(Tail(todo), q)
      /\ \A q, x : Later(q, x) => q \in {"scanAll", "pop"} \cup Outside
  BY <1>1, <1>2, Step DEF IInv, After
<1>5. /\ HasOp(Tail(todo), "scanAll") /\ HasOp(Tail(todo), "pop")
      /\ White = {} /\ Trialled = Grey
      /\ \A p \in Grey : \A x \in Object :
            Holds(p, x) => x \in Grey \/ Pending("trial", x) \/ Pending("grey", x)
      /\ \E pos \in [Object -> Int] : Ordered(pos) /\ \E K \in SUBSET Object : Kept(pos, K)
  BY <1>1, <1>3, MarkCall
<1>6. /\ Types' /\ Shape' /\ Lives' /\ Linked' /\ Born' /\ Unlinked'
      /\ \A x : Total(x)' = Total(x)
  <2>1. \A q : HasOp(cs, q) => After("mark") \subseteq After(q) /\ q \in MarkOps
    BY <1>2 DEF After, MarkOps
  <2>2. ref_count' \in [Object -> Int] /\ gc_color' \in [Object -> {"black", "grey", "white", "purple"}]
    BY <1>1 DEF IInv, Types
  <2>3. QED
    BY <1>1, <1>2, <1>3, <2>1, <2>2, CollectorStep
<1>7. Grey' = Grey /\ White' = White /\ Trialled' = Trialled /\ \A p, x : Holds(p, x)' <=> Holds(p, x)
  BY <1>1 DEF Grey, White, Trialled, Holds, heap
<1>8. Balance'
  BY <1>1, <1>2, <1>6, <1>7, NeutralBalance DEF IInv, heap
<1>9. Colours' /\ Candidates' /\ Positions' /\ Coverage'
  <2>1. PICK pos \in [Object -> Int] : Ordered(pos) /\ \E K \in SUBSET Object : Kept(pos, K)
    BY <1>5
  <2>2. PICK K \in SUBSET Object : Kept(pos, K)
    BY <2>1
  <2>3. Ordered(pos)'
    BY <1>1, <2>1 DEF Ordered
  <2>4. /\ \A x : OnChain(x)' <=> OnChain(x)
        /\ OnChain(o)
        /\ \A k \in K : pos[k] < pos[o] \/ k = o
    BY <1>1, <1>4, <2>2 DEF OnChain, ChainClosed, NextClosed, Kept, Passed
  <2> DEFINE L == K \cup {o}
  <2>5. Listed(L)'
    BY <2>2, <2>4 DEF Kept, Listed
  <2>6. Covers(L)'
    <3>1. ASSUME NEW S \in SUBSET Object, L \subseteq S, ItemsClosed(S, Grey)
          PROVE  /\ Grey \subseteq S
                 /\ \A x \in Object : Pending("grey", x)' \/ Pending("trial", x)' => x \in S
      BY <1>2, <1>4, <2>2, <3>1 DEF Kept, Covers, Outside
    <3>2. \A S : ItemsClosed(S, Grey)' <=> ItemsClosed(S, Grey)
      BY <1>7 DEF ItemsClosed
    <3>3. QED
      BY <1>7, <3>1, <3>2 DEF Covers
  <2>7. Passed(pos, L)'
    <3>1. /\ \A x \in Object : ~Pending("mark", x)'
          /\ \A x \in Object : Pending("marked", x)' => x = o
      BY <1>2, <1>4 DEF Outside
    <3>2. QED
      BY <2>4, <3>1 DEF Passed
  <2> HIDE DEF L
  <2>8. L \in SUBSET Object /\ Kept(pos, L)'
    BY <2>5, <2>6, <2>7 DEF Kept, L
  <2>9. \A p \in Grey' : \A x \in Object :
            Holds(p, x)' => x \in Grey' \/ Pending("trial", x)' \/ Pending("grey", x)'
    BY <1>4, <1>5, <1>7
  <2>10. Has("pop")' /\ Has("scanAll")' /\ White' = {}
    BY <1>4, <1>5, <1>7
  <2>11. QED
    BY <2>3, <2>8, <2>9, <2>10, MarkingList
<1>10. QED
  BY <1>6, <1>8, <1>9 DEF IInv, List

\* mark_candidates takes an object off that is not purple.
LEMMA mark_other_Step ==
    ASSUME IInv, NEW o \in Object, mark_candidates(o), gc_color[o] # "purple",
           ~(gc_color[o] = "black" /\ ref_count[o] <= 0)
    PROVE  IInv'
<1> DEFINE cs == <<Call("marked", o)>>
<1>1. /\ todo # <<>> /\ Head(todo) = Call("mark", o)
      /\ UNCHANGED heap /\ UNCHANGED <<ref_count, gc_color>>
      /\ Removed(o)
  BY CallingMeans, NilIsNoObject, removes DEF mark_candidates
<1>0. Then(cs)
  <2>1. /\ <<>> \o <<Call("marked", o)>> = cs
    OBVIOUS
  <2>2. QED
    BY <2>1, NilIsNoObject DEF mark_candidates
<1>2. /\ cs \in Seq(Calls)
      /\ \A q, x : In(cs, Call(q, x)) <=> q = "marked" /\ x = o
      /\ \A q : HasOp(cs, q) <=> q = "marked"
      /\ Follows(cs)
  <2>1. "marked" \in Op
    BY DEF Op
  <2>2. QED
    BY <2>1, OneCall
<1> HIDE DEF cs
<1>3. "mark" \in MarkOps
  BY DEF MarkOps
<1>4. /\ \A q, x : Pending(q, x)' <=> In(cs, Call(q, x)) \/ Later(q, x)
      /\ \A q, x : Pending(q, x) <=> (q = "mark" /\ x = o) \/ Later(q, x)
      /\ \A q : Has(q)' <=> HasOp(cs, q) \/ HasOp(Tail(todo), q)
      /\ \A q, x : Later(q, x) => q \in {"scanAll", "pop"} \cup Outside
  BY <1>0, <1>1, <1>2, Step DEF IInv, After
<1>5. /\ HasOp(Tail(todo), "scanAll") /\ HasOp(Tail(todo), "pop")
      /\ White = {} /\ Trialled = Grey
      /\ \A p \in Grey : \A x \in Object :
            Holds(p, x) => x \in Grey \/ Pending("trial", x) \/ Pending("grey", x)
      /\ \E pos \in [Object -> Int] : Ordered(pos) /\ \E K \in SUBSET Object : Kept(pos, K)
  BY <1>1, <1>3, MarkCall
<1>6. PICK pos \in [Object -> Int] : Ordered(pos) /\ \E K \in SUBSET Object : Kept(pos, K)
  BY <1>5
<1>7. PICK K \in SUBSET Object : Kept(pos, K)
  BY <1>6
<1>8. /\ Types' /\ Lives' /\ \A x : Total(x)' = Total(x)
      /\ \A x \in Object : state[x] # "unborn" => state'[x] # "unborn"
  <2>1. "mark" \in Op \ Destroying /\ \A q \in Destroying : ~HasOp(cs, q)
    BY <1>2 DEF Op, Destroying
  <2>2. ref_count' \in [Object -> Int] /\ gc_color' \in [Object -> {"black", "grey", "white", "purple"}]
    BY <1>1 DEF IInv, Types
  <2>3. /\ next' \in [Object -> Object \cup {Nil}]
        /\ previous' \in [Object -> Object \cup {Nil}]
        /\ gc_root' \in Object \cup {Nil}
    BY <1>1, RemovedTypes DEF IInv
  <2>4. QED
    BY <1>0, <1>1, <1>2, <2>1, <2>2, <2>3, QuietStep
<1>9. Shape'
  <2>1. \A q : HasOp(cs, q) => After("mark") \subseteq After(q)
    BY <1>2 DEF After
  <2>2. QED
    BY <1>0, <1>1, <1>2, <1>3, <2>1, ThenShape DEF IInv, MarkOps, ScanOps
<1>10. Linked' /\ Born' /\ Unlinked'
  <2>1. \A x : Pending("link", x)' => Pending("link", x)
    BY <1>2, <1>4
  <2>2. QED
    BY <1>1, <1>6, <1>8, <2>1, RemovedLinks DEF IInv, List
<1>11. Grey' = Grey /\ White' = White /\ Trialled' = Trialled /\ \A p, x : Holds(p, x)' <=> Holds(p, x)
  BY <1>1 DEF Grey, White, Trialled, Holds, heap
<1>12. Balance'
  BY <1>0, <1>1, <1>2, <1>8, <1>11, NeutralBalance DEF IInv, heap
<1>13. Colours' /\ Candidates' /\ Positions' /\ Coverage'
  <2>1. Ordered(pos)'
    BY <1>1, <1>6, RemovedOrdered DEF IInv, List
  <2>2. Listed(K)'
    <3>1. ASSUME NEW k \in K
          PROVE  OnChain(k)'
      <4>1. OnChain(k) /\ (pos[k] < pos[o] \/ (k = o /\ next[o] = o))
        BY <1>4, <1>7, <3>1 DEF Kept, Listed, Passed
      <4>2. k # o \/ next[o] = o
        BY <4>1
      <4>3. QED
        BY <1>1, <4>1, <4>2, RemovedOnChain DEF IInv, List
    <3>2. QED
      BY <3>1 DEF Listed
  <2>3. Covers(K)'
    <3>1. \A S : ItemsClosed(S, Grey)' <=> ItemsClosed(S, Grey)
      BY <1>11 DEF ItemsClosed
    <3>2. \A x \in Object : ~Pending("grey", x)' /\ ~Pending("trial", x)'
      BY <1>2, <1>4 DEF Outside
    <3>3. QED
      BY <1>7, <1>11, <3>1, <3>2 DEF Kept, Covers
  <2>4. Passed(pos, K)'
    <3>1. /\ \A x \in Object : ~Pending("mark", x)'
          /\ \A x \in Object : Pending("marked", x)' => x = o
      BY <1>2, <1>4 DEF Outside
    <3>2. next'[o] = Nil
      BY <1>1, RemovedNext DEF IInv, List
    <3>3. QED
      BY <3>1, <3>2 DEF Passed
  <2>5. Kept(pos, K)'
    BY <2>2, <2>3, <2>4 DEF Kept
  <2>6. \A p \in Grey' : \A x \in Object :
            Holds(p, x)' => x \in Grey' \/ Pending("trial", x)' \/ Pending("grey", x)'
    BY <1>4, <1>5, <1>11
  <2>7. Has("pop")' /\ Has("scanAll")' /\ White' = {}
    BY <1>4, <1>5, <1>11
  <2>8. QED
    BY <2>1, <2>5, <2>6, <2>7, MarkingList
<1>14. QED
  BY <1>8, <1>9, <1>10, <1>12, <1>13 DEF IInv, List

\* An object without references that mark_candidates comes across is being
\* destroyed already.
LEMMA MarkedDies ==
    ASSUME IInv, NEW o \in Object, mark_candidates(o), gc_color[o] = "black", ref_count[o] <= 0
    PROVE  Dying(o)
<1>1. todo # <<>> /\ Head(todo) = Call("mark", o) /\ ~TouchesFreed(Head(todo))
  BY DEF mark_candidates, Calling
<1>2. "mark" \in MarkOps
  BY DEF MarkOps
<1>3. /\ \A q : HasOp(Tail(todo), q) => q \in {"scanAll", "pop"} \cup Outside
      /\ \A q, x : Pending(q, x) <=> (q = "mark" /\ x = o) \/ Later(q, x)
      /\ \A q, x : Later(q, x) => q \in {"scanAll", "pop"} \cup Outside
  <2>1. /\ \A q : HasOp(Tail(todo), q) => q \in After("mark")
    BY <1>1, Following DEF IInv
  <2>2. \A q, x : /\ Pending(q, x) <=> (q = "mark" /\ x = o) \/ Later(q, x)
                  /\ Later(q, x) => HasOp(Tail(todo), q)
    BY <1>1, NowPending DEF IInv
  <2>3. After("mark") = {"scanAll", "pop"} \cup Outside
    BY DEF After
  <2>4. QED
    BY <2>1, <2>2, <2>3
<1>4. /\ Trialled = Grey
      /\ \A p \in Grey : \A x \in Object :
            Holds(p, x) => x \in Grey \/ Pending("trial", x) \/ Pending("grey", x)
      /\ \E pos \in [Object -> Int] : Ordered(pos) /\ \E K \in SUBSET Object : Kept(pos, K)
  BY <1>1, <1>2, MarkCall
<1>5. state[o] = "alive"
  <2>1. OnChain(o)
    BY <1>3, <1>4 DEF Kept, Passed
  <2>2. state[o] # "unborn"
    BY <2>1, OnChainIsBorn DEF IInv, List
  <2>3. state[o] # "freed"
    BY <1>1, NilIsNoObject DEF TouchesFreed, Touched, Call
  <2>4. QED
    BY <2>2, <2>3 DEF IInv, Types
<1>6. Refs(items, o, Trialled) = 0
  <2>1. \A p \in Grey : ~Holds(p, o)
    BY <1>3, <1>4 DEF Grey, Outside
  <2>2. RefsIn(items, o, Trialled) = {}
    BY <1>4, <2>1 DEF RefsIn, Holds
  <2>3. QED
    BY <2>2, FS_EmptySet DEF Refs
<1>7. Times(todo, Call("trial", o)) = 0 /\ Times(todo, Call("undo", o)) = 0
  <2>1. ~Pending("trial", o) /\ ~Pending("undo", o)
    BY <1>3 DEF Outside
  <2>2. QED
    BY <2>1, CountsAreNat DEF IInv
<1>8. ref_count[o] = Total(o) /\ Total(o) \in Nat
  BY <1>6, <1>7, CountsAreNat DEF IInv, Balance
<1>9. Ending(o)
  BY <1>8 DEF IInv, Lives
<1>10. Pending("delete", o)
  BY <1>3, <1>5, <1>9 DEF Ending, Outside
<1>11. QED
  BY <1>10, DyingIsPending

\* The first loop goes on with the element after the candidate.
LEMMA mark_next_Step ==
    ASSUME IInv, NEW o \in Object, mark_next(o)
    PROVE  IInv'
<1> DEFINE cs == <<Call("mark", next[o])>>
<1>1. /\ todo # <<>> /\ Head(todo) = Call("marked", o)
      /\ UNCHANGED heap /\ UNCHANGED <<ref_count, gc_color, next, previous, gc_root>>
      /\ Then(cs)
  BY CallingMeans DEF mark_next, list
<1>2. /\ cs \in Seq(Calls)
      /\ \A q, x : In(cs, Call(q, x)) <=> q = "mark" /\ x = next[o]
      /\ \A q : HasOp(cs, q) <=> q = "mark"
      /\ Follows(cs)
  <2>1. "mark" \in Op /\ next[o] \in Object \cup {Nil}
    BY DEF Op, IInv, Types
  <2>2. QED
    BY <2>1, OneCall
<1> HIDE DEF cs
<1>3. "marked" \in MarkOps
  BY DEF MarkOps
<1>4. /\ \A q, x : Pending(q, x)' <=> In(cs, Call(q, x)) \/ Later(q, x)
      /\ \A q, x : Pending(q, x) <=> (q = "marked" /\ x = o) \/ Later(q, x)
      /\ \A q : Has(q)' <=> HasOp(cs, q) \/ HasOp(Tail(todo), q)
      /\ \A q, x : Later(q, x) => q \in {"scanAll", "pop"} \cup Outside
  BY <1>1, <1>2, Step DEF IInv, After
<1>5. /\ HasOp(Tail(todo), "scanAll") /\ HasOp(Tail(todo), "pop")
      /\ White = {} /\ Trialled = Grey
      /\ \A p \in Grey : \A x \in Object :
            Holds(p, x) => x \in Grey \/ Pending("trial", x) \/ Pending("grey", x)
      /\ \E pos \in [Object -> Int] : Ordered(pos) /\ \E K \in SUBSET Object : Kept(pos, K)
  BY <1>1, <1>3, MarkCall
<1>6. /\ Types' /\ Shape' /\ Lives' /\ Linked' /\ Born' /\ Unlinked'
      /\ \A x : Total(x)' = Total(x)
  <2>1. \A q : HasOp(cs, q) => After("marked") \subseteq After(q) /\ q \in MarkOps
    BY <1>2 DEF After, MarkOps
  <2>2. ref_count' \in [Object -> Int] /\ gc_color' \in [Object -> {"black", "grey", "white", "purple"}]
    BY <1>1 DEF IInv, Types
  <2>3. QED
    BY <1>1, <1>2, <1>3, <2>1, <2>2, CollectorStep
<1>7. Grey' = Grey /\ White' = White /\ Trialled' = Trialled /\ \A p, x : Holds(p, x)' <=> Holds(p, x)
  BY <1>1 DEF Grey, White, Trialled, Holds, heap
<1>8. Balance'
  BY <1>1, <1>2, <1>6, <1>7, NeutralBalance DEF IInv, heap
<1>9. Colours' /\ Candidates' /\ Positions' /\ Coverage'
  <2>1. PICK pos \in [Object -> Int] : Ordered(pos) /\ \E K \in SUBSET Object : Kept(pos, K)
    BY <1>5
  <2>2. PICK K \in SUBSET Object : Kept(pos, K)
    BY <2>1
  <2>3. Ordered(pos)'
    BY <1>1, <2>1 DEF Ordered
  <2>4. \A x : OnChain(x)' <=> OnChain(x)
    BY <1>1 DEF OnChain, ChainClosed, NextClosed
  <2>5. Listed(K)'
    BY <2>2, <2>4 DEF Kept, Listed
  <2>6. Covers(K)'
    <3>1. \A S : ItemsClosed(S, Grey)' <=> ItemsClosed(S, Grey)
      BY <1>7 DEF ItemsClosed
    <3>2. \A x \in Object : ~Pending("grey", x)' /\ ~Pending("trial", x)'
      BY <1>2, <1>4 DEF Outside
    <3>3. QED
      BY <1>7, <2>2, <3>1, <3>2 DEF Kept, Covers
  <2>7. Passed(pos, K)'
    <3>1. /\ \A x \in Object : ~Pending("marked", x)'
          /\ \A x \in Object : Pending("mark", x)' => x = next[o]
      BY <1>2, <1>4 DEF Outside
    <3>2. ASSUME next[o] \in Object
          PROVE  /\ OnChain(next[o])
                 /\ \A k \in K : pos[k] < pos[next[o]] \/ (k = next[o] /\ next[next[o]] = next[o])
      <4>1. /\ OnChain(o)
            /\ \A k \in K : pos[k] < pos[o] \/ k = o
        BY <1>4, <2>2, <3>2, NilIsNoObject DEF Kept, Passed
      <4>2. OnChain(next[o])
        BY <3>2, <4>1, NilIsNoObject DEF OnChain, ChainClosed, NextClosed
      <4>3. next[o] = o \/ pos[o] < pos[next[o]]
        BY <2>1, <3>2, NilIsNoObject DEF Ordered
      <4>4. QED
        BY <3>2, <4>1, <4>2, <4>3
    <3>3. QED
      BY <1>1, <2>4, <3>1, <3>2 DEF Passed
  <2>8. Kept(pos, K)'
    BY <2>5, <2>6, <2>7 DEF Kept
  <2>9. \A p \in Grey' : \A x \in Object :
            Holds(p, x)' => x \in Grey' \/ Pending("trial", x)' \/ Pending("grey", x)'
    BY <1>4, <1>5, <1>7
  <2>10. Has("pop")' /\ Has("scanAll")' /\ White' = {}
    BY <1>4, <1>5, <1>7
  <2>11. QED
    BY <2>3, <2>8, <2>9, <2>10, MarkingList
<1>10. QED
  BY <1>6, <1>8, <1>9 DEF IInv, List

\* mark_grey does nothing on an object that is grey already.
LEMMA mark_grey_again_Step ==
    ASSUME IInv, NEW o \in Object, mark_grey(o), gc_color[o] = "grey"
    PROVE  IInv'
<1> DEFINE cs == <<>>
<1>1. /\ todo # <<>> /\ Head(todo) = Call("grey", o)
      /\ UNCHANGED heap /\ UNCHANGED <<ref_count, gc_color, next, previous, gc_root>>
      /\ Then(cs)
  BY CallingMeans DEF mark_grey, list
<1>2. cs \in Seq(Calls) /\ (\A c : ~In(cs, c)) /\ (\A q : ~HasOp(cs, q)) /\ Follows(cs)
  BY NoCalls
<1> HIDE DEF cs
<1>3. "grey" \in MarkOps
  BY DEF MarkOps
<1>4. /\ \A q, x : Pending(q, x)' <=> Later(q, x)
      /\ \A q, x : Pending(q, x) <=> (q = "grey" /\ x = o) \/ Later(q, x)
      /\ \A q : Has(q)' <=> HasOp(Tail(todo), q)
  BY <1>1, <1>2, Step DEF IInv
<1>5. /\ HasOp(Tail(todo), "scanAll") /\ HasOp(Tail(todo), "pop")
      /\ White = {} /\ Trialled = Grey
      /\ \A p \in Grey : \A x \in Object :
            Holds(p, x) => x \in Grey \/ Pending("trial", x) \/ Pending("grey", x)
      /\ \E pos \in [Object -> Int] : Ordered(pos) /\ \E K \in SUBSET Object : Kept(pos, K)
  BY <1>1, <1>3, MarkCall
<1>6. /\ Types' /\ Shape' /\ Lives' /\ Linked' /\ Born' /\ Unlinked'
      /\ \A x : Total(x)' = Total(x)
  BY <1>1, <1>2, <1>3, CollectorStep DEF IInv, Types
<1>7. Grey' = Grey /\ White' = White /\ Trialled' = Trialled /\ \A p, x : Holds(p, x)' <=> Holds(p, x)
  BY <1>1 DEF Grey, White, Trialled, Holds, heap
<1>8. Balance'
  BY <1>1, <1>2, <1>6, <1>7, NeutralBalance DEF IInv, heap
<1>9. Colours' /\ Candidates' /\ Positions' /\ Coverage'
  <2>1. PICK pos \in [Object -> Int] : Ordered(pos) /\ \E K \in SUBSET Object : Kept(pos, K)
    BY <1>5
  <2>2. PICK K \in SUBSET Object : Kept(pos, K)
    BY <2>1
  <2>3. Ordered(pos)'
    BY <1>1, <2>1 DEF Ordered
  <2>4. Covers(K)'
    BY <1>4, <1>7, <2>2 DEF Kept, Covers, ItemsClosed
  <2>5. Kept(pos, K)'
    BY <1>1, <1>4, <2>2, <2>4, KeptOn
  <2>6. o \in Grey
    BY DEF Grey
  <2>7. \A p \in Grey' : \A x \in Object :
            Holds(p, x)' => x \in Grey' \/ Pending("trial", x)' \/ Pending("grey", x)'
    BY <1>4, <1>5, <1>7, <2>6
  <2>8. QED
    BY <1>4, <1>5, <1>7, <2>3, <2>5, <2>7, MarkingList
<1>10. QED
  BY <1>6, <1>8, <1>9 DEF IInv, List

\* mark_grey: trial deletion of what the object refers to.
LEMMA mark_grey_Step ==
    ASSUME IInv, NEW o \in Object, mark_grey(o), gc_color[o] # "grey"
    PROVE  IInv'
<1> DEFINE cs == OnItems("trial", o)
<1>1. /\ todo # <<>> /\ Head(todo) = Call("grey", o)
      /\ UNCHANGED heap /\ UNCHANGED <<ref_count, next, previous, gc_root>>
      /\ gc_color' = [gc_color EXCEPT ![o] = "grey"]
      /\ Then(cs)
  BY CallingMeans DEF mark_grey, list
<1>2. /\ cs \in Seq(Calls)
      /\ \A q, x : In(cs, Call(q, x)) <=> q = "trial" /\ Holds(o, x)
      /\ \A q : HasOp(cs, q) => q = "trial"
      /\ Follows(cs)
  <2>1. "trial" \in Op /\ "trial" \in After("trial")
    BY DEF Op, After
  <2>2. QED
    BY <2>1, InOnItems, FollowsOnItems DEF IInv
<1>3. "grey" \in MarkOps
  BY DEF MarkOps
<1>5. /\ HasOp(Tail(todo), "scanAll") /\ HasOp(Tail(todo), "pop")
      /\ White = {} /\ Trialled = Grey
      /\ \A p \in Grey : \A x \in Object :
            Holds(p, x) => x \in Grey \/ Pending("trial", x) \/ Pending("grey", x)
      /\ \E pos \in [Object -> Int] : Ordered(pos) /\ \E K \in SUBSET Object : Kept(pos, K)
  BY <1>1, <1>3, MarkCall
<1>7. /\ gc_color' \in [Object -> {"black", "grey", "white", "purple"}]
      /\ Grey' = Grey \cup {o} /\ White' = {} /\ Trialled' = Trialled \cup {o}
      /\ o \notin Trialled
      /\ \A p, x : Holds(p, x)' <=> Holds(p, x)
  <2>1. gc_color \in [Object -> {"black", "grey", "white", "purple"}]
    BY DEF IInv, Types
  <2>2. \A p \in Object : gc_color'[p] = IF p = o THEN "grey" ELSE gc_color[p]
    BY <1>1, <2>1
  <2>3. Grey' = Grey \cup {o} /\ White' = {} /\ o \notin Grey
    BY <1>5, <2>2 DEF Grey, White
  <2>4. \A p, x : Holds(p, x)' <=> Holds(p, x)
    BY <1>1 DEF Holds, heap
  <2>5. gc_color' \in [Object -> {"black", "grey", "white", "purple"}]
    BY <1>1, <2>1
  <2>6. QED
    BY <1>5, <2>3, <2>4, <2>5 DEF Trialled
<1>6. /\ Types' /\ Shape' /\ Lives' /\ Linked' /\ Born' /\ Unlinked'
      /\ \A x : Total(x)' = Total(x)
  <2>1. \A q : HasOp(cs, q) => After("grey") \subseteq After(q) /\ q \in MarkOps
    BY <1>2 DEF After, MarkOps
  <2>2. ref_count' \in [Object -> Int]
    BY <1>1 DEF IInv, Types
  <2> HIDE DEF cs
  <2>3. QED
    BY <1>1, <1>2, <1>3, <1>7, <2>1, <2>2, CollectorStep
<1>8. Balance'
  BY <1>1, <1>6, <1>7, mark_grey_Balance DEF IInv, heap
<1> HIDE DEF cs
<1>4. /\ \A q, x : Pending(q, x)' <=> In(cs, Call(q, x)) \/ Later(q, x)
      /\ \A q, x : Pending(q, x) <=> (q = "grey" /\ x = o) \/ Later(q, x)
      /\ \A q : Has(q)' <=> HasOp(cs, q) \/ HasOp(Tail(todo), q)
  BY <1>1, <1>2, Step DEF IInv
<1>9. Colours' /\ Candidates' /\ Positions' /\ Coverage'
  <2>1. PICK pos \in [Object -> Int] : Ordered(pos) /\ \E K \in SUBSET Object : Kept(pos, K)
    BY <1>5
  <2>2. PICK K \in SUBSET Object : Kept(pos, K)
    BY <2>1
  <2>3. Ordered(pos)'
    BY <1>1, <2>1 DEF Ordered
  <2>4. Covers(K)'
    <3>1. ASSUME NEW S \in SUBSET Object, K \subseteq S, ItemsClosed(S, Grey \cup {o})
          PROVE  /\ Grey \cup {o} \subseteq S
                 /\ \A x \in Object : Pending("grey", x)' \/ Pending("trial", x)' => x \in S
      <4>1. ItemsClosed(S, Grey)
        BY <3>1 DEF ItemsClosed
      <4>2. /\ Grey \subseteq S
            /\ \A x \in Object : Pending("grey", x) \/ Pending("trial", x) => x \in S
        BY <2>2, <3>1, <4>1 DEF Kept, Covers
      <4>3. o \in S
        BY <1>4, <4>2
      <4>4. \A x \in Object : Holds(o, x) => x \in S
        BY <3>1, <4>3 DEF ItemsClosed
      <4>5. QED
        BY <1>2, <1>4, <4>2, <4>3, <4>4
    <3>2. \A S : ItemsClosed(S, Grey)' <=> ItemsClosed(S, Grey \cup {o})
      BY <1>7 DEF ItemsClosed
    <3>3. QED
      BY <1>7, <3>1, <3>2 DEF Covers
  <2>5. Kept(pos, K)'
    BY <1>1, <1>2, <1>4, <2>2, <2>4, KeptOn
  <2>6. \A p \in Grey' : \A x \in Object :
            Holds(p, x)' => x \in Grey' \/ Pending("trial", x)' \/ Pending("grey", x)'
    BY <1>2, <1>4, <1>5, <1>7
  <2>7. QED
    BY <1>4, <1>5, <1>7, <2>3, <2>5, <2>6, MarkingList
<1>10. QED
  BY <1>6, <1>8, <1>9 DEF IInv, List

\* Trial deletion of one reference.
LEMMA trial_deletion_Step ==
    ASSUME IInv, NEW o \in Object, trial_deletion(o)
    PROVE  IInv'
<1> DEFINE cs == <<Call("grey", o)>>
<1>1. /\ todo # <<>> /\ Head(todo) = Call("trial", o)
      /\ UNCHANGED heap /\ UNCHANGED <<gc_color, next, previous, gc_root>>
      /\ ref_count' = [ref_count EXCEPT ![o] = @ - 1]
      /\ Then(cs)
  BY CallingMeans DEF trial_deletion, list
<1>2. /\ cs \in Seq(Calls)
      /\ \A q, x : In(cs, Call(q, x)) <=> q = "grey" /\ x = o
      /\ \A q : HasOp(cs, q) <=> q = "grey"
      /\ Follows(cs)
  <2>1. "grey" \in Op
    BY DEF Op
  <2>2. QED
    BY <2>1, OneCall
<1> HIDE DEF cs
<1>3. "trial" \in MarkOps
  BY DEF MarkOps
<1>4. /\ \A q, x : Pending(q, x)' <=> In(cs, Call(q, x)) \/ Later(q, x)
      /\ \A q, x : Pending(q, x) <=> (q = "trial" /\ x = o) \/ Later(q, x)
      /\ \A q : Has(q)' <=> HasOp(cs, q) \/ HasOp(Tail(todo), q)
  BY <1>1, <1>2, Step DEF IInv
<1>5. /\ HasOp(Tail(todo), "scanAll") /\ HasOp(Tail(todo), "pop")
      /\ White = {} /\ Trialled = Grey
      /\ \A p \in Grey : \A x \in Object :
            Holds(p, x) => x \in Grey \/ Pending("trial", x) \/ Pending("grey", x)
      /\ \E pos \in [Object -> Int] : Ordered(pos) /\ \E K \in SUBSET Object : Kept(pos, K)
  BY <1>1, <1>3, MarkCall
<1>6. /\ Types' /\ Shape' /\ Lives' /\ Linked' /\ Born' /\ Unlinked'
      /\ \A x : Total(x)' = Total(x)
  <2>1. \A q : HasOp(cs, q) => After("trial") \subseteq After(q) /\ q \in MarkOps
    BY <1>2 DEF After, MarkOps
  <2>2. ref_count' \in [Object -> Int] /\ gc_color' \in [Object -> {"black", "grey", "white", "purple"}]
    BY <1>1 DEF IInv, Types
  <2>3. QED
    BY <1>1, <1>2, <1>3, <2>1, <2>2, CollectorStep
<1>7. Grey' = Grey /\ White' = White /\ Trialled' = Trialled /\ \A p, x : Holds(p, x)' <=> Holds(p, x)
  BY <1>1 DEF Grey, White, Trialled, Holds, heap
<1>8. Balance'
  BY <1>1, <1>2, <1>6, <1>7, trial_Balance DEF IInv, heap
<1>9. Colours' /\ Candidates' /\ Positions' /\ Coverage'
  <2>1. PICK pos \in [Object -> Int] : Ordered(pos) /\ \E K \in SUBSET Object : Kept(pos, K)
    BY <1>5
  <2>2. PICK K \in SUBSET Object : Kept(pos, K)
    BY <2>1
  <2>3. Ordered(pos)'
    BY <1>1, <2>1 DEF Ordered
  <2>4. Covers(K)'
    <3>1. \A S : ItemsClosed(S, Grey)' <=> ItemsClosed(S, Grey)
      BY <1>7 DEF ItemsClosed
    <3>2. \A x : Pending("grey", x)' \/ Pending("trial", x)' => Pending("grey", x) \/ Pending("trial", x)
      BY <1>2, <1>4
    <3>3. QED
      BY <1>7, <2>2, <3>1, <3>2 DEF Kept, Covers
  <2>5. Kept(pos, K)'
    BY <1>1, <1>2, <1>4, <2>2, <2>4, KeptOn
  <2>6. \A p \in Grey' : \A x \in Object :
            Holds(p, x)' => x \in Grey' \/ Pending("trial", x)' \/ Pending("grey", x)'
    BY <1>2, <1>4, <1>5, <1>7
  <2>7. QED
    BY <1>4, <1>5, <1>7, <2>3, <2>5, <2>6, MarkingList
<1>10. QED
  BY <1>6, <1>8, <1>9 DEF IInv, List

------------------------------------------------------------------------------
(* The collector: the scan and what follows it. *)

\* What is to be shown while the collector restores the counts.
LEMMA ScanningList ==
    ASSUME Has("pop")', ~Has("scanAll")',
           \A p \in Trialled' : \A x \in Object : Holds(p, x)' => gc_color'[x] # "purple",
           \A x \in Object : Pending("black", x)' => x \in Trialled',
           \A x \in Object : Pending("undo", x)' => gc_color'[x] # "purple",
           \A x \in Object : Pending("scanned", x)' => OnChain(x)',
           \A x \in Object : Pending("white", x)' => ~is_candidate(x)',
           GreyScanned', WhiteListed',
           \E pos \in [Object -> Int] : Ordered(pos)'
    PROVE  Colours' /\ Candidates' /\ Positions' /\ Coverage'
<1>1. ~Idle' /\ ~Marking' /\ Scanning'
  BY DEF Idle, Marking, Scanning
<1>2. Colours'
  BY <1>1 DEF Colours
<1>3. Candidates'
  BY <1>1 DEF Candidates
<1>4. Positions'
  BY <1>1 DEF Positions
<1>5. Coverage'
  BY <1>1 DEF Coverage
<1>6. QED
  BY <1>2, <1>3, <1>4, <1>5

\* What holds at a call of the second loop, and of the third one.
LEMMA ScanCall ==
    ASSUME IInv, NEW op \in ScanOps \cup {"pop"}, NEW o, todo # <<>>, Head(todo) = Call(op, o)
    PROVE  /\ ~HasOp(Tail(todo), "scanAll")
           /\ op \in ScanOps => HasOp(Tail(todo), "pop")
           /\ Pending(op, o)
           /\ \A p \in Trialled : \A x \in Object : Holds(p, x) => gc_color[x] # "purple"
           /\ \A x \in Object : Pending("black", x) => x \in Trialled
           /\ \A x \in Object : Pending("undo", x) => gc_color[x] # "purple"
           /\ \A x \in Object : Pending("scanned", x) => OnChain(x)
           /\ \A x \in Object : Pending("white", x) => ~is_candidate(x)
           /\ GreyScanned /\ WhiteListed
           /\ \E pos \in [Object -> Int] : Ordered(pos)
<1>1. ~HasOp(Tail(todo), "scanAll") /\ op # "scanAll" /\ (op \in ScanOps => HasOp(Tail(todo), "pop"))
  <2>1. "scanAll" \notin After(op)
    BY DEF After, ScanOps, Outside
  <2>2. QED
    BY <2>1, Following DEF IInv, ScanOps
<1>2. Scanning /\ Pending(op, o)
  BY <1>1, NowPending DEF IInv, Scanning
<1>3. QED
  BY <1>1, <1>2 DEF IInv, Colours, List, Positions, Coverage

\* The list reaches what it reached if no link changes.
LEMMA SameChain ==
    ASSUME UNCHANGED <<next, previous, gc_root>>
    PROVE  /\ \A x : OnChain(x)' <=> OnChain(x)
           /\ \A x : is_candidate(x)' <=> is_candidate(x)
           /\ \A S : NextClosed(S)' <=> NextClosed(S)
           /\ \A S : ChainClosed(S)' <=> ChainClosed(S)
BY DEF OnChain, ChainClosed, NextClosed, is_candidate

\* After the first loop nothing is white, and every grey object is reached from the
\* list.
LEMMA scan_candidates_Step ==
    ASSUME IInv, scan_candidates
    PROVE  IInv'
<1> DEFINE cs == IF gc_root = Nil THEN <<>> ELSE <<Call("scan", gc_root), Call("scanned", gc_root)>>
<1>1. /\ todo # <<>> /\ Head(todo) = Call("scanAll", Nil)
      /\ UNCHANGED heap /\ UNCHANGED <<ref_count, gc_color, next, previous, gc_root>>
      /\ Then(cs)
  BY CallingMeans DEF scan_candidates, list
<1>2. /\ cs \in Seq(Calls)
      /\ \A q, x : In(cs, Call(q, x)) <=> gc_root # Nil /\ x = gc_root /\ (q = "scan" \/ q = "scanned")
      /\ \A q : HasOp(cs, q) => q = "scan" \/ q = "scanned"
      /\ Follows(cs)
  <2>1. CASE gc_root = Nil
    BY <2>1, NoCalls
  <2>2. CASE gc_root # Nil
    <3>1. "scan" \in Op /\ "scanned" \in Op /\ gc_root \in Object \cup {Nil} /\ "scanned" \in After("scan")
      BY DEF Op, IInv, Types, After
    <3> DEFINE t == <<Call("scan", gc_root), Call("scanned", gc_root)>>
    <3>2. /\ t \in Seq(Calls)
          /\ \A q, x : In(t, Call(q, x)) <=> (q = "scan" /\ x = gc_root) \/ (q = "scanned" /\ x = gc_root)
          /\ \A q : HasOp(t, q) <=> q = "scan" \/ q = "scanned"
          /\ Follows(t)
      BY <3>1, TwoCalls
    <3>3. cs = t
      BY <2>2
    <3> HIDE DEF cs, t
    <3>4. QED
      BY <2>2, <3>2, <3>3
  <2>3. QED
    BY <2>1, <2>2
<1> HIDE DEF cs
<1>3. "scanAll" \in MarkOps \cup ScanOps \cup {"scanAll"} /\ "scanAll" \notin MarkOps
  BY DEF MarkOps
<1>4. /\ \A q, x : Pending(q, x)' <=> In(cs, Call(q, x)) \/ Later(q, x)
      /\ \A q, x : Pending(q, x) <=> (q = "scanAll" /\ x = Nil) \/ Later(q, x)
      /\ \A q : Has(q)' <=> HasOp(cs, q) \/ HasOp(Tail(todo), q)
      /\ \A q, x : Later(q, x) => q \in {"pop"} \cup Outside
      /\ \A q : HasOp(Tail(todo), q) => q \in {"pop"} \cup Outside
      /\ HasOp(Tail(todo), "pop")
  BY <1>1, <1>2, <1>3, Step DEF IInv, After
<1>5. Marking
  BY <1>1, NowPending DEF IInv, Marking
<1>6. /\ White = {} /\ Trialled = Grey
      /\ \A p \in Grey : \A x \in Object : Holds(p, x) => x \in Grey
      /\ \E pos \in [Object -> Int] : Ordered(pos) /\ \E K \in SUBSET Object : Kept(pos, K)
  <2>1. \A x \in Object : ~Pending("trial", x) /\ ~Pending("grey", x)
    BY <1>4 DEF Outside
  <2>2. QED
    BY <1>5, <2>1 DEF IInv, Colours, List, Positions, Trialled
<1>7. /\ Types' /\ Shape' /\ Lives' /\ Linked' /\ Born' /\ Unlinked'
      /\ \A x : Total(x)' = Total(x)
  <2>1. \A q : HasOp(cs, q) => After("scanAll") \subseteq After(q) /\ q \in ScanOps
    BY <1>2 DEF After, ScanOps
  <2>2. ref_count' \in [Object -> Int] /\ gc_color' \in [Object -> {"black", "grey", "white", "purple"}]
    BY <1>1 DEF IInv, Types
  <2>3. QED
    BY <1>1, <1>2, <1>3, <2>1, <2>2, CollectorStep
<1>8. Grey' = Grey /\ White' = White /\ Trialled' = Trialled /\ \A p, x : Holds(p, x)' <=> Holds(p, x)
  BY <1>1 DEF Grey, White, Trialled, Holds, heap
<1>9. Balance'
  BY <1>1, <1>2, <1>7, <1>8, NeutralBalance DEF IInv, heap
<1>10. Colours' /\ Candidates' /\ Positions' /\ Coverage'
  <2>1. /\ \A x : OnChain(x)' <=> OnChain(x)
        /\ \A S : NextClosed(S)' <=> NextClosed(S)
        /\ \A S : ChainClosed(S)' <=> ChainClosed(S)
    BY <1>1, SameChain
  <2>2. PICK pos \in [Object -> Int] : Ordered(pos) /\ \E K \in SUBSET Object : Kept(pos, K)
    BY <1>6
  <2>3. PICK K \in SUBSET Object : Kept(pos, K)
    BY <2>2
  <2>4. Ordered(pos)'
    BY <1>1, <2>2 DEF Ordered
  <2>5. /\ Has("pop")' /\ ~Has("scanAll")'
        /\ \A x \in Object : ~Pending("black", x)' /\ ~Pending("undo", x)' /\ ~Pending("white", x)'
        /\ \A x \in Object : Pending("scanned", x)' <=> x = gc_root
        /\ \A x \in Object : Pending("scan", x)' <=> x = gc_root
    BY <1>2, <1>4, NilIsNoObject DEF Outside
  <2>6. \A p \in Trialled' : \A x \in Object : Holds(p, x)' => gc_color'[x] # "purple"
    BY <1>1, <1>6, <1>8 DEF Grey
  <2>7. \A x \in Object : Pending("scanned", x)' => OnChain(x)'
    BY <2>1, <2>5, NilIsNoObject DEF OnChain, ChainClosed
  <2>8. GreyScanned'
    <3>1. ASSUME NEW R \in SUBSET Object, NEW S \in SUBSET Object,
                 R \subseteq S, NextClosed(R), ItemsClosed(S, Grey),
                 gc_root \in Object => gc_root \in S /\ (next[gc_root] # Nil => next[gc_root] \in R)
          PROVE  Grey \subseteq S
      <4> DEFINE T == IF gc_root = Nil THEN {} ELSE R \cup {gc_root}
      <4>1. gc_root \in Object \cup {Nil}
        BY DEF IInv, Types
      <4>2. T \in SUBSET Object /\ T \subseteq S /\ ChainClosed(T)
        BY <3>1, <4>1 DEF ChainClosed, NextClosed
      <4> HIDE DEF T
      <4>3. K \subseteq T
        BY <2>3, <4>2 DEF Kept, Listed, OnChain
      <4>4. K \subseteq S
        BY <4>2, <4>3
      <4>5. QED
        BY <2>3, <3>1, <4>4 DEF Kept, Covers
    <3>2. \A S : ItemsClosed(S, Grey)' <=> ItemsClosed(S, Grey)
      BY <1>8 DEF ItemsClosed
    <3>3. QED
      BY <1>1, <1>8, <2>1, <2>5, <3>1, <3>2 DEF GreyScanned
  <2>9. WhiteListed'
    <3>1. ASSUME NEW C \in SUBSET Object, NEW S \in SUBSET Object, C \subseteq S, ChainClosed(C)
          PROVE  White \subseteq S /\ (gc_root \in Object => gc_root \in S)
      BY <1>6, <3>1, NilIsNoObject DEF ChainClosed
    <3>2. QED
      BY <1>8, <2>1, <2>5, <3>1 DEF WhiteListed
  <2>10. QED
    BY <2>4, <2>5, <2>6, <2>7, <2>8, <2>9, ScanningList
<1>11. QED
  BY <1>7, <1>9, <1>10 DEF IInv, List

\* The second loop goes on with the element after the candidate.
LEMMA scan_next_Step ==
    ASSUME IInv, NEW o \in Object, scan_next(o)
    PROVE  IInv'
<1> DEFINE n == next[o]
           cs == IF n = Nil THEN <<>> ELSE <<Call("scan", n), Call("scanned", n)>>
<1>1. /\ todo # <<>> /\ Head(todo) = Call("scanned", o)
      /\ UNCHANGED heap /\ UNCHANGED <<ref_count, gc_color, next, previous, gc_root>>
      /\ Then(cs)
  BY CallingMeans DEF scan_next, list
<1>2. /\ cs \in Seq(Calls)
      /\ \A q, x : In(cs, Call(q, x)) <=> n # Nil /\ x = n /\ (q = "scan" \/ q = "scanned")
      /\ \A q : HasOp(cs, q) => q = "scan" \/ q = "scanned"
      /\ Follows(cs)
  <2>1. CASE n = Nil
    BY <2>1, NoCalls
  <2>2. CASE n # Nil
    <3>1. "scan" \in Op /\ "scanned" \in Op /\ n \in Object \cup {Nil} /\ "scanned" \in After("scan")
      BY DEF Op, IInv, Types, After
    <3> DEFINE t == <<Call("scan", n), Call("scanned", n)>>
    <3> HIDE DEF n
    <3>2. /\ t \in Seq(Calls)
          /\ \A q, x : In(t, Call(q, x)) <=> (q = "scan" /\ x = n) \/ (q = "scanned" /\ x = n)
          /\ \A q : HasOp(t, q) <=> q = "scan" \/ q = "scanned"
          /\ Follows(t)
      BY <3>1, TwoCalls
    <3>3. cs = t
      BY <2>2
    <3> HIDE DEF cs, t
    <3>4. QED
      BY <2>2, <3>2, <3>3
  <2>3. QED
    BY <2>1, <2>2
<1> HIDE DEF cs
<1>3. "scanned" \in ScanOps /\ "scanned" \notin MarkOps
  BY DEF ScanOps, MarkOps
<1>4. /\ \A q, x : Pending(q, x)' <=> In(cs, Call(q, x)) \/ Later(q, x)
      /\ \A q, x : Pending(q, x) <=> (q = "scanned" /\ x = o) \/ Later(q, x)
      /\ \A q : Has(q)' <=> HasOp(cs, q) \/ HasOp(Tail(todo), q)
      /\ \A q, x : Later(q, x) => q \in {"pop"} \cup Outside
  BY <1>1, <1>2, Step DEF IInv, After
<1>5. /\ ~HasOp(Tail(todo), "scanAll") /\ HasOp(Tail(todo), "pop")
      /\ \A p \in Trialled : \A x \in Object : Holds(p, x) => gc_color[x] # "purple"
      /\ OnChain(o)
      /\ GreyScanned /\ WhiteListed
      /\ \E pos \in [Object -> Int] : Ordered(pos)
  BY <1>1, <1>3, ScanCall
<1>6. /\ Types' /\ Shape' /\ Lives' /\ Linked' /\ Born' /\ Unlinked'
      /\ \A x : Total(x)' = Total(x)
  <2>1. \A q : HasOp(cs, q) => After("scanned") \subseteq After(q) /\ q \in ScanOps
    BY <1>2 DEF After, ScanOps
  <2>2. ref_count' \in [Object -> Int] /\ gc_color' \in [Object -> {"black", "grey", "white", "purple"}]
    BY <1>1 DEF IInv, Types
  <2>3. QED
    BY <1>1, <1>2, <1>3, <2>1, <2>2, CollectorStep
<1>7. Grey' = Grey /\ White' = White /\ Trialled' = Trialled /\ \A p, x : Holds(p, x)' <=> Holds(p, x)
  BY <1>1 DEF Grey, White, Trialled, Holds, heap
<1>8. Balance'
  BY <1>1, <1>2, <1>6, <1>7, NeutralBalance DEF IInv, heap
<1>9. Colours' /\ Candidates' /\ Positions' /\ Coverage'
  <2>1. /\ \A x : OnChain(x)' <=> OnChain(x)
        /\ \A S : NextClosed(S)' <=> NextClosed(S)
        /\ \A S : ChainClosed(S)' <=> ChainClosed(S)
    BY <1>1, SameChain
  <2>2. \E pos \in [Object -> Int] : Ordered(pos)'
    BY <1>1, <1>5 DEF Ordered
  <2>3. n \in Object \cup {Nil}
    BY DEF IInv, Types
  <2>4. /\ Has("pop")' /\ ~Has("scanAll")'
        /\ \A x \in Object : ~Pending("black", x)' /\ ~Pending("undo", x)' /\ ~Pending("white", x)'
        /\ \A x \in Object : Pending("scanned", x)' <=> x = n
        /\ \A x \in Object : Pending("scan", x)' <=> x = n
    BY <1>2, <1>4, <1>5, NilIsNoObject DEF Outside
  <2>5. /\ \A x \in Object : ~Pending("black", x) /\ ~Pending("undo", x) /\ ~Pending("white", x)
        /\ \A x \in Object : Pending("scanned", x) => x = o
        /\ \A x \in Object : ~Pending("scan", x)
    BY <1>4 DEF Outside
  <2>6. n \in Object => OnChain(n)
    BY <1>5, NilIsNoObject DEF OnChain, ChainClosed, NextClosed
  <2>7. \A p \in Trialled' : \A x \in Object : Holds(p, x)' => gc_color'[x] # "purple"
    BY <1>1, <1>5, <1>7
  <2>8. \A x \in Object : Pending("scanned", x)' => OnChain(x)'
    BY <2>1, <2>4, <2>6
  <2>9. GreyScanned'
    <3>1. ASSUME NEW R \in SUBSET Object, NEW S \in SUBSET Object,
                 R \subseteq S, NextClosed(R), ItemsClosed(S, Grey),
                 n \in Object => n \in S /\ (next[n] # Nil => next[n] \in R)
          PROVE  Grey \subseteq S
      <4> DEFINE T == IF n = Nil THEN R ELSE R \cup {n}
      <4>1. T \in SUBSET Object /\ T \subseteq S /\ NextClosed(T)
        BY <2>3, <3>1 DEF NextClosed
      <4>2. n # Nil => n \in T
        OBVIOUS
      <4> HIDE DEF T
      <4>3. \A c \in Object : Pending("scanned", c) /\ next[c] # Nil => next[c] \in T
        BY <2>5, <4>2
      <4>4. QED
        BY <1>5, <2>5, <3>1, <4>1, <4>3 DEF GreyScanned
    <3>2. \A S : ItemsClosed(S, Grey)' <=> ItemsClosed(S, Grey)
      BY <1>7 DEF ItemsClosed
    <3> HIDE DEF n
    <3>3. QED
      BY <1>1, <1>7, <2>1, <2>4, <3>1, <3>2 DEF GreyScanned
  <2>10. WhiteListed'
    <3>1. ASSUME NEW C \in SUBSET Object, NEW S \in SUBSET Object, C \subseteq S, ChainClosed(C),
                 ItemsClosed(S, White)
          PROVE  White \subseteq S /\ (n \in Object => n \in S)
      <4>1. White \subseteq S
        BY <1>5, <2>5, <3>1 DEF WhiteListed
      <4>2. n \in Object => n \in S
        BY <2>6, <3>1 DEF OnChain
      <4>3. QED
        BY <4>1, <4>2
    <3>2. \A S : ItemsClosed(S, White)' <=> ItemsClosed(S, White)
      BY <1>7 DEF ItemsClosed
    <3> HIDE DEF n
    <3>3. QED
      BY <1>7, <2>1, <2>4, <3>1, <3>2 DEF WhiteListed
  <2>11. QED
    BY <2>2, <2>4, <2>7, <2>8, <2>9, <2>10, ScanningList
<1>10. QED
  BY <1>6, <1>8, <1>9 DEF IInv, List

\* scan does nothing on an object that is not grey.
LEMMA scan_other_Step ==
    ASSUME IInv, NEW o \in Object, scan(o), gc_color[o] # "grey"
    PROVE  IInv'
<1> DEFINE cs == <<>>
<1>1. /\ todo # <<>> /\ Head(todo) = Call("scan", o)
      /\ UNCHANGED heap /\ UNCHANGED <<ref_count, gc_color, next, previous, gc_root>>
      /\ Then(cs)
  BY CallingMeans DEF scan, list
<1>2. cs \in Seq(Calls) /\ (\A c : ~In(cs, c)) /\ (\A q : ~HasOp(cs, q)) /\ Follows(cs)
  BY NoCalls
<1> HIDE DEF cs
<1>3. "scan" \in ScanOps
  BY DEF ScanOps
<1>4. /\ \A q, x : Pending(q, x)' <=> Later(q, x)
      /\ \A q, x : Pending(q, x) <=> (q = "scan" /\ x = o) \/ Later(q, x)
      /\ \A q : Has(q)' <=> HasOp(Tail(todo), q)
  BY <1>1, <1>2, Step DEF IInv
<1>5. /\ ~HasOp(Tail(todo), "scanAll") /\ HasOp(Tail(todo), "pop")
      /\ \A p \in Trialled : \A x \in Object : Holds(p, x) => gc_color[x] # "purple"
      /\ \A x \in Object : Pending("black", x) => x \in Trialled
      /\ \A x \in Object : Pending("undo", x) => gc_color[x] # "purple"
      /\ \A x \in Object : Pending("scanned", x) => OnChain(x)
      /\ \A x \in Object : Pending("white", x) => ~is_candidate(x)
      /\ GreyScanned /\ WhiteListed
      /\ \E pos \in [Object -> Int] : Ordered(pos)
  BY <1>1, <1>3, ScanCall
<1>6. /\ Types' /\ Shape' /\ Lives' /\ Linked' /\ Born' /\ Unlinked'
      /\ \A x : Total(x)' = Total(x)
  BY <1>1, <1>2, <1>3, CollectorStep DEF IInv, Types
<1>7. Grey' = Grey /\ White' = White /\ Trialled' = Trialled /\ \A p, x : Holds(p, x)' <=> Holds(p, x)
  BY <1>1 DEF Grey, White, Trialled, Holds, heap
<1>8. Balance'
  BY <1>1, <1>2, <1>6, <1>7, NeutralBalance DEF IInv, heap
<1>9. Colours' /\ Candidates' /\ Positions' /\ Coverage'
  <2>1. /\ \A x : OnChain(x)' <=> OnChain(x)
        /\ \A x : is_candidate(x)' <=> is_candidate(x)
        /\ \A S : NextClosed(S)' <=> NextClosed(S)
        /\ \A S : ChainClosed(S)' <=> ChainClosed(S)
    BY <1>1, SameChain
  <2>2. \A C, S : ItemsClosed(S, C) <=> \A p \in S \cap C : \A x \in Object : Holds(p, x) => x \in S
    BY DEF ItemsClosed
  <2>3. \A S : (ItemsClosed(S, Grey)' <=> ItemsClosed(S, Grey)) /\ (ItemsClosed(S, White)' <=> ItemsClosed(S, White))
    BY <1>7 DEF ItemsClosed
  <2>4. GreyScanned'
    <3>1. ASSUME NEW R \in SUBSET Object, NEW S \in SUBSET Object,
                 R \subseteq S, NextClosed(R), ItemsClosed(S, Grey),
                 \A c \in Object : Later("scanned", c) /\ next[c] # Nil => next[c] \in R,
                 \A x \in Object : Later("scan", x) \/ Later("black", x) \/ Later("undo", x) => x \in S
          PROVE  Grey \subseteq S
      <4> DEFINE T == S \cup {o}
      <4>1. T \in SUBSET Object /\ R \subseteq T /\ ItemsClosed(T, Grey)
        BY <3>1 DEF ItemsClosed, Grey
      <4>2. \A x \in Object : Pending("scan", x) \/ Pending("black", x) \/ Pending("undo", x) => x \in T
        BY <1>4, <3>1
      <4>3. \A c \in Object : Pending("scanned", c) /\ next[c] # Nil => next[c] \in R
        BY <1>4, <3>1
      <4> HIDE DEF T
      <4>4. Grey \subseteq T
        BY <1>5, <3>1, <4>1, <4>2, <4>3 DEF GreyScanned
      <4>5. QED
        BY <4>4 DEF T, Grey
    <3>2. QED
      BY <1>1, <1>4, <1>7, <2>1, <2>3, <3>1 DEF GreyScanned
  <2>5. WhiteListed'
    BY <1>1, <1>4, <1>5, <1>7, <2>1, <2>3 DEF WhiteListed
  <2>6. /\ Has("pop")' /\ ~Has("scanAll")'
        /\ \A p \in Trialled' : \A x \in Object : Holds(p, x)' => gc_color'[x] # "purple"
        /\ \A x \in Object : Pending("black", x)' => x \in Trialled'
        /\ \A x \in Object : Pending("undo", x)' => gc_color'[x] # "purple"
        /\ \A x \in Object : Pending("scanned", x)' => OnChain(x)'
        /\ \A x \in Object : Pending("white", x)' => ~is_candidate(x)'
    BY <1>1, <1>4, <1>5, <1>7, <2>1
  <2>7. \E pos \in [Object -> Int] : Ordered(pos)'
    BY <1>1, <1>5 DEF Ordered
  <2>8. QED
    BY <2>4, <2>5, <2>6, <2>7, ScanningList
<1>10. QED
  BY <1>6, <1>8, <1>9 DEF IInv, List

\* An object that is referred to from elsewhere is to be restored.
LEMMA scan_live_Step ==
    ASSUME IInv, NEW o \in Object, scan(o), gc_color[o] = "grey", ref_count[o] > 0
    PROVE  IInv'
<1> DEFINE cs == <<Call("black", o)>>
<1>1. /\ todo # <<>> /\ Head(todo) = Call("scan", o)
      /\ UNCHANGED heap /\ UNCHANGED <<ref_count, gc_color, next, previous, gc_root>>
      /\ Then(cs)
  BY CallingMeans DEF scan, list
<1>2. /\ cs \in Seq(Calls)
      /\ \A q, x : In(cs, Call(q, x)) <=> q = "black" /\ x = o
      /\ \A q : HasOp(cs, q) <=> q = "black"
      /\ Follows(cs)
  <2>1. "black" \in Op
    BY DEF Op
  <2>2. QED
    BY <2>1, OneCall
<1> HIDE DEF cs
<1>3. "scan" \in ScanOps /\ "scan" \notin MarkOps
  BY DEF ScanOps, MarkOps
<1>4. /\ \A q, x : Pending(q, x)' <=> In(cs, Call(q, x)) \/ Later(q, x)
      /\ \A q, x : Pending(q, x) <=> (q = "scan" /\ x = o) \/ Later(q, x)
      /\ \A q : Has(q)' <=> HasOp(cs, q) \/ HasOp(Tail(todo), q)
  BY <1>1, <1>2, Step DEF IInv
<1>5. /\ ~HasOp(Tail(todo), "scanAll") /\ HasOp(Tail(todo), "pop")
      /\ \A p \in Trialled : \A x \in Object : Holds(p, x) => gc_color[x] # "purple"
      /\ \A x \in Object : Pending("black", x) => x \in Trialled
      /\ \A x \in Object : Pending("undo", x) => gc_color[x] # "purple"
      /\ \A x \in Object : Pending("scanned", x) => OnChain(x)
      /\ \A x \in Object : Pending("white", x) => ~is_candidate(x)
      /\ GreyScanned /\ WhiteListed
      /\ \E pos \in [Object -> Int] : Ordered(pos)
  BY <1>1, <1>3, ScanCall
<1>6. /\ Types' /\ Shape' /\ Lives' /\ Linked' /\ Born' /\ Unlinked'
      /\ \A x : Total(x)' = Total(x)
  <2>1. \A q : HasOp(cs, q) => After("scan") \subseteq After(q) /\ q \in ScanOps
    BY <1>2 DEF After, ScanOps
  <2>2. ref_count' \in [Object -> Int] /\ gc_color' \in [Object -> {"black", "grey", "white", "purple"}]
    BY <1>1 DEF IInv, Types
  <2>3. QED
    BY <1>1, <1>2, <1>3, <2>1, <2>2, CollectorStep
<1>7. Grey' = Grey /\ White' = White /\ Trialled' = Trialled /\ \A p, x : Holds(p, x)' <=> Holds(p, x)
  BY <1>1 DEF Grey, White, Trialled, Holds, heap
<1>8. Balance'
  BY <1>1, <1>2, <1>6, <1>7, NeutralBalance DEF IInv, heap
<1>9. Colours' /\ Candidates' /\ Positions' /\ Coverage'
  <2>1. /\ \A x : OnChain(x)' <=> OnChain(x)
        /\ \A x : is_candidate(x)' <=> is_candidate(x)
        /\ \A S : NextClosed(S)' <=> NextClosed(S)
        /\ \A S : ChainClosed(S)' <=> ChainClosed(S)
    BY <1>1, SameChain
  <2>2. \A S : (ItemsClosed(S, Grey)' <=> ItemsClosed(S, Grey)) /\ (ItemsClosed(S, White)' <=> ItemsClosed(S, White))
    BY <1>7 DEF ItemsClosed
  <2>3. /\ \A x : Pending("black", x)' <=> x = o \/ Later("black", x)
        /\ \A q, x : q # "black" => (Pending(q, x)' <=> Later(q, x))
    BY <1>2, <1>4
  <2>4. GreyScanned'
    <3>1. ASSUME NEW S, \A x \in Object : Pending("scan", x)' \/ Pending("black", x)' \/ Pending("undo", x)' => x \in S
          PROVE  \A x \in Object : Pending("scan", x) \/ Pending("black", x) \/ Pending("undo", x) => x \in S
      BY <1>4, <2>3, <3>1
    <3>2. \A c : Pending("scanned", c) => Pending("scanned", c)'
      BY <1>4, <2>3
    <3>3. QED
      BY <1>1, <1>5, <1>7, <2>1, <2>2, <3>1, <3>2 DEF GreyScanned
  <2>5. WhiteListed'
    <3>1. ASSUME NEW S, \A x \in Object : Pending("white", x)' \/ Pending("black", x)' \/ Pending("undo", x)' => x \in S
          PROVE  \A x \in Object : Pending("white", x) \/ Pending("black", x) \/ Pending("undo", x) => x \in S
      BY <1>4, <2>3, <3>1
    <3>2. \A x : Pending("scan", x)' => Pending("scan", x)
      BY <1>4, <2>3
    <3>3. QED
      BY <1>1, <1>5, <1>7, <2>1, <2>2, <3>1, <3>2 DEF WhiteListed
  <2>6. /\ Has("pop")' /\ ~Has("scanAll")'
        /\ \A p \in Trialled' : \A x \in Object : Holds(p, x)' => gc_color'[x] # "purple"
        /\ \A x \in Object : Pending("undo", x)' => gc_color'[x] # "purple"
        /\ \A x \in Object : Pending("scanned", x)' => OnChain(x)'
        /\ \A x \in Object : Pending("white", x)' => ~is_candidate(x)'
    BY <1>1, <1>2, <1>4, <1>5, <1>7, <2>1, <2>3
  <2>7. \A x \in Object : Pending("black", x)' => x \in Trialled'
    <3>1. o \in Trialled
      BY DEF Trialled, Grey
    <3>2. QED
      BY <1>4, <1>5, <1>7, <2>3, <3>1
  <2>8. \E pos \in [Object -> Int] : Ordered(pos)'
    BY <1>1, <1>5 DEF Ordered
  <2>9. QED
    BY <2>4, <2>5, <2>6, <2>7, <2>8, ScanningList
<1>10. QED
  BY <1>6, <1>8, <1>9 DEF IInv, List

\* An object that only the grey ones refer to may be garbage.
LEMMA scan_white_Step ==
    ASSUME IInv, NEW o \in Object, scan(o), gc_color[o] = "grey", ~(ref_count[o] > 0)
    PROVE  IInv'
<1> DEFINE cs == OnItems("scan", o)
<1>1. /\ todo # <<>> /\ Head(todo) = Call("scan", o)
      /\ UNCHANGED heap /\ UNCHANGED <<ref_count, next, previous, gc_root>>
      /\ gc_color' = [gc_color EXCEPT ![o] = "white"]
      /\ Then(cs)
  BY CallingMeans DEF scan, list
<1>2. /\ cs \in Seq(Calls)
      /\ \A q, x : In(cs, Call(q, x)) <=> q = "scan" /\ Holds(o, x)
      /\ \A q : HasOp(cs, q) => q = "scan"
      /\ Follows(cs)
  <2>1. "scan" \in Op /\ "scan" \in After("scan")
    BY DEF Op, After
  <2>2. QED
    BY <2>1, InOnItems, FollowsOnItems DEF IInv
<1> HIDE DEF cs
<1>3. "scan" \in ScanOps /\ "scan" \notin MarkOps
  BY DEF ScanOps, MarkOps
<1>4. /\ \A q, x : Pending(q, x)' <=> In(cs, Call(q, x)) \/ Later(q, x)
      /\ \A q, x : Pending(q, x) <=> (q = "scan" /\ x = o) \/ Later(q, x)
      /\ \A q : Has(q)' <=> HasOp(cs, q) \/ HasOp(Tail(todo), q)
  BY <1>1, <1>2, Step DEF IInv
<1>5. /\ ~HasOp(Tail(todo), "scanAll") /\ HasOp(Tail(todo), "pop")
      /\ \A p \in Trialled : \A x \in Object : Holds(p, x) => gc_color[x] # "purple"
      /\ \A x \in Object : Pending("black", x) => x \in Trialled
      /\ \A x \in Object : Pending("undo", x) => gc_color[x] # "purple"
      /\ \A x \in Object : Pending("scanned", x) => OnChain(x)
      /\ \A x \in Object : Pending("white", x) => ~is_candidate(x)
      /\ GreyScanned /\ WhiteListed
      /\ \E pos \in [Object -> Int] : Ordered(pos)
  BY <1>1, <1>3, ScanCall
<1>6. /\ gc_color' \in [Object -> {"black", "grey", "white", "purple"}]
      /\ \A x \in Object : gc_color'[x] = IF x = o THEN "white" ELSE gc_color[x]
      /\ Grey' = Grey \ {o} /\ White' = White \cup {o} /\ Trialled' = Trialled
      /\ o \in Grey /\ o \notin White
      /\ \A p, x : Holds(p, x)' <=> Holds(p, x)
  <2>1. gc_color \in [Object -> {"black", "grey", "white", "purple"}]
    BY DEF IInv, Types
  <2>2. /\ gc_color' \in [Object -> {"black", "grey", "white", "purple"}]
        /\ \A x \in Object : gc_color'[x] = IF x = o THEN "white" ELSE gc_color[x]
    BY <1>1, <2>1
  <2>3. Grey' = Grey \ {o} /\ White' = White \cup {o} /\ o \in Grey /\ o \notin White
    BY <2>2 DEF Grey, White
  <2>4. \A p, x : Holds(p, x)' <=> Holds(p, x)
    BY <1>1 DEF Holds, heap
  <2>5. QED
    BY <2>2, <2>3, <2>4 DEF Trialled
<1>7. /\ Types' /\ Shape' /\ Lives' /\ Linked' /\ Born' /\ Unlinked'
      /\ \A x : Total(x)' = Total(x)
  <2>1. \A q : HasOp(cs, q) => After("scan") \subseteq After(q) /\ q \in ScanOps
    BY <1>2 DEF After, ScanOps
  <2>2. ref_count' \in [Object -> Int]
    BY <1>1 DEF IInv, Types
  <2>3. QED
    BY <1>1, <1>2, <1>3, <1>6, <2>1, <2>2, CollectorStep
<1>8. Balance'
  BY <1>1, <1>2, <1>6, <1>7, NeutralBalance DEF IInv, heap
<1>9. Colours' /\ Candidates' /\ Positions' /\ Coverage'
  <2>1. /\ \A x : OnChain(x)' <=> OnChain(x)
        /\ \A x : is_candidate(x)' <=> is_candidate(x)
        /\ \A S : NextClosed(S)' <=> NextClosed(S)
        /\ \A S : ChainClosed(S)' <=> ChainClosed(S)
    BY <1>1, SameChain
  <2>2. \A S : /\ ItemsClosed(S, Grey)' <=> ItemsClosed(S, Grey \ {o})
               /\ ItemsClosed(S, White)' <=> ItemsClosed(S, White \cup {o})
    BY <1>6 DEF ItemsClosed
  <2>3. /\ \A x : Pending("scan", x)' <=> Holds(o, x) \/ Later("scan", x)
        /\ \A q, x : q # "scan" => (Pending(q, x)' <=> Pending(q, x))
    BY <1>2, <1>4
  <2>4. GreyScanned'
    <3>1. ASSUME NEW R \in SUBSET Object, NEW S \in SUBSET Object,
                 R \subseteq S, NextClosed(R), ItemsClosed(S, Grey \ {o}),
                 \A c \in Object : Pending("scanned", c)' /\ next[c] # Nil => next[c] \in R,
                 \A x \in Object : Pending("scan", x)' \/ Pending("black", x)' \/ Pending("undo", x)' => x \in S
          PROVE  Grey \ {o} \subseteq S
      <4> DEFINE T == S \cup {o}
      <4>1. T \in SUBSET Object /\ R \subseteq T /\ ItemsClosed(T, Grey)
        BY <2>3, <3>1 DEF ItemsClosed
      <4>2. \A x \in Object : Pending("scan", x) \/ Pending("black", x) \/ Pending("undo", x) => x \in T
        BY <1>4, <2>3, <3>1
      <4>3. \A c \in Object : Pending("scanned", c) /\ next[c] # Nil => next[c] \in R
        BY <2>3, <3>1
      <4> HIDE DEF T
      <4>4. Grey \subseteq T
        BY <1>5, <3>1, <4>1, <4>2, <4>3 DEF GreyScanned
      <4>5. QED
        BY <4>4 DEF T
    <3>2. QED
      BY <1>1, <1>6, <2>1, <2>2, <3>1 DEF GreyScanned
  <2>5. WhiteListed'
    <3>1. ASSUME NEW C \in SUBSET Object, NEW S \in SUBSET Object,
                 C \subseteq S, ChainClosed(C), ItemsClosed(S, White \cup {o}),
                 \A x \in Object : Pending("white", x) \/ Pending("black", x) \/ Pending("undo", x) => x \in S
          PROVE  /\ White \cup {o} \subseteq S
                 /\ \A x \in Object : Pending("scan", x)' => x \in S \/ gc_color'[x] = "black"
      <4>1. ItemsClosed(S, White)
        BY <3>1 DEF ItemsClosed
      <4>2. White \subseteq S /\ \A x \in Object : Pending("scan", x) => x \in S \/ gc_color[x] = "black"
        BY <1>5, <3>1, <4>1 DEF WhiteListed
      <4>3. o \in S
        BY <1>4, <4>2
      <4>4. \A x \in Object : Holds(o, x) => x \in S
        BY <3>1, <4>3 DEF ItemsClosed
      <4>5. \A x \in Object : Later("scan", x) => x \in S \/ gc_color'[x] = "black"
        BY <1>4, <1>6, <4>2, <4>3
      <4>6. QED
        BY <2>3, <4>2, <4>3, <4>4, <4>5
    <3>2. QED
      BY <1>6, <2>1, <2>2, <2>3, <3>1 DEF WhiteListed
  <2>6. /\ Has("pop")' /\ ~Has("scanAll")'
        /\ \A p \in Trialled' : \A x \in Object : Holds(p, x)' => gc_color'[x] # "purple"
        /\ \A x \in Object : Pending("black", x)' => x \in Trialled'
        /\ \A x \in Object : Pending("undo", x)' => gc_color'[x] # "purple"
        /\ \A x \in Object : Pending("scanned", x)' => OnChain(x)'
        /\ \A x \in Object : Pending("white", x)' => ~is_candidate(x)'
    BY <1>2, <1>4, <1>5, <1>6, <2>1, <2>3
  <2>7. \E pos \in [Object -> Int] : Ordered(pos)'
    BY <1>1, <1>5 DEF Ordered
  <2>8. QED
    BY <2>4, <2>5, <2>6, <2>7, ScanningList
<1>10. QED
  BY <1>7, <1>8, <1>9 DEF IInv, List

\* scan_black: what the object refers to is to be given back.
LEMMA scan_black_Step ==
    ASSUME IInv, NEW o \in Object, scan_black(o)
    PROVE  IInv'
<1> DEFINE cs == OnItems("undo", o)
<1>1. /\ todo # <<>> /\ Head(todo) = Call("black", o)
      /\ UNCHANGED heap /\ UNCHANGED <<ref_count, next, previous, gc_root>>
      /\ gc_color' = [gc_color EXCEPT ![o] = "black"]
      /\ Then(cs)
  BY CallingMeans DEF scan_black, list
<1>2. /\ cs \in Seq(Calls)
      /\ \A q, x : In(cs, Call(q, x)) <=> q = "undo" /\ Holds(o, x)
      /\ \A q : HasOp(cs, q) => q = "undo"
      /\ Follows(cs)
  <2>1. "undo" \in Op /\ "undo" \in After("undo")
    BY DEF Op, After
  <2>2. QED
    BY <2>1, InOnItems, FollowsOnItems DEF IInv
<1>3. "black" \in ScanOps /\ "black" \notin MarkOps
  BY DEF ScanOps, MarkOps
<1>5. /\ ~HasOp(Tail(todo), "scanAll") /\ HasOp(Tail(todo), "pop")
      /\ \A p \in Trialled : \A x \in Object : Holds(p, x) => gc_color[x] # "purple"
      /\ \A x \in Object : Pending("black", x) => x \in Trialled
      /\ \A x \in Object : Pending("undo", x) => gc_color[x] # "purple"
      /\ \A x \in Object : Pending("scanned", x) => OnChain(x)
      /\ \A x \in Object : Pending("white", x) => ~is_candidate(x)
      /\ GreyScanned /\ WhiteListed
      /\ \E pos \in [Object -> Int] : Ordered(pos)
  BY <1>1, <1>3, ScanCall
<1>6. /\ gc_color' \in [Object -> {"black", "grey", "white", "purple"}]
      /\ \A x \in Object : gc_color'[x] = IF x = o THEN "black" ELSE gc_color[x]
      /\ Grey' = Grey \ {o} /\ White' = White \ {o} /\ Trialled' = Trialled \ {o}
      /\ o \in Trialled
      /\ \A p, x : Holds(p, x)' <=> Holds(p, x)
  <2>1. gc_color \in [Object -> {"black", "grey", "white", "purple"}]
    BY DEF IInv, Types
  <2>2. /\ gc_color' \in [Object -> {"black", "grey", "white", "purple"}]
        /\ \A x \in Object : gc_color'[x] = IF x = o THEN "black" ELSE gc_color[x]
    BY <1>1, <2>1
  <2>3. Grey' = Grey \ {o} /\ White' = White \ {o}
    BY <2>2 DEF Grey, White
  <2>4. \A p, x : Holds(p, x)' <=> Holds(p, x)
    BY <1>1 DEF Holds, heap
  <2>5. o \in Trialled
    <3>1. Pending("black", o)
      BY <1>1, NowPending DEF IInv
    <3>2. QED
      BY <1>5, <3>1
  <2>6. QED
    BY <2>2, <2>3, <2>4, <2>5 DEF Trialled
<1>7. /\ Types' /\ Shape' /\ Lives' /\ Linked' /\ Born' /\ Unlinked'
      /\ \A x : Total(x)' = Total(x)
  <2>1. \A q : HasOp(cs, q) => After("black") \subseteq After(q) /\ q \in ScanOps
    BY <1>2 DEF After, ScanOps
  <2>2. ref_count' \in [Object -> Int]
    BY <1>1 DEF IInv, Types
  <2> HIDE DEF cs
  <2>3. QED
    BY <1>1, <1>2, <1>3, <1>6, <2>1, <2>2, CollectorStep
<1>8. Balance'
  BY <1>1, <1>6, <1>7, scan_black_Balance DEF IInv, heap
<1> HIDE DEF cs
<1>4. /\ \A q, x : Pending(q, x)' <=> In(cs, Call(q, x)) \/ Later(q, x)
      /\ \A q, x : Pending(q, x) <=> (q = "black" /\ x = o) \/ Later(q, x)
      /\ \A q : Has(q)' <=> HasOp(cs, q) \/ HasOp(Tail(todo), q)
      /\ \A x : ~Later("black", x)
  BY <1>1, <1>2, Step DEF IInv, After, Outside
<1>9. Colours' /\ Candidates' /\ Positions' /\ Coverage'
  <2>1. /\ \A x : OnChain(x)' <=> OnChain(x)
        /\ \A x : is_candidate(x)' <=> is_candidate(x)
        /\ \A S : NextClosed(S)' <=> NextClosed(S)
        /\ \A S : ChainClosed(S)' <=> ChainClosed(S)
    BY <1>1, SameChain
  <2>2. \A S : /\ ItemsClosed(S, Grey)' <=> ItemsClosed(S, Grey \ {o})
               /\ ItemsClosed(S, White)' <=> ItemsClosed(S, White \ {o})
    BY <1>6 DEF ItemsClosed
  <2>3. /\ \A x : Pending("undo", x)' <=> Holds(o, x) \/ Later("undo", x)
        /\ \A x : ~Pending("black", x)'
        /\ \A q, x : q \notin {"black", "undo"} => (Pending(q, x)' <=> Pending(q, x))
    BY <1>2, <1>4
  <2>4. GreyScanned'
    <3>1. ASSUME NEW R \in SUBSET Object, NEW S \in SUBSET Object,
                 R \subseteq S, NextClosed(R), ItemsClosed(S, Grey \ {o}),
                 \A c \in Object : Pending("scanned", c)' /\ next[c] # Nil => next[c] \in R,
                 \A x \in Object : Pending("scan", x)' \/ Pending("black", x)' \/ Pending("undo", x)' => x \in S
          PROVE  Grey \ {o} \subseteq S
      <4> DEFINE T == S \cup {o}
      <4>1. T \in SUBSET Object /\ R \subseteq T /\ ItemsClosed(T, Grey)
        BY <2>3, <3>1 DEF ItemsClosed
      <4>2. \A x \in Object : Pending("scan", x) \/ Pending("black", x) \/ Pending("undo", x) => x \in T
        BY <1>4, <2>3, <3>1
      <4>3. \A c \in Object : Pending("scanned", c) /\ next[c] # Nil => next[c] \in R
        BY <2>3, <3>1
      <4> HIDE DEF T
      <4>4. Grey \subseteq T
        BY <1>5, <3>1, <4>1, <4>2, <4>3 DEF GreyScanned
      <4>5. QED
        BY <4>4 DEF T
    <3>2. QED
      BY <1>1, <1>6, <2>1, <2>2, <3>1 DEF GreyScanned
  <2>5. WhiteListed'
    <3>1. ASSUME NEW C \in SUBSET Object, NEW S \in SUBSET Object,
                 C \subseteq S, ChainClosed(C), ItemsClosed(S, White \ {o}),
                 \A x \in Object : Pending("white", x)' \/ Pending("black", x)' \/ Pending("undo", x)' => x \in S
          PROVE  /\ White \ {o} \subseteq S
                 /\ \A x \in Object : Pending("scan", x)' => x \in S \/ gc_color'[x] = "black"
      <4> DEFINE T == S \cup {o}
      <4>1. T \in SUBSET Object /\ C \subseteq T /\ ItemsClosed(T, White)
        BY <2>3, <3>1 DEF ItemsClosed
      <4>2. \A x \in Object : Pending("white", x) \/ Pending("black", x) \/ Pending("undo", x) => x \in T
        BY <1>4, <2>3, <3>1
      <4> HIDE DEF T
      <4>3. White \subseteq T /\ \A x \in Object : Pending("scan", x) => x \in T \/ gc_color[x] = "black"
        BY <1>5, <3>1, <4>1, <4>2 DEF WhiteListed
      <4>4. QED
        BY <1>6, <2>3, <4>3 DEF T
    <3>2. QED
      BY <1>6, <2>1, <2>2, <3>1 DEF WhiteListed
  <2>6. /\ Has("pop")' /\ ~Has("scanAll")'
        /\ \A p \in Trialled' : \A x \in Object : Holds(p, x)' => gc_color'[x] # "purple"
        /\ \A x \in Object : Pending("black", x)' => x \in Trialled'
        /\ \A x \in Object : Pending("scanned", x)' => OnChain(x)'
        /\ \A x \in Object : Pending("white", x)' => ~is_candidate(x)'
    BY <1>2, <1>4, <1>5, <1>6, <2>1, <2>3
  <2>7. \A x \in Object : Pending("undo", x)' => gc_color'[x] # "purple"
    BY <1>4, <1>5, <1>6, <2>3
  <2>8. \E pos \in [Object -> Int] : Ordered(pos)'
    BY <1>1, <1>5 DEF Ordered
  <2>9. QED
    BY <2>4, <2>5, <2>6, <2>7, <2>8, ScanningList
<1>10. QED
  BY <1>7, <1>8, <1>9 DEF IInv, List

\* The trial deletion of one reference undone, for an object that is not black;
LEMMA undo_Step ==
    ASSUME IInv, NEW o \in Object, undo_trial_deletion(o), gc_color[o] # "black"
    PROVE  IInv'
<1> DEFINE cs == <<Call("black", o)>>
<1>1. /\ todo # <<>> /\ Head(todo) = Call("undo", o)
      /\ UNCHANGED heap /\ UNCHANGED <<gc_color, next, previous, gc_root>>
      /\ ref_count' = [ref_count EXCEPT ![o] = @ + 1]
      /\ Then(cs)
  BY CallingMeans DEF undo_trial_deletion, list
<1>2. /\ cs \in Seq(Calls)
      /\ \A q, x : In(cs, Call(q, x)) <=> q = "black" /\ x = o
      /\ \A q : HasOp(cs, q) <=> q = "black"
      /\ Follows(cs)
  <2>1. "black" \in Op
    BY DEF Op
  <2>2. QED
    BY <2>1, OneCall
<1> HIDE DEF cs
<1>3. "undo" \in ScanOps /\ "undo" \notin MarkOps
  BY DEF ScanOps, MarkOps
<1>4. /\ \A q, x : Pending(q, x)' <=> In(cs, Call(q, x)) \/ Later(q, x)
      /\ \A q, x : Pending(q, x) <=> (q = "undo" /\ x = o) \/ Later(q, x)
      /\ \A q : Has(q)' <=> HasOp(cs, q) \/ HasOp(Tail(todo), q)
  BY <1>1, <1>2, Step DEF IInv
<1>5. /\ ~HasOp(Tail(todo), "scanAll") /\ HasOp(Tail(todo), "pop")
      /\ \A p \in Trialled : \A x \in Object : Holds(p, x) => gc_color[x] # "purple"
      /\ \A x \in Object : Pending("black", x) => x \in Trialled
      /\ \A x \in Object : Pending("undo", x) => gc_color[x] # "purple"
      /\ \A x \in Object : Pending("scanned", x) => OnChain(x)
      /\ \A x \in Object : Pending("white", x) => ~is_candidate(x)
      /\ GreyScanned /\ WhiteListed
      /\ \E pos \in [Object -> Int] : Ordered(pos)
  BY <1>1, <1>3, ScanCall
<1>6. /\ Types' /\ Shape' /\ Lives' /\ Linked' /\ Born' /\ Unlinked'
      /\ \A x : Total(x)' = Total(x)
  <2>1. \A q : HasOp(cs, q) => After("undo") \subseteq After(q) /\ q \in ScanOps
    BY <1>2 DEF After, ScanOps
  <2>2. ref_count' \in [Object -> Int] /\ gc_color' \in [Object -> {"black", "grey", "white", "purple"}]
    BY <1>1 DEF IInv, Types
  <2>3. QED
    BY <1>1, <1>2, <1>3, <2>1, <2>2, CollectorStep
<1>7. Grey' = Grey /\ White' = White /\ Trialled' = Trialled /\ \A p, x : Holds(p, x)' <=> Holds(p, x)
  BY <1>1 DEF Grey, White, Trialled, Holds, heap
<1>8. Balance'
  BY <1>1, <1>2, <1>6, <1>7, undo_Balance DEF IInv, heap
<1>9. Colours' /\ Candidates' /\ Positions' /\ Coverage'
  <2>1. /\ \A x : OnChain(x)' <=> OnChain(x)
        /\ \A x : is_candidate(x)' <=> is_candidate(x)
        /\ \A S : NextClosed(S)' <=> NextClosed(S)
        /\ \A S : ChainClosed(S)' <=> ChainClosed(S)
    BY <1>1, SameChain
  <2>2. \A S : (ItemsClosed(S, Grey)' <=> ItemsClosed(S, Grey)) /\ (ItemsClosed(S, White)' <=> ItemsClosed(S, White))
    BY <1>7 DEF ItemsClosed
  <2>3. /\ \A x : Pending("black", x)' <=> x = o \/ Later("black", x)
        /\ \A q, x : q # "black" => (Pending(q, x)' <=> Later(q, x))
    BY <1>2, <1>4
  <2>4. GreyScanned'
    <3>1. ASSUME NEW S, \A x \in Object : Pending("scan", x)' \/ Pending("black", x)' \/ Pending("undo", x)' => x \in S
          PROVE  \A x \in Object : Pending("scan", x) \/ Pending("black", x) \/ Pending("undo", x) => x \in S
      BY <1>4, <2>3, <3>1
    <3>2. \A c : Pending("scanned", c) => Pending("scanned", c)'
      BY <1>4, <2>3
    <3>3. QED
      BY <1>1, <1>5, <1>7, <2>1, <2>2, <3>1, <3>2 DEF GreyScanned
  <2>5. WhiteListed'
    <3>1. ASSUME NEW S, \A x \in Object : Pending("white", x)' \/ Pending("black", x)' \/ Pending("undo", x)' => x \in S
          PROVE  \A x \in Object : Pending("white", x) \/ Pending("black", x) \/ Pending("undo", x) => x \in S
      BY <1>4, <2>3, <3>1
    <3>2. \A x : Pending("scan", x)' => Pending("scan", x)
      BY <1>4, <2>3
    <3>3. QED
      BY <1>1, <1>5, <1>7, <2>1, <2>2, <3>1, <3>2 DEF WhiteListed
  <2>6. /\ Has("pop")' /\ ~Has("scanAll")'
        /\ \A p \in Trialled' : \A x \in Object : Holds(p, x)' => gc_color'[x] # "purple"
        /\ \A x \in Object : Pending("undo", x)' => gc_color'[x] # "purple"
        /\ \A x \in Object : Pending("scanned", x)' => OnChain(x)'
        /\ \A x \in Object : Pending("white", x)' => ~is_candidate(x)'
    BY <1>1, <1>2, <1>4, <1>5, <1>7, <2>1, <2>3
  <2>7. \A x \in Object : Pending("black", x)' => x \in Trialled'
    <3>1. gc_color[o] # "purple" /\ gc_color[o] \in {"black", "grey", "white", "purple"}
      BY <1>4, <1>5 DEF IInv, Types
    <3>2. o \in Trialled
      BY <3>1 DEF Trialled, Grey, White
    <3>3. QED
      BY <1>4, <1>5, <1>7, <2>3, <3>2
  <2>8. \E pos \in [Object -> Int] : Ordered(pos)'
    BY <1>1, <1>5 DEF Ordered
  <2>9. QED
    BY <2>4, <2>5, <2>6, <2>7, <2>8, ScanningList
<1>10. QED
  BY <1>6, <1>8, <1>9 DEF IInv, List

\* ... and for one that is black already.
LEMMA undo_black_Step ==
    ASSUME IInv, NEW o \in Object, undo_trial_deletion(o), gc_color[o] = "black"
    PROVE  IInv'
<1> DEFINE cs == <<>>
<1>1. /\ todo # <<>> /\ Head(todo) = Call("undo", o)
      /\ UNCHANGED heap /\ UNCHANGED <<gc_color, next, previous, gc_root>>
      /\ ref_count' = [ref_count EXCEPT ![o] = @ + 1]
      /\ Then(cs)
  BY CallingMeans DEF undo_trial_deletion, list
<1>2. cs \in Seq(Calls) /\ (\A c : ~In(cs, c)) /\ (\A q : ~HasOp(cs, q)) /\ Follows(cs)
  BY NoCalls
<1> HIDE DEF cs
<1>3. "undo" \in ScanOps
  BY DEF ScanOps
<1>4. /\ \A q, x : Pending(q, x)' <=> Later(q, x)
      /\ \A q, x : Pending(q, x) <=> (q = "undo" /\ x = o) \/ Later(q, x)
      /\ \A q : Has(q)' <=> HasOp(Tail(todo), q)
  BY <1>1, <1>2, Step DEF IInv
<1>5. /\ ~HasOp(Tail(todo), "scanAll") /\ HasOp(Tail(todo), "pop")
      /\ \A p \in Trialled : \A x \in Object : Holds(p, x) => gc_color[x] # "purple"
      /\ \A x \in Object : Pending("black", x) => x \in Trialled
      /\ \A x \in Object : Pending("undo", x) => gc_color[x] # "purple"
      /\ \A x \in Object : Pending("scanned", x) => OnChain(x)
      /\ \A x \in Object : Pending("white", x) => ~is_candidate(x)
      /\ GreyScanned /\ WhiteListed
      /\ \E pos \in [Object -> Int] : Ordered(pos)
  BY <1>1, <1>3, ScanCall
<1>6. /\ Types' /\ Shape' /\ Lives' /\ Linked' /\ Born' /\ Unlinked'
      /\ \A x : Total(x)' = Total(x)
  <2>1. ref_count' \in [Object -> Int] /\ gc_color' \in [Object -> {"black", "grey", "white", "purple"}]
    BY <1>1 DEF IInv, Types
  <2>2. QED
    BY <1>1, <1>2, <1>3, <2>1, CollectorStep
<1>7. Grey' = Grey /\ White' = White /\ Trialled' = Trialled /\ \A p, x : Holds(p, x)' <=> Holds(p, x)
  BY <1>1 DEF Grey, White, Trialled, Holds, heap
<1>8. Balance'
  BY <1>1, <1>2, <1>6, <1>7, undo_Balance DEF IInv, heap
<1>9. Colours' /\ Candidates' /\ Positions' /\ Coverage'
  <2>1. /\ \A x : OnChain(x)' <=> OnChain(x)
        /\ \A x : is_candidate(x)' <=> is_candidate(x)
        /\ \A S : NextClosed(S)' <=> NextClosed(S)
        /\ \A S : ChainClosed(S)' <=> ChainClosed(S)
    BY <1>1, SameChain
  <2>2. \A S : (ItemsClosed(S, Grey)' <=> ItemsClosed(S, Grey)) /\ (ItemsClosed(S, White)' <=> ItemsClosed(S, White))
    BY <1>7 DEF ItemsClosed
  <2>3. \A q, x : q # "undo" => (Pending(q, x)' <=> Pending(q, x))
    BY <1>4
  <2>4. GreyScanned'
    <3>1. ASSUME NEW R \in SUBSET Object, NEW S \in SUBSET Object,
                 R \subseteq S, NextClosed(R), ItemsClosed(S, Grey),
                 \A c \in Object : Pending("scanned", c)' /\ next[c] # Nil => next[c] \in R,
                 \A x \in Object : Pending("scan", x)' \/ Pending("black", x)' \/ Pending("undo", x)' => x \in S
          PROVE  Grey \subseteq S
      <4> DEFINE T == S \cup {o}
      <4>1. T \in SUBSET Object /\ R \subseteq T /\ ItemsClosed(T, Grey)
        BY <3>1 DEF ItemsClosed, Grey
      <4>2. \A x \in Object : Pending("scan", x) \/ Pending("black", x) \/ Pending("undo", x) => x \in T
        BY <1>4, <3>1
      <4>3. \A c \in Object : Pending("scanned", c) /\ next[c] # Nil => next[c] \in R
        BY <2>3, <3>1
      <4> HIDE DEF T
      <4>4. Grey \subseteq T
        BY <1>5, <3>1, <4>1, <4>2, <4>3 DEF GreyScanned
      <4>5. QED
        BY <4>4 DEF T, Grey
    <3>2. QED
      BY <1>1, <1>7, <2>1, <2>2, <3>1 DEF GreyScanned
  <2>5. WhiteListed'
    <3>1. ASSUME NEW C \in SUBSET Object, NEW S \in SUBSET Object,
                 C \subseteq S, ChainClosed(C), ItemsClosed(S, White),
                 \A x \in Object : Pending("white", x)' \/ Pending("black", x)' \/ Pending("undo", x)' => x \in S
          PROVE  /\ White \subseteq S
                 /\ \A x \in Object : Pending("scan", x)' => x \in S \/ gc_color'[x] = "black"
      <4> DEFINE T == S \cup {o}
      <4>1. T \in SUBSET Object /\ C \subseteq T /\ ItemsClosed(T, White)
        BY <3>1 DEF ItemsClosed, White
      <4>2. \A x \in Object : Pending("white", x) \/ Pending("black", x) \/ Pending("undo", x) => x \in T
        BY <1>4, <3>1
      <4> HIDE DEF T
      <4>3. White \subseteq T /\ \A x \in Object : Pending("scan", x) => x \in T \/ gc_color[x] = "black"
        BY <1>5, <3>1, <4>1, <4>2 DEF WhiteListed
      <4>4. QED
        BY <1>1, <2>3, <4>3 DEF T, White
    <3>2. QED
      BY <1>7, <2>1, <2>2, <3>1 DEF WhiteListed
  <2>6. /\ Has("pop")' /\ ~Has("scanAll")'
        /\ \A p \in Trialled' : \A x \in Object : Holds(p, x)' => gc_color'[x] # "purple"
        /\ \A x \in Object : Pending("black", x)' => x \in Trialled'
        /\ \A x \in Object : Pending("undo", x)' => gc_color'[x] # "purple"
        /\ \A x \in Object : Pending("scanned", x)' => OnChain(x)'
        /\ \A x \in Object : Pending("white", x)' => ~is_candidate(x)'
    BY <1>1, <1>4, <1>5, <1>7, <2>1
  <2>7. \E pos \in [Object -> Int] : Ordered(pos)'
    BY <1>1, <1>5 DEF Ordered
  <2>8. QED
    BY <2>4, <2>5, <2>6, <2>7, ScanningList
<1>10. QED
  BY <1>6, <1>8, <1>9 DEF IInv, List

\* What holds when the scan is over.
LEMMA Scanned ==
    ASSUME IInv, NEW op \in {"pop", "white"}, NEW o, todo # <<>>, Head(todo) = Call(op, o)
    PROVE  /\ Grey = {}
           /\ ~HasOp(Tail(todo), "scanAll")
           /\ \A q, x : Later(q, x) => q \in {"pop"} \cup Outside
           /\ op = "pop" => /\ \A q, x : Later(q, x) => q \in Outside
                            /\ \A q : HasOp(Tail(todo), q) => q \in Outside
<1>1. op \in ScanOps \cup {"pop"}
  BY DEF ScanOps
<1>2. GreyScanned /\ ~HasOp(Tail(todo), "scanAll")
  BY <1>1, ScanCall
<1>3. /\ \A q : HasOp(Tail(todo), q) => q \in After(op)
      /\ \A q, x : Pending(q, x) <=> (q = op /\ x = o) \/ Later(q, x)
      /\ \A q, x : Later(q, x) => HasOp(Tail(todo), q)
  BY Following, NowPending DEF IInv
<1>4. After("pop") = Outside /\ After("white") = {"pop"} \cup Outside
  BY DEF After
<1>5. \A x \in Object : ~Pending("scanned", x) /\ ~Pending("scan", x) /\ ~Pending("black", x) /\ ~Pending("undo", x)
  BY <1>3, <1>4 DEF Outside
<1>6. NextClosed({}) /\ ItemsClosed({}, Grey)
  BY DEF NextClosed, ItemsClosed
<1>7. Grey = {}
  BY <1>2, <1>5, <1>6 DEF GreyScanned
<1>8. QED
  BY <1>2, <1>3, <1>4, <1>7

\* At the end of the third loop no object is colored.
LEMMA pop_end_Step ==
    ASSUME IInv, pop_candidate, gc_root = Nil
    PROVE  IInv'
<1> DEFINE cs == <<>>
<1>1. /\ todo # <<>> /\ Head(todo) = Call("pop", Nil)
      /\ UNCHANGED heap /\ UNCHANGED <<ref_count, gc_color, next, previous, gc_root>>
      /\ Then(cs)
  BY CallingMeans DEF pop_candidate, list
<1>2. cs \in Seq(Calls) /\ (\A c : ~In(cs, c)) /\ (\A q : ~HasOp(cs, q)) /\ Follows(cs)
  BY NoCalls
<1> HIDE DEF cs
<1>3. /\ Grey = {}
      /\ \A q, x : Later(q, x) => q \in Outside
      /\ \A q : HasOp(Tail(todo), q) => q \in Outside
      /\ WhiteListed
      /\ \E pos \in [Object -> Int] : Ordered(pos)
  BY <1>1, Scanned, ScanCall
<1>4. /\ \A q, x : Pending(q, x)' <=> Later(q, x)
      /\ \A q, x : Pending(q, x) <=> (q = "pop" /\ x = Nil) \/ Later(q, x)
      /\ \A q : Has(q)' <=> HasOp(Tail(todo), q)
  BY <1>1, <1>2, Step DEF IInv
<1>5. White = {}
  <2>1. ChainClosed({}) /\ ItemsClosed({}, White)
    BY DEF ChainClosed, NextClosed, ItemsClosed
  <2>2. \A x \in Object : ~Pending("white", x) /\ ~Pending("black", x) /\ ~Pending("undo", x)
    BY <1>3, <1>4 DEF Outside
  <2>3. QED
    BY <1>3, <2>1, <2>2 DEF WhiteListed
<1>6. /\ Types' /\ Lives' /\ \A x : Total(x)' = Total(x)
      /\ \A x \in Object : state[x] # "unborn" => state'[x] # "unborn"
  <2>1. "pop" \in Op \ Destroying
    BY DEF Op, Destroying
  <2>2. QED
    BY <1>1, <1>2, <2>1, QuietStep DEF IInv, Types
<1>7. Shape'
  BY <1>1, <1>2, ThenShape DEF IInv
<1>8. Trialled = {} /\ Trialled' = Trialled
  BY <1>1, <1>3, <1>5 DEF Trialled, Grey, White
<1>9. Balance'
  BY <1>1, <1>2, <1>6, <1>8, NeutralBalance DEF IInv, heap
<1>10. Linked' /\ Born' /\ Unlinked'
  BY <1>1, <1>4, <1>6, SameLinks DEF IInv, List
<1>11. Candidates'
  <2>1. \A p \in Object : next[p] = Nil
    BY EmptyList DEF IInv, List
  <2>2. QED
    BY <1>1, <2>1 DEF Candidates
<1>12. Colours' /\ Coverage' /\ Positions'
  <2>1. ~Has("pop")' /\ ~Has("scanAll")'
    BY <1>3, <1>4 DEF Outside
  <2>2. \E pos \in [Object -> Int] : Ordered(pos)'
    BY <1>1, <1>3 DEF Ordered
  <2>3. QED
    BY <1>8, <2>1, <2>2, IdleList
<1>13. QED
  BY <1>6, <1>7, <1>9, <1>10, <1>11, <1>12 DEF IInv, List

\* The third loop takes the first element off, which may be white.
LEMMA pop_Step ==
    ASSUME IInv, pop_candidate, gc_root # Nil
    PROVE  IInv'
<1>2. PICK c \in Object : c = gc_root
  BY DEF IInv, Types
<1> DEFINE cs == <<Call("white", c), Call("pop", Nil)>>
<1>1. /\ todo # <<>> /\ Head(todo) = Call("pop", Nil)
      /\ UNCHANGED heap /\ UNCHANGED <<ref_count, gc_color>>
      /\ Removed(c)
      /\ Then(cs)
  BY <1>2, CallingMeans DEF pop_candidate, Removed
<1>3. /\ cs \in Seq(Calls)
      /\ \A q, x : In(cs, Call(q, x)) <=> (q = "white" /\ x = c) \/ (q = "pop" /\ x = Nil)
      /\ \A q : HasOp(cs, q) <=> q = "white" \/ q = "pop"
      /\ Follows(cs)
  <2>1. "white" \in Op /\ "pop" \in Op /\ "pop" \in After("white")
    BY DEF Op, After
  <2>2. QED
    BY <1>2, <2>1, TwoCalls
<1> HIDE DEF cs
<1>4. /\ Grey = {}
      /\ ~HasOp(Tail(todo), "scanAll")
      /\ \A q, x : Later(q, x) => q \in Outside
      /\ \A q : HasOp(Tail(todo), q) => q \in Outside
  BY <1>1, Scanned
<1>5. /\ \A p \in Trialled : \A x \in Object : Holds(p, x) => gc_color[x] # "purple"
      /\ WhiteListed
      /\ \E pos \in [Object -> Int] : Ordered(pos)
  BY <1>1, ScanCall
<1>6. /\ \A q, x : Pending(q, x)' <=> In(cs, Call(q, x)) \/ Later(q, x)
      /\ \A q, x : Pending(q, x) <=> (q = "pop" /\ x = Nil) \/ Later(q, x)
      /\ \A q : Has(q)' <=> HasOp(cs, q) \/ HasOp(Tail(todo), q)
  BY <1>1, <1>3, Step DEF IInv
<1>7. /\ Types' /\ Lives' /\ \A x : Total(x)' = Total(x)
      /\ \A x \in Object : state[x] # "unborn" => state'[x] # "unborn"
  <2>1. "pop" \in Op \ Destroying /\ \A q \in Destroying : ~HasOp(cs, q)
    BY <1>3 DEF Op, Destroying
  <2>2. ref_count' \in [Object -> Int] /\ gc_color' \in [Object -> {"black", "grey", "white", "purple"}]
    BY <1>1 DEF IInv, Types
  <2>3. /\ next' \in [Object -> Object \cup {Nil}]
        /\ previous' \in [Object -> Object \cup {Nil}]
        /\ gc_root' \in Object \cup {Nil}
    BY <1>1, <1>2, RemovedTypes DEF IInv
  <2>4. QED
    BY <1>1, <1>3, <2>1, <2>2, <2>3, QuietStep
<1>8. Shape'
  <2>1. \A q : HasOp(cs, q) => After("pop") \subseteq After(q)
    BY <1>3 DEF After
  <2>2. \A p \in MarkOps : ~HasOp(cs, p)
    BY <1>3 DEF MarkOps
  <2>3. HasOp(cs, "pop")
    BY <1>3
  <2>4. QED
    BY <1>1, <1>3, <2>1, <2>2, <2>3, ThenShape DEF IInv
<1>9. PICK pos \in [Object -> Int] : Ordered(pos)
  BY <1>5
<1>10. Linked' /\ Born' /\ Unlinked'
  <2>1. \A x : Pending("link", x)' => Pending("link", x)
    BY <1>3, <1>6
  <2>2. QED
    BY <1>1, <1>2, <1>7, <1>9, <2>1, RemovedLinks DEF IInv, List
<1>11. Grey' = Grey /\ White' = White /\ Trialled' = Trialled /\ \A p, x : Holds(p, x)' <=> Holds(p, x)
  BY <1>1 DEF Grey, White, Trialled, Holds, heap
<1>12. Balance'
  BY <1>1, <1>3, <1>7, <1>11, NeutralBalance DEF IInv, heap
<1>13. /\ gc_root' = next[c]
       /\ \A x \in Object : previous'[x] = IF x = next[c] THEN Nil ELSE previous[x]
       /\ \A x \in Object : next'[x] = IF x = c THEN Nil ELSE next[x]
  BY <1>1, <1>2, RemovedRoot DEF IInv
<1>14. Colours' /\ Candidates' /\ Positions' /\ Coverage'
  <2>1. Ordered(pos)'
    BY <1>1, <1>2, <1>9, RemovedOrdered DEF IInv, List
  <2>2. /\ Has("pop")' /\ ~Has("scanAll")'
        /\ \A x \in Object : ~Pending("black", x)' /\ ~Pending("undo", x)' /\ ~Pending("scanned", x)'
        /\ \A x \in Object : ~Pending("scan", x)'
        /\ \A x \in Object : Pending("white", x)' <=> x = c
        /\ \A x \in Object : ~Pending("black", x) /\ ~Pending("undo", x) /\ ~Pending("white", x)
    BY <1>3, <1>4, <1>6 DEF Outside
  <2>3. ~is_candidate(c)'
    <3>1. previous[c] \in {Nil, c}
      BY <1>2, NilIsNoObject DEF IInv, List, Linked
    <3>2. previous[c] = c => next[c] = c
      BY <1>2 DEF IInv, List, Linked
    <3>3. next'[c] = Nil /\ previous'[c] = Nil
      BY <1>2, <1>13, <3>1, <3>2
    <3>4. QED
      BY <3>3 DEF is_candidate
  <2>4. \A x \in Object : Pending("white", x)' => ~is_candidate(x)'
    BY <2>2, <2>3
  <2>5. GreyScanned'
    BY <1>4, <1>11 DEF GreyScanned
  <2>6. WhiteListed'
    <3>1. ASSUME NEW C \in SUBSET Object, NEW S \in SUBSET Object,
                 C \subseteq S, ChainClosed(C)', c \in S, ItemsClosed(S, White)
          PROVE  White \subseteq S
      <4> DEFINE T == C \cup {c}
      <4>1. T \in SUBSET Object /\ T \subseteq S
        BY <1>2, <3>1
      <4>2. ChainClosed(T)
        <5>1. /\ next[c] # Nil => next[c] \in C
              /\ \A p \in C : p # c => (next[p] # Nil => next[p] \in C)
          BY <1>2, <1>13, <3>1 DEF ChainClosed, NextClosed
        <5>2. QED
          BY <1>2, <5>1 DEF ChainClosed, NextClosed
      <4> HIDE DEF T
      <4>3. QED
        BY <1>5, <2>2, <3>1, <4>1, <4>2 DEF WhiteListed
    <3>2. \A S : ItemsClosed(S, White)' <=> ItemsClosed(S, White)
      BY <1>11 DEF ItemsClosed
    <3>3. QED
      BY <1>2, <1>11, <2>2, <3>1, <3>2 DEF WhiteListed
  <2>7. \A p \in Trialled' : \A x \in Object : Holds(p, x)' => gc_color'[x] # "purple"
    BY <1>1, <1>5, <1>11
  <2>8. QED
    BY <2>1, <2>2, <2>4, <2>5, <2>6, <2>7, ScanningList
<1>15. QED
  BY <1>7, <1>8, <1>10, <1>12, <1>14 DEF IInv, List

\* collect_white has no white object to look at that is not on the list.
LEMMA white_Step ==
    ASSUME IInv, NEW o \in Object, collect_white(o), ~(gc_color[o] = "white" /\ ~is_candidate(o))
    PROVE  IInv'
<1> DEFINE cs == <<>>
<1>0. ~(gc_color[o] = "white" /\ ~is_candidate(o))
  OBVIOUS
<1>1. /\ todo # <<>> /\ Head(todo) = Call("white", o)
      /\ UNCHANGED heap /\ UNCHANGED <<ref_count, gc_color, next, previous, gc_root>>
      /\ Then(cs)
  BY <1>0, CallingMeans DEF collect_white, list
<1>2. cs \in Seq(Calls) /\ (\A c : ~In(cs, c)) /\ (\A q : ~HasOp(cs, q)) /\ Follows(cs)
  BY NoCalls
<1> HIDE DEF cs
<1>3. "white" \in ScanOps /\ "white" \notin MarkOps
  BY DEF ScanOps, MarkOps
<1>4. /\ \A q, x : Pending(q, x)' <=> Later(q, x)
      /\ \A q, x : Pending(q, x) <=> (q = "white" /\ x = o) \/ Later(q, x)
      /\ \A q : Has(q)' <=> HasOp(Tail(todo), q)
  BY <1>1, <1>2, Step DEF IInv
<1>5. /\ Grey = {}
      /\ ~HasOp(Tail(todo), "scanAll")
      /\ \A q, x : Later(q, x) => q \in {"pop"} \cup Outside
  BY <1>1, Scanned
<1>6. /\ HasOp(Tail(todo), "pop")
      /\ \A p \in Trialled : \A x \in Object : Holds(p, x) => gc_color[x] # "purple"
      /\ \A x \in Object : Pending("white", x) => ~is_candidate(x)
      /\ WhiteListed
      /\ \E pos \in [Object -> Int] : Ordered(pos)
  BY <1>1, <1>3, ScanCall
<1>7. gc_color[o] # "white"
  BY <1>0, <1>4, <1>6
<1>8. /\ Types' /\ Shape' /\ Lives' /\ Linked' /\ Born' /\ Unlinked'
      /\ \A x : Total(x)' = Total(x)
  BY <1>1, <1>2, <1>3, CollectorStep DEF IInv, Types
<1>9. Grey' = Grey /\ White' = White /\ Trialled' = Trialled /\ \A p, x : Holds(p, x)' <=> Holds(p, x)
  BY <1>1 DEF Grey, White, Trialled, Holds, heap
<1>10. Balance'
  BY <1>1, <1>2, <1>8, <1>9, NeutralBalance DEF IInv, heap
<1>11. Colours' /\ Candidates' /\ Positions' /\ Coverage'
  <2>1. /\ \A S : ChainClosed(S)' <=> ChainClosed(S)
    BY <1>1, SameChain
  <2>2. /\ Has("pop")' /\ ~Has("scanAll")'
        /\ \A x \in Object : ~Pending("black", x)' /\ ~Pending("undo", x)' /\ ~Pending("scanned", x)'
        /\ \A x \in Object : ~Pending("scan", x)' /\ ~Pending("white", x)'
    BY <1>4, <1>5, <1>6 DEF Outside
  <2>3. GreyScanned'
    BY <1>5, <1>9 DEF GreyScanned
  <2>4. WhiteListed'
    <3>1. ASSUME NEW C \in SUBSET Object, NEW S \in SUBSET Object,
                 C \subseteq S, ChainClosed(C), ItemsClosed(S, White)
          PROVE  White \subseteq S
      <4> DEFINE T == S \cup {o}
      <4>1. T \in SUBSET Object /\ C \subseteq T /\ ItemsClosed(T, White)
        BY <1>7, <3>1 DEF ItemsClosed, White
      <4>2. \A x \in Object : Pending("white", x) \/ Pending("black", x) \/ Pending("undo", x) => x \in T
        BY <1>4, <1>5 DEF Outside
      <4> HIDE DEF T
      <4>3. White \subseteq T
        BY <1>6, <3>1, <4>1, <4>2 DEF WhiteListed
      <4>4. QED
        BY <1>7, <4>3 DEF T, White
    <3>2. \A S : ItemsClosed(S, White)' <=> ItemsClosed(S, White)
      BY <1>9 DEF ItemsClosed
    <3>3. QED
      BY <1>9, <2>1, <2>2, <3>1, <3>2 DEF WhiteListed
  <2>5. \A p \in Trialled' : \A x \in Object : Holds(p, x)' => gc_color'[x] # "purple"
    BY <1>1, <1>6, <1>9
  <2>6. \E pos \in [Object -> Int] : Ordered(pos)'
    BY <1>1, <1>6 DEF Ordered
  <2>7. QED
    BY <2>2, <2>3, <2>4, <2>5, <2>6, ScanningList
<1>12. QED
  BY <1>8, <1>10, <1>11 DEF IInv, List

------------------------------------------------------------------------------
(* The specification. *)

\* At the start nothing exists.
LEMMA InitiallyIInv == Init => IInv
<1> SUFFICES ASSUME Init
             PROVE  IInv
  OBVIOUS
<1>1. /\ state = [o \in Object |-> IF o = Class THEN "alive" ELSE "unborn"]
      /\ ref_count = [o \in Object |-> IF o = Class THEN 1 ELSE 0]
      /\ gc_color = [o \in Object |-> IF o = Class THEN "purple" ELSE "black"]
      /\ next = [o \in Object |-> Nil]
      /\ previous = [o \in Object |-> Nil]
      /\ items = [o \in Object |-> <<>>]
      /\ handles = [o \in Object |-> IF o = Class THEN 1 ELSE 0]
      /\ gc_root = Class
      /\ todo = <<>>
  BY DEF Init
<1>2. /\ \A q, x : ~Pending(q, x)
      /\ \A q : ~Has(q)
      /\ todo \in Seq(Calls)
      /\ Follows(todo)
  BY <1>1, NoCalls DEF Pending, Has
<1>3. Types
  <2>1. /\ items \in [Object -> Seq(Object)]
        /\ \A p \in Object : Len(items[p]) <= MaxItems /\ items[p] = <<>>
    BY <1>1, BoundsAreNat
  <2>2. IsFiniteSet({p \in Object : state[p] # "unborn"})
    <3> DEFINE S == {p \in Object : state[p] # "unborn"}
    <3>1. S = {Class}
      BY <1>1, ClassIsObject
    <3>2. IsFiniteSet({Class})
      BY FS_Singleton
    <3>3. QED
      BY <3>1, <3>2
  <2>3. QED
    BY <1>1, <1>2, <2>1, <2>2, ClassIsObject DEF Types
<1>4. Shape
  BY <1>2 DEF Shape
<1>5. Trialled = {}
  BY <1>1 DEF Trialled, Grey, White
<1>6. \A x \in Object : Total(x) = IF x = Class THEN 1 ELSE 0
  <2>1. ASSUME NEW x \in Object
        PROVE  Refs(items, x, Holders) = 0
    <3>1. RefsIn(items, x, Holders) = {}
      BY <1>1 DEF RefsIn
    <3>2. QED
      BY <3>1, FS_EmptySet DEF Refs
  <2>2. \A x \in Object : Times(todo, Call("release", x)) = 0
    BY <1>2, <1>3, CountsAreNat
  <2>3. QED
    BY <1>1, <2>1, <2>2 DEF Total
<1>7. Balance
  <2>1. \A x \in Object : Refs(items, x, Trialled) = 0
    BY <1>5, RefsOfNone
  <2>2. \A x \in Object : Times(todo, Call("trial", x)) = 0 /\ Times(todo, Call("undo", x)) = 0
    BY <1>2, <1>3, CountsAreNat
  <2>3. QED
    BY <1>1, <1>6, <2>1, <2>2 DEF Balance
<1>8. Lives
  BY <1>1, <1>2, <1>6 DEF Lives, Ending
<1>9. Colours /\ Coverage
  BY <1>2, <1>5 DEF Colours, Coverage, Marking, Scanning
<1>10. List
  <2>0. /\ \A p \in Object : next[p] = Nil /\ previous[p] = Nil
        /\ gc_root = Class /\ gc_root \in Object /\ gc_root # Nil /\ state[gc_root] = "alive"
    BY <1>1, ClassIsObject, NilIsNoObject
  <2>1. Linked
    BY <2>0, NilIsNoObject DEF Linked
  <2>2. Born /\ Unlinked
    BY <1>2, <2>0 DEF Born, Unlinked
  <2>3. Candidates
    BY <1>1, <1>2 DEF Candidates
  <2>4. Positions
    <3>1. Ordered([x \in Object |-> 0])
      BY <1>1 DEF Ordered
    <3>2. [x \in Object |-> 0] \in [Object -> Int]
      OBVIOUS
    <3>3. QED
      BY <1>2, <3>1, <3>2 DEF Positions, Marking
  <2>5. QED
    BY <2>1, <2>2, <2>3, <2>4 DEF List
<1>11. QED
  BY <1>3, <1>4, <1>7, <1>8, <1>9, <1>10 DEF IInv

\* What a script can get at has references.
LEMMA ReachableIsReferenced ==
    ASSUME IInv
    PROVE  \A o \in Reachable : Total(o) > 0
<1> DEFINE S == {o \in Object : Total(o) > 0}
<1>1. \A p \in Object : handles[p] > 0 => p \in S
  BY CountsAreNat DEF IInv, Total
<1>2. ASSUME NEW p \in S, NEW i \in DOMAIN items[p]
      PROVE  items[p][i] \in S
  <2>1. p \in Object /\ p \in Holders
    BY HeldLives DEF IInv
  <2>2. items[p][i] \in Object
    BY <2>1 DEF IInv, Types
  <2>3. Storing(items)
    BY ItemsAreStored DEF IInv
  <2> DEFINE x == items[p][i]
  <2>4. Refs(items, x, Holders) \in Nat /\ Refs(items, x, Holders) > 0
    BY <2>1, <2>3, RefersTo
  <2>5. x \in Object
    BY <2>2
  <2> HIDE DEF x
  <2>6. Total(x) > 0
    BY <2>4, <2>5, CountsAreNat DEF IInv, Total
  <2>7. QED
    BY <2>5, <2>6 DEF x
<1>3. S \in SUBSET Object
  OBVIOUS
<1> HIDE DEF S
<1>4. \A o \in Reachable : o \in S
  BY <1>1, <1>2, <1>3 DEF Reachable
<1>5. QED
  BY <1>4 DEF S

\* An object with references is alive: no object that a script can get at was freed.
LEMMA ReachableLives == IInv => LiveNotFreed
<1> SUFFICES ASSUME IInv, NEW o \in Reachable
             PROVE  state[o] = "alive"
  BY DEF LiveNotFreed
<1>1. o \in Object /\ Total(o) > 0
  BY ReachableIsReferenced DEF Reachable
<1>2. QED
  BY <1>1, HeldLives DEF IInv

\* The references that CountsExact counts are all but those still to be released.
LEMMA ReferencesCount ==
    ASSUME IInv, NEW o \in Object
    PROVE  /\ References(o) \in Nat
           /\ Total(o) = References(o) + Times(todo, Call("release", o))
<1> DEFINE S == {r \in Object \X (1..MaxItems) :
                    LET p == r[1] i == r[2]
                    IN  state[p] = "alive" /\ ~Dying(p) /\ i \in DOMAIN items[p] /\ items[p][i] = o}
<1>1. S = RefsIn(items, o, Holders)
  BY DEF RefsIn, Holders
<1>2. References(o) = handles[o] + Refs(items, o, Holders)
  BY <1>1 DEF References, Refs
<1>3. handles[o] \in Nat /\ Refs(items, o, Holders) \in Nat
  BY CountsAreNat DEF IInv
<1>4. QED
  BY <1>2, <1>3 DEF Total

------------------------------------------------------------------------------
(* What the calls to be made may count on: Sound. *)

\* Between collections there is nothing colored.
LEMMA IdleSound == IInv /\ Idle /\ Owned => Sound
<1> SUFFICES ASSUME IInv, Idle, Owned
             PROVE  Sound
  OBVIOUS
<1>1. Trialled = {} /\ ~Has("pop")
  BY DEF IInv, Colours, Idle
<1>2. \A op \in MarkOps \cup ScanOps : ~Has(op)
  BY <1>1 DEF IInv, Shape
<1>3. \A op \in MarkOps \cup ScanOps : \A o : ~Pending(op, o)
  BY <1>2, InHasOp DEF Has, Pending
<1>4. Visited
  BY <1>1, <1>3 DEF Visited, MarkOps, ScanOps
<1>5. Unused
  BY <1>1 DEF Unused, Scanning
<1>6. QED
  BY <1>4, <1>5 DEF Sound

\* What a script does leaves at most a release to be made.
LEMMA RestOwned ==
    ASSUME todo' = <<>> \/ \E o \in Object : todo' = <<Call("release", o)>>
    PROVE  Owned' /\ Idle'
<1>1. /\ \A q, x : Pending(q, x)' => q = "release"
      /\ \A q : Has(q)' => q = "release"
      /\ todo' \in Seq(Calls)
  <2>1. CASE todo' = <<>>
    BY <2>1, NoCalls DEF Has, Pending
  <2>2. CASE \E o \in Object : todo' = <<Call("release", o)>>
    <3>1. PICK o \in Object : todo' = <<Call("release", o)>>
      BY <2>2
    <3>2. "release" \in Op
      BY DEF Op
    <3>3. QED
      BY <3>1, <3>2, OneCall DEF Has, Pending
  <2>3. QED
    BY <2>1, <2>2
<1>2. \A x : Times(todo', Call("delete", x)) = 0
  <2>1. ~HasOp(todo', "delete")
    BY <1>1 DEF Has
  <2>2. QED
    BY <1>1, <2>1, TimesOfNone
<1>3. QED
  BY <1>1, <1>2 DEF Owned, Idle

\* The links that lead to an element of the list.
LEMMA LedTo ==
    ASSUME Types, NEW o \in Object, OnChain(o)
    PROVE  gc_root = o \/ \E p \in Object : next[p] = o
<1> DEFINE S == {x \in Object : gc_root = x \/ \E p \in Object : next[p] = x}
<1>1. S \in SUBSET Object /\ ChainClosed(S)
  BY DEF ChainClosed, NextClosed, Types
<1> HIDE DEF S
<1>2. o \in S
  BY <1>1 DEF OnChain
<1>3. QED
  BY <1>2 DEF S

\* What an object in use refers to is in use.
LEMMA ItemsAreUsed ==
    ASSUME IInv, NEW o \in Object, Total(o) > 0, NEW x \in Object, Holds(o, x)
    PROVE  Total(x) > 0
<1>1. o \in Holders
  BY HeldLives DEF IInv
<1>2. Storing(items)
  BY ItemsAreStored DEF IInv
<1>3. Refs(items, x, Holders) \in Nat /\ Refs(items, x, Holders) > 0
  BY <1>1, <1>2, RefersTo DEF Holds
<1>4. QED
  BY <1>3, CountsAreNat DEF IInv, Total

\* A call that destroys nothing keeps what is owned.
LEMMA OwnedKept ==
    ASSUME IInv, Owned, NEW op, NEW o, todo # <<>>, Head(todo) = Call(op, o), op \notin Destroying,
           NEW cs \in Seq(Calls), Then(cs), UNCHANGED heap,
           \A q \in Destroying \cup {"link"} : ~HasOp(cs, q),
           \A x \in Object : ~In(cs, Call("collect", x)) /\ ~In(cs, Call("scanAll", x)) /\ ~In(cs, Call("pop", x))
    PROVE  Owned'
<1>1. /\ \A q, x : Pending(q, x)' <=> In(cs, Call(q, x)) \/ Later(q, x)
      /\ \A q, x : Pending(q, x) <=> (q = op /\ x = o) \/ Later(q, x)
      /\ \A q, x : In(cs, Call(q, x)) => HasOp(cs, q)
  BY Step DEF IInv
<1>2. \A q \in Destroying \cup {"link", "collect", "scanAll", "pop"} : \A x \in Object :
          Pending(q, x)' => Pending(q, x)
  BY <1>1
<1>3. \A x \in Object : Times(todo', Call("delete", x)) = Times(todo, Call("delete", x))
  BY ThenCounts DEF IInv, Destroying
<1>4. \A x \in Object : Dying(x)' => Dying(x)
  <2>1. \A x : Dying(x)' <=> Pending("delete", x)'
    BY DEF Dying, Pending, In
  <2>2. QED
    BY <1>2, <2>1, DyingIsPending DEF Destroying
<1>5. state' = state
  BY DEF heap
<1>6. Pending("delete", Nil)' => Pending("delete", Nil)
  BY <1>1 DEF Destroying
<1>7. QED
  BY <1>2, <1>3, <1>4, <1>5, <1>6 DEF Owned, Destroying

\* A step of a collection that destroys nothing keeps what its calls count on, if the
\* calls that it leaves and the colors that it gives are for objects in use.
LEMMA SoundKept ==
    ASSUME IInv, Sound, NEW op, NEW o, todo # <<>>, Head(todo) = Call(op, o), op \notin Destroying,
           NEW cs \in Seq(Calls), Then(cs), UNCHANGED heap,
           \A q \in Destroying \cup {"link"} : ~HasOp(cs, q),
           \A x \in Object : ~In(cs, Call("collect", x)) /\ ~In(cs, Call("scanAll", x)) /\ ~In(cs, Call("pop", x)),
           \A x \in Object : In(cs, Call("marked", x)) \/ In(cs, Call("white", x)) => state[x] = "alive",
           \A x \in Object : In(cs, Call("grey", x)) \/ In(cs, Call("trial", x)) => Total(x) > 0,
           \A x \in Object : In(cs, Call("black", x)) \/ In(cs, Call("undo", x)) => Total(x) > 0,
           \A x \in Object : x \in Trialled' => x \in Trialled \/ Total(x) > 0,
           \A x \in Object : In(cs, Call("scan", x)) => OnChain(x)' \/ Total(x) > 0,
           \A x \in Object : Later("scan", x) /\ OnChain(x) => OnChain(x)',
           Unused'
    PROVE  Sound'
<1>1. /\ \A q, x : Pending(q, x)' <=> In(cs, Call(q, x)) \/ Later(q, x)
      /\ \A q, x : Pending(q, x) <=> (q = op /\ x = o) \/ Later(q, x)
  BY Step DEF IInv
<1>2. Owned'
  BY OwnedKept DEF Sound
<1>3. (\A x : Total(x)' = Total(x)) /\ state' = state
  BY Quiet DEF IInv, heap
<1>4. /\ \A x \in Object : Pending("marked", x) \/ Pending("white", x) => state[x] = "alive"
      /\ \A x \in Object :
            x \in Trialled \/ Pending("grey", x) \/ Pending("trial", x)
                           \/ Pending("black", x) \/ Pending("undo", x) => Total(x) > 0
      /\ \A x \in Object : Pending("scan", x) => OnChain(x) \/ Total(x) > 0
  BY DEF Sound, Visited
<1>5. \A x \in Object : Pending("marked", x)' \/ Pending("white", x)' => state'[x] = "alive"
  BY <1>1, <1>3, <1>4
<1>6. ASSUME NEW x \in Object,
             x \in Trialled' \/ Pending("grey", x)' \/ Pending("trial", x)'
                             \/ Pending("black", x)' \/ Pending("undo", x)'
      PROVE  Total(x)' > 0
  <2>1. Total(x) > 0
    BY <1>1, <1>4, <1>6
  <2>2. QED
    BY <1>3, <2>1
<1>7. \A x \in Object : Pending("scan", x)' => OnChain(x)' \/ Total(x)' > 0
  BY <1>1, <1>3, <1>4
<1>8. Visited'
  BY <1>5, <1>6, <1>7 DEF Visited
<1>9. QED
  BY <1>2, <1>8 DEF Sound

\* Counts and colors as they are, or fewer white objects, and no call to color one black gone.
LEMMA UnusedKept ==
    ASSUME IInv, Sound, NEW op, NEW o, todo # <<>>, Head(todo) = Call(op, o), op \notin {"black", "scanAll"},
           NEW cs \in Seq(Calls), Then(cs), Has("pop")' => Has("pop"),
           ref_count' = ref_count, White' \subseteq White
    PROVE  Unused'
<1>1. /\ \A q, x : Pending(q, x)' <=> In(cs, Call(q, x)) \/ Later(q, x)
      /\ \A q, x : Pending(q, x) <=> (q = op /\ x = o) \/ Later(q, x)
      /\ \A q : Has(q)' <=> HasOp(cs, q) \/ HasOp(Tail(todo), q)
      /\ \A q : Has(q) <=> q = op \/ HasOp(Tail(todo), q)
  BY Step DEF IInv
<1>2. Scanning' => Scanning
  BY <1>1 DEF Scanning
<1>3. \A x : Pending("black", x) => Pending("black", x)'
  BY <1>1
<1>4. QED
  BY <1>2, <1>3 DEF Sound, Unused

\* A release leaves a destruction or a collection only of an object in use.
LEMMA release_Sound ==
    ASSUME IInv, Sound, IInv', NEW o \in Object, release(o)
    PROVE  Sound'
<1> DEFINE cs == Released(o)
<1>1. todo # <<>> /\ Head(todo) = Call("release", o) /\ UNCHANGED heap
  BY CallingMeans DEF release
<1>2. /\ cs \in Seq(Calls)
      /\ Then(cs)
      /\ \A q : HasOp(cs, q) => q \in {"destroy", "collect", "link"}
      /\ \A x : In(cs, Call("destroy", x)) => x = o
      /\ \A x : In(cs, Call("link", x)) => x = o
  BY release_Calls
<1>3. \A x \in Object : ~In(cs, Call("collect", x))
  <2>1. "collect" \in Op /\ "link" \in Op /\ "destroy" \in Op /\ "link" \in After("collect")
    BY DEF Op, After, Outside
  <2>2. CASE cs = <<Call("collect", Nil), Call("link", o)>>
    <3> DEFINE t == <<Call("collect", Nil), Call("link", o)>>
    <3>1. \A r, x : In(t, Call(r, x)) <=> (r = "collect" /\ x = Nil) \/ (r = "link" /\ x = o)
      BY <2>1, TwoCalls
    <3>2. cs = t
      BY <2>2
    <3> HIDE DEF cs, t
    <3>3. QED
      BY <3>1, <3>2, NilIsNoObject
  <2>3. CASE cs = <<>>
    BY <2>3, NoCalls
  <2>4. ASSUME NEW op \in {"destroy", "link"}, cs = <<Call(op, o)>>
        PROVE  \A x \in Object : ~In(cs, Call("collect", x))
    <3> DEFINE t == <<Call(op, o)>>
    <3>1. \A r, x : In(t, Call(r, x)) <=> r = op /\ x = o
      BY <2>1, OneCall
    <3>2. cs = t
      BY <2>4
    <3> HIDE DEF cs, t
    <3>3. QED
      BY <3>1, <3>2
  <2>5. QED
    BY <2>2, <2>3, <2>4 DEF Released
<1> HIDE DEF cs
<1>4. /\ \A q : HasOp(Tail(todo), q) => q \in {"release", "delete"}
      /\ \A q, x : Later(q, x) => q \in {"release", "delete"}
  BY <1>1, DestroyingIsIdle DEF Destroying, IInv
<1>5. /\ \A q, x : Pending(q, x)' <=> In(cs, Call(q, x)) \/ Later(q, x)
      /\ \A q, x : Pending(q, x) <=> (q = "release" /\ x = o) \/ Later(q, x)
      /\ \A q : Has(q)' <=> HasOp(cs, q) \/ HasOp(Tail(todo), q)
      /\ \A q, x : In(cs, Call(q, x)) => HasOp(cs, q)
  BY <1>1, <1>2, Step DEF IInv
<1>6. state[o] = "alive" /\ ~Pending("delete", o)
  <2>1. Total(o) > 0
    BY <1>5, CountsAreNat DEF IInv, Total
  <2>2. QED
    BY <2>1, HeldLives DEF IInv, Ending
<1>7. \A x \in Object : Times(todo', Call("delete", x)) = Times(todo, Call("delete", x))
  BY <1>1, <1>2, ThenCounts DEF IInv
<1>8. \A x : Dying(x)' => Pending("delete", x)
  <2>1. \A x : Dying(x)' => Pending("delete", x)'
    BY DEF Dying, Pending, In
  <2>2. QED
    BY <1>2, <1>5, <2>1
<1>9. Owned'
  <2>1. ASSUME NEW x \in Object, Pending("link", x)' \/ Pending("destroy", x)' \/ Pending("delete", x)'
        PROVE  state'[x] = "alive"
    <3>1. x = o \/ Pending("delete", x)
      BY <1>2, <1>4, <1>5, <2>1
    <3>2. QED
      BY <1>1, <1>6, <3>1 DEF Sound, Owned, heap
  <2>2. \A x \in Object : Pending("destroy", x)' => ~Dying(x)'
    BY <1>2, <1>4, <1>5, <1>6, <1>8
  <2>3. \A x \in Object : Times(todo', Call("delete", x)) <= 1
    BY <1>7 DEF Sound, Owned
  <2>4. \A x \in Object : ~Pending("collect", x)' /\ ~Pending("scanAll", x)' /\ ~Pending("pop", x)'
    BY <1>2, <1>3, <1>4, <1>5
  <2>5. ~Pending("delete", Nil)'
    BY <1>2, <1>4, <1>5 DEF Sound, Owned
  <2>6. QED
    BY <2>1, <2>2, <2>3, <2>4, <2>5 DEF Owned
<1>10. Idle'
  BY <1>2, <1>4, <1>5 DEF Idle
<1>11. (IInv /\ Idle /\ Owned => Sound)'
  BY IdleSound, PTL
<1>12. QED
  BY <1>9, <1>10, <1>11

\* The object is listed.
LEMMA link_Sound ==
    ASSUME IInv, Sound, IInv', NEW o \in Object, link(o)
    PROVE  Sound'
<1> DEFINE cs == <<>>
<1>1. todo # <<>> /\ Head(todo) = Call("link", o) /\ UNCHANGED heap /\ Then(cs)
  BY CallingMeans DEF link
<1>2. cs \in Seq(Calls) /\ (\A c : ~In(cs, c)) /\ (\A q : ~HasOp(cs, q))
  BY NoCalls
<1> HIDE DEF cs
<1>3. Owned'
  BY <1>1, <1>2, OwnedKept DEF Sound, Destroying
<1>4. Idle'
  <2>1. \A q : HasOp(Tail(todo), q) => q \in {"release", "delete"}
    BY <1>1, DestroyingIsIdle DEF Destroying, IInv
  <2>2. QED
    BY <1>1, <1>2, <2>1, Step DEF Idle, IInv
<1>5. (IInv /\ Idle /\ Owned => Sound)'
  BY IdleSound, PTL
<1>6. QED
  BY <1>3, <1>4, <1>5

\* The destructor of an object is called for the first time.
LEMMA destroy_Sound ==
    ASSUME IInv, Sound, IInv', NEW o \in Object, destroy(o), ~Dying(o)
    PROVE  Sound'
<1> DEFINE cs == Destroyed(o)
<1>1. todo # <<>> /\ Head(todo) = Call("destroy", o) /\ UNCHANGED heap /\ Then(cs)
  BY CallingMeans DEF destroy, Destroyed
<1>2. /\ cs \in Seq(Calls)
      /\ \A q : HasOp(cs, q) => q \in {"release", "delete"}
      /\ \A x : In(cs, Call("delete", x)) <=> x = o
  BY destroy_Calls DEF IInv
<1>3. \A x \in Object : Times(cs, Call("delete", x)) = IF x = o THEN 1 ELSE 0
  <2> DEFINE r == OnItems("release", o)
             d == <<Call("delete", o)>>
  <2>1. /\ r \in Seq(Calls) /\ ~HasOp(r, "delete")
    <3>1. "release" \in Op
      BY DEF Op
    <3>2. QED
      BY <3>1, InOnItems DEF IInv
  <2>2. d \in Seq(Calls) /\ \A x \in Object : Times(d, Call("delete", x)) = IF x = o THEN 1 ELSE 0
    <3>1. "delete" \in Op
      BY DEF Op
    <3>2. d \in Seq(Calls)
      BY <3>1, OneCall
    <3>3. \A x \in Object : Times(d, Call("delete", x)) = IF Call("delete", o) = Call("delete", x) THEN 1 ELSE 0
      BY TimesOfOne
    <3>4. \A x : Call("delete", o) = Call("delete", x) <=> x = o
      BY DEF Call
    <3>5. QED
      BY <3>2, <3>3, <3>4
  <2>3. cs = r \o d
    BY DEF Destroyed
  <2> HIDE DEF r, d, cs
  <2>4. ASSUME NEW x \in Object
        PROVE  Times(cs, Call("delete", x)) = IF x = o THEN 1 ELSE 0
    <3>1. Times(r \o d, Call("delete", x)) = Times(r, Call("delete", x)) + Times(d, Call("delete", x))
      BY <2>1, <2>2, TimesConcat
    <3>2. Times(r, Call("delete", x)) = 0
      BY <2>1, TimesOfNone
    <3>3. QED
      BY <2>2, <2>3, <3>1, <3>2
  <2>5. QED
    BY <2>4
<1> HIDE DEF cs
<1>4. /\ \A q : HasOp(Tail(todo), q) => q \in {"release", "delete"}
      /\ \A q, x : Later(q, x) => q \in {"release", "delete"}
  BY <1>1, DestroyingIsIdle DEF Destroying, IInv
<1>5. /\ \A q, x : Pending(q, x)' <=> In(cs, Call(q, x)) \/ Later(q, x)
      /\ \A q, x : Pending(q, x) <=> (q = "destroy" /\ x = o) \/ Later(q, x)
      /\ \A q : Has(q)' <=> HasOp(cs, q) \/ HasOp(Tail(todo), q)
      /\ \A q, x : In(cs, Call(q, x)) => HasOp(cs, q)
  BY <1>1, <1>2, Step DEF IInv
<1>6. \A x \in Object : /\ Times(todo', Call("delete", x)) = Times(todo, Call("delete", x)) + Times(cs, Call("delete", x))
                        /\ Times(todo, Call("delete", x)) <= 1
                        /\ Times(todo, Call("delete", x)) \in Nat
                        /\ x = o => Times(todo, Call("delete", x)) = 0
  <2>1. ~Pending("delete", o)
    BY DyingIsPending
  <2>2. QED
    BY <1>1, <1>2, <2>1, ThenCounts, CountsAreNat DEF IInv, Sound, Owned
<1>7. Owned'
  <2>1. ASSUME NEW x \in Object, Pending("link", x)' \/ Pending("destroy", x)' \/ Pending("delete", x)'
        PROVE  state'[x] = "alive"
    <3>1. x = o \/ Pending("delete", x)
      BY <1>2, <1>4, <1>5, <2>1
    <3>2. state[x] = "alive"
      BY <1>5, <3>1 DEF Sound, Owned
    <3>3. QED
      BY <1>1, <3>2 DEF heap
  <2>2. \A x \in Object : ~Pending("destroy", x)'
    BY <1>2, <1>4, <1>5
  <2>3. \A x \in Object : Times(todo', Call("delete", x)) <= 1
    BY <1>3, <1>6
  <2>4. \A x \in Object : ~Pending("collect", x)' /\ ~Pending("scanAll", x)' /\ ~Pending("pop", x)'
    BY <1>2, <1>4, <1>5
  <2>5. ~Pending("delete", Nil)'
    BY <1>2, <1>4, <1>5, NilIsNoObject DEF Sound, Owned
  <2>6. QED
    BY <2>1, <2>2, <2>3, <2>4, <2>5 DEF Owned
<1>8. Idle'
  BY <1>2, <1>4, <1>5 DEF Idle
<1>9. (IInv /\ Idle /\ Owned => Sound)'
  BY IdleSound, PTL
<1>10. QED
  BY <1>7, <1>8, <1>9

\* The memory of an object is released once.
LEMMA delete_Sound ==
    ASSUME IInv, Sound, IInv', NEW o \in Object, delete(o)
    PROVE  Sound'
<1> DEFINE cs == <<>>
<1>1. /\ todo # <<>> /\ Head(todo) = Call("delete", o) /\ Then(cs)
      /\ state' = [state EXCEPT ![o] = "freed"]
  BY CallingMeans DEF delete
<1>2. cs \in Seq(Calls) /\ (\A c : ~In(cs, c)) /\ (\A q : ~HasOp(cs, q))
  BY NoCalls
<1> HIDE DEF cs
<1>3. /\ \A q : HasOp(Tail(todo), q) => q \in {"release", "delete"}
      /\ \A q, x : Later(q, x) => q \in {"release", "delete"}
  BY <1>1, DestroyingIsIdle DEF Destroying, IInv
<1>4. /\ \A q, x : Pending(q, x)' <=> Later(q, x)
      /\ \A q, x : Pending(q, x) <=> (q = "delete" /\ x = o) \/ Later(q, x)
      /\ \A q : Has(q)' <=> HasOp(Tail(todo), q)
      /\ todo' \in Seq(Calls)
  BY <1>1, <1>2, Step DEF IInv
<1>5. \A x \in Object : /\ Times(todo', Call("delete", x)) = Times(todo, Call("delete", x)) - (IF x = o THEN 1 ELSE 0)
                        /\ Times(todo, Call("delete", x)) <= 1
                        /\ Times(todo, Call("delete", x)) \in Nat
  BY <1>1, <1>2, ThenCounts, CountsAreNat DEF IInv, Sound, Owned
<1>6. ~Pending("delete", o)'
  <2>1. Times(todo', Call("delete", o)) \in Nat /\ (Times(todo', Call("delete", o)) = 0 <=> ~Pending("delete", o)')
    BY <1>4, TimesIsNat DEF Pending
  <2>2. Times(todo', Call("delete", o)) = 0
    BY <1>5, <2>1
  <2>3. QED
    BY <2>1, <2>2
<1>7. Owned'
  <2>1. ASSUME NEW x \in Object, Pending("link", x)' \/ Pending("destroy", x)' \/ Pending("delete", x)'
        PROVE  state'[x] = "alive"
    <3>1. x # o /\ Pending("delete", x)
      BY <1>3, <1>4, <1>6, <2>1
    <3>2. state[x] = "alive"
      BY <3>1 DEF Sound, Owned
    <3>3. QED
      BY <1>1, <3>1, <3>2 DEF IInv, Types
  <2>2. \A x \in Object : ~Pending("destroy", x)'
    BY <1>3, <1>4
  <2>3. \A x \in Object : Times(todo', Call("delete", x)) <= 1
    BY <1>5
  <2>4. \A x \in Object : ~Pending("collect", x)' /\ ~Pending("scanAll", x)' /\ ~Pending("pop", x)'
    BY <1>3, <1>4
  <2>5. ~Pending("delete", Nil)'
    BY <1>3, <1>4 DEF Sound, Owned
  <2>6. QED
    BY <2>1, <2>2, <2>3, <2>4, <2>5 DEF Owned
<1>8. Idle'
  BY <1>3, <1>4 DEF Idle
<1>9. (IInv /\ Idle /\ Owned => Sound)'
  BY IdleSound, PTL
<1>10. QED
  BY <1>7, <1>8, <1>9

\* The start of a collection, or none.
LEMMA collect_Sound ==
    ASSUME IInv, Sound, IInv', collect
    PROVE  Sound'
<1>1. /\ todo # <<>> /\ Head(todo) = Call("collect", Nil)
      /\ UNCHANGED heap /\ UNCHANGED <<ref_count, gc_color, next, previous, gc_root>>
  BY CallingMeans DEF collect, list
<1>2. /\ \A q : HasOp(Tail(todo), q) => q \in Outside
      /\ \A q : Has(q) <=> q = "collect" \/ HasOp(Tail(todo), q)
      /\ \A q, x : Later(q, x) => q \in Outside
  <2>1. After("collect") = Outside
    BY DEF After
  <2>2. QED
    BY <1>1, <2>1, Following, NowPending DEF IInv
<1>3. CASE gc_paused
  <2> DEFINE cs == <<>>
  <2>1. Then(cs)
    BY <1>3 DEF collect
  <2>2. cs \in Seq(Calls) /\ (\A c : ~In(cs, c)) /\ (\A q : ~HasOp(cs, q))
    BY NoCalls
  <2> HIDE DEF cs
  <2>3. Owned'
    BY <1>1, <2>1, <2>2, OwnedKept DEF Sound, Destroying
  <2>4. Idle'
    BY <1>1, <1>2, <2>1, <2>2, Step DEF Idle, IInv, Outside
  <2>5. (IInv /\ Idle /\ Owned => Sound)'
    BY IdleSound, PTL
  <2>6. QED
    BY <2>3, <2>4, <2>5
<1>4. CASE ~gc_paused
  <2> DEFINE cs == <<Call("mark", gc_root), Call("scanAll", Nil), Call("pop", Nil)>>
  <2>1. Then(cs)
    BY <1>4 DEF collect
  <2>2. /\ cs \in Seq(Calls)
        /\ \A q, x : In(cs, Call(q, x)) <=>
              (q = "mark" /\ x = gc_root) \/ (q = "scanAll" /\ x = Nil) \/ (q = "pop" /\ x = Nil)
        /\ \A q : HasOp(cs, q) <=> q = "mark" \/ q = "scanAll" \/ q = "pop"
    <3>1. "mark" \in Op /\ "scanAll" \in Op /\ "pop" \in Op /\ gc_root \in Object \cup {Nil}
      BY DEF Op, IInv, Types
    <3>2. "scanAll" \in After("mark") /\ "pop" \in After("mark") /\ "pop" \in After("scanAll")
      BY DEF After
    <3>3. QED
      BY <3>1, <3>2, ThreeCalls
  <2> HIDE DEF cs
  <2>3. /\ \A q, x : Pending(q, x)' <=> In(cs, Call(q, x)) \/ Later(q, x)
        /\ \A q : Has(q)' <=> HasOp(cs, q) \/ HasOp(Tail(todo), q)
    BY <1>1, <2>1, <2>2, Step DEF IInv
  <2>4. Owned'
    BY <1>1, <2>1, <2>2, NilIsNoObject, OwnedKept DEF Sound, Destroying
  <2>5. Trialled' = {}
    BY <1>1, <1>2 DEF IInv, Colours, Idle, Outside, Trialled, Grey, White
  <2>6. Visited'
    BY <1>2, <2>2, <2>3, <2>5 DEF Visited, Outside
  <2>7. Unused'
    BY <2>2, <2>3 DEF Unused, Scanning
  <2>8. QED
    BY <2>4, <2>6, <2>7 DEF Sound
<1>5. QED
  BY <1>3, <1>4

\* The end of the first loop.
LEMMA mark_end_Sound ==
    ASSUME IInv, Sound, IInv', mark_candidates(Nil)
    PROVE  Sound'
<1> DEFINE cs == <<>>
<1>1. /\ todo # <<>> /\ Head(todo) = Call("mark", Nil)
      /\ UNCHANGED heap /\ UNCHANGED <<ref_count, gc_color, next, previous, gc_root>>
      /\ Then(cs)
  BY CallingMeans DEF mark_candidates, list
<1>2. cs \in Seq(Calls) /\ (\A c : ~In(cs, c)) /\ (\A q : ~HasOp(cs, q))
  BY NoCalls
<1> HIDE DEF cs
<1>3. "mark" \in MarkOps /\ "mark" \notin Destroying
  BY DEF MarkOps, Destroying
<1>4. Trialled' = Trialled /\ White' = White
  BY <1>1 DEF Trialled, Grey, White
<1>5. Unused'
  <2>1. Has("pop")' => Has("pop")
    BY <1>1, <1>2, Step DEF IInv
  <2>2. QED
    BY <1>1, <1>2, <1>4, <2>1, UnusedKept
<1>6. \A x \in Object : OnChain(x)' <=> OnChain(x)
  BY <1>1, SameChain
<1>7. QED
  BY <1>1, <1>2, <1>3, <1>4, <1>5, <1>6, SoundKept

\* The candidate that a step of the first loop finds is there.
LEMMA MarkedLives ==
    ASSUME IInv, NEW o \in Object, mark_candidates(o)
    PROVE  /\ state[o] = "alive"
           /\ ~Dying(o) => Total(o) > 0
           /\ \A q, x : Later(q, x) => q \in {"scanAll", "pop"} \cup Outside
<1>1. todo # <<>> /\ Head(todo) = Call("mark", o) /\ ~TouchesFreed(Head(todo))
  BY DEF mark_candidates, Calling
<1>2. "mark" \in MarkOps
  BY DEF MarkOps
<1>3. /\ \A q, x : Pending(q, x) <=> (q = "mark" /\ x = o) \/ Later(q, x)
      /\ \A q, x : Later(q, x) => q \in {"scanAll", "pop"} \cup Outside
  <2>1. /\ \A q : HasOp(Tail(todo), q) => q \in After("mark")
    BY <1>1, Following DEF IInv
  <2>2. \A q, x : /\ Pending(q, x) <=> (q = "mark" /\ x = o) \/ Later(q, x)
                  /\ Later(q, x) => HasOp(Tail(todo), q)
    BY <1>1, NowPending DEF IInv
  <2>3. After("mark") = {"scanAll", "pop"} \cup Outside
    BY DEF After
  <2>4. QED
    BY <2>1, <2>2, <2>3
<1>4. \E pos \in [Object -> Int] : Ordered(pos) /\ \E K \in SUBSET Object : Kept(pos, K)
  BY <1>1, <1>2, MarkCall
<1>5. state[o] = "alive"
  <2>1. OnChain(o)
    BY <1>3, <1>4 DEF Kept, Passed
  <2>2. state[o] # "unborn"
    BY <2>1, OnChainIsBorn DEF IInv, List
  <2>3. state[o] # "freed"
    BY <1>1, NilIsNoObject DEF TouchesFreed, Touched, Call
  <2>4. QED
    BY <2>2, <2>3 DEF IInv, Types
<1>6. ASSUME ~Dying(o)
      PROVE  Total(o) > 0
  <2>1. ~Pending("delete", o) /\ ~Pending("destroy", o)
    BY <1>3, <1>6, DyingIsPending DEF Outside
  <2>2. ~Ending(o)
    BY <1>5, <2>1 DEF Ending
  <2>3. QED
    BY <2>2, CountsAreNat DEF IInv, Lives
<1>7. QED
  BY <1>3, <1>5, <1>6

\* Trial deletion starts from candidates that are in use.
LEMMA mark_purple_Sound ==
    ASSUME IInv, Sound, IInv', NEW o \in Object, mark_candidates(o), gc_color[o] = "purple", ~Dying(o)
    PROVE  Sound'
<1> DEFINE cs == <<Call("grey", o), Call("marked", o)>>
<1>1. /\ todo # <<>> /\ Head(todo) = Call("mark", o)
      /\ UNCHANGED heap /\ UNCHANGED <<ref_count, gc_color, next, previous, gc_root>>
      /\ Then(cs)
  BY CallingMeans, NilIsNoObject DEF mark_candidates, list
<1>2. /\ cs \in Seq(Calls)
      /\ \A q, x : In(cs, Call(q, x)) <=> (q = "grey" /\ x = o) \/ (q = "marked" /\ x = o)
      /\ \A q : HasOp(cs, q) <=> q = "grey" \/ q = "marked"
  <2>1. "grey" \in Op /\ "marked" \in Op /\ "marked" \in After("grey")
    BY DEF Op, After
  <2>2. QED
    BY <2>1, TwoCalls
<1> HIDE DEF cs
<1>3. "mark" \notin Destroying
  BY DEF Destroying
<1>4. Trialled' = Trialled /\ White' = White
  BY <1>1 DEF Trialled, Grey, White
<1>5. Unused'
  <2>1. Has("pop")' => Has("pop")
    BY <1>1, <1>2, Step DEF IInv
  <2>2. QED
    BY <1>1, <1>2, <1>4, <2>1, UnusedKept
<1>6. \A x \in Object : OnChain(x)' <=> OnChain(x)
  BY <1>1, SameChain
<1>7. state[o] = "alive" /\ Total(o) > 0
  BY MarkedLives
<1>8. \A q \in Destroying \cup {"link"} : ~HasOp(cs, q)
  BY <1>2 DEF Destroying
<1>9. QED
  BY <1>1, <1>2, <1>3, <1>4, <1>5, <1>6, <1>7, <1>8, SoundKept

\* A candidate is taken off the list.
LEMMA mark_other_Sound ==
    ASSUME IInv, Sound, IInv', NEW o \in Object, mark_candidates(o), gc_color[o] # "purple",
           ~(gc_color[o] = "black" /\ ref_count[o] <= 0)
    PROVE  Sound'
<1> DEFINE cs == <<Call("marked", o)>>
<1>1. /\ todo # <<>> /\ Head(todo) = Call("mark", o)
      /\ UNCHANGED heap /\ UNCHANGED <<ref_count, gc_color>>
  BY CallingMeans, NilIsNoObject DEF mark_candidates
<1>2. Then(cs)
  <2>1. /\ <<>> \o <<Call("marked", o)>> = cs
    OBVIOUS
  <2>2. QED
    BY <2>1, NilIsNoObject DEF mark_candidates
<1>3. /\ cs \in Seq(Calls)
      /\ \A q, x : In(cs, Call(q, x)) <=> q = "marked" /\ x = o
      /\ \A q : HasOp(cs, q) <=> q = "marked"
  <2>1. "marked" \in Op
    BY DEF Op
  <2>2. QED
    BY <2>1, OneCall
<1> HIDE DEF cs
<1>4. "mark" \notin Destroying /\ \A q \in Destroying \cup {"link"} : ~HasOp(cs, q)
  BY <1>3 DEF Destroying
<1>5. Trialled' = Trialled /\ White' = White
  BY <1>1 DEF Trialled, Grey, White
<1>6. Unused'
  <2>1. Has("pop")' => Has("pop")
    BY <1>1, <1>2, <1>3, Step DEF IInv
  <2>2. QED
    BY <1>1, <1>2, <1>3, <1>5, <2>1, UnusedKept
<1>7. state[o] = "alive" /\ \A x \in Object : ~Later("scan", x)
  BY MarkedLives DEF Outside
<1>8. QED
  BY <1>1, <1>2, <1>3, <1>4, <1>5, <1>6, <1>7, SoundKept

\* The first loop goes on.
LEMMA mark_next_Sound ==
    ASSUME IInv, Sound, IInv', NEW o \in Object, mark_next(o)
    PROVE  Sound'
<1> DEFINE cs == <<Call("mark", next[o])>>
<1>1. /\ todo # <<>> /\ Head(todo) = Call("marked", o)
      /\ UNCHANGED heap /\ UNCHANGED <<ref_count, gc_color, next, previous, gc_root>>
      /\ Then(cs)
  BY CallingMeans DEF mark_next, list
<1>2. /\ cs \in Seq(Calls)
      /\ \A q, x : In(cs, Call(q, x)) <=> q = "mark" /\ x = next[o]
      /\ \A q : HasOp(cs, q) <=> q = "mark"
  <2>1. "mark" \in Op /\ next[o] \in Object \cup {Nil}
    BY DEF Op, IInv, Types
  <2>2. QED
    BY <2>1, OneCall
<1> HIDE DEF cs
<1>3. "marked" \notin Destroying /\ \A q \in Destroying \cup {"link"} : ~HasOp(cs, q)
  BY <1>2 DEF Destroying
<1>4. Trialled' = Trialled /\ White' = White
  BY <1>1 DEF Trialled, Grey, White
<1>5. Unused'
  <2>1. Has("pop")' => Has("pop")
    BY <1>1, <1>2, Step DEF IInv
  <2>2. QED
    BY <1>1, <1>2, <1>4, <2>1, UnusedKept
<1>6. \A x \in Object : OnChain(x)' <=> OnChain(x)
  BY <1>1, SameChain
<1>7. QED
  BY <1>1, <1>2, <1>3, <1>4, <1>5, <1>6, SoundKept

\* Trial deletion goes from objects in use to what they refer to.
LEMMA mark_grey_Sound ==
    ASSUME IInv, Sound, IInv', NEW o \in Object, mark_grey(o)
    PROVE  Sound'
<1>1. /\ todo # <<>> /\ Head(todo) = Call("grey", o)
      /\ UNCHANGED heap /\ UNCHANGED <<ref_count, next, previous, gc_root>>
  BY CallingMeans DEF mark_grey, list
<1>2. "grey" \notin Destroying
  BY DEF Destroying
<1>3. Total(o) > 0
  <2>1. Pending("grey", o)
    BY <1>1, NowPending DEF IInv
  <2>2. QED
    BY <2>1 DEF Sound, Visited
<1>4. \A x \in Object : OnChain(x)' <=> OnChain(x)
  BY <1>1, SameChain
<1>5. CASE gc_color[o] = "grey"
  <2> DEFINE cs == <<>>
  <2>1. Then(cs) /\ UNCHANGED gc_color
    BY <1>5 DEF mark_grey
  <2>2. cs \in Seq(Calls) /\ (\A c : ~In(cs, c)) /\ (\A q : ~HasOp(cs, q))
    BY NoCalls
  <2> HIDE DEF cs
  <2>3. Trialled' = Trialled /\ White' = White
    BY <2>1 DEF Trialled, Grey, White
  <2>4. Unused'
    <3>1. Has("pop")' => Has("pop")
      BY <1>1, <2>1, <2>2, Step DEF IInv
    <3>2. QED
      BY <1>1, <2>1, <2>2, <2>3, <3>1, UnusedKept
  <2>5. QED
    BY <1>1, <1>2, <1>4, <2>1, <2>2, <2>3, <2>4, SoundKept
<1>6. CASE gc_color[o] # "grey"
  <2> DEFINE cs == OnItems("trial", o)
  <2>1. Then(cs) /\ gc_color' = [gc_color EXCEPT ![o] = "grey"]
    BY <1>6 DEF mark_grey
  <2>2. /\ cs \in Seq(Calls)
        /\ \A q, x : In(cs, Call(q, x)) <=> q = "trial" /\ Holds(o, x)
        /\ \A q : HasOp(cs, q) => q = "trial"
    <3>1. "trial" \in Op
      BY DEF Op
    <3>2. QED
      BY <3>1, InOnItems DEF IInv
  <2> HIDE DEF cs
  <2>3. /\ \A x \in Object : x \in Trialled' => x \in Trialled \/ x = o
        /\ White' \subseteq White
    BY <2>1 DEF IInv, Types, Trialled, Grey, White
  <2>4. Unused'
    <3>1. Has("pop")' => Has("pop")
      BY <1>1, <2>1, <2>2, Step DEF IInv
    <3>2. QED
      BY <1>1, <2>1, <2>2, <2>3, <3>1, UnusedKept
  <2>5. \A x \in Object : Holds(o, x) => Total(x) > 0
    BY <1>3, ItemsAreUsed
  <2>6. \A q \in Destroying \cup {"link"} : ~HasOp(cs, q)
    BY <2>2 DEF Destroying
  <2>7. QED
    BY <1>1, <1>2, <1>3, <1>4, <2>1, <2>2, <2>3, <2>4, <2>5, <2>6, SoundKept
<1>7. QED
  BY <1>5, <1>6

\* ... and takes a count from it.
LEMMA trial_deletion_Sound ==
    ASSUME IInv, Sound, IInv', NEW o \in Object, trial_deletion(o)
    PROVE  Sound'
<1> DEFINE cs == <<Call("grey", o)>>
<1>1. /\ todo # <<>> /\ Head(todo) = Call("trial", o)
      /\ UNCHANGED heap /\ UNCHANGED <<gc_color, next, previous, gc_root>>
      /\ Then(cs)
  BY CallingMeans DEF trial_deletion, list
<1>2. /\ cs \in Seq(Calls)
      /\ \A q, x : In(cs, Call(q, x)) <=> q = "grey" /\ x = o
      /\ \A q : HasOp(cs, q) <=> q = "grey"
  <2>1. "grey" \in Op
    BY DEF Op
  <2>2. QED
    BY <2>1, OneCall
<1> HIDE DEF cs
<1>3. "trial" \notin Destroying /\ "trial" \in MarkOps /\ \A q \in Destroying \cup {"link"} : ~HasOp(cs, q)
  BY <1>2 DEF Destroying, MarkOps
<1>4. Trialled' = Trialled
  BY <1>1 DEF Trialled, Grey, White
<1>5. Total(o) > 0
  <2>1. Pending("trial", o)
    BY <1>1, NowPending DEF IInv
  <2>2. QED
    BY <2>1 DEF Sound, Visited
<1>6. Unused'
  <2>1. Has("scanAll")'
    BY <1>1, <1>2, <1>3, Step DEF IInv
  <2>2. QED
    BY <2>1 DEF Unused, Scanning
<1>7. \A x \in Object : OnChain(x)' <=> OnChain(x)
  BY <1>1, SameChain
<1>8. QED
  BY <1>1, <1>2, <1>3, <1>4, <1>5, <1>6, <1>7, SoundKept


\* The second loop starts on the list.
LEMMA scan_candidates_Sound ==
    ASSUME IInv, Sound, IInv', scan_candidates
    PROVE  Sound'
<1> DEFINE cs == IF gc_root = Nil THEN <<>> ELSE <<Call("scan", gc_root), Call("scanned", gc_root)>>
<1>1. /\ todo # <<>> /\ Head(todo) = Call("scanAll", Nil)
      /\ UNCHANGED heap /\ UNCHANGED <<ref_count, gc_color, next, previous, gc_root>>
      /\ Then(cs)
  BY CallingMeans DEF scan_candidates, list
<1>2. /\ cs \in Seq(Calls)
      /\ \A q, x : In(cs, Call(q, x)) => gc_root # Nil /\ x = gc_root /\ (q = "scan" \/ q = "scanned")
      /\ \A q : HasOp(cs, q) => q = "scan" \/ q = "scanned"
  <2>1. CASE gc_root = Nil
    BY <2>1, NoCalls
  <2>2. CASE gc_root # Nil
    <3>1. "scan" \in Op /\ "scanned" \in Op /\ gc_root \in Object \cup {Nil} /\ "scanned" \in After("scan")
      BY DEF Op, IInv, Types, After
    <3> DEFINE t == <<Call("scan", gc_root), Call("scanned", gc_root)>>
    <3>2. /\ t \in Seq(Calls)
          /\ \A q, x : In(t, Call(q, x)) <=> (q = "scan" /\ x = gc_root) \/ (q = "scanned" /\ x = gc_root)
          /\ \A q : HasOp(t, q) <=> q = "scan" \/ q = "scanned"
      BY <3>1, TwoCalls
    <3>3. cs = t
      BY <2>2
    <3> HIDE DEF cs, t
    <3>4. QED
      BY <2>2, <3>2, <3>3
  <2>3. QED
    BY <2>1, <2>2
<1> HIDE DEF cs
<1>3. "scanAll" \notin Destroying /\ \A q \in Destroying \cup {"link"} : ~HasOp(cs, q)
  BY <1>2 DEF Destroying
<1>4. Trialled' = Trialled /\ White' = White
  BY <1>1 DEF Trialled, Grey, White
<1>5. Unused'
  <2>1. White = {}
    BY <1>1, NowPending DEF IInv, Colours, Marking
  <2>2. QED
    BY <1>4, <2>1 DEF Unused
<1>6. \A x \in Object : OnChain(x)' <=> OnChain(x)
  BY <1>1, SameChain
<1>7. gc_root \in Object => OnChain(gc_root)
  BY NilIsNoObject DEF OnChain, ChainClosed
<1>8. QED
  BY <1>1, <1>2, <1>3, <1>4, <1>5, <1>6, <1>7, SoundKept

\* ... and goes on along it.
LEMMA scan_next_Sound ==
    ASSUME IInv, Sound, IInv', NEW o \in Object, scan_next(o)
    PROVE  Sound'
<1> DEFINE n == next[o]
           cs == IF n = Nil THEN <<>> ELSE <<Call("scan", n), Call("scanned", n)>>
<1>1. /\ todo # <<>> /\ Head(todo) = Call("scanned", o)
      /\ UNCHANGED heap /\ UNCHANGED <<ref_count, gc_color, next, previous, gc_root>>
      /\ Then(cs)
  BY CallingMeans DEF scan_next, list
<1>2. /\ cs \in Seq(Calls)
      /\ \A q, x : In(cs, Call(q, x)) => n # Nil /\ x = n /\ (q = "scan" \/ q = "scanned")
      /\ \A q : HasOp(cs, q) => q = "scan" \/ q = "scanned"
  <2>1. CASE n = Nil
    BY <2>1, NoCalls
  <2>2. CASE n # Nil
    <3>1. "scan" \in Op /\ "scanned" \in Op /\ n \in Object \cup {Nil} /\ "scanned" \in After("scan")
      BY DEF Op, IInv, Types, After
    <3> DEFINE t == <<Call("scan", n), Call("scanned", n)>>
    <3> HIDE DEF n
    <3>2. /\ t \in Seq(Calls)
          /\ \A q, x : In(t, Call(q, x)) <=> (q = "scan" /\ x = n) \/ (q = "scanned" /\ x = n)
          /\ \A q : HasOp(t, q) <=> q = "scan" \/ q = "scanned"
      BY <3>1, TwoCalls
    <3>3. cs = t
      BY <2>2
    <3> HIDE DEF cs, t
    <3>4. QED
      BY <2>2, <3>2, <3>3
  <2>3. QED
    BY <2>1, <2>2
<1> HIDE DEF cs
<1>3. "scanned" \notin Destroying /\ \A q \in Destroying \cup {"link"} : ~HasOp(cs, q)
  BY <1>2 DEF Destroying
<1>4. Trialled' = Trialled /\ White' = White
  BY <1>1 DEF Trialled, Grey, White
<1>5. Unused'
  <2>1. Has("pop")' => Has("pop")
    BY <1>1, <1>2, Step DEF IInv
  <2>2. QED
    BY <1>1, <1>2, <1>4, <2>1, UnusedKept
<1>6. \A x \in Object : OnChain(x)' <=> OnChain(x)
  BY <1>1, SameChain
<1>7. n # Nil => OnChain(n)
  <2>1. n # Nil => OnChain(o)
    BY DEF IInv, List, Linked
  <2>2. QED
    BY <2>1 DEF OnChain, ChainClosed, NextClosed
<1> HIDE DEF n
<1>8. QED
  BY <1>1, <1>2, <1>3, <1>4, <1>5, <1>6, <1>7, SoundKept

\* A scan of an object that is not grey goes no further.
LEMMA scan_other_Sound ==
    ASSUME IInv, Sound, IInv', NEW o \in Object, scan(o), gc_color[o] # "grey"
    PROVE  Sound'
<1> DEFINE cs == <<>>
<1>1. /\ todo # <<>> /\ Head(todo) = Call("scan", o)
      /\ UNCHANGED heap /\ UNCHANGED <<ref_count, gc_color, next, previous, gc_root>>
      /\ Then(cs)
  BY CallingMeans DEF scan, list
<1>2. cs \in Seq(Calls) /\ (\A c : ~In(cs, c)) /\ (\A q : ~HasOp(cs, q))
  BY NoCalls
<1> HIDE DEF cs
<1>3. "scan" \notin Destroying
  BY DEF Destroying
<1>4. Trialled' = Trialled /\ White' = White
  BY <1>1 DEF Trialled, Grey, White
<1>5. Unused'
  <2>1. Has("pop")' => Has("pop")
    BY <1>1, <1>2, Step DEF IInv
  <2>2. QED
    BY <1>1, <1>2, <1>4, <2>1, UnusedKept
<1>6. \A x \in Object : OnChain(x)' <=> OnChain(x)
  BY <1>1, SameChain
<1>7. QED
  BY <1>1, <1>2, <1>3, <1>4, <1>5, <1>6, SoundKept

\* A grey object that has a count left is in use.
LEMMA scan_live_Sound ==
    ASSUME IInv, Sound, IInv', NEW o \in Object, scan(o), gc_color[o] = "grey", ref_count[o] > 0
    PROVE  Sound'
<1> DEFINE cs == <<Call("black", o)>>
<1>1. /\ todo # <<>> /\ Head(todo) = Call("scan", o)
      /\ UNCHANGED heap /\ UNCHANGED <<ref_count, gc_color, next, previous, gc_root>>
      /\ Then(cs)
  BY CallingMeans DEF scan, list
<1>2. /\ cs \in Seq(Calls)
      /\ \A q, x : In(cs, Call(q, x)) <=> q = "black" /\ x = o
      /\ \A q : HasOp(cs, q) <=> q = "black"
  <2>1. "black" \in Op
    BY DEF Op
  <2>2. QED
    BY <2>1, OneCall
<1> HIDE DEF cs
<1>3. "scan" \notin Destroying /\ \A q \in Destroying \cup {"link"} : ~HasOp(cs, q)
  BY <1>2 DEF Destroying
<1>4. Trialled' = Trialled /\ White' = White
  BY <1>1 DEF Trialled, Grey, White
<1>5. Unused'
  <2>1. Has("pop")' => Has("pop")
    BY <1>1, <1>2, Step DEF IInv
  <2>2. QED
    BY <1>1, <1>2, <1>4, <2>1, UnusedKept
<1>6. \A x \in Object : OnChain(x)' <=> OnChain(x)
  BY <1>1, SameChain
<1>7. Total(o) > 0
  BY DEF Sound, Visited, Trialled, Grey
<1>8. QED
  BY <1>1, <1>2, <1>3, <1>4, <1>5, <1>6, <1>7, SoundKept

\* One that has none is colored white.
LEMMA scan_white_Sound ==
    ASSUME IInv, Sound, IInv', NEW o \in Object, scan(o), gc_color[o] = "grey", ~(ref_count[o] > 0)
    PROVE  Sound'
<1> DEFINE cs == OnItems("scan", o)
<1>1. /\ todo # <<>> /\ Head(todo) = Call("scan", o)
      /\ UNCHANGED heap /\ UNCHANGED <<ref_count, next, previous, gc_root>>
      /\ gc_color' = [gc_color EXCEPT ![o] = "white"]
      /\ Then(cs)
  BY CallingMeans DEF scan, list
<1>2. /\ cs \in Seq(Calls)
      /\ \A q, x : In(cs, Call(q, x)) <=> q = "scan" /\ Holds(o, x)
      /\ \A q : HasOp(cs, q) => q = "scan"
  <2>1. "scan" \in Op
    BY DEF Op
  <2>2. QED
    BY <2>1, InOnItems DEF IInv
<1> HIDE DEF cs
<1>3. "scan" \notin Destroying /\ \A q \in Destroying \cup {"link"} : ~HasOp(cs, q)
  BY <1>2 DEF Destroying
<1>4. White' = White \cup {o} /\ Trialled' = Trialled
  BY <1>1 DEF IInv, Types, Trialled, Grey, White
<1>5. /\ \A q, x : Pending(q, x)' <=> In(cs, Call(q, x)) \/ Later(q, x)
      /\ \A q, x : Pending(q, x) <=> (q = "scan" /\ x = o) \/ Later(q, x)
      /\ \A q : Has(q)' <=> HasOp(cs, q) \/ HasOp(Tail(todo), q)
      /\ \A q : Has(q) <=> q = "scan" \/ HasOp(Tail(todo), q)
  BY <1>1, <1>2, Step DEF IInv
<1>6. Unused'
  <2>1. Scanning' => Scanning
    BY <1>2, <1>5 DEF Scanning
  <2>2. \A x : Pending("black", x) => Pending("black", x)'
    BY <1>5
  <2>3. ref_count[o] <= 0
    BY DEF IInv, Types
  <2>4. QED
    BY <1>1, <1>4, <2>1, <2>2, <2>3 DEF Sound, Unused
<1>7. \A x \in Object : OnChain(x)' <=> OnChain(x)
  BY <1>1, SameChain
<1>8. \A x \in Object : Holds(o, x) => Total(x) > 0
  <2>1. Total(o) > 0
    BY DEF Sound, Visited, Trialled, Grey
  <2>2. QED
    BY <2>1, ItemsAreUsed
<1>9. QED
  BY <1>1, <1>2, <1>3, <1>4, <1>6, <1>7, <1>8, SoundKept

\* What is in use is colored black, and what it refers to is in use.
LEMMA scan_black_Sound ==
    ASSUME IInv, Sound, IInv', NEW o \in Object, scan_black(o)
    PROVE  Sound'
<1> DEFINE cs == OnItems("undo", o)
<1>1. /\ todo # <<>> /\ Head(todo) = Call("black", o)
      /\ UNCHANGED heap /\ UNCHANGED <<ref_count, next, previous, gc_root>>
      /\ gc_color' = [gc_color EXCEPT ![o] = "black"]
      /\ Then(cs)
  BY CallingMeans DEF scan_black, list
<1>2. /\ cs \in Seq(Calls)
      /\ \A q, x : In(cs, Call(q, x)) <=> q = "undo" /\ Holds(o, x)
      /\ \A q : HasOp(cs, q) => q = "undo"
  <2>1. "undo" \in Op
    BY DEF Op
  <2>2. QED
    BY <2>1, InOnItems DEF IInv
<1> HIDE DEF cs
<1>3. "black" \notin Destroying /\ \A q \in Destroying \cup {"link"} : ~HasOp(cs, q)
  BY <1>2 DEF Destroying
<1>4. White' = White \ {o} /\ Trialled' \subseteq Trialled
  BY <1>1 DEF IInv, Types, Trialled, Grey, White
<1>5. /\ \A q, x : Pending(q, x)' <=> In(cs, Call(q, x)) \/ Later(q, x)
      /\ \A q, x : Pending(q, x) <=> (q = "black" /\ x = o) \/ Later(q, x)
      /\ \A q : Has(q)' <=> HasOp(cs, q) \/ HasOp(Tail(todo), q)
      /\ \A q : Has(q) <=> q = "black" \/ HasOp(Tail(todo), q)
  BY <1>1, <1>2, Step DEF IInv
<1>6. Unused'
  <2>1. Scanning' => Scanning
    BY <1>2, <1>5 DEF Scanning
  <2>2. \A x : x # o /\ Pending("black", x) => Pending("black", x)'
    BY <1>5
  <2>3. QED
    BY <1>1, <1>4, <2>1, <2>2 DEF Sound, Unused
<1>7. \A x \in Object : OnChain(x)' <=> OnChain(x)
  BY <1>1, SameChain
<1>8. \A x \in Object : Holds(o, x) => Total(x) > 0
  <2>1. Total(o) > 0
    BY <1>5 DEF Sound, Visited
  <2>2. QED
    BY <2>1, ItemsAreUsed
<1>9. QED
  BY <1>1, <1>2, <1>3, <1>4, <1>6, <1>7, <1>8, SoundKept

\* A count is given back to an object that is, or is to be, colored black.
LEMMA undo_Sound ==
    ASSUME IInv, Sound, IInv', NEW o \in Object, undo_trial_deletion(o)
    PROVE  Sound'
<1> DEFINE cs == IF gc_color[o] # "black" THEN <<Call("black", o)>> ELSE <<>>
<1>1. /\ todo # <<>> /\ Head(todo) = Call("undo", o)
      /\ UNCHANGED heap /\ UNCHANGED <<gc_color, next, previous, gc_root>>
      /\ ref_count' = [ref_count EXCEPT ![o] = @ + 1]
      /\ Then(cs)
  BY CallingMeans DEF undo_trial_deletion, list
<1>2. /\ cs \in Seq(Calls)
      /\ \A q, x : In(cs, Call(q, x)) <=> gc_color[o] # "black" /\ q = "black" /\ x = o
      /\ \A q : HasOp(cs, q) => q = "black"
  <2>1. CASE gc_color[o] = "black"
    BY <2>1, NoCalls
  <2>2. CASE gc_color[o] # "black"
    <3> DEFINE t == <<Call("black", o)>>
    <3>1. "black" \in Op
      BY DEF Op
    <3>2. /\ t \in Seq(Calls)
          /\ \A q, x : In(t, Call(q, x)) <=> q = "black" /\ x = o
          /\ \A q : HasOp(t, q) <=> q = "black"
      BY <3>1, OneCall
    <3>3. cs = t
      BY <2>2
    <3> HIDE DEF cs, t
    <3>4. QED
      BY <2>2, <3>2, <3>3
  <2>3. QED
    BY <2>1, <2>2
<1> HIDE DEF cs
<1>3. "undo" \notin Destroying /\ \A q \in Destroying \cup {"link"} : ~HasOp(cs, q)
  BY <1>2 DEF Destroying
<1>4. White' = White /\ Trialled' = Trialled
  BY <1>1 DEF Trialled, Grey, White
<1>5. /\ \A q, x : Pending(q, x)' <=> In(cs, Call(q, x)) \/ Later(q, x)
      /\ \A q, x : Pending(q, x) <=> (q = "undo" /\ x = o) \/ Later(q, x)
      /\ \A q : Has(q)' <=> HasOp(cs, q) \/ HasOp(Tail(todo), q)
      /\ \A q : Has(q) <=> q = "undo" \/ HasOp(Tail(todo), q)
  BY <1>1, <1>2, Step DEF IInv
<1>6. Unused'
  <2>1. Scanning' => Scanning
    BY <1>2, <1>5 DEF Scanning
  <2>2. \A x : Pending("black", x) => Pending("black", x)'
    BY <1>5
  <2>3. o \in White => Pending("black", o)'
    BY <1>2, <1>5 DEF White
  <2>4. \A x \in Object : x # o => ref_count'[x] = ref_count[x]
    BY <1>1 DEF IInv, Types
  <2>5. QED
    BY <1>4, <2>1, <2>2, <2>3, <2>4 DEF Sound, Unused, White
<1>7. \A x \in Object : OnChain(x)' <=> OnChain(x)
  BY <1>1, SameChain
<1>8. Total(o) > 0
  BY <1>5 DEF Sound, Visited
<1>9. QED
  BY <1>1, <1>2, <1>3, <1>4, <1>6, <1>7, <1>8, SoundKept

\* The end of the third loop.
LEMMA pop_end_Sound ==
    ASSUME IInv, Sound, IInv', pop_candidate, gc_root = Nil
    PROVE  Sound'
<1> DEFINE cs == <<>>
<1>1. /\ todo # <<>> /\ Head(todo) = Call("pop", Nil)
      /\ UNCHANGED heap /\ UNCHANGED <<ref_count, gc_color, next, previous, gc_root>>
      /\ Then(cs)
  BY CallingMeans DEF pop_candidate, list
<1>2. cs \in Seq(Calls) /\ (\A c : ~In(cs, c)) /\ (\A q : ~HasOp(cs, q))
  BY NoCalls
<1> HIDE DEF cs
<1>3. "pop" \notin Destroying
  BY DEF Destroying
<1>4. Trialled' = Trialled /\ White' = White
  BY <1>1 DEF Trialled, Grey, White
<1>5. Unused'
  <2>1. Has("pop")' => Has("pop")
    BY <1>1, <1>2, Step DEF IInv
  <2>2. QED
    BY <1>1, <1>2, <1>4, <2>1, UnusedKept
<1>6. \A x \in Object : OnChain(x)' <=> OnChain(x)
  BY <1>1, SameChain
<1>7. QED
  BY <1>1, <1>2, <1>3, <1>4, <1>5, <1>6, SoundKept

\* The candidate that the third loop takes off the list is there.
LEMMA pop_Sound ==
    ASSUME IInv, Sound, IInv', pop_candidate, gc_root # Nil
    PROVE  Sound'
<1>2. PICK c \in Object : c = gc_root
  BY DEF IInv, Types
<1> DEFINE cs == <<Call("white", c), Call("pop", Nil)>>
<1>1. /\ todo # <<>> /\ Head(todo) = Call("pop", Nil) /\ ~TouchesFreed(Head(todo))
      /\ UNCHANGED heap /\ UNCHANGED <<ref_count, gc_color>>
      /\ Then(cs)
  BY <1>2 DEF pop_candidate, Calling
<1>3. /\ cs \in Seq(Calls)
      /\ \A q, x : In(cs, Call(q, x)) <=> (q = "white" /\ x = c) \/ (q = "pop" /\ x = Nil)
      /\ \A q : HasOp(cs, q) <=> q = "white" \/ q = "pop"
  <2>1. "white" \in Op /\ "pop" \in Op /\ "pop" \in After("white")
    BY DEF Op, After
  <2>2. QED
    BY <1>2, <2>1, TwoCalls
<1> HIDE DEF cs
<1>4. "pop" \notin Destroying /\ \A q \in Destroying \cup {"link"} : ~HasOp(cs, q)
  BY <1>3 DEF Destroying
<1>5. Trialled' = Trialled /\ White' = White
  BY <1>1 DEF Trialled, Grey, White
<1>6. \A x \in Object : ~Later("scan", x)
  BY <1>1, Scanned DEF Outside
<1>7. Unused'
  <2>1. Has("pop")' => Has("pop")
    BY <1>1, <1>3, Step DEF IInv
  <2>2. QED
    BY <1>1, <1>3, <1>5, <2>1, UnusedKept
<1>8. state[c] = "alive"
  <2>1. state[c] # "unborn"
    BY <1>2 DEF IInv, List, Born
  <2>2. state[c] # "freed"
    <3>1. Head(todo).op = "pop" /\ gc_root # Nil
      BY <1>1, <1>2 DEF Call
    <3>2. Touched(Head(todo)) = {gc_root, next[gc_root]} \ {Nil}
      BY <3>1 DEF Touched, Removes
    <3>3. QED
      BY <1>1, <1>2, <3>1, <3>2 DEF TouchesFreed
  <2>3. QED
    BY <2>1, <2>2 DEF IInv, Types
<1>9. QED
  BY <1>1, <1>3, <1>4, <1>5, <1>6, <1>7, <1>8, NilIsNoObject, SoundKept

\* collect_white has nothing to do for a candidate that is not white.
LEMMA white_Sound ==
    ASSUME IInv, Sound, IInv', NEW o \in Object, collect_white(o),
           ~(gc_color[o] = "white" /\ ~is_candidate(o))
    PROVE  Sound'
<1> DEFINE cs == <<>>
<1>0. ~(gc_color[o] = "white" /\ ~is_candidate(o))
  OBVIOUS
<1>1. /\ todo # <<>> /\ Head(todo) = Call("white", o)
      /\ UNCHANGED heap /\ UNCHANGED <<ref_count, gc_color, next, previous, gc_root>>
      /\ Then(cs)
  BY <1>0, CallingMeans DEF collect_white, list
<1>2. cs \in Seq(Calls) /\ (\A c : ~In(cs, c)) /\ (\A q : ~HasOp(cs, q))
  BY NoCalls
<1> HIDE DEF cs
<1>3. "white" \notin Destroying
  BY DEF Destroying
<1>4. Trialled' = Trialled /\ White' = White
  BY <1>1 DEF Trialled, Grey, White
<1>5. Unused'
  <2>1. Has("pop")' => Has("pop")
    BY <1>1, <1>2, Step DEF IInv
  <2>2. QED
    BY <1>1, <1>2, <1>4, <2>1, UnusedKept
<1>6. \A x \in Object : OnChain(x)' <=> OnChain(x)
  BY <1>1, SameChain
<1>7. QED
  BY <1>1, <1>2, <1>3, <1>4, <1>5, <1>6, SoundKept

------------------------------------------------------------------------------
(* What the collector finds. *)

\* An object whose references all come from within P is referred to from nowhere else.
LEMMA RefsWithin ==
    ASSUME NEW f, Storing(f), NEW x, NEW P, NEW Q, P \subseteq Q, Refs(f, x, Q) <= Refs(f, x, P)
    PROVE  \A p \in Object : \A i : p \in Q /\ i \in DOMAIN f[p] /\ f[p][i] = x => p \in P
<1>1. /\ IsFiniteSet(RefsIn(f, x, Q)) /\ IsFiniteSet(RefsIn(f, x, P))
      /\ Refs(f, x, P) \in Nat /\ Refs(f, x, Q) \in Nat
  BY RefsAreNat
<1>2. RefsIn(f, x, P) \subseteq RefsIn(f, x, Q)
  BY DEF RefsIn
<1>3. RefsIn(f, x, P) = RefsIn(f, x, Q)
  <2>1. Cardinality(RefsIn(f, x, P)) <= Cardinality(RefsIn(f, x, Q))
        /\ (Cardinality(RefsIn(f, x, P)) = Cardinality(RefsIn(f, x, Q)) => RefsIn(f, x, P) = RefsIn(f, x, Q))
    BY <1>1, <1>2, FS_Subset
  <2>2. QED
    BY <1>1, <2>1 DEF Refs
<1>4. ASSUME NEW p \in Object, NEW i, p \in Q, i \in DOMAIN f[p], f[p][i] = x
      PROVE  p \in P
  <2>1. i \in 1..MaxItems
    <3>1. f[p] \in Seq(Object) /\ Len(f[p]) <= MaxItems
      BY DEF Storing
    <3>2. i \in 1..Len(f[p])
      BY <1>4, <3>1
    <3>3. QED
      BY <3>1, <3>2, BoundsAreNat
  <2>2. <<p, i>> \in RefsIn(f, x, Q)
    BY <1>4, <2>1 DEF RefsIn
  <2>3. QED
    BY <1>3, <2>2 DEF RefsIn
<1>5. QED
  BY <1>4

\* When the scan is over, what is white is referred to by white objects alone.
LEMMA WhiteIsHeldByWhite ==
    ASSUME IInv, Sound, todo # <<>>, Head(todo).op \in {"pop", "white"}, NEW x \in White
    PROVE  /\ handles[x] = 0
           /\ \A p \in Holders : Holds(p, x) => p \in White
           /\ \E p \in White : Holds(p, x)
<1>1. PICK op \in {"pop", "white"}, o \in Object \cup {Nil} : Head(todo) = Call(op, o)
  <2>1. Head(todo) \in Calls
    BY DEF IInv, Types
  <2>2. QED
    BY <2>1 DEF Calls, Call
<1>2. /\ Grey = {}
      /\ ~HasOp(Tail(todo), "scanAll")
      /\ \A q, y : Later(q, y) => q \in {"pop"} \cup Outside
  BY <1>1, Scanned
<1>3. /\ \A q, y : Pending(q, y) <=> (q = op /\ y = o) \/ Later(q, y)
      /\ \A q : Has(q) <=> q = op \/ HasOp(Tail(todo), q)
  BY <1>1, NowPending DEF IInv
<1>4. \A y : ~Pending("black", y) /\ ~Pending("undo", y) /\ ~Pending("trial", y)
  BY <1>2, <1>3 DEF Outside
<1>5. Scanning
  <2>1. Has("pop")
    BY <1>3 DEF IInv, Shape, ScanOps
  <2>2. QED
    BY <1>2, <1>3, <2>1 DEF Scanning
<1>6. x \in Object /\ Trialled = White
  BY <1>2 DEF White, Trialled
<1>7. ref_count[x] <= 0
  BY <1>4, <1>5, <1>6 DEF Sound, Unused
<1>8. White \subseteq Holders
  <2>1. ASSUME NEW p \in White
        PROVE  p \in Holders
    <3>1. p \in Object /\ Total(p) > 0
      BY <1>6 DEF White, Sound, Visited
    <3>2. QED
      BY <3>1, HeldLives DEF IInv
  <2>2. QED
    BY <2>1
<1>9. Times(todo, Call("trial", x)) = 0 /\ Times(todo, Call("undo", x)) = 0
  BY <1>4, <1>6, CountsAreNat DEF IInv
<1>10. ref_count[x] = Total(x) - Refs(items, x, White)
  BY <1>6, <1>9, CountsAreNat DEF IInv, Balance
<1>11. Refs(items, x, White) <= Refs(items, x, Holders)
  <2>1. IsFiniteSet(RefsIn(items, x, Holders))
    BY ItemsAreStored, RefsAreNat DEF IInv
  <2>2. RefsIn(items, x, White) \subseteq RefsIn(items, x, Holders)
    BY <1>8 DEF RefsIn
  <2>3. QED
    BY <2>1, <2>2, FS_Subset DEF Refs
<1>12. /\ handles[x] = 0 /\ Refs(items, x, Holders) <= Refs(items, x, White)
       /\ Refs(items, x, White) \in Nat /\ Refs(items, x, White) # 0
  <2>1. Total(x) > 0
    BY <1>6 DEF Sound, Visited
  <2>2. /\ Total(x) \in Nat /\ handles[x] \in Nat /\ ref_count[x] \in Int
        /\ Refs(items, x, White) \in Nat /\ Refs(items, x, Holders) \in Nat
        /\ Times(todo, Call("release", x)) \in Nat
    BY <1>6, CountsAreNat DEF IInv
  <2>3. Total(x) = handles[x] + Refs(items, x, Holders) + Times(todo, Call("release", x))
    BY DEF Total
  <2> DEFINE n == Total(x)
             h == handles[x]
             r == ref_count[x]
             w == Refs(items, x, White)
             a == Refs(items, x, Holders)
             t == Times(todo, Call("release", x))
  <2>4. n \in Nat /\ h \in Nat /\ r \in Int /\ w \in Nat /\ a \in Nat /\ t \in Nat
        /\ n > 0 /\ r <= 0 /\ r = n - w /\ w <= a /\ n = h + a + t
    BY <1>7, <1>10, <1>11, <2>1, <2>2, <2>3
  <2> HIDE DEF n, h, r, w, a, t
  <2>5. h = 0 /\ a <= w /\ w \in Nat /\ w # 0
    BY <2>4
  <2>6. QED
    BY <2>5 DEF h, a, w
<1>13. \A p \in Holders : Holds(p, x) => p \in White
  <2>1. Storing(items)
    BY ItemsAreStored DEF IInv
  <2>2. \A p \in Object : \A i : p \in Holders /\ i \in DOMAIN items[p] /\ items[p][i] = x => p \in White
    BY <1>8, <1>12, <2>1, RefsWithin
  <2>3. QED
    BY <2>2 DEF Holds, Holders
<1>14. \E p \in White : Holds(p, x)
  <2>1. RefsIn(items, x, White) # {}
    BY <1>12, ItemsAreStored, RefsAreNat DEF IInv
  <2>2. PICK r \in Object \X (1..MaxItems) : r[1] \in White /\ r[2] \in DOMAIN items[r[1]] /\ items[r[1]][r[2]] = x
    BY <2>1 DEF RefsIn
  <2>3. QED
    BY <2>2 DEF Holds
<1>15. QED
  BY <1>12, <1>13, <1>14

\* It is out of reach of the script, and refers to itself.
LEMMA WhiteIsGarbage ==
    ASSUME IInv, Sound, todo # <<>>, Head(todo).op \in {"pop", "white"}
    PROVE  Garbage(White)
<1> DEFINE S == {p \in Object : Total(p) > 0 /\ p \notin White}
<1>1. \A p \in Object : handles[p] > 0 => p \in S
  <2> SUFFICES ASSUME NEW p \in Object, handles[p] > 0
               PROVE  p \in S
    OBVIOUS
  <2>1. Total(p) > 0
    BY CountsAreNat DEF IInv, Total
  <2>2. p \notin White
    BY WhiteIsHeldByWhite, CountsAreNat DEF IInv
  <2>3. QED
    BY <2>1, <2>2
<1>2. \A p \in S : \A i \in DOMAIN items[p] : items[p][i] \in S
  <2> SUFFICES ASSUME NEW p \in S, NEW i \in DOMAIN items[p]
               PROVE  items[p][i] \in S
    OBVIOUS
  <2>1. items[p][i] \in Object /\ Holds(p, items[p][i])
    <3>1. items[p] \in Seq(Object)
      BY DEF IInv, Types
    <3>2. QED
      BY <3>1 DEF Holds
  <2>2. Total(items[p][i]) > 0
    BY <2>1, ItemsAreUsed
  <2>3. p \in Holders
    BY HeldLives DEF IInv
  <2>4. items[p][i] \notin White
    BY <2>1, <2>3, WhiteIsHeldByWhite
  <2>5. QED
    BY <2>1, <2>2, <2>4
<1>3. White \cap Reachable = {}
  <2>1. S \in SUBSET Object
    OBVIOUS
  <2> HIDE DEF S
  <2>2. Reachable \subseteq S
    BY <1>1, <1>2, <2>1 DEF Reachable
  <2>3. QED
    BY <2>2 DEF S
<1>4. \A x \in White : \E p \in White : \E i \in DOMAIN items[p] : items[p][i] = x
  BY WhiteIsHeldByWhite DEF Holds
<1>5. QED
  BY <1>3, <1>4 DEF Garbage

------------------------------------------------------------------------------
(* The steps. *)

\* The object that a call is made on was not freed, or is on the list.
LEMMA CalledLives ==
    ASSUME IInv, Sound, todo # <<>>, NEW op \in Op, NEW o \in Object, Head(todo) = Call(op, o)
    PROVE  \/ state[o] = "alive"
           \/ op \in {"mark", "scan", "scanned"} /\ OnChain(o)
<1>1. Pending(op, o)
  BY NowPending DEF IInv
<1>2. ASSUME Total(o) > 0
      PROVE  state[o] = "alive"
  BY <1>2, HeldLives DEF IInv
<1>3. CASE op = "release"
  <2>1. Total(o) > 0
    BY <1>1, <1>3, CountsAreNat DEF IInv, Total
  <2>2. QED
    BY <1>2, <2>1
<1>4. CASE op \in {"link", "destroy", "delete"}
  BY <1>1, <1>4 DEF Sound, Owned
<1>5. CASE op \in {"marked", "white"}
  BY <1>1, <1>5 DEF Sound, Visited
<1>6. CASE op \in {"grey", "trial", "black", "undo"}
  BY <1>1, <1>2, <1>6 DEF Sound, Visited
<1>7. CASE op = "scan"
  BY <1>1, <1>2, <1>7 DEF Sound, Visited
<1>8. CASE op = "mark"
  <2>1. op \in MarkOps
    BY <1>8 DEF MarkOps
  <2>2. \E pos \in [Object -> Int] : Ordered(pos) /\ \E K \in SUBSET Object : Kept(pos, K)
    BY <2>1, MarkCall
  <2>3. QED
    BY <1>1, <1>8, <2>2 DEF Kept, Passed
<1>9. CASE op = "scanned"
  <2>1. op \in ScanOps \cup {"pop"}
    BY <1>9 DEF ScanOps
  <2>2. QED
    BY <1>1, <1>9, <2>1, ScanCall
<1>10. CASE op \in {"collect", "scanAll", "pop"}
  BY <1>1, <1>10 DEF Sound, Owned
<1>11. QED
  BY <1>3, <1>4, <1>5, <1>6, <1>7, <1>8, <1>9, <1>10 DEF Op

\* Freed memory is touched by way of a link of the list alone.
LEMMA TouchedByLink ==
    ASSUME IInv, Sound, use_after_free
    PROVE  ListFault'
<1> DEFINE Led(x) == gc_root = x \/ \E p \in Object : next[p] = x \/ previous[p] = x
<1>1. /\ todo # <<>> /\ TouchesFreed(Head(todo))
      /\ fault' = Head(todo).op
      /\ UNCHANGED <<state, next, previous, gc_root>>
  BY DEF use_after_free, Stop, heap, list
<1>2. PICK op \in Op, o \in Object \cup {Nil} : Head(todo) = Call(op, o)
  <2>1. Head(todo) \in Calls
    BY <1>1 DEF IInv, Types
  <2>2. QED
    BY <2>1 DEF Calls, Call
<1>3. Head(todo).op = op /\ Head(todo).obj = o /\ Pending(op, o)
  BY <1>1, <1>2, NowPending DEF IInv, Call
<1>4. PICK x \in Touched(Head(todo)) : state[x] = "freed"
  BY <1>1 DEF TouchesFreed
<1> DEFINE Follow == {"link", "delete", "mark", "scan", "scanned", "pop"}
<1>5. x \in Object /\ op \in Follow /\ Led(x)
  <2>1. CASE op = "link"
    <3>1. Touched(Head(todo)) = {o, gc_root} \ {Nil}
      BY <1>3, <2>1 DEF Touched, Removes
    <3>2. x \in Object /\ (x = gc_root \/ x = o)
      BY <3>1 DEF IInv, Types
    <3>3. x # o
      BY <1>1, <1>2, <1>4, <2>1, <3>2, CalledLives
    <3>4. QED
      BY <2>1, <3>2, <3>3
  <2>2. CASE op = "pop" /\ gc_root # Nil
    <3>1. Touched(Head(todo)) = {gc_root, next[gc_root]} \ {Nil}
      BY <1>3, <2>2 DEF Touched, Removes
    <3>2. gc_root \in Object /\ next[gc_root] \in Object \cup {Nil}
      BY <2>2 DEF IInv, Types
    <3>3. QED
      BY <2>2, <3>1, <3>2
  <2>3. CASE Removes(Head(todo))
    <3>1. /\ op \in {"delete", "mark"}
          /\ Touched(Head(todo)) = {o, next[o], previous[o]} \ {Nil}
      BY <1>3, <2>3 DEF Touched, Removes
    <3>2. o \in Object
      BY <1>3, <2>3 DEF Removes, Sound, Owned
    <3>3. next[o] \in Object \cup {Nil} /\ previous[o] \in Object \cup {Nil}
      BY <3>2 DEF IInv, Types
    <3>4. x \in Object /\ (x = o \/ x = next[o] \/ x = previous[o])
      BY <3>1, <3>2, <3>3
    <3>5. x = o => OnChain(o)
      BY <1>1, <1>2, <1>4, <3>2, CalledLives
    <3>6. x = o => Led(x)
      BY <3>2, <3>5, LedTo DEF IInv
    <3>7. QED
      BY <3>1, <3>2, <3>4, <3>6
  <2>4. CASE op # "link" /\ ~(op = "pop" /\ gc_root # Nil) /\ ~Removes(Head(todo))
    <3>1. Touched(Head(todo)) = {o} \ {Nil}
      BY <1>3, <2>4 DEF Touched
    <3>2. x = o /\ o \in Object
      BY <3>1
    <3>3. op \in {"mark", "scan", "scanned"} /\ OnChain(o)
      BY <1>1, <1>2, <1>4, <3>2, CalledLives
    <3>4. QED
      BY <3>2, <3>3, LedTo DEF IInv
  <2>5. QED
    BY <2>1, <2>2, <2>3, <2>4
<1>6. QED
  BY <1>1, <1>3, <1>4, <1>5 DEF ListFault

\* What a script does keeps what the memory manager needs,
LEMMA MutatorStep ==
    ASSUME IInv, Mutator
    PROVE  IInv' /\ Sound'
<1>1. IInv'
  <2>1. ASSUME NEW o \in Object, New(o) PROVE IInv'
    BY <2>1, New_Step
  <2>2. ASSUME NEW o \in Object, Copy(o) PROVE IInv'
    BY <2>2, Copy_Step
  <2>3. ASSUME NEW o \in Object, Drop(o) PROVE IInv'
    BY <2>3, Drop_Step
  <2>4. ASSUME NEW o \in Object, PopLast(o) PROVE IInv'
    BY <2>4, PopLast_Step
  <2>5. ASSUME NEW p \in Object, NEW o \in Object, Append_(p, o) PROVE IInv'
    BY <2>5, Append_Step
  <2>6. ASSUME suspend_gc \/ resume_gc PROVE IInv'
    BY <2>6, Stutter DEF suspend_gc, resume_gc, list
  <2>7. QED
    BY <2>1, <2>2, <2>3, <2>4, <2>5, <2>6 DEF Mutator
<1>2. todo' = <<>> \/ \E o \in Object : todo' = <<Call("release", o)>>
  <2>1. ASSUME NEW p \in Object, PopLast(p)
        PROVE  \E o \in Object : todo' = <<Call("release", o)>>
    <3>1. items[p] \in Seq(Object) /\ items[p] # <<>>
      BY <2>1 DEF PopLast, IInv, Types
    <3>2. items[p][Len(items[p])] \in Object
      BY <3>1
    <3>3. QED
      BY <2>1, <3>2 DEF PopLast
  <2>2. QED
    BY <2>1 DEF Mutator, New, Copy, Drop, Append_, suspend_gc, resume_gc, AtRest
<1>3. Owned' /\ Idle'
  BY <1>2, RestOwned
<1>4. (IInv /\ Idle /\ Owned => Sound)'
  BY IdleSound, PTL
<1>5. QED
  BY <1>1, <1>3, <1>4

\* ... and so does what the memory manager does, up to the step that stops the
\* program, in a regular run.
LEMMA InternalStep ==
    ASSUME IInv, Sound, Internal, fault' = "none", Regular'
    PROVE  IInv' /\ Sound'
<1>1. ASSUME NEW o \in Object, release(o) PROVE IInv' /\ Sound'
  BY <1>1, release_Step, release_Sound
<1>2. ASSUME NEW o \in Object, link(o) PROVE IInv' /\ Sound'
  BY <1>2, link_Step, link_Sound
<1>3. ASSUME NEW o \in Object, destroy(o) PROVE IInv' /\ Sound'
  <2>1. ~Dying(o)
    BY <1>3 DEF destroy, Stop
  <2>2. QED
    BY <1>3, <2>1, destroy_Step, destroy_Sound
<1>4. ASSUME NEW o \in Object, delete(o) PROVE IInv' /\ Sound'
  BY <1>4, delete_Step, delete_Sound
<1>5. ASSUME NEW o \in Object, mark_candidates(o) PROVE IInv' /\ Sound'
  <2>1. ~Dying(o)
    BY <1>5 DEF mark_candidates, Regular
  <2>2. CASE gc_color[o] = "purple"
    BY <1>5, <2>1, <2>2, mark_purple_Step, mark_purple_Sound
  <2>3. CASE gc_color[o] # "purple" /\ ~(gc_color[o] = "black" /\ ref_count[o] <= 0)
    BY <1>5, <2>3, mark_other_Step, mark_other_Sound
  <2>4. CASE gc_color[o] = "black" /\ ref_count[o] <= 0
    BY <1>5, <2>1, <2>4, MarkedDies
  <2>5. QED
    BY <2>2, <2>3, <2>4
<1>6. ASSUME NEW o \in Object, mark_next(o) PROVE IInv' /\ Sound'
  BY <1>6, mark_next_Step, mark_next_Sound
<1>7. ASSUME NEW o \in Object, mark_grey(o) PROVE IInv' /\ Sound'
  BY <1>7, mark_grey_Step, mark_grey_again_Step, mark_grey_Sound
<1>8. ASSUME NEW o \in Object, trial_deletion(o) PROVE IInv' /\ Sound'
  BY <1>8, trial_deletion_Step, trial_deletion_Sound
<1>9. ASSUME NEW o \in Object, scan_next(o) PROVE IInv' /\ Sound'
  BY <1>9, scan_next_Step, scan_next_Sound
<1>10. ASSUME NEW o \in Object, scan(o) PROVE IInv' /\ Sound'
  <2>1. CASE gc_color[o] # "grey"
    BY <1>10, <2>1, scan_other_Step, scan_other_Sound
  <2>2. CASE gc_color[o] = "grey" /\ ref_count[o] > 0
    BY <1>10, <2>2, scan_live_Step, scan_live_Sound
  <2>3. CASE gc_color[o] = "grey" /\ ~(ref_count[o] > 0)
    BY <1>10, <2>3, scan_white_Step, scan_white_Sound
  <2>4. QED
    BY <2>1, <2>2, <2>3
<1>11. ASSUME NEW o \in Object, scan_black(o) PROVE IInv' /\ Sound'
  BY <1>11, scan_black_Step, scan_black_Sound
<1>12. ASSUME NEW o \in Object, undo_trial_deletion(o) PROVE IInv' /\ Sound'
  BY <1>12, undo_Step, undo_black_Step, undo_Sound
<1>13. ASSUME NEW o \in Object, collect_white(o) PROVE IInv' /\ Sound'
  <2>1. todo # <<>> /\ Head(todo).op \in {"pop", "white"}
    BY <1>13, CallingMeans DEF collect_white, Call
  <2>2. Garbage(White)
    BY <2>1, WhiteIsGarbage
  <2>3. ~(gc_color[o] = "white" /\ ~is_candidate(o))
    BY <1>13, <2>2 DEF collect_white, Regular
  <2>4. QED
    BY <1>13, <2>3, white_Step, white_Sound
<1>14. ASSUME collect PROVE IInv' /\ Sound'
  BY <1>14, collect_Step, collect_paused_Step, collect_Sound
<1>15. ASSUME mark_candidates(Nil) PROVE IInv' /\ Sound'
  BY <1>15, mark_end_Step, mark_end_Sound
<1>16. ASSUME scan_candidates PROVE IInv' /\ Sound'
  BY <1>16, scan_candidates_Step, scan_candidates_Sound
<1>17. ASSUME pop_candidate PROVE IInv' /\ Sound'
  BY <1>17, pop_end_Step, pop_Step, pop_end_Sound, pop_Sound
<1>18. ASSUME use_after_free PROVE FALSE
  <2>1. Head(todo).op = "none"
    BY <1>18 DEF use_after_free, Stop
  <2>2. Head(todo) \in Calls
    BY <1>18 DEF use_after_free, IInv, Types
  <2>3. QED
    BY <2>1, <2>2 DEF Calls, Op
<1>19. ~assert_fails
  BY DEF assert_fails, Stop
<1>20. QED
  BY <1>1, <1>2, <1>3, <1>4, <1>5, <1>6, <1>7, <1>8, <1>9, <1>10, <1>11, <1>12,
     <1>13, <1>14, <1>15, <1>16, <1>17, <1>18, <1>19 DEF Internal

\* A run that is not regular is not made so.
LEMMA Irregular ==
    ASSUME Next, ~Regular
    PROVE  ~Regular'
<1>1. ASSUME NEW o, mark_candidates(o)
      PROVE  ~Regular'
  <2>1. (interrupted => interrupted') /\ (cycle_found => cycle_found')
    BY <1>1 DEF mark_candidates
  <2>2. QED
    BY <2>1 DEF Regular
<1>2. ASSUME NEW o, collect_white(o)
      PROVE  ~Regular'
  <2>1. (interrupted => interrupted') /\ (cycle_found => cycle_found')
    BY <1>2 DEF collect_white
  <2>2. QED
    BY <2>1 DEF Regular
<1>3. CASE UNCHANGED history
  BY <1>3 DEF Regular, history
<1>4. Mutator => UNCHANGED history
  BY DEF Mutator, New, Copy, Drop, PopLast, Append_, suspend_gc, resume_gc
<1>5. Internal => UNCHANGED history \/ \E o : mark_candidates(o) \/ collect_white(o)
  BY DEF Internal, release, link, destroy, delete, mark_next, mark_grey, trial_deletion,
         scan_next, scan, scan_black, undo_trial_deletion, collect,
         scan_candidates, pop_candidate, use_after_free, assert_fails
<1>6. QED
  BY <1>1, <1>2, <1>3, <1>4, <1>5 DEF Next

\* A program that was stopped does nothing more.
LEMMA Running == Next => fault = "none"
BY DEF Next, Mutator, Internal, New, Copy, Drop, PopLast, Append_, suspend_gc, resume_gc, AtRest,
       release, link, destroy, delete, mark_candidates, mark_next, mark_grey, trial_deletion,
       scan_next, scan, scan_black, undo_trial_deletion, collect_white, collect,
       scan_candidates, pop_candidate, use_after_free, assert_fails, Calling

\* What stops it.
LEMMA Stops ==
    ASSUME Next, fault' # "none"
    PROVE  (\E o \in Object : destroy(o) /\ Dying(o)) \/ use_after_free \/ assert_fails
BY Running DEF Next, Mutator, Internal, New, Copy, Drop, PopLast, Append_, suspend_gc, resume_gc,
       release, link, destroy, delete, mark_candidates, mark_next, mark_grey, trial_deletion,
       scan_next, scan, scan_black, undo_trial_deletion, collect_white, collect,
       scan_candidates, pop_candidate

\* The heap is what a script, a destruction or a creation makes of it.
LEMMA SameHeap ==
    ASSUME UNCHANGED heap
    PROVE  LiveNotFreed => LiveNotFreed'
BY DEF LiveNotFreed, Reachable, heap

\* In a regular run the list alone stops the program.
LEMMA ListStops ==
    ASSUME IInv, Sound, Next, fault' # "none"
    PROVE  UNCHANGED heap /\ todo' = <<>> /\ ListFault'
<1>1. ASSUME NEW o \in Object, destroy(o)
      PROVE  ~Dying(o)
  <2>1. Pending("destroy", o)
    BY <1>1, CallingMeans, NowPending DEF destroy, IInv
  <2>2. QED
    BY <2>1 DEF Sound, Owned
<1>2. CASE use_after_free
  BY <1>2, TouchedByLink DEF use_after_free, Stop
<1>3. CASE assert_fails
  BY <1>3 DEF assert_fails, Stop, ListFault
<1>4. QED
  BY <1>1, <1>2, <1>3, Stops

------------------------------------------------------------------------------
(* The theorems. *)

Inv ==
    Regular => /\ fault = "none" => IInv /\ Sound
               /\ fault # "none" => LiveNotFreed /\ ListFault /\ todo = <<>>

\* Each step keeps the invariant,
LEMMA InvStep == Inv /\ [Next]_vars => Inv'
<1> SUFFICES ASSUME Inv, [Next]_vars
             PROVE  Inv'
  OBVIOUS
<1>1. CASE UNCHANGED vars
  <2>1. IInv => IInv'
    BY <1>1, Stutter DEF vars, heap
  <2>2. Sound => Sound'
    BY <1>1 DEF vars, Sound, Owned, Visited, Unused, Scanning, Has, Pending, In, HasOp, Dying,
                Trialled, Grey, White, Total, Holders, Refs, RefsIn, Times,
                OnChain, ChainClosed, NextClosed
  <2>3. LiveNotFreed => LiveNotFreed'
    BY <1>1, SameHeap DEF vars, heap
  <2>4. fault' = fault /\ Regular' = Regular /\ todo' = todo /\ ListFault' = ListFault
    BY <1>1 DEF vars, Regular, ListFault
  <2>5. QED
    BY <2>1, <2>2, <2>3, <2>4 DEF Inv
<1>2. CASE Next
  <2>1. SUFFICES ASSUME Regular'
                 PROVE  Inv'
    BY DEF Inv
  <2>2. IInv /\ Sound /\ LiveNotFreed
    BY <1>2, <2>1, Irregular, Running, ReachableLives DEF Inv
  <2>3. CASE fault' = "none"
    BY <1>2, <2>1, <2>2, <2>3, MutatorStep, InternalStep DEF Inv, Next
  <2>4. CASE fault' # "none"
    BY <1>2, <2>2, <2>4, ListStops, SameHeap DEF Inv
  <2>5. QED
    BY <2>3, <2>4
<1>3. QED
  BY <1>1, <1>2

\* ... which holds at the start.
LEMMA InvInit == Init => Inv
<1> SUFFICES ASSUME Init
             PROVE  IInv /\ Sound /\ fault = "none"
  BY DEF Inv
<1>1. IInv /\ todo = <<>> /\ fault = "none"
  BY InitiallyIInv DEF Init
<1>2. /\ \A q, x : ~Pending(q, x)
      /\ \A q : ~Has(q)
  BY <1>1, NoCalls DEF Pending, Has
<1>3. Idle
  BY <1>2 DEF Idle
<1>4. Owned
  <2>1. \A x \in Object : Times(todo, Call("delete", x)) = 0
    BY <1>1, <1>2, CountsAreNat DEF IInv
  <2>2. QED
    BY <1>2, <2>1 DEF Owned
<1>5. QED
  BY <1>1, <1>3, <1>4, IdleSound

\* In a regular run the memory manager is as IInv and Sound say, up to the step at
\* which the list of candidates stops the program.
THEOREM Invariance == Spec => []Inv
BY InvInit, InvStep, PTL DEF Spec

\* In a regular run, whatever destructions and collections release, mark_candidates
\* and pop_candidate set off, no object is freed that the script can reach, no
\* destructor is entered twice, and freed memory is touched by way of a link of the list
\* of candidates alone.
THEOREM MemoryIsSafe == Spec => []MemorySafe
<1>1. Inv => MemorySafe
  BY ReachableLives DEF Inv, MemorySafe
<1>2. QED
  BY <1>1, Invariance, PTL

\* Between two calls of a regular run ref_count is the number of the handles and items
\* that refer to the object: a collection has given back, in scan_black, all that
\* trial deletion took, and nothing without references is left alive.
THEOREM CountsAreExact == Spec => []CountsExact
<1>1. Inv => CountsExact
  <2> SUFFICES ASSUME Inv, AtRest, Regular, NEW o \in Object, state[o] = "alive"
               PROVE  ref_count[o] = References(o) /\ ref_count[o] > 0
    BY DEF CountsExact
  <2>1. IInv /\ todo = <<>>
    BY DEF Inv, AtRest
  <2>2. ref_count[o] = Total(o) /\ Total(o) > 0 /\ Total(o) \in Nat
    BY <2>1, Resting DEF IInv
  <2>3. Times(todo, Call("release", o)) = 0
    BY <2>1, Resting DEF IInv
  <2>4. References(o) = Total(o)
    BY <2>1, <2>3, ReferencesCount
  <2>5. QED
    BY <2>2, <2>4
<1>2. QED
  BY <1>1, Invariance, PTL

\* Between two calls of a regular run an object is black, or purple as a candidate: scan
\* has colored again whatever mark_grey colored.
THEOREM ColorsAreSettled == Spec => []ColorsAtRest
<1>1. Inv => ColorsAtRest
  <2> SUFFICES ASSUME Inv, AtRest, Regular, NEW o \in Object, state[o] = "alive"
               PROVE  gc_color[o] \in {"black", "purple"}
    BY DEF ColorsAtRest
  <2>1. IInv /\ todo = <<>>
    BY DEF Inv, AtRest
  <2>2. Trialled = {}
    BY <2>1, Resting DEF IInv
  <2>3. QED
    BY <2>1, <2>2 DEF IInv, Types, Trialled, Grey, White
<1>2. QED
  BY <1>1, Invariance, PTL

\* In a regular run what collect_white is about to destroy is garbage: the script
\* reaches none of it, and each of its objects is held by another of them.
THEOREM WhatIsFoundIsGarbage == Spec => []FoundIsGarbage
<1>1. Inv => FoundIsGarbage
  BY WhiteIsGarbage DEF Inv, FoundIsGarbage
<1>2. QED
  BY <1>1, Invariance, PTL
==============================================================================
