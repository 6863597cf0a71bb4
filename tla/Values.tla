------------------------------- MODULE Values -------------------------------
(***************************************************************************)
(* Variants as the virtual machine uses them (variant.cpp, runtime.cpp):   *)
(* copies share the lists they hold, a reference moves the value of a      *)
(* variable into a box (Alias) that it shares, and a list is cloned        *)
(* (unshare) when it is about to be changed and another variant holds it.  *)
(* A script executes statements; a statement is the opcodes that the       *)
(* compiler emits for it, executed one by one.                             *)
(*                                                                         *)
(* A list holds scalars and references to scalars, never lists, and is not *)
(* empty.  Statements that end in an error (an index out of range...) are  *)
(* not chosen.  A loop is the last statement of the routine, whose locals   *)
(* are destroyed after it.                                                 *)
(***************************************************************************)
EXTENDS Naturals, Sequences, FiniteSets

CONSTANTS Global, Local,
          Param,          \* the reference parameter of the routine that is called
          Each,           \* the loop variable of foreach
          Scalar, Null,   \* values that are copied, and null
          Box,            \* objects of type Alias
          List,           \* objects of type List
          Freed,          \* the content of an object that does not exist
          MaxLength,      \* bound: items of a list
          Precaution      \* what scripts are careful about: see Careful

ASSUME DistinctVariables ==
    /\ {Param, Each} \cap (Global \cup Local) = {}
    /\ Param # Each
    /\ Global \cap Local = {}

ASSUME BoundIsPositive == MaxLength \in Nat \ {0}

Variable == Global \cup Local \cup {Param, Each}

Object == Box \cup List

Variant == {Null} \cup Scalar \cup Object

ASSUME FinitelyMany == IsFiniteSet(Variable) /\ IsFiniteSet(Object)

ASSUME DistinctValues ==
    /\ Box \cap List = {}
    /\ Object \cap Scalar = {}
    /\ Null \notin Scalar \cup Object
    /\ Freed \notin Variant
    /\ Freed \notin Seq(Variant)

VARIABLES heap,           \* variables, objects, the stack, the iterator's collection
          iter,           \* the iterator: raw pointer to a list, position, by reference
          called,         \* the routine is being executed
          stmt,           \* the statement being executed
          code            \* its opcodes that remain

vars == <<heap, iter, called, stmt, code>>
-----------------------------------------------------------------------------
(* Variants: variant.cpp                                                   *)

Heap == [var  : [Variable -> Variant],
         box  : [Box -> Variant \cup {Freed}],      \* Alias::variant
         list : [List -> Seq(Variant) \cup {Freed}],
         stack : Seq(Variant),
         object : Variant]                          \* Iterator::object

\* The places of variants.
Var(x)     == <<"var", x>>
InBox(b)   == <<"box", b>>
Item(l, i) == <<"item", l, i>>
Stack(i)   == <<"stack", i>>
Iterated   == <<"object">>

Get(h, p) == CASE p[1] = "var"    -> h.var[p[2]]
               [] p[1] = "box"    -> h.box[p[2]]
               [] p[1] = "item"   -> h.list[p[2]][p[3]]
               [] p[1] = "stack"  -> h.stack[p[2]]
               [] p[1] = "object" -> h.object

Put(h, p, v) == CASE p[1] = "var"    -> [h EXCEPT !.var[p[2]] = v]
                  [] p[1] = "box"    -> [h EXCEPT !.box[p[2]] = v]
                  [] p[1] = "item"   -> [h EXCEPT !.list[p[2]][p[3]] = v]
                  [] p[1] = "stack"  -> [h EXCEPT !.stack[p[2]] = v]
                  [] p[1] = "object" -> [h EXCEPT !.object = v]

\* The objects reached from those in start, where o leads to content[o].
Reached(start, content) ==
    LET reached[n \in Nat] == IF n = 0 THEN start
                              ELSE UNION {content[o] : o \in reached[n - 1]}
    IN  reached[Cardinality(DOMAIN content)]

\* The boxes that resolve goes through from the variant v.
Chain(h, v) == Reached({v} \cap Box, [b \in Box |-> {b, h.box[b]} \cap Box])

\* The places that it goes through from the place p.
Path(h, p) == {p} \cup {InBox(b) : b \in Chain(h, Get(h, p))}

\* resolve ends, unless boxes hold each other in a circle
Resolves(h, p) == \E q \in Path(h, p) : Get(h, q) \notin Box

\* The place that it finds, and what is there.
Place(h, p) == CHOOSE q \in Path(h, p) : Get(h, q) \notin Box

Resolve(h, p) == CHOOSE v \in {Get(h, q) : q \in Path(h, p)} : v \notin Box

Items(h, l) == IF h.list[l] = Freed THEN <<>> ELSE h.list[l]

Places(h) ==
    {Var(x) : x \in Variable} \cup {InBox(b) : b \in Box} \cup {Iterated}
    \cup {Stack(i) : i \in DOMAIN h.stack}
    \cup UNION {{Item(l, i) : i \in DOMAIN Items(h, l)} : l \in List}

\* How many variants hold the object o: its ref_count.
Count(h, o) == Cardinality({p \in Places(h) : Get(h, p) = o})

\* Objects that no variant reaches have been released.
Release(h) ==
    LET Content(o) == IF o \in Box THEN {h.box[o]}
                      ELSE {Items(h, o)[i] : i \in DOMAIN Items(h, o)}
        Roots == {h.var[x] : x \in Variable} \cup {h.stack[i] : i \in DOMAIN h.stack}
                 \cup {h.object}
        Live == Reached(Roots \cap Object, [o \in Object |-> ({o} \cup Content(o)) \cap Object])
    IN  [h EXCEPT !.box = [b \in Box |-> IF b \in Live THEN h.box[b] ELSE Freed],
                  !.list = [l \in List |-> IF l \in Live THEN h.list[l] ELSE Freed]]

NewBox(h) == CHOOSE b \in Box : h.box[b] = Freed

NewListOf(h) == CHOOSE l \in List : h.list[l] = Freed

\* make_alias: a variant that is no alias moves into a new box
make_alias(h, p) ==
    IF Get(h, p) \in Box THEN h
    ELSE Put([h EXCEPT !.box[NewBox(h)] = Get(h, p)], p, NewBox(h))

\* Mutant of Clone: the copy shares the references of the original.
Clone_aliased(h, l) == h.list[l]

\* the copy constructor of List: the items of the copy are unaliased
Clone(h, l) == [i \in DOMAIN h.list[l] |-> Resolve(h, Item(l, i))]

\* unshare: a list that another variant holds too is cloned
unshare(h, p) ==
    LET l == Resolve(h, p)
    IN  IF l \in List /\ Count(h, l) > 1
        THEN Put([h EXCEPT !.list[NewListOf(h)] = Clone(h, l)], Place(h, p), NewListOf(h))
        ELSE h

\* operator=: the variant that the left side resolves to receives v as it is
assign(h, p, v) == Put(h, Place(h, p), v)

Push(h, v) == [h EXCEPT !.stack = Append(@, v)]

Pop(h, n) == [h EXCEPT !.stack = SubSeq(@, 1, Len(@) - n)]

Top(h) == h.stack[Len(h.stack)]
-----------------------------------------------------------------------------
(* Statements and their opcodes: compiler.cpp                              *)

Index == 1..MaxLength

Statement ==
    [op : {"set", "list", "append"}, x : Variable, w : Scalar]      \* x = w, x = [w], append(x, w)
      \cup [op : {"copy", "ref", "listOf"}, x : Variable, y : Variable]     \* x = y, x = ref y, x = [ref y]
      \cup [op : {"item", "itemRef"}, x : Variable, y : Variable, i : Index] \* x = y[i], x = ref y[i]
      \cup [op : {"setItem"}, x : Variable, i : Index, w : Scalar]  \* x[i] = w
      \cup [op : {"foreach"}, x : Variable, by_ref : BOOLEAN]       \* foreach Each in x
      \cup [op : {"call"}, x : Variable]                            \* routine(x)

\* visit_assignment, visit_reference_expression, visit_list, visit_index, visit_call
Compile(s) ==
    CASE s.op = "set"     -> <<[op |-> "Push", w |-> s.w], [op |-> "Set", x |-> s.x]>>
      [] s.op = "copy"    -> <<[op |-> "Get", x |-> s.y], [op |-> "Set", x |-> s.x]>>
      [] s.op = "ref"     -> <<[op |-> "GetRef", x |-> s.y], [op |-> "Set", x |-> s.x]>>
      [] s.op = "list"    -> <<[op |-> "Push", w |-> s.w], [op |-> "NewList"],
                               [op |-> "Set", x |-> s.x]>>
      [] s.op = "listOf"  -> <<[op |-> "GetRef", x |-> s.y], [op |-> "NewList"],
                               [op |-> "Set", x |-> s.x]>>
      [] s.op = "item"    -> <<[op |-> "Get", x |-> s.y], [op |-> "GetIndex", i |-> s.i],
                               [op |-> "Set", x |-> s.x]>>
      [] s.op = "itemRef" -> <<[op |-> "GetUnique", x |-> s.y], [op |-> "GetIndexRef", i |-> s.i],
                               [op |-> "Set", x |-> s.x]>>
      [] s.op = "setItem" -> <<[op |-> "GetUnique", x |-> s.x], [op |-> "Push", w |-> s.w],
                               [op |-> "SetIndex", i |-> s.i]>>
      [] s.op = "append"  -> <<[op |-> "GetRef", x |-> s.x], [op |-> "Push", w |-> s.w],
                               [op |-> "CallAppend"]>>
      [] s.op = "foreach" -> <<[op |-> "GetRef", x |-> s.x], [op |-> "NewIterator"]>>
      [] s.op = "next"    -> <<[op |-> "ClearLocal", x |-> Each], [op |-> "NextValue"],
                               [op |-> "Set", x |-> Each]>>
      [] s.op = "call"    -> <<[op |-> "GetRef", x |-> s.x], [op |-> "Call"]>>
      [] s.op = "return"  -> <<[op |-> "PopLocal", x |-> Each],
                               [op |-> "PopLocal", x |-> Param]>>

ListAt(x) == Resolve(heap, Var(x))

HoldsList(x) == ListAt(x) \in List

Length(x) == Len(heap.list[ListAt(x)])

\* find_local: a name is visible in the routine and the loop that declare it
Visible(x) ==
    \/ x \in Global
    \/ x \in Local /\ ~called
    \/ x = Param /\ called
    \/ x = Each /\ iter.open

\* Some list has x as an item, so that x is not given a list.
IsItem(x) ==
    \E l \in List : /\ heap.list[l] # Freed
                    /\ \E i \in DOMAIN heap.list[l] :
                           Place(heap, Item(l, i)) = Place(heap, Var(x))

\* Bound: boxes and lists are left for what a statement creates.
Room(boxes, lists) ==
    /\ Cardinality({b \in Box : heap.box[b] = Freed}) >= boxes
    /\ Cardinality({l \in List : heap.list[l] = Freed}) >= lists

\* How many boxes it takes to make an alias of what is in p.
NewBoxes(p) == IF Get(heap, p) \in Box THEN 0 ELSE 1

\* The statements that run without an error.
Possible(s) ==
    /\ Visible(s.x)
    /\ \/ s.op = "set"
       \/ s.op = "list"    /\ Room(0, 1) /\ ~IsItem(s.x)
       \/ s.op = "copy"    /\ Visible(s.y) /\ (HoldsList(s.y) => ~IsItem(s.x))
       \/ s.op = "ref"     /\ Room(1, 1) /\ Visible(s.y) /\ (HoldsList(s.y) => ~IsItem(s.x))
       \/ s.op = "listOf"  /\ Room(1, 1) /\ Visible(s.y) /\ ~HoldsList(s.y) /\ ~IsItem(s.x)
                           /\ Place(heap, Var(s.x)) # Place(heap, Var(s.y))
       \/ s.op = "item"    /\ Visible(s.y) /\ HoldsList(s.y) /\ s.i <= Length(s.y)
       \/ s.op = "itemRef" /\ Room(1, 1) /\ Visible(s.y) /\ HoldsList(s.y) /\ s.i <= Length(s.y)
       \/ s.op = "setItem" /\ HoldsList(s.x) /\ s.i <= Length(s.x)
                           /\ Room(0, IF heap.var[s.x] \in Box THEN 1 ELSE 2)
       \/ s.op = "append"  /\ Room(1, 1) /\ HoldsList(s.x) /\ Length(s.x) < MaxLength
       \/ s.op = "foreach" /\ HoldsList(s.x) /\ called /\ ~iter.open
                           /\ Room(NewBoxes(Var(s.x))
                                     + (IF Count(heap, ListAt(s.x)) > 1 THEN 1
                                        ELSE NewBoxes(Item(ListAt(s.x), 1))), 1)
       \/ s.op = "call"    /\ Room(1, 1) /\ ~called
-----------------------------------------------------------------------------
(* What scripts have to be careful about, so that values stay values.      *)

\* No other variant leads to the item but through its list.
Alone(h, l, i) ==
    \A q \in Path(h, Item(l, i)) \ {Item(l, i)} : Count(h, q[2]) = 1

Plain(h, l) == \A i \in DOMAIN h.list[l] : Alone(h, l, i)

IsCollection(x) == iter.open /\ Place(heap, Var(x)) = Place(heap, Iterated)

Careful(s) ==
    \* a reference to itself makes resolve loop for ever
    /\ "acyclic" \in Precaution =>
          /\ (s.op = "ref" => Place(heap, Var(s.x)) # Place(heap, Var(s.y)))
          /\ (s.op = "itemRef" => Place(heap, Var(s.x)) # Place(heap, Item(ListAt(s.y), s.i)))
    \* an item is only assigned through a reference
    /\ "update" \in Precaution =>
          (s.op = "setItem" => heap.var[s.x] \in Box)
    \* a loop by reference over a local has its list for itself
    /\ "loop" \in Precaution =>
          (s.op = "foreach" /\ s.by_ref /\ s.x \notin Global => Count(heap, ListAt(s.x)) = 1)
    \* a list with references in it is not copied, nor read by a loop by value
    /\ "plain" \in Precaution =>
          /\ (s.op = "copy" /\ HoldsList(s.y) => Plain(heap, ListAt(s.y)))
          /\ (s.op = "foreach" /\ ~s.by_ref =>
                 \A i \in 1..Length(s.x) : heap.list[ListAt(s.x)][i] \notin Box)
    \* a loop leaves its collection as it is
    /\ "collection" \in Precaution =>
          /\ (IsCollection(s.x) => /\ s.op \in {"append", "setItem", "call"}
                                  /\ Count(heap, ListAt(s.x)) = 1)
          /\ (s.op = "copy" /\ IsCollection(s.y) => ~iter.by_ref)
          /\ (s.op = "itemRef" /\ IsCollection(s.y) => iter.by_ref)
          /\ (s.op \in {"ref", "itemRef"} /\ IsCollection(s.y) => Count(heap, ListAt(s.y)) = 1)
-----------------------------------------------------------------------------
(* Execution: Runtime::interpret                                           *)

NoLoop == [list |-> Null, pos |-> 0, by_ref |-> FALSE, open |-> FALSE, over |-> Null]

NoStatement == [op |-> "none"]

Init ==
    /\ heap = [var |-> [x \in Variable |-> Null], box |-> [b \in Box |-> Freed],
               list |-> [l \in List |-> Freed], stack |-> <<>>, object |-> Null]
    /\ iter = NoLoop
    /\ called = FALSE
    /\ stmt = NoStatement
    /\ code = <<>>

Begin(s) ==
    /\ code = <<>>
    /\ stmt' = s
    /\ code' = Compile(s)
    /\ UNCHANGED <<heap, iter, called>>

Execute(s) ==
    /\ code = <<>>
    /\ IF iter.open THEN iter.pos > 1
       ELSE heap.object = Null          \* bound: the loop ends the routine
    /\ Possible(s)
    /\ Careful(s)
    /\ Begin(s)

\* Mutant of BeginTurn: one turn too many.
BeginTurn_late ==
    /\ iter.open
    /\ heap.list[iter.list] # Freed
    /\ LET n == Len(heap.list[iter.list])
       IN  /\ iter.pos <= n + 1
           /\ iter.by_ref /\ iter.pos <= n => Room(NewBoxes(Item(iter.list, iter.pos)), 0)
    /\ Begin([op |-> "next", i |-> iter.pos])

\* TestIterator: the loop goes on
BeginTurn ==
    /\ iter.open
    /\ heap.list[iter.list] # Freed     \* see IteratorFollowsCollection
    /\ iter.pos <= Len(heap.list[iter.list])
    /\ iter.by_ref => Room(NewBoxes(Item(iter.list, iter.pos)), 0)
    /\ Begin([op |-> "next", i |-> iter.pos])

\* the jump out of the loop, or break; the locals of the loop keep their values
EndLoop ==
    /\ code = <<>>
    /\ iter.open
    /\ iter.pos > 1
    /\ iter' = NoLoop
    /\ UNCHANGED <<heap, called, stmt, code>>

BeginReturn ==
    /\ called
    /\ ~iter.open
    /\ Begin([op |-> "return"])

Is(o) == code # <<>> /\ Head(code).op = o

\* The next opcode makes h of the heap.
Step(h) ==
    /\ \E next \in {h} : heap' = Release(next)
    /\ code' = Tail(code)
    /\ stmt' = IF Tail(code) = <<>> THEN NoStatement ELSE stmt

X == Head(code).x

PushConstant ==
    /\ Is("Push")
    /\ Step(Push(heap, Head(code).w))
    /\ UNCHANGED <<iter, called>>

GetVariable ==
    /\ Is("Get")
    /\ Resolves(heap, Var(X))
    /\ Step(Push(heap, Resolve(heap, Var(X))))
    /\ UNCHANGED <<iter, called>>

\* Mutant of GetReference: globals are not unshared either.
GetReference_shared ==
    /\ Is("GetRef")
    /\ \E h \in {make_alias(heap, Var(X))} : Step(Push(h, h.var[X]))
    /\ UNCHANGED <<iter, called>>

\* GetGlobalRef and GetGlobalArg unshare, GetLocalRef and GetLocalArg do not.
GetReference ==
    /\ Is("GetRef")
    /\ X \in Global => Resolves(heap, Var(X))
    /\ \E u \in {IF X \in Global THEN unshare(heap, Var(X)) ELSE heap} :
          \E h \in {make_alias(u, Var(X))} : Step(Push(h, h.var[X]))
    /\ UNCHANGED <<iter, called>>

GetUnique ==
    /\ Is("GetUnique")
    /\ Resolves(heap, Var(X))
    /\ \E h \in {unshare(heap, Var(X))} : Step(Push(h, h.var[X]))
    /\ UNCHANGED <<iter, called>>

\* SetGlobal, SetLocal, DefineLocal: the variant on the stack is moved as it is
SetVariable ==
    /\ Is("Set")
    /\ Resolves(heap, Var(X))
    /\ Step(assign(Pop(heap, 1), Var(X), Top(heap)))
    /\ UNCHANGED <<iter, called>>

\* Mutant of ClearLocal: the reference of the last turn stays.
ClearLocal_kept ==
    /\ Is("ClearLocal")
    /\ Step(heap)
    /\ UNCHANGED <<iter, called>>

ClearLocal ==
    /\ Is("ClearLocal")
    /\ Step(Put(heap, Var(X), Null))
    /\ UNCHANGED <<iter, called>>

NewList ==
    /\ Is("NewList")
    /\ LET l == NewListOf(heap)
       IN  Step(Push(Pop([heap EXCEPT !.list[l] = <<Top(heap)>>], 1), l))
    /\ UNCHANGED <<iter, called>>

\* get_index with list_get_item
GetIndex ==
    /\ Is("GetIndex")
    /\ LET item == Item(Resolve(heap, Stack(Len(heap.stack))), Head(code).i)
       IN  /\ Resolves(heap, item)
           /\ Step(Push(Pop(heap, 1), Resolve(heap, item)))
    /\ UNCHANGED <<iter, called>>

GetIndexRef ==
    /\ Is("GetIndexRef")
    /\ LET item == Item(Resolve(heap, Stack(Len(heap.stack))), Head(code).i)
       IN  \E h \in {make_alias(heap, item)} : Step(Push(Pop(h, 1), Get(h, item)))
    /\ UNCHANGED <<iter, called>>

\* SetIndex with list_set_item, whose first argument is a copy on the stack
SetIndex ==
    /\ Is("SetIndex")
    /\ LET base == Stack(Len(heap.stack) - 1)
       IN  \E h \in {unshare(heap, base)} :
             LET item == Item(Resolve(h, base), Head(code).i)
             IN  /\ Resolves(h, item)
                 /\ Step(Pop(assign(h, item, Top(h)), 2))
    /\ UNCHANGED <<iter, called>>

\* Mutant of CallAppend: the arguments stay on the stack.
CallAppend_unpopped ==
    /\ Is("CallAppend")
    /\ LET base == Stack(Len(heap.stack) - 1)
       IN  \E h \in {unshare(heap, base)} :
             Step([h EXCEPT !.list[Resolve(h, base)] = Append(@, Top(h))])
    /\ UNCHANGED <<iter, called>>

\* Call with list_append
CallAppend ==
    /\ Is("CallAppend")
    /\ LET base == Stack(Len(heap.stack) - 1)
       IN  \E h \in {unshare(heap, base)} :
             Step(Pop([h EXCEPT !.list[Resolve(h, base)] = Append(@, Top(h))], 2))
    /\ UNCHANGED <<iter, called>>

\* the iterator keeps the reference and a pointer to the items
NewIterator ==
    /\ Is("NewIterator")
    /\ iter' = [list |-> Resolve(heap, Stack(Len(heap.stack))), pos |-> 1,
                by_ref |-> stmt.by_ref, open |-> TRUE, over |-> stmt.x]
    /\ Step([Pop(heap, 1) EXCEPT !.object = Top(heap)])
    /\ UNCHANGED called

NextValue ==
    /\ Is("NextValue")
    /\ LET item == Item(iter.list, iter.pos)
       IN  \E h \in {IF iter.by_ref THEN make_alias(heap, item) ELSE heap} :
             Step(Push(h, Get(h, item)))
    /\ iter' = [iter EXCEPT !.pos = @ + 1]
    /\ UNCHANGED called

\* push_call_frame: the argument on the stack becomes the parameter
CallRoutine ==
    /\ Is("Call")
    /\ Step([Pop(heap, 1) EXCEPT !.var[Param] = Top(heap)])
    /\ called' = TRUE
    /\ UNCHANGED iter

\* pop_call_frame: the locals are destroyed, the last one first
PopLocal ==
    /\ Is("PopLocal")
    /\ Step(IF X = Each THEN [heap EXCEPT !.var[Each] = Null, !.object = Null]
            ELSE [heap EXCEPT !.var[X] = Null])
    /\ called' = (X # Param)
    /\ UNCHANGED iter

Opcode ==
    \/ PushConstant \/ GetVariable \/ GetReference \/ GetUnique \/ SetVariable \/ ClearLocal
    \/ NewList \/ GetIndex \/ GetIndexRef \/ SetIndex \/ CallAppend \/ NewIterator
    \/ NextValue \/ CallRoutine \/ PopLocal

Next ==
    \/ \E s \in Statement : Execute(s)
    \/ BeginTurn \/ EndLoop \/ BeginReturn
    \/ Opcode

Spec == Init /\ [][Next]_vars
-----------------------------------------------------------------------------
(* What is promised: the store of independent values                       *)

\* What is read in a variable.  (Sets of one element have TLC evaluate once.)
Content(v) == IF v \in List
              THEN [i \in DOMAIN heap.list[v] |-> Resolve(heap, Item(v, i))]
              ELSE v

ValueRead(x) == CHOOSE w \in {Content(v) : v \in {ListAt(x)}} : TRUE

\* Where an item is: if only its list leads to it, it belongs to the place from
\* which it is read, whichever lists are shared.
ItemLocation(x, l, i) ==
    IF Alone(heap, l, i) THEN <<"item of", Place(heap, Var(x)), i>>
    ELSE Place(heap, Item(l, i))

\* The places of the store with their locations.
Located ==
    {<<x, Place(heap, Var(x))>> : x \in Variable} \cup
    UNION {UNION {{<<<<x, i>>, ItemLocation(x, l, i)>> : i \in DOMAIN heap.list[l]} :
                  l \in {ListAt(x)} \cap List} : x \in Variable}

SamePlaces ==
    UNION {{<<pq[1][1], pq[2][1]>> : pq \in {y \in loc \X loc : y[1][2] = y[2][2]}} :
           loc \in {Located}}

\* What a statement does to the store.
Effects(s) ==
    CASE s.op = "set"     -> <<[op |-> "assign", x |-> s.x, w |-> s.w]>>
      [] s.op = "list"    -> <<[op |-> "list", x |-> s.x, w |-> s.w]>>
      [] s.op = "append"  -> <<[op |-> "append", x |-> s.x, w |-> s.w]>>
      [] s.op = "copy"    -> <<[op |-> "copy", x |-> s.x, y |-> s.y]>>
      [] s.op = "ref"     -> <<[op |-> "bind", x |-> s.x, y |-> s.y]>>
      [] s.op = "listOf"  -> <<[op |-> "listOf", x |-> s.x, y |-> s.y]>>
      [] s.op = "item"    -> <<[op |-> "copyItem", x |-> s.x, y |-> s.y, i |-> s.i]>>
      [] s.op = "itemRef" -> <<[op |-> "bindItem", x |-> s.x, y |-> s.y, i |-> s.i]>>
      [] s.op = "setItem" -> <<[op |-> "setItem", x |-> s.x, i |-> s.i, w |-> s.w]>>
      [] s.op = "call"    -> <<[op |-> "bind", x |-> Param, y |-> s.x]>>
      [] s.op = "next"    -> <<[op |-> "forget", x |-> Each],
                               [op |-> IF iter.by_ref THEN "bindItem" ELSE "copyItem",
                                x |-> Each, y |-> iter.over, i |-> s.i]>>
      [] OTHER            -> <<>>

\* The effects that the remaining opcodes have.
Pending ==
    IF stmt.op = "return"
    THEN [i \in DOMAIN code |-> [op |-> "forget", x |-> code[i].x]]
    ELSE IF stmt.op = "next" /\ Len(code) < 3 THEN Tail(Effects(stmt))
    ELSE Effects(stmt)

Store == INSTANCE ValueStore WITH todo <- Pending, val <- [x \in Variable |-> ValueRead(x)], same <- SamePlaces

(* Statements change what they name, by value or through a reference, and    *)
(* nothing else: boxes, sharing and the moment of a clone cannot be seen     *)
(* (variant.cpp, the opcodes that read and write variables and items).       *)
ImplementsStore == Store!StoreSpec
-----------------------------------------------------------------------------
(* Properties                                                              *)

TypeOK ==
    /\ heap.var \in [Variable -> Variant]
    /\ heap.box \in [Box -> Variant \cup {Freed}]
    /\ \A l \in List : \/ heap.list[l] = Freed
                      \/ /\ Len(heap.list[l]) \in 1..MaxLength
                         /\ \A i \in DOMAIN heap.list[l] :
                               heap.list[l][i] \in {Null} \cup Scalar \cup Box
    /\ Len(heap.stack) <= 2
    /\ \A i \in DOMAIN heap.stack : heap.stack[i] \in Variant
    /\ heap.object \in {Null} \cup Box
    /\ called \in BOOLEAN
    /\ iter.pos \in 0..(MaxLength + 1)
    /\ iter.open => iter.list \in List /\ iter.over \in Variable

(* Lists that several variants share have no reference that leads to one of  *)
(* their items: "we need to make sure that aliases are resolved, otherwise   *)
(* both lists may get mutated" (list.cpp 20-26, visit_foreach_statement).    *)
SharedListsPlain ==
    code = <<>> => \A l \in List : heap.list[l] # Freed /\ Count(heap, l) > 1 => Plain(heap, l)

(* While a loop runs, the raw pointer of its iterator is to the list that    *)
(* its collection holds, and the next item exists when it is taken           *)
(* (ListIterator in iterator.cpp).                                           *)
IteratorFollowsCollection ==
    iter.open => /\ iter.list = Resolve(heap, Iterated)
                 /\ Is("NextValue") => iter.pos \in DOMAIN heap.list[iter.list]

(* resolve ends, wherever it starts: no chain of references leads back to    *)
(* itself, also when a loop gives its variable one reference after the other *)
(* (Variant::resolve, the ClearLocal that visit_foreach_statement emits).    *)
ResolveEnds == \A b \in Box : heap.box[b] # Freed => Resolves(heap, InBox(b))

(* An assignment to an item is read in the variable that it names afterwards:*)
(* "to ensure it is unshared" (visit_assignment, SetIndex).                  *)
ItemAssigned ==
    [][Is("SetIndex") => \E s \in {stmt} : ValueRead(s.x)'[s.i] = s.w]_vars
=============================================================================
