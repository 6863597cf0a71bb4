---------------------------- MODULE ListAbstract ----------------------------
(***************************************************************************)
(* What the functions on lists promise: a sequence of items that grows and *)
(* shrinks anywhere, and a reference that stays with the item it was taken *)
(* from.  There is no capacity, no slot and no count here.                 *)
(***************************************************************************)
EXTENDS Integers, Sequences, SequencesExt

CONSTANTS Number, Object, Nothing

VARIABLES
    items,   \* the sequence of items
    target,  \* position of the item that the reference is to, 0 if to none
    kept,    \* what the reference reads when it is to no item
    call     \* the last call: <<function, arguments..., result>>

abstract == <<items, target, kept, call>>

Value == Number \cup Object
Size == Len(items)
Positions == [k \in DOMAIN items |-> k]
Index == (-Size..Size) \ {0}

\* A position counts from 1, or from the end if negative.
Position(i) == IF i < 0 THEN Size + 1 + i ELSE i

\* The new list in terms of the old one: its item k is the old item from[k], or
\* v if from[k] is 0.  The reference goes where its item goes.
Change(from, v) ==
    /\ items' = [k \in DOMAIN from |-> IF from[k] = 0 THEN v ELSE items[from[k]]]
    /\ target' = IF target = 0 THEN 0 ELSE SelectInSeq(from, LAMBDA j : j = target)
    /\ kept' = IF target # 0 /\ target' = 0 THEN items[target] ELSE kept

Insert(k, v) == Change(InsertAt(Positions, k, 0), v)
Delete(gone) == \E n \in 0..Size : \E from \in [1..n -> DOMAIN items] :
    /\ Range(from) = DOMAIN items \ gone
    /\ \A j, k \in DOMAIN from : j < k => from[j] < from[k]
    /\ Change(from, Nothing)
Found(v) == {k \in DOMAIN items : items[k] = v}

-----------------------------------------------------------------------------
AbstractInit ==
    items = <<>> /\ target = 0 /\ kept = Nothing /\ call = <<"list">>

AbstractInsert == \E v \in Value :
    \/ call' = <<"append", v>> /\ Insert(Size + 1, v)
    \/ call' = <<"prepend", v>> /\ Insert(1, v)
    \/ call' = <<"insert", Size + 1, v>> /\ Insert(Size + 1, v)
    \/ \E i \in Index : call' = <<"insert", i, v>> /\ Insert(Position(i), v)
    \/ /\ call' = <<"sorted_insert", v>>
       /\ \E k \in 1..Size + 1 :
            /\ \A j \in DOMAIN items : (items[j] < v) = (j < k)
            /\ IF k <= Size /\ items[k] = v THEN Change(Positions, v) ELSE Insert(k, v)

AbstractRemove ==
    \/ Size > 0 /\ call' = <<"pop", items[Size]>> /\ Delete({Size})
    \/ Size > 0 /\ call' = <<"shift", items[1]>> /\ Delete({1})
    \/ call' = <<"clear">> /\ Change(<<>>, Nothing)
    \/ \E i \in Index : call' = <<"remove_at", i>> /\ Delete({Position(i)})
    \/ \E v \in Value :
         \/ call' = <<"remove", v>> /\ Delete(Found(v))
         \/ /\ call' = <<"remove_first", v>>
            /\ Delete({k \in Found(v) : \A j \in Found(v) : k <= j})
         \/ /\ call' = <<"remove_last", v>>
            /\ Delete({k \in Found(v) : \A j \in Found(v) : k >= j})

AbstractReorder ==
    \/ call' = <<"reverse">> /\ Change(Reverse(Positions), Nothing)
    \/ /\ call' = <<"sort">>
       /\ \E p \in [DOMAIN items -> DOMAIN items] :
            /\ \A j, k \in DOMAIN p : j < k => p[j] # p[k] /\ items[p[j]] <= items[p[k]]
            /\ Change(p, Nothing)

\* An item is written, a reference is taken.
AbstractAccess == \E i \in Index :
    \/ /\ \E v \in Value : /\ call' = <<"set_item", i, v>>
                           /\ items' = [items EXCEPT ![Position(i)] = v]
       /\ UNCHANGED <<target, kept>>
    \/ call' = <<"refer", i>> /\ target' = Position(i) /\ UNCHANGED <<items, kept>>

\* The reference is written through, or dropped.
AbstractReference ==
    \/ \E v \in Value :
         /\ call' = <<"assign", v>>
         /\ IF target = 0 THEN kept' = v /\ UNCHANGED items
                          ELSE items' = [items EXCEPT ![target] = v] /\ UNCHANGED kept
         /\ UNCHANGED target
    \/ call' = <<"forget">> /\ target' = 0 /\ kept' = Nothing /\ UNCHANGED items

\* A copy shares no place with the original.
AbstractClone ==
    /\ call' = <<"clone">>
    /\ target' = 0 /\ UNCHANGED items
    /\ kept' = IF target = 0 THEN kept ELSE items[target]

AbstractOther == call' = <<"other">> /\ UNCHANGED <<items, target, kept>>

AbstractNext == \/ AbstractInsert \/ AbstractRemove \/ AbstractReorder
                \/ AbstractAccess \/ AbstractReference \/ AbstractClone
                \/ AbstractOther

AbstractSpec == AbstractInit /\ [][AbstractNext]_abstract
=============================================================================
