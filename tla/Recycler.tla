------------------------------ MODULE Recycler ------------------------------
(***************************************************************************)
(* Memory management of boxed values: reference counts (object.cpp), the   *)
(* list of candidates for a cycle and the collector of garbage cycles      *)
(* (runtime.cpp, from add_candidate to collect_white and pop_candidate).   *)
(*                                                                         *)
(* The code is recursive: releasing an object destroys it, which releases  *)
(* its items, any of which may become a candidate and start a collection   *)
(* in the middle of the destruction.  The model keeps the calls still to   *)
(* be made in todo, the next one first, and executes one per step.         *)
(*                                                                         *)
(* An object is a List; its items stand for whatever a collectable object  *)
(* refers to.  Freed memory is not reused: a step that touches it stops    *)
(* the program with a fault, as does an assertion that fails.              *)
(***************************************************************************)
EXTENDS Integers, Sequences, FiniteSets

CONSTANTS Object,         \* collectable objects, alive or not allocated yet
          Class,          \* a class: an object the runtime holds forever
          Nil,            \* nullptr
          Threshold,      \* gc_threshold
          MaxHandles,     \* bound: handles on an object outside of the heap
          MaxItems        \* bound: items in a list

ASSUME ClassIsObject == Class \in Object
ASSUME NilIsNoObject == Nil \notin Object
ASSUME ThresholdIsNat == Threshold \in Nat
ASSUME BoundsAreNat == MaxHandles \in Nat /\ MaxItems \in Nat

VARIABLES state,          \* unborn, alive (also while it is destroyed), freed
          ref_count,
          gc_color,
          next, previous, \* links of the candidate list
          items,          \* what an object refers to, in order
          handles,        \* references from the stack and from global variables
          gc_root, gc_count,
          gc_paused,
          todo,           \* the calls to be made, the next one first
          fault,          \* "none", or why the program stopped: "assert", "twice" or
                          \* the call that touched freed memory
          interrupted,    \* history: a collection has come upon an object that was in the
                          \* middle of its destruction
          cycle_found     \* history: the collector has found garbage that refers to itself

history == <<interrupted, cycle_found>>
heap == <<state, items, handles>>
list == <<next, previous, gc_root, gc_count>>
vars == <<state, ref_count, gc_color, next, previous, items, handles, gc_root,
          gc_count, gc_paused, todo, fault, interrupted, cycle_found>>

------------------------------------------------------------------------------
(* Calls. *)

Call(op, o) == [op |-> op, obj |-> o]

\* the callback of a traversal, or the release of a destructor, on each item of o
OnItems(op, o) == [i \in DOMAIN items[o] |-> Call(op, items[o][i])]

\* Make the call on top of todo, and the calls in calls before what follows it.
Then(calls) == todo' = calls \o Tail(todo)

is_candidate(o) == next[o] # Nil \/ previous[o] # Nil

\* o is being destroyed: its destructor runs but has not freed it yet
Dying(o) == \E i \in DOMAIN todo : todo[i] = Call("delete", o)

\* c takes its object, if a candidate, off the list
Removes(c) == c.op = "delete" \/ (c.op = "mark" /\ c.obj # Nil /\ gc_color[c.obj] # "purple")

\* the objects a call reads or writes
Touched(c) ==
    CASE c.op = "link" -> {c.obj, gc_root} \ {Nil}
      [] c.op = "pop" /\ gc_root # Nil -> {gc_root, next[gc_root]} \ {Nil}
      [] Removes(c) -> {c.obj, next[c.obj], previous[c.obj]} \ {Nil}
      [] OTHER -> {c.obj} \ {Nil}

TouchesFreed(c) == \E o \in Touched(c) : state[o] = "freed"

\* add_candidate asserts that its object has no predecessor in the list, and
\* remove_candidate that the root has none.
AssertFails(c) ==
    /\ c.op = "link" \/ (Removes(c) /\ c.obj = gc_root)
    /\ previous[c.obj] # Nil

\* The program makes the call op on o.
Calling(op, o) ==
    /\ fault = "none"
    /\ todo # <<>>
    /\ Head(todo) = Call(op, o)
    /\ ~TouchesFreed(Head(todo))
    /\ ~AssertFails(Head(todo))

Stop(why) ==
    /\ fault' = why
    /\ todo' = <<>>

Op == {"release", "link", "destroy", "delete", "collect", "mark", "marked", "grey",
       "trial", "scanAll", "scanned", "scan", "black", "undo", "pop", "white"}

TypeOK ==
    /\ state \in [Object -> {"unborn", "alive", "freed"}]
    /\ ref_count \in [Object -> Int]
    /\ gc_color \in [Object -> {"black", "grey", "white", "purple"}]
    /\ next \in [Object -> Object \cup {Nil}]
    /\ previous \in [Object -> Object \cup {Nil}]
    /\ items \in [Object -> Seq(Object)]
    /\ handles \in [Object -> 0..MaxHandles]
    /\ gc_root \in Object \cup {Nil}
    /\ gc_count \in Nat
    /\ gc_paused \in BOOLEAN
    /\ todo \in Seq([op : Op, obj : Object \cup {Nil}])
    /\ fault \in Op \cup {"none", "assert", "twice"}
    /\ interrupted \in BOOLEAN
    /\ cycle_found \in BOOLEAN

\* The runtime has created its classes: their handles were copied and dropped,
\* so that they are candidates from the start.
Init ==
    /\ state = [o \in Object |-> IF o = Class THEN "alive" ELSE "unborn"]
    /\ ref_count = [o \in Object |-> IF o = Class THEN 1 ELSE 0]
    /\ gc_color = [o \in Object |-> IF o = Class THEN "purple" ELSE "black"]
    /\ next = [o \in Object |-> Nil]
    /\ previous = [o \in Object |-> Nil]
    /\ items = [o \in Object |-> <<>>]
    /\ handles = [o \in Object |-> IF o = Class THEN 1 ELSE 0]
    /\ gc_root = Class
    /\ gc_count = 1
    /\ gc_paused = FALSE
    /\ todo = <<>>
    /\ fault = "none"
    /\ interrupted = FALSE
    /\ cycle_found = FALSE

------------------------------------------------------------------------------
(* What scripts and the host do between two calls of the memory manager. *)

AtRest == todo = <<>> /\ fault = "none"

\* make_handle
New(o) ==
    /\ AtRest
    /\ state[o] = "unborn"
    /\ state' = [state EXCEPT ![o] = "alive"]
    /\ ref_count' = [ref_count EXCEPT ![o] = 1]
    /\ handles' = [handles EXCEPT ![o] = 1]
    /\ UNCHANGED <<gc_color, items, list, gc_paused, todo, fault, history>>

\* what a script can name: a variable, or an item of an object in a variable
Accessible(o) ==
    handles[o] > 0 \/ \E p \in Object : /\ handles[p] > 0
                                        /\ \E i \in DOMAIN items[p] : items[p][i] = o

\* Mutation: a copy does not retain.
Copy_unretained(o) ==
    /\ AtRest
    /\ o # Class
    /\ Accessible(o)
    /\ handles[o] < MaxHandles
    /\ handles' = [handles EXCEPT ![o] = @ + 1]
    /\ UNCHANGED <<state, ref_count, gc_color, items, list, gc_paused, todo, fault, history>>

\* copy a handle or a variant: retain
Copy(o) ==
    /\ AtRest
    /\ o # Class
    /\ Accessible(o)
    /\ handles[o] < MaxHandles
    /\ handles' = [handles EXCEPT ![o] = @ + 1]
    /\ ref_count' = [ref_count EXCEPT ![o] = @ + 1]
    /\ UNCHANGED <<state, gc_color, items, list, gc_paused, todo, fault, history>>

\* the destructor of a handle or a variant: release
Drop(o) ==
    /\ AtRest
    /\ o # Class
    /\ handles[o] > 0
    /\ handles' = [handles EXCEPT ![o] = @ - 1]
    /\ todo' = <<Call("release", o)>>
    /\ UNCHANGED <<state, ref_count, gc_color, items, list, gc_paused, fault, history>>

\* store a copy of a variable in an object
Append_(p, o) ==
    /\ AtRest
    /\ handles[p] > 0 /\ handles[o] > 0
    /\ Class \notin {p, o}
    /\ Len(items[p]) < MaxItems
    /\ items' = [items EXCEPT ![p] = Append(@, o)]
    /\ ref_count' = [ref_count EXCEPT ![o] = @ + 1]
    /\ UNCHANGED <<state, handles, gc_color, list, gc_paused, todo, fault, history>>

\* Array::pop_last: the size is decremented, then the item destroyed
PopLast(p) ==
    /\ AtRest
    /\ handles[p] > 0
    /\ items[p] # <<>>
    /\ items' = [items EXCEPT ![p] = SubSeq(@, 1, Len(@) - 1)]
    /\ todo' = <<Call("release", items[p][Len(items[p])])>>
    /\ UNCHANGED <<state, handles, ref_count, gc_color, list, gc_paused, fault, history>>

suspend_gc ==
    /\ AtRest
    /\ gc_paused' = TRUE
    /\ UNCHANGED <<heap, ref_count, gc_color, list, todo, fault, history>>

resume_gc ==
    /\ AtRest
    /\ gc_paused' = FALSE
    /\ UNCHANGED <<heap, ref_count, gc_color, list, todo, fault, history>>

------------------------------------------------------------------------------
(* Reference counting. *)

is_full == gc_count = Threshold

\* Object::release and the head of Runtime::add_candidate: an object that has
\* lost a reference, but not its last one, may be in a garbage cycle.
release(o) ==
    /\ Calling("release", o)
    /\ ref_count' = [ref_count EXCEPT ![o] = @ - 1]
    /\ IF ref_count[o] = 1
       THEN /\ Then(<<Call("destroy", o)>>)
            /\ UNCHANGED gc_color
       ELSE IF gc_color[o] = "purple"
       THEN /\ Then(<<>>)
            /\ UNCHANGED gc_color
       ELSE /\ gc_color' = [gc_color EXCEPT ![o] = "purple"]
            /\ Then(IF is_full THEN <<Call("collect", Nil), Call("link", o)>>
                               ELSE <<Call("link", o)>>)
    /\ UNCHANGED <<heap, list, gc_paused, fault, history>>

\* The rest of add_candidate: o becomes the new root.
link(o) ==
    /\ Calling("link", o)
    /\ next' = [next EXCEPT ![o] = gc_root]
    /\ previous' = [p \in Object |-> IF p = gc_root THEN o ELSE previous[p]]
    /\ gc_root' = o
    /\ gc_count' = gc_count + 1
    /\ Then(<<>>)
    /\ UNCHANGED <<heap, ref_count, gc_color, gc_paused, fault, history>>

\* Object::destroy: the destructor of the value releases the items.
destroy(o) ==
    /\ Calling("destroy", o)
    /\ IF Dying(o)
       THEN Stop("twice")
       ELSE Then(OnItems("release", o) \o <<Call("delete", o)>>) /\ UNCHANGED fault
    /\ UNCHANGED <<heap, ref_count, gc_color, list, gc_paused, history>>

remove_candidate(o) ==
    /\ gc_count' = gc_count - 1
    /\ IF o = gc_root
       THEN /\ gc_root' = next[o]
            /\ previous' = [p \in Object |-> IF p = next[o] THEN Nil ELSE previous[p]]
            /\ next' = [next EXCEPT ![o] = Nil]
       ELSE /\ previous' = [p \in Object |-> IF p = o THEN Nil
                                             ELSE IF p = next[o] THEN previous[o]
                                             ELSE previous[p]]
            /\ next' = [p \in Object |-> IF p = o THEN Nil
                                         ELSE IF p = previous[o] THEN next[o]
                                         ELSE next[p]]
            /\ UNCHANGED gc_root

\* Mutation: ~Collectable does not ask whether the object is a candidate.
delete_unasked(o) ==
    /\ Calling("delete", o)
    /\ remove_candidate(o)
    /\ state' = [state EXCEPT ![o] = "freed"]
    /\ Then(<<>>)
    /\ UNCHANGED <<items, handles, ref_count, gc_color, gc_paused, fault, history>>

\* ~Collectable takes a candidate off the list, then the memory is freed.
delete(o) ==
    /\ Calling("delete", o)
    /\ IF is_candidate(o) THEN remove_candidate(o) ELSE UNCHANGED list
    /\ state' = [state EXCEPT ![o] = "freed"]
    /\ Then(<<>>)
    /\ UNCHANGED <<items, handles, ref_count, gc_color, gc_paused, fault, history>>

------------------------------------------------------------------------------
(* The cycle collector: trial deletion from every candidate, then a scan    *)
(* that restores what is referenced from elsewhere, then the collection.    *)

collect ==
    /\ Calling("collect", Nil)
    /\ Then(IF gc_paused THEN <<>>
            ELSE <<Call("mark", gc_root), Call("scanAll", Nil), Call("pop", Nil)>>)
    /\ UNCHANGED <<heap, ref_count, gc_color, list, gc_paused, fault, history>>

\* the loop of mark_candidates, at candidate o
mark_candidates(o) ==
    /\ Calling("mark", o)
    /\ IF o = Nil
       THEN Then(<<>>) /\ UNCHANGED list
       ELSE IF gc_color[o] = "purple"
       THEN Then(<<Call("grey", o), Call("marked", o)>>) /\ UNCHANGED list
       ELSE /\ remove_candidate(o)
            /\ Then((IF gc_color[o] = "black" /\ ref_count[o] <= 0
                     THEN <<Call("destroy", o)>> ELSE <<>>)
                    \o <<Call("marked", o)>>)
    /\ interrupted' = (interrupted \/ Dying(o))
    /\ UNCHANGED <<heap, ref_count, gc_color, gc_paused, fault, cycle_found>>

\* candidate = candidate->next, also after remove_candidate has reset the link
mark_next(o) ==
    /\ Calling("marked", o)
    /\ Then(<<Call("mark", next[o])>>)
    /\ UNCHANGED <<heap, ref_count, gc_color, list, gc_paused, fault, history>>

mark_grey(o) ==
    /\ Calling("grey", o)
    /\ IF gc_color[o] = "grey"
       THEN Then(<<>>) /\ UNCHANGED gc_color
       ELSE /\ gc_color' = [gc_color EXCEPT ![o] = "grey"]
            /\ Then(OnItems("trial", o))
    /\ UNCHANGED <<heap, ref_count, list, gc_paused, fault, history>>

trial_deletion(o) ==
    /\ Calling("trial", o)
    /\ ref_count' = [ref_count EXCEPT ![o] = @ - 1]
    /\ Then(<<Call("grey", o)>>)
    /\ UNCHANGED <<heap, gc_color, list, gc_paused, fault, history>>

\* collect: scan every candidate that is in the list now
scan_candidates ==
    /\ Calling("scanAll", Nil)
    /\ Then(IF gc_root = Nil THEN <<>> ELSE <<Call("scan", gc_root), Call("scanned", gc_root)>>)
    /\ UNCHANGED <<heap, ref_count, gc_color, list, gc_paused, fault, history>>

\* Mutation: the loop over the candidates does not advance.
scan_next_stuck(o) ==
    /\ Calling("scanned", o)
    /\ Then(IF next[o] = Nil THEN <<>> ELSE <<Call("scan", next[o]), Call("scanned", o)>>)
    /\ UNCHANGED <<heap, ref_count, gc_color, list, gc_paused, fault, history>>

scan_next(o) ==
    /\ Calling("scanned", o)
    /\ Then(IF next[o] = Nil THEN <<>> ELSE <<Call("scan", next[o]), Call("scanned", next[o])>>)
    /\ UNCHANGED <<heap, ref_count, gc_color, list, gc_paused, fault, history>>

\* Mutation: an object is taken for garbage whatever count it has left.
scan_unasked(o) ==
    /\ Calling("scan", o)
    /\ IF gc_color[o] # "grey"
       THEN Then(<<>>) /\ UNCHANGED gc_color
       ELSE /\ gc_color' = [gc_color EXCEPT ![o] = "white"]
            /\ Then(OnItems("scan", o))
    /\ UNCHANGED <<heap, ref_count, list, gc_paused, fault, history>>

scan(o) ==
    /\ Calling("scan", o)
    /\ IF gc_color[o] # "grey"
       THEN Then(<<>>) /\ UNCHANGED gc_color
       ELSE IF ref_count[o] > 0
       THEN Then(<<Call("black", o)>>) /\ UNCHANGED gc_color
       ELSE /\ gc_color' = [gc_color EXCEPT ![o] = "white"]
            /\ Then(OnItems("scan", o))
    /\ UNCHANGED <<heap, ref_count, list, gc_paused, fault, history>>

scan_black(o) ==
    /\ Calling("black", o)
    /\ gc_color' = [gc_color EXCEPT ![o] = "black"]
    /\ Then(OnItems("undo", o))
    /\ UNCHANGED <<heap, ref_count, list, gc_paused, fault, history>>

\* Mutation: the count that trial deletion has taken is not given back.
undo_trial_deletion_lost(o) ==
    /\ Calling("undo", o)
    /\ Then(IF gc_color[o] # "black" THEN <<Call("black", o)>> ELSE <<>>)
    /\ UNCHANGED <<heap, ref_count, gc_color, list, gc_paused, fault, history>>

\* Mutation: what a live object refers to is not colored black.
undo_trial_deletion_shallow(o) ==
    /\ Calling("undo", o)
    /\ ref_count' = [ref_count EXCEPT ![o] = @ + 1]
    /\ Then(<<>>)
    /\ UNCHANGED <<heap, gc_color, list, gc_paused, fault, history>>

undo_trial_deletion(o) ==
    /\ Calling("undo", o)
    /\ ref_count' = [ref_count EXCEPT ![o] = @ + 1]
    /\ Then(IF gc_color[o] # "black" THEN <<Call("black", o)>> ELSE <<>>)
    /\ UNCHANGED <<heap, gc_color, list, gc_paused, fault, history>>

\* The loop of collect_candidates.  pop_candidate leaves the count alone.
pop_candidate ==
    /\ Calling("pop", Nil)
    /\ IF gc_root = Nil
       THEN Then(<<>>) /\ UNCHANGED list
       ELSE /\ gc_root' = next[gc_root]
            /\ next' = [next EXCEPT ![gc_root] = Nil]
            /\ previous' = [p \in Object |-> IF p = next[gc_root] THEN Nil ELSE previous[p]]
            /\ Then(<<Call("white", gc_root), Call("pop", Nil)>>)
            /\ UNCHANGED gc_count
    /\ UNCHANGED <<heap, ref_count, gc_color, gc_paused, fault, history>>

\* What a script can still get at: the least set that holds every object with a
\* handle and the items of its members.
Reachable ==
    {o \in Object : \A S \in SUBSET Object :
        /\ \A p \in Object : handles[p] > 0 => p \in S
        /\ \A p \in S : \A i \in DOMAIN items[p] : items[p][i] \in S
        => o \in S}

\* S is out of reach, and each of its members is an item of one of them.
Garbage(S) ==
    /\ S \cap Reachable = {}
    /\ \A o \in S : \E p \in S : \E i \in DOMAIN items[p] : items[p][i] = o

\* what looks like garbage to the collector
White == {o \in Object : gc_color[o] = "white"}

\* Free-list objects are black
collect_white(o) ==
    /\ Calling("white", o)
    /\ IF gc_color[o] = "white" /\ ~is_candidate(o)
       THEN /\ gc_color' = [gc_color EXCEPT ![o] = "black"]
            /\ cycle_found' = (cycle_found \/ Garbage(White))
            /\ Then(OnItems("white", o) \o <<Call("destroy", o)>>)
       ELSE Then(<<>>) /\ UNCHANGED <<gc_color, cycle_found>>
    /\ UNCHANGED <<heap, ref_count, list, gc_paused, fault, interrupted>>

\* A call that touches memory that was freed: whatever follows is undefined.
use_after_free ==
    /\ fault = "none"
    /\ todo # <<>>
    /\ TouchesFreed(Head(todo))
    /\ Stop(Head(todo).op)
    /\ UNCHANGED <<heap, ref_count, gc_color, list, gc_paused, history>>

\* A call whose assertion fails.
assert_fails ==
    /\ fault = "none"
    /\ todo # <<>>
    /\ ~TouchesFreed(Head(todo))
    /\ AssertFails(Head(todo))
    /\ Stop("assert")
    /\ UNCHANGED <<heap, ref_count, gc_color, list, gc_paused, history>>

------------------------------------------------------------------------------

Internal ==
    \/ \E o \in Object : \/ release(o) \/ link(o) \/ destroy(o) \/ delete(o)
                         \/ mark_candidates(o) \/ mark_next(o)
                         \/ mark_grey(o) \/ trial_deletion(o)
                         \/ scan_next(o) \/ scan(o)
                         \/ scan_black(o) \/ undo_trial_deletion(o)
                         \/ collect_white(o)
    \/ collect \/ mark_candidates(Nil) \/ scan_candidates \/ pop_candidate
    \/ use_after_free \/ assert_fails

Mutator ==
    \/ \E o \in Object : New(o) \/ Copy(o) \/ Drop(o) \/ PopLast(o)
    \/ \E p, o \in Object : Append_(p, o)
    \/ suspend_gc \/ resume_gc

Next == Mutator \/ Internal

Spec == Init /\ [][Next]_vars

\* The engine is single-threaded: a call, once made, runs on.
FairSpec == Spec /\ WF_vars(Internal)

------------------------------------------------------------------------------
(* Properties. *)

\* No object that a script can get at is ever destroyed, neither by a release
\* nor by the collector.
LiveNotFreed == \A o \in Reachable : state[o] = "alive"

\* No collection has come upon an object in the middle of its destruction, and
\* none has destroyed a garbage cycle.  Either takes counts away twice: that is
\* what LiveNotFreed fails for.
Regular == ~interrupted /\ ~cycle_found

\* The program was stopped by its list of candidates: by an assertion about a link,
\* or by a link that leads to an object that was freed.
ListFault ==
    \/ fault = "assert"
    \/ /\ fault \in {"link", "delete", "mark", "scan", "scanned", "pop"}
       /\ \E o \in Object : state[o] = "freed" /\
              (gc_root = o \/ \E p \in Object : next[p] = o \/ previous[p] = o)

\* In a regular run no object that a script can get at is destroyed, no destructor
\* is entered twice, and memory that was freed is touched by no call but those
\* that follow a link of the list of candidates, whichever destructions a release
\* sets off and whichever collections start in the middle of them.
MemorySafe == Regular => LiveNotFreed /\ (fault = "none" \/ ListFault)

\* The handles and items that refer to o; the items of an object that is being
\* destroyed do not count.
References(o) ==
    handles[o] + Cardinality({r \in Object \X (1..MaxItems) :
        LET p == r[1] i == r[2]
        IN  state[p] = "alive" /\ ~Dying(p) /\ i \in DOMAIN items[p] /\ items[p][i] = o})

\* Between two calls of a regular run the count of an object is the number of its
\* references, and an object without references is gone: a collection that finds
\* no garbage has undone every trial deletion.
CountsExact ==
    AtRest /\ Regular => \A o \in Object : state[o] = "alive" =>
                ref_count[o] = References(o) /\ ref_count[o] > 0

\* Such a collection leaves no object in the middle of its coloring.
ColorsAtRest ==
    AtRest /\ Regular =>
        \A o \in Object : state[o] = "alive" => gc_color[o] \in {"black", "purple"}

\* In a regular run, what the collector is about to destroy is garbage, of
\* which every member is referred to by another: no count went to 0 by trial
\* deletion while the object was in use.
FoundIsGarbage ==
    Regular /\ todo # <<>> /\ Head(todo).op \in {"pop", "white"} => Garbage(White)

\* Whatever a release sets off, a destruction or a collection, comes to an end; in
\* a regular run the program can go on then, unless the list has stopped it.
ReleaseReturns == []<>(todo = <<>> /\ (Regular => fault = "none" \/ ListFault))

==============================================================================
